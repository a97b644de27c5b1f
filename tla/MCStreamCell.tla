---------------------------- MODULE MCStreamCell ----------------------------
(* Instances of StreamCell for TLC: two writers, one or two readers and the *)
(* expiry of the stream, over chunks of one and two bytes.                  *)
EXTENDS StreamCell

A == "a"
B == "b"
R == "r"
S == "s"
E == "expiry"

Chunk(w, n, size) == [by |-> w, id |-> n, size |-> size]
a1 == Chunk(A, 1, 1)
a2 == Chunk(A, 2, 2)
a3 == Chunk(A, 3, 1)
b1 == Chunk(B, 1, 1)
b2 == Chunk(B, 2, 1)
o1 == Chunk(None, 1, 1)
o2 == Chunk(None, 2, 1)
AllChunks == {a1, a2, a3, b1, b2, o1, o2}

WriteUpTo(n) == [kind |-> "write", upTo |-> n]
Close == [kind |-> "close"]
Fail == [kind |-> "fail"]

OneRun == [p \in {A, B, R, S, E} |-> "run"]

(* a stream is written, closed and failed while it is read                 *)
WriteAndRead ==
    [legacy |-> <<>>, run |-> OneRun,
     text |-> (A :> <<a1, a2, a3>>) @@ (B :> <<b1>>),
     calls |-> (A :> <<WriteUpTo(3), Close>>) @@ (B :> <<WriteUpTo(1), Fail>>),
     pulling |-> {R}, start |-> [r \in {R, S} |-> 0], backwards |-> {},
     pageChunks |-> 2, pageBytes |-> 2, passes |-> 0, faults |-> 1]

(* a stream of the earlier layout goes on, is closed and expires           *)
Legacy ==
    [WriteAndRead EXCEPT !.legacy = <<o1, o2>>, !.passes = 3, !.faults = 1,
       !.text[A] = <<a1, a2>>, !.calls = (A :> <<WriteUpTo(2), Close>>) @@ (B :> <<>>)]

(* a segmented stream expires while it is read and written                 *)
Expire ==
    [WriteAndRead EXCEPT !.passes = 3, !.pageChunks = 1, !.start[R] = 1,
       !.text[A] = <<a1, a3, a2>>, !.calls = (A :> <<WriteUpTo(3)>>) @@ (B :> <<>>)]

(* a writer of another run, and a second reader that starts at the end     *)
Foreign ==
    [WriteAndRead EXCEPT !.run[B] = "other", !.pulling = {R, S}, !.backwards = {S},
       !.start[S] = 1, !.faults = 0,
       !.text[A] = <<a1>>, !.calls = (A :> <<WriteUpTo(1), Close>>) @@ (B :> <<WriteUpTo(1)>>)]

AllSetups == {WriteAndRead, Legacy, Expire, Foreign}
=============================================================================
