-------------------------- MODULE MCQueueDelivery --------------------------
(* Instances of QueueDelivery for TLC: requests are interchangeable.         *)
EXTENDS QueueDelivery, TLC

CONSTANT m1

Interchangeable == Permutations(Procs)

(* Two small messages under one key, claims in a claim cell.                 *)
Claims(n, end) == [scope |-> "cell", inline |-> Msgs, sends |-> Msgs, delays |-> {0},
                   deliveries |-> n, expires |-> FALSE, end |-> end]

(* One message of a run that expires, with a stored or a small body.         *)
Body(scp, inl, n) == [scope |-> scp, inline |-> inl, sends |-> {m1}, delays |-> {0, 2},
                      deliveries |-> n, expires |-> TRUE, end |-> Horizon]

ClaimsAndBodies ==
    {Claims(2, 2), Body("run", {}, 2), Body("run", Msgs, 1), Body("cell", Msgs, 1), Body("cell", {}, 1)}

LateAnswer == {Claims(3, 3)}
=============================================================================
