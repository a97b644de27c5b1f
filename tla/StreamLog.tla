------------------------------ MODULE StreamLog ------------------------------
(***************************************************************************)
(* What a workflow stream promises its readers: a log that only grows, is  *)
(* finished at most once and may expire, and readers each of whom gets     *)
(* consecutive chunks from the index it asked for and is told of the end   *)
(* only after everything before it.  StreamCell implements it.             *)
(***************************************************************************)
EXTENDS Naturals, Sequences, SequencesExt

CONSTANT Readers

VARIABLES
    log,      \* every chunk ever appended
    outcome,  \* "open", "closed" or "errored": how the stream was finished
    expired,  \* whether retention removed it
    from,     \* the index each reader asked for
    got,      \* the chunks each reader was given
    told      \* "reading", or what the reader was told of the end

vars == <<log, outcome, expired, from, got, told>>

Init ==
    /\ outcome = "open"
    /\ ~expired
    /\ from \in [Readers -> Nat]
    /\ got = [r \in Readers |-> <<>>]
    /\ told = [r \in Readers |-> "reading"]

(* The chunks r may still be given.                                         *)
Owed(r) == SubSeq(log, from[r] + Len(got[r]) + 1, Len(log))

Grow ==
    /\ outcome = "open" /\ ~expired
    /\ IsStrictPrefix(log, log')
    /\ UNCHANGED <<outcome, expired, from, got, told>>

Finish ==
    /\ outcome = "open" /\ ~expired
    /\ outcome' \in {"closed", "errored"}
    /\ UNCHANGED <<log, expired, from, got, told>>

Expire ==
    /\ ~expired
    /\ expired' = TRUE
    /\ UNCHANGED <<log, outcome, from, got, told>>

(* A reader that asked for the last chunks learns which index that is.      *)
Seek(r) ==
    /\ told[r] = "reading" /\ got[r] = <<>>
    /\ \E i \in 0..Len(log) : from' = [from EXCEPT ![r] = i]
    /\ UNCHANGED <<log, outcome, expired, got, told>>

Deliver(r) ==
    /\ told[r] = "reading"
    /\ \E n \in 1..Len(Owed(r)) :
          got' = [got EXCEPT ![r] = @ \o SubSeq(Owed(r), 1, n)]
    /\ UNCHANGED <<log, outcome, expired, from, told>>

(* The end of a stream, and its failure, come after every chunk.            *)
TellEnd(r) ==
    /\ told[r] = "reading" /\ Owed(r) = <<>>
    /\ outcome \in {"closed", "errored"}
    /\ told' = [told EXCEPT ![r] = outcome]
    /\ UNCHANGED <<log, outcome, expired, from, got>>

TellExpired(r) ==
    /\ told[r] = "reading" /\ expired
    /\ told' = [told EXCEPT ![r] = "expired"]
    /\ UNCHANGED <<log, outcome, expired, from, got>>

(* Requests failed, perhaps of several readers at once: they know that they *)
(* do not know.                                                             *)
GiveUp ==
    \E failed \in SUBSET Readers :
        /\ \A r \in failed : told[r] = "reading"
        /\ told' = [r \in Readers |-> IF r \in failed THEN "failed" ELSE told[r]]
        /\ UNCHANGED <<log, outcome, expired, from, got>>

Next ==
    \/ Grow \/ Finish \/ Expire \/ GiveUp
    \/ \E r \in Readers : Seek(r) \/ Deliver(r) \/ TellEnd(r) \/ TellExpired(r)

Spec == Init /\ [][Next]_vars

=============================================================================
