---------------------------- MODULE HookOwnership ----------------------------
(***************************************************************************)
(* What a hook token promises the runs that want it: it has one owner,     *)
(* which a forced creation may displace.  A displacement is announced      *)
(* before the new hook exists, against the owner there is, and is over     *)
(* only when one of the two hooks is gone.  HookTokens implements it while *)
(* the hook-ID shard answers every call.                                   *)
(***************************************************************************)
CONSTANT Hooks

VARIABLES
    owners,   \* the hooks that can be resumed through the token
    spent,    \* the hooks that were ever created
    contest,  \* the displacement under way: {} or {[claimer, victim]}
    faulty    \* a call to the hook-ID shard failed

vars == <<owners, spent, contest, faulty>>

Init == owners = {} /\ spent = {} /\ contest = {} /\ ~faulty

Enter(h) ==
    /\ h \notin spent
    /\ owners' = owners \cup {h} /\ spent' = spent \cup {h}
    /\ UNCHANGED <<contest, faulty>>

(* Without a displacement under way, a token that is owned is not given.    *)
Create(h) == contest = {} /\ owners = {} /\ Enter(h)

(* During one only the claimer comes in, beside its victim at most.         *)
TakeOver(h) ==
    /\ \E c \in contest : c.claimer = h /\ owners \subseteq {c.victim}
    /\ Enter(h)

(* A hook is disposed, or its run ends or expires.                          *)
Leave(h) ==
    /\ h \in owners
    /\ owners' = owners \ {h}
    /\ UNCHANGED <<spent, contest, faulty>>

Challenge(claimer, victim) ==
    /\ contest = {} /\ claimer # victim
    /\ owners \subseteq {victim} /\ victim \in spent
    /\ contest' = {[claimer |-> claimer, victim |-> victim]}
    /\ UNCHANGED <<owners, spent, faulty>>

Settle ==
    /\ contest # {}
    /\ \A c \in contest : ~({c.claimer, c.victim} \subseteq owners)
    /\ contest' = {}
    /\ UNCHANGED <<owners, spent, faulty>>

(* Nothing is promised from the first failure on.                           *)
Fail == faulty'

Next ==
    \/ \E h \in Hooks : Create(h) \/ TakeOver(h) \/ Leave(h)
    \/ \E g, v \in Hooks : Challenge(g, v)
    \/ Settle \/ Fail

Spec == Init /\ [][Next]_vars

=============================================================================
