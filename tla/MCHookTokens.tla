---------------------------- MODULE MCHookTokens ----------------------------
(* Instances of HookTokens for TLC.                                         *)
EXTENDS HookTokens, TLC

CONSTANTS h1, h2

Interchangeable == Permutations(Procs)

(* One hook takes the token from the other by force.                        *)
Contended ==
    [keeping |-> {}, forcing |-> {h2}, legacy |-> {}, mortal |-> {},
     procs |-> Procs, renewals |-> 0, faults |-> {}]

(* The same from a hook whose run keeps the token, ends and expires.        *)
Retaining ==
    {[keeping |-> {h1}, forcing |-> {h2}, legacy |-> {h1}, mortal |-> {h1},
      procs |-> {p}, renewals |-> 1, faults |-> {"throws", "refuses"}] : p \in Procs}

ContendedAndRetaining == {Contended} \cup Retaining

(* One process replays a creation while the run ends.                       *)
Replaying ==
    {[keeping |-> {}, forcing |-> {}, legacy |-> {}, mortal |-> {h1},
      procs |-> Procs, renewals |-> 0, faults |-> {"refuses"}]}

=============================================================================
