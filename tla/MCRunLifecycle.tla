--------------------------- MODULE MCRunLifecycle ---------------------------
(* RunLifecycle on small instances; passes are interchangeable.             *)
EXTENDS RunLifecycle, TLC

Interchangeable == Permutations(Passes) \cup Permutations(Hooks) \cup Permutations(Waits)
                     \cup Permutations(Payloads)

=============================================================================
