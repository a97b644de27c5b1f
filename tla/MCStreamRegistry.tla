-------------------------- MODULE MCStreamRegistry --------------------------
(* An instance of StreamRegistry for TLC.                                   *)
EXTENDS StreamRegistry, TLC

(* Stream 1 is A's, stream 2 is whoever's writes it first.                  *)
MCUses == {<<"A", 1>>, <<"A", 2>>, <<"B", 2>>}

MCPasses == {<<"A", 1>>, <<"A", 2>>, <<"B", 1>>}

(* A has written two rows of stream 1 and may have written stream 2.        *)
Written(second) ==
    [n \in {1, 2} |-> [owner |-> IF n = 1 \/ second > 0 THEN "A" ELSE None,
                      rows |-> IF n = 1 THEN 2 ELSE second]]
MCBegun == {Written(0), Written(1)}

=============================================================================
