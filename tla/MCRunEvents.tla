----------------------------- MODULE MCRunEvents -----------------------------
(***************************************************************************)
(* An instance of RunEvents for TLC.  The entities of a run meet only in    *)
(* the journal and in the run's status, so three parts of its behaviour are *)
(* explored, each with a journal of its own length: everything but hooks,   *)
(* hooks alone, and all event types together.  Which part a behaviour is of *)
(* is fixed when it starts; each part allows steps of RunEvents only.       *)
(***************************************************************************)
EXTENDS RunEvents, TLC

CONSTANTS
    HookEvents,   \* bound: journal length of the hooks' part
    MixedEvents   \* bound: journal length of the mixed part

VARIABLE part

EntityStep == RunStep \/ StepStep \/ WaitStep \/ CleanupStep \/ Tick

HookLife == (RunStep \/ HookStep \/ CleanupStep) /\ UNCHANGED attrMarks

PartInit == Init /\ part \in {"entities", "hooks", "mixed"}

PartNext ==
    /\ \/ part = "entities" /\ EntityStep
       \/ part = "hooks" /\ HookLife /\ seq' <= HookEvents
       \/ part = "mixed" /\ Next /\ seq' <= MixedEvents
    /\ UNCHANGED part

PartSpec == PartInit /\ [][PartNext]_<<vars, part>>

=============================================================================
