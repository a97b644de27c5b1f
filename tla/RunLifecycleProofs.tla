------------------------- MODULE RunLifecycleProofs -------------------------
(***************************************************************************)
(* Proofs about RunLifecycle, for any number of hooks, waits, payloads,     *)
(* concurrent passes, calls and faults, and any page size.                  *)
(***************************************************************************)
EXTENDS RunLifecycle, FiniteSetTheorems, TLAPS

(* The records the actions build are records of the cell.                   *)
LEMMA EmptyRecords ==
    NoCleanup \in CleanupRecord /\ NoTerminal \in TerminalCleanupRecord /\ NoPass \in Pass
<1>1. NoCleanup \in CleanupRecord
  BY DEF NoCleanup, CleanupRecord, CleanupPhases
<1>2. NoTerminal \in TerminalCleanupRecord
  BY DEF NoTerminal, TerminalCleanupRecord, TerminalPhases
<1>3. NoPass \in Pass
  BY DEF NoPass, Pass, PassKinds
<1> QED BY <1>1, <1>2, <1>3

LEMMA CleanupRecords ==
    ASSUME NEW c \in CleanupRecord, NEW due \in {"ahead", "past"}, NEW phase \in CleanupPhases
    PROVE  /\ c.due \in {"ahead", "past"} /\ c.gen \in Nat /\ c.phase \in CleanupPhases
           /\ [c EXCEPT !.gen = @ + 1] \in CleanupRecord
           /\ [c EXCEPT !.due = due] \in CleanupRecord
           /\ [c EXCEPT !.due = due, !.gen = @ + 1] \in CleanupRecord
           /\ [c EXCEPT !.phase = phase, !.gen = @ + 1] \in CleanupRecord
<1> USE DEF CleanupRecord
<1>1. c.due \in {"ahead", "past"} /\ c.gen \in Nat /\ c.phase \in CleanupPhases
  OBVIOUS
<1>2. c.gen + 1 \in Nat
  BY <1>1
<1>3. [c EXCEPT !.gen = @ + 1] \in CleanupRecord
  BY <1>2
<1>4. [c EXCEPT !.due = due] \in CleanupRecord
  OBVIOUS
<1>5. [c EXCEPT !.due = due, !.gen = @ + 1] \in CleanupRecord
  BY <1>2
<1>6. [c EXCEPT !.phase = phase, !.gen = @ + 1] \in CleanupRecord
  BY <1>2
<1> HIDE DEF CleanupRecord
<1> QED BY <1>1, <1>3, <1>4, <1>5, <1>6

LEMMA TerminalRecords ==
    ASSUME NEW t \in TerminalCleanupRecord, NEW phase \in TerminalPhases
    PROVE  /\ t.gen \in Nat /\ t.phase \in TerminalPhases
           /\ [t EXCEPT !.gen = @ + 1] \in TerminalCleanupRecord
           /\ [t EXCEPT !.phase = phase, !.gen = @ + 1] \in TerminalCleanupRecord
<1> USE DEF TerminalCleanupRecord
<1>1. t.gen \in Nat /\ t.phase \in TerminalPhases
  OBVIOUS
<1>2. t.gen + 1 \in Nat
  BY <1>1
<1>3. [t EXCEPT !.gen = @ + 1] \in TerminalCleanupRecord
  BY <1>2
<1>4. [t EXCEPT !.phase = phase, !.gen = @ + 1] \in TerminalCleanupRecord
  BY <1>2
<1> HIDE DEF TerminalCleanupRecord
<1> QED BY <1>1, <1>3, <1>4

LEMMA InitType == Init => TypeOK
<1> SUFFICES ASSUME Init PROVE TypeOK
  OBVIOUS
<1>1. cleanup \in CleanupRecord /\ terminal \in TerminalCleanupRecord
  BY EmptyRecords DEF Init
<1>2. passes \in [Passes -> Pass]
  BY EmptyRecords DEF Init
<1>3. inline \in [{"sweep", "manual"} -> Nat]
  BY DEF Init
<1>4. tomb \in BOOLEAN /\ catalog \in BOOLEAN
  BY DEF Init
<1> QED BY <1>1, <1>2, <1>3, <1>4, SizesAssumption DEF Init, TypeOK

LEMMA DoneType ==
    ASSUME TypeOK, NEW p \in Passes, Done(p)
    PROVE  passes' \in [Passes -> Pass]
BY EmptyRecords DEF TypeOK, Done

LEMMA StartPassType ==
    ASSUME TypeOK, NEW p \in Passes, NEW alarmed \in BOOLEAN, NEW kind \in PassKinds,
           NEW gen \in Nat, NEW page \in SUBSET (Hooks \cup Payloads), NEW refs \in SUBSET Hooks,
           NEW more \in BOOLEAN, StartPass(p, alarmed, kind, gen, page, refs, more)
    PROVE  passes' \in [Passes -> Pass]
BY DEF TypeOK, StartPass, Pass

LEMMA MoreType == \A S : More(S) \in BOOLEAN
BY DEF More

LEMMA PagesType == \A S : \A P \in Pages(S) : P \subseteq S
BY DEF Pages

(* A page is a finite set: its size is a number.                            *)
LEMMA PageCardinality ==
    ASSUME NEW P \in SUBSET (Hooks \cup Payloads)
    PROVE  Cardinality(P) \in Nat
<1>1. IsFiniteSet(Hooks \cup Payloads)
  BY SizesAssumption, FS_Union
<1>2. IsFiniteSet(P)
  BY <1>1, FS_Subset
<1> QED BY <1>2, FS_CardinalityType

LEMMA ApplyEventType == TypeOK /\ ApplyEvent => TypeOK'
<1> SUFFICES ASSUME TypeOK, ApplyEvent PROVE TypeOK'
  OBVIOUS
<1> USE DEF TypeOK, untouched, remote
<1>1. CASE CreateRun
  BY <1>1 DEF CreateRun
<1>2. ASSUME NEW h \in Hooks, CreateHook(h) PROVE TypeOK'
  BY <1>2 DEF CreateHook
<1>3. ASSUME NEW h \in Hooks, DisposeHook(h) PROVE TypeOK'
  BY <1>3 DEF DisposeHook
<1>4. ASSUME NEW h \in Hooks, ReplayDisposal(h) PROVE TypeOK'
  BY <1>4, SizesAssumption DEF ReplayDisposal
<1>5. ASSUME NEW h \in Hooks, ForceDisposeHook(h) PROVE TypeOK'
  BY <1>5 DEF ForceDisposeHook
<1>6. ASSUME NEW w \in Waits, CreateWait(w) PROVE TypeOK'
  BY <1>6 DEF CreateWait
<1>7. ASSUME NEW retain \in BOOLEAN, EndRun(retain) PROVE TypeOK'
  BY <1>7 DEF EndRun, TerminalBookkeeping, CleanupRecord, TerminalCleanupRecord, CleanupPhases,
              TerminalPhases
<1>8. ASSUME NEW retain \in BOOLEAN, NEW due \in Due, ReplayEnd(retain, due) PROVE TypeOK'
  BY <1>8, SizesAssumption
     DEF ReplayEnd, TerminalBookkeeping, CleanupRecord, TerminalCleanupRecord, CleanupPhases,
         TerminalPhases, Due
<1> QED BY <1>1, <1>2, <1>3, <1>4, <1>5, <1>6, <1>7, <1>8 DEF ApplyEvent

LEMMA QueueRegistryType == TypeOK /\ QueueRegistry => TypeOK'
BY DEF QueueRegistry, RegisterQueuePayload, UnregisterQueuePayload, TypeOK, remote

LEMMA RetentionRpcType == TypeOK /\ RetentionRpc => TypeOK'
<1> SUFFICES ASSUME TypeOK, RetentionRpc PROVE TypeOK'
  OBVIOUS
<1>0. cleanup \in CleanupRecord /\ "retained" \in CleanupPhases /\ Due = {"ahead", "past"}
  BY DEF TypeOK, CleanupPhases, Due
<1>1. ASSUME NEW due \in Due, ScheduleCleanup(due) PROVE TypeOK'
  <2>1. cleanup' \in CleanupRecord
    BY <1>0, <1>1 DEF ScheduleCleanup, CleanupRecord
  <2> QED BY <1>1, <2>1, SizesAssumption DEF ScheduleCleanup, TypeOK, remote
<1>2. ASSUME NEW due \in Due, EnforceRetention(due) PROVE TypeOK'
  <2>1. [phase |-> "retained", due |-> due, gen |-> 0] \in CleanupRecord
    BY <1>0 DEF CleanupRecord
  <2>2. EarlierDeadline(due) \in CleanupRecord
    BY <1>0, CleanupRecords DEF EarlierDeadline
  <2>3. cleanup' \in CleanupRecord
    BY <1>0, <1>2, <2>1, <2>2 DEF EnforceRetention
  <2>4. inline' \in [{"sweep", "manual"} -> Nat]
    BY <1>2 DEF EnforceRetention, TypeOK
  <2> QED BY <1>2, <2>3, <2>4, SizesAssumption DEF EnforceRetention, TypeOK, remote
<1>3. CASE CleanupNow
  <2>1. [phase |-> "retained", due |-> "past", gen |-> 1] \in CleanupRecord
    BY <1>0 DEF CleanupRecord
  <2>2. [cleanup EXCEPT !.due = "past", !.gen = @ + 1] \in CleanupRecord
    BY <1>0, CleanupRecords
  <2>3. cleanup' \in CleanupRecord
    BY <1>0, <1>3, <2>1, <2>2 DEF CleanupNow
  <2>4. inline' \in [{"sweep", "manual"} -> Nat]
    BY <1>3 DEF CleanupNow, TypeOK
  <2> QED BY <1>3, <2>3, <2>4, SizesAssumption DEF CleanupNow, TypeOK, remote
<1>4. CASE RearmCleanup
  BY <1>4, SizesAssumption DEF RearmCleanup, AlarmForRetention, cell, remote, TypeOK
<1> QED BY <1>1, <1>2, <1>3, <1>4 DEF RetentionRpc

(* What a page leaves to its caller.                                        *)
PageType ==
    /\ run' \in {"none", "live", "terminal", "deleted"}
    /\ made' \subseteq Hooks /\ hooks' \subseteq Hooks
    /\ disposed' \subseteq Hooks /\ markers' \subseteq Hooks
    /\ waits' \subseteq Waits /\ regs' \subseteq Payloads
    /\ cleanup' \in CleanupRecord /\ terminal' \in TerminalCleanupRecord
    /\ tomb' \in BOOLEAN
    /\ alarm' \in {"none", "soon", "due"}
    /\ passes' \in [Passes -> Pass]
    /\ counted' \in Nat
    /\ drained' \subseteq Hooks \cup Payloads /\ known' \subseteq Payloads

LEMMA LocalPageType ==
    ASSUME TypeOK, LeaveRetained \/ DeletePayloadBatch \/ DeleteTerminalWaitPage \/ NothingDue
    PROVE  PageType /\ UNCHANGED remote
<1>1. CASE LeaveRetained
  <2>1. cleanup' \in CleanupRecord
    BY <1>1, CleanupRecords DEF LeaveRetained, TypeOK, CleanupPhases
  <2> QED BY <1>1, <2>1 DEF LeaveRetained, PageType, TypeOK
<1>2. CASE DeletePayloadBatch
  <2>1. PICK batch \in SUBSET Keys :
          /\ hooks' = Kept("hook", hooks, batch)
          /\ disposed' = Kept("released", disposed, batch)
          /\ markers' = Kept("ref", markers, batch)
          /\ waits' = Kept("wait", waits, batch)
          /\ regs' = Kept("payload", regs, batch)
          /\ terminal' \in {terminal, NoTerminal}
          /\ run' \in {run, "deleted"}
          /\ cleanup' \in {[cleanup EXCEPT !.gen = @ + 1], NoCleanup}
          /\ alarm' \in {"none", "soon"}
    BY <1>2 DEF DeletePayloadBatch
  <2>2. cleanup' \in CleanupRecord /\ terminal' \in TerminalCleanupRecord
    BY <2>1, EmptyRecords, CleanupRecords DEF TypeOK, CleanupPhases
  <2>3. /\ hooks' \subseteq Hooks /\ disposed' \subseteq Hooks /\ markers' \subseteq Hooks
        /\ waits' \subseteq Waits /\ regs' \subseteq Payloads
    BY <2>1 DEF Kept, TypeOK
  <2>4. tomb' \in BOOLEAN
    BY <1>2 DEF DeletePayloadBatch
  <2> QED BY <1>2, <2>1, <2>2, <2>3, <2>4 DEF DeletePayloadBatch, PageType, TypeOK
<1>3. CASE DeleteTerminalWaitPage
  <2>1. terminal' \in TerminalCleanupRecord
    BY <1>3, EmptyRecords, TerminalRecords
       DEF DeleteTerminalWaitPage, FinishTerminal, TypeOK, TerminalPhases
  <2>2. alarm' \in {"none", "soon", "due"}
    BY <1>3 DEF DeleteTerminalWaitPage, FinishTerminal, AlarmForRetention
  <2> QED BY <1>3, <2>1, <2>2 DEF DeleteTerminalWaitPage, PageType, TypeOK
<1>4. CASE NothingDue
  BY <1>4 DEF NothingDue, pageVars, PageType, TypeOK
<1> QED BY <1>1, <1>2, <1>3, <1>4
        DEF LeaveRetained, DeletePayloadBatch, DeleteTerminalWaitPage, NothingDue, pageVars

LEMMA StartedPageType ==
    ASSUME TypeOK, NEW p \in Passes, NEW alarmed \in BOOLEAN, NEW rest \in {"none", "soon", "due"},
           StartRetentionPass(p, alarmed, rest) \/ StartTerminalPass(p, alarmed, rest)
    PROVE  PageType /\ UNCHANGED remote
<1>0. cleanup.gen \in Nat /\ terminal.gen \in Nat
  BY CleanupRecords, TerminalRecords DEF TypeOK, CleanupPhases, TerminalPhases
<1>1. /\ markers \in SUBSET Hooks /\ hooks \in SUBSET Hooks /\ hooks \in SUBSET (Hooks \cup Payloads)
      /\ {} \in SUBSET Hooks /\ {} \in SUBSET (Hooks \cup Payloads)
      /\ {"small", "hooks", "markers", "index", "streams", "queues"} \subseteq PassKinds
  BY DEF TypeOK, PassKinds
<1>2. passes' \in [Passes -> Pass]
  <2>1. ASSUME NEW refs \in Pages(markers), NEW kind \in {"index", "markers"}, NEW gen \in Nat,
               StartPass(p, alarmed, kind, gen, {}, refs, More(markers))
        PROVE  passes' \in [Passes -> Pass]
    <3>1. refs \in SUBSET Hooks
      BY <1>1, PagesType
    <3>2. kind \in PassKinds /\ More(markers) \in BOOLEAN /\ {} \in SUBSET (Hooks \cup Payloads)
      BY <1>1, MoreType
    <3>3. StartPass(p, alarmed, kind, gen, {}, refs, More(markers))
      BY <2>1
    <3> QED BY ONLY TypeOK, <3>1, <3>2, <3>3, StartPassType
  <2>2. ASSUME NEW page \in Pages(hooks) \cup Pages(regs), NEW kind \in {"hooks", "queues"},
               NEW gen \in Nat, NEW more \in BOOLEAN,
               StartPass(p, alarmed, kind, gen, page, {}, more)
        PROVE  passes' \in [Passes -> Pass]
    <3>1. page \in SUBSET (Hooks \cup Payloads)
      BY PagesType DEF TypeOK
    <3>2. kind \in PassKinds /\ {} \in SUBSET Hooks
      BY <1>1
    <3>3. StartPass(p, alarmed, kind, gen, page, {}, more)
      BY <2>2
    <3> QED BY ONLY TypeOK, <3>1, <3>2, <3>3, StartPassType
  <2>3. CASE StartRetentionPass(p, alarmed, rest)
    <3>1. CASE StartPass(p, alarmed, "streams", cleanup.gen, {}, {}, TRUE)
      BY <1>0, <1>1, <3>1, StartPassType
    <3> QED BY <1>0, <2>1, <2>2, <2>3, <3>1, MoreType DEF StartRetentionPass
  <2>4. CASE StartTerminalPass(p, alarmed, rest)
    <3>1. CASE StartPass(p, alarmed, "small", terminal.gen, hooks, markers, FALSE)
      BY <1>0, <1>1, <3>1, StartPassType
    <3> QED BY <1>0, <2>1, <2>2, <2>4, <3>1, MoreType DEF StartTerminalPass
  <2> QED BY <2>3, <2>4
<1>3. alarm' = rest /\ UNCHANGED pageVars
  BY DEF StartRetentionPass, StartTerminalPass
<1> QED BY <1>2, <1>3 DEF pageVars, PageType, TypeOK

LEMMA ExecutePageType ==
    ASSUME TypeOK, NEW p \in Passes, NEW alarmed \in BOOLEAN, NEW rest \in {"none", "soon", "due"},
           ExecutePage(p, alarmed, rest)
    PROVE  PageType /\ UNCHANGED remote
BY LocalPageType, StartedPageType DEF ExecutePage

(* A page that commits leaves a record of the cell.                         *)
LEMMA AdvanceTypes ==
    ASSUME TypeOK, NEW p \in Passes
    PROVE  /\ \A next \in TerminalPhases :
                AdvanceTerminal(p, next) => terminal' \in TerminalCleanupRecord
           /\ \A next \in CleanupPhases : Advance(p, next) => cleanup' \in CleanupRecord
<1>1. ASSUME NEW next \in TerminalPhases, AdvanceTerminal(p, next)
      PROVE  terminal' \in TerminalCleanupRecord
  <2>1. terminal \in TerminalCleanupRecord /\ terminal.phase \in TerminalPhases
    BY <1>1, TerminalRecords DEF TypeOK
  <2>2. CASE passes[p].more
    <3>1. terminal' = [terminal EXCEPT !.phase = terminal.phase, !.gen = @ + 1]
      BY <1>1, <2>2 DEF AdvanceTerminal
    <3> QED BY <2>1, <3>1, TerminalRecords
  <2>3. CASE ~passes[p].more
    <3>1. terminal' = [terminal EXCEPT !.phase = next, !.gen = @ + 1]
      BY <1>1, <2>3 DEF AdvanceTerminal
    <3> QED BY <1>1, <2>1, <3>1, TerminalRecords
  <2> QED BY <2>2, <2>3
<1>2. ASSUME NEW next \in CleanupPhases, Advance(p, next)
      PROVE  cleanup' \in CleanupRecord
  <2>1. /\ cleanup \in CleanupRecord /\ cleanup.phase \in CleanupPhases
        /\ cleanup.due \in {"ahead", "past"}
    BY DEF TypeOK, CleanupRecord
  <2>2. CASE passes[p].more
    <3>1. cleanup' = [cleanup EXCEPT !.phase = cleanup.phase, !.gen = @ + 1]
      BY <1>2, <2>2 DEF Advance
    <3> QED BY <2>1, <3>1, CleanupRecords
  <2>3. CASE ~passes[p].more
    <3>1. cleanup' = [cleanup EXCEPT !.phase = next, !.gen = @ + 1]
      BY <1>2, <2>3 DEF Advance
    <3> QED BY <1>2, <2>1, <3>1, CleanupRecords
  <2> QED BY <2>2, <2>3
<1> QED BY <1>1, <1>2

LEMMA CommitType ==
    ASSUME TypeOK, NEW p \in Passes, Commit(p)
    PROVE  TypeOK'
<1>0. /\ passes[p].page \subseteq Hooks \cup Payloads /\ passes[p].refs \subseteq Hooks
      /\ passes[p].alarmed \in BOOLEAN /\ passes[p].gen \in Nat
  BY DEF TypeOK, Pass
<1>1. UNCHANGED <<inline, remote, known, calls, faults>>
  BY DEF Commit
<1> SUFFICES PageType
  BY <1>1 DEF TypeOK, PageType, remote
<1>2. CASE CommitSmall(p) \/ CommitHooks(p) \/ CommitMarkers(p)
  <2>1. passes' \in [Passes -> Pass]
    BY <1>2, DoneType DEF CommitSmall, CommitHooks, CommitMarkers
  <2>2. terminal' \in TerminalCleanupRecord
    <3>1. "markers" \in TerminalPhases /\ "waits" \in TerminalPhases
      BY DEF TerminalPhases
    <3> QED BY <1>2, <3>1, EmptyRecords, AdvanceTypes
            DEF CommitSmall, CommitHooks, CommitMarkers, FinishTerminal
  <2>3. alarm' \in {"none", "soon", "due"}
    BY <1>2 DEF CommitSmall, CommitHooks, CommitMarkers, FinishTerminal, AlarmForRetention
  <2> QED BY <1>1, <1>2, <2>1, <2>2, <2>3 DEF CommitSmall, CommitHooks, CommitMarkers, PageType, TypeOK
<1>3. CASE SmallFallsBack(p)
  <2>1. passes' \in [Passes -> Pass]
    <3>1. PICK page \in Pages(hooks) :
            StartPass(p, passes[p].alarmed, "hooks", passes[p].gen, page, {}, More(hooks))
      BY <1>3 DEF SmallFallsBack
    <3>2. page \in SUBSET (Hooks \cup Payloads) /\ {} \in SUBSET Hooks /\ "hooks" \in PassKinds
      BY PagesType DEF TypeOK, PassKinds
    <3> QED BY <1>0, <3>1, <3>2, MoreType, StartPassType
  <2> QED BY <1>1, <1>3, <2>1 DEF SmallFallsBack, cell, PageType, TypeOK
<1>4. CASE CommitIndex(p) \/ CommitStreams(p) \/ CommitQueues(p)
  <2>1. passes' \in [Passes -> Pass]
    BY <1>4, DoneType DEF CommitIndex, CommitStreams, CommitQueues
  <2>2. cleanup' \in CleanupRecord
    <3>1. "streams" \in CleanupPhases /\ "queues" \in CleanupPhases /\ "payload" \in CleanupPhases
      BY DEF CleanupPhases
    <3> QED BY <1>4, <3>1, AdvanceTypes DEF CommitIndex, CommitStreams, CommitQueues
  <2>3. counted' \in Nat
    BY <1>0, <1>4, PageCardinality DEF CommitIndex, CommitStreams, CommitQueues, TypeOK
  <2>4. drained' \subseteq Hooks \cup Payloads
    BY <1>0, <1>4 DEF CommitIndex, CommitStreams, CommitQueues, TypeOK
  <2> QED BY <1>1, <1>4, <2>1, <2>2, <2>3, <2>4
          DEF CommitIndex, CommitStreams, CommitQueues, PageType, TypeOK
<1> QED BY <1>2, <1>3, <1>4 DEF Commit

LEMMA PassStepType ==
    ASSUME TypeOK, NEW p \in Passes,
           CallOut(p) \/ Commit(p) \/ CommitStale(p) \/ CallFails(p) \/ PassLost(p)
    PROVE  TypeOK'
<1>1. CASE CallOut(p)
  <2>1. passes[p] \in Pass
    BY DEF TypeOK
  <2>2. purged' \subseteq Hooks \cup Payloads /\ catalog' \in BOOLEAN /\ streams' \in 0..Streams
    BY <1>1, <2>1, SizesAssumption DEF CallOut, TypeOK, Pass
  <2>3. passes' \in [Passes -> Pass]
    <3>1. PICK m \in BOOLEAN : passes' = [passes EXCEPT ![p] = [@ EXCEPT !.called = TRUE, !.more = m]]
      <4>1. passes[p].more \in BOOLEAN /\ (streams' > 0) \in BOOLEAN
        BY <2>1 DEF Pass
      <4> DEFINE m == IF passes[p].kind = "streams" THEN streams' > 0 ELSE passes[p].more
      <4>2. m \in BOOLEAN
        BY <4>1
      <4>3. passes' = [passes EXCEPT ![p] = [@ EXCEPT !.called = TRUE, !.more = m]]
        BY <1>1, <2>1 DEF CallOut, TypeOK
      <4> QED BY <4>2, <4>3
    <3>2. [passes[p] EXCEPT !.called = TRUE, !.more = m] \in Pass
      BY <2>1 DEF Pass
    <3> QED BY <3>1, <3>2 DEF TypeOK
  <2> QED BY <1>1, <2>2, <2>3 DEF CallOut, cell, TypeOK
<1>2. CASE Commit(p)
  BY <1>2, CommitType
<1>3. CASE CommitStale(p)
  BY <1>3, DoneType DEF CommitStale, cell, remote, TypeOK
<1>4. CASE CallFails(p)
  <2>1. cleanup' \in CleanupRecord /\ terminal' \in TerminalCleanupRecord
    <3>1. /\ cleanup \in CleanupRecord /\ [cleanup EXCEPT !.gen = @ + 1] \in CleanupRecord
          /\ terminal \in TerminalCleanupRecord
          /\ [terminal EXCEPT !.gen = @ + 1] \in TerminalCleanupRecord
      BY CleanupRecords, TerminalRecords DEF TypeOK, CleanupPhases, TerminalPhases
    <3> QED BY <1>4, <3>1 DEF CallFails, RecordFailure
  <2>2. alarm' \in {"none", "soon", "due"}
    BY <1>4 DEF CallFails, RecordFailure, TypeOK
  <2> QED BY <1>4, <2>1, <2>2, DoneType, SizesAssumption DEF CallFails, remote, TypeOK
<1>5. CASE PassLost(p)
  BY <1>5, DoneType, SizesAssumption DEF PassLost, cell, remote, TypeOK
<1> QED BY <1>1, <1>2, <1>3, <1>4, <1>5

LEMMA AlarmPageType ==
    ASSUME TypeOK, NEW p \in Passes, FireAlarm(p)
    PROVE  TypeOK'
<1>1. PageType /\ UNCHANGED remote
  BY ExecutePageType DEF FireAlarm
<1> QED BY <1>1 DEF FireAlarm, PageType, remote, TypeOK

LEMMA InlineType ==
    ASSUME TypeOK, NEW caller \in {"sweep", "manual"}
    PROVE  /\ InlineSkip(caller) => TypeOK'
           /\ \A p \in Passes : InlinePage(p, caller) => TypeOK'
<1>1. inline[caller] > 0 /\ inline' = [inline EXCEPT ![caller] = @ - 1]
        => inline' \in [{"sweep", "manual"} -> Nat]
  BY DEF TypeOK
<1>2. ASSUME InlineSkip(caller) PROVE TypeOK'
  BY <1>1, <1>2 DEF InlineSkip, cell, remote, TypeOK
<1>3. ASSUME NEW p \in Passes, InlinePage(p, caller) PROVE TypeOK'
  <2>1. alarm \in {"none", "soon", "due"}
    BY DEF TypeOK
  <2>2. PageType /\ UNCHANGED remote
    BY <1>3, <2>1, ExecutePageType DEF InlinePage
  <2> QED BY <1>1, <1>3, <2>2 DEF InlinePage, PageType, remote, TypeOK
<1> QED BY <1>2, <1>3

LEMMA NextType == TypeOK /\ [Next]_vars => TypeOK'
<1> SUFFICES ASSUME TypeOK, [Next]_vars PROVE TypeOK'
  OBVIOUS
<1>1. CASE DeadlinePasses
  <2>1. cleanup' \in CleanupRecord
    BY <1>1 DEF DeadlinePasses, TypeOK, CleanupRecord
  <2> QED BY <1>1, <2>1 DEF DeadlinePasses, untouched, remote, TypeOK
<1>2. CASE UNCHANGED vars
  BY <1>2 DEF vars, cell, remote, TypeOK
<1> QED BY <1>1, <1>2, ApplyEventType, QueueRegistryType, RetentionRpcType, InlineType,
           AlarmPageType, PassStepType
        DEF Next, PassStep

(* Every state of the cell is well typed: the record, the alarm, the page   *)
(* each pass holds and the counters of WorkflowRunDO.ts, for any sizes.     *)
THEOREM TypeCorrect == Spec => []TypeOK
<1>1. Init => TypeOK
  BY InitType
<1>2. TypeOK /\ [Next]_vars => TypeOK'
  BY NextType
<1> QED BY <1>1, <1>2, PTL DEF Spec

(* No deleteAlarm strands work: while there is a record, the alarm is set or *)
(* the handler that cleared it is about to set it.                          *)

(* Whatever a step does, the cell is armed if it leaves the alarm set or    *)
(* stores no record.                                                        *)
LEMMA ArmedBySetting ==
    ASSUME alarm' # "none" \/ (cleanup'.phase = "none" /\ terminal'.phase = "none")
    PROVE  WorkIsArmed'
BY DEF WorkIsArmed, Scheduled

(* A step that leaves the records, the alarm and the passes alone.          *)
LEMMA ArmedByKeeping ==
    ASSUME WorkIsArmed, UNCHANGED <<cleanup, terminal, alarm, passes>>
    PROVE  WorkIsArmed'
BY DEF WorkIsArmed, Scheduled, Idle, Current, TerminalKinds

(* A step that changes one pass only, a pass no arming rests on.            *)
LEMMA ArmedByOthers ==
    ASSUME TypeOK, WorkIsArmed, NEW p \in Passes, NEW new \in Pass,
           passes' = [passes EXCEPT ![p] = new],
           ~(~Idle(p) /\ passes[p].alarmed /\ Current(p)),
           UNCHANGED <<cleanup, terminal, alarm>>
    PROVE  WorkIsArmed'
<1>1. \A q \in Passes : q # p => passes'[q] = passes[q]
  BY DEF TypeOK
<1>2. \A q \in Passes : ~Idle(q) /\ passes[q].alarmed /\ Current(q)
                          => (~Idle(q) /\ passes[q].alarmed /\ Current(q))'
  BY <1>1 DEF Idle, Current, TerminalKinds
<1> QED BY <1>2 DEF WorkIsArmed, Scheduled

(* A step that leaves an alarmed pass on the current record.                *)
LEMMA ArmedByPass ==
    ASSUME NEW p \in Passes, (~Idle(p) /\ passes[p].alarmed /\ Current(p))'
    PROVE  WorkIsArmed'
BY DEF WorkIsArmed

LEMMA StartedPageArmed ==
    ASSUME TypeOK, WorkIsArmed, NEW p \in Passes, Idle(p), NEW alarmed \in BOOLEAN, NEW rest,
           alarmed \/ rest = alarm,
           StartRetentionPass(p, alarmed, rest) \/ StartTerminalPass(p, alarmed, rest)
    PROVE  WorkIsArmed'
<1>1. UNCHANGED <<cleanup, terminal>> /\ alarm' = rest
  BY DEF StartRetentionPass, StartTerminalPass, pageVars
<1>2. PICK kind, gen, page, refs, more :
        /\ StartPass(p, alarmed, kind, gen, page, refs, more)
        /\ \/ kind \in {"index", "streams", "queues"} /\ cleanup.phase = kind /\ gen = cleanup.gen
           \/ /\ kind \in TerminalKinds /\ gen = terminal.gen
              /\ terminal.phase = IF kind = "small" THEN "hooks" ELSE kind
  <2>1. CASE StartRetentionPass(p, alarmed, rest)
    BY <2>1 DEF StartRetentionPass
  <2>2. CASE StartTerminalPass(p, alarmed, rest)
    BY <2>2 DEF StartTerminalPass, TerminalKinds
  <2> QED BY <2>1, <2>2
<1>3. passes'[p] = [kind |-> kind, alarmed |-> alarmed, gen |-> gen, page |-> page,
                    refs |-> refs, more |-> more, called |-> FALSE]
  BY <1>2 DEF StartPass, TypeOK
<1>4. CASE alarmed
  <2>1. (~Idle(p) /\ passes[p].alarmed /\ Current(p))'
    BY <1>1, <1>2, <1>3, <1>4 DEF Idle, Current, TerminalKinds
  <2> QED BY <2>1, ArmedByPass
<1>5. CASE ~alarmed
  <2>1. \A q \in Passes : q # p => passes'[q] = passes[q]
    BY <1>2 DEF StartPass, TypeOK
  <2>2. \A q \in Passes : ~Idle(q) /\ passes[q].alarmed /\ Current(q)
                            => (~Idle(q) /\ passes[q].alarmed /\ Current(q))'
    BY <1>1, <2>1 DEF Idle, Current, TerminalKinds
  <2> QED BY <1>1, <1>5, <2>2 DEF WorkIsArmed, Scheduled
<1> QED BY <1>4, <1>5

LEMMA KeysFinite == TypeOK => IsFiniteSet(Keys)
<1> SUFFICES ASSUME TypeOK PROVE IsFiniteSet(Keys)
  OBVIOUS
<1>1. /\ IsFiniteSet(hooks) /\ IsFiniteSet(disposed) /\ IsFiniteSet(markers)
      /\ IsFiniteSet(waits) /\ IsFiniteSet(regs)
  BY SizesAssumption, FS_Subset DEF TypeOK
<1>2. \A x : IsFiniteSet({x})
  BY FS_Singleton
<1>3. \A x, S : IsFiniteSet(S) => IsFiniteSet({x} \X S)
  BY <1>2, FS_Product
<1>4. IsFiniteSet({})
  BY FS_EmptySet
<1>5. IsFiniteSet(IF terminal.phase = "none" THEN {} ELSE {<<"terminal", "terminal">>})
  BY <1>2, <1>4
<1>6. IsFiniteSet(IF run = "deleted" THEN {} ELSE {<<"run", "run">>})
  BY <1>2, <1>4
<1>7. IsFiniteSet(({"hook"} \X hooks) \cup ({"released"} \X disposed))
  BY <1>1, <1>3, FS_Union
<1>8. IsFiniteSet(({"hook"} \X hooks) \cup ({"released"} \X disposed) \cup ({"ref"} \X markers))
  BY <1>1, <1>3, <1>7, FS_Union
<1>9. IsFiniteSet(({"hook"} \X hooks) \cup ({"released"} \X disposed) \cup ({"ref"} \X markers)
                    \cup ({"wait"} \X waits))
  BY <1>1, <1>3, <1>8, FS_Union
<1>10. IsFiniteSet(({"hook"} \X hooks) \cup ({"released"} \X disposed) \cup ({"ref"} \X markers)
                    \cup ({"wait"} \X waits) \cup ({"payload"} \X regs))
  BY <1>1, <1>3, <1>9, FS_Union
<1>11. IsFiniteSet(({"hook"} \X hooks) \cup ({"released"} \X disposed) \cup ({"ref"} \X markers)
                    \cup ({"wait"} \X waits) \cup ({"payload"} \X regs)
                    \cup (IF terminal.phase = "none" THEN {} ELSE {<<"terminal", "terminal">>}))
  BY <1>5, <1>10, FS_Union
<1> QED BY <1>6, <1>11, FS_Union DEF Keys

(* An empty payload batch finds no terminal cleanup record.                 *)
LEMMA EmptyBatch ==
    ASSUME TypeOK,
           0 = IF Cardinality(Keys) <= PayloadBatch THEN Cardinality(Keys) ELSE PayloadBatch
    PROVE  terminal.phase = "none"
<1>1. IsFiniteSet(Keys)
  BY KeysFinite
<1>2. Cardinality(Keys) = 0
  BY <1>1, FS_CardinalityType, SizesAssumption
<1>3. Keys = {}
  BY <1>1, <1>2, FS_EmptySet
<1> QED BY <1>3 DEF Keys

LEMMA LocalPageArmed ==
    ASSUME TypeOK, LeaveRetained \/ DeletePayloadBatch \/ DeleteTerminalWaitPage
                     \/ (terminal.phase = "none" /\ NothingDue)
    PROVE  WorkIsArmed'
<1>1. CASE LeaveRetained
  BY <1>1, ArmedBySetting DEF LeaveRetained
<1>2. CASE DeletePayloadBatch
  <2>1. PICK batch \in SUBSET Keys :
          /\ Cardinality(batch) = IF Cardinality(Keys) <= PayloadBatch
                                    THEN Cardinality(Keys) ELSE PayloadBatch
          /\ terminal' = IF <<"terminal", "terminal">> \in batch THEN NoTerminal ELSE terminal
          /\ IF batch # {} THEN alarm' = "soon" ELSE cleanup' = NoCleanup
    BY <1>2 DEF DeletePayloadBatch
  <2>2. CASE batch # {}
    BY <2>1, <2>2, ArmedBySetting
  <2>3. CASE batch = {}
    <3>1. Cardinality(batch) = 0
      BY <2>3, FS_EmptySet
    <3>2. terminal.phase = "none"
      BY <2>1, <3>1, EmptyBatch
    <3> QED BY <2>1, <2>3, <3>2, ArmedBySetting DEF NoCleanup
  <2> QED BY <2>2, <2>3
<1>3. CASE DeleteTerminalWaitPage
  BY <1>3, ArmedBySetting
     DEF DeleteTerminalWaitPage, FinishTerminal, AlarmForRetention, Scheduled, NoTerminal
<1>4. CASE terminal.phase = "none" /\ NothingDue
  BY <1>4, ArmedBySetting DEF NothingDue, pageVars, Scheduled
<1> QED BY <1>1, <1>2, <1>3, <1>4

LEMMA ExecutePageArmed ==
    ASSUME TypeOK, WorkIsArmed, NEW p \in Passes, Idle(p), NEW alarmed \in BOOLEAN, NEW rest,
           alarmed \/ rest = alarm, ExecutePage(p, alarmed, rest)
    PROVE  WorkIsArmed'
BY LocalPageArmed, StartedPageArmed DEF ExecutePage

LEMMA PassStepArmed ==
    ASSUME TypeOK, WorkIsArmed, NEW p \in Passes,
           CallOut(p) \/ Commit(p) \/ CommitStale(p) \/ CallFails(p) \/ PassLost(p)
    PROVE  WorkIsArmed'
<1>1. CASE CallOut(p)
  <2>1. \A q \in Passes : /\ passes'[q].kind = passes[q].kind
                          /\ passes'[q].alarmed = passes[q].alarmed
                          /\ passes'[q].gen = passes[q].gen
    BY <1>1 DEF CallOut, TypeOK, Pass
  <2>2. \A q \in Passes : ~Idle(q) /\ passes[q].alarmed /\ Current(q)
                            => (~Idle(q) /\ passes[q].alarmed /\ Current(q))'
    BY <1>1, <2>1 DEF CallOut, cell, Idle, Current, TerminalKinds
  <2> QED BY <1>1, <2>2 DEF CallOut, cell, WorkIsArmed, Scheduled
<1>2. CASE Commit(p)
  <2>1. CASE SmallFallsBack(p)
    <3>1. PICK page, more :
            StartPass(p, passes[p].alarmed, "hooks", passes[p].gen, page, {}, more)
      BY <2>1 DEF SmallFallsBack
    <3>2. UNCHANGED <<cleanup, terminal, alarm>>
      BY <2>1 DEF SmallFallsBack, cell
    <3>3. \A q \in Passes : q # p => passes'[q] = passes[q]
      BY <3>1 DEF StartPass, TypeOK
    <3>4. /\ passes'[p].kind = "hooks" /\ passes'[p].alarmed = passes[p].alarmed
          /\ passes'[p].gen = passes[p].gen
      BY <3>1 DEF StartPass, TypeOK
    <3>5. \A q \in Passes : ~Idle(q) /\ passes[q].alarmed /\ Current(q)
                              => (~Idle(q) /\ passes[q].alarmed /\ Current(q))'
      BY <2>1, <3>2, <3>3, <3>4 DEF SmallFallsBack, Idle, Current, TerminalKinds
    <3> QED BY <3>2, <3>5 DEF WorkIsArmed, Scheduled
  <2>2. CASE CommitSmall(p)
    BY <2>2, ArmedBySetting DEF CommitSmall, FinishTerminal, AlarmForRetention, Scheduled, NoTerminal
  <2>3. CASE \/ CommitHooks(p) \/ CommitMarkers(p)
             \/ CommitIndex(p) \/ CommitStreams(p) \/ CommitQueues(p)
    BY <2>3, ArmedBySetting DEF CommitHooks, CommitMarkers, CommitIndex, CommitStreams, CommitQueues
  <2> QED BY <1>2, <2>1, <2>2, <2>3 DEF Commit
<1>3. CASE CommitStale(p)
  BY <1>3, EmptyRecords, ArmedByOthers DEF CommitStale, Done, cell
<1>4. CASE CallFails(p)
  <2>1. CASE Current(p)
    BY <1>4, <2>1, ArmedBySetting DEF CallFails, RecordFailure
  <2>2. CASE ~Current(p)
    BY <1>4, <2>2, EmptyRecords, ArmedByOthers DEF CallFails, Done
  <2> QED BY <2>1, <2>2
<1>5. CASE PassLost(p)
  <2>1. CASE passes[p].alarmed
    BY <1>5, <2>1, ArmedBySetting DEF PassLost
  <2>2. CASE ~passes[p].alarmed
    BY <1>5, <2>2, EmptyRecords, ArmedByOthers DEF PassLost, Done, cell
  <2> QED BY <2>1, <2>2
<1> QED BY <1>1, <1>2, <1>3, <1>4, <1>5

LEMMA RpcArmed ==
    ASSUME TypeOK, WorkIsArmed, ApplyEvent \/ QueueRegistry \/ RetentionRpc
    PROVE  WorkIsArmed'
<1>1. CASE ApplyEvent
  BY <1>1, ArmedBySetting, ArmedByKeeping
     DEF ApplyEvent, CreateRun, CreateHook, DisposeHook, ReplayDisposal, ForceDisposeHook,
         CreateWait, EndRun, ReplayEnd, TerminalBookkeeping, untouched
<1>2. CASE QueueRegistry
  BY <1>2, ArmedByKeeping DEF QueueRegistry, RegisterQueuePayload, UnregisterQueuePayload
<1>3. CASE RetentionRpc
  <2>1. ASSUME NEW due \in Due, ScheduleCleanup(due) \/ EnforceRetention(due) PROVE WorkIsArmed'
    BY <2>1, ArmedBySetting DEF ScheduleCleanup, EnforceRetention
  <2>2. CASE CleanupNow
    BY <2>2, ArmedBySetting, ArmedByKeeping DEF CleanupNow
  <2>3. CASE RearmCleanup
    BY <2>3, ArmedBySetting DEF RearmCleanup, AlarmForRetention, Scheduled, cell
  <2> QED BY <1>3, <2>1, <2>2, <2>3 DEF RetentionRpc
<1> QED BY <1>1, <1>2, <1>3

LEMMA NextArmed == TypeOK /\ WorkIsArmed /\ [Next]_vars => WorkIsArmed'
<1> SUFFICES ASSUME TypeOK, WorkIsArmed, [Next]_vars PROVE WorkIsArmed'
  OBVIOUS
<1>1. CASE DeadlinePasses
  <2>1. /\ cleanup'.phase = cleanup.phase /\ cleanup'.gen = cleanup.gen
        /\ UNCHANGED <<terminal, alarm, passes>>
    BY <1>1 DEF DeadlinePasses, untouched, TypeOK, CleanupRecord
  <2> QED BY <2>1 DEF WorkIsArmed, Scheduled, Idle, Current, TerminalKinds
<1>2. ASSUME NEW caller \in {"sweep", "manual"}, InlineSkip(caller) PROVE WorkIsArmed'
  BY <1>2, ArmedByKeeping DEF InlineSkip, cell
<1>3. ASSUME NEW caller \in {"sweep", "manual"}, NEW p \in Passes, InlinePage(p, caller)
      PROVE  WorkIsArmed'
  BY <1>3, ExecutePageArmed DEF InlinePage
<1>4. ASSUME NEW p \in Passes, FireAlarm(p) PROVE WorkIsArmed'
  BY <1>4, ExecutePageArmed DEF FireAlarm
<1>5. CASE UNCHANGED vars
  BY <1>5, ArmedByKeeping DEF vars, cell
<1> QED BY <1>1, <1>2, <1>3, <1>4, <1>5, RpcArmed, PassStepArmed DEF Next, PassStep

(* The durable alarm of a run's cell is never lost: while a cleanup record  *)
(* or a terminal cleanup record is stored, the alarm is set or the handler  *)
(* that cleared it holds a page of the current record, whatever calls,      *)
(* passes, failures and restarts overlap (executeScheduledCleanupPage and   *)
(* the page functions of WorkflowRunDO.ts).                                 *)
THEOREM CleanupIsNeverStranded == Spec => []WorkIsArmed
<1>1. Init => WorkIsArmed
  BY DEF Init, WorkIsArmed, Scheduled, NoCleanup, NoTerminal
<1>2. TypeOK /\ WorkIsArmed /\ [Next]_vars => WorkIsArmed'
  BY NextArmed
<1> QED BY <1>1, <1>2, TypeCorrect, PTL DEF Spec

(* Expiry is permanent.                                                     *)

StaysExpired == (Expired => Expired') /\ (tomb => tomb')

LEMMA ExpiryKept == UNCHANGED <<cleanup, tomb>> => StaysExpired
BY DEF StaysExpired, Expired, Scheduled

(* A step that leaves the tombstone and a deadline that has passed.         *)
LEMMA ExpiryPast ==
    ASSUME UNCHANGED tomb, cleanup'.phase # "none",
           cleanup'.due = "past" \/ cleanup'.phase # "retained"
    PROVE  StaysExpired
BY DEF StaysExpired, Expired, Scheduled

(* The fields of a cleanup record that a page or a call replaces.           *)
LEMMA CleanupFields ==
    ASSUME NEW c \in CleanupRecord, NEW phase, NEW due, NEW gen
    PROVE  /\ [c EXCEPT !.gen = gen].phase = c.phase /\ [c EXCEPT !.gen = gen].due = c.due
           /\ [c EXCEPT !.due = due].phase = c.phase /\ [c EXCEPT !.due = due].due = due
           /\ [c EXCEPT !.due = due, !.gen = gen].phase = c.phase
           /\ [c EXCEPT !.due = due, !.gen = gen].due = due
           /\ [c EXCEPT !.phase = phase, !.gen = gen].phase = phase
           /\ [c EXCEPT !.phase = phase, !.gen = gen].due = c.due
BY DEF CleanupRecord

LEMMA ExecutePageExpiry ==
    ASSUME TypeOK, NEW p \in Passes, NEW alarmed, NEW rest, ExecutePage(p, alarmed, rest)
    PROVE  StaysExpired
<1>1. CASE LeaveRetained
  <2>1. cleanup'.phase = "index" /\ UNCHANGED tomb
    BY <1>1, CleanupFields DEF LeaveRetained, TypeOK
  <2> QED BY <2>1, ExpiryPast
<1>2. CASE DeletePayloadBatch
  BY <1>2 DEF DeletePayloadBatch, StaysExpired, Expired
<1>3. CASE \/ StartRetentionPass(p, alarmed, rest) \/ StartTerminalPass(p, alarmed, rest)
           \/ DeleteTerminalWaitPage \/ NothingDue
  BY <1>3, ExpiryKept
     DEF StartRetentionPass, StartTerminalPass, DeleteTerminalWaitPage, NothingDue, pageVars
<1> QED BY <1>1, <1>2, <1>3 DEF ExecutePage

LEMMA PassStepExpiry ==
    ASSUME TypeOK, NEW p \in Passes,
           CallOut(p) \/ Commit(p) \/ CommitStale(p) \/ CallFails(p) \/ PassLost(p)
    PROVE  StaysExpired
<1>0. cleanup \in CleanupRecord
  BY DEF TypeOK
<1>1. CASE CallOut(p) \/ CommitStale(p) \/ PassLost(p)
  BY <1>1, ExpiryKept DEF CallOut, CommitStale, PassLost, cell
<1>2. CASE CallFails(p)
  <2>1. CASE UNCHANGED cleanup
    BY <1>2, <2>1, ExpiryKept DEF CallFails
  <2>2. CASE cleanup' = [cleanup EXCEPT !.gen = @ + 1]
    <3>1. cleanup'.phase = cleanup.phase /\ cleanup'.due = cleanup.due /\ UNCHANGED tomb
      BY <1>0, <1>2, <2>2, CleanupFields DEF CallFails
    <3> QED BY <3>1 DEF StaysExpired, Expired, Scheduled
  <2> QED BY <1>2, <2>1, <2>2 DEF CallFails, RecordFailure
<1>3. CASE Commit(p)
  <2>1. CASE CommitSmall(p) \/ SmallFallsBack(p) \/ CommitHooks(p) \/ CommitMarkers(p)
    BY <2>1, ExpiryKept DEF CommitSmall, SmallFallsBack, CommitHooks, CommitMarkers, cell
  <2>2. CASE CommitIndex(p) \/ CommitStreams(p) \/ CommitQueues(p)
    <3>1. UNCHANGED tomb
      BY <2>2 DEF CommitIndex, CommitStreams, CommitQueues
    <3>2. cleanup.phase \in {"index", "streams", "queues"}
      <4>1. passes[p].kind \in {"index", "streams", "queues"}
        BY <2>2 DEF CommitIndex, CommitStreams, CommitQueues
      <4>2. Current(p)
        BY <1>3 DEF Commit
      <4> QED BY <4>1, <4>2 DEF Current, TerminalKinds
    <3>3. PICK next \in {"streams", "queues", "payload"} : Advance(p, next)
      BY <2>2 DEF CommitIndex, CommitStreams, CommitQueues
    <3>4. cleanup'.phase \in {cleanup.phase, next}
      <4>1. CASE passes[p].more
        <5>1. cleanup' = [cleanup EXCEPT !.phase = cleanup.phase, !.gen = @ + 1]
          BY <3>3, <4>1 DEF Advance
        <5> QED BY <1>0, <5>1, CleanupFields
      <4>2. CASE ~passes[p].more
        <5>1. cleanup' = [cleanup EXCEPT !.phase = next, !.gen = @ + 1]
          BY <3>3, <4>2 DEF Advance
        <5> QED BY <1>0, <5>1, CleanupFields
      <4> QED BY <4>1, <4>2
    <3> QED BY <3>1, <3>2, <3>4, ExpiryPast
  <2> QED BY <1>3, <2>1, <2>2 DEF Commit
<1> QED BY <1>1, <1>2, <1>3

LEMMA RpcExpiry ==
    ASSUME TypeOK, ApplyEvent \/ QueueRegistry \/ RetentionRpc
    PROVE  StaysExpired
<1>0. cleanup \in CleanupRecord
  BY DEF TypeOK
<1>1. CASE ApplyEvent
  <2>1. CASE ~Expired /\ UNCHANGED tomb
    BY <2>1 DEF StaysExpired, Expired
  <2> QED BY <1>1, <2>1
          DEF ApplyEvent, CreateRun, CreateHook, DisposeHook, ReplayDisposal, ForceDisposeHook,
              CreateWait, EndRun, ReplayEnd
<1>2. CASE QueueRegistry
  BY <1>2, ExpiryKept DEF QueueRegistry, RegisterQueuePayload, UnregisterQueuePayload
<1>3. ASSUME NEW due \in Due, ScheduleCleanup(due) PROVE StaysExpired
  BY <1>3 DEF ScheduleCleanup, StaysExpired, Expired
<1>4. ASSUME NEW due \in Due, EnforceRetention(due) PROVE StaysExpired
  <2>1. CASE ~Scheduled
    BY <1>4, <2>1 DEF EnforceRetention, StaysExpired, Expired
  <2>2. CASE cleanup.phase = "retained" /\ cleanup' = EarlierDeadline(due)
    <3>1. /\ cleanup'.phase = "retained"
          /\ cleanup.due = "past" => cleanup'.due = "past"
      BY <1>0, <2>2, CleanupFields DEF EarlierDeadline
    <3> QED BY <1>0, <1>4, <2>2, <3>1
            DEF EnforceRetention, StaysExpired, Expired, Scheduled, CleanupRecord
  <2>3. CASE UNCHANGED cleanup
    BY <1>4, <2>3, ExpiryKept DEF EnforceRetention
  <2> QED BY <1>4, <2>1, <2>2, <2>3 DEF EnforceRetention
<1>5. CASE CleanupNow
  <2>1. CASE Scheduled
    <3>1. cleanup'.phase = cleanup.phase /\ cleanup'.due = "past" /\ UNCHANGED tomb
      <4>1. cleanup' = [cleanup EXCEPT !.due = "past", !.gen = @ + 1] /\ UNCHANGED tomb
        BY <1>5, <2>1 DEF CleanupNow
      <4> QED BY <1>0, <4>1, CleanupFields
    <3> QED BY <2>1, <3>1, ExpiryPast DEF Scheduled
  <2>2. CASE ~Scheduled
    BY <1>5, <2>2 DEF CleanupNow, StaysExpired, Expired, Scheduled
  <2> QED BY <2>1, <2>2
<1>6. CASE RearmCleanup
  BY <1>6, ExpiryKept DEF RearmCleanup, cell
<1> QED BY <1>1, <1>2, <1>3, <1>4, <1>5, <1>6 DEF RetentionRpc

LEMMA NextExpiry == TypeOK /\ [Next]_vars => StaysExpired
<1> SUFFICES ASSUME TypeOK, [Next]_vars PROVE StaysExpired
  OBVIOUS
<1>1. CASE DeadlinePasses
  <2>1. cleanup'.phase = cleanup.phase /\ cleanup'.due = "past" /\ UNCHANGED tomb
    BY <1>1, CleanupFields DEF DeadlinePasses, TypeOK
  <2> QED BY <1>1, <2>1, ExpiryPast DEF DeadlinePasses, Scheduled
<1>2. ASSUME NEW caller \in {"sweep", "manual"}, InlineSkip(caller) PROVE StaysExpired
  BY <1>2, ExpiryKept DEF InlineSkip, cell
<1>3. ASSUME NEW caller \in {"sweep", "manual"}, NEW p \in Passes, InlinePage(p, caller)
      PROVE  StaysExpired
  BY <1>3, ExecutePageExpiry DEF InlinePage
<1>4. ASSUME NEW p \in Passes, FireAlarm(p) PROVE StaysExpired
  BY <1>4, ExecutePageExpiry DEF FireAlarm
<1>5. CASE UNCHANGED vars
  BY <1>5, ExpiryKept DEF vars, cell
<1> QED BY <1>1, <1>2, <1>3, <1>4, <1>5, RpcExpiry, PassStepExpiry DEF Next, PassStep

(* The expiry fence of a run's cell is never lifted and its tombstone never *)
(* removed: no RPC moves a passed deadline back, no page returns to the     *)
(* retained phase, and the cleanup record only goes away under a tombstone. *)
THEOREM FenceIsNeverLifted == Spec => ExpiryIsPermanent
<1>1. TypeOK /\ [Next]_vars => [(Expired => Expired') /\ (tomb => tomb')]_vars
  BY NextExpiry DEF StaysExpired
<1> QED BY <1>1, TypeCorrect, PTL DEF Spec, ExpiryIsPermanent

-----------------------------------------------------------------------------
(* Cleanup is complete: no derivative is forgotten, the tombstone comes     *)
(* last, every payload is counted once, and the phases advance in order,    *)
(* whatever passes and calls overlap.                                       *)
(*                                                                          *)
(* A pass acts on a list that may be stale.  What makes that safe is that   *)
(* its list stays an upper bound of what is left: behind the expiry fence   *)
(* references and registrations only leave, and after the end of the run    *)
(* hooks do.  Honest(p) says so of pass p, and Drift says how the rest of   *)
(* the state may move under it.                                             *)

Over == run \notin {"none", "live"}

(* How any step may move what a pass has read.                              *)
Drift ==
    /\ Expired => Expired' /\ markers' \subseteq markers /\ regs' \subseteq regs
    /\ tomb => tomb'
    /\ tomb' => tomb \/ cleanup.phase = "payload"
    /\ Over => Over' /\ hooks' \subseteq hooks /\ waits' \subseteq waits /\ made' = made
    /\ purged \subseteq purged' /\ known \subseteq known'
    /\ ~catalog => ~catalog'
    /\ streams = 0 => streams' = 0

LEMMA NextDrifts == TypeOK /\ [Next]_vars => Drift
<1> SUFFICES ASSUME TypeOK, [Next]_vars PROVE Drift
  OBVIOUS
<1>0. StaysExpired
  BY NextExpiry
<1> USE DEF Drift, Over, StaysExpired
<1>1. CASE ApplyEvent
  <2> USE DEF untouched, remote
  <2>1. CASE CreateRun
    BY <1>0, <2>1 DEF CreateRun
  <2>2. ASSUME NEW h \in Hooks,
               CreateHook(h) \/ DisposeHook(h) \/ ReplayDisposal(h) \/ ForceDisposeHook(h)
        PROVE  Drift
    BY <1>0, <2>2 DEF CreateHook, DisposeHook, ReplayDisposal, ForceDisposeHook
  <2>3. ASSUME NEW w, CreateWait(w) PROVE Drift
    BY <1>0, <2>3 DEF CreateWait
  <2>4. ASSUME NEW retain, NEW due, EndRun(retain) \/ ReplayEnd(retain, due) PROVE Drift
    BY <1>0, <2>4 DEF EndRun, ReplayEnd
  <2> QED BY <1>1, <2>1, <2>2, <2>3, <2>4 DEF ApplyEvent
<1>2. CASE QueueRegistry
  BY <1>0, <1>2 DEF QueueRegistry, RegisterQueuePayload, UnregisterQueuePayload, remote
<1>3. CASE RetentionRpc
  BY <1>0, <1>3 DEF RetentionRpc, ScheduleCleanup, EnforceRetention, CleanupNow, RearmCleanup,
                    remote, cell
<1>4. CASE DeadlinePasses
  BY <1>0, <1>4 DEF DeadlinePasses, untouched, remote
<1>5. ASSUME NEW p, NEW alarmed, NEW rest, ExecutePage(p, alarmed, rest) PROVE Drift
  <2>1. CASE LeaveRetained \/ NothingDue
    BY <1>0, <2>1 DEF LeaveRetained, NothingDue, pageVars, remote
  <2>2. CASE DeletePayloadBatch
    <3>1. cleanup.phase = "payload" /\ tomb' = TRUE /\ made' = made
      BY <2>2 DEF DeletePayloadBatch
    <3> QED BY <1>0, <2>2, <3>1 DEF DeletePayloadBatch, Kept, remote
  <2>3. CASE DeleteTerminalWaitPage
    BY <1>0, <2>3 DEF DeleteTerminalWaitPage, remote
  <2>4. CASE StartRetentionPass(p, alarmed, rest) \/ StartTerminalPass(p, alarmed, rest)
    <3>1. UNCHANGED pageVars
      BY <2>4 DEF StartRetentionPass, StartTerminalPass
    <3> QED BY <1>0, <3>1 DEF pageVars, remote
  <2> QED BY <1>5, <2>1, <2>2, <2>3, <2>4 DEF ExecutePage
<1>6. ASSUME NEW p, NEW caller, FireAlarm(p) \/ InlinePage(p, caller) PROVE Drift
  BY <1>5, <1>6 DEF FireAlarm, InlinePage
<1>7. ASSUME NEW p,
             CallOut(p) \/ CommitStale(p) \/ CallFails(p) \/ PassLost(p) \/ InlineSkip(p)
      PROVE  Drift
  <2>1. CASE CallOut(p)
    <3>1. UNCHANGED <<run, made, hooks, waits, markers, regs, tomb, known>>
      BY <2>1 DEF CallOut, cell
    <3>2. purged \subseteq purged' /\ (streams = 0 => streams' = 0)
      BY <2>1 DEF CallOut
    <3>3. ~catalog => ~catalog'
      <4>1. catalog' = (catalog /\ passes[p].kind # "index")
        BY <2>1 DEF CallOut
      <4> QED BY <4>1
    <3> QED BY <1>0, <3>1, <3>2, <3>3
  <2>2. CASE CallFails(p)
    <3>1. UNCHANGED <<run, made, hooks, waits, markers, regs, tomb, known, remote>>
      BY <2>2 DEF CallFails
    <3> QED BY <1>0, <3>1 DEF remote
  <2>3. CASE CommitStale(p) \/ PassLost(p) \/ InlineSkip(p)
    <3>1. UNCHANGED <<cell, remote, known>>
      BY <2>3 DEF CommitStale, PassLost, InlineSkip
    <3> QED BY <1>0, <3>1 DEF cell, remote
  <2> QED BY <1>7, <2>1, <2>2, <2>3
<1>8. ASSUME NEW p, Commit(p) PROVE Drift
  BY <1>0, <1>8 DEF Commit, CommitSmall, SmallFallsBack, CommitHooks, CommitMarkers, CommitIndex,
                    CommitStreams, CommitQueues, cell, remote
<1>9. CASE UNCHANGED vars
  BY <1>0, <1>9 DEF vars, cell, remote
<1> QED BY <1>1, <1>2, <1>3, <1>4, <1>6, <1>7, <1>8, <1>9 DEF Next, PassStep

-----------------------------------------------------------------------------
(* The phases *)

(* The four changes of phase, each with a new generation.                   *)
NextPhase(from, to) ==
    <<from, to>> \in {<<"retained", "index">>, <<"index", "streams">>,
                      <<"streams", "queues">>, <<"queues", "payload">>}

(* What a step may do to the cleanup record.                                *)
CleanupMoves ==
    \/ cleanup'.phase = cleanup.phase /\ cleanup'.gen >= cleanup.gen
    \/ cleanup.phase = "none" /\ ~tomb /\ cleanup'.phase = "retained"
    \/ /\ NextPhase(cleanup.phase, cleanup'.phase) /\ cleanup'.gen > cleanup.gen
       /\ \/ cleanup.phase = "retained"
          \/ \E p \in Passes : Commit(p) /\ passes[p].kind = cleanup.phase /\ ~passes[p].more
    \/ cleanup.phase = "payload" /\ cleanup'.phase = "none" /\ tomb'

LEMMA GenFields ==
    ASSUME NEW c \in CleanupRecord, NEW phase, NEW due
    PROVE  /\ c.gen \in Nat
           /\ [c EXCEPT !.gen = @ + 1].gen = c.gen + 1
           /\ [c EXCEPT !.due = due].gen = c.gen
           /\ [c EXCEPT !.due = due, !.gen = @ + 1].gen = c.gen + 1
           /\ [c EXCEPT !.phase = phase, !.gen = @ + 1].gen = c.gen + 1
BY DEF CleanupRecord

(* Which phase the record is in when a page commits.                        *)
LEMMA CurrentPhase ==
    ASSUME NEW p, Current(p)
    PROVE  /\ passes[p].kind = "index" => cleanup.phase = "index"
           /\ passes[p].kind = "streams" => cleanup.phase = "streams"
           /\ passes[p].kind = "queues" => cleanup.phase = "queues"
           /\ passes[p].kind \in {"small", "hooks"} => terminal.phase = "hooks"
           /\ passes[p].kind = "markers" => terminal.phase = "markers"
           /\ passes[p].kind \notin TerminalKinds => cleanup.gen = passes[p].gen
BY DEF Current, TerminalKinds

LEMMA AdvanceMoves ==
    ASSUME TypeOK, NEW p, NEW next, Advance(p, next)
    PROVE  /\ passes[p].more => cleanup'.phase = cleanup.phase
           /\ ~passes[p].more => cleanup'.phase = next
           /\ cleanup'.gen = cleanup.gen + 1 /\ cleanup.gen \in Nat
<1>0. cleanup \in CleanupRecord
  BY DEF TypeOK
<1>1. CASE passes[p].more
  <2>1. cleanup' = [cleanup EXCEPT !.phase = cleanup.phase, !.gen = @ + 1]
    BY <1>1 DEF Advance
  <2> QED BY <1>0, <1>1, <2>1, GenFields, CleanupFields
<1>2. CASE ~passes[p].more
  <2>1. cleanup' = [cleanup EXCEPT !.phase = next, !.gen = @ + 1]
    BY <1>2 DEF Advance
  <2> QED BY <1>0, <1>2, <2>1, GenFields, CleanupFields
<1> QED BY <1>1, <1>2

LEMMA NextMoves == TypeOK /\ [Next]_vars => CleanupMoves
<1> SUFFICES ASSUME TypeOK, [Next]_vars PROVE CleanupMoves
  OBVIOUS
<1>0. cleanup \in CleanupRecord /\ cleanup.gen \in Nat
  BY GenFields DEF TypeOK
<1>k. ASSUME UNCHANGED cleanup PROVE CleanupMoves
  BY <1>0, <1>k DEF CleanupMoves
<1>f. ASSUME cleanup' = [cleanup EXCEPT !.gen = @ + 1] PROVE CleanupMoves
  <2>1. cleanup'.phase = cleanup.phase /\ cleanup'.gen = cleanup.gen + 1
    BY <1>0, <1>f, GenFields, CleanupFields
  <2> QED BY <1>0, <2>1 DEF CleanupMoves
<1>1. CASE ApplyEvent
  <2>1. ASSUME NEW retain, NEW due, TerminalBookkeeping(retain, due), ~Expired PROVE CleanupMoves
    <3>1. CASE UNCHANGED cleanup
      BY <1>k, <3>1
    <3>2. CASE ~Scheduled /\ cleanup' = [phase |-> "retained", due |-> due, gen |-> 0]
      BY <2>1, <3>2 DEF Scheduled, Expired, CleanupMoves
    <3> QED BY <2>1, <3>1, <3>2 DEF TerminalBookkeeping
  <2>2. ASSUME NEW retain, EndRun(retain) PROVE CleanupMoves
    BY <2>1, <2>2 DEF EndRun
  <2>3. ASSUME NEW retain, NEW due, ReplayEnd(retain, due) PROVE CleanupMoves
    BY <2>1, <2>3 DEF ReplayEnd
  <2>4. ASSUME NEW x, \/ CreateRun \/ CreateHook(x) \/ DisposeHook(x) \/ ReplayDisposal(x)
                      \/ ForceDisposeHook(x) \/ CreateWait(x)
        PROVE  CleanupMoves
    BY <1>k, <2>4 DEF CreateRun, CreateHook, DisposeHook, ReplayDisposal, ForceDisposeHook,
                      CreateWait
  <2> QED BY <1>1, <2>2, <2>3, <2>4 DEF ApplyEvent
<1>2. CASE QueueRegistry
  BY <1>2, <1>k DEF QueueRegistry, RegisterQueuePayload, UnregisterQueuePayload
<1>3. CASE RetentionRpc
  <2>1. ASSUME NEW due, ScheduleCleanup(due) PROVE CleanupMoves
    BY <2>1 DEF ScheduleCleanup, Scheduled, CleanupMoves
  <2>2. ASSUME NEW due, EnforceRetention(due) PROVE CleanupMoves
    <3>1. CASE ~Scheduled /\ cleanup' = [phase |-> "retained", due |-> due, gen |-> 0]
      BY <2>2, <3>1 DEF EnforceRetention, Scheduled, CleanupMoves
    <3>2. CASE cleanup' = EarlierDeadline(due)
      <4>1. PICK d : cleanup' = [cleanup EXCEPT !.due = d, !.gen = @ + 1]
        BY <3>2 DEF EarlierDeadline
      <4>2. cleanup'.phase = cleanup.phase /\ cleanup'.gen = cleanup.gen + 1
        BY <1>0, <4>1, GenFields, CleanupFields
      <4> QED BY <1>0, <4>2 DEF CleanupMoves
    <3>3. CASE cleanup' = cleanup
      BY <1>k, <3>3
    <3> QED BY <2>2, <3>1, <3>2, <3>3 DEF EnforceRetention
  <2>3. CASE CleanupNow
    <3>1. CASE cleanup' = [cleanup EXCEPT !.due = "past", !.gen = @ + 1]
      <4>1. cleanup'.phase = cleanup.phase /\ cleanup'.gen = cleanup.gen + 1
        BY <1>0, <3>1, GenFields, CleanupFields
      <4> QED BY <1>0, <4>1 DEF CleanupMoves
    <3>2. CASE ~Scheduled /\ ~tomb /\ cleanup' = [phase |-> "retained", due |-> "past", gen |-> 1]
      BY <3>2 DEF Scheduled, CleanupMoves
    <3> QED BY <1>k, <2>3, <3>1, <3>2 DEF CleanupNow
  <2>4. CASE RearmCleanup
    BY <1>k, <2>4 DEF RearmCleanup, cell
  <2> QED BY <1>3, <2>1, <2>2, <2>3, <2>4 DEF RetentionRpc
<1>4. CASE DeadlinePasses
  <2>1. cleanup'.phase = cleanup.phase /\ cleanup'.gen = cleanup.gen
    BY <1>0, <1>4, GenFields, CleanupFields DEF DeadlinePasses
  <2> QED BY <1>0, <2>1 DEF CleanupMoves
<1>5. ASSUME NEW p, NEW alarmed, NEW rest, ExecutePage(p, alarmed, rest) PROVE CleanupMoves
  <2>1. CASE LeaveRetained
    <3>1. cleanup.phase = "retained" /\ cleanup'.phase = "index" /\ cleanup'.gen = cleanup.gen + 1
      BY <1>0, <2>1, GenFields, CleanupFields DEF LeaveRetained
    <3> QED BY <1>0, <3>1 DEF CleanupMoves, NextPhase
  <2>2. CASE DeletePayloadBatch
    <3>1. CASE cleanup' = NoCleanup
      BY <2>2, <3>1 DEF DeletePayloadBatch, NoCleanup, CleanupMoves
    <3> QED BY <1>f, <2>2, <3>1 DEF DeletePayloadBatch
  <2>3. CASE \/ StartRetentionPass(p, alarmed, rest) \/ StartTerminalPass(p, alarmed, rest)
             \/ DeleteTerminalWaitPage \/ NothingDue
    BY <1>k, <2>3
       DEF StartRetentionPass, StartTerminalPass, DeleteTerminalWaitPage, NothingDue, pageVars
  <2> QED BY <1>5, <2>1, <2>2, <2>3 DEF ExecutePage
<1>6. ASSUME NEW p, NEW caller, FireAlarm(p) \/ InlinePage(p, caller) PROVE CleanupMoves
  BY <1>5, <1>6 DEF FireAlarm, InlinePage
<1>7. ASSUME NEW p, CallOut(p) \/ CommitStale(p) \/ PassLost(p) \/ InlineSkip(p) PROVE CleanupMoves
  BY <1>k, <1>7 DEF CallOut, CommitStale, PassLost, InlineSkip, cell
<1>8. ASSUME NEW p, CallFails(p) PROVE CleanupMoves
  BY <1>k, <1>f, <1>8 DEF CallFails, RecordFailure
<1>9. ASSUME NEW p \in Passes, Commit(p) PROVE CleanupMoves
  <2>0. Current(p)
    BY <1>9 DEF Commit
  <2>1. CASE CommitSmall(p) \/ SmallFallsBack(p) \/ CommitHooks(p) \/ CommitMarkers(p)
    BY <1>k, <2>1 DEF CommitSmall, SmallFallsBack, CommitHooks, CommitMarkers, cell
  <2>2. ASSUME NEW next, Advance(p, next), NextPhase(cleanup.phase, next),
               passes[p].kind = cleanup.phase
        PROVE  CleanupMoves
    <3>1. CASE passes[p].more
      BY <1>0, <2>2, <3>1, AdvanceMoves DEF CleanupMoves
    <3>2. CASE ~passes[p].more
      <4>1. cleanup'.phase = next /\ cleanup'.gen > cleanup.gen
        BY <1>0, <2>2, <3>2, AdvanceMoves
      <4> QED BY <1>9, <2>2, <3>2, <4>1 DEF CleanupMoves
    <3> QED BY <3>1, <3>2
  <2>3. CASE CommitIndex(p)
    BY <2>0, <2>2, <2>3, CurrentPhase DEF CommitIndex, NextPhase
  <2>4. CASE CommitStreams(p)
    BY <2>0, <2>2, <2>4, CurrentPhase DEF CommitStreams, NextPhase
  <2>5. CASE CommitQueues(p)
    BY <2>0, <2>2, <2>5, CurrentPhase DEF CommitQueues, NextPhase
  <2> QED BY <1>9, <2>1, <2>3, <2>4, <2>5 DEF Commit
<1>10. CASE UNCHANGED vars
  BY <1>10, <1>k DEF vars, cell
<1> QED BY <1>1, <1>2, <1>3, <1>4, <1>6, <1>7, <1>8, <1>9, <1>10 DEF Next, PassStep

LEMMA PhaseIndices ==
    /\ PhaseIndex("retained") = 1 /\ PhaseIndex("index") = 2 /\ PhaseIndex("streams") = 3
    /\ PhaseIndex("queues") = 4 /\ PhaseIndex("payload") = 5
<1>1. /\ PhaseOrder[1] = "retained" /\ PhaseOrder[2] = "index" /\ PhaseOrder[3] = "streams"
      /\ PhaseOrder[4] = "queues" /\ PhaseOrder[5] = "payload"
  BY DEF PhaseOrder
<1>2. \A i \in 1..5 : i = 1 \/ i = 2 \/ i = 3 \/ i = 4 \/ i = 5
  OBVIOUS
<1>3. PhaseIndex("retained") = 1
  BY <1>1, <1>2 DEF PhaseIndex
<1>4. PhaseIndex("index") = 2
  BY <1>1, <1>2 DEF PhaseIndex
<1>5. PhaseIndex("streams") = 3
  BY <1>1, <1>2 DEF PhaseIndex
<1>6. PhaseIndex("queues") = 4
  BY <1>1, <1>2 DEF PhaseIndex
<1>7. PhaseIndex("payload") = 5
  BY <1>1, <1>2 DEF PhaseIndex
<1> QED BY <1>3, <1>4, <1>5, <1>6, <1>7

(* The retention record.                                                    *)
LEMMA RetentionOrder == TypeOK /\ CleanupMoves => RetentionAdvances
<1> SUFFICES ASSUME TypeOK, CleanupMoves, Scheduled
             PROVE  \/ cleanup'.phase = "none" /\ cleanup.phase = "payload"
                    \/ /\ cleanup'.phase # "none"
                       /\ PhaseIndex(cleanup'.phase) - PhaseIndex(cleanup.phase) \in {0, 1}
  BY DEF RetentionAdvances
<1>1. cleanup.phase \in {"retained", "index", "streams", "queues", "payload"}
  BY DEF Scheduled, TypeOK, CleanupRecord, CleanupPhases
<1>2. CASE cleanup'.phase = cleanup.phase
  BY <1>1, <1>2, PhaseIndices
<1>3. CASE NextPhase(cleanup.phase, cleanup'.phase)
  BY <1>3, PhaseIndices DEF NextPhase
<1> QED BY <1>1, <1>2, <1>3 DEF CleanupMoves

-----------------------------------------------------------------------------
(* The lists *)

(* The list of pass p is an upper bound of what is left, and what it called *)
(* out is done.                                                             *)
Honest(p) ==
    /\ passes[p].called => passes[p].page \cup passes[p].refs \subseteq purged
    /\ passes[p].kind \in {"index", "streams", "queues"} => Expired
    /\ passes[p].kind \in TerminalKinds => Over
    /\ passes[p].kind = "index" =>
         /\ passes[p].called => ~catalog
         /\ ~passes[p].more => markers \subseteq passes[p].refs
    /\ passes[p].kind = "small" => ~passes[p].more
    /\ passes[p].kind = "streams" /\ ~passes[p].more => streams = 0
    /\ passes[p].kind = "queues" =>
         /\ passes[p].page \subseteq known
         /\ ~passes[p].more => regs \subseteq passes[p].page
    /\ passes[p].kind \in {"small", "hooks"} /\ ~passes[p].more => hooks \subseteq passes[p].page
    /\ passes[p].kind \in {"small", "markers"} /\ ~passes[p].more =>
         made \subseteq passes[p].refs \cup purged

(* What left the cell is released elsewhere.                                *)
Accounted ==
    /\ made \ markers \subseteq purged
    /\ known \ regs \subseteq purged
    /\ regs \subseteq known

(* What the retention phases have left behind.                              *)
PhasesLeave ==
    /\ tomb \/ cleanup.phase \in {"streams", "queues", "payload"} => markers = {} /\ ~catalog
    /\ tomb \/ cleanup.phase \in {"queues", "payload"} => streams = 0
    /\ tomb \/ cleanup.phase = "payload" => regs = {}

(* What the phases of terminal cleanup have left behind.                    *)
TerminalLeaves ==
    /\ terminal.phase # "none" => Over
    /\ run = "terminal" /\ ~tomb =>
         /\ terminal.phase \in {"none", "markers", "waits"} => hooks = {}
         /\ terminal.phase \in {"none", "waits"} => made \subseteq purged
         /\ terminal.phase = "none" => waits = {}

(* Each payload is drained once.                                            *)
DrainedOnce ==
    /\ counted = Cardinality(drained)
    /\ drained \subseteq known /\ drained \cap regs = {}
    /\ \A p \in Passes : passes[p].kind = "queues" =>
         /\ Scheduled => passes[p].gen <= cleanup.gen
         /\ Current(p) => passes[p].page \cap drained = {}

LEMMA LastPage ==
    ASSUME NEW S, IsFiniteSet(S), NEW P \in Pages(S), ~More(S)
    PROVE  P = S
<1>1. P \subseteq S /\ Cardinality(S) \in Nat
  BY FS_CardinalityType DEF Pages
<1>2. Cardinality(P) = Cardinality(S)
  BY <1>1, SizesAssumption DEF Pages, More
<1> QED BY <1>1, <1>2, FS_Subset

LEMMA SetsFinite ==
    TypeOK => IsFiniteSet(hooks) /\ IsFiniteSet(markers) /\ IsFiniteSet(waits) /\ IsFiniteSet(regs)
BY SizesAssumption, FS_Subset DEF TypeOK

LEMMA HonestKept ==
    ASSUME NEW p, Honest(p), Drift, passes'[p] = passes[p]
    PROVE  Honest(p)'
BY DEF Honest, Drift, Over, TerminalKinds

LEMMA HonestIdle ==
    ASSUME NEW p, passes'[p] = NoPass
    PROVE  Honest(p)'
BY DEF Honest, NoPass, TerminalKinds

LEMMA HonestCallOut ==
    ASSUME TypeOK, NEW p \in Passes, Honest(p), Drift, CallOut(p)
    PROVE  Honest(p)'
<1>1. /\ passes'[p].kind = passes[p].kind /\ passes'[p].page = passes[p].page
      /\ passes'[p].refs = passes[p].refs
      /\ passes[p].kind # "streams" => passes'[p].more = passes[p].more
      /\ passes[p].kind = "streams" => passes'[p].more = (streams' > 0)
  BY DEF CallOut, TypeOK, Pass
<1>2. passes[p].page \cup passes[p].refs \subseteq purged'
  BY DEF CallOut
<1>3. passes[p].kind = "index" => ~catalog'
  <2>1. catalog' = (catalog /\ passes[p].kind # "index")
    BY DEF CallOut
  <2> QED BY <2>1
<1>4. passes[p].kind = "streams" /\ ~passes'[p].more => streams' = 0
  <2>1. streams' \in Nat
    BY DEF CallOut, TypeOK
  <2>2. passes[p].kind = "streams" => (passes'[p].more <=> streams' > 0)
    BY <1>1
  <2>3. ~(streams' > 0) => streams' = 0
    BY <2>1
  <2> QED BY <2>2, <2>3
<1> QED BY <1>1, <1>2, <1>3, <1>4 DEF Honest, Drift, Over, TerminalKinds

LEMMA HonestStart ==
    ASSUME TypeOK, Accounted, TerminalLeaves, NEW p \in Passes, NEW alarmed, NEW rest, Drift,
           \/ DueRetention /\ StartRetentionPass(p, alarmed, rest)
           \/ StartTerminalPass(p, alarmed, rest)
    PROVE  Honest(p)'
<1>1. ASSUME NEW kind, NEW gen, NEW page, NEW refs, NEW more,
             StartPass(p, alarmed, kind, gen, page, refs, more)
      PROVE  /\ passes'[p].kind = kind /\ passes'[p].page = page /\ passes'[p].refs = refs
             /\ passes'[p].more = more /\ ~passes'[p].called
  BY <1>1 DEF StartPass, TypeOK
<1>2. CASE DueRetention /\ StartRetentionPass(p, alarmed, rest)
  <2>1. UNCHANGED <<markers, regs, known>>
    BY <1>2 DEF StartRetentionPass, pageVars
  <2>2. Expired'
    <3>1. Expired
      BY <1>2 DEF DueRetention, Expired
    <3> QED BY <3>1 DEF Drift
  <2>3. CASE cleanup.phase = "index"
    <3>1. PICK refs \in Pages(markers) :
            StartPass(p, alarmed, "index", cleanup.gen, {}, refs, More(markers))
      BY <1>2, <2>3 DEF StartRetentionPass
    <3>2. ~More(markers) => refs = markers
      BY LastPage, SetsFinite
    <3> QED BY <1>1, <2>1, <2>2, <3>1, <3>2 DEF Honest, TerminalKinds
  <2>4. CASE cleanup.phase = "streams"
    BY <1>1, <1>2, <2>2, <2>4 DEF StartRetentionPass, Honest, TerminalKinds
  <2>5. CASE cleanup.phase = "queues"
    <3>1. PICK page \in Pages(regs) :
            StartPass(p, alarmed, "queues", cleanup.gen, page, {}, More(regs))
      BY <1>2, <2>5 DEF StartRetentionPass
    <3>2. (~More(regs) => page = regs) /\ page \subseteq known
      BY LastPage, SetsFinite, PagesType DEF Accounted
    <3> QED BY <1>1, <2>1, <2>2, <3>1, <3>2 DEF Honest, TerminalKinds
  <2> QED BY <1>2, <2>3, <2>4, <2>5 DEF StartRetentionPass
<1>3. CASE StartTerminalPass(p, alarmed, rest)
  <2>1. UNCHANGED <<run, made, hooks, markers, purged>>
    BY <1>3 DEF StartTerminalPass, pageVars, remote
  <2>2. Over /\ made \subseteq markers \cup purged
    BY <1>3 DEF StartTerminalPass, TerminalLeaves, Accounted
  <2>3. CASE StartPass(p, alarmed, "small", terminal.gen, hooks, markers, FALSE)
    <3>1. /\ passes'[p].kind = "small" /\ passes'[p].page = hooks /\ passes'[p].refs = markers
          /\ ~passes'[p].more /\ ~passes'[p].called
      BY <1>1, <2>3
    <3>2. Over' /\ hooks' \subseteq hooks /\ made' \subseteq markers \cup purged'
      BY <2>1, <2>2 DEF Over
    <3> QED BY <3>1, <3>2 DEF Honest, TerminalKinds
  <2>4. ASSUME NEW page \in Pages(hooks),
               StartPass(p, alarmed, "hooks", terminal.gen, page, {}, More(hooks))
        PROVE  Honest(p)'
    <3>1. ~More(hooks) => page = hooks
      BY LastPage, SetsFinite
    <3> QED BY <1>1, <2>1, <2>2, <2>4, <3>1 DEF Honest, TerminalKinds, Over
  <2>5. ASSUME NEW refs \in Pages(markers),
               StartPass(p, alarmed, "markers", terminal.gen, {}, refs, More(markers))
        PROVE  Honest(p)'
    <3>1. ~More(markers) => refs = markers
      BY LastPage, SetsFinite
    <3> QED BY <1>1, <2>1, <2>2, <2>5, <3>1 DEF Honest, TerminalKinds, Over
  <2> QED BY <1>3, <2>3, <2>4, <2>5 DEF StartTerminalPass
<1> QED BY <1>2, <1>3

LEMMA HonestFallBack ==
    ASSUME TypeOK, NEW p \in Passes, Honest(p), SmallFallsBack(p)
    PROVE  Honest(p)'
<1>1. PICK page \in Pages(hooks) :
        StartPass(p, passes[p].alarmed, "hooks", passes[p].gen, page, {}, More(hooks))
  BY DEF SmallFallsBack
<1>2. passes'[p] = [kind |-> "hooks", alarmed |-> passes[p].alarmed, gen |-> passes[p].gen,
                    page |-> page, refs |-> {}, more |-> More(hooks), called |-> FALSE]
  BY <1>1 DEF StartPass, TypeOK
<1>3. ~More(hooks) => page = hooks
  BY LastPage, SetsFinite
<1>4. Over /\ UNCHANGED <<run, hooks>>
  BY DEF SmallFallsBack, Honest, TerminalKinds, cell
<1> QED BY <1>2, <1>3, <1>4 DEF Honest, TerminalKinds, Over

(* What a step may do to pass q.                                            *)
PassMoves(q) ==
    \/ passes'[q] = passes[q]
    \/ passes'[q] = NoPass
    \/ CallOut(q)
    \/ SmallFallsBack(q)
    \/ \E alarmed, rest : \/ DueRetention /\ StartRetentionPass(q, alarmed, rest)
                          \/ StartTerminalPass(q, alarmed, rest)

LEMMA NextPasses ==
    ASSUME TypeOK, [Next]_vars, NEW q \in Passes
    PROVE  PassMoves(q)
<1> USE DEF PassMoves
<1>k. CASE UNCHANGED passes
  BY <1>k
<1>d. ASSUME NEW p \in Passes, Done(p) PROVE PassMoves(q)
  BY <1>d DEF Done, TypeOK
<1>1. CASE ApplyEvent
  BY <1>k, <1>1
     DEF ApplyEvent, CreateRun, CreateHook, DisposeHook, ReplayDisposal, ForceDisposeHook,
         CreateWait, EndRun, ReplayEnd, untouched
<1>2. CASE QueueRegistry \/ RetentionRpc
  BY <1>k, <1>2
     DEF QueueRegistry, RegisterQueuePayload, UnregisterQueuePayload, RetentionRpc,
         ScheduleCleanup, EnforceRetention, CleanupNow, RearmCleanup
<1>3. CASE DeadlinePasses
  BY <1>k, <1>3 DEF DeadlinePasses, untouched
<1>4. ASSUME NEW p \in Passes, NEW alarmed, NEW rest, ExecutePage(p, alarmed, rest)
      PROVE  PassMoves(q)
  <2>1. CASE LeaveRetained \/ DeletePayloadBatch \/ DeleteTerminalWaitPage \/ NothingDue
    BY <1>k, <2>1 DEF LeaveRetained, DeletePayloadBatch, DeleteTerminalWaitPage, NothingDue
  <2>2. CASE \/ DueRetention /\ StartRetentionPass(p, alarmed, rest)
             \/ StartTerminalPass(p, alarmed, rest)
    <3>1. CASE q = p
      BY <2>2, <3>1
    <3>2. CASE q # p
      <4>1. PICK kind, gen, page, refs, more :
              StartPass(p, alarmed, kind, gen, page, refs, more)
        BY <2>2 DEF StartRetentionPass, StartTerminalPass
      <4>2. passes'[q] = passes[q]
        BY <3>2, <4>1 DEF StartPass, TypeOK
      <4> QED BY <4>2
    <3> QED BY <3>1, <3>2
  <2> QED BY <1>4, <2>1, <2>2 DEF ExecutePage
<1>5. ASSUME NEW p \in Passes, NEW caller, FireAlarm(p) \/ InlinePage(p, caller)
      PROVE  PassMoves(q)
  BY <1>4, <1>5 DEF FireAlarm, InlinePage
<1>6. ASSUME NEW p \in Passes, CallOut(p) PROVE PassMoves(q)
  BY <1>6 DEF CallOut, TypeOK
<1>7. ASSUME NEW p \in Passes, CommitStale(p) \/ CallFails(p) \/ PassLost(p) PROVE PassMoves(q)
  BY <1>d, <1>7 DEF CommitStale, CallFails, PassLost
<1>8. ASSUME NEW p \in Passes, Commit(p) PROVE PassMoves(q)
  <2>1. CASE SmallFallsBack(p)
    BY <2>1 DEF SmallFallsBack, StartPass, TypeOK
  <2> QED BY <1>d, <1>8, <2>1
          DEF Commit, CommitSmall, CommitHooks, CommitMarkers, CommitIndex, CommitStreams,
              CommitQueues
<1>9. ASSUME NEW caller, InlineSkip(caller) PROVE PassMoves(q)
  BY <1>k, <1>9 DEF InlineSkip
<1>10. CASE UNCHANGED vars
  BY <1>k, <1>10 DEF vars
<1> QED BY <1>1, <1>2, <1>3, <1>5, <1>6, <1>7, <1>8, <1>9, <1>10 DEF Next, PassStep

LEMMA NextHonest ==
    ASSUME TypeOK, Accounted, TerminalLeaves, [Next]_vars, NEW p \in Passes, Honest(p)
    PROVE  Honest(p)'
<1>1. Drift
  BY NextDrifts
<1>2. PassMoves(p)
  BY NextPasses
<1> QED BY <1>1, <1>2, HonestKept, HonestIdle, HonestCallOut, HonestFallBack, HonestStart
        DEF PassMoves

-----------------------------------------------------------------------------
(* What the phases leave *)

(* The page that commits is the one its pass called out.                    *)
LEMMA CommittedPage ==
    ASSUME NEW p, Honest(p), Commit(p)
    PROVE  /\ passes[p].page \subseteq purged /\ passes[p].refs \subseteq purged
           /\ UNCHANGED remote /\ UNCHANGED known
BY DEF Honest, Commit

LEMMA NextAccounted ==
    ASSUME TypeOK, Accounted, PhasesLeave, \A p \in Passes : Honest(p), [Next]_vars
    PROVE  Accounted'
<1> USE DEF Accounted
<1>k. CASE UNCHANGED <<made, markers, known, regs>> /\ purged \subseteq purged'
  BY <1>k
<1>1. CASE ApplyEvent
  BY <1>1
     DEF ApplyEvent, CreateRun, CreateHook, DisposeHook, ReplayDisposal, ForceDisposeHook,
         CreateWait, EndRun, ReplayEnd, untouched, remote
<1>2. CASE QueueRegistry
  <2>1. ASSUME NEW m, RegisterQueuePayload(m) PROVE Accounted'
    BY <2>1 DEF RegisterQueuePayload, remote
  <2>2. ASSUME NEW m, UnregisterQueuePayload(m) PROVE Accounted'
    BY <2>2 DEF UnregisterQueuePayload
  <2> QED BY <1>2, <2>1, <2>2 DEF QueueRegistry
<1>3. CASE RetentionRpc \/ DeadlinePasses
  <2>1. UNCHANGED <<made, markers, known, regs, remote>>
    BY <1>3
       DEF RetentionRpc, ScheduleCleanup, EnforceRetention, CleanupNow, RearmCleanup, cell,
           DeadlinePasses, untouched
  <2> QED BY <1>k, <2>1 DEF remote
<1>4. ASSUME NEW p \in Passes, NEW alarmed, NEW rest, ExecutePage(p, alarmed, rest)
      PROVE  Accounted'
  <2>1. CASE DeletePayloadBatch
    <3>1. markers = {} /\ regs = {}
      BY <2>1 DEF DeletePayloadBatch, PhasesLeave
    <3>2. UNCHANGED <<made, known, remote>> /\ markers' \subseteq markers /\ regs' \subseteq regs
      BY <2>1 DEF DeletePayloadBatch, Kept
    <3> QED BY <3>1, <3>2 DEF remote
  <2>2. CASE LeaveRetained \/ DeleteTerminalWaitPage
    BY <1>k, <2>2 DEF LeaveRetained, DeleteTerminalWaitPage, remote
  <2>3. CASE \/ NothingDue \/ StartRetentionPass(p, alarmed, rest)
             \/ StartTerminalPass(p, alarmed, rest)
    <3>1. UNCHANGED pageVars
      BY <2>3 DEF NothingDue, StartRetentionPass, StartTerminalPass
    <3> QED BY <1>k, <3>1 DEF pageVars, remote
  <2> QED BY <1>4, <2>1, <2>2, <2>3 DEF ExecutePage
<1>5. ASSUME NEW p \in Passes, NEW caller, FireAlarm(p) \/ InlinePage(p, caller)
      PROVE  Accounted'
  BY <1>4, <1>5 DEF FireAlarm, InlinePage
<1>6. ASSUME NEW p \in Passes, CallOut(p) PROVE Accounted'
  BY <1>k, <1>6 DEF CallOut, cell
<1>7. ASSUME NEW p, CommitStale(p) \/ CallFails(p) \/ PassLost(p) \/ InlineSkip(p)
      PROVE  Accounted'
  <2>1. UNCHANGED <<made, markers, known, regs, remote>>
    BY <1>7 DEF CommitStale, CallFails, PassLost, InlineSkip, cell
  <2> QED BY <1>k, <2>1 DEF remote
<1>8. ASSUME NEW p \in Passes, Commit(p) PROVE Accounted'
  <2>1. /\ passes[p].page \subseteq purged /\ passes[p].refs \subseteq purged
        /\ UNCHANGED <<purged, known>>
    BY <1>8, CommittedPage DEF remote
  <2>2. CASE CommitSmall(p) \/ CommitMarkers(p) \/ CommitIndex(p)
    <3>1. markers' = markers \ passes[p].refs /\ UNCHANGED <<made, regs>>
      BY <2>2 DEF CommitSmall, CommitMarkers, CommitIndex
    <3> QED BY <2>1, <3>1
  <2>3. CASE SmallFallsBack(p) \/ CommitHooks(p) \/ CommitStreams(p)
    <3>1. UNCHANGED <<made, markers, regs>>
      BY <2>3 DEF SmallFallsBack, CommitHooks, CommitStreams, cell
    <3> QED BY <1>k, <2>1, <3>1
  <2>4. CASE CommitQueues(p)
    <3>1. regs' = regs \ passes[p].page /\ UNCHANGED <<made, markers>>
      BY <2>4 DEF CommitQueues
    <3> QED BY <2>1, <3>1
  <2> QED BY <1>8, <2>2, <2>3, <2>4 DEF Commit
<1>9. CASE UNCHANGED vars
  BY <1>k, <1>9 DEF vars, cell, remote
<1> QED BY <1>1, <1>2, <1>3, <1>5, <1>6, <1>7, <1>8, <1>9 DEF Next, PassStep

(* The last page of a phase leaves nothing behind.                          *)
LEMMA LastPageLeaves ==
    ASSUME NEW p, Honest(p), Commit(p), ~passes[p].more
    PROVE  /\ passes[p].kind = "index" => markers' = {} /\ ~catalog'
           /\ passes[p].kind = "streams" => streams' = 0
           /\ passes[p].kind = "queues" => regs' = {}
<1>1. UNCHANGED remote /\ passes[p].called
  BY DEF Commit
<1>2. CASE passes[p].kind = "index"
  <2>1. markers' = markers \ passes[p].refs
    BY <1>2
       DEF Commit, CommitSmall, SmallFallsBack, CommitHooks, CommitMarkers, CommitIndex,
           CommitStreams, CommitQueues
  <2> QED BY <1>1, <1>2, <2>1 DEF Honest, remote
<1>3. CASE passes[p].kind = "streams"
  BY <1>1, <1>3 DEF Honest, remote
<1>4. CASE passes[p].kind = "queues"
  <2>1. regs' = regs \ passes[p].page
    BY <1>4
       DEF Commit, CommitSmall, SmallFallsBack, CommitHooks, CommitMarkers, CommitIndex,
           CommitStreams, CommitQueues
  <2> QED BY <1>4, <2>1 DEF Honest
<1> QED BY <1>2, <1>3, <1>4

LEMMA NextPhasesLeave ==
    ASSUME TypeOK, PhasesLeave, \A p \in Passes : Honest(p), [Next]_vars
    PROVE  PhasesLeave'
<1>1. Drift /\ CleanupMoves
  BY NextDrifts, NextMoves
<1>2. ASSUME Expired
      PROVE  /\ markers = {} => markers' = {}
             /\ regs = {} => regs' = {}
             /\ ~catalog => ~catalog'
             /\ streams = 0 => streams' = 0
  BY <1>1, <1>2 DEF Drift
<1>3. tomb \/ cleanup.phase \in {"streams", "queues", "payload"} => Expired
  BY DEF Expired, Scheduled
<1>4. tomb' => tomb \/ cleanup.phase = "payload"
  BY <1>1 DEF Drift
<1>5. CASE \/ cleanup'.phase = cleanup.phase
           \/ cleanup'.phase \in {"none", "retained", "index"}
  BY <1>2, <1>3, <1>4, <1>5 DEF PhasesLeave
<1>6. ASSUME NEW p \in Passes, Commit(p), passes[p].kind = cleanup.phase, ~passes[p].more,
             NextPhase(cleanup.phase, cleanup'.phase)
      PROVE  PhasesLeave'
  <2>1. /\ cleanup.phase = "index" => markers' = {} /\ ~catalog'
        /\ cleanup.phase = "streams" => streams' = 0
        /\ cleanup.phase = "queues" => regs' = {}
    BY <1>6, LastPageLeaves
  <2>2. \/ cleanup.phase = "index" /\ cleanup'.phase = "streams"
        \/ cleanup.phase = "streams" /\ cleanup'.phase = "queues"
        \/ cleanup.phase = "queues" /\ cleanup'.phase = "payload"
        \/ cleanup'.phase = "index"
    BY <1>6 DEF NextPhase
  <2> QED BY <1>2, <1>3, <1>4, <1>5, <2>1, <2>2 DEF PhasesLeave
<1> QED BY <1>1, <1>5, <1>6 DEF CleanupMoves, NextPhase

-----------------------------------------------------------------------------
(* Terminal cleanup *)

LEMMA TerminalFields ==
    ASSUME NEW t \in TerminalCleanupRecord, NEW phase, NEW gen
    PROVE  /\ [t EXCEPT !.gen = gen].phase = t.phase
           /\ [t EXCEPT !.phase = phase, !.gen = gen].phase = phase
BY DEF TerminalCleanupRecord

LEMMA TerminalKept ==
    ASSUME TerminalLeaves, Drift, UNCHANGED run, terminal'.phase = terminal.phase
    PROVE  TerminalLeaves'
BY DEF TerminalLeaves, Drift, Over

LEMMA AdvanceTerminalMoves ==
    ASSUME TypeOK, NEW p, NEW next, AdvanceTerminal(p, next)
    PROVE  terminal'.phase = IF passes[p].more THEN terminal.phase ELSE next
<1>1. CASE passes[p].more
  <2>1. terminal' = [terminal EXCEPT !.phase = terminal.phase, !.gen = @ + 1]
    BY <1>1 DEF AdvanceTerminal
  <2> QED BY <1>1, <2>1, TerminalFields DEF TypeOK
<1>2. CASE ~passes[p].more
  <2>1. terminal' = [terminal EXCEPT !.phase = next, !.gen = @ + 1]
    BY <1>2 DEF AdvanceTerminal
  <2> QED BY <1>2, <2>1, TerminalFields DEF TypeOK
<1> QED BY <1>1, <1>2

LEMMA ExecutePageLeaves ==
    ASSUME TypeOK, TerminalLeaves, Drift, NEW p, NEW alarmed, NEW rest,
           ExecutePage(p, alarmed, rest)
    PROVE  TerminalLeaves'
<1>1. CASE LeaveRetained
  BY <1>1, TerminalKept DEF LeaveRetained
<1>2. CASE DeletePayloadBatch
  <2>1. tomb' = TRUE /\ run' \in {run, "deleted"} /\ terminal' \in {terminal, NoTerminal}
    BY <1>2 DEF DeletePayloadBatch
  <2> QED BY <2>1 DEF TerminalLeaves, NoTerminal, Over
<1>3. CASE DeleteTerminalWaitPage
  <2>0. terminal.phase = "waits" /\ UNCHANGED <<run, tomb, made, hooks, purged>>
    BY <1>3 DEF DeleteTerminalWaitPage, remote
  <2>1. CASE More(waits)
    <3>1. terminal'.phase = terminal.phase
      <4>1. terminal' = [terminal EXCEPT !.gen = @ + 1] /\ terminal \in TerminalCleanupRecord
        BY <1>3, <2>1 DEF DeleteTerminalWaitPage, TypeOK
      <4> QED BY <4>1, TerminalFields
    <3> QED BY <2>0, <3>1, TerminalKept
  <2>2. CASE ~More(waits)
    <3>1. waits' = {}
      <4>1. PICK page \in Pages(waits) : waits' = waits \ page
        BY <1>3 DEF DeleteTerminalWaitPage
      <4>2. page = waits
        BY <2>2, LastPage, SetsFinite
      <4> QED BY <4>1, <4>2
    <3> QED BY <1>3, <2>0, <2>2, <3>1
            DEF DeleteTerminalWaitPage, FinishTerminal, NoTerminal, TerminalLeaves, Over
  <2> QED BY <2>1, <2>2
<1>4. CASE \/ NothingDue \/ StartRetentionPass(p, alarmed, rest)
           \/ StartTerminalPass(p, alarmed, rest)
  <2>1. UNCHANGED pageVars
    BY <1>4 DEF NothingDue, StartRetentionPass, StartTerminalPass
  <2> QED BY <2>1, TerminalKept DEF pageVars
<1> QED BY <1>1, <1>2, <1>3, <1>4 DEF ExecutePage

LEMMA CommitLeaves ==
    ASSUME TypeOK, TerminalLeaves, Drift, NEW p, Honest(p), Commit(p)
    PROVE  TerminalLeaves'
<1>0. Current(p) /\ UNCHANGED <<run, made, tomb, purged>> /\ passes[p].refs \subseteq purged
  BY CommittedPage
     DEF Commit, CommitSmall, SmallFallsBack, CommitHooks, CommitMarkers, CommitIndex,
         CommitStreams, CommitQueues, cell, remote
<1>1. CASE CommitSmall(p)
  <2>1. terminal'.phase = "none" /\ waits' = {}
    BY <1>1 DEF CommitSmall, FinishTerminal, NoTerminal
  <2>2. ~passes[p].more => hooks' = {} /\ made \subseteq purged
    BY <1>0, <1>1 DEF CommitSmall, Honest
  <2>3. ~passes[p].more
    BY <1>1 DEF CommitSmall, Honest
  <2> QED BY <1>0, <2>1, <2>2, <2>3 DEF TerminalLeaves
<1>2. CASE CommitHooks(p)
  <2>1. terminal.phase = "hooks"
    BY <1>0, <1>2, CurrentPhase DEF CommitHooks
  <2>2. CASE passes[p].more
    BY <1>0, <1>2, <2>2, AdvanceTerminalMoves, TerminalKept DEF CommitHooks
  <2>3. CASE ~passes[p].more
    <3>1. terminal'.phase = "markers" /\ hooks' = {}
      BY <1>2, <2>3, AdvanceTerminalMoves DEF CommitHooks, Honest
    <3> QED BY <1>0, <2>1, <3>1 DEF TerminalLeaves, Over
  <2> QED BY <2>2, <2>3
<1>3. CASE CommitMarkers(p)
  <2>1. terminal.phase = "markers"
    BY <1>0, <1>3, CurrentPhase DEF CommitMarkers
  <2>2. CASE passes[p].more
    BY <1>0, <1>3, <2>2, AdvanceTerminalMoves, TerminalKept DEF CommitMarkers
  <2>3. CASE ~passes[p].more
    <3>1. terminal'.phase = "waits" /\ UNCHANGED hooks /\ made \subseteq purged
      BY <1>0, <1>3, <2>3, AdvanceTerminalMoves DEF CommitMarkers, Honest
    <3> QED BY <1>0, <2>1, <3>1 DEF TerminalLeaves, Over
  <2> QED BY <2>2, <2>3
<1>4. CASE SmallFallsBack(p) \/ CommitIndex(p) \/ CommitStreams(p) \/ CommitQueues(p)
  <2>1. UNCHANGED terminal
    BY <1>4 DEF SmallFallsBack, CommitIndex, CommitStreams, CommitQueues, cell
  <2> QED BY <1>0, <2>1, TerminalKept
<1> QED BY <1>1, <1>2, <1>3, <1>4 DEF Commit

LEMMA NextTerminalLeaves ==
    ASSUME TypeOK, TerminalLeaves, \A p \in Passes : Honest(p), [Next]_vars
    PROVE  TerminalLeaves'
<1>0. Drift
  BY NextDrifts
<1>1. CASE ApplyEvent
  <2>1. CASE CreateRun
    BY <2>1 DEF CreateRun, TerminalLeaves, Over
  <2>2. ASSUME NEW retain, NEW due, TerminalBookkeeping(retain, due), run' = "terminal",
               run \in {"live", "terminal"}, UNCHANGED <<hooks, waits, made, tomb, purged>>
        PROVE  TerminalLeaves'
    <3>1. CASE terminal.phase = "none"
      BY <2>2, <3>1 DEF TerminalBookkeeping, TerminalLeaves, Over
    <3>2. CASE terminal.phase # "none"
      BY <2>2, <3>2 DEF TerminalBookkeeping, TerminalLeaves, Over
    <3> QED BY <3>1, <3>2
  <2>3. ASSUME NEW retain, NEW due, EndRun(retain) \/ ReplayEnd(retain, due)
        PROVE  TerminalLeaves'
    BY <2>2, <2>3 DEF EndRun, ReplayEnd, untouched, remote
  <2>4. ASSUME NEW x, \/ CreateHook(x) \/ DisposeHook(x) \/ ReplayDisposal(x)
                      \/ ForceDisposeHook(x) \/ CreateWait(x)
        PROVE  TerminalLeaves'
    BY <1>0, <2>4, TerminalKept
       DEF CreateHook, DisposeHook, ReplayDisposal, ForceDisposeHook, CreateWait
  <2> QED BY <1>1, <2>1, <2>3, <2>4 DEF ApplyEvent
<1>2. CASE QueueRegistry \/ RetentionRpc \/ DeadlinePasses
  BY <1>0, <1>2, TerminalKept
     DEF QueueRegistry, RegisterQueuePayload, UnregisterQueuePayload, RetentionRpc,
         ScheduleCleanup, EnforceRetention, CleanupNow, RearmCleanup, cell, DeadlinePasses
<1>3. ASSUME NEW p, NEW caller, FireAlarm(p) \/ InlinePage(p, caller) PROVE TerminalLeaves'
  BY <1>0, <1>3, ExecutePageLeaves DEF FireAlarm, InlinePage
<1>4. ASSUME NEW p \in Passes, Commit(p) PROVE TerminalLeaves'
  BY <1>0, <1>4, CommitLeaves
<1>5. ASSUME NEW p, CallOut(p) \/ CommitStale(p) \/ PassLost(p) \/ InlineSkip(p)
      PROVE  TerminalLeaves'
  BY <1>0, <1>5, TerminalKept DEF CallOut, CommitStale, PassLost, InlineSkip, cell
<1>6. ASSUME NEW p, CallFails(p) PROVE TerminalLeaves'
  <2>0. UNCHANGED run /\ terminal \in TerminalCleanupRecord
    BY <1>6 DEF CallFails, TypeOK
  <2>1. terminal'.phase = terminal.phase
    <3>1. CASE UNCHANGED terminal
      BY <3>1
    <3>2. CASE terminal' = [terminal EXCEPT !.gen = @ + 1]
      BY <2>0, <3>2, TerminalFields
    <3> QED BY <1>6, <3>1, <3>2 DEF CallFails, RecordFailure
  <2> QED BY <1>0, <2>0, <2>1, TerminalKept
<1>7. CASE UNCHANGED vars
  BY <1>0, <1>7, TerminalKept DEF vars, cell
<1> QED BY <1>1, <1>2, <1>3, <1>4, <1>5, <1>6, <1>7 DEF Next, PassStep

(* The same steps take the terminal record forward only.                    *)
LEMMA ExecutePageAdvances ==
    ASSUME TypeOK, NEW p, NEW alarmed, NEW rest, ExecutePage(p, alarmed, rest)
    PROVE  TerminalAdvances
<1>1. CASE LeaveRetained
  BY <1>1 DEF LeaveRetained, TerminalAdvances
<1>2. CASE DeletePayloadBatch
  <2>1. cleanup.phase = "payload" /\ terminal' \in {terminal, NoTerminal}
    BY <1>2 DEF DeletePayloadBatch
  <2> QED BY <2>1 DEF TerminalAdvances, NoTerminal
<1>3. CASE DeleteTerminalWaitPage
  <2>1. CASE More(waits)
    <3>1. terminal' = [terminal EXCEPT !.gen = @ + 1] /\ terminal \in TerminalCleanupRecord
      BY <1>3, <2>1 DEF DeleteTerminalWaitPage, TypeOK
    <3>2. terminal'.phase = terminal.phase
      BY <3>1, TerminalFields
    <3> QED BY <3>2 DEF TerminalAdvances
  <2>2. CASE ~More(waits)
    <3>1. PICK page \in Pages(waits) : waits' = waits \ page
      BY <1>3 DEF DeleteTerminalWaitPage
    <3>2. page = waits
      BY <2>2, LastPage, SetsFinite
    <3>3. waits' = {}
      BY <3>1, <3>2
    <3>4. terminal.phase = "waits" /\ terminal'.phase = "none"
      BY <1>3, <2>2 DEF DeleteTerminalWaitPage, FinishTerminal, NoTerminal
    <3> QED BY <3>3, <3>4 DEF TerminalAdvances
  <2> QED BY <2>1, <2>2
<1>4. CASE \/ NothingDue \/ StartRetentionPass(p, alarmed, rest)
           \/ StartTerminalPass(p, alarmed, rest)
  <2>1. UNCHANGED pageVars
    BY <1>4 DEF NothingDue, StartRetentionPass, StartTerminalPass
  <2> QED BY <2>1 DEF pageVars, TerminalAdvances
<1> QED BY <1>1, <1>2, <1>3, <1>4 DEF ExecutePage

LEMMA CommitAdvances ==
    ASSUME TypeOK, NEW p, Honest(p), Commit(p)
    PROVE  TerminalAdvances
<1>0. Current(p)
  BY DEF Commit
<1>1. CASE CommitSmall(p)
  <2>1. terminal.phase = "hooks"
    BY <1>0, <1>1, CurrentPhase DEF CommitSmall
  <2>2. terminal'.phase = "none" /\ waits' = {}
    BY <1>1 DEF CommitSmall, FinishTerminal, NoTerminal
  <2>3. hooks' = {} /\ made \subseteq purged
    BY <1>0, <1>1, CommittedPage DEF CommitSmall, Honest
  <2> QED BY <2>1, <2>2, <2>3 DEF TerminalAdvances
<1>2. CASE CommitHooks(p)
  <2>1. terminal.phase = "hooks"
    BY <1>0, <1>2, CurrentPhase DEF CommitHooks
  <2>2. CASE passes[p].more
    BY <1>2, <2>2, AdvanceTerminalMoves DEF CommitHooks, TerminalAdvances
  <2>3. CASE ~passes[p].more
    <3>1. terminal'.phase = "markers" /\ hooks' = {}
      BY <1>2, <2>3, AdvanceTerminalMoves DEF CommitHooks, Honest
    <3> QED BY <2>1, <3>1 DEF TerminalAdvances
  <2> QED BY <2>2, <2>3
<1>3. CASE CommitMarkers(p)
  <2>1. terminal.phase = "markers"
    BY <1>0, <1>3, CurrentPhase DEF CommitMarkers
  <2>2. CASE passes[p].more
    BY <1>3, <2>2, AdvanceTerminalMoves DEF CommitMarkers, TerminalAdvances
  <2>3. CASE ~passes[p].more
    <3>1. terminal'.phase = "waits" /\ made \subseteq purged
      BY <1>0, <1>3, <2>3, AdvanceTerminalMoves, CommittedPage DEF CommitMarkers, Honest
    <3> QED BY <2>1, <3>1 DEF TerminalAdvances
  <2> QED BY <2>2, <2>3
<1>4. CASE SmallFallsBack(p) \/ CommitIndex(p) \/ CommitStreams(p) \/ CommitQueues(p)
  <2>1. UNCHANGED terminal
    BY <1>4 DEF SmallFallsBack, CommitIndex, CommitStreams, CommitQueues, cell
  <2> QED BY <2>1 DEF TerminalAdvances
<1> QED BY <1>1, <1>2, <1>3, <1>4 DEF Commit

LEMMA NextTerminalAdvances ==
    ASSUME TypeOK, \A p \in Passes : Honest(p), [Next]_vars
    PROVE  TerminalAdvances
<1>k. ASSUME UNCHANGED terminal PROVE TerminalAdvances
  BY <1>k DEF TerminalAdvances
<1>1. CASE ApplyEvent
  <2>1. ASSUME NEW retain, NEW due, TerminalBookkeeping(retain, due), ~Expired
        PROVE  TerminalAdvances
    <3>1. CASE terminal.phase = "none"
      <4>1. terminal'.phase = "hooks"
        BY <2>1, <3>1 DEF TerminalBookkeeping
      <4> QED BY <2>1, <3>1, <4>1 DEF TerminalAdvances
    <3>2. CASE terminal.phase # "none"
      BY <1>k, <2>1, <3>2 DEF TerminalBookkeeping
    <3> QED BY <3>1, <3>2
  <2>2. ASSUME NEW retain, EndRun(retain) PROVE TerminalAdvances
    BY <2>1, <2>2 DEF EndRun
  <2>3. ASSUME NEW retain, NEW due, ReplayEnd(retain, due) PROVE TerminalAdvances
    BY <2>1, <2>3 DEF ReplayEnd
  <2>4. ASSUME NEW x, \/ CreateRun \/ CreateHook(x) \/ DisposeHook(x) \/ ReplayDisposal(x)
                      \/ ForceDisposeHook(x) \/ CreateWait(x)
        PROVE  TerminalAdvances
    BY <1>k, <2>4 DEF CreateRun, CreateHook, DisposeHook, ReplayDisposal, ForceDisposeHook,
                      CreateWait
  <2> QED BY <1>1, <2>2, <2>3, <2>4 DEF ApplyEvent
<1>2. CASE QueueRegistry \/ RetentionRpc \/ DeadlinePasses
  BY <1>k, <1>2
     DEF QueueRegistry, RegisterQueuePayload, UnregisterQueuePayload, RetentionRpc,
         ScheduleCleanup, EnforceRetention, CleanupNow, RearmCleanup, cell, DeadlinePasses
<1>3. ASSUME NEW p, NEW caller, FireAlarm(p) \/ InlinePage(p, caller) PROVE TerminalAdvances
  BY <1>3, ExecutePageAdvances DEF FireAlarm, InlinePage
<1>4. ASSUME NEW p \in Passes, Commit(p) PROVE TerminalAdvances
  BY <1>4, CommitAdvances
<1>5. ASSUME NEW p, CallOut(p) \/ CommitStale(p) \/ PassLost(p) \/ InlineSkip(p)
      PROVE  TerminalAdvances
  BY <1>k, <1>5 DEF CallOut, CommitStale, PassLost, InlineSkip, cell
<1>6. ASSUME NEW p, CallFails(p) PROVE TerminalAdvances
  <2>1. CASE UNCHANGED terminal
    BY <1>k, <2>1
  <2>2. CASE terminal' = [terminal EXCEPT !.gen = @ + 1]
    <3>1. terminal'.phase = terminal.phase
      BY <2>2, TerminalFields DEF TypeOK
    <3> QED BY <3>1 DEF TerminalAdvances
  <2> QED BY <1>6, <2>1, <2>2 DEF CallFails, RecordFailure
<1>7. CASE UNCHANGED vars
  BY <1>k, <1>7 DEF vars, cell
<1> QED BY <1>1, <1>2, <1>3, <1>4, <1>5, <1>6, <1>7 DEF Next, PassStep

-----------------------------------------------------------------------------
(* Each payload is counted once *)

(* Generations only grow: a queues page whose record moved on stays stale.  *)
LEMMA StaleForGood ==
    ASSUME TypeOK, TypeOK', CleanupMoves, Drift, NEW p \in Passes, passes[p].kind = "queues",
           Honest(p), Scheduled => passes[p].gen <= cleanup.gen
    PROVE  /\ Scheduled' => passes[p].gen <= cleanup'.gen
           /\ cleanup'.phase = "queues" /\ cleanup'.gen = passes[p].gen => Current(p)
<1>1. passes[p].gen \in Nat /\ cleanup.gen \in Nat /\ cleanup'.gen \in Nat
  BY DEF TypeOK, Pass, CleanupRecord
<1>2. Expired
  BY DEF Honest
<1>3. CASE cleanup'.phase = cleanup.phase /\ cleanup'.gen >= cleanup.gen
  <2>1. Scheduled' <=> Scheduled
    BY <1>3 DEF Scheduled
  <2>2. Scheduled' => passes[p].gen <= cleanup'.gen
    BY <1>1, <1>3, <2>1
  <2>3. ASSUME cleanup'.phase = "queues", cleanup'.gen = passes[p].gen PROVE Current(p)
    <3>1. cleanup.gen = passes[p].gen
      BY <1>1, <1>3, <2>3 DEF Scheduled
    <3> QED BY <1>3, <2>3, <3>1 DEF Current, TerminalKinds
  <2> QED BY <2>2, <2>3
<1>4. CASE cleanup.phase = "none" /\ ~tomb /\ cleanup'.phase = "retained"
  BY <1>2, <1>4 DEF Expired, Scheduled
<1>5. CASE NextPhase(cleanup.phase, cleanup'.phase) /\ cleanup'.gen > cleanup.gen
  <2>1. Scheduled
    BY <1>5 DEF NextPhase, Scheduled
  <2> QED BY <1>1, <1>5, <2>1
<1>6. CASE cleanup'.phase = "none"
  BY <1>6 DEF Scheduled
<1> QED BY <1>3, <1>4, <1>5, <1>6 DEF CleanupMoves

(* Only new messages are registered, and only a queues page counts.         *)
LEMMA NextRegistrations ==
    ASSUME TypeOK, [Next]_vars
    PROVE  /\ known \subseteq known' /\ regs' \subseteq regs \cup (known' \ known)
           /\ \/ UNCHANGED <<counted, drained>>
              \/ \E p \in Passes : Commit(p) /\ CommitQueues(p)
<1> DEFINE Registered == known \subseteq known' /\ regs' \subseteq regs \cup (known' \ known)
           Counts == \/ UNCHANGED <<counted, drained>>
                     \/ \E p \in Passes : Commit(p) /\ CommitQueues(p)
<1> SUFFICES Registered /\ Counts
  OBVIOUS
<1>k. CASE UNCHANGED <<regs, known, counted, drained>>
  BY <1>k
<1> HIDE DEF Counts
<1>c. UNCHANGED <<counted, drained>> => Counts
  BY DEF Counts
<1>1. CASE ApplyEvent
  BY <1>c, <1>1
     DEF ApplyEvent, CreateRun, CreateHook, DisposeHook, ReplayDisposal, ForceDisposeHook,
         CreateWait, EndRun, ReplayEnd, untouched
<1>2. CASE QueueRegistry
  BY <1>c, <1>2 DEF QueueRegistry, RegisterQueuePayload, UnregisterQueuePayload
<1>3. CASE RetentionRpc \/ DeadlinePasses
  BY <1>c, <1>3
     DEF RetentionRpc, ScheduleCleanup, EnforceRetention, CleanupNow, RearmCleanup, cell,
         DeadlinePasses, untouched
<1>4. ASSUME NEW p \in Passes, NEW alarmed, NEW rest, ExecutePage(p, alarmed, rest)
      PROVE  Registered /\ Counts
  <2>1. CASE DeletePayloadBatch
    BY <1>c, <2>1 DEF DeletePayloadBatch, Kept
  <2>2. CASE LeaveRetained \/ DeleteTerminalWaitPage
    BY <1>c, <2>2 DEF LeaveRetained, DeleteTerminalWaitPage
  <2>3. CASE \/ NothingDue \/ StartRetentionPass(p, alarmed, rest)
             \/ StartTerminalPass(p, alarmed, rest)
    <3>1. UNCHANGED pageVars
      BY <2>3 DEF NothingDue, StartRetentionPass, StartTerminalPass
    <3> QED BY <1>c, <3>1 DEF pageVars
  <2> QED BY <1>4, <2>1, <2>2, <2>3 DEF ExecutePage
<1>5. ASSUME NEW p \in Passes, NEW caller, FireAlarm(p) \/ InlinePage(p, caller)
      PROVE  Registered /\ Counts
  BY <1>4, <1>5 DEF FireAlarm, InlinePage
<1>6. ASSUME NEW p, \/ CallOut(p) \/ CommitStale(p) \/ CallFails(p) \/ PassLost(p)
                    \/ InlineSkip(p)
      PROVE  Registered /\ Counts
  <2>1. UNCHANGED <<regs, known, counted, drained>>
    BY <1>6 DEF CallOut, CommitStale, CallFails, PassLost, InlineSkip, cell
  <2> QED BY <1>c, <2>1
<1>7. ASSUME NEW p \in Passes, Commit(p) PROVE Registered /\ Counts
  <2>1. UNCHANGED known
    BY <1>7 DEF Commit
  <2>2. CASE CommitQueues(p)
    BY <1>7, <2>1, <2>2 DEF CommitQueues, Counts
  <2> QED BY <1>c, <1>7, <2>1, <2>2
          DEF Commit, CommitSmall, SmallFallsBack, CommitHooks, CommitMarkers, CommitIndex,
              CommitStreams, cell
<1>8. CASE UNCHANGED vars
  BY <1>c, <1>8 DEF vars, cell
<1> QED BY <1>1, <1>2, <1>3, <1>5, <1>6, <1>7, <1>8 DEF Next, PassStep

(* A pass while nothing is counted.                                         *)
LEMMA DrainedKept ==
    ASSUME TypeOK, TypeOK', Accounted, DrainedOnce, [Next]_vars, NEW p \in Passes, Honest(p),
           UNCHANGED drained, passes'[p].kind = "queues"
    PROVE  /\ Scheduled' => passes'[p].gen <= cleanup'.gen
           /\ Current(p)' => passes'[p].page \cap drained' = {}
<1>0. Drift /\ CleanupMoves /\ PassMoves(p)
  BY NextDrifts, NextMoves, NextPasses
<1>1. CASE passes'[p] = passes[p] \/ CallOut(p)
  <2>1. /\ passes'[p].kind = passes[p].kind /\ passes'[p].gen = passes[p].gen
        /\ passes'[p].page = passes[p].page
    <3>1. CASE CallOut(p)
      BY <3>1 DEF CallOut, TypeOK, Pass
    <3> QED BY <1>1, <3>1
  <2>2. Scheduled => passes[p].gen <= cleanup.gen
    BY <2>1 DEF DrainedOnce
  <2>3. /\ Scheduled' => passes[p].gen <= cleanup'.gen
        /\ cleanup'.phase = "queues" /\ cleanup'.gen = passes[p].gen => Current(p)
    BY <1>0, <2>1, <2>2, StaleForGood
  <2>4. Current(p)' => cleanup'.phase = "queues" /\ cleanup'.gen = passes[p].gen
    BY <2>1 DEF Current, TerminalKinds
  <2>5. Current(p) => passes[p].page \cap drained = {}
    BY <2>1 DEF DrainedOnce
  <2> QED BY <2>1, <2>3, <2>4, <2>5
<1>2. CASE passes'[p] = NoPass
  BY <1>2 DEF NoPass
<1>3. CASE SmallFallsBack(p)
  BY <1>3 DEF SmallFallsBack, StartPass, TypeOK
<1>4. ASSUME NEW alarmed, NEW rest, StartTerminalPass(p, alarmed, rest)
      PROVE  passes'[p].kind # "queues"
  BY <1>4 DEF StartTerminalPass, StartPass, TypeOK
<1>5. ASSUME NEW alarmed, NEW rest, StartRetentionPass(p, alarmed, rest)
      PROVE  /\ Scheduled' => passes'[p].gen <= cleanup'.gen
             /\ passes'[p].page \cap drained' = {}
  <2>1. PICK page \in Pages(regs) :
          StartPass(p, alarmed, "queues", cleanup.gen, page, {}, More(regs))
    BY <1>5 DEF StartRetentionPass, StartPass, TypeOK
  <2>2. passes'[p].gen = cleanup.gen /\ passes'[p].page = page
    BY <2>1 DEF StartPass, TypeOK
  <2>3. cleanup' = cleanup /\ cleanup.gen \in Nat
    BY <1>5 DEF StartRetentionPass, pageVars, TypeOK, CleanupRecord
  <2>4. page \cap drained = {}
    BY PagesType DEF DrainedOnce
  <2> QED BY <2>2, <2>3, <2>4
<1> QED BY <1>0, <1>1, <1>2, <1>3, <1>4, <1>5 DEF PassMoves

LEMMA NextDrained ==
    ASSUME TypeOK, TypeOK', Accounted, DrainedOnce, \A p \in Passes : Honest(p), [Next]_vars
    PROVE  DrainedOnce'
<1>1. known \subseteq known' /\ regs' \subseteq regs \cup (known' \ known)
  BY NextRegistrations
<1>2. CASE UNCHANGED <<counted, drained>>
  <2>1. counted' = Cardinality(drained') /\ drained' \subseteq known' /\ drained' \cap regs' = {}
    BY <1>1, <1>2 DEF DrainedOnce
  <2>2. \A p \in Passes : passes'[p].kind = "queues" =>
          /\ Scheduled' => passes'[p].gen <= cleanup'.gen
          /\ Current(p)' => passes'[p].page \cap drained' = {}
    BY <1>2, DrainedKept
  <2> QED BY <2>1, <2>2 DEF DrainedOnce
<1>3. ASSUME NEW p \in Passes, Commit(p), CommitQueues(p) PROVE DrainedOnce'
  <2>1. /\ passes[p].page \subseteq known /\ passes[p].page \cap drained = {}
        /\ passes[p].kind = "queues"
    BY <1>3 DEF Commit, CommitQueues, Honest, DrainedOnce
  <2>2. /\ drained' = drained \cup passes[p].page
        /\ regs' = regs \ passes[p].page /\ counted' = counted + Cardinality(passes[p].page)
        /\ UNCHANGED known
    BY <1>3 DEF Commit, CommitQueues
  <2>3. IsFiniteSet(drained) /\ IsFiniteSet(passes[p].page)
    <3>1. IsFiniteSet(Payloads)
      BY SizesAssumption
    <3>2. drained \subseteq Payloads /\ passes[p].page \subseteq Payloads
      BY <2>1 DEF DrainedOnce, TypeOK
    <3> QED BY <3>1, <3>2, FS_Subset
  <2>4. counted' = Cardinality(drained')
    <3>1. Cardinality(drained \cup passes[p].page) =
            Cardinality(drained) + Cardinality(passes[p].page) - Cardinality({})
      BY <2>1, <2>3, FS_Union
    <3>2. /\ Cardinality({}) = 0 /\ Cardinality(drained) \in Nat
          /\ Cardinality(passes[p].page) \in Nat
      BY <2>3, FS_EmptySet, FS_CardinalityType
    <3>3. counted = Cardinality(drained)
      BY DEF DrainedOnce
    <3> QED BY <2>2, <3>1, <3>2, <3>3
  <2>5. drained' \subseteq known' /\ drained' \cap regs' = {}
    BY <2>1, <2>2 DEF DrainedOnce
  <2>6. cleanup'.gen = cleanup.gen + 1 /\ cleanup.gen \in Nat /\ cleanup.phase = "queues"
    BY <1>3, <2>1, AdvanceMoves, CurrentPhase DEF Commit, CommitQueues
  <2>7. ASSUME NEW q \in Passes, passes'[q].kind = "queues"
        PROVE  /\ Scheduled' => passes'[q].gen <= cleanup'.gen
               /\ Current(q)' => passes'[q].page \cap drained' = {}
    <3>1. q # p /\ passes'[q] = passes[q]
      BY <1>3, <2>7 DEF CommitQueues, Done, NoPass, TypeOK
    <3>2. passes[q].gen <= cleanup.gen /\ passes[q].gen \in Nat
      BY <2>6, <2>7, <3>1 DEF DrainedOnce, Scheduled, TypeOK, Pass
    <3>3. ~Current(q)'
      BY <2>6, <2>7, <3>1, <3>2 DEF Current, TerminalKinds
    <3> QED BY <2>6, <3>1, <3>2, <3>3
  <2> QED BY <2>4, <2>5, <2>7 DEF DrainedOnce
<1> QED BY <1>2, <1>3, NextRegistrations

-----------------------------------------------------------------------------

CleanupInv ==
    /\ Accounted /\ PhasesLeave /\ TerminalLeaves /\ DrainedOnce
    /\ \A p \in Passes : Honest(p)

LEMMA InitCleanup == Init => CleanupInv
<1> SUFFICES ASSUME Init PROVE CleanupInv
  OBVIOUS
<1>1. Accounted
  BY DEF Init, Accounted
<1>2. PhasesLeave
  BY DEF Init, PhasesLeave, NoCleanup
<1>3. TerminalLeaves
  BY DEF Init, TerminalLeaves, NoTerminal
<1>4. \A p \in Passes : passes[p].kind = "idle" /\ ~passes[p].called
  BY DEF Init, NoPass
<1>5. DrainedOnce
  BY <1>4, FS_EmptySet DEF Init, DrainedOnce
<1>6. \A p \in Passes : Honest(p)
  BY <1>4 DEF Honest, TerminalKinds
<1> QED BY <1>1, <1>2, <1>3, <1>5, <1>6 DEF CleanupInv

LEMMA CleanupInvariant == Spec => [](TypeOK /\ CleanupInv)
<1>1. TypeOK /\ TypeOK' /\ CleanupInv /\ [Next]_vars => CleanupInv'
  <2> SUFFICES ASSUME TypeOK, TypeOK', CleanupInv, [Next]_vars PROVE CleanupInv'
    OBVIOUS
  <2> USE DEF CleanupInv
  <2>1. Accounted' /\ PhasesLeave' /\ TerminalLeaves' /\ DrainedOnce'
    BY NextAccounted, NextPhasesLeave, NextTerminalLeaves, NextDrained
  <2>2. \A p \in Passes : Honest(p)'
    BY NextHonest
  <2> QED BY <2>1, <2>2
<1> QED BY <1>1, InitCleanup, TypeCorrect, PTL DEF Spec

(* A hook reference or a queue registration leaves the cell only after what *)
(* it points to was released or deleted elsewhere, and nothing is left      *)
(* behind a tombstone, whatever pages and calls overlap, fail or are lost   *)
(* (the page functions of WorkflowRunDO.ts, which delete what they listed). *)
THEOREM CleanupForgetsNothing == Spec => []NoDerivativeForgotten
<1>1. CleanupInv => NoDerivativeForgotten
  BY DEF CleanupInv, Accounted, PhasesLeave, NoDerivativeForgotten
<1> QED BY <1>1, CleanupInvariant, PTL

(* The tombstone and the payload phase come after the hook references, the  *)
(* catalog entry, the streams and the queue payloads of the run are gone    *)
(* (deletePayloadBatch after the other phases).                             *)
THEOREM TombstoneComesLast == Spec => []TombstoneLast
<1>1. CleanupInv => TombstoneLast
  BY DEF CleanupInv, PhasesLeave, TombstoneLast
<1> QED BY <1>1, CleanupInvariant, PTL

(* When the terminal cleanup record is gone, the run has no hook and no     *)
(* wait and every hook it ever made was released in the hook index, though  *)
(* two passes may work on one record (completeSmallTerminalCleanup and the  *)
(* paged phases).  A replayed disposal may leave a reference to a released  *)
(* hook.                                                                    *)
THEOREM TerminalCleanupReleasesHooks == Spec => []TerminalCleanupIsComplete
<1>1. CleanupInv => TerminalCleanupIsComplete
  BY DEF CleanupInv, TerminalLeaves, TerminalCleanupIsComplete
<1> QED BY <1>1, CleanupInvariant, PTL

(* Both cleanup records only move forward: no overlapping call, stale page  *)
(* or failure takes one back, skips a phase, or leaves a phase of terminal  *)
(* cleanup whose hooks, references or waits are not gone (setCleanupPhase,  *)
(* advanceTerminalCleanup and the generation checks of WorkflowRunDO.ts).   *)
THEOREM PhasesOnlyAdvance == Spec => PhasesAdvance
<1>1. TypeOK /\ CleanupInv /\ [Next]_vars => [RetentionAdvances /\ TerminalAdvances]_vars
  <2> SUFFICES ASSUME TypeOK, CleanupInv, [Next]_vars
               PROVE  RetentionAdvances /\ TerminalAdvances
    OBVIOUS
  <2>1. RetentionAdvances
    BY NextMoves, RetentionOrder
  <2>2. TerminalAdvances
    BY NextTerminalAdvances DEF CleanupInv
  <2> QED BY <2>1, <2>2
<1> QED BY <1>1, CleanupInvariant, PTL DEF Spec, PhasesAdvance

(* deletedQueuePayloads counts each payload once: a page that two passes    *)
(* hold is committed by one of them, and no later page holds it again       *)
(* (the generation check of deleteQueuePage).                               *)
THEOREM PayloadsAreCountedOnce == Spec => []CountedOnce
<1>1. CleanupInv => CountedOnce
  BY DEF CleanupInv, DrainedOnce, CountedOnce
<1> QED BY <1>1, CleanupInvariant, PTL

=============================================================================
