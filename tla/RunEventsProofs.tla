--------------------------- MODULE RunEventsProofs ---------------------------
(***************************************************************************)
(* Proofs about RunEvents, for any number of steps, hooks, waits, resume   *)
(* IDs, reservations and events.                                           *)
(***************************************************************************)
EXTENDS RunEvents, TLAPS

(* Appending an event leaves the journal well typed.                        *)
LEMMA PutType ==
    ASSUME NEW evs, NEW slot \in Nat, NEW e \in Event,
           DOMAIN evs \subseteq Nat,
           \A i \in DOMAIN evs : evs[i] \in Event
    PROVE  /\ DOMAIN Put(evs, slot, e) = DOMAIN evs \cup {slot}
           /\ DOMAIN Put(evs, slot, e) \subseteq Nat
           /\ \A i \in DOMAIN Put(evs, slot, e) : Put(evs, slot, e)[i] \in Event
           /\ Put(evs, slot, e)[slot] = e
           /\ \A i \in DOMAIN evs \ {slot} : Put(evs, slot, e)[i] = evs[i]
BY DEF Put

JournalType ==
    /\ DOMAIN events \subseteq Nat
    /\ \A i \in DOMAIN events : events[i] \in Event
    /\ events = [i \in DOMAIN events |-> events[i]]
    /\ seq \in 0..MaxEvents

LEMMA PutEventType ==
    ASSUME JournalType, NEW e \in Event, PutEvent(e)
    PROVE  JournalType'
<1>1. seq + 1 \in Nat /\ seq + 1 \in 0..MaxEvents
  BY BoundsAssumption DEF JournalType, PutEvent
<1>2. DOMAIN events \subseteq Nat /\ \A i \in DOMAIN events : events[i] \in Event
  BY DEF JournalType
<1> DEFINE evs == Put(events, seq + 1, e)
<1>3. /\ DOMAIN evs \subseteq Nat
      /\ \A i \in DOMAIN evs : evs[i] \in Event
  BY <1>1, <1>2, PutType
<1>5. evs = [i \in DOMAIN evs |-> evs[i]]
  BY DEF Put
<1>4. events' = evs /\ seq' = seq + 1
  BY DEF PutEvent
<1> HIDE DEF evs
<1> QED
  BY <1>1, <1>3, <1>4, <1>5 DEF JournalType

LEMMA PutEventsType ==
    ASSUME JournalType, NEW e \in Event, NEW f \in Event, PutEvents(e, f)
    PROVE  JournalType'
<1>1. /\ seq + 1 \in Nat /\ seq + 2 \in Nat
      /\ seq + 2 \in 0..MaxEvents
  BY BoundsAssumption DEF JournalType, PutEvents
<1> DEFINE evs == Put(events, seq + 1, e)
<1>2. /\ DOMAIN evs \subseteq Nat
      /\ \A i \in DOMAIN evs : evs[i] \in Event
  BY <1>1, PutType DEF JournalType
<1> HIDE DEF evs
<1> DEFINE both == Put(evs, seq + 2, f)
<1>3. /\ DOMAIN both \subseteq Nat
      /\ \A i \in DOMAIN both : both[i] \in Event
  BY <1>1, <1>2, PutType
<1>5. both = [i \in DOMAIN both |-> both[i]]
  BY DEF Put
<1>4. events' = both /\ seq' = seq + 2
  BY DEF PutEvents, evs
<1> HIDE DEF both
<1> QED
  BY <1>1, <1>3, <1>4, <1>5 DEF JournalType

(* Every event a handler builds is an event of the journal.                 *)
LEMMA EvType ==
    ASSUME NEW type \in EventTypes, NEW id \in EventId
    PROVE  Ev(type, id) \in Event
BY DEF Ev, Event

LEMMA RunEvType ==
    ASSUME NEW type \in RunTypes
    PROVE  RunEv(type) \in Event
BY EvType DEF RunEv, EventTypes, EventId

(* The part of TypeOK that is not the journal.                              *)
StoreType ==
    /\ run \in RunStatus
    /\ steps \in [Steps -> Step]
    /\ hooks \in [Hooks -> Tokens \cup {None}]
    /\ hookEvent \in [Hooks -> Nat]
    /\ released \in [Hooks -> Tokens \cup {None}]
    /\ forced \in [Hooks -> Peers \cup {None}]
    /\ waits \in [Waits -> WaitStatus]
    /\ attrMarks \subseteq Attrs
    /\ resumes \in [Resumes -> [hook : Hooks \cup {None}, slot : Nat]]
    /\ fences \subseteq EventClaim
    /\ now \in 0..MaxTime
    /\ wonBy \in [Hooks -> EventClaim \cup {None}]
    /\ denied \subseteq EventClaim

LEMMA TypeSplit == TypeOK <=> StoreType /\ JournalType
BY DEF TypeOK, StoreType, JournalType

LEMMA InitType == Init => TypeOK
BY BoundsAssumption
   DEF Init, TypeOK, RunStatus, Step, StepStatus, WaitStatus

LEMMA RunStepType == TypeOK /\ RunStep => TypeOK'
<1> SUFFICES ASSUME StoreType, JournalType, RunStep
             PROVE  StoreType' /\ JournalType'
  BY TypeSplit DEF TypeOK, StoreType, JournalType
<1> USE DEF entityVars, hookVars
<1>1. CASE RunCreated
  <2>1. JournalType'
    BY <1>1, RunEvType, PutEventType DEF RunCreated, RunTypes
  <2> QED BY <1>1, <2>1 DEF RunCreated, StoreType, RunStatus
<1>2. CASE RunBootstrapped
  <2>1. JournalType'
    BY <1>2, RunEvType, PutEventsType DEF RunBootstrapped, RunTypes
  <2> QED BY <1>2, <2>1 DEF RunBootstrapped, StoreType, RunStatus
<1>3. CASE RunStarted
  <2>1. JournalType'
    BY <1>3, RunEvType, PutEventType DEF RunStarted, RunTypes
  <2> QED BY <1>3, <2>1 DEF RunStarted, StoreType, RunStatus
<1>4. ASSUME NEW type \in RunEndTypes, RunEnded(type)
      PROVE  StoreType' /\ JournalType'
  <2>1. JournalType'
    BY <1>4, RunEvType, PutEventType DEF RunEnded, RunTypes
  <2>2. run' \in RunStatus
    BY <1>4 DEF RunEnded, EndStatus, RunEndTypes, RunStatus, TerminalRun
  <2>3. hooks' \in [Hooks -> Tokens \cup {None}] /\ waits' \in [Waits -> WaitStatus]
    BY <1>4 DEF RunEnded, StoreType, WaitStatus
  <2> QED BY <1>4, <2>1, <2>2, <2>3 DEF RunEnded, StoreType
<1>5. CASE RunCancelledAgain
  <2>1. JournalType'
    BY <1>5, RunEvType, PutEventType DEF RunCancelledAgain, RunTypes, RunEndTypes
  <2> QED BY <1>5, <2>1 DEF RunCancelledAgain, StoreType
<1>6. ASSUME NEW a \in Attrs \cup {None}, AttrSet(a)
      PROVE  StoreType' /\ JournalType'
  <2>1. JournalType'
    BY <1>6, EvType, PutEventType DEF AttrSet, EventTypes, EventId
  <2> QED BY <1>6, <2>1 DEF AttrSet, StoreType
<1> QED
  BY <1>1, <1>2, <1>3, <1>4, <1>5, <1>6 DEF RunStep

LEMMA StepStepType == TypeOK /\ StepStep => TypeOK'
<1> SUFFICES ASSUME StoreType, JournalType, NEW s \in Steps,
                    \/ StepCreated(s) \/ StepStartedLazy(s) \/ StepStarted(s)
                    \/ StepCompleted(s) \/ StepFailed(s)
                    \/ \E t \in {0} \cup now..MaxTime : StepRetrying(s, t)
             PROVE  StoreType' /\ JournalType'
  BY TypeSplit DEF TypeOK, StoreType, JournalType, StepStep
<1> USE DEF hookVars
<1>0. /\ \A type \in StepTypes : Ev(type, s) \in Event
      /\ steps[s] \in Step /\ 0 \in 0..MaxTime
      /\ \A u \in Step : [steps EXCEPT ![s] = u] \in [Steps -> Step]
  BY EvType, BoundsAssumption DEF EventTypes, EventId, StoreType
<1>1. CASE StepCreated(s)
  <2>1. JournalType'
    BY <1>0, <1>1, PutEventType DEF StepCreated, StepTypes
  <2> QED BY <1>0, <1>1, <2>1 DEF StepCreated, StoreType, Step, StepStatus
<1>2. CASE StepStartedLazy(s)
  <2>1. JournalType'
    BY <1>0, <1>2, PutEventsType DEF StepStartedLazy, StepTypes
  <2> QED BY <1>0, <1>2, <2>1 DEF StepStartedLazy, StoreType, Step, StepStatus
<1>3. CASE StepStarted(s)
  <2>1. JournalType'
    BY <1>0, <1>3, PutEventType DEF StepStarted, StepTypes
  <2> QED BY <1>0, <1>3, <2>1 DEF StepStarted, StoreType, Step, StepStatus
<1>4. CASE StepCompleted(s)
  <2>1. JournalType'
    BY <1>0, <1>4, PutEventType DEF StepCompleted, StepTypes
  <2> QED BY <1>0, <1>4, <2>1 DEF StepCompleted, StoreType, Step, StepStatus, TerminalStep
<1>5. CASE StepFailed(s)
  <2>1. JournalType'
    BY <1>0, <1>5, PutEventType DEF StepFailed, StepTypes
  <2> QED BY <1>0, <1>5, <2>1 DEF StepFailed, StoreType, Step, StepStatus, TerminalStep
<1>6. ASSUME NEW t \in {0} \cup now..MaxTime, StepRetrying(s, t)
      PROVE  StoreType' /\ JournalType'
  <2>1. JournalType'
    BY <1>0, <1>6, PutEventType DEF StepRetrying, StepTypes
  <2>2. t \in 0..MaxTime
    BY <1>6, BoundsAssumption DEF StoreType
  <2> QED BY <1>0, <1>6, <2>1, <2>2 DEF StepRetrying, StoreType, Step, StepStatus
<1> QED
  BY <1>1, <1>2, <1>3, <1>4, <1>5, <1>6

LEMMA WaitStepType == TypeOK /\ WaitStep => TypeOK'
<1> SUFFICES ASSUME StoreType, JournalType, NEW w \in Waits,
                    WaitCreated(w) \/ WaitCompleted(w)
             PROVE  StoreType' /\ JournalType'
  BY TypeSplit DEF TypeOK, StoreType, JournalType, WaitStep
<1> USE DEF hookVars
<1>0. \A type \in WaitTypes : Ev(type, w) \in Event
  BY EvType DEF EventTypes, EventId
<1>1. CASE WaitCreated(w)
  BY <1>0, <1>1, PutEventType DEF WaitCreated, WaitTypes, StoreType, WaitStatus
<1>2. CASE WaitCompleted(w)
  BY <1>0, <1>2, PutEventType DEF WaitCompleted, WaitTypes, StoreType, WaitStatus
<1> QED BY <1>1, <1>2

LEMMA BothFormsType ==
    ASSUME NEW c \in EventClaim
    PROVE  /\ BothForms(c) \subseteq EventClaim
           /\ \A d \in BothForms(c) : d.hook = c.hook /\ d.token = c.token /\ d.from = c.from
BY DEF BothForms, EventClaim, ClaimForm

LEMMA HookStepType == TypeOK /\ HookStep => TypeOK'
<1> SUFFICES ASSUME StoreType, JournalType, HookStep
             PROVE  StoreType' /\ JournalType'
  BY TypeSplit DEF TypeOK, StoreType, JournalType
<1> USE DEF entityVars, hookVars
<1>1. ASSUME NEW h \in Hooks, NEW tok \in Tokens, NEW c \in ClaimsOf(h, tok),
             HookConflict(h, tok, c)
      PROVE  StoreType' /\ JournalType'
  <2>1. [type |-> "hook_conflict", id |-> h, token |-> tok, ref |-> None] \in Event
    BY DEF Event, EventTypes, EventId
  <2> QED BY <1>1, <2>1, PutEventType DEF HookConflict, StoreType
<1>2. ASSUME NEW h \in Hooks, NEW tok \in Tokens, NEW c \in ClaimsOf(h, tok),
             HookCreated(h, tok, c, c.from)
      PROVE  StoreType' /\ JournalType'
  <2>0. c \in EventClaim /\ c.from \in Peers \cup {None}
    BY DEF ClaimsOf, EventClaim
  <2>1. [type |-> "hook_created", id |-> h, token |-> tok, ref |-> c.from] \in Event
    BY <2>0 DEF Event, EventTypes, HookLifeTypes, EventId
  <2>2. JournalType'
    BY <1>2, <2>1, PutEventType DEF HookCreated
  <2>3. seq + 1 \in Nat
    BY BoundsAssumption DEF JournalType
  <2> QED BY <1>2, <2>0, <2>2, <2>3 DEF HookCreated, StoreType
<1>3. ASSUME NEW h \in Hooks, NEW tok \in Tokens, NEW p \in Peers,
             ForcedHookDisposal(h, tok, p)
      PROVE  StoreType' /\ JournalType'
  <2>1. [type |-> "hook_disposed", id |-> h, token |-> tok, ref |-> p] \in Event
    BY DEF Event, EventTypes, HookLifeTypes, EventId
  <2>2. JournalType'
    <3>1. CASE RunIsLive
      BY <1>3, <2>1, <3>1, PutEventType DEF ForcedHookDisposal
    <3>2. CASE ~RunIsLive
      BY <1>3, <3>2 DEF ForcedHookDisposal, JournalType
    <3> QED BY <3>1, <3>2
  <2> QED BY <1>3, <2>2 DEF ForcedHookDisposal, StoreType
<1>4. ASSUME NEW h \in Hooks, NEW r \in Resumes \cup {None}, HookReceived(h, r)
      PROVE  StoreType' /\ JournalType'
  <2>1. [type |-> "hook_received", id |-> h, token |-> None, ref |-> r] \in Event
    BY DEF Event, EventTypes, EventId
  <2>2. JournalType'
    BY <1>4, <2>1, PutEventType DEF HookReceived
  <2>3. seq + 1 \in Nat
    BY BoundsAssumption DEF JournalType
  <2>4. resumes' \in [Resumes -> [hook : Hooks \cup {None}, slot : Nat]]
    BY <1>4, <2>3 DEF HookReceived, StoreType
  <2> QED BY <1>4, <2>2, <2>4 DEF HookReceived, StoreType
<1>5. ASSUME NEW h \in Hooks, HookDisposed(h)
      PROVE  StoreType' /\ JournalType'
  <2>1. Ev("hook_disposed", h) \in Event
    BY EvType DEF EventTypes, HookLifeTypes, EventId
  <2> QED BY <1>5, <2>1, PutEventType DEF HookDisposed, StoreType
<1>6. ASSUME NEW c \in EventClaim, ResolveForcedHookClaim(c)
      PROVE  StoreType' /\ JournalType'
  BY <1>6, BothFormsType DEF ResolveForcedHookClaim, StoreType, JournalType
<1>7. ASSUME NEW c \in EventClaim, ResolveHookTokenClaim(c)
      PROVE  StoreType' /\ JournalType'
  BY <1>7 DEF ResolveHookTokenClaim, StoreType, JournalType
<1>8. ASSUME NEW c \in EventClaim, NEW withToken \in BOOLEAN,
             ResolveExpiredHookClaim(c, withToken)
      PROVE  StoreType' /\ JournalType'
  BY <1>8, BothFormsType DEF ResolveExpiredHookClaim, StoreType, JournalType
<1> QED
  BY <1>1, <1>2, <1>3, <1>4, <1>5, <1>6, <1>7, <1>8 DEF HookStep

LEMMA CleanupStepType == TypeOK /\ CleanupStep => TypeOK'
BY DEF CleanupStep, DeleteTerminalHooks, DeleteTerminalWaits, TypeOK, WaitStatus,
       entityVars, hookVars

LEMMA TickType == TypeOK /\ Tick => TypeOK'
BY BoundsAssumption DEF Tick, TypeOK, store

(* Every value the cell stores has its type: statuses, the retry time of a  *)
(* step, markers, claims and every event of the journal.                    *)
THEOREM TypeCorrect == Spec => []TypeOK
<1>1. Init => TypeOK
  BY InitType
<1>2. TypeOK /\ [Next]_vars => TypeOK'
  <2>1. TypeOK /\ UNCHANGED vars => TypeOK'
    BY DEF TypeOK, vars, store
  <2> QED
    BY <2>1, RunStepType, StepStepType, WaitStepType, HookStepType, CleanupStepType,
       TickType DEF Next
<1> QED
  BY <1>1, <1>2, PTL DEF Spec

-----------------------------------------------------------------------------
(* The journal.  Every step leaves it alone, appends one event or appends   *)
(* two; density and append-only follow from that classification alone.      *)

JournalStep ==
    \/ UNCHANGED <<events, seq>>
    \/ \E e : PutEvent(e)
    \/ \E e, f : PutEvents(e, f)

LEMMA NextIsJournalStep == [Next]_vars => JournalStep
<1> USE DEF entityVars, hookVars
<1>1. RunStep => JournalStep
  BY DEF RunStep, JournalStep, RunCreated, RunBootstrapped, RunStarted, RunEnded,
         RunCancelledAgain, AttrSet
<1>2. StepStep => JournalStep
  BY DEF StepStep, JournalStep, StepCreated, StepStartedLazy, StepStarted, StepCompleted,
         StepFailed, StepRetrying
<1>3. WaitStep => JournalStep
  BY DEF WaitStep, JournalStep, WaitCreated, WaitCompleted
<1>4. HookStep => JournalStep
  <2>1. ASSUME NEW h, NEW tok, NEW c, NEW from,
               HookConflict(h, tok, c) \/ HookCreated(h, tok, c, from)
                 \/ ForcedHookDisposal(h, tok, c) \/ HookReceived(h, c) \/ HookDisposed(h)
        PROVE  JournalStep
    BY <2>1 DEF JournalStep, HookConflict, HookCreated, ForcedHookDisposal, HookReceived,
                HookDisposed
  <2>2. ASSUME NEW c, NEW withToken,
               ResolveForcedHookClaim(c) \/ ResolveHookTokenClaim(c)
                 \/ ResolveExpiredHookClaim(c, withToken)
        PROVE  JournalStep
    BY <2>2 DEF JournalStep, ResolveForcedHookClaim, ResolveHookTokenClaim,
                ResolveExpiredHookClaim
  <2> QED BY <2>1, <2>2 DEF HookStep
<1>5. CleanupStep => JournalStep
  BY DEF CleanupStep, JournalStep, DeleteTerminalHooks, DeleteTerminalWaits
<1>6. Tick => JournalStep
  BY DEF Tick, JournalStep, store
<1>7. UNCHANGED vars => JournalStep
  BY DEF JournalStep, vars, store
<1> QED
  BY <1>1, <1>2, <1>3, <1>4, <1>5, <1>6, <1>7 DEF Next

(* What an append does to a dense journal.                                  *)
LEMMA DenseStep ==
    ASSUME seq \in Nat, DenseLog, JournalStep
    PROVE  /\ DenseLog'
           /\ \A i \in DOMAIN events : i \in DOMAIN events' /\ events'[i] = events[i]
<1>1. CASE UNCHANGED <<events, seq>>
  BY <1>1 DEF DenseLog
<1>2. ASSUME NEW e, PutEvent(e)
      PROVE  /\ DenseLog'
             /\ \A i \in DOMAIN events : i \in DOMAIN events' /\ events'[i] = events[i]
  BY <1>2 DEF PutEvent, Put, DenseLog
<1>3. ASSUME NEW e, NEW f, PutEvents(e, f)
      PROVE  /\ DenseLog'
             /\ \A i \in DOMAIN events : i \in DOMAIN events' /\ events'[i] = events[i]
  BY <1>3 DEF PutEvents, Put, DenseLog
<1> QED
  BY <1>1, <1>2, <1>3 DEF JournalStep

(* The journal of a run occupies exactly the slots 1..seq, whatever calls   *)
(* and takeovers wrote it.                                                  *)
THEOREM JournalIsDense == Spec => []DenseLog
<1>1. Init => DenseLog
  BY DEF Init, DenseLog
<1>2. TypeOK /\ DenseLog /\ [Next]_vars => DenseLog'
  <2>1. TypeOK => seq \in Nat
    BY BoundsAssumption DEF TypeOK
  <2> QED BY <2>1, DenseStep, NextIsJournalStep
<1> QED
  BY <1>1, <1>2, TypeCorrect, PTL DEF Spec

(* No call overwrites or removes an event of the journal.                   *)
THEOREM JournalIsAppendOnly == Spec => AppendOnly
<1>1. TypeOK /\ DenseLog /\ [Next]_vars =>
        [\A i \in DOMAIN events : i \in DOMAIN events' /\ events'[i] = events[i]]_vars
  <2>1. TypeOK => seq \in Nat
    BY BoundsAssumption DEF TypeOK
  <2> QED BY <2>1, DenseStep, NextIsJournalStep
<1> QED
  BY <1>1, TypeCorrect, JournalIsDense, PTL DEF Spec, AppendOnly

-----------------------------------------------------------------------------
(* Deliveries.  The property is inductive: a resume ID that was delivered   *)
(* has a claim that leads to an event of the journal, so it is not new.     *)

LEMMA ResumeStep ==
    ASSUME TypeOK, DenseLog, ResumeAtMostOnce, [Next]_vars
    PROVE  ResumeAtMostOnce'
<1> USE DEF entityVars, hookVars
<1>0. seq \in Nat
  BY BoundsAssumption DEF TypeOK
<1>1. ASSUME NEW h \in Hooks, NEW r \in Resumes \cup {None}, HookReceived(h, r)
      PROVE  ResumeAtMostOnce'
  <2>1. /\ DOMAIN events' = DOMAIN events \cup {seq + 1}
        /\ seq + 1 \notin DOMAIN events
        /\ events'[seq + 1] = [type |-> "hook_received", id |-> h, token |-> None, ref |-> r]
        /\ \A i \in DOMAIN events : events'[i] = events[i]
    BY <1>0, <1>1 DEF HookReceived, PutEvent, Put, DenseLog
  <2>2. SUFFICES ASSUME NEW q \in Resumes, NEW i \in DOMAIN events',
                        events'[i].type = "hook_received", events'[i].ref = q
                 PROVE  resumes'[q] = [hook |-> events'[i].id, slot |-> i]
    BY DEF ResumeAtMostOnce
  <2>3. CASE q = r
    <3>1. r \in Resumes /\ r # None
      BY <2>3, IdsAssumption
    <3>2. i = seq + 1
      <4>1. SUFFICES ASSUME i \in DOMAIN events PROVE FALSE
        BY <2>1, <2>2
      <4>2. resumes[q] = [hook |-> events[i].id, slot |-> i]
        BY <2>1, <2>2, <4>1 DEF ResumeAtMostOnce
      <4>3. resumes[q].slot \notin DOMAIN events
        BY <1>1, <2>3, <3>1 DEF HookReceived, ResumeIsNew
      <4> QED BY <4>1, <4>2, <4>3
    <3>3. resumes'[r] = [hook |-> h, slot |-> seq + 1]
      BY <1>1, <3>1 DEF HookReceived, TypeOK
    <3> QED BY <2>1, <2>3, <3>2, <3>3
  <2>4. CASE q # r
    <3>1. i \in DOMAIN events
      BY <2>1, <2>2, <2>4
    <3>2. resumes'[q] = resumes[q]
      BY <1>1, <2>4 DEF HookReceived, TypeOK
    <3> QED BY <2>1, <2>2, <3>1, <3>2 DEF ResumeAtMostOnce
  <2> QED BY <2>3, <2>4
<1>2. ASSUME UNCHANGED resumes, JournalStep,
             \A i \in DOMAIN events' \ DOMAIN events : events'[i].type # "hook_received"
      PROVE  ResumeAtMostOnce'
  <2>1. \A i \in DOMAIN events : i \in DOMAIN events' /\ events'[i] = events[i]
    BY <1>0, <1>2, DenseStep
  <2> QED BY <1>2, <2>1 DEF ResumeAtMostOnce
<1>3. ASSUME NEW e, PutEvent(e), e.type # "hook_received"
      PROVE  \A i \in DOMAIN events' \ DOMAIN events : events'[i].type # "hook_received"
  BY <1>3 DEF PutEvent, Put
<1>4. ASSUME NEW e, NEW f, PutEvents(e, f), e.type # "hook_received", f.type # "hook_received"
      PROVE  \A i \in DOMAIN events' \ DOMAIN events : events'[i].type # "hook_received"
  BY <1>4 DEF PutEvents, Put
<1>5. ASSUME UNCHANGED events
      PROVE  \A i \in DOMAIN events' \ DOMAIN events : events'[i].type # "hook_received"
  BY <1>5
<1>6. ASSUME NEW type, NEW id
      PROVE  Ev(type, id).type = type /\ RunEv(type).type = type
  BY DEF Ev, RunEv
<1>7. JournalStep
  BY NextIsJournalStep
<1>8. CASE RunStep
  <2>1. UNCHANGED resumes
    BY <1>8 DEF RunStep, RunCreated, RunBootstrapped, RunStarted, RunEnded,
                RunCancelledAgain, AttrSet
  <2>2. \A i \in DOMAIN events' \ DOMAIN events : events'[i].type # "hook_received"
    BY <1>3, <1>4, <1>6, <1>8 DEF RunStep, RunCreated, RunBootstrapped, RunStarted,
                RunEnded, RunCancelledAgain, AttrSet, RunEndTypes
  <2> QED BY <1>2, <1>7, <2>1, <2>2
<1>9. CASE StepStep
  <2>1. UNCHANGED resumes
    BY <1>9 DEF StepStep, StepCreated, StepStartedLazy, StepStarted, StepCompleted,
                StepFailed, StepRetrying
  <2>2. \A i \in DOMAIN events' \ DOMAIN events : events'[i].type # "hook_received"
    BY <1>3, <1>4, <1>6, <1>9 DEF StepStep, StepCreated, StepStartedLazy, StepStarted,
                StepCompleted, StepFailed, StepRetrying
  <2> QED BY <1>2, <1>7, <2>1, <2>2
<1>10. CASE WaitStep
  <2>1. UNCHANGED resumes
    BY <1>10 DEF WaitStep, WaitCreated, WaitCompleted
  <2>2. \A i \in DOMAIN events' \ DOMAIN events : events'[i].type # "hook_received"
    BY <1>3, <1>6, <1>10 DEF WaitStep, WaitCreated, WaitCompleted
  <2> QED BY <1>2, <1>7, <2>1, <2>2
<1>11. ASSUME NEW h, NEW tok, NEW c, NEW from,
              HookConflict(h, tok, c) \/ HookCreated(h, tok, c, from)
                \/ ForcedHookDisposal(h, tok, c) \/ HookDisposed(h)
       PROVE  ResumeAtMostOnce'
  <2>1. UNCHANGED resumes
    BY <1>11 DEF HookConflict, HookCreated, ForcedHookDisposal, HookDisposed
  <2>2. \A i \in DOMAIN events' \ DOMAIN events : events'[i].type # "hook_received"
    BY <1>3, <1>5, <1>6, <1>11 DEF HookConflict, HookCreated, ForcedHookDisposal, HookDisposed
  <2> QED BY <1>2, <1>7, <2>1, <2>2
<1>12. ASSUME UNCHANGED <<resumes, events>>
       PROVE  ResumeAtMostOnce'
  BY <1>12 DEF ResumeAtMostOnce
<1>13. CASE HookStep
  <2>1. ASSUME NEW c, NEW withToken,
               ResolveForcedHookClaim(c) \/ ResolveHookTokenClaim(c)
                 \/ ResolveExpiredHookClaim(c, withToken)
        PROVE  UNCHANGED <<resumes, events>>
    BY <2>1 DEF ResolveForcedHookClaim, ResolveHookTokenClaim, ResolveExpiredHookClaim
  <2> QED BY <1>1, <1>11, <1>12, <1>13, <2>1 DEF HookStep
<1>14. CASE CleanupStep \/ Tick \/ UNCHANGED vars
  BY <1>12, <1>14 DEF CleanupStep, DeleteTerminalHooks, DeleteTerminalWaits, Tick, vars, store
<1> QED
  BY <1>8, <1>9, <1>10, <1>13, <1>14 DEF Next

(* At-most-once delivery: two hook_received events never carry the same     *)
(* resume ID, however often and against whichever hook the caller retries.  *)
THEOREM ResumesAreDeliveredOnce == Spec => []ResumeAtMostOnce
<1>1. Init => ResumeAtMostOnce
  BY DEF Init, ResumeAtMostOnce
<1> QED
  BY <1>1, ResumeStep, TypeCorrect, JournalIsDense, PTL DEF Spec

-----------------------------------------------------------------------------
(* Finality of the run and of its steps.                                    *)

LEMMA FinalStep ==
    ASSUME TypeOK, [Next]_vars
    PROVE  /\ RunIsTerminal => run' = run
           /\ \A s \in Steps : steps[s].status \in TerminalStep => steps'[s] = steps[s]
<1> USE DEF entityVars, hookVars
<1>1. CASE RunStep
  BY <1>1 DEF RunStep, RunCreated, RunBootstrapped, RunStarted, RunEnded,
              RunCancelledAgain, AttrSet, RunIsTerminal, RunIsLive, TerminalRun
<1>2. CASE StepStep
  <2>1. UNCHANGED run
    BY <1>2 DEF StepStep, StepCreated, StepStartedLazy, StepStarted, StepCompleted,
                StepFailed, StepRetrying
  <2>2. PICK s \in Steps : UNCHANGED steps \/
          (/\ steps[s].status \notin TerminalStep
           /\ \E u : steps' = [steps EXCEPT ![s] = u])
    BY <1>2 DEF StepStep, StepCreated, StepStartedLazy, StepStarted, StepCompleted,
                StepFailed, StepRetrying, StepMayProgress, StepIsOpen, TerminalStep
  <2> QED BY <2>1, <2>2 DEF TypeOK
<1>3. CASE WaitStep
  BY <1>3 DEF WaitStep, WaitCreated, WaitCompleted
<1>4. CASE HookStep
  BY <1>4 DEF HookStep, HookConflict, HookCreated, ForcedHookDisposal, HookReceived,
              HookDisposed, ResolveForcedHookClaim, ResolveHookTokenClaim,
              ResolveExpiredHookClaim
<1>5. CASE CleanupStep \/ Tick \/ UNCHANGED vars
  BY <1>5 DEF CleanupStep, DeleteTerminalHooks, DeleteTerminalWaits, Tick, vars, store
<1> QED
  BY <1>1, <1>2, <1>3, <1>4, <1>5 DEF Next

(* A terminal run keeps its status and a terminal step is never touched,    *)
(* also by the calls that skip the read of the run.                         *)
THEOREM TerminalStatusIsFinal == Spec => TerminalIsFinal
<1>1. TypeOK /\ [Next]_vars =>
        [/\ RunIsTerminal => run' = run
         /\ \A s \in Steps : steps[s].status \in TerminalStep => steps'[s] = steps[s]]_vars
  BY FinalStep
<1> QED
  BY <1>1, TypeCorrect, PTL DEF Spec, TerminalIsFinal

-----------------------------------------------------------------------------
(* Reservations.  ClaimInv is inductive.                                    *)

LEMMA KeepsOrigins ==
    ASSUME TypeOK, DenseLog, JournalStep, UNCHANGED <<hookEvent, wonBy>>,
           \A h \in Hooks : hooks[h] # None => HookOrigin(h),
           \A h \in Hooks : hooks'[h] \in {hooks[h], None}
    PROVE  \A h \in Hooks : hooks'[h] # None => hooks'[h] = hooks[h] /\ HookOrigin(h)'
<1>1. \A i \in DOMAIN events : i \in DOMAIN events' /\ events'[i] = events[i]
  <2>1. seq \in Nat
    BY BoundsAssumption DEF TypeOK
  <2> QED BY <2>1, DenseStep
<1> QED
  BY <1>1 DEF HookOrigin

(* Steps that touch neither fences, denials nor creation markers.           *)
LEMMA QuietStep ==
    ASSUME TypeOK, DenseLog, ClaimInv, JournalStep,
           UNCHANGED <<hookEvent, wonBy, fences, denied>>,
           RunIsTerminal => RunIsTerminal',
           \A h \in Hooks : hooks'[h] \in {hooks[h], None}
    PROVE  ClaimInv'
<1>1. \A h \in Hooks : hooks'[h] # None => hooks'[h] = hooks[h] /\ HookOrigin(h)'
  BY KeepsOrigins DEF ClaimInv
<1> QED
  BY <1>1 DEF ClaimInv, DeniedClaimsHoldNoHook

(* A resolver that denies only reservations no present hook was won by.     *)
LEMMA DenyStep ==
    ASSUME TypeOK, DenseLog, ClaimInv, NEW D,
           UNCHANGED <<run, hooks, hookEvent, wonBy, events, seq>>,
           denied' = denied \cup D,
           ~RunIsTerminal => /\ fences' = fences \cup D
                             /\ \A h \in Hooks : hooks[h] # None => wonBy[h] \notin D
    PROVE  ClaimInv'
BY DEF ClaimInv, DeniedClaimsHoldNoHook, HookOrigin, RunIsTerminal

LEMMA ClaimStep ==
    ASSUME TypeOK, DenseLog, ClaimInv, [Next]_vars
    PROVE  ClaimInv'
<1> USE DEF entityVars, hookVars
<1>0. /\ JournalStep
      /\ RunIsTerminal => RunIsTerminal'
  BY NextIsJournalStep, FinalStep DEF RunIsTerminal
<1>1. CASE RunStep \/ StepStep \/ WaitStep \/ CleanupStep \/ Tick \/ UNCHANGED vars
  <2>1. UNCHANGED <<hookEvent, wonBy, fences, denied>>
    BY <1>1 DEF RunStep, RunCreated, RunBootstrapped, RunStarted, RunEnded,
                RunCancelledAgain, AttrSet, StepStep, StepCreated, StepStartedLazy,
                StepStarted, StepCompleted, StepFailed, StepRetrying, WaitStep, WaitCreated,
                WaitCompleted, CleanupStep, DeleteTerminalHooks, DeleteTerminalWaits, Tick,
                vars, store
  <2>2. \A h \in Hooks : hooks'[h] \in {hooks[h], None}
    <3>1. CASE RunStep
      BY <3>1 DEF RunStep, RunCreated, RunBootstrapped, RunStarted, RunEnded,
                  RunCancelledAgain, AttrSet
    <3>2. CASE StepStep \/ WaitStep \/ Tick \/ UNCHANGED vars
      BY <3>2 DEF StepStep, StepCreated, StepStartedLazy, StepStarted, StepCompleted,
                  StepFailed, StepRetrying, WaitStep, WaitCreated, WaitCompleted, Tick,
                  vars, store
    <3>3. CASE CleanupStep
      BY <3>3 DEF CleanupStep, DeleteTerminalHooks, DeleteTerminalWaits
    <3> QED BY <1>1, <3>1, <3>2, <3>3
  <2> QED BY <1>0, <2>1, <2>2, QuietStep
<1>2. ASSUME NEW h \in Hooks, NEW tok \in Tokens, NEW c \in ClaimsOf(h, tok),
             HookCreated(h, tok, c, c.from)
      PROVE  ClaimInv'
  <2>1. c \in EventClaim /\ c.hook = h /\ c.token = tok
    BY DEF ClaimsOf
  <2>2. /\ seq + 1 \in DOMAIN events'
        /\ events'[seq + 1] = [type |-> "hook_created", id |-> h, token |-> tok, ref |-> c.from]
        /\ \A i \in DOMAIN events : i \in DOMAIN events' /\ events'[i] = events[i]
    <3>1. seq \in Nat
      BY BoundsAssumption DEF TypeOK
    <3> QED BY <1>0, <1>2, <3>1, DenseStep DEF HookCreated, PutEvent, Put
  <2>3. HookOrigin(h)'
    BY <1>2, <2>1, <2>2 DEF HookCreated, HookOrigin, TypeOK
  <2>4. \A g \in Hooks \ {h} : /\ hooks'[g] = hooks[g] /\ wonBy'[g] = wonBy[g]
                               /\ hookEvent'[g] = hookEvent[g]
    BY <1>2 DEF HookCreated, TypeOK
  <2>5. \A g \in Hooks : hooks'[g] # None => HookOrigin(g)'
    BY <2>2, <2>3, <2>4 DEF ClaimInv, HookOrigin
  <2>6. /\ ~RunIsTerminal /\ c \notin denied
        /\ UNCHANGED <<run, fences, denied>> /\ wonBy'[h] = c
    BY <1>2 DEF HookCreated, NotFenced, ClaimInv, RunIsLive, RunIsTerminal, TerminalRun, TypeOK
  <2> QED BY <2>4, <2>5, <2>6 DEF ClaimInv, DeniedClaimsHoldNoHook, RunIsTerminal
<1>3. ASSUME NEW h \in Hooks, NEW tok, NEW c,
             HookConflict(h, tok, c) \/ ForcedHookDisposal(h, tok, c)
               \/ HookReceived(h, c) \/ HookDisposed(h)
      PROVE  ClaimInv'
  <2>1. /\ UNCHANGED <<hookEvent, wonBy, fences, denied>>
        /\ \A g \in Hooks : hooks'[g] \in {hooks[g], None}
    BY <1>3 DEF HookConflict, ForcedHookDisposal, HookReceived, HookDisposed, TypeOK
  <2> QED BY <1>0, <2>1, QuietStep
<1>4. ASSUME NEW c \in EventClaim, ResolveForcedHookClaim(c)
      PROVE  ClaimInv'
  <2>1. \A h \in Hooks : hooks[h] # None => wonBy[h] \notin BothForms(c)
    BY <1>4, BothFormsType
       DEF ResolveForcedHookClaim, TakeoverJournaled, ClaimInv, HookOrigin
  <2> QED BY <1>4, <2>1, DenyStep DEF ResolveForcedHookClaim
<1>5. ASSUME NEW c \in EventClaim, ResolveHookTokenClaim(c)
      PROVE  ClaimInv'
  <2>1. \A h \in Hooks : hooks[h] # None => wonBy[h] \notin {c}
    BY <1>5 DEF ResolveHookTokenClaim, ClaimInv, HookOrigin
  <2> QED BY <1>5, <2>1, DenyStep DEF ResolveHookTokenClaim
<1>6. ASSUME NEW c \in EventClaim, NEW withToken \in BOOLEAN,
             ResolveExpiredHookClaim(c, withToken)
      PROVE  ClaimInv'
  <2>1. ~RunIsTerminal => \A h \in Hooks : hooks[h] # None => wonBy[h] \notin BothForms(c)
    <3> SUFFICES ASSUME ~RunIsTerminal, NEW h \in Hooks, hooks[h] # None,
                        wonBy[h] \in BothForms(c)
                 PROVE  FALSE
      OBVIOUS
    <3>1. h = c.hook /\ hooks[h] = c.token
      BY BothFormsType DEF ClaimInv, HookOrigin
    <3>2. c.token \in Tokens
      BY DEF EventClaim
    <3> QED BY <1>6, <3>1, <3>2 DEF ResolveExpiredHookClaim
  <2> QED BY <1>6, <2>1, DenyStep DEF ResolveExpiredHookClaim
<1> QED
  BY <1>1, <1>2, <1>3, <1>4, <1>5, <1>6 DEF Next, HookStep

(* The answer "not committed" is final: whichever of the three resolvers    *)
(* gave it, the reservation never owns a hook of a live run.                *)
THEOREM DenialsAreFinal == Spec => []DeniedClaimsHoldNoHook
<1>1. Init => ClaimInv
  BY DEF Init, ClaimInv, DeniedClaimsHoldNoHook
<1>2. ClaimInv => DeniedClaimsHoldNoHook
  BY DEF ClaimInv
<1> QED
  BY <1>1, <1>2, ClaimStep, TypeCorrect, JournalIsDense, PTL DEF Spec

=============================================================================
