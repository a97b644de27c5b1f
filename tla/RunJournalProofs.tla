-------------------------- MODULE RunJournalProofs --------------------------
(***************************************************************************)
(* Proofs that the journal of RunEvents tells the truth about the run: it  *)
(* explains the entities, creates each once, has one end, and its          *)
(* deliveries lie within the life of their hook.                           *)
(***************************************************************************)
EXTENDS RunEventsProofs

(* The journal as a value, so that one statement is about both sides of a   *)
(* step.                                                                    *)
SlotsIn(evs, types, id) == {i \in DOMAIN evs : evs[i].type \in types /\ evs[i].id = id}

ExplainedBy(evs, types, id, status) ==
    IF SlotsIn(evs, types, id) = {} THEN status = "none"
    ELSE \E i \in DOMAIN evs :
            IsLast(i, SlotsIn(evs, types, id)) /\ StatusAfter(evs[i].type) = status

(* The slot lies behind the journal.                                        *)
Free(evs, slot) == \A i \in DOMAIN evs : i \in Nat /\ i < slot

(* An event about something else changes no explanation.                    *)
LEMMA PutOther ==
    ASSUME NEW evs, NEW slot \in Nat, Free(evs, slot), NEW e, NEW new, new = Put(evs, slot, e),
           NEW types, NEW id, ~(e.type \in types /\ e.id = id)
    PROVE  /\ SlotsIn(new, types, id) = SlotsIn(evs, types, id)
           /\ \A i \in DOMAIN evs : i \in DOMAIN new /\ new[i] = evs[i]
           /\ \A status : ExplainedBy(evs, types, id, status)
                            => ExplainedBy(new, types, id, status)
<1>1. DOMAIN new = DOMAIN evs \cup {slot} /\ new[slot] = e
  BY DEF Put
<1>2. \A i \in DOMAIN evs : i # slot /\ new[i] = evs[i]
  BY DEF Put, Free
<1>3. SlotsIn(new, types, id) = SlotsIn(evs, types, id)
  BY <1>1, <1>2 DEF SlotsIn
<1>4. \A i \in SlotsIn(evs, types, id) : i \in DOMAIN new /\ new[i] = evs[i]
  BY <1>1, <1>2 DEF SlotsIn
<1>5. ASSUME NEW status, ExplainedBy(evs, types, id, status)
      PROVE  ExplainedBy(new, types, id, status)
  BY <1>3, <1>4, <1>5 DEF ExplainedBy, IsLast
<1> QED BY <1>1, <1>2, <1>3, <1>5

(* The newest event about an entity is the last one.                        *)
LEMMA PutOwn ==
    ASSUME NEW evs, NEW slot \in Nat, Free(evs, slot), NEW e, NEW new, new = Put(evs, slot, e),
           NEW types, NEW id, e.type \in types, e.id = id
    PROVE  /\ slot \in DOMAIN new /\ new[slot] = e
           /\ IsLast(slot, SlotsIn(new, types, id))
           /\ \A i : IsLast(i, SlotsIn(new, types, id)) => i = slot
           /\ ExplainedBy(new, types, id, StatusAfter(e.type))
<1>1. DOMAIN new = DOMAIN evs \cup {slot} /\ new[slot] = e
  BY DEF Put
<1> DEFINE own == SlotsIn(new, types, id)
<1>2. slot \in own /\ \A j \in own : j \in Nat /\ j <= slot
  BY <1>1 DEF SlotsIn, Free
<1> HIDE DEF own
<1>3. IsLast(slot, own)
  BY <1>2 DEF IsLast
<1>4. ASSUME NEW i, IsLast(i, own) PROVE i = slot
  <2>1. i \in Nat /\ i <= slot /\ slot <= i
    BY <1>2, <1>4 DEF IsLast
  <2> QED BY <2>1
<1>5. own # {} /\ IsLast(slot, own) /\ \A i : IsLast(i, own) => i = slot
  BY <1>2, <1>3, <1>4
<1>6. ExplainedBy(new, types, id, StatusAfter(e.type))
  BY <1>1, <1>5 DEF ExplainedBy, own
<1> QED BY <1>1, <1>5, <1>6 DEF own

-----------------------------------------------------------------------------
(* What each part of Next journals: at most two events, of the types T and  *)
(* about the entities I.                                                    *)
Journals(T, I) ==
    \/ UNCHANGED <<events, seq>>
    \/ \E e : PutEvent(e) /\ e.type \in T /\ e.id \in I
    \/ \E e, f : PutEvents(e, f) /\ e.type \in T /\ e.id \in I /\ f.type \in T /\ f.id \in I

LEMMA EvFields ==
    /\ \A type, id : Ev(type, id).type = type /\ Ev(type, id).id = id
    /\ \A type : RunEv(type).type = type /\ RunEv(type).id = None
BY DEF Ev, RunEv

LEMMA RunJournals == RunStep => Journals(RunTypes \cup {"attr_set"}, Attrs \cup {None})
BY EvFields DEF RunStep, RunCreated, RunBootstrapped, RunStarted, RunEnded, RunCancelledAgain,
       AttrSet, Journals, RunTypes, RunEndTypes

(* The step events of one step.                                             *)
StepStepOf(s) ==
    \/ StepCreated(s) \/ StepStartedLazy(s) \/ StepStarted(s)
    \/ StepCompleted(s) \/ StepFailed(s)
    \/ \E t \in {0} \cup now..MaxTime : StepRetrying(s, t)

LEMMA StepJournals == ASSUME NEW s, StepStepOf(s) PROVE Journals(StepTypes, {s})
BY EvFields DEF StepStepOf, StepCreated, StepStartedLazy, StepStarted, StepCompleted,
       StepFailed, StepRetrying, Journals, StepTypes

LEMMA WaitJournals ==
    ASSUME NEW w, WaitCreated(w) \/ WaitCompleted(w) PROVE Journals(WaitTypes, {w})
BY EvFields DEF WaitCreated, WaitCompleted, Journals, WaitTypes

HookTypes == HookLifeTypes \cup {"hook_conflict", "hook_received"}

(* The hook events of one hook.                                             *)
HookStepOf(h) ==
    \/ \E tok \in Tokens :
          \/ \E c \in ClaimsOf(h, tok) : HookConflict(h, tok, c)
          \/ \E c \in ClaimsOf(h, tok) : HookCreated(h, tok, c, c.from)
          \/ \E p \in Peers : ForcedHookDisposal(h, tok, p)
    \/ \E r \in Resumes \cup {None} : HookReceived(h, r)
    \/ HookDisposed(h)

ResolveStep ==
    \E c \in EventClaim :
       \/ ResolveForcedHookClaim(c)
       \/ ResolveHookTokenClaim(c)
       \/ \E withToken \in BOOLEAN : ResolveExpiredHookClaim(c, withToken)

LEMMA HookStepSplit == HookStep => (\E h \in Hooks : HookStepOf(h)) \/ ResolveStep
BY DEF HookStep, HookStepOf, ResolveStep

LEMMA HookJournals == ASSUME NEW h, HookStepOf(h) PROVE Journals(HookTypes, {h})
<1>1. ASSUME NEW tok, NEW c,
             HookConflict(h, tok, c) \/ HookCreated(h, tok, c, c.from)
               \/ ForcedHookDisposal(h, tok, c) \/ HookReceived(h, c) \/ HookDisposed(h)
      PROVE  Journals(HookTypes, {h})
  BY <1>1, EvFields DEF HookConflict, HookCreated, ForcedHookDisposal, HookReceived,
         HookDisposed, Journals, HookTypes, HookLifeTypes
<1> QED BY <1>1 DEF HookStepOf

(* What resolvers, cleanup, the clock and stuttering leave alone.           *)
LEMMA SilentStep ==
    ASSUME ResolveStep \/ CleanupStep \/ Tick \/ UNCHANGED vars
    PROVE  UNCHANGED <<run, steps, hookEvent, events, seq>>
<1>1. CASE ResolveStep
  BY <1>1 DEF ResolveStep, ResolveForcedHookClaim, ResolveHookTokenClaim,
              ResolveExpiredHookClaim, entityVars
<1>2. CASE CleanupStep \/ Tick \/ UNCHANGED vars
  BY <1>2 DEF CleanupStep, DeleteTerminalHooks, DeleteTerminalWaits, Tick, vars, store,
              entityVars, hookVars
<1> QED BY <1>1, <1>2

(* What is not about an entity leaves its slots and its explanation alone.  *)
LEMMA JournalsOther ==
    ASSUME seq \in Nat, DenseLog, NEW T, NEW I, Journals(T, I), NEW types, NEW id,
           T \cap types = {} \/ id \notin I
    PROVE  /\ SlotsIn(events', types, id) = SlotsIn(events, types, id)
           /\ \A i \in DOMAIN events : i \in DOMAIN events' /\ events'[i] = events[i]
           /\ \A status : ExplainedBy(events, types, id, status)
                            => ExplainedBy(events', types, id, status)
<1>1. CASE UNCHANGED <<events, seq>>
  BY <1>1
<1>2. ASSUME NEW e, PutEvent(e), e.type \in T, e.id \in I
      PROVE  /\ SlotsIn(events', types, id) = SlotsIn(events, types, id)
             /\ \A i \in DOMAIN events : i \in DOMAIN events' /\ events'[i] = events[i]
             /\ \A status : ExplainedBy(events, types, id, status)
                              => ExplainedBy(events', types, id, status)
  <2>1. ~(e.type \in types /\ e.id = id)
    BY <1>2
  <2>2. Free(events, seq + 1) /\ seq + 1 \in Nat
    BY DEF DenseLog, Free
  <2>3. events' = Put(events, seq + 1, e)
    BY <1>2 DEF PutEvent
  <2> QED BY ONLY <2>1, <2>2, <2>3, PutOther
<1>3. ASSUME NEW e, NEW f, PutEvents(e, f), e.type \in T, e.id \in I, f.type \in T, f.id \in I
      PROVE  /\ SlotsIn(events', types, id) = SlotsIn(events, types, id)
             /\ \A i \in DOMAIN events : i \in DOMAIN events' /\ events'[i] = events[i]
             /\ \A status : ExplainedBy(events, types, id, status)
                              => ExplainedBy(events', types, id, status)
  <2> DEFINE mid == Put(events, seq + 1, e)
  <2>1. ~(e.type \in types /\ e.id = id) /\ ~(f.type \in types /\ f.id = id)
    BY <1>3
  <2>2. Free(events, seq + 1) /\ Free(mid, seq + 2) /\ seq + 1 \in Nat /\ seq + 2 \in Nat
    BY DEF DenseLog, Put, Free
  <2>3. events' = Put(mid, seq + 2, f)
    BY <1>3 DEF PutEvents
  <2>4. /\ SlotsIn(mid, types, id) = SlotsIn(events, types, id)
        /\ \A i \in DOMAIN events : i \in DOMAIN mid /\ mid[i] = events[i]
        /\ \A status : ExplainedBy(events, types, id, status)
                         => ExplainedBy(mid, types, id, status)
    BY <2>1, <2>2, PutOther
  <2> HIDE DEF mid
  <2>5. /\ SlotsIn(events', types, id) = SlotsIn(mid, types, id)
        /\ \A i \in DOMAIN mid : i \in DOMAIN events' /\ events'[i] = mid[i]
        /\ \A status : ExplainedBy(mid, types, id, status)
                         => ExplainedBy(events', types, id, status)
    BY <2>1, <2>2, <2>3, PutOther
  <2> QED BY <2>4, <2>5
<1> QED BY <1>1, <1>2, <1>3 DEF Journals

(* The last event a step journals about an entity explains it.              *)
LEMMA JournalsOwn ==
    ASSUME seq \in Nat, DenseLog, NEW e, NEW f, PutEvent(f) \/ PutEvents(e, f),
           NEW types, NEW id, f.type \in types, f.id = id
    PROVE  /\ seq' \in DOMAIN events' /\ events'[seq'] = f
           /\ IsLast(seq', SlotsIn(events', types, id))
           /\ \A i : IsLast(i, SlotsIn(events', types, id)) => i = seq'
           /\ ExplainedBy(events', types, id, StatusAfter(f.type))
<1>1. \E evs : Free(evs, seq') /\ seq' \in Nat /\ events' = Put(evs, seq', f)
  <2>1. CASE PutEvent(f)
    <3>1. Free(events, seq') /\ seq' \in Nat /\ events' = Put(events, seq', f)
      BY <2>1 DEF DenseLog, PutEvent, Free
    <3> QED BY <3>1
  <2>2. CASE PutEvents(e, f)
    <3> DEFINE mid == Put(events, seq + 1, e)
    <3>1. Free(mid, seq + 2) /\ seq + 2 \in Nat
      BY DEF DenseLog, Put, Free
    <3>2. events' = Put(mid, seq + 2, f) /\ seq' = seq + 2
      BY <2>2 DEF PutEvents
    <3> HIDE DEF mid
    <3> QED BY <3>1, <3>2
  <2> QED BY <2>1, <2>2
<1> QED BY <1>1, PutOwn

LEMMA JournalsOne ==
    ASSUME seq \in Nat, DenseLog, NEW f, PutEvent(f), NEW types, NEW id,
           f.type \in types, f.id = id
    PROVE  /\ seq' \in DOMAIN events' /\ events'[seq'] = f
           /\ IsLast(seq', SlotsIn(events', types, id))
           /\ \A i : IsLast(i, SlotsIn(events', types, id)) => i = seq'
           /\ ExplainedBy(events', types, id, StatusAfter(f.type))
<1>1. PutEvent(f) \/ PutEvents(f, f)
  OBVIOUS
<1> QED BY <1>1, JournalsOwn

-----------------------------------------------------------------------------
(* The journal explains the entities.                                       *)

HookExplainedBy(evs, h, tok, over) ==
    /\ tok # None =>
          \E i \in DOMAIN evs : /\ IsLast(i, SlotsIn(evs, HookLifeTypes, h))
                                /\ evs[i].type = "hook_created" /\ evs[i].token = tok
    /\ tok = None /\ ~over =>
          \A i \in SlotsIn(evs, HookLifeTypes, h) :
             IsLast(i, SlotsIn(evs, HookLifeTypes, h)) => evs[i].type = "hook_disposed"

WaitExplainedBy(evs, w, status, over) ==
    status # "none" \/ ~over => ExplainedBy(evs, WaitTypes, w, status)

Explained(evs, r, st, ws, hk) ==
    /\ ExplainedBy(evs, RunTypes, None, r)
    /\ \A s \in Steps : ExplainedBy(evs, StepTypes, s, st[s].status)
    /\ \A w \in Waits : WaitExplainedBy(evs, w, ws[w], r \in TerminalRun)
    /\ \A h \in Hooks : HookExplainedBy(evs, h, hk[h], r \in TerminalRun)

LEMMA ExplainedForms ==
    /\ LogExplainsState <=> Explained(events, run, steps, waits, hooks)
    /\ LogExplainsState' <=> Explained(events', run', steps', waits', hooks')
<1> USE DEF LogExplainsState, RunExplained, StepsExplained, WaitsExplained, HooksExplained,
            Explains, Slots, Explained, ExplainedBy, WaitExplainedBy, HookExplainedBy, SlotsIn,
            RunIsTerminal
<1> QED OBVIOUS

(* A hook that no event is about, and that at most leaves a finished run.   *)
LEMMA HookKept ==
    ASSUME NEW evs, NEW new, NEW h, NEW tok, NEW tokNew, NEW over, NEW overNew,
           HookExplainedBy(evs, h, tok, over),
           SlotsIn(new, HookLifeTypes, h) = SlotsIn(evs, HookLifeTypes, h),
           \A i \in DOMAIN evs : i \in DOMAIN new /\ new[i] = evs[i],
           over => overNew,
           tokNew = tok \/ (tokNew = None /\ overNew)
    PROVE  HookExplainedBy(new, h, tokNew, overNew)
<1>1. \A i \in SlotsIn(evs, HookLifeTypes, h) : i \in DOMAIN evs
  BY DEF SlotsIn
<1> QED BY <1>1 DEF HookExplainedBy

LEMMA TypesApart ==
    /\ RunTypes \cap StepTypes = {} /\ RunTypes \cap WaitTypes = {}
    /\ RunTypes \cap HookTypes = {} /\ StepTypes \cap WaitTypes = {}
    /\ StepTypes \cap HookTypes = {} /\ WaitTypes \cap HookTypes = {}
    /\ "attr_set" \notin RunTypes \cup StepTypes \cup WaitTypes \cup HookTypes
    /\ HookLifeTypes \subseteq HookTypes
BY DEF RunTypes, RunEndTypes, StepTypes, WaitTypes, HookTypes, HookLifeTypes

(* No hook is there before the run is.                                      *)
ExplainInv ==
    /\ LogExplainsState
    /\ run = "none" => \A h \in Hooks : hooks[h] = None

(* A step changes an explanation only where it journals.                    *)
LEMMA ExplainOthers ==
    ASSUME seq \in Nat, DenseLog, Explained(events, run, steps, waits, hooks),
           NEW T, NEW I, Journals(T, I), RunIsTerminal => RunIsTerminal'
    PROVE  /\ run' = run /\ (T \cap RunTypes = {} \/ None \notin I)
                => ExplainedBy(events', RunTypes, None, run')
           /\ \A s \in Steps :
                 steps'[s] = steps[s] /\ (T \cap StepTypes = {} \/ s \notin I)
                   => ExplainedBy(events', StepTypes, s, steps'[s].status)
           /\ \A w \in Waits :
                 /\ waits'[w] = waits[w] \/ (waits'[w] = "none" /\ RunIsTerminal')
                 /\ T \cap WaitTypes = {} \/ w \notin I
                 => WaitExplainedBy(events', w, waits'[w], RunIsTerminal')
           /\ \A h \in Hooks :
                 /\ hooks'[h] = hooks[h] \/ (hooks'[h] = None /\ RunIsTerminal')
                 /\ T \cap HookLifeTypes = {} \/ h \notin I
                 => HookExplainedBy(events', h, hooks'[h], RunIsTerminal')
<1> USE DEF Explained
<1>1. run' = run /\ (T \cap RunTypes = {} \/ None \notin I)
        => ExplainedBy(events', RunTypes, None, run')
  BY JournalsOther
<1>2. ASSUME NEW s \in Steps,
             steps'[s] = steps[s] /\ (T \cap StepTypes = {} \/ s \notin I)
      PROVE  ExplainedBy(events', StepTypes, s, steps'[s].status)
  BY <1>2, JournalsOther
<1>3. ASSUME NEW w \in Waits,
             waits'[w] = waits[w] \/ (waits'[w] = "none" /\ RunIsTerminal'),
             T \cap WaitTypes = {} \/ w \notin I
      PROVE  WaitExplainedBy(events', w, waits'[w], RunIsTerminal')
  <2>1. \A status : ExplainedBy(events, WaitTypes, w, status)
                      => ExplainedBy(events', WaitTypes, w, status)
    BY <1>3, JournalsOther
  <2> QED BY <1>3, <2>1 DEF WaitExplainedBy, RunIsTerminal
<1>4. ASSUME NEW h \in Hooks,
             hooks'[h] = hooks[h] \/ (hooks'[h] = None /\ RunIsTerminal'),
             T \cap HookLifeTypes = {} \/ h \notin I
      PROVE  HookExplainedBy(events', h, hooks'[h], RunIsTerminal')
  <2>1. /\ SlotsIn(events', HookLifeTypes, h) = SlotsIn(events, HookLifeTypes, h)
        /\ \A i \in DOMAIN events : i \in DOMAIN events' /\ events'[i] = events[i]
    BY <1>4, JournalsOther
  <2>2. HookExplainedBy(events, h, hooks[h], RunIsTerminal)
    BY DEF RunIsTerminal
  <2> QED BY <1>4, <2>1, <2>2, HookKept
<1> QED BY <1>1, <1>2, <1>3, <1>4

LEMMA ExplainRunStep ==
    ASSUME TypeOK, DenseLog, ExplainInv, RunStep, RunIsTerminal => RunIsTerminal'
    PROVE  ExplainInv'
<1> USE DEF entityVars, hookVars
<1>0. /\ seq \in Nat
      /\ Explained(events, run, steps, waits, hooks)
  BY BoundsAssumption, ExplainedForms DEF TypeOK, ExplainInv
<1>1. Journals(RunTypes \cup {"attr_set"}, Attrs \cup {None})
  BY RunJournals
<1>2. /\ UNCHANGED steps
      /\ hooks' \in [Hooks -> Tokens \cup {None}] /\ waits' \in [Waits -> WaitStatus]
      /\ \A w \in Waits : waits'[w] = waits[w] \/ (waits'[w] = "none" /\ RunIsTerminal')
      /\ \A h \in Hooks : hooks'[h] = hooks[h] \/ (hooks'[h] = None /\ RunIsTerminal')
      /\ run' # "none"
  BY DEF RunStep, RunCreated, RunBootstrapped, RunStarted, RunEnded, RunCancelledAgain, AttrSet,
         RunEndTypes, EndStatus, RunIsTerminal, TerminalRun, RunIsLive, TypeOK, WaitStatus
<1>3. /\ \A s \in Steps : ExplainedBy(events', StepTypes, s, steps'[s].status)
      /\ \A w \in Waits : WaitExplainedBy(events', w, waits'[w], RunIsTerminal')
      /\ \A h \in Hooks : HookExplainedBy(events', h, hooks'[h], RunIsTerminal')
  <2>1. /\ (RunTypes \cup {"attr_set"}) \cap StepTypes = {}
        /\ (RunTypes \cup {"attr_set"}) \cap WaitTypes = {}
        /\ (RunTypes \cup {"attr_set"}) \cap HookLifeTypes = {}
    BY TypesApart
  <2> QED BY <1>0, <1>1, <1>2, <2>1, ExplainOthers
<1>4. ExplainedBy(events', RunTypes, None, run')
  <2>1. CASE RunCreated
    BY <1>0, <2>1, EvFields, JournalsOne DEF RunCreated, RunTypes, StatusAfter
  <2>2. CASE RunBootstrapped
    BY <1>0, <2>2, EvFields, JournalsOwn DEF RunBootstrapped, RunTypes, StatusAfter
  <2>3. CASE RunStarted
    BY <1>0, <2>3, EvFields, JournalsOne DEF RunStarted, RunTypes, StatusAfter
  <2>4. ASSUME NEW type \in RunEndTypes, RunEnded(type)
        PROVE  ExplainedBy(events', RunTypes, None, run')
    <3>1. ExplainedBy(events', RunTypes, None, StatusAfter(type))
      BY <1>0, <2>4, EvFields, JournalsOne DEF RunEnded, RunTypes
    <3>2. StatusAfter(type) = EndStatus(type)
      BY DEF StatusAfter, EndStatus, RunEndTypes
    <3> QED BY <2>4, <3>1, <3>2 DEF RunEnded
  <2>5. CASE RunCancelledAgain
    BY <1>0, <2>5, EvFields, JournalsOne DEF RunCancelledAgain, RunTypes, RunEndTypes, StatusAfter
  <2>6. ASSUME NEW a, AttrSet(a)
        PROVE  ExplainedBy(events', RunTypes, None, run')
    <3>1. Journals({"attr_set"}, {a}) /\ run' = run
      BY <2>6, EvFields DEF AttrSet, Journals
    <3> QED BY <1>0, <3>1, TypesApart, ExplainOthers
  <2> QED BY <2>1, <2>2, <2>3, <2>4, <2>5, <2>6 DEF RunStep
<1> QED
  BY <1>2, <1>3, <1>4, ExplainedForms DEF ExplainInv, Explained, RunIsTerminal

LEMMA ExplainStepStep ==
    ASSUME TypeOK, DenseLog, ExplainInv, NEW s \in Steps, StepStepOf(s)
    PROVE  ExplainInv'
<1> USE DEF hookVars
<1>0. /\ seq \in Nat
      /\ Explained(events, run, steps, waits, hooks)
  BY BoundsAssumption, ExplainedForms DEF TypeOK, ExplainInv
<1>1. Journals(StepTypes, {s})
  BY StepJournals
<1>2. /\ UNCHANGED <<run, waits, hooks>>
      /\ \A t \in Steps \ {s} : steps'[t] = steps[t]
  BY DEF StepStepOf, StepCreated, StepStartedLazy, StepStarted, StepCompleted, StepFailed,
         StepRetrying, TypeOK
<1>3. /\ ExplainedBy(events', RunTypes, None, run')
      /\ \A t \in Steps \ {s} : ExplainedBy(events', StepTypes, t, steps'[t].status)
      /\ \A w \in Waits : WaitExplainedBy(events', w, waits'[w], RunIsTerminal')
      /\ \A h \in Hooks : HookExplainedBy(events', h, hooks'[h], RunIsTerminal')
  BY <1>0, <1>1, <1>2, TypesApart, ExplainOthers DEF RunIsTerminal
<1>4. ExplainedBy(events', StepTypes, s, steps'[s].status)
  <2>0. ASSUME NEW e, NEW type, PutEvent(Ev(type, s)) \/ PutEvents(e, Ev(type, s)),
               type \in StepTypes, steps'[s].status = StatusAfter(type)
        PROVE  ExplainedBy(events', StepTypes, s, steps'[s].status)
    <3>1. Ev(type, s).type = type /\ Ev(type, s).id = s
      BY EvFields
    <3> QED BY <1>0, <2>0, <3>1, JournalsOwn
  <2>a. /\ StatusAfter("step_created") = "pending" /\ StatusAfter("step_started") = "running"
        /\ StatusAfter("step_completed") = "completed" /\ StatusAfter("step_failed") = "failed"
        /\ StatusAfter("step_retrying") = "pending"
        /\ {"step_created", "step_started", "step_completed", "step_failed", "step_retrying"}
             \subseteq StepTypes
    BY DEF StatusAfter, StepTypes
  <2>b. steps \in [Steps -> Step]
    BY DEF TypeOK
  <2>1. CASE StepCreated(s)
    BY <2>0, <2>1, <2>a, <2>b DEF StepCreated
  <2>2. CASE StepStartedLazy(s)
    BY <2>0, <2>2, <2>a, <2>b DEF StepStartedLazy
  <2>3. CASE StepStarted(s)
    BY <2>0, <2>3, <2>a, <2>b DEF StepStarted
  <2>4. CASE StepCompleted(s)
    BY <2>0, <2>4, <2>a, <2>b DEF StepCompleted, Step
  <2>5. CASE StepFailed(s)
    BY <2>0, <2>5, <2>a, <2>b DEF StepFailed, Step
  <2>6. ASSUME NEW t, StepRetrying(s, t)
        PROVE  ExplainedBy(events', StepTypes, s, steps'[s].status)
    BY <2>0, <2>6, <2>a, <2>b DEF StepRetrying, Step
  <2> QED BY <2>1, <2>2, <2>3, <2>4, <2>5, <2>6 DEF StepStepOf
<1> QED
  BY <1>2, <1>3, <1>4, ExplainedForms DEF ExplainInv, Explained, RunIsTerminal

LEMMA ExplainWaitStep ==
    ASSUME TypeOK, DenseLog, ExplainInv, NEW w \in Waits, WaitCreated(w) \/ WaitCompleted(w)
    PROVE  ExplainInv'
<1> USE DEF hookVars
<1>0. /\ seq \in Nat
      /\ Explained(events, run, steps, waits, hooks)
  BY BoundsAssumption, ExplainedForms DEF TypeOK, ExplainInv
<1>1. Journals(WaitTypes, {w})
  BY WaitJournals
<1>2. /\ UNCHANGED <<run, steps, hooks>>
      /\ \A v \in Waits \ {w} : waits'[v] = waits[v]
  BY DEF WaitCreated, WaitCompleted, TypeOK
<1>3. /\ ExplainedBy(events', RunTypes, None, run')
      /\ \A s \in Steps : ExplainedBy(events', StepTypes, s, steps'[s].status)
      /\ \A v \in Waits \ {w} : WaitExplainedBy(events', v, waits'[v], RunIsTerminal')
      /\ \A h \in Hooks : HookExplainedBy(events', h, hooks'[h], RunIsTerminal')
  BY <1>0, <1>1, <1>2, TypesApart, ExplainOthers DEF RunIsTerminal
<1>4. ExplainedBy(events', WaitTypes, w, waits'[w])
  <2>0. ASSUME NEW type, PutEvent(Ev(type, w)),
               type \in WaitTypes, waits'[w] = StatusAfter(type)
        PROVE  ExplainedBy(events', WaitTypes, w, waits'[w])
    <3>1. Ev(type, w).type = type /\ Ev(type, w).id = w
      BY EvFields
    <3> QED BY <1>0, <2>0, <3>1, JournalsOne
  <2>a. /\ StatusAfter("wait_created") = "waiting" /\ StatusAfter("wait_completed") = "completed"
        /\ {"wait_created", "wait_completed"} \subseteq WaitTypes
    BY DEF StatusAfter, WaitTypes
  <2>1. CASE WaitCreated(w)
    BY <2>0, <2>1, <2>a DEF WaitCreated, TypeOK
  <2>2. CASE WaitCompleted(w)
    BY <2>0, <2>2, <2>a DEF WaitCompleted, TypeOK
  <2> QED BY <2>1, <2>2
<1> QED
  BY <1>2, <1>3, <1>4, ExplainedForms DEF ExplainInv, Explained, RunIsTerminal, WaitExplainedBy

LEMMA ExplainHookStep ==
    ASSUME TypeOK, DenseLog, ExplainInv, NEW h \in Hooks, HookStepOf(h)
    PROVE  ExplainInv'
<1> USE DEF entityVars
<1>0. /\ seq \in Nat
      /\ Explained(events, run, steps, waits, hooks)
  BY BoundsAssumption, ExplainedForms DEF TypeOK, ExplainInv
<1>1. Journals(HookTypes, {h})
  BY HookJournals
<1>2. /\ UNCHANGED <<run, steps, waits>>
      /\ \A g \in Hooks \ {h} : hooks'[g] = hooks[g]
  BY DEF HookStepOf, HookConflict, HookCreated, ForcedHookDisposal, HookReceived, HookDisposed,
         TypeOK, hookVars
<1>3. /\ ExplainedBy(events', RunTypes, None, run')
      /\ \A s \in Steps : ExplainedBy(events', StepTypes, s, steps'[s].status)
      /\ \A w \in Waits : WaitExplainedBy(events', w, waits'[w], RunIsTerminal')
      /\ \A g \in Hooks \ {h} : HookExplainedBy(events', g, hooks'[g], RunIsTerminal')
  BY <1>0, <1>1, <1>2, TypesApart, ExplainOthers DEF RunIsTerminal
<1>4. /\ HookExplainedBy(events', h, hooks'[h], RunIsTerminal')
      /\ run' = "none" => hooks'[h] = None
  <2>1. ASSUME NEW tok \in Tokens, NEW c, HookCreated(h, tok, c, c.from)
        PROVE  /\ HookExplainedBy(events', h, hooks'[h], RunIsTerminal')
               /\ run' = "none" => hooks'[h] = None
    <3> DEFINE e == [type |-> "hook_created", id |-> h, token |-> tok, ref |-> c.from]
    <3>1. PutEvent(e) /\ hooks'[h] = tok /\ tok # None /\ run' # "none"
      BY <2>1, IdsAssumption DEF HookCreated, TypeOK, RunIsLive
    <3>2. e.type = "hook_created" /\ e.id = h /\ e.token = tok /\ e.type \in HookLifeTypes
      BY DEF HookLifeTypes
    <3> HIDE DEF e
    <3>3. /\ seq' \in DOMAIN events' /\ events'[seq'] = e
          /\ IsLast(seq', SlotsIn(events', HookLifeTypes, h))
      BY <1>0, <3>1, <3>2, JournalsOne
    <3> QED BY <3>1, <3>2, <3>3 DEF HookExplainedBy
  <2>2. ASSUME NEW e, PutEvent(e), e.type = "hook_disposed", e.id = h, hooks'[h] = None
        PROVE  /\ HookExplainedBy(events', h, hooks'[h], RunIsTerminal')
               /\ run' = "none" => hooks'[h] = None
    <3>1. e.type \in HookLifeTypes
      BY <2>2 DEF HookLifeTypes
    <3>2. /\ events'[seq'] = e
          /\ \A i : IsLast(i, SlotsIn(events', HookLifeTypes, h)) => i = seq'
      BY <1>0, <2>2, <3>1, JournalsOne
    <3> QED BY <2>2, <3>2 DEF HookExplainedBy
  <2>3. ASSUME NEW T, Journals(T, {h}), T \cap HookLifeTypes = {},
               hooks'[h] = hooks[h] \/ (hooks'[h] = None /\ RunIsTerminal')
        PROVE  /\ HookExplainedBy(events', h, hooks'[h], RunIsTerminal')
               /\ run' = "none" => hooks'[h] = None
    BY <1>0, <1>2, <2>3, ExplainOthers DEF RunIsTerminal, ExplainInv, TerminalRun
  <2>4. ASSUME NEW tok, NEW c, HookConflict(h, tok, c) \/ HookReceived(h, c)
        PROVE  /\ Journals({"hook_conflict", "hook_received"}, {h})
               /\ hooks'[h] = hooks[h]
    BY <2>4 DEF HookConflict, HookReceived, Journals, hookVars
  <2>5. {"hook_conflict", "hook_received"} \cap HookLifeTypes = {} /\ {} \cap HookLifeTypes = {}
    BY DEF HookLifeTypes
  <2>6. ASSUME NEW tok \in Tokens, NEW p, ForcedHookDisposal(h, tok, p)
        PROVE  /\ HookExplainedBy(events', h, hooks'[h], RunIsTerminal')
               /\ run' = "none" => hooks'[h] = None
    <3>1. hooks'[h] = None /\ hooks[h] # None /\ run # "none"
      BY <2>6, IdsAssumption DEF ForcedHookDisposal, TypeOK, ExplainInv
    <3>2. CASE RunIsLive
      <4>1. PutEvent([type |-> "hook_disposed", id |-> h, token |-> tok, ref |-> p])
        BY <2>6, <3>2 DEF ForcedHookDisposal
      <4> QED BY <2>2, <3>1, <4>1
    <3>3. CASE ~RunIsLive
      <4>1. Journals({}, {h}) /\ RunIsTerminal'
        BY <1>2, <2>6, <3>1, <3>3
           DEF ForcedHookDisposal, Journals, RunIsLive, RunIsTerminal, TerminalRun, TypeOK, RunStatus
      <4> QED BY <2>3, <2>5, <3>1, <4>1
    <3> QED BY <3>2, <3>3
  <2>7. ASSUME HookDisposed(h)
        PROVE  /\ HookExplainedBy(events', h, hooks'[h], RunIsTerminal')
               /\ run' = "none" => hooks'[h] = None
    <3>1. PutEvent(Ev("hook_disposed", h)) /\ hooks'[h] = None
      BY <2>7 DEF HookDisposed, TypeOK
    <3> QED BY <2>2, <3>1, EvFields
  <2> QED BY <2>1, <2>3, <2>4, <2>5, <2>6, <2>7 DEF HookStepOf
<1> QED
  BY <1>2, <1>3, <1>4, ExplainedForms DEF ExplainInv, Explained, RunIsTerminal

LEMMA ExplainSilentStep ==
    ASSUME TypeOK, DenseLog, ExplainInv, ResolveStep \/ CleanupStep \/ Tick \/ UNCHANGED vars
    PROVE  ExplainInv'
<1>0. /\ seq \in Nat
      /\ Explained(events, run, steps, waits, hooks)
  BY BoundsAssumption, ExplainedForms DEF TypeOK, ExplainInv
<1>1. UNCHANGED <<run, steps, events, seq>> /\ Journals({}, {})
  BY SilentStep DEF Journals
<1>2. /\ \A w \in Waits : waits'[w] = waits[w] \/ (waits'[w] = "none" /\ RunIsTerminal')
      /\ \A h \in Hooks : hooks'[h] = hooks[h] \/ (hooks'[h] = None /\ RunIsTerminal')
  <2>1. CASE ResolveStep
    BY <2>1 DEF ResolveStep, ResolveForcedHookClaim, ResolveHookTokenClaim,
                ResolveExpiredHookClaim, entityVars
  <2>2. CASE CleanupStep \/ Tick \/ UNCHANGED vars
    BY <2>2 DEF CleanupStep, DeleteTerminalHooks, DeleteTerminalWaits, Tick, vars, store,
                entityVars, hookVars, RunIsTerminal
  <2> QED BY <2>1, <2>2
<1>3. /\ ExplainedBy(events', RunTypes, None, run')
      /\ \A s \in Steps : ExplainedBy(events', StepTypes, s, steps'[s].status)
      /\ \A w \in Waits : WaitExplainedBy(events', w, waits'[w], RunIsTerminal')
      /\ \A h \in Hooks : HookExplainedBy(events', h, hooks'[h], RunIsTerminal')
  BY <1>0, <1>1, <1>2, ExplainOthers DEF RunIsTerminal
<1> QED
  BY <1>1, <1>2, <1>3, ExplainedForms DEF ExplainInv, Explained, RunIsTerminal

(* Whoever rebuilds a run from its journal finds the status every reader of *)
(* the entity finds: of the run, its steps, its waits and its hooks, but    *)
(* for the entities that the cleanup of a finished run removed.             *)
THEOREM JournalExplainsState == Spec => []LogExplainsState
<1>1. Init => ExplainInv
  <2>1. Init => Explained(events, run, steps, waits, hooks)
    BY DEF Init, Explained, ExplainedBy, WaitExplainedBy, HookExplainedBy, SlotsIn
  <2> QED BY <2>1, ExplainedForms DEF Init, ExplainInv
<1>2. TypeOK /\ DenseLog /\ ExplainInv /\ [Next]_vars => ExplainInv'
  <2> SUFFICES ASSUME TypeOK, DenseLog, ExplainInv, [Next]_vars PROVE ExplainInv'
    OBVIOUS
  <2>1. RunIsTerminal => RunIsTerminal'
    BY FinalStep DEF RunIsTerminal
  <2>2. CASE RunStep
    BY <2>1, <2>2, ExplainRunStep
  <2>3. CASE StepStep
    BY <2>3, ExplainStepStep DEF StepStep, StepStepOf
  <2>4. CASE WaitStep
    BY <2>4, ExplainWaitStep DEF WaitStep
  <2>5. CASE HookStep
    BY <2>5, HookStepSplit, ExplainHookStep, ExplainSilentStep
  <2>6. CASE CleanupStep \/ Tick \/ UNCHANGED vars
    BY <2>6, ExplainSilentStep
  <2> QED BY <2>2, <2>3, <2>4, <2>5, <2>6 DEF Next
<1>3. ExplainInv => LogExplainsState
  BY DEF ExplainInv
<1> QED
  BY <1>1, <1>2, <1>3, TypeCorrect, JournalIsDense, PTL DEF Spec
-----------------------------------------------------------------------------
(* The order of the journal.  Each event leaves a mark in the state that no *)
(* later step takes back: the status an entity moved on to, the creation    *)
(* marker of a hook.  The guards read the marks, so a new event fits behind *)
(* the events already there.                                                *)

EventIdsAgree(e) ==
    /\ e.type \in StepTypes => e.id \in Steps
    /\ e.type \in WaitTypes => e.id \in Waits
    /\ e.type \in HookTypes => e.id \in Hooks

Marked(e, r, st, ws, hk, he) ==
    /\ EventIdsAgree(e)
    /\ e.type = "run_created" => r # "none"
    /\ e.type = "run_started" => r \notin {"none", "pending"}
    /\ e.type \in RunEndTypes => r \in TerminalRun /\ r = EndStatus(e.type)
    /\ e.type = "step_created" => st[e.id].status # "none"
    /\ e.type = "wait_created" => ws[e.id] # "none" \/ r \in TerminalRun
    /\ e.type = "hook_created" => he[e.id] # 0
    /\ e.type = "hook_disposed" => he[e.id] # 0 /\ hk[e.id] = None

AllMarked(evs, r, st, ws, hk, he) ==
    \A i \in DOMAIN evs : Marked(evs[i], r, st, ws, hk, he)

BeforeEndTypes == CreationTypes \cup {"hook_received", "hook_conflict", "attr_set"}

(* The three properties of a journal, as a value.                           *)
CreatedOnceIn(evs) ==
    \A i, j \in DOMAIN evs :
        /\ evs[i].type \in CreationTypes
        /\ evs[j].type = evs[i].type /\ evs[j].id = evs[i].id
        => i = j

OneEndIn(evs) ==
    \A i, j \in DOMAIN evs :
        i < j /\ evs[i].type \in RunEndTypes =>
            /\ evs[j].type \notin BeforeEndTypes
            /\ evs[j].type \in RunEndTypes =>
                  evs[i].type = "run_cancelled" /\ evs[j].type = "run_cancelled"

WindowIn(evs) ==
    \A i \in DOMAIN evs :
        evs[i].type = "hook_received" =>
            /\ \E k \in SlotsIn(evs, {"hook_created"}, evs[i].id) : k < i
            /\ \A k \in SlotsIn(evs, {"hook_disposed"}, evs[i].id) : i < k

Ordered(evs) == CreatedOnceIn(evs) /\ OneEndIn(evs) /\ WindowIn(evs)

LEMMA OrderedForms ==
    Ordered(events) => CreatedOnce /\ NothingAfterEnd /\ HookDeliveryWindow
<1>1. CreatedOnceIn(events) => CreatedOnce
  BY DEF CreatedOnceIn, CreatedOnce
<1>2. OneEndIn(events) => NothingAfterEnd
  BY DEF OneEndIn, NothingAfterEnd, BeforeEndTypes
<1>3. WindowIn(events) => HookDeliveryWindow
  BY DEF WindowIn, HookDeliveryWindow, SlotsIn, Slots
<1> QED BY <1>1, <1>2, <1>3 DEF Ordered

(* What lets an event stand behind a journal.                               *)
Fits(e, evs) ==
    /\ e.type \in CreationTypes =>
          \A i \in DOMAIN evs : ~(evs[i].type = e.type /\ evs[i].id = e.id)
    /\ \A i \in DOMAIN evs :
          evs[i].type \in RunEndTypes =>
              /\ e.type \notin BeforeEndTypes
              /\ e.type \in RunEndTypes =>
                    evs[i].type = "run_cancelled" /\ e.type = "run_cancelled"
    /\ e.type = "hook_received" =>
          /\ SlotsIn(evs, {"hook_created"}, e.id) # {}
          /\ SlotsIn(evs, {"hook_disposed"}, e.id) = {}

LEMMA PutFitting ==
    ASSUME NEW evs, NEW slot \in Nat, Free(evs, slot), NEW e, NEW new, new = Put(evs, slot, e),
           Ordered(evs), Fits(e, evs)
    PROVE  Ordered(new)
<1>1. DOMAIN new = DOMAIN evs \cup {slot} /\ new[slot] = e
  BY DEF Put
<1>2. \A i \in DOMAIN evs : i \in Nat /\ i < slot /\ i # slot /\ new[i] = evs[i]
  BY DEF Put, Free
<1>3. CreatedOnceIn(new)
  BY <1>1, <1>2 DEF CreatedOnceIn, Ordered, Fits
<1>4. OneEndIn(new)
  <2> SUFFICES ASSUME NEW i \in DOMAIN new, NEW j \in DOMAIN new,
                      i < j, new[i].type \in RunEndTypes
               PROVE  /\ new[j].type \notin BeforeEndTypes
                      /\ new[j].type \in RunEndTypes =>
                           new[i].type = "run_cancelled" /\ new[j].type = "run_cancelled"
    BY DEF OneEndIn
  <2>1. i \in DOMAIN evs /\ new[i] = evs[i]
    BY <1>1, <1>2
  <2>2. CASE j = slot
    BY <1>1, <2>1, <2>2 DEF Fits
  <2>3. CASE j \in DOMAIN evs
    BY <1>2, <2>1, <2>3 DEF Ordered, OneEndIn
  <2> QED BY <1>1, <2>2, <2>3
<1>5. WindowIn(new)
  <2> SUFFICES ASSUME NEW i \in DOMAIN new, new[i].type = "hook_received"
               PROVE  /\ \E k \in SlotsIn(new, {"hook_created"}, new[i].id) : k < i
                      /\ \A k \in SlotsIn(new, {"hook_disposed"}, new[i].id) : i < k
    BY DEF WindowIn
  <2>1. CASE i = slot
    <3>1. PICK k \in SlotsIn(evs, {"hook_created"}, e.id) : TRUE
      BY <1>1, <2>1 DEF Fits
    <3>2. k \in SlotsIn(new, {"hook_created"}, e.id) /\ k < slot
      BY <1>1, <1>2 DEF SlotsIn
    <3>3. SlotsIn(new, {"hook_disposed"}, e.id) = {}
      BY <1>1, <1>2, <2>1 DEF SlotsIn, Fits
    <3> QED BY <1>1, <2>1, <3>2, <3>3
  <2>2. CASE i \in DOMAIN evs
    <3>1. new[i] = evs[i] /\ i < slot
      BY <1>2, <2>2
    <3>2. /\ \E k \in SlotsIn(evs, {"hook_created"}, evs[i].id) : k < i
          /\ \A k \in SlotsIn(evs, {"hook_disposed"}, evs[i].id) : i < k
      BY <2>2, <3>1 DEF Ordered, WindowIn
    <3>3. \A k \in SlotsIn(evs, {"hook_created"}, evs[i].id) :
             k \in SlotsIn(new, {"hook_created"}, evs[i].id)
      BY <1>1, <1>2 DEF SlotsIn
    <3>4. \A k \in SlotsIn(new, {"hook_disposed"}, evs[i].id) :
             k \in SlotsIn(evs, {"hook_disposed"}, evs[i].id) \/ k = slot
      BY <1>1, <1>2 DEF SlotsIn
    <3> QED BY <3>1, <3>2, <3>3, <3>4
  <2> QED BY <1>1, <2>1, <2>2
<1> QED BY <1>3, <1>4, <1>5 DEF Ordered

HistoryInv ==
    /\ Ordered(events)
    /\ AllMarked(events, run, steps, waits, hooks, hookEvent)

(* No step takes a mark back.                                               *)
LEMMA MarksStay ==
    ASSUME TypeOK, [Next]_vars
    PROVE  /\ run # "none" => run' # "none"
           /\ run \notin {"none", "pending"} => run' \notin {"none", "pending"}
           /\ run \in TerminalRun => run' = run
           /\ \A s \in Steps : steps[s].status # "none" => steps'[s].status # "none"
           /\ \A w \in Waits : waits[w] # "none" => waits'[w] # "none" \/ run' \in TerminalRun
           /\ \A h \in Hooks : hookEvent[h] # 0 => hookEvent'[h] # 0
           /\ \A h \in Hooks : hookEvent[h] # 0 /\ hooks[h] = None => hooks'[h] = None
<1> USE DEF entityVars, hookVars
<1>1. CASE RunStep
  BY <1>1 DEF RunStep, RunCreated, RunBootstrapped, RunStarted, RunEnded, RunCancelledAgain,
              AttrSet, RunIsLive, TerminalRun, RunEndTypes, EndStatus, TypeOK
<1>2. CASE StepStep
  <2>1. UNCHANGED <<run, waits, hooks, hookEvent>>
    BY <1>2 DEF StepStep, StepCreated, StepStartedLazy, StepStarted, StepCompleted, StepFailed,
                StepRetrying
  <2>2. ASSUME NEW s \in Steps, StepStepOf(s)
        PROVE  \A t \in Steps : steps[t].status # "none" => steps'[t].status # "none"
    <3>0. steps \in [Steps -> Step]
      BY DEF TypeOK
    <3>1. CASE StepCreated(s) \/ StepStartedLazy(s) \/ StepStarted(s)
      BY <3>0, <3>1 DEF StepCreated, StepStartedLazy, StepStarted
    <3>2. CASE StepCompleted(s) \/ StepFailed(s)
      BY <3>0, <3>2 DEF StepCompleted, StepFailed, Step
    <3>3. ASSUME NEW t, StepRetrying(s, t)
          PROVE  \A u \in Steps : steps[u].status # "none" => steps'[u].status # "none"
      BY <3>0, <3>3 DEF StepRetrying, Step
    <3> QED BY <2>2, <3>1, <3>2, <3>3 DEF StepStepOf
  <2>3. \A t \in Steps : steps[t].status # "none" => steps'[t].status # "none"
    BY <1>2, <2>2 DEF StepStep, StepStepOf
  <2> QED BY <2>1, <2>3 DEF TypeOK
<1>3. CASE WaitStep
  BY <1>3 DEF WaitStep, WaitCreated, WaitCompleted, TypeOK
<1>4. CASE HookStep
  <2>0. UNCHANGED <<run, steps, waits>>
    BY <1>4 DEF HookStep, HookConflict, HookCreated, ForcedHookDisposal, HookReceived,
                HookDisposed, ResolveForcedHookClaim, ResolveHookTokenClaim,
                ResolveExpiredHookClaim
  <2>1. ASSUME NEW g \in Hooks, NEW tok, NEW c, HookCreated(g, tok, c, c.from)
        PROVE  \A h \in Hooks : /\ hookEvent[h] # 0 => hookEvent'[h] # 0
                                /\ hookEvent[h] # 0 /\ hooks[h] = None => hooks'[h] = None
    <3>1. seq + 1 # 0
      BY BoundsAssumption DEF TypeOK
    <3> QED BY <2>1, <3>1 DEF HookCreated, TypeOK
  <2>2. ASSUME NEW g \in Hooks, NEW tok, NEW c,
               HookConflict(g, tok, c) \/ ForcedHookDisposal(g, tok, c)
                 \/ HookReceived(g, c) \/ HookDisposed(g)
        PROVE  \A h \in Hooks : /\ hookEvent[h] # 0 => hookEvent'[h] # 0
                                /\ hookEvent[h] # 0 /\ hooks[h] = None => hooks'[h] = None
    BY <2>2 DEF HookConflict, ForcedHookDisposal, HookReceived, HookDisposed, TypeOK
  <2>3. CASE ResolveStep
    BY <2>3 DEF ResolveStep, ResolveForcedHookClaim, ResolveHookTokenClaim,
                ResolveExpiredHookClaim
  <2>4. ASSUME NEW h \in Hooks, HookStepOf(h)
        PROVE  \A g \in Hooks : /\ hookEvent[g] # 0 => hookEvent'[g] # 0
                                /\ hookEvent[g] # 0 /\ hooks[g] = None => hooks'[g] = None
    BY <2>1, <2>2, <2>4 DEF HookStepOf
  <2> QED BY <1>4, <2>0, <2>3, <2>4, HookStepSplit
<1>5. CASE CleanupStep \/ Tick \/ UNCHANGED vars
  BY <1>5 DEF CleanupStep, DeleteTerminalHooks, DeleteTerminalWaits, Tick, vars, store,
              RunIsTerminal, TypeOK
<1> QED
  BY <1>1, <1>2, <1>3, <1>4, <1>5 DEF Next

LEMMA MarkedStays ==
    ASSUME TypeOK, [Next]_vars, AllMarked(events, run, steps, waits, hooks, hookEvent)
    PROVE  AllMarked(events, run', steps', waits', hooks', hookEvent')
<1> SUFFICES ASSUME NEW e, Marked(e, run, steps, waits, hooks, hookEvent)
             PROVE  Marked(e, run', steps', waits', hooks', hookEvent')
  BY DEF AllMarked
<1>1. /\ e.type = "step_created" => e.id \in Steps
      /\ e.type = "wait_created" => e.id \in Waits
      /\ e.type \in {"hook_created", "hook_disposed"} => e.id \in Hooks
  BY DEF Marked, EventIdsAgree, StepTypes, WaitTypes, HookTypes, HookLifeTypes
<1> QED BY <1>1, MarksStay DEF Marked

(* A step that journals fitting, marked events keeps HistoryInv.            *)
LEMMA HistoryKept ==
    ASSUME TypeOK, DenseLog, HistoryInv, [Next]_vars,
           \/ UNCHANGED <<events, seq>>
           \/ \E e : /\ PutEvent(e) /\ Fits(e, events)
                     /\ Marked(e, run', steps', waits', hooks', hookEvent')
           \/ \E e, f : /\ PutEvents(e, f) /\ Fits(e, events)
                        /\ Fits(f, Put(events, seq + 1, e))
                        /\ Marked(e, run', steps', waits', hooks', hookEvent')
                        /\ Marked(f, run', steps', waits', hooks', hookEvent')
    PROVE  HistoryInv'
<1>0. seq \in Nat /\ Free(events, seq + 1) /\ seq + 1 \in Nat /\ seq + 2 \in Nat
  BY BoundsAssumption DEF TypeOK, DenseLog, Free
<1>1. AllMarked(events, run', steps', waits', hooks', hookEvent')
  BY MarkedStays DEF HistoryInv
<1>2. CASE UNCHANGED <<events, seq>>
  BY <1>1, <1>2 DEF HistoryInv
<1>3. ASSUME NEW e, PutEvent(e), Fits(e, events),
             Marked(e, run', steps', waits', hooks', hookEvent')
      PROVE  HistoryInv'
  <2>1. Ordered(events')
    BY <1>0, <1>3, PutFitting DEF PutEvent, HistoryInv
  <2>2. AllMarked(events', run', steps', waits', hooks', hookEvent')
    BY <1>1, <1>3 DEF PutEvent, Put, AllMarked
  <2> QED BY <2>1, <2>2 DEF HistoryInv
<1>4. ASSUME NEW e, NEW f, PutEvents(e, f), Fits(e, events), Fits(f, Put(events, seq + 1, e)),
             Marked(e, run', steps', waits', hooks', hookEvent'),
             Marked(f, run', steps', waits', hooks', hookEvent')
      PROVE  HistoryInv'
  <2> DEFINE mid == Put(events, seq + 1, e)
  <2>1. Free(mid, seq + 2)
    BY <1>0 DEF Free, Put
  <2>2. AllMarked(mid, run', steps', waits', hooks', hookEvent')
    BY <1>1, <1>4 DEF Put, AllMarked
  <2>3. events' = Put(mid, seq + 2, f) /\ Fits(f, mid)
    BY <1>4 DEF PutEvents
  <2>4. Ordered(mid)
    BY <1>0, <1>4, PutFitting DEF HistoryInv
  <2> HIDE DEF mid
  <2>5. Ordered(events')
    BY <1>0, <2>1, <2>3, <2>4, PutFitting
  <2>6. AllMarked(events', run', steps', waits', hooks', hookEvent')
    BY <1>4, <2>2, <2>3 DEF Put, AllMarked
  <2> QED BY <2>5, <2>6 DEF HistoryInv
<1> QED BY <1>2, <1>3, <1>4

(* Events that are no beginning, no end and no delivery fit anywhere.       *)
LEMMA FitsAnywhere ==
    ASSUME NEW e, NEW evs, e.type \notin BeforeEndTypes, e.type \notin RunEndTypes
    PROVE  Fits(e, evs)
BY DEF Fits, BeforeEndTypes

(* A journal with marks of a run that has not ended holds no end.           *)
LEMMA NoEndYet ==
    ASSUME HistoryInv, ~RunIsTerminal
    PROVE  \A i \in DOMAIN events : events[i].type \notin RunEndTypes
BY DEF HistoryInv, AllMarked, Marked, RunIsTerminal

LEMMA HistoryRunStep ==
    ASSUME TypeOK, DenseLog, HistoryInv, RunStep
    PROVE  HistoryInv'
<1> USE DEF entityVars, hookVars
<1>0. [Next]_vars
  BY DEF Next
<1>1. /\ CreationTypes \cap RunEndTypes = {}
      /\ BeforeEndTypes \cap RunEndTypes = {}
      /\ \A type \in RunTypes \cup {"attr_set"} :
            type \notin StepTypes \cup WaitTypes \cup HookTypes
            /\ type \notin {"hook_received", "step_created", "wait_created", "hook_created",
                            "hook_disposed"}
  BY DEF CreationTypes, BeforeEndTypes, RunEndTypes, RunTypes, StepTypes, WaitTypes, HookTypes,
         HookLifeTypes
<1>2. \A i \in DOMAIN events : Marked(events[i], run, steps, waits, hooks, hookEvent)
  BY DEF HistoryInv, AllMarked
<1>3. CASE RunCreated
  <2> DEFINE e == RunEv("run_created")
  <2>1. e.type = "run_created" /\ e.type \in RunTypes /\ e.type \notin RunEndTypes
    BY EvFields DEF RunTypes, RunEndTypes
  <2>2. PutEvent(e) /\ run = "none" /\ run' = "pending"
    BY <1>3 DEF RunCreated
  <2> HIDE DEF e
  <2>3. Fits(e, events)
    BY <1>1, <1>2, <2>1, <2>2, NoEndYet DEF Fits, Marked, RunIsTerminal, TerminalRun
  <2>4. Marked(e, run', steps', waits', hooks', hookEvent')
    BY <1>1, <2>1, <2>2 DEF Marked, EventIdsAgree
  <2> QED BY <1>0, <2>2, <2>3, <2>4, HistoryKept
<1>4. CASE RunBootstrapped
  <2> DEFINE e == RunEv("run_created")
             f == RunEv("run_started")
  <2>1. /\ e.type = "run_created" /\ e.type \in RunTypes /\ e.type \notin RunEndTypes
        /\ f.type = "run_started" /\ f.type \in RunTypes /\ f.type \notin RunEndTypes
    BY EvFields DEF RunTypes, RunEndTypes
  <2>2. PutEvents(e, f) /\ run = "none" /\ run' = "running"
    BY <1>4 DEF RunBootstrapped
  <2> HIDE DEF e, f
  <2>3. Fits(e, events) /\ Fits(f, events)
    BY <1>1, <1>2, <2>1, <2>2, NoEndYet DEF Fits, Marked, RunIsTerminal, TerminalRun
  <2>4. Fits(f, Put(events, seq + 1, e))
    BY <1>1, <2>1, <2>3 DEF Fits, Put
  <2>5. /\ Marked(e, run', steps', waits', hooks', hookEvent')
        /\ Marked(f, run', steps', waits', hooks', hookEvent')
    BY <1>1, <2>1, <2>2 DEF Marked, EventIdsAgree
  <2> QED BY <1>0, <2>2, <2>3, <2>4, <2>5, HistoryKept
<1>5. CASE RunStarted
  <2> DEFINE e == RunEv("run_started")
  <2>1. e.type = "run_started" /\ e.type \in RunTypes /\ e.type \notin RunEndTypes
    BY EvFields DEF RunTypes, RunEndTypes
  <2>2. PutEvent(e) /\ run = "pending" /\ run' = "running"
    BY <1>5 DEF RunStarted
  <2> HIDE DEF e
  <2>3. Fits(e, events)
    BY <1>1, <1>2, <2>1, <2>2, NoEndYet DEF Fits, Marked, RunIsTerminal, TerminalRun
  <2>4. Marked(e, run', steps', waits', hooks', hookEvent')
    BY <1>1, <2>1, <2>2 DEF Marked, EventIdsAgree
  <2> QED BY <1>0, <2>2, <2>3, <2>4, HistoryKept
<1>6. ASSUME NEW type \in RunEndTypes, RunEnded(type)
      PROVE  HistoryInv'
  <2> DEFINE e == RunEv(type)
  <2>1. e.type = type /\ e.type \in RunTypes /\ e.type \in RunEndTypes
        /\ e.type \notin {"run_created", "run_started"}
    BY EvFields DEF RunTypes, RunEndTypes
  <2>2. PutEvent(e) /\ RunIsLive /\ run' = EndStatus(type) /\ EndStatus(type) \in TerminalRun
    BY <1>6 DEF RunEnded, EndStatus, RunEndTypes, TerminalRun
  <2> HIDE DEF e
  <2>3. Fits(e, events)
    BY <1>1, <2>1, <2>2, NoEndYet DEF Fits, RunIsLive, RunIsTerminal, TerminalRun
  <2>4. Marked(e, run', steps', waits', hooks', hookEvent')
    BY <1>1, <2>1, <2>2 DEF Marked, EventIdsAgree
  <2> QED BY <1>0, <2>2, <2>3, <2>4, HistoryKept
<1>7. CASE RunCancelledAgain
  <2> DEFINE e == RunEv("run_cancelled")
  <2>1. e.type = "run_cancelled" /\ e.type \in RunTypes /\ e.type \in RunEndTypes
    BY EvFields DEF RunTypes, RunEndTypes
  <2>2. PutEvent(e) /\ run = "cancelled" /\ run' = run
    BY <1>7 DEF RunCancelledAgain
  <2> HIDE DEF e
  <2>3. \A i \in DOMAIN events : events[i].type \in RunEndTypes => events[i].type = "run_cancelled"
    BY <1>2, <2>2 DEF Marked, EndStatus, RunEndTypes
  <2>4. Fits(e, events)
    BY <1>1, <2>1, <2>3 DEF Fits
  <2>5. Marked(e, run', steps', waits', hooks', hookEvent')
    BY <1>1, <2>1, <2>2 DEF Marked, EventIdsAgree, EndStatus, TerminalRun
  <2> QED BY <1>0, <2>2, <2>4, <2>5, HistoryKept
<1>8. ASSUME NEW a, AttrSet(a)
      PROVE  HistoryInv'
  <2> DEFINE e == Ev("attr_set", a)
  <2>1. e.type = "attr_set" /\ e.type \notin RunEndTypes /\ e.type \notin CreationTypes
    BY EvFields DEF RunEndTypes, CreationTypes
  <2>2. PutEvent(e) /\ RunIsLive
    BY <1>8 DEF AttrSet
  <2> HIDE DEF e
  <2>3. Fits(e, events)
    BY <2>1, <2>2, NoEndYet DEF Fits, RunIsLive, RunIsTerminal, TerminalRun
  <2>4. Marked(e, run', steps', waits', hooks', hookEvent')
    BY <1>1, <2>1 DEF Marked, EventIdsAgree
  <2> QED BY <1>0, <2>2, <2>3, <2>4, HistoryKept
<1> QED
  BY <1>3, <1>4, <1>5, <1>6, <1>7, <1>8 DEF RunStep

LEMMA HistoryStepStep ==
    ASSUME TypeOK, DenseLog, HistoryInv, NEW s \in Steps, StepStepOf(s)
    PROVE  HistoryInv'
<1> USE DEF hookVars
<1>0. [Next]_vars
  BY DEF Next, StepStep, StepStepOf
<1>1. /\ \A type \in StepTypes : /\ type \notin RunTypes \cup WaitTypes \cup HookTypes
                                 /\ type \notin RunEndTypes
                                 /\ type \notin {"run_created", "run_started", "wait_created",
                                                 "hook_created", "hook_disposed"}
      /\ \A type \in StepTypes \ {"step_created"} : type \notin BeforeEndTypes
      /\ "hook_received" \notin StepTypes
  BY DEF CreationTypes, BeforeEndTypes, RunEndTypes, RunTypes, StepTypes, WaitTypes, HookTypes,
         HookLifeTypes
<1>2. \A i \in DOMAIN events : Marked(events[i], run, steps, waits, hooks, hookEvent)
  BY DEF HistoryInv, AllMarked
<1>3. steps \in [Steps -> Step] /\ Ev("step_created", s).type = "step_created"
      /\ Ev("step_created", s).id = s
  BY EvFields DEF TypeOK
<1>4. ASSUME NEW type \in StepTypes, steps'[s].status # "none"
      PROVE  Marked(Ev(type, s), run', steps', waits', hooks', hookEvent')
  <2>1. Ev(type, s).type = type /\ Ev(type, s).id = s
    BY EvFields
  <2> QED BY <1>1, <1>4, <2>1 DEF Marked, EventIdsAgree
<1>5. ASSUME NEW type \in StepTypes \ {"step_created"}
      PROVE  \A evs : Fits(Ev(type, s), evs)
  <2>1. Ev(type, s).type = type
    BY EvFields
  <2> QED BY <1>1, <2>1, FitsAnywhere
<1>6. ASSUME RunIsLive, steps[s].status = "none"
      PROVE  Fits(Ev("step_created", s), events)
  <2>1. \A i \in DOMAIN events : events[i].type \notin RunEndTypes
    BY <1>6, NoEndYet DEF RunIsLive, RunIsTerminal, TerminalRun
  <2>2. \A i \in DOMAIN events : ~(events[i].type = "step_created" /\ events[i].id = s)
    BY <1>2, <1>6 DEF Marked
  <2> QED BY <1>3, <2>1, <2>2 DEF Fits
<1>7. {"step_created", "step_started", "step_completed", "step_failed", "step_retrying"}
        \subseteq StepTypes
  BY DEF StepTypes
<1>8. CASE StepCreated(s)
  <2>1. /\ PutEvent(Ev("step_created", s)) /\ RunIsLive /\ steps[s].status = "none"
        /\ steps'[s].status # "none"
    BY <1>3, <1>8 DEF StepCreated
  <2>2. Marked(Ev("step_created", s), run', steps', waits', hooks', hookEvent')
    BY <1>4, <1>7, <2>1
  <2> QED BY <1>0, <1>6, <2>1, <2>2, HistoryKept
<1>9. CASE StepStartedLazy(s)
  <2>1. /\ PutEvents(Ev("step_created", s), Ev("step_started", s)) /\ RunIsLive
        /\ steps[s].status = "none" /\ steps'[s].status # "none"
    BY <1>3, <1>9 DEF StepStartedLazy
  <2>2. /\ Marked(Ev("step_created", s), run', steps', waits', hooks', hookEvent')
        /\ Marked(Ev("step_started", s), run', steps', waits', hooks', hookEvent')
    BY <1>4, <1>7, <2>1
  <2>3. \A evs : Fits(Ev("step_started", s), evs)
    BY <1>5, <1>7
  <2> QED BY <1>0, <1>6, <2>1, <2>2, <2>3, HistoryKept
<1>10. ASSUME NEW type \in StepTypes \ {"step_created"}, PutEvent(Ev(type, s)),
              steps'[s].status # "none"
       PROVE  HistoryInv'
  <2>1. Fits(Ev(type, s), events)
    BY <1>5
  <2>2. Marked(Ev(type, s), run', steps', waits', hooks', hookEvent')
    BY <1>4, <1>10
  <2> QED BY <1>0, <1>10, <2>1, <2>2, HistoryKept
<1>11. CASE StepStarted(s)
  <2>1. PutEvent(Ev("step_started", s)) /\ steps'[s].status # "none"
    BY <1>3, <1>11 DEF StepStarted
  <2> QED BY <1>7, <1>10, <2>1
<1>12. CASE StepCompleted(s)
  <2>1. PutEvent(Ev("step_completed", s)) /\ steps'[s].status # "none"
    BY <1>3, <1>12 DEF StepCompleted, Step
  <2> QED BY <1>7, <1>10, <2>1
<1>13. CASE StepFailed(s)
  <2>1. PutEvent(Ev("step_failed", s)) /\ steps'[s].status # "none"
    BY <1>3, <1>13 DEF StepFailed, Step
  <2> QED BY <1>7, <1>10, <2>1
<1>14. ASSUME NEW t, StepRetrying(s, t)
       PROVE  HistoryInv'
  <2>1. PutEvent(Ev("step_retrying", s)) /\ steps'[s].status # "none"
    BY <1>3, <1>14 DEF StepRetrying, Step
  <2> QED BY <1>7, <1>10, <2>1
<1> QED
  BY <1>8, <1>9, <1>11, <1>12, <1>13, <1>14 DEF StepStepOf

LEMMA HistoryWaitStep ==
    ASSUME TypeOK, DenseLog, HistoryInv, NEW w \in Waits, WaitCreated(w) \/ WaitCompleted(w)
    PROVE  HistoryInv'
<1> USE DEF hookVars
<1>0. [Next]_vars
  BY DEF Next, WaitStep
<1>1. /\ \A type \in WaitTypes : /\ type \notin RunTypes \cup StepTypes \cup HookTypes
                                 /\ type \notin RunEndTypes
                                 /\ type \notin {"run_created", "run_started", "step_created",
                                                 "hook_created", "hook_disposed", "hook_received"}
      /\ "wait_completed" \notin BeforeEndTypes
      /\ "wait_created" \in WaitTypes /\ "wait_completed" \in WaitTypes
  BY DEF CreationTypes, BeforeEndTypes, RunEndTypes, RunTypes, StepTypes, WaitTypes, HookTypes,
         HookLifeTypes
<1>2. \A i \in DOMAIN events : Marked(events[i], run, steps, waits, hooks, hookEvent)
  BY DEF HistoryInv, AllMarked
<1>3. ASSUME NEW type \in WaitTypes, waits'[w] # "none"
      PROVE  Marked(Ev(type, w), run', steps', waits', hooks', hookEvent')
  <2>1. Ev(type, w).type = type /\ Ev(type, w).id = w
    BY EvFields
  <2> QED BY <1>1, <1>3, <2>1 DEF Marked, EventIdsAgree
<1>4. CASE WaitCreated(w)
  <2>1. /\ PutEvent(Ev("wait_created", w)) /\ RunIsLive /\ waits[w] = "none"
        /\ waits'[w] # "none"
    BY <1>4 DEF WaitCreated, TypeOK
  <2>2. Ev("wait_created", w).type = "wait_created" /\ Ev("wait_created", w).id = w
    BY EvFields
  <2>3. \A i \in DOMAIN events : events[i].type \notin RunEndTypes
    BY <2>1, NoEndYet DEF RunIsLive, RunIsTerminal, TerminalRun
  <2>4. \A i \in DOMAIN events : ~(events[i].type = "wait_created" /\ events[i].id = w)
    BY <1>2, <2>1 DEF Marked, RunIsLive, TerminalRun
  <2>5. Fits(Ev("wait_created", w), events)
    BY <2>2, <2>3, <2>4 DEF Fits
  <2>6. Marked(Ev("wait_created", w), run', steps', waits', hooks', hookEvent')
    BY <1>1, <1>3, <2>1
  <2> QED BY <1>0, <2>1, <2>5, <2>6, HistoryKept
<1>5. CASE WaitCompleted(w)
  <2>1. PutEvent(Ev("wait_completed", w)) /\ waits'[w] # "none"
    BY <1>5 DEF WaitCompleted, TypeOK
  <2>2. Ev("wait_completed", w).type = "wait_completed"
    BY EvFields
  <2>3. Fits(Ev("wait_completed", w), events)
    BY <1>1, <2>2, FitsAnywhere
  <2>4. Marked(Ev("wait_completed", w), run', steps', waits', hooks', hookEvent')
    BY <1>1, <1>3, <2>1
  <2> QED BY <1>0, <2>1, <2>3, <2>4, HistoryKept
<1> QED BY <1>4, <1>5

LEMMA HistoryHookStep ==
    ASSUME TypeOK, DenseLog, HistoryInv, LogExplainsState, ClaimInv, NEW h \in Hooks, HookStepOf(h)
    PROVE  HistoryInv'
<1> USE DEF entityVars, hookVars
<1>0. [Next]_vars
  BY DEF Next, HookStep, HookStepOf
<1>1. /\ \A type \in HookTypes : /\ type \notin RunTypes \cup StepTypes \cup WaitTypes
                                 /\ type \notin RunEndTypes
                                 /\ type \notin {"run_created", "run_started", "step_created",
                                                 "wait_created"}
      /\ {"hook_created", "hook_disposed", "hook_conflict", "hook_received"} \subseteq HookTypes
      /\ "hook_disposed" \notin BeforeEndTypes
      /\ {"hook_conflict", "hook_received"} \cap CreationTypes = {}
  BY DEF CreationTypes, BeforeEndTypes, RunEndTypes, RunTypes, StepTypes, WaitTypes, HookTypes,
         HookLifeTypes
<1>2. \A i \in DOMAIN events : Marked(events[i], run, steps, waits, hooks, hookEvent)
  BY DEF HistoryInv, AllMarked
<1>3. RunIsLive => \A i \in DOMAIN events : events[i].type \notin RunEndTypes
  BY NoEndYet DEF RunIsLive, RunIsTerminal, TerminalRun
<1>4. ASSUME NEW tok \in Tokens, NEW c, HookCreated(h, tok, c, c.from)
      PROVE  HistoryInv'
  <2> DEFINE e == [type |-> "hook_created", id |-> h, token |-> tok, ref |-> c.from]
  <2>1. e.type = "hook_created" /\ e.id = h
    OBVIOUS
  <2>2. PutEvent(e) /\ RunIsLive /\ hookEvent[h] = 0 /\ hookEvent'[h] = seq + 1 /\ seq + 1 # 0
    BY <1>4, BoundsAssumption DEF HookCreated, TypeOK
  <2> HIDE DEF e
  <2>3. \A i \in DOMAIN events : ~(events[i].type = "hook_created" /\ events[i].id = h)
    BY <1>2, <2>2 DEF Marked
  <2>4. Fits(e, events)
    BY <1>3, <2>1, <2>2, <2>3 DEF Fits
  <2>5. Marked(e, run', steps', waits', hooks', hookEvent')
    BY <1>1, <2>1, <2>2 DEF Marked, EventIdsAgree
  <2> QED BY <1>0, <2>2, <2>4, <2>5, HistoryKept
<1>5. ASSUME NEW e, PutEvent(e), e.type = "hook_disposed", e.id = h,
             hooks[h] # None, hooks'[h] = None, hookEvent'[h] = hookEvent[h]
      PROVE  HistoryInv'
  <2>1. Fits(e, events)
    BY <1>1, <1>5, FitsAnywhere
  <2>2. hookEvent[h] # 0
    BY <1>5 DEF ClaimInv, HookOrigin, DenseLog
  <2>3. Marked(e, run', steps', waits', hooks', hookEvent')
    BY <1>1, <1>5, <2>2 DEF Marked, EventIdsAgree
  <2> QED BY <1>0, <1>5, <2>1, <2>3, HistoryKept
<1>6. ASSUME NEW tok \in Tokens, NEW p, ForcedHookDisposal(h, tok, p)
      PROVE  HistoryInv'
  <2>1. hooks[h] # None /\ hooks'[h] = None /\ hookEvent'[h] = hookEvent[h]
    BY <1>6, IdsAssumption DEF ForcedHookDisposal, TypeOK
  <2>2. CASE RunIsLive
    <3> DEFINE e == [type |-> "hook_disposed", id |-> h, token |-> tok, ref |-> p]
    <3>1. PutEvent(e) /\ e.type = "hook_disposed" /\ e.id = h
      BY <1>6, <2>2 DEF ForcedHookDisposal
    <3> HIDE DEF e
    <3> QED BY <1>5, <2>1, <3>1
  <2>3. CASE ~RunIsLive
    <3>1. UNCHANGED <<events, seq>>
      BY <1>6, <2>3 DEF ForcedHookDisposal
    <3> QED BY <1>0, <3>1, HistoryKept
  <2> QED BY <2>2, <2>3
<1>7. CASE HookDisposed(h)
  <2>1. /\ PutEvent(Ev("hook_disposed", h)) /\ hooks[h] # None /\ hooks'[h] = None
        /\ hookEvent'[h] = hookEvent[h]
    BY <1>7 DEF HookDisposed, TypeOK
  <2> QED BY <1>5, <2>1, EvFields
<1>8. ASSUME NEW tok, NEW c, HookConflict(h, tok, c)
      PROVE  HistoryInv'
  <2> DEFINE e == [type |-> "hook_conflict", id |-> h, token |-> tok, ref |-> None]
  <2>1. PutEvent(e) /\ RunIsLive /\ e.type = "hook_conflict" /\ e.id = h
    BY <1>8 DEF HookConflict
  <2> HIDE DEF e
  <2>2. Fits(e, events)
    BY <1>1, <1>3, <2>1 DEF Fits
  <2>3. Marked(e, run', steps', waits', hooks', hookEvent')
    BY <1>1, <2>1 DEF Marked, EventIdsAgree
  <2> QED BY <1>0, <2>1, <2>2, <2>3, HistoryKept
<1>9. ASSUME NEW r, HookReceived(h, r)
      PROVE  HistoryInv'
  <2> DEFINE e == [type |-> "hook_received", id |-> h, token |-> None, ref |-> r]
  <2>1. PutEvent(e) /\ RunIsLive /\ e.type = "hook_received" /\ e.id = h /\ hooks[h] # None
    BY <1>9 DEF HookReceived
  <2> HIDE DEF e
  <2>2. SlotsIn(events, {"hook_disposed"}, h) = {}
    BY <1>2, <2>1 DEF SlotsIn, Marked
  <2>3. SlotsIn(events, {"hook_created"}, h) # {}
    BY <2>1 DEF LogExplainsState, HooksExplained, Slots, SlotsIn, IsLast
  <2>4. Fits(e, events)
    BY <1>1, <1>3, <2>1, <2>2, <2>3 DEF Fits
  <2>5. Marked(e, run', steps', waits', hooks', hookEvent')
    BY <1>1, <2>1 DEF Marked, EventIdsAgree
  <2> QED BY <1>0, <2>1, <2>4, <2>5, HistoryKept
<1> QED
  BY <1>4, <1>6, <1>7, <1>8, <1>9 DEF HookStepOf

(* The journal is in order: behind each event only events that may follow   *)
(* it, because the marks the guards read outlive disposal and cleanup.      *)
THEOREM JournalIsOrdered == Spec => []HistoryInv
<1>1. Init => HistoryInv
  BY DEF Init, HistoryInv, Ordered, CreatedOnceIn, OneEndIn, WindowIn, AllMarked
<1>2. TypeOK /\ DenseLog /\ LogExplainsState /\ ClaimInv /\ HistoryInv /\ [Next]_vars
        => HistoryInv'
  <2> SUFFICES ASSUME TypeOK, DenseLog, LogExplainsState, ClaimInv, HistoryInv, [Next]_vars
               PROVE  HistoryInv'
    OBVIOUS
  <2>1. CASE RunStep
    BY <2>1, HistoryRunStep
  <2>2. CASE StepStep
    BY <2>2, HistoryStepStep DEF StepStep, StepStepOf
  <2>3. CASE WaitStep
    BY <2>3, HistoryWaitStep DEF WaitStep
  <2>4. CASE ResolveStep \/ CleanupStep \/ Tick \/ UNCHANGED vars
    <3>1. UNCHANGED <<events, seq>>
      BY <2>4, SilentStep
    <3> QED BY <3>1, HistoryKept
  <2>5. CASE HookStep
    BY <2>4, <2>5, HookStepSplit, HistoryHookStep
  <2> QED BY <2>1, <2>2, <2>3, <2>4, <2>5 DEF Next
<1>3. Init => ClaimInv
  BY DEF Init, ClaimInv, DeniedClaimsHoldNoHook
<1>4. TypeOK /\ DenseLog /\ ClaimInv /\ [Next]_vars => ClaimInv'
  BY ClaimStep
<1> QED
  BY <1>1, <1>2, <1>3, <1>4, TypeCorrect, JournalIsDense, JournalExplainsState, PTL DEF Spec

(* No entity is created twice, not even after its disposal or after the     *)
(* cleanup deleted the record, and the run is started at most once.         *)
THEOREM EntitiesAreCreatedOnce == Spec => []CreatedOnce
<1>1. HistoryInv => CreatedOnce
  BY OrderedForms DEF HistoryInv
<1> QED BY <1>1, JournalIsOrdered, PTL

(* A run has one outcome, and nothing is created, started, set or delivered *)
(* behind it.                                                               *)
THEOREM RunHasOneEnd == Spec => []NothingAfterEnd
<1>1. HistoryInv => NothingAfterEnd
  BY OrderedForms DEF HistoryInv
<1> QED BY <1>1, JournalIsOrdered, PTL

(* Every delivery to a hook stands between the hook's creation and its      *)
(* disposal, whether its own run or a taker disposed it.                    *)
THEOREM DeliveriesLieInHookLife == Spec => []HookDeliveryWindow
<1>1. HistoryInv => HookDeliveryWindow
  BY OrderedForms DEF HistoryInv
<1> QED BY <1>1, JournalIsOrdered, PTL

=============================================================================
