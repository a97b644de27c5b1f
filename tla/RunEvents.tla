------------------------------ MODULE RunEvents ------------------------------
(***************************************************************************)
(* The event-application core of one workflow run: src/src/apply-event.ts, *)
(* together with the hook RPCs of WorkflowRunDO.ts that work on the same   *)
(* storage.  Every call is one storage transaction of the run's cell, so   *)
(* every action is atomic.  A call that is refused changes nothing: it is  *)
(* a stuttering step, and the guard of an action is the conjunction of     *)
(* everything the code checks before it writes.  So is an idempotent       *)
(* replay that the code answers without writing.                           *)
(*                                                                         *)
(* Names, inputs, outputs, errors and attributes are abstracted away; the  *)
(* journal keeps an event's type, the entity it is about (correlationId),  *)
(* and for hooks the token and the resume or takeover it refers to.        *)
(***************************************************************************)
EXTENDS Naturals, FiniteSets

CONSTANTS
    Steps, Hooks, Waits,   \* correlation IDs of the run's child entities
    Attrs,                 \* correlation IDs of attr_set by the workflow
    Resumes,               \* resume IDs of hook deliveries
    Tokens,                \* hook tokens
    ClaimIds,              \* reservations minted by the hook index shards
    Peers,                 \* hooks of other runs (victims, claimers, holders)
    None,                  \* "undefined"
    DeferTerminalCleanup,  \* EventStore.deferTerminalCleanup (TRUE in the cell)
    MaxEvents,             \* bound: journal length
    MaxTime                \* bound: clock

ASSUME BoundsAssumption == MaxEvents \in Nat /\ MaxTime \in Nat

ASSUME DeferAssumption == DeferTerminalCleanup \in BOOLEAN

(* The ID spaces are disjoint: each is generated with a prefix of its own. *)
ASSUME IdsAssumption ==
    /\ None \notin Steps \cup Hooks \cup Waits \cup Attrs \cup Resumes \cup Tokens \cup Peers
    /\ Steps \cap Hooks = {} /\ Steps \cap Waits = {} /\ Steps \cap Attrs = {}
    /\ Hooks \cap Waits = {} /\ Hooks \cap Attrs = {} /\ Waits \cap Attrs = {}
    /\ Resumes \cap Peers = {}

VARIABLES
    run,         \* status of the run entity, "none" when absent
    steps,       \* step -> status, attempt, retryAfter (0 when undefined)
    hooks,       \* hook -> token of the hook entity, None when absent
    hookEvent,   \* hook -> slot of its hook_created (HOOK_EVENT_MARKER), 0 absent
    released,    \* hook -> token in its release marker, None when absent
    forced,      \* hook -> claimer in its force-claim marker, None when absent
    waits,       \* wait -> "none", "waiting", "completed"
    attrMarks,   \* attr_set correlation IDs already recorded
    resumes,     \* resume ID -> hook and slot of the committed delivery
    fences,      \* cancelled hook reservations (hookClaimCancellationKey)
    events,      \* the journal: slot -> event
    seq,         \* EVENT_SEQUENCE_KEY
    now,         \* the cell's clock
    wonBy,       \* ghost: hook -> the reservation its creation carried
    denied       \* ghost: reservations this cell reported as not committed

store == <<run, steps, hooks, hookEvent, released, forced, waits, attrMarks,
           resumes, fences, events, seq>>
vars  == <<store, now, wonBy, denied>>

-----------------------------------------------------------------------------
(* Types *)

TerminalRun  == {"completed", "failed", "cancelled"}
RunStatus    == {"none", "pending", "running"} \cup TerminalRun
TerminalStep == {"completed", "failed"}
StepStatus   == {"none", "pending", "running"} \cup TerminalStep
WaitStatus   == {"none", "waiting", "completed"}

Step == [status : StepStatus, attempt : Nat, retryAfter : 0..MaxTime]

RunEndTypes   == {"run_completed", "run_failed", "run_cancelled"}
RunTypes      == {"run_created", "run_started"} \cup RunEndTypes
StepTypes     == {"step_created", "step_started", "step_completed",
                  "step_failed", "step_retrying"}
WaitTypes     == {"wait_created", "wait_completed"}
HookLifeTypes == {"hook_created", "hook_disposed"}
EventTypes    == RunTypes \cup StepTypes \cup WaitTypes \cup HookLifeTypes
                   \cup {"attr_set", "hook_conflict", "hook_received"}

EventId == Steps \cup Hooks \cup Waits \cup Attrs \cup {None}

Event == [type : EventTypes, id : EventId, token : Tokens \cup {None},
          ref : Resumes \cup Peers \cup {None}]

(* The hookClaimId of an event names the token shard's and the hook-ID     *)
(* shard's reservation ("pair") or only the latter ("id").  A reservation  *)
(* is minted for one hook and token, and, when it is a forced takeover,    *)
(* for one victim.                                                         *)
ClaimForm  == {"pair", "id"}
EventClaim == [form : ClaimForm, hook : Hooks, token : Tokens, n : ClaimIds,
               from : Peers \cup {None}]

BothForms(c) == {[c EXCEPT !.form = f] : f \in ClaimForm}

TypeOK ==
    /\ run \in RunStatus
    /\ steps \in [Steps -> Step]
    /\ hooks \in [Hooks -> Tokens \cup {None}]
    /\ hookEvent \in [Hooks -> Nat]
    /\ released \in [Hooks -> Tokens \cup {None}]
    /\ forced \in [Hooks -> Peers \cup {None}]
    /\ waits \in [Waits -> WaitStatus]
    /\ attrMarks \subseteq Attrs
    /\ resumes \in [Resumes -> [hook : Hooks \cup {None}, slot : Nat]]
    /\ fences \subseteq EventClaim
    /\ DOMAIN events \subseteq Nat
    /\ \A i \in DOMAIN events : events[i] \in Event
    /\ events = [i \in DOMAIN events |-> events[i]]
    /\ seq \in 0..MaxEvents
    /\ now \in 0..MaxTime
    /\ wonBy \in [Hooks -> EventClaim \cup {None}]
    /\ denied \subseteq EventClaim

Init ==
    /\ run = "none"
    /\ steps = [s \in Steps |-> [status |-> "none", attempt |-> 0, retryAfter |-> 0]]
    /\ hooks = [h \in Hooks |-> None]
    /\ hookEvent = [h \in Hooks |-> 0]
    /\ released = [h \in Hooks |-> None]
    /\ forced = [h \in Hooks |-> None]
    /\ waits = [w \in Waits |-> "none"]
    /\ attrMarks = {}
    /\ resumes = [r \in Resumes |-> [hook |-> None, slot |-> 0]]
    /\ fences = {}
    /\ events = [i \in {} |-> None]
    /\ seq = 0
    /\ now = 0
    /\ wonBy = [h \in Hooks |-> None]
    /\ denied = {}

-----------------------------------------------------------------------------
(* The journal.  nextEventId hands out slot after slot of the sequence read *)
(* at the start of the transaction; the sequence is stored at its end.      *)

Put(evs, slot, e) ==
    [i \in DOMAIN evs \cup {slot} |-> IF i = slot THEN e ELSE evs[i]]

PutEvent(e) ==
    /\ seq + 1 <= MaxEvents
    /\ events' = Put(events, seq + 1, e)
    /\ seq' = seq + 1

(* Mutant: the stored sequence counts the call, not its two events.         *)
PutEventsCountedOnce(e, f) ==
    /\ seq + 2 <= MaxEvents
    /\ events' = Put(Put(events, seq + 1, e), seq + 2, f)
    /\ seq' = seq + 1

PutEvents(e, f) ==
    /\ seq + 2 <= MaxEvents
    /\ events' = Put(Put(events, seq + 1, e), seq + 2, f)
    /\ seq' = seq + 2

Ev(type, id)   == [type |-> type, id |-> id, token |-> None, ref |-> None]
RunEv(type)    == Ev(type, None)

RunIsTerminal == run \in TerminalRun
RunIsLive     == run \in {"pending", "running"}

-----------------------------------------------------------------------------
(* Run events *)

hookVars   == <<hooks, hookEvent, released, forced, resumes, fences, wonBy, denied>>
entityVars == <<steps, waits, attrMarks>>

RunCreated ==
    /\ run = "none"
    /\ run' = "pending"
    /\ PutEvent(RunEv("run_created"))
    /\ UNCHANGED <<entityVars, hookVars, now>>

(* Resilient start: run_started carrying the run's input on an absent run   *)
(* creates the run and starts it in the same transaction.                   *)
RunBootstrapped ==
    /\ run = "none"
    /\ run' = "running"
    /\ PutEvents(RunEv("run_created"), RunEv("run_started"))
    /\ UNCHANGED <<entityVars, hookVars, now>>

RunStarted ==
    /\ run = "pending"
    /\ run' = "running"
    /\ PutEvent(RunEv("run_started"))
    /\ UNCHANGED <<entityVars, hookVars, now>>

EndStatus(type) ==
    CASE type = "run_completed" -> "completed"
      [] type = "run_failed"    -> "failed"
      [] type = "run_cancelled" -> "cancelled"

(* Mutant: the terminal-state guard is missing.                             *)
RunEndedAgain(type) ==
    /\ run # "none"
    /\ run' = EndStatus(type)
    /\ PutEvent(RunEv(type))
    /\ UNCHANGED <<entityVars, hookVars, now>>

RunEnded(type) ==
    /\ RunIsLive
    /\ run' = EndStatus(type)
    /\ PutEvent(RunEv(type))
    /\ IF DeferTerminalCleanup
         THEN UNCHANGED <<hooks, waits>>
         ELSE /\ hooks' = [h \in Hooks |-> None]
              /\ waits' = [w \in Waits |-> "none"]
    /\ UNCHANGED <<steps, hookEvent, released, forced, attrMarks, resumes, fences,
                   now, wonBy, denied>>

(* run_cancelled on a cancelled run journals the request and returns it.    *)
RunCancelledAgain ==
    /\ run = "cancelled"
    /\ PutEvent(RunEv("run_cancelled"))
    /\ UNCHANGED <<run, entityVars, hookVars, now>>

(* Only an attr_set written by the workflow itself carries a marker.        *)
AttrSet(a) ==
    /\ RunIsLive
    /\ a \notin attrMarks
    /\ attrMarks' = attrMarks \cup ({a} \ {None})
    /\ PutEvent(Ev("attr_set", a))
    /\ UNCHANGED <<run, steps, waits, hookVars, now>>

-----------------------------------------------------------------------------
(* Step events *)

(* Mutant: a replayed step_created resets a pending step.                   *)
StepCreatedReset(s) ==
    /\ RunIsLive
    /\ steps[s].status \in {"none", "pending"}
    /\ steps' = [steps EXCEPT ![s] = [status |-> "pending", attempt |-> 0, retryAfter |-> 0]]
    /\ PutEvent(Ev("step_created", s))
    /\ UNCHANGED <<run, waits, attrMarks, hookVars, now>>

StepCreated(s) ==
    /\ RunIsLive
    /\ steps[s].status = "none"
    /\ steps' = [steps EXCEPT ![s] = [status |-> "pending", attempt |-> 0, retryAfter |-> 0]]
    /\ PutEvent(Ev("step_created", s))
    /\ UNCHANGED <<run, waits, attrMarks, hookVars, now>>

(* Lazy start: step_started carrying the step's input creates it first.     *)
StepStartedLazy(s) ==
    /\ RunIsLive
    /\ steps[s].status = "none"
    /\ steps' = [steps EXCEPT ![s] = [status |-> "running", attempt |-> 1, retryAfter |-> 0]]
    /\ PutEvents(Ev("step_created", s), Ev("step_started", s))
    /\ UNCHANGED <<run, waits, attrMarks, hookVars, now>>

StepIsOpen(s) == steps[s].status \in {"pending", "running"}

(* On a terminal run only a running step may start again or fail.           *)
StepMayProgress(s) ==
    /\ StepIsOpen(s)
    /\ RunIsTerminal => steps[s].status = "running"

StepStarted(s) ==
    /\ StepMayProgress(s)
    /\ steps[s].retryAfter <= now
    /\ steps' = [steps EXCEPT ![s] = [status |-> "running", attempt |-> @.attempt + 1,
                                      retryAfter |-> 0]]
    /\ PutEvent(Ev("step_started", s))
    /\ UNCHANGED <<run, waits, attrMarks, hookVars, now>>

StepFailed(s) ==
    /\ StepMayProgress(s)
    /\ steps' = [steps EXCEPT ![s].status = "failed"]
    /\ PutEvent(Ev("step_failed", s))
    /\ UNCHANGED <<run, waits, attrMarks, hookVars, now>>

(* step_completed and step_retrying skip the read of the run entity, so     *)
(* neither the run's status nor "running" is checked for them.              *)
StepCompleted(s) ==
    /\ StepIsOpen(s)
    /\ steps' = [steps EXCEPT ![s].status = "completed"]
    /\ PutEvent(Ev("step_completed", s))
    /\ UNCHANGED <<run, waits, attrMarks, hookVars, now>>

StepRetrying(s, t) ==
    /\ StepIsOpen(s)
    /\ steps' = [steps EXCEPT ![s].status = "pending", ![s].retryAfter = t]
    /\ PutEvent(Ev("step_retrying", s))
    /\ UNCHANGED <<run, waits, attrMarks, hookVars, now>>

-----------------------------------------------------------------------------
(* Wait events.  wait_completed does not look at the run's status.          *)

(* Mutant: only the wait record, which cleanup deletes, refuses a creation. *)
WaitCreatedAfterEnd(w) ==
    /\ run # "none"
    /\ waits[w] = "none"
    /\ waits' = [waits EXCEPT ![w] = "waiting"]
    /\ PutEvent(Ev("wait_created", w))
    /\ UNCHANGED <<run, steps, attrMarks, hookVars, now>>

WaitCreated(w) ==
    /\ RunIsLive
    /\ waits[w] = "none"
    /\ waits' = [waits EXCEPT ![w] = "waiting"]
    /\ PutEvent(Ev("wait_created", w))
    /\ UNCHANGED <<run, steps, attrMarks, hookVars, now>>

WaitCompleted(w) ==
    /\ waits[w] = "waiting"
    /\ waits' = [waits EXCEPT ![w] = "completed"]
    /\ PutEvent(Ev("wait_completed", w))
    /\ UNCHANGED <<run, steps, attrMarks, hookVars, now>>

-----------------------------------------------------------------------------
(* Hook events *)

(* The reservation the caller holds for this hook, if it names one, has not *)
(* been cancelled here.                                                     *)
NotFenced(c) == c \notin fences

(* hook_created whose token is held by someone else journals the conflict.  *)
HookConflict(h, tok, c) ==
    /\ RunIsLive
    /\ NotFenced(c)
    /\ PutEvent([type |-> "hook_conflict", id |-> h, token |-> tok, ref |-> None])
    /\ UNCHANGED <<run, entityVars, hookVars, now>>

(* hook_created admitted by the token and hook-ID shards.  The marker is    *)
(* never deleted while the run can be written, so a hook is created once.   *)
HookCreated(h, tok, c, from) ==
    /\ RunIsLive
    /\ NotFenced(c)
    /\ hookEvent[h] = 0
    /\ hooks' = [hooks EXCEPT ![h] = tok]
    /\ hookEvent' = [hookEvent EXCEPT ![h] = seq + 1]
    /\ wonBy' = [wonBy EXCEPT ![h] = c]
    /\ PutEvent([type |-> "hook_created", id |-> h, token |-> tok, ref |-> from])
    /\ UNCHANGED <<run, entityVars, released, forced, resumes, fences, now, denied>>

(* Mutant: a committed resume ID is not recognised.                         *)
ResumeAlwaysNew(r) == TRUE

(* A delivery whose resume ID already committed is answered from the claim. *)
ResumeIsNew(r) == resumes[r].slot \notin DOMAIN events

HookReceived(h, r) ==
    /\ RunIsLive
    /\ hooks[h] # None
    /\ r # None => ResumeIsNew(r)
    /\ PutEvent([type |-> "hook_received", id |-> h, token |-> None, ref |-> r])
    /\ resumes' = IF r = None THEN resumes
                  ELSE [resumes EXCEPT ![r] = [hook |-> h, slot |-> seq + 1]]
    /\ UNCHANGED <<run, entityVars, hooks, hookEvent, released, forced, fences, now,
                   wonBy, denied>>

(* Mutant: the release marker is written but the hook entity stays.         *)
HookDisposedKept(h) ==
    /\ hooks[h] # None
    /\ released' = [released EXCEPT ![h] = hooks[h]]
    /\ PutEvent(Ev("hook_disposed", h))
    /\ UNCHANGED <<run, entityVars, hooks, hookEvent, forced, resumes, fences, now, wonBy,
                   denied>>

(* hook_disposed is accepted on a terminal run too, while the hook is there. *)
HookDisposed(h) ==
    /\ hooks[h] # None
    /\ hooks' = [hooks EXCEPT ![h] = None]
    /\ released' = [released EXCEPT ![h] = hooks[h]]
    /\ PutEvent(Ev("hook_disposed", h))
    /\ UNCHANGED <<run, entityVars, hookEvent, forced, resumes, fences, now, wonBy, denied>>

(* Mutant: only a running victim's journal records the takeover.            *)
ForcedHookDisposalRunningOnly(h, tok, claimer) ==
    /\ forced[h] = None
    /\ hooks[h] = tok
    /\ hooks' = [hooks EXCEPT ![h] = None]
    /\ released' = [released EXCEPT ![h] = tok]
    /\ forced' = [forced EXCEPT ![h] = claimer]
    /\ IF run = "running"
         THEN PutEvent([type |-> "hook_disposed", id |-> h, token |-> tok, ref |-> claimer])
         ELSE UNCHANGED <<events, seq>>
    /\ UNCHANGED <<run, entityVars, hookEvent, resumes, fences, now, wonBy, denied>>

(* The victim's half of a forced takeover: the hook leaves, the marker that *)
(* refuses later deliveries is written, and a live run's journal records it. *)
ForcedHookDisposal(h, tok, claimer) ==
    /\ forced[h] = None
    /\ hooks[h] = tok
    /\ hooks' = [hooks EXCEPT ![h] = None]
    /\ released' = [released EXCEPT ![h] = tok]
    /\ forced' = [forced EXCEPT ![h] = claimer]
    /\ IF RunIsLive
         THEN PutEvent([type |-> "hook_disposed", id |-> h, token |-> tok, ref |-> claimer])
         ELSE UNCHANGED <<events, seq>>
    /\ UNCHANGED <<run, entityVars, hookEvent, resumes, fences, now, wonBy, denied>>

(* Was the takeover described by reservation c journaled by this run?       *)
TakeoverJournaled(c) ==
    LET i == hookEvent[c.hook] IN
    /\ i \in DOMAIN events
    /\ events[i].type = "hook_created"
    /\ events[i].token = c.token
    /\ events[i].ref = c.from

(* The claimer's half: a takeover that is not in the journal is fenced.     *)
ResolveForcedHookClaim(c) ==
    /\ c.from # None
    /\ ~TakeoverJournaled(c)
    /\ fences' = fences \cup BothForms(c)
    /\ denied' = denied \cup BothForms(c)
    /\ UNCHANGED <<run, entityVars, hooks, hookEvent, released, forced, resumes, events,
                   seq, now, wonBy>>

(* A creator that lost the reply to hook_created asks whether it committed. *)
ResolveHookTokenClaim(c) ==
    /\ hooks[c.hook] # c.token
    /\ fences' = fences \cup {c}
    /\ denied' = denied \cup {c}
    /\ UNCHANGED <<run, entityVars, hooks, hookEvent, released, forced, resumes, events,
                   seq, now, wonBy>>

(* Mutant: only the form the shard knows is fenced.                         *)
ResolveExpiredHookClaimOneForm(c, withToken) ==
    /\ RunIsTerminal \/ hooks[c.hook] \notin (IF withToken THEN {c.token} ELSE Tokens)
    /\ fences' = IF RunIsTerminal THEN fences ELSE fences \cup {c}
    /\ denied' = denied \cup BothForms(c)
    /\ UNCHANGED <<run, entityVars, hooks, hookEvent, released, forced, resumes, events,
                   seq, now, wonBy>>

(* A shard asks about a reservation whose lease ran out.  The hook-ID shard *)
(* does not name a token.  A terminal run answers without fencing.          *)
ResolveExpiredHookClaim(c, withToken) ==
    /\ RunIsTerminal \/ hooks[c.hook] \notin (IF withToken THEN {c.token} ELSE Tokens)
    /\ fences' = IF RunIsTerminal THEN fences ELSE fences \cup BothForms(c)
    /\ denied' = denied \cup BothForms(c)
    /\ UNCHANGED <<run, entityVars, hooks, hookEvent, released, forced, resumes, events,
                   seq, now, wonBy>>

-----------------------------------------------------------------------------
(* Deferred cleanup of a terminal run: its alarm deletes the remaining hook *)
(* and wait entities page by page; their markers stay.                      *)

DeleteTerminalHooks(page) ==
    /\ DeferTerminalCleanup /\ RunIsTerminal
    /\ hooks' = [h \in Hooks |-> IF h \in page THEN None ELSE hooks[h]]
    /\ UNCHANGED <<run, entityVars, hookEvent, released, forced, resumes, fences, events,
                   seq, now, wonBy, denied>>

DeleteTerminalWaits(page) ==
    /\ DeferTerminalCleanup /\ RunIsTerminal
    /\ waits' = [w \in Waits |-> IF w \in page THEN "none" ELSE waits[w]]
    /\ UNCHANGED <<run, steps, attrMarks, hookVars, events, seq, now>>

Tick ==
    /\ now < MaxTime
    /\ now' = now + 1
    /\ UNCHANGED <<store, wonBy, denied>>

-----------------------------------------------------------------------------

RunStep ==
    \/ RunCreated \/ RunBootstrapped \/ RunStarted
    \/ \E type \in RunEndTypes : RunEnded(type)
    \/ RunCancelledAgain
    \/ \E a \in Attrs \cup {None} : AttrSet(a)

StepStep ==
    \E s \in Steps :
        \/ StepCreated(s) \/ StepStartedLazy(s) \/ StepStarted(s)
        \/ StepCompleted(s) \/ StepFailed(s)
        \/ \E t \in {0} \cup now..MaxTime : StepRetrying(s, t)

WaitStep == \E w \in Waits : WaitCreated(w) \/ WaitCompleted(w)

(* A caller names the takeover victim its reservation was minted for.       *)
ClaimsOf(h, tok) == {c \in EventClaim : c.hook = h /\ c.token = tok}

HookStep ==
    \/ \E h \in Hooks, tok \in Tokens :
          \/ \E c \in ClaimsOf(h, tok) : HookConflict(h, tok, c)
          \/ \E c \in ClaimsOf(h, tok) : HookCreated(h, tok, c, c.from)
          \/ \E p \in Peers : ForcedHookDisposal(h, tok, p)
    \/ \E h \in Hooks, r \in Resumes \cup {None} : HookReceived(h, r)
    \/ \E h \in Hooks : HookDisposed(h)
    \/ \E c \in EventClaim :
          \/ ResolveForcedHookClaim(c)
          \/ ResolveHookTokenClaim(c)
          \/ \E withToken \in BOOLEAN : ResolveExpiredHookClaim(c, withToken)

CleanupStep ==
    \/ \E page \in SUBSET Hooks : DeleteTerminalHooks(page)
    \/ \E page \in SUBSET Waits : DeleteTerminalWaits(page)

Next == RunStep \/ StepStep \/ WaitStep \/ HookStep \/ CleanupStep \/ Tick

Spec == Init /\ [][Next]_vars

-----------------------------------------------------------------------------
(* Properties *)

Slots(types, id) == {i \in DOMAIN events : events[i].type \in types /\ events[i].id = id}

IsLast(i, S) == i \in S /\ \A j \in S : j <= i

(* Every event has the next free slot of the sequence and none is skipped:  *)
(* finalizeEventPage reads "the slots between" two positions and relies on  *)
(* it, whatever mixture of one-event and two-event calls, takeovers by      *)
(* other runs and replays produced the journal.                             *)
DenseLog == DOMAIN events = 1..seq

(* A journaled event is never overwritten, moved or removed by a later call. *)
AppendOnly == [][\A i \in DOMAIN events : i \in DOMAIN events' /\ events'[i] = events[i]]_vars

(* The status an entity has after an event about it.                        *)
StatusAfter(type) ==
    CASE type = "run_created"    -> "pending"
      [] type = "run_started"    -> "running"
      [] type = "run_completed"  -> "completed"
      [] type = "run_failed"     -> "failed"
      [] type = "run_cancelled"  -> "cancelled"
      [] type = "step_created"   -> "pending"
      [] type = "step_started"   -> "running"
      [] type = "step_completed" -> "completed"
      [] type = "step_failed"    -> "failed"
      [] type = "step_retrying"  -> "pending"
      [] type = "wait_created"   -> "waiting"
      [] type = "wait_completed" -> "completed"
      [] type = "hook_created"   -> "live"
      [] type = "hook_disposed"  -> "gone"

Explains(types, id, status) ==
    IF Slots(types, id) = {} THEN status = "none"
    ELSE \E i \in DOMAIN events :
            IsLast(i, Slots(types, id)) /\ StatusAfter(events[i].type) = status

RunExplained  == Explains(RunTypes, None, run)
StepsExplained == \A s \in Steps : Explains(StepTypes, s, steps[s].status)
WaitsExplained ==
    \A w \in Waits : (waits[w] # "none" \/ ~RunIsTerminal) => Explains(WaitTypes, w, waits[w])
HooksExplained ==
    \A h \in Hooks :
        LET S == Slots(HookLifeTypes, h) IN
        /\ hooks[h] # None =>
              \E i \in DOMAIN events :
                 /\ IsLast(i, S)
                 /\ events[i].type = "hook_created" /\ events[i].token = hooks[h]
        /\ hooks[h] = None /\ ~RunIsTerminal =>
              \A i \in S : IsLast(i, S) => events[i].type = "hook_disposed"

(* The journal explains the entities: whoever replays a run from its events *)
(* finds the status every reader of the entity finds.  Only the entities    *)
(* that terminal cleanup removed are not in the journal.                    *)
LogExplainsState == RunExplained /\ StepsExplained /\ WaitsExplained /\ HooksExplained

CreationTypes == {"run_created", "run_started", "step_created", "wait_created", "hook_created"}

(* No entity is created twice, even after its disposal or after terminal    *)
(* cleanup removed the record that would refuse the second creation, and    *)
(* the run is started at most once.                                         *)
CreatedOnce ==
    \A i, j \in DOMAIN events :
        /\ events[i].type \in CreationTypes
        /\ events[j].type = events[i].type /\ events[j].id = events[i].id
        => i = j

(* A run has one outcome: two end-of-run events are the same cancellation,  *)
(* and nothing is created, started or delivered to a hook behind the first. *)
NothingAfterEnd ==
    \A i, j \in DOMAIN events :
        i < j /\ events[i].type \in RunEndTypes =>
            /\ events[j].type \notin CreationTypes \cup {"hook_received", "hook_conflict", "attr_set"}
            /\ events[j].type \in RunEndTypes =>
                  events[i].type = "run_cancelled" /\ events[j].type = "run_cancelled"

(* A delivery to a hook lies between the hook's creation and its disposal,  *)
(* whether the run disposed it or another run took it over.                 *)
HookDeliveryWindow ==
    \A i \in DOMAIN events :
        events[i].type = "hook_received" =>
            /\ \E k \in Slots({"hook_created"}, events[i].id) : k < i
            /\ \A k \in Slots({"hook_disposed"}, events[i].id) : i < k

(* A resume ID is delivered at most once, and its claim always leads a      *)
(* retrying caller to that one event, for the same hook.                    *)
ResumeAtMostOnce ==
    \A r \in Resumes :
        LET S == {i \in DOMAIN events : events[i].type = "hook_received" /\ events[i].ref = r} IN
        \A i \in S : resumes[r] = [hook |-> events[i].id, slot |-> i]

(* A reservation the cell reported as not committed never owns a hook of a  *)
(* live run: its release by the shards cannot orphan a hook, however late   *)
(* the hook_created that carries it arrives.                                *)
DeniedClaimsHoldNoHook ==
    \A h \in Hooks : hooks[h] # None /\ wonBy[h] \in denied => RunIsTerminal

(* Why it holds.  While the run is live every denial left its fence, and    *)
(* the creation marker of a hook that is there leads to the hook_created    *)
(* that carried the reservation, so none of the resolvers can deny it.      *)
HookOrigin(h) ==
    LET c == wonBy[h]
        i == hookEvent[h]
    IN  /\ c \in EventClaim /\ c.hook = h /\ c.token = hooks[h]
        /\ i \in DOMAIN events
        /\ events[i].type = "hook_created"
        /\ events[i].token = hooks[h] /\ events[i].ref = c.from

ClaimInv ==
    /\ ~RunIsTerminal => denied \subseteq fences
    /\ \A h \in Hooks : hooks[h] # None => HookOrigin(h)
    /\ DeniedClaimsHoldNoHook

(* A finished run and a finished step never change status again.            *)
TerminalIsFinal ==
    [][/\ RunIsTerminal => run' = run
       /\ \A s \in Steps : steps[s].status \in TerminalStep => steps'[s] = steps[s]]_vars

=============================================================================
