---------------------------- MODULE RunLifecycle ----------------------------
(***************************************************************************)
(* The lifecycle of a run's cell, WorkflowRunDO.ts: the bookkeeping that   *)
(* applyEvent adds to the event core (RunEvents), the retention cleanup    *)
(* record, the terminal cleanup record, the single durable alarm, and the  *)
(* cleanup pages that read the cell, call other cells or object storage,   *)
(* and come back with a generation-checked transaction.                    *)
(*                                                                         *)
(* The journal, steps and payloads are abstracted to the facts the cleanup *)
(* can see: whether the run exists and ended, its hook and wait entities,  *)
(* the hook-index references ("retention:hook:" markers) and the queue     *)
(* payload registrations.  Time is abstracted to whether the deadline of   *)
(* the cleanup record is ahead or past; an alarm is set for "soon" (now+1  *)
(* or a retry delay) or for that deadline.                                 *)
(***************************************************************************)
EXTENDS Naturals, FiniteSets

CONSTANTS
    Hooks, Waits, Payloads,  \* hook IDs, wait IDs, queue message IDs
    Streams,                 \* bound: pages of stream data the run has
    PageSize,                \* entries of one cleanup page
    PayloadBatch,            \* keys of one payload deletion
    Passes,                  \* bound: cleanup pages in flight at once
    MaxCalls,                \* bound: retention RPCs and replayed events
    MaxFaults                \* bound: failed external calls and lost passes

ASSUME SizesAssumption ==
    /\ PageSize \in Nat \ {0} /\ PayloadBatch \in Nat \ {0} /\ Streams \in Nat
    /\ MaxCalls \in Nat /\ MaxFaults \in Nat
    /\ IsFiniteSet(Hooks) /\ IsFiniteSet(Waits) /\ IsFiniteSet(Payloads)
    /\ Hooks \cap Payloads = {}

VARIABLES
    run,        \* "none", "live", "terminal", "deleted"
    made,       \* hooks whose creation was journaled
    hooks,      \* hook entities
    disposed,   \* hooks with a "hookreleased:" record
    waits,      \* wait entities
    markers,    \* hook-index references
    regs,       \* queue payload registrations
    cleanup,    \* CLEANUP_RECORD_KEY; phase "none" when absent
    terminal,   \* TERMINAL_CLEANUP_KEY; phase "none" when absent
    tomb,       \* TOMBSTONE_KEY is present
    alarm,      \* "none", "soon", "due"
    passes,     \* pass -> the page it read, "idle" when there is none
    inline,     \* pages that enforceRetention and cleanupNow calls still run
    purged,     \* hooks and payloads released in the other cells and stores
    catalog,    \* the run is still in the run catalog
    streams,    \* stream pages left
    counted,    \* cleanup.deletedQueuePayloads
    drained,    \* ghost: payloads removed by a queues page
    known,      \* ghost: payloads ever registered
    calls, faults

cell   == <<run, made, hooks, disposed, waits, markers, regs, cleanup, terminal, tomb, counted>>
remote == <<purged, catalog, streams>>
vars   == <<cell, alarm, passes, inline, remote, drained, known, calls, faults>>

-----------------------------------------------------------------------------

CleanupPhases  == {"none", "retained", "index", "streams", "queues", "payload"}
TerminalPhases == {"none", "hooks", "markers", "waits"}

CleanupRecord         == [phase : CleanupPhases, due : {"ahead", "past"}, gen : Nat]
TerminalCleanupRecord == [phase : TerminalPhases, gen : Nat]

NoCleanup  == [phase |-> "none", due |-> "ahead", gen |-> 0]
NoTerminal == [phase |-> "none", gen |-> 0]

(* A pass keeps what it read: the record's phase and generation, a page of  *)
(* entities, a page of references, whether more are left, and whether its   *)
(* calls to other cells are done.                                           *)
PassKinds == {"idle", "small", "hooks", "markers", "index", "streams", "queues"}

Pass == [kind : PassKinds, alarmed : BOOLEAN, gen : Nat, page : SUBSET (Hooks \cup Payloads),
         refs : SUBSET Hooks, more : BOOLEAN, called : BOOLEAN]

NoPass == [kind |-> "idle", alarmed |-> FALSE, gen |-> 0, page |-> {}, refs |-> {},
           more |-> FALSE, called |-> FALSE]

TypeOK ==
    /\ run \in {"none", "live", "terminal", "deleted"}
    /\ made \subseteq Hooks /\ hooks \subseteq Hooks
    /\ disposed \subseteq Hooks /\ markers \subseteq Hooks
    /\ waits \subseteq Waits /\ regs \subseteq Payloads
    /\ cleanup \in CleanupRecord /\ terminal \in TerminalCleanupRecord
    /\ tomb \in BOOLEAN /\ catalog \in BOOLEAN
    /\ alarm \in {"none", "soon", "due"}
    /\ passes \in [Passes -> Pass]
    /\ inline \in [{"sweep", "manual"} -> Nat]
    /\ purged \subseteq Hooks \cup Payloads
    /\ streams \in 0..Streams
    /\ counted \in Nat
    /\ drained \subseteq Hooks \cup Payloads /\ known \subseteq Payloads
    /\ calls \in 0..MaxCalls /\ faults \in 0..MaxFaults

Init ==
    /\ run = "none" /\ made = {} /\ hooks = {} /\ disposed = {}
    /\ waits = {} /\ markers = {} /\ regs = {}
    /\ cleanup = NoCleanup /\ terminal = NoTerminal /\ tomb = FALSE /\ counted = 0
    /\ alarm = "none"
    /\ passes = [p \in Passes |-> NoPass]
    /\ inline = [k \in {"sweep", "manual"} |-> 0]
    /\ purged = {} /\ catalog = TRUE /\ streams = Streams
    /\ drained = {} /\ known = {}
    /\ calls = 0 /\ faults = 0

-----------------------------------------------------------------------------
(* The expiry fence every call of the cell checks first (tombstoneFrom).    *)

Scheduled == cleanup.phase # "none"

Expired == tomb \/ (Scheduled /\ ~(cleanup.phase = "retained" /\ cleanup.due = "ahead"))

-----------------------------------------------------------------------------
(* applyEvent *)

untouched == <<passes, inline, remote, drained, known, calls, faults>>

CreateRun ==
    /\ ~Expired /\ run = "none"
    /\ run' = "live"
    /\ UNCHANGED <<made, hooks, disposed, waits, markers, regs, cleanup, terminal, tomb, counted,
                   alarm, untouched>>

CreateHook(h) ==
    /\ ~Expired /\ run = "live" /\ h \notin made
    /\ made' = made \cup {h}
    /\ hooks' = hooks \cup {h}
    /\ markers' = markers \cup {h}
    /\ UNCHANGED <<run, disposed, waits, regs, cleanup, terminal, tomb, counted, alarm, untouched>>

(* Disposal, also on a terminal run.                                        *)
DisposeHook(h) ==
    /\ ~Expired /\ h \in hooks
    /\ hooks' = hooks \ {h}
    /\ disposed' = disposed \cup {h}
    /\ markers' = markers \cup {h}
    /\ UNCHANGED <<run, made, waits, regs, cleanup, terminal, tomb, counted, alarm, untouched>>

(* The replay of a disposal only writes the reference again.                *)
ReplayDisposal(h) ==
    /\ ~Expired /\ h \in disposed /\ calls < MaxCalls
    /\ markers' = markers \cup {h}
    /\ calls' = calls + 1
    /\ UNCHANGED <<run, made, hooks, disposed, waits, regs, cleanup, terminal, tomb, counted,
                   alarm, passes, inline, remote, drained, known, faults>>

(* forceDisposeHook: another run takes the token.  The reference written at *)
(* creation stays; the hook-ID release beside it may be lost.               *)
ForceDisposeHook(h) ==
    /\ ~Expired /\ h \in hooks
    /\ hooks' = hooks \ {h}
    /\ disposed' = disposed \cup {h}
    /\ UNCHANGED <<run, made, waits, markers, regs, cleanup, terminal, tomb, counted, alarm,
                   untouched>>

CreateWait(w) ==
    /\ ~Expired /\ run = "live" /\ w \notin waits
    /\ waits' = waits \cup {w}
    /\ UNCHANGED <<run, made, hooks, disposed, markers, regs, cleanup, terminal, tomb, counted, alarm,
                   untouched>>

(* What applyEvent records when the run it returns is terminal: a cleanup   *)
(* record if retention is on and there is none, a terminal cleanup record   *)
(* if there is none, and the alarm.                                         *)
TerminalBookkeeping(retain, due) ==
    /\ cleanup' = IF retain /\ ~Scheduled
                    THEN [phase |-> "retained", due |-> due, gen |-> 0] ELSE cleanup
    /\ terminal' = IF terminal.phase = "none" THEN [phase |-> "hooks", gen |-> 0] ELSE terminal
    /\ alarm' = "soon"

EndRun(retain) ==
    /\ ~Expired /\ run = "live"
    /\ run' = "terminal"
    /\ TerminalBookkeeping(retain, "ahead")
    /\ UNCHANGED <<made, hooks, disposed, waits, markers, regs, tomb, counted, untouched>>

(* run_cancelled on a cancelled run and run_created on any terminal run     *)
(* return the run again.                                                    *)
ReplayEnd(retain, due) ==
    /\ ~Expired /\ run = "terminal" /\ calls < MaxCalls
    /\ TerminalBookkeeping(retain, due)
    /\ calls' = calls + 1
    /\ UNCHANGED <<run, made, hooks, disposed, waits, markers, regs, tomb, counted, passes, inline,
                   remote, drained, known, faults>>

-----------------------------------------------------------------------------
(* Queue payload registrations.  A registration may precede the run.        *)

RegisterQueuePayload(m) ==
    /\ ~Expired /\ m \notin known
    /\ regs' = regs \cup {m}
    /\ known' = known \cup {m}
    /\ UNCHANGED <<run, made, hooks, disposed, waits, markers, cleanup, terminal, tomb, counted, alarm,
                   passes, inline, remote, drained, calls, faults>>

(* The router deletes the stored body before it unregisters the message.    *)
UnregisterQueuePayload(m) ==
    /\ m \in regs
    /\ regs' = regs \ {m}
    /\ purged' = purged \cup {m}
    /\ UNCHANGED <<run, made, hooks, disposed, waits, markers, cleanup, terminal, tomb, counted, alarm,
                   passes, inline, catalog, streams, drained, known, calls, faults>>

-----------------------------------------------------------------------------
(* Retention RPCs *)

ScheduleCleanup(due) ==
    /\ calls < MaxCalls
    /\ ~Scheduled /\ ~tomb /\ run = "terminal"
    /\ cleanup' = [phase |-> "retained", due |-> due, gen |-> 0]
    /\ alarm' = IF terminal.phase # "none" \/ due = "past" THEN "soon" ELSE "due"
    /\ calls' = calls + 1
    /\ UNCHANGED <<run, made, hooks, disposed, waits, markers, regs, terminal, tomb, counted, passes,
                   inline, remote, drained, known, faults>>

(* Mutant: the new deadline replaces one that has passed.                   *)
EarlierDeadlineUnchecked(due) == [cleanup EXCEPT !.due = due, !.gen = @ + 1]

(* Maximum age, applied by the sweep to a run that is old enough, live or   *)
(* not.  The sweep's scheduled time may be ahead of the cell's clock.  A    *)
(* record that is still retained may only get an earlier deadline.  Up to   *)
(* two pages run before the call returns.                                   *)
EarlierDeadline(due) ==
    [cleanup EXCEPT !.due = IF @ = "past" THEN @ ELSE due, !.gen = @ + 1]

EnforceRetention(due) ==
    /\ calls < MaxCalls
    /\ ~tomb /\ run \in {"live", "terminal"}
    /\ \/ ~Scheduled /\ cleanup' = [phase |-> "retained", due |-> due, gen |-> 0]
       \/ cleanup.phase = "retained" /\ cleanup' = EarlierDeadline(due)
       \/ Scheduled /\ cleanup' = cleanup
    /\ alarm' = "soon"
    /\ inline' = [inline EXCEPT !["sweep"] = @ + 2]
    /\ calls' = calls + 1
    /\ UNCHANGED <<run, made, hooks, disposed, waits, markers, regs, terminal, tomb, counted,
                   passes, remote, drained, known, faults>>

(* Mutant: cleanupNow starts the phases again.                              *)
CleanupNowRestarts ==
    /\ calls < MaxCalls
    /\ Scheduled
    /\ cleanup' = [cleanup EXCEPT !.phase = "retained", !.due = "past", !.gen = @ + 1]
    /\ alarm' = "soon"
    /\ inline' = [inline EXCEPT !["manual"] = @ + 1]
    /\ calls' = calls + 1
    /\ UNCHANGED <<run, made, hooks, disposed, waits, markers, regs, terminal, tomb, counted,
                   passes, remote, drained, known, faults>>

(* cleanupNow: schedule if there is no record, pull the deadline to now,    *)
(* run one page.  A scheduleCleanup by another caller between its two       *)
(* transactions is ScheduleCleanup before this action.                      *)
CleanupNow ==
    /\ calls < MaxCalls
    /\ \/ /\ Scheduled
          /\ cleanup' = [cleanup EXCEPT !.due = "past", !.gen = @ + 1]
          /\ alarm' = "soon"
       \/ /\ ~Scheduled /\ ~tomb /\ run = "terminal"
          /\ cleanup' = [phase |-> "retained", due |-> "past", gen |-> 1]
          /\ alarm' = "soon"
       \/ /\ ~Scheduled /\ (tomb \/ run # "terminal")
          /\ UNCHANGED <<cleanup, alarm>>
    /\ inline' = [inline EXCEPT !["manual"] = @ + 1]
    /\ calls' = calls + 1
    /\ UNCHANGED <<run, made, hooks, disposed, waits, markers, regs, terminal, tomb, counted,
                   passes, remote, drained, known, faults>>

AlarmForRetention == IF cleanup.due = "past" THEN "soon" ELSE "due"

RearmCleanup ==
    /\ calls < MaxCalls
    /\ alarm' = IF terminal.phase # "none" THEN "soon"
                ELSE IF ~Scheduled THEN "none"
                ELSE AlarmForRetention
    /\ calls' = calls + 1
    /\ UNCHANGED <<cell, passes, inline, remote, drained, known, faults>>

-----------------------------------------------------------------------------
(* executeScheduledCleanupPage: what one page does.  Due retention goes     *)
(* first, then terminal cleanup.  The pages that stay inside the cell are   *)
(* one transaction; the others read here and continue as a pass.            *)

Pages(S) == {P \in SUBSET S : Cardinality(P) = IF Cardinality(S) <= PageSize
                                                 THEN Cardinality(S) ELSE PageSize}

More(S) == Cardinality(S) > PageSize

StartPass(p, alarmed, kind, gen, page, refs, more) ==
    passes' = [passes EXCEPT ![p] = [kind |-> kind, alarmed |-> alarmed, gen |-> gen,
                                     page |-> page, refs |-> refs, more |-> more,
                                     called |-> FALSE]]

pageVars == <<run, made, hooks, disposed, waits, markers, regs, cleanup, terminal, tomb, counted,
              remote, drained, known>>

(* retained -> index *)
LeaveRetained ==
    /\ cleanup.phase = "retained" /\ cleanup.due = "past"
    /\ cleanup' = [cleanup EXCEPT !.phase = "index", !.gen = @ + 1]
    /\ alarm' = "soon"
    /\ UNCHANGED <<run, made, hooks, disposed, waits, markers, regs, terminal, tomb, counted, passes,
                   remote, drained, known>>

StartRetentionPass(p, alarmed, rest) ==
    /\ \/ /\ cleanup.phase = "index"
          /\ \E refs \in Pages(markers) :
                StartPass(p, alarmed, "index", cleanup.gen, {}, refs, More(markers))
       \/ /\ cleanup.phase = "streams"
          /\ StartPass(p, alarmed, "streams", cleanup.gen, {}, {}, TRUE)
       \/ /\ cleanup.phase = "queues"
          /\ \E page \in Pages(regs) :
                StartPass(p, alarmed, "queues", cleanup.gen, page, {}, More(regs))
    /\ alarm' = rest
    /\ UNCHANGED pageVars

(* The keys a payload batch may delete: every key of the cell but the       *)
(* cleanup record and the tombstone.                                        *)
Keys == ({"hook"} \X hooks) \cup ({"released"} \X disposed) \cup ({"ref"} \X markers)
          \cup ({"wait"} \X waits) \cup ({"payload"} \X regs)
          \cup (IF terminal.phase = "none" THEN {} ELSE {<<"terminal", "terminal">>})
          \cup (IF run = "deleted" THEN {} ELSE {<<"run", "run">>})

Kept(tag, S, batch) == {x \in S : <<tag, x>> \notin batch}

DeletePayloadBatch ==
    /\ cleanup.phase = "payload"
    /\ tomb' = TRUE
    /\ \E batch \in SUBSET Keys :
          /\ Cardinality(batch) = IF Cardinality(Keys) <= PayloadBatch
                                    THEN Cardinality(Keys) ELSE PayloadBatch
          /\ hooks' = Kept("hook", hooks, batch)
          /\ disposed' = Kept("released", disposed, batch)
          /\ markers' = Kept("ref", markers, batch)
          /\ waits' = Kept("wait", waits, batch)
          /\ regs' = Kept("payload", regs, batch)
          /\ terminal' = IF <<"terminal", "terminal">> \in batch THEN NoTerminal ELSE terminal
          /\ run' = IF <<"run", "run">> \in batch THEN "deleted" ELSE run
          /\ IF batch # {}
               THEN /\ cleanup' = [cleanup EXCEPT !.gen = @ + 1]
                    /\ alarm' = "soon"
               ELSE /\ cleanup' = NoCleanup
                    /\ alarm' = "none"
    /\ UNCHANGED <<made, counted, passes, remote, drained, known>>

StartTerminalPass(p, alarmed, rest) ==
    /\ \/ /\ terminal.phase = "hooks" /\ ~More(hooks) /\ ~More(markers)
          /\ StartPass(p, alarmed, "small", terminal.gen, hooks, markers, FALSE)
       \/ /\ terminal.phase = "hooks" /\ (More(hooks) \/ More(markers))
          /\ \E page \in Pages(hooks) :
                StartPass(p, alarmed, "hooks", terminal.gen, page, {}, More(hooks))
       \/ /\ terminal.phase = "markers"
          /\ \E refs \in Pages(markers) :
                StartPass(p, alarmed, "markers", terminal.gen, {}, refs, More(markers))
    /\ alarm' = rest
    /\ UNCHANGED pageVars

(* Mutant: the alarm is deleted although retention still waits for it.      *)
FinishTerminalDisarms ==
    /\ terminal' = NoTerminal
    /\ alarm' = "none"

(* The end of terminal cleanup hands the alarm back to retention.           *)
FinishTerminal ==
    /\ terminal' = NoTerminal
    /\ alarm' = IF Scheduled THEN AlarmForRetention ELSE "none"

DeleteTerminalWaitPage ==
    /\ terminal.phase = "waits"
    /\ \E page \in Pages(waits) : waits' = waits \ page
    /\ IF More(waits)
         THEN /\ terminal' = [terminal EXCEPT !.gen = @ + 1]
              /\ alarm' = "soon"
         ELSE FinishTerminal
    /\ UNCHANGED <<run, made, hooks, disposed, markers, regs, cleanup, tomb, counted, passes, remote,
                   drained, known>>

(* Nothing is due: the alarm is deleted, or set for the deadline.           *)
NothingDue ==
    /\ alarm' = IF Scheduled THEN "due" ELSE "none"
    /\ UNCHANGED <<passes, pageVars>>

DueRetention == Scheduled /\ cleanup.due = "past"

ExecutePage(p, alarmed, rest) ==
    \/ DueRetention /\ (LeaveRetained \/ DeletePayloadBatch \/ StartRetentionPass(p, alarmed, rest))
    \/ /\ ~DueRetention /\ terminal.phase # "none"
       /\ DeleteTerminalWaitPage \/ StartTerminalPass(p, alarmed, rest)
    \/ ~DueRetention /\ terminal.phase = "none" /\ NothingDue

Idle(p) == passes[p].kind = "idle"

(* celld clears an alarm when it calls the handler.                         *)
FireAlarm(p) ==
    /\ Idle(p)
    /\ alarm = "soon" \/ (alarm = "due" /\ cleanup.due = "past")
    /\ ExecutePage(p, TRUE, "none")
    /\ UNCHANGED <<inline, calls, faults>>

(* A page run by enforceRetention, which stops past "index", or cleanupNow. *)
InlinePage(p, caller) ==
    /\ Idle(p)
    /\ inline[caller] > 0
    /\ caller = "sweep" => cleanup.phase \in {"retained", "index"}
    /\ inline' = [inline EXCEPT ![caller] = @ - 1]
    /\ ExecutePage(p, FALSE, alarm)
    /\ UNCHANGED <<calls, faults>>

(* enforceRetention breaks off, or the caller's process is lost.            *)
InlineSkip(caller) ==
    /\ inline[caller] > 0
    /\ inline' = [inline EXCEPT ![caller] = @ - 1]
    /\ UNCHANGED <<cell, alarm, passes, remote, drained, known, calls, faults>>

-----------------------------------------------------------------------------
(* A pass calls the other cells and the payload store: releaseHookIndexes,  *)
(* expireRun, the stream registry, deleteQueuePayloadObjects.               *)

CallOut(p) ==
    /\ ~Idle(p) /\ ~passes[p].called
    /\ purged' = purged \cup passes[p].page \cup passes[p].refs
    /\ catalog' = (catalog /\ passes[p].kind # "index")
    /\ streams' = IF passes[p].kind = "streams" /\ streams > 0 THEN streams - 1 ELSE streams
    /\ passes' = [passes EXCEPT ![p].called = TRUE,
                                ![p].more = IF passes[p].kind = "streams" THEN streams' > 0 ELSE @]
    /\ UNCHANGED <<cell, alarm, inline, drained, known, calls, faults>>

TerminalKinds == {"small", "hooks", "markers"}

(* Mutant: the phase is compared and the generation is not.                 *)
CurrentByPhase(p) ==
    IF passes[p].kind \in TerminalKinds
      THEN terminal.phase = IF passes[p].kind = "small" THEN "hooks" ELSE passes[p].kind
      ELSE cleanup.phase = passes[p].kind

(* The record is still the one the pass read: same phase and generation.    *)
Current(p) ==
    IF passes[p].kind \in TerminalKinds
      THEN /\ terminal.phase = IF passes[p].kind = "small" THEN "hooks" ELSE passes[p].kind
           /\ terminal.gen = passes[p].gen
      ELSE /\ cleanup.phase = passes[p].kind
           /\ cleanup.gen = passes[p].gen

Done(p) == passes' = [passes EXCEPT ![p] = NoPass]

(* Mutant: the page is taken for the last one.                              *)
AdvanceEarly(p, next) == cleanup' = [cleanup EXCEPT !.phase = next, !.gen = @ + 1]

Advance(p, next) ==
    cleanup' = [cleanup EXCEPT !.phase = IF passes[p].more THEN @ ELSE next, !.gen = @ + 1]

(* Mutant: the page is taken for the last one.                              *)
AdvanceTerminalEarly(p, next) == terminal' = [terminal EXCEPT !.phase = next, !.gen = @ + 1]

AdvanceTerminal(p, next) ==
    terminal' = [terminal EXCEPT !.phase = IF passes[p].more THEN @ ELSE next, !.gen = @ + 1]

CommitSmall(p) ==
    /\ passes[p].kind = "small"
    /\ ~More(waits)
    /\ hooks' = hooks \ passes[p].page
    /\ markers' = markers \ passes[p].refs
    /\ waits' = {}
    /\ FinishTerminal
    /\ Done(p)
    /\ UNCHANGED <<run, made, disposed, regs, cleanup, tomb, counted, drained>>

(* Too many waits for one page: the same call goes on with a hooks page.    *)
SmallFallsBack(p) ==
    /\ passes[p].kind = "small"
    /\ More(waits)
    /\ \E page \in Pages(hooks) :
          StartPass(p, passes[p].alarmed, "hooks", passes[p].gen, page, {}, More(hooks))
    /\ UNCHANGED <<cell, alarm, drained>>

CommitHooks(p) ==
    /\ passes[p].kind = "hooks"
    /\ hooks' = hooks \ passes[p].page
    /\ AdvanceTerminal(p, "markers")
    /\ alarm' = "soon"
    /\ Done(p)
    /\ UNCHANGED <<run, made, disposed, waits, markers, regs, cleanup, tomb, counted, drained>>

CommitMarkers(p) ==
    /\ passes[p].kind = "markers"
    /\ markers' = markers \ passes[p].refs
    /\ AdvanceTerminal(p, "waits")
    /\ alarm' = "soon"
    /\ Done(p)
    /\ UNCHANGED <<run, made, hooks, disposed, waits, regs, cleanup, tomb, counted, drained>>

CommitIndex(p) ==
    /\ passes[p].kind = "index"
    /\ markers' = markers \ passes[p].refs
    /\ Advance(p, "streams")
    /\ alarm' = "soon"
    /\ Done(p)
    /\ UNCHANGED <<run, made, hooks, disposed, waits, regs, terminal, tomb, counted, drained>>

CommitStreams(p) ==
    /\ passes[p].kind = "streams"
    /\ Advance(p, "queues")
    /\ alarm' = "soon"
    /\ Done(p)
    /\ UNCHANGED <<run, made, hooks, disposed, waits, markers, regs, terminal, tomb, counted, drained>>

(* Mutant: the commit deletes every registration and not the page.          *)
CommitQueuesWhole(p) ==
    /\ passes[p].kind = "queues"
    /\ regs' = {}
    /\ counted' = counted + Cardinality(passes[p].page)
    /\ drained' = drained \cup passes[p].page
    /\ Advance(p, "payload")
    /\ alarm' = "soon"
    /\ Done(p)
    /\ UNCHANGED <<run, made, hooks, disposed, waits, markers, terminal, tomb>>

CommitQueues(p) ==
    /\ passes[p].kind = "queues"
    /\ regs' = regs \ passes[p].page
    /\ counted' = counted + Cardinality(passes[p].page)
    /\ drained' = drained \cup passes[p].page
    /\ Advance(p, "payload")
    /\ alarm' = "soon"
    /\ Done(p)
    /\ UNCHANGED <<run, made, hooks, disposed, waits, markers, terminal, tomb>>

Commit(p) ==
    /\ ~Idle(p) /\ passes[p].called
    /\ Current(p)
    /\ \/ CommitSmall(p) \/ SmallFallsBack(p) \/ CommitHooks(p) \/ CommitMarkers(p)
       \/ CommitIndex(p) \/ CommitStreams(p) \/ CommitQueues(p)
    /\ UNCHANGED <<inline, remote, known, calls, faults>>

(* Someone else advanced the record: the pass changes nothing.              *)
CommitStale(p) ==
    /\ ~Idle(p) /\ passes[p].called
    /\ ~Current(p)
    /\ Done(p)
    /\ UNCHANGED <<cell, alarm, inline, remote, drained, known, calls, faults>>

(* Mutant: the failure is recorded and no retry is scheduled.               *)
RecordFailureUnarmed(p) ==
    /\ UNCHANGED alarm
    /\ IF passes[p].kind \in TerminalKinds
         THEN terminal' = [terminal EXCEPT !.gen = @ + 1] /\ UNCHANGED cleanup
         ELSE cleanup' = [cleanup EXCEPT !.gen = @ + 1] /\ UNCHANGED terminal

RecordFailure(p) ==
    /\ alarm' = "soon"
    /\ IF passes[p].kind \in TerminalKinds
         THEN terminal' = [terminal EXCEPT !.gen = @ + 1] /\ UNCHANGED cleanup
         ELSE cleanup' = [cleanup EXCEPT !.gen = @ + 1] /\ UNCHANGED terminal

(* The external call throws, whether or not it took effect: the failure is  *)
(* recorded and the page retried later.                                     *)
CallFails(p) ==
    /\ ~Idle(p)
    /\ faults < MaxFaults
    /\ faults' = faults + 1
    /\ IF Current(p) THEN RecordFailure(p) ELSE UNCHANGED <<alarm, cleanup, terminal>>
    /\ Done(p)
    /\ UNCHANGED <<run, made, hooks, disposed, waits, markers, regs, tomb, counted, inline, remote,
                   drained, known, calls>>

(* The pass is lost with its process.  celld runs a failed alarm handler    *)
(* again unless another alarm is set; nobody repeats the page of an RPC.    *)
PassLost(p) ==
    /\ ~Idle(p)
    /\ faults < MaxFaults
    /\ faults' = faults + 1
    /\ alarm' = IF passes[p].alarmed /\ alarm = "none" THEN "soon" ELSE alarm
    /\ Done(p)
    /\ UNCHANGED <<cell, inline, remote, drained, known, calls>>

(* The deadline of the cleanup record passes.                               *)
DeadlinePasses ==
    /\ Scheduled /\ cleanup.due = "ahead"
    /\ cleanup' = [cleanup EXCEPT !.due = "past"]
    /\ UNCHANGED <<run, made, hooks, disposed, waits, markers, regs, terminal, tomb, counted, alarm,
                   untouched>>

-----------------------------------------------------------------------------

Due == {"ahead", "past"}

ApplyEvent ==
    \/ CreateRun
    \/ \E h \in Hooks : CreateHook(h) \/ DisposeHook(h) \/ ReplayDisposal(h) \/ ForceDisposeHook(h)
    \/ \E w \in Waits : CreateWait(w)
    \/ \E retain \in BOOLEAN : EndRun(retain) \/ \E due \in Due : ReplayEnd(retain, due)

QueueRegistry == \E m \in Payloads : RegisterQueuePayload(m) \/ UnregisterQueuePayload(m)

RetentionRpc ==
    \/ \E due \in Due : ScheduleCleanup(due) \/ EnforceRetention(due)
    \/ CleanupNow \/ RearmCleanup

PassStep(p) == CallOut(p) \/ Commit(p) \/ CommitStale(p)

Next ==
    \/ ApplyEvent \/ QueueRegistry \/ RetentionRpc
    \/ DeadlinePasses
    \/ \E caller \in {"sweep", "manual"} : InlineSkip(caller) \/ \E p \in Passes : InlinePage(p, caller)
    \/ \E p \in Passes : FireAlarm(p) \/ PassStep(p) \/ CallFails(p) \/ PassLost(p)

(* celld fires a due alarm, a started handler goes on, and time passes.     *)
Fairness ==
    /\ WF_vars(\E p \in Passes : FireAlarm(p))
    /\ \A p \in Passes : WF_vars(PassStep(p))
    /\ WF_vars(DeadlinePasses)

Spec == Init /\ [][Next]_vars

FairSpec == Spec /\ Fairness

-----------------------------------------------------------------------------
(* Properties *)

(* The cell never loses its timer: while a cleanup record or a terminal     *)
(* cleanup record is stored, the durable alarm is set, or the alarm handler *)
(* that cleared it still holds a page whose commit or failure will set it   *)
(* again.  Every deleteAlarm of WorkflowRunDO.ts must respect this.         *)
WorkIsArmed ==
    Scheduled \/ terminal.phase # "none"
        => \/ alarm # "none"
           \/ \E p \in Passes : ~Idle(p) /\ passes[p].alarmed /\ Current(p)

(* Terminal cleanup removes its record only when every hook and wait of the *)
(* run is gone and every hook the run ever created was released in the hook *)
(* index (completeSmallTerminalCleanup and the paged phases), though hooks  *)
(* are disposed and other passes run between its list and its commit.       *)
TerminalCleanupIsComplete ==
    run = "terminal" /\ terminal.phase = "none" /\ ~tomb
        => hooks = {} /\ waits = {} /\ made \subseteq purged

(* A reference or a registration leaves the cell only after what it points  *)
(* to is released or deleted elsewhere: no page deletes an entry that was   *)
(* not in the list it sent to the other cells.                              *)
NoDerivativeForgotten ==
    /\ made \ markers \subseteq purged
    /\ known \ regs \subseteq purged
    /\ tomb => made \cup known \subseteq purged

(* The tombstone, and the last phase that deletes the run itself, come      *)
(* after every derivative: hook references, the catalog entry, the streams  *)
(* and the queue payloads (deletePayloadBatch after the other phases).      *)
TombstoneLast ==
    tomb \/ cleanup.phase = "payload"
        => markers = {} /\ ~catalog /\ streams = 0 /\ regs = {}

(* deletedQueuePayloads counts every payload removed by a queues page once, *)
(* although pages are retried and two passes may hold the same page.        *)
CountedOnce == counted = Cardinality(drained)

(* Expiry is permanent: once reads and writes are fenced, no later call,    *)
(* page or failure lifts the fence, and the tombstone is never removed.     *)
ExpiryIsPermanent == [][(Expired => Expired') /\ (tomb => tomb')]_vars

(* Both cleanup records only move forward, whatever calls and passes        *)
(* overlap and fail.  Retention goes one phase at a time (setCleanupPhase   *)
(* and the generation checks).                                              *)
PhaseOrder == <<"retained", "index", "streams", "queues", "payload">>

PhaseIndex(phase) == CHOOSE i \in 1..5 : PhaseOrder[i] = phase

RetentionAdvances ==
    Scheduled => \/ cleanup'.phase = "none" /\ cleanup.phase = "payload"
                 \/ /\ cleanup'.phase # "none"
                    /\ PhaseIndex(cleanup'.phase) - PhaseIndex(cleanup.phase) \in {0, 1}

(* Terminal cleanup starts on a run that is not fenced, leaves a phase only *)
(* when the work of that phase is done, ends after the waits or in a single *)
(* page (completeSmallTerminalCleanup), or goes with the cell's payload.    *)
TerminalAdvances ==
    \/ terminal'.phase = terminal.phase
    \/ terminal.phase = "none" /\ terminal'.phase = "hooks" /\ ~Expired
    \/ terminal.phase = "hooks" /\ terminal'.phase = "markers" /\ hooks' = {}
    \/ terminal.phase = "markers" /\ terminal'.phase = "waits" /\ made \subseteq purged
    \/ terminal.phase = "waits" /\ terminal'.phase = "none" /\ waits' = {}
    \/ terminal.phase = "hooks" /\ terminal'.phase = "none"
         /\ hooks' = {} /\ waits' = {} /\ made \subseteq purged
    \/ cleanup.phase = "payload" /\ terminal'.phase = "none"

(* No step takes either record back, skips a phase or leaves one unfinished *)
(* (setCleanupPhase, advanceTerminalCleanup and the generation checks).     *)
PhasesAdvance == [][RetentionAdvances /\ TerminalAdvances]_vars

(* A scheduled cleanup ends in a tombstone with nothing left in the cell.   *)
CleanupFinishes == Scheduled ~> (tomb /\ ~Scheduled /\ Keys = {})

(* The terminal cleanup of a run ends.                                      *)
TerminalCleanupFinishes == (terminal.phase # "none") ~> (terminal.phase = "none")

=============================================================================
