--------------------------- MODULE QueueDelivery ---------------------------
(***************************************************************************)
(* Queue messages of one run under one idempotency key: the send route     *)
(* (router.ts), the claim, payload and orphan RPCs of WorkflowRunDO.ts,    *)
(* delivery (queue-delivery.ts) and the broker's consumer                  *)
(* (queue-consumer.ts).                                                    *)
(*                                                                         *)
(* A process is a send request or a delivery.  Each call to a cell, to the *)
(* object store or to the broker is one action; a process may be lost      *)
(* between two of them, a call may fail, and its answer may be lost after  *)
(* it took effect.  The broker delivers a message as long as it has a copy *)
(* of it, to two consumers at once too.  A run keeps its claims either in  *)
(* its own cell or in a claim cell; both forms store the same records.     *)
(***************************************************************************)
EXTENDS Naturals, FiniteSets

CONSTANTS
    Msgs,            \* message IDs; every send has its own
    Setups,          \* bound: the runs considered, see Setup
    Procs,           \* bound: requests and deliveries in flight at once
    None,
    Lease,           \* QUEUE_PUBLICATION_LEASE_MS
    Stale,           \* QUEUE_CLAIM_STALE_MS
    Grace,           \* QUEUE_RESERVATION_GRACE_MS, QUEUE_ORPHAN_GRACE_MS
    BrokerLife,      \* the broker's retention of a message
    RequestLife,     \* how long a request or a delivery can last
    Delays,          \* delays asked for by a suspending workflow
    MaxSuspensions,  \* MAX_QUEUE_SUSPENSIONS
    Unanswered,      \* calls whose answer may be lost
    MaxFaults,       \* bound: failed calls, lost answers and lost workers
    PromptAnswers,   \* whether the answer to a claim is evaluated in the same instant
    Horizon          \* bound: the end of time

(* Where the run keeps its claims and which messages are the small ones,    *)
(* without user data; the messages sent, the delays asked for, the          *)
(* deliveries, whether the run expires and when time ends are the bounds of *)
(* its behaviour.                                                           *)
Setup == [scope : {"run", "cell"}, inline : SUBSET Msgs, sends : SUBSET Msgs,
          delays : SUBSET (0..BrokerLife), deliveries : Nat, expires : BOOLEAN,
          end : 0..Horizon]

ASSUME QueueAssumption ==
    /\ Setups \subseteq Setup /\ None \notin Msgs
    /\ Lease \in Nat /\ RequestLife \in Nat /\ Stale \in Nat
    /\ BrokerLife \in Nat /\ Grace \in Nat
    /\ RequestLife < Stale /\ Stale < Grace /\ BrokerLife < Grace
    /\ Lease <= Grace /\ RequestLife < BrokerLife
    /\ Delays \subseteq 1..BrokerLife
    /\ MaxSuspensions \in Nat /\ MaxFaults \in Nat
    /\ Horizon \in Nat
    /\ PromptAnswers \in BOOLEAN

VARIABLES
    now,
    scope,        \* "run" or "cell": where the run keeps its claims
    bounds,       \* the bounds of this behaviour
    inline,       \* messages whose body travels in the broker's envelope
    run,          \* "live", "fenced" (expired), "purged" (bodies deleted), "gone"
    reservation,  \* the message admitted under the key
    claim,        \* the message in delivery under the key
    alarm,        \* claim cell: when its alarm is set for, or Never
    registered,   \* run cell: "queue-payload:" registrations
    orphan,       \* message -> record of its orphan cell; its alarm is the deadline
    sweep,        \* message -> where the orphan cell's alarm handler is
    stored,       \* object store: messages whose body is stored
    broker,       \* copies of messages the broker has
    proc,         \* process -> frame
    faults,       \* faults so far; untold: the answer to a ClaimEnding call was lost
    deliveries,   \* bound: deliveries still to come
    started,      \* messages a client has sent
    sent,         \* ghost: messages the broker accepted
    named,        \* ghost: messages returned to a sender as the one already queued
    owed,         \* ghost: messages a sender was told are queued
    settled       \* ghost: messages handled, given up for another one in
                  \* delivery, or out of their broker or orphan lease

setup   == <<scope, inline, bounds>>
claims  == <<reservation, claim, alarm>>
bodies  == <<registered, orphan, stored>>
starts  == <<deliveries, started>>
ghosts  == <<sent, named, owed, settled>>
vars    == <<now, setup, run, claims, bodies, sweep, broker, proc, faults, starts, ghosts>>

-----------------------------------------------------------------------------

Later(a, b)   == IF a >= b THEN a ELSE b
Earlier(a, b) == IF a <= b THEN a ELSE b

Stamp == 0..(Horizon + Stale + BrokerLife + Grace)
Never == Horizon + Stale + BrokerLife + Grace + 1

Maybe(S)    == S \cup {None}
Reservation == [msg : Msgs, expires : Stamp, pending : BOOLEAN]
Claim       == [msg : Msgs, expires : Stamp, retryAt : Maybe(Stamp)]
Orphan      == [expires : Stamp, deleting : BOOLEAN]

(* A broker message: when it is due, when the broker drops it, and how often *)
(* it has been suspended.                                                    *)
Copy == [msg : Msgs, notBefore : Stamp, until : Stamp, count : 0..MaxSuspensions]

ASSUME NoneAssumption ==
    None \notin Reservation /\ None \notin Claim /\ None \notin Orphan /\ None \notin Copy

Pc == {"idle", "reserve", "admit", "register", "schedule", "unstage", "write", "finalize",
       "send", "confirm", "abandon",
       "chain", "claim", "answered", "admitted", "read", "callback", "extend", "hold",
       "suspend", "release", "unclaim", "ack",
       "discard", "unlist", "unorphan", "complete"}

(* at and born are the time and the run's state when the process started;   *)
(* copy is the broker's copy of a delivery; wait is a deadline and delay    *)
(* the same as a duration.                                                  *)
Frame == [pc : Pc, msg : Maybe(Msgs), copy : Maybe(Copy), at : 0..Horizon,
          born : {"live", "fenced", "purged", "gone"}, claimed : BOOLEAN, wait : Stamp, delay : Stamp]

Idle == [pc |-> "idle", msg |-> None, copy |-> None, at |-> 0, born |-> "live",
         claimed |-> FALSE, wait |-> 0, delay |-> 0]

TypeOK ==
    /\ now \in 0..Horizon /\ scope \in {"run", "cell"} /\ inline \subseteq Msgs
    /\ bounds \in Setups
    /\ run \in {"live", "fenced", "purged", "gone"}
    /\ reservation \in Maybe(Reservation) /\ claim \in Maybe(Claim)
    /\ alarm \in Stamp \cup {Never}
    /\ registered \subseteq Msgs /\ stored \subseteq Msgs
    /\ orphan \in [Msgs -> Maybe(Orphan)]
    /\ sweep \in [Msgs -> {"idle", "delete", "unlist", "finish"}]
    /\ broker \subseteq Copy
    /\ proc \in [Procs -> Frame] /\ faults \in [count : 0..MaxFaults, untold : BOOLEAN]
    /\ deliveries \in Nat
    /\ started \subseteq Msgs /\ sent \subseteq Msgs /\ named \subseteq Msgs
    /\ owed \subseteq Msgs /\ settled \subseteq Msgs

Init ==
    /\ bounds \in Setups
    /\ scope = bounds.scope /\ inline = bounds.inline /\ deliveries = bounds.deliveries
    /\ now = 0 /\ run = "live"
    /\ reservation = None /\ claim = None /\ alarm = Never
    /\ registered = {} /\ stored = {}
    /\ orphan = [m \in Msgs |-> None] /\ sweep = [m \in Msgs |-> "idle"]
    /\ broker = {} /\ proc = [p \in Procs |-> Idle] /\ faults = [count |-> 0, untold |-> FALSE]
    /\ started = {} /\ sent = {} /\ named = {} /\ owed = {} /\ settled = {}

-----------------------------------------------------------------------------
(* Processes *)

Msg(p) == proc[p].msg

At(p, pc) == proc[p].pc = pc

Sending(p) == proc[p].copy = None

To(p, pc) == [proc[p] EXCEPT !.pc = pc]

(* Where a failed call leaves the process: the catch of the send route      *)
(* abandons the reservation, the catch of a delivery releases its claim and *)
(* the consumer leaves the message to the broker.                           *)
Caught(p) ==
    IF Sending(p)
      THEN CASE proc[p].pc = "schedule" -> To(p, "unstage")
             [] proc[p].pc = "abandon"  -> Idle
             [] OTHER                   -> To(p, "abandon")
      ELSE IF proc[p].claimed /\ proc[p].pc # "unclaim" THEN To(p, "unclaim") ELSE Idle

Goto(p, f) == proc' = [proc EXCEPT ![p] = f]

(* These change a claim by message ID, without naming the delivery.         *)
ClaimEnding == {"hold", "release", "complete"}

MayFail == faults.count < MaxFaults
Failed(untold) == faults' = [count |-> faults.count + 1, untold |-> faults.untold \/ untold]

(* A call was carried out; its caller goes on, or does not hear of it.      *)
Called(p, f) ==
    \/ Goto(p, f) /\ UNCHANGED faults
    \/ /\ proc[p].pc \in Unanswered /\ MayFail
       /\ Goto(p, Caught(p)) /\ Failed(proc[p].pc \in ClaimEnding)

Calls == {"reserve", "admit", "register", "schedule", "unstage", "write", "finalize", "send",
          "confirm", "abandon", "chain", "claim", "admitted", "read", "extend", "hold", "suspend",
          "release", "unclaim", "discard", "unlist", "unorphan", "complete"}

(* A call failed without effect.                                            *)
CallFails(p) ==
    /\ proc[p].pc \in Calls /\ MayFail
    /\ Goto(p, Caught(p)) /\ Failed(FALSE)
    /\ UNCHANGED <<now, setup, run, claims, bodies, sweep, broker, starts, ghosts>>

(* The worker stops.                                                        *)
Lose(p) ==
    /\ proc[p].pc # "idle" /\ MayFail
    /\ Goto(p, Idle) /\ Failed(FALSE)
    /\ UNCHANGED <<now, setup, run, claims, bodies, sweep, broker, starts, ghosts>>

-----------------------------------------------------------------------------
(* The records of a claim, and the claim cell's alarm *)

Expiry(x) == IF x = None THEN Never ELSE x.expires

Earliest(r, c) == Earlier(Expiry(r), Expiry(c))

Arm(r, c) == alarm' = IF scope = "cell" THEN Earliest(r, c) ELSE alarm

PutClaims(r, c) == reservation' = r /\ claim' = c /\ Arm(r, c)

Of(x, m) == x # None /\ x.msg = m

Without(x, m) == IF Of(x, m) THEN None ELSE x

Fresh(x) == x # None /\ x.expires > now

(* completeQueueMessage, completeRunQueueMessage.                           *)
CompleteMessage(m) == PutClaims(Without(reservation, m), Without(claim, m))

(* abandonQueueMessageReservation, abandonRunQueueMessageReservation.       *)
AbandonReservation(m) ==
    IF Of(reservation, m) THEN PutClaims(None, claim) ELSE UNCHANGED claims

(* Mutant: the alarm goes with the claim, a reservation or not.             *)
ReleaseClaimDropsAlarm(m) ==
    IF Of(claim, m) THEN reservation' = reservation /\ claim' = None /\ alarm' = Never
    ELSE UNCHANGED claims

(* releaseInflight, releaseRunQueueMessage.                                 *)
ReleaseClaim(m) ==
    IF Of(claim, m) THEN PutClaims(reservation, None) ELSE UNCHANGED claims

(* confirmQueueMessagePublication, confirmRunQueueMessagePublication.       *)
ConfirmPublication(m, expires) ==
    IF Of(reservation, m)
      THEN PutClaims([msg |-> m, expires |-> Later(reservation.expires, expires), pending |-> FALSE],
                     claim)
      ELSE UNCHANGED claims

(* holdInflight, holdRunQueueMessage.                                       *)
HoldClaim(m, retryAt) ==
    IF Of(claim, m)
      THEN PutClaims(IF Of(reservation, m)
                       THEN [reservation EXCEPT !.expires = Later(@, retryAt + Grace)]
                       ELSE reservation,
                     [claim EXCEPT !.retryAt = retryAt, !.expires = Later(@, retryAt + Stale)])
      ELSE UNCHANGED claims

(* The alarm of a claim cell.                                               *)
CompactClaims ==
    /\ scope = "cell" /\ alarm <= now
    /\ PutClaims(IF Fresh(reservation) THEN reservation ELSE None, IF Fresh(claim) THEN claim ELSE None)
    /\ UNCHANGED <<now, setup, run, bodies, sweep, broker, proc, faults, starts, ghosts>>

-----------------------------------------------------------------------------
(* Bodies: registration in the run cell, object, orphan cell *)

(* scheduleQueuePayloadOrphan, refused while the record is being deleted.   *)
Deleting(m) == orphan[m] # None /\ orphan[m].deleting

ScheduleOrphan(m, expires) ==
    orphan' = [orphan EXCEPT ![m] = [expires |-> Later(IF @ = None THEN 0 ELSE @.expires, expires),
                                     deleting |-> FALSE]]

(* The orphan cell's alarm: it marks the record, deletes the object and the *)
(* registration, and forgets the record unless it was replaced.             *)
LeaseOrphan(m) ==
    /\ sweep[m] = "idle" /\ orphan[m] # None /\ orphan[m].expires <= now
    /\ orphan' = [orphan EXCEPT ![m].deleting = TRUE]
    /\ sweep' = [sweep EXCEPT ![m] = "delete"]
    /\ UNCHANGED <<now, setup, run, claims, registered, stored, broker, proc, faults, starts, ghosts>>

DeleteOrphan(m) ==
    /\ sweep[m] = "delete"
    /\ stored' = stored \ {m} /\ settled' = settled \cup {m}
    /\ sweep' = [sweep EXCEPT ![m] = "unlist"]
    /\ UNCHANGED <<now, setup, run, claims, registered, orphan, broker, proc, faults, starts,
                   sent, named, owed>>

UnlistOrphan(m) ==
    /\ sweep[m] = "unlist"
    /\ registered' = registered \ {m}
    /\ sweep' = [sweep EXCEPT ![m] = "finish"]
    /\ UNCHANGED <<now, setup, run, claims, orphan, stored, broker, proc, faults, starts, ghosts>>

FinishOrphan(m) ==
    /\ sweep[m] = "finish"
    /\ orphan' = [orphan EXCEPT ![m] = IF Deleting(m) THEN None ELSE @]
    /\ sweep' = [sweep EXCEPT ![m] = "idle"]
    /\ UNCHANGED <<now, setup, run, claims, registered, stored, broker, proc, faults, starts, ghosts>>

(* The handler fails or is lost; the alarm runs again.                      *)
LoseSweep(m) ==
    /\ sweep[m] # "idle" /\ sweep' = [sweep EXCEPT ![m] = "idle"]
    /\ UNCHANGED <<now, setup, run, claims, bodies, broker, proc, faults, starts, ghosts>>

-----------------------------------------------------------------------------
(* Retention of the run *)

ExpireRun ==
    /\ bounds.expires /\ run = "live" /\ run' = "fenced"
    /\ UNCHANGED <<now, setup, claims, bodies, sweep, broker, proc, faults, starts, ghosts>>

(* The queues page: the bodies first, then their registrations.             *)
DeleteQueuePage ==
    /\ run \in {"fenced", "purged"} /\ run' = "purged"
    /\ stored' = stored \ registered
    /\ UNCHANGED <<now, setup, claims, registered, orphan, sweep, broker, proc, faults, starts, ghosts>>

(* The page's commit; the payload phase then deletes the run's own claims.  *)
CommitQueuePage ==
    /\ run = "purged" /\ run' = "gone"
    /\ registered' = {}
    /\ IF scope = "run" THEN reservation' = None /\ claim' = None ELSE UNCHANGED <<reservation, claim>>
    /\ UNCHANGED <<now, setup, alarm, orphan, stored, sweep, broker, proc, faults, starts, ghosts>>

-----------------------------------------------------------------------------
(* The send route *)

Send(p, m, delay) ==
    /\ proc[p] = Idle /\ m \notin started
    /\ started' = started \cup {m}
    /\ Goto(p, [Idle EXCEPT !.pc = "reserve", !.msg = m, !.at = now, !.born = run, !.wait = now + delay])
    /\ UNCHANGED <<now, setup, run, claims, bodies, sweep, broker, faults, deliveries, ghosts>>

(* What the claim and the orphan lease are confirmed until.                 *)
Deadline(p) == proc[p].wait + Grace

(* The run cell answers that the run has expired.  A claim cell does not    *)
(* ask it when the worker remembers that the run has claim cells.           *)
RefuseExpired(p) ==
    /\ At(p, "reserve") /\ run # "live"
    /\ Called(p, Idle)
    /\ UNCHANGED <<now, setup, run, claims, bodies, sweep, broker, starts, ghosts>>

(* Mutant: a pending reservation counts as a published message.             *)
AnswersDuplicateAlways(r) == TRUE

(* A pending reservation is answered with a 503, a confirmed one with its   *)
(* message.                                                                 *)
AnswersDuplicate(r) == ~r.pending

FindReserved(p) ==
    /\ At(p, "reserve") /\ (scope = "run" => run = "live")
    /\ Fresh(reservation)
    /\ Arm(reservation, claim)
    /\ LET told == IF AnswersDuplicate(reservation) THEN {reservation.msg} ELSE {}
       IN  named' = named \cup told /\ owed' = owed \cup told
    /\ Called(p, Idle)
    /\ UNCHANGED <<now, setup, run, reservation, claim, bodies, sweep, broker, starts, sent, settled>>

(* reserveQueueMessage, reserveRunQueueMessage.                             *)
ReserveMessage(p) ==
    /\ At(p, "reserve") /\ (scope = "run" => run = "live")
    /\ ~Fresh(reservation)
    /\ PutClaims([msg |-> Msg(p), pending |-> TRUE,
                  expires |-> Later(IF reservation = None THEN 0 ELSE reservation.expires,
                                   proc[p].at + Lease)],
                 claim)
    /\ Called(p, To(p, IF Msg(p) \notin inline THEN "register"
                       ELSE IF scope = "cell" THEN "admit" ELSE "send"))
    /\ UNCHANGED <<now, setup, run, bodies, sweep, broker, starts, ghosts>>

(* getQueueAdmission of an inline body is asked at the start and overlaps   *)
(* the claim.                                                               *)
Admission(p) == {proc[p].born = "live", run = "live"}

Admit(p) ==
    /\ At(p, "admit")
    /\ \E ok \in Admission(p) : Called(p, To(p, IF ok THEN "send" ELSE "complete"))
    /\ UNCHANGED <<now, setup, run, claims, bodies, sweep, broker, starts, ghosts>>

RegisterQueuePayload(p) ==
    /\ At(p, "register")
    /\ registered' = IF run = "live" THEN registered \cup {Msg(p)} ELSE registered
    /\ Called(p, To(p, IF run = "live" THEN "schedule" ELSE "complete"))
    /\ UNCHANGED <<now, setup, run, claims, orphan, stored, sweep, broker, starts, ghosts>>

(* Mutant: the orphan cell is only told once the body is stored.            *)
ScheduleQueuePayloadOrphanLate(p) ==
    /\ At(p, "schedule")
    /\ Called(p, To(p, "write"))
    /\ UNCHANGED <<now, setup, run, claims, bodies, sweep, broker, starts, ghosts>>

ScheduleQueuePayloadOrphan(p) ==
    /\ At(p, "schedule") /\ ~Deleting(Msg(p))
    /\ ScheduleOrphan(Msg(p), Deadline(p))
    /\ Called(p, To(p, "write"))
    /\ UNCHANGED <<now, setup, run, claims, registered, stored, sweep, broker, starts, ghosts>>

(* The orphan cell refused, or could not be reached.                        *)
Unstage(p) ==
    /\ At(p, "unstage")
    /\ registered' = registered \ {Msg(p)}
    /\ Called(p, To(p, "abandon"))
    /\ UNCHANGED <<now, setup, run, claims, orphan, stored, sweep, broker, starts, ghosts>>

WriteBody(p) ==
    /\ At(p, "write")
    /\ stored' = stored \cup {Msg(p)}
    /\ Called(p, To(p, "finalize"))
    /\ UNCHANGED <<now, setup, run, claims, registered, orphan, sweep, broker, starts, ghosts>>

(* Mutant: a removed registration is not noticed.                           *)
FinalizedAlways(m) == TRUE

(* finalizeQueuePayload: the run has not expired since the registration.    *)
Finalized(m) == run = "live" /\ m \in registered

FinalizeQueuePayload(p) ==
    /\ At(p, "finalize")
    /\ Called(p, To(p, IF Finalized(Msg(p)) THEN "send" ELSE "discard"))
    /\ UNCHANGED <<now, setup, run, claims, bodies, sweep, broker, starts, ghosts>>

SendToBroker(p) ==
    /\ At(p, "send")
    /\ broker' = broker \cup {[msg |-> Msg(p), notBefore |-> proc[p].wait,
                               until |-> now + BrokerLife, count |-> 0]}
    /\ sent' = sent \cup {Msg(p)}
    /\ Called(p, To(p, "confirm"))
    /\ UNCHANGED <<now, setup, run, claims, bodies, sweep, starts, named, owed, settled>>

Confirm(p) ==
    /\ At(p, "confirm")
    /\ ConfirmPublication(Msg(p), Deadline(p))
    /\ owed' = owed \cup {Msg(p)}
    /\ Called(p, Idle)
    /\ UNCHANGED <<now, setup, run, bodies, sweep, broker, starts, sent, named, settled>>

Abandon(p) ==
    /\ At(p, "abandon")
    /\ AbandonReservation(Msg(p))
    /\ Called(p, Idle)
    /\ UNCHANGED <<now, setup, run, bodies, sweep, broker, starts, ghosts>>

-----------------------------------------------------------------------------
(* The consumer and the delivery *)

(* The broker holds a message back, for a day at most.                      *)
Deliver(p, c) ==
    /\ proc[p] = Idle
    /\ c.notBefore <= now \/ c.until < now + BrokerLife
    /\ deliveries > 0 /\ deliveries' = deliveries - 1
    /\ Goto(p, [Idle EXCEPT !.pc = IF c.notBefore > now THEN "chain" ELSE "claim",
                            !.msg = c.msg, !.copy = c, !.at = now, !.born = run])
    /\ UNCHANGED <<now, setup, run, claims, bodies, sweep, broker, faults, started, ghosts>>

Republish(p, c) ==
    /\ broker' = broker \cup {[c EXCEPT !.until = now + BrokerLife]}
    /\ Called(p, To(p, "ack"))
    /\ UNCHANGED <<now, setup, run, claims, bodies, sweep, starts, ghosts>>

(* A delay longer than the broker allows goes on under the same deadline.   *)
Chain(p) == At(p, "chain") /\ Republish(p, proc[p].copy)

(* A delivery proves that the message was published, whatever became of the *)
(* sender's confirmation.                                                   *)
Proven(m) ==
    IF Of(reservation, m) /\ reservation.pending
      THEN [msg |-> m, expires |-> Later(reservation.expires, now + Grace), pending |-> FALSE]
      ELSE reservation

(* Mutant: another delivery of the same message is no obstacle.             *)
BlocksOthers(m) == Fresh(claim) /\ claim.msg # m

SuspensionOver == claim.retryAt # None /\ claim.retryAt <= now

(* A live claim stands in the way, except the message's own suspension that *)
(* is over.                                                                 *)
Blocks(m) == Fresh(claim) /\ ~(claim.msg = m /\ SuspensionOver)

(* A claim in the run's cell is refused once the run has expired.           *)
ClaimExpired(p) ==
    /\ At(p, "claim") /\ scope = "run" /\ run # "live"
    /\ Called(p, To(p, "ack"))
    /\ UNCHANGED <<now, setup, run, claims, bodies, sweep, broker, starts, ghosts>>

(* claimInflight, claimRunQueueMessage.  Next is the body or the callback.  *)
ClaimMessage(p) ==
    /\ At(p, "claim") /\ (scope = "run" => run = "live")
    /\ ~Blocks(Msg(p))
    /\ PutClaims(Proven(Msg(p)), [msg |-> Msg(p), expires |-> now + Stale, retryAt |-> None])
    /\ Called(p, [To(p, IF Msg(p) \notin inline THEN "read"
                        ELSE IF scope = "cell" THEN "admitted" ELSE "callback")
                    EXCEPT !.claimed = TRUE])
    /\ UNCHANGED <<now, setup, run, bodies, sweep, broker, starts, ghosts>>

(* Another message of the key is in delivery: this one is a duplicate.      *)
ClaimTaken(p) ==
    /\ At(p, "claim") /\ (scope = "run" => run = "live")
    /\ Blocks(Msg(p)) /\ claim.msg # Msg(p)
    /\ reservation' = Proven(Msg(p))
    /\ settled' = settled \cup {Msg(p)} /\ owed' = owed \cup {claim.msg}
    /\ Called(p, To(p, "ack"))
    /\ UNCHANGED <<now, setup, run, claim, alarm, bodies, sweep, broker, starts, sent, named>>

(* The same message is in delivery or suspended: come back later.           *)
ClaimEarly(p) ==
    /\ At(p, "claim") /\ (scope = "run" => run = "live")
    /\ Blocks(Msg(p)) /\ claim.msg = Msg(p)
    /\ reservation' = Proven(Msg(p))
    /\ Called(p, [To(p, "answered") EXCEPT
                    !.wait = IF claim.retryAt = None THEN claim.expires ELSE claim.retryAt])
    /\ UNCHANGED <<now, setup, run, claim, alarm, bodies, sweep, broker, starts, ghosts>>

(* The worker compares the answer with its own clock: still ahead is a      *)
(* suspension, otherwise the message is complete.                           *)
EvaluateAnswer(p) ==
    /\ At(p, "answered")
    /\ Goto(p, IF proc[p].wait > now
                 THEN [To(p, "suspend") EXCEPT !.delay = proc[p].wait - now]
                 ELSE To(p, "ack"))
    /\ UNCHANGED <<now, setup, run, claims, bodies, sweep, broker, faults, starts, ghosts>>

CheckAdmission(p) ==
    /\ At(p, "admitted")
    /\ \E ok \in Admission(p) : Called(p, To(p, IF ok THEN "callback" ELSE "complete"))
    /\ UNCHANGED <<now, setup, run, claims, bodies, sweep, broker, starts, ghosts>>

ReadBody(p) ==
    /\ At(p, "read")
    /\ Called(p, To(p, IF Msg(p) \in stored THEN "callback" ELSE "unlist"))
    /\ UNCHANGED <<now, setup, run, claims, bodies, sweep, broker, starts, ghosts>>

(* The application handled the message, or refused it for good.             *)
CallbackDone(p) ==
    /\ At(p, "callback")
    /\ settled' = settled \cup {Msg(p)}
    /\ Goto(p, To(p, IF Msg(p) \in inline THEN "complete" ELSE "discard"))
    /\ UNCHANGED <<now, setup, run, claims, bodies, sweep, broker, faults, starts, sent, named, owed>>

(* 503 with a delay: the workflow wants the message again.                  *)
CallbackSuspends(p, delay) ==
    /\ At(p, "callback")
    /\ Goto(p, [To(p, IF Msg(p) \in inline THEN "hold" ELSE "extend")
                  EXCEPT !.wait = now + delay, !.delay = delay])
    /\ UNCHANGED <<now, setup, run, claims, bodies, sweep, broker, faults, starts, ghosts>>

(* Any other status, a timeout or an exception.                             *)
CallbackFails(p) ==
    /\ At(p, "callback")
    /\ \E pc \in {"release", "unclaim"} : Goto(p, To(p, pc))
    /\ UNCHANGED <<now, setup, run, claims, bodies, sweep, broker, faults, starts, ghosts>>

ExtendOrphan(p) ==
    /\ At(p, "extend") /\ ~Deleting(Msg(p))
    /\ ScheduleOrphan(Msg(p), Deadline(p))
    /\ Called(p, To(p, "hold"))
    /\ UNCHANGED <<now, setup, run, claims, registered, stored, sweep, broker, starts, ghosts>>

ExtendRefused(p) ==
    /\ At(p, "extend") /\ Deleting(Msg(p))
    /\ Goto(p, Caught(p))
    /\ UNCHANGED <<now, setup, run, claims, bodies, sweep, broker, faults, starts, ghosts>>

Hold(p) ==
    /\ At(p, "hold")
    /\ HoldClaim(Msg(p), proc[p].wait)
    /\ Called(p, [To(p, "suspend") EXCEPT !.claimed = FALSE])
    /\ UNCHANGED <<now, setup, run, bodies, sweep, broker, starts, ghosts>>

(* Mutant: the message is acknowledged without a copy to come back.         *)
SuspendUnpublished(p) ==
    /\ At(p, "suspend")
    /\ Goto(p, To(p, "ack"))
    /\ UNCHANGED <<now, setup, run, claims, bodies, sweep, broker, faults, starts, ghosts>>

(* The consumer publishes the copy that comes back, then acknowledges.      *)
Suspend(p) ==
    LET c == proc[p].copy
    IN  /\ At(p, "suspend") /\ c.count < MaxSuspensions
        /\ Republish(p, [c EXCEPT !.notBefore = now + proc[p].delay, !.count = @ + 1])

(* Suspended too often: the broker retries as after a failure.              *)
SuspendedTooOften(p) ==
    /\ At(p, "suspend") /\ proc[p].copy.count = MaxSuspensions
    /\ Goto(p, Idle)
    /\ UNCHANGED <<now, setup, run, claims, bodies, sweep, broker, faults, starts, ghosts>>

(* Releasing the claim leaves the copy to the broker's retry.               *)
Release(p) ==
    /\ At(p, "release") \/ At(p, "unclaim")
    /\ ReleaseClaim(Msg(p))
    /\ Called(p, Idle)
    /\ UNCHANGED <<now, setup, run, bodies, sweep, broker, starts, ghosts>>

Ack(p) ==
    /\ At(p, "ack")
    /\ broker' = broker \ {proc[p].copy}
    /\ Goto(p, Idle)
    /\ UNCHANGED <<now, setup, run, claims, bodies, sweep, faults, starts, ghosts>>

-----------------------------------------------------------------------------
(* The end of a message, for a delivery and for a send that came too late:  *)
(* the body, its registration, its orphan lease, the claim.                 *)

DeleteBody(p) ==
    /\ At(p, "discard")
    /\ stored' = stored \ {Msg(p)}
    /\ Called(p, To(p, "unlist"))
    /\ UNCHANGED <<now, setup, run, claims, registered, orphan, sweep, broker, starts, ghosts>>

UnregisterQueuePayload(p) ==
    /\ At(p, "unlist")
    /\ registered' = registered \ {Msg(p)}
    /\ Called(p, To(p, "unorphan"))
    /\ UNCHANGED <<now, setup, run, claims, orphan, stored, sweep, broker, starts, ghosts>>

CancelQueuePayloadOrphan(p) ==
    /\ At(p, "unorphan")
    /\ orphan' = [orphan EXCEPT ![Msg(p)] = None]
    /\ Called(p, To(p, "complete"))
    /\ UNCHANGED <<now, setup, run, claims, registered, stored, sweep, broker, starts, ghosts>>

Complete(p) ==
    /\ At(p, "complete")
    /\ CompleteMessage(Msg(p))
    /\ Called(p, IF Sending(p) THEN Idle ELSE To(p, "ack"))
    /\ UNCHANGED <<now, setup, run, bodies, sweep, broker, starts, ghosts>>

-----------------------------------------------------------------------------

(* Time passes.  A request that lasted long enough is over, and the broker  *)
(* drops what it kept long enough.                                          *)
Tick ==
    /\ now < bounds.end /\ now' = now + 1
    /\ PromptAnswers => \A p \in Procs : proc[p].pc # "answered"
    /\ broker' = {c \in broker : c.until > now'}
    /\ settled' = settled \cup ({c.msg : c \in broker} \ {c.msg : c \in broker'})
    /\ proc' = [p \in Procs |-> IF now' > proc[p].at + RequestLife THEN Idle ELSE proc[p]]
    /\ UNCHANGED <<setup, run, claims, bodies, sweep, faults, starts, sent, named, owed>>

SendStep(p) ==
    \/ \E m \in bounds.sends, delay \in bounds.delays : Send(p, m, delay)
    \/ RefuseExpired(p) \/ FindReserved(p) \/ ReserveMessage(p) \/ Admit(p)
    \/ RegisterQueuePayload(p) \/ ScheduleQueuePayloadOrphan(p) \/ Unstage(p) \/ WriteBody(p)
    \/ FinalizeQueuePayload(p) \/ SendToBroker(p) \/ Confirm(p) \/ Abandon(p)

DeliveryStep(p) ==
    \/ \E c \in broker : Deliver(p, c)
    \/ Chain(p) \/ ClaimExpired(p) \/ ClaimMessage(p) \/ ClaimTaken(p) \/ ClaimEarly(p)
    \/ EvaluateAnswer(p) \/ CheckAdmission(p) \/ ReadBody(p)
    \/ CallbackDone(p) \/ CallbackFails(p) \/ \E delay \in Delays : CallbackSuspends(p, delay)
    \/ ExtendOrphan(p) \/ ExtendRefused(p) \/ Hold(p) \/ Suspend(p) \/ SuspendedTooOften(p)
    \/ Release(p) \/ Ack(p)

Next ==
    \/ \E p \in Procs :
          \/ SendStep(p) \/ DeliveryStep(p)
          \/ DeleteBody(p) \/ UnregisterQueuePayload(p) \/ CancelQueuePayloadOrphan(p) \/ Complete(p)
          \/ CallFails(p) \/ Lose(p)
    \/ \E m \in Msgs : LeaseOrphan(m) \/ DeleteOrphan(m) \/ UnlistOrphan(m) \/ FinishOrphan(m)
                       \/ LoseSweep(m)
    \/ ExpireRun \/ DeleteQueuePage \/ CommitQueuePage
    \/ CompactClaims
    \/ Tick

Spec == Init /\ [][Next]_vars

-----------------------------------------------------------------------------
(* Properties *)

(* The deliveries of a key are serialized by its claim: the application is  *)
(* called for one of its messages at a time, although the broker delivers   *)
(* copies twice, senders publish again under the same key, suspensions end  *)
(* and workers stop while they hold the claim.  As long as no delivery      *)
(* missed the answer to a hold, a release or a completion of its claim: it  *)
(* would release the claim of a later delivery of the message.              *)
OneCallback == ~faults.untold => Cardinality({p \in Procs : At(p, "callback")}) <= 1

(* A message a sender was told is queued stays with the broker until the    *)
(* application handled it, whatever fails in between: an acknowledgement    *)
(* always follows the callback, a copy that comes back, or a duplicate in   *)
(* delivery.  It ends with the run or with the message's leases.            *)
OwedIsDeliverable ==
    run = "live" => \A m \in owed \ settled : \E c \in broker : c.msg = m

(* The same, when a delivery that is still running may bring the message    *)
(* back: a delivery that comes early never loses the message.  The worker   *)
(* that evaluates its answer late acknowledges the last copy.               *)
EarlyRetryKeepsMessage ==
    run = "live" => \A m \in owed \ settled :
                       \/ \E c \in broker : c.msg = m
                       \/ \E p \in Procs : ~Sending(p) /\ Msg(p) = m /\ ~At(p, "ack")

(* A sender is only answered with another sender's message if the broker    *)
(* accepted that message: a failed or unfinished publication must not make  *)
(* a retry look successful.                                                 *)
NamedWasSent == named \subseteq sent

(* A stored body has an orphan lease, so that its deletion does not depend  *)
(* on the sender, the delivery or the run: a failure between registration,  *)
(* write and publication leaks only until the orphan alarm.                 *)
BodyIsOwned == \A m \in stored : orphan[m] # None

(* A message that is delivered after retention removed the run's bodies is  *)
(* acknowledged without calling the application, in both claim scopes, for  *)
(* inline and stored bodies, and for sends that overlap the expiry.         *)
GoneRunIsNotCalled == \A p \in Procs : At(p, "callback") => proc[p].born # "gone"

(* A claim cell with a record has its alarm set no later than the earliest  *)
(* of its deadlines, so that no reservation or claim stays for ever.        *)
ClaimsAreArmed ==
    scope = "cell" /\ (reservation # None \/ claim # None) => alarm <= Earliest(reservation, claim)
=============================================================================
