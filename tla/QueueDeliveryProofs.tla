------------------------ MODULE QueueDeliveryProofs ------------------------
(***************************************************************************)
(* Proofs about QueueDelivery, for any messages, processes, leases and      *)
(* numbers of faults and deliveries.                                        *)
(*                                                                         *)
(* A process works on its own frame and calls the cells one by one, so the  *)
(* proofs first say how a frame may move (Flow), then, for each store, what *)
(* the steps that touch it do to what the frames rely on.                   *)
(***************************************************************************)
EXTENDS QueueDelivery, FiniteSetTheorems, TLAPS

SendPcs     == {"reserve", "admit", "register", "schedule", "unstage", "write", "finalize", "send",
                "confirm", "abandon"}
DeliveryPcs == {"chain", "claim", "answered", "admitted", "read", "callback", "extend", "hold",
                "suspend", "release", "unclaim", "ack"}
EndPcs      == {"discard", "unlist", "unorphan", "complete"}

(* Where a delivery holds the claim.                                        *)
HoldingPcs  == {"admitted", "read", "callback", "extend", "hold", "release", "unclaim"} \cup EndPcs

(* Where it does not.                                                       *)
UnclaimedPcs == {"chain", "claim", "answered", "suspend"}

(* What is true of a frame f at time t.                                     *)
FrameFits(f, t) ==
    /\ f.at <= t
    /\ f.pc # "idle" => f.msg \in Msgs /\ t <= f.at + RequestLife
    /\ f.pc \in SendPcs => f.copy = None
    /\ f.pc \in DeliveryPcs => f.copy # None
    /\ f.copy # None => f.copy.msg = f.msg /\ f.copy.until <= t + BrokerLife
    /\ f.copy = None \/ f.pc \in {"extend", "hold"} => f.wait <= t + BrokerLife
    /\ f.copy = None /\ f.pc # "idle" => f.at <= f.wait
    /\ f.pc = "answered" => f.wait <= t + Stale + BrokerLife
    /\ f.pc \in {"extend", "hold", "suspend"} => f.delay <= Stale + BrokerLife
    /\ f.claimed => f.copy # None
    /\ f.pc \in HoldingPcs /\ f.copy # None => f.claimed
    /\ f.pc \in UnclaimedPcs => ~f.claimed

FramesFit(pr, t) == pr \in [Procs -> Frame] /\ \A p \in Procs : FrameFits(pr[p], t)

(* The stamps of the records lie within the leases counted from now.        *)
ReservationFits(r, t) == r \in Maybe(Reservation) /\ (r # None => r.expires <= t + BrokerLife + Grace)

ClaimFits(c, t) ==
    /\ c \in Maybe(Claim)
    /\ c # None => /\ c.expires <= t + Stale + BrokerLife
                   /\ c.retryAt # None => c.retryAt <= t + BrokerLife

OrphansFit(o, t) ==
    /\ o \in [Msgs -> Maybe(Orphan)]
    /\ \A m \in Msgs : o[m] # None => o[m].expires <= t + BrokerLife + Grace

CopiesFit(B, t) == B \subseteq Copy /\ \A c \in B : c.until <= t + BrokerLife

TimesFit ==
    /\ now <= bounds.end
    /\ ReservationFits(reservation, now) /\ ClaimFits(claim, now)
    /\ OrphansFit(orphan, now) /\ CopiesFit(broker, now)
    /\ FramesFit(proc, now)

QueueType == TypeOK /\ TimesFit

-----------------------------------------------------------------------------
(* Constants and records *)

LEMMA Constants ==
    /\ Lease \in Nat /\ RequestLife \in Nat /\ Stale \in Nat /\ BrokerLife \in Nat /\ Grace \in Nat
    /\ MaxSuspensions \in Nat /\ MaxFaults \in Nat /\ Horizon \in Nat
    /\ RequestLife < Stale /\ Stale < Grace /\ BrokerLife < Grace
    /\ Lease <= Grace /\ RequestLife < BrokerLife
    /\ None \notin Msgs
BY QueueAssumption

(* None is no record.                                                        *)
LEMMA Records ==
    /\ \A x \in Reservation : x # None
    /\ \A x \in Claim : x # None
    /\ \A x \in Orphan : x # None
    /\ \A x \in Copy : x # None
BY NoneAssumption

LEMMA TheStamps ==
    /\ \A x \in Stamp : x \in Nat /\ x < Never
    /\ \A x \in Nat : x <= Horizon + Stale + BrokerLife + Grace => x \in Stamp
    /\ Never \in Nat
BY Constants DEF Stamp, Never

LEMMA TheBounds ==
    ASSUME QueueType
    PROVE  /\ now \in Nat /\ now <= Horizon /\ bounds.end \in Nat /\ bounds.end <= Horizon
           /\ bounds.sends \subseteq Msgs /\ bounds.delays \subseteq 0..BrokerLife
<1>1. bounds \in Setup
  BY QueueAssumption DEF QueueType, TypeOK
<1>2. bounds.end \in 0..Horizon /\ bounds.sends \subseteq Msgs /\ bounds.delays \subseteq 0..BrokerLife
  BY <1>1 DEF Setup
<1> QED BY <1>2, Constants DEF QueueType, TypeOK

LEMMA FrameFields ==
    ASSUME NEW f \in Frame, NEW pc \in Pc
    PROVE  /\ [f EXCEPT !.pc = pc] \in Frame
           /\ [f EXCEPT !.pc = pc].pc = pc /\ [f EXCEPT !.pc = pc].msg = f.msg
           /\ [f EXCEPT !.pc = pc].copy = f.copy /\ [f EXCEPT !.pc = pc].at = f.at
           /\ [f EXCEPT !.pc = pc].born = f.born /\ [f EXCEPT !.pc = pc].claimed = f.claimed
           /\ [f EXCEPT !.pc = pc].wait = f.wait /\ [f EXCEPT !.pc = pc].delay = f.delay
BY DEF Frame

LEMMA FrameTypes ==
    ASSUME NEW f \in Frame
    PROVE  /\ f.pc \in Pc /\ f.msg \in Maybe(Msgs) /\ f.copy \in Maybe(Copy) /\ f.at \in 0..Horizon
           /\ f.born \in {"live", "fenced", "purged", "gone"} /\ f.claimed \in BOOLEAN
           /\ f.wait \in Stamp /\ f.delay \in Stamp
BY DEF Frame

LEMMA ToFields ==
    ASSUME QueueType, NEW p \in Procs, NEW pc \in Pc
    PROVE  /\ To(p, pc) \in Frame /\ To(p, pc).pc = pc /\ To(p, pc).msg = Msg(p)
           /\ To(p, pc).copy = proc[p].copy /\ To(p, pc).at = proc[p].at
           /\ To(p, pc).born = proc[p].born /\ To(p, pc).claimed = proc[p].claimed
           /\ To(p, pc).wait = proc[p].wait /\ To(p, pc).delay = proc[p].delay
<1>1. proc[p] \in Frame
  BY DEF QueueType, TypeOK
<1> QED BY <1>1, FrameFields DEF To, Msg

LEMMA IdleFits ==
    /\ Idle \in Frame /\ Idle.pc = "idle" /\ Idle.msg = None /\ Idle.copy = None /\ Idle.at = 0
    /\ Idle.born = "live" /\ Idle.claimed = FALSE /\ Idle.wait = 0 /\ Idle.delay = 0
    /\ \A t \in Nat : FrameFits(Idle, t)
<1>1. Idle \in Frame
  BY Constants, TheStamps DEF Idle, Frame, Pc, Maybe
<1>2. /\ Idle.pc = "idle" /\ Idle.msg = None /\ Idle.copy = None /\ Idle.at = 0
      /\ Idle.born = "live" /\ Idle.claimed = FALSE /\ Idle.wait = 0 /\ Idle.delay = 0
  BY DEF Idle
<1>3. \A t \in Nat : FrameFits(Idle, t)
  BY <1>2, Constants DEF FrameFits, SendPcs, DeliveryPcs, HoldingPcs, EndPcs, UnclaimedPcs
<1> QED BY <1>1, <1>2, <1>3

(* The program counters a process may go to with nothing else changed.      *)
LEMMA ToFits ==
    ASSUME QueueType, NEW p \in Procs, ~At(p, "idle"), NEW pc \in Pc,
           pc \in SendPcs => Sending(p),
           pc \in DeliveryPcs => ~Sending(p),
           pc \notin UnclaimedPcs,
           pc \in {"extend", "hold"} => proc[p].pc \in {"extend", "hold"},
           pc \in HoldingPcs => Sending(p) \/ proc[p].claimed
    PROVE  To(p, pc) \in Frame /\ FrameFits(To(p, pc), now)
<1>1. FrameFits(proc[p], now)
  BY DEF QueueType, TimesFit, FramesFit
<1> QED BY <1>1, ToFields DEF FrameFits, At, Sending, Msg, UnclaimedPcs

LEMMA CaughtFits ==
    ASSUME QueueType, NEW p \in Procs, ~At(p, "idle")
    PROVE  Caught(p) \in Frame /\ FrameFits(Caught(p), now)
<1>0. Idle \in Frame /\ FrameFits(Idle, now)
  BY IdleFits, TheBounds
<1>1. {"unstage", "abandon", "unclaim"} \subseteq Pc
  BY DEF Pc
<1>2. CASE Sending(p)
  <2>1. To(p, "unstage") \in Frame /\ FrameFits(To(p, "unstage"), now)
    BY <1>1, <1>2, ToFits DEF SendPcs, DeliveryPcs, HoldingPcs, EndPcs, UnclaimedPcs
  <2>2. To(p, "abandon") \in Frame /\ FrameFits(To(p, "abandon"), now)
    BY <1>1, <1>2, ToFits DEF SendPcs, DeliveryPcs, HoldingPcs, EndPcs, UnclaimedPcs
  <2> QED BY <1>0, <1>2, <2>1, <2>2 DEF Caught
<1>3. CASE ~Sending(p)
  <2>1. CASE proc[p].claimed /\ proc[p].pc # "unclaim"
    <3>1. To(p, "unclaim") \in Frame /\ FrameFits(To(p, "unclaim"), now)
      BY <1>1, <1>3, <2>1, ToFits DEF SendPcs, DeliveryPcs, HoldingPcs, EndPcs, UnclaimedPcs
    <3> QED BY <1>3, <2>1, <3>1 DEF Caught
  <2>2. CASE ~(proc[p].claimed /\ proc[p].pc # "unclaim")
    BY <1>0, <1>3, <2>2 DEF Caught
  <2> QED BY <2>1, <2>2
<1> QED BY <1>2, <1>3

(* The frames after process p went to f.                                    *)
LEMMA GotoFits ==
    ASSUME QueueType, NEW p \in Procs, NEW f \in Frame, FrameFits(f, now), Goto(p, f)
    PROVE  FramesFit(proc', now)
BY DEF QueueType, TypeOK, TimesFit, FramesFit, Goto

FaultsType(fs) == fs \in [count : 0..MaxFaults, untold : BOOLEAN]

LEMMA FailedType ==
    ASSUME QueueType, MayFail, NEW untold \in BOOLEAN, Failed(untold)
    PROVE  FaultsType(faults')
<1>1. faults.count \in Nat /\ faults.untold \in BOOLEAN
  BY Constants DEF QueueType, TypeOK
<1>2. faults.count + 1 \in 0..MaxFaults
  BY <1>1, Constants DEF MayFail
<1>3. (faults.untold \/ untold) \in BOOLEAN
  BY <1>1
<1> QED BY <1>2, <1>3 DEF Failed, FaultsType

LEMMA CalledFits ==
    ASSUME QueueType, NEW p \in Procs, ~At(p, "idle"), NEW f \in Frame, FrameFits(f, now),
           Called(p, f)
    PROVE  FramesFit(proc', now) /\ FaultsType(faults')
<1>1. CASE Goto(p, f) /\ UNCHANGED faults
  BY <1>1, GotoFits DEF QueueType, TypeOK, FaultsType
<1>2. CASE MayFail /\ Goto(p, Caught(p)) /\ Failed(proc[p].pc \in ClaimEnding)
  <2>1. (proc[p].pc \in ClaimEnding) \in BOOLEAN
    OBVIOUS
  <2>2. FaultsType(faults')
    BY <1>2, <2>1, FailedType
  <2>3. FramesFit(proc', now)
    BY <1>2, CaughtFits, GotoFits
  <2> QED BY <2>2, <2>3
<1> QED BY <1>1, <1>2 DEF Called

-----------------------------------------------------------------------------
(* The records of a claim *)

ClaimsFit(r, c, a, t) ==
    ReservationFits(r, t) /\ ClaimFits(c, t) /\ a \in Stamp \cup {Never}

LEMMA NoneFits == \A t : ReservationFits(None, t) /\ ClaimFits(None, t)
BY DEF ReservationFits, ClaimFits, Maybe

LEMMA ReservationRecord ==
    ASSUME NEW r \in Reservation
    PROVE  r.msg \in Msgs /\ r.expires \in Stamp /\ r.pending \in BOOLEAN /\ r.expires \in Nat
BY TheStamps DEF Reservation

LEMMA ClaimRecord ==
    ASSUME NEW c \in Claim
    PROVE  /\ c.msg \in Msgs /\ c.expires \in Stamp /\ c.retryAt \in Maybe(Stamp)
           /\ c.expires \in Nat /\ (c.retryAt # None => c.retryAt \in Nat)
BY TheStamps DEF Claim, Maybe

LEMMA ClaimReplaced ==
    ASSUME NEW c \in Claim, NEW e, NEW x
    PROVE  [c EXCEPT !.retryAt = x, !.expires = e] = [msg |-> c.msg, expires |-> e, retryAt |-> x]
<1>1. c = [msg |-> c.msg, expires |-> c.expires, retryAt |-> c.retryAt]
  BY DEF Claim
<1>2. [c EXCEPT !.retryAt = x] = [msg |-> c.msg, expires |-> c.expires, retryAt |-> x]
  BY <1>1
<1>3. [c EXCEPT !.retryAt = x, !.expires = e] = [[c EXCEPT !.retryAt = x] EXCEPT !.expires = e]
  OBVIOUS
<1>4. [[msg |-> c.msg, expires |-> c.expires, retryAt |-> x] EXCEPT !.expires = e]
        = [msg |-> c.msg, expires |-> e, retryAt |-> x]
  OBVIOUS
<1> QED BY <1>2, <1>3, <1>4

LEMMA NewReservation ==
    ASSUME NEW t \in Nat, t <= Horizon, NEW m \in Msgs, NEW e \in Nat, NEW pending \in BOOLEAN,
           e <= t + BrokerLife + Grace
    PROVE  ReservationFits([msg |-> m, expires |-> e, pending |-> pending], t)
<1>1. e \in Stamp
  BY TheStamps, Constants
<1> QED BY <1>1 DEF ReservationFits, Reservation, Maybe

LEMMA NewClaim ==
    ASSUME NEW t \in Nat, t <= Horizon, NEW m \in Msgs, NEW e \in Nat, NEW x \in Maybe(Nat),
           e <= t + Stale + BrokerLife, x # None => x <= t + BrokerLife
    PROVE  ClaimFits([msg |-> m, expires |-> e, retryAt |-> x], t)
<1>1. e \in Stamp /\ x \in Maybe(Stamp)
  BY TheStamps, Constants DEF Maybe
<1> QED BY <1>1 DEF ClaimFits, Claim, Maybe

LEMMA EarliestStamp ==
    ASSUME NEW r, NEW c, NEW t, ReservationFits(r, t), ClaimFits(c, t)
    PROVE  Earliest(r, c) \in Stamp \cup {Never} /\ Expiry(r) \in Nat /\ Expiry(c) \in Nat
<1>1. Expiry(r) \in Stamp \cup {Never}
  BY ReservationRecord DEF Expiry, ReservationFits, Maybe
<1>2. Expiry(c) \in Stamp \cup {Never}
  BY ClaimRecord DEF Expiry, ClaimFits, Maybe
<1> QED BY <1>1, <1>2, TheStamps DEF Earliest, Earlier

LEMMA PutFits ==
    ASSUME QueueType, NEW r, NEW c, ReservationFits(r, now), ClaimFits(c, now), PutClaims(r, c)
    PROVE  ClaimsFit(reservation', claim', alarm', now)
BY EarliestStamp DEF PutClaims, Arm, ClaimsFit, QueueType, TypeOK

LEMMA KeptFits ==
    ASSUME QueueType
    PROVE  /\ ReservationFits(reservation, now) /\ ClaimFits(claim, now)
           /\ ClaimsFit(reservation, claim, alarm, now)
BY DEF QueueType, TypeOK, TimesFit, ClaimsFit

LEMMA WithoutFits ==
    ASSUME QueueType, NEW m
    PROVE  ReservationFits(Without(reservation, m), now) /\ ClaimFits(Without(claim, m), now)
BY KeptFits, NoneFits DEF Without

LEMMA ProvenFits ==
    ASSUME QueueType, NEW m \in Msgs
    PROVE  ReservationFits(Proven(m), now)
<1>1. CASE Of(reservation, m) /\ reservation.pending
  <2>1. reservation \in Reservation /\ reservation.expires <= now + BrokerLife + Grace
    BY <1>1, KeptFits DEF Of, ReservationFits, Maybe
  <2>2. reservation.expires \in Nat /\ now \in Nat /\ now <= Horizon
    BY <2>1, ReservationRecord, TheBounds
  <2>3. /\ Later(reservation.expires, now + Grace) \in Nat
        /\ Later(reservation.expires, now + Grace) <= now + BrokerLife + Grace
    BY <2>1, <2>2, Constants DEF Later
  <2> QED BY <1>1, <2>2, <2>3, NewReservation DEF Proven
<1>2. CASE ~(Of(reservation, m) /\ reservation.pending)
  BY <1>2, KeptFits DEF Proven
<1> QED BY <1>1, <1>2

LEMMA ConfirmFits ==
    ASSUME QueueType, NEW m \in Msgs, NEW e \in Nat, e <= now + BrokerLife + Grace,
           ConfirmPublication(m, e)
    PROVE  ClaimsFit(reservation', claim', alarm', now)
<1>1. CASE Of(reservation, m)
  <2>1. reservation \in Reservation /\ reservation.expires <= now + BrokerLife + Grace
    BY <1>1, KeptFits DEF Of, ReservationFits, Maybe
  <2>2. reservation.expires \in Nat /\ now \in Nat /\ now <= Horizon
    BY <2>1, ReservationRecord, TheBounds
  <2>3. /\ Later(reservation.expires, e) \in Nat
        /\ Later(reservation.expires, e) <= now + BrokerLife + Grace
    BY <2>1, <2>2, Constants DEF Later
  <2>4. ReservationFits([msg |-> m, expires |-> Later(reservation.expires, e), pending |-> FALSE], now)
    BY <2>2, <2>3, NewReservation
  <2> QED BY <1>1, <2>4, PutFits, KeptFits DEF ConfirmPublication
<1>2. CASE ~Of(reservation, m)
  BY <1>2, KeptFits DEF ConfirmPublication, claims
<1> QED BY <1>1, <1>2

LEMMA HoldFits ==
    ASSUME QueueType, NEW m \in Msgs, NEW x \in Nat, x <= now + BrokerLife, HoldClaim(m, x)
    PROVE  ClaimsFit(reservation', claim', alarm', now)
<1>0. now \in Nat /\ now <= Horizon
  BY TheBounds
<1>1. CASE Of(claim, m)
  <2> DEFINE r == IF Of(reservation, m)
                    THEN [reservation EXCEPT !.expires = Later(@, x + Grace)] ELSE reservation
             c == [claim EXCEPT !.retryAt = x, !.expires = Later(@, x + Stale)]
  <2>1. PutClaims(r, c)
    BY <1>1 DEF HoldClaim
  <2>2. ReservationFits(r, now)
    <3>1. CASE Of(reservation, m)
      <4>1. reservation \in Reservation /\ reservation.expires <= now + BrokerLife + Grace
        BY <3>1, KeptFits DEF Of, ReservationFits, Maybe
      <4>2. reservation.expires \in Nat /\ reservation.pending \in BOOLEAN /\ reservation.msg \in Msgs
        BY <4>1, ReservationRecord
      <4>3. /\ Later(reservation.expires, x + Grace) \in Nat
            /\ Later(reservation.expires, x + Grace) <= now + BrokerLife + Grace
        BY <1>0, <4>1, <4>2, Constants DEF Later
      <4>4. r = [msg |-> reservation.msg, expires |-> Later(reservation.expires, x + Grace),
                 pending |-> reservation.pending]
        BY <3>1, <4>1 DEF Reservation
      <4> HIDE DEF r
      <4> QED BY <1>0, <4>2, <4>3, <4>4, NewReservation
    <3>2. CASE ~Of(reservation, m)
      BY <3>2, KeptFits
    <3> QED BY <3>1, <3>2
  <2>3. ClaimFits(c, now)
    <3>1. claim \in Claim /\ claim.expires <= now + Stale + BrokerLife
      BY <1>1, KeptFits DEF Of, ClaimFits, Maybe
    <3>2. claim.expires \in Nat /\ claim.msg \in Msgs
      BY <3>1, ClaimRecord
    <3>3. /\ Later(claim.expires, x + Stale) \in Nat
          /\ Later(claim.expires, x + Stale) <= now + Stale + BrokerLife
      BY <1>0, <3>1, <3>2, Constants DEF Later
    <3>4. c = [msg |-> claim.msg, expires |-> Later(claim.expires, x + Stale), retryAt |-> x]
      BY <3>1, ClaimReplaced
    <3>5. x \in Maybe(Nat)
      BY DEF Maybe
    <3> HIDE DEF c
    <3> QED BY <1>0, <3>2, <3>3, <3>4, <3>5, NewClaim
  <2> HIDE DEF r, c
  <2> QED BY <2>1, <2>2, <2>3, PutFits
<1>2. CASE ~Of(claim, m)
  BY <1>2, KeptFits DEF HoldClaim, claims
<1> QED BY <1>1, <1>2

-----------------------------------------------------------------------------
(* The bodies *)

LEMMA OrphanRecord ==
    ASSUME NEW x \in Orphan
    PROVE  x.expires \in Nat /\ x.expires \in Stamp /\ x.deleting \in BOOLEAN
BY TheStamps DEF Orphan

LEMMA ScheduleFits ==
    ASSUME QueueType, NEW m \in Msgs, NEW e \in Nat, e <= now + BrokerLife + Grace,
           ScheduleOrphan(m, e)
    PROVE  OrphansFit(orphan', now) /\ orphan'[m] # None /\ orphan'[m].expires >= e
<1> DEFINE x == [expires |-> Later(IF orphan[m] = None THEN 0 ELSE orphan[m].expires, e),
                 deleting |-> FALSE]
<1>0. now \in Nat /\ now <= Horizon /\ OrphansFit(orphan, now)
  BY TheBounds DEF QueueType, TimesFit
<1>1. orphan[m] # None => orphan[m].expires \in Nat /\ orphan[m].expires <= now + BrokerLife + Grace
  BY <1>0, OrphanRecord DEF OrphansFit, Maybe
<1>2. x.expires \in Nat /\ x.expires <= now + BrokerLife + Grace /\ x.expires >= e
  BY <1>0, <1>1, Constants DEF Later
<1>3. x \in Orphan
  <2>1. x.expires \in Stamp
    BY <1>0, <1>2, TheStamps, Constants
  <2> QED BY <2>1 DEF Orphan
<1>4. orphan' = [orphan EXCEPT ![m] = x]
  BY DEF ScheduleOrphan
<1> HIDE DEF x
<1>5. orphan'[m] = x
  BY <1>0, <1>4 DEF OrphansFit
<1> QED BY <1>0, <1>2, <1>3, <1>4, <1>5, Records DEF OrphansFit, Maybe

LEMMA ReplacedFits ==
    ASSUME QueueType, NEW m \in Msgs, NEW deleting \in BOOLEAN
    PROVE  /\ orphan' = [orphan EXCEPT ![m] = None] => OrphansFit(orphan', now)
           /\ orphan' = orphan => OrphansFit(orphan', now)
           /\ orphan[m] # None /\ orphan' = [orphan EXCEPT ![m].deleting = deleting]
                => OrphansFit(orphan', now)
<1>0. OrphansFit(orphan, now)
  BY DEF QueueType, TimesFit
<1>1. ASSUME orphan' = [orphan EXCEPT ![m] = None] PROVE OrphansFit(orphan', now)
  BY <1>0, <1>1 DEF OrphansFit, Maybe
<1>2. ASSUME orphan[m] # None, orphan' = [orphan EXCEPT ![m].deleting = deleting]
      PROVE  OrphansFit(orphan', now)
  <2>1. orphan[m] \in Orphan
    BY <1>0, <1>2 DEF OrphansFit, Maybe
  <2> DEFINE x == [orphan[m] EXCEPT !.deleting = deleting]
  <2>2. x \in Orphan /\ x.expires = orphan[m].expires
    BY <2>1 DEF Orphan
  <2>3. orphan' = [orphan EXCEPT ![m] = x]
    BY <1>2
  <2> HIDE DEF x
  <2> QED BY <1>0, <1>2, <2>2, <2>3 DEF OrphansFit, Maybe
<1> QED BY <1>0, <1>1, <1>2

-----------------------------------------------------------------------------
(* Type correctness *)

LEMMA Assemble ==
    ASSUME QueueType, UNCHANGED <<now, setup>>, run' \in {"live", "fenced", "purged", "gone"},
           ClaimsFit(reservation', claim', alarm', now),
           registered' \subseteq Msgs, stored' \subseteq Msgs, OrphansFit(orphan', now),
           sweep' \in [Msgs -> {"idle", "delete", "unlist", "finish"}],
           CopiesFit(broker', now), FramesFit(proc', now), FaultsType(faults'),
           deliveries' \in Nat, started' \subseteq Msgs, sent' \subseteq Msgs,
           named' \subseteq Msgs, owed' \subseteq Msgs, settled' \subseteq Msgs
    PROVE  QueueType'
BY DEF QueueType, TypeOK, TimesFit, setup, ClaimsFit, ReservationFits, ClaimFits, OrphansFit,
       CopiesFit, FramesFit, FaultsType

(* What is there before the step.                                           *)
LEMMA Parts ==
    ASSUME QueueType
    PROVE  /\ run \in {"live", "fenced", "purged", "gone"}
           /\ ClaimsFit(reservation, claim, alarm, now)
           /\ registered \subseteq Msgs /\ stored \subseteq Msgs /\ OrphansFit(orphan, now)
           /\ sweep \in [Msgs -> {"idle", "delete", "unlist", "finish"}]
           /\ CopiesFit(broker, now) /\ FramesFit(proc, now) /\ FaultsType(faults)
           /\ deliveries \in Nat /\ started \subseteq Msgs /\ sent \subseteq Msgs
           /\ named \subseteq Msgs /\ owed \subseteq Msgs /\ settled \subseteq Msgs
           /\ now \in Nat /\ now <= Horizon
BY TheBounds DEF QueueType, TypeOK, TimesFit, ClaimsFit, FaultsType

(* An active process has a message.                                         *)
LEMMA ActiveMsg ==
    ASSUME QueueType, NEW p \in Procs, ~At(p, "idle")
    PROVE  Msg(p) \in Msgs /\ proc[p] \in Frame /\ FrameFits(proc[p], now)
BY DEF QueueType, TypeOK, TimesFit, FramesFit, FrameFits, At, Msg

(* What a sender confirms until.                                            *)
LEMMA DeadlineFits ==
    ASSUME QueueType, NEW p \in Procs, ~At(p, "idle"),
           Sending(p) \/ proc[p].pc \in {"extend", "hold"}
    PROVE  /\ proc[p].wait \in Nat /\ proc[p].wait <= now + BrokerLife
           /\ Deadline(p) \in Nat /\ Deadline(p) <= now + BrokerLife + Grace
           /\ proc[p].at \in Nat /\ proc[p].at <= now
<1>1. /\ proc[p].wait \in Nat /\ proc[p].at \in Nat /\ proc[p].at <= now
      /\ proc[p].wait <= now + BrokerLife
  BY ActiveMsg, FrameTypes, TheStamps DEF FrameFits, Sending
<1> QED BY <1>1, Constants, Parts DEF Deadline

(* A process that goes on with only its program counter changed.            *)
LEMMA StepTo ==
    ASSUME QueueType, NEW p \in Procs, ~At(p, "idle"), NEW pc \in Pc, Called(p, To(p, pc)),
           \/ Sending(p) /\ pc \notin DeliveryPcs
           \/ /\ ~Sending(p) /\ pc \notin SendPcs \cup UnclaimedPcs \cup {"extend"}
              /\ pc = "hold" => proc[p].pc = "extend"
              /\ pc \in HoldingPcs => proc[p].claimed
    PROVE  FramesFit(proc', now) /\ FaultsType(faults')
<1>1. To(p, pc) \in Frame /\ FrameFits(To(p, pc), now)
  BY ToFits DEF DeliveryPcs, SendPcs, UnclaimedPcs
<1> QED BY <1>1, CalledFits

LEMMA StepIdle ==
    ASSUME QueueType, NEW p \in Procs, ~At(p, "idle"), Called(p, Idle)
    PROVE  FramesFit(proc', now) /\ FaultsType(faults')
BY IdleFits, CalledFits, Parts

(* The same for a step that cannot fail.                                    *)
LEMMA GoingTo ==
    ASSUME QueueType, NEW p \in Procs, ~At(p, "idle"), NEW pc \in Pc, Goto(p, To(p, pc)),
           \/ Sending(p) /\ pc \notin DeliveryPcs
           \/ /\ ~Sending(p) /\ pc \notin SendPcs \cup UnclaimedPcs \cup {"extend"}
              /\ pc = "hold" => proc[p].pc = "extend"
              /\ pc \in HoldingPcs => proc[p].claimed
    PROVE  FramesFit(proc', now)
<1>1. To(p, pc) \in Frame /\ FrameFits(To(p, pc), now)
  BY ToFits DEF DeliveryPcs, SendPcs, UnclaimedPcs
<1> QED BY <1>1, GotoFits

LEMMA SendType ==
    ASSUME QueueType, NEW p \in Procs, NEW m \in bounds.sends, NEW delay \in bounds.delays,
           Send(p, m, delay)
    PROVE  QueueType'
<1>0. /\ m \in Msgs /\ delay \in 0..BrokerLife /\ now \in 0..Horizon
      /\ run \in {"live", "fenced", "purged", "gone"}
  BY TheBounds, Parts, Constants DEF QueueType, TypeOK
<1>1. PICK w \in Stamp : w = now + delay
  BY <1>0, TheStamps, Constants
<1>2. PICK f : /\ f = [Idle EXCEPT !.pc = "reserve", !.msg = m, !.at = now, !.born = run, !.wait = w]
               /\ Goto(p, f)
  BY <1>1 DEF Send
<1>3. /\ f \in Frame /\ f.pc = "reserve" /\ f.msg = m /\ f.copy = None /\ f.at = now
      /\ f.claimed = FALSE /\ f.wait = w
  <2>0. "reserve" \in Pc
    BY DEF Pc
  <2>1. f.pc = "reserve" /\ f.msg = m /\ f.copy = Idle.copy /\ f.at = now
    BY <1>2, IdleFits DEF Frame
  <2>2. f.claimed = Idle.claimed /\ f.wait = w
    BY <1>2, IdleFits DEF Frame
  <2>3. f \in Frame
    BY <1>0, <1>2, <2>0, IdleFits DEF Frame, Maybe
  <2> QED BY <2>1, <2>2, <2>3, IdleFits
<1>4. FrameFits(f, now)
  <2>1. now <= now + RequestLife /\ w <= now + BrokerLife /\ now <= w
    BY <1>0, <1>1, Constants
  <2> QED BY <1>0, <1>3, <2>1, Parts DEF FrameFits, SendPcs, DeliveryPcs, HoldingPcs, EndPcs, UnclaimedPcs
<1>6. FramesFit(proc', now)
  BY <1>2, <1>3, <1>4, GotoFits
<1>7. started' \subseteq Msgs
  BY <1>0, Parts DEF Send
<1> QED BY <1>6, <1>7, Parts, Assemble DEF Send, claims, bodies, ghosts

LEMMA SendPathType ==
    ASSUME QueueType, NEW p \in Procs,
           \/ RefuseExpired(p) \/ FindReserved(p) \/ ReserveMessage(p) \/ Admit(p)
           \/ RegisterQueuePayload(p) \/ ScheduleQueuePayloadOrphan(p) \/ Unstage(p) \/ WriteBody(p)
           \/ FinalizeQueuePayload(p) \/ SendToBroker(p) \/ Confirm(p) \/ Abandon(p)
    PROVE  QueueType'
<1>0. ~At(p, "idle") /\ Sending(p) /\ Msg(p) \in Msgs
  <2>1. proc[p].pc \in SendPcs
    BY DEF RefuseExpired, FindReserved, ReserveMessage, Admit, RegisterQueuePayload,
           ScheduleQueuePayloadOrphan, Unstage, WriteBody, FinalizeQueuePayload, SendToBroker,
           Confirm, Abandon, At, SendPcs, UnclaimedPcs
  <2>2. ~At(p, "idle")
    BY <2>1 DEF At, SendPcs, UnclaimedPcs
  <2> QED BY <2>1, <2>2, ActiveMsg DEF FrameFits, Sending
<1>d. {"register", "admit", "send", "complete", "schedule", "abandon", "write", "finalize",
       "discard", "confirm"} \subseteq Pc \ DeliveryPcs
  BY DEF Pc, DeliveryPcs, UnclaimedPcs
<1>1. CASE RefuseExpired(p)
  BY <1>0, <1>1, StepIdle, Parts, Assemble DEF RefuseExpired, claims, bodies, starts, ghosts
<1>2. CASE FindReserved(p)
  <2>1. FramesFit(proc', now) /\ FaultsType(faults')
    BY <1>0, <1>2, StepIdle DEF FindReserved
  <2>2. alarm' \in Stamp \cup {Never}
    BY <1>2, EarliestStamp, KeptFits DEF FindReserved, Arm, ClaimsFit
  <2>3. reservation.msg \in Msgs
    BY <1>2, KeptFits, ReservationRecord DEF FindReserved, Fresh, ReservationFits, Maybe
  <2>4. named' \subseteq Msgs /\ owed' \subseteq Msgs
    BY <1>2, <2>3, Parts DEF FindReserved
  <2>5. ClaimsFit(reservation', claim', alarm', now)
    BY <1>2, <2>2, KeptFits DEF FindReserved, ClaimsFit
  <2> QED BY <1>2, <2>1, <2>4, <2>5, Parts, Assemble DEF FindReserved, bodies, starts
<1>3. CASE ReserveMessage(p)
  <2> DEFINE e == Later(IF reservation = None THEN 0 ELSE reservation.expires, proc[p].at + Lease)
             pc == IF Msg(p) \notin inline THEN "register"
                   ELSE IF scope = "cell" THEN "admit" ELSE "send"
  <2>1. e \in Nat /\ e <= now + BrokerLife + Grace
    <3>1. reservation # None => /\ reservation.expires \in Nat
                                /\ reservation.expires <= now + BrokerLife + Grace
      BY KeptFits, ReservationRecord DEF ReservationFits, Maybe
    <3>2. proc[p].at \in Nat /\ proc[p].at <= now
      BY <1>0, DeadlineFits
    <3> QED BY <3>1, <3>2, Constants, Parts DEF Later
  <2>2. pc \in Pc \ DeliveryPcs
    BY <1>d
  <2>3. PutClaims([msg |-> Msg(p), pending |-> TRUE, expires |-> e], claim) /\ Called(p, To(p, pc))
    BY <1>3 DEF ReserveMessage
  <2> HIDE DEF e, pc
  <2>4. ReservationFits([msg |-> Msg(p), expires |-> e, pending |-> TRUE], now)
    BY <1>0, <2>1, Parts, NewReservation
  <2>5. ClaimsFit(reservation', claim', alarm', now)
    <3>1. [msg |-> Msg(p), pending |-> TRUE, expires |-> e]
            = [msg |-> Msg(p), expires |-> e, pending |-> TRUE]
      OBVIOUS
    <3> QED BY <2>3, <2>4, <3>1, PutFits, KeptFits
  <2>6. FramesFit(proc', now) /\ FaultsType(faults')
    BY <1>0, <2>2, <2>3, StepTo
  <2> QED BY <1>3, <2>5, <2>6, Parts, Assemble DEF ReserveMessage, bodies, starts, ghosts
<1>4. CASE Admit(p)
  <2>1. PICK ok \in BOOLEAN : Called(p, To(p, IF ok THEN "send" ELSE "complete"))
    BY <1>4 DEF Admit, Admission
  <2>2. FramesFit(proc', now) /\ FaultsType(faults')
    BY <1>0, <1>d, <2>1, StepTo
  <2> QED BY <1>4, <2>2, Parts, Assemble DEF Admit, claims, bodies, starts, ghosts
<1>5. CASE RegisterQueuePayload(p)
  <2>1. FramesFit(proc', now) /\ FaultsType(faults')
    BY <1>0, <1>d, <1>5, StepTo DEF RegisterQueuePayload
  <2>2. registered' \subseteq Msgs
    BY <1>0, <1>5, Parts DEF RegisterQueuePayload
  <2> QED BY <1>5, <2>1, <2>2, Parts, Assemble DEF RegisterQueuePayload, claims, starts, ghosts
<1>6. CASE ScheduleQueuePayloadOrphan(p)
  <2>1. FramesFit(proc', now) /\ FaultsType(faults')
    BY <1>0, <1>d, <1>6, StepTo DEF ScheduleQueuePayloadOrphan
  <2>2. OrphansFit(orphan', now)
    BY <1>0, <1>6, DeadlineFits, ScheduleFits DEF ScheduleQueuePayloadOrphan
  <2> QED BY <1>6, <2>1, <2>2, Parts, Assemble DEF ScheduleQueuePayloadOrphan, claims, starts, ghosts
<1>7. CASE Unstage(p)
  <2>1. FramesFit(proc', now) /\ FaultsType(faults')
    BY <1>0, <1>d, <1>7, StepTo DEF Unstage
  <2>2. registered' \subseteq Msgs
    BY <1>7, Parts DEF Unstage
  <2> QED BY <1>7, <2>1, <2>2, Parts, Assemble DEF Unstage, claims, starts, ghosts
<1>8. CASE WriteBody(p)
  <2>1. FramesFit(proc', now) /\ FaultsType(faults')
    BY <1>0, <1>d, <1>8, StepTo DEF WriteBody
  <2>2. stored' \subseteq Msgs
    BY <1>0, <1>8, Parts DEF WriteBody
  <2> QED BY <1>8, <2>1, <2>2, Parts, Assemble DEF WriteBody, claims, starts, ghosts
<1>9. CASE FinalizeQueuePayload(p)
  <2>1. FramesFit(proc', now) /\ FaultsType(faults')
    BY <1>0, <1>d, <1>9, StepTo DEF FinalizeQueuePayload
  <2> QED BY <1>9, <2>1, Parts, Assemble DEF FinalizeQueuePayload, claims, bodies, starts, ghosts
<1>10. CASE SendToBroker(p)
  <2>1. FramesFit(proc', now) /\ FaultsType(faults')
    BY <1>0, <1>d, <1>10, StepTo DEF SendToBroker
  <2>2. CopiesFit(broker', now)
    <3>1. /\ proc[p].wait \in Stamp /\ now + BrokerLife \in Stamp
          /\ 0 \in 0..MaxSuspensions
      BY <1>0, ActiveMsg, FrameTypes, TheStamps, Constants, Parts
    <3>2. [msg |-> Msg(p), notBefore |-> proc[p].wait, until |-> now + BrokerLife, count |-> 0]
            \in Copy
      BY <1>0, <3>1 DEF Copy
    <3>3. now + BrokerLife <= now + BrokerLife
      BY Parts, Constants
    <3> QED BY <1>10, <3>2, <3>3, Parts DEF SendToBroker, CopiesFit
  <2>3. sent' \subseteq Msgs
    BY <1>0, <1>10, Parts DEF SendToBroker
  <2> QED BY <1>10, <2>1, <2>2, <2>3, Parts, Assemble DEF SendToBroker, claims, bodies, starts
<1>11. CASE Confirm(p)
  <2>1. FramesFit(proc', now) /\ FaultsType(faults')
    BY <1>0, <1>11, StepIdle DEF Confirm
  <2>2. ClaimsFit(reservation', claim', alarm', now)
    BY <1>0, <1>11, DeadlineFits, ConfirmFits DEF Confirm
  <2>3. owed' \subseteq Msgs
    BY <1>0, <1>11, Parts DEF Confirm
  <2> QED BY <1>11, <2>1, <2>2, <2>3, Parts, Assemble DEF Confirm, bodies, starts
<1>12. CASE Abandon(p)
  <2>1. FramesFit(proc', now) /\ FaultsType(faults')
    BY <1>0, <1>12, StepIdle DEF Abandon
  <2>2. ClaimsFit(reservation', claim', alarm', now)
    BY <1>12, PutFits, KeptFits, NoneFits DEF Abandon, AbandonReservation, claims
  <2> QED BY <1>12, <2>1, <2>2, Parts, Assemble DEF Abandon, bodies, starts, ghosts
<1> QED BY <1>1, <1>2, <1>3, <1>4, <1>5, <1>6, <1>7, <1>8, <1>9, <1>10, <1>11, <1>12

LEMMA ClaimedChange ==
    ASSUME NEW f \in Frame, NEW x \in BOOLEAN, NEW g, g = [f EXCEPT !.claimed = x]
    PROVE  /\ g \in Frame /\ g.pc = f.pc /\ g.msg = f.msg /\ g.copy = f.copy /\ g.at = f.at
           /\ g.born = f.born /\ g.claimed = x /\ g.wait = f.wait /\ g.delay = f.delay
BY DEF Frame

LEMMA WaitChange ==
    ASSUME NEW f \in Frame, NEW x \in Stamp, NEW g, g = [f EXCEPT !.wait = x]
    PROVE  /\ g \in Frame /\ g.pc = f.pc /\ g.msg = f.msg /\ g.copy = f.copy /\ g.at = f.at
           /\ g.born = f.born /\ g.claimed = f.claimed /\ g.wait = x /\ g.delay = f.delay
BY DEF Frame

LEMMA DelayChange ==
    ASSUME NEW f \in Frame, NEW x \in Stamp, NEW g, g = [f EXCEPT !.delay = x]
    PROVE  /\ g \in Frame /\ g.pc = f.pc /\ g.msg = f.msg /\ g.copy = f.copy /\ g.at = f.at
           /\ g.born = f.born /\ g.claimed = f.claimed /\ g.wait = f.wait /\ g.delay = x
BY DEF Frame

LEMMA CopyRecord ==
    ASSUME NEW c \in Copy
    PROVE  /\ c.msg \in Msgs /\ c.notBefore \in Stamp /\ c.until \in Stamp /\ c.until \in Nat
           /\ c.count \in 0..MaxSuspensions /\ c # None
BY TheStamps, Records DEF Copy

LEMMA DeliverType ==
    ASSUME QueueType, NEW p \in Procs, NEW c \in broker, Deliver(p, c)
    PROVE  QueueType'
<1>0. /\ c \in Copy /\ c # None /\ c.msg \in Msgs /\ c.until <= now + BrokerLife
      /\ now \in 0..Horizon /\ run \in {"live", "fenced", "purged", "gone"}
  BY Parts, CopyRecord DEF CopiesFit
<1>1. PICK pc \in {"chain", "claim"} :
        Goto(p, [Idle EXCEPT !.pc = pc, !.msg = c.msg, !.copy = c, !.at = now, !.born = run])
  BY DEF Deliver
<1>2. PICK f : /\ f = [Idle EXCEPT !.pc = pc, !.msg = c.msg, !.copy = c, !.at = now, !.born = run]
               /\ Goto(p, f)
  BY <1>1
<1>3. /\ f \in Frame /\ f.pc = pc /\ f.msg = c.msg /\ f.copy = c /\ f.at = now /\ f.claimed = FALSE
  <2>0. pc \in Pc
    BY DEF Pc
  <2>1. f.pc = pc /\ f.msg = c.msg /\ f.copy = c /\ f.at = now
    BY <1>2, IdleFits DEF Frame
  <2>2. f.claimed = Idle.claimed
    BY <1>2, IdleFits DEF Frame
  <2>3. f \in Frame
    BY <1>0, <1>2, <2>0, IdleFits DEF Frame, Maybe
  <2> QED BY <2>1, <2>2, <2>3, IdleFits
<1>4. FrameFits(f, now)
  <2>1. now <= now + RequestLife /\ now <= now
    BY <1>0, Constants
  <2> QED BY <1>0, <1>3, <2>1, Parts DEF FrameFits, SendPcs, DeliveryPcs, HoldingPcs, EndPcs, UnclaimedPcs
<1>5. FramesFit(proc', now)
  BY <1>2, <1>3, <1>4, GotoFits
<1>6. deliveries' \in Nat
  BY Parts DEF Deliver
<1> QED BY <1>5, <1>6, Parts, Assemble DEF Deliver, claims, bodies, ghosts

LEMMA RepublishFits ==
    ASSUME QueueType, NEW p \in Procs, ~At(p, "idle"), ~Sending(p), NEW c \in Copy, Republish(p, c)
    PROVE  FramesFit(proc', now) /\ FaultsType(faults') /\ CopiesFit(broker', now)
<1>1. FramesFit(proc', now) /\ FaultsType(faults')
  <2>1. "ack" \in Pc /\ "ack" \notin SendPcs \cup UnclaimedPcs \cup {"extend"} \cup HoldingPcs
    BY DEF Pc, SendPcs, HoldingPcs, EndPcs, UnclaimedPcs
  <2> QED BY <2>1, StepTo DEF Republish
<1>2. PICK d : d = [c EXCEPT !.until = now + BrokerLife] /\ broker' = broker \cup {d}
  BY DEF Republish
<1>3. now + BrokerLife \in Stamp /\ now + BrokerLife <= now + BrokerLife
  BY TheBounds, TheStamps, Constants
<1>4. d \in Copy /\ d.until = now + BrokerLife
  BY <1>2, <1>3 DEF Copy
<1> QED BY <1>1, <1>2, <1>3, <1>4, Parts DEF CopiesFit

(* Steps of a delivery that only move on.                                   *)
LEMMA OwnerClaims ==
    ASSUME QueueType, NEW p \in Procs, proc[p].pc \in HoldingPcs
    PROVE  ~At(p, "idle") /\ (Sending(p) \/ proc[p].claimed)
BY Parts DEF FramesFit, FrameFits, HoldingPcs, EndPcs, At, Sending, UnclaimedPcs

LEMMA DeliveryPathType ==
    ASSUME QueueType, NEW p \in Procs,
           \/ Chain(p) \/ ClaimExpired(p) \/ ClaimMessage(p) \/ ClaimTaken(p) \/ ClaimEarly(p)
           \/ EvaluateAnswer(p) \/ CheckAdmission(p) \/ ReadBody(p)
    PROVE  QueueType'
<1>0. /\ ~At(p, "idle") /\ ~Sending(p) /\ Msg(p) \in Msgs /\ proc[p] \in Frame
      /\ FrameFits(proc[p], now) /\ proc[p].copy \in Copy /\ proc[p].copy # None
  <2>1. proc[p].pc \in DeliveryPcs
    BY DEF Chain, ClaimExpired, ClaimMessage, ClaimTaken, ClaimEarly, EvaluateAnswer, CheckAdmission,
           ReadBody, At, DeliveryPcs, UnclaimedPcs
  <2>2. ~At(p, "idle")
    BY <2>1 DEF At, DeliveryPcs, UnclaimedPcs
  <2> QED BY <2>1, <2>2, ActiveMsg, FrameTypes DEF FrameFits, Sending, Maybe
<1>a. "ack" \in Pc /\ "ack" \notin SendPcs \cup UnclaimedPcs \cup {"extend", "hold"} \cup HoldingPcs
  BY DEF Pc, SendPcs, HoldingPcs, EndPcs, UnclaimedPcs
<1>b. {"callback", "unlist", "complete"} \subseteq
        Pc \ (SendPcs \cup UnclaimedPcs \cup {"extend", "hold"})
  BY DEF Pc, SendPcs, UnclaimedPcs
<1>c. {"answered", "suspend", "read", "admitted", "callback"} \subseteq DeliveryPcs \cap (Pc \ SendPcs)
  BY DEF Pc, SendPcs, DeliveryPcs, UnclaimedPcs
<1>1. CASE Chain(p)
  BY <1>0, <1>1, RepublishFits, Parts, Assemble DEF Chain, Republish, claims, bodies, starts, ghosts
<1>2. CASE ClaimExpired(p)
  <2>1. FramesFit(proc', now) /\ FaultsType(faults')
    BY <1>0, <1>a, <1>2, StepTo DEF ClaimExpired
  <2> QED BY <1>2, <2>1, Parts, Assemble DEF ClaimExpired, claims, bodies, starts, ghosts
<1>3. CASE ClaimMessage(p)
  <2>1. PICK pc \in {"read", "admitted", "callback"} : Called(p, [To(p, pc) EXCEPT !.claimed = TRUE])
    BY <1>3 DEF ClaimMessage
  <2>2. PICK f : f = [To(p, pc) EXCEPT !.claimed = TRUE] /\ Called(p, f)
    BY <2>1
  <2>3. pc \in Pc /\ TRUE \in BOOLEAN
    BY <1>c
  <2>4. /\ f \in Frame /\ f.pc = pc /\ f.msg = Msg(p) /\ f.copy = proc[p].copy /\ f.at = proc[p].at
        /\ f.claimed = TRUE
    <3>1. PICK h : h = To(p, pc)
      OBVIOUS
    <3>2. /\ h \in Frame /\ h.pc = pc /\ h.msg = Msg(p) /\ h.copy = proc[p].copy
          /\ h.at = proc[p].at
      BY <2>3, <3>1, ToFields
    <3>3. f = [h EXCEPT !.claimed = TRUE]
      BY <2>2, <3>1
    <3> QED BY <2>3, <3>2, <3>3, ClaimedChange
  <2>5. FrameFits(f, now)
    BY <1>0, <1>c, <2>1, <2>4 DEF FrameFits, At, Sending, Msg, UnclaimedPcs
  <2>6. FramesFit(proc', now) /\ FaultsType(faults')
    BY <1>0, <2>2, <2>4, <2>5, CalledFits
  <2>7. now + Stale \in Nat /\ now + Stale <= now + Stale + BrokerLife /\ None \in Maybe(Nat)
    BY Parts, Constants DEF Maybe
  <2>8. ClaimFits([msg |-> Msg(p), expires |-> now + Stale, retryAt |-> None], now)
    BY <1>0, <2>7, Parts, NewClaim
  <2>9. ClaimsFit(reservation', claim', alarm', now)
    BY <1>0, <1>3, <2>8, ProvenFits, PutFits DEF ClaimMessage
  <2> QED BY <1>3, <2>6, <2>9, Parts, Assemble DEF ClaimMessage, bodies, starts, ghosts
<1>4. CASE ClaimTaken(p)
  <2>1. FramesFit(proc', now) /\ FaultsType(faults')
    BY <1>0, <1>a, <1>4, StepTo DEF ClaimTaken
  <2>2. claim.msg \in Msgs
    BY <1>4, KeptFits, ClaimRecord DEF ClaimTaken, Blocks, Fresh, ClaimFits, Maybe
  <2>3. settled' \subseteq Msgs /\ owed' \subseteq Msgs
    BY <1>0, <1>4, <2>2, Parts DEF ClaimTaken
  <2>4. ClaimsFit(reservation', claim', alarm', now)
    BY <1>0, <1>4, KeptFits, ProvenFits DEF ClaimTaken, ClaimsFit
  <2> QED BY <1>4, <2>1, <2>3, <2>4, Parts, Assemble DEF ClaimTaken, bodies, starts
<1>5. CASE ClaimEarly(p)
  <2>0. claim \in Claim /\ claim.expires <= now + Stale + BrokerLife
        /\ (claim.retryAt # None => claim.retryAt <= now + BrokerLife)
    BY <1>5, KeptFits DEF ClaimEarly, Blocks, Fresh, ClaimFits, Maybe
  <2>1. PICK w : /\ w = IF claim.retryAt = None THEN claim.expires ELSE claim.retryAt
                 /\ Called(p, [To(p, "answered") EXCEPT !.wait = w])
    BY <1>5 DEF ClaimEarly
  <2>2. w \in Stamp /\ w <= now + Stale + BrokerLife
    <3>1. w \in Stamp
      BY <2>0, <2>1, ClaimRecord DEF Maybe
    <3>2. claim.retryAt # None => claim.retryAt \in Nat /\ claim.retryAt <= now + Stale + BrokerLife
      BY <2>0, ClaimRecord, Constants, Parts
    <3> QED BY <2>0, <2>1, <3>1, <3>2
  <2>3. PICK f : f = [To(p, "answered") EXCEPT !.wait = w] /\ Called(p, f)
    BY <2>1
  <2>4. /\ f \in Frame /\ f.pc = "answered" /\ f.msg = Msg(p) /\ f.copy = proc[p].copy
        /\ f.at = proc[p].at /\ f.claimed = proc[p].claimed /\ f.wait = w
    <3>1. PICK h : h = To(p, "answered")
      OBVIOUS
    <3>2. /\ h \in Frame /\ h.pc = "answered" /\ h.msg = Msg(p) /\ h.copy = proc[p].copy
          /\ h.at = proc[p].at /\ h.claimed = proc[p].claimed
      BY <1>c, <3>1, ToFields
    <3>3. f = [h EXCEPT !.wait = w]
      BY <2>3, <3>1
    <3> QED BY <2>2, <3>2, <3>3, WaitChange
  <2>5. FrameFits(f, now)
    BY <1>0, <1>c, <1>5, <2>2, <2>4 DEF ClaimEarly, FrameFits, At, Sending, Msg, HoldingPcs, EndPcs, UnclaimedPcs
  <2>6. FramesFit(proc', now) /\ FaultsType(faults')
    BY <1>0, <2>3, <2>4, <2>5, CalledFits
  <2>7. ClaimsFit(reservation', claim', alarm', now)
    BY <1>0, <1>5, KeptFits, ProvenFits DEF ClaimEarly, ClaimsFit
  <2> QED BY <1>5, <2>6, <2>7, Parts, Assemble DEF ClaimEarly, bodies, starts, ghosts
<1>6. CASE EvaluateAnswer(p)
  <2>1. CASE proc[p].wait > now
    <3>0. proc[p].wait \in Stamp /\ proc[p].wait \in Nat /\ proc[p].wait <= now + Stale + BrokerLife
      BY <1>0, <1>6, FrameTypes, TheStamps DEF EvaluateAnswer, At, FrameFits
    <3>1. PICK d : d = proc[p].wait - now
      OBVIOUS
    <3>2. d \in Nat /\ d <= Stale + BrokerLife /\ d \in Stamp
      BY <2>1, <3>0, <3>1, Parts, Constants, TheStamps
    <3>3. PICK f : f = [To(p, "suspend") EXCEPT !.delay = d] /\ Goto(p, f)
      BY <1>6, <2>1, <3>1 DEF EvaluateAnswer
    <3>4. /\ f \in Frame /\ f.pc = "suspend" /\ f.msg = Msg(p) /\ f.copy = proc[p].copy
          /\ f.at = proc[p].at /\ f.claimed = proc[p].claimed /\ f.delay = d
      <4>1. PICK h : h = To(p, "suspend")
        OBVIOUS
      <4>2. /\ h \in Frame /\ h.pc = "suspend" /\ h.msg = Msg(p) /\ h.copy = proc[p].copy
            /\ h.at = proc[p].at /\ h.claimed = proc[p].claimed
        BY <1>c, <4>1, ToFields
      <4>3. f = [h EXCEPT !.delay = d]
        BY <3>3, <4>1
      <4> QED BY <3>2, <4>2, <4>3, DelayChange
    <3>5. FrameFits(f, now)
      BY <1>0, <1>c, <1>6, <3>2, <3>4 DEF EvaluateAnswer, FrameFits, At, Sending, Msg, HoldingPcs, EndPcs, UnclaimedPcs
    <3>6. FramesFit(proc', now)
      BY <3>3, <3>4, <3>5, GotoFits
    <3> QED BY <1>6, <3>6, Parts, Assemble DEF EvaluateAnswer, claims, bodies, starts, ghosts
  <2>2. CASE ~(proc[p].wait > now)
    <3>1. FramesFit(proc', now)
      BY <1>0, <1>a, <1>6, <2>2, GoingTo DEF EvaluateAnswer
    <3> QED BY <1>6, <3>1, Parts, Assemble DEF EvaluateAnswer, claims, bodies, starts, ghosts
  <2> QED BY <2>1, <2>2
<1>7. CASE CheckAdmission(p)
  <2>0. proc[p].claimed
    BY <1>0, <1>7, OwnerClaims DEF CheckAdmission, At, HoldingPcs, UnclaimedPcs
  <2>1. PICK pc \in {"callback", "complete"} : Called(p, To(p, pc))
    BY <1>7 DEF CheckAdmission
  <2>2. FramesFit(proc', now) /\ FaultsType(faults')
    BY <1>0, <1>b, <2>0, <2>1, StepTo
  <2> QED BY <1>7, <2>2, Parts, Assemble DEF CheckAdmission, claims, bodies, starts, ghosts
<1>8. CASE ReadBody(p)
  <2>0. proc[p].claimed
    BY <1>0, <1>8, OwnerClaims DEF ReadBody, At, HoldingPcs, UnclaimedPcs
  <2>1. PICK pc \in {"callback", "unlist"} : Called(p, To(p, pc))
    BY <1>8 DEF ReadBody
  <2>2. FramesFit(proc', now) /\ FaultsType(faults')
    BY <1>0, <1>b, <2>0, <2>1, StepTo
  <2> QED BY <1>8, <2>2, Parts, Assemble DEF ReadBody, claims, bodies, starts, ghosts
<1> QED BY <1>1, <1>2, <1>3, <1>4, <1>5, <1>6, <1>7, <1>8

LEMMA CallbackPathType ==
    ASSUME QueueType, NEW p \in Procs,
           \/ CallbackDone(p) \/ CallbackFails(p) \/ \E delay \in Delays : CallbackSuspends(p, delay)
           \/ ExtendOrphan(p) \/ ExtendRefused(p) \/ Hold(p) \/ Suspend(p) \/ SuspendedTooOften(p)
           \/ Release(p) \/ Ack(p)
    PROVE  QueueType'
<1>0. /\ ~At(p, "idle") /\ ~Sending(p) /\ Msg(p) \in Msgs /\ proc[p] \in Frame
      /\ FrameFits(proc[p], now) /\ proc[p].copy \in Copy /\ proc[p].copy # None
  <2>1. proc[p].pc \in DeliveryPcs
    BY DEF CallbackDone, CallbackFails, CallbackSuspends, ExtendOrphan, ExtendRefused, Hold, Suspend,
           SuspendedTooOften, Release, Ack, At, DeliveryPcs, UnclaimedPcs
  <2>2. ~At(p, "idle")
    BY <2>1 DEF At, DeliveryPcs, UnclaimedPcs
  <2> QED BY <2>1, <2>2, ActiveMsg, FrameTypes DEF FrameFits, Sending, Maybe
<1>b. {"complete", "discard", "release", "unclaim"} \subseteq
        Pc \ (SendPcs \cup UnclaimedPcs \cup {"extend", "hold"})
  BY DEF Pc, SendPcs, UnclaimedPcs
<1>c. {"hold", "extend", "suspend"} \subseteq DeliveryPcs \cap (Pc \ SendPcs)
  BY DEF Pc, SendPcs, DeliveryPcs, UnclaimedPcs
<1>1. CASE CallbackDone(p)
  <2>0. proc[p].claimed
    BY <1>0, <1>1, OwnerClaims DEF CallbackDone, At, HoldingPcs, UnclaimedPcs
  <2>1. PICK pc \in {"complete", "discard"} : Goto(p, To(p, pc))
    BY <1>1 DEF CallbackDone
  <2>2. FramesFit(proc', now)
    BY <1>0, <1>b, <2>0, <2>1, GoingTo
  <2>3. settled' \subseteq Msgs
    BY <1>0, <1>1, Parts DEF CallbackDone
  <2> QED BY <1>1, <2>2, <2>3, Parts, Assemble DEF CallbackDone, claims, bodies, starts
<1>2. CASE CallbackFails(p)
  <2>0. proc[p].claimed
    BY <1>0, <1>2, OwnerClaims DEF CallbackFails, At, HoldingPcs, UnclaimedPcs
  <2>1. PICK pc \in {"release", "unclaim"} : Goto(p, To(p, pc))
    BY <1>2 DEF CallbackFails
  <2>2. FramesFit(proc', now)
    BY <1>0, <1>b, <2>0, <2>1, GoingTo
  <2> QED BY <1>2, <2>2, Parts, Assemble DEF CallbackFails, claims, bodies, starts, ghosts
<1>3. ASSUME NEW delay \in Delays, CallbackSuspends(p, delay) PROVE QueueType'
  <2>0. proc[p].claimed
    BY <1>0, <1>3, OwnerClaims DEF CallbackSuspends, At, HoldingPcs, UnclaimedPcs
  <2>1. PICK pc \in {"hold", "extend"} :
          Goto(p, [To(p, pc) EXCEPT !.wait = now + delay, !.delay = delay])
    BY <1>3 DEF CallbackSuspends
  <2>2. PICK h : h = To(p, pc)
    OBVIOUS
  <2>3. /\ h \in Frame /\ h.pc = pc /\ h.msg = Msg(p) /\ h.copy = proc[p].copy
        /\ h.at = proc[p].at /\ h.claimed = proc[p].claimed
    BY <1>c, <2>2, ToFields
  <2>4. delay \in Nat /\ delay <= BrokerLife
    BY QueueAssumption
  <2>5. PICK w : w = now + delay
    OBVIOUS
  <2>6. delay \in Stamp /\ w \in Stamp /\ w <= now + BrokerLife /\ delay <= Stale + BrokerLife
    BY <2>4, <2>5, Constants, Parts, TheStamps
  <2>7. PICK f : f = [[h EXCEPT !.wait = w] EXCEPT !.delay = delay] /\ Goto(p, f)
    BY <2>1, <2>2, <2>5
  <2>8. /\ f \in Frame /\ f.pc = pc /\ f.msg = Msg(p) /\ f.copy = proc[p].copy
        /\ f.at = proc[p].at /\ f.claimed = proc[p].claimed /\ f.wait = w /\ f.delay = delay
    <3>1. PICK g : g = [h EXCEPT !.wait = w]
      OBVIOUS
    <3>2. /\ g \in Frame /\ g.pc = pc /\ g.msg = Msg(p) /\ g.copy = proc[p].copy
          /\ g.at = proc[p].at /\ g.claimed = proc[p].claimed /\ g.wait = w
      BY <2>3, <2>6, <3>1, WaitChange
    <3>3. f = [g EXCEPT !.delay = delay]
      BY <2>7, <3>1
    <3> QED BY <2>6, <3>2, <3>3, DelayChange
  <2>9. FrameFits(f, now)
    BY <1>0, <1>c, <2>0, <2>6, <2>8 DEF FrameFits, At, Sending, Msg, UnclaimedPcs
  <2>10. FramesFit(proc', now)
    BY <2>7, <2>8, <2>9, GotoFits
  <2> QED BY <1>3, <2>10, Parts, Assemble DEF CallbackSuspends, claims, bodies, starts, ghosts
<1>4. CASE ExtendOrphan(p)
  <2>0. proc[p].claimed /\ At(p, "extend")
    BY <1>0, <1>4, OwnerClaims DEF ExtendOrphan, At, HoldingPcs, UnclaimedPcs
  <2>1. "hold" \notin SendPcs \cup UnclaimedPcs \cup {"extend"}
    BY DEF SendPcs, UnclaimedPcs
  <2>2. FramesFit(proc', now) /\ FaultsType(faults')
    BY <1>0, <1>4, <1>c, <2>0, <2>1, StepTo DEF ExtendOrphan, At
  <2>3. Deadline(p) \in Nat /\ Deadline(p) <= now + BrokerLife + Grace
    BY <1>0, <2>0, DeadlineFits DEF At
  <2>4. OrphansFit(orphan', now)
    BY <1>0, <1>4, <2>3, ScheduleFits DEF ExtendOrphan
  <2> QED BY <1>4, <2>2, <2>4, Parts, Assemble DEF ExtendOrphan, claims, starts, ghosts
<1>5. CASE ExtendRefused(p)
  <2>1. FramesFit(proc', now)
    BY <1>0, <1>5, CaughtFits, GotoFits DEF ExtendRefused
  <2> QED BY <1>5, <2>1, Parts, Assemble DEF ExtendRefused, claims, bodies, starts, ghosts
<1>6. CASE Hold(p)
  <2>0. At(p, "hold") /\ proc[p].wait \in Nat /\ proc[p].wait <= now + BrokerLife
    BY <1>0, <1>6, DeadlineFits DEF Hold, At
  <2>1. ClaimsFit(reservation', claim', alarm', now)
    BY <1>0, <1>6, <2>0, HoldFits DEF Hold
  <2>2. PICK h : h = To(p, "suspend")
    OBVIOUS
  <2>3. /\ h \in Frame /\ h.pc = "suspend" /\ h.msg = Msg(p) /\ h.copy = proc[p].copy
        /\ h.at = proc[p].at /\ h.wait = proc[p].wait /\ h.delay = proc[p].delay
    BY <1>c, <2>2, ToFields
  <2>4. PICK f : f = [h EXCEPT !.claimed = FALSE] /\ Called(p, f)
    BY <1>6, <2>2 DEF Hold
  <2>5. /\ f \in Frame /\ f.pc = "suspend" /\ f.msg = Msg(p) /\ f.copy = proc[p].copy
        /\ f.at = proc[p].at /\ f.delay = proc[p].delay /\ f.claimed = FALSE
    <3>1. f.pc = h.pc /\ f.msg = h.msg /\ f.copy = h.copy /\ f.at = h.at /\ f.delay = h.delay
      BY <2>3, <2>4 DEF Frame
    <3>2. f \in Frame /\ f.claimed = FALSE
      BY <2>3, <2>4 DEF Frame
    <3> QED BY <2>3, <3>1, <3>2
  <2>6. FrameFits(f, now)
    BY <1>0, <1>c, <2>0, <2>5 DEF FrameFits, At, Sending, Msg, HoldingPcs, EndPcs, UnclaimedPcs
  <2>7. FramesFit(proc', now) /\ FaultsType(faults')
    BY <1>0, <2>4, <2>5, <2>6, CalledFits
  <2> QED BY <1>6, <2>1, <2>7, Parts, Assemble DEF Hold, bodies, starts, ghosts
<1>7. CASE Suspend(p)
  <2> DEFINE c == proc[p].copy
  <2>1. PICK n, k : n = now + proc[p].delay /\ k = c.count + 1
    OBVIOUS
  <2>2. n \in Stamp /\ k \in 0..MaxSuspensions
    <3>1. proc[p].delay \in Nat /\ proc[p].delay <= Stale + BrokerLife
      BY <1>0, <1>7, FrameTypes, TheStamps DEF Suspend, At, FrameFits
    <3>2. c.count \in 0..MaxSuspensions /\ c.count < MaxSuspensions
      BY <1>0, <1>7, CopyRecord DEF Suspend
    <3> QED BY <2>1, <3>1, <3>2, Constants, Parts, TheStamps
  <2>3. PICK d : d = [c EXCEPT !.notBefore = n, !.count = k] /\ Republish(p, d)
    BY <1>7, <2>1 DEF Suspend
  <2>4. d \in Copy
    BY <1>0, <2>2, <2>3 DEF Copy
  <2> QED BY <1>0, <1>7, <2>3, <2>4, RepublishFits, Parts, Assemble
          DEF Suspend, Republish, claims, bodies, starts, ghosts
<1>8. CASE SuspendedTooOften(p)
  <2>1. FramesFit(proc', now)
    BY <1>8, IdleFits, Parts, GotoFits DEF SuspendedTooOften
  <2> QED BY <1>8, <2>1, Parts, Assemble DEF SuspendedTooOften, claims, bodies, starts, ghosts
<1>9. CASE Release(p)
  <2>1. FramesFit(proc', now) /\ FaultsType(faults')
    BY <1>0, <1>9, StepIdle DEF Release
  <2>2. ClaimsFit(reservation', claim', alarm', now)
    BY <1>9, PutFits, KeptFits, NoneFits DEF Release, ReleaseClaim, claims
  <2> QED BY <1>9, <2>1, <2>2, Parts, Assemble DEF Release, bodies, starts, ghosts
<1>10. CASE Ack(p)
  <2>1. FramesFit(proc', now)
    BY <1>10, IdleFits, Parts, GotoFits DEF Ack
  <2>2. CopiesFit(broker', now)
    BY <1>10, Parts DEF Ack, CopiesFit
  <2> QED BY <1>10, <2>1, <2>2, Parts, Assemble DEF Ack, claims, bodies, starts, ghosts
<1> QED BY <1>1, <1>2, <1>3, <1>4, <1>5, <1>6, <1>7, <1>8, <1>9, <1>10

LEMMA EndPathType ==
    ASSUME QueueType, NEW p \in Procs,
           \/ DeleteBody(p) \/ UnregisterQueuePayload(p) \/ CancelQueuePayloadOrphan(p) \/ Complete(p)
           \/ CallFails(p) \/ Lose(p)
    PROVE  QueueType'
<1>0. ~At(p, "idle") /\ Msg(p) \in Msgs
  <2>1. ~At(p, "idle")
    BY DEF DeleteBody, UnregisterQueuePayload, CancelQueuePayloadOrphan, Complete, CallFails, Lose, At,
           Calls
  <2> QED BY <2>1, ActiveMsg
<1>a. {"unlist", "unorphan", "complete"} \subseteq
        Pc \ (DeliveryPcs \cup SendPcs \cup UnclaimedPcs \cup {"extend", "hold"})
  BY DEF Pc, SendPcs, DeliveryPcs, UnclaimedPcs
<1>b. "ack" \in Pc /\ "ack" \notin SendPcs \cup UnclaimedPcs \cup {"extend", "hold"} \cup HoldingPcs
  BY DEF Pc, SendPcs, HoldingPcs, EndPcs, UnclaimedPcs
<1>c. proc[p].pc \in EndPcs => Sending(p) \/ proc[p].claimed
  BY OwnerClaims DEF HoldingPcs, UnclaimedPcs
<1>1. CASE DeleteBody(p)
  <2>1. FramesFit(proc', now) /\ FaultsType(faults')
    BY <1>0, <1>a, <1>c, <1>1, StepTo DEF DeleteBody, At, EndPcs
  <2>2. stored' \subseteq Msgs
    BY <1>1, Parts DEF DeleteBody
  <2> QED BY <1>1, <2>1, <2>2, Parts, Assemble DEF DeleteBody, claims, starts, ghosts
<1>2. CASE UnregisterQueuePayload(p)
  <2>1. FramesFit(proc', now) /\ FaultsType(faults')
    BY <1>0, <1>a, <1>c, <1>2, StepTo DEF UnregisterQueuePayload, At, EndPcs
  <2>2. registered' \subseteq Msgs
    BY <1>2, Parts DEF UnregisterQueuePayload
  <2> QED BY <1>2, <2>1, <2>2, Parts, Assemble DEF UnregisterQueuePayload, claims, starts, ghosts
<1>3. CASE CancelQueuePayloadOrphan(p)
  <2>1. FramesFit(proc', now) /\ FaultsType(faults')
    BY <1>0, <1>a, <1>c, <1>3, StepTo DEF CancelQueuePayloadOrphan, At, EndPcs
  <2>2. OrphansFit(orphan', now)
    BY <1>0, <1>3, ReplacedFits DEF CancelQueuePayloadOrphan
  <2> QED BY <1>3, <2>1, <2>2, Parts, Assemble DEF CancelQueuePayloadOrphan, claims, starts, ghosts
<1>4. CASE Complete(p)
  <2>1. FramesFit(proc', now) /\ FaultsType(faults')
    <3>1. CASE Sending(p)
      BY <1>0, <1>4, <3>1, StepIdle DEF Complete
    <3>2. CASE ~Sending(p)
      BY <1>0, <1>b, <1>4, <3>2, StepTo DEF Complete
    <3> QED BY <3>1, <3>2
  <2>2. ClaimsFit(reservation', claim', alarm', now)
    BY <1>4, PutFits, WithoutFits DEF Complete, CompleteMessage
  <2> QED BY <1>4, <2>1, <2>2, Parts, Assemble DEF Complete, bodies, starts, ghosts
<1>5. CASE CallFails(p)
  <2>1. FramesFit(proc', now) /\ FaultsType(faults')
    BY <1>0, <1>5, CaughtFits, GotoFits, FailedType DEF CallFails
  <2> QED BY <1>5, <2>1, Parts, Assemble DEF CallFails, claims, bodies, starts, ghosts
<1>6. CASE Lose(p)
  <2>1. FramesFit(proc', now) /\ FaultsType(faults')
    BY <1>6, IdleFits, Parts, GotoFits, FailedType DEF Lose
  <2> QED BY <1>6, <2>1, Parts, Assemble DEF Lose, claims, bodies, starts, ghosts
<1> QED BY <1>1, <1>2, <1>3, <1>4, <1>5, <1>6

LEMMA SweepType ==
    ASSUME QueueType, NEW m \in Msgs,
           LeaseOrphan(m) \/ DeleteOrphan(m) \/ UnlistOrphan(m) \/ FinishOrphan(m) \/ LoseSweep(m)
    PROVE  QueueType'
<1>1. sweep' \in [Msgs -> {"idle", "delete", "unlist", "finish"}]
  BY Parts DEF LeaseOrphan, DeleteOrphan, UnlistOrphan, FinishOrphan, LoseSweep
<1>2. CASE LeaseOrphan(m)
  <2>1. OrphansFit(orphan', now)
    BY <1>2, ReplacedFits DEF LeaseOrphan
  <2> QED BY <1>1, <1>2, <2>1, Parts, Assemble DEF LeaseOrphan, claims, starts, ghosts
<1>3. CASE DeleteOrphan(m)
  <2>1. stored' \subseteq Msgs /\ settled' \subseteq Msgs
    BY <1>3, Parts DEF DeleteOrphan
  <2> QED BY <1>1, <1>3, <2>1, Parts, Assemble DEF DeleteOrphan, claims, starts
<1>4. CASE UnlistOrphan(m)
  <2>1. registered' \subseteq Msgs
    BY <1>4, Parts DEF UnlistOrphan
  <2> QED BY <1>1, <1>4, <2>1, Parts, Assemble DEF UnlistOrphan, claims, starts, ghosts
<1>5. CASE FinishOrphan(m)
  <2>1. OrphansFit(orphan', now)
    <3>1. CASE Deleting(m)
      BY <1>5, <3>1, ReplacedFits DEF FinishOrphan
    <3>2. CASE ~Deleting(m)
      <4>1. orphan' = orphan
        BY <1>5, <3>2, Parts DEF FinishOrphan, OrphansFit
      <4> QED BY <4>1, ReplacedFits
    <3> QED BY <3>1, <3>2
  <2> QED BY <1>1, <1>5, <2>1, Parts, Assemble DEF FinishOrphan, claims, starts, ghosts
<1>6. CASE LoseSweep(m)
  BY <1>1, <1>6, Parts, Assemble DEF LoseSweep, claims, bodies, starts, ghosts
<1> QED BY <1>2, <1>3, <1>4, <1>5, <1>6

LEMMA RetentionType ==
    ASSUME QueueType, ExpireRun \/ DeleteQueuePage \/ CommitQueuePage \/ CompactClaims
    PROVE  QueueType'
<1>1. CASE ExpireRun
  BY <1>1, Parts, Assemble DEF ExpireRun, claims, bodies, starts, ghosts
<1>2. CASE DeleteQueuePage
  <2>1. stored' \subseteq Msgs
    BY <1>2, Parts DEF DeleteQueuePage
  <2> QED BY <1>2, <2>1, Parts, Assemble DEF DeleteQueuePage, claims, starts, ghosts
<1>3. CASE CommitQueuePage
  <2>1. ClaimsFit(reservation', claim', alarm', now)
    BY <1>3, KeptFits, NoneFits DEF CommitQueuePage, ClaimsFit
  <2> QED BY <1>3, <2>1, Parts, Assemble DEF CommitQueuePage, starts, ghosts
<1>4. CASE CompactClaims
  <2>1. ClaimsFit(reservation', claim', alarm', now)
    BY <1>4, PutFits, KeptFits, NoneFits DEF CompactClaims
  <2> QED BY <1>4, <2>1, Parts, Assemble DEF CompactClaims, bodies, starts, ghosts
<1> QED BY <1>1, <1>2, <1>3, <1>4

(* What lies within the leases still does a moment later.                   *)
LEMMA FitsLater ==
    ASSUME NEW t \in Nat
    PROVE  /\ \A r : ReservationFits(r, t) => ReservationFits(r, t + 1)
           /\ \A c : ClaimFits(c, t) => ClaimFits(c, t + 1)
           /\ \A o : OrphansFit(o, t) => OrphansFit(o, t + 1)
           /\ \A B : CopiesFit(B, t) => CopiesFit(B, t + 1)
<1>1. ASSUME NEW r, ReservationFits(r, t) PROVE ReservationFits(r, t + 1)
  <2>1. r # None => r.expires \in Nat
    BY <1>1, ReservationRecord DEF ReservationFits, Maybe
  <2> QED BY <1>1, <2>1, Constants DEF ReservationFits
<1>2. ASSUME NEW c, ClaimFits(c, t) PROVE ClaimFits(c, t + 1)
  <2>1. c # None => c.expires \in Nat /\ (c.retryAt # None => c.retryAt \in Nat)
    BY <1>2, ClaimRecord DEF ClaimFits, Maybe
  <2> QED BY <1>2, <2>1, Constants DEF ClaimFits
<1>3. ASSUME NEW o, OrphansFit(o, t) PROVE OrphansFit(o, t + 1)
  <2>1. \A m \in Msgs : o[m] # None => o[m].expires \in Nat
    BY <1>3, OrphanRecord DEF OrphansFit, Maybe
  <2> QED BY <1>3, <2>1, Constants DEF OrphansFit
<1>4. ASSUME NEW B, CopiesFit(B, t) PROVE CopiesFit(B, t + 1)
  <2>1. \A c \in B : c.until \in Nat
    BY <1>4, CopyRecord DEF CopiesFit
  <2> QED BY <1>4, <2>1, Constants DEF CopiesFit
<1> QED BY <1>1, <1>2, <1>3, <1>4

LEMMA FrameLater ==
    ASSUME NEW t \in Nat, NEW f \in Frame, FrameFits(f, t), t + 1 <= f.at + RequestLife
    PROVE  FrameFits(f, t + 1)
<1>1. /\ f.at \in Nat /\ f.wait \in Nat /\ f.delay \in Nat
      /\ f.copy # None => f.copy.until \in Nat
  BY FrameTypes, TheStamps, CopyRecord DEF Maybe
<1> QED BY <1>1, Constants DEF FrameFits

LEMMA TickType ==
    ASSUME QueueType, Tick
    PROVE  QueueType'
<1>1. now \in Nat /\ now' = now + 1 /\ now' <= bounds.end /\ now' \in 0..Horizon
  <2>1. now < bounds.end /\ now' = now + 1
    BY DEF Tick
  <2> QED BY <2>1, TheBounds, Constants
<1>2. /\ ReservationFits(reservation, now') /\ ClaimFits(claim, now') /\ OrphansFit(orphan, now')
      /\ CopiesFit(broker, now')
  BY <1>1, FitsLater DEF QueueType, TimesFit
<1>3. CopiesFit(broker', now')
  BY <1>2 DEF Tick, CopiesFit
<1>4. FramesFit(proc', now')
  <2>1. ASSUME NEW p \in Procs
        PROVE  proc'[p] \in Frame /\ FrameFits(proc'[p], now')
    <3>1. CASE now' > proc[p].at + RequestLife
      BY <1>1, <3>1, IdleFits DEF Tick
    <3>2. CASE ~(now' > proc[p].at + RequestLife)
      <4>1. proc[p] \in Frame /\ FrameFits(proc[p], now) /\ proc[p].at \in Nat
        BY Parts, FrameTypes DEF FramesFit
      <4>2. now + 1 <= proc[p].at + RequestLife
        BY <1>1, <3>2, <4>1, Constants
      <4> QED BY <1>1, <3>2, <4>1, <4>2, FrameLater DEF Tick
    <3> QED BY <3>1, <3>2
  <2>2. proc' = [p \in Procs |-> proc'[p]]
    BY DEF Tick
  <2> QED BY <2>1, <2>2 DEF FramesFit
<1>5. settled' \subseteq Msgs
  <2>1. \A c \in broker : c.msg \in Msgs
    BY Parts, CopyRecord DEF CopiesFit
  <2> QED BY <2>1, Parts DEF Tick
<1>6. /\ UNCHANGED <<scope, inline, bounds, run, reservation, claim, alarm, registered, orphan, stored>>
      /\ UNCHANGED <<sweep, faults, deliveries, started, sent, named, owed>>
  BY DEF Tick, setup, claims, bodies, starts
<1>7. TimesFit'
  BY <1>1, <1>2, <1>3, <1>4, <1>6 DEF TimesFit
<1>8. TypeOK'
  BY <1>1, <1>3, <1>4, <1>5, <1>6 DEF QueueType, TypeOK, CopiesFit, FramesFit
<1> QED BY <1>7, <1>8 DEF QueueType

LEMMA InitType == Init => QueueType
<1> SUFFICES ASSUME Init PROVE QueueType
  OBVIOUS
<1>1. bounds \in Setup
  BY QueueAssumption DEF Init
<1>2. /\ bounds.scope \in {"run", "cell"} /\ bounds.inline \subseteq Msgs /\ bounds.deliveries \in Nat
      /\ bounds.end \in Nat
  BY <1>1, Constants DEF Setup
<1>3. [count |-> 0, untold |-> FALSE] \in [count : 0..MaxFaults, untold : BOOLEAN]
  BY Constants
<1>4. proc \in [Procs -> Frame] /\ \A p \in Procs : FrameFits(proc[p], 0)
  BY IdleFits DEF Init
<1>5. TypeOK
  BY <1>2, <1>3, <1>4, Constants DEF Init, TypeOK, Maybe
<1>6. TimesFit
  BY <1>2, <1>4, NoneFits DEF Init, TimesFit, OrphansFit, CopiesFit, FramesFit, Maybe
<1> QED BY <1>5, <1>6 DEF QueueType

LEMMA NextType ==
    ASSUME QueueType, [Next]_vars
    PROVE  QueueType'
<1>1. ASSUME NEW p \in Procs, SendStep(p) PROVE QueueType'
  BY <1>1, SendType, SendPathType DEF SendStep
<1>2. ASSUME NEW p \in Procs, DeliveryStep(p) PROVE QueueType'
  <2>1. ASSUME NEW c \in broker, Deliver(p, c) PROVE QueueType'
    BY <2>1, DeliverType
  <2>2. CASE \/ Chain(p) \/ ClaimExpired(p) \/ ClaimMessage(p) \/ ClaimTaken(p) \/ ClaimEarly(p)
             \/ EvaluateAnswer(p) \/ CheckAdmission(p) \/ ReadBody(p)
    BY <2>2, DeliveryPathType
  <2>3. CASE \/ CallbackDone(p) \/ CallbackFails(p) \/ \E delay \in Delays : CallbackSuspends(p, delay)
             \/ ExtendOrphan(p) \/ ExtendRefused(p) \/ Hold(p) \/ Suspend(p) \/ SuspendedTooOften(p)
             \/ Release(p) \/ Ack(p)
    BY <2>3, CallbackPathType
  <2> QED BY <1>2, <2>1, <2>2, <2>3 DEF DeliveryStep
<1>3. ASSUME UNCHANGED vars PROVE QueueType'
  BY <1>3 DEF QueueType, TypeOK, TimesFit, vars, setup, claims, bodies, starts, ghosts, ReservationFits,
              ClaimFits, OrphansFit, CopiesFit, FramesFit
<1> QED BY <1>1, <1>2, <1>3, EndPathType, SweepType, RetentionType, TickType DEF Next

(* Every variable keeps its type, and every deadline lies within its lease  *)
(* of the present: nothing is ever reserved, claimed or kept for longer     *)
(* than the code's leases say, from when it was last asked for.             *)
THEOREM QueueTypeCorrect == Spec => []TypeOK
<1>1. QueueType => TypeOK
  BY DEF QueueType
<1> QED BY <1>1, InitType, NextType, PTL DEF Spec

-----------------------------------------------------------------------------
(* Which steps touch which store *)

ClaimStep(p) ==
    \/ FindReserved(p) \/ ReserveMessage(p) \/ Confirm(p) \/ Abandon(p)
    \/ ClaimMessage(p) \/ ClaimTaken(p) \/ ClaimEarly(p) \/ Hold(p) \/ Release(p) \/ Complete(p)

BodyStep(p) ==
    \/ RegisterQueuePayload(p) \/ ScheduleQueuePayloadOrphan(p) \/ Unstage(p) \/ WriteBody(p)
    \/ ExtendOrphan(p) \/ DeleteBody(p) \/ UnregisterQueuePayload(p) \/ CancelQueuePayloadOrphan(p)

BrokerStep(p) == SendToBroker(p) \/ Chain(p) \/ Suspend(p) \/ Ack(p)

GhostStep(p) ==
    SendToBroker(p) \/ FindReserved(p) \/ Confirm(p) \/ ClaimTaken(p) \/ CallbackDone(p)

SweepStep(m) ==
    LeaseOrphan(m) \/ DeleteOrphan(m) \/ UnlistOrphan(m) \/ FinishOrphan(m) \/ LoseSweep(m)

ProcStep(p) ==
    \/ SendStep(p) \/ DeliveryStep(p)
    \/ DeleteBody(p) \/ UnregisterQueuePayload(p) \/ CancelQueuePayloadOrphan(p) \/ Complete(p)
    \/ CallFails(p) \/ Lose(p)

LEMMA ProcStepTouches ==
    ASSUME NEW p \in Procs, ProcStep(p)
    PROVE  /\ UNCHANGED <<now, scope, inline, bounds, run, sweep>>
           /\ ClaimStep(p) \/ UNCHANGED <<reservation, claim, alarm>>
           /\ BodyStep(p) \/ UNCHANGED <<registered, orphan, stored>>
           /\ BrokerStep(p) \/ UNCHANGED broker
           /\ GhostStep(p) \/ UNCHANGED <<sent, named, owed, settled>>
           /\ (\E m \in bounds.sends, delay \in bounds.delays : Send(p, m, delay)) \/ UNCHANGED started
<1>1. CASE SendStep(p)
  BY <1>1 DEF SendStep, Send, RefuseExpired, FindReserved, ReserveMessage, Admit, RegisterQueuePayload,
              ScheduleQueuePayloadOrphan, Unstage, WriteBody, FinalizeQueuePayload, SendToBroker,
              Confirm, Abandon, ClaimStep, BodyStep, BrokerStep, GhostStep, setup, claims, bodies, starts,
              ghosts
<1>2. CASE DeliveryStep(p)
  <2>1. CASE \/ \E c \in broker : Deliver(p, c)
             \/ Chain(p) \/ ClaimExpired(p) \/ ClaimMessage(p) \/ ClaimTaken(p) \/ ClaimEarly(p)
             \/ EvaluateAnswer(p) \/ CheckAdmission(p) \/ ReadBody(p)
    BY <2>1 DEF Deliver, Chain, Republish, ClaimExpired, ClaimMessage, ClaimTaken, ClaimEarly,
                EvaluateAnswer, CheckAdmission, ReadBody, ClaimStep, BodyStep, BrokerStep, GhostStep,
                setup, claims, bodies, starts, ghosts
  <2>2. CASE \/ CallbackDone(p) \/ CallbackFails(p) \/ \E delay \in Delays : CallbackSuspends(p, delay)
             \/ ExtendOrphan(p) \/ ExtendRefused(p) \/ Hold(p) \/ Suspend(p) \/ SuspendedTooOften(p)
             \/ Release(p) \/ Ack(p)
    BY <2>2 DEF CallbackDone, CallbackFails, CallbackSuspends, ExtendOrphan, ExtendRefused, Hold, Suspend,
                Republish, SuspendedTooOften, Release, Ack, ClaimStep, BodyStep, BrokerStep, GhostStep,
                setup, claims, bodies, starts, ghosts
  <2> QED BY <1>2, <2>1, <2>2 DEF DeliveryStep
<1>3. CASE \/ DeleteBody(p) \/ UnregisterQueuePayload(p) \/ CancelQueuePayloadOrphan(p) \/ Complete(p)
           \/ CallFails(p) \/ Lose(p)
  BY <1>3 DEF DeleteBody, UnregisterQueuePayload, CancelQueuePayloadOrphan, Complete, CallFails, Lose,
              ClaimStep, BodyStep, BrokerStep, GhostStep, setup, claims, bodies, starts, ghosts
<1> QED BY <1>1, <1>2, <1>3 DEF ProcStep

(* A step is one of a process, of an orphan cell, of the run's retention,   *)
(* of the claim cell's alarm or of the clock.                               *)
LEMMA Steps ==
    ASSUME [Next]_vars
    PROVE  \/ \E p \in Procs : ProcStep(p)
           \/ \E m \in Msgs : SweepStep(m)
           \/ ExpireRun \/ DeleteQueuePage \/ CommitQueuePage \/ CompactClaims \/ Tick
           \/ UNCHANGED vars
BY DEF Next, ProcStep, SweepStep

LEMMA SweepTouches ==
    ASSUME NEW m \in Msgs, SweepStep(m)
    PROVE  /\ UNCHANGED <<now, scope, inline, bounds, run, reservation, claim, alarm, broker, proc>>
           /\ UNCHANGED <<faults, deliveries, started, sent, named, owed>>
BY DEF SweepStep, LeaseOrphan, DeleteOrphan, UnlistOrphan, FinishOrphan, LoseSweep, setup, claims, starts,
       ghosts

-----------------------------------------------------------------------------
(* The claim cell's alarm *)

(* How the records of a key change: put together with the alarm, or a       *)
(* reservation proven by a delivery, whose deadline only moves away.        *)
RecordsMove ==
    \/ UNCHANGED <<reservation, claim, alarm>>
    \/ UNCHANGED <<reservation, claim>> /\ Arm(reservation, claim)
    \/ \E r, c : ReservationFits(r, now) /\ ClaimFits(c, now) /\ PutClaims(r, c)
    \/ \E m \in Msgs : reservation' = Proven(m) /\ UNCHANGED <<claim, alarm>>
    \/ scope = "run"

LEMMA ClaimStepMoves ==
    ASSUME QueueType, NEW p \in Procs, ClaimStep(p)
    PROVE  RecordsMove
<1>0. /\ ReservationFits(reservation, now) /\ ClaimFits(claim, now)
      /\ ReservationFits(None, now) /\ ClaimFits(None, now)
  BY KeptFits, NoneFits
<1>k. QueueType'
  <2>1. ProcStep(p)
    BY DEF ClaimStep, ProcStep, SendStep, DeliveryStep
  <2> QED BY <2>1, NextType DEF Next, ProcStep
<1>f. ASSUME NEW r, NEW c, PutClaims(r, c), UNCHANGED now PROVE RecordsMove
  <2>1. r = reservation' /\ c = claim'
    BY <1>f DEF PutClaims
  <2>2. ReservationFits(reservation', now') /\ ClaimFits(claim', now')
    BY <1>k DEF QueueType, TimesFit
  <2>3. ReservationFits(r, now) /\ ClaimFits(c, now)
    BY <1>f, <2>1, <2>2
  <2> QED BY <1>f, <2>3 DEF RecordsMove
<1>1. CASE FindReserved(p)
  BY <1>1 DEF FindReserved, RecordsMove
<1>2. CASE ReserveMessage(p)
  BY <1>2, <1>f DEF ReserveMessage
<1>3. CASE Confirm(p)
  BY <1>3, <1>f DEF Confirm, ConfirmPublication, claims, RecordsMove
<1>4. CASE Abandon(p)
  BY <1>4, <1>f DEF Abandon, AbandonReservation, claims, RecordsMove
<1>5. CASE ClaimMessage(p)
  BY <1>5, <1>f DEF ClaimMessage
<1>6. CASE ClaimTaken(p) \/ ClaimEarly(p)
  <2>1. Msg(p) \in Msgs
    BY <1>6, ActiveMsg DEF ClaimTaken, ClaimEarly, At
  <2> QED BY <1>6, <2>1 DEF ClaimTaken, ClaimEarly, RecordsMove
<1>7. CASE Hold(p)
  BY <1>7, <1>f DEF Hold, HoldClaim, claims, RecordsMove
<1>8. CASE Release(p)
  BY <1>8, <1>f DEF Release, ReleaseClaim, claims, RecordsMove
<1>9. CASE Complete(p)
  BY <1>9, <1>f DEF Complete, CompleteMessage
<1> QED BY <1>1, <1>2, <1>3, <1>4, <1>5, <1>6, <1>7, <1>8, <1>9 DEF ClaimStep

LEMMA RecordsStep ==
    ASSUME QueueType, [Next]_vars
    PROVE  UNCHANGED scope /\ RecordsMove
<1>1. ASSUME NEW p \in Procs, ProcStep(p) PROVE UNCHANGED scope /\ RecordsMove
  BY <1>1, ProcStepTouches, ClaimStepMoves DEF RecordsMove
<1>2. ASSUME NEW m \in Msgs, SweepStep(m) PROVE UNCHANGED scope /\ RecordsMove
  BY <1>2, SweepTouches DEF RecordsMove
<1>3. CASE ExpireRun \/ DeleteQueuePage \/ CommitQueuePage
  BY <1>3 DEF ExpireRun, DeleteQueuePage, CommitQueuePage, RecordsMove, setup, claims
<1>4. CASE CompactClaims
  <2>1. PICK r, c : /\ r = IF Fresh(reservation) THEN reservation ELSE None
                    /\ c = IF Fresh(claim) THEN claim ELSE None
                    /\ PutClaims(r, c)
    BY <1>4 DEF CompactClaims
  <2>2. ReservationFits(r, now) /\ ClaimFits(c, now)
    BY <2>1, KeptFits, NoneFits
  <2> QED BY <1>4, <2>1, <2>2 DEF CompactClaims, RecordsMove, setup
<1>5. CASE Tick
  BY <1>5 DEF Tick, RecordsMove, setup, claims
<1>6. CASE UNCHANGED vars
  BY <1>6 DEF vars, RecordsMove, setup, claims
<1> QED BY <1>1, <1>2, <1>3, <1>4, <1>5, <1>6, Steps

LEMMA NextArms ==
    ASSUME QueueType, ClaimsAreArmed, [Next]_vars
    PROVE  ClaimsAreArmed'
<1> SUFFICES ASSUME scope' = "cell", reservation' # None \/ claim' # None
             PROVE  alarm' <= Earliest(reservation', claim')
  BY DEF ClaimsAreArmed
<1>0. scope = "cell" /\ RecordsMove
  BY RecordsStep
<1>1. CASE UNCHANGED <<reservation, claim, alarm>>
  BY <1>0, <1>1 DEF ClaimsAreArmed
<1>2. ASSUME NEW r, NEW c, reservation' = r, claim' = c, Arm(r, c),
             ReservationFits(r, now), ClaimFits(c, now)
      PROVE  alarm' <= Earliest(reservation', claim')
  <2>1. alarm' = Earliest(r, c)
    BY <1>0, <1>2 DEF Arm
  <2>2. Earliest(r, c) \in Nat
    BY <1>2, EarliestStamp, TheStamps
  <2>3. Earliest(reservation', claim') = Earliest(r, c)
    BY <1>2
  <2> QED BY <2>1, <2>2, <2>3
<1>3. ASSUME NEW m \in Msgs, reservation' = Proven(m), UNCHANGED <<claim, alarm>>
      PROVE  alarm' <= Earliest(reservation', claim')
  <2>1. CASE Of(reservation, m) /\ reservation.pending
    <3>1. reservation # None /\ reservation.expires \in Nat
      BY <2>1, KeptFits, ReservationRecord DEF Of, ReservationFits, Maybe
    <3>2. PICK r : r = [msg |-> m, expires |-> Later(reservation.expires, now + Grace), pending |-> FALSE]
      OBVIOUS
    <3>3. reservation' = r /\ r.expires = Later(reservation.expires, now + Grace)
      BY <1>3, <2>1, <3>2 DEF Proven
    <3>4. ReservationFits(r, now)
      BY <1>3, <3>3, ProvenFits
    <3>5. Expiry(r) \in Nat /\ Expiry(reservation) \in Nat /\ Expiry(claim) \in Nat
      BY <3>4, KeptFits, EarliestStamp
    <3>6. r # None
      <4>1. reservation.expires <= now + BrokerLife + Grace
        BY <3>1, KeptFits DEF ReservationFits
      <4>2. Later(reservation.expires, now + Grace) \in Stamp
        BY <3>1, <4>1, Parts, Constants, TheStamps DEF Later
      <4>3. r \in Reservation
        BY <3>2, <4>2 DEF Reservation
      <4> QED BY <4>3, Records
    <3>7. Expiry(reservation) <= Expiry(r)
      BY <3>1, <3>3, <3>6, Parts, Constants DEF Expiry, Later
    <3>8. alarm <= Earliest(reservation, claim)
      BY <1>0, <3>1 DEF ClaimsAreArmed
    <3>9. alarm \in Nat
      BY Parts, TheStamps DEF ClaimsFit
    <3>10. alarm <= Earliest(r, claim)
      BY <3>5, <3>7, <3>8, <3>9 DEF Earliest, Earlier
    <3> QED BY <1>3, <3>3, <3>10
  <2>2. CASE ~(Of(reservation, m) /\ reservation.pending)
    <3>1. reservation' = reservation
      BY <1>3, <2>2 DEF Proven
    <3> QED BY <1>0, <1>3, <3>1 DEF ClaimsAreArmed
  <2> QED BY <2>1, <2>2
<1>4. CASE UNCHANGED <<reservation, claim>> /\ Arm(reservation, claim)
  BY <1>2, <1>4, KeptFits
<1>5. CASE \E r, c : ReservationFits(r, now) /\ ClaimFits(c, now) /\ PutClaims(r, c)
  BY <1>2, <1>5 DEF PutClaims
<1> QED BY <1>0, <1>1, <1>3, <1>4, <1>5 DEF RecordsMove

(* A claim cell with a reservation or a claim wakes no later than the first *)
(* of them ends, through reservations, confirmations, claims, suspensions,  *)
(* releases, completions and the compaction by the alarm itself: no record  *)
(* of a key is kept for ever by an alarm that was lost with another record. *)
THEOREM ClaimCellWakes == Spec => []ClaimsAreArmed
<1>1. Init => ClaimsAreArmed
  BY DEF Init, ClaimsAreArmed
<1> QED BY <1>1, InitType, NextType, NextArms, PTL DEF Spec

-----------------------------------------------------------------------------
(* How a process moves *)

Moved(p, S) ==
    /\ \A q \in Procs : q # p => proc'[q] = proc[q]
    /\ \/ proc'[p] = Idle
       \/ /\ proc'[p].pc \in S /\ proc'[p].msg = Msg(p) /\ proc'[p].copy = proc[p].copy
          /\ proc'[p].at = proc[p].at /\ proc'[p].born = proc[p].born

(* Where a call that failed or that was not answered leaves the process.    *)
Back(p) ==
    IF Sending(p)
      THEN CASE proc[p].pc = "schedule" -> {"unstage"}
             [] proc[p].pc = "abandon"  -> {}
             [] OTHER                   -> {"abandon"}
      ELSE IF proc[p].claimed /\ proc[p].pc # "unclaim" THEN {"unclaim"} ELSE {}

LEMMA GotoMoves ==
    ASSUME QueueType, NEW p \in Procs, NEW f, Goto(p, f), NEW S,
           \/ f = Idle
           \/ /\ f.pc \in S /\ f.msg = Msg(p) /\ f.copy = proc[p].copy
              /\ f.at = proc[p].at /\ f.born = proc[p].born
    PROVE  Moved(p, S)
<1>1. proc'[p] = f /\ \A q \in Procs : q # p => proc'[q] = proc[q]
  BY Parts DEF Goto, FramesFit
<1> QED BY <1>1 DEF Moved

LEMMA GotoBack ==
    ASSUME QueueType, NEW p \in Procs, Goto(p, Caught(p)), NEW S, Back(p) \subseteq S
    PROVE  Moved(p, S)
<1>1. {"unstage", "abandon", "unclaim"} \subseteq Pc
  BY DEF Pc
<1>2. \/ Caught(p) = Idle
      \/ \E pc \in Back(p) : pc \in Pc /\ Caught(p) = To(p, pc)
  <2>1. CASE Sending(p)
    <3>1. CASE proc[p].pc = "schedule"
      BY <1>1, <2>1, <3>1 DEF Caught, Back
    <3>2. CASE proc[p].pc = "abandon"
      BY <2>1, <3>2 DEF Caught
    <3>3. CASE proc[p].pc # "schedule" /\ proc[p].pc # "abandon"
      BY <1>1, <2>1, <3>3 DEF Caught, Back
    <3> QED BY <3>1, <3>2, <3>3
  <2>2. CASE ~Sending(p)
    BY <1>1, <2>2 DEF Caught, Back
  <2> QED BY <2>1, <2>2
<1>3. CASE Caught(p) = Idle
  BY <1>3, GotoMoves
<1>4. ASSUME NEW pc \in Back(p), pc \in Pc, Caught(p) = To(p, pc) PROVE Moved(p, S)
  BY <1>4, ToFields, GotoMoves
<1> QED BY <1>2, <1>3, <1>4

LEMMA CalledMoves ==
    ASSUME QueueType, NEW p \in Procs, NEW f, Called(p, f), NEW S, Back(p) \subseteq S,
           \/ f = Idle
           \/ /\ f.pc \in S /\ f.msg = Msg(p) /\ f.copy = proc[p].copy
              /\ f.at = proc[p].at /\ f.born = proc[p].born
    PROVE  Moved(p, S)
<1>1. CASE Goto(p, f)
  BY <1>1, GotoMoves
<1>2. CASE Goto(p, Caught(p))
  BY <1>2, GotoBack
<1> QED BY <1>1, <1>2 DEF Called

LEMMA StepMoves ==
    ASSUME QueueType, NEW p \in Procs, NEW pc \in Pc, NEW S, pc \in S
    PROVE  /\ Called(p, To(p, pc)) /\ Back(p) \subseteq S => Moved(p, S)
           /\ Goto(p, To(p, pc)) => Moved(p, S)
<1>1. /\ To(p, pc).pc \in S /\ To(p, pc).msg = Msg(p) /\ To(p, pc).copy = proc[p].copy
      /\ To(p, pc).at = proc[p].at /\ To(p, pc).born = proc[p].born
  BY ToFields
<1> QED BY <1>1, CalledMoves, GotoMoves

LEMMA BackPcs ==
    ASSUME QueueType, NEW p \in Procs
    PROVE  /\ proc[p].pc \in SendPcs => Sending(p)
           /\ proc[p].pc \in DeliveryPcs => ~Sending(p)
           /\ proc[p].pc \in UnclaimedPcs => Back(p) = {}
           /\ Sending(p) => Back(p) \subseteq {"unstage", "abandon"}
           /\ Sending(p) /\ proc[p].pc # "schedule" => Back(p) \subseteq {"abandon"}
           /\ At(p, "schedule") => Back(p) = {"unstage"}
           /\ At(p, "abandon") => Back(p) = {}
           /\ ~Sending(p) => Back(p) \subseteq {"unclaim"}
<1>1. FrameFits(proc[p], now)
  BY Parts DEF FramesFit
<1>2. /\ proc[p].pc \in SendPcs => Sending(p)
      /\ proc[p].pc \in DeliveryPcs => ~Sending(p)
      /\ proc[p].pc \in UnclaimedPcs => ~proc[p].claimed
  BY <1>1 DEF FrameFits, Sending
<1>3. UnclaimedPcs \subseteq DeliveryPcs /\ {"schedule", "abandon"} \subseteq SendPcs
  BY DEF UnclaimedPcs, DeliveryPcs, SendPcs
<1> QED BY <1>2, <1>3 DEF Back, At

LEMMA SendMoves ==
    ASSUME QueueType, NEW p \in Procs
    PROVE  /\ RefuseExpired(p) \/ FindReserved(p) => Moved(p, {"abandon"})
           /\ ReserveMessage(p) => Moved(p, {IF Msg(p) \notin inline THEN "register"
                                             ELSE IF scope = "cell" THEN "admit" ELSE "send", "abandon"})
           /\ Admit(p) => Moved(p, {"send", "complete", "abandon"})
           /\ RegisterQueuePayload(p) =>
                Moved(p, {IF run = "live" THEN "schedule" ELSE "complete", "abandon"})
           /\ ScheduleQueuePayloadOrphan(p) => Moved(p, {"write", "unstage"})
           /\ Unstage(p) => Moved(p, {"abandon"})
           /\ WriteBody(p) => Moved(p, {"finalize", "abandon"})
           /\ FinalizeQueuePayload(p) =>
                Moved(p, {IF Finalized(Msg(p)) THEN "send" ELSE "discard", "abandon"})
           /\ SendToBroker(p) => Moved(p, {"confirm", "abandon"})
           /\ Confirm(p) => Moved(p, {"abandon"})
           /\ Abandon(p) => Moved(p, {})
<1>p. {"register", "admit", "send", "complete", "schedule", "abandon", "write", "finalize", "discard",
       "confirm"} \subseteq Pc
  BY DEF Pc
<1>b. /\ proc[p].pc \in SendPcs /\ proc[p].pc # "schedule" => Back(p) \subseteq {"abandon"}
      /\ proc[p].pc = "schedule" => Back(p) \subseteq {"unstage"}
      /\ proc[p].pc = "abandon" => Back(p) \subseteq {}
  BY BackPcs DEF At
<1>c. /\ At(p, "reserve") \/ At(p, "admit") \/ At(p, "register") \/ At(p, "unstage") \/ At(p, "write")
           \/ At(p, "finalize") \/ At(p, "send") \/ At(p, "confirm") => Back(p) \subseteq {"abandon"}
      /\ At(p, "schedule") => Back(p) \subseteq {"unstage"}
      /\ At(p, "abandon") => Back(p) \subseteq {}
  BY <1>b DEF At, SendPcs
<1>1. RefuseExpired(p) \/ FindReserved(p) => Moved(p, {"abandon"})
  BY <1>c, CalledMoves DEF RefuseExpired, FindReserved
<1>2. ASSUME ReserveMessage(p)
      PROVE  Moved(p, {IF Msg(p) \notin inline THEN "register"
                       ELSE IF scope = "cell" THEN "admit" ELSE "send", "abandon"})
  <2>1. PICK pc \in Pc : /\ pc = IF Msg(p) \notin inline THEN "register"
                                 ELSE IF scope = "cell" THEN "admit" ELSE "send"
                         /\ Called(p, To(p, pc))
    BY <1>2, <1>p DEF ReserveMessage
  <2> QED BY <1>2, <1>c, <2>1, StepMoves DEF ReserveMessage
<1>3. ASSUME Admit(p) PROVE Moved(p, {"send", "complete", "abandon"})
  <2>1. PICK pc \in {"send", "complete"} : Called(p, To(p, pc))
    BY <1>3 DEF Admit
  <2> QED BY <1>3, <1>p, <1>c, <2>1, StepMoves DEF Admit
<1>4. ASSUME RegisterQueuePayload(p)
      PROVE  Moved(p, {IF run = "live" THEN "schedule" ELSE "complete", "abandon"})
  <2>1. PICK pc \in Pc : pc = (IF run = "live" THEN "schedule" ELSE "complete") /\ Called(p, To(p, pc))
    BY <1>4, <1>p DEF RegisterQueuePayload
  <2> QED BY <1>4, <1>c, <2>1, StepMoves DEF RegisterQueuePayload
<1>5. ScheduleQueuePayloadOrphan(p) => Moved(p, {"write", "unstage"})
  BY <1>p, <1>c, StepMoves DEF ScheduleQueuePayloadOrphan
<1>6. Unstage(p) => Moved(p, {"abandon"})
  BY <1>p, <1>c, StepMoves DEF Unstage
<1>7. WriteBody(p) => Moved(p, {"finalize", "abandon"})
  BY <1>p, <1>c, StepMoves DEF WriteBody
<1>8. ASSUME FinalizeQueuePayload(p)
      PROVE  Moved(p, {IF Finalized(Msg(p)) THEN "send" ELSE "discard", "abandon"})
  <2>1. PICK pc \in Pc : pc = (IF Finalized(Msg(p)) THEN "send" ELSE "discard") /\ Called(p, To(p, pc))
    BY <1>8, <1>p DEF FinalizeQueuePayload
  <2> QED BY <1>8, <1>c, <2>1, StepMoves DEF FinalizeQueuePayload
<1>9. SendToBroker(p) => Moved(p, {"confirm", "abandon"})
  BY <1>p, <1>c, StepMoves DEF SendToBroker
<1>10. Confirm(p) => Moved(p, {"abandon"})
  BY <1>c, CalledMoves DEF Confirm
<1>11. Abandon(p) => Moved(p, {})
  BY <1>c, CalledMoves DEF Abandon
<1> QED BY <1>1, <1>2, <1>3, <1>4, <1>5, <1>6, <1>7, <1>8, <1>9, <1>10, <1>11

(* The same for a step that notes something in the frame.                   *)
LEMMA NoteMoves ==
    ASSUME QueueType, NEW p \in Procs, NEW pc \in Pc, NEW S, pc \in S, NEW f,
           \/ \E x \in BOOLEAN : f = [To(p, pc) EXCEPT !.claimed = x]
           \/ \E x \in Stamp : f = [To(p, pc) EXCEPT !.wait = x]
           \/ \E x \in Stamp : f = [To(p, pc) EXCEPT !.delay = x]
           \/ \E x, y \in Stamp : f = [To(p, pc) EXCEPT !.wait = x, !.delay = y]
    PROVE  /\ Called(p, f) /\ Back(p) \subseteq S => Moved(p, S)
           /\ Goto(p, f) => Moved(p, S)
<1>1. PICK h : h = To(p, pc)
  OBVIOUS
<1>2. /\ h \in Frame /\ h.pc = pc /\ h.msg = Msg(p) /\ h.copy = proc[p].copy /\ h.at = proc[p].at
      /\ h.born = proc[p].born
  BY <1>1, ToFields
<1>3. \/ \E x \in BOOLEAN : f = [h EXCEPT !.claimed = x]
      \/ \E x \in Stamp : f = [h EXCEPT !.wait = x]
      \/ \E x \in Stamp : f = [h EXCEPT !.delay = x]
      \/ \E x, y \in Stamp : f = [[h EXCEPT !.wait = x] EXCEPT !.delay = y]
  BY <1>1
<1>4. f.pc = pc /\ f.msg = Msg(p) /\ f.copy = proc[p].copy /\ f.at = proc[p].at /\ f.born = proc[p].born
  <2>1. ASSUME NEW x \in BOOLEAN, f = [h EXCEPT !.claimed = x] PROVE <1>4
    BY <1>2, <2>1 DEF Frame
  <2>2. ASSUME NEW x \in Stamp, f = [h EXCEPT !.wait = x] PROVE <1>4
    BY <1>2, <2>2 DEF Frame
  <2>3. ASSUME NEW x \in Stamp, f = [h EXCEPT !.delay = x] PROVE <1>4
    BY <1>2, <2>3 DEF Frame
  <2>4. ASSUME NEW x \in Stamp, NEW y \in Stamp, f = [[h EXCEPT !.wait = x] EXCEPT !.delay = y] PROVE <1>4
    <3>1. PICK g : g = [h EXCEPT !.wait = x]
      OBVIOUS
    <3>2. /\ g \in Frame /\ g.pc = pc /\ g.msg = Msg(p) /\ g.copy = proc[p].copy /\ g.at = proc[p].at
          /\ g.born = proc[p].born
      BY <1>2, <3>1 DEF Frame
    <3>3. f = [g EXCEPT !.delay = y]
      BY <2>4, <3>1
    <3> QED BY <3>2, <3>3 DEF Frame
  <2> QED BY <1>3, <2>1, <2>2, <2>3, <2>4
<1> QED BY <1>4, CalledMoves, GotoMoves

LEMMA DeliveryMoves ==
    ASSUME QueueType, NEW p \in Procs
    PROVE  /\ Chain(p) \/ ClaimExpired(p) \/ ClaimTaken(p) => Moved(p, {"ack"})
           /\ ClaimMessage(p) => Moved(p, {IF Msg(p) \notin inline THEN "read"
                                           ELSE IF scope = "cell" THEN "admitted" ELSE "callback"})
           /\ ClaimEarly(p) => Moved(p, {"answered"})
           /\ EvaluateAnswer(p) => Moved(p, {IF proc[p].wait > now THEN "suspend" ELSE "ack"})
           /\ CheckAdmission(p) =>
                \/ Moved(p, {"unclaim"})
                \/ Moved(p, {"callback"}) /\ (proc[p].born = "live" \/ run = "live")
                \/ Moved(p, {"complete"}) /\ (proc[p].born # "live" \/ run # "live")
           /\ ReadBody(p) => Moved(p, {IF Msg(p) \in stored THEN "callback" ELSE "unlist", "unclaim"})
<1>p. {"ack", "read", "admitted", "callback", "answered", "suspend", "complete", "unlist", "unclaim"}
        \subseteq Pc
  BY DEF Pc
<1>b. /\ At(p, "chain") \/ At(p, "claim") \/ At(p, "answered") => Back(p) = {}
      /\ At(p, "admitted") \/ At(p, "read") => Back(p) \subseteq {"unclaim"}
  BY BackPcs DEF At, DeliveryPcs, UnclaimedPcs
<1>1. Chain(p) \/ ClaimExpired(p) \/ ClaimTaken(p) => Moved(p, {"ack"})
  BY <1>p, <1>b, StepMoves DEF Chain, Republish, ClaimExpired, ClaimTaken
<1>2. ASSUME ClaimMessage(p)
      PROVE  Moved(p, {IF Msg(p) \notin inline THEN "read"
                       ELSE IF scope = "cell" THEN "admitted" ELSE "callback"})
  <2>1. PICK pc \in Pc : /\ pc = IF Msg(p) \notin inline THEN "read"
                                 ELSE IF scope = "cell" THEN "admitted" ELSE "callback"
                         /\ Called(p, [To(p, pc) EXCEPT !.claimed = TRUE])
    BY <1>2, <1>p DEF ClaimMessage
  <2>2. PICK f : f = [To(p, pc) EXCEPT !.claimed = TRUE] /\ Called(p, f)
    BY <2>1
  <2>3. Back(p) = {} /\ \E x \in BOOLEAN : f = [To(p, pc) EXCEPT !.claimed = x]
    BY <1>2, <1>b, <2>2 DEF ClaimMessage
  <2> QED BY <2>1, <2>2, <2>3, NoteMoves
<1>3. ASSUME ClaimEarly(p) PROVE Moved(p, {"answered"})
  <2>1. claim \in Claim
    BY <1>3, KeptFits DEF ClaimEarly, Blocks, Fresh, ClaimFits, Maybe
  <2>2. PICK w : w = IF claim.retryAt = None THEN claim.expires ELSE claim.retryAt
    OBVIOUS
  <2>3. w \in Stamp
    BY <2>1, <2>2, ClaimRecord DEF Maybe
  <2>4. PICK f : f = [To(p, "answered") EXCEPT !.wait = w] /\ Called(p, f)
    BY <1>3, <2>2 DEF ClaimEarly
  <2>5. Back(p) = {} /\ \E x \in Stamp : f = [To(p, "answered") EXCEPT !.wait = x]
    BY <1>3, <1>b, <2>3, <2>4 DEF ClaimEarly
  <2> QED BY <1>p, <2>4, <2>5, NoteMoves
<1>4. ASSUME EvaluateAnswer(p) PROVE Moved(p, {IF proc[p].wait > now THEN "suspend" ELSE "ack"})
  <2>1. CASE proc[p].wait > now
    <3>1. proc[p].wait - now \in Stamp
      <4>1. proc[p].wait \in Stamp
        BY Parts, FrameTypes DEF FramesFit
      <4> QED BY <2>1, <4>1, Parts, TheStamps, Constants DEF Stamp
    <3>2. PICK x \in Stamp : x = proc[p].wait - now
      BY <3>1
    <3>3. PICK f : f = [To(p, "suspend") EXCEPT !.delay = x] /\ Goto(p, f)
      BY <1>4, <2>1, <3>2 DEF EvaluateAnswer
    <3>4. \E y \in Stamp : f = [To(p, "suspend") EXCEPT !.delay = y]
      BY <3>3
    <3> QED BY <1>p, <2>1, <3>3, <3>4, NoteMoves
  <2>2. CASE ~(proc[p].wait > now)
    BY <1>4, <1>p, <2>2, StepMoves DEF EvaluateAnswer
  <2> QED BY <2>1, <2>2
<1>5. ASSUME CheckAdmission(p)
      PROVE  \/ Moved(p, {"unclaim"})
             \/ Moved(p, {"callback"}) /\ (proc[p].born = "live" \/ run = "live")
             \/ Moved(p, {"complete"}) /\ (proc[p].born # "live" \/ run # "live")
  <2>1. PICK ok \in {proc[p].born = "live", run = "live"} :
          Called(p, To(p, IF ok THEN "callback" ELSE "complete"))
    BY <1>5 DEF CheckAdmission, Admission
  <2>2. PICK pc \in {"callback", "complete"} :
          /\ pc = "callback" => proc[p].born = "live" \/ run = "live"
          /\ pc = "complete" => proc[p].born # "live" \/ run # "live"
          /\ Called(p, To(p, pc))
    <3>1. CASE ok
      BY <2>1, <3>1
    <3>2. CASE ~ok
      BY <2>1, <3>2
    <3> QED BY <3>1, <3>2
  <2>3. CASE Goto(p, To(p, pc))
    BY <1>p, <2>2, <2>3, StepMoves
  <2>4. CASE Goto(p, Caught(p))
    BY <1>5, <1>b, <2>4, GotoBack DEF CheckAdmission
  <2> QED BY <2>2, <2>3, <2>4 DEF Called
<1>6. ASSUME ReadBody(p)
      PROVE  Moved(p, {IF Msg(p) \in stored THEN "callback" ELSE "unlist", "unclaim"})
  <2>1. PICK pc \in Pc : pc = (IF Msg(p) \in stored THEN "callback" ELSE "unlist") /\ Called(p, To(p, pc))
    BY <1>6, <1>p DEF ReadBody
  <2> QED BY <1>6, <1>b, <2>1, StepMoves DEF ReadBody
<1> QED BY <1>1, <1>2, <1>3, <1>4, <1>5, <1>6

LEMMA CallbackMoves ==
    ASSUME QueueType, NEW p \in Procs
    PROVE  /\ CallbackDone(p) => Moved(p, {IF Msg(p) \in inline THEN "complete" ELSE "discard"})
           /\ CallbackFails(p) => Moved(p, {"release", "unclaim"})
           /\ \A delay \in Delays : CallbackSuspends(p, delay) =>
                Moved(p, {IF Msg(p) \in inline THEN "hold" ELSE "extend"})
           /\ ExtendOrphan(p) => Moved(p, {"hold", "unclaim"})
           /\ ExtendRefused(p) => Moved(p, {"unclaim"})
           /\ Hold(p) => Moved(p, {"suspend", "unclaim"})
           /\ Suspend(p) => Moved(p, {"ack"})
           /\ SuspendedTooOften(p) => Moved(p, {})
           /\ Release(p) => Moved(p, {"unclaim"})
           /\ Ack(p) => Moved(p, {})
<1>p. {"complete", "discard", "release", "unclaim", "hold", "extend", "suspend", "ack"} \subseteq Pc
  BY DEF Pc
<1>b. /\ At(p, "suspend") => Back(p) = {}
      /\ At(p, "callback") \/ At(p, "extend") \/ At(p, "hold") \/ At(p, "release") \/ At(p, "unclaim")
           => Back(p) \subseteq {"unclaim"}
  BY BackPcs DEF At, DeliveryPcs, UnclaimedPcs
<1>1. ASSUME CallbackDone(p) PROVE Moved(p, {IF Msg(p) \in inline THEN "complete" ELSE "discard"})
  <2>1. PICK pc \in Pc : pc = (IF Msg(p) \in inline THEN "complete" ELSE "discard") /\ Goto(p, To(p, pc))
    BY <1>1, <1>p DEF CallbackDone
  <2> QED BY <2>1, StepMoves
<1>2. ASSUME CallbackFails(p) PROVE Moved(p, {"release", "unclaim"})
  BY <1>2, <1>p, StepMoves DEF CallbackFails
<1>3. ASSUME NEW delay \in Delays, CallbackSuspends(p, delay)
      PROVE  Moved(p, {IF Msg(p) \in inline THEN "hold" ELSE "extend"})
  <2>1. delay \in Nat /\ delay <= BrokerLife
    BY QueueAssumption
  <2>2. PICK w : w = now + delay
    OBVIOUS
  <2>3. w \in Stamp /\ delay \in Stamp
    BY <2>1, <2>2, Parts, Constants, TheStamps
  <2>4. PICK pc \in Pc : pc = IF Msg(p) \in inline THEN "hold" ELSE "extend"
    BY <1>p
  <2>5. PICK f : f = [To(p, pc) EXCEPT !.wait = w, !.delay = delay] /\ Goto(p, f)
    BY <1>3, <2>2, <2>4 DEF CallbackSuspends
  <2>6. \E x, y \in Stamp : f = [To(p, pc) EXCEPT !.wait = x, !.delay = y]
    BY <2>3, <2>5
  <2> QED BY <2>4, <2>5, <2>6, NoteMoves
<1>4. ASSUME ExtendOrphan(p) PROVE Moved(p, {"hold", "unclaim"})
  BY <1>4, <1>p, <1>b, StepMoves DEF ExtendOrphan
<1>5. ASSUME ExtendRefused(p) PROVE Moved(p, {"unclaim"})
  BY <1>5, <1>b, GotoBack DEF ExtendRefused
<1>6. ASSUME Hold(p) PROVE Moved(p, {"suspend", "unclaim"})
  <2>1. PICK f : f = [To(p, "suspend") EXCEPT !.claimed = FALSE] /\ Called(p, f)
    BY <1>6 DEF Hold
  <2>2. \E x \in BOOLEAN : f = [To(p, "suspend") EXCEPT !.claimed = x]
    BY <2>1
  <2> QED BY <1>6, <1>p, <1>b, <2>1, <2>2, NoteMoves DEF Hold
<1>7. ASSUME Suspend(p) PROVE Moved(p, {"ack"})
  BY <1>7, <1>p, <1>b, StepMoves DEF Suspend, Republish
<1>8. SuspendedTooOften(p) \/ Ack(p) => Moved(p, {})
  BY GotoMoves DEF SuspendedTooOften, Ack
<1>9. ASSUME Release(p) PROVE Moved(p, {"unclaim"})
  BY <1>9, <1>b, CalledMoves DEF Release
<1> QED BY <1>1, <1>2, <1>3, <1>4, <1>5, <1>6, <1>7, <1>8, <1>9

LEMMA EndMoves ==
    ASSUME QueueType, NEW p \in Procs
    PROVE  LET back == IF Sending(p) THEN "abandon" ELSE "unclaim"
           IN  /\ DeleteBody(p) => Moved(p, {"unlist", back})
               /\ UnregisterQueuePayload(p) => Moved(p, {"unorphan", back})
               /\ CancelQueuePayloadOrphan(p) => Moved(p, {"complete", back})
               /\ Complete(p) => Moved(p, IF Sending(p) THEN {"abandon"} ELSE {"ack", "unclaim"})
               /\ CallFails(p) => Moved(p, Back(p))
               /\ Lose(p) => Moved(p, {})
<1> DEFINE back == IF Sending(p) THEN "abandon" ELSE "unclaim"
<1>p. {"unlist", "unorphan", "complete", "ack"} \subseteq Pc
  BY DEF Pc
<1>b. At(p, "discard") \/ At(p, "unlist") \/ At(p, "unorphan") \/ At(p, "complete")
        => Back(p) \subseteq {back}
  BY BackPcs DEF At
<1> HIDE DEF back
<1>1. DeleteBody(p) => Moved(p, {"unlist", back})
  BY <1>p, <1>b, StepMoves DEF DeleteBody
<1>2. UnregisterQueuePayload(p) => Moved(p, {"unorphan", back})
  BY <1>p, <1>b, StepMoves DEF UnregisterQueuePayload
<1>3. CancelQueuePayloadOrphan(p) => Moved(p, {"complete", back})
  BY <1>p, <1>b, StepMoves DEF CancelQueuePayloadOrphan
<1>4. ASSUME Complete(p) PROVE Moved(p, IF Sending(p) THEN {"abandon"} ELSE {"ack", "unclaim"})
  <2>1. CASE Sending(p)
    <3>1. Back(p) \subseteq {"abandon"}
      BY <1>4, <1>b, <2>1 DEF Complete, back
    <3> QED BY <1>4, <2>1, <3>1, CalledMoves DEF Complete
  <2>2. CASE ~Sending(p)
    <3>1. Back(p) \subseteq {"ack", "unclaim"}
      BY <1>4, <1>b, <2>2 DEF Complete, back
    <3> QED BY <1>4, <1>p, <2>2, <3>1, StepMoves DEF Complete
  <2> QED BY <2>1, <2>2
<1>5. CallFails(p) => Moved(p, Back(p))
  BY GotoBack DEF CallFails
<1>6. Lose(p) => Moved(p, {})
  BY GotoMoves DEF Lose
<1> QED BY <1>1, <1>2, <1>3, <1>4, <1>5, <1>6 DEF back

(* The steps that start a process.                                          *)
LEMMA StartMoves ==
    ASSUME QueueType, NEW p \in Procs
    PROVE  /\ \A m \in bounds.sends, delay \in bounds.delays : Send(p, m, delay) =>
                /\ m \in Msgs /\ proc[p] = Idle /\ \A q \in Procs : q # p => proc'[q] = proc[q]
                /\ proc'[p].pc = "reserve" /\ proc'[p].msg = m /\ proc'[p].copy = None
                /\ proc'[p].at = now /\ proc'[p].born = run
           /\ \A c \in broker : Deliver(p, c) =>
                /\ proc[p] = Idle /\ \A q \in Procs : q # p => proc'[q] = proc[q]
                /\ proc'[p].pc = IF c.notBefore > now THEN "chain" ELSE "claim"
                /\ proc'[p].msg = c.msg /\ proc'[p].copy = c
                /\ proc'[p].at = now /\ proc'[p].born = run /\ c # None
<1>1. ASSUME NEW m \in bounds.sends, NEW delay \in bounds.delays, Send(p, m, delay)
      PROVE  /\ m \in Msgs /\ proc[p] = Idle /\ \A q \in Procs : q # p => proc'[q] = proc[q]
             /\ proc'[p].pc = "reserve" /\ proc'[p].msg = m /\ proc'[p].copy = None
             /\ proc'[p].at = now /\ proc'[p].born = run
  <2>1. PICK f : /\ f = [Idle EXCEPT !.pc = "reserve", !.msg = m, !.at = now, !.born = run,
                                     !.wait = now + delay]
                 /\ Goto(p, f)
    BY <1>1 DEF Send
  <2>2. f.pc = "reserve" /\ f.msg = m /\ f.copy = Idle.copy /\ f.at = now /\ f.born = run
    BY <2>1, IdleFits DEF Frame
  <2>3. proc'[p] = f /\ \A q \in Procs : q # p => proc'[q] = proc[q]
    BY <2>1, Parts DEF Goto, FramesFit
  <2> QED BY <1>1, <2>2, <2>3, IdleFits, TheBounds DEF Send
<1>2. ASSUME NEW c \in broker, Deliver(p, c)
      PROVE  /\ proc[p] = Idle /\ \A q \in Procs : q # p => proc'[q] = proc[q]
             /\ proc'[p].pc = IF c.notBefore > now THEN "chain" ELSE "claim"
             /\ proc'[p].msg = c.msg /\ proc'[p].copy = c
             /\ proc'[p].at = now /\ proc'[p].born = run /\ c # None
  <2>1. PICK pc : /\ pc = IF c.notBefore > now THEN "chain" ELSE "claim"
                  /\ Goto(p, [Idle EXCEPT !.pc = pc, !.msg = c.msg, !.copy = c, !.at = now, !.born = run])
    BY <1>2 DEF Deliver
  <2>2. PICK f : /\ f = [Idle EXCEPT !.pc = pc, !.msg = c.msg, !.copy = c, !.at = now, !.born = run]
                 /\ Goto(p, f)
    BY <2>1
  <2>3. f.pc = pc /\ f.msg = c.msg /\ f.copy = c /\ f.at = now /\ f.born = run
    BY <2>2, IdleFits DEF Frame
  <2>4. proc'[p] = f /\ \A q \in Procs : q # p => proc'[q] = proc[q]
    BY <2>2, Parts DEF Goto, FramesFit
  <2> QED BY <1>2, <2>1, <2>3, <2>4, Parts, CopyRecord DEF Deliver, CopiesFit
<1> QED BY <1>1, <1>2

-----------------------------------------------------------------------------
(* Which messages the broker accepted *)

(* A sender's message was sent by a client and is with the broker only when *)
(* it confirms, or once something failed; a delivery's message is.          *)
PostedFrame(f, S, T) ==
    f.pc # "idle" =>
       /\ f.copy = None => f.msg \in T
       /\ f.copy # None => f.msg \in S
       /\ f.pc = "confirm" => f.msg \in S
       /\ f.copy = None /\ f.pc \notin {"confirm", "abandon"} => f.msg \notin S

PostedRecords(r, c, B, S) ==
    /\ \A d \in B : d.msg \in S
    /\ c # None => c.msg \in S
    /\ r # None /\ ~r.pending => r.msg \in S

OneSender ==
    \A p, q \in Procs : ~At(p, "idle") /\ ~At(q, "idle") /\ Sending(p) /\ Sending(q) /\ Msg(p) = Msg(q)
                          => p = q

Posted ==
    /\ sent \subseteq started
    /\ PostedRecords(reservation, claim, broker, sent)
    /\ named \subseteq sent /\ owed \subseteq sent
    /\ \A p \in Procs : PostedFrame(proc[p], sent, started)
    /\ OneSender

LEMMA PostedMsg ==
    ASSUME Posted, NEW p \in Procs, ~At(p, "idle")
    PROVE  /\ Sending(p) => Msg(p) \in started
           /\ ~Sending(p) => Msg(p) \in sent
           /\ At(p, "confirm") => Msg(p) \in sent
           /\ Sending(p) /\ ~At(p, "confirm") /\ ~At(p, "abandon") => Msg(p) \notin sent
BY DEF Posted, PostedFrame, At, Msg, Sending

(* Moving on leaves the frames as they should be, unless it is to confirm   *)
(* or away from the end of a send.                                          *)
LEMMA PostedMoved ==
    ASSUME QueueType, Posted, NEW p \in Procs, ~At(p, "idle"), NEW S, Moved(p, S),
           "confirm" \notin S, At(p, "confirm") \/ At(p, "abandon") => S \subseteq {"abandon"}
    PROVE  (\A q \in Procs : PostedFrame(proc'[q], sent, started)) /\ OneSender'
<1>1. \A q \in Procs : q # p => proc'[q] = proc[q]
  BY DEF Moved
<1>2. CASE proc'[p] = Idle
  <2>1. proc'[p].pc = "idle"
    BY <1>2, IdleFits
  <2> QED BY <1>1, <2>1 DEF Posted, PostedFrame, OneSender, At, Sending, Msg
<1>3. CASE /\ proc'[p].pc \in S /\ proc'[p].msg = Msg(p) /\ proc'[p].copy = proc[p].copy
  <2>1. PostedFrame(proc'[p], sent, started)
    BY <1>3, PostedMsg DEF PostedFrame, At, Sending
  <2>2. OneSender'
    BY <1>1, <1>3 DEF Posted, OneSender, At, Sending, Msg
  <2> QED BY <1>1, <2>1, <2>2 DEF Posted
<1> QED BY <1>2, <1>3 DEF Moved

LEMMA ProvenPosted ==
    ASSUME Posted, NEW m \in sent
    PROVE  PostedRecords(Proven(m), claim, broker, sent)
BY DEF Posted, PostedRecords, Proven

LEMMA ClaimStepPosted ==
    ASSUME QueueType, Posted, NEW p \in Procs, ClaimStep(p)
    PROVE  /\ PostedRecords(reservation', claim', broker, sent)
           /\ named' \subseteq sent /\ owed' \subseteq sent
<1>0. ~At(p, "idle")
  BY DEF ClaimStep, FindReserved, ReserveMessage, Confirm, Abandon, ClaimMessage, ClaimTaken, ClaimEarly,
         Hold, Release, Complete, At
<1>p. PostedRecords(reservation, claim, broker, sent) /\ named \subseteq sent /\ owed \subseteq sent
  BY DEF Posted
<1>1. CASE FindReserved(p)
  BY <1>p, <1>1 DEF FindReserved, PostedRecords, AnswersDuplicate, Fresh
<1>2. CASE ReserveMessage(p)
  BY <1>p, <1>2 DEF ReserveMessage, PutClaims, PostedRecords, ghosts
<1>3. CASE Confirm(p)
  <2>1. Msg(p) \in sent
    BY <1>0, <1>3, PostedMsg DEF Confirm
  <2> QED BY <1>p, <1>3, <2>1 DEF Confirm, ConfirmPublication, PutClaims, PostedRecords, claims
<1>4. CASE Abandon(p)
  BY <1>p, <1>4 DEF Abandon, AbandonReservation, PutClaims, PostedRecords, claims, ghosts
<1>d. ASSUME At(p, "claim") PROVE Msg(p) \in sent
  BY <1>0, <1>d, BackPcs, PostedMsg DEF At, DeliveryPcs
<1>5. CASE ClaimMessage(p)
  <2>1. Msg(p) \in sent /\ PostedRecords(Proven(Msg(p)), claim, broker, sent)
    BY <1>d, <1>5, ProvenPosted DEF ClaimMessage
  <2> QED BY <1>p, <1>5, <2>1 DEF ClaimMessage, PutClaims, PostedRecords, ghosts
<1>6. CASE ClaimTaken(p)
  <2>1. Msg(p) \in sent /\ PostedRecords(Proven(Msg(p)), claim, broker, sent)
    BY <1>d, <1>6, ProvenPosted DEF ClaimTaken
  <2>2. claim.msg \in sent
    BY <1>p, <1>6 DEF ClaimTaken, Blocks, Fresh, PostedRecords
  <2> QED BY <1>p, <1>6, <2>1, <2>2 DEF ClaimTaken, PostedRecords
<1>7. CASE ClaimEarly(p)
  <2>1. Msg(p) \in sent /\ PostedRecords(Proven(Msg(p)), claim, broker, sent)
    BY <1>d, <1>7, ProvenPosted DEF ClaimEarly
  <2> QED BY <1>p, <1>7, <2>1 DEF ClaimEarly, PostedRecords, ghosts
<1>8. CASE Hold(p)
  <2>1. CASE Of(claim, Msg(p))
    <3>1. claim \in Claim /\ (reservation # None => reservation \in Reservation)
      BY <2>1, KeptFits DEF Of, ClaimFits, ReservationFits, Maybe
    <3>2. \A e : \/ reservation = None
               \/ /\ [reservation EXCEPT !.expires = e].msg = reservation.msg
                  /\ [reservation EXCEPT !.expires = e].pending = reservation.pending
      BY <3>1 DEF Reservation
    <3>3. claim'.msg = claim.msg
      <4>1. PICK c : /\ c = [claim EXCEPT !.retryAt = proc[p].wait, !.expires = Later(@, proc[p].wait + Stale)]
                     /\ claim' = c
        BY <1>8, <2>1 DEF Hold, HoldClaim, PutClaims
      <4>2. c.msg = claim.msg
        BY <3>1, <4>1, ClaimReplaced
      <4> QED BY <4>1, <4>2
    <3>4. \/ reservation' = reservation
          \/ /\ reservation # None
             /\ reservation' = [reservation EXCEPT !.expires = Later(@, proc[p].wait + Grace)]
      BY <1>8, <2>1 DEF Hold, HoldClaim, PutClaims, Of
    <3>5. reservation' # None /\ ~reservation'.pending => reservation'.msg \in sent
      BY <1>p, <3>2, <3>4 DEF PostedRecords
    <3>6. claim # None
      BY <2>1 DEF Of
    <3> QED BY <1>p, <1>8, <3>3, <3>5, <3>6 DEF Hold, PostedRecords, ghosts
  <2>2. CASE ~Of(claim, Msg(p))
    BY <1>p, <1>8, <2>2 DEF Hold, HoldClaim, claims, ghosts
  <2> QED BY <2>1, <2>2
<1>9. CASE Release(p)
  BY <1>p, <1>9 DEF Release, ReleaseClaim, PutClaims, PostedRecords, claims, ghosts
<1>10. CASE Complete(p)
  BY <1>p, <1>10 DEF Complete, CompleteMessage, PutClaims, Without, PostedRecords, ghosts
<1> QED BY <1>1, <1>2, <1>3, <1>4, <1>5, <1>6, <1>7, <1>8, <1>9, <1>10 DEF ClaimStep

(* Every step of a process but the first and the publication.               *)
LEMMA OtherMoves ==
    ASSUME QueueType, NEW p \in Procs, ProcStep(p)
    PROVE  \/ \E m \in bounds.sends, delay \in bounds.delays : Send(p, m, delay)
           \/ \E c \in broker : Deliver(p, c)
           \/ SendToBroker(p)
           \/ /\ ~At(p, "idle")
              /\ Moved(p, Pc \ {"confirm"})
              /\ At(p, "confirm") \/ At(p, "abandon") => Moved(p, {"abandon"})
<1> DEFINE Rest == Pc \ {"confirm"}
           Goal == /\ ~At(p, "idle")
                   /\ Moved(p, Rest)
                   /\ At(p, "confirm") \/ At(p, "abandon") => Moved(p, {"abandon"})
<1>w. ASSUME NEW S, NEW T, S \subseteq T, Moved(p, S) PROVE Moved(p, T)
  BY <1>w DEF Moved
<1>r. {"reserve", "admit", "register", "schedule", "unstage", "write", "finalize", "send", "abandon",
       "chain", "claim", "answered", "admitted", "read", "callback", "extend", "hold",
       "suspend", "release", "unclaim", "ack", "discard", "unlist", "unorphan", "complete"} \subseteq Rest
  BY DEF Pc
<1> HIDE DEF Rest
<1>0. \A x, y : At(p, x) /\ At(p, y) => x = y
  BY DEF At
<1>1. ASSUME \/ RefuseExpired(p) \/ FindReserved(p) \/ ReserveMessage(p) \/ Admit(p)
             \/ RegisterQueuePayload(p) \/ ScheduleQueuePayloadOrphan(p) \/ Unstage(p) \/ WriteBody(p)
             \/ FinalizeQueuePayload(p) \/ Confirm(p) \/ Abandon(p)
      PROVE  Goal
  <2>1. CASE RefuseExpired(p) \/ FindReserved(p) \/ Confirm(p)
    <3>1. Moved(p, {"abandon"}) /\ Moved(p, Rest)
      BY <1>r, <2>1, SendMoves DEF Moved
    <3>2. ~At(p, "idle")
      BY <2>1 DEF RefuseExpired, FindReserved, Confirm, At
    <3> QED BY <3>1, <3>2
  <2>2. CASE ReserveMessage(p)
    BY <1>0, <1>r, <2>2, SendMoves DEF ReserveMessage, Moved
  <2>3. CASE Admit(p)
    BY <1>0, <1>r, <2>3, SendMoves DEF Admit, Moved
  <2>4. CASE RegisterQueuePayload(p)
    BY <1>0, <1>r, <2>4, SendMoves DEF RegisterQueuePayload, Moved
  <2>5. CASE ScheduleQueuePayloadOrphan(p)
    BY <1>0, <1>r, <2>5, SendMoves DEF ScheduleQueuePayloadOrphan, Moved
  <2>6. CASE Unstage(p)
    BY <1>0, <1>r, <2>6, SendMoves DEF Unstage, Moved
  <2>7. CASE WriteBody(p)
    BY <1>0, <1>r, <2>7, SendMoves DEF WriteBody, Moved
  <2>8. CASE FinalizeQueuePayload(p)
    BY <1>0, <1>r, <2>8, SendMoves DEF FinalizeQueuePayload, Moved
  <2>9. CASE Abandon(p)
    BY <1>0, <1>r, <2>9, SendMoves DEF Abandon, Moved
  <2> QED BY <1>1, <2>1, <2>2, <2>3, <2>4, <2>5, <2>6, <2>7, <2>8, <2>9
<1>2. ASSUME \/ Chain(p) \/ ClaimExpired(p) \/ ClaimMessage(p) \/ ClaimTaken(p) \/ ClaimEarly(p)
             \/ EvaluateAnswer(p) \/ CheckAdmission(p) \/ ReadBody(p)
      PROVE  Goal
  <2>1. ~At(p, "idle") /\ ~At(p, "confirm") /\ ~At(p, "abandon")
    BY <1>2 DEF Chain, ClaimExpired, ClaimMessage, ClaimTaken, ClaimEarly, EvaluateAnswer, CheckAdmission,
                ReadBody, At
  <2>2. Moved(p, Rest)
    <3>1. CASE Chain(p) \/ ClaimExpired(p) \/ ClaimTaken(p)
      BY <1>r, <3>1, DeliveryMoves DEF Moved
    <3>2. CASE ClaimMessage(p)
      BY <1>r, <3>2, DeliveryMoves DEF Moved
    <3>3. CASE ClaimEarly(p)
      BY <1>r, <3>3, DeliveryMoves DEF Moved
    <3>4. CASE EvaluateAnswer(p)
      BY <1>r, <3>4, DeliveryMoves DEF Moved
    <3>5. CASE CheckAdmission(p)
      <4>1. PICK pc \in {"unclaim", "callback", "complete"} : Moved(p, {pc})
        BY <1>r, <3>5, DeliveryMoves DEF Moved
      <4>2. {pc} \subseteq Rest
        BY <1>r
      <4> QED BY <1>w, <4>1, <4>2
    <3>6. CASE ReadBody(p)
      BY <1>r, <3>6, DeliveryMoves DEF Moved
    <3> QED BY <1>2, <3>1, <3>2, <3>3, <3>4, <3>5, <3>6
  <2> QED BY <2>1, <2>2
<1>3. ASSUME \/ CallbackDone(p) \/ CallbackFails(p) \/ \E delay \in Delays : CallbackSuspends(p, delay)
             \/ ExtendOrphan(p) \/ ExtendRefused(p) \/ Hold(p) \/ Suspend(p) \/ SuspendedTooOften(p)
             \/ Release(p) \/ Ack(p)
      PROVE  Goal
  <2>1. ~At(p, "idle") /\ ~At(p, "confirm") /\ ~At(p, "abandon")
    BY <1>3 DEF CallbackDone, CallbackFails, CallbackSuspends, ExtendOrphan, ExtendRefused, Hold, Suspend,
                SuspendedTooOften, Release, Ack, At
  <2>2. Moved(p, Rest)
    <3>1. CASE CallbackDone(p)
      BY <1>r, <3>1, CallbackMoves DEF Moved
    <3>2. CASE CallbackFails(p)
      BY <1>r, <3>2, CallbackMoves DEF Moved
    <3>3. CASE \E delay \in Delays : CallbackSuspends(p, delay)
      BY <1>r, <3>3, CallbackMoves DEF Moved
    <3>4. CASE ExtendOrphan(p)
      BY <1>r, <3>4, CallbackMoves DEF Moved
    <3>5. CASE ExtendRefused(p)
      BY <1>r, <3>5, CallbackMoves DEF Moved
    <3>6. CASE Hold(p)
      BY <1>r, <3>6, CallbackMoves DEF Moved
    <3>7. CASE Suspend(p)
      BY <1>r, <3>7, CallbackMoves DEF Moved
    <3>8. CASE SuspendedTooOften(p) \/ Ack(p)
      BY <1>r, <3>8, CallbackMoves DEF Moved
    <3>9. CASE Release(p)
      BY <1>r, <3>9, CallbackMoves DEF Moved
    <3> QED BY <1>3, <3>1, <3>2, <3>3, <3>4, <3>5, <3>6, <3>7, <3>8, <3>9
  <2> QED BY <2>1, <2>2
<1>4. ASSUME DeleteBody(p) \/ UnregisterQueuePayload(p) \/ CancelQueuePayloadOrphan(p) \/ Complete(p)
      PROVE  Goal
  <2>1. ~At(p, "idle") /\ ~At(p, "confirm") /\ ~At(p, "abandon")
    BY <1>4 DEF DeleteBody, UnregisterQueuePayload, CancelQueuePayloadOrphan, Complete, At
  <2>2. PICK back \in {"abandon", "unclaim"} : back = IF Sending(p) THEN "abandon" ELSE "unclaim"
    OBVIOUS
  <2>3. Moved(p, Rest)
    <3>1. CASE DeleteBody(p)
      BY <1>r, <2>2, <3>1, EndMoves DEF Moved
    <3>2. CASE UnregisterQueuePayload(p)
      BY <1>r, <2>2, <3>2, EndMoves DEF Moved
    <3>3. CASE CancelQueuePayloadOrphan(p)
      BY <1>r, <2>2, <3>3, EndMoves DEF Moved
    <3>4. CASE Complete(p)
      BY <1>r, <3>4, EndMoves DEF Moved
    <3> QED BY <1>4, <3>1, <3>2, <3>3, <3>4
  <2> QED BY <2>1, <2>3
<1>5. ASSUME CallFails(p) PROVE Goal
  <2>1. Moved(p, Back(p)) /\ ~At(p, "idle")
    BY <1>5, EndMoves DEF CallFails, Calls, At
  <2>2. Back(p) \subseteq Rest /\ (At(p, "confirm") => Back(p) \subseteq {"abandon"})
    BY <1>r, BackPcs DEF At, SendPcs
  <2>3. At(p, "abandon") => Back(p) \subseteq {"abandon"}
    BY BackPcs
  <2> QED BY <1>w, <2>1, <2>2, <2>3
<1>6. ASSUME Lose(p) PROVE Goal
  <2>1. Moved(p, {}) /\ ~At(p, "idle")
    BY <1>6, EndMoves DEF Lose, At
  <2> QED BY <1>w, <2>1
<1> QED BY <1>1, <1>2, <1>3, <1>4, <1>5, <1>6 DEF ProcStep, SendStep, DeliveryStep, Rest

LEMMA ProcPosted ==
    ASSUME QueueType, Posted, NEW p \in Procs, ProcStep(p)
    PROVE  Posted'
<1>p. /\ sent \subseteq started /\ PostedRecords(reservation, claim, broker, sent)
      /\ named \subseteq sent /\ owed \subseteq sent
  BY DEF Posted
<1>1. ASSUME NEW m \in bounds.sends, NEW delay \in bounds.delays, Send(p, m, delay) PROVE Posted'
  <2>1. /\ m \notin started /\ started' = started \cup {m} /\ UNCHANGED <<sent, named, owed>>
        /\ UNCHANGED <<reservation, claim, broker>>
    BY <1>1 DEF Send, claims, ghosts
  <2>2. /\ proc[p] = Idle /\ \A q \in Procs : q # p => proc'[q] = proc[q]
        /\ proc'[p].pc = "reserve" /\ proc'[p].msg = m /\ proc'[p].copy = None
    BY <1>1, StartMoves
  <2>3. \A q \in Procs : PostedFrame(proc'[q], sent', started')
    BY <1>p, <2>1, <2>2 DEF Posted, PostedFrame
  <2>4. OneSender'
    <3>1. \A q \in Procs : q # p /\ ~At(q, "idle") /\ Sending(q) => Msg(q) # m
      BY <2>1, PostedMsg
    <3> QED BY <2>2, <3>1 DEF Posted, OneSender, At, Sending, Msg
  <2> QED BY <1>p, <2>1, <2>3, <2>4 DEF Posted
<1>2. ASSUME NEW c \in broker, Deliver(p, c) PROVE Posted'
  <2>1. UNCHANGED <<started, sent, named, owed, reservation, claim, broker>>
    BY <1>2 DEF Deliver, claims, ghosts
  <2>2. /\ proc[p] = Idle /\ \A q \in Procs : q # p => proc'[q] = proc[q]
        /\ proc'[p].pc \in {"chain", "claim"} /\ proc'[p].msg = c.msg /\ proc'[p].copy = c /\ c # None
    BY <1>2, StartMoves
  <2>3. c.msg \in sent
    BY <1>p DEF PostedRecords
  <2>4. \A q \in Procs : PostedFrame(proc'[q], sent', started')
    BY <2>1, <2>2, <2>3 DEF Posted, PostedFrame
  <2>5. OneSender'
    BY <2>2 DEF Posted, OneSender, At, Sending, Msg
  <2> QED BY <1>p, <2>1, <2>4, <2>5 DEF Posted
<1>3. CASE SendToBroker(p)
  <2>0. At(p, "send") /\ ~At(p, "idle") /\ Sending(p) /\ Msg(p) \in started
    BY <1>3, BackPcs, PostedMsg DEF SendToBroker, At, SendPcs
  <2>1. /\ sent' = sent \cup {Msg(p)} /\ UNCHANGED <<started, named, owed, reservation, claim>>
        /\ \A d \in broker' : d \in broker \/ d.msg = Msg(p)
    BY <1>3 DEF SendToBroker, starts, claims
  <2>2. Moved(p, {"confirm", "abandon"})
    BY <1>3, SendMoves
  <2>3. \A q \in Procs : PostedFrame(proc'[q], sent', started')
    <3>1. ASSUME NEW q \in Procs, q # p PROVE PostedFrame(proc'[q], sent', started')
      <4>1. proc'[q] = proc[q] /\ PostedFrame(proc[q], sent, started)
        BY <2>2, <3>1 DEF Moved, Posted
      <4>2. ~At(q, "idle") /\ Sending(q) => Msg(q) # Msg(p)
        BY <2>0, <3>1 DEF Posted, OneSender
      <4> QED BY <2>1, <4>1, <4>2 DEF PostedFrame, At, Sending, Msg
    <3>2. PostedFrame(proc'[p], sent', started')
      BY <2>0, <2>1, <2>2, IdleFits DEF Moved, PostedFrame, Sending
    <3> QED BY <3>1, <3>2
  <2>4. OneSender'
    BY <2>0, <2>2, IdleFits DEF Moved, Posted, OneSender, At, Sending, Msg
  <2>5. PostedRecords(reservation', claim', broker', sent')
    <3>1. \A d \in broker' : d.msg \in sent'
      BY <1>p, <2>1 DEF PostedRecords
    <3> QED BY <1>p, <2>1, <3>1 DEF PostedRecords
  <2>6. sent' \subseteq started' /\ named' \subseteq sent' /\ owed' \subseteq sent'
    BY <1>p, <2>0, <2>1
  <2> QED BY <2>3, <2>4, <2>5, <2>6 DEF Posted
<1>4. CASE /\ ~At(p, "idle") /\ ~SendToBroker(p)
           /\ ~\E m \in bounds.sends, delay \in bounds.delays : Send(p, m, delay)
           /\ Moved(p, Pc \ {"confirm"})
           /\ At(p, "confirm") \/ At(p, "abandon") => Moved(p, {"abandon"})
  <2>1. (\A q \in Procs : PostedFrame(proc'[q], sent, started)) /\ OneSender'
    <3>1. PICK S : /\ Moved(p, S) /\ "confirm" \notin S
                   /\ At(p, "confirm") \/ At(p, "abandon") => S \subseteq {"abandon"}
      <4>1. CASE At(p, "confirm") \/ At(p, "abandon")
        BY <1>4, <4>1
      <4>2. CASE ~(At(p, "confirm") \/ At(p, "abandon"))
        BY <1>4, <4>2
      <4> QED BY <4>1, <4>2
    <3> QED BY <1>4, <3>1, PostedMoved
  <2>2. UNCHANGED started
    BY <1>4, ProcStepTouches
  <2>3. UNCHANGED sent
    BY <1>4, ProcStepTouches DEF GhostStep, FindReserved, Confirm, ClaimTaken, CallbackDone
  <2>4. named' \subseteq sent /\ owed' \subseteq sent
    <3>1. CASE ClaimStep(p)
      BY <3>1, ClaimStepPosted
    <3>2. CASE ~ClaimStep(p)
      BY <1>p, <1>4, <3>2, ProcStepTouches DEF GhostStep, ClaimStep, CallbackDone
    <3> QED BY <3>1, <3>2
  <2>5. /\ claim' # None => claim'.msg \in sent
        /\ reservation' # None /\ ~reservation'.pending => reservation'.msg \in sent
    <3>1. CASE ClaimStep(p)
      BY <3>1, ClaimStepPosted DEF PostedRecords
    <3>2. CASE ~ClaimStep(p)
      BY <1>p, <3>2, ProcStepTouches DEF PostedRecords
    <3> QED BY <3>1, <3>2
  <2>6. \A d \in broker' : d.msg \in sent
    <3>1. CASE Chain(p) \/ Suspend(p)
      <4>1. ~Sending(p)
        BY <3>1, BackPcs DEF Chain, Suspend, At, DeliveryPcs
      <4>2. Msg(p) \in sent
        BY <1>4, <4>1, PostedMsg
      <4>3. proc[p].copy \in Copy /\ proc[p].copy.msg = Msg(p)
        BY <4>1, Parts, FrameTypes DEF FramesFit, FrameFits, Sending, Msg, Maybe
      <4>4. PICK n, k, u : \/ broker' = broker \cup {[proc[p].copy EXCEPT !.until = u]}
                           \/ broker' = broker \cup
                                {[[proc[p].copy EXCEPT !.notBefore = n, !.count = k] EXCEPT !.until = u]}
        BY <3>1 DEF Chain, Suspend, Republish
      <4>5. /\ [proc[p].copy EXCEPT !.until = u].msg = Msg(p)
            /\ [[proc[p].copy EXCEPT !.notBefore = n, !.count = k] EXCEPT !.until = u].msg = Msg(p)
        BY <4>3 DEF Copy
      <4> QED BY <1>p, <4>2, <4>4, <4>5 DEF PostedRecords
    <3>2. CASE Ack(p)
      BY <1>p, <3>2 DEF Ack, PostedRecords
    <3>3. CASE UNCHANGED broker
      BY <1>p, <3>3 DEF PostedRecords
    <3> QED BY <1>4, <3>1, <3>2, <3>3, ProcStepTouches DEF BrokerStep
  <2> QED BY <1>p, <2>1, <2>2, <2>3, <2>4, <2>5, <2>6 DEF Posted, PostedRecords
<1> QED BY <1>1, <1>2, <1>3, <1>4, OtherMoves

LEMMA NextPosted ==
    ASSUME QueueType, Posted, [Next]_vars
    PROVE  Posted'
<1>1. ASSUME NEW p \in Procs, ProcStep(p) PROVE Posted'
  BY <1>1, ProcPosted
<1>2. CASE UNCHANGED <<started, sent, named, owed, reservation, claim, broker, proc>>
  BY <1>2 DEF Posted, PostedFrame, OneSender, At, Sending, Msg
<1>3. ASSUME NEW m \in Msgs, SweepStep(m) PROVE Posted'
  BY <1>2, <1>3, SweepTouches
<1>4. CASE ExpireRun \/ DeleteQueuePage
  BY <1>2, <1>4 DEF ExpireRun, DeleteQueuePage, claims, starts, ghosts
<1>5. CASE CommitQueuePage
  BY <1>5 DEF CommitQueuePage, Posted, PostedRecords, PostedFrame, OneSender, At, Sending, Msg, starts, ghosts
<1>6. CASE CompactClaims
  BY <1>6 DEF CompactClaims, PutClaims, Posted, PostedRecords, PostedFrame, OneSender, At, Sending, Msg, starts,
              ghosts
<1>7. CASE Tick
  <2>1. UNCHANGED <<started, sent, named, owed, reservation, claim>> /\ broker' \subseteq broker
    <3>1. UNCHANGED <<started, sent, named, owed, reservation, claim>>
      BY <1>7 DEF Tick, setup, claims, bodies, starts
    <3>2. broker' \subseteq broker
      BY <1>7 DEF Tick
    <3> QED BY <3>1, <3>2
  <2>2. \A q \in Procs : proc'[q] = Idle \/ proc'[q] = proc[q]
    BY <1>7 DEF Tick
  <2> QED BY <2>1, <2>2, IdleFits DEF Posted, PostedRecords, PostedFrame, OneSender, At, Sending, Msg
<1>8. CASE UNCHANGED vars
  BY <1>2, <1>8 DEF vars, claims, starts, ghosts
<1> QED BY <1>1, <1>3, <1>4, <1>5, <1>6, <1>7, <1>8, Steps

LEMMA InitPosted == Init => Posted
BY IdleFits DEF Init, Posted, PostedRecords, PostedFrame, OneSender, At

(* A sender is told of another sender's message only if the broker accepted *)
(* that message, through confirmations whose answers are lost, abandoned    *)
(* and outlived reservations, and deliveries that prove a publication.      *)
THEOREM NamedMessagesWereSent == Spec => []NamedWasSent
<1>1. Posted => NamedWasSent
  BY DEF Posted, NamedWasSent
<1> QED BY <1>1, InitType, NextType, InitPosted, NextPosted, PTL DEF Spec

-----------------------------------------------------------------------------
(* Who holds the claim of a key *)

Owner(p) == ~Sending(p) /\ proc[p].pc \in HoldingPcs

(* The claim is its message's, not suspended, and outlasts the delivery;    *)
(* or retention removed the run's records, and none is made any more.       *)
HasClaim(p) ==
    \/ /\ claim # None /\ claim.msg = Msg(p)
       /\ claim.retryAt = None /\ claim.expires >= proc[p].at + Stale
    \/ scope = "run" /\ run = "gone"

Claimed ==
    ~faults.untold =>
       /\ \A p \in Procs : Owner(p) => HasClaim(p)
       /\ \A p, q \in Procs : Owner(p) /\ Owner(q) => p = q

(* A missed answer is never forgotten.                                      *)
LEMMA UntoldStays ==
    ASSUME QueueType, [Next]_vars, faults.untold
    PROVE  faults'.untold
<1>0. ASSUME NEW x, Failed(x) PROVE faults'.untold
  BY <1>0 DEF Failed
<1>1. ASSUME NEW p \in Procs, ProcStep(p) PROVE faults'.untold
  <2>1. ASSUME NEW f, Called(p, f) PROVE faults'.untold
    BY <1>0, <2>1 DEF Called
  <2>2. CASE SendStep(p)
    BY <2>1, <2>2 DEF SendStep, Send, RefuseExpired, FindReserved, ReserveMessage, Admit,
                      RegisterQueuePayload, ScheduleQueuePayloadOrphan, Unstage, WriteBody,
                      FinalizeQueuePayload, SendToBroker, Confirm, Abandon
  <2>3. CASE DeliveryStep(p)
    BY <2>1, <2>3 DEF DeliveryStep, Deliver, Chain, Republish, ClaimExpired, ClaimMessage, ClaimTaken,
                      ClaimEarly, EvaluateAnswer, CheckAdmission, ReadBody, CallbackDone, CallbackFails,
                      CallbackSuspends, ExtendOrphan, ExtendRefused, Hold, Suspend, SuspendedTooOften,
                      Release, Ack
  <2>4. CASE \/ DeleteBody(p) \/ UnregisterQueuePayload(p) \/ CancelQueuePayloadOrphan(p) \/ Complete(p)
             \/ CallFails(p) \/ Lose(p)
    BY <1>0, <2>1, <2>4 DEF DeleteBody, UnregisterQueuePayload, CancelQueuePayloadOrphan, Complete,
                            CallFails, Lose
  <2> QED BY <1>1, <2>2, <2>3, <2>4 DEF ProcStep
<1>2. ASSUME NEW m \in Msgs, SweepStep(m) PROVE faults'.untold
  BY <1>2, SweepTouches
<1>3. CASE ExpireRun \/ DeleteQueuePage \/ CommitQueuePage \/ CompactClaims \/ Tick \/ UNCHANGED vars
  BY <1>3 DEF ExpireRun, DeleteQueuePage, CommitQueuePage, CompactClaims, Tick, vars
<1> QED BY <1>1, <1>2, <1>3, Steps

(* A hold, a release or a completion that is answered ends the ownership.   *)
LEMMA EndingTold ==
    ASSUME QueueType, NEW p \in Procs, ~faults'.untold
    PROVE  /\ Hold(p) => proc'[p].pc = "suspend"
           /\ Release(p) => proc'[p].pc = "idle"
           /\ Complete(p) => proc'[p].pc \in {"ack", "idle"}
<1>1. ASSUME NEW f, Called(p, f), proc[p].pc \in ClaimEnding PROVE proc'[p] = f
  <2>1. Goto(p, f)
    <3>0. ASSUME NEW x, x, Failed(x) PROVE faults'.untold
      BY <3>0 DEF Failed
    <3>1. ~Failed(proc[p].pc \in ClaimEnding)
      BY <1>1, <3>0
    <3> QED BY <1>1, <3>1 DEF Called
  <2> QED BY <2>1, Parts DEF Goto, FramesFit
<1>2. ASSUME Hold(p) PROVE proc'[p].pc = "suspend"
  <2>1. PICK h : h = To(p, "suspend")
    OBVIOUS
  <2>2. h \in Frame /\ h.pc = "suspend"
    <3>1. "suspend" \in Pc
      BY DEF Pc
    <3> QED BY <2>1, <3>1, ToFields
  <2>3. PICK f : f = [h EXCEPT !.claimed = FALSE] /\ Called(p, f)
    BY <1>2, <2>1 DEF Hold
  <2>4. f.pc = "suspend"
    BY <2>2, <2>3 DEF Frame
  <2> QED BY <1>1, <1>2, <2>3, <2>4 DEF Hold, At, ClaimEnding
<1>3. ASSUME Release(p) PROVE proc'[p].pc = "idle"
  <2>1. CASE At(p, "release")
    BY <1>1, <1>3, <2>1, IdleFits DEF Release, At, ClaimEnding
  <2>2. CASE At(p, "unclaim")
    <3>1. ~Sending(p)
      BY <2>2, BackPcs DEF At, DeliveryPcs
    <3>2. Caught(p) = Idle
      BY <2>2, <3>1 DEF Caught, At
    <3>3. Goto(p, Idle)
      BY <1>3, <3>2 DEF Release, Called
    <3> QED BY <3>3, Parts, IdleFits DEF Goto, FramesFit
  <2> QED BY <1>3, <2>1, <2>2 DEF Release
<1>4. ASSUME Complete(p) PROVE proc'[p].pc \in {"ack", "idle"}
  <2>1. "ack" \in Pc
    BY DEF Pc
  <2> QED BY <1>1, <1>4, <2>1, IdleFits, ToFields DEF Complete, At, ClaimEnding
<1> QED BY <1>2, <1>3, <1>4

(* Only a claim makes an owner.                                             *)
LEMMA NewOwner ==
    ASSUME QueueType, NEW p \in Procs, ProcStep(p), ~ClaimMessage(p)
    PROVE  /\ \A q \in Procs : Owner(q)' => /\ Owner(q)
                                            /\ proc'[q].msg = Msg(q) /\ proc'[q].at = proc[q].at
<1>0. Idle.copy = None
  BY IdleFits
<1>1. ASSUME NEW S, Moved(p, S), \/ Owner(p) \/ Sending(p) \/ S \cap HoldingPcs = {}
      PROVE  \A q \in Procs : Owner(q)' => /\ Owner(q)
                                           /\ proc'[q].msg = Msg(q) /\ proc'[q].at = proc[q].at
  BY <1>0, <1>1 DEF Moved, Owner, Sending, Msg
<1>2. CASE \E m \in bounds.sends, delay \in bounds.delays : Send(p, m, delay)
  <2>1. /\ \A q \in Procs : q # p => proc'[q] = proc[q]
        /\ proc'[p].copy = None
    BY <1>2, StartMoves
  <2> QED BY <2>1 DEF Owner, Sending, Msg
<1>3. CASE \E c \in broker : Deliver(p, c)
  <2>1. /\ \A q \in Procs : q # p => proc'[q] = proc[q]
        /\ proc'[p].pc \in {"chain", "claim"}
    BY <1>3, StartMoves
  <2> QED BY <2>1 DEF Owner, Sending, Msg, HoldingPcs, EndPcs
<1>4. CASE Owner(p) \/ Sending(p)
  <2>1. \/ \E S : Moved(p, S)
        \/ \E m \in bounds.sends, delay \in bounds.delays : Send(p, m, delay)
        \/ \E c \in broker : Deliver(p, c)
    BY OtherMoves, SendMoves
  <2> QED BY <1>1, <1>2, <1>3, <1>4, <2>1
<1>5. CASE ~Owner(p) /\ ~Sending(p)
  <2>1. proc[p].pc \in UnclaimedPcs \cup {"ack", "idle"}
    <3>1. proc[p].pc \in Pc /\ (proc[p].pc \in SendPcs => Sending(p))
      BY Parts, FrameTypes, BackPcs DEF FramesFit
    <3> QED BY <1>5, <3>1 DEF Owner, Pc, SendPcs, HoldingPcs, EndPcs, UnclaimedPcs
  <2>2. /\ ~SendStep(p) \/ \E m \in bounds.sends, delay \in bounds.delays : Send(p, m, delay)
        /\ ~CheckAdmission(p) /\ ~ReadBody(p) /\ ~CallbackDone(p) /\ ~CallbackFails(p)
        /\ ~(\E delay \in Delays : CallbackSuspends(p, delay))
        /\ ~ExtendOrphan(p) /\ ~ExtendRefused(p) /\ ~Hold(p) /\ ~Release(p)
        /\ ~DeleteBody(p) /\ ~UnregisterQueuePayload(p) /\ ~CancelQueuePayloadOrphan(p) /\ ~Complete(p)
    BY <2>1 DEF UnclaimedPcs, At, SendStep, RefuseExpired, FindReserved, ReserveMessage, Admit,
                RegisterQueuePayload, ScheduleQueuePayloadOrphan, Unstage, WriteBody,
                FinalizeQueuePayload, SendToBroker, Confirm, Abandon, CheckAdmission, ReadBody,
                CallbackDone, CallbackFails, CallbackSuspends, ExtendOrphan, ExtendRefused, Hold, Release,
                DeleteBody, UnregisterQueuePayload, CancelQueuePayloadOrphan, Complete
  <2>3. {"ack"} \cap HoldingPcs = {} /\ {"answered"} \cap HoldingPcs = {}
        /\ {"suspend"} \cap HoldingPcs = {} /\ {} \cap HoldingPcs = {}
    BY DEF HoldingPcs, EndPcs
  <2>4. CASE Chain(p) \/ ClaimExpired(p) \/ ClaimTaken(p) \/ Suspend(p)
    BY <1>1, <2>3, <2>4, DeliveryMoves, CallbackMoves
  <2>5. CASE ClaimEarly(p)
    BY <1>1, <2>3, <2>5, DeliveryMoves
  <2>6. CASE EvaluateAnswer(p)
    BY <1>1, <2>3, <2>6, DeliveryMoves
  <2>7. CASE SuspendedTooOften(p) \/ Ack(p)
    BY <1>1, <2>3, <2>7, CallbackMoves
  <2>8. CASE CallFails(p) \/ Lose(p)
    <3>1. CallFails(p) => proc[p].pc \in UnclaimedPcs
      BY <2>1 DEF CallFails, Calls
    <3>2. Moved(p, {})
      BY <2>8, <3>1, EndMoves, BackPcs
    <3> QED BY <1>1, <2>3, <3>2
  <2> QED BY <1>2, <1>3, <2>2, <2>4, <2>5, <2>6, <2>7, <2>8 DEF ProcStep, DeliveryStep
<1> QED BY <1>4, <1>5

(* A claim that is held for a running delivery stands in every other's way. *)
LEMMA HeldClaimBlocks ==
    ASSUME QueueType, NEW p \in Procs, Owner(p), HasClaim(p), ~(scope = "run" /\ run = "gone")
    PROVE  Fresh(claim) /\ \A m : Blocks(m)
<1>1. FrameFits(proc[p], now) /\ proc[p].pc # "idle" /\ proc[p].at \in Nat
  BY Parts, FrameTypes DEF FramesFit, Owner, HoldingPcs, EndPcs
<1>2. claim # None /\ claim.retryAt = None /\ claim.expires >= proc[p].at + Stale
  BY DEF HasClaim
<1>3. claim.expires \in Nat
  BY <1>2, KeptFits, ClaimRecord DEF ClaimFits, Maybe
<1>4. claim.expires > now
  BY <1>1, <1>2, <1>3, Constants, Parts DEF FrameFits
<1> QED BY <1>2, <1>4 DEF Fresh, Blocks, SuspensionOver

LEMMA ProcClaimed ==
    ASSUME QueueType, Posted, Claimed, NEW p \in Procs, ProcStep(p)
    PROVE  Claimed'
<1> SUFFICES ASSUME ~faults'.untold
             PROVE  /\ \A q \in Procs : Owner(q)' => HasClaim(q)'
                    /\ \A q, r \in Procs : Owner(q)' /\ Owner(r)' => q = r
  BY DEF Claimed
<1>0. ~faults.untold /\ UNCHANGED <<now, scope, run>>
  <2>1. [Next]_vars
    BY DEF Next, ProcStep
  <2> QED BY <2>1, UntoldStays, ProcStepTouches
<1>1. /\ \A q \in Procs : Owner(q) => HasClaim(q)
      /\ \A q, r \in Procs : Owner(q) /\ Owner(r) => q = r
  BY <1>0 DEF Claimed
<1>2. CASE ClaimMessage(p)
  <2>1. \A q \in Procs : ~Owner(q)
    <3>1. ASSUME NEW q \in Procs, Owner(q) PROVE FALSE
      <4>1. HasClaim(q) /\ ~(scope = "run" /\ run = "gone")
        BY <1>1, <1>2, <3>1 DEF ClaimMessage
      <4> QED BY <1>2, <3>1, <4>1, HeldClaimBlocks DEF ClaimMessage
    <3> QED BY <3>1
  <2>2. \A q \in Procs : q # p => proc'[q] = proc[q]
    BY <1>2, DeliveryMoves DEF Moved
  <2>3. \A q \in Procs : Owner(q)' => q = p
    BY <2>1, <2>2 DEF Owner, Sending
  <2>4. ASSUME Owner(p)' PROVE HasClaim(p)'
    <3>1. proc'[p].msg = Msg(p) /\ proc'[p].at = proc[p].at
      BY <1>2, <2>4, DeliveryMoves, IdleFits DEF Moved, Owner, Sending
    <3>2. PICK c : c = [msg |-> Msg(p), expires |-> now + Stale, retryAt |-> None] /\ claim' = c
      BY <1>2 DEF ClaimMessage, PutClaims
    <3>3. c.msg = Msg(p) /\ c.expires = now + Stale /\ c.retryAt = None
      BY <3>2
    <3>4. c \in Claim
      <4>1. Msg(p) \in Msgs
        BY <1>2, ActiveMsg DEF ClaimMessage, At
      <4>2. now + Stale \in Stamp /\ None \in Maybe(Stamp)
        BY Parts, TheStamps, Constants DEF Maybe
      <4> QED BY <3>2, <4>1, <4>2 DEF Claim
    <3>5. now + Stale >= proc[p].at + Stale
      <4>1. proc[p].at \in Nat /\ proc[p].at <= now
        BY Parts, FrameTypes DEF FramesFit, FrameFits
      <4> QED BY <4>1, Parts, Constants
    <3> QED BY <3>1, <3>2, <3>3, <3>4, <3>5, Records DEF HasClaim, Msg
  <2>5. ASSUME NEW q \in Procs, Owner(q)' PROVE HasClaim(q)'
    <3>1. q = p
      BY <2>3, <2>5
    <3> QED BY <2>4, <2>5, <3>1
  <2>6. \A q, r \in Procs : Owner(q)' /\ Owner(r)' => q = r
    BY <2>3
  <2>7. \A q \in Procs : Owner(q)' => HasClaim(q)'
    BY <2>5
  <2> QED BY <2>6, <2>7
<1>3. CASE ~ClaimMessage(p)
  <2>1. \A q \in Procs : Owner(q)' => /\ Owner(q)
                                      /\ proc'[q].msg = Msg(q) /\ proc'[q].at = proc[q].at
    BY <1>3, NewOwner
  <2>2. \A q, r \in Procs : Owner(q)' /\ Owner(r)' => q = r
    BY <1>1, <2>1
  <2>3. ASSUME claim' = claim PROVE \A q \in Procs : Owner(q)' => HasClaim(q)'
    <3>1. ASSUME NEW q \in Procs, Owner(q)' PROVE HasClaim(q)'
      <4>1. HasClaim(q) /\ proc'[q].msg = Msg(q) /\ proc'[q].at = proc[q].at
        BY <1>1, <2>1, <3>1
      <4> QED BY <1>0, <2>3, <4>1 DEF HasClaim, Msg
    <3> QED BY <3>1
  <2>4. ASSUME ~\E q \in Procs : Owner(q)' PROVE \A q \in Procs : Owner(q)' => HasClaim(q)'
    BY <2>4
  <2>5. CASE Hold(p) \/ Release(p) \/ (Complete(p) /\ ~Sending(p))
    <3>1. Owner(p)
      <4>1. proc[p].pc \in HoldingPcs
        BY <2>5 DEF Hold, Release, Complete, At, HoldingPcs, EndPcs
      <4>2. ~Sending(p)
        BY <2>5, BackPcs DEF Hold, Release, At, DeliveryPcs
      <4> QED BY <4>1, <4>2 DEF Owner
    <3>2. ~Owner(p)'
      <4>1. proc'[p].pc \in {"suspend", "idle", "ack"}
        BY <2>5, EndingTold
      <4> QED BY <4>1 DEF Owner, HoldingPcs, EndPcs
    <3>3. ~\E q \in Procs : Owner(q)'
      BY <1>1, <2>1, <3>1, <3>2
    <3> QED BY <2>2, <2>4, <3>3
  <2>6. CASE Complete(p) /\ Sending(p)
    <3>1. Msg(p) \notin sent
      BY <2>6, PostedMsg DEF Complete, At
    <3>2. ~Of(claim, Msg(p))
      BY <3>1 DEF Posted, PostedRecords, Of
    <3>3. claim' = claim
      BY <2>6, <3>2 DEF Complete, CompleteMessage, PutClaims, Without
    <3> QED BY <2>2, <2>3, <3>3
  <2>7. CASE FindReserved(p) \/ ReserveMessage(p) \/ Confirm(p) \/ Abandon(p) \/ ClaimTaken(p) \/ ClaimEarly(p)
    <3>1. claim' = claim
      BY <2>7 DEF FindReserved, ReserveMessage, Confirm, ConfirmPublication, Abandon, AbandonReservation,
                  ClaimTaken, ClaimEarly, PutClaims, claims
    <3> QED BY <2>2, <2>3, <3>1
  <2>8. CASE ~ClaimStep(p)
    BY <2>2, <2>3, <2>8, ProcStepTouches
  <2>9. ClaimStep(p) => \/ Hold(p) \/ Release(p) \/ (Complete(p) /\ ~Sending(p))
                        \/ Complete(p) /\ Sending(p)
                        \/ FindReserved(p) \/ ReserveMessage(p) \/ Confirm(p) \/ Abandon(p)
                        \/ ClaimTaken(p) \/ ClaimEarly(p)
    BY <1>3 DEF ClaimStep
  <2> QED BY <2>5, <2>6, <2>7, <2>8, <2>9
<1> QED BY <1>2, <1>3

LEMMA NextClaimed ==
    ASSUME QueueType, Posted, Claimed, [Next]_vars
    PROVE  Claimed'
<1>1. ASSUME NEW p \in Procs, ProcStep(p) PROVE Claimed'
  BY <1>1, ProcClaimed
<1>2. CASE UNCHANGED <<scope, claim, proc, faults>> /\ (run = "gone" => run' = "gone")
  BY <1>2 DEF Claimed, Owner, HasClaim, Sending, Msg
<1>3. ASSUME NEW m \in Msgs, SweepStep(m) PROVE Claimed'
  BY <1>2, <1>3, SweepTouches
<1>4. CASE ExpireRun \/ DeleteQueuePage
  BY <1>2, <1>4 DEF ExpireRun, DeleteQueuePage, claims, setup
<1>5. CASE CommitQueuePage
  <2>1. CASE scope = "run"
    BY <1>5, <2>1 DEF CommitQueuePage, setup, Claimed, Owner, HasClaim, Sending, Msg
  <2>2. CASE scope # "run"
    BY <1>2, <1>5, <2>2 DEF CommitQueuePage, setup
  <2> QED BY <2>1, <2>2
<1>6. CASE CompactClaims
  <2>1. UNCHANGED <<scope, run, proc, faults>> /\ claim' = (IF Fresh(claim) THEN claim ELSE None)
        /\ scope = "cell"
    BY <1>6 DEF CompactClaims, PutClaims, setup
  <2>2. CASE \E p \in Procs : Owner(p) /\ HasClaim(p)
    <3>1. claim' = claim
      BY <2>1, <2>2, HeldClaimBlocks
    <3> QED BY <1>2, <2>1, <3>1
  <2>3. CASE ~\E p \in Procs : Owner(p) /\ HasClaim(p)
    BY <2>1, <2>3 DEF Claimed, Owner, HasClaim, Sending, Msg
  <2> QED BY <2>2, <2>3
<1>7. CASE Tick
  <2>1. UNCHANGED <<scope, run, claim, faults>>
    BY <1>7 DEF Tick, setup, claims
  <2>2. \A q \in Procs : proc'[q] = Idle \/ proc'[q] = proc[q]
    BY <1>7 DEF Tick
  <2>3. \A q \in Procs : Owner(q)' => proc'[q] = proc[q]
    BY <2>2, IdleFits DEF Owner, Sending
  <2> QED BY <2>1, <2>3 DEF Claimed, Owner, HasClaim, Sending, Msg
<1>8. CASE UNCHANGED vars
  BY <1>2, <1>8 DEF vars, claims, setup
<1> QED BY <1>1, <1>3, <1>4, <1>5, <1>6, <1>7, <1>8, Steps

LEMMA InitClaimed == Init => Claimed
BY IdleFits DEF Init, Claimed, Owner, Sending

(* The application is called for one message of a key at a time: whoever is *)
(* between its claim and the end of it holds the one claim, which outlasts  *)
(* every delivery, so that no other delivery, timer or sender takes or ends *)
(* it, until an answer to its end is missed.                                *)
THEOREM CallbacksAreSerial == Spec => []OneCallback
<1>1. QueueType /\ Claimed => OneCallback
  <2> SUFFICES ASSUME QueueType, Claimed, ~faults.untold
               PROVE  Cardinality({p \in Procs : At(p, "callback")}) <= 1
    BY DEF OneCallback
  <2>1. \A p \in Procs : At(p, "callback") => Owner(p)
    BY BackPcs DEF At, Owner, DeliveryPcs, HoldingPcs
  <2>2. \A p, q \in Procs : At(p, "callback") /\ At(q, "callback") => p = q
    BY <2>1 DEF Claimed
  <2>3. CASE {p \in Procs : At(p, "callback")} = {}
    BY <2>3, FS_EmptySet
  <2>4. ASSUME NEW p \in Procs, At(p, "callback")
        PROVE  Cardinality({q \in Procs : At(q, "callback")}) <= 1
    <3>1. {q \in Procs : At(q, "callback")} = {p}
      BY <2>2, <2>4
    <3>2. Cardinality({p}) = 1
      BY FS_Singleton
    <3> QED BY <3>1, <3>2
  <2> QED BY <2>3, <2>4
<1> QED BY <1>1, InitType, NextType, InitPosted, NextPosted, InitClaimed, NextClaimed, PTL DEF Spec


-----------------------------------------------------------------------------
(* Bodies: the object, its registration and its orphan lease *)

Untouched(m) == orphan[m] = None /\ sweep[m] = "idle" /\ m \notin stored

(* A stored body has an orphan lease; one whose message is with the broker  *)
(* is registered and goes with the run; one that is missing there means     *)
(* that its message is settled.                                             *)
MsgBody(m) ==
    /\ m \notin started => Untouched(m)
    /\ m \in stored => orphan[m] # None /\ m \notin inline
    /\ sweep[m] \in {"unlist", "finish"} => m \notin stored
    /\ m \in stored /\ m \in sent => run \in {"live", "fenced"} /\ m \in registered
    /\ run = "live" /\ m \in sent /\ m \notin stored => m \in inline \/ m \in settled

(* What a process relies on between its calls.                              *)
FrameBody(p) ==
    /\ proc[p].pc \in {"reserve", "admit", "register", "schedule"} => Untouched(Msg(p))
    /\ proc[p].pc \in {"register", "schedule", "unstage", "write", "read"} => Msg(p) \notin inline
    /\ proc[p].pc = "admit" => Msg(p) \in inline
    /\ proc[p].pc \in {"unstage", "write", "unlist", "unorphan"} => Msg(p) \notin stored
    /\ proc[p].pc = "write" => /\ sweep[Msg(p)] = "idle" /\ orphan[Msg(p)] # None
                               /\ orphan[Msg(p)].expires >= proc[p].at + Grace
    /\ proc[p].pc = "send" /\ Msg(p) \in stored => run \in {"live", "fenced"} /\ Msg(p) \in registered
    /\ proc[p].pc \in {"finalize", "send"} /\ run = "live" =>
         Msg(p) \in inline \/ Msg(p) \in stored \/ Msg(p) \in settled
    /\ ~Sending(p) /\ proc[p].pc \in EndPcs /\ run = "live" => Msg(p) \in settled

(* Which state of the run a process may have started in.                    *)
FrameBorn(p) ==
    /\ run = "live" => proc[p].born = "live"
    /\ proc[p].born = "gone" => run = "gone" /\ ~At(p, "callback")

Bodies ==
    /\ \A m \in Msgs : MsgBody(m)
    /\ \A p \in Procs : FrameBody(p) /\ FrameBorn(p)

(* A process touches the body of its own message only.                      *)
LEMMA OwnBody ==
    ASSUME QueueType, NEW p \in Procs, ProcStep(p), NEW m \in Msgs, m # Msg(p)
    PROVE  /\ orphan'[m] = orphan[m] /\ (m \in stored' <=> m \in stored)
           /\ (m \in registered' <=> m \in registered) /\ (m \in sent' <=> m \in sent)
<1>1. orphan'[m] = orphan[m] /\ (m \in stored' <=> m \in stored) /\ (m \in registered' <=> m \in registered)
  <2>1. CASE ~BodyStep(p)
    BY <2>1, ProcStepTouches
  <2>2. CASE RegisterQueuePayload(p) \/ Unstage(p) \/ UnregisterQueuePayload(p)
    BY <2>2 DEF RegisterQueuePayload, Unstage, UnregisterQueuePayload
  <2>3. CASE WriteBody(p) \/ DeleteBody(p)
    BY <2>3 DEF WriteBody, DeleteBody
  <2>4. CASE ScheduleQueuePayloadOrphan(p) \/ ExtendOrphan(p) \/ CancelQueuePayloadOrphan(p)
    <3>1. UNCHANGED <<stored, registered>>
      BY <2>4 DEF ScheduleQueuePayloadOrphan, ExtendOrphan, CancelQueuePayloadOrphan
    <3>2. \E x : orphan' = [orphan EXCEPT ![Msg(p)] = x]
      BY <2>4 DEF ScheduleQueuePayloadOrphan, ExtendOrphan, CancelQueuePayloadOrphan, ScheduleOrphan
    <3> QED BY <3>1, <3>2, Parts DEF OrphansFit
  <2> QED BY <2>1, <2>2, <2>3, <2>4 DEF BodyStep
<1>2. m \in sent' <=> m \in sent
  BY ProcStepTouches DEF GhostStep, SendToBroker, FindReserved, Confirm, ClaimTaken, CallbackDone
<1> QED BY <1>1, <1>2

LEMMA OnlyMoreSettled ==
    ASSUME NEW p \in Procs, ProcStep(p)
    PROVE  started \subseteq started' /\ settled \subseteq settled' /\ sent \subseteq sent'
<1>1. settled \subseteq settled' /\ sent \subseteq sent'
  BY ProcStepTouches DEF GhostStep, SendToBroker, FindReserved, Confirm, ClaimTaken, CallbackDone
<1>2. started \subseteq started'
  BY ProcStepTouches DEF Send
<1> QED BY <1>1, <1>2

(* The frames of a message that is not with the broker yet are the sender's; *)
(* afterwards none of them is before its publication.                       *)
LEMMA OneWriter ==
    ASSUME QueueType, Posted, NEW p \in Procs, NEW q \in Procs, q # p, ~At(p, "idle"), ~At(q, "idle"),
           Msg(p) = Msg(q), ~At(p, "confirm"), ~At(p, "abandon")
    PROVE  /\ ~Sending(p) /\ Msg(p) \in sent
           /\ proc[q].pc \notin {"reserve", "admit", "register", "schedule", "unstage", "write",
                                 "finalize", "send"}
<1>1. Sending(p) => Msg(p) \notin sent
  BY PostedMsg
<1>2. ~Sending(q) => Msg(q) \in sent
  BY PostedMsg
<1>3. ~(Sending(p) /\ Sending(q))
  BY DEF Posted, OneSender
<1>4. ~Sending(p) /\ Msg(p) \in sent
  BY <1>1, <1>2, <1>3, PostedMsg
<1>5. proc[q].pc \in SendPcs \ {"confirm", "abandon"} => Sending(q) /\ Msg(q) \notin sent
  BY BackPcs, PostedMsg DEF At
<1> QED BY <1>4, <1>5 DEF SendPcs


LEMMA MsgKept ==
    ASSUME NEW m \in Msgs, MsgBody(m), UNCHANGED <<inline, run>>, orphan'[m] = orphan[m],
           sweep'[m] = sweep[m], m \in stored' <=> m \in stored, m \in registered' <=> m \in registered,
           m \in sent' <=> m \in sent, started \subseteq started', settled \subseteq settled'
    PROVE  MsgBody(m)'
BY DEF MsgBody, Untouched

LEMMA ProcMsg ==
    ASSUME QueueType, Posted, Bodies, NEW p \in Procs, ProcStep(p)
    PROVE  \A m \in Msgs : MsgBody(m)'
<1>0. UNCHANGED <<inline, run, sweep>> /\ started \subseteq started' /\ settled \subseteq settled'
  BY ProcStepTouches, OnlyMoreSettled
<1>1. ASSUME NEW m \in Msgs, m # Msg(p) PROVE MsgBody(m)'
  BY <1>0, <1>1, OwnBody, MsgKept DEF Bodies
<1>2. ASSUME ~BodyStep(p), ~SendToBroker(p), NEW m \in Msgs PROVE MsgBody(m)'
  <2>1. UNCHANGED <<registered, orphan, stored>>
    BY <1>2, ProcStepTouches
  <2>2. UNCHANGED sent
    BY <1>2, ProcStepTouches DEF GhostStep, FindReserved, Confirm, ClaimTaken, CallbackDone
  <2> QED BY <1>0, <2>1, <2>2, MsgKept DEF Bodies
<1>3. ASSUME NEW M \in Msgs, M = Msg(p), BodyStep(p) \/ SendToBroker(p) PROVE MsgBody(M)'
  <2>0. /\ ~At(p, "idle") /\ M \in Msgs /\ MsgBody(M) /\ FrameBody(p) /\ M \in started
        /\ Sending(p) /\ ~At(p, "confirm") /\ ~At(p, "abandon") => M \notin sent
    <3>1. ~At(p, "idle")
      BY <1>3 DEF BodyStep, RegisterQueuePayload, ScheduleQueuePayloadOrphan, Unstage, WriteBody,
                  ExtendOrphan, DeleteBody, UnregisterQueuePayload, CancelQueuePayloadOrphan,
                  SendToBroker, At
    <3>2. M \in started
      BY <1>3, <3>1, PostedMsg DEF Posted
    <3> QED BY <1>3, <3>1, <3>2, ActiveMsg, PostedMsg DEF Bodies
  <2>a. proc[p].pc \in {"register", "schedule", "unstage", "write", "send"} => Sending(p)
    BY BackPcs DEF SendPcs
  <2>1. CASE RegisterQueuePayload(p)
    BY <1>0, <1>3, <2>0, <2>a, <2>1 DEF RegisterQueuePayload, At, MsgBody, FrameBody, Untouched, starts, ghosts
  <2>2. CASE ScheduleQueuePayloadOrphan(p)
    <3>1. M \in started' /\ M \notin stored' /\ sweep'[M] = "idle"
      BY <1>0, <1>3, <2>0, <2>2 DEF ScheduleQueuePayloadOrphan, At, FrameBody, Untouched
    <3>2. M \notin sent'
      BY <1>3, <2>0, <2>a, <2>2 DEF ScheduleQueuePayloadOrphan, At, ghosts
    <3> QED BY <3>1, <3>2 DEF MsgBody
  <2>3. CASE Unstage(p)
    BY <1>0, <1>3, <2>0, <2>a, <2>3 DEF Unstage, At, MsgBody, FrameBody, Untouched, starts, ghosts
  <2>4. CASE WriteBody(p)
    BY <1>0, <1>3, <2>0, <2>a, <2>4 DEF WriteBody, At, MsgBody, FrameBody, Untouched, starts, ghosts
  <2>5. CASE ExtendOrphan(p)
    <3>1. /\ orphan'[M] # None /\ UNCHANGED <<registered, stored, sent, settled>>
          /\ M \in started'
      <4>1. Deadline(p) \in Nat /\ Deadline(p) <= now + BrokerLife + Grace
        BY <1>3, <2>0, <2>5, DeadlineFits DEF ExtendOrphan, At
      <4>2. orphan'[M] # None
        BY <1>3, <2>0, <2>5, <4>1, ScheduleFits DEF ExtendOrphan
      <4> QED BY <1>0, <1>3, <2>0, <2>5, <4>2 DEF ExtendOrphan, ghosts
    <3> QED BY <1>0, <1>3, <2>0, <3>1 DEF MsgBody, Untouched
  <2>6. CASE DeleteBody(p)
    BY <1>0, <1>3, <2>0, <2>6 DEF DeleteBody, At, EndPcs, MsgBody, FrameBody, Untouched, starts, ghosts
  <2>7. CASE UnregisterQueuePayload(p)
    BY <1>0, <1>3, <2>0, <2>7 DEF UnregisterQueuePayload, At, MsgBody, FrameBody, Untouched, starts, ghosts
  <2>8. CASE CancelQueuePayloadOrphan(p)
    <3>1. orphan'[M] = None
      BY <1>3, <2>0, <2>8, Parts DEF CancelQueuePayloadOrphan, OrphansFit
    <3> QED BY <1>0, <1>3, <2>0, <2>8, <3>1 DEF CancelQueuePayloadOrphan, At, MsgBody, FrameBody, Untouched, starts, ghosts
  <2>9. CASE SendToBroker(p)
    BY <1>0, <1>3, <2>0, <2>9 DEF SendToBroker, At, MsgBody, FrameBody, Untouched, starts, bodies
  <2> QED BY <1>3, <2>1, <2>2, <2>3, <2>4, <2>5, <2>6, <2>7, <2>8, <2>9 DEF BodyStep
<1> QED BY <1>1, <1>2, <1>3


LEMMA OtherFrameKept ==
    ASSUME QueueType, Posted, Bodies, NEW p \in Procs, ProcStep(p), NEW q \in Procs, q # p
    PROVE  FrameBody(q)' /\ FrameBorn(q)'
<1>0. /\ UNCHANGED <<inline, run, sweep>> /\ settled \subseteq settled'
      /\ FrameBody(q) /\ FrameBorn(q)
  BY ProcStepTouches, OnlyMoreSettled DEF Bodies
<1>1. proc'[q] = proc[q]
  BY OtherMoves, StartMoves, SendMoves DEF Moved
<1>2. FrameBorn(q)'
  BY <1>0, <1>1 DEF FrameBorn, At
<1>3. CASE Msg(q) \in Msgs /\ Msg(q) # Msg(p)
  <2>1. PICK m \in Msgs : m = Msg(q)
    BY <1>3
  <2>2. /\ orphan'[m] = orphan[m] /\ (m \in stored' <=> m \in stored)
        /\ (m \in registered' <=> m \in registered)
    BY <1>3, <2>1, OwnBody
  <2>3. FrameBody(q)'
    BY <1>0, <1>1, <2>1, <2>2 DEF FrameBody, Untouched, Msg, Sending
  <2> QED BY <1>2, <2>3
<1>4. CASE Msg(q) \notin Msgs
  <2>1. At(q, "idle")
    BY <1>4, ActiveMsg
  <2>2. FrameBody(q)'
    BY <1>1, <2>1 DEF FrameBody, At, EndPcs
  <2> QED BY <1>2, <2>2
<1>5. CASE Msg(q) \in Msgs /\ Msg(q) = Msg(p)
  <2>1. CASE ~BodyStep(p)
    <3>1. UNCHANGED <<registered, orphan, stored>>
      BY <2>1, ProcStepTouches
    <3>2. FrameBody(q)'
      BY <1>0, <1>1, <3>1 DEF FrameBody, Untouched, Msg, Sending
    <3> QED BY <1>2, <3>2
  <2>2. CASE BodyStep(p)
    <3>1. ~At(p, "idle") /\ ~At(p, "confirm") /\ ~At(p, "abandon")
      BY <2>2 DEF BodyStep, RegisterQueuePayload, ScheduleQueuePayloadOrphan, Unstage, WriteBody,
                  ExtendOrphan, DeleteBody, UnregisterQueuePayload, CancelQueuePayloadOrphan, At
    <3>2. CASE At(q, "idle")
      <4>1. FrameBody(q)'
        BY <1>1, <3>2 DEF FrameBody, At, EndPcs
      <4> QED BY <1>2, <4>1
    <3>3. CASE ~At(q, "idle")
      <4>1. /\ ~Sending(p)
            /\ proc[q].pc \notin {"reserve", "admit", "register", "schedule", "unstage", "write",
                                  "finalize", "send"}
        BY <1>5, <3>1, <3>3, OneWriter
      <4>2. stored' \subseteq stored
        <5>1. ~WriteBody(p)
          BY <4>1, BackPcs DEF WriteBody, At, SendPcs
        <5> QED BY <2>2, <5>1 DEF BodyStep, RegisterQueuePayload, ScheduleQueuePayloadOrphan, Unstage,
                    ExtendOrphan, DeleteBody, UnregisterQueuePayload, CancelQueuePayloadOrphan
      <4>3. FrameBody(q)'
        BY <1>0, <1>1, <4>1, <4>2 DEF FrameBody, Msg, Sending
      <4> QED BY <1>2, <4>3
    <3> QED BY <3>2, <3>3
  <2> QED BY <2>1, <2>2
<1> QED BY <1>3, <1>4, <1>5

(* Where a process relies on nothing but its start.                         *)
PlainPcs == {"confirm", "abandon", "chain", "claim", "answered", "admitted", "extend", "hold",
             "suspend", "release", "unclaim", "ack"}

LEMMA PlainFrame ==
    ASSUME QueueType, NEW p \in Procs, NEW S, Moved(p, S), FrameBorn(p), UNCHANGED run,
           proc'[p].pc \in PlainPcs \/ proc'[p].pc = "idle"
    PROVE  FrameBody(p)' /\ FrameBorn(p)'
<1>1. FrameBody(p)'
  BY DEF PlainPcs, FrameBody, EndPcs
<1>2. FrameBorn(p)'
  <2>1. proc'[p].born = proc[p].born \/ proc'[p].born = "live"
    BY IdleFits DEF Moved
  <2>2. ~At(p, "callback")'
    BY DEF At, PlainPcs
  <2>3. run \in {"live", "fenced", "purged", "gone"}
    BY Parts
  <2> QED BY <2>1, <2>2, <2>3 DEF FrameBorn
<1> QED BY <1>1, <1>2

LEMMA PlainMove ==
    ASSUME QueueType, NEW p \in Procs, NEW S, Moved(p, S), FrameBorn(p), UNCHANGED run, S \subseteq PlainPcs
    PROVE  FrameBody(p)' /\ FrameBorn(p)'
<1>1. proc'[p].pc \in PlainPcs \/ proc'[p].pc = "idle"
  BY IdleFits DEF Moved
<1> QED BY <1>1, PlainFrame

(* Moving on to where something is relied on.                               *)
LEMMA BornKept ==
    ASSUME NEW p \in Procs, proc'[p].born = proc[p].born, FrameBorn(p), UNCHANGED run,
           proc'[p].pc = "callback" => proc[p].born # "gone"
    PROVE  FrameBorn(p)'
BY DEF FrameBorn, At


LEMMA SendFrameKept ==
    ASSUME QueueType, Posted, Bodies, NEW p \in Procs, SendStep(p)
    PROVE  FrameBody(p)' /\ FrameBorn(p)'
<1>0. /\ UNCHANGED <<inline, run, sweep>> /\ settled \subseteq settled'
      /\ FrameBody(p) /\ FrameBorn(p)
  BY ProcStepTouches, OnlyMoreSettled DEF Bodies, ProcStep
<1>1. ASSUME NEW m \in bounds.sends, NEW delay \in bounds.delays, Send(p, m, delay)
      PROVE  FrameBody(p)' /\ FrameBorn(p)'
  <2>1. /\ m \in Msgs /\ proc'[p].pc = "reserve" /\ proc'[p].msg = m /\ proc'[p].born = run
    BY <1>1, StartMoves
  <2>2. Untouched(m) /\ UNCHANGED <<orphan, stored>>
    BY <1>1, <2>1 DEF Send, Bodies, MsgBody, bodies
  <2>3. FrameBody(p)'
    BY <1>0, <2>1, <2>2 DEF FrameBody, Untouched, Msg, EndPcs
  <2>4. FrameBorn(p)'
    BY <1>0, <2>1 DEF FrameBorn, At
  <2> QED BY <2>3, <2>4
<1>p. ASSUME NEW S, Moved(p, S), S \subseteq PlainPcs PROVE FrameBody(p)' /\ FrameBorn(p)'
  BY <1>0, <1>p, PlainMove
<1>2. CASE RefuseExpired(p) \/ FindReserved(p) \/ Unstage(p) \/ SendToBroker(p) \/ Confirm(p) \/ Abandon(p)
  <2>1. Moved(p, {"abandon"}) \/ Moved(p, {"confirm", "abandon"}) \/ Moved(p, {})
    BY <1>2, SendMoves
  <2> QED BY <1>p, <2>1 DEF PlainPcs
<1>m. ASSUME NEW S, Moved(p, S), proc'[p].pc \notin PlainPcs, proc'[p].pc # "idle"
      PROVE  /\ proc'[p].pc \in S /\ proc'[p].msg = Msg(p) /\ proc'[p].at = proc[p].at
             /\ proc'[p].copy = proc[p].copy /\ proc'[p].born = proc[p].born
  BY <1>m, IdleFits DEF Moved
<1>n. ASSUME NEW S, Moved(p, S), proc'[p].pc \in PlainPcs \/ proc'[p].pc = "idle"
      PROVE  FrameBody(p)' /\ FrameBorn(p)'
  BY <1>0, <1>n, PlainFrame
<1>s. ASSUME NEW S, Moved(p, S), proc'[p].pc \notin PlainPcs, proc'[p].pc # "idle", "callback" \notin S
      PROVE  FrameBorn(p)'
  BY <1>0, <1>m, <1>s, BornKept
<1>c. proc[p].pc \in SendPcs => Sending(p)
  BY BackPcs
<1>3. ASSUME ReserveMessage(p) PROVE FrameBody(p)' /\ FrameBorn(p)'
  <2>1. Moved(p, {IF Msg(p) \notin inline THEN "register" ELSE IF scope = "cell" THEN "admit" ELSE "send",
                  "abandon"})
    BY <1>3, SendMoves
  <2>2. UNCHANGED <<orphan, stored, registered>> /\ Untouched(Msg(p))
    BY <1>0, <1>3 DEF ReserveMessage, bodies, FrameBody, At
  <2>3. CASE proc'[p].pc \notin PlainPcs /\ proc'[p].pc # "idle"
    <3>1. FrameBody(p)'
      BY <1>0, <1>m, <2>1, <2>2, <2>3 DEF FrameBody, Untouched, Msg, EndPcs, PlainPcs
    <3> QED BY <1>s, <2>1, <2>3, <3>1
  <2> QED BY <1>n, <2>1, <2>3
<1>4. ASSUME Admit(p) PROVE FrameBody(p)' /\ FrameBorn(p)'
  <2>1. Moved(p, {"send", "complete", "abandon"}) /\ Sending(p)
    BY <1>4, <1>c, SendMoves DEF Admit, At, SendPcs
  <2>2. UNCHANGED <<orphan, stored, registered>> /\ Untouched(Msg(p)) /\ Msg(p) \in inline
    BY <1>0, <1>4 DEF Admit, bodies, FrameBody, At
  <2>3. CASE proc'[p].pc \notin PlainPcs /\ proc'[p].pc # "idle"
    <3>1. FrameBody(p)'
      BY <1>0, <1>m, <2>1, <2>2, <2>3 DEF FrameBody, Untouched, Msg, Sending, EndPcs, PlainPcs
    <3> QED BY <1>s, <2>1, <2>3, <3>1
  <2> QED BY <1>n, <2>1, <2>3
<1>5. ASSUME RegisterQueuePayload(p) PROVE FrameBody(p)' /\ FrameBorn(p)'
  <2>1. Moved(p, {IF run = "live" THEN "schedule" ELSE "complete", "abandon"}) /\ Sending(p)
    BY <1>5, <1>c, SendMoves DEF RegisterQueuePayload, At, SendPcs
  <2>2. UNCHANGED <<orphan, stored>> /\ Untouched(Msg(p)) /\ Msg(p) \notin inline
    BY <1>0, <1>5 DEF RegisterQueuePayload, FrameBody, At
  <2>3. CASE proc'[p].pc \notin PlainPcs /\ proc'[p].pc # "idle"
    <3>1. FrameBody(p)'
      BY <1>0, <1>m, <2>1, <2>2, <2>3 DEF FrameBody, Untouched, Msg, Sending, EndPcs, PlainPcs
    <3> QED BY <1>s, <2>1, <2>3, <3>1
  <2> QED BY <1>n, <2>1, <2>3
<1>6. ASSUME ScheduleQueuePayloadOrphan(p) PROVE FrameBody(p)' /\ FrameBorn(p)'
  <2>1. Moved(p, {"write", "unstage"}) /\ Sending(p)
    BY <1>6, <1>c, SendMoves DEF ScheduleQueuePayloadOrphan, At, SendPcs
  <2>2. UNCHANGED <<stored>> /\ Untouched(Msg(p)) /\ Msg(p) \notin inline
    BY <1>0, <1>6 DEF ScheduleQueuePayloadOrphan, FrameBody, At
  <2>3. PICK m \in Msgs : m = Msg(p)
    BY <1>6, ActiveMsg DEF ScheduleQueuePayloadOrphan, At
  <2>4. orphan'[m] # None /\ orphan'[m].expires >= proc[p].at + Grace
    <3>1. ~At(p, "idle") /\ proc[p].at <= proc[p].wait
      BY <1>6, <2>1, ActiveMsg DEF ScheduleQueuePayloadOrphan, At, FrameFits, Sending
    <3>2. /\ Deadline(p) \in Nat /\ Deadline(p) <= now + BrokerLife + Grace /\ proc[p].wait \in Nat
          /\ proc[p].at \in Nat
      BY <2>1, <3>1, DeadlineFits
    <3>3. orphan'[m] # None /\ orphan'[m].expires >= Deadline(p)
      BY <1>6, <2>3, <3>2, ScheduleFits DEF ScheduleQueuePayloadOrphan
    <3>4. orphan'[m].expires \in Nat
      BY <1>6, <2>3, <3>2, <3>3, ScheduleFits, OrphanRecord DEF ScheduleQueuePayloadOrphan, OrphansFit, Maybe
    <3> QED BY <3>1, <3>2, <3>3, <3>4, Constants DEF Deadline
  <2>5. CASE proc'[p].pc \notin PlainPcs /\ proc'[p].pc # "idle"
    <3>1. FrameBody(p)'
      BY <1>0, <1>m, <2>1, <2>2, <2>3, <2>4, <2>5 DEF FrameBody, Untouched, Msg, Sending, EndPcs, PlainPcs
    <3> QED BY <1>s, <2>1, <2>5, <3>1
  <2> QED BY <1>n, <2>1, <2>5
<1>7. ASSUME WriteBody(p) PROVE FrameBody(p)' /\ FrameBorn(p)'
  <2>1. Moved(p, {"finalize", "abandon"}) /\ Sending(p)
    BY <1>7, <1>c, SendMoves DEF WriteBody, At, SendPcs
  <2>2. Msg(p) \in stored'
    BY <1>7 DEF WriteBody
  <2>3. CASE proc'[p].pc \notin PlainPcs /\ proc'[p].pc # "idle"
    <3>1. FrameBody(p)'
      BY <1>0, <1>m, <2>1, <2>2, <2>3 DEF FrameBody, Untouched, Msg, Sending, EndPcs, PlainPcs
    <3> QED BY <1>s, <2>1, <2>3, <3>1
  <2> QED BY <1>n, <2>1, <2>3
<1>8. ASSUME FinalizeQueuePayload(p) PROVE FrameBody(p)' /\ FrameBorn(p)'
  <2>1. Moved(p, {IF Finalized(Msg(p)) THEN "send" ELSE "discard", "abandon"}) /\ Sending(p)
    BY <1>8, <1>c, SendMoves DEF FinalizeQueuePayload, At, SendPcs
  <2>2. /\ UNCHANGED <<orphan, stored, registered>>
        /\ run = "live" => Msg(p) \in inline \/ Msg(p) \in stored \/ Msg(p) \in settled
    BY <1>0, <1>8 DEF FinalizeQueuePayload, bodies, FrameBody, At
  <2>3. CASE proc'[p].pc \notin PlainPcs /\ proc'[p].pc # "idle"
    <3>1. FrameBody(p)'
      BY <1>0, <1>m, <2>1, <2>2, <2>3 DEF FrameBody, Untouched, Msg, Sending, EndPcs, PlainPcs, Finalized
    <3> QED BY <1>s, <2>1, <2>3, <3>1
  <2> QED BY <1>n, <2>1, <2>3
<1> QED BY <1>1, <1>2, <1>3, <1>4, <1>5, <1>6, <1>7, <1>8 DEF SendStep


LEMMA DeliveryFrameKept ==
    ASSUME QueueType, Posted, Bodies, NEW p \in Procs, DeliveryStep(p)
    PROVE  FrameBody(p)' /\ FrameBorn(p)'
<1>0. /\ UNCHANGED <<inline, run, sweep>> /\ settled \subseteq settled'
      /\ FrameBody(p) /\ FrameBorn(p)
  BY ProcStepTouches, OnlyMoreSettled DEF Bodies, ProcStep
<1>p. ASSUME NEW S, Moved(p, S), S \subseteq PlainPcs PROVE FrameBody(p)' /\ FrameBorn(p)'
  BY <1>0, <1>p, PlainMove
<1>m. ASSUME NEW S, Moved(p, S), proc'[p].pc \notin PlainPcs, proc'[p].pc # "idle"
      PROVE  /\ proc'[p].pc \in S /\ proc'[p].msg = Msg(p) /\ proc'[p].at = proc[p].at
             /\ proc'[p].copy = proc[p].copy /\ proc'[p].born = proc[p].born
  BY <1>m, IdleFits DEF Moved
<1>n. ASSUME NEW S, Moved(p, S), proc'[p].pc \in PlainPcs \/ proc'[p].pc = "idle"
      PROVE  FrameBody(p)' /\ FrameBorn(p)'
  BY <1>0, <1>n, PlainFrame
<1>s. ASSUME NEW S, Moved(p, S), proc'[p].pc \notin PlainPcs, proc'[p].pc # "idle",
             "callback" \in S => proc[p].born # "gone"
      PROVE  FrameBorn(p)'
  BY <1>0, <1>m, <1>s, BornKept
<1>c. proc[p].pc \in DeliveryPcs => ~Sending(p) /\ Msg(p) \in sent /\ Msg(p) \in Msgs
  <2>1. proc[p].pc \in DeliveryPcs => ~At(p, "idle")
    BY DEF DeliveryPcs, At
  <2> QED BY <2>1, BackPcs, PostedMsg, ActiveMsg
<1>r. run \in {"live", "fenced", "purged", "gone"}
  BY Parts
<1>1. ASSUME NEW c \in broker, Deliver(p, c) PROVE FrameBody(p)' /\ FrameBorn(p)'
  <2>1. proc'[p].pc \in {"chain", "claim"} /\ proc'[p].born = run
    BY <1>1, StartMoves
  <2>2. FrameBody(p)'
    BY <2>1 DEF FrameBody, EndPcs
  <2>3. FrameBorn(p)'
    BY <1>0, <2>1 DEF FrameBorn, At
  <2> QED BY <2>2, <2>3
<1>2. CASE Chain(p) \/ ClaimExpired(p) \/ ClaimTaken(p) \/ ClaimEarly(p) \/ EvaluateAnswer(p)
  <2>1. PICK S : Moved(p, S) /\ S \subseteq PlainPcs
    <3>1. Moved(p, {"ack"}) \/ Moved(p, {"answered"}) \/ Moved(p, {"suspend"})
      BY <1>2, DeliveryMoves
    <3> QED BY <3>1 DEF PlainPcs
  <2> QED BY <1>p, <2>1
<1>3. CASE \/ CallbackFails(p) \/ (\E delay \in Delays : CallbackSuspends(p, delay)) \/ ExtendOrphan(p)
           \/ ExtendRefused(p) \/ Hold(p) \/ Suspend(p) \/ SuspendedTooOften(p) \/ Release(p) \/ Ack(p)
  <2>1. PICK S : Moved(p, S) /\ S \subseteq PlainPcs
    <3>1. \/ Moved(p, {"release", "unclaim"}) \/ Moved(p, {"hold"}) \/ Moved(p, {"extend"})
          \/ Moved(p, {"hold", "unclaim"}) \/ Moved(p, {"unclaim"}) \/ Moved(p, {"suspend", "unclaim"})
          \/ Moved(p, {"ack"}) \/ Moved(p, {})
      <4>1. CASE \E delay \in Delays : CallbackSuspends(p, delay)
        BY <4>1, CallbackMoves
      <4>2. CASE CallbackFails(p) \/ ExtendOrphan(p) \/ ExtendRefused(p) \/ Hold(p) \/ Suspend(p)
        BY <4>2, CallbackMoves
      <4>3. CASE SuspendedTooOften(p) \/ Release(p) \/ Ack(p)
        BY <4>3, CallbackMoves
      <4> QED BY <1>3, <4>1, <4>2, <4>3
    <3> QED BY <3>1 DEF PlainPcs
  <2> QED BY <1>p, <2>1
<1>4. ASSUME ClaimMessage(p) PROVE FrameBody(p)' /\ FrameBorn(p)'
  <2>1. /\ Moved(p, {IF Msg(p) \notin inline THEN "read" ELSE IF scope = "cell" THEN "admitted" ELSE "callback"})
        /\ ~Sending(p) /\ (scope = "run" => run = "live")
    BY <1>4, <1>c, DeliveryMoves DEF ClaimMessage, At, DeliveryPcs
  <2>2. CASE proc'[p].pc \notin PlainPcs /\ proc'[p].pc # "idle"
    <3>1. \/ proc'[p].pc = "read" /\ Msg(p) \notin inline
          \/ proc'[p].pc = "callback" /\ run = "live"
      <4>1. scope \in {"run", "cell"}
        BY DEF QueueType, TypeOK
      <4> QED BY <1>m, <2>1, <2>2, <4>1 DEF PlainPcs
    <3>2. FrameBody(p)'
      BY <1>0, <1>m, <2>1, <2>2, <3>1 DEF FrameBody, Msg, EndPcs
    <3>3. FrameBorn(p)'
      BY <1>0, <1>m, <2>1, <2>2, <3>1 DEF FrameBorn, At
    <3> QED BY <3>2, <3>3
  <2> QED BY <1>n, <2>1, <2>2
<1>5. ASSUME CheckAdmission(p) PROVE FrameBody(p)' /\ FrameBorn(p)'
  <2>1. \/ Moved(p, {"unclaim"})
        \/ Moved(p, {"callback"}) /\ (proc[p].born = "live" \/ run = "live")
        \/ Moved(p, {"complete"}) /\ (proc[p].born # "live" \/ run # "live")
    BY <1>5, DeliveryMoves
  <2>2. CASE Moved(p, {"unclaim"})
    BY <1>p, <2>2 DEF PlainPcs
  <2>3. CASE Moved(p, {"callback"}) /\ (proc[p].born = "live" \/ run = "live")
    <3>1. CASE proc'[p].pc \notin PlainPcs /\ proc'[p].pc # "idle"
      <4>1. proc[p].born # "gone"
        BY <1>0, <2>3 DEF FrameBorn
      <4>2. FrameBody(p)'
        BY <1>0, <1>m, <2>3, <3>1 DEF FrameBody, Msg, EndPcs
      <4> QED BY <1>s, <2>3, <3>1, <4>1, <4>2
    <3> QED BY <1>n, <2>3, <3>1
  <2>4. CASE Moved(p, {"complete"}) /\ (proc[p].born # "live" \/ run # "live")
    <3>1. CASE proc'[p].pc \notin PlainPcs /\ proc'[p].pc # "idle"
      <4>1. run # "live"
        BY <1>0, <2>4 DEF FrameBorn
      <4>2. FrameBody(p)'
        BY <1>0, <1>m, <2>4, <3>1, <4>1 DEF FrameBody, Msg, EndPcs
      <4> QED BY <1>s, <2>4, <3>1, <4>2
    <3> QED BY <1>n, <2>4, <3>1
  <2> QED BY <2>1, <2>2, <2>3, <2>4
<1>6. ASSUME ReadBody(p) PROVE FrameBody(p)' /\ FrameBorn(p)'
  <2>1. Moved(p, {IF Msg(p) \in stored THEN "callback" ELSE "unlist", "unclaim"})
    BY <1>6, DeliveryMoves
  <2>2. /\ Msg(p) \in sent /\ Msg(p) \in Msgs /\ Msg(p) \notin inline /\ MsgBody(Msg(p))
        /\ UNCHANGED <<orphan, stored, registered>>
    BY <1>0, <1>6, <1>c DEF ReadBody, At, DeliveryPcs, FrameBody, Bodies, bodies
  <2>3. CASE proc'[p].pc \notin PlainPcs /\ proc'[p].pc # "idle"
    <3>1. CASE Msg(p) \in stored
      <4>1. proc[p].born # "gone"
        BY <1>0, <2>2, <3>1 DEF MsgBody, FrameBorn
      <4>2. FrameBody(p)'
        BY <1>0, <1>m, <2>1, <2>3, <3>1 DEF FrameBody, Msg, EndPcs, PlainPcs
      <4> QED BY <1>s, <2>1, <2>3, <4>1, <4>2
    <3>2. CASE Msg(p) \notin stored
      <4>1. run = "live" => Msg(p) \in settled
        BY <2>2, <3>2 DEF MsgBody
      <4>2. FrameBody(p)'
        BY <1>0, <1>m, <2>1, <2>2, <2>3, <3>2, <4>1 DEF FrameBody, Msg, EndPcs, PlainPcs
      <4>3. "callback" \notin {IF Msg(p) \in stored THEN "callback" ELSE "unlist", "unclaim"}
        BY <3>2
      <4> QED BY <1>s, <2>1, <2>3, <4>2, <4>3
    <3> QED BY <3>1, <3>2
  <2> QED BY <1>n, <2>1, <2>3
<1>7. ASSUME CallbackDone(p) PROVE FrameBody(p)' /\ FrameBorn(p)'
  <2>1. Moved(p, {IF Msg(p) \in inline THEN "complete" ELSE "discard"}) /\ Msg(p) \in settled'
    BY <1>7, CallbackMoves DEF CallbackDone
  <2>2. CASE proc'[p].pc \notin PlainPcs /\ proc'[p].pc # "idle"
    <3>1. FrameBody(p)'
      BY <1>0, <1>m, <2>1, <2>2 DEF FrameBody, Msg, EndPcs, PlainPcs
    <3> QED BY <1>s, <2>1, <2>2, <3>1
  <2> QED BY <1>n, <2>1, <2>2
<1> QED BY <1>1, <1>2, <1>3, <1>4, <1>5, <1>6, <1>7 DEF DeliveryStep

LEMMA EndFrameKept ==
    ASSUME QueueType, Posted, Bodies, NEW p \in Procs,
           \/ DeleteBody(p) \/ UnregisterQueuePayload(p) \/ CancelQueuePayloadOrphan(p) \/ Complete(p)
           \/ CallFails(p) \/ Lose(p)
    PROVE  FrameBody(p)' /\ FrameBorn(p)'
<1>0. /\ UNCHANGED <<inline, run, sweep>> /\ settled \subseteq settled'
      /\ FrameBody(p) /\ FrameBorn(p)
  BY ProcStepTouches, OnlyMoreSettled DEF Bodies, ProcStep
<1>p. ASSUME NEW S, Moved(p, S), S \subseteq PlainPcs PROVE FrameBody(p)' /\ FrameBorn(p)'
  BY <1>0, <1>p, PlainMove
<1>m. ASSUME NEW S, Moved(p, S), proc'[p].pc \notin PlainPcs, proc'[p].pc # "idle"
      PROVE  /\ proc'[p].pc \in S /\ proc'[p].msg = Msg(p) /\ proc'[p].at = proc[p].at
             /\ proc'[p].copy = proc[p].copy /\ proc'[p].born = proc[p].born
  BY <1>m, IdleFits DEF Moved
<1>n. ASSUME NEW S, Moved(p, S), proc'[p].pc \in PlainPcs \/ proc'[p].pc = "idle"
      PROVE  FrameBody(p)' /\ FrameBorn(p)'
  BY <1>0, <1>n, PlainFrame
<1>s. ASSUME NEW S, Moved(p, S), proc'[p].pc \notin PlainPcs, proc'[p].pc # "idle", "callback" \notin S
      PROVE  FrameBorn(p)'
  BY <1>0, <1>m, <1>s, BornKept
<1>b. PICK back \in {"abandon", "unclaim"} : back = IF Sending(p) THEN "abandon" ELSE "unclaim"
  OBVIOUS
<1>e. ASSUME proc[p].pc \in EndPcs, ~Sending(p), run = "live" PROVE Msg(p) \in settled
  BY <1>0, <1>e DEF FrameBody
<1>1. ASSUME DeleteBody(p) PROVE FrameBody(p)' /\ FrameBorn(p)'
  <2>1. Moved(p, {"unlist", back}) /\ Msg(p) \notin stored' /\ proc[p].pc \in EndPcs
    BY <1>1, <1>b, EndMoves DEF DeleteBody, At, EndPcs
  <2>2. CASE proc'[p].pc \notin PlainPcs /\ proc'[p].pc # "idle"
    <3>1. FrameBody(p)'
      BY <1>0, <1>b, <1>e, <1>m, <2>1, <2>2 DEF FrameBody, Msg, Sending, PlainPcs
    <3> QED BY <1>s, <1>b, <2>1, <2>2, <3>1
  <2> QED BY <1>n, <2>1, <2>2
<1>2. ASSUME UnregisterQueuePayload(p) PROVE FrameBody(p)' /\ FrameBorn(p)'
  <2>1. Moved(p, {"unorphan", back}) /\ Msg(p) \notin stored' /\ proc[p].pc \in EndPcs
    BY <1>0, <1>2, <1>b, EndMoves DEF UnregisterQueuePayload, At, EndPcs, FrameBody
  <2>2. CASE proc'[p].pc \notin PlainPcs /\ proc'[p].pc # "idle"
    <3>1. FrameBody(p)'
      BY <1>0, <1>b, <1>e, <1>m, <2>1, <2>2 DEF FrameBody, Msg, Sending, PlainPcs
    <3> QED BY <1>s, <1>b, <2>1, <2>2, <3>1
  <2> QED BY <1>n, <2>1, <2>2
<1>3. ASSUME CancelQueuePayloadOrphan(p) PROVE FrameBody(p)' /\ FrameBorn(p)'
  <2>1. Moved(p, {"complete", back}) /\ proc[p].pc \in EndPcs
    BY <1>0, <1>3, <1>b, EndMoves DEF CancelQueuePayloadOrphan, At, EndPcs, FrameBody
  <2>2. CASE proc'[p].pc \notin PlainPcs /\ proc'[p].pc # "idle"
    <3>1. FrameBody(p)'
      BY <1>0, <1>b, <1>e, <1>m, <2>1, <2>2 DEF FrameBody, Msg, Sending, PlainPcs
    <3> QED BY <1>s, <1>b, <2>1, <2>2, <3>1
  <2> QED BY <1>n, <2>1, <2>2
<1>4. CASE Complete(p)
  <2>1. Moved(p, {"abandon"}) \/ Moved(p, {"ack", "unclaim"})
    BY <1>4, EndMoves
  <2> QED BY <1>p, <2>1 DEF PlainPcs
<1>5. ASSUME CallFails(p) PROVE FrameBody(p)' /\ FrameBorn(p)'
  <2>1. Moved(p, Back(p)) /\ UNCHANGED <<orphan, stored, registered>>
    BY <1>5, EndMoves DEF CallFails, bodies
  <2>2. CASE At(p, "schedule")
    <3>1. Back(p) = {"unstage"} /\ Msg(p) \notin inline /\ Msg(p) \notin stored
      BY <1>0, <2>2, BackPcs DEF FrameBody, At, Untouched
    <3>2. CASE proc'[p].pc \notin PlainPcs /\ proc'[p].pc # "idle"
      <4>1. FrameBody(p)'
        BY <1>0, <1>m, <2>1, <3>1, <3>2 DEF FrameBody, Msg, EndPcs
      <4> QED BY <1>s, <2>1, <3>1, <3>2, <4>1
    <3> QED BY <1>n, <2>1, <3>2
  <2>3. CASE ~At(p, "schedule")
    <3>1. Back(p) \subseteq {"abandon", "unclaim"}
      BY <2>3, BackPcs DEF At
    <3> QED BY <1>p, <2>1, <3>1 DEF PlainPcs
  <2> QED BY <2>2, <2>3
<1>6. CASE Lose(p)
  <2>1. Moved(p, {})
    BY <1>6, EndMoves
  <2> QED BY <1>p, <2>1
<1> QED BY <1>1, <1>2, <1>3, <1>4, <1>5, <1>6


LEMMA ProcBodies ==
    ASSUME QueueType, Posted, Bodies, NEW p \in Procs, ProcStep(p)
    PROVE  Bodies'
<1>1. FrameBody(p)' /\ FrameBorn(p)'
  BY SendFrameKept, DeliveryFrameKept, EndFrameKept DEF ProcStep
<1>2. \A q \in Procs : FrameBody(q)' /\ FrameBorn(q)'
  BY <1>1, OtherFrameKept
<1>3. \A m \in Msgs : MsgBody(m)'
  BY ProcMsg
<1> QED BY <1>2, <1>3 DEF Bodies

(* The orphan cell's alarm: it never starts on a body that is being         *)
(* written, since the lease outlasts the sender.                            *)
LEMMA SweepBodies ==
    ASSUME QueueType, Posted, Bodies, NEW m \in Msgs, SweepStep(m)
    PROVE  Bodies'
<1>0. UNCHANGED <<now, inline, run, proc, started, sent>> /\ settled \subseteq settled'
  <2>1. settled \subseteq settled'
    BY DEF SweepStep, LeaseOrphan, DeleteOrphan, UnlistOrphan, FinishOrphan, LoseSweep, ghosts
  <2> QED BY <2>1, SweepTouches
<1>1. /\ \A k \in Msgs : k # m => /\ orphan'[k] = orphan[k] /\ sweep'[k] = sweep[k]
                                  /\ (k \in stored' <=> k \in stored)
                                  /\ (k \in registered' <=> k \in registered)
  <2>1. orphan \in [Msgs -> Maybe(Orphan)] /\ sweep \in [Msgs -> {"idle", "delete", "unlist", "finish"}]
    BY Parts DEF OrphansFit
  <2>2. (\E x : orphan' = [orphan EXCEPT ![m] = x]) \/ UNCHANGED orphan
    BY DEF SweepStep, LeaseOrphan, DeleteOrphan, UnlistOrphan, FinishOrphan, LoseSweep, bodies
  <2>3. \E x : sweep' = [sweep EXCEPT ![m] = x]
    BY DEF SweepStep, LeaseOrphan, DeleteOrphan, UnlistOrphan, FinishOrphan, LoseSweep
  <2>4. /\ stored' = stored \/ stored' = stored \ {m}
        /\ registered' = registered \/ registered' = registered \ {m}
    BY DEF SweepStep, LeaseOrphan, DeleteOrphan, UnlistOrphan, FinishOrphan, LoseSweep, bodies
  <2> QED BY <2>1, <2>2, <2>3, <2>4
<1>2. \A k \in Msgs : k # m => MsgBody(k)'
  BY <1>0, <1>1, MsgKept DEF Bodies
<1>3. /\ m \in stored' => m \in stored /\ orphan'[m] # None
      /\ sweep'[m] \in {"unlist", "finish"} => m \notin stored'
      /\ m \in stored' => (m \in registered => m \in registered')
      /\ m \notin stored' => m \notin stored \/ m \in settled'
      /\ m \notin started => Untouched(m)'
      /\ ~Untouched(m)
  <2>0. MsgBody(m) /\ orphan \in [Msgs -> Maybe(Orphan)]
        /\ sweep \in [Msgs -> {"idle", "delete", "unlist", "finish"}]
    BY Parts DEF Bodies, OrphansFit
  <2>1. CASE LeaseOrphan(m)
    <3>1. [orphan[m] EXCEPT !.deleting = TRUE] # None
      <4>1. orphan[m] \in Orphan
        BY <2>0, <2>1 DEF LeaseOrphan, Maybe
      <4>2. [orphan[m] EXCEPT !.deleting = TRUE] \in Orphan
        BY <4>1 DEF Orphan
      <4> QED BY <4>2, Records
    <3>2. orphan'[m] # None /\ sweep'[m] = "delete" /\ UNCHANGED <<stored, registered>>
      BY <2>0, <2>1, <3>1 DEF LeaseOrphan
    <3>3. ~Untouched(m)
      BY <2>1 DEF LeaseOrphan, Untouched
    <3> QED BY <2>0, <3>2, <3>3 DEF MsgBody
  <2>2. CASE DeleteOrphan(m)
    BY <2>0, <2>2 DEF DeleteOrphan, MsgBody, Untouched
  <2>3. CASE UnlistOrphan(m)
    BY <2>0, <2>3 DEF UnlistOrphan, MsgBody, Untouched
  <2>4. CASE FinishOrphan(m)
    BY <2>0, <2>4 DEF FinishOrphan, MsgBody, Untouched
  <2>5. CASE LoseSweep(m)
    BY <2>0, <2>5 DEF LoseSweep, MsgBody, Untouched, bodies
  <2> QED BY <2>1, <2>2, <2>3, <2>4, <2>5 DEF SweepStep
<1>4. MsgBody(m)'
  BY <1>0, <1>3 DEF Bodies, MsgBody
<1>5. ASSUME NEW q \in Procs PROVE FrameBody(q)' /\ FrameBorn(q)'
  <2>0. FrameBody(q) /\ FrameBorn(q)
    BY DEF Bodies
  <2>1. FrameBorn(q)'
    BY <1>0, <2>0 DEF FrameBorn, At
  <2>2. CASE Msg(q) = m
    <3>1. proc[q].pc # "write"
      <4>1. SUFFICES ASSUME proc[q].pc = "write" PROVE FALSE
        OBVIOUS
      <4>2. sweep[m] = "idle" /\ orphan[m].expires >= proc[q].at + Grace /\ orphan[m] # None
        BY <2>0, <2>2, <4>1 DEF FrameBody
      <4>3. orphan[m].expires <= now
        BY <4>2 DEF SweepStep, LeaseOrphan, DeleteOrphan, UnlistOrphan, FinishOrphan, LoseSweep
      <4>4. orphan[m].expires \in Nat
        BY <4>2, Parts, OrphanRecord DEF OrphansFit, Maybe
      <4>5. now <= proc[q].at + RequestLife /\ proc[q].at \in Nat
        BY <4>1, ActiveMsg, FrameTypes DEF At, FrameFits
      <4> QED BY <4>2, <4>3, <4>4, <4>5, Parts, Constants
    <3>2. FrameBody(q)'
      BY <1>0, <1>3, <2>0, <2>2, <3>1 DEF FrameBody, Msg, Sending
    <3> QED BY <2>1, <3>2
  <2>3. CASE Msg(q) # m /\ Msg(q) \in Msgs
    <3>1. PICK k \in Msgs : k = Msg(q) /\ k # m
      BY <2>3
    <3>2. FrameBody(q)'
      BY <1>0, <1>1, <2>0, <3>1 DEF FrameBody, Untouched, Msg, Sending
    <3> QED BY <2>1, <3>2
  <2>4. CASE Msg(q) \notin Msgs
    <3>1. At(q, "idle")
      BY <2>4, ActiveMsg
    <3>2. FrameBody(q)'
      BY <1>0, <3>1 DEF FrameBody, At, EndPcs
    <3> QED BY <2>1, <3>2
  <2> QED BY <2>2, <2>3, <2>4
<1> QED BY <1>2, <1>4, <1>5 DEF Bodies

LEMMA RetentionBodies ==
    ASSUME QueueType, Posted, Bodies, ExpireRun \/ DeleteQueuePage \/ CommitQueuePage
    PROVE  Bodies'
<1>0. UNCHANGED <<inline, orphan, sweep, proc, started, sent, settled>>
  <2>1. CASE ExpireRun
    BY <2>1 DEF ExpireRun, setup, bodies, starts, ghosts
  <2>2. CASE DeleteQueuePage
    BY <2>2 DEF DeleteQueuePage, setup, starts, ghosts
  <2>3. CASE CommitQueuePage
    BY <2>3 DEF CommitQueuePage, setup, starts, ghosts
  <2> QED BY <2>1, <2>2, <2>3
<1>1. /\ run' # "live" /\ stored' \subseteq stored
      /\ \/ run = "live" /\ run' = "fenced" /\ UNCHANGED <<registered, stored>>
         \/ run \in {"fenced", "purged"} /\ run' = "purged" /\ stored' = stored \ registered
         \/ run = "purged" /\ run' = "gone" /\ UNCHANGED stored
  <2>1. CASE ExpireRun
    BY <2>1 DEF ExpireRun, bodies
  <2>2. CASE DeleteQueuePage
    BY <2>2 DEF DeleteQueuePage
  <2>3. CASE CommitQueuePage
    BY <2>3 DEF CommitQueuePage
  <2> QED BY <2>1, <2>2, <2>3
<1>2. ASSUME NEW m \in Msgs PROVE MsgBody(m)'
  BY <1>0, <1>1 DEF Bodies, MsgBody, Untouched
<1>3. ASSUME NEW q \in Procs PROVE FrameBody(q)' /\ FrameBorn(q)'
  <2>0. FrameBody(q) /\ FrameBorn(q)
    BY DEF Bodies
  <2>1. FrameBody(q)'
    BY <1>0, <1>1, <2>0 DEF FrameBody, Untouched, Msg, Sending
  <2>2. FrameBorn(q)'
    BY <1>0, <1>1, <2>0 DEF FrameBorn, At
  <2> QED BY <2>1, <2>2
<1> QED BY <1>2, <1>3 DEF Bodies

LEMMA TickBodies ==
    ASSUME QueueType, Posted, Bodies, Tick
    PROVE  Bodies'
<1>0. UNCHANGED <<inline, run, orphan, sweep, registered, stored, started, sent>> /\ settled \subseteq settled'
  <2>1. UNCHANGED <<inline, run, orphan, sweep, registered, stored, started, sent>>
    BY DEF Tick, setup, bodies, starts
  <2>2. settled \subseteq settled'
    BY DEF Tick
  <2> QED BY <2>1, <2>2
<1>1. \A q \in Procs : proc'[q] = Idle \/ proc'[q] = proc[q]
  BY DEF Tick
<1>2. \A m \in Msgs : MsgBody(m)'
  BY <1>0, MsgKept DEF Bodies
<1>3. ASSUME NEW q \in Procs PROVE FrameBody(q)' /\ FrameBorn(q)'
  <2>0. FrameBody(q) /\ FrameBorn(q)
    BY DEF Bodies
  <2>1. CASE proc'[q] = Idle
    <3>1. FrameBody(q)'
      BY <2>1, IdleFits DEF FrameBody, EndPcs
    <3>2. FrameBorn(q)'
      BY <2>1, IdleFits DEF FrameBorn, At
    <3> QED BY <3>1, <3>2
  <2>2. CASE proc'[q] = proc[q]
    <3>1. FrameBody(q)'
      BY <1>0, <2>0, <2>2 DEF FrameBody, Untouched, Msg, Sending
    <3>2. FrameBorn(q)'
      BY <1>0, <2>0, <2>2 DEF FrameBorn, At
    <3> QED BY <3>1, <3>2
  <2> QED BY <1>1, <2>1, <2>2
<1> QED BY <1>2, <1>3 DEF Bodies

LEMMA NextBodies ==
    ASSUME QueueType, Posted, Bodies, [Next]_vars
    PROVE  Bodies'
<1>1. CASE UNCHANGED <<inline, run, orphan, sweep, registered, stored, started, sent, settled, proc>>
  <2>1. \A m \in Msgs : MsgBody(m)'
    BY <1>1 DEF Bodies, MsgBody, Untouched
  <2>2. \A q \in Procs : FrameBody(q)'
    BY <1>1 DEF Bodies, FrameBody, Untouched, Msg, Sending
  <2>3. \A q \in Procs : FrameBorn(q)'
    BY <1>1 DEF Bodies, FrameBorn, At
  <2> QED BY <2>1, <2>2, <2>3 DEF Bodies
<1>2. CASE CompactClaims
  BY <1>1, <1>2 DEF CompactClaims, setup, bodies, starts, ghosts
<1>3. CASE UNCHANGED vars
  BY <1>1, <1>3 DEF vars, setup, bodies, starts, ghosts
<1> QED BY <1>2, <1>3, Steps, ProcBodies, SweepBodies, RetentionBodies, TickBodies

LEMMA InitBodies == Init => Bodies
<1> SUFFICES ASSUME Init PROVE Bodies
  OBVIOUS
<1>1. ASSUME NEW m \in Msgs PROVE MsgBody(m)
  BY DEF Init, MsgBody, Untouched
<1>2. ASSUME NEW q \in Procs PROVE FrameBody(q) /\ FrameBorn(q)
  <2>1. proc[q] = Idle /\ run = "live"
    BY DEF Init
  <2>2. FrameBody(q)
    BY <2>1, IdleFits DEF FrameBody, EndPcs
  <2>3. FrameBorn(q)
    BY <2>1, IdleFits DEF FrameBorn, At
  <2> QED BY <2>2, <2>3
<1> QED BY <1>1, <1>2 DEF Bodies

(* A stored body always has an orphan lease, through failures between the   *)
(* registration, the lease, the write and the publication, refused and      *)
(* replaced leases, deletions by senders, deliveries, retention and the     *)
(* orphan cell's own alarm: no body is left that nobody will delete.        *)
THEOREM BodiesAreOwned == Spec => []BodyIsOwned
<1>1. QueueType /\ Bodies => BodyIsOwned
  BY Parts DEF Bodies, MsgBody, BodyIsOwned
<1> QED BY <1>1, InitType, NextType, InitPosted, NextPosted, InitBodies, NextBodies, PTL DEF Spec

(* A delivery that starts once the run's cell is empty never calls the      *)
(* application: its claim is refused, its admission is, or its body is not  *)
(* there.                                                                   *)
THEOREM GoneRunsAreNotCalled == Spec => []GoneRunIsNotCalled
<1>1. Bodies => GoneRunIsNotCalled
  BY DEF Bodies, FrameBorn, GoneRunIsNotCalled
<1> QED BY <1>1, InitType, NextType, InitPosted, NextPosted, InitBodies, NextBodies, PTL DEF Spec


-----------------------------------------------------------------------------
(* Copies: no message is lost with an acknowledgement *)

(* d is a later copy of c's message.                                        *)
Newer(d, c) ==
    /\ d.msg = c.msg /\ d.count >= c.count /\ d.until >= c.until
    /\ d.count > c.count \/ d.until > c.until

(* What a delivery relies on before it acknowledges: unless its message is  *)
(* settled, a later copy outlasts it; a copy that is passed on is renewed;  *)
(* an answer is evaluated in time.                                          *)
FrameCovered(p) ==
    /\ At(p, "ack") /\ Msg(p) \notin settled =>
         \E d \in broker : Newer(d, proc[p].copy) /\ d.until >= proc[p].at + BrokerLife
    /\ At(p, "answered") => proc[p].wait > now
    /\ At(p, "chain") => proc[p].copy.until < now + BrokerLife

Deliverable ==
    PromptAnswers /\ run = "live" =>
       /\ \A m \in sent : m \in settled \/ \E c \in broker : c.msg = m
       /\ \A p \in Procs : FrameCovered(p)

LEMMA CopyTypes ==
    ASSUME NEW c \in Copy
    PROVE  c.msg \in Msgs /\ c.until \in Nat /\ c.count \in Nat /\ c.notBefore \in Nat
BY TheStamps, Constants DEF Copy

LEMMA NewerIsTransitive ==
    ASSUME NEW c \in Copy, NEW d \in Copy, NEW e \in Copy, Newer(d, c), Newer(e, d)
    PROVE  Newer(e, c)
BY CopyTypes DEF Newer

(* What a delivery carries.                                                 *)
LEMMA Carried ==
    ASSUME QueueType, NEW p \in Procs, ~At(p, "idle"), ~Sending(p)
    PROVE  /\ proc[p].copy \in Copy /\ proc[p].copy.msg = Msg(p)
           /\ proc[p].copy.until <= now + BrokerLife
           /\ proc[p].at \in Nat /\ proc[p].at <= now /\ now <= proc[p].at + RequestLife
<1>1. proc[p] \in Frame /\ FrameFits(proc[p], now)
  BY ActiveMsg
<1> QED BY <1>1, FrameTypes, Constants DEF FrameFits, Sending, Msg, At, Maybe

(* How a process comes to chain, to wait for an answer and to acknowledge.  *)
Arrives(p) ==
    /\ proc'[p].pc = "chain" => \E c \in broker : Deliver(p, c)
    /\ proc'[p].pc = "answered" => ClaimEarly(p)
    /\ proc'[p].pc = "ack" => \/ Chain(p) \/ Suspend(p) \/ EvaluateAnswer(p)
                             \/ ClaimExpired(p) \/ ClaimTaken(p) \/ (Complete(p) /\ ~Sending(p))

LEMMA Arrivals ==
    ASSUME QueueType, NEW p \in Procs, ProcStep(p)
    PROVE  Arrives(p)
<1>e. ASSUME NEW S, Moved(p, S), "chain" \notin S, "answered" \notin S, "ack" \notin S PROVE Arrives(p)
  BY <1>e, IdleFits DEF Moved, Arrives
<1>1. CASE SendStep(p)
  <2>1. ASSUME NEW m \in bounds.sends, NEW delay \in bounds.delays, Send(p, m, delay) PROVE Arrives(p)
    BY <2>1, StartMoves DEF Arrives
  <2>2. CASE \/ RefuseExpired(p) \/ FindReserved(p) \/ Unstage(p) \/ SendToBroker(p) \/ Confirm(p)
             \/ Abandon(p) \/ Admit(p) \/ ScheduleQueuePayloadOrphan(p) \/ WriteBody(p)
    BY <1>e, <2>2, SendMoves
  <2>3. CASE ReserveMessage(p)
    BY <1>e, <2>3, SendMoves
  <2>4. CASE RegisterQueuePayload(p)
    BY <1>e, <2>4, SendMoves
  <2>5. CASE FinalizeQueuePayload(p)
    BY <1>e, <2>5, SendMoves
  <2> QED BY <1>1, <2>1, <2>2, <2>3, <2>4, <2>5 DEF SendStep
<1>2. CASE DeliveryStep(p)
  <2>1. ASSUME NEW c \in broker, Deliver(p, c) PROVE Arrives(p)
    BY <2>1, StartMoves DEF Arrives
  <2>2. CASE Chain(p) \/ Suspend(p) \/ EvaluateAnswer(p) \/ ClaimExpired(p) \/ ClaimTaken(p)
    <3>1. PICK S : Moved(p, S) /\ S \subseteq {"ack", "suspend"}
      <4>1. CASE EvaluateAnswer(p)
        BY <4>1, DeliveryMoves
      <4>2. CASE Chain(p) \/ Suspend(p) \/ ClaimExpired(p) \/ ClaimTaken(p)
        <5>1. Moved(p, {"ack"})
          BY <4>2, DeliveryMoves, CallbackMoves
        <5> QED BY <5>1
      <4> QED BY <2>2, <4>1, <4>2
    <3>2. proc'[p].pc # "chain" /\ proc'[p].pc # "answered"
      BY <3>1, IdleFits DEF Moved
    <3> QED BY <2>2, <3>2 DEF Arrives
  <2>3. CASE ClaimEarly(p)
    <3>1. proc'[p].pc # "chain" /\ proc'[p].pc # "ack"
      BY <2>3, DeliveryMoves, IdleFits DEF Moved
    <3> QED BY <2>3, <3>1 DEF Arrives
  <2>4. CASE ClaimMessage(p)
    BY <1>e, <2>4, DeliveryMoves
  <2>5. CASE CheckAdmission(p)
    BY <1>e, <2>5, DeliveryMoves
  <2>6. CASE ReadBody(p)
    BY <1>e, <2>6, DeliveryMoves
  <2>7. CASE CallbackDone(p)
    BY <1>e, <2>7, CallbackMoves
  <2>8. CASE \E delay \in Delays : CallbackSuspends(p, delay)
    BY <1>e, <2>8, CallbackMoves
  <2>9. CASE \/ CallbackFails(p) \/ ExtendOrphan(p) \/ ExtendRefused(p) \/ Hold(p)
             \/ SuspendedTooOften(p) \/ Release(p) \/ Ack(p)
    BY <1>e, <2>9, CallbackMoves
  <2> QED BY <1>2, <2>1, <2>2, <2>3, <2>4, <2>5, <2>6, <2>7, <2>8, <2>9 DEF DeliveryStep
<1>3. CASE DeleteBody(p) \/ UnregisterQueuePayload(p) \/ CancelQueuePayloadOrphan(p)
  <2>1. PICK back \in {"abandon", "unclaim"} : back = IF Sending(p) THEN "abandon" ELSE "unclaim"
    OBVIOUS
  <2>2. Moved(p, {"unlist", back}) \/ Moved(p, {"unorphan", back}) \/ Moved(p, {"complete", back})
    BY <1>3, <2>1, EndMoves
  <2> QED BY <1>e, <2>2
<1>4. CASE Complete(p)
  <2>1. CASE Sending(p)
    BY <1>e, <1>4, <2>1, EndMoves
  <2>2. CASE ~Sending(p)
    <3>1. proc'[p].pc # "chain" /\ proc'[p].pc # "answered"
      BY <1>4, <2>2, EndMoves, IdleFits DEF Moved
    <3> QED BY <1>4, <2>2, <3>1 DEF Arrives
  <2> QED BY <2>1, <2>2
<1>5. CASE CallFails(p)
  <2>1. Moved(p, Back(p)) /\ Back(p) \subseteq {"unstage", "abandon", "unclaim"}
    BY <1>5, EndMoves, BackPcs
  <2> QED BY <1>e, <2>1
<1>6. CASE Lose(p)
  BY <1>e, <1>6, EndMoves
<1> QED BY <1>1, <1>2, <1>3, <1>4, <1>5, <1>6 DEF ProcStep


(* The copy that comes back and the copy that is passed on are newer than   *)
(* the one they replace.                                                    *)
LEMMA Renewed ==
    ASSUME QueueType, NEW p \in Procs, Chain(p) \/ Suspend(p), FrameCovered(p)
    PROVE  \E d \in broker' : Newer(d, proc[p].copy) /\ d.until >= proc[p].at + BrokerLife
<1>0. ~At(p, "idle") /\ ~Sending(p)
  BY BackPcs DEF Chain, Suspend, At, DeliveryPcs
<1>1. PICK c \in Copy : c = proc[p].copy /\ c.until <= now + BrokerLife
  BY <1>0, Carried
<1>2. proc[p].at \in Nat /\ proc[p].at <= now /\ now \in Nat
  BY <1>0, Carried, Parts
<1>3. CASE Chain(p)
  <2>1. PICK u : u = now + BrokerLife
    OBVIOUS
  <2>2. PICK d : d = [c EXCEPT !.until = u] /\ d \in broker'
    BY <1>1, <1>3, <2>1 DEF Chain, Republish
  <2>3. d.msg = c.msg /\ d.count = c.count /\ d.until = u
    BY <2>2 DEF Copy
  <2>4. c.until < now + BrokerLife
    BY <1>1, <1>3 DEF FrameCovered, Chain
  <2>5. Newer(d, c) /\ d.until >= proc[p].at + BrokerLife
    BY <1>1, <1>2, <2>1, <2>3, <2>4, CopyTypes, Constants DEF Newer
  <2> QED BY <1>1, <2>2, <2>5
<1>4. CASE Suspend(p)
  <2>1. PICK u, n, k : u = now + BrokerLife /\ n = now + proc[p].delay /\ k = c.count + 1
    OBVIOUS
  <2>2. PICK e : e = [c EXCEPT !.notBefore = n, !.count = k]
    OBVIOUS
  <2>3. PICK d : d = [e EXCEPT !.until = u] /\ d \in broker'
    BY <1>1, <1>4, <2>1, <2>2 DEF Suspend, Republish
  <2>4. d = [[c EXCEPT !.notBefore = n, !.count = k] EXCEPT !.until = u]
    BY <2>2, <2>3
  <2>5. d.msg = c.msg /\ d.count = k /\ d.until = u
    BY <2>4 DEF Copy
  <2>6. Newer(d, c) /\ d.until >= proc[p].at + BrokerLife
    BY <1>1, <1>2, <2>1, <2>5, CopyTypes, Constants DEF Newer
  <2> QED BY <1>1, <2>3, <2>6
<1> QED BY <1>3, <1>4

LEMMA SameBroker ==
    ASSUME NEW p \in Procs, ProcStep(p), ~SendToBroker(p), ~Ack(p)
    PROVE  UNCHANGED <<now, run, sent>> /\ settled \subseteq settled' /\ broker \subseteq broker'
<1>1. UNCHANGED <<now, run>> /\ settled \subseteq settled'
  BY ProcStepTouches, OnlyMoreSettled
<1>2. UNCHANGED sent
  BY ProcStepTouches DEF GhostStep, FindReserved, Confirm, ClaimTaken, CallbackDone
<1>3. broker \subseteq broker'
  BY ProcStepTouches DEF BrokerStep, Chain, Suspend, Republish
<1> QED BY <1>1, <1>2, <1>3

(* Deleting the copy that a delivery acknowledges leaves a newer one of the *)
(* message, for the message and for other deliveries of it.                 *)
LEMMA AckLeavesNewer ==
    ASSUME QueueType, NEW p \in Procs, Ack(p), FrameCovered(p), NEW c \in broker, c.msg \notin settled
    PROVE  \E d \in broker' : d = c \/ Newer(d, c)
<1>0. ~At(p, "idle") /\ ~Sending(p) /\ At(p, "ack")
  BY BackPcs DEF Ack, At, DeliveryPcs
<1>1. PICK k \in Copy : k = proc[p].copy /\ k.msg = Msg(p)
  BY <1>0, Carried
<1>2. broker' = broker \ {k} /\ broker \subseteq Copy
  BY <1>1, Parts DEF Ack, CopiesFit
<1>3. CASE c = k
  <2>1. PICK d \in broker : Newer(d, k)
    BY <1>0, <1>1, <1>3 DEF FrameCovered
  <2>2. d # k
    BY <1>1, <2>1, CopyTypes DEF Newer
  <2> QED BY <1>2, <1>3, <2>1, <2>2
<1>4. CASE c # k
  BY <1>2, <1>4
<1> QED BY <1>3, <1>4

LEMMA EarlyAnswer ==
    ASSUME QueueType, NEW p \in Procs, ClaimEarly(p), proc'[p].pc = "answered"
    PROVE  proc'[p].wait > now
<1>1. claim \in Claim /\ claim.expires > now /\ (claim.retryAt = None \/ ~(claim.retryAt <= now))
  BY KeptFits DEF ClaimEarly, Blocks, Fresh, SuspensionOver, ClaimFits, Maybe
<1>2. PICK w : w = IF claim.retryAt = None THEN claim.expires ELSE claim.retryAt
  OBVIOUS
<1>3. w \in Stamp
  BY <1>1, <1>2, ClaimRecord DEF Maybe
<1>4. w > now
  BY <1>1, <1>2, <1>3, Parts, TheStamps
<1>5. PICK h \in Frame : h = To(p, "answered")
  <2>1. "answered" \in Pc
    BY DEF Pc
  <2> QED BY <2>1, ToFields
<1>6. PICK f : f = [h EXCEPT !.wait = w] /\ Called(p, f)
  BY <1>2, <1>5 DEF ClaimEarly
<1>7. f.wait = w
  BY <1>6 DEF Frame
<1>8. Goto(p, f) \/ Goto(p, Idle)
  <2>1. Caught(p) = Idle
    <3>1. ~Sending(p) /\ ~proc[p].claimed
      BY ActiveMsg, BackPcs DEF ClaimEarly, At, DeliveryPcs, UnclaimedPcs, FrameFits
    <3> QED BY <3>1 DEF Caught
  <2> QED BY <1>6, <2>1 DEF Called
<1>9. proc'[p] = f \/ proc'[p] = Idle
  BY <1>8, Parts DEF Goto, FramesFit
<1> QED BY <1>4, <1>7, <1>9, IdleFits

LEMMA ProcDeliverable ==
    ASSUME QueueType, Posted, Bodies, Deliverable, NEW p \in Procs, ProcStep(p)
    PROVE  Deliverable'
<1> SUFFICES ASSUME PromptAnswers, run' = "live"
             PROVE  /\ \A m \in sent' : m \in settled' \/ \E c \in broker' : c.msg = m
                    /\ \A q \in Procs : FrameCovered(q)'
  BY DEF Deliverable
<1>0. UNCHANGED <<now, run>> /\ run = "live" /\ settled \subseteq settled'
  BY ProcStepTouches, OnlyMoreSettled
<1>1. /\ \A m \in sent : m \in settled \/ \E c \in broker : c.msg = m
      /\ \A q \in Procs : FrameCovered(q)
  BY <1>0 DEF Deliverable
<1>t. broker \subseteq Copy /\ broker' \subseteq Copy
  <2>1. QueueType'
    BY NextType DEF Next, ProcStep
  <2> QED BY <2>1, Parts DEF QueueType, TypeOK, CopiesFit
<1>2. ASSUME NEW m \in sent' PROVE m \in settled' \/ \E c \in broker' : c.msg = m
  <2>1. CASE SendToBroker(p)
    <3>1. PICK d : d = [msg |-> Msg(p), notBefore |-> proc[p].wait, until |-> now + BrokerLife, count |-> 0]
      OBVIOUS
    <3>2. d.msg = Msg(p)
      BY <3>1
    <3>3. broker' = broker \cup {d} /\ sent' = sent \cup {Msg(p)}
      BY <2>1, <3>1 DEF SendToBroker
    <3> QED BY <1>0, <1>1, <1>2, <3>2, <3>3
  <2>2. CASE Ack(p)
    <3>1. m \in sent
      BY <1>2, <2>2 DEF Ack, ghosts
    <3>2. CASE m \in settled
      BY <1>0, <3>2
    <3>3. CASE m \notin settled
      <4>1. PICK c \in broker : c.msg = m
        BY <1>1, <3>1, <3>3
      <4>2. PICK d \in broker' : d = c \/ Newer(d, c)
        BY <1>1, <2>2, <3>3, <4>1, AckLeavesNewer
      <4> QED BY <4>1, <4>2 DEF Newer
    <3> QED BY <3>2, <3>3
  <2>3. CASE ~SendToBroker(p) /\ ~Ack(p)
    BY <1>1, <1>2, <2>3, SameBroker
  <2> QED BY <2>1, <2>2, <2>3
<1>3. ASSUME NEW q \in Procs, q # p PROVE FrameCovered(q)'
  <2>1. proc'[q] = proc[q] /\ FrameCovered(q)
    BY <1>1, <1>3, OtherMoves, StartMoves, SendMoves DEF Moved
  <2>2. ASSUME At(q, "ack"), Msg(q) \notin settled'
        PROVE  \E d \in broker' : Newer(d, proc[q].copy) /\ d.until >= proc[q].at + BrokerLife
    <3>1. PICK d \in broker : Newer(d, proc[q].copy) /\ d.until >= proc[q].at + BrokerLife
      BY <1>0, <2>1, <2>2 DEF FrameCovered
    <3>2. CASE Ack(p)
      <4>1. /\ proc[q].copy \in Copy /\ proc[q].copy.msg = Msg(q) /\ proc[q].at \in Nat
        BY <2>2, BackPcs, Carried DEF At, DeliveryPcs
      <4>2. d.msg = Msg(q)
        BY <3>1, <4>1 DEF Newer
      <4>3. PICK e \in broker' : e = d \/ Newer(e, d)
        BY <1>0, <1>1, <2>2, <3>2, <4>2, AckLeavesNewer
      <4>4. d \in Copy /\ e \in Copy
        BY <1>t
      <4>5. CASE e = d
        BY <3>1, <4>3, <4>5
      <4>6. CASE Newer(e, d)
        <5>1. Newer(e, proc[q].copy)
          BY <3>1, <4>1, <4>4, <4>6, NewerIsTransitive
        <5>2. e.until >= proc[q].at + BrokerLife
          BY <3>1, <4>1, <4>4, <4>6, CopyTypes, Constants DEF Newer
        <5> QED BY <5>1, <5>2
      <4> QED BY <4>3, <4>5, <4>6
    <3>3. CASE ~Ack(p)
      <4>1. broker \subseteq broker'
        BY <3>3, ProcStepTouches DEF BrokerStep, SendToBroker, Chain, Suspend, Republish
      <4> QED BY <3>1, <4>1
    <3> QED BY <3>2, <3>3
  <2>3. At(q, "answered") => proc[q].wait > now
    BY <2>1 DEF FrameCovered
  <2>4. At(q, "chain") => proc[q].copy.until < now + BrokerLife
    BY <2>1 DEF FrameCovered
  <2> QED BY <1>0, <2>1, <2>2, <2>3, <2>4 DEF FrameCovered, At, Msg
<1>4. FrameCovered(p)'
  <2>a. Arrives(p)
    BY Arrivals
  <2>1. ASSUME proc'[p].pc = "chain" PROVE proc'[p].copy.until < now + BrokerLife
    <3>1. PICK c \in broker : Deliver(p, c)
      BY <2>a, <2>1 DEF Arrives
    <3>2. /\ proc'[p].copy = c /\ (c.notBefore <= now \/ c.until < now + BrokerLife)
          /\ c.notBefore > now
      <4>1. proc'[p].pc = IF c.notBefore > now THEN "chain" ELSE "claim"
        BY <3>1, StartMoves
      <4>2. c.notBefore > now
        BY <2>1, <4>1
      <4> QED BY <3>1, <4>2, StartMoves DEF Deliver
    <3>3. c.notBefore \in Nat
      BY <1>t, CopyTypes
    <3> QED BY <3>2, <3>3, Parts
  <2>2. ASSUME proc'[p].pc = "answered" PROVE proc'[p].wait > now
    BY <2>a, <2>2, EarlyAnswer DEF Arrives
  <2>3. ASSUME proc'[p].pc = "ack", proc'[p].msg \notin settled'
        PROVE  \E d \in broker' : Newer(d, proc'[p].copy) /\ d.until >= proc'[p].at + BrokerLife
    <3>m. ASSUME NEW S, Moved(p, S)
          PROVE  proc'[p].msg = Msg(p) /\ proc'[p].copy = proc[p].copy /\ proc'[p].at = proc[p].at
      BY <2>3, <3>m, IdleFits DEF Moved
    <3>1. CASE Chain(p) \/ Suspend(p)
      <4>1. Moved(p, {"ack"})
        BY <3>1, DeliveryMoves, CallbackMoves
      <4> QED BY <1>1, <3>1, <3>m, <4>1, Renewed
    <3>2. CASE EvaluateAnswer(p)
      <4>1. proc[p].wait > now
        BY <1>1, <3>2 DEF EvaluateAnswer, FrameCovered
      <4>2. Moved(p, {"suspend"})
        BY <3>2, <4>1, DeliveryMoves
      <4> QED BY <2>3, <4>2, IdleFits DEF Moved
    <3>3. CASE ClaimExpired(p)
      BY <1>0, <3>3 DEF ClaimExpired
    <3>4. CASE ClaimTaken(p)
      <4>1. Moved(p, {"ack"}) /\ Msg(p) \in settled'
        BY <3>4, DeliveryMoves DEF ClaimTaken
      <4> QED BY <2>3, <3>m, <4>1
    <3>5. CASE Complete(p) /\ ~Sending(p)
      <4>1. Msg(p) \in settled
        BY <1>0, <3>5 DEF Complete, At, EndPcs, Bodies, FrameBody
      <4>2. Moved(p, {"ack", "unclaim"})
        BY <3>5, EndMoves
      <4> QED BY <1>0, <2>3, <3>m, <4>1, <4>2
    <3> QED BY <2>a, <2>3, <3>1, <3>2, <3>3, <3>4, <3>5 DEF Arrives
  <2> QED BY <1>0, <2>1, <2>2, <2>3 DEF FrameCovered, At, Msg
<1> QED BY <1>2, <1>3, <1>4

(* A delivery that still runs started too recently for the broker to have   *)
(* dropped the copy it counts on.                                           *)
LEMMA TickDeliverable ==
    ASSUME QueueType, Deliverable, Tick
    PROVE  Deliverable'
<1> SUFFICES ASSUME PromptAnswers, run' = "live"
             PROVE  /\ \A m \in sent' : m \in settled' \/ \E c \in broker' : c.msg = m
                    /\ \A q \in Procs : FrameCovered(q)'
  BY DEF Deliverable
<1>0. UNCHANGED <<run, sent>> /\ run = "live" /\ now' = now + 1 /\ now \in Nat
  BY Parts DEF Tick, setup
<1>1. /\ \A m \in sent : m \in settled \/ \E c \in broker : c.msg = m
      /\ \A q \in Procs : FrameCovered(q)
  BY <1>0 DEF Deliverable
<1>2. /\ broker' = {c \in broker : c.until > now'}
      /\ settled' = settled \cup ({c.msg : c \in broker} \ {c.msg : c \in broker'})
      /\ broker \subseteq Copy
  BY Parts DEF Tick, CopiesFit
<1>3. \A m \in sent' : m \in settled' \/ \E c \in broker' : c.msg = m
  BY <1>0, <1>1, <1>2
<1>4. ASSUME NEW q \in Procs PROVE FrameCovered(q)'
  <2>1. proc'[q] = IF now' > proc[q].at + RequestLife THEN Idle ELSE proc[q]
    BY DEF Tick
  <2>2. CASE proc'[q] = Idle
    BY <2>2, IdleFits DEF FrameCovered, At
  <2>3. CASE proc'[q] = proc[q] /\ ~(now' > proc[q].at + RequestLife)
    <3>1. ~At(q, "answered")
      BY DEF Tick, At
    <3>2. ASSUME At(q, "chain") PROVE proc[q].copy.until < now' + BrokerLife
      <4>1. proc[q].copy.until < now + BrokerLife
        BY <1>1, <3>2 DEF FrameCovered
      <4>2. proc[q].copy \in Copy
        BY <3>2, BackPcs, Carried DEF At, DeliveryPcs
      <4> QED BY <1>0, <4>1, <4>2, CopyTypes, Constants
    <3>3. ASSUME At(q, "ack"), Msg(q) \notin settled'
          PROVE  \E d \in broker' : Newer(d, proc[q].copy) /\ d.until >= proc[q].at + BrokerLife
      <4>1. PICK d \in broker : Newer(d, proc[q].copy) /\ d.until >= proc[q].at + BrokerLife
        BY <1>1, <1>2, <3>3 DEF FrameCovered
      <4>2. proc[q].at \in Nat
        BY <3>3, BackPcs, Carried DEF At, DeliveryPcs
      <4>3. d.until > now'
        <5>1. d.until \in Nat
          BY <1>2, CopyTypes
        <5> QED BY <1>0, <2>3, <4>1, <4>2, <5>1, Constants
      <4> QED BY <1>2, <4>1, <4>3
    <3> QED BY <2>3, <3>1, <3>2, <3>3 DEF FrameCovered, At, Msg
  <2> QED BY <2>1, <2>2, <2>3
<1> QED BY <1>3, <1>4

LEMMA NextDeliverable ==
    ASSUME QueueType, Posted, Bodies, Deliverable, [Next]_vars
    PROVE  Deliverable'
<1>1. CASE /\ UNCHANGED <<now, broker, sent, proc>> /\ settled \subseteq settled'
           /\ run' = "live" => run = "live"
  <2>1. CASE PromptAnswers /\ run' = "live"
    <3>1. \A m \in sent : m \in settled \/ \E c \in broker : c.msg = m
      BY <1>1, <2>1 DEF Deliverable
    <3>2. \A q \in Procs : FrameCovered(q)
      BY <1>1, <2>1 DEF Deliverable
    <3>3. \A q \in Procs : FrameCovered(q)'
      BY <1>1, <3>2 DEF FrameCovered, At, Msg
    <3> QED BY <1>1, <3>1, <3>3 DEF Deliverable
  <2>2. CASE ~(PromptAnswers /\ run' = "live")
    BY <2>2 DEF Deliverable
  <2> QED BY <2>1, <2>2
<1>2. ASSUME NEW m \in Msgs, SweepStep(m) PROVE Deliverable'
  <2>1. settled \subseteq settled'
    BY <1>2 DEF SweepStep, LeaseOrphan, DeleteOrphan, UnlistOrphan, FinishOrphan, LoseSweep, ghosts
  <2> QED BY <1>1, <1>2, <2>1, SweepTouches
<1>3. CASE ExpireRun \/ DeleteQueuePage
  BY <1>1, <1>3 DEF ExpireRun, DeleteQueuePage, ghosts
<1>4. CASE CommitQueuePage
  BY <1>1, <1>4 DEF CommitQueuePage, ghosts
<1>5. CASE CompactClaims
  BY <1>1, <1>5 DEF CompactClaims, ghosts
<1>6. CASE UNCHANGED vars
  BY <1>1, <1>6 DEF vars, ghosts
<1> QED BY <1>2, <1>3, <1>4, <1>5, <1>6, Steps, ProcDeliverable, TickDeliverable

LEMMA InitDeliverable == Init => Deliverable
<1> SUFFICES ASSUME Init PROVE Deliverable
  OBVIOUS
<1>1. \A q \in Procs : FrameCovered(q)
  BY IdleFits DEF Init, FrameCovered, At
<1> QED BY <1>1 DEF Init, Deliverable

(* A message a sender was told is queued stays with the broker until the    *)
(* application handled it, another one of its key was in delivery, or its   *)
(* leases or its run ended, whatever calls fail, whatever answers and       *)
(* workers are lost, and whichever copies are delivered twice: as long as   *)
(* workers evaluate the answers of claims in time.                          *)
THEOREM OwedMessagesAreDeliverable == ASSUME PromptAnswers PROVE Spec => []OwedIsDeliverable
<1>1. Posted /\ Deliverable => OwedIsDeliverable
  BY DEF Posted, Deliverable, OwedIsDeliverable
<1> QED BY <1>1, InitType, NextType, InitPosted, NextPosted, InitBodies, NextBodies, InitDeliverable,
           NextDeliverable, PTL DEF Spec

=============================================================================
