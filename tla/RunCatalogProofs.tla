-------------------------- MODULE RunCatalogProofs --------------------------
(***************************************************************************)
(* Proofs about RunCatalog, for any number of runs and publications, any    *)
(* lease and any grace no shorter than the lease.                           *)
(***************************************************************************)
EXTENDS RunCatalog, TLAPS

LEMMA Numbers ==
    /\ Lease \in Nat /\ Grace \in Nat /\ Horizon \in Nat /\ Lease <= Grace
    /\ Never \in Nat /\ Never \notin Stamp /\ Stamp \subseteq Nat /\ Time \subseteq Nat
    /\ Time \subseteq Stamp
    /\ \A t \in Stamp : t < Never
    /\ \A t \in Time : t + 1 < Never
    /\ \A t \in Time : t + Grace \in Stamp /\ t + Lease \in Stamp /\ t + 1 \in Stamp
BY CatalogAssumption DEF Never, Stamp, Time

LEMMA InitType == Init => TypeOK
BY CatalogAssumption DEF Init, TypeOK, Time, Stamp, Never, Status

LEMMA PublishType ==
    ASSUME TypeOK, NEW r \in Runs, NEW s \in Status, Publish(r, s)
    PROVE  pubs' \subseteq Publication
<1>1. now + Lease \in Stamp
  BY Numbers DEF TypeOK
<1>2. [run |-> r, status |-> s, lease |-> now + Lease] \in Publication
  BY <1>1 DEF Publication
<1> QED BY <1>2 DEF TypeOK, Publish

(* Every alarm the shard sets is a time, or Never.                          *)
LEMMA RearmType ==
    ASSUME now \in Time, gc \subseteq Runs \X Stamp, NEW more, NEW left \in SUBSET gc,
           Rearm(left, more)
    PROVE  alarm' \in Stamp \cup {Never}
<1>1. now + 1 \in Stamp
  BY Numbers
<1>2. \A g \in left : g[2] \in Stamp
  OBVIOUS
<1> QED BY <1>1, <1>2 DEF Rearm

LEMMA ExpireRunType ==
    ASSUME TypeOK, NEW r \in Runs, NEW after \in {"expired", "gone"}, ExpireRun(r, after)
    PROVE  TypeOK'
<1>1. status' \in [Runs -> Status \cup {"none", "expired", "gone"}]
  BY DEF TypeOK, ExpireRun
<1>2. CASE entry[r] = "none"
  BY <1>1, <1>2 DEF TypeOK, ExpireRun, shard
<1>3. CASE entry[r] # "none"
  <2> DEFINE compactAt == IF marker[r] = Never THEN now + Grace ELSE marker[r]
  <2>1. compactAt \in Stamp
    BY Numbers DEF TypeOK
  <2>2. /\ marker' = [marker EXCEPT ![r] = compactAt]
        /\ gc' = gc \cup {<<r, compactAt>>}
        /\ ArmAtMost(compactAt)
        /\ entry' = [entry EXCEPT ![r] = "none"]
        /\ removed' = removed \cup {r}
        /\ UNCHANGED <<created, pubs, now>>
    BY <1>3 DEF ExpireRun
  <2> HIDE DEF compactAt
  <2>3. alarm' \in Stamp \cup {Never}
    BY <2>1, <2>2 DEF ArmAtMost, TypeOK
  <2> QED BY <1>1, <2>1, <2>2, <2>3 DEF TypeOK
<1> QED BY <1>2, <1>3

LEMMA NextType == TypeOK /\ [Next]_vars => TypeOK'
<1> SUFFICES ASSUME TypeOK, [Next]_vars PROVE TypeOK'
  OBVIOUS
<1> USE DEF shard
<1>1. ASSUME NEW r \in Runs, CreateRun(r) PROVE TypeOK'
  <2>1. pubs' \subseteq Publication
    BY <1>1, PublishType DEF CreateRun, Status, Active
  <2> QED BY <1>1, <2>1 DEF CreateRun, TypeOK, Status, Active
<1>2. ASSUME NEW r \in Runs, NEW s \in Status, ChangeRun(r, s) PROVE TypeOK'
  <2>1. pubs' \subseteq Publication
    BY <1>2, PublishType DEF ChangeRun
  <2> QED BY <1>2, <2>1 DEF ChangeRun, TypeOK
<1>3. ASSUME NEW r \in Runs, RunExpires(r) PROVE TypeOK'
  BY <1>3 DEF RunExpires, TypeOK
<1>4. ASSUME NEW r \in Runs, Sweep(r) PROVE TypeOK'
  BY <1>4 DEF Sweep, TypeOK
<1>5. ASSUME NEW r \in Runs, NEW after \in {"expired", "gone"}, ExpireRun(r, after) PROVE TypeOK'
  BY <1>5, ExpireRunType
<1>6. ASSUME NEW m \in pubs, UpsertRun(m) PROVE TypeOK'
  BY <1>6 DEF UpsertRun, TypeOK, Publication
<1>7. CASE CompactExpiryFences
  <2>1. gc' \subseteq gc /\ gc \subseteq Runs \X Stamp
    BY <1>7 DEF CompactExpiryFences, TypeOK
  <2>2. alarm' \in Stamp \cup {Never}
    BY <1>7, RearmType DEF CompactExpiryFences, TypeOK
  <2>3. marker' \in [Runs -> Stamp \cup {Never}]
    BY <1>7 DEF CompactExpiryFences, TypeOK
  <2> QED BY <1>7, <2>1, <2>2, <2>3 DEF CompactExpiryFences, TypeOK
<1>8. CASE CompactionFails
  BY <1>8, Numbers DEF CompactionFails, TypeOK
<1>9. CASE Tick
  BY <1>9, Numbers DEF Tick, TypeOK, Time
<1>10. CASE UNCHANGED vars
  BY <1>10 DEF vars, TypeOK
<1> QED
  BY <1>1, <1>2, <1>3, <1>4, <1>5, <1>6, <1>7, <1>8, <1>9, <1>10 DEF Next

(* The type invariant of the shard, the run cells and the network.          *)
THEOREM TypeCorrect == Spec => []TypeOK
BY InitType, NextType, PTL DEF Spec

-----------------------------------------------------------------------------
(* Every lease was given at some earlier instant.  A run whose entry was    *)
(* removed publishes no more; what it published before is rejected by the   *)
(* marker while there is one, and by its own lease once the marker is gone. *)
LeaseInv ==
    /\ \A m \in pubs : m.lease <= now + Lease
    /\ \A r \in removed : status[r] \in {"expired", "gone"}
    /\ \A r \in removed, m \in pubs : m.run = r =>
          IF marker[r] = Never THEN m.lease <= now ELSE m.lease <= marker[r]
    /\ \A r \in Runs : marker[r] # Never => r \in removed
    /\ RemovedStaysOut

LEMMA PublishLease ==
    ASSUME TypeOK, LeaseInv, NEW r \in Runs, NEW s \in Status, r \notin removed, Publish(r, s),
           UNCHANGED <<marker, removed, now>>
    PROVE  /\ \A m \in pubs' : m.lease <= now + Lease
           /\ \A q \in removed, m \in pubs' : m.run = q =>
                 IF marker[q] = Never THEN m.lease <= now ELSE m.lease <= marker[q]
<1> DEFINE new == [run |-> r, status |-> s, lease |-> now + Lease]
<1>1. new.run = r /\ new.lease = now + Lease /\ now + Lease \in Nat
  BY Numbers DEF TypeOK
<1>2. pubs' = pubs \cup {new}
  BY DEF Publish
<1> HIDE DEF new
<1> QED BY <1>1, <1>2 DEF LeaseInv

LEMMA ExpireRunLease ==
    ASSUME TypeOK, LeaseInv, NEW r \in Runs, NEW after \in {"expired", "gone"}, ExpireRun(r, after)
    PROVE  LeaseInv'
<1>1. status' = [status EXCEPT ![r] = after] /\ status[r] = "expired" /\ UNCHANGED <<pubs, now>>
  BY DEF ExpireRun
<1>2. CASE entry[r] = "none"
  BY <1>1, <1>2 DEF ExpireRun, shard, LeaseInv, RemovedStaysOut, TypeOK
<1>3. CASE entry[r] # "none"
  <2>1. r \notin removed
    BY <1>3 DEF LeaseInv, RemovedStaysOut
  <2> DEFINE compactAt == IF marker[r] = Never THEN now + Grace ELSE marker[r]
  <2>2. /\ marker' = [marker EXCEPT ![r] = compactAt]
        /\ entry' = [entry EXCEPT ![r] = "none"]
        /\ removed' = removed \cup {r}
    BY <1>3 DEF ExpireRun
  <2>3. CASE marker[r] = Never
    <3>1. compactAt = now + Grace /\ compactAt \in Stamp /\ compactAt # Never
      BY <2>3, Numbers DEF TypeOK
    <3>2. \A m \in pubs : m.lease <= compactAt
      <4> SUFFICES ASSUME NEW m \in pubs PROVE m.lease <= compactAt
        OBVIOUS
      <4>1. m.lease <= now + Lease
        BY DEF LeaseInv
      <4>2. m.lease \in Nat /\ now \in Nat
        BY Numbers DEF TypeOK, Publication
      <4> QED BY <3>1, <4>1, <4>2, Numbers
    <3> HIDE DEF compactAt
    <3> QED BY <1>1, <2>1, <2>2, <3>1, <3>2 DEF LeaseInv, RemovedStaysOut, TypeOK
  <2>4. CASE marker[r] # Never
    BY <2>1, <2>4 DEF LeaseInv
  <2> QED BY <2>3, <2>4
<1> QED BY <1>2, <1>3

LEMMA CompactLease ==
    ASSUME TypeOK, LeaseInv, CompactExpiryFences
    PROVE  LeaseInv'
<1>1. \A r \in Runs : marker'[r] = marker[r] \/ (marker'[r] = Never /\ marker[r] <= now)
  BY DEF CompactExpiryFences, CompactionPage, Due, TypeOK
<1>2. UNCHANGED <<status, pubs, entry, removed, now>>
  BY DEF CompactExpiryFences
<1>3. ASSUME NEW r \in removed, NEW m \in pubs, m.run = r
      PROVE  IF marker'[r] = Never THEN m.lease <= now ELSE m.lease <= marker'[r]
  <2>1. r \in Runs /\ m.lease \in Nat /\ now \in Nat /\ marker[r] \in Nat
    BY Numbers DEF TypeOK, Publication
  <2>2. IF marker[r] = Never THEN m.lease <= now ELSE m.lease <= marker[r]
    BY <1>3 DEF LeaseInv
  <2> QED BY <1>1, <2>1, <2>2
<1>4. \A r \in Runs : marker'[r] # Never => r \in removed
  BY <1>1 DEF LeaseInv
<1> QED BY <1>2, <1>3, <1>4 DEF LeaseInv, RemovedStaysOut

LEMMA TickLease ==
    ASSUME TypeOK, LeaseInv, Tick
    PROVE  LeaseInv'
<1>1. now' = now + 1 /\ now \in Nat /\ Lease \in Nat
  BY Numbers DEF Tick, TypeOK
<1>2. \A m \in pubs : m.lease \in Nat
  BY Numbers DEF TypeOK, Publication
<1> QED BY <1>1, <1>2 DEF Tick, shard, LeaseInv, RemovedStaysOut

LEMMA NextLease == TypeOK /\ LeaseInv /\ [Next]_vars => LeaseInv'
<1> SUFFICES ASSUME TypeOK, LeaseInv, [Next]_vars PROVE LeaseInv'
  OBVIOUS
<1>1. ASSUME NEW r \in Runs, CreateRun(r) PROVE LeaseInv'
  <2>1. r \notin removed
    BY <1>1 DEF CreateRun, LeaseInv
  <2>2. \A q \in removed : status'[q] = status[q]
    BY <1>1, <2>1 DEF CreateRun, TypeOK
  <2> QED BY <1>1, <2>1, <2>2, PublishLease DEF CreateRun, shard, LeaseInv, RemovedStaysOut,
                                               Status, Active
<1>2. ASSUME NEW r \in Runs, NEW s \in Status, ChangeRun(r, s) PROVE LeaseInv'
  <2>1. r \notin removed
    BY <1>2 DEF ChangeRun, LeaseInv, Status, Active, Terminal
  <2>2. \A q \in removed : status'[q] = status[q]
    BY <1>2, <2>1 DEF ChangeRun, TypeOK
  <2> QED BY <1>2, <2>1, <2>2, PublishLease DEF ChangeRun, shard, LeaseInv, RemovedStaysOut
<1>3. ASSUME NEW r \in Runs, RunExpires(r) \/ Sweep(r) PROVE LeaseInv'
  BY <1>3 DEF RunExpires, Sweep, shard, LeaseInv, RemovedStaysOut, TypeOK
<1>5. ASSUME NEW r \in Runs, NEW after \in {"expired", "gone"}, ExpireRun(r, after) PROVE LeaseInv'
  BY <1>5, ExpireRunLease
<1>6. ASSUME NEW m \in pubs, UpsertRun(m) PROVE LeaseInv'
  <2>1. m.run \in Runs /\ m.lease \in Nat /\ now \in Nat
    BY Numbers DEF TypeOK, Publication
  <2>2. m.run \notin removed
    BY <1>6, <2>1 DEF UpsertRun, LeaseInv
  <2>3. \A q \in removed : entry'[q] = entry[q]
    BY <1>6, <2>2 DEF UpsertRun, TypeOK
  <2> QED BY <1>6, <2>3 DEF UpsertRun, LeaseInv, RemovedStaysOut
<1>7. CASE CompactExpiryFences
  BY <1>7, CompactLease
<1>8. CASE CompactionFails
  BY <1>8 DEF CompactionFails, LeaseInv, RemovedStaysOut
<1>9. CASE Tick
  BY <1>9, TickLease
<1>10. CASE UNCHANGED vars
  BY <1>10 DEF vars, LeaseInv, RemovedStaysOut
<1> QED
  BY <1>1, <1>2, <1>3, <1>5, <1>6, <1>7, <1>8, <1>9, <1>10 DEF Next

(* An entry that expireRun deleted never comes back: a marker outlives      *)
(* every lease given before the expiry (CATALOG_FENCE_GRACE_MS is not less  *)
(* than MAX_RUN_INDEX_PUBLICATION_LIFETIME_MS).                             *)
THEOREM RemovedEntriesStayOut == Spec => []RemovedStaysOut
<1>1. Init => LeaseInv
  BY DEF Init, LeaseInv, RemovedStaysOut
<1>2. TypeOK /\ LeaseInv /\ [Next]_vars => LeaseInv'
  BY NextLease
<1>3. LeaseInv => RemovedStaysOut
  BY DEF LeaseInv
<1> QED BY <1>1, <1>2, <1>3, TypeCorrect, PTL DEF Spec

-----------------------------------------------------------------------------
LEMMA NextArmed == TypeOK /\ FenceIsArmed /\ [Next]_vars => FenceIsArmed'
<1> SUFFICES ASSUME TypeOK, FenceIsArmed, [Next]_vars PROVE FenceIsArmed'
  OBVIOUS
<1>1. ASSUME UNCHANGED <<marker, gc, alarm, now>> PROVE FenceIsArmed'
  BY <1>1 DEF FenceIsArmed
<1>2. ASSUME NEW r \in Runs, NEW after \in {"expired", "gone"}, ExpireRun(r, after), entry[r] # "none"
      PROVE  FenceIsArmed'
  <2> DEFINE compactAt == IF marker[r] = Never THEN now + Grace ELSE marker[r]
  <2>1. /\ marker' = [marker EXCEPT ![r] = compactAt]
        /\ gc' = gc \cup {<<r, compactAt>>}
        /\ alarm' = IF alarm = Never \/ compactAt < alarm THEN compactAt ELSE alarm
        /\ now' = now
    BY <1>2 DEF ExpireRun, ArmAtMost
  <2>2. compactAt \in Stamp /\ compactAt \in Nat /\ alarm \in Nat /\ now \in Nat
    BY Numbers DEF TypeOK
  <2> HIDE DEF compactAt
  <2>3. alarm' <= compactAt
    BY <2>1, <2>2, Numbers
  <2>4. ASSUME NEW q \in Runs, q # r, marker[q] # Never
        PROVE  /\ <<q, marker[q]>> \in gc
               /\ alarm' <= marker[q] \/ alarm' <= now + 1
    <3>1. /\ <<q, marker[q]>> \in gc
          /\ alarm <= marker[q] \/ alarm <= now + 1
      BY <2>4 DEF FenceIsArmed
    <3>2. marker[q] \in Nat /\ marker[q] < Never /\ now + 1 < Never
      BY <2>4, Numbers DEF TypeOK
    <3>3. alarm # Never
      BY <3>1, <3>2, <2>2, Numbers
    <3> QED BY <2>1, <2>2, <3>1, <3>2, <3>3
  <2> QED BY <2>1, <2>3, <2>4 DEF FenceIsArmed, TypeOK
<1>3. CASE CompactExpiryFences
  <2> DEFINE left == gc \ CompactionPage
  <2>1. /\ marker' = [q \in Runs |-> IF <<q, marker[q]>> \in CompactionPage THEN Never ELSE marker[q]]
        /\ gc' = left /\ now' = now
        /\ Rearm(left, Cardinality(Due) > CompactionBatch)
    BY <1>3 DEF CompactExpiryFences
  <2> SUFFICES ASSUME NEW r \in Runs, marker'[r] # Never
               PROVE  <<r, marker'[r]>> \in gc' /\ (alarm' <= marker'[r] \/ alarm' <= now' + 1)
    BY DEF FenceIsArmed
  <2>2. marker'[r] = marker[r] /\ <<r, marker[r]>> \in left
    BY <2>1 DEF FenceIsArmed
  <2>3. marker[r] \in Nat /\ now \in Nat /\ now + 1 \in Nat
    BY Numbers DEF TypeOK
  <2>4. \A g \in left : g[2] \in Nat
    BY Numbers DEF TypeOK
  <2>5. \A g \in left : (\A h \in left : g[2] <= h[2]) => g[2] <= marker[r]
    BY <2>2
  <2> HIDE DEF left
  <2>6. alarm' = now + 1 \/ \E g \in left : /\ g[2] <= marker[r]
                                            /\ alarm' = IF g[2] <= now THEN now + 1 ELSE g[2]
    BY <2>1, <2>2, <2>5 DEF Rearm
  <2> QED BY <2>1, <2>2, <2>3, <2>4, <2>6
<1>4. CASE CompactionFails
  BY <1>4, Numbers DEF CompactionFails, FenceIsArmed, TypeOK
<1>5. CASE Tick
  <2>1. now \in Nat /\ alarm \in Nat /\ now' = now + 1
    BY <1>5, Numbers DEF Tick, TypeOK
  <2> QED BY <1>5, <2>1 DEF Tick, shard, FenceIsArmed
<1>6. ASSUME NEW r \in Runs, NEW after \in {"expired", "gone"}, ExpireRun(r, after), entry[r] = "none"
      PROVE  FenceIsArmed'
  BY <1>1, <1>6 DEF ExpireRun, shard
<1> QED
  BY <1>1, <1>2, <1>3, <1>4, <1>5, <1>6
     DEF Next, CreateRun, ChangeRun, RunExpires, Sweep, UpsertRun, shard, vars

(* Every expiry marker will be compacted: its record is stored and the      *)
(* shard's alarm is set no later than that record or the next instant.      *)
THEOREM FencesAreArmed == Spec => []FenceIsArmed
<1>1. Init => FenceIsArmed
  BY DEF Init, FenceIsArmed
<1> QED BY <1>1, NextArmed, TypeCorrect, PTL DEF Spec

-----------------------------------------------------------------------------
(* What is published or listed for a run is a status it has or had.         *)
Leads(s, r) == status[r] \in Follows(s) \cup {"expired", "gone"}

StatusInv ==
    /\ \A m \in pubs : Leads(m.status, m.run)
    /\ \A r \in Runs : entry[r] # "none" => Leads(entry[r], r)

LEMMA FollowsFacts ==
    /\ \A s \in Status : s \in Follows(s)
    /\ \A s, t, u \in Status : t \in Follows(s) /\ u \in Follows(t) => u \in Follows(s)
    /\ \A s, t \in Status : t \in Follows(s) /\ s \in Terminal => t = s
    /\ \A s \in Status : "pending" \in Follows(s) => s = "pending"
    /\ \A s \in Status : "none" \notin Follows(s)
BY DEF Follows, Status, Active, Terminal

LEMMA NextStatus == TypeOK /\ StatusInv /\ [Next]_vars => StatusInv'
<1> SUFFICES ASSUME TypeOK, StatusInv, [Next]_vars PROVE StatusInv'
  OBVIOUS
<1>0. /\ \A m \in pubs : m.run \in Runs /\ m.status \in Status
      /\ \A r \in Runs : entry[r] # "none" => entry[r] \in Status
  BY DEF TypeOK, Publication
<1>1. ASSUME NEW r \in Runs, NEW s \in Status, status' = [status EXCEPT ![r] = s],
             status[r] = "none" \/ (status[r] \in Status /\ s \in Follows(status[r])),
             Publish(r, s), entry' = entry
      PROVE  StatusInv'
  <2>1. ASSUME NEW t \in Status, NEW q \in Runs, Leads(t, q) PROVE Leads(t, q)'
    <3>1. status'[q] = IF q = r THEN s ELSE status[q]
      BY <1>1 DEF TypeOK
    <3>2. CASE q = r
      BY <1>1, <2>1, <3>1, <3>2, FollowsFacts DEF Leads, Status, Active, Terminal
    <3>3. CASE q # r
      BY <2>1, <3>1, <3>3 DEF Leads
    <3> QED BY <3>2, <3>3
  <2>2. Leads(s, r)'
    BY <1>1, FollowsFacts DEF Leads, TypeOK
  <2>3. \A m \in pubs' : m \in pubs \/ (m.run = r /\ m.status = s)
    BY <1>1 DEF Publish
  <2> QED BY <1>0, <1>1, <2>1, <2>2, <2>3 DEF StatusInv
<1>2. ASSUME NEW r \in Runs, CreateRun(r) PROVE StatusInv'
  BY <1>1, <1>2 DEF CreateRun, shard, Status, Active
<1>3. ASSUME NEW r \in Runs, NEW s \in Status, ChangeRun(r, s) PROVE StatusInv'
  BY <1>1, <1>3 DEF ChangeRun, shard
<1>4. ASSUME NEW r \in Runs, NEW after \in {"expired", "gone"}, status' = [status EXCEPT ![r] = after],
             UNCHANGED pubs, \A q \in Runs : entry'[q] \in {entry[q], "none"}
      PROVE  StatusInv'
  <2>1. \A q \in Runs : status'[q] = IF q = r THEN after ELSE status[q]
    BY <1>4 DEF TypeOK
  <2>2. ASSUME NEW t, NEW q \in Runs, Leads(t, q) PROVE Leads(t, q)'
    BY <1>4, <2>1, <2>2 DEF Leads
  <2> QED BY <1>0, <1>4, <2>2 DEF StatusInv
<1>5. ASSUME NEW r \in Runs, RunExpires(r) \/ Sweep(r) PROVE StatusInv'
  BY <1>4, <1>5 DEF RunExpires, Sweep, shard
<1>6. ASSUME NEW r \in Runs, NEW after \in {"expired", "gone"}, ExpireRun(r, after) PROVE StatusInv'
  <2>1. \A q \in Runs : entry'[q] \in {entry[q], "none"}
    BY <1>6 DEF ExpireRun, shard, TypeOK
  <2> QED BY <1>4, <1>6, <2>1 DEF ExpireRun
<1>7. ASSUME NEW m \in pubs, UpsertRun(m) PROVE StatusInv'
  BY <1>0, <1>7 DEF UpsertRun, StatusInv, Leads, TypeOK
<1>8. CASE CompactExpiryFences \/ CompactionFails \/ Tick \/ UNCHANGED vars
  BY <1>8 DEF CompactExpiryFences, CompactionFails, Tick, shard, vars, StatusInv, Leads
<1> QED
  BY <1>2, <1>3, <1>5, <1>6, <1>7, <1>8 DEF Next

(* The status filter of a listing drops no run that has the status, however *)
(* late and in whatever order publications arrive.                          *)
THEOREM ListingsMissNothing == Spec => []PrefilterSound
<1>1. Init => StatusInv
  BY DEF Init, StatusInv
<1>2. TypeOK /\ StatusInv => PrefilterSound
  <2> SUFFICES ASSUME TypeOK, StatusInv, NEW r \in Runs, NEW requested \in Status,
                      entry[r] # "none", IndexStatusExcludes(entry[r], requested)
               PROVE  status[r] # requested
    BY DEF PrefilterSound
  <2>1. entry[r] \in Status /\ Leads(entry[r], r)
    BY DEF TypeOK, StatusInv
  <2>2. requested \notin Follows(entry[r])
    BY <2>1, FollowsFacts DEF IndexStatusExcludes
  <2> QED BY <2>1, <2>2 DEF Leads, Status, Active, Terminal
<1> QED BY <1>1, <1>2, NextStatus, TypeCorrect, PTL DEF Spec

=============================================================================
