----------------------------- MODULE RunCatalog -----------------------------
(***************************************************************************)
(* A run-catalog shard, RunCatalogDO.ts, with the run cells that publish    *)
(* to it, the in-flight publications, the cron sweep that discovers old     *)
(* runs through it (retention-sweep.ts) and the status prefilter of run     *)
(* listings (run-list.ts).                                                  *)
(*                                                                         *)
(* A publication carries the run's status and the lease the run cell gave   *)
(* it; the network may deliver it late, twice or never.  The pair of keys   *)
(* of a run ("run:" and "runall:") and its "catalog-keys:" record are       *)
(* written and deleted together, so one entry stands for the three.  Time   *)
(* is one clock, in units of a fraction of the lease.                       *)
(***************************************************************************)
EXTENDS Naturals, FiniteSets

CONSTANTS
    Runs,             \* run IDs, a set of numbers: the order of the catalog keys
    Lease,            \* MAX_RUN_INDEX_PUBLICATION_LIFETIME_MS
    Grace,            \* CATALOG_FENCE_GRACE_MS
    CompactionBatch,  \* LIFECYCLE_COMPACTION_BATCH
    SweepBatch,       \* WORKFLOW_RETENTION_BATCH_SIZE
    MaxAge,           \* WORKFLOW_RETENTION_MS
    LastCall,         \* bound: when runs last change and expire
    Horizon           \* bound: the end of time

ASSUME CatalogAssumption ==
    /\ Runs \subseteq Nat /\ IsFiniteSet(Runs)
    /\ Lease \in Nat \ {0} /\ Grace \in Nat /\ Lease <= Grace
    /\ CompactionBatch \in Nat \ {0} /\ SweepBatch \in Nat \ {0}
    /\ MaxAge \in Nat /\ LastCall \in Nat /\ Horizon \in Nat

VARIABLES
    status,    \* run cell: the run's status; "none" before it is created,
               \* "expired" once fenced, "gone" past the index phase
    created,   \* run cell: createdAt
    pubs,      \* publications sent and not forgotten by the network
    entry,     \* shard: the status published for the run, or "none"
    marker,    \* shard: compactAt of the "expired:" marker, or Never
    gc,        \* shard: "expiry-gc:" records
    alarm,     \* shard: when the alarm is set for, or Never
    removed,   \* ghost: runs whose entry an expireRun deleted
    now

vars == <<status, created, pubs, entry, marker, gc, alarm, removed, now>>

-----------------------------------------------------------------------------

Time  == 0..Horizon
Never == Horizon + Grace + 2
Stamp == 0..(Horizon + Grace + 1)

Active   == {"pending", "running"}
Terminal == {"completed", "cancelled"}
Status   == Active \cup Terminal

Publication == [run : Runs, status : Status, lease : Stamp]

TypeOK ==
    /\ status \in [Runs -> Status \cup {"none", "expired", "gone"}]
    /\ created \in [Runs -> Time]
    /\ pubs \subseteq Publication
    /\ entry \in [Runs -> Status \cup {"none"}]
    /\ marker \in [Runs -> Stamp \cup {Never}]
    /\ gc \subseteq Runs \X Stamp
    /\ alarm \in Stamp \cup {Never}
    /\ removed \subseteq Runs
    /\ now \in Time

Init ==
    /\ status = [r \in Runs |-> "none"]
    /\ created = [r \in Runs |-> 0]
    /\ pubs = {}
    /\ entry = [r \in Runs |-> "none"]
    /\ marker = [r \in Runs |-> Never]
    /\ gc = {}
    /\ alarm = Never
    /\ removed = {}
    /\ now = 0

-----------------------------------------------------------------------------
(* The run cells *)

shard == <<entry, marker, gc, alarm, removed>>

Publish(r, s) == pubs' = pubs \cup {[run |-> r, status |-> s, lease |-> now + Lease]}

CreateRun(r) ==
    /\ now <= LastCall
    /\ status[r] = "none"
    /\ status' = [status EXCEPT ![r] = "pending"]
    /\ created' = [created EXCEPT ![r] = now]
    /\ Publish(r, "pending")
    /\ UNCHANGED <<shard, now>>

(* Statuses only move pending -> running -> terminal; an event that leaves  *)
(* the status alone, or its replay, publishes it again.                     *)
Follows(s) ==
    CASE s = "pending" -> Status
      [] s = "running" -> Status \ {"pending"}
      [] OTHER         -> {s}

ChangeRun(r, s) ==
    /\ now <= LastCall
    /\ status[r] \in Status
    /\ s \in Follows(status[r])
    /\ status' = [status EXCEPT ![r] = s]
    /\ Publish(r, s)
    /\ UNCHANGED <<created, shard, now>>

(* Terminal retention, or cleanupNow: the run cell fences itself.           *)
RunExpires(r) ==
    /\ now <= LastCall
    /\ status[r] \in Terminal
    /\ status' = [status EXCEPT ![r] = "expired"]
    /\ UNCHANGED <<created, pubs, shard, now>>

-----------------------------------------------------------------------------
(* The shard *)

(* Mutant: the lease of a publication is not checked.                       *)
UpsertRunWithoutLease(m) ==
    /\ marker[m.run] = Never
    /\ entry' = [entry EXCEPT ![m.run] = m.status]
    /\ UNCHANGED <<status, created, pubs, marker, gc, alarm, removed, now>>

(* A publication arrives.  A run with a marker, or a publication without a  *)
(* live lease, is not stored.  Nothing compares it with the stored status.  *)
UpsertRun(m) ==
    /\ marker[m.run] = Never
    /\ now < m.lease /\ m.lease <= now + Lease
    /\ entry' = [entry EXCEPT ![m.run] = m.status]
    /\ UNCHANGED <<status, created, pubs, marker, gc, alarm, removed, now>>

ArmAtMost(at) == alarm' = IF alarm = Never \/ at < alarm THEN at ELSE alarm

(* The index page of the run's cleanup calls the shard; the run leaves the  *)
(* index phase, or has more pages or a lost answer and calls again.  A run  *)
(* without stored keys leaves the shard as it is.                           *)
ExpireRun(r, after) ==
    /\ status[r] = "expired"
    /\ status' = [status EXCEPT ![r] = after]
    /\ IF entry[r] = "none"
         THEN UNCHANGED shard
         ELSE /\ LET compactAt == IF marker[r] = Never THEN now + Grace ELSE marker[r]
                 IN  /\ marker' = [marker EXCEPT ![r] = compactAt]
                     /\ gc' = gc \cup {<<r, compactAt>>}
                     /\ ArmAtMost(compactAt)
              /\ entry' = [entry EXCEPT ![r] = "none"]
              /\ removed' = removed \cup {r}
    /\ UNCHANGED <<created, pubs, now>>

Due == {g \in gc : g[2] <= now}

(* A page of due records, in key order: by time, then by run.               *)
Before(g, h) == g[2] < h[2] \/ (g[2] = h[2] /\ g[1] < h[1])

CompactionPage == {g \in Due : Cardinality({h \in Due : Before(h, g)}) < CompactionBatch}

(* Mutant: records that are not due yet do not keep the alarm.               *)
RearmIfMore(left, more) == alarm' = IF more THEN now + 1 ELSE Never

(* The alarm after a page: at once if more is due, else for the next record. *)
Rearm(left, more) ==
    IF more THEN alarm' = now + 1
    ELSE IF left = {} THEN alarm' = Never
    ELSE \E g \in left : /\ \A h \in left : g[2] <= h[2]
                         /\ alarm' = IF g[2] <= now THEN now + 1 ELSE g[2]

(* The alarm deletes a bounded page of due markers and rearms.              *)
CompactExpiryFences ==
    /\ alarm <= now
    /\ marker' = [r \in Runs |-> IF <<r, marker[r]>> \in CompactionPage THEN Never ELSE marker[r]]
    /\ gc' = gc \ CompactionPage
    /\ Rearm(gc \ CompactionPage, Cardinality(Due) > CompactionBatch)
    /\ UNCHANGED <<status, created, pubs, entry, removed, now>>

(* The compaction transaction throws: a fresh alarm is set.                 *)
CompactionFails ==
    /\ alarm <= now
    /\ alarm' = now + 1
    /\ UNCHANGED <<status, created, pubs, entry, marker, gc, removed, now>>

-----------------------------------------------------------------------------
(* The cron sweep: the oldest entries past the cutoff, one page; each run   *)
(* cell checks its own age and fences itself.                               *)

Older(r, q) == created[r] < created[q] \/ (created[r] = created[q] /\ r < q)

SweepPage ==
    {r \in Runs : /\ entry[r] # "none" /\ created[r] + MaxAge <= now
                  /\ Cardinality({q \in Runs : entry[q] # "none" /\ Older(q, r)}) < SweepBatch}

(* Mutant: only terminal runs are fenced.                                   *)
SweepTerminal(r) ==
    /\ r \in SweepPage
    /\ status[r] \in Terminal
    /\ status' = [status EXCEPT ![r] = "expired"]
    /\ UNCHANGED <<created, pubs, shard, now>>

(* A run that is fenced already, or gone, answers "expired" as well; only   *)
(* an entry whose run is missing or not due is deleted by the sweep.        *)
Sweep(r) ==
    /\ r \in SweepPage
    /\ status[r] \in Status
    /\ status' = [status EXCEPT ![r] = "expired"]
    /\ UNCHANGED <<created, pubs, shard, now>>

Tick ==
    /\ now < Horizon
    /\ now' = now + 1
    /\ UNCHANGED <<status, created, pubs, shard>>

-----------------------------------------------------------------------------
(* Listings *)

(* Mutant: any other indexed status excludes the run.                       *)
IndexStatusExcludesAny(indexed, requested) == indexed # requested

(* What the indexed status says about a status filter.                      *)
IndexStatusExcludes(indexed, requested) ==
    indexed # requested /\ (indexed \in Terminal \/ requested = "pending")

-----------------------------------------------------------------------------

Next ==
    \/ \E r \in Runs : \/ CreateRun(r) \/ RunExpires(r) \/ Sweep(r)
                       \/ \E after \in {"expired", "gone"} : ExpireRun(r, after)
                       \/ \E s \in Status : ChangeRun(r, s)
    \/ \E m \in pubs : UpsertRun(m)
    \/ CompactExpiryFences \/ CompactionFails
    \/ Tick

Spec == Init /\ [][Next]_vars

(* Cron runs again and again, cleanup alarms fire and time passes.          *)
FairSpec ==
    /\ Spec
    /\ \A r \in Runs : WF_vars(Sweep(r)) /\ WF_vars(ExpireRun(r, "gone"))
    /\ WF_vars(Tick)

-----------------------------------------------------------------------------
(* Properties *)

(* An entry that expireRun deleted never comes back, although publications  *)
(* admitted before the expiry are delivered late or twice, and the marker   *)
(* that rejects them is itself compacted: leases end before the marker.     *)
RemovedStaysOut == \A r \in removed : entry[r] = "none"

(* Every marker has its compaction record and the shard's single alarm is   *)
(* set no later than the earliest record, or for the next instant, whatever *)
(* pages, failures and new expiries set it in between (armAtMost).          *)
FenceIsArmed ==
    \A r \in Runs : marker[r] # Never
        => /\ <<r, marker[r]>> \in gc
           /\ alarm <= marker[r] \/ alarm <= now + 1

(* A listing's status filter never drops a run that matches it: whatever    *)
(* publication was applied last, the indexed status excludes a requested    *)
(* status only if the run does not have it now (indexStatusExcludes).       *)
PrefilterSound ==
    \A r \in Runs, requested \in Status :
        entry[r] # "none" /\ IndexStatusExcludes(entry[r], requested) => status[r] # requested

(* Entries ahead of r that the sweep finds again and again and cannot       *)
(* remove: their run is past the index phase (enforceRetention answers      *)
(* "expired").                                                              *)
StuckBefore(r) == {q \in Runs : status[q] = "gone" /\ entry[q] # "none" /\ Older(q, r)}

Overdue(r) == entry[r] # "none" /\ created[r] + MaxAge <= now

Swept(r) == status[r] \in {"expired", "gone"}

(* The backlog is worked off although a page holds less than the backlog:   *)
(* an overdue run that is listed is swept, unless older entries of runs     *)
(* that are gone already come to fill the page.                             *)
SweepAdvances ==
    \A r \in Runs : Overdue(r) ~> (Swept(r) \/ Cardinality(StuckBefore(r)) >= SweepBatch)

(* A run the catalog lists is swept once it is old enough: "later           *)
(* occurrences continue with the next oldest entries" (README.md) and       *)
(* "Repeated cron occurrences advance through a backlog".                   *)
SweepReachesBacklog == \A r \in Runs : Overdue(r) ~> Swept(r)

(* A run whose cleanup left the index phase is in no listing: the expiry    *)
(* marker rejects delayed publications.                                     *)
ExpiredRunsAreUnlisted == \A r \in Runs : status[r] = "gone" => entry[r] = "none"

=============================================================================
