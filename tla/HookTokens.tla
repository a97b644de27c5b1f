----------------------------- MODULE HookTokens -----------------------------
(***************************************************************************)
(* Who owns one hook token: the token shard HookTokenDO.ts with the repair *)
(* procedures of hook-index-shared.ts, the clients that create hooks       *)
(* (storage.ts, indexes.ts), and the run cells that decide whether a       *)
(* creation committed.                                                     *)
(*                                                                         *)
(* All hooks here want the same token, each in a run of its own.  A cell's *)
(* transaction is one action; between two of them, whenever the code       *)
(* awaits another cell, a process keeps what it read.  A process is a      *)
(* client creating a hook, or a shard procedure (alarm, lookup, settling). *)
(* It may be lost at any point.  An applyEvent whose caller stopped        *)
(* waiting is still in flight.  The hook-ID shard's part of an admission   *)
(* is abstracted to its failure; a claim ID stands for the event claim.    *)
(*                                                                         *)
(* Time is abstracted: a claim or a takeover expires, and a retention      *)
(* passes, at any moment.  The lease number of a claim tells its renewals  *)
(* apart, as expiresAt does.                                               *)
(***************************************************************************)
EXTENDS Naturals, FiniteSets

CONSTANTS
    Hooks,        \* the hooks that want the token, each with its own run
    Setups,       \* bound: the situations considered, see Setup
    Procs,        \* bound: clients and shard procedures in flight at once
    None,
    MaxClaims,    \* bound: claim IDs minted
    MaxLate,      \* bound: calls under way whose caller stopped waiting
    MaxIdFaults   \* bound: faults of the hook-ID shard

(* The hooks created with a tokenRetentionUntil, those created with         *)
(* experimental_force, and those of runs below the spec version that        *)
(* supports it.  Bounds: the hooks whose run ends or expires, the processes *)
(* in flight, the renewals of a claim, and the faults of the hook-ID shard. *)
Setup == [keeping : SUBSET Hooks, forcing : SUBSET Hooks, legacy : SUBSET Hooks,
          mortal : SUBSET Hooks, procs : SUBSET Procs, renewals : Nat,
          faults : SUBSET {"throws", "refuses"}]

ASSUME HookTokensAssumption ==
    /\ Setups \subseteq Setup
    /\ None \notin Hooks
    /\ MaxClaims \in Nat /\ MaxLate \in Nat /\ MaxIdFaults \in Nat

VARIABLES
    record,    \* shard: the hook the token resolves to
    claim,     \* shard: the reservation of a creation in flight
    retained,  \* shard: marker of an ended run's token and its deadline key
    takeover,  \* shard: the intent of a forced creation
    run,       \* hook -> its run: "live", "ended", "expired"
    hook,      \* hook -> its row, created once: "none", "live", "disposed",
               \* or "swept" by terminal cleanup
    from,      \* hook -> forceClaimedFrom of its hook_created
    forced,    \* hook -> the claimer in its force-claim marker
    fences,    \* cancelled claim IDs
    ahead,     \* hooks whose tokenRetentionUntil is still ahead
    owed,      \* disposed hooks whose index release is still to be sent
    late,      \* applyEvent calls whose caller stopped waiting
    proc,      \* process -> frame
    minted,    \* claim IDs minted so far
    idFaults,
    setup

shard == <<record, claim, retained, takeover>>
cells == <<run, hook, from, forced, fences, ahead>>
vars  == <<shard, cells, owed, late, proc, minted, idFaults, setup>>

-----------------------------------------------------------------------------

Keeping  == setup.keeping
Forcing  == setup.forcing
Legacy   == setup.legacy
Mortal   == setup.mortal
IdFaults == setup.faults

ClaimIds == 1..MaxClaims
Maybe(S) == S \cup {None}

HookClaim    == [owner : Hooks, id : ClaimIds, lease : 0..setup.renewals, expired : BOOLEAN]
HookTakeover == [claimer : Hooks, id : ClaimIds, victim : Hooks, running : BOOLEAN,
                 expired : BOOLEAN]
Retained     == [owner : Keeping, armed : BOOLEAN]

(* None is none of the records a store may hold instead.                    *)
ASSUME NoneAssumption ==
    /\ None \notin [owner : Hooks, id : ClaimIds, lease : Nat, expired : BOOLEAN]
    /\ None \notin HookTakeover
    /\ None \notin [owner : Hooks, armed : BOOLEAN]

(* What forceReserve learned of the token's holder before it writes.        *)
Described == [victim : Hooks, running : BOOLEAN, over : BOOLEAN]

(* id 0 is the "-" of an admission without a token claim: the shard already *)
(* has the hook's record.  vic is the victim of a takeover.  snap is what   *)
(* was read before the last call to another cell and ans its answer; then   *)
(* is where a shared procedure returns to.                                  *)
Pc == {"idle", "reserve", "force", "intent", "apply", "ambiguous", "release", "finalize", "store",
       "resolve", "reserveTxn", "preemptTxn", "compactTxn", "getTxn",
       "ask", "rollback", "dispose", "repoint", "confirm", "withdraw"}

Frame == [pc : Pc, hook : Maybe(Hooks), id : 0..MaxClaims, vic : Maybe(Hooks),
          snap : Maybe(HookClaim \cup HookTakeover \cup Described \cup Hooks),
          ans : {"none", "hook", "gone"}, then : Pc]

Idle == [pc |-> "idle", hook |-> None, id |-> 0, vic |-> None, snap |-> None,
         ans |-> "none", then |-> "idle"]

Call == [hook : Hooks, id : 0..MaxClaims, vic : Maybe(Hooks)]

TypeOK ==
    /\ setup \in Setups
    /\ record \in Maybe(Hooks) /\ claim \in Maybe(HookClaim)
    /\ retained \in Maybe(Retained) /\ takeover \in Maybe(HookTakeover)
    /\ run \in [Hooks -> {"live", "ended", "expired"}]
    /\ hook \in [Hooks -> {"none", "live", "disposed", "swept"}]
    /\ from \in [Hooks -> Maybe(Hooks)] /\ forced \in [Hooks -> Maybe(Hooks)]
    /\ fences \subseteq ClaimIds /\ ahead \subseteq Keeping /\ owed \subseteq Hooks
    /\ late \subseteq Call
    /\ proc \in [Procs -> Frame]
    /\ minted \in 0..MaxClaims /\ idFaults \in 0..MaxIdFaults

Init ==
    /\ setup \in Setups
    /\ record = None /\ claim = None /\ retained = None /\ takeover = None
    /\ run = [h \in Hooks |-> "live"]
    /\ hook = [h \in Hooks |-> "none"]
    /\ from = [h \in Hooks |-> None]
    /\ forced = [h \in Hooks |-> None]
    /\ fences = {} /\ ahead = Keeping /\ owed = {} /\ late = {}
    /\ proc = [p \in Procs |-> Idle]
    /\ minted = 0 /\ idFaults = 0

(* The hook can be resumed: getCommittedHook would return it.               *)
Live(h) == run[h] = "live" /\ hook[h] = "live"

At(p, pc) == proc[p].pc = pc

Goto(p, f) == proc' = [proc EXCEPT ![p] = f]

(* Back to where the procedure was called from, with nothing left to carry. *)
Return(p, pc) ==
    Goto(p, IF pc = "idle" THEN Idle
            ELSE [proc[p] EXCEPT !.pc = pc, !.snap = None, !.ans = "none", !.then = "idle"])

Stays == UNCHANGED <<cells, owed, late, idFaults, setup>>

-----------------------------------------------------------------------------
(* Admission: reserve *)

(* events.create of hook_created begins, by a fresh caller or a replay.     *)
CreateHook(p, h) ==
    /\ At(p, "idle") /\ run[h] = "live"
    /\ Goto(p, [Idle EXCEPT !.pc = IF h \in Forcing THEN "force" ELSE "reserve", !.hook = h])
    /\ UNCHANGED <<shard, cells, owed, late, minted, idFaults, setup>>

Admit(p, id, victim) ==
    Goto(p, [proc[p] EXCEPT !.pc = "apply", !.id = id, !.vic = victim, !.snap = None,
                            !.ans = "none", !.then = "idle"])

(* A holder other than the caller: an unforced creation ends in a           *)
(* hook_conflict event, a forced one looks again.                           *)
Conflict(p) == Return(p, IF proc[p].hook \in Forcing THEN "force" ELSE "idle")

StartSettle(p, then) ==
    Goto(p, [proc[p] EXCEPT !.pc = "ask", !.snap = takeover, !.ans = "none", !.then = then])

(* freeExpiredRetention: an ended run's record whose retention passed.      *)
RetentionOver ==
    /\ record # None /\ retained # None /\ takeover = None
    /\ retained.owner = record /\ retained.owner \notin ahead

PutClaim(p, h) ==
    /\ minted < MaxClaims
    /\ minted' = minted + 1
    /\ claim' = [owner |-> h, id |-> minted + 1, lease |-> 0, expired |-> FALSE]
    /\ Admit(p, minted + 1, None)

(* The claim, once the record and the takeover are out of the way.  old and *)
(* committed are what the caller observed and resolved before.              *)
ReserveClaim(p, h, old, committed) ==
    \/ /\ claim = None
       /\ PutClaim(p, h)
    \/ /\ claim # None /\ ~claim.expired
       /\ IF claim.owner = h THEN Admit(p, claim.id, None) ELSE Conflict(p)
       /\ UNCHANGED <<claim, minted>>
    \/ /\ claim # None /\ claim.expired /\ claim # old
       /\ Return(p, "reserve")
       /\ UNCHANGED <<claim, minted>>
    \/ /\ claim # None /\ claim.expired /\ claim = old /\ committed
       /\ claim.lease < setup.renewals
       /\ claim' = [claim EXCEPT !.lease = @ + 1, !.expired = FALSE]
       /\ IF claim.owner = h THEN Admit(p, claim.id, None) ELSE Conflict(p)
       /\ UNCHANGED minted
    \/ /\ claim # None /\ claim.expired /\ claim = old /\ ~committed
       /\ PutClaim(p, h)

ReserveTxn(p, h, old, committed) ==
    \/ /\ record # None /\ ~RetentionOver
       /\ IF record = h THEN Admit(p, 0, None) ELSE Conflict(p)
       /\ UNCHANGED <<shard, minted>>
    \/ /\ record = None /\ takeover # None
       /\ IF takeover.claimer # h /\ ~takeover.expired THEN Conflict(p)
          ELSE StartSettle(p, "reserve")
       /\ UNCHANGED <<shard, minted>>
    \/ /\ RetentionOver \/ (record = None /\ takeover = None)
       /\ record' = None
       /\ retained' = IF RetentionOver THEN None ELSE retained
       /\ ReserveClaim(p, h, old, committed)
       /\ UNCHANGED takeover

ClaimExpired == claim # None /\ claim.expired

(* Without an expired claim reserve calls no other cell; with one it asks   *)
(* the owner's run first.                                                   *)
Reserve(p) ==
    /\ At(p, "reserve")
    /\ ~ClaimExpired
    /\ ReserveTxn(p, proc[p].hook, None, FALSE)
    /\ Stays

ReserveExpired(p) ==
    /\ At(p, "reserve")
    /\ ClaimExpired
    /\ Goto(p, [proc[p] EXCEPT !.pc = "resolve", !.snap = claim, !.then = "reserveTxn"])
    /\ UNCHANGED <<shard, cells, owed, late, minted, idFaults, setup>>

ReserveResolved(p) ==
    /\ At(p, "reserveTxn")
    /\ ReserveTxn(p, proc[p].hook, proc[p].snap, proc[p].ans = "hook")
    /\ Stays

(* Mutant: an expired claim is given up without fencing its creation.       *)
ResolveExpiredHookClaimUnfenced(p) ==
    /\ At(p, "resolve")
    /\ LET c == proc[p].snap IN
       Goto(p, [proc[p] EXCEPT !.pc = proc[p].then, !.ans = IF Live(c.owner) THEN "hook" ELSE "none"])
    /\ UNCHANGED <<shard, cells, owed, late, minted, idFaults, setup>>

(* resolveExpiredHookClaim in the owner's cell: the committed hook of a     *)
(* live run, or the claim is fenced there.                                  *)
ResolveExpiredHookClaim(p) ==
    /\ At(p, "resolve")
    /\ LET c == proc[p].snap IN
       /\ fences' = IF run[c.owner] = "live" /\ hook[c.owner] # "live" THEN fences \cup {c.id}
                    ELSE fences
       /\ Goto(p, [proc[p] EXCEPT !.pc = proc[p].then, !.ans = IF Live(c.owner) THEN "hook" ELSE "none"])
    /\ UNCHANGED <<shard, run, hook, from, forced, ahead, owed, late, minted, idFaults, setup>>

-----------------------------------------------------------------------------
(* Admission: forceReserve *)

(* A takeover or a creation of another hook in flight: wait for it (no      *)
(* step), or settle or preempt it once it expired or the caller waited long *)
(* enough (preempt).                                                        *)
ForceOverPending(p, preempt) ==
    /\ At(p, "force") /\ takeover # None
    /\ \/ takeover.claimer = proc[p].hook /\ Admit(p, takeover.id, takeover.victim)
       \/ /\ takeover.claimer # proc[p].hook /\ (preempt \/ takeover.expired)
          /\ StartSettle(p, "force")
    /\ UNCHANGED <<shard, cells, owed, late, minted, idFaults, setup>>

ForceOverClaim(p, preempt) ==
    /\ At(p, "force") /\ takeover = None /\ record = None
    /\ IF claim # None /\ claim.owner # proc[p].hook
         THEN /\ preempt \/ claim.expired
              /\ Goto(p, [proc[p] EXCEPT !.pc = "resolve", !.snap = claim, !.then = "preemptTxn"])
         ELSE Return(p, "reserve")
    /\ UNCHANGED <<shard, cells, owed, late, minted, idFaults, setup>>

(* The holder is described by its own cell.  A live victim that could not   *)
(* read its disposal is not taken over; an ended one only while retention   *)
(* holds the token for it.                                                  *)
ForceOverRecord(p) ==
    /\ At(p, "force") /\ takeover = None /\ record # None
    /\ LET v == record
           running == run[v] = "live"
       IN  \/ v = proc[p].hook /\ Admit(p, 0, None)
           \/ v # proc[p].hook /\ running /\ v \in Legacy /\ Return(p, "idle")
           \/ /\ v # proc[p].hook /\ ~(running /\ v \in Legacy)
              /\ Goto(p, [proc[p] EXCEPT !.pc = "intent",
                            !.snap = [victim |-> v, running |-> running,
                                      over |-> running \/ v \in ahead]])
    /\ UNCHANGED <<shard, cells, owed, late, minted, idFaults, setup>>

WriteIntent(p) ==
    /\ At(p, "intent")
    /\ LET d == proc[p].snap IN
       \/ /\ record # d.victim \/ takeover # None
          /\ Return(p, "force")
          /\ UNCHANGED <<shard, minted>>
       \/ /\ record = d.victim /\ takeover = None /\ ~d.over
          /\ record' = None /\ retained' = None
          /\ Return(p, "force")
          /\ UNCHANGED <<claim, takeover, minted>>
       \/ /\ record = d.victim /\ takeover = None /\ d.over
          /\ minted < MaxClaims
          /\ minted' = minted + 1
          /\ takeover' = [claimer |-> proc[p].hook, id |-> minted + 1, victim |-> d.victim,
                          running |-> d.running, expired |-> FALSE]
          /\ Admit(p, minted + 1, d.victim)
          /\ UNCHANGED <<record, claim, retained>>
    /\ Stays

(* Re-asks the owner after a repair write.                                  *)
ConfirmNext(p, owner, then) ==
    Goto(p, [proc[p] EXCEPT !.pc = "confirm", !.snap = owner, !.ans = "none", !.then = then])

(* The claim gives way to the record of the hook that committed under it.   *)
PublishClaim(p, then) ==
    /\ claim' = None
    /\ IF proc[p].ans = "hook"
         THEN record' = claim.owner /\ ConfirmNext(p, claim.owner, then)
         ELSE UNCHANGED record /\ Return(p, then)
    /\ UNCHANGED <<retained, takeover, minted>>

PreemptClaim(p) ==
    /\ At(p, "preemptTxn")
    /\ IF claim # None /\ claim.id = proc[p].snap.id
         THEN PublishClaim(p, "force")
         ELSE Return(p, "force") /\ UNCHANGED <<shard, minted>>
    /\ Stays

-----------------------------------------------------------------------------
(* The authoritative creation *)

(* The hook-ID part of reserveHook fails, and the token claim is given back: *)
(* the shard throws, or it refuses because a lookup or its alarm published  *)
(* the ID record of the committed hook.                                     *)
HookIdReserveFails(p) ==
    /\ At(p, "apply")
    /\ idFaults < MaxIdFaults
    /\ \/ "throws" \in IdFaults
       \/ "refuses" \in IdFaults /\ hook[proc[p].hook] = "live"
    /\ idFaults' = idFaults + 1
    /\ Goto(p, [proc[p] EXCEPT !.pc = "release", !.then = "idle"])
    /\ UNCHANGED <<shard, cells, owed, late, minted, setup>>

Accepted(c) == run[c.hook] = "live" /\ c.id \notin fences /\ hook[c.hook] # "disposed"

(* Mutant: a late call creates a hook again that was disposed meanwhile.     *)
ApplyRecreates(c) ==
    IF run[c.hook] = "live" /\ c.id \notin fences /\ hook[c.hook] \in {"none", "disposed"}
      THEN /\ hook' = [hook EXCEPT ![c.hook] = "live"]
           /\ from' = [from EXCEPT ![c.hook] = c.vic]
           /\ UNCHANGED <<run, forced, fences, ahead>>
      ELSE UNCHANGED cells

(* hook_created in the run's cell; a hook that is there is returned again.  *)
Apply(c) ==
    IF Accepted(c) /\ hook[c.hook] = "none"
      THEN /\ hook' = [hook EXCEPT ![c.hook] = "live"]
           /\ from' = [from EXCEPT ![c.hook] = c.vic]
           /\ UNCHANGED <<run, forced, fences, ahead>>
      ELSE UNCHANGED cells

CallOf(p) == [hook |-> proc[p].hook, id |-> proc[p].id, vic |-> proc[p].vic]

(* The caller gets the answer.  A forced creation that was fenced is        *)
(* admitted again (a bounded number of times: it may also give up).         *)
ApplyAnswered(p) ==
    /\ At(p, "apply")
    /\ Apply(CallOf(p))
    /\ \/ Accepted(CallOf(p)) /\ Goto(p, [proc[p] EXCEPT !.pc = "finalize"])
       \/ ~Accepted(CallOf(p)) /\ Goto(p, [proc[p] EXCEPT !.pc = "release", !.then = "idle"])
       \/ /\ proc[p].hook \in Forcing /\ run[proc[p].hook] = "live" /\ proc[p].id \in fences
          /\ Goto(p, [proc[p] EXCEPT !.pc = "release", !.then = "force"])
    /\ UNCHANGED <<shard, owed, late, minted, idFaults, setup>>

(* The RPC throws; the call may have been, be or never be executed.         *)
ApplyLost(p) ==
    /\ At(p, "apply")
    /\ Cardinality(late) < MaxLate /\ late' = late \cup {CallOf(p)}
    /\ Goto(p, [proc[p] EXCEPT !.pc = "ambiguous"])
    /\ UNCHANGED <<shard, cells, owed, minted, idFaults, setup>>

ApplyLate(c) ==
    /\ c \in late
    /\ late' = late \ {c}
    /\ Apply(c)
    /\ UNCHANGED <<shard, owed, proc, minted, idFaults, setup>>

(* resolveHookTokenClaim: the hook is there and the claims stay, or the     *)
(* reservation is fenced before they are released.                          *)
ResolveAmbiguous(p) ==
    /\ At(p, "ambiguous") /\ proc[p].vic = None
    /\ LET h == proc[p].hook IN
       IF run[h] # "expired" /\ hook[h] = "live"
         THEN Return(p, "idle") /\ UNCHANGED fences
         ELSE /\ fences' = IF run[h] = "expired" THEN fences ELSE fences \cup ({proc[p].id} \ {0})
              /\ Goto(p, [proc[p] EXCEPT !.pc = "release", !.then = "idle"])
    /\ UNCHANGED <<shard, run, hook, from, forced, ahead, owed, late, minted, idFaults, setup>>

(* settleAmbiguousTakeover settles whatever intent names the caller.        *)
SettleAmbiguous(p) ==
    /\ At(p, "ambiguous") /\ proc[p].vic # None
    /\ IF takeover # None /\ takeover.claimer = proc[p].hook THEN StartSettle(p, "idle")
       ELSE Return(p, "idle")
    /\ UNCHANGED <<shard, cells, owed, late, minted, idFaults, setup>>

Mine(p) == takeover # None /\ takeover.claimer = proc[p].hook /\ takeover.id = proc[p].id

(* releaseHookReservation: the exact claim, or the exact intent.            *)
Release(p) ==
    /\ At(p, "release")
    /\ LET f == proc[p] IN
       \/ /\ f.vic # None
          /\ IF Mine(p) THEN StartSettle(p, f.then) ELSE Return(p, f.then)
          /\ UNCHANGED claim
       \/ /\ f.vic = None
          /\ claim' = IF claim # None /\ claim.owner = f.hook /\ claim.id = f.id THEN None ELSE claim
          /\ Return(p, f.then)
    /\ UNCHANGED <<record, retained, takeover, cells, owed, late, minted, idFaults, setup>>

-----------------------------------------------------------------------------
(* Publication *)

(* releaseBatch for one hook: its record, unless it is kept for an ended    *)
(* run, and its claim.                                                      *)
ReleaseBatch(h, runEnded) ==
    /\ claim' = IF claim # None /\ claim.owner = h THEN None ELSE claim
    /\ IF record = h /\ runEnded /\ h \in ahead
         THEN /\ retained' = IF retained = None THEN [owner |-> h, armed |-> TRUE] ELSE retained
              /\ UNCHANGED record
         ELSE /\ record' = IF record = h THEN None ELSE record
              /\ retained' = IF record = h THEN None ELSE retained
    /\ UNCHANGED takeover

(* The caller's own report settles a takeover without asking its cell.      *)
CompleteTakeover(p) ==
    /\ At(p, "finalize") /\ proc[p].vic # None
    /\ IF Mine(p)
         THEN Goto(p, [proc[p] EXCEPT !.pc = "dispose", !.snap = takeover, !.ans = "hook",
                                      !.then = "idle"])
         ELSE Return(p, "idle")
    /\ UNCHANGED <<shard, cells, owed, late, minted, idFaults, setup>>

(* finalize asks the run whether it is active, then stores.                 *)
FinalizeAsk(p) ==
    /\ At(p, "finalize") /\ proc[p].vic = None
    /\ Goto(p, [proc[p] EXCEPT !.pc = "store",
                               !.ans = IF run[proc[p].hook] = "live" THEN "hook" ELSE "gone"])
    /\ UNCHANGED <<shard, cells, owed, late, minted, idFaults, setup>>

MayStore(h, id) ==
    /\ record \in {None, h}
    /\ claim # None => ~claim.expired /\ claim.owner = h /\ claim.id = id
    /\ record # None \/ claim # None

FinalizeStore(p) ==
    /\ At(p, "store")
    /\ LET h == proc[p].hook
           active == proc[p].ans = "hook"
       IN  \/ ~active /\ h \notin ahead /\ ReleaseBatch(h, FALSE)
           \/ /\ active \/ h \in ahead
              /\ MayStore(h, proc[p].id)
              /\ record' = h /\ claim' = None
              /\ retained' = IF active THEN retained ELSE [owner |-> h, armed |-> TRUE]
              /\ UNCHANGED takeover
           \/ (active \/ h \in ahead) /\ ~MayStore(h, proc[p].id) /\ UNCHANGED shard
    /\ Return(p, "idle")
    /\ UNCHANGED minted /\ Stays

-----------------------------------------------------------------------------
(* Settling a takeover.  Every caller read the intent before "ask".         *)

Journaled(t) ==
    /\ run[t.claimer] # "expired"
    /\ hook[t.claimer] # "none"
    /\ from[t.claimer] = t.victim

(* Mutant: an intent that is not journaled is dropped without a fence.      *)
ResolveForcedHookClaimUnfenced(p) ==
    /\ At(p, "ask")
    /\ LET t == proc[p].snap IN
       Goto(p, [proc[p] EXCEPT !.pc = IF Journaled(t) THEN "dispose" ELSE "rollback",
                               !.ans = IF Live(t.claimer) THEN "hook" ELSE "gone"])
    /\ UNCHANGED <<shard, cells, owed, late, minted, idFaults, setup>>

(* Mutant: a settler presumes that the creation was journaled.              *)
ResolveForcedHookClaimPresumes(p) ==
    /\ At(p, "ask")
    /\ Goto(p, [proc[p] EXCEPT !.pc = "dispose",
                               !.ans = IF Live(proc[p].snap.claimer) THEN "hook" ELSE "gone"])
    /\ UNCHANGED <<shard, cells, owed, late, minted, idFaults, setup>>

(* resolveForcedHookClaim in the claimer's cell.                            *)
ResolveForcedHookClaim(p) ==
    /\ At(p, "ask")
    /\ LET t == proc[p].snap IN
       /\ fences' = IF Journaled(t) \/ run[t.claimer] = "expired" THEN fences
                    ELSE fences \cup {t.id}
       /\ Goto(p, [proc[p] EXCEPT !.pc = IF Journaled(t) THEN "dispose" ELSE "rollback",
                                  !.ans = IF Live(t.claimer) THEN "hook" ELSE "gone"])
    /\ UNCHANGED <<shard, run, hook, from, forced, ahead, owed, late, minted, idFaults, setup>>

Pending(p) == takeover # None /\ takeover.id = proc[p].snap.id

(* Mutant: the deadline of a retained victim is not scheduled again.        *)
RollBackUnarmed(p) ==
    /\ At(p, "rollback")
    /\ takeover' = IF Pending(p) THEN None ELSE takeover
    /\ Return(p, proc[p].then)
    /\ UNCHANGED <<record, claim, retained, cells, owed, late, minted, idFaults, setup>>

(* The victim keeps the token, and a retained victim its deadline.          *)
RollBack(p) ==
    /\ At(p, "rollback")
    /\ takeover' = IF Pending(p) THEN None ELSE takeover
    /\ retained' = IF Pending(p) /\ retained # None THEN [retained EXCEPT !.armed = TRUE]
                   ELSE retained
    /\ Return(p, proc[p].then)
    /\ UNCHANGED <<record, claim, cells, owed, late, minted, idFaults, setup>>

(* forceDisposeHook in the victim's cell.                                   *)
ForceDispose(p) ==
    /\ At(p, "dispose")
    /\ LET t == proc[p].snap
           v == t.victim
       IN  IF t.running /\ run[v] # "expired" /\ hook[v] = "live" /\ forced[v] = None
             THEN /\ hook' = [hook EXCEPT ![v] = "disposed"]
                  /\ forced' = [forced EXCEPT ![v] = t.claimer]
             ELSE UNCHANGED <<hook, forced>>
    /\ Goto(p, [proc[p] EXCEPT !.pc = "repoint"])
    /\ UNCHANGED <<shard, run, from, fences, ahead, owed, late, minted, idFaults, setup>>

(* rollForward: the record follows the claimer, if it still has its hook.   *)
Repoint(p) ==
    /\ At(p, "repoint")
    /\ IF Pending(p)
         THEN /\ takeover' = None /\ retained' = None
              /\ IF proc[p].ans = "hook"
                   THEN record' = proc[p].snap.claimer
                          /\ ConfirmNext(p, proc[p].snap.claimer, proc[p].then)
                   ELSE record' = None /\ Return(p, proc[p].then)
         ELSE UNCHANGED <<record, retained, takeover>> /\ Return(p, proc[p].then)
    /\ UNCHANGED <<claim, cells, owed, late, minted, idFaults, setup>>

(* confirmRepublished: a hook disposed since is withdrawn.                  *)
Confirm(p) ==
    /\ At(p, "confirm")
    /\ IF Live(proc[p].snap) THEN Return(p, proc[p].then)
       ELSE Goto(p, [proc[p] EXCEPT !.pc = "withdraw"])
    /\ UNCHANGED <<shard, cells, owed, late, minted, idFaults, setup>>

Withdraw(p) ==
    /\ At(p, "withdraw")
    /\ record' = IF record = proc[p].snap THEN None ELSE record
    /\ Return(p, proc[p].then)
    /\ UNCHANGED <<claim, retained, takeover, cells, owed, late, minted, idFaults, setup>>

-----------------------------------------------------------------------------
(* The shard's alarm and lookups *)

CompactClaim(p) ==
    /\ At(p, "idle")
    /\ ClaimExpired
    /\ Goto(p, [Idle EXCEPT !.pc = "resolve", !.snap = claim, !.then = "compactTxn"])
    /\ UNCHANGED <<shard, cells, owed, late, minted, idFaults, setup>>

CompactClaimResolved(p) ==
    /\ At(p, "compactTxn")
    /\ IF claim = proc[p].snap THEN PublishClaim(p, "idle")
       ELSE Return(p, "idle") /\ UNCHANGED <<shard, minted>>
    /\ Stays

(* compactRetained deletes the due deadline also where a takeover holds the *)
(* record.                                                                  *)
CompactRetained ==
    /\ retained # None /\ retained.armed /\ retained.owner \notin ahead
    /\ IF RetentionOver THEN record' = None /\ retained' = None
       ELSE retained' = [retained EXCEPT !.armed = FALSE] /\ UNCHANGED record
    /\ UNCHANGED <<claim, takeover, cells, owed, late, proc, minted, idFaults, setup>>

(* The alarm settles an abandoned intent; a delivery refused by the victim  *)
(* settles the intent of the hook it was taken over by.                     *)
SettleTakeover(p) ==
    /\ At(p, "idle")
    /\ takeover # None
    /\ takeover.expired \/ \E v \in Hooks : forced[v] = takeover.claimer
    /\ StartSettle(p, "idle")
    /\ UNCHANGED <<shard, cells, owed, late, minted, idFaults, setup>>

(* get: a claim without a record may belong to a committed hook.            *)
LookUp(p) ==
    /\ At(p, "idle")
    /\ record = None /\ claim # None /\ Live(claim.owner)
    /\ Goto(p, [Idle EXCEPT !.pc = "getTxn", !.snap = claim, !.ans = "hook"])
    /\ UNCHANGED <<shard, cells, owed, late, minted, idFaults, setup>>

PublishCommittedClaim(p) ==
    /\ At(p, "getTxn")
    /\ IF record = None /\ claim # None /\ claim.id = proc[p].snap.id
         THEN PublishClaim(p, "idle")
         ELSE Return(p, "idle") /\ UNCHANGED <<shard, minted>>
    /\ Stays

-----------------------------------------------------------------------------
(* Runs, time and losses *)

DisposeHook(h) ==
    /\ hook[h] = "live" /\ run[h] # "expired"
    /\ hook' = [hook EXCEPT ![h] = "disposed"]
    /\ owed' = owed \cup {h}
    /\ UNCHANGED <<shard, run, from, forced, fences, ahead, late, proc, minted, idFaults, setup>>

ReleaseDisposed(h) ==
    /\ h \in owed
    /\ owed' = owed \ {h}
    /\ ReleaseBatch(h, FALSE)
    /\ UNCHANGED <<cells, late, proc, minted, idFaults, setup>>

EndRun(h) ==
    /\ h \in Mortal /\ run[h] = "live"
    /\ run' = [run EXCEPT ![h] = "ended"]
    /\ UNCHANGED <<shard, hook, from, forced, fences, ahead, owed, late, proc, minted, idFaults, setup>>

ExpireRun(h) ==
    /\ h \in Mortal /\ run[h] # "expired"
    /\ run' = [run EXCEPT ![h] = "expired"]
    /\ UNCHANGED <<shard, hook, from, forced, fences, ahead, owed, late, proc, minted, idFaults, setup>>

(* Terminal cleanup and retention release every hook the run ever created,  *)
(* as often as their pages are repeated; a terminal page that is not        *)
(* repeated then deletes the row.                                           *)
ReleaseCleanup(h) ==
    /\ run[h] # "live" /\ hook[h] # "none"
    /\ ReleaseBatch(h, run[h] = "ended")
    /\ \/ UNCHANGED hook
       \/ run[h] = "ended" /\ hook[h] = "live" /\ hook' = [hook EXCEPT ![h] = "swept"]
    /\ UNCHANGED <<run, from, forced, fences, ahead, owed, late, proc, minted, idFaults, setup>>

Expire ==
    /\ \/ /\ claim # None /\ ~claim.expired
          /\ claim' = [claim EXCEPT !.expired = TRUE]
          /\ UNCHANGED <<takeover, ahead>>
       \/ /\ takeover # None /\ ~takeover.expired
          /\ takeover' = [takeover EXCEPT !.expired = TRUE]
          /\ UNCHANGED <<claim, ahead>>
       \/ /\ \E h \in ahead : ahead' = ahead \ {h}
          /\ UNCHANGED <<claim, takeover>>
    /\ UNCHANGED <<record, retained, run, hook, from, forced, fences, owed, late, proc, minted,
                   idFaults, setup>>

Lose(p) ==
    /\ ~At(p, "idle")
    /\ Goto(p, Idle)
    /\ UNCHANGED <<shard, cells, owed, late, minted, idFaults, setup>>

-----------------------------------------------------------------------------

Admission(p) ==
    \/ \E h \in Hooks : CreateHook(p, h)
    \/ Reserve(p) \/ ReserveExpired(p) \/ ReserveResolved(p) \/ ResolveExpiredHookClaim(p)
    \/ \E preempt \in BOOLEAN : ForceOverPending(p, preempt) \/ ForceOverClaim(p, preempt)
    \/ ForceOverRecord(p) \/ WriteIntent(p) \/ PreemptClaim(p)
    \/ HookIdReserveFails(p)

Creation(p) ==
    \/ ApplyAnswered(p) \/ ApplyLost(p) \/ ResolveAmbiguous(p) \/ SettleAmbiguous(p)
    \/ Release(p) \/ CompleteTakeover(p) \/ FinalizeAsk(p) \/ FinalizeStore(p)

Settling(p) ==
    \/ ResolveForcedHookClaim(p) \/ RollBack(p) \/ ForceDispose(p) \/ Repoint(p)
    \/ Confirm(p) \/ Withdraw(p)

Upkeep(p) ==
    \/ CompactClaim(p) \/ CompactClaimResolved(p) \/ SettleTakeover(p)
    \/ LookUp(p) \/ PublishCommittedClaim(p)

Next ==
    \/ \E p \in setup.procs : Admission(p) \/ Creation(p) \/ Settling(p) \/ Upkeep(p) \/ Lose(p)
    \/ \E c \in late : ApplyLate(c)
    \/ CompactRetained \/ Expire
    \/ \E h \in Hooks : \/ DisposeHook(h) \/ ReleaseDisposed(h) \/ EndRun(h) \/ ExpireRun(h)
                        \/ ReleaseCleanup(h)

Spec == Init /\ [][Next]_vars

-----------------------------------------------------------------------------
(* Properties *)

(* A token has one owner: two runs have a hook for it at the same time only *)
(* while one of them is taking it over from the other, whatever claims      *)
(* expire, clients are lost and calls arrive late; as long as no call to    *)
(* the hook-ID shard failed, see FindableUntilFault.                        *)
TokenExclusive ==
    idFaults = 0 => \A g, h \in Hooks : g # h /\ Live(g) /\ Live(h)
        => takeover # None /\ {takeover.claimer, takeover.victim} = {g, h}

(* A committed hook is never stranded: its token's record, its claim (which *)
(* the alarm or a lookup publishes) or the intent that created it still     *)
(* leads to it, although publication is a separate call that may be lost.   *)
LiveIsFindable ==
    \A h \in Hooks : Live(h)
        => \/ record = h
           \/ claim # None /\ claim.owner = h
           \/ takeover # None /\ takeover.claimer = h

(* The same as long as no call to the hook-ID shard failed: the client that *)
(* is refused there gives the token back, also when it replays a creation.  *)
FindableUntilFault == idFaults = 0 => LiveIsFindable

(* A victim is disposed only for a creation that committed against it.  (A   *)
(* replay that was refused at the hook-ID shard gives the token back; once   *)
(* another hook has it, the next replay takes it over and disposes that hook *)
(* although the creation committed against nobody.)                          *)
VictimYieldsToCommitted ==
    idFaults = 0 => \A v, g \in Hooks : forced[v] = g => hook[g] # "none" /\ from[g] = v

(* A retained record never loses its deadline for good: it is scheduled, or *)
(* the takeover that dropped it will schedule or clear it when it settles.  *)
RetainedIsTimed ==
    retained # None /\ record = retained.owner => retained.armed \/ takeover # None

(* Ownership changes hands as HookOwnership says: a creation commits only    *)
(* into a free token or as the claimer of the takeover under way, never     *)
(* twice, a takeover starts against the owner there is, and it is settled   *)
(* only when the claimer or the victim is gone, although the shard, the     *)
(* cells and the clients each learn of it at a time of their own.           *)
Ownership == INSTANCE HookOwnership WITH
    owners  <- {h \in Hooks : Live(h)},
    spent   <- {h \in Hooks : hook[h] # "none"},
    contest <- IF takeover = None THEN {}
               ELSE {[claimer |-> takeover.claimer, victim |-> takeover.victim]},
    faulty  <- idFaults # 0
ImplementsOwnership == Ownership!Spec

=============================================================================
