-------------------------- MODULE HookTokensProofs --------------------------
(***************************************************************************)
(* Proofs about HookTokens, for any hooks, situations, processes and        *)
(* numbers of claims and calls under way.                                   *)
(*                                                                         *)
(* A process keeps what it read while other processes move, so the proofs   *)
(* say which claim or intent it may still be about (Names), what of it      *)
(* stays true (Learned), and why a creation under way cannot commit         *)
(* unnoticed: it is void, or the shard still holds the token for it         *)
(* (Backed).  Cells take nothing back (CellsGrow), and the shard gives a    *)
(* claim or an intent up only once its creation is void (BackingStays).     *)
(***************************************************************************)
EXTENDS HookTokens, TLAPS

HookPc     == {"reserve", "force", "intent", "apply", "ambiguous", "release", "finalize", "store",
               "reserveTxn", "preemptTxn"}
AnsweredPc == {"reserveTxn", "preemptTxn", "compactTxn", "getTxn"}
ClaimPc    == AnsweredPc \cup {"resolve"}
TakeoverPc == {"ask", "rollback", "dispose", "repoint"}
OwnerPc    == {"confirm", "withdraw"}

(* What a process carries where it is.                                      *)
FrameFits(p) ==
    LET f == proc[p] IN
    /\ f.id <= minted
    /\ f.pc \in HookPc => f.hook \in Hooks
    /\ f.pc \in ClaimPc => f.snap \in HookClaim /\ f.snap.id <= minted
    /\ f.pc \in TakeoverPc => f.snap \in HookTakeover /\ f.snap.id <= minted
    /\ f.pc \in OwnerPc => f.snap \in Hooks
    /\ f.pc = "intent" => f.snap \in Described
    /\ f.pc = "resolve" => \/ f.then = "compactTxn"
                           \/ f.then \in {"reserveTxn", "preemptTxn"} /\ f.hook \in Hooks
    /\ f.pc \in TakeoverPc \cup OwnerPc \cup {"release"} =>
         \/ f.then = "idle"
         \/ f.then \in {"reserve", "force"} /\ f.hook \in Hooks

FramesFit == proc \in [Procs -> Frame] /\ \A p \in Procs : FrameFits(p)

(* Claim IDs are those minted so far.                                       *)
IdsFit ==
    /\ claim # None => claim.id <= minted
    /\ takeover # None => takeover.id <= minted
    /\ \A c \in late : c.id <= minted
    /\ \A i \in fences : i <= minted

ShardType ==
    /\ record \in Maybe(Hooks) /\ claim \in Maybe(HookClaim)
    /\ retained \in Maybe(Retained) /\ takeover \in Maybe(HookTakeover)

CellsType ==
    /\ run \in [Hooks -> {"live", "ended", "expired"}]
    /\ hook \in [Hooks -> {"none", "live", "disposed", "swept"}]
    /\ from \in [Hooks -> Maybe(Hooks)] /\ forced \in [Hooks -> Maybe(Hooks)]
    /\ fences \subseteq ClaimIds /\ ahead \subseteq Keeping

CallsType ==
    /\ owed \subseteq Hooks /\ late \subseteq Call
    /\ minted \in 0..MaxClaims /\ idFaults \in 0..MaxIdFaults

(* The inductive invariant behind TypeOK.                                   *)
TokenType ==
    /\ setup \in Setups
    /\ ShardType /\ CellsType /\ CallsType /\ IdsFit /\ FramesFit

-----------------------------------------------------------------------------
(* Frames *)

LEMMA Constants ==
    /\ Setups \subseteq Setup /\ None \notin Hooks
    /\ MaxClaims \in Nat /\ MaxLate \in Nat /\ MaxIdFaults \in Nat
BY HookTokensAssumption

LEMMA SetupFields ==
    ASSUME setup \in Setups
    PROVE  /\ Keeping \subseteq Hooks /\ setup.renewals \in Nat
           /\ setup.procs \subseteq Procs
BY Constants DEF Setup, Keeping

LEMMA Records ==
    ASSUME setup \in Setups
    PROVE  None \notin HookClaim /\ None \notin HookTakeover /\ None \notin Retained
<1>1. HookClaim \subseteq [owner : Hooks, id : ClaimIds, lease : Nat, expired : BOOLEAN]
  BY SetupFields DEF HookClaim
<1>2. Retained \subseteq [owner : Hooks, armed : BOOLEAN]
  BY SetupFields DEF Retained
<1> QED BY <1>1, <1>2, NoneAssumption

(* Everything a process may have read.                                      *)
Snap == Maybe(HookClaim \cup HookTakeover \cup Described \cup Hooks)
Ans  == {"none", "hook", "gone"}

LEMMA FrameFields ==
    ASSUME NEW g \in Frame
    PROVE  /\ g.pc \in Pc /\ g.hook \in Maybe(Hooks) /\ g.id \in 0..MaxClaims
           /\ g.vic \in Maybe(Hooks) /\ g.snap \in Snap /\ g.ans \in Ans /\ g.then \in Pc
BY DEF Frame, Snap, Ans

LEMMA IdleFrame ==
    /\ Idle \in Frame /\ Idle.pc = "idle" /\ Idle.hook = None /\ Idle.id = 0 /\ Idle.vic = None
    /\ Idle.snap = None /\ Idle.ans = "none" /\ Idle.then = "idle"
BY Constants DEF Idle, Frame, Maybe, Pc

(* A step of process p leaves the frames of the others alone.               *)
Moved(p) ==
    /\ proc' \in [Procs -> Frame]
    /\ \A q \in Procs : q # p => proc'[q] = proc[q]

SameCall(p) == proc'[p].hook = proc[p].hook /\ proc'[p].id = proc[p].id /\ proc'[p].vic = proc[p].vic

Quiet(p) == proc'[p].snap = None /\ proc'[p].ans = "none" /\ proc'[p].then = "idle"

LEMMA GoTo ==
    ASSUME FramesFit, NEW p \in Procs, NEW f \in Frame, Goto(p, f)
    PROVE  Moved(p) /\ proc'[p] = f
BY DEF FramesFit, Goto, Moved

LEMMA InSnap ==
    /\ None \in Snap /\ Hooks \subseteq Snap /\ Described \subseteq Snap
    /\ HookClaim \subseteq Snap /\ HookTakeover \subseteq Snap
BY DEF Snap, Maybe

LEMMA ReturnFlow ==
    ASSUME FramesFit, NEW p \in Procs, NEW pc \in {"idle", "reserve", "force"}, Return(p, pc)
    PROVE  /\ Moved(p) /\ proc'[p].pc = pc /\ Quiet(p)
           /\ pc = "idle" => proc'[p].hook = None /\ proc'[p].id = 0 /\ proc'[p].vic = None
           /\ pc # "idle" => SameCall(p)
<1>0. proc[p] \in Frame
  BY DEF FramesFit
<1>1. CASE pc = "idle"
  <2>1. Goto(p, Idle)
    BY <1>1 DEF Return
  <2>2. Moved(p) /\ proc'[p] = Idle
    BY <2>1, GoTo, IdleFrame
  <2> QED BY <1>1, <2>2, IdleFrame DEF Quiet
<1>2. CASE pc # "idle"
  <2>1. PICK f : f = [proc[p] EXCEPT !.pc = pc, !.snap = None, !.ans = "none", !.then = "idle"]
                 /\ Goto(p, f)
    BY <1>2 DEF Return
  <2>2. pc \in Pc /\ "idle" \in Pc /\ "none" \in Ans
    BY DEF Pc, Ans
  <2>3. /\ f \in Frame /\ f.pc = pc /\ f.hook = proc[p].hook /\ f.id = proc[p].id /\ f.vic = proc[p].vic
        /\ f.snap = None /\ f.ans = "none" /\ f.then = "idle"
    BY <1>0, <2>1, <2>2, InSnap DEF Frame, Snap, Ans
  <2>4. Moved(p) /\ proc'[p] = f
    BY <2>1, <2>3, GoTo
  <2> QED BY <1>2, <2>3, <2>4 DEF Quiet, SameCall
<1> QED BY <1>1, <1>2

LEMMA AdmitFlow ==
    ASSUME FramesFit, NEW p \in Procs, NEW i \in 0..MaxClaims, NEW v \in Maybe(Hooks), Admit(p, i, v)
    PROVE  /\ Moved(p) /\ proc'[p].pc = "apply" /\ Quiet(p)
           /\ proc'[p].hook = proc[p].hook /\ proc'[p].id = i /\ proc'[p].vic = v
<1>0. proc[p] \in Frame /\ "apply" \in Pc /\ "idle" \in Pc /\ "none" \in Ans
  BY DEF FramesFit, Pc, Ans
<1>1. PICK f : /\ f = [proc[p] EXCEPT !.pc = "apply", !.id = i, !.vic = v, !.snap = None,
                                      !.ans = "none", !.then = "idle"]
               /\ Goto(p, f)
  BY DEF Admit
<1>2. /\ f \in Frame /\ f.pc = "apply" /\ f.hook = proc[p].hook /\ f.id = i /\ f.vic = v
      /\ f.snap = None /\ f.ans = "none" /\ f.then = "idle"
  BY <1>0, <1>1, InSnap DEF Frame, Snap, Ans, Maybe
<1>3. Moved(p) /\ proc'[p] = f
  BY <1>1, <1>2, GoTo
<1> QED BY <1>2, <1>3 DEF Quiet

(* The steps that keep the call and say where to go, what was read, what    *)
(* was answered and where to return.                                        *)
To(p, pc, s, a, t) ==
    /\ Moved(p) /\ SameCall(p)
    /\ proc'[p].pc = pc /\ proc'[p].snap = s /\ proc'[p].ans = a /\ proc'[p].then = t

LEMMA AllFlow ==
    ASSUME FramesFit, NEW p \in Procs, NEW pc \in Pc, NEW s \in Snap, NEW a \in Ans, NEW t \in Pc,
           Goto(p, [proc[p] EXCEPT !.pc = pc, !.snap = s, !.ans = a, !.then = t])
    PROVE  To(p, pc, s, a, t)
<1>0. proc[p] \in Frame
  BY DEF FramesFit
<1>1. PICK f : f = [proc[p] EXCEPT !.pc = pc, !.snap = s, !.ans = a, !.then = t] /\ Goto(p, f)
  OBVIOUS
<1>2. /\ f \in Frame /\ f.pc = pc /\ f.hook = proc[p].hook /\ f.id = proc[p].id /\ f.vic = proc[p].vic
      /\ f.snap = s /\ f.ans = a /\ f.then = t
  BY <1>0, <1>1 DEF Frame, Snap, Ans
<1>3. Moved(p) /\ proc'[p] = f
  BY <1>1, <1>2, GoTo
<1> QED BY <1>2, <1>3 DEF To, SameCall

LEMMA PcFlow ==
    ASSUME FramesFit, NEW p \in Procs, NEW pc \in Pc, Goto(p, [proc[p] EXCEPT !.pc = pc])
    PROVE  To(p, pc, proc[p].snap, proc[p].ans, proc[p].then)
<1>0. proc[p] \in Frame
  BY DEF FramesFit
<1>1. PICK f : f = [proc[p] EXCEPT !.pc = pc] /\ Goto(p, f)
  OBVIOUS
<1>2. /\ f \in Frame /\ f.pc = pc /\ f.hook = proc[p].hook /\ f.id = proc[p].id /\ f.vic = proc[p].vic
      /\ f.snap = proc[p].snap /\ f.ans = proc[p].ans /\ f.then = proc[p].then
  BY <1>0, <1>1 DEF Frame, Snap, Ans
<1>3. Moved(p) /\ proc'[p] = f
  BY <1>1, <1>2, GoTo
<1> QED BY <1>2, <1>3 DEF To, SameCall

LEMMA ThenFlow ==
    ASSUME FramesFit, NEW p \in Procs, NEW pc \in Pc, NEW t \in Pc,
           Goto(p, [proc[p] EXCEPT !.pc = pc, !.then = t])
    PROVE  To(p, pc, proc[p].snap, proc[p].ans, t)
<1>0. proc[p] \in Frame
  BY DEF FramesFit
<1>1. PICK f : f = [proc[p] EXCEPT !.pc = pc, !.then = t] /\ Goto(p, f)
  OBVIOUS
<1>2. /\ f \in Frame /\ f.pc = pc /\ f.hook = proc[p].hook /\ f.id = proc[p].id /\ f.vic = proc[p].vic
      /\ f.snap = proc[p].snap /\ f.ans = proc[p].ans /\ f.then = t
  BY <1>0, <1>1 DEF Frame, Snap, Ans
<1>3. Moved(p) /\ proc'[p] = f
  BY <1>1, <1>2, GoTo
<1> QED BY <1>2, <1>3 DEF To, SameCall

LEMMA AnsFlow ==
    ASSUME FramesFit, NEW p \in Procs, NEW pc \in Pc, NEW a \in Ans,
           Goto(p, [proc[p] EXCEPT !.pc = pc, !.ans = a])
    PROVE  To(p, pc, proc[p].snap, a, proc[p].then)
<1>0. proc[p] \in Frame
  BY DEF FramesFit
<1>1. PICK f : f = [proc[p] EXCEPT !.pc = pc, !.ans = a] /\ Goto(p, f)
  OBVIOUS
<1>2. /\ f \in Frame /\ f.pc = pc /\ f.hook = proc[p].hook /\ f.id = proc[p].id /\ f.vic = proc[p].vic
      /\ f.snap = proc[p].snap /\ f.ans = a /\ f.then = proc[p].then
  BY <1>0, <1>1 DEF Frame, Snap, Ans
<1>3. Moved(p) /\ proc'[p] = f
  BY <1>1, <1>2, GoTo
<1> QED BY <1>2, <1>3 DEF To, SameCall

LEMMA SnapThenFlow ==
    ASSUME FramesFit, NEW p \in Procs, NEW pc \in Pc, NEW s \in Snap, NEW t \in Pc,
           Goto(p, [proc[p] EXCEPT !.pc = pc, !.snap = s, !.then = t])
    PROVE  To(p, pc, s, proc[p].ans, t)
<1>0. proc[p] \in Frame
  BY DEF FramesFit
<1>1. PICK f : f = [proc[p] EXCEPT !.pc = pc, !.snap = s, !.then = t] /\ Goto(p, f)
  OBVIOUS
<1>2. /\ f \in Frame /\ f.pc = pc /\ f.hook = proc[p].hook /\ f.id = proc[p].id /\ f.vic = proc[p].vic
      /\ f.snap = s /\ f.ans = proc[p].ans /\ f.then = t
  BY <1>0, <1>1 DEF Frame, Snap, Ans
<1>3. Moved(p) /\ proc'[p] = f
  BY <1>1, <1>2, GoTo
<1> QED BY <1>2, <1>3 DEF To, SameCall

LEMMA SnapFlow ==
    ASSUME FramesFit, NEW p \in Procs, NEW pc \in Pc, NEW s \in Snap,
           Goto(p, [proc[p] EXCEPT !.pc = pc, !.snap = s])
    PROVE  To(p, pc, s, proc[p].ans, proc[p].then)
<1>0. proc[p] \in Frame
  BY DEF FramesFit
<1>1. PICK f : f = [proc[p] EXCEPT !.pc = pc, !.snap = s] /\ Goto(p, f)
  OBVIOUS
<1>2. /\ f \in Frame /\ f.pc = pc /\ f.hook = proc[p].hook /\ f.id = proc[p].id /\ f.vic = proc[p].vic
      /\ f.snap = s /\ f.ans = proc[p].ans /\ f.then = proc[p].then
  BY <1>0, <1>1 DEF Frame, Snap, Ans
<1>3. Moved(p) /\ proc'[p] = f
  BY <1>1, <1>2, GoTo
<1> QED BY <1>2, <1>3 DEF To, SameCall

LEMMA CreateFlow ==
    ASSUME FramesFit, NEW p \in Procs, NEW h \in Hooks, CreateHook(p, h)
    PROVE  /\ Moved(p) /\ proc'[p].pc \in {"reserve", "force"} /\ Quiet(p)
           /\ proc'[p].hook = h /\ proc'[p].id = 0 /\ proc'[p].vic = None
<1>1. PICK pc \in {"reserve", "force"} : Goto(p, [Idle EXCEPT !.pc = pc, !.hook = h])
  BY DEF CreateHook
<1>2. PICK f : f = [Idle EXCEPT !.pc = pc, !.hook = h] /\ Goto(p, f)
  BY <1>1
<1>3. /\ f \in Frame /\ f.pc = pc /\ f.hook = h /\ f.id = 0 /\ f.vic = None
      /\ f.snap = None /\ f.ans = "none" /\ f.then = "idle"
  <2>1. pc \in Pc
    BY DEF Pc
  <2>2. f = [[Idle EXCEPT !.pc = pc] EXCEPT !.hook = h]
    BY <1>2
  <2>3. PICK e : e = [Idle EXCEPT !.pc = pc]
    OBVIOUS
  <2>4. /\ e \in Frame /\ e.pc = pc /\ e.hook = None /\ e.id = 0 /\ e.vic = None
        /\ e.snap = None /\ e.ans = "none" /\ e.then = "idle"
    BY <2>1, <2>3, IdleFrame DEF Frame
  <2> QED BY <2>2, <2>3, <2>4 DEF Frame, Maybe
<1>4. Moved(p) /\ proc'[p] = f
  BY <1>2, <1>3, GoTo
<1> QED BY <1>1, <1>3, <1>4 DEF Quiet

LEMMA CompactFlow ==
    ASSUME FramesFit, NEW p \in Procs, claim \in HookClaim, CompactClaim(p)
    PROVE  /\ Moved(p) /\ proc'[p].pc = "resolve" /\ proc'[p].snap = claim
           /\ proc'[p].then = "compactTxn"
           /\ proc'[p].hook = None /\ proc'[p].id = 0 /\ proc'[p].vic = None
<1>1. PICK f : f = [Idle EXCEPT !.pc = "resolve", !.snap = claim, !.then = "compactTxn"] /\ Goto(p, f)
  BY DEF CompactClaim
<1>2. /\ f \in Frame /\ f.pc = "resolve" /\ f.hook = None /\ f.id = 0 /\ f.vic = None
      /\ f.snap = claim /\ f.then = "compactTxn"
  <2>1. "resolve" \in Pc /\ "compactTxn" \in Pc /\ claim \in Snap
    BY InSnap DEF Pc
  <2> QED BY <1>1, <2>1, IdleFrame DEF Frame, Snap
<1>3. Moved(p) /\ proc'[p] = f
  BY <1>1, <1>2, GoTo
<1> QED BY <1>2, <1>3

LEMMA LookUpFlow ==
    ASSUME FramesFit, NEW p \in Procs, claim \in HookClaim, LookUp(p)
    PROVE  /\ Moved(p) /\ proc'[p].pc = "getTxn" /\ proc'[p].snap = claim /\ proc'[p].ans = "hook"
           /\ proc'[p].hook = None /\ proc'[p].id = 0 /\ proc'[p].vic = None
<1>1. PICK f : f = [Idle EXCEPT !.pc = "getTxn", !.snap = claim, !.ans = "hook"] /\ Goto(p, f)
  BY DEF LookUp
<1>2. /\ f \in Frame /\ f.pc = "getTxn" /\ f.hook = None /\ f.id = 0 /\ f.vic = None
      /\ f.snap = claim /\ f.ans = "hook"
  <2>1. "getTxn" \in Pc /\ "hook" \in Ans /\ claim \in Snap
    BY InSnap DEF Pc, Ans
  <2> QED BY <1>1, <2>1, IdleFrame DEF Frame, Snap, Ans
<1>3. Moved(p) /\ proc'[p] = f
  BY <1>1, <1>2, GoTo
<1> QED BY <1>2, <1>3

-----------------------------------------------------------------------------
(* Type correctness *)

LEMMA SameSets ==
    ASSUME setup' = setup
    PROVE  /\ HookClaim' = HookClaim /\ Retained' = Retained /\ Keeping' = Keeping
           /\ Frame' = Frame
BY DEF HookClaim, Retained, Keeping, Frame

LEMMA Stores ==
    ASSUME TokenType
    PROVE  /\ record # None => record \in Hooks
           /\ claim # None => /\ claim \in HookClaim /\ claim.owner \in Hooks /\ claim.id \in ClaimIds
                              /\ claim.expired \in BOOLEAN
           /\ takeover # None => /\ takeover \in HookTakeover /\ takeover.claimer \in Hooks
                                 /\ takeover.victim \in Hooks /\ takeover.id \in ClaimIds
                                 /\ takeover.running \in BOOLEAN
           /\ retained # None => retained \in Retained /\ retained.owner \in Hooks
<1>1. Keeping \subseteq Hooks
  BY SetupFields DEF TokenType
<1> QED BY <1>1 DEF TokenType, ShardType, Maybe, HookClaim, HookTakeover, Retained

(* The other frames fit as before.                                          *)
LEMMA StepFits ==
    ASSUME TokenType, NEW p \in Procs, Moved(p), setup' = setup, minted' \in Nat, minted <= minted',
           FrameFits(p)'
    PROVE  FramesFit'
<1>1. proc' \in [Procs -> Frame']
  BY SameSets DEF Moved
<1>2. ASSUME NEW q \in Procs, q # p PROVE FrameFits(q)'
  <2>1. proc'[q] = proc[q] /\ FrameFits(q) /\ proc[q] \in Frame
    BY <1>2 DEF Moved, TokenType, FramesFit
  <2>2. proc[q].id <= minted'
    <3>1. proc[q].id \in Nat /\ minted \in Nat
      BY <2>1, Constants DEF Frame, TokenType, CallsType
    <3> QED BY <2>1, <3>1 DEF FrameFits
  <2>3. proc[q].pc \in ClaimPc => proc[q].snap.id <= minted'
    <3>1. proc[q].pc \in ClaimPc => proc[q].snap.id \in Nat /\ proc[q].snap.id <= minted
      BY <2>1, Constants DEF FrameFits, HookClaim, ClaimIds
    <3>2. minted \in Nat
      BY Constants DEF TokenType, CallsType
    <3> QED BY <3>1, <3>2
  <2>4. proc[q].pc \in TakeoverPc => proc[q].snap.id <= minted'
    <3>1. proc[q].pc \in TakeoverPc => proc[q].snap.id \in Nat /\ proc[q].snap.id <= minted
      BY <2>1, Constants DEF FrameFits, HookTakeover, ClaimIds
    <3>2. minted \in Nat
      BY Constants DEF TokenType, CallsType
    <3> QED BY <3>1, <3>2
  <2> QED BY <2>1, <2>2, <2>3, <2>4, SameSets DEF FrameFits
<1> QED BY <1>1, <1>2 DEF FramesFit

LEMMA SameFits ==
    ASSUME TokenType, proc' = proc, setup' = setup, minted' = minted
    PROVE  FramesFit'
BY SameSets DEF TokenType, FramesFit, FrameFits

Later == setup' = setup /\ minted' \in Nat /\ minted <= minted'

LEMMA ReturnFits ==
    ASSUME TokenType, Later, NEW p \in Procs, NEW pc \in {"idle", "reserve", "force"}, Return(p, pc),
           pc = "idle" \/ proc[p].hook \in Hooks
    PROVE  FramesFit'
<1>1. /\ Moved(p) /\ proc'[p].pc = pc /\ Quiet(p)
      /\ pc = "idle" => proc'[p].hook = None /\ proc'[p].id = 0 /\ proc'[p].vic = None
      /\ pc # "idle" => SameCall(p)
  BY ReturnFlow DEF TokenType
<1>2. proc[p].id \in Nat /\ proc[p].id <= minted /\ minted \in Nat
  BY Constants DEF TokenType, FramesFit, FrameFits, Frame, CallsType
<1>3. FrameFits(p)'
  BY <1>1, <1>2 DEF Later, FrameFits, SameCall, HookPc, AnsweredPc, ClaimPc, TakeoverPc, OwnerPc
<1> QED BY <1>1, <1>3, StepFits DEF Later

LEMMA AdmitFits ==
    ASSUME TokenType, Later, NEW p \in Procs, NEW i \in 0..MaxClaims, NEW v \in Maybe(Hooks),
           Admit(p, i, v), proc[p].hook \in Hooks, i <= minted'
    PROVE  FramesFit'
<1>1. /\ Moved(p) /\ proc'[p].pc = "apply"
      /\ proc'[p].hook = proc[p].hook /\ proc'[p].id = i /\ proc'[p].vic = v
  BY AdmitFlow DEF TokenType
<1>2. FrameFits(p)'
  BY <1>1 DEF Later, FrameFits, HookPc, AnsweredPc, ClaimPc, TakeoverPc, OwnerPc
<1> QED BY <1>1, <1>2, StepFits DEF Later

LEMMA SettleFlow ==
    ASSUME TokenType, NEW p \in Procs, NEW t \in {"idle", "reserve", "force"}, takeover # None,
           StartSettle(p, t)
    PROVE  To(p, "ask", takeover, "none", t)
<1>1. "ask" \in Pc /\ t \in Pc /\ takeover \in Snap /\ "none" \in Ans
  BY Stores, InSnap DEF Pc, Ans
<1> QED BY <1>1, AllFlow DEF StartSettle, TokenType

LEMMA KeptId ==
    ASSUME TokenType, Later, NEW p \in Procs
    PROVE  proc[p].id \in 0..MaxClaims /\ proc[p].id <= minted /\ proc[p].id <= minted' /\ minted \in Nat
<1>1. proc[p].id \in 0..MaxClaims /\ proc[p].id <= minted /\ minted \in Nat
  BY Constants DEF TokenType, FramesFit, FrameFits, Frame, CallsType
<1> QED BY <1>1, Constants DEF Later

LEMMA SettleFits ==
    ASSUME TokenType, Later, NEW p \in Procs, NEW t \in {"idle", "reserve", "force"}, takeover # None,
           StartSettle(p, t), t = "idle" \/ proc[p].hook \in Hooks
    PROVE  FramesFit'
<1>1. To(p, "ask", takeover, "none", t)
  BY SettleFlow
<1>2. takeover \in HookTakeover /\ takeover.id \in ClaimIds /\ takeover.id <= minted
  BY Stores DEF TokenType, IdsFit
<1>3. takeover.id <= minted'
  BY <1>2, KeptId, Constants DEF ClaimIds, Later
<1>4. FrameFits(p)'
  BY <1>1, <1>2, <1>3, KeptId
  DEF To, SameCall, Later, FrameFits, HookPc, AnsweredPc, ClaimPc, TakeoverPc, OwnerPc
<1> QED BY <1>1, <1>4, StepFits DEF Later, To

LEMMA ConfirmFlow ==
    ASSUME TokenType, NEW p \in Procs, NEW h \in Hooks, NEW t \in {"idle", "reserve", "force"},
           ConfirmNext(p, h, t)
    PROVE  To(p, "confirm", h, "none", t)
<1>1. "confirm" \in Pc /\ t \in Pc /\ h \in Snap /\ "none" \in Ans
  BY InSnap DEF Pc, Ans
<1> QED BY <1>1, AllFlow DEF ConfirmNext, TokenType

LEMMA ConfirmFits ==
    ASSUME TokenType, Later, NEW p \in Procs, NEW h \in Hooks, NEW t \in {"idle", "reserve", "force"},
           ConfirmNext(p, h, t), t = "idle" \/ proc[p].hook \in Hooks
    PROVE  FramesFit'
<1>1. To(p, "confirm", h, "none", t)
  BY ConfirmFlow
<1>2. FrameFits(p)'
  BY <1>1, KeptId
  DEF To, SameCall, Later, FrameFits, HookPc, AnsweredPc, ClaimPc, TakeoverPc, OwnerPc
<1> QED BY <1>1, <1>2, StepFits DEF Later, To

(* PublishClaim leaves the process where it publishes for, or confirming.   *)
LEMMA PublishFits ==
    ASSUME TokenType, Later, NEW p \in Procs, NEW t \in {"idle", "reserve", "force"}, claim # None,
           PublishClaim(p, t), t = "idle" \/ proc[p].hook \in Hooks
    PROVE  FramesFit' /\ ShardType' /\ claim' = None /\ takeover' = takeover /\ minted' = minted
<1>1. claim.owner \in Hooks
  BY Stores
<1>2. FramesFit'
  <2>1. CASE proc[p].ans = "hook"
    BY <1>1, <2>1, ConfirmFits DEF PublishClaim
  <2>2. CASE proc[p].ans # "hook"
    BY <2>2, ReturnFits DEF PublishClaim
  <2> QED BY <2>1, <2>2
<1>3. ShardType'
  BY <1>1, SameSets DEF PublishClaim, ShardType, TokenType, Maybe, Later
<1> QED BY <1>2, <1>3 DEF PublishClaim

(* A step that moves a process and nothing else but the faults.             *)
LEMMA WalkType ==
    ASSUME TokenType, UNCHANGED <<shard, cells, owed, late, minted, setup>>,
           idFaults' \in 0..MaxIdFaults, FramesFit'
    PROVE  TokenType'
<1>1. setup' = setup /\ UNCHANGED <<record, claim, retained, takeover>>
  BY DEF shard
<1>2. UNCHANGED <<run, hook, from, forced, fences, ahead>>
  BY DEF cells
<1>3. ShardType' /\ CellsType' /\ CallsType'
  BY <1>1, <1>2, SameSets DEF TokenType, ShardType, CellsType, CallsType
<1>4. IdsFit'
  BY <1>1, <1>2 DEF TokenType, IdsFit
<1> QED BY <1>1, <1>3, <1>4 DEF TokenType

LEMMA FenceType ==
    ASSUME TokenType,
           UNCHANGED <<shard, run, hook, from, forced, ahead, owed, late, minted, idFaults, setup>>,
           NEW i \in ClaimIds \cup {0}, i <= minted, fences' \subseteq fences \cup ({i} \ {0}), FramesFit'
    PROVE  TokenType'
<1>1. setup' = setup /\ UNCHANGED <<record, claim, retained, takeover>>
  BY DEF shard
<1>2. ShardType' /\ CellsType' /\ CallsType'
  BY <1>1, SameSets DEF TokenType, ShardType, CellsType, CallsType
<1>3. IdsFit'
  BY <1>1 DEF TokenType, IdsFit
<1> QED BY <1>1, <1>2, <1>3 DEF TokenType

LEMMA ShardStepType ==
    ASSUME TokenType, UNCHANGED <<cells, owed, late, idFaults, setup>>,
           minted' \in 0..MaxClaims, minted <= minted', ShardType', FramesFit',
           claim' # None => claim'.id <= minted', takeover' # None => takeover'.id <= minted'
    PROVE  TokenType'
<1>1. UNCHANGED <<run, hook, from, forced, fences, ahead>>
  BY DEF cells
<1>2. CellsType' /\ CallsType'
  BY <1>1, SameSets DEF TokenType, CellsType, CallsType
<1>3. minted \in Nat /\ minted' \in Nat
  BY Constants DEF TokenType, CallsType
<1>4. \A c \in late' : c.id <= minted'
  <2> TAKE c \in late'
  <2>1. c \in Call /\ c.id <= minted
    BY DEF TokenType, IdsFit, CallsType
  <2>2. c.id \in Nat
    BY <2>1, Constants DEF Call
  <2> QED BY <1>3, <2>1, <2>2
<1>5. \A i \in fences' : i <= minted'
  <2> TAKE i \in fences'
  <2>1. i \in Nat /\ i <= minted
    BY <1>1, Constants DEF TokenType, IdsFit, CellsType, ClaimIds
  <2> QED BY <1>3, <2>1
<1> QED BY <1>2, <1>4, <1>5 DEF TokenType, IdsFit

(* The parts of the type at a process that takes a step.                    *)
LEMMA At1 ==
    ASSUME TokenType, NEW p \in Procs
    PROVE  /\ proc[p] \in Frame /\ FrameFits(p) /\ FramesFit
           /\ proc[p].pc \in HookPc => proc[p].hook \in Hooks
           /\ minted \in Nat /\ minted \in 0..MaxClaims
           /\ claim # None => claim.id <= minted
           /\ takeover # None => takeover.id <= minted
<1>1. proc[p].pc \in HookPc => proc[p].hook \in Hooks
  BY DEF TokenType, FramesFit, FrameFits
<1> QED BY <1>1, Constants DEF TokenType, FramesFit, CallsType, IdsFit

LEMMA SameMinted ==
    ASSUME TokenType, setup' = setup, minted' = minted
    PROVE  Later /\ minted' \in 0..MaxClaims /\ minted <= minted'
BY Constants DEF Later, TokenType, CallsType

-----------------------------------------------------------------------------
(* Admission *)

LEMMA CreateHookType ==
    ASSUME TokenType, NEW p \in Procs, NEW h \in Hooks, CreateHook(p, h)
    PROVE  TokenType'
<1>1. UNCHANGED <<shard, cells, owed, late, minted, idFaults, setup>>
  BY DEF CreateHook
<1>2. Later
  BY <1>1, SameMinted
<1>3. /\ Moved(p) /\ proc'[p].pc \in {"reserve", "force"}
      /\ proc'[p].hook = h /\ proc'[p].id = 0 /\ proc'[p].vic = None
  BY CreateFlow DEF TokenType
<1>4. FrameFits(p)'
  BY <1>2, <1>3 DEF Later, FrameFits, HookPc, AnsweredPc, ClaimPc, TakeoverPc, OwnerPc
<1>5. FramesFit'
  BY <1>2, <1>3, <1>4, StepFits DEF Later
<1> QED BY <1>1, <1>5, WalkType DEF TokenType, CallsType

LEMMA ConflictFits ==
    ASSUME TokenType, Later, NEW p \in Procs, proc[p].hook \in Hooks, Conflict(p)
    PROVE  FramesFit'
<1>1. PICK pc \in {"idle", "force"} : Return(p, pc)
  BY DEF Conflict
<1> QED BY <1>1, ReturnFits

LEMMA NewClaim ==
    ASSUME setup \in Setups, NEW h \in Hooks, NEW i \in ClaimIds
    PROVE  [owner |-> h, id |-> i, lease |-> 0, expired |-> FALSE] \in HookClaim
BY SetupFields DEF HookClaim

LEMMA PutClaimType ==
    ASSUME TokenType, NEW p \in Procs, proc[p].hook \in Hooks, setup' = setup,
           PutClaim(p, proc[p].hook)
    PROVE  /\ Later /\ minted' \in 0..MaxClaims /\ minted' = minted + 1 /\ FramesFit'
           /\ claim' \in HookClaim /\ claim' # None /\ claim'.id = minted + 1
           /\ claim'.owner = proc[p].hook
<1>1. minted \in Nat /\ minted < MaxClaims /\ minted' = minted + 1
  BY Constants DEF PutClaim, TokenType, CallsType
<1>2. minted + 1 \in ClaimIds /\ minted' \in 0..MaxClaims /\ Later
  BY <1>1, Constants DEF ClaimIds, Later
<1>3. /\ claim' \in HookClaim
      /\ claim' = [owner |-> proc[p].hook, id |-> minted + 1, lease |-> 0, expired |-> FALSE]
  BY <1>2, NewClaim DEF PutClaim, TokenType
<1>4. claim' # None
  BY <1>3, Records DEF TokenType
<1>5. FramesFit'
  <2>1. Admit(p, minted + 1, None) /\ None \in Maybe(Hooks) /\ minted + 1 \in 0..MaxClaims
        /\ minted + 1 <= minted'
    BY <1>1, <1>2, Constants DEF PutClaim, Maybe, ClaimIds
  <2> QED BY <1>2, <2>1, AdmitFits
<1> QED BY <1>1, <1>2, <1>3, <1>4, <1>5

LEMMA RenewedClaim ==
    ASSUME TokenType, claim # None, claim.lease < setup.renewals,
           claim' = [claim EXCEPT !.lease = @ + 1, !.expired = FALSE]
    PROVE  /\ claim' \in HookClaim /\ claim' # None /\ claim'.id = claim.id /\ claim'.owner = claim.owner
           /\ claim'.expired = FALSE
<1>1. claim \in HookClaim /\ setup.renewals \in Nat
  BY Stores, SetupFields DEF TokenType
<1>2. claim.lease \in 0..setup.renewals
  BY <1>1 DEF HookClaim
<1>3. claim.lease + 1 \in 0..setup.renewals
  BY <1>1, <1>2
<1>4. claim' \in HookClaim /\ claim'.id = claim.id /\ claim'.owner = claim.owner /\ claim'.expired = FALSE
  BY <1>1, <1>3 DEF HookClaim
<1> QED BY <1>4, Records DEF TokenType

(* The claim stands, perhaps renewed, and p was told of it.                 *)
SameClaim ==
    /\ claim # None /\ claim' # None /\ claim' \in HookClaim
    /\ claim'.id = claim.id /\ claim'.owner = claim.owner
    /\ minted' = minted

Told(p) ==
    \/ claim.owner = proc[p].hook /\ Admit(p, claim.id, None)
    \/ Conflict(p)
    \/ Return(p, "reserve")

LEMMA ReserveClaimCases ==
    ASSUME TokenType, NEW p \in Procs, NEW old, NEW committed \in BOOLEAN,
           ReserveClaim(p, proc[p].hook, old, committed)
    PROVE  \/ /\ PutClaim(p, proc[p].hook)
              /\ claim = None \/ (claim # None /\ claim = old /\ ~committed)
           \/ SameClaim /\ Told(p)
<1>1. claim # None => claim \in HookClaim
  BY Stores
<1>2. CASE claim = None \/ (claim # None /\ claim.expired /\ claim = old /\ ~committed)
  BY <1>2 DEF ReserveClaim
<1>3. CASE claim # None /\ ~claim.expired
  BY <1>1, <1>3 DEF ReserveClaim, SameClaim, Told
<1>4. CASE claim # None /\ claim.expired /\ claim # old
  BY <1>1, <1>4 DEF ReserveClaim, SameClaim, Told
<1>5. CASE claim # None /\ claim.expired /\ claim = old /\ committed
  <2>1. /\ claim.lease < setup.renewals
        /\ claim' = [claim EXCEPT !.lease = @ + 1, !.expired = FALSE]
        /\ IF claim.owner = proc[p].hook THEN Admit(p, claim.id, None) ELSE Conflict(p)
        /\ minted' = minted
    BY <1>5 DEF ReserveClaim
  <2> QED BY <1>5, <2>1, RenewedClaim DEF SameClaim, Told
<1>6. claim # None => claim.expired \in BOOLEAN
  BY Stores
<1> QED BY <1>2, <1>3, <1>4, <1>5, <1>6

LEMMA ToldFits ==
    ASSUME TokenType, Later, NEW p \in Procs, proc[p].hook \in Hooks, claim # None, Told(p)
    PROVE  FramesFit'
<1>1. CASE Admit(p, claim.id, None)
  <2>1. claim.id \in 0..MaxClaims /\ claim.id <= minted'
    BY Stores, At1, Constants DEF ClaimIds, Later
  <2> QED BY <1>1, <2>1, AdmitFits DEF Maybe
<1>2. CASE Conflict(p)
  BY <1>2, ConflictFits
<1>3. CASE Return(p, "reserve")
  BY <1>3, ReturnFits
<1> QED BY <1>1, <1>2, <1>3 DEF Told

LEMMA ReserveTxnType ==
    ASSUME TokenType, NEW p \in Procs, proc[p].hook \in Hooks, NEW old, NEW committed \in BOOLEAN,
           ReserveTxn(p, proc[p].hook, old, committed), Stays
    PROVE  TokenType'
<1>0. UNCHANGED <<cells, owed, late, idFaults, setup>> /\ setup' = setup
  BY DEF Stays
<1>1. CASE /\ record # None /\ ~RetentionOver
           /\ IF record = proc[p].hook THEN Admit(p, 0, None) ELSE Conflict(p)
           /\ UNCHANGED <<shard, minted>>
  <2>1. Later
    BY <1>0, <1>1, SameMinted
  <2>2. FramesFit'
    <3>1. 0 \in 0..MaxClaims /\ 0 <= minted' /\ None \in Maybe(Hooks)
      BY <2>1, Constants DEF Later, Maybe
    <3> QED BY <1>1, <2>1, <3>1, AdmitFits, ConflictFits
  <2> QED BY <1>0, <1>1, <2>2, WalkType DEF TokenType, CallsType
<1>2. CASE /\ record = None /\ takeover # None
           /\ IF takeover.claimer # proc[p].hook /\ ~takeover.expired THEN Conflict(p)
              ELSE StartSettle(p, "reserve")
           /\ UNCHANGED <<shard, minted>>
  <2>1. Later
    BY <1>0, <1>2, SameMinted
  <2>2. FramesFit'
    BY <1>2, <2>1, SettleFits, ConflictFits
  <2> QED BY <1>0, <1>2, <2>2, WalkType DEF TokenType, CallsType
<1>3. CASE /\ RetentionOver \/ (record = None /\ takeover = None)
           /\ record' = None
           /\ retained' = IF RetentionOver THEN None ELSE retained
           /\ ReserveClaim(p, proc[p].hook, old, committed)
           /\ UNCHANGED takeover
  <2>1. record' \in Maybe(Hooks) /\ retained' \in Maybe(Retained)' /\ takeover' \in Maybe(HookTakeover)
    BY <1>0, <1>3, SameSets DEF Maybe, TokenType, ShardType
  <2>2. CASE PutClaim(p, proc[p].hook)
    <3>1. /\ Later /\ minted' \in 0..MaxClaims /\ minted' = minted + 1 /\ FramesFit'
          /\ claim' \in HookClaim /\ claim' # None /\ claim'.id = minted + 1
      BY <1>0, <2>2, PutClaimType
    <3>2. ShardType'
      BY <1>0, <2>1, <3>1, SameSets DEF ShardType, Maybe
    <3>3. minted \in Nat /\ (takeover # None => takeover.id \in Nat /\ takeover.id <= minted)
      BY At1, Stores, Constants DEF ClaimIds
    <3>4. minted <= minted' /\ claim'.id <= minted' /\ (takeover' # None => takeover'.id <= minted')
      BY <1>3, <3>1, <3>3
    <3> QED BY <1>0, <3>1, <3>2, <3>4, ShardStepType
  <2>3. CASE SameClaim /\ Told(p)
    <3>1. Later /\ minted' \in 0..MaxClaims /\ minted <= minted' /\ minted' = minted
      BY <1>0, <2>3, SameMinted DEF SameClaim
    <3>2. FramesFit'
      BY <2>3, <3>1, ToldFits DEF SameClaim
    <3>3. ShardType'
      BY <1>0, <2>1, <2>3, SameSets DEF ShardType, Maybe, SameClaim
    <3>4. claim'.id <= minted' /\ (takeover' # None => takeover'.id <= minted')
      BY <1>3, <2>3, <3>1, At1 DEF SameClaim
    <3> QED BY <1>0, <3>1, <3>2, <3>3, <3>4, ShardStepType
  <2> QED BY <1>3, <2>2, <2>3, ReserveClaimCases
<1> QED BY <1>1, <1>2, <1>3 DEF ReserveTxn

LEMMA ReserveType ==
    ASSUME TokenType, NEW p \in Procs, Reserve(p) \/ ReserveResolved(p)
    PROVE  TokenType'
<1>1. proc[p].hook \in Hooks
  BY At1 DEF Reserve, ReserveResolved, At, HookPc
<1>2. CASE Reserve(p)
  BY <1>1, <1>2, ReserveTxnType DEF Reserve
<1>3. CASE ReserveResolved(p)
  <2>1. (proc[p].ans = "hook") \in BOOLEAN
    OBVIOUS
  <2> QED BY <1>1, <1>3, <2>1, ReserveTxnType DEF ReserveResolved
<1> QED BY <1>2, <1>3

(* The steps that go and ask the owner of the claim.                        *)
LEMMA ResolvingType ==
    ASSUME TokenType, NEW p \in Procs,
           ReserveExpired(p) \/ (\E preempt \in BOOLEAN : ForceOverClaim(p, preempt)) \/ CompactClaim(p)
    PROVE  TokenType'
<1>1. UNCHANGED <<shard, cells, owed, late, minted, idFaults, setup>>
  BY DEF ReserveExpired, ForceOverClaim, CompactClaim
<1>2. Later
  BY <1>1, SameMinted
<1>3. ASSUME NEW t \in {"reserveTxn", "preemptTxn"}, claim # None, proc[p].hook \in Hooks,
             Goto(p, [proc[p] EXCEPT !.pc = "resolve", !.snap = claim, !.then = t])
      PROVE  FramesFit'
  <2>1. "resolve" \in Pc /\ t \in Pc /\ claim \in Snap /\ claim \in HookClaim /\ claim.id <= minted
    BY <1>3, Stores, InSnap, At1 DEF Pc
  <2>2. To(p, "resolve", claim, proc[p].ans, t)
    BY <1>3, <2>1, SnapThenFlow DEF TokenType
  <2>3. FrameFits(p)'
    BY <1>1, <1>2, <1>3, <2>1, <2>2, KeptId, SameSets
    DEF To, SameCall, FrameFits, HookPc, AnsweredPc, ClaimPc, TakeoverPc, OwnerPc
  <2> QED BY <1>2, <2>2, <2>3, StepFits DEF Later, To
<1>4. CASE ReserveExpired(p)
  <2>1. proc[p].hook \in Hooks /\ claim # None
    BY <1>4, At1 DEF ReserveExpired, At, HookPc, ClaimExpired
  <2> QED BY <1>1, <1>3, <1>4, <2>1, WalkType DEF ReserveExpired, TokenType, CallsType
<1>5. CASE \E preempt \in BOOLEAN : ForceOverClaim(p, preempt)
  <2>1. proc[p].hook \in Hooks
    BY <1>5, At1 DEF ForceOverClaim, At, HookPc
  <2>2. FramesFit'
    <3>1. CASE Return(p, "reserve")
      BY <1>2, <2>1, <3>1, ReturnFits
    <3>2. CASE /\ claim # None
               /\ Goto(p, [proc[p] EXCEPT !.pc = "resolve", !.snap = claim, !.then = "preemptTxn"])
      BY <1>3, <2>1, <3>2
    <3> QED BY <1>5, <3>1, <3>2 DEF ForceOverClaim
  <2> QED BY <1>1, <2>2, WalkType DEF TokenType, CallsType
<1>6. CASE CompactClaim(p)
  <2>1. claim \in HookClaim /\ claim.id <= minted
    BY <1>6, Stores, At1 DEF CompactClaim, ClaimExpired
  <2>2. /\ Moved(p) /\ proc'[p].pc = "resolve" /\ proc'[p].snap = claim
        /\ proc'[p].then = "compactTxn"
        /\ proc'[p].hook = None /\ proc'[p].id = 0 /\ proc'[p].vic = None
    BY <1>6, <2>1, CompactFlow DEF TokenType
  <2>3. FrameFits(p)'
    BY <1>1, <1>2, <2>1, <2>2, SameSets
    DEF Later, FrameFits, HookPc, AnsweredPc, ClaimPc, TakeoverPc, OwnerPc
  <2>4. FramesFit'
    BY <1>2, <2>2, <2>3, StepFits DEF Later
  <2> QED BY <1>1, <2>4, WalkType DEF TokenType, CallsType
<1> QED BY <1>4, <1>5, <1>6

LEMMA ResolveFlow ==
    ASSUME TokenType, NEW p \in Procs, ResolveExpiredHookClaim(p)
    PROVE  /\ proc[p].snap \in HookClaim /\ proc[p].snap.id \in ClaimIds /\ proc[p].snap.id <= minted
           /\ proc[p].snap.owner \in Hooks
           /\ proc[p].then \in {"reserveTxn", "preemptTxn", "compactTxn"}
           /\ To(p, proc[p].then, proc[p].snap, IF Live(proc[p].snap.owner) THEN "hook" ELSE "none",
                 proc[p].then)
<1>1. /\ proc[p].snap \in HookClaim /\ proc[p].snap.id <= minted
      /\ proc[p].then \in {"reserveTxn", "preemptTxn", "compactTxn"}
  BY At1 DEF ResolveExpiredHookClaim, At, FrameFits, ClaimPc
<1>2. proc[p].snap.id \in ClaimIds /\ proc[p].snap.owner \in Hooks
  BY <1>1 DEF HookClaim
<1>3. PICK a \in {"hook", "none"} : a = IF Live(proc[p].snap.owner) THEN "hook" ELSE "none"
  OBVIOUS
<1>4. Goto(p, [proc[p] EXCEPT !.pc = proc[p].then, !.ans = a])
  BY <1>3 DEF ResolveExpiredHookClaim
<1>5. proc[p].then \in Pc /\ a \in Ans
  BY <1>1 DEF Pc, Ans
<1>6. To(p, proc[p].then, proc[p].snap, a, proc[p].then)
  BY <1>4, <1>5, AnsFlow DEF TokenType
<1> QED BY <1>1, <1>2, <1>3, <1>6

LEMMA ResolveType ==
    ASSUME TokenType, NEW p \in Procs, ResolveExpiredHookClaim(p)
    PROVE  TokenType'
<1>1. UNCHANGED <<shard, run, hook, from, forced, ahead, owed, late, minted, idFaults, setup>>
  BY DEF ResolveExpiredHookClaim
<1>2. Later
  BY <1>1, SameMinted
<1>3. PICK i : i = proc[p].snap.id /\ i \in ClaimIds /\ i <= minted
  BY ResolveFlow
<1>4. PICK t, a :
           /\ t \in {"reserveTxn", "preemptTxn", "compactTxn"} /\ t = proc[p].then
           /\ To(p, t, proc[p].snap, a, t)
  BY ResolveFlow
<1>5. t = "compactTxn" \/ proc[p].hook \in Hooks
  BY <1>4, At1 DEF ResolveExpiredHookClaim, At, FrameFits
<1>6. FrameFits(p)'
  BY <1>1, <1>2, <1>4, <1>5, ResolveFlow, KeptId, SameSets
  DEF To, SameCall, FrameFits, HookPc, AnsweredPc, ClaimPc, TakeoverPc, OwnerPc
<1>7. FramesFit'
  BY <1>2, <1>4, <1>6, StepFits DEF Later, To
<1>8. fences' \subseteq fences \cup {i} /\ i # 0
  <2>1. fences' \subseteq fences \cup {i}
    BY <1>3 DEF ResolveExpiredHookClaim
  <2> QED BY <1>3, <2>1, Constants DEF ClaimIds
<1>9. fences' \subseteq fences \cup ({i} \ {0})
  BY <1>8
<1> QED BY <1>1, <1>3, <1>7, <1>9, FenceType

LEMMA ForceOverPendingType ==
    ASSUME TokenType, NEW p \in Procs, NEW preempt \in BOOLEAN, ForceOverPending(p, preempt)
    PROVE  TokenType'
<1>1. UNCHANGED <<shard, cells, owed, late, minted, idFaults, setup>> /\ takeover # None
  BY DEF ForceOverPending
<1>2. Later
  BY <1>1, SameMinted
<1>3. proc[p].hook \in Hooks
  BY At1 DEF ForceOverPending, At, HookPc
<1>4. CASE Admit(p, takeover.id, takeover.victim)
  <2>1. takeover.id \in 0..MaxClaims /\ takeover.victim \in Maybe(Hooks) /\ takeover.id <= minted'
    BY <1>1, Stores, At1, Constants DEF ClaimIds, Maybe
  <2>2. FramesFit'
    BY <1>2, <1>3, <1>4, <2>1, AdmitFits
  <2> QED BY <1>1, <2>2, WalkType DEF TokenType, CallsType
<1>5. CASE StartSettle(p, "force")
  <2>1. FramesFit'
    BY <1>1, <1>2, <1>3, <1>5, SettleFits
  <2> QED BY <1>1, <2>1, WalkType DEF TokenType, CallsType
<1> QED BY <1>4, <1>5 DEF ForceOverPending

LEMMA Describes ==
    ASSUME NEW v \in Hooks, NEW r \in BOOLEAN, NEW o \in BOOLEAN, NEW d,
           d = [victim |-> v, running |-> r, over |-> o]
    PROVE  d \in Described /\ d.victim = v /\ d.running = r /\ d.over = o
BY DEF Described

(* The holder is described to a creator that wants to take over from it.    *)
Describing(p) ==
    /\ record # None /\ takeover = None /\ record # proc[p].hook
    /\ \E d \in Described :
         /\ d.victim = record /\ d.running = (run[record] = "live")
         /\ d.over = (run[record] = "live" \/ record \in ahead)
         /\ To(p, "intent", d, proc[p].ans, proc[p].then)

LEMMA ForceOverRecordFlow ==
    ASSUME TokenType, NEW p \in Procs, ForceOverRecord(p)
    PROVE  \/ record = proc[p].hook /\ Admit(p, 0, None)
           \/ Return(p, "idle")
           \/ Describing(p)
<1>1. ASSUME record # proc[p].hook,
             Goto(p, [proc[p] EXCEPT !.pc = "intent",
                        !.snap = [victim |-> record, running |-> run[record] = "live",
                                  over |-> run[record] = "live" \/ record \in ahead]])
      PROVE  Describing(p)
  <2>1. PICK r \in BOOLEAN, o \in BOOLEAN :
           r = (run[record] = "live") /\ o = (run[record] = "live" \/ record \in ahead)
    OBVIOUS
  <2>2. PICK d : d = [victim |-> record, running |-> r, over |-> o]
    OBVIOUS
  <2>3. Goto(p, [proc[p] EXCEPT !.pc = "intent", !.snap = d])
    BY <1>1, <2>1, <2>2
  <2>4. record # None /\ takeover = None /\ record \in Hooks
    BY Stores DEF ForceOverRecord
  <2>5. d \in Described /\ d.victim = record /\ d.running = r /\ d.over = o
    BY <2>2, <2>4, Describes
  <2>6. To(p, "intent", d, proc[p].ans, proc[p].then)
    BY <2>3, <2>5, InSnap, SnapFlow DEF Pc, TokenType
  <2> QED BY <1>1, <2>1, <2>4, <2>5, <2>6 DEF Describing
<1> QED BY <1>1 DEF ForceOverRecord

LEMMA ForceOverRecordType ==
    ASSUME TokenType, NEW p \in Procs, ForceOverRecord(p)
    PROVE  TokenType'
<1>1. UNCHANGED <<shard, cells, owed, late, minted, idFaults, setup>>
  BY DEF ForceOverRecord
<1>2. Later
  BY <1>1, SameMinted
<1>3. proc[p].hook \in Hooks
  BY At1 DEF ForceOverRecord, At, HookPc
<1>4. CASE Admit(p, 0, None)
  <2>1. 0 \in 0..MaxClaims /\ 0 <= minted' /\ None \in Maybe(Hooks)
    BY <1>2, Constants DEF Later, Maybe
  <2>2. FramesFit'
    BY <1>2, <1>3, <1>4, <2>1, AdmitFits
  <2> QED BY <1>1, <2>2, WalkType DEF TokenType, CallsType
<1>5. CASE Return(p, "idle")
  <2>1. FramesFit'
    BY <1>2, <1>5, ReturnFits
  <2> QED BY <1>1, <2>1, WalkType DEF TokenType, CallsType
<1>6. CASE Describing(p)
  <2>1. PICK d \in Described : To(p, "intent", d, proc[p].ans, proc[p].then)
    BY <1>6 DEF Describing
  <2>2. FrameFits(p)'
    BY <1>2, <1>3, <2>1, KeptId
    DEF To, SameCall, FrameFits, HookPc, AnsweredPc, ClaimPc, TakeoverPc, OwnerPc
  <2>3. FramesFit'
    BY <1>2, <2>1, <2>2, StepFits DEF Later, To
  <2> QED BY <1>1, <2>3, WalkType DEF TokenType, CallsType
<1> QED BY <1>4, <1>5, <1>6, ForceOverRecordFlow

(* A new intent.                                                            *)
Intends(p) ==
    LET d == proc[p].snap IN
    /\ record = d.victim /\ takeover = None /\ d.over
    /\ minted' = minted + 1 /\ minted < MaxClaims
    /\ takeover' \in HookTakeover /\ takeover' # None
    /\ takeover'.claimer = proc[p].hook /\ takeover'.id = minted + 1
    /\ takeover'.victim = d.victim /\ takeover'.running = d.running
    /\ Admit(p, minted + 1, d.victim)
    /\ UNCHANGED <<record, claim, retained>>

LEMMA WriteIntentFlow ==
    ASSUME TokenType, NEW p \in Procs, WriteIntent(p)
    PROVE  /\ proc[p].snap \in Described /\ proc[p].snap.victim \in Hooks /\ proc[p].hook \in Hooks
           /\ proc[p].snap.over \in BOOLEAN /\ proc[p].snap.running \in BOOLEAN
           /\ \/ Return(p, "force") /\ UNCHANGED <<shard, minted>>
              \/ /\ record = proc[p].snap.victim /\ takeover = None /\ ~proc[p].snap.over
                 /\ record' = None /\ retained' = None
                 /\ Return(p, "force")
                 /\ UNCHANGED <<claim, takeover, minted>>
              \/ Intends(p)
<1>1. proc[p].snap \in Described /\ proc[p].hook \in Hooks
  BY At1 DEF WriteIntent, At, HookPc, FrameFits
<1>2. proc[p].snap.victim \in Hooks /\ proc[p].snap.over \in BOOLEAN /\ proc[p].snap.running \in BOOLEAN
  BY <1>1 DEF Described
<1>3. ASSUME record = proc[p].snap.victim, takeover = None, proc[p].snap.over,
             minted < MaxClaims, minted' = minted + 1,
             takeover' = [claimer |-> proc[p].hook, id |-> minted + 1, victim |-> proc[p].snap.victim,
                          running |-> proc[p].snap.running, expired |-> FALSE],
             Admit(p, minted + 1, proc[p].snap.victim), UNCHANGED <<record, claim, retained>>
      PROVE  Intends(p)
  <2>1. minted + 1 \in ClaimIds
    BY <1>3, At1, Constants DEF ClaimIds
  <2>2. /\ takeover' \in HookTakeover
        /\ takeover'.claimer = proc[p].hook /\ takeover'.id = minted + 1
        /\ takeover'.victim = proc[p].snap.victim /\ takeover'.running = proc[p].snap.running
    BY <1>1, <1>2, <1>3, <2>1 DEF HookTakeover
  <2>3. takeover' # None
    BY <2>2, Records DEF TokenType
  <2> QED BY <1>3, <2>2, <2>3 DEF Intends
<1> QED BY <1>1, <1>2, <1>3 DEF WriteIntent

LEMMA WriteIntentType ==
    ASSUME TokenType, NEW p \in Procs, WriteIntent(p)
    PROVE  TokenType'
<1>0. UNCHANGED <<cells, owed, late, idFaults, setup>> /\ setup' = setup
  BY DEF WriteIntent, Stays
<1>1. proc[p].hook \in Hooks /\ proc[p].snap.victim \in Hooks
  BY WriteIntentFlow
<1>2. CASE Return(p, "force") /\ UNCHANGED <<shard, minted>>
  <2>1. FramesFit'
    BY <1>0, <1>1, <1>2, SameMinted, ReturnFits
  <2> QED BY <1>0, <1>2, <2>1, WalkType DEF TokenType, CallsType
<1>3. CASE record' = None /\ retained' = None /\ Return(p, "force") /\ UNCHANGED <<claim, takeover, minted>>
  <2>1. FramesFit' /\ minted' \in 0..MaxClaims /\ minted <= minted' /\ minted' = minted
    BY <1>0, <1>1, <1>3, SameMinted, ReturnFits
  <2>2. ShardType'
    BY <1>0, <1>3, SameSets DEF TokenType, ShardType, Maybe
  <2>3. (claim' # None => claim'.id <= minted') /\ (takeover' # None => takeover'.id <= minted')
    BY <1>3, At1
  <2> QED BY <1>0, <2>1, <2>2, <2>3, ShardStepType
<1>4. CASE Intends(p)
  <2>1. minted \in Nat /\ minted + 1 \in 0..MaxClaims /\ minted' = minted + 1 /\ Later
    BY <1>0, <1>4, At1, Constants DEF Intends, Later
  <2>2. FramesFit'
    BY <1>1, <1>4, <2>1, AdmitFits DEF Intends, Maybe
  <2>3. ShardType'
    BY <1>0, <1>4, SameSets DEF TokenType, ShardType, Maybe, Intends
  <2>4. claim # None => claim.id \in Nat /\ claim.id <= minted
    BY Stores, At1, Constants DEF ClaimIds
  <2>5. (claim' # None => claim'.id <= minted') /\ (takeover' # None => takeover'.id <= minted')
    BY <1>4, <2>1, <2>4 DEF Intends
  <2> QED BY <1>0, <2>1, <2>2, <2>3, <2>5, ShardStepType
<1> QED BY <1>2, <1>3, <1>4, WriteIntentFlow

LEMMA PublishType ==
    ASSUME TokenType, NEW p \in Procs, PreemptClaim(p) \/ CompactClaimResolved(p) \/ PublishCommittedClaim(p)
    PROVE  TokenType'
<1>0. UNCHANGED <<cells, owed, late, idFaults, setup>> /\ setup' = setup
  BY DEF Stays, PreemptClaim, CompactClaimResolved, PublishCommittedClaim
<1>1. PICK t \in {"idle", "force"} : /\ t = "idle" \/ proc[p].hook \in Hooks
                                     /\ \/ claim # None /\ PublishClaim(p, t)
                                        \/ Return(p, t) /\ UNCHANGED <<shard, minted>>
  <2>1. CASE PreemptClaim(p)
    <3>1. proc[p].hook \in Hooks
      BY <2>1, At1 DEF PreemptClaim, At, HookPc
    <3> QED BY <2>1, <3>1 DEF PreemptClaim
  <2>2. CASE CompactClaimResolved(p)
    <3>1. proc[p].snap \in HookClaim
      BY <2>2, At1 DEF CompactClaimResolved, At, FrameFits, ClaimPc, AnsweredPc
    <3>2. proc[p].snap # None
      BY <3>1, Records DEF TokenType
    <3> QED BY <2>2, <3>2 DEF CompactClaimResolved
  <2>3. CASE PublishCommittedClaim(p)
    BY <2>3 DEF PublishCommittedClaim
  <2> QED BY <2>1, <2>2, <2>3
<1>2. CASE Return(p, t) /\ UNCHANGED <<shard, minted>>
  <2>1. FramesFit'
    BY <1>0, <1>1, <1>2, SameMinted, ReturnFits
  <2> QED BY <1>0, <1>2, <2>1, WalkType DEF TokenType, CallsType
<1>3. CASE claim # None /\ PublishClaim(p, t)
  <2>1. Later /\ minted' \in 0..MaxClaims /\ minted <= minted'
    BY <1>0, <1>3, SameMinted DEF PublishClaim
  <2>2. FramesFit' /\ ShardType' /\ claim' = None /\ takeover' = takeover /\ minted' = minted
    BY <1>1, <1>3, <2>1, PublishFits
  <2>3. takeover' # None => takeover'.id <= minted'
    BY <2>2, At1
  <2> QED BY <1>0, <2>1, <2>2, <2>3, ShardStepType
<1> QED BY <1>1, <1>2, <1>3

(* The steps that keep what was read and go to a place that needs no more.  *)
LEMMA PlainFits ==
    ASSUME TokenType, Later, NEW p \in Procs,
           NEW pc \in {"ambiguous", "finalize", "store", "release"}, NEW a,
           NEW t \in {"idle", "force"}, proc[p].hook \in Hooks,
           \/ To(p, pc, proc[p].snap, a, proc[p].then) /\ pc # "release"
           \/ To(p, pc, proc[p].snap, a, t)
    PROVE  FramesFit'
<1>1. FrameFits(p)'
  BY KeptId DEF To, SameCall, FrameFits, HookPc, AnsweredPc, ClaimPc, TakeoverPc, OwnerPc
<1> QED BY <1>1, StepFits DEF Later, To

LEMMA ToRelease ==
    ASSUME TokenType, NEW p \in Procs, NEW t \in {"idle", "force"},
           Goto(p, [proc[p] EXCEPT !.pc = "release", !.then = t])
    PROVE  To(p, "release", proc[p].snap, proc[p].ans, t)
<1>1. "release" \in Pc /\ t \in Pc
  BY DEF Pc
<1> QED BY <1>1, ThenFlow DEF TokenType

LEMMA HookIdReserveFailsType ==
    ASSUME TokenType, NEW p \in Procs, HookIdReserveFails(p)
    PROVE  TokenType'
<1>1. UNCHANGED <<shard, cells, owed, late, minted, setup>> /\ idFaults' \in 0..MaxIdFaults
  BY Constants DEF HookIdReserveFails, TokenType, CallsType
<1>2. Later /\ proc[p].hook \in Hooks
  BY <1>1, SameMinted, At1 DEF HookIdReserveFails, At, HookPc
<1>3. To(p, "release", proc[p].snap, proc[p].ans, "idle")
  BY ToRelease DEF HookIdReserveFails
<1>4. FramesFit'
  BY <1>2, <1>3, PlainFits
<1> QED BY <1>1, <1>4, WalkType

LEMMA ApplyType ==
    ASSUME TokenType, NEW c, c.hook \in Hooks, c.vic \in Maybe(Hooks), Apply(c), setup' = setup
    PROVE  CellsType' /\ fences' = fences
<1>1. fences' = fences
  BY DEF Apply, cells
<1>2. hook' \in [Hooks -> {"none", "live", "disposed", "swept"}] /\ from' \in [Hooks -> Maybe(Hooks)]
      /\ UNCHANGED <<run, forced, fences, ahead>>
  BY DEF Apply, TokenType, CellsType, cells
<1> QED BY <1>1, <1>2, SameSets DEF TokenType, CellsType

(* Where an answer leads.                                                   *)
Answered(p) ==
    \/ Accepted(CallOf(p)) /\ To(p, "finalize", proc[p].snap, proc[p].ans, proc[p].then)
    \/ /\ ~Accepted(CallOf(p))
       /\ \E t \in {"idle", "force"} : To(p, "release", proc[p].snap, proc[p].ans, t)

LEMMA CallRecord ==
    ASSUME NEW p
    PROVE  /\ CallOf(p).hook = proc[p].hook /\ CallOf(p).id = proc[p].id /\ CallOf(p).vic = proc[p].vic
BY DEF CallOf

LEMMA AnsweredFlow ==
    ASSUME TokenType, NEW p \in Procs, ApplyAnswered(p)
    PROVE  Answered(p)
<1>1. CASE Accepted(CallOf(p)) /\ Goto(p, [proc[p] EXCEPT !.pc = "finalize"])
  <2>1. "finalize" \in Pc
    BY DEF Pc
  <2> QED BY <1>1, <2>1, PcFlow DEF Answered, TokenType
<1>2. CASE ~Accepted(CallOf(p)) /\ Goto(p, [proc[p] EXCEPT !.pc = "release", !.then = "idle"])
  BY <1>2, ToRelease DEF Answered
<1>3. CASE /\ proc[p].hook \in Forcing /\ run[proc[p].hook] = "live" /\ proc[p].id \in fences
           /\ Goto(p, [proc[p] EXCEPT !.pc = "release", !.then = "force"])
  <2>1. ~Accepted(CallOf(p))
    BY <1>3, CallRecord DEF Accepted
  <2> QED BY <1>3, <2>1, ToRelease DEF Answered
<1> QED BY <1>1, <1>2, <1>3 DEF ApplyAnswered

LEMMA CallFits ==
    ASSUME TokenType, NEW p \in Procs, proc[p].hook \in Hooks
    PROVE  /\ CallOf(p).hook \in Hooks /\ CallOf(p).vic \in Maybe(Hooks)
           /\ CallOf(p) \in Call /\ CallOf(p).id <= minted
<1>1. proc[p].id \in 0..MaxClaims /\ proc[p].vic \in Maybe(Hooks) /\ proc[p].id <= minted
  BY At1, FrameFields DEF FrameFits
<1> QED BY <1>1 DEF CallOf, Call

LEMMA ApplyAnsweredType ==
    ASSUME TokenType, NEW p \in Procs, ApplyAnswered(p)
    PROVE  TokenType'
<1>1. UNCHANGED <<record, claim, retained, takeover, owed, late, minted, idFaults, setup>>
  BY DEF ApplyAnswered, shard
<1>2. Later /\ proc[p].hook \in Hooks
  BY <1>1, SameMinted, At1 DEF ApplyAnswered, At, HookPc
<1>3. FramesFit'
  BY <1>2, AnsweredFlow, PlainFits DEF Answered
<1>4. CellsType' /\ fences' = fences
  BY <1>1, <1>2, CallFits, ApplyType DEF ApplyAnswered
<1>5. ShardType' /\ CallsType' /\ IdsFit'
  BY <1>1, <1>4, SameSets DEF TokenType, ShardType, CallsType, IdsFit
<1> QED BY <1>1, <1>3, <1>4, <1>5 DEF TokenType

LEMMA ApplyLostType ==
    ASSUME TokenType, NEW p \in Procs, ApplyLost(p)
    PROVE  TokenType'
<1>1. /\ UNCHANGED <<record, claim, retained, takeover, owed, minted, idFaults, setup>>
      /\ UNCHANGED <<run, hook, from, forced, fences, ahead>>
  BY DEF ApplyLost, shard, cells
<1>2. Later /\ proc[p].hook \in Hooks
  BY <1>1, SameMinted, At1 DEF ApplyLost, At, HookPc
<1>3. To(p, "ambiguous", proc[p].snap, proc[p].ans, proc[p].then)
  <2>1. "ambiguous" \in Pc
    BY DEF Pc
  <2> QED BY <2>1, PcFlow DEF ApplyLost, TokenType
<1>4. FramesFit'
  BY <1>2, <1>3, PlainFits
<1>5. late' = late \cup {CallOf(p)} /\ CallOf(p) \in Call /\ CallOf(p).id <= minted
  BY <1>2, CallFits DEF ApplyLost
<1>6. ShardType' /\ CellsType' /\ CallsType' /\ IdsFit'
  BY <1>1, <1>5, SameSets DEF TokenType, ShardType, CellsType, CallsType, IdsFit
<1> QED BY <1>1, <1>4, <1>6 DEF TokenType

LEMMA ApplyLateType ==
    ASSUME TokenType, NEW c \in late, ApplyLate(c)
    PROVE  TokenType'
<1>1. /\ UNCHANGED <<record, claim, retained, takeover, owed, proc, minted, idFaults, setup>>
      /\ late' \subseteq late
  BY DEF ApplyLate, shard
<1>2. c.hook \in Hooks /\ c.vic \in Maybe(Hooks)
  BY DEF TokenType, CallsType, Call
<1>3. CellsType' /\ fences' = fences
  BY <1>1, <1>2, ApplyType DEF ApplyLate
<1>4. ShardType' /\ CallsType' /\ IdsFit'
  BY <1>1, <1>3, SameSets DEF TokenType, ShardType, CallsType, IdsFit
<1> QED BY <1>1, <1>3, <1>4, SameFits DEF TokenType

LEMMA ResolveAmbiguousType ==
    ASSUME TokenType, NEW p \in Procs, ResolveAmbiguous(p)
    PROVE  TokenType'
<1>1. UNCHANGED <<shard, run, hook, from, forced, ahead, owed, late, minted, idFaults, setup>>
  BY DEF ResolveAmbiguous
<1>2. Later /\ proc[p].hook \in Hooks
  BY <1>1, SameMinted, At1 DEF ResolveAmbiguous, At, HookPc
<1>3. PICK i \in ClaimIds \cup {0} : i = proc[p].id /\ i <= minted
  <2>1. proc[p].id \in 0..MaxClaims /\ proc[p].id <= minted
    BY At1, FrameFields DEF FrameFits
  <2> QED BY <2>1, Constants DEF ClaimIds
<1>4. fences' \subseteq fences \cup ({i} \ {0})
  BY <1>3 DEF ResolveAmbiguous
<1>5. FramesFit'
  <2>1. CASE Return(p, "idle")
    BY <1>2, <2>1, ReturnFits
  <2>2. CASE Goto(p, [proc[p] EXCEPT !.pc = "release", !.then = "idle"])
    BY <1>2, <2>2, ToRelease, PlainFits
  <2> QED BY <2>1, <2>2 DEF ResolveAmbiguous
<1> QED BY <1>1, <1>3, <1>4, <1>5, FenceType

LEMMA SettleAmbiguousType ==
    ASSUME TokenType, NEW p \in Procs, SettleAmbiguous(p)
    PROVE  TokenType'
<1>1. UNCHANGED <<shard, cells, owed, late, minted, idFaults, setup>>
  BY DEF SettleAmbiguous
<1>2. Later
  BY <1>1, SameMinted
<1>3. FramesFit'
  BY <1>2, SettleFits, ReturnFits DEF SettleAmbiguous
<1> QED BY <1>1, <1>3, WalkType DEF TokenType, CallsType

(* A process that returns to where it was called from.                      *)
LEMMA Back ==
    ASSUME TokenType, NEW p \in Procs,
           proc[p].pc \in TakeoverPc \cup OwnerPc \cup {"release"}
    PROVE  /\ proc[p].then \in {"idle", "reserve", "force"}
           /\ proc[p].then = "idle" \/ proc[p].hook \in Hooks
BY At1 DEF FrameFits

LEMMA BackFits ==
    ASSUME TokenType, Later, NEW p \in Procs,
           proc[p].pc \in TakeoverPc \cup OwnerPc \cup {"release"}, Return(p, proc[p].then)
    PROVE  FramesFit'
<1>1. PICK t \in {"idle", "reserve", "force"} : t = proc[p].then /\ (t = "idle" \/ proc[p].hook \in Hooks)
  BY Back
<1> QED BY <1>1, ReturnFits

LEMMA ReleaseType ==
    ASSUME TokenType, NEW p \in Procs, Release(p)
    PROVE  TokenType'
<1>1. UNCHANGED <<record, retained, takeover, cells, owed, late, minted, idFaults, setup>>
  BY DEF Release
<1>2. Later /\ minted' = minted /\ minted' \in 0..MaxClaims /\ minted <= minted' /\ setup' = setup
  BY <1>1, SameMinted
<1>3. proc[p].pc = "release"
  BY DEF Release, At
<1>4. claim' = claim \/ claim' = None
  BY DEF Release
<1>5. FramesFit'
  <2>1. CASE Mine(p) /\ StartSettle(p, proc[p].then)
    <3>1. PICK t \in {"idle", "reserve", "force"} : t = proc[p].then /\ (t = "idle" \/ proc[p].hook \in Hooks)
      BY <1>3, Back
    <3> QED BY <1>2, <2>1, <3>1, SettleFits DEF Mine
  <2>2. CASE Return(p, proc[p].then)
    BY <1>2, <1>3, <2>2, BackFits
  <2> QED BY <2>1, <2>2 DEF Release
<1>6. ShardType'
  BY <1>1, <1>2, <1>4, SameSets DEF TokenType, ShardType, Maybe
<1>7. (claim' # None => claim'.id <= minted') /\ (takeover' # None => takeover'.id <= minted')
  BY <1>1, <1>2, <1>4 DEF TokenType, IdsFit
<1> QED BY <1>1, <1>2, <1>5, <1>6, <1>7, ShardStepType

LEMMA SettlingFits ==
    ASSUME TokenType, Later, NEW p \in Procs, NEW pc \in {"rollback", "dispose", "repoint"}, NEW s, NEW a,
           NEW t \in {"idle", "reserve", "force"}, To(p, pc, s, a, t),
           s \in HookTakeover, s.id <= minted, t = "idle" \/ proc[p].hook \in Hooks
    PROVE  FramesFit'
<1>1. s.id <= minted'
  BY At1, Constants DEF HookTakeover, ClaimIds, Later
<1>2. FrameFits(p)'
  BY <1>1, KeptId DEF To, SameCall, FrameFits, HookPc, AnsweredPc, ClaimPc, TakeoverPc, OwnerPc
<1> QED BY <1>2, StepFits DEF Later, To

LEMMA CompleteFlow ==
    ASSUME TokenType, NEW p \in Procs, CompleteTakeover(p)
    PROVE  \/ Return(p, "idle")
           \/ Mine(p) /\ takeover \in HookTakeover /\ To(p, "dispose", takeover, "hook", "idle")
<1>1. CASE Mine(p) /\ Goto(p, [proc[p] EXCEPT !.pc = "dispose", !.snap = takeover, !.ans = "hook",
                                              !.then = "idle"])
  <2>1. "dispose" \in Pc /\ takeover \in Snap /\ takeover \in HookTakeover /\ "hook" \in Ans /\ "idle" \in Pc
    BY <1>1, Stores, InSnap DEF Mine, Pc, Ans
  <2> QED BY <1>1, <2>1, AllFlow DEF TokenType
<1> QED BY <1>1 DEF CompleteTakeover

LEMMA CompleteTakeoverType ==
    ASSUME TokenType, NEW p \in Procs, CompleteTakeover(p)
    PROVE  TokenType'
<1>1. UNCHANGED <<shard, cells, owed, late, minted, idFaults, setup>>
  BY DEF CompleteTakeover
<1>2. Later
  BY <1>1, SameMinted
<1>3. FramesFit'
  <2>1. CASE Mine(p) /\ takeover \in HookTakeover /\ To(p, "dispose", takeover, "hook", "idle")
    <3>1. takeover.id <= minted
      BY <2>1, At1 DEF Mine
    <3> QED BY <1>2, <2>1, <3>1, SettlingFits
  <2> QED BY <1>2, <2>1, CompleteFlow, ReturnFits
<1> QED BY <1>1, <1>3, WalkType DEF TokenType, CallsType

LEMMA FinalizeAskFlow ==
    ASSUME TokenType, NEW p \in Procs, FinalizeAsk(p)
    PROVE  To(p, "store", proc[p].snap, IF run[proc[p].hook] = "live" THEN "hook" ELSE "gone", proc[p].then)
<1>1. PICK a \in {"hook", "gone"} : a = IF run[proc[p].hook] = "live" THEN "hook" ELSE "gone"
  OBVIOUS
<1>2. Goto(p, [proc[p] EXCEPT !.pc = "store", !.ans = a]) /\ "store" \in Pc /\ a \in Ans
  BY <1>1 DEF FinalizeAsk, Pc, Ans
<1> QED BY <1>1, <1>2, AnsFlow DEF TokenType

LEMMA FinalizeAskType ==
    ASSUME TokenType, NEW p \in Procs, FinalizeAsk(p)
    PROVE  TokenType'
<1>1. UNCHANGED <<shard, cells, owed, late, minted, idFaults, setup>>
  BY DEF FinalizeAsk
<1>2. Later /\ proc[p].hook \in Hooks
  BY <1>1, SameMinted, At1 DEF FinalizeAsk, At, HookPc
<1>3. PICK a : To(p, "store", proc[p].snap, a, proc[p].then)
  BY FinalizeAskFlow
<1>4. FramesFit'
  BY <1>2, <1>3, PlainFits
<1> QED BY <1>1, <1>4, WalkType DEF TokenType, CallsType

LEMMA NewRetained ==
    ASSUME NEW h \in Keeping, setup \in Setups
    PROVE  /\ [owner |-> h, armed |-> TRUE] \in Retained /\ [owner |-> h, armed |-> TRUE] # None
           /\ [owner |-> h, armed |-> TRUE].owner = h
<1>1. [owner |-> h, armed |-> TRUE] \in Retained
  BY DEF Retained
<1>2. None \notin Retained
  BY Records
<1> QED BY <1>1, <1>2

LEMMA ReleaseBatchType ==
    ASSUME TokenType, NEW h \in Hooks, NEW ended \in BOOLEAN, ReleaseBatch(h, ended), setup' = setup
    PROVE  ShardType' /\ (claim' = claim \/ claim' = None) /\ takeover' = takeover
<1>1. h \in ahead => [owner |-> h, armed |-> TRUE] \in Retained
  BY NewRetained DEF TokenType, CellsType
<1> QED BY <1>1, SameSets DEF ReleaseBatch, TokenType, ShardType, Maybe

(* A step of a shard that mints nothing.                                    *)
LEMMA GivenBackType ==
    ASSUME TokenType, UNCHANGED <<cells, owed, late, minted, idFaults, setup>>,
           ShardType', FramesFit', claim' = claim \/ claim' = None,
           takeover' = takeover \/ takeover' = None
    PROVE  TokenType'
<1>1. minted' \in 0..MaxClaims /\ minted <= minted' /\ minted' = minted
  BY SameMinted
<1>2. (claim' # None => claim'.id <= minted') /\ (takeover' # None => takeover'.id <= minted')
  BY <1>1 DEF TokenType, IdsFit
<1> QED BY <1>1, <1>2, ShardStepType

LEMMA FinalizeStoreType ==
    ASSUME TokenType, NEW p \in Procs, FinalizeStore(p)
    PROVE  TokenType'
<1>1. UNCHANGED <<cells, owed, late, minted, idFaults, setup>>
  BY DEF FinalizeStore, Stays
<1>2. Later /\ proc[p].hook \in Hooks /\ setup' = setup
  BY <1>1, SameMinted, At1 DEF FinalizeStore, At, HookPc
<1>3. FramesFit'
  BY <1>2, ReturnFits DEF FinalizeStore
<1>4. ShardType' /\ (claim' = claim \/ claim' = None) /\ takeover' = takeover
  <2> DEFINE h == proc[p].hook
  <2>1. CASE ReleaseBatch(h, FALSE)
    BY <1>2, <2>1, ReleaseBatchType
  <2>2. CASE UNCHANGED shard
    BY <1>2, <2>2, SameSets DEF shard, TokenType, ShardType
  <2>3. CASE /\ proc[p].ans = "hook" \/ h \in ahead
             /\ record' = h /\ claim' = None
             /\ retained' = IF proc[p].ans = "hook" THEN retained ELSE [owner |-> h, armed |-> TRUE]
             /\ UNCHANGED takeover
    <3>1. h \in ahead => [owner |-> h, armed |-> TRUE] \in Retained
      BY NewRetained DEF TokenType, CellsType
    <3> QED BY <1>2, <2>3, <3>1, SameSets DEF TokenType, ShardType, Maybe
  <2> QED BY <2>1, <2>2, <2>3 DEF FinalizeStore
<1> QED BY <1>1, <1>3, <1>4, GivenBackType

-----------------------------------------------------------------------------
(* Settling *)

LEMMA Settling1 ==
    ASSUME TokenType, NEW p \in Procs, proc[p].pc \in TakeoverPc
    PROVE  /\ proc[p].snap \in HookTakeover /\ proc[p].snap.id \in ClaimIds /\ proc[p].snap.id <= minted
           /\ proc[p].snap.claimer \in Hooks /\ proc[p].snap.victim \in Hooks
           /\ proc[p].snap.running \in BOOLEAN
<1>1. proc[p].snap \in HookTakeover /\ proc[p].snap.id <= minted
  BY At1 DEF FrameFits
<1> QED BY <1>1 DEF HookTakeover

LEMMA AskFlow ==
    ASSUME TokenType, NEW p \in Procs, ResolveForcedHookClaim(p)
    PROVE  To(p, IF Journaled(proc[p].snap) THEN "dispose" ELSE "rollback", proc[p].snap,
              IF Live(proc[p].snap.claimer) THEN "hook" ELSE "gone", proc[p].then)
<1>1. PICK a \in {"hook", "gone"} : a = IF Live(proc[p].snap.claimer) THEN "hook" ELSE "gone"
  OBVIOUS
<1>2. PICK pc \in {"dispose", "rollback"} : pc = IF Journaled(proc[p].snap) THEN "dispose" ELSE "rollback"
  OBVIOUS
<1>3. Goto(p, [proc[p] EXCEPT !.pc = pc, !.ans = a]) /\ pc \in Pc /\ a \in Ans
  BY <1>1, <1>2 DEF ResolveForcedHookClaim, Pc, Ans
<1>4. To(p, pc, proc[p].snap, a, proc[p].then)
  BY <1>3, AnsFlow DEF TokenType
<1> QED BY <1>1, <1>2, <1>4

LEMMA AskType ==
    ASSUME TokenType, NEW p \in Procs, ResolveForcedHookClaim(p)
    PROVE  TokenType'
<1>1. UNCHANGED <<shard, run, hook, from, forced, ahead, owed, late, minted, idFaults, setup>>
  BY DEF ResolveForcedHookClaim
<1>2. Later /\ proc[p].pc \in TakeoverPc
  BY <1>1, SameMinted DEF ResolveForcedHookClaim, At, TakeoverPc
<1>3. PICK i : i = proc[p].snap.id /\ i \in ClaimIds /\ i <= minted /\ i # 0
  BY <1>2, Settling1, Constants DEF ClaimIds
<1>4. fences' \subseteq fences \cup ({i} \ {0})
  BY <1>3 DEF ResolveForcedHookClaim
<1>5. PICK pc, a : pc \in {"rollback", "dispose"} /\ To(p, pc, proc[p].snap, a, proc[p].then)
  BY AskFlow
<1>6. PICK t \in {"idle", "reserve", "force"} : t = proc[p].then /\ (t = "idle" \/ proc[p].hook \in Hooks)
  BY <1>2, Back
<1>7. FramesFit'
  BY <1>2, <1>5, <1>6, Settling1, SettlingFits
<1> QED BY <1>1, <1>3, <1>4, <1>7, FenceType

LEMMA RollBackType ==
    ASSUME TokenType, NEW p \in Procs, RollBack(p)
    PROVE  TokenType'
<1>1. UNCHANGED <<record, claim, cells, owed, late, minted, idFaults, setup>>
  BY DEF RollBack
<1>2. Later /\ proc[p].pc \in TakeoverPc /\ setup' = setup
  BY <1>1, SameMinted DEF RollBack, At, TakeoverPc
<1>3. FramesFit'
  BY <1>2, BackFits DEF RollBack
<1>4. takeover' = takeover \/ takeover' = None
  BY DEF RollBack
<1>5. retained' \in Maybe(Retained)
  <2>1. retained # None => [retained EXCEPT !.armed = TRUE] \in Retained
    BY Stores DEF Retained
  <2> QED BY <2>1 DEF RollBack, TokenType, ShardType, Maybe
<1>6. ShardType'
  BY <1>1, <1>2, <1>4, <1>5, SameSets DEF TokenType, ShardType, Maybe
<1> QED BY <1>1, <1>3, <1>4, <1>6, GivenBackType

LEMMA ForceDisposeType ==
    ASSUME TokenType, NEW p \in Procs, ForceDispose(p)
    PROVE  TokenType'
<1>1. /\ UNCHANGED <<record, claim, retained, takeover, run, from, fences, ahead>>
      /\ UNCHANGED <<owed, late, minted, idFaults, setup>>
  BY DEF ForceDispose, shard
<1>2. Later /\ proc[p].pc \in TakeoverPc /\ setup' = setup
  BY <1>1, SameMinted DEF ForceDispose, At, TakeoverPc
<1>3. To(p, "repoint", proc[p].snap, proc[p].ans, proc[p].then)
  <2>1. "repoint" \in Pc
    BY DEF Pc
  <2> QED BY <2>1, PcFlow DEF ForceDispose, TokenType
<1>4. PICK t \in {"idle", "reserve", "force"} : t = proc[p].then /\ (t = "idle" \/ proc[p].hook \in Hooks)
  BY <1>2, Back
<1>5. FramesFit'
  BY <1>2, <1>3, <1>4, Settling1, SettlingFits
<1>6. /\ hook' \in [Hooks -> {"none", "live", "disposed", "swept"}]
      /\ forced' \in [Hooks -> Maybe(Hooks)]
  <2>1. proc[p].snap.claimer \in Maybe(Hooks)
    BY <1>2, Settling1 DEF Maybe
  <2> QED BY <2>1 DEF ForceDispose, TokenType, CellsType
<1>7. ShardType' /\ CellsType' /\ CallsType' /\ IdsFit'
  BY <1>1, <1>6, SameSets DEF TokenType, ShardType, CellsType, CallsType, IdsFit
<1> QED BY <1>1, <1>5, <1>7 DEF TokenType

LEMMA RepointType ==
    ASSUME TokenType, NEW p \in Procs, Repoint(p)
    PROVE  TokenType'
<1>1. UNCHANGED <<claim, cells, owed, late, minted, idFaults, setup>>
  BY DEF Repoint
<1>2. Later /\ proc[p].pc \in TakeoverPc /\ setup' = setup
  BY <1>1, SameMinted DEF Repoint, At, TakeoverPc
<1>3. proc[p].snap.claimer \in Hooks
  BY <1>2, Settling1
<1>4. PICK t \in {"idle", "reserve", "force"} : t = proc[p].then /\ (t = "idle" \/ proc[p].hook \in Hooks)
  BY <1>2, Back
<1>5. FramesFit'
  BY <1>2, <1>3, <1>4, ConfirmFits, ReturnFits DEF Repoint
<1>6. takeover' = takeover \/ takeover' = None
  BY DEF Repoint
<1>7. ShardType'
  BY <1>1, <1>2, <1>3, SameSets DEF Repoint, TokenType, ShardType, Maybe
<1> QED BY <1>1, <1>5, <1>6, <1>7, GivenBackType

LEMMA ConfirmType ==
    ASSUME TokenType, NEW p \in Procs, Confirm(p)
    PROVE  TokenType'
<1>1. UNCHANGED <<shard, cells, owed, late, minted, idFaults, setup>>
  BY DEF Confirm
<1>2. Later /\ proc[p].pc \in OwnerPc
  BY <1>1, SameMinted DEF Confirm, At, OwnerPc
<1>3. CASE Return(p, proc[p].then)
  <2>1. FramesFit'
    BY <1>2, <1>3, BackFits
  <2> QED BY <1>1, <2>1, WalkType DEF TokenType, CallsType
<1>4. CASE Goto(p, [proc[p] EXCEPT !.pc = "withdraw"])
  <2>1. To(p, "withdraw", proc[p].snap, proc[p].ans, proc[p].then)
    <3>1. "withdraw" \in Pc
      BY DEF Pc
    <3> QED BY <1>4, <3>1, PcFlow DEF TokenType
  <2>2. proc[p].snap \in Hooks
    BY <1>2, At1 DEF FrameFits
  <2>3. PICK t \in {"idle", "reserve", "force"} : t = proc[p].then /\ (t = "idle" \/ proc[p].hook \in Hooks)
    BY <1>2, Back
  <2>4. FrameFits(p)'
    BY <1>2, <2>1, <2>2, <2>3, KeptId
    DEF To, SameCall, FrameFits, HookPc, AnsweredPc, ClaimPc, TakeoverPc, OwnerPc
  <2>5. FramesFit'
    BY <1>2, <2>1, <2>4, StepFits DEF Later, To
  <2> QED BY <1>1, <2>5, WalkType DEF TokenType, CallsType
<1> QED BY <1>3, <1>4 DEF Confirm

LEMMA WithdrawType ==
    ASSUME TokenType, NEW p \in Procs, Withdraw(p)
    PROVE  TokenType'
<1>1. UNCHANGED <<claim, retained, takeover, cells, owed, late, minted, idFaults, setup>>
  BY DEF Withdraw
<1>2. Later /\ proc[p].pc \in OwnerPc /\ setup' = setup
  BY <1>1, SameMinted DEF Withdraw, At, OwnerPc
<1>3. FramesFit'
  BY <1>2, BackFits DEF Withdraw
<1>4. ShardType'
  BY <1>1, <1>2, SameSets DEF Withdraw, TokenType, ShardType, Maybe
<1> QED BY <1>1, <1>3, <1>4, GivenBackType

-----------------------------------------------------------------------------
(* Upkeep, runs and time *)

LEMMA UpkeepType ==
    ASSUME TokenType, NEW p \in Procs, SettleTakeover(p) \/ LookUp(p) \/ Lose(p)
    PROVE  TokenType'
<1>1. UNCHANGED <<shard, cells, owed, late, minted, idFaults, setup>>
  BY DEF SettleTakeover, LookUp, Lose
<1>2. Later
  BY <1>1, SameMinted
<1>3. CASE SettleTakeover(p)
  <2>1. FramesFit'
    BY <1>2, <1>3, SettleFits DEF SettleTakeover
  <2> QED BY <1>1, <2>1, WalkType DEF TokenType, CallsType
<1>4. CASE LookUp(p)
  <2>1. claim \in HookClaim /\ claim.id <= minted
    BY <1>4, Stores, At1 DEF LookUp
  <2>2. /\ Moved(p) /\ proc'[p].pc = "getTxn" /\ proc'[p].snap = claim
        /\ proc'[p].hook = None /\ proc'[p].id = 0 /\ proc'[p].vic = None
    BY <1>4, <2>1, LookUpFlow DEF TokenType
  <2>3. FrameFits(p)'
    BY <1>1, <1>2, <2>1, <2>2, SameSets
    DEF Later, FrameFits, HookPc, AnsweredPc, ClaimPc, TakeoverPc, OwnerPc
  <2>4. FramesFit'
    BY <1>2, <2>2, <2>3, StepFits DEF Later
  <2> QED BY <1>1, <2>4, WalkType DEF TokenType, CallsType
<1>5. CASE Lose(p)
  <2>1. Return(p, "idle")
    BY <1>5 DEF Lose, Return
  <2>2. FramesFit'
    BY <1>2, <2>1, ReturnFits
  <2> QED BY <1>1, <2>2, WalkType DEF TokenType, CallsType
<1> QED BY <1>3, <1>4, <1>5

LEMMA CompactRetainedType ==
    ASSUME TokenType, CompactRetained
    PROVE  TokenType'
<1>1. UNCHANGED <<claim, takeover, cells, owed, late, proc, minted, idFaults, setup>> /\ retained # None
  BY DEF CompactRetained
<1>2. [retained EXCEPT !.armed = FALSE] \in Retained
  BY <1>1, Stores DEF Retained
<1>3. ShardType'
  BY <1>1, <1>2, SameSets DEF CompactRetained, TokenType, ShardType, Maybe
<1>4. FramesFit'
  BY <1>1, SameFits
<1> QED BY <1>1, <1>3, <1>4, GivenBackType

LEMMA CellStepType ==
    ASSUME TokenType, NEW h \in Hooks,
           DisposeHook(h) \/ ReleaseDisposed(h) \/ EndRun(h) \/ ExpireRun(h) \/ ReleaseCleanup(h)
    PROVE  TokenType'
<1>1. /\ UNCHANGED <<from, forced, fences, ahead, late, proc, minted, idFaults, setup>>
      /\ takeover' = takeover
  BY DEF DisposeHook, ReleaseDisposed, EndRun, ExpireRun, ReleaseCleanup, ReleaseBatch, shard, cells
<1>2. ShardType' /\ (claim' = claim \/ claim' = None)
  <2>1. CASE \E ended \in BOOLEAN : ReleaseBatch(h, ended)
    BY <1>1, <2>1, ReleaseBatchType
  <2>2. CASE UNCHANGED shard
    BY <1>1, <2>2, SameSets DEF shard, TokenType, ShardType
  <2> QED BY <2>1, <2>2 DEF DisposeHook, ReleaseDisposed, EndRun, ExpireRun, ReleaseCleanup
<1>3. /\ run' \in [Hooks -> {"live", "ended", "expired"}]
      /\ hook' \in [Hooks -> {"none", "live", "disposed", "swept"}] /\ owed' \subseteq Hooks
  BY DEF DisposeHook, ReleaseDisposed, EndRun, ExpireRun, ReleaseCleanup, cells, TokenType, CellsType,
         CallsType
<1>4. CellsType' /\ CallsType'
  BY <1>1, <1>3, SameSets DEF TokenType, CellsType, CallsType
<1>5. IdsFit'
  BY <1>1, <1>2 DEF TokenType, IdsFit
<1>6. FramesFit'
  BY <1>1, SameFits
<1> QED BY <1>1, <1>2, <1>4, <1>5, <1>6 DEF TokenType

(* The same claim or intent, expired.                                       *)
LEMMA Expired ==
    ASSUME TokenType, Expire
    PROVE  /\ UNCHANGED <<record, retained, run, hook, from, forced, fences, owed, late, proc, minted,
                          idFaults, setup>>
           /\ ahead' \subseteq ahead
           /\ \/ claim' = claim
              \/ /\ claim # None /\ claim' \in HookClaim /\ claim' # None
                 /\ claim'.id = claim.id /\ claim'.owner = claim.owner
           /\ \/ takeover' = takeover
              \/ /\ takeover # None /\ takeover' \in HookTakeover /\ takeover' # None
                 /\ takeover'.id = takeover.id /\ takeover'.claimer = takeover.claimer
                 /\ takeover'.victim = takeover.victim /\ takeover'.running = takeover.running
<1>1. UNCHANGED <<record, retained, run, hook, from, forced, fences, owed, late, proc, minted,
                  idFaults, setup>>
  BY DEF Expire
<1>2. CASE claim # None /\ claim' = [claim EXCEPT !.expired = TRUE] /\ UNCHANGED <<takeover, ahead>>
  <2>1. claim \in HookClaim
    BY <1>2, Stores
  <2>2. claim' \in HookClaim /\ claim'.id = claim.id /\ claim'.owner = claim.owner
    BY <1>2, <2>1 DEF HookClaim
  <2> QED BY <1>1, <1>2, <2>2, Records DEF TokenType
<1>3. CASE takeover # None /\ takeover' = [takeover EXCEPT !.expired = TRUE] /\ UNCHANGED <<claim, ahead>>
  <2>1. takeover \in HookTakeover
    BY <1>3, Stores
  <2>2. /\ takeover' \in HookTakeover
        /\ takeover'.id = takeover.id /\ takeover'.claimer = takeover.claimer
        /\ takeover'.victim = takeover.victim /\ takeover'.running = takeover.running
    BY <1>3, <2>1 DEF HookTakeover
  <2> QED BY <1>1, <1>3, <2>2, Records DEF TokenType
<1>4. CASE (\E h \in ahead : ahead' = ahead \ {h}) /\ UNCHANGED <<claim, takeover>>
  BY <1>1, <1>4
<1> QED BY <1>2, <1>3, <1>4 DEF Expire

LEMMA ExpireType ==
    ASSUME TokenType, Expire
    PROVE  TokenType'
<1>1. ShardType' /\ CellsType' /\ CallsType'
  BY Expired, SameSets DEF TokenType, ShardType, CellsType, CallsType, Maybe
<1>2. IdsFit'
  BY Expired DEF TokenType, IdsFit
<1>3. FramesFit'
  BY Expired, SameFits
<1> QED BY <1>1, <1>2, <1>3, Expired DEF TokenType

LEMMA InitType == Init => TokenType
<1> SUFFICES ASSUME Init PROVE TokenType
  OBVIOUS
<1>1. Keeping \subseteq Hooks
  BY SetupFields DEF Init
<1>2. ShardType /\ CellsType
  BY <1>1 DEF Init, ShardType, CellsType, Maybe
<1>3. CallsType /\ IdsFit
  BY Constants DEF Init, CallsType, IdsFit
<1>4. FramesFit
  <2>1. proc \in [Procs -> Frame] /\ \A p \in Procs : proc[p] = Idle
    BY IdleFrame DEF Init
  <2>2. minted = 0
    BY DEF Init
  <2> QED BY <2>1, <2>2, IdleFrame
      DEF FramesFit, FrameFits, HookPc, AnsweredPc, ClaimPc, TakeoverPc, OwnerPc
<1> QED BY <1>2, <1>3, <1>4 DEF Init, TokenType

LEMMA NextType == TokenType /\ [Next]_vars => TokenType'
<1> SUFFICES ASSUME TokenType, [Next]_vars PROVE TokenType'
  OBVIOUS
<1>1. CASE UNCHANGED vars
  <2>1. UNCHANGED <<shard, cells, owed, late, minted, idFaults, setup>> /\ proc' = proc
    BY <1>1 DEF vars
  <2>2. FramesFit'
    BY <2>1, SameFits
  <2> QED BY <2>1, <2>2, WalkType DEF TokenType, CallsType
<1>2. ASSUME NEW p \in setup.procs,
             Admission(p) \/ Creation(p) \/ Settling(p) \/ Upkeep(p) \/ Lose(p)
      PROVE  TokenType'
  <2>0. p \in Procs
    BY SetupFields DEF TokenType
  <2>1. CASE Admission(p)
    BY <2>0, <2>1, CreateHookType, ReserveType, ResolvingType, ResolveType, ForceOverPendingType,
       ForceOverRecordType, WriteIntentType, PublishType, HookIdReserveFailsType DEF Admission
  <2>2. CASE Creation(p)
    BY <2>0, <2>2, ApplyAnsweredType, ApplyLostType, ResolveAmbiguousType, SettleAmbiguousType,
       ReleaseType, CompleteTakeoverType, FinalizeAskType, FinalizeStoreType DEF Creation
  <2>3. CASE Settling(p)
    BY <2>0, <2>3, AskType, RollBackType, ForceDisposeType, RepointType, ConfirmType, WithdrawType
    DEF Settling
  <2>4. CASE Upkeep(p) \/ Lose(p)
    BY <2>0, <2>4, ResolvingType, PublishType, UpkeepType DEF Upkeep
  <2> QED BY <1>2, <2>1, <2>2, <2>3, <2>4
<1>3. CASE \E c \in late : ApplyLate(c)
  BY <1>3, ApplyLateType
<1>4. CASE CompactRetained \/ Expire
  BY <1>4, CompactRetainedType, ExpireType
<1>5. CASE \E h \in Hooks : \/ DisposeHook(h) \/ ReleaseDisposed(h) \/ EndRun(h) \/ ExpireRun(h)
                            \/ ReleaseCleanup(h)
  BY <1>5, CellStepType
<1> QED BY <1>1, <1>2, <1>3, <1>4, <1>5 DEF Next

LEMMA TypeInvariant == Spec => []TokenType
BY InitType, NextType, PTL DEF Spec

(* Every variable of the token shard, of the run cells and of the processes *)
(* keeps its type: a process that goes on after an answer finds the claim,  *)
(* intent or hook in its frame that this place of the code works on.        *)
THEOREM HookTokensTypeCorrect == Spec => []TypeOK
<1>1. TokenType => TypeOK
  BY DEF TokenType, TypeOK, ShardType, CellsType, CallsType, FramesFit
<1> QED BY <1>1, TypeInvariant, PTL

-----------------------------------------------------------------------------
(* Which claim or intent a process is about *)

(* The token is held by a claim, or by a record and perhaps an intent       *)
(* against it.                                                              *)
OneHolder ==
    /\ claim # None => record = None /\ takeover = None
    /\ takeover # None => /\ record = None \/ record = takeover.victim
                          /\ takeover.claimer # takeover.victim

(* The call of a process names the claim or intent of its own ID.           *)
KnownCall(p) ==
    LET f == proc[p] IN
    /\ claim # None /\ f.id = claim.id => f.vic = None /\ f.hook = claim.owner
    /\ takeover # None /\ f.id = takeover.id => f.vic = takeover.victim /\ f.hook = takeover.claimer

(* So does what it read.                                                    *)
KnownSnap(p) ==
    LET f == proc[p]
        s == proc[p].snap
    IN  /\ f.pc \in ClaimPc =>
             /\ claim # None /\ s.id = claim.id => s.owner = claim.owner
             /\ takeover # None => s.id # takeover.id
        /\ f.pc \in TakeoverPc =>
             /\ claim # None => s.id # claim.id
             /\ takeover # None /\ s.id = takeover.id =>
                  /\ s.claimer = takeover.claimer /\ s.victim = takeover.victim
                  /\ s.running = takeover.running

(* Nobody takes the token over from itself.                                 *)
Differs(p) == proc[p].pc = "intent" => proc[p].snap.victim # proc[p].hook

Names == OneHolder /\ \A p \in Procs : KnownCall(p) /\ KnownSnap(p) /\ Differs(p)

(* A claim and an intent are dropped, marked, or new under a new ID.        *)
ClaimGoes ==
    \/ claim' = None
    \/ /\ claim # None /\ claim' # None
       /\ claim'.id = claim.id /\ claim'.owner = claim.owner
    \/ claim' # None /\ claim'.id = minted + 1

TakeoverGoes ==
    \/ takeover' = None
    \/ /\ takeover # None /\ takeover' # None
       /\ takeover'.id = takeover.id /\ takeover'.claimer = takeover.claimer
       /\ takeover'.victim = takeover.victim /\ takeover'.running = takeover.running
    \/ takeover' # None /\ takeover'.id = minted + 1

Goes == ClaimGoes /\ TakeoverGoes

LEMMA KnownCallStays ==
    ASSUME TokenType, Goes, NEW p \in Procs, KnownCall(p), SameCall(p)
    PROVE  KnownCall(p)'
<1>1. proc[p].id \in Nat /\ proc[p].id <= minted /\ minted \in Nat
  BY At1, FrameFields, Constants DEF FrameFits
<1>2. proc[p].id # minted + 1
  BY <1>1
<1> QED BY <1>2 DEF Goes, ClaimGoes, TakeoverGoes, KnownCall, SameCall

LEMMA KnownSnapStays ==
    ASSUME TokenType, Goes, NEW p \in Procs, KnownSnap(p), proc'[p].snap = proc[p].snap,
           proc'[p].pc \in ClaimPc => proc[p].pc \in ClaimPc,
           proc'[p].pc \in TakeoverPc => proc[p].pc \in TakeoverPc
    PROVE  KnownSnap(p)'
<1>1. proc[p].pc \in ClaimPc \cup TakeoverPc =>
        proc[p].snap.id \in Nat /\ proc[p].snap.id <= minted /\ minted \in Nat
  BY At1, Constants DEF FrameFits, HookClaim, HookTakeover, ClaimIds
<1>2. proc[p].pc \in ClaimPc \cup TakeoverPc => proc[p].snap.id # minted + 1
  BY <1>1
<1> QED BY <1>2 DEF Goes, ClaimGoes, TakeoverGoes, KnownSnap

Lands(p) == Moved(p) /\ KnownCall(p)' /\ KnownSnap(p)' /\ Differs(p)'

LEMMA Plain ==
    ASSUME TokenType, Goes, NEW p \in Procs, KnownCall(p), Moved(p), SameCall(p),
           proc'[p].pc \notin ClaimPc \cup TakeoverPc \cup {"intent"}
    PROVE  Lands(p)
BY KnownCallStays DEF Lands, KnownSnap, Differs

LEMMA NoSuchId ==
    ASSUME TokenType, TokenType'
    PROVE  /\ claim # None => claim.id # 0
           /\ claim' # None => claim'.id # 0
           /\ takeover # None => takeover.id # 0
           /\ takeover' # None => takeover'.id # 0
<1>1. /\ claim # None => claim \in HookClaim
      /\ takeover # None => takeover \in HookTakeover
  BY Stores
<1>2. /\ claim' # None => claim' \in HookClaim'
      /\ takeover' # None => takeover' \in HookTakeover
  BY DEF TokenType, ShardType, Maybe
<1> QED BY <1>1, <1>2, Constants DEF HookClaim, HookTakeover, ClaimIds

LEMMA ReturnLands ==
    ASSUME TokenType, TokenType', Goes, NEW p \in Procs, KnownCall(p),
           NEW pc \in {"idle", "reserve", "force"}, Return(p, pc)
    PROVE  Lands(p) /\ proc'[p].pc = pc
<1>1. /\ Moved(p) /\ proc'[p].pc = pc
      /\ pc = "idle" => proc'[p].hook = None /\ proc'[p].id = 0 /\ proc'[p].vic = None
      /\ pc # "idle" => SameCall(p)
  BY ReturnFlow DEF TokenType
<1>2. pc \notin ClaimPc \cup TakeoverPc \cup {"intent"}
  BY DEF ClaimPc, AnsweredPc, TakeoverPc
<1>3. CASE pc # "idle"
  BY <1>1, <1>2, <1>3, Plain
<1>4. CASE pc = "idle"
  <2>1. KnownCall(p)'
    BY <1>1, <1>4, NoSuchId DEF KnownCall
  <2> QED BY <1>1, <1>2, <2>1 DEF Lands, KnownSnap, Differs
<1> QED BY <1>1, <1>3, <1>4

LEMMA AdmitLands ==
    ASSUME TokenType, NEW p \in Procs, NEW i \in 0..MaxClaims, NEW v \in Maybe(Hooks), Admit(p, i, v),
           claim' # None /\ i = claim'.id => v = None /\ proc[p].hook = claim'.owner,
           takeover' # None /\ i = takeover'.id => v = takeover'.victim /\ proc[p].hook = takeover'.claimer
    PROVE  Lands(p) /\ proc'[p].pc = "apply"
<1>1. /\ Moved(p) /\ proc'[p].pc = "apply"
      /\ proc'[p].hook = proc[p].hook /\ proc'[p].id = i /\ proc'[p].vic = v
  BY AdmitFlow DEF TokenType
<1>2. "apply" \notin ClaimPc \cup TakeoverPc \cup {"intent"}
  BY DEF ClaimPc, AnsweredPc, TakeoverPc
<1> QED BY <1>1, <1>2 DEF Lands, KnownCall, KnownSnap, Differs

(* Reading the claim, or the intent.                                        *)
LEMMA ReadLands ==
    ASSUME TokenType, Names, NEW p \in Procs, Moved(p), KnownCall(p)',
           claim' = claim, takeover' = takeover,
           \/ /\ claim # None /\ proc'[p].snap = claim
              /\ proc'[p].pc \in ClaimPc
           \/ /\ takeover # None /\ proc'[p].snap = takeover
              /\ proc'[p].pc \in TakeoverPc
    PROVE  Lands(p)
<1>1. proc'[p].pc # "intent"
  BY DEF ClaimPc, AnsweredPc, TakeoverPc
<1>2. KnownSnap(p)'
  BY DEF Names, OneHolder, KnownSnap, ClaimPc, AnsweredPc, TakeoverPc
<1> QED BY <1>1, <1>2 DEF Lands, Differs

LEMMA SettleLands ==
    ASSUME TokenType, Names, NEW p \in Procs, NEW t \in {"idle", "reserve", "force"}, takeover # None,
           StartSettle(p, t), claim' = claim, takeover' = takeover
    PROVE  Lands(p) /\ To(p, "ask", takeover, "none", t)
<1>1. To(p, "ask", takeover, "none", t)
  BY SettleFlow
<1>2. KnownCall(p)'
  BY <1>1 DEF Names, KnownCall, To, SameCall
<1> QED BY <1>1, <1>2, ReadLands DEF To, TakeoverPc

LEMMA NamesStep ==
    ASSUME TokenType, Names, Goes, NEW p \in Procs, Lands(p), OneHolder'
    PROVE  Names'
<1>1. ASSUME NEW q \in Procs, q # p PROVE KnownCall(q)' /\ KnownSnap(q)' /\ Differs(q)'
  <2>1. proc'[q] = proc[q]
    BY <1>1 DEF Lands, Moved
  <2>2. KnownCall(q)'
    BY <2>1, KnownCallStays DEF Names, SameCall
  <2>3. KnownSnap(q)'
    BY <2>1, KnownSnapStays DEF Names
  <2> QED BY <2>1, <2>2, <2>3 DEF Names, Differs
<1> QED BY <1>1 DEF Names, Lands

LEMMA NamesStay ==
    ASSUME TokenType, Names, Goes, proc' = proc, OneHolder'
    PROVE  Names'
<1>1. ASSUME NEW q \in Procs PROVE KnownCall(q)' /\ KnownSnap(q)' /\ Differs(q)'
  <2>2. KnownCall(q)'
    BY KnownCallStays DEF Names, SameCall
  <2>3. KnownSnap(q)'
    BY KnownSnapStays DEF Names
  <2> QED BY <2>2, <2>3 DEF Names, Differs
<1> QED BY <1>1 DEF Names

LEMMA SameShard ==
    ASSUME TokenType, Names, UNCHANGED shard
    PROVE  /\ Goes /\ OneHolder' /\ claim' = claim /\ takeover' = takeover /\ record' = record
           /\ retained' = retained
BY DEF shard, Names, OneHolder, Goes, ClaimGoes, TakeoverGoes

Named(p) == Goes /\ OneHolder' /\ Lands(p)

(* The steps that leave the shard alone.                                    *)
LEMMA WalkNames ==
    ASSUME TokenType, TokenType', Names, NEW p \in Procs, UNCHANGED shard,
           \/ \E h \in Hooks : CreateHook(p, h)
           \/ ReserveExpired(p) \/ (\E preempt \in BOOLEAN : ForceOverClaim(p, preempt))
           \/ CompactClaim(p) \/ LookUp(p)
           \/ (\E preempt \in BOOLEAN : ForceOverPending(p, preempt))
    PROVE  Named(p)
<1>1. Goes /\ OneHolder' /\ claim' = claim /\ takeover' = takeover
  BY SameShard
<1>2. KnownCall(p)
  BY DEF Names
<1>3. claim # None => takeover = None
  BY DEF Names, OneHolder
<1>4. ASSUME NEW h \in Hooks, CreateHook(p, h) PROVE Lands(p)
  <2>1. /\ Moved(p) /\ proc'[p].pc \in {"reserve", "force"}
        /\ proc'[p].id = 0
    BY <1>4, CreateFlow DEF TokenType
  <2>2. proc'[p].pc \notin ClaimPc \cup TakeoverPc \cup {"intent"}
    BY <2>1 DEF ClaimPc, AnsweredPc, TakeoverPc
  <2> QED BY <2>1, <2>2, NoSuchId DEF Lands, KnownCall, KnownSnap, Differs
<1>5. ASSUME NEW t \in {"reserveTxn", "preemptTxn"}, claim # None,
             Goto(p, [proc[p] EXCEPT !.pc = "resolve", !.snap = claim, !.then = t])
      PROVE  Lands(p)
  <2>1. "resolve" \in Pc /\ t \in Pc /\ claim \in Snap
    BY <1>5, Stores, InSnap DEF Pc
  <2>2. To(p, "resolve", claim, proc[p].ans, t)
    BY <1>5, <2>1, SnapThenFlow DEF TokenType
  <2>3. KnownCall(p)' /\ "resolve" \in ClaimPc
    BY <1>1, <1>2, <2>2, KnownCallStays DEF To, ClaimPc
  <2> QED BY <1>1, <1>5, <2>2, <2>3, ReadLands DEF To
<1>6. CASE ReserveExpired(p)
  BY <1>1, <1>5, <1>6 DEF Named, ReserveExpired, ClaimExpired
<1>7. CASE \E preempt \in BOOLEAN : ForceOverClaim(p, preempt)
  BY <1>1, <1>2, <1>5, <1>7, ReturnLands DEF ForceOverClaim, Named
<1>8. CASE CompactClaim(p)
  <2>1. claim \in HookClaim /\ claim # None
    BY <1>8, Stores DEF CompactClaim, ClaimExpired
  <2>2. /\ Moved(p) /\ proc'[p].pc = "resolve" /\ proc'[p].snap = claim /\ proc'[p].id = 0
    BY <1>8, <2>1, CompactFlow DEF TokenType
  <2>3. KnownCall(p)' /\ "resolve" \in ClaimPc
    BY <2>2, NoSuchId DEF KnownCall, ClaimPc
  <2> QED BY <1>1, <2>1, <2>2, <2>3, ReadLands DEF Named
<1>9. CASE LookUp(p)
  <2>1. claim \in HookClaim /\ claim # None
    BY <1>9, Stores DEF LookUp
  <2>2. /\ Moved(p) /\ proc'[p].pc = "getTxn" /\ proc'[p].snap = claim /\ proc'[p].id = 0
    BY <1>9, <2>1, LookUpFlow DEF TokenType
  <2>3. KnownCall(p)' /\ "getTxn" \in ClaimPc
    BY <2>2, NoSuchId DEF KnownCall, ClaimPc, AnsweredPc
  <2> QED BY <1>1, <2>1, <2>2, <2>3, ReadLands DEF Named
<1>10. CASE \E preempt \in BOOLEAN : ForceOverPending(p, preempt)
  <2>1. takeover # None /\ claim = None
    BY <1>3, <1>10 DEF ForceOverPending
  <2>2. takeover.id \in 0..MaxClaims /\ takeover.victim \in Maybe(Hooks)
    BY <2>1, Stores, Constants DEF ClaimIds, Maybe
  <2>3. CASE takeover.claimer = proc[p].hook /\ Admit(p, takeover.id, takeover.victim)
    BY <1>1, <2>1, <2>2, <2>3, AdmitLands DEF Named
  <2>4. CASE StartSettle(p, "force")
    BY <1>1, <2>1, <2>4, SettleLands DEF Named
  <2> QED BY <1>10, <2>3, <2>4 DEF ForceOverPending
<1> QED BY <1>1, <1>4, <1>6, <1>7, <1>8, <1>9, <1>10 DEF Named

LEMMA PutClaimFlow ==
    ASSUME TokenType, NEW p \in Procs, proc[p].hook \in Hooks, setup' = setup, takeover' = takeover,
           PutClaim(p, proc[p].hook)
    PROVE  /\ claim' # None /\ claim'.id = minted + 1 /\ claim'.owner = proc[p].hook
           /\ minted' = minted + 1 /\ minted + 1 \in 0..MaxClaims /\ minted + 1 # 0
           /\ Admit(p, minted + 1, None)
           /\ takeover # None => takeover.id # minted + 1
<1>1. /\ minted' \in 0..MaxClaims /\ minted' = minted + 1
      /\ claim' # None /\ claim'.id = minted + 1 /\ claim'.owner = proc[p].hook
  BY PutClaimType
<1>2. minted \in Nat /\ (takeover # None => takeover.id \in Nat /\ takeover.id <= minted)
  BY At1, Stores, Constants DEF ClaimIds
<1> QED BY <1>1, <1>2 DEF PutClaim

LEMMA ConflictLands ==
    ASSUME TokenType, TokenType', Goes, NEW p \in Procs, KnownCall(p), Conflict(p)
    PROVE  Lands(p) /\ proc'[p].pc \in {"idle", "force"}
<1>1. PICK pc \in {"idle", "force"} : Return(p, pc)
  BY DEF Conflict
<1> QED BY <1>1, ReturnLands

LEMMA ReserveTxnNames ==
    ASSUME TokenType, TokenType', Names, NEW p \in Procs, proc[p].hook \in Hooks, NEW old,
           NEW committed \in BOOLEAN, ReserveTxn(p, proc[p].hook, old, committed), setup' = setup
    PROVE  Named(p)
<1>1. KnownCall(p)
  BY DEF Names
<1>2. CASE UNCHANGED shard /\ (Admit(p, 0, None) \/ Conflict(p))
  <2>1. Goes /\ OneHolder' /\ claim' = claim /\ takeover' = takeover
    BY <1>2, SameShard
  <2>2. CASE Admit(p, 0, None)
    <3>1. 0 \in 0..MaxClaims /\ None \in Maybe(Hooks)
      BY Constants DEF Maybe
    <3> QED BY <2>1, <2>2, <3>1, NoSuchId, AdmitLands DEF Named
  <2> QED BY <1>1, <1>2, <2>1, <2>2, ConflictLands DEF Named
<1>3. CASE UNCHANGED shard /\ takeover # None /\ StartSettle(p, "reserve")
  <2>1. Goes /\ OneHolder' /\ claim' = claim /\ takeover' = takeover
    BY <1>3, SameShard
  <2> QED BY <1>3, <2>1, SettleLands DEF Named
<1>4. CASE /\ RetentionOver \/ (record = None /\ takeover = None)
           /\ record' = None
           /\ ReserveClaim(p, proc[p].hook, old, committed)
           /\ UNCHANGED takeover
  <2>0. takeover = None /\ takeover' = None /\ None \in Maybe(Hooks)
    BY <1>4 DEF RetentionOver, Maybe
  <2>1. OneHolder'
    BY <1>4, <2>0 DEF OneHolder
  <2>2. CASE PutClaim(p, proc[p].hook)
    <3>1. /\ claim' # None /\ claim'.id = minted + 1 /\ claim'.owner = proc[p].hook
          /\ minted + 1 \in 0..MaxClaims /\ Admit(p, minted + 1, None)
      BY <1>4, <2>2, PutClaimFlow
    <3>2. Goes
      BY <2>0, <3>1 DEF Goes, ClaimGoes, TakeoverGoes
    <3>3. Lands(p)
      BY <2>0, <3>1, AdmitLands
    <3> QED BY <2>1, <3>2, <3>3 DEF Named
  <2>3. CASE SameClaim /\ Told(p)
    <3>1. Goes
      BY <2>0, <2>3 DEF Goes, ClaimGoes, TakeoverGoes, SameClaim
    <3>2. CASE claim.owner = proc[p].hook /\ Admit(p, claim.id, None)
      <4>1. claim.id \in 0..MaxClaims
        BY <2>3, Stores, Constants DEF ClaimIds, SameClaim
      <4>2. Lands(p)
        BY <2>0, <2>3, <3>2, <4>1, AdmitLands DEF SameClaim
      <4> QED BY <2>1, <3>1, <4>2 DEF Named
    <3>3. CASE Conflict(p)
      BY <1>1, <2>1, <3>1, <3>3, ConflictLands DEF Named
    <3>4. CASE Return(p, "reserve")
      BY <1>1, <2>1, <3>1, <3>4, ReturnLands DEF Named
    <3> QED BY <2>3, <3>2, <3>3, <3>4 DEF Told
  <2> QED BY <1>4, <2>2, <2>3, ReserveClaimCases
<1>5. \/ UNCHANGED shard /\ (Admit(p, 0, None) \/ Conflict(p))
      \/ UNCHANGED shard /\ takeover # None /\ StartSettle(p, "reserve")
      \/ /\ RetentionOver \/ (record = None /\ takeover = None)
         /\ record' = None
         /\ ReserveClaim(p, proc[p].hook, old, committed)
         /\ UNCHANGED takeover
  BY DEF ReserveTxn
<1> QED BY <1>2, <1>3, <1>4, <1>5

LEMMA ReserveNames ==
    ASSUME TokenType, TokenType', Names, NEW p \in Procs, Reserve(p) \/ ReserveResolved(p)
    PROVE  Named(p)
<1>1. proc[p].hook \in Hooks /\ setup' = setup
  BY At1 DEF Reserve, ReserveResolved, At, HookPc, Stays
<1>2. CASE Reserve(p)
  BY <1>1, <1>2, ReserveTxnNames DEF Reserve
<1>3. CASE ReserveResolved(p)
  <2>1. (proc[p].ans = "hook") \in BOOLEAN
    OBVIOUS
  <2> QED BY <1>1, <1>3, <2>1, ReserveTxnNames DEF ReserveResolved
<1> QED BY <1>2, <1>3

(* The steps that ask a cell and go on with what was read.                  *)
LEMMA AskingNames ==
    ASSUME TokenType, TokenType', Names, NEW p \in Procs,
           ResolveExpiredHookClaim(p) \/ ResolveForcedHookClaim(p) \/ ForceDispose(p)
    PROVE  Named(p)
<1>0. UNCHANGED shard
  BY DEF ResolveExpiredHookClaim, ResolveForcedHookClaim, ForceDispose
<1>1. Goes /\ OneHolder'
  BY <1>0, SameShard
<1>2. /\ Moved(p) /\ SameCall(p) /\ proc'[p].snap = proc[p].snap /\ proc'[p].pc # "intent"
      /\ proc'[p].pc \in ClaimPc => proc[p].pc \in ClaimPc
      /\ proc'[p].pc \in TakeoverPc => proc[p].pc \in TakeoverPc
  <2>1. CASE ResolveExpiredHookClaim(p)
    <3>1. proc[p].pc = "resolve"
      BY <2>1 DEF ResolveExpiredHookClaim, At
    <3>2. /\ proc[p].then \in {"reserveTxn", "preemptTxn", "compactTxn"}
          /\ To(p, proc[p].then, proc[p].snap, IF Live(proc[p].snap.owner) THEN "hook" ELSE "none",
                proc[p].then)
      BY <2>1, ResolveFlow
    <3> QED BY <3>1, <3>2 DEF To, ClaimPc, TakeoverPc
  <2>2. CASE ResolveForcedHookClaim(p)
    <3>1. proc[p].pc = "ask"
      BY <2>2 DEF ResolveForcedHookClaim, At
    <3>2. PICK pc, a : pc \in {"dispose", "rollback"} /\ To(p, pc, proc[p].snap, a, proc[p].then)
      BY <2>2, AskFlow
    <3> QED BY <3>1, <3>2 DEF To, ClaimPc, AnsweredPc, TakeoverPc
  <2>3. CASE ForceDispose(p)
    <3>1. proc[p].pc = "dispose" /\ "repoint" \in Pc
      BY <2>3 DEF ForceDispose, At, Pc
    <3>2. To(p, "repoint", proc[p].snap, proc[p].ans, proc[p].then)
      BY <2>3, <3>1, PcFlow DEF ForceDispose, TokenType
    <3> QED BY <3>1, <3>2 DEF To, ClaimPc, AnsweredPc, TakeoverPc
  <2> QED BY <2>1, <2>2, <2>3
<1>3. KnownCall(p)' /\ KnownSnap(p)'
  BY <1>1, <1>2, KnownCallStays, KnownSnapStays DEF Names
<1> QED BY <1>1, <1>2, <1>3 DEF Named, Lands, Differs

LEMMA ForceOverRecordNames ==
    ASSUME TokenType, TokenType', Names, NEW p \in Procs, ForceOverRecord(p)
    PROVE  Named(p)
<1>0. UNCHANGED shard
  BY DEF ForceOverRecord
<1>1. Goes /\ OneHolder' /\ claim' = claim /\ takeover' = takeover /\ KnownCall(p)
  BY <1>0, SameShard DEF Names
<1>2. CASE Admit(p, 0, None)
  <2>1. 0 \in 0..MaxClaims /\ None \in Maybe(Hooks)
    BY Constants DEF Maybe
  <2> QED BY <1>1, <1>2, <2>1, NoSuchId, AdmitLands DEF Named
<1>3. CASE Return(p, "idle")
  BY <1>1, <1>3, ReturnLands DEF Named
<1>4. CASE Describing(p)
  <2>1. PICK d \in Described : /\ d.victim = record /\ record # proc[p].hook
                               /\ To(p, "intent", d, proc[p].ans, proc[p].then)
    BY <1>4 DEF Describing
  <2>2. KnownCall(p)'
    BY <1>1, <2>1, KnownCallStays DEF To
  <2>3. Lands(p)
    BY <2>1, <2>2 DEF To, SameCall, Lands, KnownSnap, Differs, ClaimPc, AnsweredPc, TakeoverPc
  <2> QED BY <1>1, <2>3 DEF Named
<1> QED BY <1>2, <1>3, <1>4, ForceOverRecordFlow

LEMMA WriteIntentNames ==
    ASSUME TokenType, TokenType', Names, NEW p \in Procs, WriteIntent(p)
    PROVE  Named(p)
<1>0. KnownCall(p) /\ OneHolder
  BY DEF Names
<1>1. CASE Return(p, "force") /\ UNCHANGED <<shard, minted>>
  <2>1. Goes /\ OneHolder'
    BY <1>1, SameShard
  <2> QED BY <1>0, <1>1, <2>1, ReturnLands DEF Named
<1>2. CASE record' = None /\ Return(p, "force") /\ UNCHANGED <<claim, takeover, minted>>
  <2>1. Goes /\ OneHolder'
    BY <1>0, <1>2 DEF Goes, ClaimGoes, TakeoverGoes, OneHolder
  <2> QED BY <1>0, <1>2, <2>1, ReturnLands DEF Named
<1>3. CASE Intends(p)
  <2>1. record \in Hooks /\ record # None /\ claim = None /\ record = proc[p].snap.victim
    BY <1>0, <1>3, WriteIntentFlow, Constants DEF Intends, OneHolder
  <2>2. proc[p].hook # proc[p].snap.victim
    BY DEF WriteIntent, At, Names, Differs
  <2>3. claim' = None /\ takeover' # None /\ record' = record
    BY <1>3, <2>1 DEF Intends
  <2>4. Goes /\ OneHolder'
    BY <1>3, <2>1, <2>2, <2>3 DEF Intends, Goes, ClaimGoes, TakeoverGoes, OneHolder
  <2>5. minted + 1 \in 0..MaxClaims /\ proc[p].snap.victim \in Maybe(Hooks)
    BY <1>3, WriteIntentFlow, At1, Constants DEF Intends, Maybe
  <2>6. Lands(p)
    BY <1>3, <2>3, <2>5, AdmitLands DEF Intends
  <2> QED BY <2>4, <2>6 DEF Named
<1> QED BY <1>1, <1>2, <1>3, WriteIntentFlow

LEMMA PublishClaimNames ==
    ASSUME TokenType, TokenType', Names, NEW p \in Procs, NEW t \in {"idle", "force"},
           claim # None, PublishClaim(p, t)
    PROVE  Named(p)
<1>1. claim.owner \in Hooks /\ takeover = None /\ KnownCall(p)
  BY Stores DEF Names, OneHolder
<1>2. Goes /\ OneHolder'
  BY <1>1 DEF PublishClaim, Goes, ClaimGoes, TakeoverGoes, OneHolder
<1>3. CASE ConfirmNext(p, claim.owner, t)
  <2>1. To(p, "confirm", claim.owner, "none", t)
    BY <1>1, <1>3, ConfirmFlow
  <2>2. proc'[p].pc \notin ClaimPc \cup TakeoverPc \cup {"intent"}
    BY <2>1 DEF To, ClaimPc, AnsweredPc, TakeoverPc
  <2> QED BY <1>1, <1>2, <2>1, <2>2, Plain DEF To, Named
<1>4. CASE Return(p, t)
  BY <1>1, <1>2, <1>4, ReturnLands DEF Named
<1> QED BY <1>3, <1>4 DEF PublishClaim

LEMMA PublishNames ==
    ASSUME TokenType, TokenType', Names, NEW p \in Procs,
           PreemptClaim(p) \/ CompactClaimResolved(p) \/ PublishCommittedClaim(p)
    PROVE  Named(p)
<1>1. PICK t \in {"idle", "force"} : \/ claim # None /\ PublishClaim(p, t)
                                     \/ Return(p, t) /\ UNCHANGED shard
  <2>1. CASE CompactClaimResolved(p)
    <3>1. proc[p].snap \in HookClaim
      BY <2>1, At1 DEF CompactClaimResolved, At, FrameFits, ClaimPc, AnsweredPc
    <3>2. proc[p].snap # None
      BY <3>1, Records DEF TokenType
    <3> QED BY <2>1, <3>2 DEF CompactClaimResolved
  <2> QED BY <2>1 DEF PreemptClaim, PublishCommittedClaim
<1>2. CASE Return(p, t) /\ UNCHANGED shard
  <2>1. Goes /\ OneHolder' /\ KnownCall(p)
    BY <1>2, SameShard DEF Names
  <2> QED BY <1>2, <2>1, ReturnLands DEF Named
<1> QED BY <1>1, <1>2, PublishClaimNames

LEMMA LostFlow ==
    ASSUME TokenType, NEW p \in Procs, ApplyLost(p)
    PROVE  To(p, "ambiguous", proc[p].snap, proc[p].ans, proc[p].then)
<1>1. "ambiguous" \in Pc
  BY DEF Pc
<1> QED BY <1>1, PcFlow DEF ApplyLost, TokenType

LEMMA ConfirmedFlow ==
    ASSUME TokenType, NEW p \in Procs, Confirm(p)
    PROVE  \/ Return(p, proc[p].then)
           \/ ~Live(proc[p].snap) /\ To(p, "withdraw", proc[p].snap, proc[p].ans, proc[p].then)
<1>1. "withdraw" \in Pc
  BY DEF Pc
<1> QED BY <1>1, PcFlow DEF Confirm, TokenType

LEMMA CreationNames ==
    ASSUME TokenType, TokenType', Names, NEW p \in Procs,
           \/ HookIdReserveFails(p) \/ ApplyAnswered(p) \/ ApplyLost(p) \/ ResolveAmbiguous(p)
           \/ FinalizeAsk(p) \/ Confirm(p)
    PROVE  Named(p)
<1>0. UNCHANGED shard
  BY DEF HookIdReserveFails, ApplyAnswered, ApplyLost, ResolveAmbiguous, FinalizeAsk, Confirm
<1>1. Goes /\ OneHolder' /\ KnownCall(p)
  BY <1>0, SameShard DEF Names
<1>2. ASSUME NEW pc \in {"release", "finalize", "ambiguous", "store", "withdraw"}, NEW s, NEW a, NEW t,
             To(p, pc, s, a, t)
      PROVE  Named(p)
  <2>1. proc'[p].pc \notin ClaimPc \cup TakeoverPc \cup {"intent"}
    BY <1>2 DEF To, ClaimPc, AnsweredPc, TakeoverPc
  <2> QED BY <1>1, <1>2, <2>1, Plain DEF To, Named
<1>3. CASE HookIdReserveFails(p)
  BY <1>2, <1>3, ToRelease DEF HookIdReserveFails
<1>4. CASE ApplyAnswered(p)
  BY <1>2, <1>4, AnsweredFlow DEF Answered
<1>5. CASE ApplyLost(p)
  BY <1>2, <1>5, LostFlow
<1>6. CASE ResolveAmbiguous(p)
  <2>1. CASE Return(p, "idle")
    BY <1>1, <2>1, ReturnLands DEF Named
  <2>2. CASE Goto(p, [proc[p] EXCEPT !.pc = "release", !.then = "idle"])
    BY <1>2, <2>2, ToRelease
  <2> QED BY <1>6, <2>1, <2>2 DEF ResolveAmbiguous
<1>7. CASE FinalizeAsk(p)
  BY <1>2, <1>7, FinalizeAskFlow
<1>8. CASE Confirm(p)
  <2>1. PICK t \in {"idle", "reserve", "force"} : t = proc[p].then
    BY <1>8, Back DEF Confirm, At, OwnerPc
  <2> QED BY <1>1, <1>2, <1>8, <2>1, ConfirmedFlow, ReturnLands DEF Named
<1> QED BY <1>3, <1>4, <1>5, <1>6, <1>7, <1>8

LEMMA SettlesNames ==
    ASSUME TokenType, TokenType', Names, NEW p \in Procs,
           SettleAmbiguous(p) \/ CompleteTakeover(p) \/ SettleTakeover(p) \/ Lose(p)
    PROVE  Named(p)
<1>0. UNCHANGED shard
  BY DEF SettleAmbiguous, CompleteTakeover, SettleTakeover, Lose
<1>1. Goes /\ OneHolder' /\ KnownCall(p) /\ claim' = claim /\ takeover' = takeover
  BY <1>0, SameShard DEF Names
<1>2. CASE Return(p, "idle")
  BY <1>1, <1>2, ReturnLands DEF Named
<1>3. CASE takeover # None /\ StartSettle(p, "idle")
  BY <1>1, <1>3, SettleLands DEF Named
<1>4. CASE Mine(p) /\ takeover \in HookTakeover /\ To(p, "dispose", takeover, "hook", "idle")
  <2>1. KnownCall(p)'
    BY <1>1, <1>4, KnownCallStays DEF To
  <2> QED BY <1>1, <1>4, <2>1, ReadLands DEF Mine, To, TakeoverPc, Named
<1>5. Lose(p) => Return(p, "idle")
  BY DEF Lose, Return
<1> QED BY <1>2, <1>3, <1>4, <1>5, CompleteFlow DEF SettleAmbiguous, SettleTakeover

LEMMA GivesBack ==
    ASSUME OneHolder, claim' = claim \/ claim' = None, takeover' = takeover \/ takeover' = None,
           record' = record \/ record' = None
    PROVE  Goes /\ OneHolder'
BY DEF OneHolder, Goes, ClaimGoes, TakeoverGoes

LEMMA BatchGivesBack ==
    ASSUME OneHolder, NEW h, NEW ended, ReleaseBatch(h, ended)
    PROVE  Goes /\ OneHolder'
BY GivesBack DEF ReleaseBatch

LEMMA ReleaseNames ==
    ASSUME TokenType, TokenType', Names, NEW p \in Procs, Release(p) \/ RollBack(p) \/ Withdraw(p)
    PROVE  Named(p)
<1>1. /\ claim' = claim \/ claim' = None
      /\ takeover' = takeover \/ takeover' = None
      /\ record' = record \/ record' = None
  BY DEF Release, RollBack, Withdraw
<1>2. Goes /\ OneHolder' /\ KnownCall(p)
  BY <1>1, GivesBack DEF Names
<1>3. PICK t \in {"idle", "reserve", "force"} : t = proc[p].then
  BY Back DEF Release, RollBack, Withdraw, At, TakeoverPc, OwnerPc
<1>4. CASE Return(p, t)
  BY <1>2, <1>4, ReturnLands DEF Named
<1>5. CASE Mine(p) /\ StartSettle(p, t) /\ claim' = claim /\ takeover' = takeover
  BY <1>2, <1>5, SettleLands DEF Named, Mine
<1> QED BY <1>3, <1>4, <1>5 DEF Release, RollBack, Withdraw

LEMMA FinalizeStoreNames ==
    ASSUME TokenType, TokenType', Names, NEW p \in Procs, FinalizeStore(p)
    PROVE  Named(p)
<1>0. OneHolder /\ KnownCall(p) /\ Return(p, "idle")
  BY DEF Names, FinalizeStore
<1>1. CASE ReleaseBatch(proc[p].hook, FALSE)
  BY <1>0, <1>1, BatchGivesBack, ReturnLands DEF Named
<1>2. CASE MayStore(proc[p].hook, proc[p].id) /\ record' = proc[p].hook /\ claim' = None /\ UNCHANGED takeover
  <2>1. Goes /\ OneHolder'
    BY <1>0, <1>2 DEF MayStore, OneHolder, Goes, ClaimGoes, TakeoverGoes
  <2> QED BY <1>0, <2>1, ReturnLands DEF Named
<1>3. CASE UNCHANGED shard
  BY <1>0, <1>3, SameShard, ReturnLands DEF Named
<1> QED BY <1>1, <1>2, <1>3 DEF FinalizeStore

LEMMA RepointNames ==
    ASSUME TokenType, TokenType', Names, NEW p \in Procs, Repoint(p)
    PROVE  Named(p)
<1>0. OneHolder /\ KnownCall(p) /\ claim' = claim
  BY DEF Names, Repoint
<1>1. Goes /\ OneHolder'
  BY <1>0 DEF Repoint, Pending, OneHolder, Goes, ClaimGoes, TakeoverGoes
<1>2. PICK t \in {"idle", "reserve", "force"} : t = proc[p].then
  BY Back DEF Repoint, At, TakeoverPc
<1>3. proc[p].snap.claimer \in Hooks
  BY Settling1 DEF Repoint, At, TakeoverPc
<1>4. CASE ConfirmNext(p, proc[p].snap.claimer, t)
  <2>1. To(p, "confirm", proc[p].snap.claimer, "none", t)
    BY <1>3, <1>4, ConfirmFlow
  <2>2. proc'[p].pc \notin ClaimPc \cup TakeoverPc \cup {"intent"}
    BY <2>1 DEF To, ClaimPc, AnsweredPc, TakeoverPc
  <2> QED BY <1>0, <1>1, <2>1, <2>2, Plain DEF To, Named
<1>5. CASE Return(p, t)
  BY <1>0, <1>1, <1>5, ReturnLands DEF Named
<1> QED BY <1>2, <1>4, <1>5 DEF Repoint

(* The steps of the cells and of time.                                      *)
LEMMA OtherNames ==
    ASSUME TokenType, Names,
           \/ \E c \in late : ApplyLate(c)
           \/ CompactRetained \/ Expire
           \/ \E h \in Hooks : \/ DisposeHook(h) \/ ReleaseDisposed(h) \/ EndRun(h) \/ ExpireRun(h)
                               \/ ReleaseCleanup(h)
    PROVE  Goes /\ OneHolder' /\ proc' = proc
<1>0. OneHolder
  BY DEF Names
<1>1. CASE \E c \in late : ApplyLate(c)
  BY <1>1, SameShard DEF ApplyLate
<1>2. CASE CompactRetained
  BY <1>0, <1>2, GivesBack DEF CompactRetained
<1>3. CASE Expire
  BY <1>0, <1>3, Expired DEF Goes, ClaimGoes, TakeoverGoes, OneHolder
<1>4. ASSUME NEW h \in Hooks, DisposeHook(h) \/ EndRun(h) \/ ExpireRun(h)
      PROVE  Goes /\ OneHolder' /\ proc' = proc
  BY <1>4, SameShard DEF DisposeHook, EndRun, ExpireRun
<1>5. ASSUME NEW h \in Hooks, ReleaseDisposed(h) \/ ReleaseCleanup(h)
      PROVE  Goes /\ OneHolder' /\ proc' = proc
  BY <1>0, <1>5, BatchGivesBack DEF ReleaseDisposed, ReleaseCleanup
<1> QED BY <1>1, <1>2, <1>3, <1>4, <1>5

LEMMA ProcNames ==
    ASSUME TokenType, TokenType', Names, NEW p \in Procs,
           Admission(p) \/ Creation(p) \/ Settling(p) \/ Upkeep(p) \/ Lose(p)
    PROVE  Named(p)
<1>1. CASE Admission(p)
  <2>1. CASE \E h \in Hooks : CreateHook(p, h)
    BY <2>1, WalkNames DEF CreateHook
  <2>2. CASE Reserve(p) \/ ReserveExpired(p) \/ ReserveResolved(p) \/ ResolveExpiredHookClaim(p)
    BY <2>2, ReserveNames, WalkNames, AskingNames DEF ReserveExpired
  <2>3. CASE \E preempt \in BOOLEAN : ForceOverPending(p, preempt) \/ ForceOverClaim(p, preempt)
    BY <2>3, WalkNames DEF ForceOverPending, ForceOverClaim
  <2>4. CASE ForceOverRecord(p) \/ WriteIntent(p) \/ PreemptClaim(p) \/ HookIdReserveFails(p)
    BY <2>4, ForceOverRecordNames, WriteIntentNames, PublishNames, CreationNames
  <2> QED BY <1>1, <2>1, <2>2, <2>3, <2>4 DEF Admission
<1>2. CASE Creation(p)
  BY <1>2, CreationNames, SettlesNames, ReleaseNames, FinalizeStoreNames DEF Creation
<1>3. CASE Settling(p)
  BY <1>3, AskingNames, ReleaseNames, RepointNames, CreationNames DEF Settling
<1>4. CASE Upkeep(p)
  BY <1>4, WalkNames, PublishNames, SettlesNames DEF Upkeep, CompactClaim, LookUp
<1>5. CASE Lose(p)
  BY <1>5, SettlesNames
<1> QED BY <1>1, <1>2, <1>3, <1>4, <1>5

LEMMA NextNames == TokenType /\ TokenType' /\ Names /\ [Next]_vars => Names'
<1> SUFFICES ASSUME TokenType, TokenType', Names, [Next]_vars PROVE Names'
  OBVIOUS
<1>1. CASE UNCHANGED vars
  BY <1>1, SameShard, NamesStay DEF vars
<1>2. ASSUME NEW p \in setup.procs,
             Admission(p) \/ Creation(p) \/ Settling(p) \/ Upkeep(p) \/ Lose(p)
      PROVE  Names'
  <2>1. p \in Procs
    BY SetupFields DEF TokenType
  <2> QED BY <1>2, <2>1, ProcNames, NamesStep DEF Named
<1>3. CASE \/ \E c \in late : ApplyLate(c)
           \/ CompactRetained \/ Expire
           \/ \E h \in Hooks : \/ DisposeHook(h) \/ ReleaseDisposed(h) \/ EndRun(h) \/ ExpireRun(h)
                               \/ ReleaseCleanup(h)
  BY <1>3, OtherNames, NamesStay
<1> QED BY <1>1, <1>2, <1>3 DEF Next

LEMMA NamesInvariant == Spec => [](TokenType /\ Names)
<1>1. Init => Names
  <2> SUFFICES ASSUME Init PROVE Names
    OBVIOUS
  <2>1. \A p \in Procs : proc[p].pc = "idle"
    BY IdleFrame DEF Init
  <2> QED BY <2>1 DEF Init, Names, OneHolder, KnownCall, KnownSnap, Differs, ClaimPc, AnsweredPc,
                     TakeoverPc
<1> QED BY <1>1, InitType, NextType, NextNames, PTL DEF Spec

-----------------------------------------------------------------------------
(* Where a step of a process leads *)

LEMMA ConflictFlow ==
    ASSUME TokenType, NEW p \in Procs, Conflict(p)
    PROVE  Moved(p) /\ proc'[p].pc \in {"idle", "force"}
<1>1. PICK pc \in {"idle", "force"} : Return(p, pc)
  BY DEF Conflict
<1> QED BY <1>1, ReturnFlow DEF TokenType

LEMMA BackFlow ==
    ASSUME TokenType, NEW p \in Procs, proc[p].pc \in TakeoverPc \cup OwnerPc \cup {"release"},
           Return(p, proc[p].then)
    PROVE  Moved(p) /\ proc'[p].pc \in {"idle", "reserve", "force"}
<1>1. PICK pc \in {"idle", "reserve", "force"} : pc = proc[p].then
  BY Back
<1> QED BY <1>1, ReturnFlow DEF TokenType

LEMMA ResolvingFlow ==
    ASSUME TokenType, NEW p \in Procs,
           \/ ReserveExpired(p)
           \/ (\E preempt \in BOOLEAN : ForceOverClaim(p, preempt)) /\ ~Return(p, "reserve")
    PROVE  /\ claim # None /\ Moved(p) /\ SameCall(p)
           /\ proc'[p].pc = "resolve" /\ proc'[p].snap = claim
<1>1. PICK t \in {"reserveTxn", "preemptTxn"} :
           claim # None /\ Goto(p, [proc[p] EXCEPT !.pc = "resolve", !.snap = claim, !.then = t])
  BY DEF ReserveExpired, ForceOverClaim, ClaimExpired
<1>2. "resolve" \in Pc /\ t \in Pc /\ claim \in Snap
  BY <1>1, Stores, InSnap DEF Pc
<1>3. To(p, "resolve", claim, proc[p].ans, t)
  BY <1>1, <1>2, SnapThenFlow DEF TokenType
<1> QED BY <1>1, <1>3 DEF To

AdmitPc == {"idle", "reserve", "force", "apply", "ambiguous", "resolve"}

(* A place that relies on nothing, or a takeover to settle.                 *)
Starts(p) ==
    /\ Moved(p)
    /\ \/ proc'[p].pc \in AdmitPc
       \/ proc'[p].pc = "ask" /\ takeover # None /\ proc'[p].snap = takeover

LEMMA ReturnStarts ==
    ASSUME TokenType, NEW p \in Procs, NEW pc \in {"idle", "reserve", "force"}, Return(p, pc)
    PROVE  Starts(p)
BY ReturnFlow DEF Starts, AdmitPc, TokenType

LEMMA SettleStarts ==
    ASSUME TokenType, NEW p \in Procs, NEW t \in {"idle", "reserve", "force"}, takeover # None,
           StartSettle(p, t)
    PROVE  Starts(p)
BY SettleFlow DEF Starts, To

LEMMA AdmitStarts ==
    ASSUME TokenType, NEW p \in Procs, NEW i \in 0..MaxClaims, NEW v \in Maybe(Hooks), Admit(p, i, v)
    PROVE  Starts(p)
BY AdmitFlow DEF Starts, AdmitPc, TokenType

LEMMA ConflictStarts ==
    ASSUME TokenType, NEW p \in Procs, Conflict(p)
    PROVE  Starts(p)
BY ConflictFlow DEF Starts, AdmitPc

LEMMA ReserveStarts ==
    ASSUME TokenType, NEW p \in Procs, Reserve(p) \/ ReserveResolved(p)
    PROVE  Starts(p)
<1>0. proc[p].hook \in Hooks /\ setup' = setup /\ None \in Maybe(Hooks)
  BY At1 DEF Reserve, ReserveResolved, At, HookPc, Stays, Maybe
<1>1. PICK committed \in BOOLEAN : \E old : ReserveTxn(p, proc[p].hook, old, committed)
  <2>1. (proc[p].ans = "hook") \in BOOLEAN /\ FALSE \in BOOLEAN
    OBVIOUS
  <2> QED BY <2>1 DEF Reserve, ReserveResolved
<1>5. PICK old : ReserveTxn(p, proc[p].hook, old, committed)
  BY <1>1
<1>2. CASE Admit(p, 0, None) \/ Conflict(p)
  <2>1. 0 \in 0..MaxClaims
    BY Constants
  <2> QED BY <1>0, <1>2, <2>1, AdmitStarts, ConflictStarts
<1>3. CASE takeover # None /\ StartSettle(p, "reserve")
  BY <1>3, SettleStarts
<1>4. CASE ReserveClaim(p, proc[p].hook, old, committed) /\ UNCHANGED takeover
  <2>1. CASE PutClaim(p, proc[p].hook)
    <3>1. minted + 1 \in 0..MaxClaims /\ Admit(p, minted + 1, None)
      BY <1>0, <1>4, <2>1, PutClaimFlow
    <3> QED BY <1>0, <3>1, AdmitStarts
  <2>2. CASE SameClaim /\ Told(p)
    <3>1. claim.id \in 0..MaxClaims
      BY <2>2, Stores, Constants DEF ClaimIds, SameClaim
    <3> QED BY <1>0, <2>2, <3>1, AdmitStarts, ConflictStarts, ReturnStarts DEF Told
  <2> QED BY <1>4, <2>1, <2>2, ReserveClaimCases
<1> QED BY <1>5, <1>2, <1>3, <1>4 DEF ReserveTxn

LEMMA AdmissionStarts ==
    ASSUME TokenType, NEW p \in Procs,
           \/ \E h \in Hooks : CreateHook(p, h)
           \/ ReserveExpired(p)
           \/ \E preempt \in BOOLEAN : ForceOverPending(p, preempt) \/ ForceOverClaim(p, preempt)
           \/ WriteIntent(p)
    PROVE  Starts(p)
<1>1. CASE \E h \in Hooks : CreateHook(p, h)
  BY <1>1, CreateFlow DEF Starts, AdmitPc, TokenType
<1>2. CASE ReserveExpired(p) \/ \E preempt \in BOOLEAN : ForceOverClaim(p, preempt)
  BY <1>2, ResolvingFlow, ReturnStarts DEF Starts, AdmitPc
<1>3. CASE \E preempt \in BOOLEAN : ForceOverPending(p, preempt)
  <2>1. takeover # None
    BY <1>3 DEF ForceOverPending
  <2>2. takeover.id \in 0..MaxClaims /\ takeover.victim \in Maybe(Hooks)
    BY <2>1, Stores, Constants DEF ClaimIds, Maybe
  <2> QED BY <1>3, <2>1, <2>2, AdmitStarts, SettleStarts DEF ForceOverPending
<1>4. CASE WriteIntent(p)
  <2>1. minted < MaxClaims => minted + 1 \in 0..MaxClaims
    BY At1, Constants
  <2> QED BY <1>4, <2>1, WriteIntentFlow, ReturnStarts, AdmitStarts DEF Intends, Maybe
<1> QED BY <1>1, <1>2, <1>3, <1>4

LEMMA PublishFlow ==
    ASSUME TokenType, NEW p \in Procs, NEW t \in {"idle", "reserve", "force"}, claim # None,
           PublishClaim(p, t)
    PROVE  \/ proc[p].ans # "hook" /\ Return(p, t)
           \/ proc[p].ans = "hook" /\ To(p, "confirm", claim.owner, "none", t)
<1>1. claim.owner \in Hooks
  BY Stores
<1> QED BY <1>1, ConfirmFlow DEF PublishClaim

LEMMA RepointFlow ==
    ASSUME TokenType, NEW p \in Procs, Repoint(p)
    PROVE  \/ Starts(p)
           \/ /\ Pending(p) /\ proc[p].ans = "hook"
              /\ To(p, "confirm", proc[p].snap.claimer, "none", proc[p].then)
<1>1. PICK t \in {"idle", "reserve", "force"} : t = proc[p].then
  BY Back DEF Repoint, At, TakeoverPc
<1>2. proc[p].snap.claimer \in Hooks
  BY Settling1 DEF Repoint, At, TakeoverPc
<1> QED BY <1>1, <1>2, ConfirmFlow, ReturnStarts DEF Repoint

LEMMA DisposeFlow ==
    ASSUME TokenType, NEW p \in Procs, ForceDispose(p)
    PROVE  To(p, "repoint", proc[p].snap, proc[p].ans, proc[p].then)
<1>1. "repoint" \in Pc
  BY DEF Pc
<1> QED BY <1>1, PcFlow DEF ForceDispose, TokenType

(* Only three steps bring an answer a claim is then published for.          *)
Elsewhere(p) == Moved(p) /\ proc'[p].pc \notin AnsweredPc \cup {"store"}

LEMMA StartsElsewhere ==
    ASSUME NEW p, Starts(p)
    PROVE  Elsewhere(p)
BY DEF Starts, Elsewhere, AdmitPc, AnsweredPc

LEMMA BackElsewhere ==
    ASSUME TokenType, NEW p \in Procs, proc[p].pc \in TakeoverPc \cup OwnerPc \cup {"release"},
           Return(p, proc[p].then)
    PROVE  Elsewhere(p)
BY BackFlow DEF Elsewhere, AnsweredPc

LEMMA PublishElsewhere ==
    ASSUME TokenType, NEW p \in Procs,
           PreemptClaim(p) \/ CompactClaimResolved(p) \/ PublishCommittedClaim(p)
    PROVE  Elsewhere(p)
<1>1. PICK t \in {"idle", "force"} : \/ claim # None /\ PublishClaim(p, t)
                                     \/ Return(p, t)
  <2>1. CASE CompactClaimResolved(p)
    <3>1. proc[p].snap \in HookClaim
      BY <2>1, At1 DEF CompactClaimResolved, At, FrameFits, ClaimPc, AnsweredPc
    <3>2. proc[p].snap # None
      BY <3>1, Records DEF TokenType
    <3> QED BY <2>1, <3>2 DEF CompactClaimResolved
  <2> QED BY <2>1 DEF PreemptClaim, PublishCommittedClaim
<1>2. CASE Return(p, t)
  BY <1>2, ReturnStarts, StartsElsewhere
<1>3. CASE claim # None /\ PublishClaim(p, t)
  <2>1. Return(p, t) \/ To(p, "confirm", claim.owner, "none", t)
    BY <1>3, PublishFlow
  <2>2. ASSUME To(p, "confirm", claim.owner, "none", t) PROVE Elsewhere(p)
    BY <2>2 DEF To, Elsewhere, AnsweredPc
  <2> QED BY <1>2, <2>1, <2>2
<1> QED BY <1>1, <1>2, <1>3

LEMMA Arrival ==
    ASSUME TokenType, NEW p \in Procs,
           Admission(p) \/ Creation(p) \/ Settling(p) \/ Upkeep(p) \/ Lose(p)
    PROVE  FinalizeAsk(p) \/ ResolveExpiredHookClaim(p) \/ LookUp(p) \/ Elsewhere(p)
<1>1. ASSUME NEW pc \in {"release", "finalize", "ambiguous", "intent", "rollback", "dispose", "repoint",
                        "confirm", "withdraw"},
             \E s, a, t : To(p, pc, s, a, t)
      PROVE  Elsewhere(p)
  BY <1>1 DEF To, Elsewhere, AnsweredPc
<1>2. CASE Admission(p)
  <2>1. CASE ForceOverRecord(p)
    <3>1. CASE Admit(p, 0, None)
      <4>1. 0 \in 0..MaxClaims /\ None \in Maybe(Hooks)
        BY Constants DEF Maybe
      <4> QED BY <3>1, <4>1, AdmitStarts, StartsElsewhere
    <3>2. CASE Return(p, "idle")
      BY <3>2, ReturnStarts, StartsElsewhere
    <3>3. CASE Describing(p)
      BY <1>1, <3>3 DEF Describing
    <3> QED BY <2>1, <3>1, <3>2, <3>3, ForceOverRecordFlow
  <2>2. CASE HookIdReserveFails(p)
    BY <1>1, <2>2, ToRelease DEF HookIdReserveFails
  <2>3. CASE PreemptClaim(p)
    BY <2>3, PublishElsewhere
  <2> QED BY <1>2, <2>1, <2>2, <2>3, ReserveStarts, AdmissionStarts, StartsElsewhere DEF Admission
<1>3. CASE Creation(p)
  <2>1. CASE ApplyAnswered(p)
    BY <1>1, <2>1, AnsweredFlow DEF Answered
  <2>2. CASE ApplyLost(p)
    BY <1>1, <2>2, LostFlow
  <2>3. CASE ResolveAmbiguous(p)
    <3>1. CASE Return(p, "idle")
      BY <3>1, ReturnStarts, StartsElsewhere
    <3>2. CASE Goto(p, [proc[p] EXCEPT !.pc = "release", !.then = "idle"])
      BY <1>1, <3>2, ToRelease
    <3> QED BY <2>3, <3>1, <3>2 DEF ResolveAmbiguous
  <2>4. CASE SettleAmbiguous(p)
    BY <2>4, ReturnStarts, SettleStarts, StartsElsewhere DEF SettleAmbiguous
  <2>5. CASE Release(p)
    <3>1. PICK t \in {"idle", "reserve", "force"} : t = proc[p].then
      BY <2>5, Back DEF Release, At
    <3> QED BY <2>5, <3>1, ReturnStarts, SettleStarts, StartsElsewhere DEF Release, Mine
  <2>6. CASE CompleteTakeover(p)
    BY <1>1, <2>6, CompleteFlow, ReturnStarts, StartsElsewhere
  <2>7. CASE FinalizeStore(p)
    BY <2>7, ReturnStarts, StartsElsewhere DEF FinalizeStore
  <2> QED BY <1>3, <2>1, <2>2, <2>3, <2>4, <2>5, <2>6, <2>7 DEF Creation
<1>4. CASE Settling(p)
  <2>1. CASE ResolveForcedHookClaim(p)
    <3>1. PICK pc, a : pc \in {"dispose", "rollback"} /\ To(p, pc, proc[p].snap, a, proc[p].then)
      BY <2>1, AskFlow
    <3> QED BY <1>1, <3>1
  <2>2. CASE RollBack(p)
    BY <2>2, BackElsewhere DEF RollBack, At, TakeoverPc
  <2>3. CASE ForceDispose(p)
    BY <1>1, <2>3, DisposeFlow
  <2>4. CASE Repoint(p)
    BY <1>1, <2>4, RepointFlow, StartsElsewhere
  <2>5. CASE Confirm(p)
    BY <1>1, <2>5, ConfirmedFlow, BackElsewhere DEF Confirm, At, OwnerPc
  <2>6. CASE Withdraw(p)
    BY <2>6, BackElsewhere DEF Withdraw, At, OwnerPc
  <2> QED BY <1>4, <2>1, <2>2, <2>3, <2>4, <2>5, <2>6 DEF Settling
<1>5. CASE Upkeep(p)
  <2>1. CASE CompactClaim(p)
    <3>1. claim \in HookClaim
      BY <2>1, Stores DEF CompactClaim, ClaimExpired
    <3> QED BY <2>1, <3>1, CompactFlow DEF TokenType, Elsewhere, AnsweredPc
  <2>2. CASE SettleTakeover(p)
    BY <2>2, SettleStarts, StartsElsewhere DEF SettleTakeover
  <2> QED BY <1>5, <2>1, <2>2, PublishElsewhere DEF Upkeep
<1>6. CASE Lose(p)
  <2>1. Return(p, "idle")
    BY <1>6 DEF Lose, Return
  <2> QED BY <2>1, ReturnStarts, StartsElsewhere
<1> QED BY <1>2, <1>3, <1>4, <1>5, <1>6

-----------------------------------------------------------------------------
(* Retention *)

(* Process p could still publish the claim.                                 *)
Published(p) ==
    LET f == proc[p] IN
    \/ f.pc = "store" /\ f.ans = "hook" /\ f.hook = claim.owner /\ f.id = claim.id
    \/ f.pc \in AnsweredPc /\ f.ans = "hook" /\ f.snap.id = claim.id

StoreKnows(p) == proc[p].pc = "store" /\ proc[p].ans # "hook" => run[proc[p].hook] # "live"

(* A retained record is that of an ended run, and no answer from before the *)
(* end can publish a claim of that run anymore.                             *)
RetainedEnded ==
    retained # None =>
      /\ run[retained.owner] # "live"
      /\ claim # None /\ claim.owner = retained.owner => \A p \in Procs : ~Published(p)

Kept == RetainedEnded /\ RetainedIsTimed /\ \A p \in Procs : StoreKnows(p)

RunsEnd == \A h \in Hooks : run[h] # "live" => run'[h] # "live"

RetainedGoes ==
    \/ retained' = None
    \/ retained # None /\ retained' # None /\ retained'.owner = retained.owner
    \/ /\ retained' # None /\ retained'.owner \in Hooks /\ run'[retained'.owner] # "live"
       /\ claim' = None \/ claim'.owner # retained'.owner

LEMMA RetainedStays ==
    ASSUME TokenType, Names, Kept, Goes, RunsEnd, RetainedGoes, NEW P \in SUBSET Procs,
           \A q \in Procs \ P : proc'[q] = proc[q],
           \A p \in P : /\ retained # None /\ claim' # None /\ claim'.owner = retained.owner => ~Published(p)'
                        /\ StoreKnows(p)'
    PROVE  RetainedEnded' /\ \A p \in Procs : StoreKnows(p)'
<1>1. retained # None => retained.owner \in Hooks
  BY Stores
<1>2. ASSUME retained' # None PROVE run'[retained'.owner] # "live"
  BY <1>1, <1>2 DEF RetainedGoes, RunsEnd, Kept, RetainedEnded
<1>3. ASSUME retained' # None, claim' # None, claim'.owner = retained'.owner, NEW q \in Procs
      PROVE  ~Published(q)'
  <2>1. retained # None /\ retained'.owner = retained.owner
    BY <1>3 DEF RetainedGoes
  <2>2. CASE q \in P
    BY <1>3, <2>1, <2>2
  <2>3. CASE q \notin P
    <3>1. proc'[q] = proc[q]
      BY <2>3
    <3>2. /\ proc[q].id \in Nat /\ proc[q].id <= minted /\ minted \in Nat
          /\ proc[q].pc \in AnsweredPc => proc[q].snap.id \in Nat /\ proc[q].snap.id <= minted
      BY At1, FrameFields, Constants DEF FrameFits, HookClaim, ClaimIds, ClaimPc
    <3>3. CASE claim # None /\ claim'.id = claim.id /\ claim'.owner = claim.owner
      BY <1>3, <2>1, <3>1, <3>3 DEF Kept, RetainedEnded, Published
    <3>4. CASE claim'.id = minted + 1
      BY <3>1, <3>2, <3>4 DEF Published
    <3> QED BY <1>3, <3>3, <3>4 DEF Goes, ClaimGoes
  <2> QED BY <2>2, <2>3
<1>4. ASSUME NEW q \in Procs PROVE StoreKnows(q)'
  <2>1. CASE q \in P
    BY <2>1
  <2>2. CASE q \notin P
    <3>1. proc'[q] = proc[q] /\ (proc[q].pc = "store" => proc[q].hook \in Hooks)
      BY <2>2, At1 DEF HookPc
    <3> QED BY <3>1 DEF StoreKnows, RunsEnd, Kept
  <2> QED BY <2>1, <2>2
<1> QED BY <1>2, <1>3, <1>4 DEF RetainedEnded

LEMMA MovedStays ==
    ASSUME TokenType, Names, Kept, Goes, RunsEnd, RetainedGoes, NEW p \in Procs, Elsewhere(p)
    PROVE  RetainedEnded' /\ \A q \in Procs : StoreKnows(q)'
<1>1. ~Published(p)' /\ StoreKnows(p)'
  BY DEF Elsewhere, Published, StoreKnows
<1>2. PICK P \in SUBSET Procs : P = {p}
  OBVIOUS
<1>3. \A q \in Procs \ P : proc'[q] = proc[q]
  BY <1>2 DEF Elsewhere, Moved
<1> QED BY <1>1, <1>2, <1>3, RetainedStays

LEMMA SameProcStays ==
    ASSUME TokenType, Names, Kept, Goes, RunsEnd, RetainedGoes, proc' = proc
    PROVE  RetainedEnded' /\ \A q \in Procs : StoreKnows(q)'
<1>1. PICK P \in SUBSET Procs : P = {}
  OBVIOUS
<1> QED BY <1>1, RetainedStays

(* The three steps that bring an answer ask a run that is live.             *)
LEMMA AnswersStay ==
    ASSUME TokenType, Names, Kept, NEW p \in Procs,
           FinalizeAsk(p) \/ ResolveExpiredHookClaim(p) \/ LookUp(p)
    PROVE  Kept'
<1>0. UNCHANGED <<shard, run>>
  BY DEF FinalizeAsk, ResolveExpiredHookClaim, LookUp, cells
<1>1. /\ Goes /\ claim' = claim /\ takeover' = takeover /\ record' = record /\ retained' = retained
      /\ run' = run
  BY <1>0, SameShard
<1>2. RunsEnd /\ RetainedGoes /\ RetainedIsTimed'
  BY <1>1 DEF RunsEnd, RetainedGoes, Kept, RetainedIsTimed
<1>3. /\ Moved(p) /\ StoreKnows(p)'
      /\ retained # None /\ claim # None /\ claim.owner = retained.owner => ~Published(p)'
  <2>1. CASE FinalizeAsk(p)
    <3>1. To(p, "store", proc[p].snap, IF run[proc[p].hook] = "live" THEN "hook" ELSE "gone", proc[p].then)
      BY <2>1, FinalizeAskFlow
    <3> QED BY <1>1, <3>1
        DEF To, SameCall, StoreKnows, Published, AnsweredPc, Kept, RetainedEnded
  <2>2. CASE ResolveExpiredHookClaim(p)
    <3>1. /\ proc[p].then \in {"reserveTxn", "preemptTxn", "compactTxn"}
          /\ To(p, proc[p].then, proc[p].snap, IF Live(proc[p].snap.owner) THEN "hook" ELSE "none",
                proc[p].then)
      BY <2>2, ResolveFlow
    <3>2. claim # None /\ proc[p].snap.id = claim.id => proc[p].snap.owner = claim.owner
      BY <2>2 DEF ResolveExpiredHookClaim, At, Names, KnownSnap, ClaimPc
    <3> QED BY <1>1, <3>1, <3>2 DEF To, StoreKnows, Published, Live, Kept, RetainedEnded
  <2>3. CASE LookUp(p)
    <3>1. claim \in HookClaim /\ Live(claim.owner)
      BY <2>3, Stores DEF LookUp
    <3>2. Moved(p) /\ proc'[p].pc = "getTxn"
      BY <2>3, <3>1, LookUpFlow DEF TokenType
    <3> QED BY <3>1, <3>2 DEF StoreKnows, Live, Kept, RetainedEnded
  <2> QED BY <2>1, <2>2, <2>3
<1>4. PICK P \in SUBSET Procs : P = {p}
  OBVIOUS
<1>5. \A q \in Procs \ P : proc'[q] = proc[q]
  BY <1>3, <1>4 DEF Moved
<1>6. RetainedEnded' /\ \A q \in Procs : StoreKnows(q)'
  BY <1>1, <1>2, <1>3, <1>4, <1>5, RetainedStays
<1> QED BY <1>2, <1>6 DEF Kept

Times == RetainedGoes /\ RetainedIsTimed'

LEMMA SameTimes ==
    ASSUME Kept, retained' = retained, record' = record, takeover' = takeover
    PROVE  Times
BY DEF Times, RetainedGoes, Kept, RetainedIsTimed

LEMMA ReserveTimes ==
    ASSUME TokenType, Kept, NEW p \in Procs, Reserve(p) \/ ReserveResolved(p)
    PROVE  Times
<1>1. \/ UNCHANGED shard
      \/ record' = None /\ (retained' = None \/ retained' = retained)
  BY DEF Reserve, ReserveResolved, ReserveTxn
<1>2. CASE UNCHANGED shard
  BY <1>2, SameTimes DEF shard
<1>3. CASE record' = None /\ (retained' = None \/ retained' = retained)
  BY <1>3, Stores, Constants DEF Times, RetainedGoes, RetainedIsTimed
<1> QED BY <1>1, <1>2, <1>3

LEMMA WriteIntentTimes ==
    ASSUME TokenType, Kept, NEW p \in Procs, WriteIntent(p)
    PROVE  Times
<1>1. CASE UNCHANGED shard
  BY <1>1, SameTimes DEF shard
<1>2. CASE retained' = None
  BY <1>2 DEF Times, RetainedGoes, RetainedIsTimed
<1>3. CASE Intends(p)
  BY <1>3 DEF Intends, Times, RetainedGoes, RetainedIsTimed
<1> QED BY <1>1, <1>2, <1>3, WriteIntentFlow

(* The claim that is published is not that of a retained hook.              *)
LEMMA PublishClaimTimes ==
    ASSUME Kept, NEW p \in Procs, claim # None, proc[p].pc \in AnsweredPc, proc[p].snap.id = claim.id,
           NEW t, PublishClaim(p, t)
    PROVE  Times
<1>1. CASE proc[p].ans # "hook"
  BY <1>1, SameTimes DEF PublishClaim
<1>2. CASE proc[p].ans = "hook"
  <2>1. retained # None => claim.owner # retained.owner
    BY <1>2 DEF Kept, RetainedEnded, Published
  <2> QED BY <1>2, <2>1 DEF PublishClaim, Times, RetainedGoes, RetainedIsTimed
<1> QED BY <1>1, <1>2

LEMMA PublishTimes ==
    ASSUME Kept, NEW p \in Procs, PreemptClaim(p) \/ CompactClaimResolved(p) \/ PublishCommittedClaim(p),
           TokenType
    PROVE  Times
<1>1. proc[p].pc \in AnsweredPc
  BY DEF PreemptClaim, CompactClaimResolved, PublishCommittedClaim, At, AnsweredPc
<1>2. CASE UNCHANGED shard
  BY <1>2, SameTimes DEF shard
<1>3. ASSUME claim # None, proc[p].snap.id = claim.id, NEW t, PublishClaim(p, t)
      PROVE  Times
  BY <1>1, <1>3, PublishClaimTimes
<1>4. claim = proc[p].snap => claim # None
  <2>1. proc[p].snap \in HookClaim /\ None \notin HookClaim
    BY <1>1, At1, Records DEF FrameFits, ClaimPc, TokenType
  <2> QED BY <2>1
<1> QED BY <1>2, <1>3, <1>4 DEF PreemptClaim, CompactClaimResolved, PublishCommittedClaim

LEMMA BatchTimes ==
    ASSUME TokenType, Kept, NEW h \in Hooks, NEW ended \in BOOLEAN, ReleaseBatch(h, ended),
           ended => run'[h] # "live"
    PROVE  Times
<1>1. CASE retained' = None
  BY <1>1 DEF Times, RetainedGoes, RetainedIsTimed
<1>2. CASE retained' = retained /\ record' = record
  BY <1>2, SameTimes DEF ReleaseBatch
<1>3. CASE ended /\ retained' = [owner |-> h, armed |-> TRUE]
  <2>1. retained'.owner = h /\ retained'.armed
    BY <1>3
  <2>2. claim' = None \/ claim'.owner # h
    BY DEF ReleaseBatch
  <2> QED BY <1>3, <2>1, <2>2 DEF Times, RetainedGoes, RetainedIsTimed
<1>4. \/ ended /\ record' = record /\ retained' = retained
      \/ ended /\ retained' = [owner |-> h, armed |-> TRUE]
      \/ retained' = None
      \/ record' = record /\ retained' = retained
  BY DEF ReleaseBatch
<1> QED BY <1>1, <1>2, <1>3, <1>4

LEMMA FinalizeStoreTimes ==
    ASSUME TokenType, Kept, NEW p \in Procs, FinalizeStore(p)
    PROVE  Times
<1>0. /\ proc[p].pc = "store" /\ proc[p].hook \in Hooks /\ run' = run
      /\ proc[p].ans # "hook" => run[proc[p].hook] # "live"
  BY At1 DEF FinalizeStore, At, HookPc, Stays, cells, Kept, StoreKnows
<1>1. CASE ReleaseBatch(proc[p].hook, FALSE)
  BY <1>0, <1>1, BatchTimes
<1>2. CASE UNCHANGED shard
  BY <1>2, SameTimes DEF shard
<1>3. CASE /\ proc[p].ans # "hook" /\ claim' = None
           /\ retained' = [owner |-> proc[p].hook, armed |-> TRUE]
  <2>1. retained'.owner = proc[p].hook /\ retained'.armed
    BY <1>3
  <2> QED BY <1>0, <1>3, <2>1 DEF Times, RetainedGoes, RetainedIsTimed
<1>4. CASE /\ proc[p].ans = "hook" /\ retained' = retained /\ record' = proc[p].hook
           /\ MayStore(proc[p].hook, proc[p].id) /\ UNCHANGED takeover
  <2>1. ASSUME retained # None, retained.owner = proc[p].hook
        PROVE  record = proc[p].hook
    <3>1. claim # None => Published(p) /\ claim.owner = retained.owner
      BY <1>0, <1>4, <2>1 DEF Published, MayStore
    <3> QED BY <1>4, <2>1, <3>1 DEF MayStore, Kept, RetainedEnded
  <2> QED BY <1>0, <1>4, <2>1 DEF Times, RetainedGoes, Kept, RetainedIsTimed
<1> QED BY <1>1, <1>2, <1>3, <1>4 DEF FinalizeStore

LEMMA SettlingTimes ==
    ASSUME TokenType, Kept, NEW p \in Procs, RollBack(p) \/ Repoint(p) \/ Withdraw(p) \/ Release(p)
    PROVE  Times
<1>1. CASE RollBack(p)
  <2>1. CASE UNCHANGED <<record, retained, takeover>>
    BY <2>1, SameTimes
  <2>2. CASE retained # None /\ retained' = [retained EXCEPT !.armed = TRUE]
    <3>1. retained \in [owner : Keeping, armed : BOOLEAN]
      BY <2>2, Stores DEF Retained
    <3>2. retained'.owner = retained.owner /\ retained'.armed
      BY <2>2, <3>1
    <3> QED BY <2>2, <3>2 DEF Times, RetainedGoes, RetainedIsTimed
  <2>3. CASE retained = None /\ retained' = None
    BY <2>3 DEF Times, RetainedGoes, RetainedIsTimed
  <2> QED BY <1>1, <2>1, <2>2, <2>3 DEF RollBack
<1>2. CASE Repoint(p)
  <2>1. CASE retained' = None
    BY <2>1 DEF Times, RetainedGoes, RetainedIsTimed
  <2> QED BY <1>2, <2>1, SameTimes DEF Repoint
<1>3. CASE Withdraw(p)
  BY <1>3, Stores, Constants DEF Withdraw, Times, RetainedGoes, Kept, RetainedIsTimed
<1>4. CASE Release(p)
  BY <1>4, SameTimes DEF Release
<1> QED BY <1>1, <1>2, <1>3, <1>4

LEMMA OtherTimes ==
    ASSUME TokenType, Kept, RunsEnd,
           \/ \E c \in late : ApplyLate(c)
           \/ CompactRetained \/ Expire
           \/ \E h \in Hooks : \/ DisposeHook(h) \/ ReleaseDisposed(h) \/ EndRun(h) \/ ExpireRun(h)
                               \/ ReleaseCleanup(h)
    PROVE  Times
<1>1. CASE UNCHANGED shard
  BY <1>1, SameTimes DEF shard
<1>2. CASE CompactRetained
  <2>1. CASE retained' = None
    BY <2>1 DEF Times, RetainedGoes, RetainedIsTimed
  <2>2. CASE ~RetentionOver /\ retained' = [retained EXCEPT !.armed = FALSE] /\ UNCHANGED record
    <3>1. retained # None /\ retained \in [owner : Keeping, armed : BOOLEAN]
      BY <1>2, Stores DEF Retained, CompactRetained
    <3>2. retained'.owner = retained.owner
      BY <2>2, <3>1
    <3>3. record = retained.owner => takeover # None
      BY <1>2, <2>2, <3>1, Stores, Constants DEF RetentionOver, CompactRetained
    <3> QED BY <1>2, <2>2, <3>1, <3>2, <3>3 DEF CompactRetained, Times, RetainedGoes, RetainedIsTimed
  <2> QED BY <1>2, <2>1, <2>2 DEF CompactRetained
<1>3. CASE Expire
  BY <1>3, Expired DEF Times, RetainedGoes, Kept, RetainedIsTimed
<1>4. ASSUME NEW h \in Hooks, ReleaseDisposed(h) PROVE Times
  BY <1>4, BatchTimes DEF ReleaseDisposed
<1>5. ASSUME NEW h \in Hooks, ReleaseCleanup(h) PROVE Times
  <2>1. (run[h] = "ended") \in BOOLEAN /\ run'[h] # "live"
    BY <1>5 DEF ReleaseCleanup
  <2> QED BY <1>5, <2>1, BatchTimes DEF ReleaseCleanup
<1> QED BY <1>1, <1>2, <1>3, <1>4, <1>5 DEF ApplyLate, DisposeHook, EndRun, ExpireRun

(* Which step of a process writes the shard, or none.                       *)
LEMMA ProcTimes ==
    ASSUME TokenType, Kept, NEW p \in Procs,
           Admission(p) \/ Creation(p) \/ Settling(p) \/ Upkeep(p) \/ Lose(p)
    PROVE  Times
<1>1. CASE UNCHANGED shard
  BY <1>1, SameTimes DEF shard
<1>2. CASE Admission(p)
  <2>1. CASE \E preempt \in BOOLEAN : ForceOverPending(p, preempt) \/ ForceOverClaim(p, preempt)
    BY <1>1, <2>1 DEF ForceOverPending, ForceOverClaim
  <2> QED BY <1>1, <1>2, <2>1, ReserveTimes, WriteIntentTimes, PublishTimes
        DEF Admission, CreateHook, ReserveExpired, ResolveExpiredHookClaim, ForceOverRecord,
            HookIdReserveFails
<1>3. CASE Creation(p)
  BY <1>1, <1>3, FinalizeStoreTimes, SettlingTimes
     DEF Creation, ApplyAnswered, ApplyLost, ResolveAmbiguous, SettleAmbiguous, CompleteTakeover,
         FinalizeAsk
<1>4. CASE Settling(p)
  BY <1>1, <1>4, SettlingTimes DEF Settling, ResolveForcedHookClaim, ForceDispose, Confirm
<1>5. CASE Upkeep(p)
  BY <1>1, <1>5, PublishTimes DEF Upkeep, CompactClaim, SettleTakeover, LookUp
<1>6. CASE Lose(p)
  BY <1>1, <1>6 DEF Lose
<1> QED BY <1>2, <1>3, <1>4, <1>5, <1>6

LEMMA ProcSameRun ==
    ASSUME NEW p, Admission(p) \/ Creation(p) \/ Settling(p) \/ Upkeep(p) \/ Lose(p)
    PROVE  run' = run
<1>1. CASE UNCHANGED cells
  BY <1>1 DEF cells
<1>2. CASE Admission(p)
  <2>1. CASE \E preempt \in BOOLEAN : ForceOverPending(p, preempt) \/ ForceOverClaim(p, preempt)
    BY <1>1, <2>1 DEF ForceOverPending, ForceOverClaim
  <2> QED BY <1>1, <1>2, <2>1
        DEF Admission, CreateHook, Reserve, ReserveExpired, ReserveResolved, ResolveExpiredHookClaim,
            ForceOverRecord, WriteIntent, PreemptClaim, HookIdReserveFails, Stays
<1>3. CASE Creation(p)
  BY <1>1, <1>3 DEF Creation, ApplyAnswered, Apply, ApplyLost, ResolveAmbiguous, SettleAmbiguous,
                    Release, CompleteTakeover, FinalizeAsk, FinalizeStore, Stays
<1>4. CASE Settling(p)
  BY <1>1, <1>4 DEF Settling, ResolveForcedHookClaim, RollBack, ForceDispose, Repoint, Confirm,
                    Withdraw
<1>5. CASE Upkeep(p)
  BY <1>1, <1>5 DEF Upkeep, CompactClaim, CompactClaimResolved, SettleTakeover, LookUp,
                    PublishCommittedClaim, Stays
<1>6. CASE Lose(p)
  BY <1>1, <1>6 DEF Lose
<1> QED BY <1>2, <1>3, <1>4, <1>5, <1>6

LEMMA OtherRunsEnd ==
    ASSUME TokenType,
           \/ \E c \in late : ApplyLate(c)
           \/ CompactRetained \/ Expire
           \/ \E h \in Hooks : \/ DisposeHook(h) \/ ReleaseDisposed(h) \/ EndRun(h) \/ ExpireRun(h)
                               \/ ReleaseCleanup(h)
    PROVE  RunsEnd
<1>1. run \in [Hooks -> {"live", "ended", "expired"}]
  BY DEF TokenType, CellsType
<1>2. CASE run' = run
  BY <1>2 DEF RunsEnd
<1>3. ASSUME NEW h \in Hooks, EndRun(h) \/ ExpireRun(h) PROVE RunsEnd
  BY <1>1, <1>3 DEF EndRun, ExpireRun, RunsEnd
<1>4. ASSUME NEW h \in Hooks, DisposeHook(h) \/ ReleaseDisposed(h) \/ ReleaseCleanup(h)
      PROVE  run' = run
  BY <1>4 DEF DisposeHook, ReleaseDisposed, ReleaseCleanup, cells
<1>5. ASSUME NEW c, ApplyLate(c) PROVE run' = run
  BY <1>5 DEF ApplyLate, Apply, cells
<1>6. ASSUME CompactRetained \/ Expire PROVE run' = run
  BY <1>6 DEF CompactRetained, Expire, cells
<1> QED BY <1>2, <1>3, <1>4, <1>5, <1>6

LEMMA InitKept == Init => Kept
<1> SUFFICES ASSUME Init PROVE Kept
  OBVIOUS
<1>1. \A p \in Procs : proc[p].pc = "idle"
  BY IdleFrame DEF Init
<1> QED BY <1>1 DEF Init, Kept, RetainedEnded, RetainedIsTimed, StoreKnows

LEMMA NextKept == TokenType /\ TokenType' /\ Names /\ Kept /\ [Next]_vars => Kept'
<1> SUFFICES ASSUME TokenType, TokenType', Names, Kept, [Next]_vars PROVE Kept'
  OBVIOUS
<1>0. setup.procs \subseteq Procs
  BY SetupFields DEF TokenType
<1>1. ASSUME NEW p \in Procs, Admission(p) \/ Creation(p) \/ Settling(p) \/ Upkeep(p) \/ Lose(p)
      PROVE  Kept'
  <2>1. Named(p) /\ Times /\ run' = run
    BY <1>1, ProcNames, ProcTimes, ProcSameRun
  <2>2. RunsEnd
    BY <2>1 DEF RunsEnd
  <2>3. CASE Elsewhere(p)
    BY <2>1, <2>2, <2>3, MovedStays DEF Named, Times, Kept
  <2> QED BY <1>1, <2>3, Arrival, AnswersStay
<1>2. CASE \/ \E c \in late : ApplyLate(c)
           \/ CompactRetained \/ Expire
           \/ \E h \in Hooks : \/ DisposeHook(h) \/ ReleaseDisposed(h) \/ EndRun(h) \/ ExpireRun(h)
                               \/ ReleaseCleanup(h)
  <2>1. RunsEnd
    BY <1>2, OtherRunsEnd
  <2>2. Goes /\ proc' = proc /\ Times
    BY <1>2, <2>1, OtherNames, OtherTimes
  <2> QED BY <2>1, <2>2, SameProcStays DEF Times, Kept
<1>3. CASE UNCHANGED vars
  <2>1. UNCHANGED shard /\ run' = run /\ proc' = proc
    BY <1>3 DEF vars, cells
  <2>2. Goes /\ Times
    BY <2>1, SameShard, SameTimes DEF shard
  <2>3. RunsEnd
    BY <2>1 DEF RunsEnd
  <2> QED BY <2>1, <2>2, <2>3, SameProcStays DEF Times, Kept
<1> QED BY <1>0, <1>1, <1>2, <1>3 DEF Next

(* A record that is kept for an ended run never loses its deadline for      *)
(* good: compactRetained may have deleted it only under a takeover, whose   *)
(* settling schedules it again or clears the marker.                        *)
THEOREM RetainedRecordsAreTimed == Spec => []RetainedIsTimed
<1>1. Spec => [](TokenType /\ Names)
  BY NamesInvariant
<1>2. TokenType /\ Names /\ (TokenType /\ Names)' /\ Kept /\ [Next]_vars => Kept'
  BY NextKept
<1>3. Kept => RetainedIsTimed
  BY DEF Kept
<1> QED BY <1>1, <1>2, <1>3, InitKept, PTL DEF Spec

-----------------------------------------------------------------------------
(* Exclusion *)

(* The hook was created and will not be live again.                         *)
Over(h) == hook[h] # "none" /\ ~Live(h)

(* The creation of h under claim ID i is refused; or creates nothing more.  *)
Refused(h, i) == i \in fences \/ run[h] # "live"
Void(h, i)    == Refused(h, i) \/ hook[h] # "none"

(* A creation that may still commit is the one that holds the token.        *)
Backed(h, i, v) ==
    \/ Void(h, i)
    \/ claim # None /\ claim.owner = h /\ claim.id = i /\ v = None
    \/ takeover # None /\ takeover.claimer = h /\ takeover.id = i /\ takeover.victim = v

Calling(p) == proc[p].pc = "apply" => Backed(proc[p].hook, proc[p].id, proc[p].vic)

(* What a process learned from a cell stays true.                           *)
LearnedHook(p) ==
    LET f == proc[p] IN
    /\ f.pc \in {"finalize", "store"} => hook[f.hook] # "none"
    /\ f.pc = "release" /\ f.vic = None => f.id = 0 \/ Refused(f.hook, f.id) \/ Over(f.hook)

LearnedClaim(p) ==
    LET f == proc[p]
        s == proc[p].snap
    IN  f.pc \in AnsweredPc =>
          /\ f.ans = "hook" => hook[s.owner] # "none"
          /\ f.ans # "hook" => Refused(s.owner, s.id)

LearnedVictim(p) ==
    LET f == proc[p]
        s == proc[p].snap
    IN  /\ f.pc \in TakeoverPc \cup {"intent"} =>
             hook[s.victim] # "none" /\ (~s.running => run[s.victim] # "live")
        /\ f.pc = "intent" => s.over \/ run[s.victim] # "live"
        /\ f.pc = "repoint" => Over(s.victim)

LearnedClaimer(p) ==
    LET f == proc[p]
        s == proc[p].snap
    IN  /\ f.pc = "rollback" => Refused(s.claimer, s.id)
        /\ f.pc \in {"dispose", "repoint"} =>
             /\ hook[s.claimer] # "none" /\ from[s.claimer] = s.victim
             /\ f.ans # "hook" => Over(s.claimer)

LearnedOwner(p) ==
    /\ proc[p].pc \in OwnerPc => hook[proc[p].snap] # "none"
    /\ proc[p].pc = "withdraw" => Over(proc[p].snap)

Learned(p) ==
    LearnedHook(p) /\ LearnedClaim(p) /\ LearnedVictim(p) /\ LearnedClaimer(p) /\ LearnedOwner(p)

(* The creation that was answered under the intent journaled its victim.    *)
Finalizing(p) ==
    LET f == proc[p] IN
    f.pc = "finalize" /\ takeover # None /\ f.id = takeover.id => from[f.hook] = takeover.victim

IntentSound ==
    takeover # None =>
      /\ Live(takeover.claimer) => /\ takeover.id \notin fences
                                   /\ from[takeover.claimer] = takeover.victim
      /\ hook[takeover.victim] # "none"
      /\ ~takeover.running => run[takeover.victim] # "live"

ForcedSound ==
    \A v \in Hooks : forced[v] # None => /\ hook[v] \notin {"none", "live"}
                                         /\ hook[forced[v]] # "none" /\ from[forced[v]] = v

ShardSound ==
    /\ LiveIsFindable
    /\ claim # None /\ Live(claim.owner) => claim.id \notin fences
    /\ IntentSound
    /\ record # None => hook[record] # "none"
    /\ \A h \in owed : hook[h] = "disposed"
    /\ ForcedSound

LateSound == \A c \in late : Backed(c.hook, c.id, c.vic)

AllSound ==
    /\ ShardSound /\ LateSound
    /\ \A p \in Procs : Calling(p) /\ Learned(p) /\ Finalizing(p)

Sound == idFaults = 0 => AllSound

(* Only the cleanup of an ended run deletes a hook's row.                   *)
SweptEnded == \A h \in Hooks : hook[h] = "swept" => run[h] # "live"

(* Cells never take anything back.                                          *)
CellsGrow ==
    /\ fences \subseteq fences'
    /\ \A h \in Hooks :
         /\ run[h] # "live" => run'[h] # "live"
         /\ hook[h] # "none" => hook'[h] # "none" /\ from'[h] = from[h]
         /\ hook[h] \notin {"none", "live"} => hook'[h] = hook[h]

LEMMA SameCellsGrow ==
    ASSUME UNCHANGED <<run, hook, from, fences>>
    PROVE  CellsGrow
BY DEF CellsGrow

LEMMA OverStays ==
    ASSUME CellsGrow, NEW h \in Hooks, Over(h)
    PROVE  Over(h)'
BY DEF CellsGrow, Over, Live

LEMMA RefusedStays ==
    ASSUME CellsGrow, NEW h \in Hooks, NEW i, Refused(h, i)
    PROVE  Refused(h, i)'
BY DEF CellsGrow, Refused

LEMMA LearnedHookStays ==
    ASSUME TokenType, CellsGrow, NEW p \in Procs, LearnedHook(p), proc'[p] = proc[p]
    PROVE  LearnedHook(p)'
<1>1. proc[p].pc \in {"finalize", "store", "release"} => proc[p].hook \in Hooks
  BY At1 DEF HookPc
<1>2. PICK h, i : h = proc[p].hook /\ i = proc[p].id
  OBVIOUS
<1>3. h \in Hooks => (Over(h) => Over(h)') /\ (Refused(h, i) => Refused(h, i)')
  BY OverStays, RefusedStays
<1> QED BY <1>1, <1>2, <1>3 DEF LearnedHook, CellsGrow

LEMMA LearnedClaimStays ==
    ASSUME TokenType, CellsGrow, NEW p \in Procs, LearnedClaim(p), proc'[p] = proc[p]
    PROVE  LearnedClaim(p)'
<1>1. proc[p].pc \in AnsweredPc => proc[p].snap.owner \in Hooks
  BY At1 DEF FrameFits, ClaimPc, HookClaim
<1>2. PICK h, i : h = proc[p].snap.owner /\ i = proc[p].snap.id
  OBVIOUS
<1>3. h \in Hooks => (Refused(h, i) => Refused(h, i)')
  BY RefusedStays
<1> QED BY <1>1, <1>2, <1>3 DEF LearnedClaim, CellsGrow

LEMMA LearnedVictimStays ==
    ASSUME TokenType, CellsGrow, NEW p \in Procs, LearnedVictim(p), proc'[p] = proc[p]
    PROVE  LearnedVictim(p)'
<1>1. proc[p].pc \in TakeoverPc \cup {"intent"} => proc[p].snap.victim \in Hooks
  BY At1 DEF FrameFits, HookTakeover, Described
<1>2. PICK h : h = proc[p].snap.victim
  OBVIOUS
<1>3. h \in Hooks => (Over(h) => Over(h)')
  BY OverStays
<1> QED BY <1>1, <1>2, <1>3 DEF LearnedVictim, CellsGrow, TakeoverPc

LEMMA LearnedClaimerStays ==
    ASSUME TokenType, CellsGrow, NEW p \in Procs, LearnedClaimer(p), proc'[p] = proc[p]
    PROVE  LearnedClaimer(p)'
<1>1. proc[p].pc \in TakeoverPc => proc[p].snap.claimer \in Hooks
  BY At1 DEF FrameFits, HookTakeover
<1>2. PICK h, i : h = proc[p].snap.claimer /\ i = proc[p].snap.id
  OBVIOUS
<1>3. h \in Hooks => (Over(h) => Over(h)') /\ (Refused(h, i) => Refused(h, i)')
  BY OverStays, RefusedStays
<1> QED BY <1>1, <1>2, <1>3 DEF LearnedClaimer, CellsGrow, TakeoverPc

LEMMA LearnedOwnerStays ==
    ASSUME TokenType, CellsGrow, NEW p \in Procs, LearnedOwner(p), proc'[p] = proc[p]
    PROVE  LearnedOwner(p)'
<1>1. proc[p].pc \in OwnerPc => proc[p].snap \in Hooks
  BY At1 DEF FrameFits
<1>2. PICK h : h = proc[p].snap
  OBVIOUS
<1>3. h \in Hooks => (Over(h) => Over(h)')
  BY OverStays
<1> QED BY <1>1, <1>2, <1>3 DEF LearnedOwner, CellsGrow, OwnerPc

LEMMA LearnedStays ==
    ASSUME TokenType, CellsGrow, NEW p \in Procs, Learned(p), proc'[p] = proc[p]
    PROVE  Learned(p)'
BY LearnedHookStays, LearnedClaimStays, LearnedVictimStays, LearnedClaimerStays, LearnedOwnerStays
   DEF Learned

(* A claim or an intent is given up once its creation can no longer commit. *)
BackingStays ==
    /\ claim # None =>
         \/ claim' # None /\ claim'.id = claim.id /\ claim'.owner = claim.owner
         \/ claim.id \in fences' \/ run'[claim.owner] # "live" \/ hook'[claim.owner] # "none"
    /\ takeover # None =>
         \/ /\ takeover' # None /\ takeover'.id = takeover.id
            /\ takeover'.claimer = takeover.claimer /\ takeover'.victim = takeover.victim
         \/ \/ takeover.id \in fences' \/ run'[takeover.claimer] # "live"
            \/ hook'[takeover.claimer] # "none"

LEMMA BackedStays ==
    ASSUME CellsGrow, BackingStays, NEW h \in Hooks, NEW i, NEW v, Backed(h, i, v)
    PROVE  Backed(h, i, v)'
<1>1. CASE Void(h, i)
  BY <1>1 DEF CellsGrow, Void, Refused, Backed
<1>2. CASE claim # None /\ claim.owner = h /\ claim.id = i /\ v = None
  BY <1>2 DEF BackingStays, Void, Refused, Backed
<1>3. CASE takeover # None /\ takeover.claimer = h /\ takeover.id = i /\ takeover.victim = v
  BY <1>3 DEF BackingStays, Void, Refused, Backed
<1> QED BY <1>1, <1>2, <1>3 DEF Backed

LEMMA CallingStays ==
    ASSUME TokenType, CellsGrow, BackingStays, NEW p \in Procs, Calling(p), proc'[p] = proc[p]
    PROVE  Calling(p)'
<1>1. PICK h, i, v : h = proc[p].hook /\ i = proc[p].id /\ v = proc[p].vic
  OBVIOUS
<1>2. proc[p].pc = "apply" => h \in Hooks
  BY <1>1, At1 DEF HookPc
<1>3. h \in Hooks => (Backed(h, i, v) => Backed(h, i, v)')
  BY BackedStays
<1> QED BY <1>1, <1>2, <1>3 DEF Calling

LEMMA FinalizingStays ==
    ASSUME TokenType, CellsGrow, Goes, NEW p \in Procs, Finalizing(p), LearnedHook(p), proc'[p] = proc[p]
    PROVE  Finalizing(p)'
<1> SUFFICES ASSUME proc[p].pc = "finalize", takeover' # None, proc[p].id = takeover'.id
             PROVE  from'[proc[p].hook] = takeover'.victim
  BY DEF Finalizing
<1>1. proc[p].hook \in Hooks /\ proc[p].id \in Nat /\ proc[p].id <= minted /\ minted \in Nat
  BY At1, FrameFields, Constants DEF HookPc, FrameFits
<1>2. from'[proc[p].hook] = from[proc[p].hook]
  BY <1>1 DEF LearnedHook, CellsGrow
<1>3. takeover # None /\ takeover'.id = takeover.id /\ takeover'.victim = takeover.victim
  BY <1>1 DEF Goes, TakeoverGoes
<1> QED BY <1>2, <1>3 DEF Finalizing

FramesSound == \A p \in Procs : Calling(p) /\ Learned(p) /\ Finalizing(p)

LEMMA OthersSound ==
    ASSUME TokenType, AllSound, CellsGrow, BackingStays, Goes, NEW P \in SUBSET Procs,
           \A q \in Procs \ P : proc'[q] = proc[q],
           \A p \in P : Calling(p)' /\ Learned(p)' /\ Finalizing(p)'
    PROVE  FramesSound'
<1> SUFFICES ASSUME NEW q \in Procs, q \notin P
             PROVE  Calling(q)' /\ Learned(q)' /\ Finalizing(q)'
  BY DEF FramesSound
<1>1. proc'[q] = proc[q]
  OBVIOUS
<1>2. Calling(q) /\ Learned(q) /\ Finalizing(q)
  BY DEF AllSound
<1> QED BY <1>1, <1>2, CallingStays, LearnedStays, FinalizingStays DEF Learned

LEMMA LateStays ==
    ASSUME TokenType, AllSound, CellsGrow, BackingStays, late' \subseteq late
    PROVE  LateSound'
<1> SUFFICES ASSUME NEW c \in late' PROVE Backed(c.hook, c.id, c.vic)'
  BY DEF LateSound
<1>1. c \in Call /\ c.hook \in Hooks /\ Backed(c.hook, c.id, c.vic)
  BY DEF TokenType, CallsType, Call, AllSound, LateSound
<1>2. PICK h, i, v : h \in Hooks /\ h = c.hook /\ i = c.id /\ v = c.vic
  BY <1>1
<1>3. Backed(h, i, v)
  BY <1>1, <1>2
<1>4. Backed(h, i, v)'
  BY <1>2, <1>3, BackedStays
<1> QED BY <1>2, <1>4

(* Where a step leaves its process, with what it learned.                   *)
Arrives(p) == Moved(p) /\ Calling(p)' /\ Learned(p)' /\ Finalizing(p)'

LEMMA ProcSound ==
    ASSUME TokenType, AllSound, CellsGrow, BackingStays, Goes, late' \subseteq late,
           NEW p \in Procs, Arrives(p), ShardSound'
    PROVE  AllSound'
<1>1. PICK P \in SUBSET Procs : P = {p}
  OBVIOUS
<1>2. \A q \in Procs \ P : proc'[q] = proc[q]
  BY <1>1 DEF Arrives, Moved
<1>3. \A q \in P : Calling(q)' /\ Learned(q)' /\ Finalizing(q)'
  BY <1>1 DEF Arrives
<1>4. FramesSound' /\ LateSound'
  BY <1>2, <1>3, OthersSound, LateStays
<1> QED BY <1>4 DEF AllSound, FramesSound

LEMMA CellSound ==
    ASSUME TokenType, AllSound, CellsGrow, BackingStays, Goes, late' \subseteq late, proc' = proc,
           ShardSound'
    PROVE  AllSound'
<1>1. PICK P \in SUBSET Procs : P = {}
  OBVIOUS
<1>2. FramesSound' /\ LateSound'
  BY <1>1, OthersSound, LateStays
<1> QED BY <1>2 DEF AllSound, FramesSound

(* A new intent names a claimer without a hook and an existing victim.      *)
IntentIsNew ==
    takeover' # None /\ takeover'.id = minted + 1 =>
      /\ ~Live(takeover'.claimer)
      /\ hook[takeover'.victim] # "none"
      /\ ~takeover'.running => run[takeover'.victim] # "live"

NoNewHook ==
    /\ CellsGrow /\ fences' = fences /\ forced' = forced
    /\ \A h \in Hooks : Live(h)' => Live(h)
    /\ \A h \in owed' : hook'[h] = "disposed"

RecordGoes == record' = record \/ record' = None \/ (record' \in Hooks /\ hook'[record'] # "none")

LEMMA ForcedStays ==
    ASSUME TokenType, CellsGrow, ForcedSound, forced' = forced
    PROVE  ForcedSound'
<1> SUFFICES ASSUME NEW v \in Hooks, forced[v] # None
             PROVE  /\ hook'[v] \notin {"none", "live"}
                    /\ hook'[forced[v]] # "none" /\ from'[forced[v]] = v
  BY DEF ForcedSound
<1>1. forced[v] \in Hooks
  BY DEF TokenType, CellsType, Maybe
<1> QED BY <1>1 DEF ForcedSound, CellsGrow

LEMMA IntentStays ==
    ASSUME TokenType, TokenType', IntentSound, NoNewHook, Goes, IntentIsNew
    PROVE  IntentSound'
<1> SUFFICES ASSUME takeover' # None PROVE IntentSound'
  BY DEF IntentSound
<1>1. takeover'.claimer \in Hooks /\ takeover'.victim \in Hooks /\ takeover'.running \in BOOLEAN
  <2>1. takeover' \in HookTakeover
    BY DEF TokenType, ShardType, Maybe, HookTakeover
  <2> QED BY <2>1 DEF HookTakeover
<1>2. Live(takeover.claimer)' => Live(takeover'.claimer)
  BY <1>1 DEF NoNewHook, Live
<1>3. CASE /\ takeover # None /\ takeover'.id = takeover.id /\ takeover'.claimer = takeover.claimer
           /\ takeover'.victim = takeover.victim /\ takeover'.running = takeover.running
  BY <1>1, <1>2, <1>3 DEF IntentSound, NoNewHook, CellsGrow, Live
<1>4. CASE takeover'.id = minted + 1
  <2>1. takeover'.id \notin fences'
    BY <1>4 DEF TokenType, IdsFit, NoNewHook, CallsType
  <2> QED BY <1>1, <1>2, <1>4, <2>1 DEF IntentSound, IntentIsNew, NoNewHook, CellsGrow, Live
<1> QED BY <1>3, <1>4 DEF Goes, TakeoverGoes

LEMMA ShardStays ==
    ASSUME TokenType, TokenType', ShardSound, NoNewHook, Goes, IntentIsNew, RecordGoes, LiveIsFindable'
    PROVE  ShardSound'
<1>1. IntentSound' /\ ForcedSound'
  BY IntentStays, ForcedStays DEF ShardSound, NoNewHook
<1>2. ASSUME claim' # None, Live(claim.owner)'
      PROVE  claim'.id \notin fences'
  <2>1. claim'.owner \in Hooks
    <3>1. claim' \in HookClaim' /\ setup' \in Setups
      BY <1>2 DEF TokenType, ShardType, Maybe
    <3> QED BY <3>1 DEF HookClaim
  <2>2. Live(claim'.owner)
    BY <1>2, <2>1 DEF NoNewHook, Live
  <2>3. CASE claim # None /\ claim'.id = claim.id /\ claim'.owner = claim.owner
    BY <2>2, <2>3 DEF ShardSound, NoNewHook, Live
  <2>4. CASE claim'.id = minted + 1
    <3>1. \A i \in fences : i \in Nat /\ i <= minted
      BY DEF TokenType, IdsFit, CellsType, ClaimIds
    <3> QED BY <2>4, <3>1 DEF NoNewHook, TokenType, CallsType
  <2> QED BY <1>2, <2>3, <2>4 DEF Goes, ClaimGoes
<1>3. record' # None => hook'[record'] # "none"
  BY Stores DEF RecordGoes, ShardSound, NoNewHook, CellsGrow
<1>4. \A h \in owed' : hook'[h] = "disposed"
  BY DEF NoNewHook
<1> QED BY <1>1, <1>2, <1>3, <1>4 DEF ShardSound

(* A fence hits neither the claim nor the intent of a live hook.            *)
LEMMA FenceStays ==
    ASSUME TokenType, ShardSound, UNCHANGED <<shard, run, hook, from, forced, owed>>,
           NEW i, fences' \subseteq fences \cup {i},
           claim # None /\ claim.id = i => ~Live(claim.owner),
           takeover # None /\ takeover.id = i => ~Live(takeover.claimer)
    PROVE  ShardSound'
<1>1. /\ record' = record /\ claim' = claim /\ takeover' = takeover /\ run' = run /\ hook' = hook
      /\ from' = from /\ forced' = forced /\ owed' = owed
  BY DEF shard
<1>2. LiveIsFindable'
  BY <1>1 DEF ShardSound, LiveIsFindable, Live
<1>3. claim' # None /\ Live(claim.owner)' => claim'.id \notin fences'
  BY <1>1 DEF ShardSound, Live
<1>4. IntentSound'
  BY <1>1 DEF ShardSound, IntentSound, Live
<1>5. ForcedSound'
  BY <1>1 DEF ShardSound, ForcedSound
<1>6. (record' # None => hook'[record'] # "none") /\ \A h \in owed' : hook'[h] = "disposed"
  BY <1>1 DEF ShardSound
<1> QED BY <1>2, <1>3, <1>4, <1>5, <1>6 DEF ShardSound

LEMMA CreateStays ==
    ASSUME TokenType, OneHolder, ShardSound, UNCHANGED <<shard, owed>>, NEW c \in Call, Apply(c),
           Backed(c.hook, c.id, c.vic)
    PROVE  CellsGrow /\ ShardSound'
<1>0. /\ c.hook \in Hooks /\ c.vic \in Maybe(Hooks) /\ record' = record /\ claim' = claim
      /\ takeover' = takeover /\ owed' = owed
  BY DEF Call, shard
<1>1. CASE UNCHANGED cells
  <2>1. UNCHANGED <<run, hook, from, forced, fences>>
    BY <1>1 DEF cells
  <2>2. CellsGrow
    BY <2>1, SameCellsGrow
  <2>4. LiveIsFindable' /\ IntentSound' /\ ForcedSound'
    BY <1>0, <2>1 DEF ShardSound, LiveIsFindable, IntentSound, ForcedSound, Live
  <2> QED BY <1>0, <2>1, <2>2, <2>4 DEF ShardSound, Live
<1>2. CASE /\ Accepted(c) /\ hook[c.hook] = "none"
           /\ hook' = [hook EXCEPT ![c.hook] = "live"]
           /\ from' = [from EXCEPT ![c.hook] = c.vic]
           /\ UNCHANGED <<run, forced, fences, ahead>>
  <2>0. hook \in [Hooks -> {"none", "live", "disposed", "swept"}] /\ from \in [Hooks -> Maybe(Hooks)]
    BY DEF TokenType, CellsType
  <2>1. CellsGrow
    BY <1>0, <1>2, <2>0 DEF CellsGrow
  <2>2. \A h \in Hooks : h # c.hook => (Live(h)' <=> Live(h)) /\ hook'[h] = hook[h] /\ from'[h] = from[h]
    BY <1>0, <1>2, <2>0 DEF Live
  <2>3. hook'[c.hook] = "live" /\ from'[c.hook] = c.vic
    BY <1>0, <1>2, <2>0
  <2>4. c.id \notin fences /\ ~Void(c.hook, c.id)
    BY <1>2 DEF Accepted, Void, Refused
  <2>5. \/ claim # None /\ claim.owner = c.hook /\ claim.id = c.id /\ takeover = None
        \/ /\ takeover # None /\ takeover.claimer = c.hook /\ takeover.id = c.id
           /\ takeover.victim = c.vic /\ claim = None
    BY <2>4 DEF Backed, OneHolder
  <2>6. LiveIsFindable'
    BY <1>0, <2>2, <2>5 DEF ShardSound, LiveIsFindable
  <2>7. claim' # None /\ Live(claim.owner)' => claim'.id \notin fences'
    BY <1>0, <1>2, <2>2, <2>4, <2>5, Stores DEF ShardSound, Live
  <2>8. IntentSound'
    <3>1. CASE takeover = None
      BY <1>0, <3>1 DEF IntentSound
    <3>2. CASE takeover # None
      BY <1>0, <1>2, <2>2, <2>3, <2>4, <2>5, <3>2, Stores DEF ShardSound, IntentSound, Live
    <3> QED BY <3>1, <3>2
  <2>9. ForcedSound'
    BY <1>2, <2>1, ForcedStays DEF ShardSound
  <2>10. record' # None => hook'[record'] # "none"
    BY <1>0, <2>1, Stores DEF ShardSound, CellsGrow
  <2>11. \A h \in owed' : hook'[h] = "disposed"
    BY <1>0, <1>2, <2>2 DEF ShardSound, TokenType, CallsType
  <2> QED BY <2>1, <2>6, <2>7, <2>8, <2>9, <2>10, <2>11 DEF ShardSound
<1> QED BY <1>1, <1>2 DEF Apply

(* A victim is disposed for the creation that took its token over.          *)
LEMMA DisposeStays ==
    ASSUME TokenType, ShardSound, NEW p \in Procs, ForceDispose(p), LearnedVictim(p), LearnedClaimer(p),
           NEW v \in Hooks, v = proc[p].snap.victim
    PROVE  CellsGrow /\ ShardSound' /\ Over(v)'
<1>0. /\ UNCHANGED <<record, claim, retained, takeover, run, from, fences, owed>>
  BY DEF ForceDispose, shard
<1>1. PICK g \in Hooks : g = proc[p].snap.claimer
  BY Settling1 DEF ForceDispose, At, TakeoverPc
<1>2. /\ hook[v] # "none" /\ (~proc[p].snap.running => run[v] # "live")
      /\ hook[g] # "none" /\ from[g] = v
  BY <1>1 DEF ForceDispose, At, LearnedVictim, LearnedClaimer, TakeoverPc
<1>3. /\ hook \in [Hooks -> {"none", "live", "disposed", "swept"}]
      /\ forced \in [Hooks -> Maybe(Hooks)]
  BY DEF TokenType, CellsType
<1>4. \/ /\ hook[v] = "live" /\ hook' = [hook EXCEPT ![v] = "disposed"]
         /\ forced' = [forced EXCEPT ![v] = g]
      \/ /\ UNCHANGED <<hook, forced>>
         /\ ~proc[p].snap.running \/ run[v] = "expired" \/ hook[v] # "live" \/ forced[v] # None
  BY <1>1 DEF ForceDispose
<1>5. CellsGrow
  BY <1>0, <1>3, <1>4 DEF CellsGrow
<1>6. \A h \in Hooks : Live(h)' => Live(h)
  BY <1>0, <1>3, <1>4 DEF Live
<1>7. ForcedSound'
  <2>1. CASE UNCHANGED <<hook, forced>>
    BY <1>5, <2>1, ForcedStays DEF ShardSound
  <2>2. CASE /\ hook' = [hook EXCEPT ![v] = "disposed"]
             /\ forced' = [forced EXCEPT ![v] = g]
    <3> SUFFICES ASSUME NEW w \in Hooks, forced'[w] # None
                 PROVE  /\ hook'[w] \notin {"none", "live"}
                        /\ hook'[forced'[w]] # "none" /\ from'[forced'[w]] = w
      BY DEF ForcedSound
    <3>1. CASE w = v
      BY <1>0, <1>2, <1>3, <2>2, <3>1
    <3>2. CASE w # v
      <4>1. forced'[w] = forced[w] /\ forced[w] \in Hooks
        BY <1>3, <2>2, <3>2 DEF Maybe
      <4> QED BY <1>0, <1>5, <4>1 DEF ShardSound, ForcedSound, CellsGrow
    <3> QED BY <3>1, <3>2
  <2> QED BY <1>4, <2>1, <2>2
<1>8. LiveIsFindable'
  BY <1>0, <1>6 DEF ShardSound, LiveIsFindable
<1>9. claim' # None /\ Live(claim.owner)' => claim'.id \notin fences'
  BY <1>0, <1>6, Stores DEF ShardSound, Live
<1>10. IntentSound'
  BY <1>0, <1>5, <1>6, Stores DEF ShardSound, IntentSound, CellsGrow, Live
<1>11. /\ record' # None => hook'[record'] # "none"
       /\ \A h \in owed' : hook'[h] = "disposed"
  BY <1>0, <1>5, Stores DEF ShardSound, CellsGrow, TokenType, CallsType
<1>12. Over(v)'
  BY <1>0, <1>2, <1>3, <1>4 DEF Over, Live, ShardSound, ForcedSound
<1> QED BY <1>1, <1>5, <1>7, <1>8, <1>9, <1>10, <1>11, <1>12 DEF ShardSound

(* Where the steps of a process lead: the positions without a debt first.   *)
LEMMA PlainArrives ==
    ASSUME NEW p \in Procs, Moved(p), proc'[p].pc \in {"idle", "reserve", "force", "ambiguous", "resolve"}
    PROVE  Arrives(p)
<1>1. Calling(p)' /\ Finalizing(p)'
  BY DEF Calling, Finalizing
<1>2. Learned(p)'
  BY DEF Learned, LearnedHook, LearnedClaim, LearnedVictim, LearnedClaimer, LearnedOwner, AnsweredPc,
         TakeoverPc, OwnerPc
<1> QED BY <1>1, <1>2 DEF Arrives

LEMMA ReturnArrives ==
    ASSUME TokenType, NEW p \in Procs, NEW pc \in {"idle", "reserve", "force"}, Return(p, pc)
    PROVE  Arrives(p)
<1>1. Moved(p) /\ proc'[p].pc = pc
  BY At1, ReturnFlow
<1> QED BY <1>1, PlainArrives

LEMMA ConflictArrives ==
    ASSUME TokenType, NEW p \in Procs, Conflict(p)
    PROVE  Arrives(p)
<1>1. Moved(p) /\ proc'[p].pc \in {"idle", "force"}
  BY ConflictFlow
<1> QED BY <1>1, PlainArrives

LEMMA AdmitArrives ==
    ASSUME TokenType, NEW p \in Procs, NEW h \in Hooks, h = proc[p].hook, NEW i \in 0..MaxClaims,
           NEW v \in Maybe(Hooks), Admit(p, i, v), Backed(h, i, v)'
    PROVE  Arrives(p)
<1>1. /\ Moved(p) /\ proc'[p].pc = "apply" /\ proc'[p].hook = h /\ proc'[p].id = i /\ proc'[p].vic = v
  BY At1, AdmitFlow
<1>2. Calling(p)' /\ Finalizing(p)'
  BY <1>1 DEF Calling, Finalizing
<1>3. Learned(p)'
  BY <1>1 DEF Learned, LearnedHook, LearnedClaim, LearnedVictim, LearnedClaimer, LearnedOwner, AnsweredPc,
              TakeoverPc, OwnerPc
<1> QED BY <1>1, <1>2, <1>3 DEF Arrives

LEMMA SettleArrives ==
    ASSUME TokenType, ShardSound, UNCHANGED <<run, hook>>, NEW p \in Procs,
           NEW t \in {"idle", "reserve", "force"}, takeover # None, StartSettle(p, t)
    PROVE  Arrives(p)
<1>1. Moved(p) /\ proc'[p].pc = "ask" /\ proc'[p].snap = takeover
  BY SettleFlow DEF To
<1>2. Calling(p)' /\ Finalizing(p)'
  BY <1>1 DEF Calling, Finalizing
<1>3. LearnedVictim(p)'
  BY <1>1 DEF LearnedVictim, ShardSound, IntentSound
<1>4. Learned(p)'
  BY <1>1, <1>3 DEF Learned, LearnedHook, LearnedClaim, LearnedClaimer, LearnedOwner, AnsweredPc, OwnerPc
<1> QED BY <1>1, <1>2, <1>4 DEF Arrives

LEMMA ConfirmArrives ==
    ASSUME NEW p \in Procs, Moved(p), NEW h, proc'[p].snap = h, hook'[h] # "none",
           \/ proc'[p].pc = "confirm"
           \/ proc'[p].pc = "withdraw" /\ Over(h)'
    PROVE  Arrives(p)
<1>1. Calling(p)' /\ Finalizing(p)'
  BY DEF Calling, Finalizing
<1>2. LearnedOwner(p)'
  BY DEF LearnedOwner
<1>3. Learned(p)'
  BY <1>2 DEF Learned, LearnedHook, LearnedClaim, LearnedVictim, LearnedClaimer, AnsweredPc, TakeoverPc
<1> QED BY <1>1, <1>3 DEF Arrives

LEMMA ReleaseArrives ==
    ASSUME NEW p \in Procs, Moved(p), proc'[p].pc = "release", NEW h, NEW i, NEW v,
           proc'[p].hook = h, proc'[p].id = i, proc'[p].vic = v,
           v = None => i = 0 \/ Refused(h, i)' \/ Over(h)'
    PROVE  Arrives(p)
<1>1. Calling(p)' /\ Finalizing(p)'
  BY DEF Calling, Finalizing
<1>2. LearnedHook(p)'
  BY DEF LearnedHook
<1>3. Learned(p)'
  BY <1>2 DEF Learned, LearnedClaim, LearnedVictim, LearnedClaimer, LearnedOwner, AnsweredPc, TakeoverPc,
              OwnerPc
<1> QED BY <1>1, <1>3 DEF Arrives

(* The steps that write neither the shard nor a cell.                       *)
LEMMA StaysSound ==
    ASSUME TokenType, ShardSound, UNCHANGED <<shard, run, hook, from, forced, fences, owed>>
    PROVE  CellsGrow /\ BackingStays /\ ShardSound'
<1>0. record' = record /\ claim' = claim /\ takeover' = takeover
  BY DEF shard
<1>1. CellsGrow
  BY SameCellsGrow
<1>2. BackingStays
  BY <1>0 DEF BackingStays
<1>3. LiveIsFindable' /\ IntentSound' /\ ForcedSound'
  BY <1>0 DEF ShardSound, LiveIsFindable, IntentSound, ForcedSound, Live
<1> QED BY <1>0, <1>1, <1>2, <1>3 DEF ShardSound, Live

(* The steps that write the shard only.                                     *)
LEMMA OldIntent ==
    ASSUME TokenType, takeover' = takeover \/ takeover' = None
    PROVE  IntentIsNew
BY DEF IntentIsNew, TokenType, IdsFit, CallsType, ShardType, Maybe, HookTakeover, ClaimIds

SameCells == UNCHANGED <<run, hook, from, forced, fences, owed>>

LEMMA ShardSteps ==
    ASSUME TokenType, TokenType', ShardSound, SameCells, Goes, IntentIsNew, RecordGoes, LiveIsFindable'
    PROVE  CellsGrow /\ ShardSound'
<1>1. CellsGrow
  BY SameCellsGrow DEF SameCells
<1>2. NoNewHook
  BY <1>1 DEF NoNewHook, SameCells, Live, ShardSound
<1> QED BY <1>1, <1>2, ShardStays

SoundStep(p) == CellsGrow /\ BackingStays /\ Arrives(p) /\ ShardSound'

LEMMA WalkArrives ==
    ASSUME TokenType, Names, AllSound, NEW p \in Procs, UNCHANGED <<shard, run, hook, from, fences>>,
           \/ \E h \in Hooks : CreateHook(p, h)
           \/ ReserveExpired(p) \/ (\E preempt \in BOOLEAN : ForceOverClaim(p, preempt))
           \/ (\E preempt \in BOOLEAN : ForceOverPending(p, preempt))
           \/ CompactClaim(p) \/ SettleAmbiguous(p) \/ SettleTakeover(p) \/ Lose(p) \/ ApplyLost(p)
    PROVE  Arrives(p)
<1>0. ShardSound /\ run' = run /\ hook' = hook /\ takeover' = takeover
  BY DEF AllSound, shard
<1>1. CASE Return(p, "idle") \/ Return(p, "reserve")
  BY <1>1, ReturnArrives
<1>2. ASSUME NEW t \in {"idle", "force"}, takeover # None, StartSettle(p, t)
      PROVE  Arrives(p)
  BY <1>0, <1>2, SettleArrives
<1>3. CASE \E h \in Hooks : CreateHook(p, h)
  <2>1. Moved(p) /\ proc'[p].pc \in {"reserve", "force"}
    BY <1>3, CreateFlow DEF TokenType
  <2> QED BY <2>1, PlainArrives
<1>4. CASE ReserveExpired(p) \/ \E preempt \in BOOLEAN : ForceOverClaim(p, preempt)
  <2>1. CASE ~Return(p, "reserve")
    <3>1. Moved(p) /\ proc'[p].pc = "resolve"
      BY <1>4, <2>1, ResolvingFlow
    <3> QED BY <3>1, PlainArrives
  <2> QED BY <1>1, <2>1
<1>5. CASE \E preempt \in BOOLEAN : ForceOverPending(p, preempt)
  <2>1. takeover # None /\ proc[p].hook \in Hooks
    BY <1>5, At1 DEF ForceOverPending, At, HookPc
  <2>2. PICK h \in Hooks, i \in 0..MaxClaims, v \in Maybe(Hooks) :
             h = proc[p].hook /\ i = takeover.id /\ v = takeover.victim
    BY <2>1, Stores, Constants DEF ClaimIds, Maybe
  <2>3. CASE takeover.claimer = h /\ Admit(p, i, v)
    <3>1. Backed(h, i, v)'
      BY <1>0, <2>1, <2>2, <2>3 DEF Backed
    <3> QED BY <2>2, <2>3, <3>1, AdmitArrives
  <2> QED BY <1>2, <1>5, <2>1, <2>2, <2>3 DEF ForceOverPending
<1>6. CASE CompactClaim(p)
  <2>1. claim \in HookClaim
    BY <1>6, Stores DEF CompactClaim, ClaimExpired
  <2>2. Moved(p) /\ proc'[p].pc = "resolve"
    BY <1>6, <2>1, CompactFlow DEF TokenType
  <2> QED BY <2>2, PlainArrives
<1>7. CASE SettleAmbiguous(p) \/ SettleTakeover(p)
  BY <1>1, <1>2, <1>7 DEF SettleAmbiguous, SettleTakeover
<1>8. CASE Lose(p)
  BY <1>1, <1>8 DEF Lose, Return
<1>9. CASE ApplyLost(p)
  <2>1. Moved(p) /\ proc'[p].pc = "ambiguous"
    BY <1>9, LostFlow DEF To
  <2> QED BY <2>1, PlainArrives
<1> QED BY <1>3, <1>4, <1>5, <1>6, <1>7, <1>8, <1>9

LEMMA ForceOverRecordArrives ==
    ASSUME TokenType, AllSound, NEW p \in Procs, ForceOverRecord(p), UNCHANGED <<shard, run, hook>>
    PROVE  Arrives(p)
<1>0. hook[record] # "none" /\ record \in Hooks /\ proc[p].hook \in Hooks
  BY Stores, At1 DEF AllSound, ShardSound, ForceOverRecord, At, HookPc
<1>1. CASE record = proc[p].hook /\ Admit(p, 0, None)
  <2>1. PICK h \in Hooks : h = proc[p].hook
    BY <1>0
  <2>2. 0 \in 0..MaxClaims /\ None \in Maybe(Hooks)
    BY Constants DEF Maybe
  <2>3. Backed(h, 0, None)'
    BY <1>0, <1>1, <2>1 DEF Backed, Void
  <2> QED BY <1>1, <2>1, <2>2, <2>3, AdmitArrives
<1>2. CASE Return(p, "idle")
  BY <1>2, ReturnArrives
<1>3. CASE Describing(p)
  <2>1. PICK d \in Described :
             /\ d.victim = record /\ d.running = (run[record] = "live")
             /\ d.over = (run[record] = "live" \/ record \in ahead)
             /\ To(p, "intent", d, proc[p].ans, proc[p].then)
    BY <1>3 DEF Describing
  <2>2. Moved(p) /\ proc'[p].pc = "intent" /\ proc'[p].snap = d
    BY <2>1 DEF To
  <2>3. LearnedVictim(p)'
    BY <1>0, <2>1, <2>2 DEF LearnedVictim
  <2>4. Calling(p)' /\ Finalizing(p)'
    BY <2>2 DEF Calling, Finalizing
  <2>5. Learned(p)'
    BY <2>2, <2>3 DEF Learned, LearnedHook, LearnedClaim, LearnedClaimer, LearnedOwner, AnsweredPc, OwnerPc
  <2> QED BY <2>2, <2>4, <2>5 DEF Arrives
<1> QED BY <1>1, <1>2, <1>3, ForceOverRecordFlow

LEMMA AnsweredArrives ==
    ASSUME TokenType, AllSound, NEW p \in Procs, UNCHANGED <<shard, run, hook, from, fences>>,
           CompleteTakeover(p) \/ FinalizeAsk(p) \/ Confirm(p) \/ LookUp(p)
    PROVE  Arrives(p)
<1>0. ShardSound /\ Learned(p) /\ Finalizing(p) /\ run' = run /\ hook' = hook /\ from' = from
  BY DEF AllSound
<1>1. CASE CompleteTakeover(p)
  <2>1. CASE Return(p, "idle")
    BY <2>1, ReturnArrives
  <2>2. CASE Mine(p) /\ To(p, "dispose", takeover, "hook", "idle")
    <3>1. hook[takeover.claimer] # "none" /\ from[takeover.claimer] = takeover.victim
      BY <1>0, <1>1, <2>2 DEF CompleteTakeover, At, Mine, Learned, LearnedHook, Finalizing
    <3>2. Moved(p) /\ proc'[p].pc = "dispose" /\ proc'[p].snap = takeover /\ proc'[p].ans = "hook"
      BY <2>2 DEF To
    <3>3. LearnedVictim(p)' /\ LearnedClaimer(p)'
      BY <1>0, <2>2, <3>1, <3>2 DEF LearnedVictim, LearnedClaimer, ShardSound, IntentSound, Mine
    <3>4. Calling(p)' /\ Finalizing(p)'
      BY <3>2 DEF Calling, Finalizing
    <3>5. Learned(p)'
      BY <3>2, <3>3 DEF Learned, LearnedHook, LearnedClaim, LearnedOwner, AnsweredPc, OwnerPc
    <3> QED BY <3>2, <3>4, <3>5 DEF Arrives
  <2> QED BY <1>1, <2>1, <2>2, CompleteFlow
<1>2. CASE FinalizeAsk(p)
  <2>1. Moved(p) /\ proc'[p].pc = "store" /\ proc'[p].hook = proc[p].hook
    BY <1>2, FinalizeAskFlow DEF To, SameCall
  <2>2. LearnedHook(p)'
    BY <1>0, <1>2, <2>1 DEF Learned, LearnedHook, FinalizeAsk, At
  <2>3. Calling(p)' /\ Finalizing(p)'
    BY <2>1 DEF Calling, Finalizing
  <2>4. Learned(p)'
    BY <2>1, <2>2 DEF Learned, LearnedClaim, LearnedVictim, LearnedClaimer, LearnedOwner, AnsweredPc,
                      TakeoverPc, OwnerPc
  <2> QED BY <2>1, <2>3, <2>4 DEF Arrives
<1>3. CASE Confirm(p)
  <2>1. PICK t \in {"idle", "reserve", "force"} : t = proc[p].then
    BY <1>3, Back DEF Confirm, At, OwnerPc
  <2>2. CASE Return(p, t)
    BY <2>2, ReturnArrives
  <2>3. CASE ~Live(proc[p].snap) /\ To(p, "withdraw", proc[p].snap, proc[p].ans, proc[p].then)
    <3>1. PICK h : h = proc[p].snap
      OBVIOUS
    <3>2. Over(h)' /\ hook'[h] # "none"
      BY <1>0, <1>3, <2>3, <3>1 DEF Confirm, At, Learned, LearnedOwner, OwnerPc, Over, Live
    <3>3. Moved(p) /\ proc'[p].pc = "withdraw" /\ proc'[p].snap = h
      BY <2>3, <3>1 DEF To
    <3> QED BY <3>2, <3>3, ConfirmArrives
  <2> QED BY <1>3, <2>1, <2>2, <2>3, ConfirmedFlow
<1>4. CASE LookUp(p)
  <2>1. claim \in HookClaim
    BY <1>4, Stores DEF LookUp
  <2>2. Moved(p) /\ proc'[p].pc = "getTxn" /\ proc'[p].snap = claim /\ proc'[p].ans = "hook"
    BY <1>4, <2>1, LookUpFlow DEF TokenType
  <2>3. LearnedClaim(p)'
    BY <1>0, <1>4, <2>2 DEF LearnedClaim, LookUp, Live
  <2>4. Calling(p)' /\ Finalizing(p)'
    BY <2>2 DEF Calling, Finalizing
  <2>5. Learned(p)'
    BY <2>2, <2>3 DEF Learned, LearnedHook, LearnedVictim, LearnedClaimer, LearnedOwner, TakeoverPc, OwnerPc
  <2> QED BY <2>2, <2>4, <2>5 DEF Arrives
<1> QED BY <1>1, <1>2, <1>3, <1>4

(* The steps in a cell.                                                     *)
LEMMA FenceSound ==
    ASSUME TokenType, ShardSound, UNCHANGED <<shard, run, hook, from, forced, owed>>,
           NEW i, fences \subseteq fences', fences' \subseteq fences \cup {i},
           claim # None /\ claim.id = i => ~Live(claim.owner),
           takeover # None /\ takeover.id = i => ~Live(takeover.claimer)
    PROVE  CellsGrow /\ BackingStays /\ ShardSound'
<1>1. ShardSound'
  BY FenceStays
<1>2. CellsGrow /\ BackingStays
  BY DEF CellsGrow, BackingStays, shard
<1> QED BY <1>1, <1>2

LEMMA ResolveSound ==
    ASSUME TokenType, Names, AllSound, NEW p \in Procs, ResolveExpiredHookClaim(p)
    PROVE  SoundStep(p)
<1>1. PICK h, i : h \in Hooks /\ h = proc[p].snap.owner /\ i = proc[p].snap.id
  BY ResolveFlow
<1>2. /\ proc[p].then \in {"reserveTxn", "preemptTxn", "compactTxn"}
      /\ To(p, proc[p].then, proc[p].snap, IF Live(h) THEN "hook" ELSE "none", proc[p].then)
  BY <1>1, ResolveFlow
<1>3. fences' = IF run[h] = "live" /\ hook[h] # "live" THEN fences \cup {i} ELSE fences
  BY <1>1 DEF ResolveExpiredHookClaim
<1>4. CellsGrow /\ BackingStays /\ ShardSound'
  <2>1. CASE run[h] = "live" /\ hook[h] # "live"
    <3>1. /\ claim # None /\ claim.id = i => ~Live(claim.owner)
          /\ takeover # None => takeover.id # i
      BY <1>1, <2>1 DEF ResolveExpiredHookClaim, At, Names, KnownSnap, ClaimPc, Live
    <3> QED BY <1>3, <2>1, <3>1, FenceSound DEF ResolveExpiredHookClaim, AllSound
  <2>2. CASE ~(run[h] = "live" /\ hook[h] # "live")
    BY <1>3, <2>2, StaysSound DEF ResolveExpiredHookClaim, AllSound
  <2> QED BY <2>1, <2>2
<1>5. /\ Moved(p) /\ proc'[p].pc \in {"reserveTxn", "preemptTxn", "compactTxn"}
      /\ proc'[p].snap = proc[p].snap /\ proc'[p].ans = IF Live(h) THEN "hook" ELSE "none"
  BY <1>2 DEF To
<1>6. LearnedClaim(p)'
  <2>1. run' = run /\ hook' = hook
    BY DEF ResolveExpiredHookClaim
  <2> QED BY <1>1, <1>3, <1>5, <2>1 DEF LearnedClaim, Live, Refused
<1>7. Calling(p)' /\ Finalizing(p)'
  BY <1>5 DEF Calling, Finalizing
<1>8. Learned(p)'
  BY <1>5, <1>6 DEF Learned, LearnedHook, LearnedVictim, LearnedClaimer, LearnedOwner, TakeoverPc, OwnerPc
<1> QED BY <1>4, <1>5, <1>7, <1>8 DEF SoundStep, Arrives

LEMMA AskSound ==
    ASSUME TokenType, Names, AllSound, NEW p \in Procs, ResolveForcedHookClaim(p)
    PROVE  SoundStep(p)
<1>0. At(p, "ask") /\ run' = run /\ hook' = hook /\ from' = from
  BY DEF ResolveForcedHookClaim
<1>1. PICK g, i : g \in Hooks /\ g = proc[p].snap.claimer /\ i = proc[p].snap.id
  BY <1>0, Settling1 DEF At, TakeoverPc
<1>2. PICK b \in BOOLEAN : b = Journaled(proc[p].snap)
  BY DEF Journaled
<1>3. PICK a \in {"hook", "gone"} : a = IF Live(g) THEN "hook" ELSE "gone"
  OBVIOUS
<1>4. fences' = IF b \/ run[g] = "expired" THEN fences ELSE fences \cup {i}
  BY <1>1, <1>2 DEF ResolveForcedHookClaim
<1>5. CellsGrow /\ BackingStays /\ ShardSound'
  <2>1. CASE ~b /\ run[g] # "expired"
    <3>1. claim # None => claim.id # i
      BY <1>0, <1>1 DEF At, Names, KnownSnap, TakeoverPc
    <3>2. takeover # None /\ takeover.id = i => ~Live(takeover.claimer)
      <4> SUFFICES ASSUME takeover # None, takeover.id = i, Live(takeover.claimer) PROVE FALSE
        OBVIOUS
      <4>1. g = takeover.claimer /\ proc[p].snap.victim = takeover.victim
        BY <1>0, <1>1 DEF At, Names, KnownSnap, TakeoverPc
      <4>2. from[g] = takeover.victim
        BY <4>1 DEF AllSound, ShardSound, IntentSound
      <4> QED BY <1>1, <1>2, <2>1, <4>1, <4>2 DEF Journaled, Live
    <3> QED BY <1>4, <2>1, <3>1, <3>2, FenceSound DEF ResolveForcedHookClaim, AllSound
  <2>2. CASE ~(~b /\ run[g] # "expired")
    BY <1>4, <2>2, StaysSound DEF ResolveForcedHookClaim, AllSound
  <2> QED BY <2>1, <2>2
<1>6. /\ Moved(p) /\ proc'[p].pc = (IF b THEN "dispose" ELSE "rollback")
      /\ proc'[p].snap = proc[p].snap /\ proc'[p].ans = a
  BY <1>1, <1>2, <1>3, AskFlow DEF To
<1>7. LearnedVictim(p)'
  BY <1>0, <1>6 DEF At, AllSound, Learned, LearnedVictim, TakeoverPc
<1>8. LearnedClaimer(p)'
  BY <1>0, <1>1, <1>2, <1>3, <1>4, <1>6 DEF LearnedClaimer, Journaled, Refused, Over, Live
<1>9. Calling(p)' /\ Finalizing(p)'
  BY <1>6 DEF Calling, Finalizing
<1>10. Learned(p)'
  BY <1>6, <1>7, <1>8 DEF Learned, LearnedHook, LearnedClaim, LearnedOwner, AnsweredPc, OwnerPc
<1> QED BY <1>5, <1>6, <1>9, <1>10 DEF SoundStep, Arrives

LEMMA AmbiguousSound ==
    ASSUME TokenType, Names, AllSound, NEW p \in Procs, ResolveAmbiguous(p)
    PROVE  SoundStep(p)
<1>0. proc[p].pc = "ambiguous" /\ proc[p].vic = None /\ run' = run /\ hook' = hook
  BY DEF ResolveAmbiguous, At
<1>1. PICK h, i : h \in Hooks /\ h = proc[p].hook /\ i = proc[p].id
  BY <1>0, At1 DEF HookPc
<1>2. CASE run[h] # "expired" /\ hook[h] = "live" /\ Return(p, "idle") /\ UNCHANGED fences
  BY <1>2, StaysSound, ReturnArrives DEF ResolveAmbiguous, AllSound, SoundStep
<1>3. CASE /\ ~(run[h] # "expired" /\ hook[h] = "live")
           /\ fences' = IF run[h] = "expired" THEN fences ELSE fences \cup ({i} \ {0})
           /\ Goto(p, [proc[p] EXCEPT !.pc = "release", !.then = "idle"])
  <2>1. CellsGrow /\ BackingStays /\ ShardSound'
    <3>1. CASE run[h] # "expired"
      <4>1. /\ claim # None /\ claim.id = i => ~Live(claim.owner)
            /\ takeover # None => takeover.id # i
        BY <1>0, <1>1, <1>3, <3>1, Stores, Constants DEF Names, KnownCall, Live
      <4> QED BY <1>3, <4>1, FenceSound DEF ResolveAmbiguous, AllSound
    <3>2. CASE run[h] = "expired"
      BY <1>3, <3>2, StaysSound DEF ResolveAmbiguous, AllSound
    <3> QED BY <3>1, <3>2
  <2>2. Moved(p) /\ proc'[p].pc = "release" /\ proc'[p].hook = h /\ proc'[p].id = i /\ proc'[p].vic = None
    BY <1>0, <1>1, <1>3, ToRelease DEF To, SameCall
  <2>3. i = 0 \/ Refused(h, i)'
    BY <1>0, <1>3 DEF Refused
  <2>4. Arrives(p)
    BY <2>2, <2>3, ReleaseArrives
  <2> QED BY <2>1, <2>4 DEF SoundStep
<1> QED BY <1>1, <1>2, <1>3 DEF ResolveAmbiguous

LEMMA DisposeSound ==
    ASSUME TokenType, AllSound, NEW p \in Procs, ForceDispose(p)
    PROVE  SoundStep(p)
<1>0. /\ At(p, "dispose") /\ UNCHANGED shard /\ Learned(p) /\ ShardSound
  BY DEF ForceDispose, AllSound
<1>1. PICK v \in Hooks, g \in Hooks : v = proc[p].snap.victim /\ g = proc[p].snap.claimer
  BY <1>0, Settling1 DEF At, TakeoverPc
<1>2. CellsGrow /\ ShardSound' /\ Over(v)'
  BY <1>0, <1>1, DisposeStays DEF Learned
<1>3. BackingStays
  BY <1>0 DEF BackingStays, shard
<1>4. /\ Moved(p) /\ proc'[p].pc = "repoint" /\ proc'[p].snap = proc[p].snap /\ proc'[p].ans = proc[p].ans
  BY DisposeFlow DEF To
<1>5. /\ hook[v] # "none" /\ (~proc[p].snap.running => run[v] # "live")
      /\ hook[g] # "none" /\ from[g] = v /\ (proc[p].ans # "hook" => Over(g))
  BY <1>0, <1>1 DEF At, Learned, LearnedVictim, LearnedClaimer, TakeoverPc
<1>6. Over(g) => Over(g)'
  BY <1>2, OverStays
<1>7. LearnedVictim(p)' /\ LearnedClaimer(p)'
  BY <1>1, <1>2, <1>4, <1>5, <1>6 DEF LearnedVictim, LearnedClaimer, CellsGrow
<1>8. Calling(p)' /\ Finalizing(p)'
  BY <1>4 DEF Calling, Finalizing
<1>9. Learned(p)'
  BY <1>4, <1>7 DEF Learned, LearnedHook, LearnedClaim, LearnedOwner, AnsweredPc, OwnerPc
<1> QED BY <1>2, <1>3, <1>4, <1>8, <1>9 DEF SoundStep, Arrives

LEMMA AppliedSound ==
    ASSUME TokenType, Names, SweptEnded, AllSound, NEW p \in Procs, ApplyAnswered(p)
    PROVE  SoundStep(p)
<1>0. /\ proc[p].pc = "apply" /\ UNCHANGED <<shard, owed>> /\ Apply(CallOf(p)) /\ OneHolder /\ ShardSound
  BY DEF ApplyAnswered, At, Names, AllSound
<1>1. PICK h, i, v : h \in Hooks /\ h = proc[p].hook /\ i = proc[p].id /\ v = proc[p].vic
  BY <1>0, At1 DEF HookPc
<1>2. PICK c \in Call : c = CallOf(p)
  BY <1>0, <1>1, At1, FrameFields DEF CallOf, Call
<1>3. c.hook = h /\ c.id = i /\ c.vic = v
  BY <1>1, <1>2, CallRecord
<1>4. Backed(h, i, v)
  BY <1>0, <1>1 DEF AllSound, Calling
<1>5. CellsGrow /\ ShardSound'
  BY <1>0, <1>2, <1>3, <1>4, CreateStays
<1>6. BackingStays
  BY <1>0 DEF BackingStays, shard
<1>7. CASE Accepted(c) /\ To(p, "finalize", proc[p].snap, proc[p].ans, proc[p].then)
  <2>1. Moved(p) /\ proc'[p].pc = "finalize" /\ proc'[p].hook = h /\ proc'[p].id = i
    BY <1>1, <1>7 DEF To, SameCall
  <2>2. \/ hook[h] = "none" /\ hook'[h] = "live" /\ from'[h] = v
        \/ Live(h) /\ UNCHANGED <<hook, from>>
    <3>1. hook \in [Hooks -> {"none", "live", "disposed", "swept"}] /\ from \in [Hooks -> Maybe(Hooks)]
      BY DEF TokenType, CellsType
    <3>2. run[h] = "live" /\ hook[h] \in {"none", "live"}
      BY <1>1, <1>3, <1>7, <3>1 DEF Accepted, SweptEnded
    <3> QED BY <1>0, <1>1, <1>2, <1>3, <1>7, <3>1, <3>2 DEF Apply, cells, Live
  <2>3. LearnedHook(p)'
    BY <2>1, <2>2 DEF LearnedHook, Live
  <2>4. Learned(p)'
    BY <2>1, <2>3 DEF Learned, LearnedClaim, LearnedVictim, LearnedClaimer, LearnedOwner, AnsweredPc,
                      TakeoverPc, OwnerPc
  <2>5. ASSUME takeover' # None, takeover'.id = i PROVE from'[h] = takeover'.victim
    <3>1. takeover' = takeover
      BY <1>0 DEF shard
    <3>2. takeover.claimer = h /\ takeover.victim = v
      BY <1>1, <2>5, <3>1 DEF Names, KnownCall
    <3> QED BY <1>0, <2>2, <2>5, <3>1, <3>2 DEF ShardSound, IntentSound
  <2>6. Calling(p)' /\ Finalizing(p)'
    BY <2>1, <2>5 DEF Calling, Finalizing
  <2> QED BY <1>5, <1>6, <2>1, <2>4, <2>6 DEF SoundStep, Arrives
<1>8. CASE ~Accepted(c) /\ \E t \in {"idle", "force"} : To(p, "release", proc[p].snap, proc[p].ans, t)
  <2>1. Moved(p) /\ proc'[p].pc = "release" /\ proc'[p].hook = h /\ proc'[p].id = i /\ proc'[p].vic = v
    BY <1>1, <1>8 DEF To, SameCall
  <2>2. Refused(h, i) \/ Over(h)
    BY <1>3, <1>8 DEF Accepted, Refused, Over, Live
  <2>3. Refused(h, i)' \/ Over(h)'
    BY <1>1, <1>5, <2>2, RefusedStays, OverStays
  <2>4. Arrives(p)
    BY <2>1, <2>3, ReleaseArrives
  <2> QED BY <1>5, <1>6, <2>4 DEF SoundStep
<1> QED BY <1>2, <1>7, <1>8, AnsweredFlow DEF Answered

(* The steps in the shard.                                                  *)
LEMMA ReserveTxnSound ==
    ASSUME TokenType, TokenType', Names, Kept, AllSound, NEW p \in Procs, proc[p].hook \in Hooks, NEW old,
           NEW committed \in BOOLEAN, ReserveTxn(p, proc[p].hook, old, committed), setup' = setup, SameCells,
           claim # None /\ claim = old /\ ~committed => Refused(claim.owner, claim.id)
    PROVE  SoundStep(p)
<1>0. /\ ShardSound /\ OneHolder /\ Named(p) /\ Goes
      /\ UNCHANGED <<run, hook, from, forced, fences, owed>>
  BY ReserveTxnNames DEF AllSound, Names, Named, SameCells
<1>1. PICK h \in Hooks : h = proc[p].hook
  OBVIOUS
<1>2. CASE /\ UNCHANGED shard
           /\ \/ record = h /\ Admit(p, 0, None)
              \/ Conflict(p)
              \/ takeover # None /\ StartSettle(p, "reserve")
  <2>1. CellsGrow /\ BackingStays /\ ShardSound' /\ record' = record
    BY <1>0, <1>2, StaysSound DEF shard
  <2>2. CASE record = h /\ Admit(p, 0, None)
    <3>1. 0 \in 0..MaxClaims /\ None \in Maybe(Hooks)
      BY Constants DEF Maybe
    <3>2. Backed(h, 0, None)'
      BY <1>0, <1>1, <2>2, Constants DEF ShardSound, Backed, Void
    <3> QED BY <1>1, <2>1, <2>2, <3>1, <3>2, AdmitArrives DEF SoundStep
  <2>3. CASE Conflict(p)
    BY <2>1, <2>3, ConflictArrives DEF SoundStep
  <2>4. CASE takeover # None /\ StartSettle(p, "reserve")
    BY <1>0, <2>1, <2>4, SettleArrives DEF SoundStep
  <2> QED BY <1>2, <2>2, <2>3, <2>4
<1>3. CASE /\ RetentionOver \/ (record = None /\ takeover = None)
           /\ record' = None
           /\ ReserveClaim(p, h, old, committed)
           /\ UNCHANGED takeover
  <2>1. takeover = None /\ takeover' = None /\ IntentIsNew /\ RecordGoes
    BY <1>3, OldIntent DEF RetentionOver, RecordGoes
  <2>2. record # None => run[record] # "live"
    BY <1>3 DEF RetentionOver, Kept, RetainedEnded
  <2>3. \/ /\ PutClaim(p, h)
           /\ claim # None => Refused(claim.owner, claim.id)
        \/ SameClaim /\ Told(p)
    BY <1>1, <1>3, ReserveClaimCases
  <2>4. CASE PutClaim(p, h) /\ (claim # None => Refused(claim.owner, claim.id))
    <3>1. claim # None => ~Live(claim.owner)
      BY <1>0, <2>4 DEF Refused, ShardSound, Live
    <3>2. LiveIsFindable'
      BY <1>0, <2>1, <2>2, <3>1, Constants DEF ShardSound, LiveIsFindable, Live
    <3>3. BackingStays
      BY <1>0, <2>1, <2>4 DEF BackingStays, Refused
    <3>4. /\ claim' # None /\ claim'.id = minted + 1 /\ claim'.owner = h
          /\ minted + 1 \in 0..MaxClaims /\ Admit(p, minted + 1, None) /\ None \in Maybe(Hooks)
      BY <1>1, <1>3, <2>4, PutClaimFlow DEF Maybe
    <3>5. PICK i \in 0..MaxClaims : i = minted + 1
      BY <3>4
    <3>6. Backed(h, i, None)'
      BY <3>4, <3>5 DEF Backed
    <3>7. Arrives(p)
      BY <1>1, <3>4, <3>5, <3>6, AdmitArrives
    <3> QED BY <1>0, <2>1, <3>2, <3>3, <3>7, ShardSteps DEF SoundStep, SameCells
  <2>5. CASE SameClaim /\ Told(p)
    <3>1. LiveIsFindable'
      BY <1>0, <2>1, <2>2, <2>5, Constants DEF ShardSound, LiveIsFindable, Live, SameClaim
    <3>2. BackingStays
      BY <2>1, <2>5 DEF BackingStays, SameClaim
    <3>3. CellsGrow /\ ShardSound'
      BY <1>0, <2>1, <3>1, ShardSteps DEF SameCells
    <3>4. CASE claim.owner = h /\ Admit(p, claim.id, None)
      <4>1. claim.id \in 0..MaxClaims /\ None \in Maybe(Hooks)
        BY <2>5, Stores, Constants DEF ClaimIds, Maybe, SameClaim
      <4>2. PICK i \in 0..MaxClaims : i = claim.id
        BY <4>1
      <4>3. Backed(h, i, None)'
        BY <2>5, <3>4, <4>2 DEF Backed, SameClaim
      <4> QED BY <1>1, <3>2, <3>3, <3>4, <4>1, <4>2, <4>3, AdmitArrives DEF SoundStep
    <3> QED BY <1>1, <2>5, <3>2, <3>3, <3>4, ConflictArrives, ReturnArrives DEF Told, SoundStep
  <2> QED BY <2>3, <2>4, <2>5
<1> QED BY <1>1, <1>2, <1>3 DEF ReserveTxn

LEMMA ReserveSound ==
    ASSUME TokenType, TokenType', Names, Kept, AllSound, NEW p \in Procs, Reserve(p) \/ ReserveResolved(p)
    PROVE  SoundStep(p)
<1>1. proc[p].hook \in Hooks /\ setup' = setup /\ SameCells
  BY At1 DEF Reserve, ReserveResolved, At, HookPc, Stays, SameCells, cells
<1>2. CASE Reserve(p)
  <2>1. claim # None /\ claim = None /\ ~FALSE => Refused(claim.owner, claim.id)
    OBVIOUS
  <2> QED BY <1>1, <1>2, <2>1, ReserveTxnSound DEF Reserve
<1>3. CASE ReserveResolved(p)
  <2>1. PICK b, old : b \in BOOLEAN /\ b = (proc[p].ans = "hook") /\ old = proc[p].snap
    OBVIOUS
  <2>2. claim # None /\ claim = old /\ ~b => Refused(claim.owner, claim.id)
    BY <1>3, <2>1 DEF ReserveResolved, At, AllSound, Learned, LearnedClaim, AnsweredPc
  <2> QED BY <1>1, <1>3, <2>1, <2>2, ReserveTxnSound DEF ReserveResolved
<1> QED BY <1>2, <1>3

LEMMA WriteIntentSound ==
    ASSUME TokenType, TokenType', Names, AllSound, NEW p \in Procs, WriteIntent(p)
    PROVE  SoundStep(p)
<1>0. /\ ShardSound /\ OneHolder /\ Goes /\ proc[p].pc = "intent" /\ LearnedVictim(p) /\ Differs(p)
      /\ UNCHANGED <<run, hook, from, forced, fences, owed>>
  BY WriteIntentNames DEF WriteIntent, At, AllSound, Learned, Names, Named, Stays, cells
<1>1. PICK h \in Hooks, v \in Hooks : h = proc[p].hook /\ v = proc[p].snap.victim
  BY WriteIntentFlow
<1>2. /\ hook[v] # "none" /\ (~proc[p].snap.running => run[v] # "live") /\ v # h
      /\ proc[p].snap.over \/ run[v] # "live"
  BY <1>0, <1>1 DEF LearnedVictim, Differs
<1>3. CASE UNCHANGED shard /\ Return(p, "force")
  BY <1>0, <1>3, StaysSound, ReturnArrives DEF SoundStep
<1>4. CASE /\ record = v /\ takeover = None /\ ~proc[p].snap.over
           /\ record' = None /\ retained' = None
           /\ Return(p, "force")
           /\ UNCHANGED <<claim, takeover, minted>>
  <2>1. run[v] # "live"
    BY <1>2, <1>4
  <2>2. LiveIsFindable'
    BY <1>0, <1>4, <2>1 DEF ShardSound, LiveIsFindable, Live
  <2>3. BackingStays
    BY <1>4 DEF BackingStays
  <2>4. IntentIsNew /\ RecordGoes
    BY <1>4, OldIntent DEF RecordGoes
  <2>5. Arrives(p)
    BY <1>4, ReturnArrives
  <2> QED BY <1>0, <2>2, <2>3, <2>4, <2>5, ShardSteps DEF SoundStep, SameCells
<1>5. CASE Intends(p)
  <2>1. /\ record = v /\ takeover = None /\ record' = record /\ claim' = claim
        /\ takeover' # None /\ takeover'.claimer = h /\ takeover'.id = minted + 1
        /\ takeover'.victim = v /\ takeover'.running = proc[p].snap.running
        /\ Admit(p, minted + 1, v) /\ minted < MaxClaims
    BY <1>1, <1>5 DEF Intends
  <2>2. ~Live(h)
    BY <1>0, <1>2, <2>1, Constants DEF ShardSound, LiveIsFindable, OneHolder
  <2>3. IntentIsNew /\ RecordGoes
    BY <1>2, <2>1, <2>2 DEF IntentIsNew, RecordGoes
  <2>4. LiveIsFindable'
    BY <1>0, <2>1 DEF ShardSound, LiveIsFindable, Live
  <2>5. BackingStays
    BY <2>1 DEF BackingStays
  <2>6. PICK i \in 0..MaxClaims : i = minted + 1
    BY <2>1, At1, Constants
  <2>7. Backed(h, i, v)' /\ v \in Maybe(Hooks)
    BY <2>1, <2>6 DEF Backed, Maybe
  <2>8. Arrives(p)
    BY <1>1, <2>1, <2>6, <2>7, AdmitArrives
  <2> QED BY <1>0, <2>3, <2>4, <2>5, <2>8, ShardSteps DEF SoundStep, SameCells
<1> QED BY <1>1, <1>3, <1>4, <1>5, WriteIntentFlow

LEMMA PublishClaimSound ==
    ASSUME TokenType, TokenType', Names, AllSound, NEW p \in Procs, NEW t \in {"idle", "force"},
           claim # None, proc[p].pc \in AnsweredPc, proc[p].snap.id = claim.id, PublishClaim(p, t), SameCells
    PROVE  SoundStep(p)
<1>0. /\ ShardSound /\ OneHolder /\ Goes /\ UNCHANGED <<run, hook, from, forced, fences, owed>>
      /\ takeover = None /\ takeover' = None /\ record = None /\ claim' = None
  BY PublishClaimNames DEF AllSound, Names, Named, SameCells, PublishClaim, OneHolder
<1>1. PICK h, i : h \in Hooks /\ h = claim.owner /\ i = claim.id
  BY Stores
<1>2. /\ proc[p].snap.owner = h
      /\ proc[p].ans = "hook" => hook[h] # "none"
      /\ proc[p].ans # "hook" => Refused(h, i)
  BY <1>1 DEF Names, KnownSnap, ClaimPc, AllSound, Learned, LearnedClaim
<1>3. BackingStays /\ IntentIsNew
  BY <1>0, <1>1, <1>2, OldIntent DEF BackingStays, Refused
<1>4. CASE proc[p].ans # "hook" /\ Return(p, t)
  <2>1. ~Live(h) /\ record' = None
    BY <1>0, <1>1, <1>2, <1>4 DEF ShardSound, Refused, Live, PublishClaim
  <2>2. LiveIsFindable'
    BY <1>0, <1>1, <2>1, Constants DEF ShardSound, LiveIsFindable, Live
  <2>3. RecordGoes /\ Arrives(p)
    BY <1>4, <2>1, ReturnArrives DEF RecordGoes
  <2> QED BY <1>0, <1>3, <2>2, <2>3, ShardSteps DEF SoundStep
<1>5. CASE proc[p].ans = "hook" /\ To(p, "confirm", claim.owner, "none", t)
  <2>1. record' = h /\ hook[h] # "none"
    BY <1>1, <1>2, <1>5 DEF PublishClaim
  <2>2. LiveIsFindable'
    BY <1>0, <1>1, <2>1, Constants DEF ShardSound, LiveIsFindable, Live
  <2>3. Moved(p) /\ proc'[p].pc = "confirm" /\ proc'[p].snap = h /\ hook'[h] # "none"
    BY <1>0, <1>1, <1>5, <2>1 DEF To
  <2>4. RecordGoes /\ Arrives(p)
    BY <1>1, <2>1, <2>3, ConfirmArrives DEF RecordGoes
  <2> QED BY <1>0, <1>3, <2>2, <2>4, ShardSteps DEF SoundStep
<1> QED BY <1>4, <1>5, PublishFlow

LEMMA PublishSound ==
    ASSUME TokenType, TokenType', Names, AllSound, NEW p \in Procs,
           PreemptClaim(p) \/ CompactClaimResolved(p) \/ PublishCommittedClaim(p)
    PROVE  SoundStep(p)
<1>1. /\ proc[p].pc \in AnsweredPc /\ SameCells /\ ShardSound
      /\ UNCHANGED <<run, hook, from, forced, fences, owed>>
  BY DEF PreemptClaim, CompactClaimResolved, PublishCommittedClaim, At, AnsweredPc, Stays, SameCells, cells,
         AllSound
<1>2. ASSUME UNCHANGED shard, NEW t \in {"idle", "force"}, Return(p, t) PROVE SoundStep(p)
  BY <1>1, <1>2, StaysSound, ReturnArrives DEF SoundStep
<1>3. ASSUME NEW t \in {"idle", "force"}, claim # None, proc[p].snap.id = claim.id, PublishClaim(p, t)
      PROVE  SoundStep(p)
  BY <1>1, <1>3, PublishClaimSound
<1>4. claim = proc[p].snap => claim # None
  <2>1. proc[p].snap \in HookClaim /\ None \notin HookClaim
    BY <1>1, At1, Records DEF FrameFits, ClaimPc, TokenType
  <2> QED BY <2>1
<1> QED BY <1>2, <1>3, <1>4 DEF PreemptClaim, CompactClaimResolved, PublishCommittedClaim

LEMMA ReleaseSound ==
    ASSUME TokenType, TokenType', Names, AllSound, NEW p \in Procs, Release(p)
    PROVE  SoundStep(p)
<1>0. /\ ShardSound /\ OneHolder /\ Goes /\ proc[p].pc = "release" /\ LearnedHook(p)
      /\ UNCHANGED <<record, retained, takeover, run, hook, from, forced, fences, owed>>
  BY ReleaseNames DEF Release, At, AllSound, Learned, Names, Named, cells
<1>1. PICK t \in {"idle", "reserve", "force"} : t = proc[p].then
  BY <1>0, Back
<1>2. CASE takeover # None /\ StartSettle(p, t) /\ UNCHANGED claim
  BY <1>0, <1>2, StaysSound, SettleArrives DEF SoundStep, shard
<1>3. CASE Return(p, t) /\ UNCHANGED claim
  BY <1>0, <1>3, StaysSound, ReturnArrives DEF SoundStep, shard
<1>4. CASE /\ proc[p].vic = None /\ claim # None /\ claim.owner = proc[p].hook /\ claim.id = proc[p].id
           /\ claim' = None /\ Return(p, t)
  <2>1. PICK h, i : h \in Hooks /\ h = claim.owner /\ i = claim.id /\ i # 0
    BY <1>4, Stores, Constants DEF ClaimIds
  <2>2. Refused(h, i) \/ Over(h)
    BY <1>0, <1>4, <2>1 DEF LearnedHook
  <2>3. ~Live(h)
    BY <1>0, <1>4, <2>1, <2>2 DEF ShardSound, Refused, Over, Live
  <2>4. LiveIsFindable'
    BY <1>0, <1>4, <2>1, <2>3 DEF ShardSound, LiveIsFindable, Live
  <2>5. BackingStays /\ IntentIsNew /\ RecordGoes
    BY <1>0, <1>4, <2>1, <2>2, OldIntent DEF BackingStays, Refused, Over, RecordGoes
  <2>6. Arrives(p)
    BY <1>4, ReturnArrives
  <2> QED BY <1>0, <2>4, <2>5, <2>6, ShardSteps DEF SoundStep, SameCells
<1> QED BY <1>1, <1>2, <1>3, <1>4 DEF Release, Mine

(* A hook that is given back is over.                                       *)
LEMMA BatchSound ==
    ASSUME TokenType, OneHolder, ShardSound, NEW h \in Hooks, NEW ended, ReleaseBatch(h, ended),
           hook'[h] # "none", ~Live(h)', \A g \in Hooks : Live(g)' => Live(g)
    PROVE  Goes /\ BackingStays /\ IntentIsNew /\ RecordGoes /\ LiveIsFindable'
<1>1. /\ claim' = IF claim # None /\ claim.owner = h THEN None ELSE claim
      /\ takeover' = takeover
      /\ record' = record \/ (record = h /\ record' = None)
  BY DEF ReleaseBatch
<1>2. Goes
  BY BatchGivesBack
<1>3. BackingStays
  BY <1>1 DEF BackingStays
<1>4. IntentIsNew /\ RecordGoes
  BY <1>1, OldIntent DEF RecordGoes
<1>5. LiveIsFindable'
  <2> SUFFICES ASSUME NEW g \in Hooks, Live(g)'
               PROVE  \/ record' = g
                      \/ claim' # None /\ claim'.owner = g
                      \/ takeover' # None /\ takeover'.claimer = g
    BY DEF LiveIsFindable
  <2>1. Live(g) /\ g # h
    OBVIOUS
  <2> QED BY <1>1, <2>1 DEF ShardSound, LiveIsFindable
<1> QED BY <1>2, <1>3, <1>4, <1>5

LEMMA FinalizeStoreSound ==
    ASSUME TokenType, TokenType', Names, Kept, AllSound, NEW p \in Procs, FinalizeStore(p)
    PROVE  SoundStep(p)
<1>0. /\ ShardSound /\ OneHolder /\ Goes /\ proc[p].pc = "store" /\ SameCells
      /\ UNCHANGED <<run, hook, from, forced, fences, owed>> /\ Arrives(p)
  BY FinalizeStoreNames, ReturnArrives
     DEF FinalizeStore, At, AllSound, Names, Named, Stays, cells, SameCells
<1>1. PICK h \in Hooks : h = proc[p].hook /\ hook[h] # "none"
  BY <1>0, At1 DEF HookPc, AllSound, Learned, LearnedHook
<1>2. CASE UNCHANGED shard
  BY <1>0, <1>2, StaysSound DEF SoundStep
<1>3. CASE proc[p].ans # "hook" /\ ReleaseBatch(h, FALSE)
  <2>1. ~Live(h)' /\ hook'[h] # "none" /\ \A g \in Hooks : Live(g)' => Live(g)
    BY <1>0, <1>1, <1>3 DEF Kept, StoreKnows, Live
  <2>2. BackingStays /\ IntentIsNew /\ RecordGoes /\ LiveIsFindable'
    BY <1>0, <1>3, <2>1, BatchSound
  <2> QED BY <1>0, <2>2, ShardSteps DEF SoundStep
<1>4. CASE MayStore(h, proc[p].id) /\ record' = h /\ claim' = None /\ UNCHANGED takeover
  <2>1. LiveIsFindable'
    BY <1>0, <1>1, <1>4, Constants DEF ShardSound, LiveIsFindable, Live, MayStore
  <2>2. BackingStays /\ IntentIsNew /\ RecordGoes
    BY <1>0, <1>1, <1>4, OldIntent DEF BackingStays, RecordGoes, MayStore
  <2> QED BY <1>0, <2>1, <2>2, ShardSteps DEF SoundStep
<1> QED BY <1>1, <1>2, <1>3, <1>4 DEF FinalizeStore

LEMMA RollBackSound ==
    ASSUME TokenType, TokenType', Names, AllSound, NEW p \in Procs, RollBack(p)
    PROVE  SoundStep(p)
<1>0. /\ ShardSound /\ OneHolder /\ Goes /\ proc[p].pc = "rollback" /\ SameCells
      /\ UNCHANGED <<record, claim, run, hook, from, forced, fences, owed>>
  BY ReleaseNames DEF RollBack, At, AllSound, Names, Named, cells, SameCells
<1>1. PICK t \in {"idle", "reserve", "force"} : t = proc[p].then
  BY <1>0, Back DEF TakeoverPc
<1>2. Arrives(p)
  BY <1>1, ReturnArrives DEF RollBack
<1>3. CASE takeover' = takeover
  <2>1. LiveIsFindable' /\ BackingStays /\ IntentIsNew /\ RecordGoes
    BY <1>0, <1>3, OldIntent DEF ShardSound, LiveIsFindable, Live, BackingStays, RecordGoes
  <2> QED BY <1>0, <1>2, <2>1, ShardSteps DEF SoundStep
<1>4. CASE Pending(p) /\ takeover' = None
  <2>1. PICK g, i : g \in Hooks /\ g = takeover.claimer /\ i = takeover.id
    BY <1>4, Stores DEF Pending
  <2>2. proc[p].snap.claimer = g /\ proc[p].snap.id = i
    BY <1>0, <1>4, <2>1 DEF Pending, Names, KnownSnap, TakeoverPc
  <2>3. Refused(g, i)
    BY <1>0, <2>2 DEF AllSound, Learned, LearnedClaimer
  <2>4. ~Live(g)
    BY <1>0, <1>4, <2>1, <2>3 DEF ShardSound, IntentSound, Refused, Live, Pending
  <2>5. LiveIsFindable'
    BY <1>0, <1>4, <2>1, <2>4 DEF ShardSound, LiveIsFindable, Live
  <2>6. BackingStays /\ IntentIsNew /\ RecordGoes
    BY <1>0, <1>4, <2>1, <2>3, OldIntent DEF BackingStays, RecordGoes, Refused
  <2> QED BY <1>0, <1>2, <2>5, <2>6, ShardSteps DEF SoundStep
<1> QED BY <1>3, <1>4 DEF RollBack

LEMMA RepointSound ==
    ASSUME TokenType, TokenType', Names, AllSound, NEW p \in Procs, Repoint(p)
    PROVE  SoundStep(p)
<1>0. /\ ShardSound /\ OneHolder /\ Goes /\ proc[p].pc = "repoint" /\ SameCells
      /\ UNCHANGED <<claim, run, hook, from, forced, fences, owed>> /\ Learned(p)
  BY RepointNames DEF Repoint, At, AllSound, Names, Named, cells, SameCells
<1>1. PICK t \in {"idle", "reserve", "force"} : t = proc[p].then
  BY <1>0, Back DEF TakeoverPc
<1>2. CASE ~Pending(p)
  <2>1. UNCHANGED shard /\ Return(p, t)
    BY <1>0, <1>1, <1>2 DEF Repoint, shard
  <2> QED BY <1>0, <2>1, StaysSound, ReturnArrives DEF SoundStep
<1>3. CASE Pending(p)
  <2>0. takeover' = None /\ takeover # None /\ claim = None
    BY <1>0, <1>3 DEF Repoint, Pending, OneHolder
  <2>1. PICK g \in Hooks, v \in Hooks : g = takeover.claimer /\ v = takeover.victim
    BY <2>0, Stores
  <2>2. proc[p].snap.claimer = g /\ proc[p].snap.victim = v
    BY <1>0, <1>3, <2>1 DEF Pending, Names, KnownSnap, TakeoverPc
  <2>3. hook[g] # "none" /\ Over(v) /\ (proc[p].ans # "hook" => Over(g))
    BY <1>0, <2>2 DEF Learned, LearnedClaimer, LearnedVictim
  <2>4. BackingStays /\ IntentIsNew
    BY <1>0, <2>0, <2>1, <2>3, OldIntent DEF BackingStays
  <2>5. record \in {None, v}
    BY <1>0, <2>0, <2>1 DEF OneHolder
  <2>6. CASE proc[p].ans = "hook"
    <3>1. record' = g /\ ConfirmNext(p, g, t)
      BY <1>1, <1>3, <2>2, <2>6 DEF Repoint
    <3>2. LiveIsFindable'
      BY <1>0, <2>0, <2>1, <2>3, <2>5, <3>1, Constants DEF ShardSound, LiveIsFindable, Live, Over
    <3>3. Moved(p) /\ proc'[p].pc = "confirm" /\ proc'[p].snap = g /\ hook'[g] # "none"
      BY <1>0, <2>3, <3>1, ConfirmFlow DEF To
    <3>4. RecordGoes /\ Arrives(p)
      BY <2>3, <3>1, <3>3, ConfirmArrives DEF RecordGoes
    <3> QED BY <1>0, <2>4, <3>2, <3>4, ShardSteps DEF SoundStep
  <2>7. CASE proc[p].ans # "hook"
    <3>1. record' = None /\ Return(p, t)
      BY <1>1, <1>3, <2>7 DEF Repoint
    <3>2. LiveIsFindable'
      BY <1>0, <2>0, <2>1, <2>3, <2>5, <2>7, <3>1, Constants DEF ShardSound, LiveIsFindable, Live, Over
    <3>3. RecordGoes /\ Arrives(p)
      BY <3>1, ReturnArrives DEF RecordGoes
    <3> QED BY <1>0, <2>4, <3>2, <3>3, ShardSteps DEF SoundStep
  <2> QED BY <2>6, <2>7
<1> QED BY <1>2, <1>3

LEMMA WithdrawSound ==
    ASSUME TokenType, TokenType', Names, AllSound, NEW p \in Procs, Withdraw(p)
    PROVE  SoundStep(p)
<1>0. /\ ShardSound /\ Goes /\ proc[p].pc = "withdraw" /\ SameCells
      /\ UNCHANGED <<claim, takeover, run, hook, from, forced, fences, owed>>
  BY ReleaseNames DEF Withdraw, At, AllSound, Named, cells, SameCells
<1>1. PICK t \in {"idle", "reserve", "force"} : t = proc[p].then
  BY <1>0, Back DEF OwnerPc
<1>2. Arrives(p)
  BY <1>1, ReturnArrives DEF Withdraw
<1>3. record' = record \/ (record = proc[p].snap /\ record' = None)
  BY DEF Withdraw
<1>4. PICK h \in Hooks : h = proc[p].snap /\ ~Live(h)
  BY <1>0, At1 DEF FrameFits, OwnerPc, AllSound, Learned, LearnedOwner, Over
<1>5. LiveIsFindable'
  BY <1>0, <1>3, <1>4 DEF ShardSound, LiveIsFindable, Live
<1>6. BackingStays /\ IntentIsNew /\ RecordGoes
  BY <1>0, <1>3, OldIntent DEF BackingStays, RecordGoes
<1> QED BY <1>0, <1>2, <1>5, <1>6, ShardSteps DEF SoundStep

(* Every step of a process.  The hook-ID shard is the exception: its answer *)
(* gives back the claim of a hook that may have been created.               *)
LEMMA WalkSound ==
    ASSUME TokenType, AllSound, NEW p \in Procs, UNCHANGED <<shard, run, hook, from, forced, fences, owed>>,
           Arrives(p)
    PROVE  SoundStep(p)
BY StaysSound DEF SoundStep, AllSound

LEMMA AdmissionSound ==
    ASSUME TokenType, TokenType', Names, Kept, AllSound, NEW p \in Procs, Admission(p),
           ~HookIdReserveFails(p)
    PROVE  SoundStep(p)
<1>1. CASE Reserve(p) \/ ReserveResolved(p)
  BY <1>1, ReserveSound
<1>2. CASE ResolveExpiredHookClaim(p)
  BY <1>2, ResolveSound
<1>3. CASE WriteIntent(p)
  BY <1>3, WriteIntentSound
<1>4. CASE PreemptClaim(p)
  BY <1>4, PublishSound
<1>5. CASE ForceOverRecord(p)
  <2>1. UNCHANGED <<shard, run, hook, from, forced, fences, owed>>
    BY <1>5 DEF ForceOverRecord, cells
  <2> QED BY <1>5, <2>1, ForceOverRecordArrives, WalkSound
<1>6. CASE \/ \E h \in Hooks : CreateHook(p, h)
           \/ ReserveExpired(p) \/ (\E preempt \in BOOLEAN : ForceOverClaim(p, preempt))
           \/ (\E preempt \in BOOLEAN : ForceOverPending(p, preempt))
  <2>1. UNCHANGED <<shard, run, hook, from, forced, fences, owed>>
    BY <1>6 DEF CreateHook, ReserveExpired, ForceOverClaim, ForceOverPending, cells
  <2> QED BY <1>6, <2>1, WalkArrives, WalkSound
<1> QED BY <1>1, <1>2, <1>3, <1>4, <1>5, <1>6 DEF Admission

LEMMA CreationSound ==
    ASSUME TokenType, TokenType', Names, Kept, SweptEnded, AllSound, NEW p \in Procs, Creation(p)
    PROVE  SoundStep(p)
<1>1. CASE ApplyAnswered(p)
  BY <1>1, AppliedSound
<1>2. CASE ResolveAmbiguous(p)
  BY <1>2, AmbiguousSound
<1>3. CASE Release(p)
  BY <1>3, ReleaseSound
<1>4. CASE FinalizeStore(p)
  BY <1>4, FinalizeStoreSound
<1>5. CASE ApplyLost(p) \/ SettleAmbiguous(p)
  <2>1. UNCHANGED <<shard, run, hook, from, forced, fences, owed>>
    BY <1>5 DEF ApplyLost, SettleAmbiguous, cells
  <2> QED BY <1>5, <2>1, WalkArrives, WalkSound
<1>6. CASE CompleteTakeover(p) \/ FinalizeAsk(p)
  <2>1. UNCHANGED <<shard, run, hook, from, forced, fences, owed>>
    BY <1>6 DEF CompleteTakeover, FinalizeAsk, cells
  <2> QED BY <1>6, <2>1, AnsweredArrives, WalkSound
<1> QED BY <1>1, <1>2, <1>3, <1>4, <1>5, <1>6 DEF Creation

LEMMA SettlingSound ==
    ASSUME TokenType, TokenType', Names, AllSound, NEW p \in Procs, Settling(p)
    PROVE  SoundStep(p)
<1>1. CASE Confirm(p)
  <2>1. UNCHANGED <<shard, run, hook, from, forced, fences, owed>>
    BY <1>1 DEF Confirm, cells
  <2> QED BY <1>1, <2>1, AnsweredArrives, WalkSound
<1> QED BY <1>1, AskSound, RollBackSound, DisposeSound, RepointSound, WithdrawSound DEF Settling

LEMMA UpkeepSound ==
    ASSUME TokenType, TokenType', Names, AllSound, NEW p \in Procs, Upkeep(p) \/ Lose(p)
    PROVE  SoundStep(p)
<1>1. CASE CompactClaimResolved(p) \/ PublishCommittedClaim(p)
  BY <1>1, PublishSound
<1>2. CASE CompactClaim(p) \/ SettleTakeover(p) \/ Lose(p)
  <2>1. UNCHANGED <<shard, run, hook, from, forced, fences, owed>>
    BY <1>2 DEF CompactClaim, SettleTakeover, Lose, cells
  <2> QED BY <1>2, <2>1, WalkArrives, WalkSound
<1>3. CASE LookUp(p)
  <2>1. UNCHANGED <<shard, run, hook, from, forced, fences, owed>>
    BY <1>3 DEF LookUp, cells
  <2> QED BY <1>3, <2>1, AnsweredArrives, WalkSound
<1> QED BY <1>1, <1>2, <1>3 DEF Upkeep

(* A call whose caller stopped waiting is backed as it was before.          *)
LEMMA LostSound ==
    ASSUME TokenType, AllSound, NEW p \in Procs, ApplyLost(p), CellsGrow, BackingStays
    PROVE  LateSound'
<1>0. late' = late \cup {CallOf(p)} /\ proc[p].pc = "apply"
  BY DEF ApplyLost, At
<1>1. PICK h, i, v : h \in Hooks /\ h = proc[p].hook /\ i = proc[p].id /\ v = proc[p].vic
  BY <1>0, At1 DEF HookPc
<1>2. PICK c : c = CallOf(p)
  OBVIOUS
<1>3. c.hook = h /\ c.id = i /\ c.vic = v
  BY <1>1, <1>2, CallRecord
<1>4. Backed(h, i, v)'
  BY <1>0, <1>1, BackedStays DEF AllSound, Calling
<1>5. ASSUME NEW d \in late PROVE Backed(d.hook, d.id, d.vic)'
  <2>1. PICK g, j, w : g \in Hooks /\ g = d.hook /\ j = d.id /\ w = d.vic
    BY DEF TokenType, CallsType, Call
  <2>2. Backed(g, j, w)
    BY <2>1 DEF AllSound, LateSound
  <2>3. Backed(g, j, w)'
    BY <2>1, <2>2, BackedStays
  <2> QED BY <2>1, <2>3
<1> QED BY <1>0, <1>2, <1>3, <1>4, <1>5 DEF LateSound

LEMMA StepSound ==
    ASSUME TokenType, TokenType', Names, Kept, SweptEnded, AllSound, NEW p \in Procs,
           Admission(p) \/ Creation(p) \/ Settling(p) \/ Upkeep(p) \/ Lose(p), ~HookIdReserveFails(p)
    PROVE  AllSound'
<1>1. SoundStep(p) /\ Goes
  BY AdmissionSound, CreationSound, SettlingSound, UpkeepSound, ProcNames DEF Named
<1>2. CASE late' \subseteq late
  BY <1>1, <1>2, ProcSound DEF SoundStep
<1>3. CASE ApplyLost(p)
  <2>1. PICK P \in SUBSET Procs : P = {p}
    OBVIOUS
  <2>2. \A q \in Procs \ P : proc'[q] = proc[q]
    BY <1>1, <2>1 DEF SoundStep, Arrives, Moved
  <2>3. \A q \in P : Calling(q)' /\ Learned(q)' /\ Finalizing(q)'
    BY <1>1, <2>1 DEF SoundStep, Arrives
  <2>4. FramesSound' /\ LateSound'
    BY <1>1, <1>3, <2>2, <2>3, OthersSound, LostSound DEF SoundStep
  <2> QED BY <1>1, <2>4 DEF SoundStep, AllSound, FramesSound
<1>4. CASE Admission(p)
  <2>1. CASE \E preempt \in BOOLEAN : ForceOverPending(p, preempt) \/ ForceOverClaim(p, preempt)
    BY <1>2, <2>1 DEF ForceOverPending, ForceOverClaim
  <2> QED BY <1>2, <1>4, <2>1
        DEF Admission, CreateHook, Reserve, ReserveExpired, ReserveResolved, ResolveExpiredHookClaim,
            ForceOverRecord, WriteIntent, PreemptClaim, HookIdReserveFails, Stays
<1>5. CASE Creation(p)
  BY <1>2, <1>3, <1>5 DEF Creation, ApplyAnswered, ResolveAmbiguous, SettleAmbiguous,
                          Release, CompleteTakeover, FinalizeAsk, FinalizeStore, Stays
<1>6. CASE Settling(p)
  BY <1>2, <1>6 DEF Settling, ResolveForcedHookClaim, RollBack, ForceDispose, Repoint, Confirm, Withdraw
<1>7. CASE Upkeep(p)
  BY <1>2, <1>7 DEF Upkeep, CompactClaim, CompactClaimResolved, SettleTakeover, LookUp,
                    PublishCommittedClaim, Stays
<1>8. CASE Lose(p)
  BY <1>2, <1>8 DEF Lose
<1> QED BY <1>4, <1>5, <1>6, <1>7, <1>8

(* The steps of the cells and of time.                                      *)
LEMMA OtherSound ==
    ASSUME TokenType, TokenType', Names, Kept, AllSound,
           \/ \E c \in late : ApplyLate(c)
           \/ CompactRetained \/ Expire
           \/ \E h \in Hooks : \/ DisposeHook(h) \/ ReleaseDisposed(h) \/ EndRun(h) \/ ExpireRun(h)
                               \/ ReleaseCleanup(h)
    PROVE  AllSound'
<1>0. /\ Goes /\ proc' = proc /\ ShardSound /\ OneHolder
      /\ hook \in [Hooks -> {"none", "live", "disposed", "swept"}]
      /\ run \in [Hooks -> {"live", "ended", "expired"}]
  BY OtherNames DEF AllSound, Names, TokenType, CellsType
<1>1. ASSUME CellsGrow, BackingStays, ShardSound', late' \subseteq late
      PROVE  AllSound'
  BY <1>0, <1>1, CellSound
<1>2. ASSUME NEW c \in late, ApplyLate(c) PROVE AllSound'
  <2>1. c \in Call /\ Backed(c.hook, c.id, c.vic)
    BY DEF TokenType, CallsType, AllSound, LateSound
  <2>2. CellsGrow /\ ShardSound'
    BY <1>0, <1>2, <2>1, CreateStays DEF ApplyLate
  <2>3. BackingStays
    BY <1>2 DEF ApplyLate, BackingStays, shard
  <2> QED BY <1>1, <1>2, <2>2, <2>3 DEF ApplyLate
<1>3. CASE CompactRetained
  <2>1. SameCells /\ claim' = claim /\ takeover' = takeover /\ late' = late
    BY <1>3 DEF CompactRetained, SameCells, cells
  <2>2. record' = record \/ (record' = None /\ run[record] # "live")
    BY <1>3 DEF CompactRetained, RetentionOver, Kept, RetainedEnded
  <2>3. LiveIsFindable'
    BY <1>0, <2>1, <2>2 DEF SameCells, ShardSound, LiveIsFindable, Live
  <2>4. BackingStays /\ IntentIsNew /\ RecordGoes
    BY <2>1, <2>2, OldIntent DEF BackingStays, RecordGoes
  <2> QED BY <1>0, <1>1, <2>1, <2>3, <2>4, ShardSteps
<1>4. CASE Expire
  <2>1. SameCells /\ record' = record /\ late' = late
    BY <1>4, Expired DEF SameCells
  <2>2. LiveIsFindable'
    BY <1>0, <1>4, <2>1, Expired DEF SameCells, ShardSound, LiveIsFindable, Live
  <2>3. BackingStays /\ RecordGoes
    BY <1>4, <2>1, Expired DEF BackingStays, RecordGoes
  <2>4. IntentIsNew
    <3>1. takeover' # None => takeover # None /\ takeover'.id = takeover.id
      BY <1>4, Expired
    <3> QED BY <3>1, Stores DEF IntentIsNew, TokenType, IdsFit, CallsType, ClaimIds
  <2> QED BY <1>0, <1>1, <2>1, <2>2, <2>3, <2>4, ShardSteps
<1>5. ASSUME NEW h \in Hooks, DisposeHook(h) \/ EndRun(h) \/ ExpireRun(h) PROVE AllSound'
  <2>0. /\ UNCHANGED <<from, forced, fences>> /\ UNCHANGED shard /\ late' = late
        /\ record' = record /\ claim' = claim /\ takeover' = takeover
    BY <1>5 DEF DisposeHook, EndRun, ExpireRun, shard
  <2>1. CellsGrow
    BY <1>0, <1>5, <2>0 DEF DisposeHook, EndRun, ExpireRun, CellsGrow
  <2>2. \A g \in Hooks : Live(g)' => Live(g)
    BY <1>0, <1>5 DEF DisposeHook, EndRun, ExpireRun, Live
  <2>3. \A g \in owed' : hook'[g] = "disposed"
    BY <1>0, <1>5 DEF DisposeHook, EndRun, ExpireRun, ShardSound, TokenType, CallsType
  <2>4. NoNewHook
    BY <2>0, <2>1, <2>2, <2>3 DEF NoNewHook
  <2>5. LiveIsFindable'
    BY <1>0, <2>0, <2>2 DEF ShardSound, LiveIsFindable
  <2>6. BackingStays /\ IntentIsNew /\ RecordGoes
    BY <2>0, OldIntent DEF BackingStays, RecordGoes
  <2> QED BY <1>0, <1>1, <2>0, <2>1, <2>4, <2>5, <2>6, ShardStays
<1>6. ASSUME NEW h \in Hooks, ReleaseDisposed(h) PROVE AllSound'
  <2>1. /\ UNCHANGED <<run, hook, from, forced, fences>> /\ late' = late /\ owed' \subseteq owed
        /\ hook[h] = "disposed" /\ ReleaseBatch(h, FALSE)
    BY <1>0, <1>6 DEF ReleaseDisposed, cells, ShardSound
  <2>2. hook'[h] # "none" /\ ~Live(h)' /\ \A g \in Hooks : Live(g)' => Live(g)
    BY <2>1 DEF Live
  <2>3. BackingStays /\ IntentIsNew /\ RecordGoes /\ LiveIsFindable'
    BY <1>0, <2>1, <2>2, BatchSound
  <2>4. CellsGrow
    BY <2>1, SameCellsGrow
  <2>5. NoNewHook
    BY <1>0, <2>1, <2>2, <2>4 DEF NoNewHook, ShardSound
  <2> QED BY <1>0, <1>1, <2>1, <2>3, <2>4, <2>5, ShardStays
<1>7. ASSUME NEW h \in Hooks, ReleaseCleanup(h) PROVE AllSound'
  <2>1. /\ UNCHANGED <<run, from, forced, fences, owed>> /\ late' = late
        /\ run[h] # "live" /\ hook[h] # "none"
        /\ hook' = hook \/ (hook[h] = "live" /\ hook' = [hook EXCEPT ![h] = "swept"])
    BY <1>7 DEF ReleaseCleanup
  <2>2. hook'[h] # "none" /\ ~Live(h)' /\ \A g \in Hooks : Live(g)' => Live(g)
    BY <1>0, <2>1 DEF Live
  <2>3. PICK b : ReleaseBatch(h, b)
    BY <1>7 DEF ReleaseCleanup
  <2>4. BackingStays /\ IntentIsNew /\ RecordGoes /\ LiveIsFindable'
    BY <1>0, <2>2, <2>3, BatchSound
  <2>5. CellsGrow
    BY <1>0, <2>1 DEF CellsGrow
  <2>6. NoNewHook
    BY <1>0, <2>1, <2>2, <2>5 DEF NoNewHook, ShardSound, TokenType, CallsType
  <2> QED BY <1>0, <1>1, <2>1, <2>4, <2>5, <2>6, ShardStays
<1> QED BY <1>2, <1>3, <1>4, <1>5, <1>6, <1>7

-----------------------------------------------------------------------------

LEMMA ProcSweeps ==
    ASSUME TokenType, NEW p \in Procs,
           Admission(p) \/ Creation(p) \/ Settling(p) \/ Upkeep(p) \/ Lose(p)
    PROVE  \A h \in Hooks : hook'[h] = "swept" => hook[h] = "swept"
<1>0. hook \in [Hooks -> {"none", "live", "disposed", "swept"}]
  BY DEF TokenType, CellsType
<1>1. CASE UNCHANGED hook \/ UNCHANGED cells
  BY <1>1 DEF cells
<1>2. CASE Admission(p)
  <2>1. CASE \E preempt \in BOOLEAN : ForceOverPending(p, preempt) \/ ForceOverClaim(p, preempt)
    BY <1>1, <2>1 DEF ForceOverPending, ForceOverClaim
  <2> QED BY <1>1, <1>2, <2>1
        DEF Admission, CreateHook, Reserve, ReserveExpired, ReserveResolved, ResolveExpiredHookClaim,
            ForceOverRecord, WriteIntent, PreemptClaim, HookIdReserveFails, Stays
<1>3. CASE Creation(p)
  <2>1. CASE ApplyAnswered(p)
    BY <1>0, <1>1, <2>1 DEF ApplyAnswered, Apply
  <2> QED BY <1>1, <1>3, <2>1 DEF Creation, ApplyLost, ResolveAmbiguous, SettleAmbiguous,
                    Release, CompleteTakeover, FinalizeAsk, FinalizeStore, Stays
<1>4. CASE Settling(p)
  <2>1. CASE ForceDispose(p)
    BY <1>0, <1>1, <2>1 DEF ForceDispose
  <2> QED BY <1>1, <1>4, <2>1 DEF Settling, ResolveForcedHookClaim, RollBack, Repoint, Confirm,
                    Withdraw
<1>5. CASE Upkeep(p)
  BY <1>1, <1>5 DEF Upkeep, CompactClaim, CompactClaimResolved, SettleTakeover, LookUp,
                    PublishCommittedClaim, Stays
<1>6. CASE Lose(p)
  BY <1>1, <1>6 DEF Lose
<1> QED BY <1>2, <1>3, <1>4, <1>5, <1>6

LEMMA SweptStays == TokenType /\ SweptEnded /\ [Next]_vars => SweptEnded'
<1> SUFFICES ASSUME TokenType, SweptEnded, [Next]_vars PROVE SweptEnded'
  OBVIOUS
<1>0. setup.procs \subseteq Procs /\ hook \in [Hooks -> {"none", "live", "disposed", "swept"}]
  BY SetupFields DEF TokenType, CellsType
<1>1. ASSUME NEW p \in Procs, Admission(p) \/ Creation(p) \/ Settling(p) \/ Upkeep(p) \/ Lose(p)
      PROVE  SweptEnded'
  BY <1>1, ProcSweeps, ProcSameRun DEF SweptEnded
<1>2. CASE \/ \E c \in late : ApplyLate(c)
           \/ CompactRetained \/ Expire
           \/ \E h \in Hooks : \/ DisposeHook(h) \/ ReleaseDisposed(h) \/ EndRun(h) \/ ExpireRun(h)
                               \/ ReleaseCleanup(h)
  <2>1. RunsEnd
    BY <1>2, OtherRunsEnd
  <2>2. CASE UNCHANGED hook \/ UNCHANGED cells
    BY <2>1, <2>2 DEF SweptEnded, RunsEnd, cells
  <2>3. ASSUME NEW c, ApplyLate(c) PROVE SweptEnded'
    BY <1>0, <2>1, <2>2, <2>3 DEF ApplyLate, Apply, SweptEnded, RunsEnd
  <2>4. ASSUME NEW h \in Hooks, DisposeHook(h) \/ ReleaseCleanup(h) PROVE SweptEnded'
    BY <1>0, <2>1, <2>4 DEF DisposeHook, ReleaseCleanup, SweptEnded, RunsEnd
  <2> QED BY <1>2, <2>2, <2>3, <2>4 DEF CompactRetained, Expire, ReleaseDisposed, EndRun, ExpireRun
<1>3. CASE UNCHANGED vars
  BY <1>3 DEF vars, cells, SweptEnded
<1> QED BY <1>0, <1>1, <1>2, <1>3 DEF Next

LEMMA IdFaultsGrow ==
    ASSUME TokenType, NEW p \in Procs, idFaults' = 0,
           Admission(p) \/ Creation(p) \/ Settling(p) \/ Upkeep(p) \/ Lose(p)
    PROVE  idFaults = 0 /\ ~HookIdReserveFails(p)
<1>1. idFaults \in Nat
  BY Constants DEF TokenType, CallsType
<1>2. ~HookIdReserveFails(p)
  BY <1>1 DEF HookIdReserveFails
<1>3. CASE UNCHANGED idFaults
  BY <1>2, <1>3
<1>4. CASE Admission(p)
  <2>1. CASE \E preempt \in BOOLEAN : ForceOverPending(p, preempt) \/ ForceOverClaim(p, preempt)
    BY <1>3, <2>1 DEF ForceOverPending, ForceOverClaim
  <2> QED BY <1>2, <1>3, <1>4, <2>1
        DEF Admission, CreateHook, Reserve, ReserveExpired, ReserveResolved, ResolveExpiredHookClaim,
            ForceOverRecord, WriteIntent, PreemptClaim, Stays
<1>5. CASE Creation(p)
  BY <1>3, <1>5 DEF Creation, ApplyAnswered, ApplyLost, ResolveAmbiguous, SettleAmbiguous,
                    Release, CompleteTakeover, FinalizeAsk, FinalizeStore, Stays
<1>6. CASE Settling(p)
  BY <1>3, <1>6 DEF Settling, ResolveForcedHookClaim, RollBack, ForceDispose, Repoint, Confirm,
                    Withdraw
<1>7. CASE Upkeep(p)
  BY <1>3, <1>7 DEF Upkeep, CompactClaim, CompactClaimResolved, SettleTakeover, LookUp,
                    PublishCommittedClaim, Stays
<1>8. CASE Lose(p)
  BY <1>3, <1>8 DEF Lose
<1> QED BY <1>4, <1>5, <1>6, <1>7, <1>8

LEMMA InitSound == Init => SweptEnded /\ Sound
<1> SUFFICES ASSUME Init PROVE SweptEnded /\ AllSound
  BY DEF Sound
<1>1. \A p \in Procs : proc[p].pc = "idle"
  BY IdleFrame DEF Init
<1>2. \A p \in Procs : Calling(p) /\ Learned(p) /\ Finalizing(p)
  BY <1>1 DEF Calling, Finalizing, Learned, LearnedHook, LearnedClaim, LearnedVictim, LearnedClaimer,
              LearnedOwner, AnsweredPc, TakeoverPc, OwnerPc
<1>3. ShardSound /\ LateSound /\ SweptEnded
  BY DEF Init, ShardSound, LiveIsFindable, Live, IntentSound, ForcedSound, LateSound, SweptEnded
<1> QED BY <1>2, <1>3 DEF AllSound

LEMMA NextSound ==
    TokenType /\ TokenType' /\ Names /\ Kept /\ SweptEnded /\ Sound /\ [Next]_vars => Sound'
<1> SUFFICES ASSUME TokenType, TokenType', Names, Kept, SweptEnded, Sound, [Next]_vars, idFaults' = 0
             PROVE  AllSound'
  BY DEF Sound
<1>0. setup.procs \subseteq Procs
  BY SetupFields DEF TokenType
<1>1. ASSUME NEW p \in Procs, Admission(p) \/ Creation(p) \/ Settling(p) \/ Upkeep(p) \/ Lose(p)
      PROVE  AllSound'
  BY <1>1, IdFaultsGrow, StepSound DEF Sound
<1>2. CASE \/ \E c \in late : ApplyLate(c)
           \/ CompactRetained \/ Expire
           \/ \E h \in Hooks : \/ DisposeHook(h) \/ ReleaseDisposed(h) \/ EndRun(h) \/ ExpireRun(h)
                               \/ ReleaseCleanup(h)
  <2>1. idFaults' = idFaults
    BY <1>2 DEF ApplyLate, CompactRetained, Expire, DisposeHook, ReleaseDisposed, EndRun, ExpireRun,
                ReleaseCleanup
  <2> QED BY <1>2, <2>1, OtherSound DEF Sound
<1>3. CASE UNCHANGED vars
  <2>1. /\ UNCHANGED <<shard, run, hook, from, forced, fences, owed>> /\ proc' = proc /\ late' = late
        /\ AllSound /\ ShardSound
    BY <1>3 DEF vars, cells, Sound, AllSound
  <2>2. CellsGrow /\ BackingStays /\ ShardSound' /\ Goes
    BY <2>1, StaysSound, SameShard
  <2> QED BY <2>1, <2>2, CellSound
<1> QED BY <1>0, <1>1, <1>2, <1>3 DEF Next

LEMMA SoundInvariant == Spec => [](TokenType /\ Names /\ Sound)
<1>1. Spec => [](TokenType /\ Names)
  BY NamesInvariant
<1>2. TokenType /\ Names /\ (TokenType /\ Names)' /\ Kept /\ [Next]_vars => Kept'
  BY NextKept
<1>3. TokenType /\ SweptEnded /\ [Next]_vars => SweptEnded'
  BY SweptStays
<1>4. /\ TokenType /\ Names /\ (TokenType /\ Names)' /\ Kept /\ SweptEnded /\ Sound /\ [Next]_vars
      => Sound'
  BY NextSound
<1> QED BY <1>1, <1>2, <1>3, <1>4, InitKept, InitSound, PTL DEF Spec

(* A committed hook is never stranded while the hook-ID shard answers: its  *)
(* record, its claim or its intent leads to it, in every interleaving of    *)
(* admissions, late calls, alarms, settlements and cleanups.                *)
THEOREM CommittedHooksAreFindable == Spec => []FindableUntilFault
<1>1. Sound => FindableUntilFault
  BY DEF Sound, AllSound, ShardSound, FindableUntilFault
<1> QED BY <1>1, SoundInvariant, PTL

(* Two runs have a live hook for the token only while one takes it over     *)
(* from the other: what a live hook is found by is held by one of them.     *)
THEOREM TokenIsExclusive == Spec => []TokenExclusive
<1>1. TokenType /\ Names /\ Sound => TokenExclusive
  <2> SUFFICES ASSUME TokenType, Names, Sound, idFaults = 0, NEW g \in Hooks, NEW h \in Hooks, g # h,
                      Live(g), Live(h)
               PROVE  takeover # None /\ {takeover.claimer, takeover.victim} = {g, h}
    BY DEF TokenExclusive
  <2>1. LiveIsFindable /\ OneHolder
    BY DEF Sound, AllSound, ShardSound, Names
  <2>2. /\ record = g \/ (claim # None /\ claim.owner = g) \/ (takeover # None /\ takeover.claimer = g)
        /\ record = h \/ (claim # None /\ claim.owner = h) \/ (takeover # None /\ takeover.claimer = h)
    BY <2>1 DEF LiveIsFindable
  <2>3. /\ claim # None => record = None /\ takeover = None
        /\ takeover # None => record = None \/ record = takeover.victim
    BY <2>1 DEF OneHolder
  <2>4. \/ takeover # None /\ record = g /\ takeover.claimer = h /\ takeover.victim = g
        \/ takeover # None /\ record = h /\ takeover.claimer = g /\ takeover.victim = h
    BY <2>2, <2>3, Constants
  <2> QED BY <2>4
<1> QED BY <1>1, SoundInvariant, PTL

(* forceDisposeHook runs only for a creation that committed against its     *)
(* victim: the answer of the claimer's cell, which the settler carries, is  *)
(* still true when the victim is disposed.                                  *)
THEOREM VictimsYieldToCommitted == Spec => []VictimYieldsToCommitted
<1>1. Sound => VictimYieldsToCommitted
  <2> SUFFICES ASSUME Sound, idFaults = 0, NEW v \in Hooks, NEW g \in Hooks, forced[v] = g
               PROVE  hook[g] # "none" /\ from[g] = v
    BY DEF VictimYieldsToCommitted
  <2> QED BY Constants DEF Sound, AllSound, ShardSound, ForcedSound
<1> QED BY <1>1, SoundInvariant, PTL

-----------------------------------------------------------------------------
(* HookOwnership *)

(* What a step does to the hooks and the intent: one hook comes, one goes,  *)
(* or the intent moves while the cells stand still.                         *)
Enters(h) ==
    /\ hook[h] = "none" /\ hook' = [hook EXCEPT ![h] = "live"]
    /\ run[h] = "live" /\ run' = run /\ takeover' = takeover

Leaves(h) ==
    /\ takeover' = takeover
    /\ \A g \in Hooks : /\ hook'[g] = "none" <=> hook[g] = "none"
                        /\ Live(g)' <=> Live(g) /\ g # h

CellsRest == run' = run /\ hook' = hook

IntentMoves ==
    \/ takeover' = takeover \/ takeover' = None
    \/ /\ takeover # None /\ takeover' # None
       /\ takeover'.claimer = takeover.claimer /\ takeover'.victim = takeover.victim
    \/ /\ takeover = None /\ takeover' \in HookTakeover
       /\ record # None /\ takeover'.victim = record

Moves ==
    \/ \E h \in Hooks : Enters(h) \/ Leaves(h)
    \/ CellsRest /\ IntentMoves

LEMMA ApplyMoves ==
    ASSUME TokenType, NEW c \in Call, Apply(c), takeover' = takeover
    PROVE  Moves
<1>1. CASE Accepted(c) /\ hook[c.hook] = "none"
  <2>1. c.hook \in Hooks /\ Enters(c.hook)
    BY <1>1 DEF Apply, Accepted, Enters, Call
  <2> QED BY <2>1 DEF Moves
<1>2. CASE UNCHANGED cells
  BY <1>2 DEF cells, CellsRest, IntentMoves, Moves
<1> QED BY <1>1, <1>2 DEF Apply

LEMMA RestMoves ==
    ASSUME UNCHANGED <<run, hook>>, IntentMoves
    PROVE  Moves
BY DEF Moves, CellsRest

LEMMA WriteIntentMoves ==
    ASSUME TokenType, NEW p \in Procs, WriteIntent(p)
    PROVE  Moves
<1> DEFINE d == proc[p].snap
<1>1. /\ proc[p].hook \in Hooks /\ d \in Described /\ minted \in Nat
      /\ record # None => record \in Hooks
  BY At1, Stores DEF WriteIntent, At, FrameFits, HookPc
<1>2. UNCHANGED <<run, hook>>
  BY DEF WriteIntent, Stays, cells
<1>3. d.victim \in Hooks /\ d.victim # None /\ d.running \in BOOLEAN
  BY <1>1, Constants DEF Described
<1>4. CASE UNCHANGED takeover
  BY <1>2, <1>4, RestMoves DEF IntentMoves
<1>5. CASE /\ record = d.victim /\ takeover = None /\ minted < MaxClaims
           /\ takeover' = [claimer |-> proc[p].hook, id |-> minted + 1, victim |-> d.victim,
                           running |-> d.running, expired |-> FALSE]
  <2>1. minted + 1 \in ClaimIds
    BY <1>1, <1>5, Constants DEF ClaimIds
  <2>2. takeover' \in HookTakeover /\ takeover'.victim = record /\ record # None
    BY <1>1, <1>3, <1>5, <2>1 DEF HookTakeover
  <2> QED BY <1>2, <1>5, <2>2, RestMoves DEF IntentMoves
<1> QED BY <1>4, <1>5 DEF WriteIntent, shard

LEMMA DisposeMoves ==
    ASSUME TokenType, NEW p \in Procs, ForceDispose(p)
    PROVE  Moves
<1> DEFINE v == proc[p].snap.victim
<1>1. v \in Hooks /\ takeover' = takeover /\ run' = run
  BY At1 DEF ForceDispose, At, FrameFits, TakeoverPc, HookTakeover, shard
<1>2. hook \in [Hooks -> {"none", "live", "disposed", "swept"}]
  BY DEF TokenType, CellsType
<1>3. CASE hook[v] = "live" /\ hook' = [hook EXCEPT ![v] = "disposed"]
  <2> HIDE DEF v
  <2>1. Leaves(v)
    BY <1>1, <1>2, <1>3 DEF Leaves, Live
  <2> QED BY <1>1, <2>1 DEF Moves
<1>4. CASE UNCHANGED hook
  BY <1>1, <1>4, RestMoves DEF IntentMoves
<1> QED BY <1>3, <1>4 DEF ForceDispose

LEMMA ProcMoves ==
    ASSUME TokenType, NEW p \in Procs, ~HookIdReserveFails(p),
           Admission(p) \/ Creation(p) \/ Settling(p) \/ Upkeep(p) \/ Lose(p)
    PROVE  Moves
<1>1. CASE UNCHANGED cells /\ IntentMoves
  BY <1>1, RestMoves DEF cells
<1>2. CASE Admission(p)
  <2>1. CASE \E preempt \in BOOLEAN : ForceOverPending(p, preempt) \/ ForceOverClaim(p, preempt)
    BY <1>1, <2>1 DEF ForceOverPending, ForceOverClaim, shard, IntentMoves
  <2>2. CASE Reserve(p) \/ ReserveResolved(p)
    BY <1>1, <2>2 DEF Reserve, ReserveResolved, ReserveTxn, Stays, shard, IntentMoves
  <2>3. CASE PreemptClaim(p)
    BY <1>1, <2>3 DEF PreemptClaim, PublishClaim, Stays, shard, IntentMoves
  <2>4. CASE ResolveExpiredHookClaim(p)
    BY <2>4, RestMoves DEF ResolveExpiredHookClaim, shard, IntentMoves
  <2>5. CASE (\E h \in Hooks : CreateHook(p, h)) \/ ReserveExpired(p) \/ ForceOverRecord(p)
    <3>1. UNCHANGED <<shard, cells>>
      BY <2>5 DEF CreateHook, ReserveExpired, ForceOverRecord
    <3> QED BY <1>1, <3>1 DEF shard, IntentMoves
  <2> QED BY <1>2, <2>1, <2>2, <2>3, <2>4, <2>5, WriteIntentMoves DEF Admission
<1>3. CASE Creation(p)
  <2>1. CASE ApplyAnswered(p)
    <3>1. CallOf(p) \in Call
      BY <2>1, At1, FrameFields DEF ApplyAnswered, At, HookPc, CallOf, Call
    <3> QED BY <2>1, <3>1, ApplyMoves DEF ApplyAnswered, shard
  <2>2. CASE ResolveAmbiguous(p)
    BY <2>2, RestMoves DEF ResolveAmbiguous, shard, IntentMoves
  <2>3. CASE FinalizeStore(p)
    BY <1>1, <2>3 DEF FinalizeStore, ReleaseBatch, Stays, shard, IntentMoves
  <2> QED BY <1>1, <1>3, <2>1, <2>2, <2>3
        DEF Creation, ApplyLost, SettleAmbiguous, Release, CompleteTakeover, FinalizeAsk, shard,
            IntentMoves
<1>4. CASE Settling(p)
  <2>1. CASE ResolveForcedHookClaim(p)
    BY <2>1, RestMoves DEF ResolveForcedHookClaim, shard, IntentMoves
  <2>2. CASE RollBack(p) \/ Repoint(p)
    BY <1>1, <2>2 DEF RollBack, Repoint, IntentMoves
  <2> QED BY <1>1, <1>4, <2>1, <2>2, DisposeMoves DEF Settling, Confirm, Withdraw, shard, IntentMoves
<1>5. CASE Upkeep(p)
  <2>1. CASE CompactClaimResolved(p) \/ PublishCommittedClaim(p)
    BY <1>1, <2>1 DEF CompactClaimResolved, PublishCommittedClaim, PublishClaim, Stays, shard,
                      IntentMoves
  <2> QED BY <1>1, <1>5, <2>1 DEF Upkeep, CompactClaim, SettleTakeover, LookUp, shard, IntentMoves
<1>6. CASE Lose(p)
  BY <1>1, <1>6 DEF Lose, shard, IntentMoves
<1> QED BY <1>2, <1>3, <1>4, <1>5, <1>6

LEMMA OtherMoves ==
    ASSUME TokenType,
           \/ \E c \in late : ApplyLate(c)
           \/ CompactRetained \/ Expire
           \/ \E h \in Hooks : \/ DisposeHook(h) \/ ReleaseDisposed(h) \/ EndRun(h) \/ ExpireRun(h)
                               \/ ReleaseCleanup(h)
    PROVE  Moves
<1>0. /\ hook \in [Hooks -> {"none", "live", "disposed", "swept"}]
      /\ run \in [Hooks -> {"live", "ended", "expired"}]
  BY DEF TokenType, CellsType
<1>1. ASSUME NEW c \in late, ApplyLate(c) PROVE Moves
  BY <1>1, ApplyMoves DEF ApplyLate, shard, TokenType, CallsType
<1>2. CASE CompactRetained
  BY <1>2, RestMoves DEF CompactRetained, cells, IntentMoves
<1>3. CASE Expire
  <2>1. IntentMoves
    BY <1>3, Expired DEF IntentMoves
  <2> QED BY <1>3, <2>1, RestMoves DEF Expire
<1>4. ASSUME NEW h \in Hooks, DisposeHook(h) \/ EndRun(h) \/ ExpireRun(h) \/ ReleaseCleanup(h)
      PROVE  Moves
  <2>1. takeover' = takeover
    BY <1>4 DEF DisposeHook, EndRun, ExpireRun, ReleaseCleanup, ReleaseBatch, shard
  <2>2. Leaves(h)
    BY <1>0, <1>4, <2>1 DEF DisposeHook, EndRun, ExpireRun, ReleaseCleanup, Leaves, Live
  <2> QED BY <2>2 DEF Moves
<1>5. ASSUME NEW h \in Hooks, ReleaseDisposed(h) PROVE Moves
  BY <1>5, RestMoves DEF ReleaseDisposed, ReleaseBatch, cells, IntentMoves
<1> QED BY <1>1, <1>2, <1>3, <1>4, <1>5

(* Whom the token can belong to while the hook-ID shard answers.            *)
Owned ==
    /\ takeover # None => /\ \A g \in Hooks : Live(g) => g = takeover.claimer \/ g = takeover.victim
                          /\ hook[takeover.victim] # "none"
                          /\ takeover \in HookTakeover /\ takeover.claimer # takeover.victim
    /\ takeover = None => \A g, h \in Hooks : Live(g) /\ Live(h) => g = h
    /\ record # None => hook[record] # "none"
    /\ takeover = None /\ record # None => \A g \in Hooks : Live(g) => g = record

LEMMA SoundOwned ==
    ASSUME TokenType, Names, Sound, idFaults = 0
    PROVE  Owned
<1>1. ShardSound /\ OneHolder
  BY DEF Sound, AllSound, Names
<1>2. /\ claim # None => record = None /\ takeover = None
      /\ takeover # None => /\ record = None \/ record = takeover.victim
                            /\ takeover.claimer # takeover.victim
  BY <1>1 DEF OneHolder
<1>3. \A g \in Hooks : Live(g) =>
        \/ record = g \/ (claim # None /\ claim.owner = g)
        \/ (takeover # None /\ takeover.claimer = g)
  BY <1>1 DEF ShardSound, LiveIsFindable
<1>4. takeover # None => takeover \in HookTakeover /\ hook[takeover.victim] # "none"
  BY <1>1, Stores DEF ShardSound, IntentSound
<1>5. record # None => hook[record] # "none"
  BY <1>1 DEF ShardSound
<1> QED BY <1>2, <1>3, <1>4, <1>5, Constants DEF Owned

LEMMA InitIsOwnershipInit == Init => Ownership!Init
BY DEF Init, Ownership!Init, Live

LEMMA EnterIsOwnershipStep ==
    ASSUME TokenType, Owned, Owned', idFaults' = idFaults, NEW h \in Hooks, Enters(h)
    PROVE  Ownership!Create(h) \/ Ownership!TakeOver(h)
<1>0. hook \in [Hooks -> {"none", "live", "disposed", "swept"}]
  BY DEF TokenType, CellsType
<1>1. ~Live(h) /\ Live(h)' /\ \A g \in Hooks : g # h => (Live(g)' <=> Live(g))
  BY <1>0 DEF Enters, Live
<1>2. \A g \in Hooks : hook'[g] # "none" <=> hook[g] # "none" \/ g = h
  BY <1>0 DEF Enters
<1>3. Ownership!Enter(h)
  BY <1>0, <1>1, <1>2 DEF Ownership!Enter, Enters
<1>4. CASE takeover = None
  <2>1. \A g \in Hooks : ~Live(g)
    BY <1>1, <1>4 DEF Owned, Enters
  <2> QED BY <1>3, <1>4, <2>1 DEF Ownership!Create
<1>5. CASE takeover # None
  <2>1. h = takeover.claimer /\ \A g \in Hooks : Live(g) => g = takeover.victim
    BY <1>1, <1>5 DEF Owned, Enters
  <2> QED BY <1>3, <1>5, <2>1 DEF Ownership!TakeOver
<1> QED BY <1>4, <1>5

LEMMA LeaveIsOwnershipStep ==
    ASSUME idFaults' = idFaults, NEW h \in Hooks, Leaves(h)
    PROVE  Ownership!Leave(h) \/ UNCHANGED Ownership!vars
<1>1. {g \in Hooks : hook'[g] # "none"} = {g \in Hooks : hook[g] # "none"}
  BY DEF Leaves
<1>2. {g \in Hooks : Live(g)}' = {g \in Hooks : Live(g)} \ {h}
  BY DEF Leaves
<1>3. takeover' = takeover
  BY DEF Leaves
<1>4. CASE Live(h)
  BY <1>1, <1>2, <1>3, <1>4 DEF Ownership!Leave
<1>5. CASE ~Live(h)
  BY <1>1, <1>2, <1>3, <1>5 DEF Ownership!vars
<1> QED BY <1>4, <1>5

LEMMA RestIsOwnershipStep ==
    ASSUME TokenType, TokenType', Owned, Owned', idFaults' = idFaults, CellsRest, IntentMoves
    PROVE  \/ Ownership!Settle \/ UNCHANGED Ownership!vars
           \/ \E g, v \in Hooks : Ownership!Challenge(g, v)
<1>1. /\ {g \in Hooks : Live(g)}' = {g \in Hooks : Live(g)}
      /\ {g \in Hooks : hook'[g] # "none"} = {g \in Hooks : hook[g] # "none"}
      /\ \A g \in Hooks : Live(g)' <=> Live(g)
  BY DEF CellsRest, Live
<1>2. CASE \/ takeover' = takeover
           \/ /\ takeover # None /\ takeover' # None
              /\ takeover'.claimer = takeover.claimer /\ takeover'.victim = takeover.victim
  BY <1>1, <1>2 DEF Ownership!vars
<1>3. CASE takeover # None /\ takeover' = None
  <2>1. takeover.claimer \in Hooks /\ takeover.victim \in Hooks /\ takeover.claimer # takeover.victim
    BY <1>3, Stores DEF Owned
  <2>2. ~(Live(takeover.claimer) /\ Live(takeover.victim))
    BY <1>1, <1>3, <2>1 DEF Owned
  <2> DEFINE c == [claimer |-> takeover.claimer, victim |-> takeover.victim]
  <2>3. ~({c.claimer, c.victim} \subseteq {g \in Hooks : Live(g)})
    BY <2>2
  <2> HIDE DEF c
  <2>4. {c} # {} /\ \A x \in {c} : ~({x.claimer, x.victim} \subseteq {g \in Hooks : Live(g)})
    BY <2>3
  <2>5. Ownership!Settle
    BY <1>1, <1>3, <2>4, Zenon DEF Ownership!Settle, c
  <2> QED BY <2>5
<1>4. CASE takeover = None /\ takeover' \in HookTakeover /\ record # None /\ takeover'.victim = record
  <2>1. PICK g \in Hooks, v \in Hooks : takeover'.claimer = g /\ takeover'.victim = v /\ v = record
    BY <1>4 DEF HookTakeover
  <2>2. g # v /\ takeover' # None
    BY <1>4, <2>1, Records DEF TokenType, Owned
  <2>3. hook[v] # "none" /\ \A x \in Hooks : Live(x) => x = v
    BY <1>4, <2>1 DEF Owned
  <2>4. Ownership!Challenge(g, v)
    BY <1>1, <1>4, <2>1, <2>2, <2>3 DEF Ownership!Challenge
  <2> QED BY <2>4
<1> QED BY <1>2, <1>3, <1>4 DEF IntentMoves

OwnedWhileSound == idFaults = 0 => Owned

LEMMA NextIsOwnershipNext ==
    TokenType /\ TokenType' /\ OwnedWhileSound /\ OwnedWhileSound' /\ [Next]_vars
    => [Ownership!Next]_(Ownership!vars)
<1> SUFFICES ASSUME TokenType, TokenType', OwnedWhileSound, OwnedWhileSound', [Next]_vars
             PROVE  Ownership!Next \/ UNCHANGED Ownership!vars
  OBVIOUS
<1>1. CASE idFaults' # 0
  BY <1>1 DEF Ownership!Next, Ownership!Fail
<1>2. CASE UNCHANGED vars
  BY <1>2 DEF vars, shard, cells, Live, Ownership!vars
<1>3. CASE idFaults' = 0 /\ Next
  <2>1. idFaults = 0 /\ Moves
    <3>1. ASSUME NEW p \in Procs, Admission(p) \/ Creation(p) \/ Settling(p) \/ Upkeep(p) \/ Lose(p)
          PROVE  idFaults = 0 /\ Moves
      BY <1>3, <3>1, IdFaultsGrow, ProcMoves
    <3>2. CASE \/ \E c \in late : ApplyLate(c)
               \/ CompactRetained \/ Expire
               \/ \E h \in Hooks : \/ DisposeHook(h) \/ ReleaseDisposed(h) \/ EndRun(h) \/ ExpireRun(h)
                                   \/ ReleaseCleanup(h)
      <4>1. idFaults' = idFaults
        BY <3>2 DEF ApplyLate, CompactRetained, Expire, DisposeHook, ReleaseDisposed, EndRun, ExpireRun,
                    ReleaseCleanup
      <4> QED BY <1>3, <3>2, <4>1, OtherMoves
    <3> QED BY <1>3, <3>1, <3>2, SetupFields DEF Next, TokenType
  <2>2. Owned /\ Owned' /\ idFaults' = idFaults
    BY <1>3, <2>1 DEF OwnedWhileSound
  <2>3. ASSUME NEW h \in Hooks, Enters(h) \/ Leaves(h)
        PROVE  Ownership!Next \/ UNCHANGED Ownership!vars
    BY <2>2, <2>3, EnterIsOwnershipStep, LeaveIsOwnershipStep DEF Ownership!Next
  <2>4. CASE CellsRest /\ IntentMoves
    BY <2>2, <2>4, RestIsOwnershipStep DEF Ownership!Next
  <2> QED BY <2>1, <2>3, <2>4 DEF Moves
<1> QED BY <1>1, <1>2, <1>3

(* The token changes hands as HookOwnership promises, for any hooks,        *)
(* clients and losses: every step of the shard, the cells and the processes *)
(* is one creation, one end, the start or the settlement of a displacement, *)
(* or none of them.                                                         *)
THEOREM TokensImplementOwnership == Spec => ImplementsOwnership
<1>1. TokenType /\ Names /\ Sound => TokenType /\ OwnedWhileSound
  BY SoundOwned DEF OwnedWhileSound
<1> QED
  BY <1>1, InitIsOwnershipInit, NextIsOwnershipNext, SoundInvariant, PTL
  DEF Spec, ImplementsOwnership, Ownership!Spec

=============================================================================
