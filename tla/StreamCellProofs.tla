-------------------------- MODULE StreamCellProofs --------------------------
(***************************************************************************)
(* Proofs about StreamCell, for any writers, readers, chunks, limits and   *)
(* numbers of expiry passes and faults.                                    *)
(***************************************************************************)
EXTENDS StreamCell, SequenceTheorems, FiniteSetTheorems, TLAPS

-----------------------------------------------------------------------------
(* Numbers, sequences and sizes *)

LEMMA Least ==
    ASSUME NEW T, T \subseteq Nat, T # {}
    PROVE  \E m \in T : \A k \in T : m <= k
<1>1. PICK m \in T : \A k \in T : ~ (<<k, m>> \in OpToRel(<, Nat))
  BY NatLessThanWellFounded, WFMin, Zenon
<1>2. \A k \in T : ~(k < m)
  BY <1>1 DEF OpToRel
<1> QED BY <1>2

LEMMA Greatest ==
    ASSUME NEW T, T \subseteq Nat, T # {}, NEW b \in Nat, \A k \in T : k <= b
    PROVE  \E m \in T : \A k \in T : k <= m
<1> DEFINE D == {d \in Nat : d <= b /\ b - d \in T}
<1>1. D # {}
  <2>1. PICK k \in T : TRUE
    OBVIOUS
  <2>2. k \in Nat /\ k <= b /\ b - k \in Nat /\ b - (b - k) = k /\ b - k <= b
    OBVIOUS
  <2>3. b - k \in D
    BY <2>2
  <2> QED BY <2>3
<1>2. PICK m \in D : \A d \in D : m <= d
  BY <1>1, Least
<1>3. ASSUME NEW k \in T
      PROVE  k <= b - m
  <2>1. k \in Nat /\ b - k \in Nat /\ b - (b - k) = k
    OBVIOUS
  <2> QED BY <2>1, <1>2
<1> QED BY <1>2, <1>3

(* The largest of a set of numbers below a bound.                           *)
LEMMA MaxOf ==
    ASSUME NEW T, T \subseteq Nat, T # {}, NEW b \in Nat, \A k \in T : k <= b
    PROVE  Max(T) \in T /\ \A k \in T : k <= Max(T)
<1>1. \E m \in T : \A k \in T : m >= k
  BY Greatest
<1> QED BY <1>1 DEF Max

LEMMA BytesOfOne ==
    ASSUME NEW c, c.size \in Nat
    PROVE  Bytes(<<c>>) = c.size
<1> DEFINE Step(s, it) == IF s = {} THEN 0 ELSE it[s \ {Max(s)}] + (<<c>>)[Max(s)].size
           sum == CHOOSE it : it = [s \in SUBSET (DOMAIN <<c>>) |-> Step(s, it)]
           one == [s \in SUBSET {1} |-> IF s = {} THEN 0 ELSE c.size]
<1>1. DOMAIN <<c>> = {1} /\ (<<c>>)[1] = c
  OBVIOUS
<1>2. Bytes(<<c>>) = sum[{1}]
  BY <1>1 DEF Bytes, FoldLeft, MapThenFoldSet
<1>3. Max({1}) = 1 /\ {1} \ {1} = {}
  BY DEF Max
<1>4. \A s \in SUBSET {1} : s = {} \/ s = {1}
  OBVIOUS
<1>5. one = [s \in SUBSET (DOMAIN <<c>>) |-> Step(s, one)]
  <2>1. one[{}] = 0 /\ one[{1}] = c.size
    OBVIOUS
  <2>2. Step({}, one) = 0
    OBVIOUS
  <2>3. Step({1}, one) = c.size
    BY <1>1, <1>3, <2>1
  <2>4. \A s \in SUBSET {1} : one[s] = Step(s, one)
    BY <1>4, <2>1, <2>2, <2>3
  <2> HIDE DEF Step
  <2> QED BY <2>4, <1>1
<1>6. sum = [s \in SUBSET (DOMAIN <<c>>) |-> Step(s, sum)]
  BY <1>5
<1> HIDE DEF sum
<1>7. sum[{1}] = Step({1}, sum) /\ sum[{}] = Step({}, sum)
  BY <1>6, <1>1
<1>8. sum[{}] = 0
  BY <1>7
<1>9. sum[{1}] = sum[{}] + (<<c>>)[1].size
  BY <1>7, <1>3
<1> QED BY <1>1, <1>2, <1>8, <1>9

(* Chunks of a sequence by their places.                                    *)
LEMMA Slice ==
    ASSUME NEW S, NEW s \in Seq(S), NEW i \in Nat \ {0}, NEW j \in Nat, i <= j + 1, j <= Len(s)
    PROVE  /\ SubSeq(s, i, j) \in Seq(S) /\ Len(SubSeq(s, i, j)) = j - i + 1
           /\ \A k \in 1..(j - i + 1) : SubSeq(s, i, j)[k] = s[i + k - 1]
  OBVIOUS

LEMMA SliceIs ==
    ASSUME NEW S, NEW s \in Seq(S), NEW t \in Seq(S), NEW i \in Nat, i + Len(t) <= Len(s),
           \A k \in 1..Len(t) : t[k] = s[i + k]
    PROVE  t = SubSeq(s, i + 1, i + Len(t))
<1> DEFINE u == SubSeq(s, i + 1, i + Len(t))
<1>1. u \in Seq(S) /\ Len(u) = Len(t) /\ \A k \in 1..Len(t) : u[k] = s[i + k]
  <2>1. i + 1 \in Nat \ {0} /\ i + Len(t) \in Nat /\ (i + Len(t)) - (i + 1) + 1 = Len(t)
    OBVIOUS
  <2>2. \A k \in 1..Len(t) : (i + 1) + k - 1 = i + k
    OBVIOUS
  <2> QED BY <2>1, <2>2, Slice
<1> HIDE DEF u
<1>2. u = t
  BY <1>1, SeqEqual
<1> QED BY <1>2 DEF u

LEMMA Joined ==
    ASSUME NEW S, NEW s \in Seq(S), NEW t \in Seq(S)
    PROVE  /\ s \o t \in Seq(S) /\ Len(s \o t) = Len(s) + Len(t)
           /\ \A i \in 1..Len(s) : (s \o t)[i] = s[i]
           /\ \A i \in 1..Len(t) : (s \o t)[Len(s) + i] = t[i]
  OBVIOUS

LEMMA OneChunk ==
    ASSUME NEW S, NEW s \in Seq(S), s # <<>>
    PROVE  SubSeq(s, 1, 1) = <<s[1]>>
<1> DEFINE u == SubSeq(s, 1, 1)
           v == <<s[1]>>
<1>1. Len(s) \in Nat \ {0}
  OBVIOUS
<1>2. u \in Seq(S) /\ Len(u) = 1 /\ \A k \in 1..1 : u[k] = s[k]
  BY <1>1, Slice
<1>3. v \in Seq(S) /\ Len(v) = 1 /\ v[1] = s[1]
  BY <1>1
<1>4. \A k \in 1..1 : v[k] = s[k]
  BY <1>3
<1> HIDE DEF u, v
<1>5. u = v
  BY <1>2, <1>3, <1>4, SeqEqual
<1> QED BY <1>5 DEF u, v

-----------------------------------------------------------------------------
(* The rows of one write *)

(* A piece goes up to the next cut.                                         *)
LEMMA PieceEnds ==
    ASSUME NEW s \in Seq(Chunks), NEW c \in Cuts(s), NEW i \in c
    PROVE  /\ Piece(s, c, i) \in Seq(Chunks) /\ Piece(s, c, i) # <<>>
           /\ i + Len(Piece(s, c, i)) <= Len(s) + 1
           /\ \A k \in 1..Len(Piece(s, c, i)) : Piece(s, c, i)[k] = s[i + k - 1]
           /\ i + Len(Piece(s, c, i)) \in c \cup {Len(s) + 1}
           /\ \A j \in c : j > i => j >= i + Len(Piece(s, c, i))
<1>1. Len(s) \in Nat /\ c \subseteq 1..Len(s) /\ i \in 1..Len(s)
  BY DEF Cuts
<1> DEFINE Ends(j) == /\ \A k \in (i + 1)..j : k \notin c
                      /\ j = Len(s) \/ j + 1 \in c
           J == {j \in i..Len(s) : j = Len(s) \/ j + 1 \in c}
           end == CHOOSE j \in i..Len(s) : Ends(j)
<1>2. PICK m \in J : \A j \in J : m <= j
  <2>1. Len(s) \in J /\ J \subseteq Nat
    BY <1>1
  <2> QED BY <2>1, Least
<1>3. m \in i..Len(s) /\ Ends(m)
  <2>1. SUFFICES ASSUME NEW k \in (i + 1)..m, k \in c
                 PROVE  FALSE
    BY <1>1, <1>2
  <2>2. k - 1 \in J /\ ~(m <= k - 1)
    BY <1>1, <1>2, <2>1
  <2> QED BY <1>2, <2>2
<1>5. Piece(s, c, i) = SubSeq(s, i, end)
  BY DEF Piece
<1>4. end \in i..Len(s) /\ Ends(end)
  <2> HIDE DEF Ends
  <2> QED BY <1>3, Zenon
<1> HIDE DEF end
<1>6. /\ SubSeq(s, i, end) \in Seq(Chunks) /\ Len(SubSeq(s, i, end)) = end - i + 1
      /\ \A k \in 1..(end - i + 1) : SubSeq(s, i, end)[k] = s[i + k - 1]
  BY <1>1, <1>4, Slice
<1>7. \A j \in c : j > i => j >= end + 1
  BY <1>1, <1>4
<1>8. SubSeq(s, i, end) # <<>>
  <2>1. end - i + 1 # 0
    BY <1>1, <1>4
  <2> QED BY <1>6, <2>1, EmptySeq
<1>9. i + (end - i + 1) = end + 1 /\ end + 1 <= Len(s) + 1 /\ end + 1 \in c \cup {Len(s) + 1}
  BY <1>1, <1>4
<1> QED BY <1>5, <1>6, <1>7, <1>8, <1>9

(* The rows of a write continue the stored ones and hold its chunks in      *)
(* order.                                                                   *)
RowsHold(packed, first, s) ==
    /\ first \in DOMAIN packed
    /\ \A i \in DOMAIN packed :
          /\ i \in Nat /\ first <= i /\ packed[i] \in Seq(Chunks) /\ packed[i] # <<>>
          /\ i + Len(packed[i]) <= first + Len(s)
          /\ \A k \in 1..Len(packed[i]) : i - first + k \in 1..Len(s)
                                          /\ packed[i][k] = s[i - first + k]
          /\ i + Len(packed[i]) \in DOMAIN packed \cup {first + Len(s)}
          /\ \A j \in DOMAIN packed : j > i => j >= i + Len(packed[i])

LEMMA PackedRows ==
    ASSUME NEW s \in Seq(Chunks), s # <<>>, NEW first \in Nat, NEW segmented,
           NEW packed \in Packings(first, s, segmented)
    PROVE  RowsHold(packed, first, s)
<1>1. PICK c \in Cuts(s) : packed = RowsOf(first, s, c)
  BY DEF Packings
<1>2. Len(s) \in Nat /\ c \subseteq 1..Len(s) /\ 1 \in c
  BY <1>1 DEF Cuts
<1>3. DOMAIN packed = {first + k - 1 : k \in c}
  BY <1>1 DEF RowsOf
<1>4. first \in DOMAIN packed
  BY <1>2, <1>3
<1>5. ASSUME NEW i \in DOMAIN packed
      PROVE  /\ i \in Nat /\ first <= i /\ packed[i] \in Seq(Chunks) /\ packed[i] # <<>>
             /\ i + Len(packed[i]) <= first + Len(s)
             /\ \A k \in 1..Len(packed[i]) : i - first + k \in 1..Len(s)
                                             /\ packed[i][k] = s[i - first + k]
             /\ i + Len(packed[i]) \in DOMAIN packed \cup {first + Len(s)}
             /\ \A j \in DOMAIN packed : j > i => j >= i + Len(packed[i])
  <2>1. PICK n \in c : i = first + n - 1
    BY <1>3
  <2>2. n \in Nat /\ 1 <= n /\ n <= Len(s) /\ i - first + 1 = n
    BY <1>2, <2>1
  <2>3. packed[i] = Piece(s, c, n)
    BY <1>1, <1>3, <2>2 DEF RowsOf
  <2> DEFINE t == Piece(s, c, n)
  <2>4. /\ t \in Seq(Chunks) /\ t # <<>> /\ n + Len(t) <= Len(s) + 1
        /\ \A k \in 1..Len(t) : t[k] = s[n + k - 1]
        /\ n + Len(t) \in c \cup {Len(s) + 1}
        /\ \A j \in c : j > n => j >= n + Len(t)
    BY PieceEnds
  <2> HIDE DEF t
  <2>5. Len(t) \in Nat
    BY <2>4
  <2>6. \A k \in 1..Len(t) : i - first + k = n + k - 1 /\ n + k - 1 \in 1..Len(s)
    BY <2>1, <2>2, <2>4, <2>5
  <2>7. \A k \in 1..Len(t) : i - first + k \in 1..Len(s) /\ t[k] = s[i - first + k]
    BY <2>4, <2>6
  <2>8. i + Len(t) \in DOMAIN packed \cup {first + Len(s)}
    <3>1. i + Len(t) = first + (n + Len(t)) - 1
      BY <2>1, <2>2, <2>5
    <3>2. CASE n + Len(t) \in c
      BY <1>3, <3>1, <3>2
    <3>3. CASE n + Len(t) = Len(s) + 1
      BY <1>2, <3>1, <3>3
    <3> QED BY <2>4, <3>2, <3>3
  <2>9. ASSUME NEW j \in DOMAIN packed, j > i
        PROVE  j >= i + Len(t)
    <3>1. PICK m \in c : j = first + m - 1
      BY <1>3
    <3>2. m \in Nat /\ m > n
      BY <1>2, <2>1, <2>2, <2>9, <3>1
    <3> QED BY <2>1, <2>2, <2>4, <2>5, <3>1, <3>2
  <2>10. i \in Nat /\ first <= i /\ i + Len(t) <= first + Len(s)
    BY <1>2, <2>1, <2>2, <2>4, <2>5
  <2> QED BY <2>3, <2>4, <2>7, <2>8, <2>9, <2>10 DEF t
<1> QED BY <1>4, <1>5 DEF RowsHold

-----------------------------------------------------------------------------
(* What the cell stores and remembers *)

CellType ==
    /\ setup \in Setups
    /\ meta \in StreamMeta
    /\ cached \in StreamMeta \cup {None}
    /\ version \in Nat
    /\ queue \subseteq Mutation
    /\ landed \in Landing \cup {None}
    /\ passes \in Nat /\ faults \in Nat
    /\ log \in Seq(Chunks) /\ outcome \in States \ {"expired"}

(* A request is its client's.                                               *)
OpFits(op) ==
    /\ op.run = setup.run[op.who]
    /\ op.kind = "expire" <=> op.who = Cleaner
    /\ op.kind = "write" => op.chunks # <<>>
    /\ op.kind # "write" => op.chunks = <<>>

Requested ==
    /\ \A op \in queue : OpFits(op)
    /\ landed # None => OpFits(landed.op) /\ landed.meta = meta

(* RowsCoverLog, by places.                                                 *)
RowsAt ==
    \A i \in DOMAIN rows :
        /\ i \in Nat /\ rows[i] \in Seq(Chunks) /\ rows[i] # <<>>
        /\ i + Len(rows[i]) <= Len(log)
        /\ \A k \in 1..Len(rows[i]) : rows[i][k] = log[i + k]
        /\ i + Len(rows[i]) \in DOMAIN rows \cup {Len(log)}
        /\ \A j \in DOMAIN rows : j > i => j >= i + Len(rows[i])

MetaCovers ==
    /\ meta.state # "expired" => /\ meta.count = Len(log)
                                 /\ log # <<>> => 0 \in DOMAIN rows
    /\ meta.deleted => meta.state = "expired" /\ DOMAIN rows = {} /\ meta.count = 0

(* What metadata say, old ones too: m was true and will not be false.       *)
Truth(count, state) ==
    /\ count <= Len(log)
    /\ state \in {"closed", "errored"} => outcome = state /\ count = Len(log)
    /\ state = "expired" => meta.state = "expired"

Memory ==
    /\ Truth(meta.count, meta.state)
    /\ meta.state = "open" => outcome = "open"
    /\ cached # None => Truth(cached.count, cached.state) /\ (landed = None => cached = meta)

CellInv == CellType /\ Requested /\ RowsAt /\ MetaCovers /\ Memory

LEMMA Constants ==
    /\ Setups \subseteq Setup
    /\ \A c \in Chunks : c.size \in Nat /\ c.size <= ReadBytes
    /\ ReadBytes \in Nat /\ ReadChunks \in Nat \ {0} /\ ReadAttempts \in Nat \ {0}
    /\ None \notin Runs /\ None \notin Writers /\ Cleaner \notin Writers
BY StreamAssumption

LEMMA SetupFields ==
    ASSUME setup \in Setups
    PROVE  /\ setup.legacy \in Seq(Chunks) /\ setup.text \in [Writers -> Seq(Chunks)]
           /\ setup.calls \in [Writers -> Seq(Calls)]
           /\ setup.run \in [Writers \cup Readers \cup {Cleaner} -> Runs]
           /\ setup.pageChunks \in Nat \ {0} /\ setup.passes \in Nat /\ setup.faults \in Nat
           /\ setup.start \in [Readers -> Nat]
BY Constants DEF Setup

LEMMA InitCell == Init => CellInv
<1> SUFFICES ASSUME Init PROVE CellInv
  OBVIOUS
<1> USE DEF Init
<1>1. /\ setup \in Setups /\ setup.legacy \in Seq(Chunks) /\ log = setup.legacy
      /\ Cleaner \in Writers \cup Readers \cup {Cleaner} /\ setup.run[Cleaner] \in Runs
      /\ setup.passes \in Nat /\ setup.faults \in Nat
  BY SetupFields
<1>2. meta \in StreamMeta /\ meta.state = "open" /\ ~meta.deleted /\ meta.count = Len(log)
  <2>1. Len(log) \in Nat /\ (log = <<>> => Len(log) = 0)
    BY <1>1
  <2> QED BY <1>1, <2>1 DEF EmptyMeta, StreamMeta
<1>3. CellType
  BY <1>1, <1>2 DEF CellType, States
<1>4. RowsAt
  <2> SUFFICES ASSUME NEW i \in DOMAIN rows
               PROVE  /\ i \in Nat /\ rows[i] \in Seq(Chunks) /\ rows[i] # <<>>
                      /\ i + Len(rows[i]) <= Len(log)
                      /\ \A k \in 1..Len(rows[i]) : rows[i][k] = log[i + k]
                      /\ i + Len(rows[i]) \in DOMAIN rows \cup {Len(log)}
                      /\ \A j \in DOMAIN rows : j > i => j >= i + Len(rows[i])
    BY DEF RowsAt
  <2>1. Len(log) \in Nat /\ DOMAIN rows = 0..(Len(log) - 1)
    BY <1>1
  <2>2. i \in Nat /\ i + 1 \in 1..Len(log) /\ log[i + 1] \in Chunks
    BY <1>1, <2>1
  <2>3. rows[i] = <<log[i + 1]>>
    BY <1>1, <2>1
  <2> DEFINE t == rows[i]
  <2>4. t \in Seq(Chunks) /\ t # <<>> /\ Len(t) = 1 /\ t[1] = log[i + 1]
    BY <2>2, <2>3
  <2>5. \A k \in 1..Len(t) : t[k] = log[i + k]
    BY <2>4
  <2>6. i + 1 \in DOMAIN rows \cup {Len(log)} /\ i + 1 <= Len(log)
    BY <2>1, <2>2
  <2>7. \A j \in DOMAIN rows : j > i => j >= i + 1
    BY <2>1, <2>2
  <2> QED BY <2>2, <2>4, <2>5, <2>6, <2>7
<1>5. MetaCovers
  <2>1. log # <<>> => 0 \in DOMAIN rows
    <3>1. log # <<>> => Len(log) # 0
      BY <1>1
    <3>2. DOMAIN rows = 0..(Len(log) - 1) /\ Len(log) \in Nat
      BY <1>1
    <3> QED BY <3>1, <3>2
  <2> QED BY <1>2, <2>1 DEF MetaCovers
<1>6. Requested /\ Memory
  <2>1. Len(log) \in Nat
    BY <1>1
  <2> QED BY <1>2, <2>1 DEF Requested, Memory, Truth
<1> QED BY <1>3, <1>4, <1>5, <1>6 DEF CellInv

(* The actions that leave the stored stream alone.                          *)
Stored == <<setup, meta, rows, log, outcome>>

LEMMA WriteKeepsCell ==
    ASSUME CellInv, NEW op, WriteChunks(op)
    PROVE  CellInv'
<1> USE DEF CellInv
<1> DEFINE segmented == IF meta = EmptyMeta THEN TRUE ELSE meta.segmented
           s == op.chunks
           m == [count |-> meta.count + Len(s), state |-> "open", owner |-> op.run,
                 segmented |-> segmented, deleted |-> FALSE]
<1>1. /\ op \in queue /\ op \in Mutation /\ op.kind = "write" /\ OpFits(op) /\ landed = None
      /\ meta.state = "open" /\ queue' = queue \ {op}
      /\ meta' = m /\ landed' = [op |-> op, meta |-> m]
      /\ UNCHANGED <<setup, cached, version, passes, faults, outcome>>
  BY DEF WriteChunks, Takes, Lands, CanWrite, CellType, Requested
<1>2. PICK packed \in Packings(meta.count, s, segmented) :
            rows' = [i \in DOMAIN rows \cup DOMAIN packed |->
                       IF i \in DOMAIN packed THEN packed[i] ELSE rows[i]]
  BY DEF WriteChunks
<1>3. /\ s \in Seq(Chunks) /\ s # <<>> /\ Len(s) \in Nat \ {0} /\ log' = log \o s
      /\ log \in Seq(Chunks) /\ Len(log) \in Nat /\ meta.count = Len(log)
  <2>1. s \in Seq(Chunks) /\ s # <<>> /\ log \in Seq(Chunks)
    BY <1>1 DEF Mutation, OpFits, CellType
  <2> QED BY <1>1, <2>1 DEF WriteChunks, MetaCovers
<1>4. /\ log' \in Seq(Chunks) /\ Len(log') = Len(log) + Len(s)
      /\ \A i \in 1..Len(log) : log'[i] = log[i]
      /\ \A i \in 1..Len(s) : log'[Len(log) + i] = s[i]
  BY <1>3, Joined
<1>5. RowsHold(packed, Len(log), s)
  BY <1>2, <1>3, PackedRows
<1>6. m \in StreamMeta /\ m.state = "open" /\ ~m.deleted /\ m.count = Len(log')
  <2>1. segmented \in BOOLEAN /\ op.run \in Runs
    BY <1>1 DEF Mutation, StreamMeta, CellType
  <2>2. m.count \in Nat
    BY <1>3
  <2> QED BY <1>3, <1>4, <2>1, <2>2 DEF StreamMeta
<1>7. CellType'
  BY <1>1, <1>4, <1>6 DEF CellType, Landing
<1>8. Requested'
  BY <1>1 DEF Requested, OpFits
<1>9. RowsAt'
  <2>1. DOMAIN rows' = DOMAIN rows \cup DOMAIN packed
    BY <1>2
  <2>2. \A i \in DOMAIN packed : rows'[i] = packed[i]
    BY <1>2
  <2>3. \A i \in DOMAIN rows : i \notin DOMAIN packed
    <3> SUFFICES ASSUME NEW i \in DOMAIN rows PROVE ~(Len(log) <= i)
      BY <1>5 DEF RowsHold
    <3>1. i \in Nat /\ Len(rows[i]) \in Nat \ {0} /\ i + Len(rows[i]) <= Len(log)
      BY DEF RowsAt
    <3> QED BY <1>3, <3>1
  <2>4. \A i \in DOMAIN rows : rows'[i] = rows[i]
    BY <1>2, <2>3
  <2> SUFFICES ASSUME NEW i \in DOMAIN rows'
               PROVE  /\ i \in Nat /\ rows'[i] \in Seq(Chunks) /\ rows'[i] # <<>>
                      /\ i + Len(rows'[i]) <= Len(log')
                      /\ \A k \in 1..Len(rows'[i]) : rows'[i][k] = log'[i + k]
                      /\ i + Len(rows'[i]) \in DOMAIN rows' \cup {Len(log')}
                      /\ \A j \in DOMAIN rows' : j > i => j >= i + Len(rows'[i])
    BY DEF RowsAt
  <2>5. CASE i \in DOMAIN rows
    <3> DEFINE t == rows[i]
    <3>1. /\ i \in Nat /\ t \in Seq(Chunks) /\ t # <<>> /\ i + Len(t) <= Len(log)
          /\ \A k \in 1..Len(t) : t[k] = log[i + k]
          /\ i + Len(t) \in DOMAIN rows \cup {Len(log)}
          /\ \A j \in DOMAIN rows : j > i => j >= i + Len(t)
      BY <2>5 DEF RowsAt
    <3> HIDE DEF t
    <3>2. Len(t) \in Nat
      BY <3>1
    <3>3. \A k \in 1..Len(t) : i + k \in 1..Len(log)
      BY <1>3, <3>1, <3>2
    <3>4. \A k \in 1..Len(t) : t[k] = log'[i + k]
      BY <1>4, <3>1, <3>3
    <3>5. i + Len(t) \in DOMAIN rows'
      BY <1>5, <2>1, <3>1 DEF RowsHold
    <3>6. \A j \in DOMAIN packed : j >= i + Len(t)
      <4>1. \A j \in DOMAIN packed : j \in Nat /\ Len(log) <= j
        BY <1>5 DEF RowsHold
      <4> QED BY <1>3, <3>1, <3>2, <4>1
    <3>7. i + Len(t) <= Len(log')
      BY <1>3, <1>4, <3>1, <3>2
    <3>8. rows'[i] = t
      BY <2>4, <2>5 DEF t
    <3> QED BY <2>1, <3>1, <3>4, <3>5, <3>6, <3>7, <3>8
  <2>6. CASE i \in DOMAIN packed
    <3> DEFINE t == packed[i]
    <3>1. /\ i \in Nat /\ Len(log) <= i /\ t \in Seq(Chunks) /\ t # <<>>
          /\ i + Len(t) <= Len(log) + Len(s)
          /\ \A k \in 1..Len(t) : i - Len(log) + k \in 1..Len(s) /\ t[k] = s[i - Len(log) + k]
          /\ i + Len(t) \in DOMAIN packed \cup {Len(log) + Len(s)}
          /\ \A j \in DOMAIN packed : j > i => j >= i + Len(t)
      BY <1>5, <2>6 DEF RowsHold
    <3> HIDE DEF t
    <3>2. Len(t) \in Nat
      BY <3>1
    <3>3. \A k \in 1..Len(t) : Len(log) + (i - Len(log) + k) = i + k
      BY <1>3, <3>1, <3>2
    <3>4. \A k \in 1..Len(t) : t[k] = log'[i + k]
      BY <1>4, <3>1, <3>3
    <3>5. \A j \in DOMAIN rows : ~(j > i)
      <4> SUFFICES ASSUME NEW j \in DOMAIN rows PROVE ~(j > i)
        OBVIOUS
      <4>1. j \in Nat /\ Len(rows[j]) \in Nat \ {0} /\ j + Len(rows[j]) <= Len(log)
        BY DEF RowsAt
      <4> QED BY <1>3, <3>1, <4>1
    <3>6. rows'[i] = t
      BY <2>2, <2>6 DEF t
    <3> QED BY <1>4, <2>1, <3>1, <3>4, <3>5, <3>6
  <2> QED BY <2>1, <2>5, <2>6
<1>10. MetaCovers'
  <2>1. 0 \in DOMAIN rows'
    <3>1. DOMAIN rows' = DOMAIN rows \cup DOMAIN packed
      BY <1>2
    <3>2. CASE log = <<>>
      <4>1. Len(log) = 0
        BY <3>2
      <4> QED BY <1>5, <3>1, <4>1 DEF RowsHold
    <3>3. CASE log # <<>>
      BY <1>1, <3>1, <3>3 DEF MetaCovers
    <3> QED BY <3>2, <3>3
  <2> QED BY <1>1, <1>6, <2>1 DEF MetaCovers
<1>11. Memory'
  <2>1. outcome = "open" /\ Len(log') \in Nat /\ Len(log) <= Len(log')
    BY <1>1, <1>3, <1>4 DEF Memory
  <2>2. Truth(meta.count, meta.state)'
    BY <1>1, <1>6, <2>1 DEF Truth
  <2>3. cached # None => Truth(cached.count, cached.state)'
    <3> SUFFICES ASSUME cached # None PROVE Truth(cached.count, cached.state)'
      OBVIOUS
    <3>1. Truth(cached.count, cached.state) /\ cached = meta
      BY <1>1 DEF Memory
    <3>2. cached.count = Len(log) /\ cached.state = "open"
      BY <1>1, <1>3, <3>1
    <3> QED BY <1>1, <1>3, <2>1, <3>2 DEF Truth
  <2>4. landed' # None
    <3>1. landed' \in Landing
      BY <1>1, <1>6 DEF Landing
    <3> QED BY <3>1, NoneAssumption
  <2> QED BY <1>1, <1>6, <2>1, <2>2, <2>3, <2>4 DEF Memory
<1> QED BY <1>7, <1>8, <1>9, <1>10, <1>11

LEMMA FinishKeepsCell ==
    ASSUME CellInv, NEW op, FinishStream(op)
    PROVE  CellInv'
<1> USE DEF CellInv
<1> DEFINE state == IF op.kind = "close" THEN "closed" ELSE "errored"
           m == IF meta.state # "open" THEN meta
                ELSE [meta EXCEPT !.owner = op.run, !.state = state]
<1>1. /\ op \in queue /\ op \in Mutation /\ op.kind \in {"close", "fail"} /\ OpFits(op)
      /\ landed = None /\ meta.state # "expired" /\ queue' = queue \ {op}
      /\ meta' = m /\ landed' = [op |-> op, meta |-> m]
      /\ outcome' = IF meta.state # "open" THEN outcome ELSE state
      /\ UNCHANGED <<setup, cached, version, passes, faults, rows, log>>
  BY DEF FinishStream, Takes, Lands, CanFinish, CellType, Requested
<1>2. meta \in StreamMeta /\ meta.state \in States /\ state \in {"closed", "errored"}
  BY DEF CellType, StreamMeta, States
<1>3. m \in StreamMeta /\ m.count = meta.count /\ m.deleted = meta.deleted
      /\ m.state = IF meta.state # "open" THEN meta.state ELSE state
  BY <1>1, <1>2 DEF StreamMeta, Mutation
<1>4. CellType'
  BY <1>1, <1>2, <1>3 DEF CellType, Landing, States
<1>5. Requested'
  BY <1>1 DEF Requested, OpFits
<1>6. RowsAt'
  BY <1>1 DEF RowsAt
<1>7. meta.count = Len(log) /\ (log # <<>> => 0 \in DOMAIN rows) /\ ~meta.deleted
  BY <1>1 DEF MetaCovers
<1>8. MetaCovers'
  BY <1>1, <1>2, <1>3, <1>7 DEF MetaCovers
<1>9. Memory'
  <2>1. landed' # None
    <3>1. landed' \in Landing
      BY <1>1, <1>3 DEF Landing
    <3> QED BY <3>1, NoneAssumption
  <2>2. Truth(meta.count, meta.state)'
    BY <1>1, <1>2, <1>3, <1>7 DEF Memory, Truth, CellType
  <2>3. (meta.state = "open" => outcome = "open")'
    BY <1>1, <1>2, <1>3
  <2>4. cached # None => Truth(cached.count, cached.state)'
    BY <1>1, <1>2, <1>3, <1>7 DEF Memory, Truth, CellType
  <2> QED BY <1>1, <2>1, <2>2, <2>3, <2>4 DEF Memory
<1> QED BY <1>4, <1>5, <1>6, <1>8, <1>9

LEMMA RowsAreFinite == CellInv => DOMAIN rows \subseteq Nat /\ IsFiniteSet(DOMAIN rows)
<1> SUFFICES ASSUME CellInv PROVE DOMAIN rows \subseteq Nat /\ IsFiniteSet(DOMAIN rows)
  OBVIOUS
<1>1. Len(log) \in Nat
  BY DEF CellInv, CellType
<1>2. DOMAIN rows \subseteq 0..Len(log)
  <2> SUFFICES ASSUME NEW i \in DOMAIN rows PROVE i \in 0..Len(log)
    OBVIOUS
  <2>1. i \in Nat /\ Len(rows[i]) \in Nat /\ i + Len(rows[i]) <= Len(log)
    BY DEF CellInv, RowsAt
  <2> QED BY <1>1, <2>1
<1>3. IsFiniteSet(0..Len(log))
  BY <1>1, FS_Interval
<1> QED BY <1>2, <1>3, FS_Subset

(* The first n rows are followed by the others.                             *)
LEMMA FirstComeFirst ==
    ASSUME NEW starts, starts \subseteq Nat, IsFiniteSet(starts), NEW n \in Nat,
           NEW i \in First(starts, n), NEW j \in starts, j < i
    PROVE  j \in First(starts, n)
<1> DEFINE A == {k \in starts : k < i}
           B == {k \in starts : k < j}
<1>1. i \in starts /\ Cardinality(A) < n
  BY DEF First
<1>2. B \subseteq A
  <2>1. \A k \in starts : k < j => k < i
    BY <1>1
  <2> QED BY <2>1
<1>3. IsFiniteSet(A)
  <2>1. A \subseteq starts
    OBVIOUS
  <2> QED BY <2>1, FS_Subset
<1>4. Cardinality(B) <= Cardinality(A) /\ Cardinality(A) \in Nat /\ Cardinality(B) \in Nat
  BY <1>2, <1>3, FS_Subset, FS_CardinalityType
<1>5. Cardinality(B) < n
  BY <1>1, <1>4
<1> QED BY <1>5 DEF First

LEMMA ExpireKeepsCell ==
    ASSUME CellInv, NEW op, ExpireStream(op)
    PROVE  CellInv'
<1> USE DEF CellInv
<1> DEFINE seen == First(DOMAIN rows, setup.pageChunks + 1)
<1>1. PICK n \in 0..Cardinality(seen) :
        LET left == DOMAIN rows \ First(seen, n)
            done == left = {}
        IN
        /\ rows' = [i \in left |-> rows[i]]
        /\ Lands(op, IF done /\ n = 0 /\ meta.state = "expired" /\ meta.deleted
                     THEN meta
                     ELSE [meta EXCEPT !.count = IF done THEN 0 ELSE @, !.owner = op.run,
                                       !.state = "expired", !.deleted = done])
  BY DEF ExpireStream
<1> DEFINE left == DOMAIN rows \ First(seen, n)
           m == IF left = {} /\ n = 0 /\ meta.state = "expired" /\ meta.deleted
                THEN meta
                ELSE [meta EXCEPT !.count = IF left = {} THEN 0 ELSE @, !.owner = op.run,
                                  !.state = "expired", !.deleted = (left = {})]
<1>2. /\ op \in queue /\ op \in Mutation /\ op.kind = "expire" /\ OpFits(op)
      /\ landed = None /\ queue' = queue \ {op}
      /\ meta' = m /\ landed' = [op |-> op, meta |-> m] /\ rows' = [i \in left |-> rows[i]]
      /\ UNCHANGED <<setup, cached, version, passes, faults, log, outcome>>
  BY <1>1 DEF ExpireStream, Takes, Lands, CellType, Requested
<1>3. /\ m \in StreamMeta /\ m.state = "expired" /\ m.deleted = (left = {})
      /\ m.count = (IF left = {} THEN 0 ELSE meta.count)
  <2>1. meta \in StreamMeta /\ op.run \in Runs /\ (left = {}) \in BOOLEAN /\ meta.count \in Nat
    BY <1>2 DEF CellType, StreamMeta, Mutation
  <2> DEFINE e == [meta EXCEPT !.count = IF left = {} THEN 0 ELSE @, !.owner = op.run,
                               !.state = "expired", !.deleted = (left = {})]
  <2>2. /\ e \in StreamMeta /\ e.state = "expired" /\ e.deleted = (left = {})
        /\ e.count = (IF left = {} THEN 0 ELSE meta.count)
    <3> HIDE DEF left
    <3> QED BY <2>1 DEF StreamMeta
  <2>3. CASE left = {} /\ n = 0 /\ meta.state = "expired" /\ meta.deleted
    BY <2>1, <2>3 DEF MetaCovers
  <2>4. CASE ~(left = {} /\ n = 0 /\ meta.state = "expired" /\ meta.deleted)
    <3>1. m = e
      BY <2>4
    <3> HIDE DEF e, m
    <3> QED BY <2>2, <3>1
  <2> QED BY <2>3, <2>4
<1> HIDE DEF m
<1>4. \A i \in left : \A j \in DOMAIN rows : j > i => j \in left
  <2> SUFFICES ASSUME NEW i \in left, NEW j \in DOMAIN rows, j > i, j \in First(seen, n)
               PROVE  FALSE
    OBVIOUS
  <2>1. DOMAIN rows \subseteq Nat /\ IsFiniteSet(DOMAIN rows) /\ i \in DOMAIN rows /\ i < j
    BY RowsAreFinite
  <2>2. setup.pageChunks + 1 \in Nat
    BY SetupFields DEF CellType
  <2>3. j \in seen /\ seen \subseteq DOMAIN rows
    BY DEF First
  <2> HIDE DEF seen
  <2>4. i \in seen
    BY <2>1, <2>2, <2>3, FirstComeFirst DEF seen
  <2>5. seen \subseteq Nat /\ IsFiniteSet(seen)
    BY <2>1, <2>3, FS_Subset
  <2>6. n \in Nat
    BY <1>1, <2>5, FS_CardinalityType
  <2>7. i \in First(seen, n)
    BY <2>1, <2>4, <2>5, <2>6, FirstComeFirst
  <2> QED BY <2>7
<1> HIDE DEF left
<1>5. DOMAIN rows' = left /\ left \subseteq DOMAIN rows /\ \A i \in left : rows'[i] = rows[i]
  BY <1>2 DEF left
<1>6. CellType'
  BY <1>2, <1>3 DEF CellType, Landing
<1>7. Requested'
  BY <1>2 DEF Requested, OpFits
<1>8. RowsAt'
  <2> SUFFICES ASSUME NEW i \in left
               PROVE  /\ i \in Nat /\ rows[i] \in Seq(Chunks) /\ rows[i] # <<>>
                      /\ i + Len(rows[i]) <= Len(log)
                      /\ \A k \in 1..Len(rows[i]) : rows[i][k] = log[i + k]
                      /\ i + Len(rows[i]) \in left \cup {Len(log)}
                      /\ \A j \in left : j > i => j >= i + Len(rows[i])
    BY <1>2, <1>5 DEF RowsAt
  <2>1. /\ i \in Nat /\ rows[i] \in Seq(Chunks) /\ rows[i] # <<>>
        /\ i + Len(rows[i]) <= Len(log)
        /\ \A k \in 1..Len(rows[i]) : rows[i][k] = log[i + k]
        /\ i + Len(rows[i]) \in DOMAIN rows \cup {Len(log)}
        /\ \A j \in DOMAIN rows : j > i => j >= i + Len(rows[i])
    BY <1>5 DEF RowsAt
  <2>2. Len(rows[i]) \in Nat \ {0}
    BY <2>1
  <2>3. i + Len(rows[i]) > i
    BY <2>1, <2>2
  <2> QED BY <1>4, <1>5, <2>1, <2>3
<1>9. MetaCovers'
  BY <1>2, <1>3, <1>5 DEF MetaCovers
<1>10. Memory'
  <2>1. landed' # None
    <3>1. landed' \in Landing
      BY <1>2, <1>3 DEF Landing
    <3> QED BY <3>1, NoneAssumption
  <2>2. meta.count \in Nat /\ Len(log) \in Nat /\ meta.count <= Len(log)
    BY DEF Memory, Truth, CellType, StreamMeta
  <2>3. Truth(meta.count, meta.state)'
    BY <1>2, <1>3, <2>2 DEF Truth
  <2>4. cached # None => Truth(cached.count, cached.state)'
    BY <1>2, <1>3 DEF Memory, Truth
  <2> QED BY <1>2, <1>3, <2>1, <2>3, <2>4 DEF Memory
<1> QED BY <1>6, <1>7, <1>8, <1>9, <1>10

(* Where a writer is in its calls.                                          *)
WriterType ==
    /\ writer \in [Writers -> [pc : {"ready", "sent", "done", "failed"}, call : Nat, done : Nat]]
    /\ \A w \in Writers : writer[w].pc \in {"ready", "sent"} =>
                            writer[w].call \in 1..Len(setup.calls[w])

LEMMA SentBatches ==
    ASSUME CellInv, WriterType, NEW w \in Writers, writer[w].pc = "ready", NEW batch \in Batches(w)
    PROVE  /\ Call(w) \in Calls /\ batch \in Seq(Chunks)
           /\ Call(w).kind # "write" => batch = <<>>
           /\ Call(w).kind = "write" =>
                /\ batch # <<>> /\ Call(w).upTo <= Len(setup.text[w])
                /\ writer[w].done + Len(batch) <= Call(w).upTo
                /\ \A k \in 1..Len(batch) : batch[k] = setup.text[w][writer[w].done + k]
<1> DEFINE d == writer[w].done
           text == setup.text[w]
           upTo == Call(w).upTo
           left == SubSeq(text, d + 1, upTo)
<1>1. /\ setup \in Setups /\ text \in Seq(Chunks) /\ setup.calls[w] \in Seq(Calls) /\ d \in Nat
      /\ writer[w].call \in 1..Len(setup.calls[w])
  BY SetupFields DEF CellInv, CellType, WriterType
<1>2. Call(w) \in Calls
  BY <1>1 DEF Call
<1>3. CASE Call(w).kind # "write"
  BY <1>2, <1>3 DEF Batches
<1>4. CASE Call(w).kind = "write"
  <2>1. upTo \in Nat /\ upTo <= Len(text) /\ Len(text) \in Nat
    BY <1>1, <1>2, <1>4, StreamAssumption DEF Calls, Call
  <2>2. PICK n \in 1..Len(left) : batch = SubSeq(left, 1, n)
    BY <1>4 DEF Batches
  <2> HIDE DEF text, d, upTo
  <2>3. d + 1 <= upTo + 1
    <3>1. SUFFICES ASSUME upTo < d PROVE Len(left) = 0
      BY <1>1, <2>1, <2>2
    <3>2. d + 1 \in Int /\ upTo \in Int /\ d + 1 > upTo
      BY <1>1, <2>1, <3>1
    <3>3. left = <<>>
      BY <3>2, SubSeqEmpty
    <3>4. Len(<<>>) = 0
      OBVIOUS
    <3> HIDE DEF left
    <3> QED BY <3>3, <3>4
  <2>4. /\ left \in Seq(Chunks) /\ Len(left) = upTo - d
        /\ \A k \in 1..(upTo - d) : left[k] = text[d + k]
    <3>1. d + 1 \in Nat \ {0} /\ upTo - (d + 1) + 1 = upTo - d /\ \A k \in 1..(upTo - d) : (d + 1) + k - 1 = d + k
      BY <1>1, <2>1
    <3> QED BY <1>1, <2>1, <2>3, <3>1, Slice
  <2> HIDE DEF left
  <2>5. n \in Nat \ {0} /\ n <= Len(left) /\ d + n <= upTo
    BY <1>1, <2>1, <2>2, <2>3, <2>4
  <2>6. /\ batch \in Seq(Chunks) /\ Len(batch) = n
        /\ \A k \in 1..n : batch[k] = left[k]
    <3>1. n - 1 + 1 = n /\ \A k \in 1..n : 1 + k - 1 = k
      BY <2>5
    <3> QED BY <2>2, <2>4, <2>5, <3>1, Slice
  <2>7. batch # <<>>
    BY <2>5, <2>6
  <2>8. \A k \in 1..n : batch[k] = text[d + k]
    <3>1. \A k \in 1..n : k \in 1..(upTo - d)
      BY <1>1, <2>1, <2>5
    <3> QED BY <2>4, <2>6, <3>1
  <2> QED BY <1>2, <1>4, <2>1, <2>5, <2>6, <2>7, <2>8 DEF upTo, text, d
<1> QED BY <1>3, <1>4

(* A request of client w that Send and SendExpire make.                     *)
LEMMA RequestsFit ==
    ASSUME CellInv, NEW w \in Writers \cup {Cleaner}, NEW kind \in {"write", "close", "fail", "expire"},
           NEW chunks \in Seq(Chunks), NEW pass \in Nat,
           kind = "expire" <=> w = Cleaner, kind = "write" <=> chunks # <<>>
    PROVE  LET op == [who |-> w, kind |-> kind, run |-> setup.run[w], chunks |-> chunks, pass |-> pass]
           IN  op \in Mutation /\ OpFits(op)
BY SetupFields DEF CellInv, CellType, Mutation, OpFits

LEMMA OthersKeepCell ==
    ASSUME CellInv, UNCHANGED Stored, version' \in Nat, passes' \in Nat, faults' \in Nat,
           queue' \subseteq Mutation, \A op \in queue' : OpFits(op),
           landed' = landed \/ landed' = None,
           \/ cached' = cached /\ landed' = landed
           \/ cached' = None
           \/ cached' = meta
    PROVE  CellInv'
<1> USE DEF CellInv, Stored
<1>1. CellType'
  BY DEF CellType
<1>2. Requested'
  BY DEF Requested, OpFits
<1>3. RowsAt' /\ MetaCovers'
  BY DEF RowsAt, MetaCovers
<1>4. Memory'
  <2>1. Truth(meta.count, meta.state)' /\ (meta.state = "open" => outcome = "open")'
    BY DEF Memory, Truth
  <2>2. ASSUME cached' # None
        PROVE  Truth(cached.count, cached.state)' /\ (landed' = None => cached' = meta')
    BY <2>2 DEF Memory, Truth
  <2> QED BY <2>1, <2>2 DEF Memory
<1> QED BY <1>1, <1>2, <1>3, <1>4

LEMMA NextKeepsCell == CellInv /\ WriterType /\ [Next]_vars => CellInv'
<1> SUFFICES ASSUME CellInv, WriterType, [Next]_vars PROVE CellInv'
  OBVIOUS
<1> USE DEF cell, history
<1>0. /\ version \in Nat /\ passes \in Nat /\ faults \in Nat /\ queue \subseteq Mutation
      /\ \A op \in queue : OpFits(op)
      /\ cached \in StreamMeta \cup {None} /\ landed \in Landing \cup {None}
      /\ landed # None => landed.meta = meta
      /\ meta \in StreamMeta
  BY DEF CellInv, CellType, Requested
<1>1. CASE Mutate
  <2>1. ASSUME NEW op \in queue, Throws(op)
        PROVE  CellInv'
    BY <1>0, <2>1, OthersKeepCell DEF Throws, Takes, Stored
  <2>2. CASE Publish
    BY <1>0, <2>2, OthersKeepCell DEF Publish, Stored
  <2> QED BY <1>1, <2>1, <2>2, WriteKeepsCell, FinishKeepsCell, ExpireKeepsCell DEF Mutate
<1>2. CASE LoadMeta
  BY <1>0, <1>2, OthersKeepCell DEF LoadMeta, Stored
<1>3. ASSUME NEW r \in Readers, ServeRead(r) \/ Read(r) \/ LoseAnswer(r) \/ GarbleAnswer(r)
      PROVE  CellInv'
  <2>1. CASE SeekTail(r)
    <3>1. cached' = (IF cached = None THEN meta ELSE cached)
      BY <2>1 DEF SeekTail
    <3>2. UNCHANGED <<setup, meta, rows, version, queue, landed, passes, faults, history>>
      BY <2>1 DEF SeekTail
    <3> QED BY <1>0, <3>1, <3>2, OthersKeepCell DEF Stored
  <2>2. CASE ~SeekTail(r)
    <3>1. UNCHANGED <<setup, cell, passes, log, outcome>> /\ (faults' = faults \/ (faults > 0 /\ faults' = faults - 1))
      BY <1>3, <2>2 DEF ServeRead, Read, FindMeta, EnterWait, LookAgain, ListRows, FindContaining, GetRows,
           BeginRead, ReceiveAnswer, LongPollEnds, LoseAnswer, GarbleAnswer
    <3>2. faults' \in Nat
      BY <1>0, <3>1
    <3> HIDE <1>3
    <3> QED BY <1>0, <3>1, <3>2, OthersKeepCell DEF Stored
  <2> QED BY <2>1, <2>2
<1>4. ASSUME NEW w \in Writers, Send(w)
      PROVE  CellInv'
  <2>1. PICK batch \in Batches(w) :
          queue' = queue \cup {[who |-> w, kind |-> Call(w).kind, run |-> setup.run[w],
                                chunks |-> batch, pass |-> 0]}
    BY <1>4 DEF Send
  <2>2. UNCHANGED <<setup, meta, rows, cached, version, landed, passes, faults, history>>
        /\ writer[w].pc = "ready"
    BY <1>4 DEF Send
  <2> DEFINE op == [who |-> w, kind |-> Call(w).kind, run |-> setup.run[w], chunks |-> batch,
                    pass |-> 0]
  <2>3. /\ Call(w).kind \in {"write", "close", "fail"} /\ batch \in Seq(Chunks)
        /\ Call(w).kind = "write" <=> batch # <<>>
        /\ w # Cleaner
    BY <2>2, SentBatches, Constants DEF Calls
  <2>4. op \in Mutation /\ OpFits(op)
    BY <2>3, RequestsFit
  <2> HIDE DEF op
  <2> QED BY <1>0, <2>1, <2>2, <2>4, OthersKeepCell DEF Stored, op
<1>5. ASSUME NEW w \in Writers, WriteTimesOut(w)
      PROVE  CellInv'
  <2>1. faults' \in Nat
    BY <1>0, <1>5 DEF WriteTimesOut
  <2> QED BY <1>0, <1>5, <2>1, OthersKeepCell DEF WriteTimesOut, Stored
<1>6. CASE SendExpire
  <2> DEFINE op == [who |-> Cleaner, kind |-> "expire", run |-> setup.run[Cleaner], chunks |-> <<>>,
                    pass |-> passes]
  <2>1. passes' \in Nat /\ queue' = queue \cup {op}
        /\ UNCHANGED <<setup, meta, rows, cached, version, landed, faults, history>>
    BY <1>0, <1>6 DEF SendExpire
  <2>2. op \in Mutation /\ OpFits(op)
    <3>1. "expire" = "expire" <=> Cleaner = Cleaner
      OBVIOUS
    <3>2. <<>> \in Seq(Chunks) /\ ("expire" = "write" <=> <<>> # <<>>) /\ Cleaner \in Writers \cup {Cleaner}
      OBVIOUS
    <3> QED BY <1>0, <3>1, <3>2, RequestsFit
  <2> HIDE DEF op
  <2> QED BY <1>0, <2>1, <2>2, OthersKeepCell DEF Stored
<1>7. CASE Restart
  <2>1. faults' \in Nat /\ queue' \subseteq queue
    BY <1>0, <1>7 DEF Restart
  <2> QED BY <1>0, <1>7, <2>1, OthersKeepCell DEF Restart, Stored
<1>8. CASE UNCHANGED vars
  BY <1>0, <1>8, OthersKeepCell DEF vars, Stored
<1> QED BY <1>1, <1>2, <1>3, <1>4, <1>5, <1>6, <1>7, <1>8 DEF Next

WriterRecord == [pc : {"ready", "sent", "done", "failed"}, call : Nat, done : Nat]
WriterFits(w, x) ==
    x \in WriterRecord /\ (x.pc \in {"ready", "sent"} => x.call \in 1..Len(setup.calls[w]))

LEMMA WriterIs == WriterType <=> /\ writer \in [Writers -> WriterRecord]
                                 /\ \A w \in Writers : WriterFits(w, writer[w])
BY DEF WriterType, WriterFits, WriterRecord

LEMMA RefusedFits ==
    ASSUME NEW w \in Writers, WriterFits(w, writer[w])
    PROVE  WriterFits(w, Refused(w))
BY DEF WriterFits, Refused, WriterRecord

LEMMA AtCallFits ==
    ASSUME CellInv, NEW w \in Writers, NEW i \in Nat \ {0}, NEW done \in Nat
    PROVE  WriterFits(w, AtCall(w, i, done))
<1>1. Len(setup.calls[w]) \in Nat
  BY SetupFields DEF CellInv, CellType
<1>2. CASE i <= Len(setup.calls[w])
  BY <1>1, <1>2 DEF AtCall, WriterFits, WriterRecord
<1>3. CASE ~(i <= Len(setup.calls[w]))
  BY <1>1, <1>3 DEF AtCall, WriterFits, WriterRecord
<1> QED BY <1>2, <1>3

LEMMA AcknowledgedFits ==
    ASSUME CellInv, WriterType, NEW op \in Mutation, op.who \in Writers
    PROVE  WriterFits(op.who, Acknowledged(op))
<1> DEFINE w == op.who
           done == writer[w].done + Len(op.chunks)
<1>1. WriterFits(w, writer[w]) /\ writer[w] \in WriterRecord
  BY WriterIs
<1>2. done \in Nat /\ op.chunks \in Seq(Chunks)
  BY <1>1 DEF WriterRecord, Mutation
<1>3. CASE writer[w].pc # "sent"
  BY <1>1, <1>3 DEF Acknowledged
<1>4. CASE writer[w].pc = "sent" /\ Call(w).kind = "write" /\ done < Call(w).upTo
  <2>1. Acknowledged(op) = [writer[w] EXCEPT !.pc = "ready", !.done = done]
    BY <1>4 DEF Acknowledged
  <2> HIDE DEF done
  <2> QED BY <1>1, <1>2, <1>4, <2>1 DEF WriterFits, WriterRecord
<1>5. CASE writer[w].pc = "sent" /\ ~(Call(w).kind = "write" /\ done < Call(w).upTo)
  <2>1. Acknowledged(op) = AtCall(w, writer[w].call + 1, done)
    BY <1>5 DEF Acknowledged
  <2>2. writer[w].call + 1 \in Nat \ {0}
    BY <1>1 DEF WriterRecord
  <2> HIDE DEF done
  <2> QED BY <1>2, <2>1, <2>2, AtCallFits
<1> QED BY <1>3, <1>4, <1>5

LEMMA NextKeepsWriters == CellInv /\ WriterType /\ [Next]_vars => WriterType'
<1> SUFFICES ASSUME CellInv, WriterType, [Next]_vars PROVE WriterType'
  OBVIOUS
<1> USE DEF cell, history
<1>0. writer \in [Writers -> WriterRecord] /\ \A w \in Writers : WriterFits(w, writer[w])
  BY WriterIs
<1>s. setup' = setup
  BY DEF Next, Mutate, WriteChunks, FinishStream, ExpireStream, Lands, Throws, Publish, LoadMeta, ServeRead, Read,
       FindMeta, EnterWait, LookAgain, ListRows, FindContaining, GetRows, BeginRead, SeekTail,
       ReceiveAnswer, LongPollEnds, LoseAnswer, GarbleAnswer, Send, WriteTimesOut, SendExpire, Restart, vars
<1>w. ASSUME writer' \in [Writers -> WriterRecord], \A w \in Writers : WriterFits(w, writer'[w])
      PROVE  WriterType'
  BY <1>s, <1>w DEF WriterType, WriterFits, WriterRecord
<1>1. CASE Mutate
  <2>1. ASSUME NEW op \in queue, WriteChunks(op) \/ FinishStream(op) \/ ExpireStream(op)
        PROVE  writer' = writer
    BY <2>1 DEF WriteChunks, FinishStream, ExpireStream, Lands
  <2>2. ASSUME NEW op \in queue, Throws(op)
        PROVE  WriterType'
    <3>1. op.who \in Writers \cup {Cleaner}
      BY DEF CellInv, CellType, Mutation
    <3>2. CASE op.who = Cleaner
      BY <1>0, <1>w, <2>2, <3>2 DEF Throws
    <3>3. CASE op.who # Cleaner
      <4>1. op.who \in Writers /\ writer' = [writer EXCEPT ![op.who] = Refused(op.who)]
        BY <2>2, <3>1, <3>3 DEF Throws
      <4>2. WriterFits(op.who, Refused(op.who))
        BY <1>0, <4>1, RefusedFits
      <4> QED BY <1>0, <1>w, <4>1, <4>2 DEF WriterFits
    <3> QED BY <3>2, <3>3
  <2>3. CASE Publish
    <3>1. landed.op \in Mutation /\ landed.op.who \in Writers \cup {Cleaner}
      BY <2>3 DEF Publish, CellInv, CellType, Landing, Mutation
    <3>2. CASE landed.op.who = Cleaner
      BY <1>0, <1>w, <2>3, <3>2 DEF Publish
    <3>3. CASE landed.op.who # Cleaner
      <4>1. landed.op.who \in Writers
            /\ writer' = [writer EXCEPT ![landed.op.who] = Acknowledged(landed.op)]
        BY <2>3, <3>1, <3>3 DEF Publish
      <4>2. WriterFits(landed.op.who, Acknowledged(landed.op))
        BY <3>1, <4>1, AcknowledgedFits
      <4> QED BY <1>0, <1>w, <4>1, <4>2 DEF WriterFits
    <3> QED BY <3>2, <3>3
  <2> QED BY <1>0, <1>1, <1>w, <2>1, <2>2, <2>3 DEF Mutate
<1>2. ASSUME NEW w \in Writers, Send(w)
      PROVE  WriterType'
  <2>1. writer' = [writer EXCEPT ![w].pc = "sent"] /\ writer[w].pc = "ready"
    BY <1>2 DEF Send
  <2>2. WriterFits(w, [writer[w] EXCEPT !.pc = "sent"])
    BY <1>0, <2>1 DEF WriterFits, WriterRecord
  <2> QED BY <1>0, <1>w, <2>1, <2>2 DEF WriterFits
<1>3. ASSUME NEW w \in Writers, WriteTimesOut(w)
      PROVE  WriterType'
  <2>1. WriterFits(w, Refused(w)) /\ writer' = [writer EXCEPT ![w] = Refused(w)]
    BY <1>0, <1>3, RefusedFits DEF WriteTimesOut
  <2> QED BY <1>0, <1>w, <2>1 DEF WriterFits
<1>4. CASE Restart
  <2>1. writer' = [w \in Writers |-> IF \E op \in queue' : op.who = w THEN writer[w] ELSE Refused(w)]
    BY <1>4 DEF Restart
  <2>2. \A w \in Writers : WriterFits(w, Refused(w)) /\ Refused(w) \in WriterRecord /\ writer[w] \in WriterRecord
    BY <1>0, RefusedFits DEF WriterFits
  <2> QED BY <1>0, <1>w, <2>1, <2>2
<1>5. CASE \/ LoadMeta \/ SendExpire \/ UNCHANGED vars
           \/ \E r \in Readers : ServeRead(r) \/ Read(r) \/ LoseAnswer(r) \/ GarbleAnswer(r)
  <2>1. writer' = writer
    BY <1>5 DEF LoadMeta, ServeRead, Read, FindMeta, EnterWait, LookAgain, ListRows, FindContaining, GetRows,
         BeginRead, SeekTail, ReceiveAnswer, LongPollEnds, LoseAnswer, GarbleAnswer, SendExpire, vars
  <2> QED BY <1>0, <1>w, <2>1
<1> QED BY <1>1, <1>2, <1>3, <1>4, <1>5 DEF Next

LEMMA CellInvariant == Spec => [](CellInv /\ WriterType)
<1>1. Init => WriterType
  <2> SUFFICES ASSUME Init PROVE WriterType
    OBVIOUS
  <2>1. \A w \in Writers : WriterFits(w, AtCall(w, 1, 0))
    BY InitCell, AtCallFits
  <2>2. writer = [w \in Writers |-> AtCall(w, 1, 0)]
    BY DEF Init
  <2> QED BY <2>1, <2>2, WriterIs DEF WriterFits
<1> QED BY <1>1, InitCell, NextKeepsCell, NextKeepsWriters, PTL DEF Spec

(* The stored rows hold the log from the first row on, without a gap or an  *)
(* overlap, up to the stored count, through writes of any segments, the     *)
(* earlier layout, expiry pages, restarts and commits nobody was told of    *)
(* (the transactions of writeChunks, expireSegmentPage and expireStream).   *)
THEOREM RowsCoverTheLog == Spec => []RowsCoverLog
<1>1. CellInv => RowsCoverLog
  <2> SUFFICES ASSUME CellInv PROVE RowsCoverLog
    OBVIOUS
  <2>1. ASSUME NEW i \in DOMAIN rows
        PROVE  rows[i] = SubSeq(log, i + 1, i + Len(rows[i]))
    <3>1. /\ log \in Seq(Chunks) /\ rows[i] \in Seq(Chunks) /\ i \in Nat
          /\ i + Len(rows[i]) <= Len(log) /\ \A k \in 1..Len(rows[i]) : rows[i][k] = log[i + k]
      BY DEF CellInv, CellType, RowsAt
    <3> QED BY <3>1, SliceIs
  <2> QED BY <2>1 DEF CellInv, RowsAt, MetaCovers, RowsCoverLog
<1> QED BY <1>1, CellInvariant, PTL

-----------------------------------------------------------------------------
(* The plan of a read *)

Entry == [start : Nat, count : Nat, bytes : Nat]

Distinct(plan) == \A d, e \in plan : d.start = e.start => d = e

LEMMA LeastEntry ==
    ASSUME NEW plan \in SUBSET Entry, plan # {}
    PROVE  \E e \in plan : \A d \in plan : e.start <= d.start
<1> DEFINE T == {e.start : e \in plan}
<1>1. T \subseteq Nat /\ T # {}
  BY DEF Entry
<1>2. PICK m \in T : \A k \in T : m <= k
  BY <1>1, Least
<1> QED BY <1>2

LEMMA LastEntry ==
    ASSUME NEW plan \in SUBSET Entry, plan # {}, NEW b \in Nat, \A e \in plan : e.start <= b
    PROVE  \E e \in plan : IsLastOf(e, plan)
<1> DEFINE T == {e.start : e \in plan}
<1>1. T \subseteq Nat /\ T # {} /\ \A k \in T : k <= b
  BY DEF Entry
<1>2. PICK m \in T : \A k \in T : k <= m
  BY <1>1, Greatest
<1> QED BY <1>2 DEF IsLastOf

(* Every place from the first row of a plan to the end of any of its rows   *)
(* lies in a row up to that one.                                            *)
LEMMA PlanIsGapless ==
    ASSUME NEW plan \in SUBSET Entry, Distinct(plan), NEW at \in Nat, NEW end, Covers(plan, at, end),
           NEW last \in plan, NEW x \in Nat, at <= x, x < End(last)
    PROVE  \E e \in UpTo(plan, last) : e.start <= x /\ x < End(e)
<1> SUFFICES ASSUME \A e \in UpTo(plan, last) : ~(e.start <= x /\ x < End(e))
             PROVE  FALSE
  OBVIOUS
<1> DEFINE E == {e \in UpTo(plan, last) : e.start <= x}
<1>0. \A e \in plan : e.start \in Nat /\ e.count \in Nat /\ End(e) \in Nat
  BY DEF Entry, End
<1>1. PICK first \in plan : Before(plan, first) = {} /\ first.start <= at /\ at < End(first)
  BY DEF Covers
<1>2. /\ UpTo(plan, last) \subseteq plan /\ last \in UpTo(plan, last)
      /\ \A e \in UpTo(plan, last) : e.start <= last.start
      /\ \A e \in plan : e.start < last.start => e \in UpTo(plan, last)
  BY <1>0 DEF UpTo, Before
<1>3. first \in E
  <2>1. first.start <= last.start
    BY <1>0, <1>1 DEF Before
  <2>2. first \in UpTo(plan, last)
    BY <1>0, <1>2, <2>1 DEF Distinct
  <2>3. first.start <= x
    BY <1>0, <1>1
  <2> QED BY <2>2, <2>3
<1>4. PICK e \in E : \A d \in E : d.start <= e.start
  <2>1. E \in SUBSET Entry /\ E # {} /\ \A d \in E : d.start <= x
    BY <1>2, <1>3
  <2> QED BY <2>1, LastEntry DEF IsLastOf
<1>5. e \in plan /\ e.start <= x /\ End(e) <= x
  BY <1>0, <1>2, <1>4
<1>6. last.start > x
  BY <1>0, <1>2
<1> DEFINE N == {d \in plan : d.start > x}
<1>7. PICK next \in N : \A d \in N : next.start <= d.start
  <2>1. N \in SUBSET Entry /\ last \in N
    BY <1>6
  <2> QED BY <2>1, LeastEntry
<1>8. next \in plan /\ next.start > x /\ next.start <= last.start
  BY <1>6, <1>7
<1>9. IsLastOf(e, Before(plan, next))
  <2>1. e \in Before(plan, next)
    BY <1>0, <1>5, <1>8 DEF Before
  <2>2. ASSUME NEW d \in Before(plan, next)
        PROVE  d.start <= e.start
    <3>1. d \in plan /\ d.start < next.start /\ d.start \in Nat
      BY <1>0 DEF Before
    <3>2. ~(d.start > x)
      BY <1>0, <1>7, <1>8, <3>1
    <3>3. d.start < last.start
      BY <1>0, <1>8, <3>1
    <3>4. d \in E
      BY <1>2, <3>1, <3>2, <3>3
    <3> QED BY <1>4, <3>4
  <2> QED BY <2>1, <2>2 DEF IsLastOf
<1>10. next.start = End(e)
  BY <1>5, <1>8, <1>9 DEF Covers
<1> QED BY <1>0, <1>5, <1>8, <1>10

(* The read begins in the first row.                                        *)
LEMMA PlanBegins ==
    ASSUME NEW plan \in SUBSET Entry, Distinct(plan), NEW at \in Nat, NEW end, Covers(plan, at, end),
           \A e \in plan : e.count > 0, NEW last \in plan
    PROVE  at < End(last)
<1>0. \A e \in plan : e.start \in Nat /\ e.count \in Nat /\ End(e) = e.start + e.count
  BY DEF Entry, End
<1>1. PICK first \in plan : Before(plan, first) = {} /\ first.start <= at /\ at < End(first)
  BY DEF Covers
<1>2. \A e \in plan : first.start <= e.start
  BY <1>0, <1>1 DEF Before
<1> SUFFICES ASSUME last.start > first.start
             PROVE  at < End(last)
  <2>1. last.start = first.start \/ last.start > first.start
    BY <1>0, <1>2
  <2> QED BY <1>1, <2>1 DEF Distinct
<1> DEFINE N == {d \in plan : d.start > first.start}
<1>3. PICK next \in N : \A d \in N : next.start <= d.start
  <2>1. N \in SUBSET Entry /\ last \in N
    OBVIOUS
  <2> QED BY <2>1, LeastEntry
<1>4. IsLastOf(first, Before(plan, next))
  <2>1. first \in Before(plan, next)
    BY <1>3 DEF Before
  <2>2. ASSUME NEW d \in Before(plan, next)
        PROVE  d.start <= first.start
    <3>1. d \in plan /\ d.start < next.start /\ d.start \in Nat /\ next.start \in Nat
      BY <1>0 DEF Before
    <3> QED BY <1>0, <1>3, <3>1
  <2> QED BY <2>1, <2>2 DEF IsLastOf
<1>5. next.start = End(first)
  BY <1>3, <1>4 DEF Covers
<1> QED BY <1>0, <1>1, <1>3, <1>5

-----------------------------------------------------------------------------
(* What a read in flight knows *)

(* The planned rows were stored.                                            *)
PlanHolds(plan) ==
    /\ plan \in SUBSET Entry /\ Distinct(plan)
    /\ \A e \in plan : e.count > 0 /\ End(e) <= Len(log)

(* An answer says what was true and will not be false, and its chunks are   *)
(* those of the log from the index asked for.                               *)
AnswerTrue(a) ==
    /\ Truth(a.count, a.state)
    /\ \A k \in 1..Len(a.chunks) : a.at + k \in 1..Len(log) /\ a.chunks[k] = log[a.at + k]

FrameTrue(f) ==
    /\ f \in FrameType
    /\ f.pc \in {"list", "find", "get"} =>
          /\ f.meta \in StreamMeta /\ Truth(f.meta.count, f.meta.state)
          /\ Available(f.meta, f.at) > 0
    /\ f.pc = "find" => PlanHolds(f.plan) /\ \A e \in f.plan : f.at < e.start
    /\ f.pc = "get" => PlanHolds(f.plan) /\ Covers(f.plan, f.at, ReadEnd(f))
    /\ f.pc = "reply" => /\ f.reply \in Answer \cup {ErrorReply}
                         /\ f.reply \in Answer => AnswerTrue(f.reply)

(* A read that is going to wait, or waits, saw that there is nothing to     *)
(* read in the metadata, unless they have changed since.                    *)
Remembers(f) ==
    /\ f.seen <= version
    /\ f.pc \in {"enter", "wait", "again"} => cached # None
    /\ (f.pc = "wait" \/ (f.pc = "enter" /\ f.seen = version)) =>
          cached.state = "open" /\ Available(cached, f.at) = 0

(* A reader, its read in the cell and what it was given.                    *)
Consistent(f, x, g) ==
    /\ FrameTrue(f) /\ Remembers(f)
    /\ x \in ReaderType /\ (x.old # None => AnswerTrue(x.old))
    /\ f.pc # "none" => x.pc = "sent"
    /\ x.pc = "seek" => g = <<>>
    /\ g \in Seq(Chunks)

ReadersInv ==
    /\ frame \in [Readers -> FrameType] /\ reader \in [Readers -> ReaderType]
    /\ got \in [Readers -> Seq(Chunks)]
    /\ \A r \in Readers : Consistent(frame[r], reader[r], got[r])

(* What no step does to the log.                                            *)
LogMoves ==
    /\ log' \in Seq(Chunks) /\ Len(log) <= Len(log') /\ \A i \in 1..Len(log) : log'[i] = log[i]
    /\ outcome # "open" => outcome' = outcome /\ Len(log') = Len(log)
    /\ meta.state = "expired" => meta'.state = "expired"

LEMMA NextMovesLog == CellInv /\ [Next]_vars => LogMoves
<1> SUFFICES ASSUME CellInv, [Next]_vars PROVE LogMoves
  OBVIOUS
<1> USE DEF cell, history
<1>0. log \in Seq(Chunks) /\ Len(log) \in Nat /\ (meta.state = "open" => outcome = "open")
  BY DEF CellInv, CellType, Memory
<1>1. ASSUME NEW op \in queue, WriteChunks(op)
      PROVE  LogMoves
  <2>1. log' = log \o op.chunks /\ op.chunks \in Seq(Chunks) /\ outcome' = outcome /\ meta.state = "open"
    BY <1>1 DEF WriteChunks, CanWrite, CellInv, CellType, Mutation
  <2>2. Len(op.chunks) \in Nat
    BY <2>1
  <2>3. /\ log' \in Seq(Chunks) /\ Len(log') = Len(log) + Len(op.chunks)
        /\ \A i \in 1..Len(log) : log'[i] = log[i]
    BY <1>0, <2>1, Joined
  <2> QED BY <1>0, <2>1, <2>2, <2>3 DEF LogMoves
<1>2. ASSUME NEW op \in queue, FinishStream(op)
      PROVE  LogMoves
  <2>1. /\ log' = log /\ (meta.state # "open" => outcome' = outcome) /\ meta.state # "expired"
    BY <1>2 DEF FinishStream, CanFinish
  <2> QED BY <1>0, <2>1 DEF LogMoves
<1>3. ASSUME NEW op \in queue, ExpireStream(op)
      PROVE  LogMoves
  <2>1. log' = log /\ outcome' = outcome /\ (meta'.state = "expired" \/ meta' = meta)
    <3>1. meta \in StreamMeta
      BY DEF CellInv, CellType
    <3> QED BY <1>3, <3>1 DEF ExpireStream, Lands, StreamMeta
  <2> QED BY <1>0, <2>1 DEF LogMoves
<1>4. CASE UNCHANGED <<log, outcome, meta>>
  BY <1>0, <1>4 DEF LogMoves
<1> QED BY <1>1, <1>2, <1>3, <1>4 DEF Next, Mutate, Throws, Publish, LoadMeta, ServeRead, Read,
       FindMeta, EnterWait, LookAgain, ListRows, FindContaining, GetRows, BeginRead, SeekTail,
       ReceiveAnswer, LongPollEnds, LoseAnswer, GarbleAnswer, Send, WriteTimesOut, SendExpire, Restart, vars

(* What is true of the log stays true.                                      *)
LEMMA TruthStays ==
    ASSUME CellInv, LogMoves, NEW count \in Nat, NEW state \in States, Truth(count, state)
    PROVE  Truth(count, state)'
<1>1. Len(log) \in Nat /\ Len(log') \in Nat
  BY DEF CellInv, CellType, LogMoves
<1> QED BY <1>1 DEF Truth, LogMoves

LEMMA AnswerStays ==
    ASSUME CellInv, LogMoves, NEW a \in Answer, AnswerTrue(a)
    PROVE  AnswerTrue(a)'
<1>1. Len(log) \in Nat /\ Len(log') \in Nat
  BY DEF CellInv, CellType, LogMoves
<1>2. Truth(a.count, a.state)'
  BY TruthStays DEF AnswerTrue, Answer
<1>3. ASSUME NEW k \in 1..Len(a.chunks)
      PROVE  a.at + k \in 1..Len(log') /\ a.chunks[k] = log'[a.at + k]
  <2>1. a.at + k \in 1..Len(log) /\ a.chunks[k] = log[a.at + k]
    BY DEF AnswerTrue
  <2>2. a.at + k \in 1..Len(log')
    BY <1>1, <2>1 DEF LogMoves
  <2> QED BY <2>1, <2>2 DEF LogMoves
<1> QED BY <1>2, <1>3 DEF AnswerTrue

LEMMA FrameStays ==
    ASSUME CellInv, LogMoves, NEW f, FrameTrue(f)
    PROVE  FrameTrue(f)'
<1>1. Len(log) \in Nat /\ Len(log') \in Nat /\ Len(log) <= Len(log')
  BY DEF CellInv, CellType, LogMoves
<1>2. f \in FrameType
  BY DEF FrameTrue
<1>3. ASSUME f.pc \in {"list", "find", "get"}
      PROVE  Truth(f.meta.count, f.meta.state)'
  <2>1. f.meta \in StreamMeta /\ Truth(f.meta.count, f.meta.state)
    BY <1>3 DEF FrameTrue
  <2>2. f.meta.count \in Nat /\ f.meta.state \in States
    BY <2>1 DEF StreamMeta, States
  <2> QED BY <2>1, <2>2, TruthStays
<1>4. ASSUME PlanHolds(f.plan)
      PROVE  PlanHolds(f.plan)'
  <2>1. \A e \in f.plan : End(e) \in Nat
    BY <1>4 DEF PlanHolds, Entry, End
  <2> QED BY <1>1, <1>4, <2>1 DEF PlanHolds
<1>5. ASSUME f.reply \in Answer, AnswerTrue(f.reply)
      PROVE  AnswerTrue(f.reply)'
  BY <1>5, AnswerStays
<1> QED BY <1>2, <1>3, <1>4, <1>5 DEF FrameTrue

(* A reader stays consistent when nothing happens to it and the metadata in *)
(* memory are at most loaded.                                               *)
LEMMA ConsistentStays ==
    ASSUME CellInv, LogMoves, NEW f, NEW x, NEW g, Consistent(f, x, g),
           version' = version, cached # None => cached' = cached
    PROVE  Consistent(f, x, g)'
<1>1. FrameTrue(f)'
  BY FrameStays DEF Consistent
<1>2. Remembers(f)'
  BY DEF Consistent, Remembers
<1>3. x.old # None => AnswerTrue(x.old)'
  <2>1. x.old # None => x.old \in Answer
    BY DEF Consistent, ReaderType
  <2> QED BY <2>1, AnswerStays DEF Consistent
<1> QED BY <1>1, <1>2, <1>3 DEF Consistent

LEMMA NoFrameFits == NoFrame \in FrameType /\ NoFrame.pc = "none" /\ NoFrame.seen = 0
BY DEF NoFrame, FrameType

LEMMA AvailableNat ==
    ASSUME NEW m \in StreamMeta, NEW at \in Nat
    PROVE  /\ Available(m, at) \in Nat
           /\ Available(m, at) > 0 => m.state # "expired" /\ at + Available(m, at) <= m.count
           /\ Available(m, at) = 0 => m.state = "expired" \/ m.count <= at
BY Constants DEF Available, Smaller, StreamMeta

(* What a snapshot, and an answer, leave of a read.                         *)
LEMMA RepliedFits ==
    ASSUME NEW f, NEW reply \in Answer \cup {ErrorReply}, reply \in Answer => AnswerTrue(reply)
    PROVE  /\ FrameTrue(Replied(f, reply)) /\ Replied(f, reply).pc = "reply"
           /\ Replied(f, reply).seen = 0 /\ Replied(f, reply).reply = reply
BY DEF Replied, NoFrame, FrameTrue, FrameType

LEMMA EmptyAnswer ==
    ASSUME NEW f \in FrameType, NEW m \in StreamMeta, Truth(m.count, m.state)
    PROVE  Reply(f, m, <<>>) \in Answer /\ AnswerTrue(Reply(f, m, <<>>))
<1>1. f.at \in Nat /\ m.count \in Nat /\ m.state \in States /\ <<>> \in Seq(Chunks)
  BY DEF FrameType, StreamMeta, States
<1>2. Len(<<>>) = 0
  OBVIOUS
<1> QED BY <1>1, <1>2 DEF Reply, Answer, AnswerTrue

LEMMA SnapshotIs ==
    ASSUME NEW r \in Readers, NEW f \in FrameType, NEW m \in StreamMeta, Truth(m.count, m.state),
           NEW s, s = Snapshot(r, f, m)
    PROVE  /\ FrameTrue(s) /\ s.pc \in {"reply", "enter", "list"} /\ s.seen \in {0, f.seen}
           /\ s.pc = "enter" => /\ ~f.last /\ s.seen = f.seen
                               /\ m.state = "open" /\ Available(m, s.at) = 0
<1>0. f.at \in Nat /\ Available(m, f.at) \in Nat
  BY AvailableNat DEF FrameType
<1>1. CASE ~OwnerIs(m, setup.run[r])
  <2>1. s = Replied(f, ErrorReply)
    BY <1>1 DEF Snapshot
  <2>2. ErrorReply \notin Answer
    BY DEF ErrorReply, Answer
  <2> QED BY <2>1, <2>2, RepliedFits
<1>2. CASE OwnerIs(m, setup.run[r]) /\ Available(m, f.at) # 0
  <2>1. s = [f EXCEPT !.pc = "list", !.meta = m]
    BY <1>2 DEF Snapshot
  <2>2. s \in FrameType /\ s.pc = "list" /\ s.meta = m /\ s.at = f.at /\ s.seen = f.seen
    BY <2>1 DEF FrameType
  <2> QED BY <1>0, <1>2, <2>2 DEF FrameTrue
<1>3. CASE OwnerIs(m, setup.run[r]) /\ Available(m, f.at) = 0
  <2>1. s = Decide(f, m, <<>>)
    BY <1>3 DEF Snapshot
  <2>2. CASE m.state # "open" \/ f.last
    <3>1. s = Replied(f, Reply(f, m, <<>>))
      BY <2>1, <2>2 DEF Decide
    <3> QED BY <3>1, RepliedFits, EmptyAnswer
  <2>3. CASE ~(m.state # "open" \/ f.last)
    <3>1. s = [f EXCEPT !.pc = "enter", !.meta = None, !.plan = {}]
      BY <2>1, <2>3 DEF Decide
    <3>2. s \in FrameType /\ s.pc = "enter" /\ s.at = f.at /\ s.seen = f.seen
      BY <3>1 DEF FrameType
    <3> QED BY <1>3, <2>3, <3>2 DEF FrameTrue
  <2> QED BY <2>2, <2>3
<1> QED BY <1>1, <1>2, <1>3

(* A sum over a sequence is a number: the function that Bytes chooses       *)
(* exists, by the lengths, and its values are numbers, by the lengths too.  *)
LEMMA BytesIsNat ==
    ASSUME NEW s \in Seq(Chunks)
    PROVE  Bytes(s) \in Nat
<1> DEFINE Step(x, it) == IF x = {} THEN 0 ELSE it[x \ {Max(x)}] + s[Max(x)].size
           Sums(n, it) == it = [x \in SUBSET (1..n) |-> Step(x, it)]
           sum == CHOOSE it : it = [x \in SUBSET (DOMAIN s) |-> Step(x, it)]
<1>1. Len(s) \in Nat /\ DOMAIN s = 1..Len(s) /\ \A i \in 1..Len(s) : s[i].size \in Nat
  BY Constants
<1>2. Bytes(s) = sum[DOMAIN s]
  BY DEF Bytes, FoldLeft, MapThenFoldSet
<1>3. \A n \in Nat : \A x \in SUBSET (1..n) : x # {} => Max(x) \in x /\ \A k \in x : k <= Max(x)
  <2> SUFFICES ASSUME NEW n \in Nat, NEW x \in SUBSET (1..n), x # {}
               PROVE  Max(x) \in x /\ \A k \in x : k <= Max(x)
    OBVIOUS
  <2>1. x \subseteq Nat /\ \A k \in x : k <= n
    OBVIOUS
  <2> QED BY <2>1, MaxOf
<1>4. \A n \in 0..Len(s) : \E it : Sums(n, it)
  <2> DEFINE T == {n \in 0..Len(s) : ~\E it : Sums(n, it)}
  <2> SUFFICES ASSUME T # {} PROVE FALSE
    OBVIOUS
  <2>1. PICK m \in T : \A k \in T : m <= k
    <3>1. T \subseteq Nat
      BY <1>1
    <3> HIDE DEF T
    <3> QED BY <3>1, Least
  <2>2. m # 0
    <3> DEFINE none == [x \in SUBSET (1..0) |-> 0]
    <3> SUFFICES Sums(0, none)
      BY <2>1
    <3>1. \A x \in SUBSET (1..0) : Step(x, none) = 0
      <4>1. \A x \in SUBSET (1..0) : x = {}
        OBVIOUS
      <4> QED BY <4>1
    <3> HIDE DEF Step
    <3> QED BY <3>1
  <2>3. PICK it : Sums(m - 1, it)
    <3>1. m - 1 \in 0..Len(s) /\ ~(m <= m - 1)
      BY <1>1, <2>1, <2>2
    <3>2. m - 1 \notin T
      BY <2>1, <3>1
    <3> QED BY <3>1, <3>2
  <2> DEFINE next == [x \in SUBSET (1..m) |-> IF m \in x THEN it[x \ {m}] + s[m].size ELSE it[x]]
  <2>4. m \in Nat \ {0} /\ m - 1 \in Nat
    BY <1>1, <2>1, <2>2
  <2> HIDE DEF T
  <2>5. \A x \in SUBSET (1..(m - 1)) : it[x] = Step(x, it)
    BY <2>3
  <2> HIDE DEF Sums
  <2>6. \A x \in SUBSET (1..m) : m \notin x => x \in SUBSET (1..(m - 1))
    BY <2>4
  <2>7. \A x \in SUBSET (1..(m - 1)) : next[x] = it[x]
    <3>1. \A x \in SUBSET (1..(m - 1)) : x \in SUBSET (1..m) /\ m \notin x
      BY <2>4
    <3> QED BY <3>1
  <2>8. ASSUME NEW x \in SUBSET (1..m)
        PROVE  next[x] = Step(x, next)
    <3>1. CASE m \in x
      <4>1. Max(x) = m
        <5>1. Max(x) \in x /\ m <= Max(x)
          BY <1>3, <2>4, <3>1
        <5>2. Max(x) \in 1..m
          BY <5>1
        <5>3. \A k \in 1..m : m <= k => k = m
          BY <2>4
        <5> QED BY <5>1, <5>2, <5>3
      <4>2. x \ {m} \in SUBSET (1..(m - 1))
        BY <2>6
      <4>3. next[x] = it[x \ {m}] + s[m].size
        BY <3>1
      <4>4. next[x \ {m}] = it[x \ {m}]
        BY <2>7, <4>2
      <4> HIDE DEF next
      <4> QED BY <3>1, <4>1, <4>3, <4>4
    <3>2. CASE m \notin x
      <4>1. x \in SUBSET (1..(m - 1))
        BY <2>6, <3>2
      <4>2. next[x] = it[x] /\ it[x] = Step(x, it)
        BY <2>5, <2>7, <4>1
      <4>3. CASE x = {}
        <5> HIDE DEF next
        <5> QED BY <4>2, <4>3
      <4>4. CASE x # {}
        <5>1. x \ {Max(x)} \in SUBSET (1..(m - 1))
          BY <4>1
        <5>2. next[x \ {Max(x)}] = it[x \ {Max(x)}]
          BY <2>7, <5>1
        <5> HIDE DEF next
        <5> QED BY <4>2, <4>4, <5>2
      <4> QED BY <4>3, <4>4
    <3> QED BY <3>1, <3>2
  <2>9. Sums(m, next)
    <3> HIDE DEF Step
    <3> QED BY <2>8 DEF Sums
  <2> QED BY <2>1, <2>9 DEF T
<1>5. Sums(Len(s), sum)
  <2>1. \E it : it = [x \in SUBSET (DOMAIN s) |-> Step(x, it)]
    <3>1. PICK it : Sums(Len(s), it)
      <4>1. Len(s) \in 0..Len(s)
        BY <1>1
      <4> HIDE DEF Sums
      <4> QED BY <1>4, <4>1
    <3> HIDE DEF Step
    <3> QED BY <1>1, <3>1
  <2> HIDE DEF Step
  <2>2. sum = [x \in SUBSET (DOMAIN s) |-> Step(x, sum)]
    BY <2>1
  <2> HIDE DEF sum
  <2> QED BY <1>1, <2>2
<1> HIDE DEF sum
<1>6. \A x \in SUBSET (1..Len(s)) : sum[x] = Step(x, sum)
  BY <1>5
<1> HIDE DEF Sums
<1>7. \A n \in 0..Len(s) : \A x \in SUBSET (1..n) : sum[x] \in Nat
  <2> DEFINE T == {n \in 0..Len(s) : \E x \in SUBSET (1..n) : sum[x] \notin Nat}
  <2> SUFFICES ASSUME T # {} PROVE FALSE
    OBVIOUS
  <2>1. PICK m \in T : \A k \in T : m <= k
    <3>1. T \subseteq Nat
      BY <1>1
    <3> HIDE DEF T
    <3> QED BY <3>1, Least
  <2>2. PICK x \in SUBSET (1..m) : sum[x] \notin Nat
    BY <2>1
  <2>3. x \in SUBSET (1..Len(s)) /\ m \in Nat
    BY <1>1, <2>1
  <2>4. x # {}
    <3> SUFFICES ASSUME x = {} PROVE sum[x] = 0
      BY <2>2
    <3>1. Step(x, sum) = 0
      OBVIOUS
    <3> HIDE DEF Step
    <3> QED BY <1>6, <2>3, <3>1
  <2> DEFINE k == Max(x)
  <2>5. k \in x /\ \A j \in x : j <= k
    BY <1>3, <2>3, <2>4
  <2>6. sum[x] = sum[x \ {k}] + s[k].size
    BY <1>6, <2>3, <2>4
  <2> HIDE DEF Step, k
  <2>7. k \in 1..m /\ k \in 1..Len(s) /\ k - 1 \in 0..Len(s) /\ ~(m <= k - 1)
    BY <1>1, <2>3, <2>5
  <2>8. x \ {k} \in SUBSET (1..(k - 1))
    BY <2>3, <2>5, <2>7
  <2>9. k - 1 \notin T
    BY <2>1, <2>7
  <2>10. sum[x \ {k}] \in Nat
    BY <2>7, <2>8, <2>9
  <2>11. s[k].size \in Nat
    BY <1>1, <2>7
  <2> QED BY <2>2, <2>6, <2>10, <2>11
<1> QED BY <1>1, <1>2, <1>7

(* Listing the rows of a read.                                              *)
LEMMA PlannedRows ==
    ASSUME CellInv, NEW starts, starts \subseteq DOMAIN rows
    PROVE  PlanHolds(PlanOf(starts)) /\ \A e \in PlanOf(starts) : e.start \in starts
<1>1. ASSUME NEW i \in starts
      PROVE  /\ i \in Nat /\ Len(rows[i]) \in Nat \ {0} /\ i + Len(rows[i]) <= Len(log)
             /\ Bytes(rows[i]) \in Nat
  BY BytesIsNat DEF CellInv, RowsAt
<1>2. ASSUME NEW e \in PlanOf(starts)
      PROVE  /\ e \in Entry /\ e.start \in starts /\ e.count > 0 /\ End(e) <= Len(log)
             /\ e.count = Len(rows[e.start]) /\ e.bytes = Bytes(rows[e.start])
  <2>1. PICK i \in starts : e = [start |-> i, count |-> Len(rows[i]), bytes |-> Bytes(rows[i])]
    BY DEF PlanOf
  <2> QED BY <1>1, <2>1 DEF Entry, End
<1>3. Distinct(PlanOf(starts))
  <2> SUFFICES ASSUME NEW d \in PlanOf(starts), NEW e \in PlanOf(starts), d.start = e.start
               PROVE  d = e
    BY DEF Distinct
  <2> QED BY <1>2 DEF Entry
<1> QED BY <1>2, <1>3 DEF PlanHolds

(* f reads rows of metadata that are true.                                  *)
Reading(f) ==
    /\ f \in FrameType /\ f.meta \in StreamMeta /\ Truth(f.meta.count, f.meta.state)
    /\ Available(f.meta, f.at) > 0

LEMMA PlannedFits ==
    ASSUME NEW f, Reading(f), NEW plan, PlanHolds(plan), NEW g, g = Planned(f, plan)
    PROVE  FrameTrue(g) /\ g.pc \in {"get", "reply"} /\ g.seen \in {0, f.seen}
<1>1. CASE Covers(plan, f.at, ReadEnd(f))
  <2>1. g = [f EXCEPT !.pc = "get", !.plan = plan]
    BY <1>1 DEF Planned
  <2>2. /\ g \in FrameType /\ g.pc = "get" /\ g.plan = plan /\ g.meta = f.meta
        /\ g.at = f.at /\ g.seen = f.seen
    BY <2>1 DEF Reading, FrameType, PlanHolds, Entry
  <2>3. ReadEnd(g) = ReadEnd(f)
    BY <2>2 DEF ReadEnd
  <2> QED BY <1>1, <2>2, <2>3 DEF FrameTrue, Reading
<1>2. CASE ~Covers(plan, f.at, ReadEnd(f))
  <2>1. g = Replied(f, ErrorReply)
    BY <1>2 DEF Planned
  <2>2. ErrorReply \notin Answer
    BY DEF ErrorReply, Answer
  <2> QED BY <2>1, <2>2, RepliedFits
<1> QED BY <1>1, <1>2

LEMMA ListedFits ==
    ASSUME CellInv, NEW f, Reading(f), NEW starts, starts \subseteq {i \in DOMAIN rows : f.at <= i},
           NEW g, g = (IF f.at \in starts THEN Planned(f, PlanOf(starts))
                       ELSE [f EXCEPT !.pc = "find", !.plan = PlanOf(starts)])
    PROVE  FrameTrue(g) /\ g.pc \in {"get", "reply", "find"} /\ g.seen \in {0, f.seen}
<1>1. PlanHolds(PlanOf(starts)) /\ \A e \in PlanOf(starts) : e.start \in starts
  BY PlannedRows
<1>2. CASE f.at \in starts
  <2>1. g = Planned(f, PlanOf(starts))
    BY <1>2
  <2> QED BY <1>1, <2>1, PlannedFits
<1>3. CASE f.at \notin starts
  <2> DEFINE plan == PlanOf(starts)
  <2>1. g = [f EXCEPT !.pc = "find", !.plan = plan]
    BY <1>3
  <2>2. PlanHolds(plan)
    BY <1>1
  <2>3. \A e \in plan : f.at < e.start
    <3> SUFFICES ASSUME NEW e \in plan PROVE f.at < e.start
      OBVIOUS
    <3>1. e.start \in starts /\ f.at <= e.start /\ e.start # f.at
      BY <1>1, <1>3
    <3>2. e.start \in Nat /\ f.at \in Nat
      BY <1>1 DEF PlanHolds, Entry, Reading, FrameType
    <3> QED BY <3>1, <3>2
  <2> HIDE DEF plan
  <2>4. /\ g \in FrameType /\ g.pc = "find" /\ g.plan = plan /\ g.meta = f.meta
        /\ g.at = f.at /\ g.seen = f.seen
    BY <2>1, <2>2 DEF Reading, FrameType, PlanHolds, Entry
  <2> QED BY <2>2, <2>3, <2>4 DEF FrameTrue, Reading
<1> QED BY <1>2, <1>3

LEMMA FoundFits ==
    ASSUME CellInv, NEW f, Reading(f), PlanHolds(f.plan), \A e \in f.plan : f.at < e.start,
           NEW before, before = {i \in DOMAIN rows : i <= f.at},
           NEW g, g = (IF before = {} THEN Replied(f, ErrorReply)
                       ELSE Planned(f, PlanOf({Max(before)}) \cup f.plan))
    PROVE  FrameTrue(g) /\ g.pc \in {"get", "reply"} /\ g.seen \in {0, f.seen}
<1>1. CASE before = {}
  <2>1. g = Replied(f, ErrorReply)
    BY <1>1
  <2>2. ErrorReply \notin Answer
    BY DEF ErrorReply, Answer
  <2> QED BY <2>1, <2>2, RepliedFits
<1>2. CASE before # {}
  <2> DEFINE held == PlanOf({Max(before)})
  <2>1. f.at \in Nat /\ before \subseteq Nat /\ \A k \in before : k <= f.at
    BY RowsAreFinite DEF Reading, FrameType
  <2>2. Max(before) \in before
    BY <1>2, <2>1, MaxOf
  <2>3. PlanHolds(held) /\ \A e \in held : e.start \in {Max(before)}
    BY <2>2, PlannedRows
  <2> HIDE DEF held
  <2>4. \A e \in held : e.start <= f.at
    BY <2>1, <2>2, <2>3
  <2>5. Distinct(held \cup f.plan)
    <3> SUFFICES ASSUME NEW d \in held \cup f.plan, NEW e \in held \cup f.plan, d.start = e.start
                 PROVE  d = e
      BY DEF Distinct
    <3>1. d.start \in Nat /\ e.start \in Nat
      BY <2>3 DEF PlanHolds, Entry
    <3>2. d \in held <=> e \in held
      <4>1. d.start <= f.at <=> e.start <= f.at
        OBVIOUS
      <4>2. \A x \in held \cup f.plan : x.start \in Nat => (x.start <= f.at <=> x \in held)
        <5> SUFFICES ASSUME NEW x \in f.plan, x.start \in Nat PROVE ~(x.start <= f.at)
          BY <2>4
        <5>1. f.at < x.start
          OBVIOUS
        <5> QED BY <2>1, <5>1
      <4> QED BY <3>1, <4>1, <4>2
    <3>3. CASE d \in held /\ e \in held
      BY <2>3, <3>3 DEF PlanHolds, Distinct
    <3>4. CASE d \in f.plan /\ e \in f.plan
      BY <3>4 DEF PlanHolds, Distinct
    <3> QED BY <3>2, <3>3, <3>4
  <2>6. PlanHolds(held \cup f.plan)
    BY <2>3, <2>5 DEF PlanHolds
  <2>7. g = Planned(f, held \cup f.plan)
    BY <1>2 DEF held
  <2> QED BY <2>6, <2>7, PlannedFits
<1> QED BY <1>1, <1>2

(* An answer about rows that are still there has a chunk at least, since a  *)
(* read may have one of any size, and its chunks are the log's.             *)
ReadBack(range, load, at, end) == range = [k \in 1..(end - at) |-> ChunkAt(load, at + k - 1)]

LEMMA GotFits ==
    ASSUME CellInv, NEW f, Reading(f), PlanHolds(f.plan), Covers(f.plan, f.at, ReadEnd(f)),
           NEW last \in f.plan, NEW load, load = UpTo(f.plan, last),
           \A e \in load : e.start \in DOMAIN rows /\ Len(rows[e.start]) = e.count,
           NEW range, ReadBack(range, load, f.at, End(last)),
           NEW k \in 0..Len(range), IsAnswer(f, range, k),
           NEW g, g = Decide(f, f.meta, SubSeq(range, 1, k))
    PROVE  FrameTrue(g) /\ g.pc = "reply" /\ g.seen = 0
<1>1. /\ f.at \in Nat /\ f.plan \in SUBSET Entry /\ Distinct(f.plan) /\ log \in Seq(Chunks)
      /\ Len(log) \in Nat /\ last.start \in Nat /\ last.count \in Nat
      /\ End(last) \in Nat /\ End(last) <= Len(log)
      /\ \A e \in f.plan : e.start \in Nat /\ e.count \in Nat /\ e.count > 0 /\ End(e) = e.start + e.count
  BY DEF Reading, FrameType, PlanHolds, Entry, End, CellInv, CellType
<1>2. f.at < End(last)
  BY <1>1, PlanBegins
<1> DEFINE n == End(last) - f.at
<1>3. n \in Nat \ {0} /\ f.at + n = End(last)
  BY <1>1, <1>2
<1>4. ASSUME NEW x \in Nat, f.at <= x, x < End(last)
      PROVE  ChunkAt(load, x) = log[x + 1] /\ x + 1 \in 1..Len(log)
  <2>1. \E e \in load : e.start <= x /\ x < End(e)
    BY <1>1, <1>4, PlanIsGapless
  <2> DEFINE e == CHOOSE e \in load : e.start <= x /\ x < End(e)
  <2>2. e \in load /\ e.start <= x /\ x < End(e)
    BY <2>1
  <2>3. ChunkAt(load, x) = rows[e.start][x - e.start + 1]
    BY DEF ChunkAt
  <2> HIDE DEF e
  <2>4. e \in f.plan /\ e.start \in DOMAIN rows /\ Len(rows[e.start]) = e.count
    BY <2>2 DEF UpTo, Before
  <2>5. x - e.start + 1 \in 1..e.count /\ e.start + (x - e.start + 1) = x + 1
    <3>1. e.start \in Nat /\ e.count \in Nat /\ End(e) = e.start + e.count
      BY <1>1, <2>4
    <3>2. e.start <= x /\ x < e.start + e.count
      BY <2>2, <3>1
    <3> QED BY <3>1, <3>2
  <2>6. rows[e.start][x - e.start + 1] = log[e.start + (x - e.start + 1)]
    BY <2>4, <2>5 DEF CellInv, RowsAt
  <2> QED BY <1>1, <1>4, <2>3, <2>5, <2>6
<1>5. ASSUME NEW j \in 1..n
      PROVE  range[j] = log[f.at + j] /\ f.at + j \in 1..Len(log)
  <2>1. f.at + j - 1 \in Nat /\ f.at <= f.at + j - 1 /\ f.at + j - 1 < End(last)
        /\ f.at + j - 1 + 1 = f.at + j
    BY <1>1, <1>3
  <2>2. range[j] = ChunkAt(load, f.at + j - 1)
    <3>1. range = [i \in 1..n |-> ChunkAt(load, f.at + i - 1)]
      BY Zenon DEF ReadBack
    <3> HIDE DEF n
    <3> QED BY <3>1, Zenon
  <2> QED BY <1>4, <2>1, <2>2
<1> HIDE DEF n
<1>6. range \in Seq(Chunks) /\ Len(range) = n
  <2>1. \A i \in 1..Len(log) : log[i] \in Chunks
    BY <1>1
  <2>2. \A j \in 1..n : range[j] \in Chunks
    BY <1>5, <2>1
  <2>3. DOMAIN range = 1..n /\ range = [j \in 1..n |-> range[j]]
    BY DEF ReadBack, n
  <2>4. range \in [1..n -> Chunks] /\ n \in Nat
    BY <1>3, <2>2, <2>3
  <2>5. range \in Seq(Chunks)
    BY <2>4, SeqDef
  <2>6. Len(range) \in Nat /\ DOMAIN range = 1..Len(range)
    BY <2>5, LenProperties
  <2>7. 1..n = 1..Len(range) => n = Len(range)
    BY <2>4, <2>6
  <2> QED BY <2>3, <2>5, <2>6, <2>7
<1>7. k # 0
  <2> SUFFICES ASSUME k = 0 PROVE FALSE
    OBVIOUS
  <2>1. ~Within(SubSeq(range, 1, 1), ReadEnd(f) - f.at, ReadBytes)
    <3>1. k + 1 = 1 /\ k # Len(range)
      BY <1>3, <1>6
    <3> QED BY <3>1 DEF IsAnswer, Fills
  <2>2. range # <<>>
    BY <1>3, <1>6
  <2>3. SubSeq(range, 1, 1) = <<range[1]>>
    BY <1>6, <2>2, OneChunk
  <2>4. range[1] \in Chunks
    BY <1>3, <1>6
  <2>5. Bytes(<<range[1]>>) = range[1].size /\ range[1].size <= ReadBytes
    BY <2>4, Constants, BytesOfOne
  <2>6. Len(<<range[1]>>) = 1
    OBVIOUS
  <2>7. ReadEnd(f) - f.at >= 1
    <3>1. Available(f.meta, f.at) \in Nat /\ Available(f.meta, f.at) > 0
      BY <1>1, AvailableNat DEF Reading
    <3> QED BY <1>1, <3>1 DEF ReadEnd
  <2> QED BY <2>1, <2>3, <2>5, <2>6, <2>7 DEF Within
<1> DEFINE t == SubSeq(range, 1, k)
<1>8. /\ t \in Seq(Chunks) /\ Len(t) = k /\ t # <<>> /\ k \in 1..n
      /\ \A j \in 1..k : t[j] = range[j]
  <2>1. k \in 1..n
    BY <1>3, <1>6, <1>7
  <2>2. k - 1 + 1 = k /\ \A j \in 1..k : 1 + j - 1 = j
    BY <2>1, <1>3
  <2>3. t \in Seq(Chunks) /\ Len(t) = k /\ \A j \in 1..k : t[j] = range[j]
    BY <1>3, <1>6, <2>1, <2>2, Slice
  <2>4. t # <<>>
    <3>1. k # 0
      BY <1>7
    <3> HIDE DEF t
    <3> QED BY <2>3, <3>1
  <2> QED BY <2>1, <2>3, <2>4
<1>9. g = Decide(f, f.meta, t)
  OBVIOUS
<1> HIDE DEF t
<1> DEFINE a == Reply(f, f.meta, t)
<1>10. g = Replied(f, a)
  BY <1>8, <1>9 DEF Decide
<1>11. a \in Answer /\ a.at = f.at /\ a.chunks = t /\ a.count = f.meta.count /\ a.state = f.meta.state
  BY <1>1, <1>8 DEF Reply, Answer, Reading, StreamMeta, States
<1>12. AnswerTrue(a)
  <2>1. \A j \in 1..k : j \in 1..n
    BY <1>3, <1>8
  <2>2. \A j \in 1..k : f.at + j \in 1..Len(log) /\ t[j] = log[f.at + j]
    BY <1>5, <1>8, <2>1
  <2> HIDE DEF a
  <2> QED BY <1>8, <1>11, <2>2 DEF AnswerTrue, Reading
<1> HIDE DEF a
<1> QED BY <1>10, <1>11, <1>12, RepliedFits

-----------------------------------------------------------------------------
(* Every step keeps readers consistent *)

LEMMA InitReaders == Init => ReadersInv
<1> SUFFICES ASSUME Init PROVE ReadersInv
  OBVIOUS
<1>1. setup \in Setups
  BY DEF Init
<1>2. CellInv
  BY InitCell
<1> SUFFICES ASSUME NEW r \in Readers
             PROVE  Consistent(frame[r], reader[r], got[r]) /\ reader[r] \in ReaderType
  BY NoFrameFits DEF ReadersInv, Init
<1>3. frame[r] = NoFrame /\ got[r] = <<>> /\ version = 0
  BY DEF Init
<1>4. reader[r] \in ReaderType /\ reader[r].old = None
  <2>1. setup.start[r] \in Nat
    BY <1>1, SetupFields
  <2>2. reader[r] = [pc |-> IF r \notin setup.pulling THEN "idle"
                            ELSE IF r \in setup.backwards THEN "seek" ELSE "pull",
                     from |-> IF r \in setup.backwards THEN 0 ELSE setup.start[r],
                     attempt |-> 1, old |-> None]
    BY DEF Init
  <2> QED BY <2>1, <2>2 DEF ReaderType
<1>5. FrameTrue(NoFrame) /\ Remembers(NoFrame)
  BY <1>3, NoFrameFits DEF FrameTrue, Remembers
<1>6. <<>> \in Seq(Chunks)
  OBVIOUS
<1> QED BY <1>3, <1>4, <1>5, <1>6, NoFrameFits DEF Consistent

(* A step of one reader.                                                    *)
LEMMA OneReaderMoves ==
    ASSUME CellInv, ReadersInv, LogMoves, version' = version, cached # None => cached' = cached,
           NEW r \in Readers, NEW f, NEW x, NEW g,
           Consistent(f, x, g)' \/ Consistent(f, x, g),
           frame' = [frame EXCEPT ![r] = f], reader' = [reader EXCEPT ![r] = x],
           got' = [got EXCEPT ![r] = g]
    PROVE  ReadersInv'
<1>1. Consistent(f, x, g)'
  BY ConsistentStays
<1>2. f \in FrameType /\ x \in ReaderType /\ g \in Seq(Chunks)
  BY <1>1 DEF Consistent, FrameTrue
<1>3. /\ frame' \in [Readers -> FrameType] /\ reader' \in [Readers -> ReaderType]
      /\ got' \in [Readers -> Seq(Chunks)]
  BY <1>2 DEF ReadersInv
<1>4. ASSUME NEW q \in Readers
      PROVE  Consistent(frame[q], reader[q], got[q])'
  <2>1. CASE q = r
    <3>1. frame'[q] = f /\ reader'[q] = x /\ got'[q] = g
      BY <2>1 DEF ReadersInv
    <3> QED BY <1>1, <3>1 DEF Consistent, FrameTrue, Remembers
  <2>2. CASE q # r
    <3>1. PICK fq, xq, gq : fq = frame[q] /\ xq = reader[q] /\ gq = got[q]
      OBVIOUS
    <3>2. frame'[q] = fq /\ reader'[q] = xq /\ got'[q] = gq
      BY <2>2, <3>1 DEF ReadersInv
    <3>3. Consistent(fq, xq, gq)
      BY <3>1 DEF ReadersInv
    <3>4. Consistent(fq, xq, gq)'
      BY <3>3, ConsistentStays
    <3> QED BY <3>2, <3>4 DEF Consistent, FrameTrue, Remembers
  <2> QED BY <2>1, <2>2
<1> QED BY <1>3, <1>4 DEF ReadersInv

LEMMA CachedIsTrue ==
    ASSUME CellInv
    PROVE  /\ meta \in StreamMeta /\ Truth(meta.count, meta.state)
           /\ cached # None => cached \in StreamMeta /\ Truth(cached.count, cached.state)
BY DEF CellInv, CellType, Memory

(* What GetRows makes of the rows up to last.                               *)
GotUpTo(r, f, last) ==
    LET load == UpTo(f.plan, last)
        range == [k \in 1..(End(last) - f.at) |-> ChunkAt(load, f.at + k - 1)]
    IN
    IF \E e \in load : e.start \notin DOMAIN rows \/ Len(rows[e.start]) # e.count
    THEN frame' = [frame EXCEPT ![r] = Replied(f, ErrorReply)]
    ELSE \E k \in {k \in 0..Len(range) : IsAnswer(f, range, k)} :
            frame' = [frame EXCEPT ![r] = Decide(f, f.meta, SubSeq(range, 1, k))]

LEMMA GetRowsGets ==
    ASSUME NEW r, GetRows(r)
    PROVE  \E last \in frame[r].plan : GotUpTo(r, frame[r], last)
<1>1. \E last \in {e \in frame[r].plan : IsLastLoaded(e, frame[r].plan)} : GotUpTo(r, frame[r], last)
  BY Zenon DEF GetRows, GotUpTo
<1> QED BY <1>1

(* A turn of the cell for one read.                                         *)
LEMMA TurnFits ==
    ASSUME CellInv, ReadersInv, NEW r \in Readers, ServeRead(r) \/ LongPollEnds(r)
    PROVE  \E f : /\ frame' = [frame EXCEPT ![r] = f]
                  /\ FrameTrue(f) /\ Remembers(f) /\ frame[r].pc # "none"
<1>0. PICK f : f = frame[r]
  OBVIOUS
<1>1. /\ FrameTrue(f) /\ Remembers(f) /\ f \in FrameType /\ f.seen \in Nat /\ f.at \in Nat
      /\ f.seen <= version /\ version \in Nat /\ 0 <= version
  BY <1>0 DEF ReadersInv, Consistent, FrameTrue, FrameType, Remembers, CellInv, CellType
<1>2. CASE FindMeta(r)
  <2>1. PICK s : s = Snapshot(r, f, cached)
    OBVIOUS
  <2>2. frame' = [frame EXCEPT ![r] = s] /\ f.pc = "load" /\ cached # None
    BY <1>0, <1>2, <2>1 DEF FindMeta
  <2>3. /\ FrameTrue(s) /\ s.pc \in {"reply", "enter", "list"} /\ s.seen \in {0, f.seen}
        /\ s.pc = "enter" => cached.state = "open" /\ Available(cached, s.at) = 0
    BY <1>1, <2>1, <2>2, CachedIsTrue, SnapshotIs
  <2>4. Remembers(s)
    BY <1>1, <2>2, <2>3 DEF Remembers
  <2> QED BY <1>0, <2>2, <2>3, <2>4
<1>3. CASE EnterWait(r)
  <2>1. PICK s : s = [f EXCEPT !.pc = IF version # f.seen THEN "again" ELSE "wait"]
    OBVIOUS
  <2>2. frame' = [frame EXCEPT ![r] = s] /\ f.pc = "enter"
    BY <1>0, <1>3, <2>1 DEF EnterWait
  <2>3. /\ s \in FrameType /\ s.seen = f.seen /\ s.at = f.at
        /\ s.pc = (IF version # f.seen THEN "again" ELSE "wait")
    BY <1>1, <2>1 DEF FrameType
  <2>4. FrameTrue(s) /\ Remembers(s)
    BY <1>1, <2>2, <2>3 DEF FrameTrue, Remembers
  <2> QED BY <1>0, <2>2, <2>4
<1>4. CASE LongPollEnds(r)
  <2>1. PICK s : s = [f EXCEPT !.pc = "again"]
    OBVIOUS
  <2>2. frame' = [frame EXCEPT ![r] = s] /\ f.pc = "wait"
    BY <1>0, <1>4, <2>1 DEF LongPollEnds
  <2>3. s \in FrameType /\ s.seen = f.seen /\ s.at = f.at /\ s.pc = "again"
    BY <1>1, <2>1 DEF FrameType
  <2>4. FrameTrue(s) /\ Remembers(s)
    BY <1>1, <2>2, <2>3 DEF FrameTrue, Remembers
  <2> QED BY <1>0, <2>2, <2>4
<1>5. CASE LookAgain(r)
  <2>1. PICK e : e = [f EXCEPT !.last = TRUE]
    OBVIOUS
  <2>2. e \in FrameType /\ e.last /\ e.seen = f.seen
    BY <1>1, <2>1 DEF FrameType
  <2>3. PICK s : s = Snapshot(r, e, cached)
    OBVIOUS
  <2>4. frame' = [frame EXCEPT ![r] = s] /\ f.pc = "again"
    BY <1>0, <1>5, <2>1, <2>3 DEF LookAgain
  <2>5. cached # None
    BY <1>1, <2>4 DEF Remembers
  <2>6. FrameTrue(s) /\ s.pc \in {"reply", "list"} /\ s.seen \in {0, f.seen}
    BY <2>2, <2>3, <2>5, CachedIsTrue, SnapshotIs
  <2>7. Remembers(s)
    BY <1>1, <2>6 DEF Remembers
  <2> QED BY <1>0, <2>4, <2>6, <2>7
<1>6. CASE ListRows(r)
  <2>1. PICK starts : starts = {i \in DOMAIN rows : f.at <= i /\ i < ReadEnd(f)}
    OBVIOUS
  <2>2. PICK g : g = (IF f.at \in starts THEN Planned(f, PlanOf(starts))
                      ELSE [f EXCEPT !.pc = "find", !.plan = PlanOf(starts)])
    OBVIOUS
  <2>3. frame' = [frame EXCEPT ![r] = g] /\ f.pc = "list"
    BY <1>0, <1>6, <2>1, <2>2 DEF ListRows
  <2>4. Reading(f) /\ starts \subseteq {i \in DOMAIN rows : f.at <= i}
    BY <1>1, <2>1, <2>3 DEF FrameTrue, Reading
  <2>5. FrameTrue(g) /\ g.pc \in {"get", "reply", "find"} /\ g.seen \in {0, f.seen}
    BY <2>2, <2>4, ListedFits
  <2>6. Remembers(g)
    BY <1>1, <2>5 DEF Remembers
  <2> QED BY <1>0, <2>3, <2>5, <2>6
<1>7. CASE FindContaining(r)
  <2>1. PICK before : before = {i \in DOMAIN rows : i <= f.at}
    OBVIOUS
  <2>2. PICK g : g = (IF before = {} THEN Replied(f, ErrorReply)
                      ELSE Planned(f, PlanOf({Max(before)}) \cup f.plan))
    OBVIOUS
  <2>3. frame' = [frame EXCEPT ![r] = g] /\ f.pc = "find"
    BY <1>0, <1>7, <2>1, <2>2 DEF FindContaining
  <2>4. Reading(f) /\ PlanHolds(f.plan) /\ \A e \in f.plan : f.at < e.start
    BY <1>1, <2>3 DEF FrameTrue, Reading
  <2>5. FrameTrue(g) /\ g.pc \in {"get", "reply"} /\ g.seen \in {0, f.seen}
    BY <2>1, <2>2, <2>4, FoundFits
  <2>6. Remembers(g)
    BY <1>1, <2>5 DEF Remembers
  <2> QED BY <1>0, <2>3, <2>5, <2>6
<1>8. CASE GetRows(r)
  <2>1. f.pc = "get"
    BY <1>0, <1>8 DEF GetRows
  <2>2. Reading(f) /\ PlanHolds(f.plan) /\ Covers(f.plan, f.at, ReadEnd(f))
    BY <1>1, <2>1 DEF FrameTrue, Reading
  <2>3. PICK last \in f.plan : GotUpTo(r, f, last)
    BY <1>0, <1>8, GetRowsGets
  <2>4. PICK load : load = UpTo(f.plan, last)
    OBVIOUS
  <2>5. PICK range : ReadBack(range, load, f.at, End(last))
    BY DEF ReadBack
  <2>6. CASE \E e \in load : e.start \notin DOMAIN rows \/ Len(rows[e.start]) # e.count
    <3>1. PICK g : g = Replied(f, ErrorReply)
      OBVIOUS
    <3>2. frame' = [frame EXCEPT ![r] = g]
      BY <2>3, <2>4, <2>6, <3>1 DEF GotUpTo
    <3>3. ErrorReply \notin Answer
      BY DEF ErrorReply, Answer
    <3>4. FrameTrue(g) /\ g.pc = "reply" /\ g.seen = 0
      BY <3>1, <3>3, RepliedFits
    <3> QED BY <1>0, <1>1, <2>1, <3>2, <3>4 DEF Remembers
  <2>7. CASE \A e \in load : e.start \in DOMAIN rows /\ Len(rows[e.start]) = e.count
    <3>1. PICK k \in 0..Len(range) :
            IsAnswer(f, range, k) /\ frame' = [frame EXCEPT ![r] = Decide(f, f.meta, SubSeq(range, 1, k))]
      BY <2>3, <2>4, <2>5, <2>7 DEF ReadBack, GotUpTo
    <3>2. PICK g : g = Decide(f, f.meta, SubSeq(range, 1, k))
      OBVIOUS
    <3>3. FrameTrue(g) /\ g.pc = "reply" /\ g.seen = 0
      BY <2>2, <2>4, <2>5, <2>7, <3>1, <3>2, GotFits
    <3> QED BY <1>0, <1>1, <2>1, <3>1, <3>2, <3>3 DEF Remembers
  <2> QED BY <2>6, <2>7
<1> QED BY <1>2, <1>3, <1>4, <1>5, <1>6, <1>7, <1>8 DEF ServeRead

LEMMA ConsistentParts ==
    ASSUME ReadersInv, NEW r \in Readers
    PROVE  /\ Consistent(frame[r], reader[r], got[r]) /\ FrameTrue(frame[r]) /\ Remembers(frame[r])
           /\ frame[r] \in FrameType /\ reader[r] \in ReaderType /\ got[r] \in Seq(Chunks)
           /\ reader[r].old # None => reader[r].old \in Answer /\ AnswerTrue(reader[r].old)
           /\ frame[r].pc # "none" => reader[r].pc = "sent"
           /\ reader[r].pc = "seek" => got[r] = <<>>
           /\ NextIndex(r) \in Nat
<1>1. Consistent(frame[r], reader[r], got[r]) /\ reader[r] \in ReaderType /\ got[r] \in Seq(Chunks)
  BY DEF ReadersInv
<1>2. reader[r].from \in Nat /\ Len(got[r]) \in Nat
  BY <1>1 DEF ReaderType
<1>3. reader[r].old # None => reader[r].old \in Answer
  BY <1>1 DEF ReaderType
<1> QED BY <1>1, <1>2, <1>3 DEF Consistent, FrameTrue, NextIndex

LEMMA RetriedFits ==
    ASSUME NEW r \in Readers, reader[r] \in ReaderType, NEW x, x = Retried(r)
    PROVE  x \in ReaderType /\ x.pc \in {"pull", "failed"} /\ x.old = reader[r].old /\ x.from = reader[r].from
<1>1. CASE reader[r].attempt < ReadAttempts
  <2>1. x = [reader[r] EXCEPT !.pc = "pull", !.attempt = reader[r].attempt + 1]
    BY <1>1 DEF Retried
  <2>2. reader[r].attempt + 1 \in Nat
    BY DEF ReaderType
  <2> QED BY <2>1, <2>2 DEF ReaderType
<1>2. CASE ~(reader[r].attempt < ReadAttempts)
  <2>1. x = [reader[r] EXCEPT !.pc = "failed"]
    BY <1>2 DEF Retried
  <2> QED BY <2>1 DEF ReaderType
<1> QED BY <1>1, <1>2

LEMMA NoFrameTrue == CellInv => FrameTrue(NoFrame) /\ Remembers(NoFrame)
BY NoFrameFits DEF CellInv, CellType, FrameTrue, Remembers

LEMMA BeginKeepsReaders ==
    ASSUME CellInv, ReadersInv, LogMoves, NEW r \in Readers, BeginRead(r)
    PROVE  ReadersInv'
<1>0. UNCHANGED <<version, cached, got>> /\ reader[r].pc = "pull" /\ version \in Nat
  BY DEF BeginRead, cell, history, CellInv, CellType
<1>1. PICK at : at = NextIndex(r)
  OBVIOUS
<1>2. PICK f : f = [NoFrame EXCEPT !.at = at, !.seen = version]
  OBVIOUS
<1>3. at \in Nat
  BY <1>1, ConsistentParts
<1>4. f \in FrameType /\ f.pc = "none" /\ f.seen = version
  BY <1>0, <1>2, <1>3 DEF NoFrame, FrameType
<1>5. PICK s : s = (IF cached = None THEN [f EXCEPT !.pc = "load"] ELSE Snapshot(r, f, cached))
  OBVIOUS
<1>6. FrameTrue(s) /\ Remembers(s)
  <2>1. CASE cached = None
    <3>1. s = [f EXCEPT !.pc = "load"]
      BY <1>5, <2>1
    <3>2. s \in FrameType /\ s.pc = "load" /\ s.seen = version
      BY <1>4, <3>1 DEF FrameType
    <3> QED BY <1>0, <3>2 DEF FrameTrue, Remembers
  <2>2. CASE cached # None
    <3>1. s = Snapshot(r, f, cached)
      BY <1>5, <2>2
    <3>2. /\ FrameTrue(s) /\ s.pc \in {"reply", "enter", "list"} /\ s.seen \in {0, f.seen}
          /\ s.pc = "enter" => cached.state = "open" /\ Available(cached, s.at) = 0
      BY <1>4, <2>2, <3>1, CachedIsTrue, SnapshotIs
    <3> QED BY <1>0, <1>4, <2>2, <3>2 DEF Remembers
  <2> QED BY <2>1, <2>2
<1>7. PICK x : x = [reader[r] EXCEPT !.pc = "sent"]
  OBVIOUS
<1>8. PICK g : g = got[r]
  OBVIOUS
<1>9. Consistent(s, x, g)
  <2>1. x \in ReaderType /\ x.pc = "sent" /\ x.old = reader[r].old
    BY <1>7, ConsistentParts DEF ReaderType
  <2> QED BY <1>6, <1>8, <2>1, ConsistentParts DEF Consistent
<1>10. frame' = [frame EXCEPT ![r] = s]
  BY <1>1, <1>2, <1>5 DEF BeginRead
<1>11. reader' = [reader EXCEPT ![r] = x]
  BY <1>7 DEF BeginRead
<1>12. got' = [got EXCEPT ![r] = g]
  BY <1>0, <1>8 DEF ReadersInv
<1> QED BY <1>0, <1>9, <1>10, <1>11, <1>12, OneReaderMoves

(* What the client does with an answer.                                     *)
LEMMA ReceiveKeepsReaders ==
    ASSUME CellInv, ReadersInv, LogMoves, NEW r \in Readers, ReceiveAnswer(r)
    PROVE  ReadersInv'
<1>0. /\ UNCHANGED <<version, cached>> /\ frame[r].pc = "reply"
      /\ frame' = [frame EXCEPT ![r] = NoFrame]
  BY DEF ReceiveAnswer, cell
<1>1. PICK reply : reply = frame[r].reply
  OBVIOUS
<1>2. reply \in Answer \cup {ErrorReply} /\ (reply \in Answer => AnswerTrue(reply)) /\ reader[r].pc = "sent"
  BY <1>0, <1>1, ConsistentParts DEF FrameTrue
<1>3. PICK x, g : x = reader'[r] /\ g = got'[r]
  OBVIOUS
<1>4. reply.ok => reply \in Answer
  BY <1>2 DEF ErrorReply
<1>5. /\ x \in ReaderType /\ x.pc # "seek" /\ (x.old # None => AnswerTrue(x.old)) /\ g \in Seq(Chunks)
      /\ reader' = [reader EXCEPT ![r] = x] /\ got' = [got EXCEPT ![r] = g]
  <2> USE ConsistentParts
  <2>0. reader \in [Readers -> ReaderType] /\ got \in [Readers -> Seq(Chunks)]
    BY DEF ReadersInv
  <2>1. CASE ~reply.ok
    <3>1. reader' = [reader EXCEPT ![r].pc = "failed"] /\ got' = got
      BY <1>1, <2>1 DEF ReceiveAnswer
    <3>2. x = [reader[r] EXCEPT !.pc = "failed"] /\ g = got[r] /\ reader' = [reader EXCEPT ![r] = x]
      BY <1>3, <2>0, <3>1
    <3>3. x \in ReaderType /\ x.pc = "failed" /\ x.old = reader[r].old
      BY <3>2 DEF ReaderType
    <3> QED BY <2>0, <3>1, <3>2, <3>3
  <2>2. CASE reply.ok /\ ~Matches(r, reply)
    <3>1. reader' = [reader EXCEPT ![r] = Retried(r)] /\ got' = got
      BY <1>1, <2>2 DEF ReceiveAnswer
    <3>2. x = Retried(r) /\ g = got[r]
      BY <1>3, <2>0, <3>1
    <3>3. x \in ReaderType /\ x.pc \in {"pull", "failed"} /\ x.old = reader[r].old
      BY <3>2, RetriedFits
    <3> QED BY <2>0, <3>1, <3>2, <3>3
  <2>3. CASE reply.ok /\ Matches(r, reply) /\ reply.chunks # <<>>
    <3>1. /\ reader' = [reader EXCEPT ![r] = [reader[r] EXCEPT !.pc = "pull", !.attempt = 1, !.old = reply]]
          /\ got' = [got EXCEPT ![r] = got[r] \o reply.chunks]
      BY <1>1, <2>3 DEF ReceiveAnswer
    <3>2. x = [reader[r] EXCEPT !.pc = "pull", !.attempt = 1, !.old = reply] /\ g = got[r] \o reply.chunks
      BY <1>3, <2>0, <3>1
    <3>3. x \in ReaderType /\ x.pc = "pull" /\ x.old = reply
      BY <1>4, <2>3, <3>2 DEF ReaderType
    <3>4. g \in Seq(Chunks)
      <4>1. reply.chunks \in Seq(Chunks)
        BY <1>4, <2>3 DEF Answer
      <4> QED BY <3>2, <4>1, Joined
    <3> QED BY <1>2, <1>4, <2>3, <3>1, <3>2, <3>3, <3>4
  <2>4. CASE reply.ok /\ Matches(r, reply) /\ reply.chunks = <<>> /\ reply.state = "open"
    <3>1. /\ reader' = [reader EXCEPT ![r] = [reader[r] EXCEPT !.pc = "pull", !.attempt = 1, !.old = reply]]
          /\ got' = got
      BY <1>1, <2>4 DEF ReceiveAnswer
    <3>2. x = [reader[r] EXCEPT !.pc = "pull", !.attempt = 1, !.old = reply] /\ g = got[r]
      BY <1>3, <2>0, <3>1
    <3>3. x \in ReaderType /\ x.pc = "pull" /\ x.old = reply
      BY <1>4, <2>4, <3>2 DEF ReaderType
    <3> QED BY <1>2, <1>4, <2>0, <2>4, <3>1, <3>2, <3>3
  <2>5. CASE reply.ok /\ Matches(r, reply) /\ reply.chunks = <<>> /\ reply.state # "open"
    <3>1. reader' = [reader EXCEPT ![r] = [reader[r] EXCEPT !.pc = reply.state]] /\ got' = got
      BY <1>1, <2>5 DEF ReceiveAnswer
    <3>2. x = [reader[r] EXCEPT !.pc = reply.state] /\ g = got[r]
      BY <1>3, <2>0, <3>1
    <3>3. reply.state \in States
      BY <1>4, <2>5 DEF Answer
    <3>4. x \in ReaderType /\ x.pc = reply.state /\ x.old = reader[r].old
      BY <3>2, <3>3 DEF ReaderType
    <3>5. x.pc # "seek"
      BY <3>3, <3>4 DEF States
    <3> QED BY <2>0, <3>1, <3>2, <3>4, <3>5
  <2> QED BY <2>1, <2>2, <2>3, <2>4, <2>5
<1>6. PICK f : f = NoFrame
  OBVIOUS
<1>7. Consistent(f, x, g)
  BY <1>5, <1>6, NoFrameTrue, NoFrameFits DEF Consistent
<1> QED BY <1>0, <1>5, <1>6, <1>7, OneReaderMoves

LEMMA SeekKeepsReaders ==
    ASSUME CellInv, ReadersInv, LogMoves, NEW r \in Readers, SeekTail(r)
    PROVE  ReadersInv'
<1>0. UNCHANGED <<version, frame, got>> /\ reader[r].pc = "seek" /\ (cached # None => cached' = cached)
  BY DEF SeekTail, history
<1>1. PICK m : m = (IF cached = None THEN meta ELSE cached)
  OBVIOUS
<1>2. m \in StreamMeta /\ m.count \in Nat
  BY <1>1, CachedIsTrue DEF StreamMeta
<1>3. PICK x : x = (IF OwnerIs(m, setup.run[r]) /\ m.state \in {"open", "closed"}
                    THEN [reader[r] EXCEPT !.pc = "pull",
                            !.from = IF m.count > setup.start[r] THEN m.count - setup.start[r] ELSE 0]
                    ELSE [reader[r] EXCEPT !.pc = "failed"])
  OBVIOUS
<1>4. reader' = [reader EXCEPT ![r] = x]
  BY <1>1, <1>3 DEF SeekTail
<1>5. x \in ReaderType /\ x.pc \in {"pull", "failed"} /\ x.old = reader[r].old
  <2>1. reader[r] \in ReaderType
    BY ConsistentParts
  <2>2. PICK from : from = IF m.count > setup.start[r] THEN m.count - setup.start[r] ELSE 0
    OBVIOUS
  <2>3. from \in Nat
    BY <1>2, <2>2, SetupFields DEF CellInv, CellType
  <2>4. x = [reader[r] EXCEPT !.pc = "pull", !.from = from] \/ x = [reader[r] EXCEPT !.pc = "failed"]
    BY <1>3, <2>2
  <2> QED BY <2>1, <2>3, <2>4 DEF ReaderType
<1>6. PICK f, g : f = frame[r] /\ g = got[r]
  OBVIOUS
<1>7. f.pc = "none" /\ FrameTrue(f) /\ Remembers(f) /\ g \in Seq(Chunks)
  BY <1>0, <1>6, ConsistentParts
<1>8. Consistent(f, x, g)
  BY <1>5, <1>7, ConsistentParts DEF Consistent
<1>9. frame' = [frame EXCEPT ![r] = f] /\ got' = [got EXCEPT ![r] = g]
  BY <1>0, <1>6 DEF ReadersInv
<1> QED BY <1>0, <1>4, <1>8, <1>9, OneReaderMoves

LEMMA LoseKeepsReaders ==
    ASSUME CellInv, ReadersInv, LogMoves, NEW r \in Readers, LoseAnswer(r)
    PROVE  ReadersInv'
<1>1. PICK f, x, g : f = NoFrame /\ x = Retried(r) /\ g = got[r]
  OBVIOUS
<1>2. /\ UNCHANGED <<version, cached>> /\ frame' = [frame EXCEPT ![r] = f]
      /\ reader' = [reader EXCEPT ![r] = x] /\ got' = [got EXCEPT ![r] = g]
  BY <1>1 DEF LoseAnswer, cell, history, ReadersInv
<1>3. x \in ReaderType /\ x.pc \in {"pull", "failed"} /\ x.old = reader[r].old
  BY <1>1, ConsistentParts, RetriedFits
<1>4. Consistent(f, x, g)
  BY <1>1, <1>3, ConsistentParts, NoFrameFits, NoFrameTrue DEF Consistent
<1> QED BY <1>2, <1>4, OneReaderMoves

LEMMA GarbleKeepsReaders ==
    ASSUME CellInv, ReadersInv, LogMoves, NEW r \in Readers, GarbleAnswer(r)
    PROVE  ReadersInv'
<1>1. PICK f, x, g : f = frame[r] /\ x = reader[r] /\ g = got[r]
  OBVIOUS
<1>2. /\ f.pc = "reply" /\ f.reply \in Answer /\ AnswerTrue(f.reply) /\ f \in FrameType
      /\ Remembers(f) /\ x \in ReaderType /\ x.pc = "sent" /\ g \in Seq(Chunks)
      /\ x.old # None => x.old \in Answer /\ AnswerTrue(x.old)
  <2>1. f.pc = "reply" /\ f.reply.ok
    BY <1>1 DEF GarbleAnswer
  <2>2. f.reply # ErrorReply
    BY <2>1 DEF ErrorReply
  <2> QED BY <1>1, <2>1, <2>2, ConsistentParts DEF FrameTrue
<1> DEFINE partial == {[frame[r].reply EXCEPT !.chunks = SubSeq(@, 1, n)] :
                         n \in 0..(Len(frame[r].reply.chunks) - 1)}
<1>3. PICK garbled \in partial \cup ({reader[r].old} \ {None}) :
        frame' = [frame EXCEPT ![r].reply = garbled]
  BY DEF GarbleAnswer
<1>4. garbled \in Answer /\ AnswerTrue(garbled)
  <2>1. CASE garbled \in {reader[r].old} \ {None}
    BY <1>1, <1>2, <2>1
  <2>2. ASSUME NEW n \in 0..(Len(f.reply.chunks) - 1),
               garbled = [f.reply EXCEPT !.chunks = SubSeq(f.reply.chunks, 1, n)]
        PROVE  garbled \in Answer /\ AnswerTrue(garbled)
    <3>1. f.reply.chunks \in Seq(Chunks) /\ Len(f.reply.chunks) \in Nat
      <4>1. f.reply.chunks \in Seq(Chunks)
        BY <1>2 DEF Answer
      <4> QED BY <4>1, LenProperties
    <3>2. n \in Nat /\ n <= Len(f.reply.chunks) /\ n - 1 + 1 = n /\ \A k \in 1..n : 1 + k - 1 = k
      BY <3>1
    <3>3. PICK t : t = SubSeq(f.reply.chunks, 1, n)
      OBVIOUS
    <3>4. t \in Seq(Chunks) /\ Len(t) = n /\ \A k \in 1..n : t[k] = f.reply.chunks[k]
      BY <3>1, <3>2, <3>3, Slice
    <3>5. garbled = [f.reply EXCEPT !.chunks = t]
      BY <2>2, <3>3
    <3>6. /\ garbled \in Answer /\ garbled.chunks = t /\ garbled.at = f.reply.at
          /\ garbled.count = f.reply.count /\ garbled.state = f.reply.state
      BY <1>2, <3>4, <3>5 DEF Answer
    <3>7. \A k \in 1..n : k \in 1..Len(f.reply.chunks)
      BY <3>1, <3>2
    <3> QED BY <1>2, <3>4, <3>6, <3>7 DEF AnswerTrue
  <2> QED BY <1>1, <1>3, <2>1, <2>2
<1>5. PICK h : h = [f EXCEPT !.reply = garbled]
  OBVIOUS
<1>6. h \in FrameType /\ h.pc = "reply" /\ h.reply = garbled /\ h.seen = f.seen
  BY <1>2, <1>4, <1>5 DEF FrameType
<1>7. FrameTrue(h) /\ Remembers(h)
  BY <1>2, <1>4, <1>6 DEF FrameTrue, Remembers
<1>8. Consistent(h, x, g)
  BY <1>2, <1>6, <1>7 DEF Consistent
<1>9. /\ UNCHANGED <<version, cached>> /\ frame' = [frame EXCEPT ![r] = h]
      /\ reader' = [reader EXCEPT ![r] = x] /\ got' = [got EXCEPT ![r] = g]
  BY <1>1, <1>3, <1>5 DEF GarbleAnswer, cell, history, ReadersInv
<1> QED BY <1>8, <1>9, OneReaderMoves

LEMMA TurnKeepsReaders ==
    ASSUME CellInv, ReadersInv, LogMoves, NEW r \in Readers, ServeRead(r) \/ LongPollEnds(r)
    PROVE  ReadersInv'
<1>1. PICK f : frame' = [frame EXCEPT ![r] = f] /\ FrameTrue(f) /\ Remembers(f) /\ frame[r].pc # "none"
  BY TurnFits
<1>2. UNCHANGED <<version, cached, reader, got>>
  BY DEF ServeRead, FindMeta, EnterWait, LookAgain, ListRows, FindContaining, GetRows, LongPollEnds, cell, history
<1>3. PICK x, g : x = reader[r] /\ g = got[r]
  OBVIOUS
<1>4. Consistent(f, x, g)
  BY <1>1, <1>3, ConsistentParts DEF Consistent
<1>5. reader' = [reader EXCEPT ![r] = x] /\ got' = [got EXCEPT ![r] = g]
  BY <1>2, <1>3 DEF ReadersInv
<1> QED BY <1>1, <1>2, <1>4, <1>5, OneReaderMoves

LEMMA LoadKeepsReaders ==
    ASSUME CellInv, ReadersInv, LogMoves, LoadMeta
    PROVE  ReadersInv'
<1>0. /\ cached = None /\ cached' = meta /\ UNCHANGED <<version, reader, got>>
      /\ frame' = [r \in Readers |-> IF frame[r].pc = "load" THEN Snapshot(r, frame[r], meta)
                                     ELSE frame[r]]
  BY DEF LoadMeta, history
<1>1. meta \in StreamMeta /\ Truth(meta.count, meta.state) /\ cached' # None /\ version \in Nat
  BY <1>0, NoneAssumption, CachedIsTrue DEF CellInv, CellType
<1>2. ASSUME NEW r \in Readers
      PROVE  Consistent(frame[r], reader[r], got[r])' /\ frame'[r] \in FrameType
  <2>1. PICK f, x, g : f = frame[r] /\ x = reader[r] /\ g = got[r]
    OBVIOUS
  <2>2. Consistent(f, x, g) /\ f \in FrameType
    BY <2>1, ConsistentParts
  <2>3. Consistent(f, x, g)'
    BY <1>0, <2>2, ConsistentStays
  <2>4. reader'[r] = x /\ got'[r] = g
    BY <1>0, <2>1
  <2>5. CASE f.pc # "load"
    <3>1. frame'[r] = f
      BY <1>0, <2>1, <2>5
    <3> QED BY <2>2, <2>3, <2>4, <3>1 DEF Consistent, FrameTrue, Remembers
  <2>6. CASE f.pc = "load"
    <3>1. PICK s : s = Snapshot(r, f, meta)
      OBVIOUS
    <3>2. /\ FrameTrue(s) /\ s.pc \in {"reply", "enter", "list"} /\ s.seen \in {0, f.seen}
          /\ s.pc = "enter" => meta.state = "open" /\ Available(meta, s.at) = 0
      BY <1>1, <2>2, <3>1, SnapshotIs
    <3>3. FrameTrue(s)'
      BY <3>2, FrameStays
    <3>4. Remembers(s)'
      <4>1. f.seen <= version
        BY <2>2 DEF Consistent, Remembers
      <4> QED BY <1>0, <1>1, <3>2, <4>1 DEF Remembers
    <3>5. frame'[r] = s
      BY <1>0, <2>1, <2>6, <3>1
    <3>6. x.pc = "sent"
      BY <2>2, <2>6 DEF Consistent
    <3>7. s \in FrameType
      BY <3>2 DEF FrameTrue
    <3> QED BY <2>3, <2>4, <3>3, <3>4, <3>5, <3>6, <3>7 DEF Consistent, FrameTrue, Remembers
  <2> QED BY <2>5, <2>6
<1>3. reader' \in [Readers -> ReaderType] /\ got' \in [Readers -> Seq(Chunks)]
  BY <1>0 DEF ReadersInv
<1>4. frame' \in [Readers -> FrameType]
  BY <1>0, <1>2
<1> QED BY <1>2, <1>3, <1>4 DEF ReadersInv

LEMMA PublishKeepsReaders ==
    ASSUME CellInv, ReadersInv, LogMoves, Publish
    PROVE  ReadersInv'
<1>0. /\ cached' = landed.meta /\ landed # None /\ version' = version + 1 /\ UNCHANGED <<reader, got>>
      /\ frame' = [r \in Readers |-> Woken(frame[r])]
  BY DEF Publish, history
<1>1. cached' # None /\ version \in Nat
  <2>1. landed \in Landing
    BY <1>0 DEF CellInv, CellType
  <2>2. landed.meta \in StreamMeta
    BY <2>1 DEF Landing
  <2> QED BY <1>0, <2>2, NoneAssumption DEF CellInv, CellType
<1>2. ASSUME NEW r \in Readers
      PROVE  Consistent(frame[r], reader[r], got[r])' /\ frame'[r] \in FrameType
  <2>1. PICK f, x, g : f = frame[r] /\ x = reader[r] /\ g = got[r]
    OBVIOUS
  <2>2. /\ Consistent(f, x, g) /\ f \in FrameType /\ f.seen \in Nat /\ f.seen <= version /\ FrameTrue(f)
        /\ x.old # None => x.old \in Answer /\ AnswerTrue(x.old)
    BY <2>1, ConsistentParts DEF FrameType, Remembers
  <2>3. PICK s : s = Woken(f)
    OBVIOUS
  <2>4. /\ FrameTrue(s) /\ s.seen = f.seen /\ s.pc # "wait" /\ (s.pc = "none" <=> f.pc = "none")
    <3>1. CASE f.pc = "wait"
      <4>1. s = [f EXCEPT !.pc = "again"]
        BY <2>3, <3>1 DEF Woken
      <4>2. s \in FrameType /\ s.pc = "again" /\ s.seen = f.seen
        BY <2>2, <4>1 DEF FrameType
      <4> QED BY <3>1, <4>2 DEF FrameTrue
    <3>2. CASE f.pc # "wait"
      BY <2>2, <2>3, <3>2 DEF Woken
    <3> QED BY <3>1, <3>2
  <2>5. FrameTrue(s)'
    BY <2>4, FrameStays
  <2>6. Remembers(s)'
    <3>1. f.seen <= version + 1 /\ f.seen # version + 1
      BY <1>1, <2>2
    <3> QED BY <1>0, <1>1, <2>4, <3>1 DEF Remembers
  <2>7. x.old # None => AnswerTrue(x.old)'
    BY <2>2, AnswerStays
  <2>8. frame'[r] = s /\ reader'[r] = x /\ got'[r] = g
    BY <1>0, <2>1, <2>3
  <2>9. Consistent(s, x, g)'
    BY <2>2, <2>4, <2>5, <2>6, <2>7 DEF Consistent
  <2>10. s \in FrameType
    BY <2>4 DEF FrameTrue
  <2> QED BY <2>8, <2>9, <2>10 DEF Consistent, FrameTrue, Remembers
<1>3. reader' \in [Readers -> ReaderType] /\ got' \in [Readers -> Seq(Chunks)]
  BY <1>0 DEF ReadersInv
<1>4. frame' \in [Readers -> FrameType]
  BY <1>0, <1>2
<1> QED BY <1>2, <1>3, <1>4 DEF ReadersInv

LEMMA RestartKeepsReaders ==
    ASSUME CellInv, ReadersInv, LogMoves, Restart
    PROVE  ReadersInv'
<1>0. /\ cached' = None /\ version' = 0 /\ UNCHANGED got
      /\ frame' = [r \in Readers |-> NoFrame]
      /\ reader' = [r \in Readers |-> IF reader[r].pc = "sent" THEN Retried(r) ELSE reader[r]]
  BY DEF Restart, history
<1>1. ASSUME NEW r \in Readers
      PROVE  Consistent(frame[r], reader[r], got[r])' /\ frame'[r] \in FrameType
             /\ reader'[r] \in ReaderType
  <2>1. PICK f, x, g, y : f = NoFrame /\ x = reader[r] /\ g = got[r] /\ y = reader'[r]
    OBVIOUS
  <2>2. y \in ReaderType /\ y.old = x.old /\ (y.pc = "seek" => x.pc = "seek")
    <3>1. CASE x.pc = "sent"
      <4>1. y = Retried(r)
        BY <1>0, <2>1, <3>1
      <4>2. y \in ReaderType /\ y.pc \in {"pull", "failed"} /\ y.old = reader[r].old
        BY <4>1, ConsistentParts, RetriedFits
      <4> QED BY <2>1, <4>2
    <3>2. CASE x.pc # "sent"
      BY <1>0, <2>1, <3>2, ConsistentParts
    <3> QED BY <3>1, <3>2
  <2>3. f \in FrameType /\ f.pc = "none" /\ f.seen = 0
    BY <2>1, NoFrameFits
  <2>4. FrameTrue(f)' /\ Remembers(f)'
    BY <1>0, <2>3 DEF FrameTrue, Remembers
  <2>5. y.old # None => AnswerTrue(y.old)'
    BY <2>1, <2>2, ConsistentParts, AnswerStays
  <2>6. frame'[r] = f /\ reader'[r] = y /\ got'[r] = g
    BY <1>0, <2>1
  <2>7. Consistent(f, y, g)'
    BY <2>1, <2>2, <2>3, <2>4, <2>5, ConsistentParts DEF Consistent
  <2> QED BY <2>2, <2>3, <2>6, <2>7 DEF Consistent, FrameTrue, Remembers
<1>2. frame' \in [Readers -> FrameType] /\ reader' \in [Readers -> ReaderType]
  BY <1>0, <1>1
<1>3. got' \in [Readers -> Seq(Chunks)]
  BY <1>0 DEF ReadersInv
<1> QED BY <1>1, <1>2, <1>3 DEF ReadersInv

LEMMA OthersKeepReaders ==
    ASSUME CellInv, ReadersInv, LogMoves, UNCHANGED <<version, cached, frame, reader, got>>
    PROVE  ReadersInv'
<1>1. ASSUME NEW r \in Readers
      PROVE  Consistent(frame[r], reader[r], got[r])'
  <2>1. PICK f, x, g : f = frame[r] /\ x = reader[r] /\ g = got[r]
    OBVIOUS
  <2>2. Consistent(f, x, g)'
    BY <2>1, ConsistentParts, ConsistentStays
  <2>3. frame'[r] = f /\ reader'[r] = x /\ got'[r] = g
    BY <2>1
  <2> QED BY <2>2, <2>3 DEF Consistent, FrameTrue, Remembers
<1> QED BY <1>1 DEF ReadersInv

LEMMA NextKeepsReaders == CellInv /\ ReadersInv /\ [Next]_vars => ReadersInv'
<1> SUFFICES ASSUME CellInv, ReadersInv, [Next]_vars PROVE ReadersInv'
  OBVIOUS
<1>0. LogMoves
  BY NextMovesLog
<1> USE DEF cell, history
<1>1. CASE Mutate
  <2>1. CASE Publish
    BY <1>0, <2>1, PublishKeepsReaders
  <2>2. CASE ~Publish
    <3>1. UNCHANGED <<version, cached, frame, reader, got>>
      BY <1>1, <2>2 DEF Mutate, WriteChunks, FinishStream, ExpireStream, Lands, Throws
    <3> QED BY <1>0, <3>1, OthersKeepReaders
  <2> QED BY <2>1, <2>2
<1>2. ASSUME NEW r \in Readers, ServeRead(r) \/ Read(r) \/ LoseAnswer(r) \/ GarbleAnswer(r)
      PROVE  ReadersInv'
  BY <1>0, <1>2, TurnKeepsReaders, BeginKeepsReaders, SeekKeepsReaders, ReceiveKeepsReaders,
     LoseKeepsReaders, GarbleKeepsReaders DEF Read
<1>3. CASE SendExpire \/ UNCHANGED vars \/ \E w \in Writers : Send(w) \/ WriteTimesOut(w)
  <2>1. UNCHANGED <<version, cached, frame, reader, got>>
    BY <1>3 DEF SendExpire, vars, Send, WriteTimesOut
  <2> QED BY <1>0, <2>1, OthersKeepReaders
<1> QED BY <1>0, <1>1, <1>2, <1>3, LoadKeepsReaders, RestartKeepsReaders DEF Next

LEMMA ReadersInvariant == Spec => [](CellInv /\ WriterType /\ ReadersInv)
BY CellInvariant, InitReaders, NextKeepsReaders, PTL DEF Spec

(* Metadata, rows, the mutations of runMutation, the reads of readChunks    *)
(* and the clients' readers and writers stay well typed, for any setups of  *)
(* any writers, readers and limits.                                         *)
THEOREM StreamTypeCorrect == Spec => []TypeOK
<1>1. CellInv /\ WriterType /\ ReadersInv => TypeOK
  BY DEF CellInv, CellType, RowsAt, WriterType, ReadersInv, TypeOK
<1> QED BY <1>1, ReadersInvariant, PTL

(* No reader sleeps on data: whatever a waiting reader saw is what the cell *)
(* has stored, or a publication that will wake it is under way (readChunks  *)
(* reads changeVersion before the metadata, waitForChange compares it).     *)
THEOREM NoReaderSleepsOnData == Spec => []WaitersAreIdle
<1>1. CellInv /\ ReadersInv => WaitersAreIdle
  <2> SUFFICES ASSUME CellInv, ReadersInv, NEW r \in Readers, frame[r].pc = "wait", landed = None
               PROVE  meta.state = "open" /\ Available(meta, frame[r].at) = 0
    BY DEF WaitersAreIdle
  <2>1. cached # None /\ cached.state = "open" /\ Available(cached, frame[r].at) = 0
    BY ConsistentParts DEF Remembers
  <2>2. cached = meta
    BY <2>1 DEF CellInv, Memory
  <2> QED BY <2>1, <2>2
<1> QED BY <1>1, ReadersInvariant, PTL

-----------------------------------------------------------------------------
(* The stream implements StreamLog *)

ToldOf(x) == IF x.pc \in {"closed", "errored", "expired", "failed"} THEN x.pc ELSE "reading"

LEMMA InitIsLogInit == Init => Log!Init
<1> SUFFICES ASSUME Init PROVE Log!Init
  OBVIOUS
<1>1. meta.state = "open"
  BY DEF Init, EmptyMeta
<1>2. ASSUME NEW r \in Readers
      PROVE  reader[r].from \in Nat /\ ToldOf(reader[r]) = "reading"
  <2>1. ReadersInv
    BY InitReaders
  <2>2. reader[r] \in ReaderType
    BY <2>1, ConsistentParts
  <2>3. reader[r].pc \in {"idle", "seek", "pull"}
    BY DEF Init
  <2> QED BY <2>2, <2>3 DEF ReaderType, ToldOf
<1>3. outcome = "open" /\ got = [r \in Readers |-> <<>>]
  BY DEF Init
<1> QED BY <1>1, <1>2, <1>3 DEF Log!Init, ToldOf

(* Readers that only give up, or for whom nothing changes.                  *)
LEMMA OnlyGiveUp ==
    ASSUME UNCHANGED <<log, outcome, meta, got>>,
           \A r \in Readers :
               /\ reader'[r].from = reader[r].from
               /\ \/ ToldOf(reader'[r]) = ToldOf(reader[r])
                  \/ ToldOf(reader[r]) = "reading" /\ ToldOf(reader'[r]) = "failed"
    PROVE  Log!GiveUp
<1> DEFINE failed == {r \in Readers : ToldOf(reader[r]) = "reading" /\ ToldOf(reader'[r]) = "failed"}
<1>1. [r \in Readers |-> reader'[r].from] = [r \in Readers |-> reader[r].from]
  OBVIOUS
<1>2. \A r \in Readers : ToldOf(reader'[r]) = IF r \in failed THEN "failed" ELSE ToldOf(reader[r])
  OBVIOUS
<1>3. \A r \in failed : ToldOf(reader[r]) = "reading"
  OBVIOUS
<1>4. failed \in SUBSET Readers
  OBVIOUS
<1> HIDE DEF failed
<1> QED BY <1>1, <1>2, <1>3, <1>4 DEF Log!GiveUp, ToldOf

LEMMA WriteGrowsLog ==
    ASSUME CellInv, NEW op \in queue, WriteChunks(op)
    PROVE  Log!Grow
<1> DEFINE s == op.chunks
<1>1. /\ log' = log \o s /\ outcome' = outcome /\ reader' = reader /\ got' = got
      /\ meta.state = "open" /\ meta'.state = "open" /\ outcome = "open"
      /\ log \in Seq(Chunks) /\ s \in Seq(Chunks) /\ s # <<>>
  BY DEF WriteChunks, CanWrite, Lands, CellInv, CellType, Memory, Mutation, Requested, OpFits
<1> HIDE DEF s
<1>2. /\ log' \in Seq(Chunks) /\ Len(log') = Len(log) + Len(s)
      /\ \A i \in 1..Len(log) : log'[i] = log[i]
  BY <1>1, Joined
<1>3. Len(log) \in Nat /\ Len(s) \in Nat /\ Len(s) # 0 /\ Len(log') \in Nat
  BY <1>1, <1>2, LenProperties, EmptySeq
<1>4. SubSeq(log, 1, Len(log)) = SubSeq(log', 1, Len(log))
  <2> DEFINE u == SubSeq(log, 1, Len(log))
             v == SubSeq(log', 1, Len(log))
  <2>1. /\ Len(log) - 1 + 1 = Len(log) /\ Len(log) <= Len(log') /\ 1 <= Len(log) + 1
        /\ \A k \in 1..Len(log) : 1 + k - 1 = k
    BY <1>2, <1>3
  <2>2. u \in Seq(Chunks) /\ Len(u) = Len(log) /\ \A k \in 1..Len(log) : u[k] = log[k]
    BY <1>1, <1>3, <2>1, Slice
  <2>3. v \in Seq(Chunks) /\ Len(v) = Len(log) /\ \A k \in 1..Len(log) : v[k] = log'[k]
    BY <1>2, <1>3, <2>1, Slice
  <2> HIDE DEF u, v
  <2>4. u = v
    BY <1>2, <2>2, <2>3, SeqEqual
  <2> QED BY <2>4 DEF u, v
<1>5. Log!IsStrictPrefix(log, log')
  BY <1>2, <1>3, <1>4 DEF Log!IsStrictPrefix, Log!IsPrefix
<1> QED BY <1>1, <1>5 DEF Log!Grow

LEMMA FinishFinishesLog ==
    ASSUME CellInv, NEW op \in queue, FinishStream(op)
    PROVE  Log!Finish \/ UNCHANGED Log!vars
<1>1. /\ log' = log /\ reader' = reader /\ got' = got /\ meta.state # "expired"
      /\ op.kind \in {"close", "fail"} /\ meta \in StreamMeta
  BY DEF FinishStream, CanFinish, Lands, CellInv, CellType
<1>2. CASE meta.state # "open"
  <2>1. meta' = meta /\ outcome' = outcome
    BY <1>2 DEF FinishStream, Lands
  <2> QED BY <1>1, <2>1 DEF Log!vars
<1>3. CASE meta.state = "open"
  <2>1. outcome = "open"
    BY <1>3 DEF CellInv, Memory
  <2>2. PICK state : state = IF op.kind = "close" THEN "closed" ELSE "errored"
    OBVIOUS
  <2>3. outcome' = state /\ meta' = [meta EXCEPT !.owner = op.run, !.state = state]
    BY <1>3, <2>2 DEF FinishStream, Lands
  <2>4. state \in {"closed", "errored"} /\ meta'.state = state
    BY <1>1, <2>2, <2>3 DEF StreamMeta
  <2> QED BY <1>1, <2>1, <2>3, <2>4 DEF Log!Finish
<1> QED BY <1>2, <1>3

LEMMA ExpireExpiresLog ==
    ASSUME CellInv, NEW op \in queue, ExpireStream(op)
    PROVE  Log!Expire \/ UNCHANGED Log!vars
<1>1. /\ log' = log /\ outcome' = outcome /\ reader' = reader /\ got' = got
  BY DEF ExpireStream, Lands
<1>2. meta'.state = "expired"
  <2>1. meta \in StreamMeta
    BY DEF CellInv, CellType
  <2> QED BY <2>1 DEF ExpireStream, Lands, StreamMeta
<1>3. CASE meta.state = "expired"
  BY <1>1, <1>2, <1>3 DEF Log!vars
<1>4. CASE meta.state # "expired"
  BY <1>1, <1>2, <1>4 DEF Log!Expire
<1> QED BY <1>3, <1>4

LEMMA SeekSeeksLog ==
    ASSUME CellInv, ReadersInv, NEW r \in Readers, SeekTail(r)
    PROVE  Log!Seek(r) \/ Log!GiveUp
<1>1. PICK m : m = (IF cached = None THEN meta ELSE cached)
  OBVIOUS
<1>2. m.count \in Nat /\ m.count <= Len(log) /\ Len(log) \in Nat /\ setup.start[r] \in Nat
  BY <1>1, CachedIsTrue, SetupFields DEF StreamMeta, Truth, CellInv, CellType
<1>3. /\ UNCHANGED <<log, outcome, meta, got>> /\ reader[r].pc = "seek" /\ got[r] = <<>>
      /\ reader \in [Readers -> ReaderType] /\ reader[r] \in ReaderType
  BY ConsistentParts DEF SeekTail, history, ReadersInv
<1>4. CASE OwnerIs(m, setup.run[r]) /\ m.state \in {"open", "closed"}
  <2>1. PICK i : i = IF m.count > setup.start[r] THEN m.count - setup.start[r] ELSE 0
    OBVIOUS
  <2>2. i \in 0..Len(log)
    BY <1>2, <2>1
  <2>3. reader' = [reader EXCEPT ![r] = [reader[r] EXCEPT !.pc = "pull", !.from = i]]
    BY <1>1, <1>4, <2>1 DEF SeekTail
  <2>4. reader'[r].pc = "pull" /\ reader'[r].from = i
    BY <1>3, <2>3 DEF ReaderType
  <2>5. \A q \in Readers : q # r => reader'[q] = reader[q]
    BY <1>3, <2>3
  <2>6. [q \in Readers |-> reader'[q].from] = [[q \in Readers |-> reader[q].from] EXCEPT ![r] = i]
    BY <2>4, <2>5
  <2>7. \A q \in Readers : ToldOf(reader'[q]) = ToldOf(reader[q])
    BY <1>3, <2>4, <2>5 DEF ToldOf
  <2>8. ToldOf(reader[r]) = "reading"
    BY <1>3 DEF ToldOf
  <2> QED BY <1>3, <2>2, <2>6, <2>7, <2>8 DEF Log!Seek, ToldOf
<1>5. CASE ~(OwnerIs(m, setup.run[r]) /\ m.state \in {"open", "closed"})
  <2>1. reader' = [reader EXCEPT ![r] = [reader[r] EXCEPT !.pc = "failed"]]
    BY <1>1, <1>5 DEF SeekTail
  <2>2. reader'[r].pc = "failed" /\ reader'[r].from = reader[r].from
    BY <1>3, <2>1 DEF ReaderType
  <2>3. \A q \in Readers : q # r => reader'[q] = reader[q]
    BY <1>3, <2>1
  <2>4. \A q \in Readers :
           /\ reader'[q].from = reader[q].from
           /\ \/ ToldOf(reader'[q]) = ToldOf(reader[q])
              \/ ToldOf(reader[q]) = "reading" /\ ToldOf(reader'[q]) = "failed"
    BY <1>3, <2>2, <2>3 DEF ToldOf
  <2> QED BY <1>3, <2>4, OnlyGiveUp
<1> QED BY <1>4, <1>5

(* Answers, garbled ones included: chunks continue what the reader has, and *)
(* the end is told of to a reader who has everything before it.             *)
LEMMA AnswerReachesReader ==
    ASSUME CellInv, ReadersInv, NEW r \in Readers, ReceiveAnswer(r)
    PROVE  Log!Deliver(r) \/ Log!TellEnd(r) \/ Log!TellExpired(r) \/ Log!GiveUp
<1>1. PICK reply : reply = frame[r].reply
  OBVIOUS
<1>2. /\ UNCHANGED <<log, outcome, meta>> /\ frame[r].pc = "reply"
      /\ reader \in [Readers -> ReaderType] /\ got \in [Readers -> Seq(Chunks)]
  BY DEF ReceiveAnswer, cell, ReadersInv
<1>3. /\ reply \in Answer \cup {ErrorReply} /\ (reply \in Answer => AnswerTrue(reply))
      /\ reader[r].pc = "sent" /\ reader[r] \in ReaderType /\ got[r] \in Seq(Chunks)
  BY <1>1, <1>2, ConsistentParts DEF FrameTrue
<1>4. reply.ok => reply \in Answer /\ AnswerTrue(reply)
  BY <1>3 DEF ErrorReply
<1>5. ToldOf(reader[r]) = "reading"
  BY <1>3 DEF ToldOf
<1> DEFINE at == NextIndex(r)
           owed == SubSeq(log, at + 1, Len(log))
<1>6. at \in Nat /\ log \in Seq(Chunks) /\ Len(log) \in Nat
  BY ConsistentParts DEF CellInv, CellType
<1>7. Log!Owed(r) = owed
  BY DEF Log!Owed, NextIndex
(* What a change of this reader alone is in the abstract state.             *)
<1>8. ASSUME NEW x, reader' = [reader EXCEPT ![r] = x], x.from = reader[r].from
      PROVE  /\ [q \in Readers |-> reader'[q].from] = [q \in Readers |-> reader[q].from]
             /\ \A q \in Readers : ToldOf(reader'[q]) = IF q = r THEN ToldOf(x) ELSE ToldOf(reader[q])
             /\ \A q \in Readers : reader'[q].from = reader[q].from
  <2>1. \A q \in Readers : reader'[q] = IF q = r THEN x ELSE reader[q]
    BY <1>2, <1>8
  <2> QED BY <1>8, <2>1
<1>9. ASSUME NEW x, reader' = [reader EXCEPT ![r] = x], x.from = reader[r].from,
             got' = got, ToldOf(x) \in {"reading", "failed"}
      PROVE  Log!GiveUp
  BY <1>2, <1>5, <1>8, <1>9, OnlyGiveUp
<1>10. CASE ~reply.ok
  <2>1. PICK x : x = [reader[r] EXCEPT !.pc = "failed"]
    OBVIOUS
  <2>2. reader' = [reader EXCEPT ![r] = x] /\ got' = got
    BY <1>1, <1>10, <2>1 DEF ReceiveAnswer
  <2>3. x.pc = "failed" /\ x.from = reader[r].from
    BY <1>3, <2>1 DEF ReaderType
  <2> QED BY <1>9, <2>2, <2>3 DEF ToldOf
<1>11. CASE reply.ok /\ ~Matches(r, reply)
  <2>1. PICK x : x = Retried(r)
    OBVIOUS
  <2>2. reader' = [reader EXCEPT ![r] = x] /\ got' = got
    BY <1>1, <1>11, <2>1 DEF ReceiveAnswer
  <2>3. x.pc \in {"pull", "failed"} /\ x.from = reader[r].from
    BY <1>3, <2>1, RetriedFits
  <2> QED BY <1>9, <2>2, <2>3 DEF ToldOf
<1>12. CASE reply.ok /\ Matches(r, reply) /\ reply.chunks # <<>>
  <2>1. PICK x : x = [reader[r] EXCEPT !.pc = "pull", !.attempt = 1, !.old = reply]
    OBVIOUS
  <2>2. reader' = [reader EXCEPT ![r] = x] /\ got' = [got EXCEPT ![r] = got[r] \o reply.chunks]
    BY <1>1, <1>12, <2>1 DEF ReceiveAnswer
  <2>3. x.from = reader[r].from /\ ToldOf(x) = "reading"
    BY <1>3, <2>1 DEF ReaderType, ToldOf
  <2> DEFINE n == Len(reply.chunks)
  <2>4. /\ reply.chunks \in Seq(Chunks) /\ n \in Nat \ {0} /\ reply.at = at
        /\ \A k \in 1..n : at + k \in 1..Len(log) /\ reply.chunks[k] = log[at + k]
    <3>1. reply.chunks \in Seq(Chunks) /\ reply.at = at
      BY <1>4, <1>12 DEF Answer, Matches
    <3>2. n \in Nat /\ n # 0
      BY <1>12, <3>1, LenProperties, EmptySeq
    <3> QED BY <1>4, <1>12, <3>1, <3>2 DEF AnswerTrue
  <2> HIDE DEF n, at
  <2>5. at + n <= Len(log)
    <3>1. n \in 1..n
      BY <2>4
    <3>2. at + n \in 1..Len(log)
      BY <2>4, <3>1
    <3> QED BY <1>6, <3>2
  <2>6. owed \in Seq(Chunks) /\ Len(owed) = Len(log) - at /\ \A k \in 1..(Len(log) - at) : owed[k] = log[at + k]
    <3>1. PICK i, j : i = at + 1 /\ j = Len(log)
      OBVIOUS
    <3>2. /\ i \in Nat \ {0} /\ j \in Nat /\ i <= j + 1 /\ j - i + 1 = Len(log) - at
          /\ \A k \in 1..(Len(log) - at) : i + k - 1 = at + k
      BY <1>6, <2>4, <2>5, <3>1
    <3>3. owed = SubSeq(log, i, j)
      BY <3>1
    <3> HIDE DEF owed
    <3>4. /\ owed \in Seq(Chunks) /\ Len(owed) = j - i + 1
          /\ \A k \in 1..(j - i + 1) : owed[k] = log[i + k - 1]
      <4>1. j <= Len(log)
        BY <1>6, <3>1
      <4> QED BY <1>6, <3>2, <3>3, <4>1, Slice
    <3> QED BY <3>2, <3>4
  <2> HIDE DEF owed
  <2>7. n \in 1..Len(owed)
    BY <1>6, <2>4, <2>5, <2>6
  <2>8. reply.chunks = SubSeq(owed, 1, n)
    <3>1. n - 1 + 1 = n /\ n <= Len(owed) /\ 1 <= n + 1 /\ \A k \in 1..n : 1 + k - 1 = k /\ k \in 1..(Len(log) - at)
      BY <2>4, <2>6, <2>7, <1>6
    <3> DEFINE u == SubSeq(owed, 1, n)
    <3>2. u \in Seq(Chunks) /\ Len(u) = n /\ \A k \in 1..n : u[k] = owed[k]
      BY <2>4, <2>6, <3>1, Slice
    <3>3. \A k \in 1..n : u[k] = reply.chunks[k]
      BY <2>4, <2>6, <3>1, <3>2
    <3>4. Len(reply.chunks) = n
      BY DEF n
    <3> HIDE DEF u
    <3>5. u = reply.chunks
      BY <2>4, <3>2, <3>3, <3>4, SeqEqual
    <3> QED BY <3>5 DEF u
  <2>9. got' = [got EXCEPT ![r] = got[r] \o SubSeq(owed, 1, n)]
    BY <2>2, <2>8
  <2>10. /\ [q \in Readers |-> reader'[q].from] = [q \in Readers |-> reader[q].from]
         /\ \A q \in Readers : ToldOf(reader'[q]) = ToldOf(reader[q])
    BY <1>5, <1>8, <2>2, <2>3
  <2> QED BY <1>2, <1>5, <1>7, <2>7, <2>9, <2>10 DEF Log!Deliver, ToldOf
<1>13. CASE reply.ok /\ Matches(r, reply) /\ reply.chunks = <<>> /\ reply.state = "open"
  <2>1. PICK x : x = [reader[r] EXCEPT !.pc = "pull", !.attempt = 1, !.old = reply]
    OBVIOUS
  <2>2. reader' = [reader EXCEPT ![r] = x] /\ got' = got
    BY <1>1, <1>13, <2>1 DEF ReceiveAnswer
  <2>3. x.pc = "pull" /\ x.from = reader[r].from
    BY <1>3, <2>1 DEF ReaderType
  <2> QED BY <1>9, <2>2, <2>3 DEF ToldOf
<1>14. CASE reply.ok /\ Matches(r, reply) /\ reply.chunks = <<>> /\ reply.state # "open"
  <2>1. PICK x : x = [reader[r] EXCEPT !.pc = reply.state]
    OBVIOUS
  <2>2. reader' = [reader EXCEPT ![r] = x] /\ got' = got
    BY <1>1, <1>14, <2>1 DEF ReceiveAnswer
  <2>3. reply.state \in {"closed", "errored", "expired"} /\ reply.count \in Nat
    BY <1>4, <1>14 DEF Answer, States
  <2>4. x.pc = reply.state /\ x.from = reader[r].from
    BY <1>3, <2>1 DEF ReaderType
  <2>5. ToldOf(x) = reply.state
    BY <2>3, <2>4 DEF ToldOf
  <2>6. /\ [q \in Readers |-> reader'[q].from] = [q \in Readers |-> reader[q].from]
        /\ \A q \in Readers : ToldOf(reader'[q]) = IF q = r THEN reply.state ELSE ToldOf(reader[q])
    BY <1>8, <2>2, <2>4, <2>5
  <2>7. [q \in Readers |-> ToldOf(reader'[q])]
          = [[q \in Readers |-> ToldOf(reader[q])] EXCEPT ![r] = reply.state]
    BY <2>6
  <2>8. CASE reply.state = "expired"
    <3>1. meta.state = "expired"
      BY <1>4, <1>14, <2>8 DEF AnswerTrue, Truth
    <3> QED BY <1>2, <1>5, <2>2, <2>6, <2>7, <2>8, <3>1 DEF Log!TellExpired, ToldOf
  <2>9. CASE reply.state \in {"closed", "errored"}
    <3>1. outcome = reply.state /\ reply.count = Len(log)
      BY <1>4, <1>14, <2>9 DEF AnswerTrue, Truth
    <3>2. reply.at >= reply.count /\ reply.at = at
      BY <1>14, <2>9 DEF Matches
    <3> HIDE DEF at
    <3>3. owed = <<>>
      <4>1. at + 1 \in Int /\ Len(log) \in Int /\ at + 1 > Len(log)
        BY <1>6, <3>1, <3>2
      <4> QED BY <4>1, SubSeqEmpty
    <3> HIDE DEF owed
    <3> QED BY <1>2, <1>5, <1>7, <2>2, <2>6, <2>7, <2>9, <3>1, <3>3 DEF Log!TellEnd, ToldOf
  <2> QED BY <2>3, <2>8, <2>9
<1> QED BY <1>10, <1>11, <1>12, <1>13, <1>14

LEMMA NextIsLogNext == CellInv /\ ReadersInv /\ [Next]_vars => [Log!Next]_(Log!vars)
<1> SUFFICES ASSUME CellInv, ReadersInv, [Next]_vars PROVE Log!Next \/ UNCHANGED Log!vars
  OBVIOUS
<1> USE DEF cell, history
<1>1. ASSUME NEW op \in queue, WriteChunks(op) \/ FinishStream(op) \/ ExpireStream(op)
      PROVE  Log!Next \/ UNCHANGED Log!vars
  BY <1>1, WriteGrowsLog, FinishFinishesLog, ExpireExpiresLog DEF Log!Next
<1>2. ASSUME NEW r \in Readers, SeekTail(r) \/ ReceiveAnswer(r)
      PROVE  Log!Next
  BY <1>2, SeekSeeksLog, AnswerReachesReader DEF Log!Next
<1>3. ASSUME UNCHANGED <<log, outcome, meta, got>>,
             \A r \in Readers :
                 \/ reader'[r] = reader[r]
                 \/ /\ reader[r].pc \in {"pull", "sent"} /\ reader'[r].pc \in {"pull", "sent", "failed"}
                    /\ reader'[r].from = reader[r].from
      PROVE  Log!Next
  <2>1. \A r \in Readers :
           /\ reader'[r].from = reader[r].from
           /\ \/ ToldOf(reader'[r]) = ToldOf(reader[r])
              \/ ToldOf(reader[r]) = "reading" /\ ToldOf(reader'[r]) = "failed"
    BY <1>3 DEF ToldOf
  <2> QED BY <1>3, <2>1, OnlyGiveUp DEF Log!Next
<1>4. ASSUME NEW r \in Readers, BeginRead(r) \/ LoseAnswer(r)
      PROVE  Log!Next
  <2>1. reader \in [Readers -> ReaderType] /\ UNCHANGED <<log, outcome, meta, got>>
    BY <1>4 DEF ReadersInv, BeginRead, LoseAnswer
  <2>2. PICK x : x = reader'[r]
    OBVIOUS
  <2>3. /\ \A q \in Readers : q # r => reader'[q] = reader[q]
        /\ reader[r].pc \in {"pull", "sent"} /\ x.pc \in {"pull", "sent", "failed"} /\ x.from = reader[r].from
    <3>1. CASE BeginRead(r)
      <4>1. reader' = [reader EXCEPT ![r] = [reader[r] EXCEPT !.pc = "sent"]] /\ reader[r].pc = "pull"
        BY <3>1 DEF BeginRead
      <4>2. x = [reader[r] EXCEPT !.pc = "sent"] /\ \A q \in Readers : q # r => reader'[q] = reader[q]
        BY <2>1, <2>2, <4>1
      <4> QED BY <2>1, <4>1, <4>2 DEF ReaderType
    <3>2. CASE LoseAnswer(r)
      <4>1. reader' = [reader EXCEPT ![r] = Retried(r)] /\ reader[r].pc = "sent"
        BY <3>2 DEF LoseAnswer
      <4>2. x = Retried(r) /\ \A q \in Readers : q # r => reader'[q] = reader[q]
        BY <2>1, <2>2, <4>1
      <4> QED BY <2>1, <4>1, <4>2, RetriedFits
    <3> QED BY <1>4, <3>1, <3>2
  <2> QED BY <1>3, <2>1, <2>2, <2>3
<1>5. CASE Restart
  <2>1. /\ reader' = [r \in Readers |-> IF reader[r].pc = "sent" THEN Retried(r) ELSE reader[r]]
        /\ UNCHANGED <<log, outcome, meta, got>>
    BY <1>5 DEF Restart
  <2>2. ASSUME NEW r \in Readers
        PROVE  \/ reader'[r] = reader[r]
               \/ /\ reader[r].pc \in {"pull", "sent"} /\ reader'[r].pc \in {"pull", "sent", "failed"}
                  /\ reader'[r].from = reader[r].from
    <3>1. PICK x : x = Retried(r)
      OBVIOUS
    <3>2. x.pc \in {"pull", "failed"} /\ x.from = reader[r].from
      BY <3>1, ConsistentParts, RetriedFits
    <3> QED BY <2>1, <3>1, <3>2
  <2> QED BY <1>3, <2>1, <2>2
<1>6. CASE UNCHANGED <<log, outcome, meta, got, reader>>
  BY <1>6 DEF Log!vars
<1>7. CASE \/ Publish \/ LoadMeta \/ SendExpire \/ UNCHANGED vars
           \/ \E op \in queue : Throws(op)
           \/ \E w \in Writers : Send(w) \/ WriteTimesOut(w)
  <2>1. UNCHANGED <<log, outcome, meta, got, reader>>
    BY <1>7 DEF Publish, LoadMeta, SendExpire, vars, Throws, Send, WriteTimesOut
  <2> QED BY <1>6, <2>1
<1>8. ASSUME NEW r \in Readers, ServeRead(r) \/ LongPollEnds(r) \/ GarbleAnswer(r)
      PROVE  Log!Next \/ UNCHANGED Log!vars
  <2>1. UNCHANGED <<log, outcome, meta, got, reader>>
    BY <1>8 DEF ServeRead, FindMeta, EnterWait, LookAgain, ListRows, FindContaining, GetRows, LongPollEnds,
       GarbleAnswer
  <2> QED BY <1>6, <2>1
<1> QED BY <1>1, <1>2, <1>4, <1>5, <1>7, <1>8 DEF Next, Mutate, Read

(* Whatever is lost, garbled, restarted or expired in between, readers get  *)
(* consecutive chunks of the log from where they asked, and are told of its *)
(* end only after all of them (StreamDO.readChunks with readStreamChunks,   *)
(* readFromStream).                                                         *)
THEOREM CellImplementsLog == Spec => ImplementsLog
BY InitIsLogInit, NextIsLogNext, ReadersInvariant, PTL DEF Spec, ImplementsLog, Log!Spec

-----------------------------------------------------------------------------
(* Writers *)

Count(w) == Cardinality(Places(w))

Ordered(w) ==
    \A i \in Places(w) :
        LET n == Cardinality({j \in Places(w) : j <= i}) IN
        n <= Len(setup.text[w]) /\ log[i] = setup.text[w][n]

(* These chunks are the ones after those the writer was told of.            *)
NextOf(w, chunks) ==
    /\ writer[w].done + Len(chunks) <= Len(setup.text[w])
    /\ \A k \in 1..Len(chunks) : chunks[k] = setup.text[w][writer[w].done + k]

(* What a writer was told is what it has in the log, but for a request that *)
(* was committed and not answered.                                          *)
WriterInv(w) ==
    /\ writer[w].done <= Count(w)
    /\ writer[w].pc = "ready" => writer[w].done = Count(w)
    /\ \A op \in queue : op.who = w =>
          /\ writer[w].pc # "ready" /\ writer[w].done = Count(w)
          /\ op.kind = "write" => NextOf(w, op.chunks)
    /\ landed # None /\ landed.op.who = w =>
          writer[w].pc # "ready" /\ writer[w].done + Len(landed.op.chunks) = Count(w)
    /\ Ordered(w)
    /\ Places(w) # {} => setup.run[w] = meta.owner

(* A writer waits for one answer at a time.                                 *)
OneRequest ==
    /\ \A op, other \in queue : op.who = other.who /\ op.who \in Writers => op = other
    /\ landed # None /\ landed.op.who \in Writers => \A op \in queue : op.who # landed.op.who

WritesInv == OneRequest /\ \A w \in Writers : WriterInv(w)

LEMMA PlacesAreFinite ==
    ASSUME CellInv, NEW w \in Writers
    PROVE  Places(w) \subseteq 1..Len(log) /\ IsFiniteSet(Places(w)) /\ Count(w) \in Nat
<1>1. Len(log) \in Nat /\ DOMAIN log = 1..Len(log)
  BY LenProperties DEF CellInv, CellType
<1>2. Places(w) \subseteq 1..Len(log)
  BY <1>1 DEF Places
<1>3. IsFiniteSet(1..Len(log))
  BY <1>1, FS_Interval
<1> QED BY <1>2, <1>3, FS_Subset, FS_CardinalityType DEF Count

LEMMA AppendedCount ==
    ASSUME NEW b \in Nat, NEW P, P \subseteq 1..b, IsFiniteSet(P), NEW k \in Nat
    PROVE  Cardinality(P \cup ((b + 1)..(b + k))) = Cardinality(P) + k
<1> DEFINE Q == (b + 1)..(b + k)
<1>1. IsFiniteSet(Q) /\ Cardinality(Q) = k
  <2>1. b + 1 \in Int /\ b + k \in Int /\ (b + k) - (b + 1) + 1 = k
    OBVIOUS
  <2>2. CASE k = 0
    <3>1. Q = {}
      BY <2>2
    <3> QED BY <2>2, <3>1, FS_EmptySet
  <2>3. CASE k # 0
    <3>1. ~(b + 1 > b + k)
      BY <2>3
    <3> QED BY <2>1, <3>1, FS_Interval
  <2> QED BY <2>2, <2>3
<1>2. P \cap Q = {}
  OBVIOUS
<1> HIDE DEF Q
<1>3. Cardinality(P \cap Q) = 0
  BY <1>2, FS_EmptySet
<1>4. Cardinality(P \cup Q) = Cardinality(P) + Cardinality(Q) - Cardinality(P \cap Q)
  BY <1>1, FS_Union
<1>5. Cardinality(P) \in Nat
  BY FS_CardinalityType
<1> QED BY <1>1, <1>3, <1>4, <1>5 DEF Q

LEMMA InitWrites == Init => WritesInv
<1> SUFFICES ASSUME Init PROVE WritesInv
  OBVIOUS
<1>1. setup \in Setups /\ log = setup.legacy /\ queue = {} /\ landed = None
      /\ writer = [w \in Writers |-> AtCall(w, 1, 0)]
  BY DEF Init
<1>2. OneRequest
  BY <1>1 DEF OneRequest
<1>3. ASSUME NEW w \in Writers
      PROVE  WriterInv(w)
  <2>1. Places(w) = {}
    <3>1. \A i \in DOMAIN log : log[i].by = None
      BY <1>1, StreamAssumption
    <3>2. w # None
      BY Constants
    <3> QED BY <3>1, <3>2 DEF Places
  <2>2. writer[w].done = 0
    BY <1>1 DEF AtCall
  <2>3. Count(w) = 0
    BY <2>1, FS_EmptySet DEF Count
  <2> QED BY <1>1, <2>1, <2>2, <2>3 DEF WriterInv, Ordered
<1> QED BY <1>2, <1>3 DEF WritesInv

(* A writer for whom nothing happens, or whose request fails.               *)
LEMMA QuietWriter ==
    ASSUME NEW w \in Writers, WriterInv(w), UNCHANGED <<log, setup>>,
           Places(w) # {} => meta'.owner = meta.owner,
           \A op \in queue' : op.who = w => op \in queue,
           \/ landed' = landed
           \/ landed' = None
           \/ landed'.op.who # w,
           writer'[w].done = writer[w].done,
           writer'[w].pc = writer[w].pc \/ writer'[w].pc # "ready"
    PROVE  WriterInv(w)'
<1>1. Places(w)' = Places(w) /\ Count(w)' = Count(w) /\ Ordered(w)' = Ordered(w)
  BY DEF Places, Count, Ordered
<1>2. \A op \in queue : NextOf(w, op.chunks) => NextOf(w, op.chunks)'
  BY DEF NextOf
<1> QED BY <1>1, <1>2 DEF WriterInv

(* A request without chunks commits: its client was not told.               *)
LEMMA FinishingWriter ==
    ASSUME CellInv, WritesInv, NEW op \in queue, op.chunks = <<>>, queue' = queue \ {op},
           landed' # None, landed'.op = op, UNCHANGED <<log, setup, writer>>,
           OwnerIs(meta, op.run), meta'.owner \in {meta.owner, op.run}
    PROVE  WritesInv'
<1>1. OneRequest'
  BY DEF WritesInv, OneRequest
<1>2. ASSUME NEW w \in Writers
      PROVE  WriterInv(w)'
  <2>1. WriterInv(w) /\ Count(w) \in Nat
    BY PlacesAreFinite DEF WritesInv
  <2>2. Places(w) # {} => meta'.owner = meta.owner
    <3>1. setup.run[w] # None
      BY Constants, SetupFields DEF CellInv, CellType
    <3> QED BY <2>1, <3>1 DEF WriterInv, OwnerIs
  <2>3. CASE op.who # w
    BY <2>1, <2>2, <2>3, QuietWriter
  <2>4. CASE op.who = w
    <3>1. Places(w)' = Places(w) /\ Count(w)' = Count(w) /\ Ordered(w)' = Ordered(w)
      BY DEF Places, Count, Ordered
    <3>2. writer[w].pc # "ready" /\ writer[w].done = Count(w)
      BY <2>1, <2>4 DEF WriterInv
    <3>3. writer[w].done + Len(<<>>) = Count(w)
      <4>1. Len(<<>>) = 0
        OBVIOUS
      <4> QED BY <2>1, <3>2, <4>1
    <3>4. \A other \in queue' : other.who # w
      BY <2>4 DEF WritesInv, OneRequest
    <3> QED BY <2>1, <2>2, <3>1, <3>2, <3>3, <3>4 DEF WriterInv
  <2> QED BY <2>3, <2>4
<1> QED BY <1>1, <1>2 DEF WritesInv

(* The chunks of a write come after those its writer has in the log.        *)
LEMMA WriteKeepsWrites ==
    ASSUME CellInv, WriterType, WritesInv, NEW op \in queue, WriteChunks(op)
    PROVE  WritesInv'
<1> DEFINE s == op.chunks
<1>1. /\ log' = log \o s /\ queue' = queue \ {op} /\ UNCHANGED <<setup, writer>>
      /\ landed'.op = op /\ meta'.owner = op.run /\ OwnerIs(meta, op.run)
      /\ op.kind = "write" /\ op.who \in Writers /\ op.run = setup.run[op.who]
      /\ log \in Seq(Chunks) /\ s \in Seq(Chunks) /\ setup \in Setups
  <2>1. op \in Mutation /\ OpFits(op)
    BY DEF CellInv, CellType, Requested
  <2> QED BY <2>1 DEF WriteChunks, CanWrite, Lands, CellInv, CellType, Mutation, OpFits
<1>2. landed' # None
  <2>1. CellInv'
    BY WriteKeepsCell
  <2>2. landed' = [op |-> op, meta |-> meta']
    BY DEF WriteChunks, Lands
  <2>3. landed' \in Landing
    BY <2>1, <2>2 DEF CellInv, CellType, Landing
  <2> QED BY <2>3, NoneAssumption
<1>3. OneRequest'
  BY <1>1, <1>2 DEF WritesInv, OneRequest
<1> HIDE DEF s
<1>4. /\ Len(log) \in Nat /\ Len(s) \in Nat /\ log' \in Seq(Chunks) /\ Len(log') = Len(log) + Len(s)
      /\ DOMAIN log = 1..Len(log) /\ DOMAIN log' = 1..(Len(log) + Len(s))
      /\ \A i \in 1..Len(log) : log'[i] = log[i]
      /\ \A i \in 1..Len(s) : log'[Len(log) + i] = s[i]
  BY <1>1, Joined, LenProperties
<1> DEFINE v == op.who
           d == writer[v].done
           text == setup.text[v]
           added == (Len(log) + 1)..(Len(log) + Len(s))
<1>5. /\ WriterInv(v) /\ writer[v].pc # "ready" /\ d = Count(v) /\ d \in Nat
      /\ d + Len(s) <= Len(text) /\ \A k \in 1..Len(s) : s[k] = text[d + k]
  <2>1. WriterInv(v) /\ d \in Nat
    BY <1>1 DEF WritesInv, WriterType
  <2> QED BY <1>1, <2>1 DEF WriterInv, NextOf, s
<1>6. \A k \in 1..Len(s) : s[k].by = v
  <2>1. text \in Seq(Chunks) /\ \A i \in DOMAIN text : text[i].by = v
    BY <1>1, StreamAssumption, SetupFields
  <2>2. Len(text) \in Nat /\ DOMAIN text = 1..Len(text)
    BY <2>1, LenProperties
  <2> HIDE DEF text, d
  <2>3. \A k \in 1..Len(s) : d + k \in 1..Len(text)
    BY <1>4, <1>5, <2>2
  <2> QED BY <1>5, <2>1, <2>2, <2>3
<1>7. \A i \in added : i - Len(log) \in 1..Len(s) /\ log'[i] = s[i - Len(log)] /\ i \notin 1..Len(log)
  <2>1. \A i \in added : i - Len(log) \in 1..Len(s) /\ Len(log) + (i - Len(log)) = i /\ i \notin 1..Len(log)
    BY <1>4
  <2> QED BY <1>4, <2>1
<1>8. DOMAIN log' = 1..Len(log) \cup added
  BY <1>4
<1> HIDE DEF added, v, d, text
<1>9. \A w : Places(w)' = IF w = v THEN Places(w) \cup added ELSE Places(w)
  <2>1. \A i \in added : log'[i].by = v
    BY <1>6, <1>7
  <2>2. \A i \in 1..Len(log) : log'[i].by = log[i].by
    BY <1>4
  <2> SUFFICES ASSUME NEW w
               PROVE  Places(w)' = IF w = v THEN Places(w) \cup added ELSE Places(w)
    OBVIOUS
  <2>3. Places(w)' = {i \in 1..Len(log) \cup added : log'[i].by = w}
    BY <1>8 DEF Places
  <2>4. Places(w) = {i \in 1..Len(log) : log[i].by = w}
    BY <1>4 DEF Places
  <2> QED BY <2>1, <2>2, <2>3, <2>4
<1>10. ASSUME NEW w \in Writers
       PROVE  WriterInv(w)'
  <2>1. WriterInv(w) /\ Count(w) \in Nat /\ Places(w) \subseteq 1..Len(log) /\ IsFiniteSet(Places(w))
    BY PlacesAreFinite DEF WritesInv
  <2>2. Places(w) # {} => meta'.owner = meta.owner
    <3>1. setup.run[w] # None
      BY Constants, SetupFields DEF CellInv, CellType
    <3> QED BY <1>1, <2>1, <3>1 DEF WriterInv, OwnerIs
  <2>3. CASE w # v
    <3>1. Places(w)' = Places(w) /\ Count(w)' = Count(w)
      BY <1>9, <2>3 DEF Count
    <3>2. Ordered(w)'
      <4>1. \A i \in Places(w) : log'[i] = log[i]
        BY <1>4, <2>1
      <4> QED BY <1>1, <2>1, <3>1, <4>1 DEF WriterInv, Ordered
    <3>3. \A other \in queue : NextOf(w, other.chunks) => NextOf(w, other.chunks)'
      BY <1>1 DEF NextOf
    <3> QED BY <1>1, <2>1, <2>2, <2>3, <3>1, <3>2, <3>3 DEF WriterInv, v
  <2>4. CASE w = v
    <3>1. Places(w)' = Places(w) \cup added
      BY <1>9, <2>4
    <3>g. \A k \in Nat : Cardinality(Places(w) \cup ((Len(log) + 1)..(Len(log) + k))) = Count(w) + k
      <4>1. PICK b, P : b = Len(log) /\ P = Places(w)
        OBVIOUS
      <4>2. b \in Nat /\ P \subseteq 1..b /\ IsFiniteSet(P) /\ Count(w) = Cardinality(P)
        BY <1>4, <2>1, <4>1 DEF Count
      <4>3. \A k \in Nat : Cardinality(P \cup ((b + 1)..(b + k))) = Cardinality(P) + k
        BY <4>2, AppendedCount
      <4> QED BY <4>1, <4>2, <4>3
    <3>2. Count(w)' = Count(w) + Len(s)
      <4>1. Count(w)' = Cardinality(Places(w) \cup added)
        BY <3>1 DEF Count
      <4> QED BY <1>4, <3>g, <4>1 DEF added
    <3>3. ASSUME NEW i \in Places(w)'
          PROVE  LET n == Cardinality({j \in Places(w)' : j <= i}) IN
                 n <= Len(setup'.text[w]) /\ log'[i] = setup'.text[w][n]
      <4>1. CASE i \in Places(w)
        <5>1. i \in 1..Len(log)
          BY <2>1, <4>1
        <5>2. \A j \in added : ~(j <= i)
          BY <1>4, <5>1 DEF added
        <5>3. {j \in Places(w)' : j <= i} = {j \in Places(w) : j <= i}
          BY <3>1, <5>2
        <5> QED BY <1>1, <1>4, <2>1, <4>1, <5>1, <5>3 DEF WriterInv, Ordered
      <4>2. CASE i \in added
        <5>1. PICK k : k = i - Len(log)
          OBVIOUS
        <5>2. k \in 1..Len(s) /\ log'[i] = s[k] /\ i = Len(log) + k /\ k \in Nat
          BY <1>4, <1>7, <4>2, <5>1 DEF added
        <5>3. {j \in Places(w)' : j <= i} = Places(w) \cup ((Len(log) + 1)..(Len(log) + k))
          <6>1. \A j \in Places(w) : j <= i
            BY <1>4, <2>1, <5>2
          <6>2. {j \in added : j <= i} = (Len(log) + 1)..(Len(log) + k)
            BY <1>4, <5>2 DEF added
          <6> QED BY <3>1, <6>1, <6>2
        <5>4. Cardinality({j \in Places(w)' : j <= i}) = Count(w) + k
          BY <3>g, <5>2, <5>3
        <5>5. d = Count(w) /\ text = setup'.text[w] /\ d + k <= Len(text) /\ s[k] = text[d + k]
          <6>1. Len(text) \in Nat
            BY <1>1, SetupFields, LenProperties DEF text, v
          <6> QED BY <1>1, <1>4, <1>5, <2>4, <5>2, <6>1 DEF text, d
        <5> QED BY <5>2, <5>4, <5>5
      <4> QED BY <3>1, <4>1, <4>2
    <3>4. Ordered(w)'
      BY <3>3 DEF Ordered
    <3>5. \A other \in queue' : other.who # w
      BY <1>1, <2>4 DEF WritesInv, OneRequest, v
    <3>6. writer[w].done = Count(w) /\ writer[w].pc # "ready"
      BY <1>5, <2>4 DEF d, v
    <3>7. setup'.run[w] = meta'.owner
      BY <1>1, <2>4 DEF v
    <3>8. writer'[w].done <= Count(w)' /\ writer'[w].done + Len(landed'.op.chunks) = Count(w)'
      BY <1>1, <1>4, <2>1, <3>2, <3>6 DEF s
    <3> QED BY <1>1, <1>2, <3>4, <3>5, <3>6, <3>7, <3>8 DEF WriterInv
  <2> QED BY <2>3, <2>4
<1> QED BY <1>3, <1>10 DEF WritesInv

(* Steps that only fail requests, or do not touch them.                     *)
LEMMA QuietWriters ==
    ASSUME WritesInv, UNCHANGED <<log, setup, meta>>, queue' \subseteq queue,
           landed' = landed \/ landed' = None,
           \A w \in Writers : /\ writer'[w].done = writer[w].done
                              /\ writer'[w].pc = writer[w].pc \/ writer'[w].pc # "ready"
    PROVE  WritesInv'
<1>1. OneRequest'
  BY DEF WritesInv, OneRequest
<1>2. ASSUME NEW w \in Writers
      PROVE  WriterInv(w)'
  <2>1. WriterInv(w)
    BY DEF WritesInv
  <2>2. \A op \in queue' : op.who = w => op \in queue
    OBVIOUS
  <2> QED BY <2>1, <2>2, QuietWriter
<1> QED BY <1>1, <1>2 DEF WritesInv

(* Closing, failing and expiring have no chunks.                            *)
LEMMA FinishKeepsWrites ==
    ASSUME CellInv, WritesInv, NEW op \in queue, FinishStream(op) \/ ExpireStream(op)
    PROVE  WritesInv'
<1>1. /\ op \in Mutation /\ OpFits(op) /\ op.kind # "write"
      /\ queue' = queue \ {op} /\ landed'.op = op /\ landed' = [op |-> op, meta |-> meta']
      /\ UNCHANGED <<log, setup, writer>> /\ OwnerIs(meta, op.run)
  <2>1. op \in Mutation /\ OpFits(op)
    BY DEF CellInv, CellType, Requested
  <2>2. PICK m : Lands(op, m)
    BY DEF FinishStream, ExpireStream
  <2>3. op.kind # "write" /\ UNCHANGED log /\ OwnerIs(meta, op.run)
    BY DEF FinishStream, ExpireStream, CanFinish
  <2> QED BY <2>1, <2>2, <2>3 DEF Lands
<1>2. meta'.owner \in {meta.owner, op.run}
  <2>1. meta \in StreamMeta
    BY DEF CellInv, CellType
  <2>2. CASE FinishStream(op)
    BY <2>1, <2>2 DEF FinishStream, Lands, StreamMeta
  <2>3. CASE ExpireStream(op)
    BY <2>1, <2>3 DEF ExpireStream, Lands, StreamMeta
  <2> QED BY <2>2, <2>3
<1>3. landed' # None
  <2>1. CellInv'
    BY FinishKeepsCell, ExpireKeepsCell
  <2>2. landed' \in Landing
    BY <1>1, <2>1 DEF CellInv, CellType, Landing
  <2> QED BY <2>2, NoneAssumption
<1>4. op.chunks = <<>>
  BY <1>1 DEF OpFits
<1> QED BY <1>1, <1>2, <1>3, <1>4, FinishingWriter

(* A writer that was answered has what it was told in the log.              *)
LEMMA PublishKeepsWrites ==
    ASSUME CellInv, WriterType, WritesInv, Publish
    PROVE  WritesInv'
<1>1. /\ landed # None /\ landed' = None /\ UNCHANGED <<log, setup, meta, queue>>
      /\ landed.op \in Mutation
      /\ writer' = IF landed.op.who = Cleaner THEN writer
                   ELSE [writer EXCEPT ![landed.op.who] = Acknowledged(landed.op)]
  BY DEF Publish, CellInv, CellType, Landing, history
<1>2. CASE landed.op.who = Cleaner
  BY <1>1, <1>2, QuietWriters
<1>3. CASE landed.op.who # Cleaner
  <2>v. PICK v, n : v = landed.op.who /\ n = Len(landed.op.chunks)
    OBVIOUS
  <2>1. v \in Writers /\ writer \in [Writers -> WriterRecord] /\ n \in Nat
    BY <1>1, <1>3, <2>v, WriterIs DEF Mutation
  <2>2. WriterInv(v) /\ Count(v) \in Nat /\ writer[v].pc # "ready" /\ writer[v].done + n = Count(v)
    BY <1>1, <2>v, <2>1, PlacesAreFinite DEF WritesInv, WriterInv
  <2>3. \A op \in queue : op.who # v
    BY <1>1, <2>v, <2>1 DEF WritesInv, OneRequest
  <2>4. CASE writer[v].pc # "sent"
    <3>1. Acknowledged(landed.op) = writer[v]
      BY <2>v, <2>4 DEF Acknowledged
    <3>2. writer' = writer
      BY <1>1, <1>3, <2>v, <2>1, <3>1
    <3> QED BY <1>1, <3>2, QuietWriters
  <2>5. CASE writer[v].pc = "sent"
    <3>1. Acknowledged(landed.op).done = Count(v)
      <4>1. \/ Acknowledged(landed.op) = [writer[v] EXCEPT !.pc = "ready", !.done = writer[v].done + n]
            \/ Acknowledged(landed.op) = AtCall(v, writer[v].call + 1, writer[v].done + n)
        BY <2>v, <2>5 DEF Acknowledged
      <4>2. writer[v] \in WriterRecord
        BY <2>1
      <4>3. AtCall(v, writer[v].call + 1, writer[v].done + n).done = writer[v].done + n
        BY DEF AtCall
      <4>4. [writer[v] EXCEPT !.pc = "ready", !.done = writer[v].done + n].done = writer[v].done + n
        BY <4>2 DEF WriterRecord
      <4> QED BY <2>2, <4>1, <4>3, <4>4
    <3>2. writer' = [writer EXCEPT ![v] = Acknowledged(landed.op)]
      BY <1>1, <1>3, <2>v
    <3>3. writer'[v].done = Count(v) /\ \A w \in Writers : w # v => writer'[w] = writer[w]
      BY <2>1, <3>1, <3>2
    <3>4. OneRequest'
      BY <1>1 DEF WritesInv, OneRequest
    <3>5. ASSUME NEW w \in Writers
          PROVE  WriterInv(w)'
      <4>1. CASE w # v
        <5>1. WriterInv(w)
          BY DEF WritesInv
        <5> QED BY <1>1, <3>3, <4>1, <5>1, QuietWriter
      <4>2. CASE w = v
        <5>1. Places(v)' = Places(v) /\ Count(v)' = Count(v) /\ Ordered(v)' = Ordered(v)
          BY <1>1 DEF Places, Count, Ordered
        <5>2. \A op \in queue' : op.who # v
          BY <1>1, <2>3
        <5>3. writer'[v].done <= Count(v)'
          BY <2>2, <3>3, <5>1
        <5> QED BY <1>1, <2>2, <3>3, <4>2, <5>1, <5>2, <5>3 DEF WriterInv
      <4> QED BY <4>1, <4>2
    <3> QED BY <3>4, <3>5 DEF WritesInv
  <2> QED BY <2>4, <2>5
<1> QED BY <1>2, <1>3

(* A writer sends when everything it has in the log was acknowledged.       *)
LEMMA SendKeepsWrites ==
    ASSUME CellInv, WriterType, WritesInv, NEW w \in Writers, Send(w)
    PROVE  WritesInv'
<1>1. PICK batch \in Batches(w) :
        queue' = queue \cup {[who |-> w, kind |-> Call(w).kind, run |-> setup.run[w],
                              chunks |-> batch, pass |-> 0]}
  BY DEF Send
<1>o. PICK op : op = [who |-> w, kind |-> Call(w).kind, run |-> setup.run[w], chunks |-> batch, pass |-> 0]
  OBVIOUS
<1>2. /\ UNCHANGED <<setup, meta, landed, log>> /\ writer[w].pc = "ready" /\ w # Cleaner
      /\ writer' = [writer EXCEPT ![w].pc = "sent"] /\ writer \in [Writers -> WriterRecord]
      /\ op.who = w /\ op.chunks = batch /\ op.kind = Call(w).kind
  BY <1>o, WriterIs, Constants DEF Send, history
<1>3. queue' = queue \cup {op}
  BY <1>1, <1>o
<1>4. op.kind = "write" => NextOf(w, op.chunks)
  <2> SUFFICES ASSUME op.kind = "write" PROVE NextOf(w, batch)
    BY <1>2
  <2>1. /\ batch \in Seq(Chunks) /\ Call(w).upTo <= Len(setup.text[w])
        /\ writer[w].done + Len(batch) <= Call(w).upTo /\ Call(w) \in Calls
        /\ \A k \in 1..Len(batch) : batch[k] = setup.text[w][writer[w].done + k]
    BY <1>2, SentBatches
  <2>2. Call(w).upTo \in Nat /\ Len(setup.text[w]) \in Nat /\ Len(batch) \in Nat /\ writer[w].done \in Nat
    <3>1. setup.text[w] \in Seq(Chunks)
      BY SetupFields DEF CellInv, CellType
    <3> QED BY <1>2, <2>1, <3>1 DEF Calls, WriterRecord
  <2> QED BY <2>1, <2>2 DEF NextOf
<1>5. WriterInv(w) /\ writer[w].done = Count(w) /\ \A other \in queue : other.who # w
  BY <1>2 DEF WritesInv, WriterInv
<1>6. landed # None => landed.op.who # w
  BY <1>2, <1>5 DEF WriterInv
<1>7. OneRequest'
  BY <1>2, <1>3, <1>5, <1>6 DEF WritesInv, OneRequest
<1>8. /\ writer'[w].pc = "sent" /\ writer'[w].done = writer[w].done
      /\ \A v \in Writers : v # w => writer'[v] = writer[v]
  BY <1>2 DEF WriterRecord
<1>9. ASSUME NEW v \in Writers
      PROVE  WriterInv(v)'
  <2>1. CASE v # w
    <3>1. WriterInv(v)
      BY DEF WritesInv
    <3>2. \A other \in queue' : other.who = v => other \in queue
      BY <1>2, <1>3, <2>1
    <3> QED BY <1>2, <1>8, <2>1, <3>1, <3>2, QuietWriter
  <2>2. CASE v = w
    <3>1. Places(w)' = Places(w) /\ Count(w)' = Count(w) /\ Ordered(w)' = Ordered(w)
      BY <1>2 DEF Places, Count, Ordered
    <3>2. \A other \in queue' : other.who = w => other = op
      BY <1>3, <1>5
    <3>3. op.kind = "write" => NextOf(w, op.chunks)'
      BY <1>2, <1>4, <1>8 DEF NextOf
    <3>4. Places(w)' # {} => setup'.run[w] = meta'.owner
      BY <1>2, <1>5, <3>1 DEF WriterInv
    <3>5. writer'[w].done <= Count(w)' /\ writer'[w].done = Count(w)' /\ Ordered(w)'
      BY <1>5, <1>8, <3>1 DEF WriterInv
    <3>6. ~(landed' # None /\ landed'.op.who = w)
      BY <1>2, <1>6
    <3> QED BY <1>8, <2>2, <3>2, <3>3, <3>4, <3>5, <3>6 DEF WriterInv
  <2> QED BY <2>1, <2>2
<1> QED BY <1>7, <1>9 DEF WritesInv

LEMMA NextKeepsWrites == CellInv /\ WriterType /\ WritesInv /\ [Next]_vars => WritesInv'
<1> SUFFICES ASSUME CellInv, WriterType, WritesInv, [Next]_vars PROVE WritesInv'
  OBVIOUS
<1> USE DEF cell, history
<1>0. writer \in [Writers -> WriterRecord]
  BY WriterIs
<1>r. \A w \in Writers : /\ Refused(w).done = writer[w].done
                         /\ Refused(w).pc = writer[w].pc \/ Refused(w).pc # "ready"
  <2> SUFFICES ASSUME NEW w \in Writers
               PROVE  /\ Refused(w).done = writer[w].done
                      /\ Refused(w).pc = writer[w].pc \/ Refused(w).pc # "ready"
    OBVIOUS
  <2>1. writer[w] \in WriterRecord
    BY <1>0
  <2> QED BY <2>1 DEF Refused, WriterRecord
<1>1. ASSUME NEW op \in queue, Throws(op)
      PROVE  WritesInv'
  <2>1. /\ UNCHANGED <<log, setup, meta, landed>> /\ queue' \subseteq queue
        /\ op.who \in Writers \cup {Cleaner}
        /\ writer' = IF op.who = Cleaner THEN writer ELSE [writer EXCEPT ![op.who] = Refused(op.who)]
    BY <1>1 DEF Throws, CellInv, CellType, Mutation
  <2>2. \A w \in Writers : writer'[w] = writer[w] \/ writer'[w] = Refused(w)
    BY <1>0, <2>1
  <2> QED BY <1>r, <2>1, <2>2, QuietWriters
<1>2. ASSUME NEW w \in Writers, WriteTimesOut(w)
      PROVE  WritesInv'
  <2>1. UNCHANGED <<log, setup, meta, landed, queue>> /\ writer' = [writer EXCEPT ![w] = Refused(w)]
    BY <1>2 DEF WriteTimesOut
  <2>2. \A v \in Writers : writer'[v] = writer[v] \/ writer'[v] = Refused(v)
    BY <1>0, <2>1
  <2> QED BY <1>r, <2>1, <2>2, QuietWriters
<1>3. CASE Restart
  <2>1. /\ UNCHANGED <<log, setup, meta>> /\ landed' = None /\ queue' \subseteq queue
        /\ writer' = [w \in Writers |-> IF \E op \in queue' : op.who = w THEN writer[w] ELSE Refused(w)]
    BY <1>3 DEF Restart
  <2>2. \A w \in Writers : writer'[w] = writer[w] \/ writer'[w] = Refused(w)
    BY <2>1
  <2> QED BY <1>r, <2>1, <2>2, QuietWriters
<1>4. CASE SendExpire
  <2> DEFINE op == [who |-> Cleaner, kind |-> "expire", run |-> setup.run[Cleaner], chunks |-> <<>>,
                    pass |-> passes]
  <2>1. UNCHANGED <<log, setup, meta, landed, writer>> /\ queue' = queue \cup {op} /\ op.who \notin Writers
    BY <1>4, Constants DEF SendExpire
  <2> HIDE DEF op
  <2>2. OneRequest'
    <3>1. \A x, y \in queue' : x.who = y.who /\ x.who \in Writers => x \in queue /\ y \in queue
      BY <2>1
    <3>2. \A x \in queue' : x.who \in Writers => x \in queue
      BY <2>1
    <3> QED BY <2>1, <3>1, <3>2 DEF WritesInv, OneRequest
  <2>3. ASSUME NEW w \in Writers
        PROVE  WriterInv(w)'
    <3>1. WriterInv(w)
      BY DEF WritesInv
    <3>2. \A x \in queue' : x.who = w => x \in queue
      BY <2>1
    <3> QED BY <2>1, <3>1, <3>2, QuietWriter
  <2> QED BY <2>2, <2>3 DEF WritesInv
<1>5. CASE \/ LoadMeta \/ UNCHANGED vars
           \/ \E r \in Readers : ServeRead(r) \/ Read(r) \/ LoseAnswer(r) \/ GarbleAnswer(r)
  <2>1. UNCHANGED <<log, setup, meta, landed, queue, writer>>
    BY <1>5 DEF LoadMeta, ServeRead, Read, FindMeta, EnterWait, LookAgain, ListRows, FindContaining, GetRows,
         BeginRead, SeekTail, ReceiveAnswer, LongPollEnds, LoseAnswer, GarbleAnswer, vars
  <2> QED BY <2>1, QuietWriters
<1> QED BY <1>1, <1>2, <1>3, <1>4, <1>5, WriteKeepsWrites, FinishKeepsWrites, PublishKeepsWrites,
           SendKeepsWrites DEF Next, Mutate

(* A stream belongs to one run; each writer's chunks are in it in the order *)
(* it wrote them, each at most once, and those it was told of are there:    *)
(* its requests follow each other, a failed one is never repeated, and only *)
(* the last may be in the log without its writer knowing (writeStreamChunks *)
(* and StreamDO.writeChunks, with lost answers and restarts).               *)
THEOREM WritersKeepOrder == Spec => []WritesLandInOrder
<1>1. CellInv /\ WritesInv => WritesLandInOrder
  BY DEF WritesInv, WriterInv, Ordered, Count, WritesLandInOrder
<1>2. Spec => [](CellInv /\ WriterType /\ WritesInv)
  BY CellInvariant, InitWrites, NextKeepsWrites, PTL DEF Spec
<1> QED BY <1>1, <1>2, PTL

=============================================================================
