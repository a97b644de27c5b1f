------------------------ MODULE StreamRegistryProofs ------------------------
(***************************************************************************)
(* Proofs about StreamRegistry, for any runs, streams, clients and passes,  *)
(* any page and cache size and any number of lost clients and passes.       *)
(***************************************************************************)
EXTENDS StreamRegistry, FiniteSetTheorems, TLAPS

LEMMA Sizes ==
    \A S \in SUBSET Names : IsFiniteSet(S) /\ Cardinality(S) \in Nat
BY RegistryAssumption, FS_Subset, FS_CardinalityType

LEMMA RunsOfPasses == \A p \in Passes : RunOf(p) \in Runs
BY RegistryAssumption DEF RunOf

LEMMA InitType == Init => TypeOK
<1> SUFFICES ASSUME Init PROVE TypeOK
  OBVIOUS
<1>1. PICK begun \in Begun :
        /\ stream = [n \in Names |-> [owner |-> begun[n].owner, state |-> "open",
                                      rows |-> begun[n].rows, deleted |-> FALSE]]
        /\ ever = [r \in Runs |-> {n \in Names : begun[n].owner = r}]
  BY DEF Init
<1>2. begun \in [Names -> [owner : Runs \cup {None}, rows : Nat]]
  BY RegistryAssumption
<1>3. stream \in [Names -> [owner : Runs \cup {None}, state : {"open", "closed", "expired"},
                           rows : Nat, deleted : BOOLEAN]]
  BY <1>1, <1>2
<1>4. ever \in [Runs -> SUBSET Names]
  BY <1>1
<1>5. registry \in [Runs -> [expired : BOOLEAN, names : SUBSET Names, deleted : Nat]]
  BY <1>4 DEF Init
<1>6. known \in [Clients -> SUBSET (Runs \X Names)]
  BY RegistryAssumption DEF Init
<1>7. run \in [Runs -> [phase : {"index", "streams", "queues"}, gen : Nat, deleted : Nat]]
  BY DEF Init
<1>8. writes \in 0..MaxWrites /\ faults \in 0..MaxFaults
  BY RegistryAssumption DEF Init
<1>9. /\ client \in [Clients -> Request \cup {Idle}]
      /\ pass \in [Passes -> Pass \cup {NoPass}]
  BY DEF Init
<1> QED BY <1>3, <1>4, <1>5, <1>6, <1>7, <1>8, <1>9 DEF TypeOK

(* What is not idle is a request or a pass in progress.                     *)
LEMMA Busy ==
    ASSUME TypeOK
    PROVE  /\ \A c \in Clients : client[c].pc # "idle" => client[c] \in Request
           /\ \A p \in Passes : pass[p].pc # "idle" => pass[p] \in Pass
BY DEF TypeOK, Idle, NoPass, Request, Pass

LEMMA ClientStepType ==
    ASSUME TypeOK, NEW c \in Clients, ClientStep(c)
    PROVE  TypeOK'
<1>1. ASSUME NEW use \in Uses, NEW kind \in {"write", "finish"}, Ask(c, use, kind) PROVE TypeOK'
  <2>1. use[1] \in Runs /\ use[2] \in Names
    BY RegistryAssumption
  <2>2. client' = [client EXCEPT ![c] = [pc |-> IF use \in known[c] THEN "call" ELSE "register",
                                         run |-> use[1], name |-> use[2], kind |-> kind]]
    BY <1>1 DEF Ask
  <2>3. \A d \in Clients : client'[d] = client[d] \/ client'[d] \in Request
    BY <2>1, <2>2 DEF Request, TypeOK
  <2>4. writes' \in 0..MaxWrites
    BY <1>1, RegistryAssumption DEF Ask, TypeOK
  <2> QED BY <1>1, <2>3, <2>4 DEF Ask, TypeOK, Request
<1>2. CASE RegisterStream(c)
  <2>1. client[c] \in Request
    BY <1>2, Busy DEF RegisterStream
  <2> DEFINE r == client[c].run
             n == client[c].name
             called == [client[c] EXCEPT !.pc = "call"]
  <2>2. r \in Runs /\ n \in Names /\ called \in Request
    BY <2>1 DEF Request
  <2>3. CASE registry[r].expired
    BY <1>2, <2>3 DEF RegisterStream, TypeOK
  <2>4. CASE ~registry[r].expired
    <3>1. /\ client' = [client EXCEPT ![c] = called]
          /\ registry' = [registry EXCEPT ![r] = [@ EXCEPT !.names = registry[r].names \cup {n}]]
          /\ ever' = [ever EXCEPT ![r] = @ \cup {n}]
          /\ \E uses \in Remembered(c, <<r, n>>) : known' = [known EXCEPT ![c] = uses]
      BY <1>2, <2>1, <2>4 DEF RegisterStream, Register, TypeOK
    <3>2. [registry[r] EXCEPT !.names = registry[r].names \cup {n}]
             \in [expired : BOOLEAN, names : SUBSET Names, deleted : Nat]
      BY <2>2 DEF TypeOK
    <3>3. known' \in [Clients -> SUBSET (Runs \X Names)]
      BY <2>2, <3>1 DEF Remembered, TypeOK
    <3>4. client' \in [Clients -> Request \cup {Idle}]
      BY <2>2, <3>1 DEF TypeOK
    <3>5. registry' \in [Runs -> [expired : BOOLEAN, names : SUBSET Names, deleted : Nat]]
      BY <2>2, <3>1, <3>2 DEF TypeOK
    <3>6. ever' \in [Runs -> SUBSET Names]
      BY <2>2, <3>1 DEF TypeOK
    <3> QED BY <1>2, <3>3, <3>4, <3>5, <3>6 DEF RegisterStream, TypeOK
  <2> QED BY <2>3, <2>4
<1>3. CASE RegisterUnanswered(c)
  <2>1. client[c] \in Request
    BY <1>3, Busy DEF RegisterUnanswered
  <2>2. faults' \in 0..MaxFaults
    BY <1>3, RegistryAssumption DEF RegisterUnanswered, TypeOK
  <2> DEFINE r == client[c].run
             n == client[c].name
  <2>3. r \in Runs /\ n \in Names
    BY <2>1 DEF Request
  <2>4. /\ registry' = [registry EXCEPT ![r].names = @ \cup {n}]
        /\ ever' = [ever EXCEPT ![r] = @ \cup {n}]
        /\ client' = [client EXCEPT ![c] = Idle]
        /\ UNCHANGED <<stream, known, run, pass, writes>>
    BY <1>3 DEF RegisterUnanswered, Register
  <2> DEFINE named == [registry[r] EXCEPT !.names = registry[r].names \cup {n}]
  <2>s. registry' = [registry EXCEPT ![r] = named]
    BY <2>3, <2>4
  <2> HIDE DEF r, n
  <2>t. registry \in [Runs -> [expired : BOOLEAN, names : SUBSET Names, deleted : Nat]]
    BY DEF TypeOK
  <2>n. named \in [expired : BOOLEAN, names : SUBSET Names, deleted : Nat]
    BY <2>3, <2>t
  <2> HIDE DEF named
  <2>5. registry' \in [Runs -> [expired : BOOLEAN, names : SUBSET Names, deleted : Nat]]
    BY <2>3, <2>s, <2>n, <2>t
  <2>6. ever' \in [Runs -> SUBSET Names]
    BY <2>3, <2>4 DEF TypeOK
  <2>7. client' \in [Clients -> Request \cup {Idle}]
    BY <2>4 DEF TypeOK
  <2> QED BY <2>2, <2>4, <2>5, <2>6, <2>7 DEF TypeOK
<1>4. CASE CallStream(c)
  <2>1. client[c] \in Request
    BY <1>4, Busy DEF CallStream
  <2>2. stream' \in [Names -> [owner : Runs \cup {None}, state : {"open", "closed", "expired"},
                               rows : Nat, deleted : BOOLEAN]]
    <3> DEFINE q == client[c]
               s == stream[q.name]
               new == IF q.kind = "write" THEN Write(s, q.run) ELSE Finish(s, q.run)
    <3>1. q.run \in Runs /\ q.name \in Names
      BY <2>1 DEF Request
    <3>2. new \in [owner : Runs \cup {None}, state : {"open", "closed", "expired"},
                   rows : Nat, deleted : BOOLEAN]
      <4>1. s \in [owner : Runs \cup {None}, state : {"open", "closed", "expired"},
                   rows : Nat, deleted : BOOLEAN]
        BY <3>1 DEF TypeOK
      <4>2. Write(s, q.run) \in [owner : Runs \cup {None}, state : {"open", "closed", "expired"},
                                 rows : Nat, deleted : BOOLEAN]
        <5>1. s.rows + 1 \in Nat
          BY <4>1
        <5> HIDE DEF s
        <5> QED BY <3>1, <4>1, <5>1 DEF Write
      <4>3. Finish(s, q.run) \in [owner : Runs \cup {None}, state : {"open", "closed", "expired"},
                                  rows : Nat, deleted : BOOLEAN]
        <5> HIDE DEF s
        <5> QED BY <3>1, <4>1 DEF Finish
      <4> QED BY <4>2, <4>3
    <3>3. stream' = [stream EXCEPT ![q.name] = new]
      BY <1>4 DEF CallStream
    <3> HIDE DEF new
    <3> QED BY <3>1, <3>2, <3>3 DEF TypeOK
  <2> QED BY <1>4, <2>2 DEF CallStream, TypeOK
<1>5. CASE LoseClient(c)
  <2>1. faults' \in 0..MaxFaults
    BY <1>5, RegistryAssumption DEF LoseClient, TypeOK
  <2> QED BY <1>5, <2>1 DEF LoseClient, TypeOK
<1> QED BY <1>1, <1>2, <1>3, <1>4, <1>5 DEF ClientStep

LEMMA ExpireStreamType ==
    ASSUME TypeOK, NEW p \in Passes, NEW n \in Names, ExpireStream(p, n)
    PROVE  TypeOK'
<1>1. pass[p] \in Pass /\ RunOf(p) \in Runs
  BY Busy, RunsOfPasses DEF ExpireStream, Reaches
<1> DEFINE s == stream[n]
           deleted == IF s.rows <= pass[p].rows THEN s.rows ELSE pass[p].rows
           done == deleted = s.rows
<1>2. s.rows \in Nat /\ pass[p].rows \in Nat
  BY <1>1 DEF TypeOK, Pass
<1>3. deleted \in Nat /\ s.rows - deleted \in Nat /\ pass[p].rows - deleted \in Nat
  BY <1>2
<1>4. /\ stream' = [stream EXCEPT ![n] = [owner |-> RunOf(p), state |-> "expired",
                                          rows |-> s.rows - deleted, deleted |-> done]]
      /\ pass' = [pass EXCEPT ![p].page = @ \ {n}, ![p].rows = @ - deleted,
                              ![p].done = IF done THEN @ \cup {n} ELSE @]
  BY DEF ExpireStream
<1>5. done \in BOOLEAN
  OBVIOUS
<1> HIDE DEF s, deleted, done
<1>6. stream' \in [Names -> [owner : Runs \cup {None}, state : {"open", "closed", "expired"},
                             rows : Nat, deleted : BOOLEAN]]
  BY <1>1, <1>3, <1>4, <1>5 DEF TypeOK
<1> DEFINE new == [pass[p] EXCEPT !.page = @ \ {n}, !.rows = @ - deleted,
                                  !.done = IF done THEN @ \cup {n} ELSE @]
<1>7. new \in Pass
  BY <1>1, <1>3 DEF Pass
<1>8. pass' = [pass EXCEPT ![p] = new]
  BY <1>1, <1>4 DEF TypeOK
<1> HIDE DEF new
<1>9. pass' \in [Passes -> Pass \cup {NoPass}]
  BY <1>7, <1>8 DEF TypeOK
<1> QED BY <1>6, <1>9 DEF ExpireStream, TypeOK

LEMMA FinalizeRegistryType ==
    ASSUME TypeOK, NEW p \in Passes, FinalizeRegistry(p)
    PROVE  TypeOK'
<1>1. pass[p] \in Pass /\ RunOf(p) \in Runs
  BY Busy, RunsOfPasses DEF FinalizeRegistry
<1> DEFINE r == RunOf(p)
           removed == registry[r].names \cap pass[p].done
           left == registry[r].names \ pass[p].done
           deleted == registry[r].deleted + Cardinality(removed)
<1>2. removed \in SUBSET Names /\ left \in SUBSET Names /\ registry[r].deleted \in Nat
  BY <1>1 DEF TypeOK
<1>3. deleted \in Nat
  BY <1>2, Sizes
<1>4. /\ registry' = [registry EXCEPT ![r].names = left, ![r].deleted = deleted]
      /\ pass' = [pass EXCEPT ![p].pc = "commit", ![p].deleted = deleted, ![p].last = left = {}]
  BY DEF FinalizeRegistry
<1> HIDE DEF removed, left, deleted
<1> DEFINE kept == [registry[r] EXCEPT !.names = left, !.deleted = deleted]
           new == [pass[p] EXCEPT !.pc = "commit", !.deleted = deleted, !.last = left = {}]
<1>5. kept \in [expired : BOOLEAN, names : SUBSET Names, deleted : Nat]
  <2>1. registry[r] \in [expired : BOOLEAN, names : SUBSET Names, deleted : Nat]
    BY <1>1 DEF TypeOK
  <2> HIDE DEF r
  <2> QED BY <1>2, <1>3, <2>1
<1>6. new \in Pass
  BY <1>1, <1>3 DEF Pass
<1>7. registry' = [registry EXCEPT ![r] = kept] /\ pass' = [pass EXCEPT ![p] = new]
  BY <1>1, <1>4 DEF TypeOK
<1> HIDE DEF kept, new
<1>8. registry' \in [Runs -> [expired : BOOLEAN, names : SUBSET Names, deleted : Nat]]
  BY <1>5, <1>7 DEF TypeOK
<1>9. pass' \in [Passes -> Pass \cup {NoPass}]
  BY <1>6, <1>7 DEF TypeOK
<1> QED BY <1>8, <1>9 DEF FinalizeRegistry, TypeOK

LEMMA NextType == TypeOK /\ [Next]_vars => TypeOK'
<1> SUFFICES ASSUME TypeOK, [Next]_vars PROVE TypeOK'
  OBVIOUS
<1>1. ASSUME NEW c \in Clients, ClientStep(c) PROVE TypeOK'
  BY <1>1, ClientStepType
<1>2. ASSUME NEW r \in Runs, BeginStreams(r) PROVE TypeOK'
  BY <1>2 DEF BeginStreams, TypeOK
<1>3. ASSUME NEW p \in Passes, StartPass(p) PROVE TypeOK'
  <2>1. run[RunOf(p)].gen \in Nat
    BY RunsOfPasses DEF TypeOK
  <2>2. \A q \in Passes : pass'[q] = pass[q] \/ pass'[q] \in Pass
    BY <1>3, <2>1, RegistryAssumption DEF StartPass, NoPass, Pass, TypeOK
  <2> QED BY <1>3, <2>2 DEF StartPass, TypeOK, Pass
<1>4. ASSUME NEW p \in Passes, ExpireRegistry(p) PROVE TypeOK'
  <2>1. pass[p] \in Pass /\ PageOf(registry[RunOf(p)].names) \in SUBSET Names
    BY <1>4, Busy, RunsOfPasses DEF ExpireRegistry, PageOf, TypeOK
  <2> DEFINE page == PageOf(registry[RunOf(p)].names)
             new == [pass[p] EXCEPT !.pc = "stream", !.page = page, !.rows = PageRows]
  <2>2. new \in Pass
    BY <2>1, RegistryAssumption DEF Pass
  <2>3. pass' = [pass EXCEPT ![p] = new]
    BY <1>4, <2>1 DEF ExpireRegistry, TypeOK
  <2> HIDE DEF new
  <2>4. registry' \in [Runs -> [expired : BOOLEAN, names : SUBSET Names, deleted : Nat]]
    <3>1. registry' = [registry EXCEPT ![RunOf(p)].expired = TRUE] /\ RunOf(p) \in Runs
      BY <1>4, RunsOfPasses DEF ExpireRegistry
    <3>2. registry \in [Runs -> [expired : BOOLEAN, names : SUBSET Names, deleted : Nat]]
      BY DEF TypeOK
    <3> QED BY <3>1, <3>2
  <2>5. pass' \in [Passes -> Pass \cup {NoPass}]
    BY <2>2, <2>3 DEF TypeOK
  <2> QED BY <1>4, <2>4, <2>5 DEF ExpireRegistry, TypeOK
<1>5. ASSUME NEW p \in Passes, NEW n \in Names, ExpireStream(p, n) PROVE TypeOK'
  BY <1>5, ExpireStreamType
<1>6. ASSUME NEW p \in Passes, NEW n \in Names, ExpireStreamThrows(p, n) PROVE TypeOK'
  BY <1>6 DEF ExpireStreamThrows, TypeOK
<1>7. ASSUME NEW p \in Passes, FinalizeRegistry(p) PROVE TypeOK'
  BY <1>7, FinalizeRegistryType
<1>8. ASSUME NEW p \in Passes, CommitStreamPage(p) PROVE TypeOK'
  <2>1. pass[p] \in Pass /\ RunOf(p) \in Runs
    BY <1>8, Busy, RunsOfPasses DEF CommitStreamPage
  <2>2. run' \in [Runs -> [phase : {"index", "streams", "queues"}, gen : Nat, deleted : Nat]]
    BY <1>8, <2>1 DEF CommitStreamPage, TypeOK, Pass
  <2> QED BY <1>8, <2>2 DEF CommitStreamPage, TypeOK
<1>9. ASSUME NEW p \in Passes, LosePass(p) PROVE TypeOK'
  <2>1. faults' \in 0..MaxFaults
    BY <1>9, RegistryAssumption DEF LosePass, TypeOK
  <2> QED BY <1>9, <2>1 DEF LosePass, TypeOK
<1>10. CASE UNCHANGED vars
  BY <1>10 DEF vars, TypeOK
<1> QED
  BY <1>1, <1>2, <1>3, <1>4, <1>5, <1>6, <1>7, <1>8, <1>9, <1>10 DEF Next, PassStep

(* The types of the registries, streams, clients, run cells and passes.     *)
THEOREM TypeCorrect == Spec => []TypeOK
BY InitType, NextType, PTL DEF Spec

-----------------------------------------------------------------------------
(* A stream that belongs to a run, or that someone is about to write for    *)
(* it, is on the run's registry as long as it is not gone.                  *)
Held(r, n) == n \in registry[r].names \/ Gone(n)

Calls(c, r, n) == client[c].pc = "call" /\ client[c].run = r /\ client[c].name = n

HeldInv ==
    /\ \A r \in Runs, n \in Names : stream[n].owner = r => Held(r, n)
    /\ \A c \in Clients, r \in Runs, n \in Names : <<r, n>> \in known[c] => Held(r, n)
    /\ \A c \in Clients, r \in Runs, n \in Names : Calls(c, r, n) => Held(r, n)
    /\ \A p \in Passes : \A n \in pass[p].page : Held(RunOf(p), n)
    /\ \A p \in Passes : \A n \in pass[p].done : Gone(n)

(* What is gone stays gone: a fenced stream refuses every write.            *)
LEMMA GoneStays ==
    ASSUME TypeOK, [Next]_vars
    PROVE  \A n \in Names : Gone(n) => Gone(n)'
<1> SUFFICES ASSUME NEW n \in Names, Gone(n) PROVE Gone(n)'
  OBVIOUS
<1>1. stream[n].state = "expired" /\ stream[n].rows = 0
  BY DEF Gone
<1>2. ASSUME NEW c \in Clients, CallStream(c) PROVE Gone(n)'
  <2>1. stream'[n] = stream[n]
    BY <1>1, <1>2 DEF CallStream, Write, Finish, TypeOK
  <2> QED BY <1>1, <2>1 DEF Gone
<1>3. ASSUME NEW p \in Passes, NEW m \in Names, ExpireStream(p, m) PROVE Gone(n)'
  <2>1. pass[p].rows \in Nat
    BY <1>3, Busy DEF ExpireStream, Reaches, Pass
  <2>2. CASE m = n
    BY <1>1, <1>3, <2>1, <2>2 DEF ExpireStream, Gone, TypeOK
  <2>3. CASE m # n
    BY <1>1, <1>3, <2>3 DEF ExpireStream, Gone, TypeOK
  <2> QED BY <2>2, <2>3
<1>4. CASE UNCHANGED stream
  BY <1>1, <1>4 DEF Gone
<1> QED
  BY <1>2, <1>3, <1>4 DEF Next, vars, ClientStep, PassStep, Ask, RegisterStream,
     RegisterUnanswered, LoseClient, BeginStreams, StartPass, ExpireRegistry,
     ExpireStreamThrows, FinalizeRegistry, CommitStreamPage, LosePass

(* A name leaves a registry only when its stream is gone.                   *)
LEMMA HeldStays ==
    ASSUME TypeOK, HeldInv, [Next]_vars
    PROVE  \A r \in Runs, n \in Names : Held(r, n) => Held(r, n)'
<1> SUFFICES ASSUME NEW r \in Runs, NEW n \in Names, n \in registry[r].names
             PROVE  n \in registry'[r].names \/ Gone(n)'
  BY GoneStays DEF Held
<1>1. ASSUME NEW c \in Clients, Register(client[c].run, client[c].name)
      PROVE  n \in registry'[r].names
  BY <1>1 DEF Register, TypeOK
<1>2. ASSUME NEW p \in Passes, ExpireRegistry(p) PROVE n \in registry'[r].names
  BY <1>2 DEF ExpireRegistry, TypeOK
<1>3. ASSUME NEW p \in Passes, FinalizeRegistry(p) PROVE n \in registry'[r].names \/ Gone(n)'
  <2>1. n \in registry'[r].names \/ n \in pass[p].done
    BY <1>3 DEF FinalizeRegistry, TypeOK
  <2> QED BY <2>1, GoneStays DEF HeldInv
<1>4. CASE UNCHANGED registry
  BY <1>4
<1> QED
  BY <1>1, <1>2, <1>3, <1>4 DEF Next, vars, ClientStep, PassStep, Ask, RegisterStream,
     RegisterUnanswered, CallStream, LoseClient, BeginStreams, StartPass, ExpireStream,
     ExpireStreamThrows, CommitStreamPage, LosePass

LEMMA InitHeld == Init => HeldInv
<1> SUFFICES ASSUME Init PROVE HeldInv
  OBVIOUS
<1>1. PICK begun \in Begun :
        /\ stream = [n \in Names |-> [owner |-> begun[n].owner, state |-> "open",
                                      rows |-> begun[n].rows, deleted |-> FALSE]]
        /\ ever = [r \in Runs |-> {n \in Names : begun[n].owner = r}]
  BY DEF Init
<1>2. \A r \in Runs : registry[r].names = ever[r]
  BY DEF Init
<1>3. \A r \in Runs, n \in Names : stream[n].owner = r => n \in registry[r].names
  BY <1>1, <1>2
<1>4. ASSUME NEW c \in Clients, NEW r \in Runs, NEW n \in Names, <<r, n>> \in known[c]
      PROVE  n \in registry[r].names
  <2>1. \A use \in known[c] : use[2] \in ever[use[1]]
    BY DEF Init
  <2> QED BY <1>2, <1>4, <2>1
<1>5. /\ \A c \in Clients : client[c].pc # "call"
      /\ \A p \in Passes : pass[p].page = {} /\ pass[p].done = {}
  BY DEF Init, Idle, NoPass
<1> QED BY <1>3, <1>4, <1>5 DEF HeldInv, Held, Calls

LEMMA ClientStepHeld ==
    ASSUME TypeOK, HeldInv, NEW c \in Clients, ClientStep(c)
    PROVE  HeldInv'
<1>1. /\ \A n \in Names : Gone(n) => Gone(n)'
      /\ \A r \in Runs, n \in Names : Held(r, n) => Held(r, n)'
  BY GoneStays, HeldStays DEF Next
<1>2. UNCHANGED pass
  BY DEF ClientStep, Ask, RegisterStream, RegisterUnanswered, CallStream, LoseClient
<1>3. /\ \A p \in Passes : \A n \in pass'[p].page : Held(RunOf(p), n)'
      /\ \A p \in Passes : \A n \in pass'[p].done : Gone(n)'
  <2>1. \A p \in Passes : pass[p].page \in SUBSET Names /\ pass[p].done \in SUBSET Names
    BY DEF TypeOK, Pass, NoPass
  <2> QED BY <1>1, <1>2, <2>1, RunsOfPasses DEF HeldInv
<1>4. ASSUME NEW use \in Uses, NEW kind \in {"write", "finish"}, Ask(c, use, kind) PROVE HeldInv'
  <2>1. ASSUME NEW d \in Clients, NEW r \in Runs, NEW n \in Names, Calls(d, r, n)'
        PROVE  Calls(d, r, n) \/ <<r, n>> \in known[d]
    <3>1. CASE d # c
      BY <1>4, <2>1, <3>1 DEF Ask, TypeOK, Calls
    <3>2. CASE d = c
      <4>1. use \in known[c] /\ r = use[1] /\ n = use[2]
        BY <1>4, <2>1, <3>2 DEF Ask, TypeOK, Calls
      <4> QED BY <3>2, <4>1, RegistryAssumption
    <3> QED BY <3>1, <3>2
  <2>2. \A d \in Clients, r \in Runs, n \in Names : Calls(d, r, n)' => Held(r, n)'
    BY <1>1, <2>1 DEF HeldInv
  <2>3. UNCHANGED <<stream, known>>
    BY <1>4 DEF Ask
  <2> QED BY <1>1, <1>3, <1>4, <2>2, <2>3 DEF HeldInv, TypeOK
<1>5. CASE RegisterStream(c)
  <2>1. PICK r \in Runs, n \in Names : r = client[c].run /\ n = client[c].name
    BY <1>5, Busy DEF RegisterStream, Request
  <2>2. CASE registry[r].expired
    <3>1. UNCHANGED <<stream, known>> /\ client' = [client EXCEPT ![c] = Idle]
      BY <1>5, <2>1, <2>2 DEF RegisterStream
    <3>2. \A d \in Clients, q \in Runs, m \in Names : Calls(d, q, m)' => Calls(d, q, m)
      BY <3>1 DEF Calls, Idle, TypeOK
    <3> QED BY <1>1, <1>3, <3>1, <3>2 DEF HeldInv
  <2>3. CASE ~registry[r].expired
    <3>1. Held(r, n)'
      BY <1>5, <2>1, <2>3 DEF RegisterStream, Register, Held, TypeOK
    <3>2. PICK uses \in Remembered(c, <<r, n>>) : known' = [known EXCEPT ![c] = uses]
      BY <1>5, <2>1, <2>3 DEF RegisterStream
    <3>3. ASSUME NEW d \in Clients, NEW q \in Runs, NEW m \in Names, <<q, m>> \in known'[d]
          PROVE  Held(q, m)'
      <4>1. \A use \in uses : use \in known[c] \/ use = <<r, n>>
        BY <3>2 DEF Remembered
      <4>2. <<q, m>> \in known[d] \/ (q = r /\ m = n)
        BY <3>2, <3>3, <4>1 DEF TypeOK
      <4> QED BY <1>1, <3>1, <4>2 DEF HeldInv
    <3>4. ASSUME NEW d \in Clients, NEW q \in Runs, NEW m \in Names, Calls(d, q, m)'
          PROVE  Held(q, m)'
      <4>1. client' = [client EXCEPT ![c] = [client[c] EXCEPT !.pc = "call"]] /\ client[c] \in Request
        BY <1>5, <2>1, <2>3, Busy DEF RegisterStream, TypeOK
      <4>2. CASE d = c
        BY <2>1, <3>1, <3>4, <4>1, <4>2 DEF Calls, TypeOK, Request
      <4>3. CASE d # c
        <5>1. Calls(d, q, m)
          BY <3>4, <4>1, <4>3 DEF Calls, TypeOK
        <5> QED BY <1>1, <5>1 DEF HeldInv
      <4> QED BY <4>2, <4>3
    <3> QED BY <1>1, <1>3, <1>5, <3>3, <3>4 DEF HeldInv, RegisterStream
  <2> QED BY <2>2, <2>3
<1>6. CASE RegisterUnanswered(c)
  <2>1. UNCHANGED <<stream, known>> /\ client' = [client EXCEPT ![c] = Idle]
    BY <1>6 DEF RegisterUnanswered
  <2>2. \A d \in Clients, q \in Runs, m \in Names : Calls(d, q, m)' => Calls(d, q, m)
    BY <2>1 DEF Calls, Idle, TypeOK
  <2> QED BY <1>1, <1>3, <2>1, <2>2 DEF HeldInv
<1>7. CASE CallStream(c)
  <2>1. PICK r \in Runs, n \in Names : r = client[c].run /\ n = client[c].name
    BY <1>7, Busy DEF CallStream, Request
  <2>2. Held(r, n)
    BY <1>7, <2>1 DEF CallStream, HeldInv, Calls
  <2>3. \A m \in Names : stream'[m].owner = stream[m].owner \/ (m = n /\ stream'[m].owner = r)
    BY <1>7, <2>1 DEF CallStream, Write, Finish, TypeOK
  <2>4. UNCHANGED known /\ client' = [client EXCEPT ![c] = Idle]
    BY <1>7 DEF CallStream
  <2>5. \A d \in Clients, q \in Runs, m \in Names : Calls(d, q, m)' => Calls(d, q, m)
    BY <2>4 DEF Calls, Idle, TypeOK
  <2>6. \A q \in Runs, m \in Names : stream'[m].owner = q => Held(q, m)
    BY <2>2, <2>3 DEF HeldInv
  <2> QED BY <1>1, <1>3, <2>4, <2>5, <2>6 DEF HeldInv
<1>8. CASE LoseClient(c)
  <2>1. /\ UNCHANGED stream
        /\ client' = [client EXCEPT ![c] = Idle]
        /\ \A d \in Clients : known'[d] \in SUBSET known[d]
    BY <1>8 DEF LoseClient, TypeOK
  <2>2. \A d \in Clients, q \in Runs, m \in Names : Calls(d, q, m)' => Calls(d, q, m)
    BY <2>1 DEF Calls, Idle, TypeOK
  <2> QED BY <1>1, <1>3, <2>1, <2>2 DEF HeldInv
<1> QED BY <1>4, <1>5, <1>6, <1>7, <1>8 DEF ClientStep

LEMMA NextHeld == TypeOK /\ HeldInv /\ [Next]_vars => HeldInv'
<1> SUFFICES ASSUME TypeOK, HeldInv, [Next]_vars PROVE HeldInv'
  OBVIOUS
<1>1. /\ \A n \in Names : Gone(n) => Gone(n)'
      /\ \A r \in Runs, n \in Names : Held(r, n) => Held(r, n)'
  BY GoneStays, HeldStays
<1>2. CASE \E c \in Clients : ClientStep(c)
  BY <1>2, ClientStepHeld
<1>3. ASSUME UNCHANGED <<known, client>>,
             \A r \in Runs, n \in Names : stream'[n].owner = r => Held(r, n)',
             \A p \in Passes, n \in Names : n \in pass'[p].page => Held(RunOf(p), n)',
             \A p \in Passes, n \in Names : n \in pass'[p].done => Gone(n)'
      PROVE  HeldInv'
  <2>1. \A p \in Passes : pass'[p].page \in SUBSET Names /\ pass'[p].done \in SUBSET Names
    BY NextType DEF TypeOK, Pass, NoPass
  <2>2. \A c \in Clients, r \in Runs, n \in Names : Calls(c, r, n)' => Calls(c, r, n)
    BY <1>3 DEF Calls
  <2> QED BY <1>1, <1>3, <2>1, <2>2 DEF HeldInv
<1>4. ASSUME UNCHANGED stream
      PROVE  \A r \in Runs, n \in Names : stream'[n].owner = r => Held(r, n)'
  BY <1>1, <1>4 DEF HeldInv
<1>5. ASSUME NEW p \in Passes, NEW n \in Names, n \in pass[p].page
      PROVE  Held(RunOf(p), n)'
  BY <1>1, <1>5, RunsOfPasses DEF HeldInv
<1>6. ASSUME NEW p \in Passes, NEW n \in Names, n \in pass[p].done
      PROVE  Gone(n)'
  BY <1>1, <1>6 DEF HeldInv
<1>7. ASSUME NEW p \in Passes, NEW gen, NEW pc,
             pass' = [pass EXCEPT ![p] = [NoPass EXCEPT !.pc = pc, !.gen = gen]],
             UNCHANGED <<known, client, stream>>
      PROVE  HeldInv'
  BY <1>3, <1>4, <1>5, <1>6, <1>7 DEF NoPass, TypeOK
<1>8. ASSUME NEW p \in Passes, pass' = [pass EXCEPT ![p] = NoPass],
             UNCHANGED <<known, client, stream>>
      PROVE  HeldInv'
  BY <1>3, <1>4, <1>5, <1>6, <1>8 DEF NoPass, TypeOK
<1>9. ASSUME NEW r \in Runs, BeginStreams(r) PROVE HeldInv'
  BY <1>3, <1>4, <1>5, <1>6, <1>9 DEF BeginStreams
<1>10. ASSUME NEW p \in Passes, StartPass(p) PROVE HeldInv'
  BY <1>7, <1>10 DEF StartPass
<1>11. ASSUME NEW p \in Passes, ExpireRegistry(p) PROVE HeldInv'
  <2> DEFINE r == RunOf(p)
  <2>1. r \in Runs /\ PageOf(registry[r].names) \in SUBSET registry[r].names
    BY RunsOfPasses DEF PageOf
  <2>2. \A n \in PageOf(registry[r].names) : n \in Names => Held(r, n)
    BY <2>1 DEF Held
  <2>3. \A q \in Passes : /\ pass'[q].page \in SUBSET (pass[q].page \cup
                                IF q = p THEN PageOf(registry[r].names) ELSE {})
                          /\ pass'[q].done = pass[q].done
    BY <1>11 DEF ExpireRegistry, TypeOK, Pass, NoPass
  <2>4. \A q \in Passes, n \in Names : n \in pass'[q].page => Held(RunOf(q), n)'
    BY <1>1, <1>5, <2>1, <2>2, <2>3
  <2> QED BY <1>3, <1>4, <1>6, <1>11, <2>3, <2>4 DEF ExpireRegistry
<1>12. ASSUME NEW p \in Passes, NEW n \in Names, ExpireStream(p, n) PROVE HeldInv'
  <2> DEFINE r == RunOf(p)
             deleted == IF stream[n].rows <= pass[p].rows THEN stream[n].rows ELSE pass[p].rows
  <2>1. /\ pass[p] \in Pass /\ r \in Runs /\ Held(r, n)
        /\ stream' = [stream EXCEPT ![n] = [owner |-> r, state |-> "expired",
                        rows |-> stream[n].rows - deleted, deleted |-> deleted = stream[n].rows]]
    BY <1>12, Busy, RunsOfPasses DEF ExpireStream, Reaches, HeldInv
  <2>2. stream[n].rows \in Nat
    BY DEF TypeOK
  <2>3. \A m \in Names : m # n => stream'[m] = stream[m]
    BY <2>1 DEF TypeOK
  <2>4. \A q \in Runs, m \in Names : stream'[m].owner = q => Held(q, m)'
    BY <1>1, <2>1, <2>3 DEF HeldInv, TypeOK
  <2>5. deleted = stream[n].rows => Gone(n)'
    BY <2>1, <2>2 DEF Gone, TypeOK
  <2>6. \A q \in Passes : /\ pass'[q].page \in SUBSET pass[q].page
                          /\ \A m \in pass'[q].done :
                                m \in pass[q].done \/ (m = n /\ deleted = stream[n].rows)
    <3> DEFINE new == [pass[p] EXCEPT !.page = @ \ {n}, !.rows = @ - deleted,
                         !.done = IF deleted = stream[n].rows THEN @ \cup {n} ELSE @]
    <3>1. pass' = [pass EXCEPT ![p] = new]
      BY <1>12, <2>1 DEF ExpireStream, TypeOK
    <3>2. new.page \in SUBSET pass[p].page
      BY <2>1 DEF Pass
    <3>3. \A m \in new.done : m \in pass[p].done \/ (m = n /\ deleted = stream[n].rows)
      BY <2>1 DEF Pass
    <3> HIDE DEF new
    <3> QED BY <3>1, <3>2, <3>3 DEF TypeOK
  <2> HIDE DEF deleted
  <2>7. \A q \in Passes, m \in Names : m \in pass'[q].page => Held(RunOf(q), m)'
    BY <1>5, <2>6
  <2>8. \A q \in Passes, m \in Names : m \in pass'[q].done => Gone(m)'
    BY <1>6, <2>5, <2>6
  <2> QED BY <1>3, <1>12, <2>4, <2>7, <2>8 DEF ExpireStream
<1>13. ASSUME NEW p \in Passes, NEW n \in Names, ExpireStreamThrows(p, n) PROVE HeldInv'
  BY <1>8, <1>13 DEF ExpireStreamThrows
<1>14. ASSUME NEW p \in Passes, FinalizeRegistry(p) PROVE HeldInv'
  <2>1. \A q \in Passes : pass'[q].page = pass[q].page /\ pass'[q].done = pass[q].done
    BY <1>14 DEF FinalizeRegistry, TypeOK, Pass, NoPass
  <2> QED BY <1>3, <1>4, <1>5, <1>6, <1>14, <2>1 DEF FinalizeRegistry
<1>15. ASSUME NEW p \in Passes, CommitStreamPage(p) PROVE HeldInv'
  BY <1>8, <1>15 DEF CommitStreamPage
<1>16. ASSUME NEW p \in Passes, LosePass(p) PROVE HeldInv'
  BY <1>8, <1>16 DEF LosePass
<1>17. CASE UNCHANGED vars
  BY <1>3, <1>4, <1>5, <1>6, <1>17 DEF vars
<1> QED
  BY <1>2, <1>9, <1>10, <1>11, <1>12, <1>13, <1>14, <1>15, <1>16, <1>17 DEF Next, PassStep

-----------------------------------------------------------------------------
(* A fenced registry has no new names, and its count is that of the names   *)
(* it once had and no longer has.  So a pass that leaves no name, whichever *)
(* passes went before it, reports all of them.                              *)
Finished(p) == pass[p].pc = "commit" /\ pass[p].last

CountInv ==
    /\ \A r \in Runs :
          /\ registry[r].names \subseteq ever[r]
          /\ registry[r].deleted = Cardinality(ever[r] \ registry[r].names)
          /\ ~registry[r].expired => registry[r].names = ever[r]
    /\ \A p \in Passes : pass[p].pc \in {"stream", "commit"} => registry[RunOf(p)].expired
    /\ \A p \in Passes : Finished(p) =>
          registry[RunOf(p)].names = {} /\ pass[p].deleted = Cardinality(ever[RunOf(p)])
    /\ \A r \in Runs : run[r].phase = "queues" =>
          /\ registry[r].expired /\ registry[r].names = {}
          /\ run[r].deleted = Cardinality(ever[r])

LEMMA InitCount == Init => CountInv
<1> SUFFICES ASSUME Init PROVE CountInv
  OBVIOUS
<1>1. \A r \in Runs : registry[r].names = ever[r] /\ registry[r].deleted = 0
  BY DEF Init
<1>2. \A r \in Runs : Cardinality(ever[r] \ registry[r].names) = 0
  <2> SUFFICES ASSUME NEW r \in Runs PROVE Cardinality(ever[r] \ registry[r].names) = 0
    OBVIOUS
  <2>1. ever[r] \ registry[r].names = {}
    BY <1>1
  <2> QED BY <2>1, FS_EmptySet
<1>3. /\ \A p \in Passes : pass[p].pc = "idle"
      /\ \A r \in Runs : run[r].phase = "index"
  BY DEF Init, NoPass
<1> QED BY <1>1, <1>2, <1>3 DEF CountInv, Finished

LEMMA NextCount == TypeOK /\ CountInv /\ [Next]_vars => CountInv'
<1> SUFFICES ASSUME TypeOK, CountInv, [Next]_vars PROVE CountInv'
  OBVIOUS
<1>1. TypeOK'
  BY NextType
<1>2. ASSUME UNCHANGED <<registry, ever, run>>,
             \A p \in Passes : pass'[p] = pass[p] \/ pass'[p].pc \in {"idle", "registry"}
                               \/ (pass[p].pc = "stream" /\ pass'[p].pc = "stream")
      PROVE  CountInv'
  BY <1>2 DEF CountInv, Finished
<1>3. ASSUME NEW c \in Clients, RegisterStream(c) \/ RegisterUnanswered(c),
             ~registry[client[c].run].expired
      PROVE  CountInv'
  <2>1. PICK r \in Runs, n \in Names : r = client[c].run /\ n = client[c].name
    BY <1>3, Busy DEF RegisterStream, RegisterUnanswered, Request
  <2>2. Register(r, n) /\ UNCHANGED <<pass, run>>
    BY <1>3, <2>1 DEF RegisterStream, RegisterUnanswered
  <2>3. registry[r].names = ever[r] /\ ever[r] \ registry[r].names = {}
    BY <1>3, <2>1 DEF CountInv
  <2>4. /\ registry'[r].names = ever'[r]
        /\ registry'[r].deleted = registry[r].deleted
        /\ registry'[r].expired = registry[r].expired
    BY <2>2, <2>3 DEF Register, TypeOK
  <2>5. ever'[r] \ registry'[r].names = {}
    BY <2>4
  <2>6. \A q \in Runs : q # r => registry'[q] = registry[q] /\ ever'[q] = ever[q]
    BY <2>2 DEF Register, TypeOK
  <2>7. \A q \in Runs :
           /\ registry'[q].names \subseteq ever'[q]
           /\ registry'[q].deleted = Cardinality(ever'[q] \ registry'[q].names)
           /\ ~registry'[q].expired => registry'[q].names = ever'[q]
    BY <2>3, <2>4, <2>5, <2>6 DEF CountInv
  <2>8. \A p \in Passes : pass[p].pc \in {"stream", "commit"} => RunOf(p) # r
    BY <1>3, <2>1 DEF CountInv
  <2>9. \A p \in Passes : pass'[p].pc \in {"stream", "commit"} => registry'[RunOf(p)].expired
    BY <2>2, <2>6, <2>8, RunsOfPasses DEF CountInv
  <2>10. \A p \in Passes : Finished(p)' =>
            registry'[RunOf(p)].names = {} /\ pass'[p].deleted = Cardinality(ever'[RunOf(p)])
    BY <2>2, <2>6, <2>8, RunsOfPasses DEF CountInv, Finished
  <2>11. \A q \in Runs : run'[q].phase = "queues" =>
            /\ registry'[q].expired /\ registry'[q].names = {}
            /\ run'[q].deleted = Cardinality(ever'[q])
    <3> SUFFICES ASSUME NEW q \in Runs, run'[q].phase = "queues"
                 PROVE  /\ registry'[q].expired /\ registry'[q].names = {}
                        /\ run'[q].deleted = Cardinality(ever'[q])
      OBVIOUS
    <3>1. run'[q] = run[q]
      BY <2>2
    <3>2. /\ registry[q].expired /\ registry[q].names = {}
          /\ run[q].deleted = Cardinality(ever[q])
      BY <3>1 DEF CountInv
    <3>3. q # r
      BY <1>3, <2>1, <3>2
    <3>4. registry'[q] = registry[q] /\ ever'[q] = ever[q]
      BY <2>6, <3>3
    <3> QED BY <3>1, <3>2, <3>4
  <2> QED BY <2>7, <2>9, <2>10, <2>11 DEF CountInv
<1>4. ASSUME NEW r \in Runs, BeginStreams(r) PROVE CountInv'
  <2>1. \A q \in Runs : run'[q].phase = "queues" => run'[q] = run[q]
    BY <1>4 DEF BeginStreams, TypeOK
  <2>2. UNCHANGED <<registry, ever, pass>>
    BY <1>4 DEF BeginStreams
  <2>3. \A q \in Passes : Finished(q)' = Finished(q)
    BY <2>2 DEF Finished
  <2>4. ASSUME NEW q \in Runs, run'[q].phase = "queues"
        PROVE  /\ registry'[q].expired /\ registry'[q].names = {}
               /\ run'[q].deleted = Cardinality(ever'[q])
    BY <2>1, <2>2, <2>4 DEF CountInv
  <2> QED BY <2>2, <2>3, <2>4 DEF CountInv
<1>5. ASSUME NEW p \in Passes, StartPass(p) PROVE CountInv'
  BY <1>2, <1>5 DEF StartPass, NoPass, TypeOK
<1>6. ASSUME NEW p \in Passes, ExpireRegistry(p) PROVE CountInv'
  <2> DEFINE r == RunOf(p)
  <2>1. r \in Runs
    BY RunsOfPasses
  <2>2. /\ registry' = [registry EXCEPT ![r].expired = TRUE]
        /\ UNCHANGED <<run, ever>>
        /\ pass[p].pc = "registry" /\ pass'[p].pc = "stream"
        /\ \A q \in Passes : q # p => pass'[q] = pass[q]
    BY <1>6 DEF ExpireRegistry, TypeOK
  <2>3. \A q \in Runs : /\ registry'[q].names = registry[q].names
                        /\ registry'[q].deleted = registry[q].deleted
                        /\ registry'[q].expired = (registry[q].expired \/ q = r)
    <3> HIDE DEF r
    <3> DEFINE fenced == [registry[r] EXCEPT !.expired = TRUE]
    <3>1. registry \in [Runs -> [expired : BOOLEAN, names : SUBSET Names, deleted : Nat]]
      BY DEF TypeOK
    <3>2. registry' = [registry EXCEPT ![r] = fenced]
      BY <2>1, <2>2, <3>1
    <3>3. registry[r] \in [expired : BOOLEAN, names : SUBSET Names, deleted : Nat]
      BY <2>1, <3>1
    <3>4. /\ fenced.names = registry[r].names
          /\ fenced.deleted = registry[r].deleted
          /\ fenced.expired = TRUE
      BY <3>3
    <3> HIDE DEF fenced
    <3>5. registry'[r] = fenced /\ \A q \in Runs : q # r => registry'[q] = registry[q]
      BY <2>1, <3>1, <3>2
    <3>6. ASSUME NEW q \in Runs
          PROVE  /\ registry'[q].names = registry[q].names
                 /\ registry'[q].deleted = registry[q].deleted
                 /\ registry'[q].expired = (registry[q].expired \/ q = r)
      <4>1. CASE q = r
        BY <3>4, <3>5, <4>1
      <4>2. CASE q # r
        <5>1. registry[q].expired \in BOOLEAN
          BY <3>1
        <5> QED BY <3>5, <4>2, <5>1
      <4> QED BY <4>1, <4>2
    <3> QED BY <3>6
  <2>4. ASSUME NEW q \in Runs
        PROVE  /\ registry'[q].names \subseteq ever'[q]
               /\ registry'[q].deleted = Cardinality(ever'[q] \ registry'[q].names)
               /\ ~registry'[q].expired => registry'[q].names = ever'[q]
    <3>1. registry'[q].names = registry[q].names /\ ever'[q] = ever[q]
      BY <2>2, <2>3
    <3>2. Cardinality(ever'[q] \ registry'[q].names) = Cardinality(ever[q] \ registry[q].names)
      BY <3>1, Zenon
    <3>3. /\ registry[q].names \subseteq ever[q]
          /\ registry[q].deleted = Cardinality(ever[q] \ registry[q].names)
          /\ ~registry[q].expired => registry[q].names = ever[q]
      BY DEF CountInv
    <3>4. registry'[q].deleted = registry[q].deleted
          /\ (~registry'[q].expired => ~registry[q].expired)
      BY <2>3
    <3> QED BY <3>1, <3>2, <3>3, <3>4, Zenon
  <2>5. ASSUME NEW q \in Passes, pass'[q].pc \in {"stream", "commit"}
        PROVE  registry'[RunOf(q)].expired
    <3>1. RunOf(q) \in Runs
      BY RunsOfPasses
    <3>2. CASE q = p
      BY <2>3, <3>1, <3>2
    <3>3. CASE q # p
      <4>1. registry[RunOf(q)].expired
        BY <2>2, <2>5, <3>3 DEF CountInv
      <4> QED BY <2>3, <3>1, <4>1
    <3> QED BY <3>2, <3>3
  <2>6. \A q \in Passes : Finished(q)' =>
           registry'[RunOf(q)].names = {} /\ pass'[q].deleted = Cardinality(ever'[RunOf(q)])
    BY <2>2, <2>3, RunsOfPasses DEF CountInv, Finished
  <2>7. \A q \in Runs : run'[q].phase = "queues" =>
           /\ registry'[q].expired /\ registry'[q].names = {}
           /\ run'[q].deleted = Cardinality(ever'[q])
    BY <2>2, <2>3 DEF CountInv
  <2> QED BY <2>4, <2>5, <2>6, <2>7 DEF CountInv
<1>7. ASSUME NEW p \in Passes, NEW n \in Names, ExpireStream(p, n) PROVE CountInv'
  <2>1. pass[p] \in Pass /\ pass[p].pc = "stream"
    BY <1>7, Busy DEF ExpireStream, Reaches
  <2>2. \A q \in Passes : q # p => pass'[q] = pass[q]
    BY <1>7 DEF ExpireStream, TypeOK
  <2>3. pass'[p].pc = "stream"
    BY <1>7, <2>1 DEF ExpireStream, TypeOK, Pass
  <2> QED BY <1>2, <1>7, <2>1, <2>2, <2>3 DEF ExpireStream
<1>8. ASSUME NEW p \in Passes, NEW n \in Names, ExpireStreamThrows(p, n) PROVE CountInv'
  BY <1>2, <1>8 DEF ExpireStreamThrows, NoPass, TypeOK
<1>9. ASSUME NEW p \in Passes, FinalizeRegistry(p) PROVE CountInv'
  <2> DEFINE r == RunOf(p)
             names == registry[r].names
             removed == names \cap pass[p].done
             left == names \ pass[p].done
             deleted == registry[r].deleted + Cardinality(removed)
  <2>1. /\ pass[p] \in Pass /\ r \in Runs /\ registry[r].expired /\ names \in SUBSET ever[r]
        /\ registry[r].deleted = Cardinality(ever[r] \ names)
    BY <1>9, Busy, RunsOfPasses DEF FinalizeRegistry, CountInv
  <2>2. /\ registry' = [registry EXCEPT ![r].names = left, ![r].deleted = deleted]
        /\ pass' = [pass EXCEPT ![p].pc = "commit", ![p].deleted = deleted, ![p].last = left = {}]
        /\ UNCHANGED <<run, ever>>
    BY <1>9 DEF FinalizeRegistry
  <2>3. deleted = Cardinality(ever[r] \ left)
    <3> DEFINE before == ever[r] \ names
               after == ever[r] \ left
    <3>1. /\ before \in SUBSET Names /\ removed \in SUBSET Names
          /\ before \cap removed = {} /\ before \cup removed = after
      BY <2>1 DEF TypeOK
    <3>2. registry[r].deleted = Cardinality(before)
      BY <2>1
    <3> HIDE DEF before, after, removed
    <3>3. Cardinality(before \cup removed)
             = Cardinality(before) + Cardinality(removed) - Cardinality(before \cap removed)
      BY <3>1, Sizes, FS_Union
    <3>4. Cardinality(before) \in Nat /\ Cardinality(removed) \in Nat
          /\ Cardinality(before \cap removed) = 0
      BY <3>1, Sizes, FS_EmptySet
    <3>5. Cardinality(before \cup removed) = Cardinality(after)
      BY <3>1, Zenon
    <3>6. Cardinality(after) = Cardinality(before) + Cardinality(removed)
      BY <3>3, <3>4, <3>5
    <3> QED BY <3>2, <3>6 DEF after
  <2>4. left \in SUBSET names
    OBVIOUS
  <2>5. deleted \in Nat
    <3>1. ever[r] \ left \in SUBSET Names
      BY <2>1 DEF TypeOK
    <3> QED BY <2>3, <3>1, Sizes
  <2>6. left = {} => ever[r] \ left = ever[r]
    OBVIOUS
  <2> HIDE DEF left, deleted
  <2>7. /\ registry'[r].names = left /\ registry'[r].deleted = deleted /\ registry'[r].expired
        /\ \A q \in Runs : q # r => registry'[q] = registry[q]
    BY <2>1, <2>2 DEF TypeOK
  <2>8. /\ pass'[p].pc = "commit" /\ pass'[p].deleted = deleted /\ pass'[p].last = (left = {})
        /\ \A q \in Passes : q # p => pass'[q] = pass[q]
    BY <2>1, <2>2 DEF TypeOK, Pass
  <2>9. \A q \in Runs :
           /\ registry'[q].names \subseteq ever'[q]
           /\ registry'[q].deleted = Cardinality(ever'[q] \ registry'[q].names)
           /\ ~registry'[q].expired => registry'[q].names = ever'[q]
    <3>1. /\ registry'[r].names \subseteq ever'[r]
          /\ registry'[r].deleted = Cardinality(ever'[r] \ registry'[r].names)
          /\ registry'[r].expired
      <4>1. registry'[r].names = left /\ ever'[r] = ever[r] /\ registry'[r].deleted = deleted
            /\ registry'[r].expired
        BY <2>2, <2>7
      <4>2. left \subseteq ever[r]
        BY <2>1, <2>4
      <4> HIDE DEF r
      <4> QED BY <2>3, <4>1, <4>2, Zenon
    <3>2. ASSUME NEW q \in Runs, q # r
          PROVE  /\ registry'[q].names \subseteq ever'[q]
                 /\ registry'[q].deleted = Cardinality(ever'[q] \ registry'[q].names)
                 /\ ~registry'[q].expired => registry'[q].names = ever'[q]
      <4>1. registry'[q] = registry[q] /\ ever'[q] = ever[q]
        BY <2>2, <2>7, <3>2
      <4>2. /\ registry[q].names \subseteq ever[q]
            /\ registry[q].deleted = Cardinality(ever[q] \ registry[q].names)
            /\ ~registry[q].expired => registry[q].names = ever[q]
        BY DEF CountInv
      <4> QED BY <4>1, <4>2, Zenon
    <3> QED BY <3>1, <3>2
  <2>10. \A q \in Passes : pass'[q].pc \in {"stream", "commit"} => registry'[RunOf(q)].expired
    BY <2>7, <2>8, RunsOfPasses DEF CountInv
  <2>11. ASSUME NEW q \in Passes, Finished(q)'
         PROVE  registry'[RunOf(q)].names = {} /\ pass'[q].deleted = Cardinality(ever'[RunOf(q)])
    <3>1. CASE q = p
      BY <2>2, <2>3, <2>6, <2>7, <2>8, <2>11, <3>1 DEF Finished
    <3>2. CASE q # p
      <4>1. Finished(q) /\ pass'[q] = pass[q] /\ RunOf(q) \in Runs
        BY <2>8, <2>11, <3>2, RunsOfPasses DEF Finished
      <4>2. registry[RunOf(q)].names = {} /\ pass[q].deleted = Cardinality(ever[RunOf(q)])
        BY <4>1 DEF CountInv
      <4>3. registry'[RunOf(q)].names \subseteq registry[RunOf(q)].names
        BY <2>4, <2>7, <4>1
      <4> QED BY <2>2, <4>1, <4>2, <4>3
    <3> QED BY <3>1, <3>2
  <2>12. \A q \in Runs : run'[q].phase = "queues" =>
            /\ registry'[q].expired /\ registry'[q].names = {}
            /\ run'[q].deleted = Cardinality(ever'[q])
    BY <2>2, <2>4, <2>7 DEF CountInv
  <2> QED BY <2>9, <2>10, <2>11, <2>12 DEF CountInv
<1>10. ASSUME NEW p \in Passes, CommitStreamPage(p) PROVE CountInv'
  <2> DEFINE r == RunOf(p)
  <2>1. pass[p] \in Pass /\ r \in Runs
    BY <1>10, Busy, RunsOfPasses DEF CommitStreamPage
  <2>2. /\ UNCHANGED <<registry, ever>> /\ pass[p].pc = "commit" /\ pass'[p].pc = "idle"
        /\ \A q \in Passes : q # p => pass'[q] = pass[q]
    BY <1>10 DEF CommitStreamPage, NoPass, TypeOK
  <2>3. \A q \in Runs : run'[q].phase = "queues" =>
           run'[q] = run[q] \/ (q = r /\ pass[p].last /\ run'[q].deleted = pass[p].deleted)
    <3>1. CASE run' = run
      BY <3>1
    <3>2. CASE run' # run
      <4> DEFINE phase == IF pass[p].last THEN "queues" ELSE "streams"
                 new == [phase |-> phase, gen |-> run[r].gen + 1, deleted |-> pass[p].deleted]
      <4>1. run' = [run EXCEPT ![r] = new]
        BY <1>10, <3>2 DEF CommitStreamPage
      <4>2. new.phase = phase /\ new.deleted = pass[p].deleted
        OBVIOUS
      <4>3. phase = "queues" => pass[p].last
        OBVIOUS
      <4> HIDE DEF r, new, phase
      <4>4. run'[r] = new /\ \A q \in Runs : q # r => run'[q] = run[q]
        BY <2>1, <4>1 DEF TypeOK
      <4> QED BY <4>2, <4>3, <4>4
    <3> QED BY <3>1, <3>2
  <2>4. ASSUME NEW q \in Runs, run'[q].phase = "queues"
        PROVE  /\ registry'[q].expired /\ registry'[q].names = {}
               /\ run'[q].deleted = Cardinality(ever'[q])
    <3>1. CASE run'[q] = run[q]
      BY <2>2, <2>4, <3>1 DEF CountInv
    <3>2. CASE q = r /\ pass[p].last /\ run'[q].deleted = pass[p].deleted
      <4>1. Finished(p)
        BY <2>2, <3>2 DEF Finished
      <4>2. registry[r].expired /\ registry[r].names = {} /\ pass[p].deleted = Cardinality(ever[r])
        BY <2>2, <4>1 DEF CountInv
      <4> QED BY <2>2, <3>2, <4>2
    <3> QED BY <2>3, <2>4, <3>1, <3>2
  <2>5. \A q \in Passes : pass'[q].pc \in {"stream", "commit"} => pass'[q] = pass[q]
    BY <2>2
  <2>6. \A q \in Passes : Finished(q)' => pass'[q] = pass[q] /\ Finished(q)
    BY <2>5 DEF Finished
  <2> QED BY <2>2, <2>4, <2>5, <2>6 DEF CountInv
<1>11. ASSUME NEW p \in Passes, LosePass(p) PROVE CountInv'
  BY <1>2, <1>11 DEF LosePass, NoPass, TypeOK
<1>12. CASE UNCHANGED <<registry, ever, run, pass>>
  BY <1>2, <1>12
<1> QED
  BY <1>3, <1>4, <1>5, <1>6, <1>7, <1>8, <1>9, <1>10, <1>11, <1>12 DEF Next, vars, ClientStep,
     PassStep, Ask, RegisterStream, RegisterUnanswered, CallStream, LoseClient

-----------------------------------------------------------------------------
(* A run leaves the stream phase of its retention only when every stream it *)
(* owns is fenced and empty, whichever clients and passes were lost.        *)
THEOREM NothingOfTheRunIsLeft == Spec => []ExpiredLeavesNothing
<1>1. Init => TypeOK /\ HeldInv /\ CountInv
  BY InitType, InitHeld, InitCount
<1>2. TypeOK /\ HeldInv /\ CountInv /\ [Next]_vars => (TypeOK /\ HeldInv /\ CountInv)'
  BY NextType, NextHeld, NextCount
<1>3. TypeOK /\ HeldInv /\ CountInv => ExpiredLeavesNothing
  BY DEF HeldInv, CountInv, Held, ExpiredLeavesNothing
<1> QED BY <1>1, <1>2, <1>3, PTL DEF Spec

(* The run cell is told exactly how many streams its run ever registered.   *)
THEOREM StreamsAreCountedOnce == Spec => []StreamsCountedOnce
<1>1. Init => TypeOK /\ CountInv
  BY InitType, InitCount
<1>2. TypeOK /\ CountInv /\ [Next]_vars => (TypeOK /\ CountInv)'
  BY NextType, NextCount
<1>3. CountInv => StreamsCountedOnce
  BY DEF CountInv, StreamsCountedOnce
<1> QED BY <1>1, <1>2, <1>3, PTL DEF Spec

=============================================================================
