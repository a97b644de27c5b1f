--------------------------- MODULE StreamRegistry ---------------------------
(***************************************************************************)
(* The removal of a run's streams: the registry cell of each run and the   *)
(* stream cells (StreamDO.ts), the clients that register a stream before   *)
(* they write or finish it (streamer.ts), and the stream phase of the run  *)
(* cell's retention (WorkflowRunDO.ts).  StreamCell has one stream in      *)
(* detail; here a stream is its owner, its state and how many rows it has. *)
(*                                                                         *)
(* A pass of the retention and a client's request take several calls to    *)
(* different cells.  Each call is one action; a pass or a client may be    *)
(* lost between two of them or before it has an answer, and a pass that    *)
(* was given up may still be going on when the next one starts.            *)
(***************************************************************************)
EXTENDS Naturals, FiniteSets

CONSTANTS
    Runs,
    Names,      \* stream names: numbers, in the order a registry lists them
    Uses,       \* the runs and streams that clients work on: pairs <<run, name>>
    Clients,    \* processes of the client library
    Passes,     \* bound: passes <<run, i>> of the retention in progress at once
    Begun,      \* bound: what was written before: functions from Names, see Init
    None,       \* "undefined"
    CacheSize,  \* REGISTERED_STREAM_CACHE_SIZE
    PageNames,  \* STREAMS_PER_CLEANUP_PAGE
    PageRows,   \* STREAM_CHUNKS_PER_CLEANUP_PAGE
    MaxWrites,  \* bound: requests of the clients
    MaxFaults   \* bound: clients, passes and answers lost

ASSUME RegistryAssumption ==
    /\ Names \subseteq Nat /\ IsFiniteSet(Names)
    /\ Uses \subseteq Runs \X Names
    /\ None \notin Runs
    /\ Passes \subseteq Runs \X Nat
    /\ Begun \subseteq [Names -> [owner : Runs \cup {None}, rows : Nat]]
    /\ CacheSize \in Nat \ {0} /\ PageNames \in Nat \ {0} /\ PageRows \in Nat \ {0}
    /\ MaxWrites \in Nat /\ MaxFaults \in Nat

VARIABLES
    registry,  \* of each run: its fence, its names and how many were removed
    stream,    \* of each name: owner, state, rows and payloadDeleted
    known,     \* per client: registeredStreams
    client,    \* per client: the request in progress
    run,       \* of each run cell: cleanup phase, generation and deletedStreams
    pass,      \* deleteStreamPage in progress
    writes,    \* requests left
    faults,    \* faults left
    ever       \* history: the names each run registered

vars == <<registry, stream, known, client, run, pass, writes, faults, ever>>

Idle == [pc |-> "idle", run |-> None, name |-> None, kind |-> None]
NoPass == [pc |-> "idle", gen |-> 0, page |-> {}, done |-> {},
           rows |-> 0, deleted |-> 0, last |-> FALSE]

-----------------------------------------------------------------------------
(* Clients.                                                                 *)

(* Every write, close and failure makes sure first that the stream is       *)
(* registered for its run; a client remembers what it registered.           *)
Ask(c, use, kind) ==
    /\ client[c].pc = "idle" /\ writes > 0
    /\ writes' = writes - 1
    /\ client' = [client EXCEPT ![c] =
         [pc |-> IF use \in known[c] THEN "call" ELSE "register",
          run |-> use[1], name |-> use[2], kind |-> kind]]
    /\ UNCHANGED <<registry, stream, known, run, pass, faults, ever>>

Register(r, n) ==
    /\ registry' = [registry EXCEPT ![r].names = @ \cup {n}]
    /\ ever' = [ever EXCEPT ![r] = @ \cup {n}]

(* What a client remembers: the newest registration, and of the others one  *)
(* is forgotten when there are too many.                                    *)
Remembered(c, use) ==
    IF Cardinality(known[c]) < CacheSize THEN {known[c] \cup {use}}
    ELSE {(known[c] \ {old}) \cup {use} : old \in known[c]}

RegisterStream(c) ==
    LET r == client[c].run  n == client[c].name IN
    /\ client[c].pc = "register"
    /\ \/ /\ registry[r].expired
          /\ client' = [client EXCEPT ![c] = Idle]
          /\ UNCHANGED <<registry, known, ever>>
       \/ /\ ~registry[r].expired
          /\ Register(r, n)
          /\ \E uses \in Remembered(c, <<r, n>>) : known' = [known EXCEPT ![c] = uses]
          /\ client' = [client EXCEPT ![c].pc = "call"]
    /\ UNCHANGED <<stream, run, pass, writes, faults>>

(* The registration takes effect and the client is not told: it fails.      *)
RegisterUnanswered(c) ==
    /\ client[c].pc = "register" /\ faults > 0
    /\ ~registry[client[c].run].expired
    /\ Register(client[c].run, client[c].name)
    /\ client' = [client EXCEPT ![c] = Idle]
    /\ faults' = faults - 1
    /\ UNCHANGED <<stream, known, run, pass, writes>>

(* Mutant: a stream that nobody has written belongs to nobody.              *)
OwnerIsRun(s, r) == s.owner = r

OwnerIs(s, r) == s.owner = None \/ s.owner = r

(* Mutant: only a closed stream refuses a write.                            *)
WriteUnfenced(s, r) == IF OwnerIs(s, r) /\ s.state # "closed"
                       THEN [s EXCEPT !.owner = r, !.rows = @ + 1] ELSE s

(* The mutations of a stream cell; a refused one changes nothing.           *)
Write(s, r) == IF OwnerIs(s, r) /\ s.state = "open"
               THEN [s EXCEPT !.owner = r, !.rows = @ + 1] ELSE s

Finish(s, r) == IF OwnerIs(s, r) /\ s.state = "open"
                THEN [s EXCEPT !.owner = r, !.state = "closed"] ELSE s

CallStream(c) ==
    LET q == client[c] IN
    /\ q.pc = "call"
    /\ stream' = [stream EXCEPT ![q.name] =
                    IF q.kind = "write" THEN Write(@, q.run) ELSE Finish(@, q.run)]
    /\ client' = [client EXCEPT ![c] = Idle]
    /\ UNCHANGED <<registry, known, run, pass, writes, faults, ever>>

(* The client is started anew, or gives its request up.                     *)
LoseClient(c) ==
    /\ faults > 0
    /\ faults' = faults - 1
    /\ client' = [client EXCEPT ![c] = Idle]
    /\ known' = [known EXCEPT ![c] = {}]
    /\ UNCHANGED <<registry, stream, run, pass, writes, ever>>

-----------------------------------------------------------------------------
(* The stream phase of a run's retention.                                   *)

(* The retention of the run has come to its streams; its clients need not   *)
(* have noticed.                                                            *)
BeginStreams(r) ==
    /\ run[r].phase = "index"
    /\ run' = [run EXCEPT ![r].phase = "streams"]
    /\ UNCHANGED <<registry, stream, known, client, pass, writes, faults, ever>>

(* The alarm starts a pass with the generation it read.                     *)
RunOf(p) == p[1]
StartPass(p) ==
    /\ pass[p].pc = "idle" /\ run[RunOf(p)].phase = "streams"
    /\ pass' = [pass EXCEPT ![p] = [NoPass EXCEPT !.pc = "registry", !.gen = run[RunOf(p)].gen]]
    /\ UNCHANGED <<registry, stream, known, client, run, writes, faults, ever>>

(* The names a registry lists first.                                        *)
PageOf(names) == {n \in names : Cardinality({m \in names : m < n}) < PageNames}

(* The fence goes up before any stream is touched.                          *)
ExpireRegistry(p) ==
    LET r == RunOf(p) IN
    /\ pass[p].pc = "registry"
    /\ registry' = [registry EXCEPT ![r].expired = TRUE]
    /\ pass' = [pass EXCEPT ![p].pc = "stream", ![p].page = PageOf(registry[r].names),
                            ![p].rows = PageRows]
    /\ UNCHANGED <<stream, known, client, run, writes, faults, ever>>

HasBudget(p) == pass[p].page # {} /\ pass[p].rows > 0
Reaches(p, n) ==
    /\ pass[p].pc = "stream" /\ HasBudget(p)
    /\ n \in pass[p].page /\ \A m \in pass[p].page : n <= m

(* One stream after the other, while the pass has rows left to delete; a    *)
(* stream whose rows are all gone is done.                                  *)
ExpireStream(p, n) ==
    LET r == RunOf(p)
        s == stream[n]
        deleted == IF s.rows <= pass[p].rows THEN s.rows ELSE pass[p].rows
        done == deleted = s.rows
    IN
    /\ Reaches(p, n) /\ OwnerIs(s, r)
    /\ stream' = [stream EXCEPT ![n] = [owner |-> r, state |-> "expired",
                                        rows |-> s.rows - deleted, deleted |-> done]]
    /\ pass' = [pass EXCEPT ![p].page = @ \ {n}, ![p].rows = @ - deleted,
                            ![p].done = IF done THEN @ \cup {n} ELSE @]
    /\ UNCHANGED <<registry, known, client, run, writes, faults, ever>>

(* "Stream is owned by workflow run ...": the pass throws and is retried.   *)
ExpireStreamThrows(p, n) ==
    /\ Reaches(p, n) /\ ~OwnerIs(stream[n], RunOf(p))
    /\ pass' = [pass EXCEPT ![p] = NoPass]
    /\ UNCHANGED <<registry, stream, known, client, run, writes, faults, ever>>

(* Mutant: what the pass expired is counted, removed before or not.         *)
FinalizeRegistryCountsDone(p) ==
    LET r == RunOf(p)
        left == registry[r].names \ pass[p].done
        deleted == registry[r].deleted + Cardinality(pass[p].done)
    IN
    /\ pass[p].pc = "stream" /\ ~HasBudget(p)
    /\ registry' = [registry EXCEPT ![r].names = left, ![r].deleted = deleted]
    /\ pass' = [pass EXCEPT ![p].pc = "commit", ![p].deleted = deleted, ![p].last = left = {}]
    /\ UNCHANGED <<stream, known, client, run, writes, faults, ever>>

FinalizeRegistry(p) ==
    LET r == RunOf(p)
        removed == registry[r].names \cap pass[p].done
        left == registry[r].names \ pass[p].done
        deleted == registry[r].deleted + Cardinality(removed)
    IN
    /\ pass[p].pc = "stream" /\ ~HasBudget(p)
    /\ registry' = [registry EXCEPT ![r].names = left, ![r].deleted = deleted]
    /\ pass' = [pass EXCEPT ![p].pc = "commit", ![p].deleted = deleted, ![p].last = left = {}]
    /\ UNCHANGED <<stream, known, client, run, writes, faults, ever>>

(* The pass commits to the run cell, unless another one did.                *)
CommitStreamPage(p) ==
    LET r == RunOf(p) IN
    /\ pass[p].pc = "commit"
    /\ run' = IF run[r].phase = "streams" /\ run[r].gen = pass[p].gen
              THEN [run EXCEPT ![r] = [phase |-> IF pass[p].last THEN "queues" ELSE "streams",
                                       gen |-> @.gen + 1, deleted |-> pass[p].deleted]]
              ELSE run
    /\ pass' = [pass EXCEPT ![p] = NoPass]
    /\ UNCHANGED <<registry, stream, known, client, writes, faults, ever>>

LosePass(p) ==
    /\ pass[p].pc # "idle" /\ faults > 0
    /\ faults' = faults - 1
    /\ pass' = [pass EXCEPT ![p] = NoPass]
    /\ UNCHANGED <<registry, stream, known, client, run, writes, ever>>

-----------------------------------------------------------------------------
(* Runs already have streams that clients registered and wrote.             *)
Init ==
    /\ \E begun \in Begun :
          /\ stream = [n \in Names |-> [owner |-> begun[n].owner, state |-> "open",
                                        rows |-> begun[n].rows, deleted |-> FALSE]]
          /\ ever = [r \in Runs |-> {n \in Names : begun[n].owner = r}]
    /\ registry = [r \in Runs |-> [expired |-> FALSE, names |-> ever[r], deleted |-> 0]]
    /\ known \in [Clients -> {uses \in SUBSET Uses :
                      /\ Cardinality(uses) <= CacheSize
                      /\ \A use \in uses : use[2] \in ever[use[1]]}]
    /\ client = [c \in Clients |-> Idle]
    /\ run = [r \in Runs |-> [phase |-> "index", gen |-> 0, deleted |-> 0]]
    /\ pass = [p \in Passes |-> NoPass]
    /\ writes = MaxWrites /\ faults = MaxFaults

ClientStep(c) ==
    \/ \E use \in Uses, kind \in {"write", "finish"} : Ask(c, use, kind)
    \/ RegisterStream(c) \/ RegisterUnanswered(c) \/ CallStream(c)
    \/ LoseClient(c)

PassStep(p) ==
    \/ ExpireRegistry(p) \/ FinalizeRegistry(p) \/ CommitStreamPage(p)
    \/ \E n \in Names : ExpireStream(p, n) \/ ExpireStreamThrows(p, n)

Next ==
    \/ \E c \in Clients : ClientStep(c)
    \/ \E r \in Runs : BeginStreams(r)
    \/ \E p \in Passes : StartPass(p) \/ PassStep(p) \/ LosePass(p)

Spec == Init /\ [][Next]_vars

(* The alarm is durable: it starts a pass of every run whose streams are    *)
(* due (RunLifecycle!WorkIsArmed), and a pass goes on.                      *)
Fairness ==
    \A p \in Passes : WF_vars(StartPass(p)) /\ WF_vars(PassStep(p))

FairSpec == Spec /\ Fairness

-----------------------------------------------------------------------------
Request == [pc : {"register", "call"}, run : Runs, name : Names, kind : {"write", "finish"}]
Pass == [pc : {"registry", "stream", "commit"}, gen : Nat, page : SUBSET Names,
         done : SUBSET Names, rows : Nat, deleted : Nat, last : BOOLEAN]

(* Type invariant.                                                          *)
TypeOK ==
    /\ registry \in [Runs -> [expired : BOOLEAN, names : SUBSET Names, deleted : Nat]]
    /\ stream \in [Names -> [owner : Runs \cup {None}, state : {"open", "closed", "expired"},
                             rows : Nat, deleted : BOOLEAN]]
    /\ known \in [Clients -> SUBSET (Runs \X Names)]
    /\ client \in [Clients -> Request \cup {Idle}]
    /\ run \in [Runs -> [phase : {"index", "streams", "queues"}, gen : Nat, deleted : Nat]]
    /\ pass \in [Passes -> Pass \cup {NoPass}]
    /\ writes \in 0..MaxWrites /\ faults \in 0..MaxFaults
    /\ ever \in [Runs -> SUBSET Names]

Gone(n) == stream[n].state = "expired" /\ stream[n].rows = 0

(* deleteStreamPage: a run leaves the stream phase only when every stream   *)
(* it owns is fenced and empty, so nothing of it can be written again.      *)
ExpiredLeavesNothing ==
    \A r \in Runs, n \in Names :
        run[r].phase = "queues" /\ stream[n].owner = r => Gone(n)

(* "The transaction makes a crash retry resume safely": repeated and lost   *)
(* passes do not change the number of streams that is reported deleted.     *)
StreamsCountedOnce ==
    \A r \in Runs :
        run[r].phase = "queues" => run[r].deleted = Cardinality(ever[r])

(* A run's streams are removed in the end, whichever passes are lost,       *)
(* unless the run registered a stream that belongs to another run.          *)
Contested(r) == \E n \in ever[r] : stream[n].owner \notin {None, r}
StreamsAreRemoved ==
    \A r \in Runs :
        run[r].phase = "streams" ~> (run[r].phase = "queues" \/ Contested(r))

=============================================================================
