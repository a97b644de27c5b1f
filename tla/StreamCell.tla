----------------------------- MODULE StreamCell -----------------------------
(***************************************************************************)
(* One workflow stream: its cell (StreamDO.ts), the fleet client that      *)
(* reads and writes it (stream-client.ts) and the client library's writers *)
(* and readers (streamer.ts).                                              *)
(*                                                                         *)
(* A write, a close, a failure and an expiry page are mutations: the cell  *)
(* runs them one at a time, each commits its storage transaction and only  *)
(* then, in a later turn, publishes the new metadata to memory and wakes   *)
(* the waiting readers.  A read takes the metadata from memory and then    *)
(* needs two or three storage calls; everything else may happen between    *)
(* them.  The cell may be restarted at any time, losing its memory and all *)
(* requests in flight.  Storage answers arrive in the order in which       *)
(* storage served the calls.                                               *)
(***************************************************************************)
EXTENDS Naturals, FiniteSets, Sequences, SequencesExt

CONSTANTS
    Writers, Readers,
    Cleaner,       \* the run cell's retention, which expires the stream
    Chunks,        \* the chunks written: records [by, size, ...]
    Runs,          \* run IDs
    None,          \* "undefined"
    Setups,        \* bound: the behaviours considered, see Setup
    BatchChunks,   \* chunks in one write request (streamChunkLimit)
    BatchBytes,    \* MAX_STREAM_BATCH_BYTES
    SegmentBytes,  \* MAX_SEGMENT_BYTES
    ReadChunks,    \* chunks in one read (streamChunkLimit)
    ReadBytes,     \* MAX_STREAM_READ_BYTES
    MaxIndex,      \* MAX_STREAM_INDEX
    ReadAttempts   \* READ_ATTEMPTS

(* A call that writes goes on with the writer's chunks, up to that one.     *)
Calls == [kind : {"write"}, upTo : Nat] \cup [kind : {"close", "fail"}]

(* What was stored by an earlier release (one row per chunk), the chunks   *)
(* each writer writes and its calls in order, the run each client names,   *)
(* which readers pull and where they start (backwards: counted from the    *)
(* end), the page limits of the expiry; bounds: expiry passes and faults.  *)
Setup == [legacy : Seq(Chunks), text : [Writers -> Seq(Chunks)],
          calls : [Writers -> Seq(Calls)],
          run : [Writers \cup Readers \cup {Cleaner} -> Runs],
          pulling : SUBSET Readers, start : [Readers -> Nat], backwards : SUBSET Readers,
          pageChunks : Nat \ {0}, pageBytes : Nat \ {0},
          passes : Nat, faults : Nat]

ASSUME StreamAssumption ==
    /\ Setups \subseteq Setup
    /\ \A s \in Setups :
          /\ \A i \in DOMAIN s.legacy : s.legacy[i].by = None
          /\ \A w \in Writers :
                /\ \A i \in DOMAIN s.text[w] : s.text[w][i].by = w
                /\ \A i \in DOMAIN s.calls[w] :
                      s.calls[w][i].kind = "write" => s.calls[w][i].upTo <= Len(s.text[w])
    /\ Chunks \subseteq [by : Writers \cup {None}, id : Nat, size : Nat]
    /\ \A c \in Chunks : c.size <= ReadBytes
    /\ None \notin Runs /\ None \notin Writers /\ Cleaner \notin Writers
    /\ BatchChunks \in Nat \ {0} /\ BatchBytes \in Nat /\ SegmentBytes \in Nat
    /\ ReadChunks \in Nat \ {0} /\ ReadBytes \in Nat
    /\ MaxIndex \in Nat /\ ReadAttempts \in Nat \ {0}

VARIABLES
    setup,
    meta,     \* stored metadata row; EmptyMeta stands for no row
    rows,     \* stored segments: index of the first chunk -> chunks
    cached,   \* this.meta, None until it is loaded
    version,  \* this.changeVersion
    queue,    \* mutations waiting for their turn (mutationTail)
    landed,   \* the mutation that committed and has not been published
    frame,    \* the read each reader has in flight in the cell
    reader,   \* the readers' streams in the client
    writer,   \* the writers in the client
    passes,   \* expiry passes left
    faults,   \* lost answers, garbled answers and restarts left
    log,      \* history: every chunk ever committed
    outcome,  \* history: how the stream was finished
    got       \* history: what each reader was given

cell == <<meta, rows, cached, version, queue, landed>>
history == <<log, outcome, got>>
vars == <<setup, cell, frame, reader, writer, passes, faults, history>>

-----------------------------------------------------------------------------
(* Metadata, rows and sizes.                                                *)

EmptyMeta == [count |-> 0, state |-> "open", owner |-> None,
              segmented |-> FALSE, deleted |-> FALSE]

StreamMeta == [count : Nat, state : {"open", "closed", "errored", "expired"},
               owner : Runs \cup {None}, segmented : BOOLEAN, deleted : BOOLEAN]

(* A request to change the stream, and what it leaves for its continuation. *)
Mutation == [who : Writers \cup {Cleaner}, kind : {"write", "close", "fail", "expire"},
             run : Runs, chunks : Seq(Chunks), pass : Nat]
Landing == [op : Mutation, meta : StreamMeta]

ASSUME NoneAssumption == None \notin StreamMeta /\ None \notin Landing

Bytes(s) == FoldLeft(LAMBDA n, c : n + c.size, 0, s)

(* The loops that fill a batch, a page or an answer: n elements of s, the   *)
(* next one would exceed the limits.                                        *)
Within(s, chunks, bytes) == Len(s) <= chunks /\ Bytes(s) <= bytes
Fills(s, n, chunks, bytes) ==
    n = Len(s) \/ ~Within(SubSeq(s, 1, n + 1), chunks, bytes)

Smaller(m, n) == IF m < n THEN m ELSE n

(* The ways to cut s into pieces, each given by the positions where a piece *)
(* begins; the rows that a cut gives.                                       *)
Cuts(s) == {c \in SUBSET (1..Len(s)) : 1 \in c}
Piece(s, c, i) ==
    SubSeq(s, i, CHOOSE j \in i..Len(s) :
                    /\ \A k \in (i + 1)..j : k \notin c
                    /\ j = Len(s) \/ j + 1 \in c)
(* Mutant: the rows are one index further.                                  *)
RowsOfShifted(first, s, c) ==
    [i \in {first + k : k \in c} |-> Piece(s, c, i - first)]

RowsOf(first, s, c) ==
    [i \in {first + k - 1 : k \in c} |-> Piece(s, c, i - first + 1)]

(* One write's chunks as rows.  A segment is filled until the next chunk    *)
(* would not fit; it holds one chunk at least.  The earlier layout has one  *)
(* row per chunk.                                                           *)
Greedy(s, c) ==
    \A i \in c :
        LET n == Len(Piece(s, c, i)) IN
        /\ n = 1 \/ Bytes(Piece(s, c, i)) <= SegmentBytes
        /\ i + n \in c => Bytes(SubSeq(s, i, i + n)) > SegmentBytes
Packings(first, s, segmented) ==
    {RowsOf(first, s, c) : c \in {c \in Cuts(s) : IF segmented THEN Greedy(s, c)
                                                  ELSE c = 1..Len(s)}}

-----------------------------------------------------------------------------
(* The client's requests.                                                   *)

Call(w) == setup.calls[w][writer[w].call]

(* A call that writes many chunks sends them in batches, each of one chunk  *)
(* at least; any other call is one request.                                 *)
IsBatch(s, n) ==
    /\ n = 1 \/ Within(SubSeq(s, 1, n), BatchChunks, BatchBytes)
    /\ Fills(s, n, BatchChunks, BatchBytes)
Batches(w) ==
    LET left == SubSeq(setup.text[w], writer[w].done + 1, Call(w).upTo) IN
    IF Call(w).kind # "write" THEN {<<>>}
    ELSE {SubSeq(left, 1, n) : n \in {n \in 1..Len(left) : IsBatch(left, n)}}

OwnerIs(m, run) == m.owner = None \/ m.owner = run

(* The requests of a writer, one after the other; any failure ends it.      *)
Send(w) ==
    /\ writer[w].pc = "ready"
    /\ \E batch \in Batches(w) :
          queue' = queue \cup {[who |-> w, kind |-> Call(w).kind, run |-> setup.run[w],
                                chunks |-> batch, pass |-> 0]}
    /\ writer' = [writer EXCEPT ![w].pc = "sent"]
    /\ UNCHANGED <<setup, meta, rows, cached, version, landed, frame, reader,
                   passes, faults, history>>

(* A writer at the start of call i, with the chunks it was told are stored. *)
AtCall(w, i, done) ==
    [pc |-> IF i <= Len(setup.calls[w]) THEN "ready" ELSE "done", call |-> i, done |-> done]

(* The writer whose request was answered goes on.                           *)
Acknowledged(op) ==
    LET w == op.who
        done == writer[w].done + Len(op.chunks)
    IN
    IF writer[w].pc # "sent" THEN writer[w]
    ELSE IF Call(w).kind = "write" /\ done < Call(w).upTo
    THEN [writer[w] EXCEPT !.pc = "ready", !.done = done]
    ELSE AtCall(w, writer[w].call + 1, done)

(* Mutant: a writer sends again what was not answered.                      *)
RefusedRetries(w) ==
    IF writer[w].pc = "sent" THEN [writer[w] EXCEPT !.pc = "ready"] ELSE writer[w]

Refused(w) == IF writer[w].pc = "sent" THEN [writer[w] EXCEPT !.pc = "failed"] ELSE writer[w]

(* Mutations are sent once: after a lost answer the writer cannot know      *)
(* whether the request took effect, or still will.                          *)
WriteTimesOut(w) ==
    /\ writer[w].pc = "sent" /\ faults > 0
    /\ writer' = [writer EXCEPT ![w] = Refused(w)]
    /\ faults' = faults - 1
    /\ UNCHANGED <<setup, cell, frame, reader, passes, history>>

(* A pass of the run's retention asks for one page to be expired.  A pass   *)
(* whose answer was lost is followed by another.                            *)
SendExpire ==
    /\ passes > 0
    /\ passes' = passes - 1
    /\ queue' = queue \cup {[who |-> Cleaner, kind |-> "expire",
                             run |-> setup.run[Cleaner], chunks |-> <<>>, pass |-> passes]}
    /\ UNCHANGED <<setup, meta, rows, cached, version, landed, frame, reader,
                   writer, faults, history>>

-----------------------------------------------------------------------------
(* Mutations.  Each is one transaction; Land is what every one of them      *)
(* leaves for its continuation.                                             *)

Takes(op) == op \in queue /\ landed = None
Lands(op, m) ==
    /\ meta' = m
    /\ landed' = [op |-> op, meta |-> m]
    /\ queue' = queue \ {op}
    /\ UNCHANGED <<setup, cached, version, frame, reader, writer, passes, faults, got>>

CanWrite(op) ==
    /\ OwnerIs(meta, op.run) /\ meta.state = "open"
    /\ meta.count + Len(op.chunks) <= MaxIndex

WriteChunks(op) ==
    LET segmented == IF meta = EmptyMeta THEN TRUE ELSE meta.segmented IN
    /\ Takes(op) /\ op.kind = "write" /\ CanWrite(op)
    /\ Lands(op, [count |-> meta.count + Len(op.chunks), state |-> "open",
                  owner |-> op.run, segmented |-> segmented, deleted |-> FALSE])
    /\ \E packed \in Packings(meta.count, op.chunks, segmented) :
          rows' = [i \in DOMAIN rows \cup DOMAIN packed |->
                     IF i \in DOMAIN packed THEN packed[i] ELSE rows[i]]
    /\ log' = log \o op.chunks
    /\ UNCHANGED outcome

(* Closing and failing are idempotent; the first one decides.               *)
CanFinish(op) == OwnerIs(meta, op.run) /\ meta.state # "expired"

FinishStream(op) ==
    LET state == IF op.kind = "close" THEN "closed" ELSE "errored" IN
    /\ Takes(op) /\ op.kind \in {"close", "fail"} /\ CanFinish(op)
    /\ Lands(op, IF meta.state # "open" THEN meta
                 ELSE [meta EXCEPT !.owner = op.run, !.state = state])
    /\ outcome' = IF meta.state # "open" THEN outcome ELSE state
    /\ UNCHANGED <<rows, log>>

(* One expiry page: the first rows, as many as stay within the limits and   *)
(* one in any case.  One row more than the limit is looked at, so the page  *)
(* that takes all that were looked at is the last.                          *)
First(starts, n) == {i \in starts : Cardinality({j \in starts : j < i}) < n}
RowChunks(starts) == MapThenSumSet(LAMBDA i : Len(rows[i]), starts)
RowBytes(starts) == MapThenSumSet(LAMBDA i : Bytes(rows[i]), starts)
PageWithin(page) ==
    RowChunks(page) <= setup.pageChunks /\ RowBytes(page) <= setup.pageBytes
IsExpirePage(seen, n) ==
    /\ n <= 1 \/ PageWithin(First(seen, n))
    /\ n = Cardinality(seen) \/ (n >= 1 /\ ~PageWithin(First(seen, n + 1)))

ExpireStream(op) ==
    LET seen == First(DOMAIN rows, setup.pageChunks + 1) IN
    /\ Takes(op) /\ op.kind = "expire" /\ OwnerIs(meta, op.run)
    /\ \E n \in {n \in 0..Cardinality(seen) : IsExpirePage(seen, n)} :
          LET left == DOMAIN rows \ First(seen, n)
              done == left = {}
          IN
          /\ rows' = [i \in left |-> rows[i]]
          /\ Lands(op, IF done /\ n = 0 /\ meta.state = "expired" /\ meta.deleted
                       THEN meta
                       ELSE [meta EXCEPT !.count = IF done THEN 0 ELSE @, !.owner = op.run,
                                         !.state = "expired", !.deleted = done])
    /\ UNCHANGED <<log, outcome>>

(* A mutation that throws changes nothing.                                  *)
Throws(op) ==
    /\ Takes(op)
    /\ CASE op.kind = "write" -> ~CanWrite(op)
         [] op.kind \in {"close", "fail"} -> ~CanFinish(op)
         [] op.kind = "expire" -> ~OwnerIs(meta, op.run)
    /\ queue' = queue \ {op}
    /\ writer' = IF op.who = Cleaner THEN writer
                 ELSE [writer EXCEPT ![op.who] = Refused(op.who)]
    /\ UNCHANGED <<setup, meta, rows, cached, version, landed, frame, reader,
                   passes, faults, history>>

(* The continuation of a mutation: the new metadata, and everyone who       *)
(* waits looks at it.                                                       *)
Woken(f) == IF f.pc = "wait" THEN [f EXCEPT !.pc = "again"] ELSE f
Publish ==
    /\ landed # None
    /\ cached' = landed.meta
    /\ version' = version + 1
    /\ frame' = [r \in Readers |-> Woken(frame[r])]
    /\ writer' = IF landed.op.who = Cleaner THEN writer
                 ELSE [writer EXCEPT ![landed.op.who] = Acknowledged(landed.op)]
    /\ landed' = None
    /\ UNCHANGED <<setup, meta, rows, queue, reader, passes, faults, history>>

-----------------------------------------------------------------------------
(* Reads.                                                                   *)

NoFrame == [pc |-> "none", at |-> 0, seen |-> 0, meta |-> None, plan |-> {},
            last |-> FALSE, reply |-> None]

NextIndex(r) == reader[r].from + Len(got[r])

Available(m, at) ==
    IF m.state = "expired" \/ m.count <= at THEN 0 ELSE Smaller(ReadChunks, m.count - at)

Reply(f, m, chunks) == [ok |-> TRUE, at |-> f.at, count |-> m.count,
                        state |-> m.state, chunks |-> chunks]
Replied(f, reply) == [NoFrame EXCEPT !.pc = "reply", !.reply = reply]
ErrorReply == [ok |-> FALSE]

(* The decision at the end of a snapshot: answer, or wait for a change.     *)
Decide(f, m, chunks) ==
    IF chunks # <<>> \/ m.state # "open" \/ f.last THEN Replied(f, Reply(f, m, chunks))
    ELSE [f EXCEPT !.pc = "enter", !.meta = None, !.plan = {}]

(* A snapshot starts from the metadata in memory.                           *)
Snapshot(r, f, m) ==
    IF ~OwnerIs(m, setup.run[r]) THEN Replied(f, ErrorReply)
    ELSE IF Available(m, f.at) = 0 THEN Decide(f, m, <<>>)
    ELSE [f EXCEPT !.pc = "list", !.meta = m]

(* readChunks: the change counter is read first.                            *)
BeginRead(r) ==
    LET f == [NoFrame EXCEPT !.at = NextIndex(r), !.seen = version] IN
    /\ reader[r].pc = "pull"
    /\ reader' = [reader EXCEPT ![r].pc = "sent"]
    /\ frame' = [frame EXCEPT ![r] =
                   IF cached = None THEN [f EXCEPT !.pc = "load"] ELSE Snapshot(r, f, cached)]
    /\ UNCHANGED <<setup, cell, writer, passes, faults, history>>

(* getMeta of a cell that has not loaded its metadata; all who wait for it  *)
(* share one load.                                                          *)
LoadMeta ==
    /\ cached = None
    /\ \E r \in Readers : frame[r].pc = "load"
    /\ cached' = meta
    /\ frame' = [r \in Readers |-> IF frame[r].pc = "load" THEN Snapshot(r, frame[r], meta)
                                   ELSE frame[r]]
    /\ UNCHANGED <<setup, meta, rows, version, queue, landed, reader, writer,
                   passes, faults, history>>

(* A load that a mutation's publication overtook finds the new metadata.    *)
FindMeta(r) ==
    /\ frame[r].pc = "load" /\ cached # None
    /\ frame' = [frame EXCEPT ![r] = Snapshot(r, @, cached)]
    /\ UNCHANGED <<setup, cell, reader, writer, passes, faults, history>>

(* Mutant: a reader waits without looking at the change counter.            *)
EnterWaitUnchecked(r) ==
    /\ frame[r].pc = "enter"
    /\ frame' = [frame EXCEPT ![r].pc = "wait"]
    /\ UNCHANGED <<setup, cell, reader, writer, passes, faults, history>>

(* waitForChange, some turns after the metadata was looked at: a change     *)
(* since then is not waited for.                                            *)
EnterWait(r) ==
    /\ frame[r].pc = "enter"
    /\ frame' = [frame EXCEPT ![r].pc = IF version # frame[r].seen THEN "again" ELSE "wait"]
    /\ UNCHANGED <<setup, cell, reader, writer, passes, faults, history>>

(* The second snapshot, after a change or a timeout; it never waits.        *)
LongPollEnds(r) ==
    /\ frame[r].pc = "wait"
    /\ frame' = [frame EXCEPT ![r].pc = "again"]
    /\ UNCHANGED <<setup, cell, reader, writer, passes, faults, history>>
LookAgain(r) ==
    /\ frame[r].pc = "again"
    /\ frame' = [frame EXCEPT ![r] = Snapshot(r, [@ EXCEPT !.last = TRUE], cached)]
    /\ UNCHANGED <<setup, cell, reader, writer, passes, faults, history>>

(* The rows that start in the range of the read, and the one that contains  *)
(* its first index.  They must cover the whole range: a missing last row    *)
(* must not look like the end of the stream.                                *)
PlanOf(starts) ==
    {[start |-> i, count |-> Len(rows[i]), bytes |-> Bytes(rows[i])] : i \in starts}
End(entry) == entry.start + entry.count
Before(plan, entry) == {e \in plan : e.start < entry.start}
IsLastOf(entry, plan) == entry \in plan /\ \A e \in plan : e.start <= entry.start
Covers(plan, at, end) ==
    /\ \E e \in plan : Before(plan, e) = {} /\ e.start <= at /\ at < End(e)
    /\ \A e \in plan : \A d \in plan : IsLastOf(d, Before(plan, e)) => e.start = End(d)
    /\ \E e \in plan : IsLastOf(e, plan) /\ End(e) >= end
ReadEnd(f) == f.at + Available(f.meta, f.at)
Planned(f, plan) ==
    IF Covers(plan, f.at, ReadEnd(f)) THEN [f EXCEPT !.pc = "get", !.plan = plan]
    ELSE Replied(f, ErrorReply)

ListRows(r) ==
    LET f == frame[r]
        starts == {i \in DOMAIN rows : f.at <= i /\ i < ReadEnd(f)}
    IN
    /\ f.pc = "list"
    /\ frame' = [frame EXCEPT ![r] = IF f.at \in starts THEN Planned(f, PlanOf(starts))
                                     ELSE [f EXCEPT !.pc = "find", !.plan = PlanOf(starts)]]
    /\ UNCHANGED <<setup, cell, reader, writer, passes, faults, history>>

FindContaining(r) ==
    LET f == frame[r]
        before == {i \in DOMAIN rows : i <= f.at}
    IN
    /\ f.pc = "find"
    /\ frame' = [frame EXCEPT ![r] =
                   IF before = {} THEN Replied(f, ErrorReply)
                   ELSE Planned(f, PlanOf({Max(before)}) \cup f.plan)]
    /\ UNCHANGED <<setup, cell, reader, writer, passes, faults, history>>

(* The payload rows, until there are bytes enough; of their chunks those of *)
(* the range that stay within the limit.                                    *)
PlanBytes(plan) == MapThenSumSet(LAMBDA e : e.bytes, plan)
UpTo(plan, entry) == Before(plan, entry) \cup {entry}
IsLastLoaded(entry, plan) ==
    /\ Before(plan, entry) = {} \/ PlanBytes(Before(plan, entry)) < ReadBytes
    /\ IsLastOf(entry, plan) \/ PlanBytes(UpTo(plan, entry)) >= ReadBytes
ChunkAt(load, i) ==
    LET e == CHOOSE e \in load : e.start <= i /\ i < End(e) IN rows[e.start][i - e.start + 1]
IsAnswer(f, range, k) ==
    /\ Within(SubSeq(range, 1, k), ReadEnd(f) - f.at, ReadBytes)
    /\ Fills(range, k, ReadEnd(f) - f.at, ReadBytes)

GetRows(r) ==
    LET f == frame[r] IN
    /\ f.pc = "get"
    /\ \E last \in {e \in f.plan : IsLastLoaded(e, f.plan)} :
          LET load == UpTo(f.plan, last)
              range == [k \in 1..(End(last) - f.at) |-> ChunkAt(load, f.at + k - 1)]
          IN
          IF \E e \in load : e.start \notin DOMAIN rows \/ Len(rows[e.start]) # e.count
          THEN frame' = [frame EXCEPT ![r] = Replied(f, ErrorReply)]
          ELSE \E k \in {k \in 0..Len(range) : IsAnswer(f, range, k)} :
                  frame' = [frame EXCEPT ![r] = Decide(f, f.meta, SubSeq(range, 1, k))]
    /\ UNCHANGED <<setup, cell, reader, writer, passes, faults, history>>

-----------------------------------------------------------------------------
(* The reading client.                                                      *)

(* A reader that counts from the end first asks where the end is.           *)
SeekTail(r) ==
    LET m == IF cached = None THEN meta ELSE cached IN
    /\ reader[r].pc = "seek"
    /\ cached' = m
    /\ reader' = [reader EXCEPT ![r] =
         IF OwnerIs(m, setup.run[r]) /\ m.state \in {"open", "closed"}
         THEN [@ EXCEPT !.pc = "pull",
                        !.from = IF m.count > setup.start[r] THEN m.count - setup.start[r] ELSE 0]
         ELSE [@ EXCEPT !.pc = "failed"]]
    /\ UNCHANGED <<setup, meta, rows, version, queue, landed, frame, writer,
                   passes, faults, history>>

(* Mutant: an empty answer is taken as it is.                               *)
MatchesNonEmpty(r, reply) ==
    /\ reply.at = NextIndex(r)
    /\ Len(reply.chunks) <= ReadChunks /\ Bytes(reply.chunks) <= ReadBytes
    /\ reply.at + Len(reply.chunks) <= reply.count \/ reply.chunks = <<>>

(* An answer must be about the range that was asked for, and an empty one   *)
(* must not be about a range that has chunks.                               *)
Matches(r, reply) ==
    /\ reply.at = NextIndex(r)
    /\ Len(reply.chunks) <= ReadChunks /\ Bytes(reply.chunks) <= ReadBytes
    /\ reply.at + Len(reply.chunks) <= reply.count \/ reply.chunks = <<>>
    /\ reply.chunks # <<>> \/ reply.at >= reply.count \/ reply.state = "expired"

(* Reads are repeated up to READ_ATTEMPTS times.                            *)
Retried(r) ==
    IF reader[r].attempt < ReadAttempts
    THEN [reader[r] EXCEPT !.pc = "pull", !.attempt = @ + 1]
    ELSE [reader[r] EXCEPT !.pc = "failed"]

(* readFromStream: chunks first, then the end or the failure; an answer     *)
(* without either is a long poll that timed out.                            *)
ReceiveAnswer(r) ==
    LET reply == frame[r].reply
        next == [reader[r] EXCEPT !.pc = "pull", !.attempt = 1, !.old = reply]
    IN
    /\ frame[r].pc = "reply"
    /\ frame' = [frame EXCEPT ![r] = NoFrame]
    /\ IF ~reply.ok
       THEN reader' = [reader EXCEPT ![r].pc = "failed"] /\ UNCHANGED got
       ELSE IF ~Matches(r, reply)
       THEN reader' = [reader EXCEPT ![r] = Retried(r)] /\ UNCHANGED got
       ELSE IF reply.chunks # <<>>
       THEN /\ reader' = [reader EXCEPT ![r] = next]
            /\ got' = [got EXCEPT ![r] = @ \o reply.chunks]
       ELSE /\ reader' = [reader EXCEPT ![r] =
                            IF reply.state = "open" THEN next ELSE [@ EXCEPT !.pc = reply.state]]
            /\ UNCHANGED got
    /\ UNCHANGED <<setup, cell, writer, passes, faults, log, outcome>>

LoseAnswer(r) ==
    /\ reader[r].pc = "sent" /\ faults > 0
    /\ reader' = [reader EXCEPT ![r] = Retried(r)]
    /\ frame' = [frame EXCEPT ![r] = NoFrame]
    /\ faults' = faults - 1
    /\ UNCHANGED <<setup, cell, writer, passes, history>>

(* "A structurally valid frame can still be a stale or partial reply."      *)
GarbleAnswer(r) ==
    LET reply == frame[r].reply
        partial == {[reply EXCEPT !.chunks = SubSeq(@, 1, n)] : n \in 0..(Len(reply.chunks) - 1)}
    IN
    /\ frame[r].pc = "reply" /\ faults > 0
    /\ reply.ok
    /\ \E garbled \in partial \cup ({reader[r].old} \ {None}) :
          frame' = [frame EXCEPT ![r].reply = garbled]
    /\ faults' = faults - 1
    /\ UNCHANGED <<setup, cell, reader, writer, passes, history>>

(* The cell is restarted.  Requests it had not received may still arrive.   *)
Restart ==
    /\ faults > 0
    /\ faults' = faults - 1
    /\ cached' = None /\ version' = 0 /\ landed' = None
    /\ queue' \in SUBSET queue
    /\ frame' = [r \in Readers |-> NoFrame]
    /\ reader' = [r \in Readers |-> IF reader[r].pc = "sent" THEN Retried(r) ELSE reader[r]]
    /\ writer' = [w \in Writers |-> IF \E op \in queue' : op.who = w THEN writer[w] ELSE Refused(w)]
    /\ UNCHANGED <<setup, meta, rows, passes, history>>

-----------------------------------------------------------------------------
Init ==
    /\ setup \in Setups
    /\ meta = IF setup.legacy = <<>> THEN EmptyMeta
              ELSE [EmptyMeta EXCEPT !.count = Len(setup.legacy), !.owner = setup.run[Cleaner]]
    /\ rows = [i \in 0..(Len(setup.legacy) - 1) |-> <<setup.legacy[i + 1]>>]
    /\ cached = None /\ version = 0
    /\ queue = {} /\ landed = None
    /\ frame = [r \in Readers |-> NoFrame]
    /\ reader = [r \in Readers |->
         [pc |-> IF r \notin setup.pulling THEN "idle"
                 ELSE IF r \in setup.backwards THEN "seek" ELSE "pull",
          from |-> IF r \in setup.backwards THEN 0 ELSE setup.start[r],
          attempt |-> 1, old |-> None]]
    /\ writer = [w \in Writers |-> AtCall(w, 1, 0)]
    /\ passes = setup.passes /\ faults = setup.faults
    /\ log = setup.legacy /\ outcome = "open"
    /\ got = [r \in Readers |-> <<>>]

Mutate ==
    \/ \E op \in queue : WriteChunks(op) \/ FinishStream(op) \/ ExpireStream(op) \/ Throws(op)
    \/ Publish

ServeRead(r) ==
    \/ FindMeta(r) \/ EnterWait(r) \/ LookAgain(r)
    \/ ListRows(r) \/ FindContaining(r) \/ GetRows(r)

Read(r) == BeginRead(r) \/ SeekTail(r) \/ ReceiveAnswer(r) \/ LongPollEnds(r)

Next ==
    \/ Mutate
    \/ LoadMeta
    \/ \E r \in Readers : ServeRead(r) \/ Read(r) \/ LoseAnswer(r) \/ GarbleAnswer(r)
    \/ \E w \in Writers : Send(w) \/ WriteTimesOut(w)
    \/ SendExpire
    \/ Restart

Spec == Init /\ [][Next]_vars

-----------------------------------------------------------------------------
States == {"open", "closed", "errored", "expired"}
Answer == [ok : {TRUE}, at : Nat, count : Nat, state : States, chunks : Seq(Chunks)]
FrameType ==
    [pc : {"none", "load", "enter", "wait", "again", "list", "find", "get", "reply"},
     at : Nat, seen : Nat, meta : StreamMeta \cup {None}, last : BOOLEAN,
     plan : SUBSET [start : Nat, count : Nat, bytes : Nat],
     reply : Answer \cup {ErrorReply, None}]
ReaderType ==
    [pc : {"idle", "seek", "pull", "sent", "failed"} \cup States, from : Nat, attempt : Nat,
     old : Answer \cup {None}]

(* Type invariant.                                                          *)
TypeOK ==
    /\ setup \in Setups
    /\ meta \in StreamMeta
    /\ DOMAIN rows \subseteq Nat /\ \A i \in DOMAIN rows : rows[i] \in Seq(Chunks)
    /\ cached \in StreamMeta \cup {None}
    /\ version \in Nat
    /\ queue \subseteq Mutation
    /\ landed \in Landing \cup {None}
    /\ frame \in [Readers -> FrameType]
    /\ reader \in [Readers -> ReaderType]
    /\ writer \in [Writers -> [pc : {"ready", "sent", "done", "failed"}, call : Nat, done : Nat]]
    /\ passes \in Nat /\ faults \in Nat
    /\ log \in Seq(Chunks) /\ outcome \in States \ {"expired"}
    /\ got \in [Readers -> Seq(Chunks)]

(* A stream is the log StreamLog promises, whatever is lost, restarted or   *)
(* expired in between: readers get consecutive chunks of it and learn of    *)
(* its end after all of them.                                               *)
Log == INSTANCE StreamLog WITH
    expired <- meta.state = "expired",
    from <- [r \in Readers |-> reader[r].from],
    told <- [r \in Readers |-> IF reader[r].pc \in {"closed", "errored", "expired", "failed"}
                               THEN reader[r].pc ELSE "reading"]
ImplementsLog == Log!Spec

(* readSegmentRows: "The durable tail promises every offset in this range   *)
(* exists."  The rows hold the chunks from the first one on, without a gap  *)
(* or an overlap, up to the stored count; expiry removes them from the      *)
(* front, and reports payloadDeleted when none is left.                     *)
RowsCoverLog ==
    /\ \A i \in DOMAIN rows :
          /\ rows[i] # <<>> /\ i + Len(rows[i]) <= Len(log)
          /\ rows[i] = SubSeq(log, i + 1, i + Len(rows[i]))
          /\ i + Len(rows[i]) \in DOMAIN rows \cup {Len(log)}
          /\ \A j \in DOMAIN rows : j > i => j >= i + Len(rows[i])
    /\ meta.state # "expired" => /\ meta.count = Len(log)
                                 /\ log # <<>> => 0 \in DOMAIN rows
    /\ meta.deleted => meta.state = "expired" /\ DOMAIN rows = {} /\ meta.count = 0

(* waitForChange: "The generation check closes that lost-wakeup window".    *)
(* Unless a publication is under way, a reader waits only for what the      *)
(* stored stream does not have.                                             *)
WaitersAreIdle ==
    \A r \in Readers :
        frame[r].pc = "wait" /\ landed = None =>
            meta.state = "open" /\ Available(meta, frame[r].at) = 0

(* A stream belongs to one run, and each writer's chunks are in it in its   *)
(* order, each at most once, those it was told of among them.               *)
Places(w) == {i \in DOMAIN log : log[i].by = w}
WritesLandInOrder ==
    \A w \in Writers :
        /\ \A i \in Places(w) :
              LET n == Cardinality({j \in Places(w) : j <= i}) IN
              n <= Len(setup.text[w]) /\ log[i] = setup.text[w][n]
        /\ writer[w].done <= Cardinality(Places(w))
        /\ Places(w) # {} => setup.run[w] = meta.owner

=============================================================================
