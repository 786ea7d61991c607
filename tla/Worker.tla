------------------------------- MODULE Worker -------------------------------
(***************************************************************************)
(* cmd/worker: a consumer group of workers that move order events from the *)
(* orders topic into PostgreSQL, or into the dead-letter topic, and commit *)
(* an offset once everything below it is accounted for.                    *)
(*                                                                         *)
(* Each worker is two goroutines: the poll loop of main() with the record  *)
(* handling it calls, and resumePaused.  The broker's group coordinator,   *)
(* the franz-go client's fetch positions and PostgreSQL are modelled from  *)
(* how the code uses them.  An offset n stands for "the first n records",  *)
(* so record i of a partition is the i-th of its log and lies below n when *)
(* i <= n.                                                                 *)
(***************************************************************************)
EXTENDS Naturals, Sequences, FiniteSets

CONSTANTS
    Workers,     \* members of the consumer group
    Partitions,  \* partitions of the orders topic
    Events,      \* distinct record values
    Malformed,   \* the events json.Unmarshal refuses
    Unusable,    \* the events with a value that the schema refuses
    OrderOf,     \* order_id of each event, the primary key of its row
    Input,       \* the contents a partition may have
    BatchSize,   \* WORKER_BATCH_SIZE
    MaxFaults,   \* bound on crashes, signals, revocations and expulsions
    NoOne        \* not a worker, not a partition

ASSUME WorkerAssumption ==
    /\ Malformed \subseteq Events /\ Unusable \subseteq Events
    /\ Input \subseteq Seq(Events)
    /\ BatchSize \in Nat \ {0}
    /\ MaxFaults \in Nat
    /\ NoOne \notin Workers \cup Partitions

VARIABLES
    \* Kafka and PostgreSQL
    log,          \* the orders topic
    committed,    \* the group's committed offset of each partition
    dlq,          \* dead letters, by source partition and offset, with reason
    db,           \* the events that have a row in orders
    owner,        \* the coordinator's assignment
    member,       \* the workers the coordinator counts as members
    \* each worker's Kafka client
    assigned,     \* partitions this client believes it owns
    pos,          \* its fetch position
    paused,       \* partitions PauseFetchPartitions has stopped
    \* each worker's poll loop
    pc,
    todo,         \* partitions of this poll that EachPartition has yet to visit
    cur,          \* the partition processPartition is working on
    lo, hi,       \* this poll's records lo+1..hi; those up to lo are done
    chunkEnd,     \* last record of the chunk that oneByOne is working on
    committable,  \* partitions with at least one durable record in this poll
    blocked,      \* partitions that stalled in this poll
    sig,          \* fetchCtx is cancelled
    abandoned,    \* workCtx is cancelled
    \* each worker's resumer
    rpc, pausedSet, taken,
    \* history
    processed,    \* orders_processed_total{persisted}, split by event
    resumedOver,  \* records a resumed partition's fetch position had passed
    faults        \* faults so far

kafka == <<log, committed, dlq>>
group == <<owner, member>>
client == <<assigned, pos, paused>>
loop == <<todo, cur, lo, hi, chunkEnd, committable, blocked>>
resumer == <<rpc, pausedSet, taken>>
history == <<processed, resumedOver>>
vars == <<kafka, db, group, client, pc, loop, sig, abandoned, resumer, history, faults>>

Reasons == {"poison", "retries_exhausted"}
PC == {"poll", "each", "chunk", "handle", "pause", "add", "commit", "closing", "down"}
        \cup Reasons
Zero == [p \in Partitions |-> 0]
Up(w) == pc[w] # "down"

Init ==
    /\ log \in [Partitions -> Input]
    /\ committed = Zero
    /\ dlq = {}
    /\ db = {}
    /\ owner = [p \in Partitions |-> NoOne]
    /\ member = [w \in Workers |-> TRUE]
    /\ assigned = [w \in Workers |-> {}]
    /\ pos = [w \in Workers |-> Zero]
    /\ paused = [w \in Workers |-> {}]
    /\ pc = [w \in Workers |-> "poll"]
    /\ todo = [w \in Workers |-> {}]
    /\ cur = [w \in Workers |-> NoOne]
    /\ lo = [w \in Workers |-> Zero]
    /\ hi = [w \in Workers |-> Zero]
    /\ chunkEnd = [w \in Workers |-> 0]
    /\ committable = [w \in Workers |-> {}]
    /\ blocked = [w \in Workers |-> {}]
    /\ sig = [w \in Workers |-> FALSE]
    /\ abandoned = [w \in Workers |-> FALSE]
    /\ rpc = [w \in Workers |-> "idle"]
    /\ pausedSet = [w \in Workers |-> {}]
    /\ taken = [w \in Workers |-> {}]
    /\ processed = [e \in Events |-> 0]
    /\ resumedOver = [p \in Partitions |-> {}]
    /\ faults = 0

Goto(w, label) == pc' = [pc EXCEPT ![w] = label]

\* Record i of partition p has reached the database or the dead-letter topic.
Accounted(p, i) ==
    \/ log[p][i] \in db
    \/ \E d \in dlq : d.partition = p /\ d.offset = i

-----------------------------------------------------------------------------
(* The poll loop of main().                                                *)

Offsets == UNION {0..Len(log[p]) : p \in Partitions}

\* PollFetches hands over records of some fetchable partitions and moves the
\* fetch position past all of them.  A cancelled fetchCtx does not stop it from
\* returning what the client has already buffered.
Poll(w) ==
    /\ pc[w] = "poll"
    /\ \E end \in [Partitions -> Offsets] :
        /\ \A p \in Partitions :
            \/ end[p] = pos[w][p]
            \/ /\ p \in assigned[w] \ paused[w]
               /\ end[p] \in (pos[w][p] + 1)..Len(log[p])
        /\ end # pos[w]
        /\ todo' = [todo EXCEPT ![w] = {p \in Partitions : end[p] # pos[w][p]}]
        /\ lo' = [lo EXCEPT ![w] = pos[w]]
        /\ hi' = [hi EXCEPT ![w] = end]
        /\ pos' = [pos EXCEPT ![w] = end]
    /\ Goto(w, "each")
    /\ UNCHANGED <<kafka, db, group, assigned, paused, cur, chunkEnd, committable,
                   blocked, sig, abandoned, resumer, history, faults>>

\* The signal arrived and there is nothing in hand: leave the loop.
PollInterrupted(w) ==
    /\ pc[w] = "poll"
    /\ sig[w]
    /\ Goto(w, "closing")
    /\ UNCHANGED <<kafka, db, group, client, loop, sig, abandoned, resumer, history, faults>>

\* EachPartition visits the partitions of the poll in an order of its own.
NextPartition(w) ==
    /\ pc[w] = "each"
    /\ \E p \in todo[w] :
        /\ cur' = [cur EXCEPT ![w] = p]
        /\ todo' = [todo EXCEPT ![w] = @ \ {p}]
    /\ Goto(w, "chunk")
    /\ UNCHANGED <<kafka, db, group, client, lo, hi, chunkEnd, committable, blocked,
                   sig, abandoned, resumer, history, faults>>

EndOfPoll(w) ==
    /\ pc[w] = "each"
    /\ todo[w] = {}
    /\ Goto(w, IF blocked[w] # {} THEN "pause" ELSE "commit")
    /\ UNCHANGED <<kafka, db, group, client, loop, sig, abandoned, resumer, history, faults>>

\* Mutation of PauseFetchPartitions: a stalled partition is not paused.
StallWithoutPause(w) ==
    /\ pc[w] = "pause"
    /\ Goto(w, "add")
    /\ UNCHANGED <<kafka, db, group, client, loop, sig, abandoned, resumer, history, faults>>

\* PauseFetchPartitions first, paused.add second: the resumer may run between.
PauseFetchPartitions(w) ==
    /\ pc[w] = "pause"
    /\ paused' = [paused EXCEPT ![w] = @ \cup blocked[w]]
    /\ Goto(w, "add")
    /\ UNCHANGED <<kafka, db, group, assigned, pos, loop, sig, abandoned, resumer,
                   history, faults>>

\* Mutation of PausedSetAdd: the resumer is never told.
PausedSetForget(w) ==
    /\ pc[w] = "add"
    /\ blocked' = [blocked EXCEPT ![w] = {}]
    /\ Goto(w, "commit")
    /\ UNCHANGED <<kafka, db, group, client, todo, cur, lo, hi, chunkEnd, committable,
                   sig, abandoned, resumer, history, faults>>

PausedSetAdd(w) ==
    /\ pc[w] = "add"
    /\ pausedSet' = [pausedSet EXCEPT ![w] = @ \cup blocked[w]]
    /\ blocked' = [blocked EXCEPT ![w] = {}]
    /\ Goto(w, "commit")
    /\ UNCHANGED <<kafka, db, group, client, todo, cur, lo, hi, chunkEnd, committable,
                   sig, abandoned, rpc, taken, history, faults>>

\* Mutation of CommitRecords: commits one past the offset after the record.
CommitRecordsPastNext(w) ==
    /\ pc[w] = "commit"
    /\ \E acked \in SUBSET committable[w] :
        /\ acked # {} => member[w] /\ ~abandoned[w]
        /\ committed' = [p \in Partitions |->
                            IF p \in acked THEN lo[w][p] + 1 ELSE committed[p]]
    /\ Goto(w, IF committable[w] = {} /\ sig[w] THEN "closing" ELSE "poll")
    /\ committable' = [committable EXCEPT ![w] = {}]
    /\ lo' = [lo EXCEPT ![w] = Zero]
    /\ hi' = [hi EXCEPT ![w] = Zero]
    /\ UNCHANGED <<log, dlq, db, group, client, todo, cur, chunkEnd, blocked, sig,
                   abandoned, resumer, history, faults>>

\* The end of an iteration.  The coordinator refuses a commit from a process it
\* has expelled but does not check which member owns a partition, and each
\* partition of the request may fail on its own.  A cancelled workCtx commits
\* nothing.
CommitRecords(w) ==
    /\ pc[w] = "commit"
    /\ \E acked \in SUBSET committable[w] :
        /\ acked # {} => member[w] /\ ~abandoned[w]
        /\ committed' = [p \in Partitions |->
                            IF p \in acked THEN lo[w][p] ELSE committed[p]]
    /\ Goto(w, IF committable[w] = {} /\ sig[w] THEN "closing" ELSE "poll")
    /\ committable' = [committable EXCEPT ![w] = {}]
    /\ lo' = [lo EXCEPT ![w] = Zero]
    /\ hi' = [hi EXCEPT ![w] = Zero]
    /\ UNCHANGED <<log, dlq, db, group, client, todo, cur, chunkEnd, blocked, sig,
                   abandoned, resumer, history, faults>>

-----------------------------------------------------------------------------
(* processPartition, processChunk, oneByOne and handle.                    *)

EndOfChunk(w) ==
    LET full == lo[w][cur[w]] + BatchSize
    IN  IF full < hi[w][cur[w]] THEN full ELSE hi[w][cur[w]]

ChunkEvents(w) == {log[cur[w]][i] : i \in (lo[w][cur[w]] + 1)..EndOfChunk(w)}

\* The chunk is written by one InsertOrders unless it holds a single record or
\* one that does not parse.
Batched(w) == EndOfChunk(w) > lo[w][cur[w]] + 1 /\ ChunkEvents(w) \cap Malformed = {}

Event(w) == log[cur[w]][lo[w][cur[w]] + 1]

\* Between two chunks processPartition has a chunk left to process.
ChunkReady(w) == pc[w] = "chunk" /\ ~abandoned[w] /\ lo[w][cur[w]] < hi[w][cur[w]]

\* All chunks are done, or workCtx is cancelled: processPartition returns.
PartitionDone(w) ==
    /\ pc[w] = "chunk"
    /\ lo[w][cur[w]] = hi[w][cur[w]] \/ abandoned[w]
    /\ cur' = [cur EXCEPT ![w] = NoOne]
    /\ Goto(w, "each")
    /\ UNCHANGED <<kafka, db, group, client, todo, lo, hi, chunkEnd, committable, blocked,
                   sig, abandoned, resumer, history, faults>>

\* Every record up to n is durable: processPartition's "last" moves there.
AdvanceTo(w, n) ==
    /\ lo' = [lo EXCEPT ![w][cur[w]] = n]
    /\ committable' = [committable EXCEPT ![w] = @ \cup {cur[w]}]

\* A record is neither persisted nor parked: processPartition returns blocked.
Stall(w) ==
    /\ blocked' = [blocked EXCEPT ![w] = @ \cup {cur[w]}]
    /\ cur' = [cur EXCEPT ![w] = NoOne]
    /\ chunkEnd' = [chunkEnd EXCEPT ![w] = 0]
    /\ Goto(w, "each")
    /\ UNCHANGED <<todo, lo, hi, committable>>

\* UNIQUE (event_id) turns a known event into a no-op; a new event whose
\* order_id is taken violates orders_pkey and fails the whole statement, and so
\* does a value that is not of its column's type.
Accepts(evts) ==
    /\ evts \cap Unusable = {}
    /\ \A e \in evts \ db : \A f \in (db \cup evts) \ {e} : OrderOf[f] # OrderOf[e]

\* processChunk without the batch: one record at a time from here to chunkEnd.
OneByOne(w) ==
    /\ chunkEnd' = [chunkEnd EXCEPT ![w] = EndOfChunk(w)]
    /\ Goto(w, "handle")
    /\ UNCHANGED <<kafka, db, group, client, todo, cur, lo, hi, committable, blocked,
                   sig, abandoned, resumer, history, faults>>

ChunkUnbatched(w) == ChunkReady(w) /\ ~Batched(w) /\ OneByOne(w)

\* retry.Do gives up on InsertOrders: its budget is spent on transient errors,
\* or the database rejects a row.
InsertOrdersFails(w) == ChunkReady(w) /\ Batched(w) /\ OneByOne(w)

\* The records of the chunk that carry event e.
Copies(w, e) ==
    Cardinality({i \in (lo[w][cur[w]] + 1)..EndOfChunk(w) : log[cur[w]][i] = e})

\* Mutation of InsertOrders: every record of the chunk is counted as new.
InsertOrdersCountsAll(w) ==
    /\ ChunkReady(w)
    /\ Batched(w)
    /\ Accepts(ChunkEvents(w))
    /\ db' = db \cup ChunkEvents(w)
    /\ processed' = [e \in Events |-> processed[e] + Copies(w, e)]
    /\ AdvanceTo(w, EndOfChunk(w))
    /\ UNCHANGED <<kafka, group, client, pc, todo, cur, hi, chunkEnd, blocked, sig,
                   abandoned, resumer, resumedOver, faults>>

\* InsertOrders succeeds.  recordOutcome looks every record of the chunk up by
\* event id in the set of ids that were new.
InsertOrders(w) ==
    /\ ChunkReady(w)
    /\ Batched(w)
    /\ Accepts(ChunkEvents(w))
    /\ db' = db \cup ChunkEvents(w)
    /\ processed' = [e \in Events |-> processed[e] + IF e \in db THEN 0 ELSE Copies(w, e)]
    /\ AdvanceTo(w, EndOfChunk(w))
    /\ UNCHANGED <<kafka, group, client, pc, todo, cur, hi, chunkEnd, blocked, sig,
                   abandoned, resumer, resumedOver, faults>>

\* retry.Do is running InsertOrders or InsertOrder; Statement is what it writes.
Inserting(w) ==
    \/ pc[w] = "chunk" /\ lo[w][cur[w]] < hi[w][cur[w]] /\ Batched(w)
    \/ pc[w] = "handle" /\ Event(w) \notin Malformed

Statement(w) == IF pc[w] = "chunk" THEN ChunkEvents(w) ELSE {Event(w)}

\* workCtx is cancelled under the insert.
InsertCancelled(w) ==
    /\ Inserting(w)
    /\ abandoned[w]
    /\ Stall(w)
    /\ UNCHANGED <<kafka, db, group, client, sig, abandoned, resumer, history, faults>>

\* The statement commits but its acknowledgement is lost.  retry.Do sees an error
\* and stays in its loop.
InsertUnacknowledged(w) ==
    /\ Inserting(w)
    /\ Accepts(Statement(w))
    /\ db' = db \cup Statement(w)
    /\ UNCHANGED <<kafka, group, client, pc, loop, sig, abandoned, resumer, history, faults>>

\* handle returned true for the record after lo.
Handled(w) ==
    LET n == lo[w][cur[w]] + 1
    IN  /\ AdvanceTo(w, n)
        /\ IF n = chunkEnd[w]
           THEN Goto(w, "chunk") /\ chunkEnd' = [chunkEnd EXCEPT ![w] = 0]
           ELSE Goto(w, "handle") /\ UNCHANGED chunkEnd
        /\ UNCHANGED <<todo, cur, hi, blocked>>

\* Mutation of InsertOrder: RowsAffected is ignored.
InsertOrderCountsAll(w) ==
    /\ pc[w] = "handle"
    /\ ~abandoned[w]
    /\ Event(w) \notin Malformed
    /\ Accepts({Event(w)})
    /\ db' = db \cup {Event(w)}
    /\ processed' = [processed EXCEPT ![Event(w)] = @ + 1]
    /\ Handled(w)
    /\ UNCHANGED <<kafka, group, client, sig, abandoned, resumer, resumedOver, faults>>

InsertOrder(w) ==
    /\ pc[w] = "handle"
    /\ ~abandoned[w]
    /\ Event(w) \notin Malformed
    /\ Accepts({Event(w)})
    /\ db' = db \cup {Event(w)}
    /\ processed' = IF Event(w) \in db THEN processed
                    ELSE [processed EXCEPT ![Event(w)] = @ + 1]
    /\ Handled(w)
    /\ UNCHANGED <<kafka, group, client, sig, abandoned, resumer, resumedOver, faults>>

\* handle turns to the dead-letter queue: the record does not parse, or its write
\* failed, and then the reason is what IsRetryable makes of the last error.  An
\* outage spends the budget.  "poison" is a bad value or a taken order id, but any
\* record may also meet an error of class 42, or of one IsRetryable does not know.
\* Insert has the classes.
GiveUp(w) ==
    /\ pc[w] = "handle"
    /\ \/ Event(w) \in Malformed /\ Goto(w, "poison")
       \/ /\ ~abandoned[w]
          /\ Event(w) \notin Malformed
          /\ \E reason \in Reasons : Goto(w, reason)
    /\ UNCHANGED <<kafka, db, group, client, loop, sig, abandoned, resumer, history, faults>>

DeadLetterOf(w) ==
    [partition |-> cur[w], offset |-> lo[w][cur[w]] + 1, reason |-> pc[w]]

\* dlq.Send acknowledged.
DeadLetter(w) ==
    /\ pc[w] \in Reasons
    /\ ~abandoned[w]
    /\ dlq' = dlq \cup {DeadLetterOf(w)}
    /\ Handled(w)
    /\ UNCHANGED <<log, committed, db, group, client, sig, abandoned, resumer, history, faults>>

\* Mutation of DeadLetterFails: deadLetter returns true after a failed Send.
DeadLetterErrorIgnored(w) ==
    /\ pc[w] \in Reasons
    /\ Handled(w)
    /\ UNCHANGED <<kafka, db, group, client, sig, abandoned, resumer, history, faults>>

\* dlq.Send failed; the record may be on the topic all the same.
DeadLetterFails(w) ==
    /\ pc[w] \in Reasons
    /\ dlq' \in {dlq, dlq \cup {DeadLetterOf(w)}}
    /\ Stall(w)
    /\ UNCHANGED <<log, committed, db, group, client, sig, abandoned, resumer, history, faults>>

-----------------------------------------------------------------------------
(* resumePaused: count and Ping, then take, then ResumeFetchPartitions.     *)

ResumerPing(w) ==
    /\ rpc[w] = "idle"
    /\ Up(w) /\ ~sig[w]
    /\ pausedSet[w] # {}
    /\ rpc' = [rpc EXCEPT ![w] = "pinged"]
    /\ UNCHANGED <<kafka, db, group, client, pc, loop, sig, abandoned, pausedSet, taken,
                   history, faults>>

PausedSetTake(w) ==
    /\ rpc[w] = "pinged"
    /\ rpc' = [rpc EXCEPT ![w] = "taken"]
    /\ taken' = [taken EXCEPT ![w] = pausedSet[w]]
    /\ pausedSet' = [pausedSet EXCEPT ![w] = {}]
    /\ UNCHANGED <<kafka, db, group, client, pc, loop, sig, abandoned, history, faults>>

\* Mutation of ResumeFetchPartitions: the paused set is emptied after the resume
\* instead of by take.
ResumeThenClear(w) ==
    /\ rpc[w] = "taken"
    /\ rpc' = [rpc EXCEPT ![w] = "idle"]
    /\ taken' = [taken EXCEPT ![w] = {}]
    /\ pausedSet' = [pausedSet EXCEPT ![w] = {}]
    /\ paused' = [paused EXCEPT ![w] = @ \ taken[w]]
    /\ resumedOver' = [p \in Partitions |->
            IF p \in taken[w] \cap assigned[w]
            THEN resumedOver[p] \cup {i \in 1..pos[w][p] : ~Accounted(p, i)}
            ELSE resumedOver[p]]
    /\ UNCHANGED <<kafka, db, group, assigned, pos, pc, loop, sig, abandoned, processed, faults>>

\* ResumeFetchPartitions lifts the pause and leaves the fetch position alone.
ResumeFetchPartitions(w) ==
    /\ rpc[w] = "taken"
    /\ rpc' = [rpc EXCEPT ![w] = "idle"]
    /\ taken' = [taken EXCEPT ![w] = {}]
    /\ paused' = [paused EXCEPT ![w] = @ \ taken[w]]
    /\ resumedOver' = [p \in Partitions |->
            IF p \in taken[w] \cap assigned[w]
            THEN resumedOver[p] \cup {i \in 1..pos[w][p] : ~Accounted(p, i)}
            ELSE resumedOver[p]]
    /\ UNCHANGED <<kafka, db, group, assigned, pos, pc, loop, sig, abandoned, pausedSet,
                   processed, faults>>

-----------------------------------------------------------------------------
(* Shutdown, crashes and restarts.                                         *)

\* A process is gone, and everything it held in memory with it.
Halt(w) ==
    /\ Goto(w, "down")
    /\ assigned' = [assigned EXCEPT ![w] = {}]
    /\ pos' = [pos EXCEPT ![w] = Zero]
    /\ paused' = [paused EXCEPT ![w] = {}]
    /\ todo' = [todo EXCEPT ![w] = {}]
    /\ cur' = [cur EXCEPT ![w] = NoOne]
    /\ lo' = [lo EXCEPT ![w] = Zero]
    /\ hi' = [hi EXCEPT ![w] = Zero]
    /\ chunkEnd' = [chunkEnd EXCEPT ![w] = 0]
    /\ committable' = [committable EXCEPT ![w] = {}]
    /\ blocked' = [blocked EXCEPT ![w] = {}]
    /\ sig' = [sig EXCEPT ![w] = FALSE]
    /\ abandoned' = [abandoned EXCEPT ![w] = FALSE]
    /\ rpc' = [rpc EXCEPT ![w] = "idle"]
    /\ pausedSet' = [pausedSet EXCEPT ![w] = {}]
    /\ taken' = [taken EXCEPT ![w] = {}]
    /\ UNCHANGED <<kafka, db, history>>

\* The coordinator takes w's partitions back.
Release(w) == owner' = [p \in Partitions |-> IF owner[p] = w THEN NoOne ELSE owner[p]]

Fault == faults < MaxFaults /\ faults' = faults + 1

Signal(w) ==
    /\ Up(w) /\ ~sig[w]
    /\ Fault
    /\ sig' = [sig EXCEPT ![w] = TRUE]
    /\ UNCHANGED <<kafka, db, group, client, pc, loop, abandoned, resumer, history>>

\* Mutation of WatchdogAbandon: the clock waits for workCtx instead of fetchCtx.
WatchdogOnWorkCtx(w) ==
    /\ abandoned[w] /\ sig[w]
    /\ UNCHANGED vars

\* watchdog: the deadline passes or a second signal arrives.  abandonWork() and
\* os.Exit are two steps, and the poll loop may run between them.
WatchdogAbandon(w) ==
    /\ sig[w] /\ ~abandoned[w]
    /\ abandoned' = [abandoned EXCEPT ![w] = TRUE]
    /\ UNCHANGED <<kafka, db, group, client, pc, loop, sig, resumer, history, faults>>

WatchdogExit(w) ==
    /\ abandoned[w]
    /\ Halt(w)
    /\ UNCHANGED <<group, faults>>

\* client.Close sends LeaveGroup, so the partitions are free at once.
Close(w) ==
    /\ pc[w] = "closing"
    /\ Halt(w)
    /\ Release(w)
    /\ member' = [member EXCEPT ![w] = FALSE]
    /\ UNCHANGED faults

Crash(w) ==
    /\ Up(w)
    /\ Fault
    /\ Halt(w)
    /\ UNCHANGED group

\* The restart policy starts a new process.  It joins once the coordinator has
\* dropped its predecessor; until then it owns nothing.
Restart(w) ==
    /\ ~Up(w) /\ ~member[w]
    /\ Goto(w, "poll")
    /\ member' = [member EXCEPT ![w] = TRUE]
    /\ UNCHANGED <<kafka, db, owner, client, loop, sig, abandoned, resumer, history, faults>>

-----------------------------------------------------------------------------
(* Rebalances.  The callbacks run beside the poll loop, so a partition may  *)
(* go, or come back, while its records are being processed.                *)

\* Mutation of PartitionAssigned: with no committed offset, start at the end.
PartitionAssignedAtEnd(w, p) ==
    /\ Up(w) /\ member[w]
    /\ owner[p] = NoOne
    /\ p \notin assigned[w]
    /\ owner' = [owner EXCEPT ![p] = w]
    /\ assigned' = [assigned EXCEPT ![w] = @ \cup {p}]
    /\ pos' = [pos EXCEPT ![w][p] = IF committed[p] = 0 THEN Len(log[p]) ELSE committed[p]]
    /\ UNCHANGED <<kafka, db, member, paused, pc, loop, sig, abandoned, resumer, history, faults>>

\* OnPartitionsAssigned: the client starts at the committed offset, or at the
\* start of the topic when there is none.
PartitionAssigned(w, p) ==
    /\ Up(w) /\ member[w]
    /\ owner[p] = NoOne
    /\ p \notin assigned[w]
    /\ owner' = [owner EXCEPT ![p] = w]
    /\ assigned' = [assigned EXCEPT ![w] = @ \cup {p}]
    /\ pos' = [pos EXCEPT ![w][p] = committed[p]]
    /\ UNCHANGED <<kafka, db, member, paused, pc, loop, sig, abandoned, resumer, history, faults>>

\* OnPartitionsRevoked: a cooperative rebalance moves p away.
PartitionRevoked(w, p) ==
    /\ Up(w) /\ member[w]
    /\ owner[p] = w
    /\ Fault
    /\ owner' = [owner EXCEPT ![p] = NoOne]
    /\ assigned' = [assigned EXCEPT ![w] = @ \ {p}]
    /\ pos' = [pos EXCEPT ![w][p] = 0]
    /\ UNCHANGED <<kafka, db, member, paused, pc, loop, sig, abandoned, resumer, history>>

\* The coordinator drops a silent member: a dead process, or a live one that was
\* cut off and goes on fetching and writing until it finds out.
SessionTimeout(w) ==
    /\ member[w]
    /\ IF Up(w) THEN Fault ELSE UNCHANGED faults
    /\ member' = [member EXCEPT ![w] = FALSE]
    /\ Release(w)
    /\ UNCHANGED <<kafka, db, client, pc, loop, sig, abandoned, resumer, history>>

\* OnPartitionsLost, after which the client rejoins as a new member.
PartitionsLost(w) ==
    /\ Up(w) /\ ~member[w]
    /\ member' = [member EXCEPT ![w] = TRUE]
    /\ assigned' = [assigned EXCEPT ![w] = {}]
    /\ pos' = [pos EXCEPT ![w] = Zero]
    /\ UNCHANGED <<kafka, db, owner, paused, pc, loop, sig, abandoned, resumer, history, faults>>
-----------------------------------------------------------------------------
PollLoop(w) ==
    \/ Poll(w) \/ PollInterrupted(w) \/ NextPartition(w) \/ EndOfPoll(w)
    \/ PauseFetchPartitions(w) \/ PausedSetAdd(w) \/ CommitRecords(w)
    \/ PartitionDone(w) \/ ChunkUnbatched(w)
    \/ InsertOrders(w) \/ InsertOrdersFails(w)
    \/ InsertOrder(w) \/ InsertUnacknowledged(w) \/ InsertCancelled(w)
    \/ GiveUp(w) \/ DeadLetter(w) \/ DeadLetterFails(w)

Resumer(w) == ResumerPing(w) \/ PausedSetTake(w) \/ ResumeFetchPartitions(w)

Process(w) ==
    \/ Signal(w) \/ WatchdogAbandon(w) \/ WatchdogExit(w) \/ Close(w)
    \/ Crash(w) \/ Restart(w)

Coordinator(w) ==
    \/ \E p \in Partitions : PartitionAssigned(w, p) \/ PartitionRevoked(w, p)
    \/ SessionTimeout(w) \/ PartitionsLost(w)

Step(w) == PollLoop(w) \/ Resumer(w) \/ Process(w) \/ Coordinator(w)

Next == \E w \in Workers : Step(w)

Spec == Init /\ [][Next]_vars

-----------------------------------------------------------------------------
(* Safety.                                                                 *)

DeadLetters == [partition : Partitions, offset : Nat, reason : Reasons]

\* Every variable has its type, and no offset points past the end of its
\* partition: not a commit, a fetch position or the bounds of a poll.
TypeOK ==
    /\ log \in [Partitions -> Input]
    /\ committed \in [Partitions -> Nat]
    /\ dlq \subseteq DeadLetters
    /\ db \subseteq Events \ Malformed
    /\ owner \in [Partitions -> Workers \cup {NoOne}]
    /\ member \in [Workers -> BOOLEAN]
    /\ assigned \in [Workers -> SUBSET Partitions]
    /\ pos \in [Workers -> [Partitions -> Nat]]
    /\ paused \in [Workers -> SUBSET Partitions]
    /\ pc \in [Workers -> PC]
    /\ todo \in [Workers -> SUBSET Partitions]
    /\ cur \in [Workers -> Partitions \cup {NoOne}]
    /\ lo \in [Workers -> [Partitions -> Nat]]
    /\ hi \in [Workers -> [Partitions -> Nat]]
    /\ chunkEnd \in [Workers -> Nat]
    /\ committable \in [Workers -> SUBSET Partitions]
    /\ blocked \in [Workers -> SUBSET Partitions]
    /\ sig \in [Workers -> BOOLEAN]
    /\ abandoned \in [Workers -> BOOLEAN]
    /\ rpc \in [Workers -> {"idle", "pinged", "taken"}]
    /\ pausedSet \in [Workers -> SUBSET Partitions]
    /\ taken \in [Workers -> SUBSET Partitions]
    /\ processed \in [Events -> Nat]
    /\ resumedOver \in [Partitions -> SUBSET Nat]
    /\ faults \in 0..MaxFaults
    /\ \A p \in Partitions :
        /\ committed[p] <= Len(log[p])
        /\ \A w \in Workers : /\ pos[w][p] <= Len(log[p])
                              /\ lo[w][p] <= hi[w][p] /\ hi[w][p] <= Len(log[p])

\* The offset rule of processPartition, deadLetter and CommitRecords: whatever
\* crashes, rebalances, stale commits and lost acknowledgements do, a record
\* below the committed offset is in the database or the dead-letter topic, with
\* one exception: a record that resumePaused left behind the fetch position.
LostOnlyByResume ==
    \A p \in Partitions : \A i \in 1..committed[p] : Accounted(p, i) \/ i \in resumedOver[p]

\* The offset rule without the exception.
NothingLost == \A p \in Partitions : \A i \in 1..committed[p] : Accounted(p, i)

\* A pause is never orphaned: every partition the client has stopped fetching is
\* one that resumePaused will find, holds, or is about to be told of.
PausedIsTracked ==
    \A w \in Workers :
        paused[w] \subseteq pausedSet[w] \cup taken[w]
                              \cup (IF pc[w] = "add" THEN blocked[w] ELSE {})

\* recordOutcome counts an event as persisted once, however often Kafka delivers
\* it and whichever worker writes it.  (Not so when one batch holds it twice: worker_count.)
CountedOnce == \A e \in Events : processed[e] <= 1

\* The records of event e in a batch that starts after record n.
InBatch(p, n, e) ==
    Cardinality({i \in (n + 1)..Len(log[p]) : i <= n + BatchSize /\ log[p][i] = e})

\* What recordOutcome can promise when batches hold one event twice: all that is
\* ever counted of an event, over redeliveries, lost acknowledgements, crashes and
\* both workers, is what one single batch holds of it.
CountedInOneBatch ==
    \A e \in Events :
        \/ processed[e] <= 1
        \/ \E p \in Partitions : \E n \in 0..Len(log[p]) : processed[e] <= InBatch(p, n, e)

\* The workers implement the ledger: refinement mapping and property.
Ledger == INSTANCE OrderLedger WITH
    accounted <- [p \in Partitions |-> {i \in 1..Len(log[p]) : Accounted(p, i)}],
    skipped <- resumedOver

\* Every step of every worker is a step of the ledger: what is written or parked
\* stays so, only resumePaused skips a record and only one that is neither, and a
\* commit, stale or not, covers nothing else.
ImplementsLedger == Ledger!Spec

-----------------------------------------------------------------------------
(* Liveness.  The goroutines keep running; the coordinator assigns free      *)
(* partitions and drops dead members; the restart policy brings a process    *)
(* back; and an outage ends: a database or broker call returns, with success *)
(* or failure, and a ping that is repeated succeeds at last.  None of that   *)
(* is promised to a process that is shutting down: there only the watchdog   *)
(* runs for certain.                                                         *)

\* The steps that wait for the database or the broker.
Waits(w) ==
    \/ InsertOrders(w) \/ InsertOrdersFails(w) \/ InsertOrder(w) \/ GiveUp(w)
    \/ DeadLetter(w) \/ DeadLetterFails(w) \/ CommitRecords(w)

Fairness ==
    \A w \in Workers :
        /\ WF_vars(Poll(w) \/ PollInterrupted(w))
        /\ WF_vars(NextPartition(w) \/ EndOfPoll(w) \/ PartitionDone(w) \/ ChunkUnbatched(w)
                    \/ PauseFetchPartitions(w) \/ PausedSetAdd(w))
        /\ WF_vars(~sig[w] /\ Waits(w))
        /\ WF_vars(Resumer(w))
        /\ WF_vars(WatchdogAbandon(w) \/ WatchdogExit(w))
        /\ WF_vars(Restart(w))
        /\ WF_vars(~Up(w) /\ SessionTimeout(w))
        /\ WF_vars(PartitionsLost(w))
        /\ \A p \in Partitions : WF_vars(PartitionAssigned(w, p))

FairSpec == Spec /\ Fairness

\* Every record that reaches a partition is written or parked in the end, unless
\* a resumed partition has left it behind.
EveryRecordSettles ==
    <>(\A p \in Partitions : \A i \in 1..Len(log[p]) :
            Accounted(p, i) \/ i \in resumedOver[p])

\* resumePaused ends every pause.
PausedIsResumed ==
    \A w \in Workers : \A p \in Partitions : p \in paused[w] ~> p \notin paused[w]

\* The watchdog bounds a shutdown: a signalled process stops even when the
\* database never answers.
SignalStops == \A w \in Workers : sig[w] ~> ~Up(w)
=============================================================================
