# Verification of the order pipeline

TLA+ specifications of the order pipeline in `src/`: a gateway that accepts
orders into a Kafka topic, a group of workers that move them into PostgreSQL or
into a dead-letter topic, a query service that reads them back, a command that
replays dead letters, a load generator that measures, and a console that runs
experiments on the whole. TLC checks the specifications on small instances, safety
and liveness; TLAPS proves, for every instance, each invariant and action property
that a passing run checks, one of them (`CountedOnce`) under a condition that the
run meets.

## The system

| Part | State | Operations |
|---|---|---|
| api gateway, `cmd/api`, `internal/order`, `internal/broker/producer.go` | none of its own | `POST /orders` (validate, `NewEvent`, `Publish`, 202 or 503), `GET /orders/{id}`, `GET /orders` |
| worker, `cmd/worker`, `internal/retry`, `internal/store/store.go`, `internal/broker/consumer.go`, `dlq.go` | fetch positions and pauses of the Kafka client, records in hand, paused set, two contexts; behind it the group's offsets, the `orders` table and the dead-letter topic | the poll loop, batch insert with one-by-one fallback, dead-lettering, pause and resume, drain and watchdog, rebalance callbacks |
| query service and reads, `cmd/query`, `internal/store/query.go` | none; the table | `GetOrder`, `ListOrders` with a keyset cursor |
| replay tool, `cmd/replay` | the offsets of its own group, the run's counters | dry run, replay, skip, commit per partition, verify |
| retry and inserts, `internal/retry`, `internal/store` | a call's back-off and elapsed time; in PostgreSQL, the open transactions | `retry.Do`, `InsertOrder`, `InsertOrders`, `IsRetryable` |
| console, `cmd/console` | run state, ring of lines, subscribers; the table of failed logins; in the page, `lastSeq` and the pane | start, supervise, stop, finish, emit, stream, shutdown; login; connect, print, clear |
| load generator, `cmd/loadgen` | permits, counters, senders in flight | schedule, send, summarise, wait for the pipeline, measure |
| smoke test, health checks, metrics, configuration, stack view | nothing the pipeline depends on | not modelled, see below |

What is hard here, and where: offsets that move past unsettled records (worker,
replay); a fetch position that runs ahead of the commit; pauses and resumes on
two goroutines; partitions that change hands while their records are being
written; writes and produces that succeed although the caller sees an error;
process crashes and a watchdog that exits in the middle; client retries racing
redeliveries and replays; two unique columns of which ON CONFLICT names one;
pages read while rows arrive; a lock that has to cover processes and not only
goroutines; counts compared with rows that others wrote. `PROJECT.json` lists each hazard at its line.

## Modules

| Module | Models |
|---|---|
| `Worker` | a consumer group of any number of workers: poll loop, record handling, resumer, watchdog, crash and restart, coordinator |
| `OrderLedger` | what the group promises about the topic, with no workers in it; `Worker` refines it |
| `Insert` | one write in close-up: `retry.Do` around the store, and the database backends row by row |
| `Replay` | successive runs of the replay command beside workers reduced to "write it or park it again" |
| `Gateway` | the write path as clients see it, with idempotency keys, and reads by id |
| `Listing` | keyset pagination while rows are inserted |
| `Runner` | the console's runner, its output stream, the browser tabs, shutdown and restart |
| `Login` | the throttle in front of the console's password |
| `Loadgen` | the load generator, its senders and its report, beside a pipeline that may lose orders |
| `MCWorker`, `MCReplay`, `MCRunner` | the instances TLC checks |
| `MCRequests` | instances of `Gateway`, `Listing`, `Login` and `Runner`, for safety |
| `MCEndings` | instances of `Insert`, `Loadgen` and `Runner`, with liveness |
| `WorkerFrame`, `WorkerProofs` | lemmas and theorems about `Worker`, the second extending the first |
| `ReplayProofs`, `ListingProofs`, `RunnerProofs`, `LoadgenProofs` | lemmas and theorems about the module each is named after |
| `RequestsProofs` | the proofs about `Gateway` and `Login`, and the theorems about `MCRequests` |
| `EndingsProofs` | the proofs about `Insert`, and the theorems about `MCEndings` |

`MCRequests` and `MCEndings` hold components that share no state. The variable
`part` picks the one that a behaviour is about; the others stay in their initial
state. Interleaving them would multiply the states and add nothing. Where a
component has a module of proofs they instantiate that module, so that its
theorems can be cited.

Definitions whose comment starts with "Mutation of" are deliberately broken
versions of the definition they name. No specification uses them; putting one in
the place of the original makes TLC report the property it is paired with in
`PROJECT.json`.

### Worker

An offset `n` stands for the first `n` records of a partition. `pc` follows the
poll loop: `poll` (PollFetches), `each` (EachPartition), `chunk`
(processPartition between two chunks, or InsertOrders running), `handle`
(InsertOrder running), the two dead-letter reasons (DLQ.Send running), `pause`
and `add` (the two statements after a stall), `commit`, `closing`, `down`. The
resumer's three calls, Ping, take and ResumeFetchPartitions, are three steps.
`sig` and `abandoned` are the two contexts.

Every call that leaves the process has its ambiguous outcome. An insert may
commit and lose its acknowledgement (`InsertUnacknowledged`); a dead letter may
be on the topic after a failed Send (`DeadLetterFails`); each partition of a
commit may fail by itself, and the coordinator refuses commits of an expelled
member but does not check ownership. Between any two steps a process may crash,
be signalled, lose a partition or be expelled; an expelled worker goes on until
it finds out (`PartitionsLost`).

Abstractions: events are values, with a set of values that do not parse, a set
that parse and do not fit the schema, and an order id each; statements are
atomic; time is left out, so a retry budget or a session may run out at any
moment. A write that fails is parked with either reason: IsRetryable calls a
missing table or an error of an unknown class poison too, and those may meet any
record. `Insert` has the classes. The client's fetch position after a resume is
franz-go's: lifting a pause does not move it. A restarted process joins once its
predecessor has been dropped. `heartbeat` and `pollLag` only report.

### Insert

`Insert` takes apart what is one step in `Worker`. A writer is a call of
`retry.Do`: it executes its statement, and on an error gives up or waits for up
to `backoff`, which doubles up to `Max`, unless that would overrun the budget.
Time is counted in units; `elapsed` is when the current attempt began, and a
failed attempt takes between one unit and `MaxStatement`.

A backend executes a statement row by row. `Check` is ON CONFLICT (event_id) DO
NOTHING: a row with the same event id makes this one a no-op, an uncommitted one
is waited for. `InsertTuple` enters the tuple into the indexes, `orders_pkey`
first as in `schema.sql`; there an equal order id is an error if it is committed
and a wait if it is not. Between the two steps other backends run. Backends that
wait for each other get a deadlock error. A statement with a value that does not
fit its column fails before its first row (class 22). An error that has nothing
to do with the rows may end a statement at any moment, with any class that
IsRetryable names, or an unknown one. A client that is cut off, cancelled or
killed leaves its statement running, and the statement may still commit. A batch
that fails is not parked; its records come back in calls of their own, as any
record may.

### Replay

One command at a time, several one after the other. A dead letter carries its
reason, its `replay_count` header and, as history, the number of laps it has
really made. The run's steps are the poll, the visit of a partition, one step
per record, the commit and the verification; an interrupt, a kill, a failed or
ambiguous produce and a failed commit can come at any of them. `-verify` is
positive or 0, and the wait for the group join is folded into the poll.
Fetch errors make a poll empty, as in the code.

### Gateway and Listing

`Gateway` follows a request through `NewEvent`, the append and the answer. A 503
leaves open whether the record is on the topic; a record appended after the 503
is the same as one from a slower client. Validation is a set of bodies and keys
that `Post` does not let through; a refused request changes nothing, and `TypeOK`
says that nothing refused reaches the topic. Records of one order are first handled in topic
order, because they share a partition, and any of them may come again.

In `Listing` ids and timestamps are numbers. `processed_at` is the start of the
inserting transaction, so a row may appear with a timestamp older than rows
that are visible already, anywhere around the cursor.

### Runner

Each step is one critical section of `mu` or `subsMu`, one wake-up of os/exec,
or one message handled by a page. A line is its sequence number, its run and
the console process that numbered it. Two histories, `offered` and
`overflowed`, say what was written on a connection. The process tree is killed
as the process group it is, on Unix; scripts wait for what they start, and
`holder` stands for a descendant outside the group that keeps the pipes. A
request under way when the signal arrives is still served. A SIGKILL of the
console is not modelled, nor the wording of the verdict.

`StrayIsLastLine` is about `resetRing`: `finish` emits its line after it has
given the lock back, so the ring of a run may hold that one line of the run
before, and nothing else of it.

### Login

A login checks the lock, compares the password and records the outcome, in two
critical sections with a slow comparison between them, so logins of one address
overlap. `Sweeps` are the tables that `sweep` may leave: stale entries go, and a
full table loses its oldest entries, in any order if they are equally old. A
failure count stops growing where the back-off does. Time is a counter.

### Loadgen

A request is its tick. The scheduler waits for the tick, then for a permit; the
sender's three countings, the return of its permit and `wg.Done` are five
steps. The pipeline behind the api may append a record without answering 202 and
need never write its row. `earlier` is the number of rows that match the tag and
are not of this run. After the report is printed nothing is followed.

## Runs

| Run | Question | Answer |
|---|---|---|
| `worker_group` | can two workers on one partition, in batches of two, lose a record, count an event for more than one batch or step outside the ledger? | lose one, only by a resume |
| `worker_partitions` | one worker, two partitions, fair: are pauses tracked and ended, do records settle, does a signal stop it? | yes |
| `worker_resume` | is the record that paused a partition retried after the resume? | no, finding |
| `worker_count` | is an event counted once when a batch holds it twice? | no, finding |
| `replay_cycle` | do repeated runs drop, loop or misreport a dead letter, touch anything in a dry run, or hang? | no |
| `replay_interrupt` | does an interrupted run commit what it replayed? | no, finding |
| `replay_verify` | does MISSING mean that a row is missing? | no, finding |
| `runner_orphan` | is no experiment left behind by a shutdown? | no, finding |
| `requests` | api: one order per key, 202 only for what is queued, stable reads, no row twice or skipped in a listing? Console: no lock lifted early, no overlapping runs, no gap in the stream, no foreign output in the ring? | yes |
| `endings` | is an event reported new at most once, is what was parked for its data never written later, does every retried call return; does the load generator count every request once and end; is the console's lock given back, and does the pane keep its order over a restart? | yes |
| `insert_race` | is a record that has been applied never treated as an error? | no, finding |
| `loadgen_missing` | is an accepted order without a row always reported as MISSING? | no, finding |

The bounds are the smallest at which the hazards happen. Two records in a
partition are enough for one to be passed by the other; two workers for a stale
holder; one fault for an interruption at every point, since each fault may be
any of crash, signal, revocation and expulsion. The contents of a partition
cover two orders, a repeated event, a conflicting order id, a malformed record
and one that the schema refuses. Two replay runs and three letters let a record make a second lap and
meet the guard. A ring and a channel of two lines overflow. Two runs of the
console meet each other; two lives meet a tab that outlives the first. In
`endings` there is one run in all, so the second life has no lines of its own;
there `PaneInOrder` rests on its theorem. Four rows
and pages of one or two give a walk of several pages with insertions on both
sides of the cursor and equal timestamps. Three addresses and a table of two
fill it; six units of time let a lock be set, run out and go stale. Two writers
and two backends race on one event, collide on one order id and deadlock with
two opposite batches; a budget of two units leaves room for one retry. Two ticks
and one permit make the scheduler wait; `loadgen_missing` uses three and two.
One tab suffices for the stream,
because tabs only meet in emit's fan-out. `worker_group` is symmetric in the
workers; it checks no liveness. `worker_partitions` has batches of one: with two
partitions and batches of two its state space is out of reach under fairness, so
that records settle through the one-by-one fallback is not checked, only that
nothing is lost in it.

Deadlock is not checked: a pipeline with nothing left to do, and a bound that is
used up, are legitimate ends.

### Fairness

`Worker!FairSpec`: goroutines run; calls return sooner or later with success or
failure; a broker that is pinged again and again answers at last; the
coordinator assigns free partitions and drops dead members; the restart policy
of `docker-compose.yml` starts a process again. None of this is assumed of the
calls of a process that is shutting down, where only the watchdog is certain.
`Replay!FairSpec`: the calls of the command return. Polls end after `-idle`, the
verification after `-verify`. `Runner!FairSpec`: the goroutines of start,
supervise and os/exec run, timers fire and a shutdown ends. No child process
need ever exit and no pipe need ever be closed. `Insert!FairSpec`: a writer
sends its statement or learns that it cannot, and a backend works on what it
has; waiting for another transaction is no step. No attempt need succeed, but
each one ends: the code sets no statement timeout, and `DoReturns` says nothing of
a server that accepts a statement and never answers.
`Loadgen!FairSpec`: goroutines run, the client's 30 s timeout ends every
request, queries return and time passes; nothing is assumed of the pipeline. In
`endings` a part that is not picked has no fair step enabled, so the three
assumptions do not meet.

## Findings

1. `resumePaused` lifts the pause but leaves the fetch position behind the
   failed record, whose successors are then written and committed over it
   (`worker_resume`).
2. A batch with the same event twice counts it twice as persisted
   (`worker_count`).
3. An interrupted replay commits with a cancelled context, so it commits nothing
   of the partition in hand (`replay_interrupt`).
4. `verify` compares records with distinct rows: an event parked twice is
   reported missing for ever (`replay_verify`).
5. The console may exit before the process group it cancelled has been killed
   (`runner_orphan`).
6. Two inserts of one event at the same time can meet on `orders_pkey`, which
   ON CONFLICT does not name; the second fails with a unique violation and its
   record, which is in the table, is parked as poison (`insert_race`).
7. `Missing` is a difference of two counts. Rows of an earlier run under the same
   tag, which the console's chaos actions fix, and rows of requests that were
   not answered 202 hide accepted orders that have no row (`loadgen_missing`).

## Proofs

### Worker

From `WorkerAssumption` only: the malformed and the unusable events are events,
contents are sequences of events, the batch size is positive. Workers, partitions, contents,
batch size and number of faults are arbitrary.

- `TypeCorrect`: no offset points past its partition.
- `OffsetRule`: everything below a committed offset is written, parked, or was
  left behind by a resume. `LossNeedsResume` is its corollary: while no resume
  has left a record behind, nothing is lost.
- `PausesTracked`: no pause is orphaned.
- `Refinement`: the group implements `OrderLedger`.
- `CountsOneBatch`: whatever is redelivered, an event is counted as persisted for
  the records of one batch and for no other.
- `CountsOnce`: an event is counted as persisted at most once, if no event comes
  twice among `BatchSize` records in a row (`NoRepeatInBatch`). With batches of
  one, which `worker_partitions` checks, that is no condition; without it the
  claim is false, which is finding 2.

The offset rule is not inductive: a commit takes whatever the poll loop holds
as done, so one has to know that this is safe. `IInv` (in `WorkerFrame`) adds
three things for each worker. `LoopInv` says what the loop holds at each `pc`.
`PauseInv` says that a paused partition is exactly one the resumer knows of or
is about to be told of, and none that is in hand. `OffsetInv` is the heart: as
long as the work context is alive, what the loop counts as done is a safe
offset, and a partition that is being fetched has either a safe position or the
unsettled rest of its records in hand. It is conditional because a partition
abandoned in the middle is neither done nor paused; nothing commits after that.

The argument: a step of one worker leaves the variables of the others alone
(`OthersStep`), and safe offsets stay safe because rows, dead letters and
skipped records only grow (`SafeGrows`). So the others' invariants carry over by
the frame lemmas, and only the acting worker's own part needs a case per
action: `TypeStep`, `LoopStep`, `PauseStep`, `OffsetStep`. `CountsOneBatch`
adds that an event without a row has not been counted; a chunk then adds its
copies of the event, and the row that keeps later chunks from adding more. For
`CountsOnce` there is one copy at most.

### Insert

From `InsertAssumption`: the unusable events are events, statements are non-empty
sequences of events, the policy's durations are numbers and the first delay is positive. Writers,
backends, statements, policy and number of calls are arbitrary.

- `TypeCorrect`: every attempt begins within the budget, and no two rows share
  an order id.
- `InsertReportsOnce`: an event is reported as new at most once.
- `InsertRefusesForGood`: a record parked for its own data, class 22 or 23, is not
  written afterwards. Classes 42 and unknown are parked at once as well and are
  exempt: such a record may be written by a replay.

`IInv` adds five facts. `TuplesApart`: no two tuples, committed or not, share an
order id, so the tuple that a transaction commits cannot have been reported
before. `ServesCall`: a backend with a client executes that client's current
call, and no other backend does, so one commit is reported once. `PastRows`: a
transaction at its first row has entered nothing, so the order id that a single
record collides with is a committed one. `TuplesBind`: no tuple has a refused
value. `Refused`: whatever was parked for its data has a refused value or its
order id in the table. With `TuplesApart` no commit can add it (`RowsStep`). What
the theorem does not say is that the row in the way is another event's; that is
finding 6.

### Replay

From `ReplayAssumption`: command lines are well formed with `-max-replays` at
least 1, and the backlog has made no laps. Partitions, events, command lines,
backlog and number of runs are arbitrary.

- `NothingDeleted`: no dead letter falls below the group's offset unless it was
  put back or declined.
- `LapsAreCounted`: the loop guard reads the true number of laps.
- `OkIsPersisted`: exit code 0 of a run that verifies means that every row is
  there.
- `DryRunsTouchNothing`.
- `ReplayTypes`: no poll and no commit reaches past the end of a partition. `Ends`
  follows the commit of one run into the position of the next.

`NothingDeleted` needs to know where a poll starts. The client's position jumps
to the end of each poll whatever became of its records, so "everything below the
position is handled" is false after a failed produce, an interrupt or a limit
reached. `RunAccounts` says that it holds before every fetch: a poll that leaves
records behind is the run's last (`LastPoll`). `CursorInvariant` places the
record in hand inside the topic. `OkIsPersisted` rests on a cardinality lemma,
`CountedRows`: as many distinct rows as records leaves no record without a row.
The converse fails, which is finding 4.

### Gateway

From `GatewayAssumption`: the absent key is not a key. Clients, keys, bodies and
number of requests are arbitrary.

- `KeysHaveOneOrder`, `AcceptedOrdersAreQueued`, `ReadsNeverDisagree`,
  `GatewayTypes`.

The inductive invariant `GInv` follows an event from the handler to the topic
and the table: its ids are those of its key (`Keyed`), an appended event stays
on the topic, and the table's unique columns are unique.

### Listing

From `ListingParameters`: ids, timestamps and page sizes are positive numbers, the
default no more than the ceiling. Rows, customers, page sizes and number of walks
are arbitrary.

- `RowsAreSeenOnce`: a walk shows no row twice.
- `RowsAreNotSkipped`: a finished walk has every matching row that was there when it
  started.
- `ListingTypes`: no page exceeds the ceiling, and a token is the place of a row.

Both are false of an arbitrary state: they need to know how the token relates to
what the client has. `Walk` says that the pages so far descend strictly in the order
of the query, that the token is the place of the last row, and that each row still
owed lies beyond the token. `Newest` is the sorted result, defined by how many rows
come before each (`Ahead`); `NewestSorts` shows that it has each row of a finite set
once, in order, and that what a page leaves out comes after its last row. An
inserted row, wherever it falls, disturbs neither.

### Login

From `LoginParameters`: the limits are positive numbers and history outlives the
longest back-off, as the constants of `auth.go` do. Handlers, addresses, limits and
time are arbitrary.

- `LocksAreKept`: a lock in force is neither lost nor shortened, but by a success of
  the address or by the eviction of a full table.
- `LoginTypes`: the table keeps to its cap, and no lock reaches beyond the longest
  back-off.

`LoginInv` says that the lock of an entry is the one its count calls for, reckoned
from its last failure. So a further failure, also one whose comparison began before
the lock was set, can only move the lock forward (`FailedEntry`, with `BackoffGrows`
for the doubling and its cap), and an entry that `sweep` takes for stale has no lock
left. `SweepsFit` shows that a sweep makes room for one more.

### Runner

From `RunnerParameters`: the ring and the channels hold a line at least. Tabs, runs,
lines, restarts and sizes are arbitrary.

- `OneRunAtATime`: the processes of two runs never overlap.
- `StrayLineIsLast`: of an earlier run the ring holds at most its last line.
- `StreamHasNoGap`: no line is lost between snapshot and subscription.
- `PanesAscend`: a pane shows no line twice and none out of order.
- `RunnerTypes`.

`IInv` ties the lock to the runs (`RunInv`: they start in order, only the last can
hold the lock, a process group is alive only while supervise waits or after the
console has gone), the ring to the phases (`RingInv`: a foreign line is the last
line of a run that is done, and no two are of one run), a stream to the ring
(`StreamInv`: every line of the ring was written to the tab or is in its backlog or
its channel, unless the channel overflowed) and a pane to `lastSeq` (`PaneInv`). The
steps that emit are the ones that matter to the last three; `EmitRing` describes
what a line does to a full ring.

### Loadgen

From `LoadgenParameters`: ticks and bound are numbers, the concurrency is
positive.

- `ReportsAddUp`: the report has every launched request once, and its MISSING
  never exceeds the loss.
- `LoadgenTypes`: permits in the channel and permits held always add up to the
  concurrency, and no counter exceeds the number of ticks.

The invariant equates every counter with the number of requests that have
passed the step that counts (`Counts`), and says that no sender is left once the
report is made (`Reported`). At `wg.Wait` the three sets of counted requests are
disjoint and cover the launched ones. That MISSING is no overstatement is a fact
about sets of rows; that it may be an understatement is finding 7.

### The composed instances

`RequestsProofs` and `EndingsProofs` carry these results over to the specifications
that TLC runs. A step of `mcNext` is a step of the component that `part` picks and
leaves the variables of the others alone, so each behaviour of `mcSpec` is one of
every component (`Together`), and each property of the runs `requests` and `endings`
follows from the theorem about its component.

### Only model-checked

Liveness: `EveryRecordSettles`, `PausedIsResumed`, `SignalStops`, `RunEnds`,
`DoReturns`, `LoadRunEnds` and `LockIsReleased` need fairness, which the prover does
not cover.

## Not modelled

- Which orders, keys and page parameters are valid, the order total and its
  int64, and formatting of answers, reports and metrics: pure functions.
- The console's session cookie, which is signed and not stored; its stack and
  Prometheus views, which only read; its table of actions.
- Latencies, percentiles and late ticks of the load generator; the smoke test:
  they are about the wall clock.
- PostgreSQL below the tuple and Kafka below the record: write-ahead log,
  isolation of reads, replication. How long a back-off is in seconds.
- Windows process handling; generated code; configuration.

Four hazards have no property. An error of class 42 or of an unknown class
parks a blameless record as poison, which is deliberate; it stays accounted for.
A replay run with narrow `-reasons` commits past what it skips, which is meant
so. A tab that outlives the console drops lines until the new numbering catches
up, and nothing promises otherwise. Which of two requests with one key wins
depends on what was parked, and `OneOrderPerKey` holds either way.

## Plan

1. A composition of gateway, worker and replay for one key from POST to row, in
   place of the reduced workers of `Gateway` and `Replay`.
2. In the proofs, the gateway's table and the one that `Listing` reads as one.
