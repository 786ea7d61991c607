------------------------------- MODULE Replay -------------------------------
(***************************************************************************)
(* cmd/replay: an operator's command that reads the dead-letter topic       *)
(* through a consumer group of its own, produces chosen records back to the *)
(* orders topic and checks that their rows appear.  One command runs at a   *)
(* time; several runs follow each other.  The workers run beside it and are *)
(* reduced here to what they do with one orders record: write it, or park   *)
(* it again with the replay headers carried forward.                        *)
(***************************************************************************)
EXTENDS Naturals, Sequences, FiniteSets

CONSTANTS
    Partitions,  \* partitions of the dead-letter topic
    Events,      \* record values
    Malformed,   \* the ones without a readable event id
    Options,     \* the command lines; verify is whether -verify is positive
    Backlog,     \* the dead letters a partition may hold when the first run starts
    MaxRuns,     \* bound on runs of the command
    MaxLetters,  \* bound on the dead letters of a partition
    NoPartition

Reasons == {"poison", "retries_exhausted"}
Letter == [event : Events, reason : Reasons \cup {"absent"}, count : Nat, trips : Nat]
Option == [apply : BOOLEAN, verify : BOOLEAN, wanted : SUBSET Reasons, limit : Nat,
           maxReplays : Nat \ {0}]

ASSUME ReplayAssumption ==
    /\ Malformed \subseteq Events
    /\ Options \subseteq Option
    /\ Backlog \subseteq Seq({l \in Letter : l.count = 0 /\ l.trips = 0})
    /\ MaxRuns \in Nat /\ MaxLetters \in Nat
    /\ NoPartition \notin Partitions

VARIABLES
    dead,       \* the dead-letter topic; trips is the true number of round trips
    orders,     \* records of the orders topic no worker has handled yet
    db,         \* events with a row
    rcommitted, \* the replay group's offsets
    pc, opts,
    pos,        \* where the client's next records start
    todo, cur,  \* partitions of this poll still to visit, and the one in hand
    hi,         \* end of this poll's records, by partition
    at,         \* record of cur that replayPartition has reached
    last,       \* last accounted record of cur, 0 for nil
    stopping,   \* run's "stop": a produce failed
    replayed,   \* event ids to verify, with repetitions
    sent,       \* rep.Replayed
    failed,     \* rep.Failed > 0
    cancelled,  \* SIGINT or SIGTERM has cancelled ctx
    exit,       \* how the last run ended
    runs,
    \* history
    produced,   \* dead letters that were put back on the orders topic
    declined    \* dead letters that decide turned down in an applying run

pipeline == <<dead, orders, db>>
run == <<opts, pos, todo, cur, hi, at, last, stopping, replayed, sent, failed>>
vars == <<pipeline, rcommitted, pc, run, cancelled, exit, runs, produced, declined>>

Nowhere == [p \in Partitions |-> 0]

Init ==
    /\ dead \in [Partitions -> Backlog]
    /\ orders = <<>>
    /\ db \in SUBSET (Events \ Malformed)
    /\ rcommitted = Nowhere
    /\ pc = "off"
    /\ opts \in Options
    /\ pos = Nowhere /\ hi = Nowhere
    /\ todo = {} /\ cur = NoPartition /\ at = 0 /\ last = 0
    /\ stopping = FALSE /\ replayed = <<>> /\ sent = 0 /\ failed = FALSE
    /\ cancelled = FALSE
    /\ exit = "none"
    /\ runs = 0
    /\ produced = {} /\ declined = {}

-----------------------------------------------------------------------------
(* The workers.                                                            *)

WorkerPersists ==
    /\ orders # <<>>
    /\ Head(orders).event \notin Malformed
    /\ db' = db \cup {Head(orders).event}
    /\ orders' = Tail(orders)
    /\ UNCHANGED <<dead, rcommitted, pc, run, cancelled, exit, runs, produced, declined>>

\* Mutation of SendDead: a fresh header list, without carryForward.
SendDeadFresh(rec, reason) ==
    [event |-> rec.event, reason |-> reason, count |-> 0, trips |-> rec.trips]

\* DLQ.Send: the replay headers survive, the diagnosis is rewritten.
SendDead(rec, reason) ==
    [event |-> rec.event, reason |-> reason, count |-> rec.count, trips |-> rec.trips]

\* A worker parks a record, and parks it once more when it loses the partition
\* before its commit.
WorkerParks ==
    /\ orders # <<>>
    /\ \E p \in Partitions, reason \in Reasons :
        /\ Len(dead[p]) < MaxLetters
        /\ Head(orders).event \in Malformed => reason = "poison"
        /\ dead' = [dead EXCEPT ![p] = Append(@, SendDead(Head(orders), reason))]
    /\ orders' \in {orders, Tail(orders)}
    /\ UNCHANGED <<db, rcommitted, pc, run, cancelled, exit, runs, produced, declined>>

-----------------------------------------------------------------------------
(* run()                                                                   *)

Start ==
    /\ pc = "off"
    /\ runs < MaxRuns
    /\ runs' = runs + 1
    /\ opts' \in Options
    /\ pc' = "poll"
    /\ pos' = rcommitted
    /\ stopping' = FALSE /\ replayed' = <<>> /\ sent' = 0 /\ failed' = FALSE
    /\ cancelled' = FALSE
    /\ exit' = "none"
    /\ UNCHANGED <<pipeline, rcommitted, todo, cur, hi, at, last, produced, declined>>

LimitReached == opts.limit > 0 /\ sent >= opts.limit

\* main's exit code when nothing is missing.
ExitCode == IF failed THEN "failed" ELSE "ok"

\* The loop is over: verify when something was produced, else exit.
Finish ==
    IF opts.apply /\ opts.verify /\ replayed # <<>>
    THEN pc' = "verify" /\ UNCHANGED exit
    ELSE pc' = "off" /\ exit' = ExitCode

PollFetches ==
    /\ pc = "poll"
    /\ ~LimitReached
    /\ \E end \in [Partitions -> 0..MaxLetters] :
        /\ \A p \in Partitions : end[p] \in pos[p]..Len(dead[p])
        /\ end # pos
        /\ hi' = end
        /\ todo' = {p \in Partitions : end[p] # pos[p]}
    /\ pc' = "each"
    /\ UNCHANGED <<pipeline, rcommitted, opts, pos, cur, at, last, stopping, replayed, sent,
                   failed, cancelled, exit, runs, produced, declined>>

\* Mutation of PollEnds: an empty poll is always taken for the join.
PollWaits ==
    /\ pc = "poll"
    /\ cancelled
    /\ Finish
    /\ UNCHANGED <<pipeline, rcommitted, run, cancelled, runs, produced, declined>>

\* The limit is reached, or the poll came back empty: the topic is drained, the
\* broker did not answer within -idle, or the command was interrupted.
PollEnds ==
    /\ pc = "poll"
    /\ Finish
    /\ UNCHANGED <<pipeline, rcommitted, run, cancelled, runs, produced, declined>>

EachPartition ==
    /\ pc = "each"
    /\ IF todo = {} \/ stopping
       THEN /\ IF stopping \/ cancelled THEN Finish ELSE pc' = "poll" /\ UNCHANGED exit
            /\ todo' = {}
            /\ pos' = [p \in Partitions |-> IF hi[p] > pos[p] THEN hi[p] ELSE pos[p]]
            /\ hi' = Nowhere
            /\ UNCHANGED <<cur, at, last>>
       ELSE /\ \E p \in todo : cur' = p /\ todo' = todo \ {p} /\ at' = pos[p]
            /\ last' = 0
            /\ pc' = "record"
            /\ UNCHANGED <<pos, hi, exit>>
    /\ UNCHANGED <<pipeline, rcommitted, opts, stopping, replayed, sent, failed, cancelled,
                   runs, produced, declined>>

-----------------------------------------------------------------------------
(* replayPartition                                                         *)

Current == dead[cur][at + 1]
Here == [partition |-> cur, offset |-> at + 1]

\* The loop over the records ends: none is left, ctx is cancelled, or the limit
\* is reached.
ReturnLast ==
    /\ pc = "record"
    /\ at = hi[cur] \/ cancelled \/ LimitReached
    /\ pc' = "commit"
    /\ UNCHANGED <<pipeline, rcommitted, run, cancelled, exit, runs, produced, declined>>

\* decide: the record is to be replayed.
Decide(rec) ==
    /\ rec.reason # "absent"
    /\ rec.reason \in opts.wanted
    /\ rec.count < opts.maxReplays

AtRecord == pc = "record" /\ at < hi[cur] /\ ~LimitReached

\* A skipped record counts as accounted for.
SkipRecord ==
    /\ AtRecord /\ ~cancelled
    /\ ~Decide(Current)
    /\ at' = at + 1
    /\ last' = at + 1
    /\ declined' = IF opts.apply THEN declined \cup {Here} ELSE declined
    /\ UNCHANGED <<pipeline, rcommitted, pc, opts, pos, todo, cur, hi, stopping, replayed, sent,
                   failed, cancelled, exit, runs, produced>>

\* A dry run counts what it would have sent.
DryRunRecord ==
    /\ AtRecord /\ ~cancelled
    /\ Decide(Current)
    /\ ~opts.apply
    /\ at' = at + 1
    /\ sent' = sent + 1
    /\ UNCHANGED <<pipeline, rcommitted, pc, opts, pos, todo, cur, hi, last, stopping, replayed,
                   failed, cancelled, exit, runs, produced, declined>>

\* replayHeaders: the count goes up by one and the diagnosis is dropped.
Replayed(rec) == [event |-> rec.event, count |-> rec.count + 1, trips |-> rec.trips + 1]

PublishRecord ==
    /\ AtRecord /\ ~cancelled
    /\ Decide(Current)
    /\ opts.apply
    /\ orders' = Append(orders, Replayed(Current))
    /\ produced' = produced \cup {Here}
    /\ at' = at + 1
    /\ last' = at + 1
    /\ sent' = sent + 1
    /\ replayed' = IF Current.event \in Malformed THEN replayed
                   ELSE Append(replayed, Current.event)
    /\ UNCHANGED <<dead, db, rcommitted, pc, opts, pos, todo, cur, hi, stopping, failed,
                   cancelled, exit, runs, declined>>

\* An error from ProduceSync; the record may be on the orders topic all the same.
PublishFails ==
    /\ AtRecord
    /\ Decide(Current)
    /\ opts.apply
    /\ \/ orders' = Append(orders, Replayed(Current)) /\ produced' = produced \cup {Here}
       \/ UNCHANGED <<orders, produced>>
    /\ failed' = TRUE
    /\ stopping' = TRUE
    /\ pc' = "commit"
    /\ UNCHANGED <<dead, db, rcommitted, opts, pos, todo, cur, hi, at, last, replayed, sent,
                   cancelled, exit, runs, declined>>

Leave ==
    /\ pc' = "each"
    /\ cur' = NoPartition /\ at' = 0 /\ last' = 0
    /\ UNCHANGED <<pipeline, opts, pos, todo, hi, stopping, replayed, sent, failed, cancelled,
                   exit, runs, produced, declined>>

\* Mutation of CommitRecords: commits one past the offset after the record.
CommitPastNext ==
    /\ pc = "commit"
    /\ last # 0 /\ opts.apply
    /\ ~cancelled
    /\ rcommitted' = [rcommitted EXCEPT ![cur] = last + 1]
    /\ Leave

\* Mutation of CommitRecords: every record of the poll counts as accounted for.
CommitWholePoll ==
    /\ pc = "commit"
    /\ last # 0 /\ opts.apply
    /\ ~cancelled
    /\ rcommitted' = [rcommitted EXCEPT ![cur] = hi[cur]]
    /\ Leave

\* Mutation of CommitRecords: a dry run commits what it skipped.
CommitDryRun ==
    /\ pc = "commit"
    /\ last # 0
    /\ ~cancelled
    /\ rcommitted' = [rcommitted EXCEPT ![cur] = last]
    /\ Leave

CommitRecords ==
    /\ pc = "commit"
    /\ last # 0 /\ opts.apply
    /\ ~cancelled
    /\ rcommitted' = [rcommitted EXCEPT ![cur] = last]
    /\ Leave

\* There is nothing to commit, or the commit fails: the error is only logged.
CommitNothing ==
    /\ pc = "commit"
    /\ UNCHANGED rcommitted
    /\ Leave

-----------------------------------------------------------------------------
(* verify and the exit code                                                *)

Checked == Len(replayed)
Persisted == Cardinality({replayed[i] : i \in 1..Checked} \cap db)

\* Mutation of VerifyDone: one row is taken for all of them.
VerifyAnyRow ==
    /\ pc = "verify" /\ ~cancelled
    /\ Persisted >= 1
    /\ exit' = ExitCode
    /\ pc' = "off"
    /\ UNCHANGED <<pipeline, rcommitted, run, cancelled, runs, produced, declined>>

VerifyDone ==
    /\ pc = "verify" /\ ~cancelled
    /\ Persisted >= Checked
    /\ exit' = ExitCode
    /\ pc' = "off"
    /\ UNCHANGED <<pipeline, rcommitted, run, cancelled, runs, produced, declined>>

\* The -verify wait is over with Missing > 0.
VerifyDeadline ==
    /\ pc = "verify" /\ ~cancelled
    /\ Checked > Persisted
    /\ exit' = "missing"
    /\ pc' = "off"
    /\ UNCHANGED <<pipeline, rcommitted, run, cancelled, runs, produced, declined>>

\* A query error, or ctx.Done while waiting: run returns an error.
VerifyError ==
    /\ pc = "verify"
    /\ exit' = "error"
    /\ pc' = "off"
    /\ UNCHANGED <<pipeline, rcommitted, run, cancelled, runs, produced, declined>>

Interrupt ==
    /\ pc # "off"
    /\ ~cancelled
    /\ cancelled' = TRUE
    /\ UNCHANGED <<pipeline, rcommitted, pc, run, exit, runs, produced, declined>>

Kill ==
    /\ pc # "off"
    /\ pc' = "off"
    /\ exit' = "killed"
    /\ todo' = {} /\ hi' = Nowhere /\ cur' = NoPartition /\ at' = 0 /\ last' = 0
    /\ UNCHANGED <<pipeline, rcommitted, opts, pos, stopping, replayed, sent, failed, cancelled,
                   runs, produced, declined>>

-----------------------------------------------------------------------------
Worker == WorkerPersists \/ WorkerParks

Step ==
    \/ PollFetches \/ PollEnds \/ EachPartition \/ ReturnLast
    \/ SkipRecord \/ DryRunRecord \/ PublishRecord
    \/ CommitRecords \/ VerifyDone \/ VerifyDeadline \/ VerifyError

Next == Worker \/ Start \/ Step \/ PublishFails \/ CommitNothing \/ Interrupt \/ Kill

Spec == Init /\ [][Next]_vars

\* Every call of the command returns: produces, commits and queries fail or
\* succeed, polls end after -idle and verify after its own wait.
FairSpec == Spec /\ WF_vars(Step \/ PublishFails \/ CommitNothing)

\* Nothing fails and nothing is killed; the operator may press Ctrl-C.
CalmSpec ==
    Init /\ [][\/ Worker \/ Start \/ Step \/ Interrupt
               \/ ~(last # 0 /\ opts.apply /\ ~cancelled) /\ CommitNothing]_vars

-----------------------------------------------------------------------------
\* Types; an offset never points past the end of its partition.
TypeOK ==
    /\ dead \in [Partitions -> Seq(Letter)]
    /\ orders \in Seq([event : Events, count : Nat, trips : Nat])
    /\ db \subseteq Events \ Malformed
    /\ rcommitted \in [Partitions -> Nat] /\ pos \in [Partitions -> Nat]
    /\ hi \in [Partitions -> Nat]
    /\ pc \in {"off", "poll", "each", "record", "commit", "verify"}
    /\ opts \in Options
    /\ todo \subseteq Partitions /\ cur \in Partitions \cup {NoPartition}
    /\ at \in Nat /\ last \in Nat /\ sent \in Nat
    /\ stopping \in BOOLEAN /\ failed \in BOOLEAN /\ cancelled \in BOOLEAN
    /\ replayed \in Seq(Events \ Malformed)
    /\ exit \in {"none", "ok", "failed", "missing", "error", "killed"}
    /\ runs \in 0..MaxRuns
    /\ produced \subseteq [partition : Partitions, offset : Nat]
    /\ declined \subseteq [partition : Partitions, offset : Nat]
    /\ \A p \in Partitions : rcommitted[p] <= Len(dead[p]) /\ hi[p] <= Len(dead[p])

\* run commits only what replayPartition has put back on the orders topic or
\* decided to leave: through interrupts, failed produces, kills and reruns, no
\* dead letter ends up below the group's offset without either.
NoDeadLetterDeleted ==
    \A p \in Partitions : \A i \in 1..rcommitted[p] :
        [partition |-> p, offset |-> i] \in produced \cup declined

\* The loop guard reads what really happened: on both topics replay_count is the
\* number of laps the record has made, across parking, replaying and reruns, and
\* no record makes more laps than the largest -max-replays allows.
GuardCountsLaps ==
    \A r \in {orders[i] : i \in 1..Len(orders)}
                \cup UNION {{dead[p][i] : i \in 1..Len(dead[p])} : p \in Partitions} :
        r.count = r.trips /\ \E o \in Options : r.trips <= o.maxReplays

\* Exit code 0 of an applying run with -verify means recovered: every readable
\* record it put back has its row.
OkMeansPersisted ==
    exit = "ok" /\ opts.apply /\ opts.verify => \A i \in 1..Len(replayed) : replayed[i] \in db

\* Without -apply no step of a run moves the group's offset or puts a record back.
DryRunTouchesNothing ==
    [][pc # "off" /\ ~opts.apply => UNCHANGED <<rcommitted, produced>>]_vars

\* The command is usable from a script: a run ends, even while the workers park
\* what it sends back.
RunEnds == pc # "off" ~> pc = "off"

\* verify says MISSING only of a record that has no row.
MissingMeansMissing ==
    [][pc = "verify" /\ exit' = "missing" =>
            \E i \in 1..Len(replayed) : replayed[i] \notin db]_vars

\* An interrupted run stops after committing what was replayed.
InterruptKeepsProgress ==
    pc = "off" => \A l \in produced : l.offset <= rcommitted[l.partition]
=============================================================================
