------------------------------ MODULE Loadgen ------------------------------
(***************************************************************************)
(* cmd/loadgen: the scheduler that launches a request per tick while a      *)
(* permit is free, the sender goroutines, the report built from what they   *)
(* counted, and the end-to-end measurement that waits for the pipeline.     *)
(*                                                                          *)
(* A request is the number of its tick.  Latencies, rates and percentiles   *)
(* are left out: of a latency only that it was recorded matters here.  The  *)
(* pipeline behind the api is reduced to appending a request's order to the *)
(* topic and writing its row.                                               *)
(***************************************************************************)
EXTENDS Integers, FiniteSets

CONSTANTS
    Ticks,       \* sends that fall due before the deadline
    Concurrency, \* -concurrency
    MaxEarlier   \* bound on the rows that an earlier run left under the tag

\* What a model gives the constants.
LoadgenParameters ==
    Ticks \in Nat /\ Concurrency \in Nat \ {0} /\ MaxEarlier \in Nat

Requests == 1..Ticks
Codes == {202, 503}

VARIABLES
    pc,          \* of run and measureEndToEnd
    next,        \* the tick the scheduler is at
    permits,     \* tokens in the permits channel
    interrupted, \* ctx is cancelled
    req,         \* how far the sender goroutine of a request has come
    code,        \* the status a request was answered with, or 0
    recorded,    \* res.codes; their sum is len(res.latencies)
    accepted, failed,
    report,      \* what summarise returned
    endToEnd,    \* what measureEndToEnd returned
    expired,     \* the drain window is over
    \* the pipeline
    appended,    \* requests whose order is on the topic
    rows,        \* requests whose order has a row
    earlier,     \* rows that match the tag and come from an earlier run
    \* history
    lost         \* accepted requests without a row when the rows were counted

sending == <<next, permits, req>>
results == <<code, recorded, accepted, failed>>
outcome == <<report, endToEnd, lost>>
pipeline == <<appended, rows, earlier>>
vars == <<pc, sending, interrupted, results, expired, outcome, pipeline>>

NoReport == [sent |-> 0, accepted |-> 0, failed |-> 0]
NoStats == [count |-> -1, missing |-> 0]

Init ==
    /\ pc = "start" /\ next = 1
    /\ permits = Concurrency
    /\ interrupted = FALSE
    /\ req = [i \in Requests |-> "unsent"]
    /\ code = [i \in Requests |-> 0]
    /\ recorded = [c \in Codes |-> 0]
    /\ accepted = 0 /\ failed = 0
    /\ report = NoReport /\ endToEnd = NoStats
    /\ expired = FALSE
    /\ appended = {} /\ rows = {}
    /\ earlier \in 0..MaxEarlier
    /\ lost = {}

-----------------------------------------------------------------------------
(* run: the scheduler.                                                     *)

Start ==
    /\ pc = "start"
    /\ pc' = "due"
    /\ UNCHANGED <<sending, interrupted, results, expired, outcome, pipeline>>

\* The next send falls due, on time or late.
Due ==
    /\ pc = "due" /\ next <= Ticks
    /\ pc' = "permit"
    /\ UNCHANGED <<sending, interrupted, results, expired, outcome, pipeline>>

\* A permit is free.  The select may take it though ctx is done as well.
Launch ==
    /\ pc = "permit" /\ permits > 0
    /\ permits' = permits - 1
    /\ req' = [req EXCEPT ![next] = "sent"]
    /\ next' = next + 1
    /\ pc' = "due"
    /\ UNCHANGED <<interrupted, results, expired, outcome, pipeline>>

\* The deadline is reached, or one of the two selects sees ctx done.
StopSending ==
    /\ \/ pc = "due" /\ next > Ticks
       \/ pc \in {"due", "permit"} /\ interrupted
    /\ pc' = "wait"
    /\ UNCHANGED <<sending, interrupted, results, expired, outcome, pipeline>>

\* SIGINT or SIGTERM.
Interrupt ==
    /\ pc \notin {"start", "done"} /\ ~interrupted
    /\ interrupted' = TRUE
    /\ UNCHANGED <<pc, sending, results, expired, outcome, pipeline>>

-----------------------------------------------------------------------------
(* send, on a goroutine of its own.                                        *)

\* client.Do returns a response.  The api answers 202 once the broker has the
\* record; a 503 leaves open whether it has.
Answered(i) ==
    /\ req[i] = "sent"
    /\ \E c \in Codes :
        /\ c = 202 => i \in appended
        /\ code' = [code EXCEPT ![i] = c]
    /\ req' = [req EXCEPT ![i] = "answered"]
    /\ UNCHANGED <<pc, next, permits, interrupted, recorded, accepted, failed, expired, outcome,
                   pipeline>>

\* client.Do fails: refused, cut off, timed out or cancelled.
SendFails(i) ==
    /\ req[i] = "sent"
    /\ req' = [req EXCEPT ![i] = "returning"]
    /\ failed' = failed + 1
    /\ UNCHANGED <<pc, next, permits, interrupted, code, recorded, accepted, expired, outcome,
                   pipeline>>

\* Under res.mu: one latency, one more answer with this status.
Record(i) ==
    /\ req[i] = "answered"
    /\ req' = [req EXCEPT ![i] = "recorded"]
    /\ recorded' = [recorded EXCEPT ![code[i]] = @ + 1]
    /\ UNCHANGED <<pc, next, permits, interrupted, code, accepted, failed, expired, outcome,
                   pipeline>>

\* After the unlock.
CountAccepted(i) ==
    /\ req[i] = "recorded"
    /\ req' = [req EXCEPT ![i] = "returning"]
    /\ accepted' = IF code[i] = 202 THEN accepted + 1 ELSE accepted
    /\ UNCHANGED <<pc, next, permits, interrupted, code, recorded, failed, expired, outcome,
                   pipeline>>

\* Mutation of ReturnPermit: not deferred, so a failed send keeps its permit.
ReturnPermitIfAnswered(i) ==
    /\ req[i] = "returning"
    /\ req' = [req EXCEPT ![i] = "returned"]
    /\ permits' = IF code[i] = 0 THEN permits ELSE permits + 1
    /\ UNCHANGED <<pc, next, interrupted, results, expired, outcome, pipeline>>

\* The deferred calls, last one first: the permit goes back, then wg.Done.
ReturnPermit(i) ==
    /\ req[i] = "returning"
    /\ req' = [req EXCEPT ![i] = "returned"]
    /\ permits' = permits + 1
    /\ UNCHANGED <<pc, next, interrupted, results, expired, outcome, pipeline>>

\* Mutation of Done: not deferred, so a failed send returns without wg.Done.
DoneIfAnswered(i) ==
    /\ req[i] = "returned" /\ code[i] # 0
    /\ req' = [req EXCEPT ![i] = "done"]
    /\ UNCHANGED <<pc, next, permits, interrupted, results, expired, outcome,
                   pipeline>>

Done(i) ==
    /\ req[i] = "returned"
    /\ req' = [req EXCEPT ![i] = "done"]
    /\ UNCHANGED <<pc, next, permits, interrupted, results, expired, outcome,
                   pipeline>>

\* Mutation of AllSent: wg.Done comes before the answer is counted.
AllRecorded == \A i \in Requests : req[i] \notin {"sent", "answered"}

\* wg.Wait returns.
AllSent == \A i \in Requests : req[i] \in {"unsent", "done"}

Summarise ==
    /\ pc = "wait" /\ AllSent
    /\ report' = [sent |-> recorded[202] + recorded[503] + failed,
                  accepted |-> accepted, failed |-> failed]
    /\ pc' = "drain"
    /\ UNCHANGED <<sending, interrupted, results, expired, endToEnd, lost, pipeline>>

-----------------------------------------------------------------------------
(* measureEndToEnd                                                         *)

\* SELECT count(* ) FROM orders WHERE customer_id LIKE tag-%.
Persisted == earlier + Cardinality(rows)

\* One turn of the loop: count, and leave it when there are enough rows.
CountRows ==
    /\ pc = "drain" /\ ~expired /\ ~interrupted
    /\ pc' = IF Persisted >= report.accepted THEN "measure" ELSE "sleep"
    /\ UNCHANGED <<sending, interrupted, results, expired, outcome, pipeline>>

Sleep ==
    /\ pc = "sleep"
    /\ pc' = IF interrupted THEN "done" ELSE "drain"
    /\ UNCHANGED <<sending, interrupted, results, expired, outcome, pipeline>>

DrainEnds ==
    /\ pc = "drain" /\ expired
    /\ pc' = "measure"
    /\ UNCHANGED <<sending, interrupted, results, expired, outcome, pipeline>>

\* Time passes the end of the window.
Expire ==
    /\ pc \in {"drain", "sleep"} /\ ~expired
    /\ expired' = TRUE
    /\ UNCHANGED <<pc, sending, interrupted, results, outcome, pipeline>>

\* A query fails, as every query does once ctx is done, or there is no -dsn:
\* the report is printed without its end-to-end half.
MeasureFails ==
    /\ (pc = "drain" /\ ~expired) \/ pc = "measure"
    /\ pc' = "done"
    /\ UNCHANGED <<sending, interrupted, results, expired, outcome, pipeline>>

Missing(count) == report.accepted - count

\* The accepted orders that have no row.
Rowless == {i \in Requests : code[i] = 202} \ rows

Measure ==
    /\ pc = "measure" /\ ~interrupted
    /\ endToEnd' = [count |-> Persisted, missing |-> Missing(Persisted)]
    /\ lost' = Rowless
    /\ pc' = "done"
    /\ UNCHANGED <<sending, interrupted, results, expired, report, pipeline>>

-----------------------------------------------------------------------------
(* The api and the pipeline.  A request the client has given up on may      *)
(* still be appended, and an appended record need never get a row.  What    *)
(* happens after the report is printed is not followed.                     *)

Append(i) ==
    /\ pc # "done"
    /\ req[i] # "unsent" /\ i \notin appended
    /\ appended' = appended \cup {i}
    /\ UNCHANGED <<pc, sending, interrupted, results, expired, outcome, rows, earlier>>

Persist(i) ==
    /\ pc # "done"
    /\ i \in appended \ rows
    /\ rows' = rows \cup {i}
    /\ UNCHANGED <<pc, sending, interrupted, results, expired, outcome, appended, earlier>>

-----------------------------------------------------------------------------
Scheduler == Due \/ Launch \/ StopSending \/ Summarise
Sender(i) ==
    \/ Answered(i) \/ SendFails(i)
    \/ Record(i) \/ CountAccepted(i) \/ ReturnPermit(i) \/ Done(i)
Drain == CountRows \/ Sleep \/ DrainEnds \/ MeasureFails \/ Measure

Next ==
    \/ Start \/ Scheduler \/ Interrupt
    \/ \E i \in Requests : Sender(i) \/ Append(i) \/ Persist(i)
    \/ Drain \/ Expire

Spec == Init /\ [][Next]_vars

\* Goroutines run, the client's timeout ends every request, a query returns, and
\* time passes.  Nothing is assumed of the pipeline.
Fairness ==
    /\ WF_vars(Scheduler) /\ WF_vars(Drain) /\ WF_vars(Expire)
    /\ \A i \in Requests : WF_vars(Sender(i))

FairSpec == Spec /\ Fairness

-----------------------------------------------------------------------------
(* Properties                                                              *)

Holds(i) == req[i] \in {"sent", "answered", "recorded", "returning"}

\* Types of the state.  Every token is in the channel or with one sender.
TypeOK ==
    /\ pc \in {"start", "due", "permit", "wait", "drain", "sleep", "measure", "done"}
    /\ next \in 1..(Ticks + 1)
    /\ permits \in 0..Concurrency
    /\ permits + Cardinality({i \in Requests : Holds(i)}) = Concurrency
    /\ interrupted \in BOOLEAN /\ expired \in BOOLEAN
    /\ \A i \in Requests : code[i] \in Codes \cup {0}
    /\ \A i \in Requests : (req[i] = "unsent") <=> (i >= next)
    /\ recorded \in [Codes -> 0..Ticks]
    /\ accepted \in 0..Ticks /\ failed \in 0..Ticks
    /\ rows \subseteq appended /\ appended \subseteq Requests
    /\ lost \subseteq Requests

\* summarise after wg.Wait: although each sender counts in several steps, some
\* outside the lock, the report has every request that was launched exactly
\* once, and accepts exactly the ones that were answered 202.  Its MISSING is no
\* overstatement: at least that many of them had no row when rows were counted.
ReportAddsUp ==
    pc \in {"drain", "sleep", "measure", "done"} =>
        /\ report.sent = Cardinality({i \in Requests : req[i] # "unsent"})
        /\ report.accepted = Cardinality({i \in Requests : code[i] = 202})
        /\ report.accepted = recorded[202]
        /\ endToEnd.missing > 0 => endToEnd.missing <= Cardinality(lost)

\* DECISIONS.md: loadgen "reports any shortfall as MISSING": when an accepted
\* order has no row, the report shows a positive number.
ShortfallIsReported == endToEnd # NoStats /\ lost # {} => endToEnd.missing > 0

\* The command ends, whatever becomes of its requests and of the pipeline.
LoadRunEnds == pc # "start" ~> pc = "done"
=============================================================================
