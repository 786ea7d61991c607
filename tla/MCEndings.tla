----------------------------- MODULE MCEndings -----------------------------
(* Insert, Loadgen and Runner on small instances, one of them in each       *)
(* behaviour, under the fairness of all three: a part that is not chosen    *)
(* stays in its initial state, where nothing that is fair is enabled.       *)
EXTENDS Insert, TLC

CONSTANTS
    Parts,       \* the components a run is about
    w1, w2, b1, b2, e1, e2, e3, e4, o1, o2, o3,
    Ticks, Concurrency, MaxEarlier,
    Tabs, MaxRing, ChanCap, MaxRuns, MaxLines, MaxLives, t1

VARIABLES
    part,
    lpc, next, permits, interrupted, req, code, recorded, counted, failed, report, endToEnd,
    expired, appended, persisted, earlier, lost,
    life, up, started, phase, ctx, alive, holder, lines, ring, seq, conn, chan, backlog,
    lastSeq, pane, accepted, starter, offered, overflowed

loadgen == <<lpc, next, permits, interrupted, req, code, recorded, counted, failed, report,
             endToEnd, expired, appended, persisted, earlier, lost>>
runner == <<life, up, started, phase, ctx, alive, holder, lines, ring, seq, conn, chan,
            backlog, lastSeq, pane, accepted, starter, offered, overflowed>>

G == INSTANCE LoadgenProofs WITH pc <- lpc, accepted <- counted, rows <- persisted
R == INSTANCE RunnerProofs

ASSUME MCEndingsParameters == G!LoadgenParameters /\ R!RunnerParameters

\* e3 is another event of e1's order; e4 has a value that the schema refuses.
mcOrderOf == e1 :> o1 @@ e2 :> o2 @@ e3 :> o1 @@ e4 :> o3

\* Single records, two batches that meet the same events in opposite order, and
\* one with a record that fails it.
mcStatements == {<<e1>>, <<e3>>, <<e4>>, <<e1, e2>>, <<e2, e1>>, <<e1, e4>>}

mcInit ==
    /\ part \in Parts
    /\ Init /\ G!Init /\ R!Init
    /\ part # "loadgen" => earlier = 0

mcNext ==
    /\ UNCHANGED part
    /\ \/ part = "insert" /\ Next /\ UNCHANGED <<loadgen, runner>>
       \/ part = "loadgen" /\ G!Next /\ UNCHANGED <<vars, runner>>
       \/ part = "runner" /\ R!Next /\ UNCHANGED <<vars, loadgen>>

mcSpec == mcInit /\ [][mcNext]_<<part, vars, loadgen, runner>>

mcFairSpec == mcSpec /\ Fairness /\ G!Fairness /\ R!Fairness

-----------------------------------------------------------------------------
\* The type invariants of Insert and Loadgen: an attempt begins within the
\* retry budget, no two rows share an order id, every permit is accounted for.
TypesOK == TypeOK /\ G!TypeOK

\* summarise and measureEndToEnd: the report has every launched request once
\* and overstates no loss.
ReportAddsUp == G!ReportAddsUp

\* measureEndToEnd: an accepted order without a row shows as MISSING.
ShortfallIsReported == G!ShortfallIsReported

\* The load generator ends.
LoadRunEnds == G!LoadRunEnds

\* connectStream, across a restart of the console.
PaneInOrder == R!PaneInOrder

\* Every run gives the console's single-run lock back.
LockIsReleased == R!LockIsReleased
=============================================================================
