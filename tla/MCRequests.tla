----------------------------- MODULE MCRequests -----------------------------
(* Gateway, Listing, Login and Runner on small instances, one of them in     *)
(* each behaviour.  The models share no state, so nothing is lost by not    *)
(* interleaving them.                                                       *)
EXTENDS Gateway

CONSTANTS
    c1, c2, k, long, this, that, empty,
    OrderIds, Customers, NoOne, Times, DefaultPageSize, MaxPageSize, MaxLists, ann, bob,
    Handlers, Addresses, Nobody, FailureTTL, MaxTrackedIPs, MaxBackoff, MaxClock,
    h1, h2, a1, a2, a3,
    Tabs, MaxRing, ChanCap, MaxRuns, MaxLines, MaxLives, t1

VARIABLES
    part,
    listed, pager, lists,
    now, failures, comparing,
    life, up, started, phase, ctx, alive, holder, lines, ring, seq, conn, chan, backlog,
    lastSeq, pane, accepted, starter, offered, overflowed

listing == <<listed, pager, lists>>
login == <<now, failures, comparing>>
runner == <<life, up, started, phase, ctx, alive, holder, lines, ring, seq, conn, chan,
            backlog, lastSeq, pane, accepted, starter, offered, overflowed>>

L == INSTANCE ListingProofs WITH db <- listed
A == INSTANCE Login
R == INSTANCE RunnerProofs

ASSUME MCRequestsParameters ==
    L!ListingParameters /\ A!LoginParameters /\ R!RunnerParameters

mcInit ==
    /\ part \in {"gateway", "listing", "login", "runner"}
    /\ Init /\ L!Init /\ A!Init /\ R!Init

mcNext ==
    /\ UNCHANGED part
    /\ \/ part = "gateway" /\ Next /\ UNCHANGED <<listing, login, runner>>
       \/ part = "listing" /\ L!Next /\ UNCHANGED <<vars, login, runner>>
       \/ part = "login" /\ A!Next /\ UNCHANGED <<vars, listing, runner>>
       \/ part = "runner" /\ R!Next /\ UNCHANGED <<vars, listing, login>>

mcSpec == mcInit /\ [][mcNext]_<<part, vars, listing, login, runner>>

-----------------------------------------------------------------------------
\* The type invariants of the four: validation keeps refused input off the
\* topic, a page is never larger than MaxPageSize, the throttle's table, the
\* ring and the channels keep to their capacities.
TypesOK == TypeOK /\ L!TypeOK /\ A!TypeOK /\ R!TypeOK

\* store.ListOrders: rows inserted while a client pages do not make it see a
\* row twice.
NoRowTwice == L!NoRowTwice

\* store.ListOrders: nor do they make it miss a row that was there.
NoRowSkipped == L!NoRowSkipped

\* auth.go: a lock in force is lost only by success or by eviction.
LockIsKept == [][A!KeepsLocks]_login

\* runner.go: one run's processes at a time.
OneAtATime == R!OneAtATime

\* stream: no line is lost between the snapshot and the subscription.
NothingBetween == R!NothingBetween

\* start: the ring is the current run's, but for an earlier run's last line.
StrayIsLastLine == R!StrayIsLastLine
=============================================================================
