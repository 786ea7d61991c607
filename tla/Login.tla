------------------------------- MODULE Login -------------------------------
(***************************************************************************)
(* cmd/console/auth.go: the throttle in front of the console's password.    *)
(* Each step of a handler is one critical section of auth.mu; between the   *)
(* check of the lock and the outcome lies a bcrypt comparison, during which *)
(* other handlers run and time passes.  The session cookie, which is not    *)
(* stored, is left out.                                                     *)
(***************************************************************************)
EXTENDS Naturals, FiniteSets

CONSTANTS
    Handlers,     \* POST /api/login requests under way
    Addresses,    \* clientIP
    Nobody,
    FailureTTL, MaxTrackedIPs, MaxBackoff,
    MaxClock      \* bound on time

\* What a model gives the constants.
LoginParameters ==
    /\ Nobody \notin Addresses
    /\ MaxTrackedIPs \in Nat \ {0}
    /\ FailureTTL \in Nat /\ MaxBackoff \in Nat \ {0} /\ MaxClock \in Nat \ {0}
    /\ FailureTTL > MaxBackoff

VARIABLES
    now,
    failures,  \* the table, by address
    comparing  \* the address whose password a handler is comparing

vars == <<now, failures, comparing>>

Init ==
    /\ now = 1
    /\ failures = [a \in {} |-> 0]
    /\ comparing = [h \in Handlers |-> Nobody]

Tracked == DOMAIN failures

\* lockedFor: a locked address is answered 429, which changes nothing.
LockedFor(a) == a \in Tracked /\ failures[a].until > now

\* login, up to the comparison.
Login(h) ==
    /\ comparing[h] = Nobody
    /\ \E a \in Addresses : ~LockedFor(a) /\ comparing' = [comparing EXCEPT ![h] = a]
    /\ UNCHANGED <<now, failures>>

\* 1<<k for k = 0..6: the back-off in seconds, before it is capped.
Doubled == <<1, 2, 4, 8, 16, 32, 64>>

\* Doubles from the third failure on, up to MaxBackoff.
Backoff(n) ==
    LET d == Doubled[IF n - 3 < 6 THEN n - 2 ELSE 7]
    IN  IF d > MaxBackoff THEN MaxBackoff ELSE d

\* The failures are counted while the backoff still grows with them.
Counted(n) == IF n >= 9 \/ (n >= 3 /\ Backoff(n) = MaxBackoff) THEN n ELSE n + 1

\* Mutation of Stale: history older than the current attempt is dropped.
StaleAtOnce(a) == now > failures[a].seen

Stale(a) == now - failures[a].seen > FailureTTL /\ now > failures[a].until

Target == (MaxTrackedIPs * 9) \div 10

\* sweep: what is left of the table.  At the cap it is cut down to Target, the
\* addresses seen longest ago first; equal times are in no order.
Sweeps ==
    LET fresh == {a \in Tracked : ~Stale(a)}
    IN  IF Cardinality(fresh) < MaxTrackedIPs THEN {fresh}
        ELSE {kept \in SUBSET fresh :
                /\ Cardinality(kept) = Target
                /\ \A a \in kept, b \in fresh \ kept : failures[a].seen >= failures[b].seen}

\* recordFailure of an address with this history.
Failed(f) ==
    LET n == Counted(f.count)
    IN  [count |-> n, seen |-> now, until |-> IF n < 3 THEN f.until ELSE now + Backoff(n)]

\* The password was wrong.  sweep comes first, and may drop this address too.
WrongPassword(h) ==
    LET a == comparing[h]
    IN  /\ a # Nobody
        /\ \E kept \in Sweeps :
            LET old == IF a \in kept THEN failures[a] ELSE [count |-> 0, seen |-> 0, until |-> 0]
            IN  failures' = [b \in kept \cup {a} |-> IF b = a THEN Failed(old) ELSE failures[b]]
        /\ comparing' = [comparing EXCEPT ![h] = Nobody]
        /\ UNCHANGED now

\* The password was right: clearFailures, and a session.
RightPassword(h) ==
    LET a == comparing[h]
    IN  /\ a # Nobody
        /\ failures' = [b \in Tracked \ {a} |-> failures[b]]
        /\ comparing' = [comparing EXCEPT ![h] = Nobody]
        /\ UNCHANGED now

Tick ==
    /\ now < MaxClock
    /\ now' = now + 1
    /\ UNCHANGED <<failures, comparing>>

Next ==
    \/ \E h \in Handlers : Login(h) \/ WrongPassword(h) \/ RightPassword(h)
    \/ Tick

Spec == Init /\ [][Next]_vars

-----------------------------------------------------------------------------
(* Properties                                                              *)

\* Types of the state; the table never outgrows its cap.
TypeOK ==
    /\ now \in 1..MaxClock
    /\ Tracked \subseteq Addresses /\ Cardinality(Tracked) <= MaxTrackedIPs
    /\ \A a \in Tracked :
        /\ failures[a].count \in Nat /\ failures[a].seen \in 1..now
        /\ failures[a].until \in Nat /\ failures[a].until <= failures[a].seen + MaxBackoff
    /\ comparing \in [Handlers -> Addresses \cup {Nobody}]

\* auth.go: history may not be "swept away while the lock is still meant to be in
\* force".  Whatever logins were under way, a lock that has not run out is
\* neither lost nor shortened, but for two cases: the address's own successful
\* login, and the eviction of a full table, where it is lost only in favour of
\* addresses that failed as recently.
KeepsLocks ==
    \A a \in Tracked : LockedFor(a) =>
        \/ a \in Tracked' /\ failures'[a].until >= failures[a].until
        \/ \E h \in Handlers : comparing[h] = a /\ RightPassword(h)
        \/ /\ Cardinality(Tracked) >= MaxTrackedIPs
           /\ \A b \in Tracked' \cap Tracked : failures'[b].seen >= failures[a].seen

LockIsKept == [][KeepsLocks]_vars
=============================================================================
