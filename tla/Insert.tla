------------------------------- MODULE Insert -------------------------------
(***************************************************************************)
(* One write of the worker in close-up: retry.Do around store.InsertOrder    *)
(* or store.InsertOrders, store.IsRetryable on what comes back, and the      *)
(* PostgreSQL backends that execute the statements.                          *)
(*                                                                           *)
(* Worker takes a statement as one step.  Here a backend writes it row by    *)
(* row: it looks for a row with the same event_id, the conflict target, and  *)
(* only then enters the tuple into the indexes, orders_pkey first.  Between  *)
(* the two, and until it commits, other backends run; and a client that is   *)
(* cut off leaves its statement running.  Backends are modelled from how     *)
(* the code uses them.                                                       *)
(***************************************************************************)
EXTENDS Naturals, Sequences

CONSTANTS
    Writers,      \* poll loops, of any number of workers
    Backends,     \* connections to the database
    Events,
    Unusable,     \* the events with a value that the schema refuses
    OrderOf,      \* the order_id of an event
    Statements,   \* what a call may write: non-empty sequences of events
    Base, Max,    \* retry.Policy, in units of time
    MaxElapsed,
    MaxStatement, \* bound on the time a failed attempt takes
    MaxCalls,     \* bound on the calls
    NoOne

ASSUME InsertAssumption ==
    /\ Unusable \subseteq Events
    /\ Statements \subseteq Seq(Events) \ {<<>>}
    /\ Base \in Nat \ {0} /\ Max \in Nat /\ MaxElapsed \in Nat
    /\ MaxStatement \in Nat \ {0} /\ MaxCalls \in Nat
    /\ NoOne \notin Writers

VARIABLES
    \* each writer's retry.Do
    pc, call,
    backoff,  \* the most the next delay may be
    elapsed,  \* since the call began
    \* each backend
    serving,  \* the writer that waits for its answer, if one still does
    stmt,     \* the statement it executes, or <<>>
    row,      \* the row of it that is being written
    checked,  \* no row with this event_id was found
    new,      \* the events whose tuples this transaction has entered
    \* the orders table
    rows,     \* the events with a committed row
    \* history
    told,     \* how often a call has reported an event as inserted
    poisoned, \* events given up as not retryable, with the error's class
    calls

do == <<pc, call, backoff, elapsed>>
backend == <<serving, stmt, row, checked, new>>
history == <<told, poisoned, calls>>
vars == <<do, backend, rows, history>>

\* SQLSTATE classes, and errors below the protocol.
Classes == {"08", "22", "23", "40", "42", "53", "57", "58", "XX", "transport"}

\* Policy.Delay's ceiling.
Capped(d) == IF d > Max THEN Max ELSE d

Init ==
    /\ pc = [w \in Writers |-> "idle"]
    /\ call = [w \in Writers |-> <<>>]
    /\ backoff = [w \in Writers |-> Capped(Base)]
    /\ elapsed = [w \in Writers |-> 0]
    /\ serving = [b \in Backends |-> NoOne]
    /\ stmt = [b \in Backends |-> <<>>]
    /\ row = [b \in Backends |-> 1]
    /\ checked = [b \in Backends |-> FALSE]
    /\ new = [b \in Backends |-> {}]
    /\ rows = {}
    /\ told = [e \in Events |-> 0]
    /\ poisoned = {}
    /\ calls = 0

-----------------------------------------------------------------------------
(* retry.Do                                                                *)

IsRetryable(class) == class \in {"08", "53", "57", "58", "40", "transport"}

\* Full jitter.
Delay(w) == 0..backoff[w]

\* Mutation of Elapsed: the deadline is set anew for every attempt.
ElapsedSinceAttempt(w, t, d) == t + d

\* When the next attempt would begin: an attempt of t and a delay of d later.
Elapsed(w, t, d) == elapsed[w] + t + d

\* Do returns and the writer is free for its next call.
Return(w) ==
    /\ pc' = [pc EXCEPT ![w] = "idle"]
    /\ call' = [call EXCEPT ![w] = <<>>]
    /\ backoff' = [backoff EXCEPT ![w] = Capped(Base)]
    /\ elapsed' = [elapsed EXCEPT ![w] = 0]

\* Mutation of Fail: a batch that fails for good is parked without the fallback.
FailParksBatch(w, class) ==
    \/ /\ ~IsRetryable(class)
       /\ Return(w)
       /\ poisoned' = poisoned \cup {<<call[w][i], class>> : i \in 1..Len(call[w])}
    \/ /\ IsRetryable(class)
       /\ \E t \in 1..MaxStatement : \E d \in Delay(w) :
            IF Elapsed(w, t, d) > MaxElapsed THEN Return(w)
            ELSE /\ pc' = [pc EXCEPT ![w] = "exec"]
                 /\ backoff' = [backoff EXCEPT ![w] = Capped(2 * @)]
                 /\ elapsed' = [elapsed EXCEPT ![w] = Elapsed(w, t, d)]
                 /\ UNCHANGED call
       /\ UNCHANGED poisoned

\* fn returned an error: give up on a permanent one, or when the delay would
\* overrun the budget; otherwise wait and try again.  A batch that fails is not
\* parked: its records are tried one by one, each with a call of its own.
Fail(w, class) ==
    \/ /\ ~IsRetryable(class)
       /\ Return(w)
       /\ poisoned' = IF Len(call[w]) = 1 THEN poisoned \cup {<<call[w][1], class>>}
                      ELSE poisoned
    \/ /\ IsRetryable(class)
       /\ \E t \in 1..MaxStatement : \E d \in Delay(w) :
            IF Elapsed(w, t, d) > MaxElapsed THEN Return(w)
            ELSE /\ pc' = [pc EXCEPT ![w] = "exec"]
                 /\ backoff' = [backoff EXCEPT ![w] = Capped(2 * @)]
                 /\ elapsed' = [elapsed EXCEPT ![w] = Elapsed(w, t, d)]
                 /\ UNCHANGED call
       /\ UNCHANGED poisoned

\* A record, or a chunk of them, is handed to the store.
Call(w, s) ==
    /\ pc[w] = "idle" /\ calls < MaxCalls
    /\ pc' = [pc EXCEPT ![w] = "exec"]
    /\ call' = [call EXCEPT ![w] = s]
    /\ calls' = calls + 1
    /\ UNCHANGED <<backoff, elapsed, backend, rows, told, poisoned>>

\* The statement reaches a backend.
Exec(w, b) ==
    /\ pc[w] = "exec" /\ stmt[b] = <<>>
    /\ pc' = [pc EXCEPT ![w] = "running"]
    /\ serving' = [serving EXCEPT ![b] = w]
    /\ stmt' = [stmt EXCEPT ![b] = call[w]]
    /\ UNCHANGED <<call, backoff, elapsed, row, checked, new, rows, history>>

\* No backend is reached.
ExecFails(w) ==
    /\ pc[w] = "exec"
    /\ Fail(w, "transport")
    /\ UNCHANGED <<backend, rows, told, calls>>

\* The backends that still answer to w forget it.
Detached(w) == [b \in Backends |-> IF serving[b] = w THEN NoOne ELSE serving[b]]

\* The connection breaks under the statement, which the backend may finish.
CutOff(w) ==
    /\ pc[w] = "running"
    /\ Fail(w, "transport")
    /\ serving' = Detached(w)
    /\ UNCHANGED <<stmt, row, checked, new, rows, told, calls>>

\* ctx is cancelled, under the statement or during the delay, or the process
\* dies: nothing is reported and the offset stays where it is.
Cancelled(w) ==
    /\ pc[w] # "idle"
    /\ Return(w)
    /\ serving' = Detached(w)
    /\ UNCHANGED <<stmt, row, checked, new, rows, history>>

-----------------------------------------------------------------------------
(* A backend                                                               *)

Current(b) == stmt[b][row[b]]

\* Every parameter of the statement is a value of its column's type.
Binds(b) == \A i \in 1..Len(stmt[b]) : stmt[b][i] \notin Unusable

Writing(b) == stmt[b] # <<>> /\ Binds(b) /\ row[b] <= Len(stmt[b])

\* Commit or rollback: the backend is free again.
End(b) ==
    /\ serving' = [serving EXCEPT ![b] = NoOne]
    /\ stmt' = [stmt EXCEPT ![b] = <<>>]
    /\ row' = [row EXCEPT ![b] = 1]
    /\ checked' = [checked EXCEPT ![b] = FALSE]
    /\ new' = [new EXCEPT ![b] = {}]

\* The transaction is rolled back and its client, if any, gets the error.
Abort(b, class) ==
    /\ End(b)
    /\ \/ serving[b] # NoOne /\ Fail(serving[b], class)
       \/ serving[b] = NoOne /\ UNCHANGED <<do, poisoned>>
    /\ UNCHANGED <<rows, told, calls>>

\* A value that is not of its column's type fails the statement before any row.
DataException(b) == stmt[b] # <<>> /\ ~Binds(b) /\ Abort(b, "22")

SameEvent(b, c) == c # b /\ Current(b) \in new[c]
SameOrder(b, c) == c # b /\ \E f \in new[c] : OrderOf[f] = OrderOf[Current(b)]

\* ON CONFLICT (event_id) DO NOTHING: a row with this event_id, committed or of
\* this statement, makes the row a no-op.  One that another transaction has yet
\* to commit is waited for.
Check(b) ==
    /\ Writing(b) /\ ~checked[b]
    /\ \/ /\ Current(b) \in rows \cup new[b]
          /\ row' = [row EXCEPT ![b] = @ + 1]
          /\ UNCHANGED checked
       \/ /\ Current(b) \notin rows \cup new[b]
          /\ ~\E c \in Backends : SameEvent(b, c)
          /\ checked' = [checked EXCEPT ![b] = TRUE]
          /\ UNCHANGED row
    /\ UNCHANGED <<do, serving, stmt, new, rows, history>>

OrderTaken(b) == \E f \in rows \cup new[b] : OrderOf[f] = OrderOf[Current(b)]

\* The tuple enters orders_pkey and orders_event_id_key.  A row with the same
\* order_id is an error, whichever event it is of; an uncommitted one is waited
\* for.
InsertTuple(b) ==
    /\ Writing(b) /\ checked[b]
    /\ ~OrderTaken(b)
    /\ ~\E c \in Backends : SameOrder(b, c)
    /\ new' = [new EXCEPT ![b] = @ \cup {Current(b)}]
    /\ row' = [row EXCEPT ![b] = @ + 1]
    /\ checked' = [checked EXCEPT ![b] = FALSE]
    /\ UNCHANGED <<do, serving, stmt, rows, history>>

UniqueViolation(b) == Writing(b) /\ checked[b] /\ OrderTaken(b) /\ Abort(b, "23")

\* Mutation of Inserted: every row of the statement is reported as new.
InsertedAll(b) == {stmt[b][i] : i \in 1..Len(stmt[b])}

\* What a call reports as inserted: RowsAffected() == 1, or RETURNING event_id.
Inserted(b) == new[b]

\* The statement commits and InsertOrder or InsertOrders returns its outcome.
Commit(b) ==
    /\ stmt[b] # <<>> /\ row[b] > Len(stmt[b])
    /\ rows' = rows \cup new[b]
    /\ End(b)
    /\ \/ /\ serving[b] # NoOne
          /\ Return(serving[b])
          /\ told' = [e \in Events |-> IF e \in Inserted(b) THEN told[e] + 1 ELSE told[e]]
       \/ serving[b] = NoOne /\ UNCHANGED <<do, told>>
    /\ UNCHANGED <<poisoned, calls>>

\* Errors that have nothing to do with the rows, at any moment: the server goes
\* down, runs out of something or has an I/O error; it lacks a table, a column or
\* a privilege; or it fails in a way IsRetryable has no class for.
ServerError(b) ==
    stmt[b] # <<>> /\ \E class \in {"08", "42", "53", "57", "58", "XX"} : Abort(b, class)

WaitsFor(b, c) ==
    Writing(b) /\ \/ ~checked[b] /\ Current(b) \notin rows \cup new[b] /\ SameEvent(b, c)
                  \/ checked[b] /\ ~OrderTaken(b) /\ SameOrder(b, c)

\* Two batches that hold what the other needs.
Deadlocked(b) ==
    \E S \in SUBSET Backends :
        b \in S /\ \A c \in S : \E d \in S : WaitsFor(c, d)

DeadlockDetected(b) == Deadlocked(b) /\ Abort(b, "40")

-----------------------------------------------------------------------------
Client(w) == (\E b \in Backends : Exec(w, b)) \/ ExecFails(w)
Server(b) ==
    \/ DataException(b) \/ Check(b) \/ InsertTuple(b) \/ UniqueViolation(b)
    \/ Commit(b) \/ DeadlockDetected(b)

Next ==
    \/ \E w \in Writers : \E s \in Statements : Call(w, s)
    \/ \E w \in Writers : Client(w) \/ CutOff(w) \/ Cancelled(w)
    \/ \E b \in Backends : Server(b) \/ ServerError(b)

Spec == Init /\ [][Next]_vars

\* A writer runs and the server works on every statement it has.
Fairness == (\A w \in Writers : WF_vars(Client(w))) /\ (\A b \in Backends : WF_vars(Server(b)))

FairSpec == Spec /\ Fairness

-----------------------------------------------------------------------------
(* Properties                                                              *)

\* Types of the state; an attempt begins within the budget, and no two rows,
\* committed or not, share an order id.
TypeOK ==
    /\ pc \in [Writers -> {"idle", "exec", "running"}]
    /\ call \in [Writers -> Statements \cup {<<>>}]
    /\ backoff \in [Writers -> 0..Max]
    /\ elapsed \in [Writers -> 0..MaxElapsed]
    /\ serving \in [Backends -> Writers \cup {NoOne}]
    /\ stmt \in [Backends -> Statements \cup {<<>>}]
    /\ row \in [Backends -> Nat \ {0}]
    /\ checked \in [Backends -> BOOLEAN]
    /\ new \in [Backends -> SUBSET Events]
    /\ rows \subseteq Events
    /\ told \in [Events -> Nat]
    /\ poisoned \subseteq Events \X Classes
    /\ calls \in 0..MaxCalls
    /\ \A b \in Backends : \A e \in new[b] : \A f \in rows : OrderOf[e] # OrderOf[f]
    /\ \A e, f \in rows : OrderOf[e] = OrderOf[f] => e = f

\* Whatever is cut off, retried and redelivered, by whichever writer: an event
\* is reported as inserted at most once, and only when it has a row.
InsertedOnce == \A e \in Events : told[e] <= 1 /\ (told[e] = 1 => e \in rows)

\* IsRetryable's "it will conflict again" and ReasonPoison's "the record will
\* never succeed": a record that is parked for its own data, a value (class 22) or
\* a taken order id (class 23), is not written afterwards, whoever tries and
\* whatever batches it is in; in particular it is not a neighbour that shared a
\* batch with the offender.  The other classes that are parked at once, 42 and
\* those IsRetryable does not know, carry no such promise: ServerError raises them
\* on any record, and a replay may well succeed.
RefusedForGood ==
    [][\A p \in poisoned :
          p[2] \in {"22", "23"} /\ p[1] \notin rows => p[1] \notin rows']_vars

\* InsertOrder's "already applied ... a normal, expected outcome, not an error":
\* a record whose event has its row is not parked for a conflict.
AppliedIsNotAnError == \A p \in poisoned : p[2] = "23" => p[1] \notin rows

\* The budget of Do, in spite of waits for other transactions: every call
\* returns, as long as the server works on every statement it has.  Do checks its
\* deadline between attempts only, so an attempt that the server never answers is
\* beyond it.
DoReturns == \A w \in Writers : pc[w] # "idle" ~> pc[w] = "idle"
=============================================================================
