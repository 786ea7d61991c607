---------------------------- MODULE EndingsProofs ----------------------------
(***************************************************************************)
(* What is proved of Insert, and that MCEndings, in which it stands beside  *)
(* Loadgen and Runner, has the safety properties of all three.              *)
(***************************************************************************)
EXTENDS MCEndings, TLAPS

-----------------------------------------------------------------------------
(* Insert, for any number of writers, backends, events and calls, any       *)
(* statements and any retry policy.                                         *)

\* The three parts of TypeOK.
DoType ==
    /\ pc \in [Writers -> {"idle", "exec", "running"}]
    /\ call \in [Writers -> Statements \cup {<<>>}]
    /\ backoff \in [Writers -> 0..Max]
    /\ elapsed \in [Writers -> 0..MaxElapsed]

BackendType ==
    /\ serving \in [Backends -> Writers \cup {NoOne}]
    /\ stmt \in [Backends -> Statements \cup {<<>>}]
    /\ row \in [Backends -> Nat \ {0}]
    /\ checked \in [Backends -> BOOLEAN]
    /\ new \in [Backends -> SUBSET Events]

TableType ==
    /\ rows \subseteq Events
    /\ told \in [Events -> Nat]
    /\ poisoned \subseteq Events \X Classes
    /\ calls \in 0..MaxCalls

\* No two tuples, committed or not, have the same order id.
TuplesApart ==
    /\ \A b, c \in Backends : \A e \in new[b] : \A f \in new[c] :
            OrderOf[e] = OrderOf[f] => b = c /\ e = f
    /\ \A b \in Backends : \A e \in new[b] : \A f \in rows : OrderOf[e] # OrderOf[f]
    /\ \A e, f \in rows : OrderOf[e] = OrderOf[f] => e = f

\* A backend that answers to a writer executes that writer's call, and no other
\* backend does.
ServesCall ==
    \A b \in Backends : serving[b] # NoOne =>
        /\ pc[serving[b]] = "running"
        /\ stmt[b] = call[serving[b]]
        /\ \A c \in Backends : serving[c] = serving[b] => c = b

\* No tuple has a value that the schema refuses.
TuplesBind == rows \cap Unusable = {} /\ \A b \in Backends : new[b] \cap Unusable = {}

\* Why a record that was parked for its data cannot be written: its own value, or
\* the committed row that has its order id.
Hopeless(e) == e \in Unusable \/ \E f \in rows : OrderOf[f] = OrderOf[e]

Refused == \A p \in poisoned : p[2] \in {"22", "23"} => Hopeless(p[1])

\* A transaction has entered tuples only for the rows it is past.
PastRows == \A b \in Backends : row[b] = 1 => new[b] = {}

IInv ==
    /\ DoType /\ BackendType /\ TableType
    /\ TuplesApart /\ TuplesBind /\ ServesCall /\ PastRows
    /\ InsertedOnce /\ Refused

LEMMA InitIInv == Init => IInv
  BY InsertAssumption
     DEF Init, IInv, DoType, BackendType, TableType, TuplesApart, TuplesBind, ServesCall,
         PastRows, InsertedOnce, Refused, Capped

-----------------------------------------------------------------------------
(* What the operators that several actions share do.                       *)

LEMMA CappedType ==
    ASSUME NEW d \in Nat
    PROVE  Capped(d) \in 0..Max
  BY InsertAssumption DEF Capped

\* The other writers' calls go on.
Others(w) == \A v \in Writers \ {w} : pc'[v] = pc[v] /\ call'[v] = call[v]

LEMMA ReturnType ==
    ASSUME DoType, NEW w \in Writers, Return(w)
    PROVE  DoType' /\ Others(w)
  <1>1. Capped(Base) \in 0..Max
    BY ZenonT(30), InsertAssumption, CappedType
  <1> QED BY <1>1, InsertAssumption DEF DoType, Return, Others

LEMMA FailType ==
    ASSUME DoType, NEW w \in Writers, NEW class, Fail(w, class)
    PROVE  DoType' /\ Others(w)
  <1>1. CASE Return(w)
    BY ZenonT(30), <1>1, ReturnType
  <1>2. ASSUME NEW t \in 1..MaxStatement, NEW d \in Delay(w),
               ~(Elapsed(w, t, d) > MaxElapsed),
               pc' = [pc EXCEPT ![w] = "exec"],
               backoff' = [backoff EXCEPT ![w] = Capped(2 * @)],
               elapsed' = [elapsed EXCEPT ![w] = Elapsed(w, t, d)],
               UNCHANGED call
        PROVE  DoType' /\ Others(w)
    <2>1. backoff[w] \in Nat /\ elapsed[w] \in Nat
      BY InsertAssumption DEF DoType
    <2>2. Capped(2 * backoff[w]) \in 0..Max
      BY <2>1, CappedType
    <2>3. Elapsed(w, t, d) \in 0..MaxElapsed
      BY <1>2, <2>1, InsertAssumption DEF Elapsed, Delay
    <2> QED BY ZenonT(30), <1>2, <2>2, <2>3 DEF DoType, Others
  <1> QED BY Zenon, <1>1, <1>2 DEF Fail

\* A retryable error parks nothing; another one parks at most the call's record.
LEMMA FailPoisons ==
    ASSUME NEW w \in Writers, NEW class, Fail(w, class)
    PROVE  \/ UNCHANGED poisoned
           \/ /\ ~IsRetryable(class) /\ Len(call[w]) = 1
              /\ poisoned' = poisoned \cup {<<call[w][1], class>>}
  BY Zenon DEF Fail

LEMMA EndType ==
    ASSUME BackendType, NEW b \in Backends, End(b)
    PROVE  BackendType'
  BY InsertAssumption DEF BackendType, End

LEMMA DetachedType ==
    ASSUME BackendType, NEW w \in Writers
    PROVE  Detached(w) \in [Backends -> Writers \cup {NoOne}]
  BY Zenon DEF BackendType, Detached

\* A row that is being written is one of its statement's.
LEMMA CurrentType ==
    ASSUME BackendType, NEW b \in Backends, Writing(b)
    PROVE  Current(b) \in Events /\ row[b] \in 1..Len(stmt[b])
  <1>1. stmt[b] \in Seq(Events) /\ row[b] \in Nat \ {0}
    BY Zenon, InsertAssumption DEF BackendType, Writing
  <1>2. Len(stmt[b]) \in Nat
    BY <1>1
  <1>3. row[b] \in 1..Len(stmt[b])
    BY <1>1, <1>2 DEF Writing
  <1> QED BY <1>1, <1>3 DEF Current

-----------------------------------------------------------------------------
(* The writers' steps.  None of them touches a tuple or the table.          *)

LEMMA CallStep ==
    ASSUME IInv, NEW w \in Writers, NEW s \in Statements, Call(w, s)
    PROVE  IInv'
  <1> USE DEF IInv, Call, backend
  <1>1. DoType' /\ BackendType' /\ TableType'
    BY SMTT(30), InsertAssumption DEF DoType, BackendType, TableType
  <1>2. ServesCall'
    BY Zenon DEF ServesCall, DoType, BackendType
  <1>3. TuplesApart' /\ TuplesBind' /\ PastRows' /\ InsertedOnce' /\ Refused'
    BY DEF TuplesApart, TuplesBind, PastRows, InsertedOnce, Refused, Hopeless
  <1> QED BY ZenonT(30), <1>1, <1>2, <1>3

LEMMA ExecStep ==
    ASSUME IInv, NEW w \in Writers, NEW b \in Backends, Exec(w, b)
    PROVE  IInv'
  <1> USE DEF IInv, Exec, history
  <1>1. DoType' /\ BackendType' /\ TableType'
    BY Zenon, InsertAssumption DEF DoType, BackendType, TableType
  <1>2. ServesCall'
    BY ZenonT(30), InsertAssumption DEF ServesCall, DoType, BackendType
  <1>3. TuplesApart' /\ TuplesBind' /\ PastRows' /\ InsertedOnce' /\ Refused'
    BY DEF TuplesApart, TuplesBind, PastRows, InsertedOnce, Refused, Hopeless
  <1> QED BY ZenonT(30), <1>1, <1>2, <1>3

\* A retried or exhausted transport error.
LEMMA TransportStep ==
    ASSUME IInv, NEW w \in Writers, ExecFails(w) \/ CutOff(w)
    PROVE  IInv'
  <1>0. Fail(w, "transport") /\ UNCHANGED <<stmt, row, checked, new, rows, told, calls>>
    BY Zenon DEF ExecFails, CutOff, backend
  <1>1. DoType' /\ Others(w)
    BY Zenon, <1>0, FailType DEF IInv
  <1>2. UNCHANGED poisoned
    BY ZenonT(30), <1>0, FailPoisons DEF IsRetryable
  <1>3. serving' = Detached(w)
    <2>1. CASE ExecFails(w)
      BY Zenon, <2>1 DEF ExecFails, backend, Detached, IInv, ServesCall, BackendType
    <2>2. CASE CutOff(w)
      BY Zenon, <2>2 DEF CutOff
    <2> QED BY ZenonT(30), <2>1, <2>2
  <1>4. BackendType' /\ TableType'
    BY ZenonT(30), <1>0, <1>2, <1>3, DetachedType DEF IInv, BackendType, TableType
  <1>5. ServesCall'
    BY <1>0, <1>1, <1>3 DEF IInv, ServesCall, Others, Detached, BackendType
  <1>6. TuplesApart' /\ TuplesBind' /\ PastRows' /\ InsertedOnce' /\ Refused'
    BY <1>0, <1>2 DEF IInv, TuplesApart, TuplesBind, PastRows, InsertedOnce, Refused, Hopeless
  <1> QED BY Zenon, <1>1, <1>4, <1>5, <1>6 DEF IInv

LEMMA CancelledStep ==
    ASSUME IInv, NEW w \in Writers, Cancelled(w)
    PROVE  IInv'
  <1>1. DoType' /\ Others(w)
    BY Zenon, ReturnType DEF IInv, Cancelled
  <1>2. BackendType' /\ TableType'
    BY ZenonT(30), DetachedType DEF IInv, Cancelled, history, BackendType, TableType
  <1>3. ServesCall'
    <2>1. /\ serving' = Detached(w)
          /\ \A b \in Backends : serving[b] # w => serving'[b] = serving[b]
          /\ \A b \in Backends : serving[b] = w => serving'[b] = NoOne
      BY Zenon DEF Cancelled, Detached
    <2> QED BY <1>1, <2>1, SMTT(30) DEF IInv, Cancelled, ServesCall, Others, BackendType
  <1>4. TuplesApart' /\ TuplesBind' /\ PastRows' /\ InsertedOnce' /\ Refused'
    BY DEF IInv, Cancelled, history, TuplesApart, TuplesBind, PastRows, InsertedOnce, Refused, Hopeless
  <1> QED BY ZenonT(30), <1>1, <1>2, <1>3, <1>4 DEF IInv

-----------------------------------------------------------------------------
(* The backends' steps.                                                    *)

LEMMA CheckStep ==
    ASSUME IInv, NEW b \in Backends, Check(b)
    PROVE  IInv'
  <1> USE DEF IInv, Check, do, history
  <1>1. DoType' /\ BackendType' /\ TableType'
    <2>1. row' \in [Backends -> Nat \ {0}]
      BY SMT DEF BackendType
    <2>2. checked' \in [Backends -> BOOLEAN]
      BY Zenon DEF BackendType
    <2> QED BY ZenonT(30), <2>1, <2>2 DEF DoType, BackendType, TableType
  <1>2. ServesCall'
    BY Zenon DEF ServesCall
  <1>3. PastRows'
    BY DEF PastRows, BackendType
  <1>4. TuplesApart' /\ TuplesBind' /\ InsertedOnce' /\ Refused'
    BY DEF TuplesApart, TuplesBind, InsertedOnce, Refused, Hopeless
  <1> QED BY ZenonT(30), <1>1, <1>2, <1>3, <1>4

\* The wait for other transactions, and the error for the committed ones, keep a
\* new tuple apart from all others.
LEMMA InsertTupleStep ==
    ASSUME IInv, NEW b \in Backends, InsertTuple(b)
    PROVE  IInv'
  <1>0. Current(b) \in Events /\ row[b] \in Nat \ {0}
    BY ZenonT(30), CurrentType DEF IInv, InsertTuple, BackendType
  <1>1. DoType' /\ BackendType' /\ TableType'
    BY SMTT(30), <1>0 DEF IInv, InsertTuple, do, history, DoType, BackendType, TableType
  <1>2. ServesCall'
    BY Zenon DEF IInv, InsertTuple, do, ServesCall
  <1>3. PastRows'
    BY <1>0 DEF IInv, InsertTuple, PastRows, BackendType
  <1>4. TuplesApart'
    <2>1. /\ \A c \in Backends : new'[c] = IF c = b THEN new[b] \cup {Current(b)} ELSE new[c]
          /\ rows' = rows
      BY Zenon DEF IInv, InsertTuple, BackendType
    <2>2. \A f \in rows \cup new[b] : OrderOf[f] # OrderOf[Current(b)]
      BY Zenon DEF InsertTuple, OrderTaken
    <2>3. \A c \in Backends \ {b} : \A f \in new[c] : OrderOf[f] # OrderOf[Current(b)]
      BY Zenon DEF InsertTuple, SameOrder
    <2> QED BY <2>1, <2>2, <2>3 DEF IInv, TuplesApart
  <1>5. InsertedOnce' /\ Refused'
    BY ZenonT(30) DEF IInv, InsertTuple, history, InsertedOnce, Refused, Hopeless
  <1>6. TuplesBind'
    <2>1. Current(b) \notin Unusable
      BY Zenon, CurrentType DEF IInv, InsertTuple, Writing, Binds, Current
    <2> QED BY <2>1 DEF IInv, InsertTuple, TuplesBind, BackendType
  <1> QED BY ZenonT(30), <1>1, <1>2, <1>3, <1>4, <1>5, <1>6 DEF IInv

\* A backend that ends with its client's call.
LEMMA ServesCallEnds ==
    ASSUME IInv, NEW b \in Backends, End(b),
           \/ serving[b] # NoOne /\ Others(serving[b])
           \/ UNCHANGED do
    PROVE  ServesCall'
  BY SMTT(30) DEF IInv, End, Others, do, ServesCall, BackendType

\* A rollback takes tuples away.  What it parks, if anything, is a record the
\* caller of Abort answers for.
LEMMA AbortStep ==
    ASSUME IInv, NEW b \in Backends, NEW class \in Classes, Abort(b, class),
           \A w \in Writers :
              serving[b] = w /\ ~IsRetryable(class) /\ Len(call[w]) = 1 =>
                /\ call[w][1] \in Events
                /\ class \in {"22", "23"} => Hopeless(call[w][1])
    PROVE  IInv'
  <1>0. End(b) /\ UNCHANGED <<rows, told, calls>>
    BY ZenonT(30) DEF Abort
  <1>1. CASE serving[b] # NoOne
    <2> DEFINE w == serving[b]
    <2>1. w \in Writers /\ Fail(w, class)
      BY Zenon, <1>1 DEF Abort, IInv, BackendType
    <2> HIDE DEF w
    <2>2. DoType' /\ Others(w)
      BY Zenon, <2>1, FailType DEF IInv
    <2>3. ServesCall'
      BY ZenonT(30), <1>0, <1>1, <2>2, ServesCallEnds DEF w
    <2>4. TableType' /\ Refused'
      BY SMTT(30), <1>0, <2>1, FailPoisons DEF IInv, TableType, Refused, Hopeless, w
    <2> QED BY SMTT(30), <1>0, <2>2, <2>3, <2>4, EndType
            DEF IInv, End, TuplesApart, TuplesBind, PastRows, InsertedOnce, BackendType
  <1>2. CASE serving[b] = NoOne
    <2>1. UNCHANGED <<do, poisoned>>
      BY Zenon, <1>2 DEF Abort
    <2>2. ServesCall'
      BY ZenonT(30), <1>0, <2>1, ServesCallEnds
    <2> QED BY SMTT(30), <1>0, <2>1, <2>2, EndType
            DEF IInv, End, do, DoType, TableType, TuplesApart, TuplesBind, PastRows,
                InsertedOnce, Refused, Hopeless, BackendType
  <1> QED BY Zenon, <1>1, <1>2

\* The record of a call that a backend executes.
LEMMA ServedRecord ==
    ASSUME IInv, NEW b \in Backends, stmt[b] # <<>>,
           NEW w \in Writers, serving[b] = w, Len(call[w]) = 1
    PROVE  call[w] = stmt[b] /\ call[w][1] \in Events
  <1>1. stmt[b] \in Statements
    BY Zenon DEF IInv, BackendType
  <1>2. call[w] = stmt[b]
    BY ZenonT(30), InsertAssumption DEF IInv, ServesCall
  <1>3. call[w] \in Seq(Events)
    BY ZenonT(30), <1>1, <1>2, InsertAssumption
  <1> QED BY <1>2, <1>3

\* A record alone in its statement is the one whose value is refused.
LEMMA DataExceptionStep ==
    ASSUME IInv, NEW b \in Backends, DataException(b)
    PROVE  IInv'
  <1>1. Abort(b, "22") /\ "22" \in Classes /\ stmt[b] # <<>>
    BY Zenon DEF DataException, Classes
  <1>2. ASSUME NEW w \in Writers, serving[b] = w, Len(call[w]) = 1
        PROVE  call[w][1] \in Events /\ Hopeless(call[w][1])
    <2>1. call[w] = stmt[b] /\ call[w][1] \in Events
      BY ZenonT(30), <1>1, <1>2, ServedRecord
    <2>2. PICK i \in 1..Len(stmt[b]) : stmt[b][i] \in Unusable
      BY Zenon DEF DataException, Binds
    <2>3. i = 1
      BY <1>2, <2>1, <2>2
    <2> QED BY Zenon, <2>1, <2>2, <2>3 DEF Hopeless
  <1> QED BY ZenonT(30), <1>1, <1>2, AbortStep

\* The error for an order id is final: a record of its own call has entered no
\* tuple, so the order id it meets is a committed one.
LEMMA UniqueViolationStep ==
    ASSUME IInv, NEW b \in Backends, UniqueViolation(b)
    PROVE  IInv'
  <1>1. Abort(b, "23") /\ "23" \in Classes
    BY Zenon DEF UniqueViolation, Classes
  <1>2. ASSUME NEW w \in Writers, serving[b] = w, Len(call[w]) = 1
        PROVE  /\ call[w][1] \in Events
               /\ \E f \in rows : OrderOf[f] = OrderOf[call[w][1]]
    <2>1. stmt[b] = call[w]
      BY ZenonT(30), <1>2, InsertAssumption DEF IInv, ServesCall
    <2>2. Current(b) \in Events /\ row[b] \in 1..Len(stmt[b])
      BY Zenon, CurrentType DEF IInv, UniqueViolation
    <2>3. row[b] = 1
      <3>1. Len(stmt[b]) = 1
        BY ZenonT(30), <1>2, <2>1
      <3>2. row[b] \in 1..1
        BY ZenonT(30), <2>2, <3>1
      <3> QED BY <3>2
    <2>4. new[b] = {}
      BY Zenon, <2>3 DEF IInv, PastRows
    <2> QED BY ZenonT(30), <2>1, <2>2, <2>3, <2>4 DEF UniqueViolation, OrderTaken, Current
  <1>3. \A w \in Writers :
          serving[b] = w /\ ~IsRetryable("23") /\ Len(call[w]) = 1 =>
            /\ call[w][1] \in Events
            /\ "23" \in {"22", "23"} => Hopeless(call[w][1])
    BY ZenonT(30), <1>2 DEF Hopeless
  <1> QED BY ZenonT(30), <1>1, <1>3, AbortStep

LEMMA ServerErrorStep ==
    ASSUME IInv, NEW b \in Backends, ServerError(b)
    PROVE  IInv'
  <1>1. PICK class \in {"08", "42", "53", "57", "58", "XX"} : Abort(b, class)
    BY Zenon DEF ServerError
  <1>2. \A w \in Writers : serving[b] = w /\ Len(call[w]) = 1 => call[w][1] \in Events
    BY ZenonT(30), ServedRecord DEF ServerError
  <1>3. class \in Classes /\ class \notin {"22", "23"}
    BY DEF Classes
  <1> QED BY ZenonT(30), <1>1, <1>2, <1>3, AbortStep

LEMMA DeadlockStep ==
    ASSUME IInv, NEW b \in Backends, DeadlockDetected(b)
    PROVE  IInv'
  BY ZenonT(30), AbortStep DEF DeadlockDetected, Classes, IsRetryable

\* Only the transaction whose tuple becomes the row reports it.
LEMMA CommitStep ==
    ASSUME IInv, NEW b \in Backends, Commit(b)
    PROVE  IInv'
  <1>0. End(b) /\ rows' = rows \cup new[b] /\ UNCHANGED <<poisoned, calls>>
    BY Zenon DEF Commit
  <1>1. \A c \in Backends : new'[c] = IF c = b THEN {} ELSE new[c]
    BY ZenonT(30), <1>0 DEF End, IInv, BackendType
  <1>2. TuplesApart' /\ TuplesBind'
    BY SMTT(30), <1>0, <1>1 DEF IInv, TuplesApart, TuplesBind
  <1>3. BackendType' /\ PastRows'
    BY ZenonT(30), <1>0, <1>1, EndType DEF IInv, PastRows, End, BackendType
  <1>4. Refused'
    BY ZenonT(30), <1>0 DEF IInv, Refused, Hopeless
  <1>5. CASE serving[b] # NoOne
    <2>1. serving[b] \in Writers /\ Return(serving[b])
      BY ZenonT(30), <1>5 DEF Commit, IInv, BackendType
    <2>2. DoType' /\ Others(serving[b])
      BY ZenonT(30), <2>1, ReturnType DEF IInv
    <2>3. ServesCall'
      BY ZenonT(30), <1>0, <1>5, <2>2, ServesCallEnds
    <2>4. told' = [e \in Events |-> IF e \in new[b] THEN told[e] + 1 ELSE told[e]]
      BY ZenonT(30), <1>5 DEF Commit, Inserted
    <2>5. \A e \in new[b] : told[e] = 0
      BY DEF IInv, TuplesApart, InsertedOnce, BackendType, TableType
    <2>6. InsertedOnce' /\ TableType'
      BY <1>0, <2>4, <2>5 DEF IInv, InsertedOnce, TableType, BackendType
    <2> QED BY ZenonT(30), <1>2, <1>3, <1>4, <2>2, <2>3, <2>6 DEF IInv
  <1>6. CASE serving[b] = NoOne
    <2>1. UNCHANGED <<do, told>>
      BY Zenon, <1>6 DEF Commit
    <2>2. ServesCall'
      BY ZenonT(30), <1>0, <2>1, ServesCallEnds
    <2>3. DoType' /\ TableType' /\ InsertedOnce'
      BY ZenonT(30), <1>0, <2>1 DEF IInv, do, DoType, TableType, InsertedOnce, BackendType
    <2> QED BY ZenonT(30), <1>2, <1>3, <1>4, <2>2, <2>3 DEF IInv
  <1> QED BY ZenonT(30), <1>5, <1>6

-----------------------------------------------------------------------------
LEMMA NextIInv == IInv /\ [Next]_vars => IInv'
  <1> SUFFICES ASSUME IInv, [Next]_vars
               PROVE  IInv'
    OBVIOUS
  <1>1. ASSUME NEW w \in Writers, NEW s \in Statements, Call(w, s)
        PROVE  IInv'
    BY ZenonT(30), <1>1, CallStep
  <1>2. ASSUME NEW w \in Writers, Client(w) \/ CutOff(w) \/ Cancelled(w)
        PROVE  IInv'
    BY ZenonT(30), <1>2, ExecStep, TransportStep, CancelledStep DEF Client
  <1>3. ASSUME NEW b \in Backends, Server(b) \/ ServerError(b)
        PROVE  IInv'
    BY ZenonT(30), <1>3, DataExceptionStep, CheckStep, InsertTupleStep, UniqueViolationStep,
       CommitStep, DeadlockStep, ServerErrorStep DEF Server
  <1>4. CASE UNCHANGED vars
    BY <1>4 DEF vars, do, backend, history, IInv, DoType, BackendType, TableType, TuplesApart,
                TuplesBind, ServesCall, PastRows, InsertedOnce, Refused, Hopeless
  <1> QED BY ZenonT(30), <1>1, <1>2, <1>3, <1>4 DEF Next

LEMMA Inductive == Spec => []IInv
  BY InitIInv, NextIInv, PTL DEF Spec

\* Every call and every statement is of the types the code gives them, every
\* attempt of Do begins within its budget, and no two tuples share an order id.
THEOREM TypeCorrect == Spec => []TypeOK
  <1>1. IInv => TypeOK
    BY ZenonT(30) DEF IInv, DoType, BackendType, TableType, TuplesApart, TypeOK
  <1> QED BY <1>1, Inductive, PTL

\* However many writers insert an event, and however often they are cut off and
\* try again, store.InsertOrder and store.InsertOrders report it as new to one
\* of them at most, and only once its row is committed.
THEOREM InsertReportsOnce == Spec => []InsertedOnce
  <1>1. IInv => InsertedOnce
    BY ZenonT(30) DEF IInv
  <1> QED BY <1>1, Inductive, PTL

\* Only a commit adds rows, and only of tuples that bind and whose order ids no
\* committed row has.
LEMMA RowsStep ==
    ASSUME IInv, [Next]_vars, NEW e \in rows' \ rows
    PROVE  ~Hopeless(e)
  <1>1. rows' # rows
    BY Zenon
  <1>2. PICK b \in Backends : Commit(b)
    BY ZenonT(30), <1>1 DEF Next, vars, Client, Server, Call, Exec, ExecFails, CutOff, Cancelled,
       Check, InsertTuple, UniqueViolation, DataException, DeadlockDetected, ServerError, Abort
  <1>3. e \in new[b]
    BY Zenon, <1>2 DEF Commit
  <1> QED BY <1>2, <1>3 DEF IInv, TuplesApart, TuplesBind, Hopeless

\* A record that retry.Do gives up on and handle parks for its own data, alone in
\* its call, is never written by a later call of any writer.
THEOREM InsertRefusesForGood == Spec => RefusedForGood
  <1>1. IInv /\ [Next]_vars =>
          [\A p \in poisoned : p[2] \in {"22", "23"} /\ p[1] \notin rows => p[1] \notin rows']_vars
    BY ZenonT(30), RowsStep DEF IInv, Refused
  <1> QED BY <1>1, Inductive, PTL DEF Spec, RefusedForGood

-----------------------------------------------------------------------------
(* The three side by side.                                                 *)

state == <<part, vars, loadgen, runner>>

\* A step of one of them is a step or a stutter of each.
LEMMA Together == mcSpec => Spec /\ G!Spec /\ R!Spec
  <1>1. mcInit => Init /\ G!Init /\ R!Init
    BY Zenon DEF mcInit
  <1>2. [mcNext]_state => [Next]_vars
    BY Zenon DEF mcNext, state
  <1>3. [mcNext]_state => [G!Next]_(G!vars)
    BY Zenon DEF mcNext, state, loadgen, G!vars, G!sending, G!results, G!outcome, G!pipeline
  <1>4. [mcNext]_state => [R!Next]_(R!vars)
    BY Zenon DEF mcNext, state, runner, R!vars, R!runs, R!output, R!tabs
  <1> QED BY <1>1, <1>2, <1>3, <1>4, PTL DEF mcSpec, state, Spec, G!Spec, R!Spec

\* retry.Do, the table and loadgen's permits, as TypesOK says.
THEOREM EndingsTypes == mcSpec => []TypesOK
  <1>1. Spec => []TypeOK
    BY Zenon, TypeCorrect
  <1>2. G!Spec => []G!TypeOK
    BY ZenonT(30), MCEndingsParameters, G!LoadgenTypes
  <1> QED BY Together, <1>1, <1>2, PTL DEF TypesOK

\* summarise and measureEndToEnd: every launched request once, no loss overstated.
THEOREM ReportsAreExact == mcSpec => []ReportAddsUp
  <1>1. G!Spec => []G!ReportAddsUp
    BY Zenon, MCEndingsParameters, G!ReportsAddUp
  <1> QED BY Together, <1>1, PTL DEF ReportAddsUp

\* connectStream: a pane ascends, across any number of restarts of the console.
THEOREM PanesStayInOrder == mcSpec => []PaneInOrder
  <1>1. R!Spec => []R!PaneInOrder
    BY Zenon, MCEndingsParameters, R!PanesAscend
  <1> QED BY Together, <1>1, PTL DEF PaneInOrder
=============================================================================
