--------------------------- MODULE RequestsProofs ---------------------------
(***************************************************************************)
(* What is proved of Gateway and of Login, and that MCRequests, in which    *)
(* they stand beside Listing and Runner, has the properties of all four.    *)
(***************************************************************************)
EXTENDS MCRequests, FiniteSetTheorems, TLAPS

-----------------------------------------------------------------------------
(* Gateway, for any number of clients, keys, bodies and requests.          *)

\* A key decides both ids of an event, as NewEvent leaves them.
Keyed(e) == e.key # NoKey => e.event = derive(e.key) /\ e.order = derive(e.key)

\* The order is on the topic.
Queued(id) == \E i \in DOMAIN topic : topic[i].order = id

\* What a client's POST may be doing.
Calls == {NoCall} \cup [state : {"producing", "appended"}, evt : Event]

\* What createOrder holds: an event whose ids follow from its key and which is on
\* the topic once the broker has appended it.
CallInv ==
    /\ call \in [Clients -> Calls]
    /\ posts \in 0..MaxPosts
    /\ \A c \in Clients : call[c] # NoCall =>
        /\ Keyed(call[c].evt)
        /\ call[c].state = "appended" => Queued(call[c].evt.order)

\* What the topic and the answers hold.
TopicInv ==
    /\ topic \in Seq(Event)
    /\ settled \subseteq DOMAIN topic
    /\ \A i \in DOMAIN topic : Keyed(topic[i])
    /\ answers \subseteq [key : (Keys \ Invalid) \cup {NoKey}, order : Id]
    /\ \A a \in answers : Queued(a.order) /\ (a.key # NoKey => a.order = derive(a.key))

\* What the table holds, and that a row once read is there for good.
TableInv ==
    /\ db \subseteq Event
    /\ \A r \in db : Keyed(r)
    /\ \A r, s \in db : r.event = s.event \/ r.order = s.order => r = s
    /\ reads \subseteq db

\* The inductive invariant.
GInv == CallInv /\ TopicInv /\ TableInv

-----------------------------------------------------------------------------
\* NewEvent makes an event of its type, with both ids from the key if there is one.
LEMMA NewEventType ==
    ASSUME posts \in 0..MaxPosts, NEW body \in Bodies \ Invalid,
           NEW key \in (Keys \ Invalid) \cup {NoKey}
    PROVE  NewEvent(body, key) \in Event /\ Keyed(NewEvent(body, key))
  <1>1. FreshId \in Id
    BY Zenon DEF FreshId, Id
  <1>2. key # NoKey => derive(key) \in Id
    BY Zenon DEF Id
  <1> QED BY ZenonT(30), <1>1, <1>2 DEF NewEvent, Event, Keyed

\* A gateway that has just started holds nothing.
LEMMA GInit == Init => GInv
  BY GatewayAssumption DEF Init, GInv, CallInv, TopicInv, TableInv, Calls, NoCall

\* Only Post, Produced, Accepted and Refused touch what createOrder holds.
LEMMA CallStep == GInv /\ Next => CallInv'
  <1> SUFFICES ASSUME GInv, Next PROVE CallInv' OBVIOUS
  <1>0. /\ call \in [Clients -> Calls] /\ posts \in 0..MaxPosts
        /\ \A c \in Clients : call[c] # NoCall =>
            /\ call[c] \in [state : {"producing", "appended"}, evt : Event]
            /\ Keyed(call[c].evt)
            /\ call[c].state = "appended" => Queued(call[c].evt.order)
    BY Zenon DEF GInv, CallInv, Calls
  <1>1. ASSUME NEW c \in Clients, Post(c) PROVE CallInv'
    <2>1. PICK body \in Bodies \ Invalid, key \in (Keys \ Invalid) \cup {NoKey} :
            call' = [call EXCEPT ![c] = [state |-> "producing", evt |-> NewEvent(body, key)]]
      BY ZenonT(30), <1>1 DEF Post, Validate, ValidateIdempotencyKey
    <2>2. NewEvent(body, key) \in Event /\ Keyed(NewEvent(body, key))
      BY ZenonT(30), <1>0, NewEventType
    <2>3. posts' \in 0..MaxPosts /\ topic' = topic
      BY <1>0, <1>1, GatewayAssumption DEF Post
    <2> DEFINE new == [state |-> "producing", evt |-> NewEvent(body, key)]
    <2>4. new \in Calls /\ new.state = "producing" /\ new.evt = NewEvent(body, key)
      BY ZenonT(30), <2>2 DEF Calls
    <2>5. call'[c] = new /\ \A d \in Clients \ {c} : call'[d] = call[d]
      BY ZenonT(30), <1>0, <2>1
    <2>6. call' \in [Clients -> Calls]
      BY ZenonT(30), <1>0, <2>1, <2>4
    <2> HIDE DEF new
    <2> QED BY ZenonT(30), <1>0, <2>2, <2>3, <2>4, <2>5, <2>6 DEF CallInv, Queued
  <1>2. ASSUME NEW c \in Clients, Produced(c) PROVE CallInv'
    <2>1. call[c] \in [state : {"producing", "appended"}, evt : Event] /\ Keyed(call[c].evt)
      BY <1>0, <1>2 DEF Produced, NoCall
    <2> DEFINE new == [call[c] EXCEPT !.state = "appended"]
    <2>2. new \in Calls /\ new.evt = call[c].evt
      BY ZenonT(30), <2>1 DEF Calls
    <2>3. call' = [call EXCEPT ![c] = new] /\ posts' = posts
      BY ZenonT(30), <1>0, <1>2, <2>1 DEF Produced
    <2>4. topic \in Seq(Event) /\ topic' = Append(topic, call[c].evt)
      BY ZenonT(30), <1>2 DEF Produced, GInv, TopicInv
    <2>5. Queued(call[c].evt.order)'
      <3>1. Len(topic) + 1 \in DOMAIN topic' /\ topic'[Len(topic) + 1] = call[c].evt
        BY <2>1, <2>4
      <3> QED BY ZenonT(30), <1>2, <3>1, <2>2, <2>3, <1>0 DEF Queued
    <2>6. ASSUME NEW id, Queued(id) PROVE Queued(id)'
      BY <2>4, <2>6 DEF Queued
    <2>7. call'[c] = new /\ \A d \in Clients \ {c} : call'[d] = call[d]
      BY ZenonT(30), <1>0, <2>3
    <2>8. call' \in [Clients -> Calls]
      BY ZenonT(30), <1>0, <2>2, <2>3
    <2> HIDE DEF new
    <2>9. ASSUME NEW d \in Clients, call'[d] # NoCall
          PROVE  /\ Keyed(call'[d].evt)
                 /\ call'[d].state = "appended" => Queued(call[d].evt.order)' \/ d = c
      BY ZenonT(30), <1>0, <2>1, <2>2, <2>6, <2>7, <2>9
    <2> QED BY ZenonT(30), <1>0, <2>2, <2>3, <2>5, <2>6, <2>7, <2>8, <2>9 DEF CallInv
  <1>3. ASSUME NEW c \in Clients, Accepted(c) \/ Refused(c) PROVE CallInv'
    BY ZenonT(30), <1>0, <1>3 DEF Accepted, Refused, CallInv, Calls, Queued
  <1>4. ASSUME NEW i \in DOMAIN topic, Persist(i) \/ Park(i) PROVE CallInv'
    BY ZenonT(30), <1>0, <1>4 DEF Persist, Park, CallInv, Queued
  <1>5. ASSUME NEW id \in Id, GetOrder(id) PROVE CallInv'
    BY ZenonT(30), <1>0, <1>5 DEF GetOrder, CallInv, Queued
  <1> QED BY ZenonT(30), <1>1, <1>2, <1>3, <1>4, <1>5 DEF Next

\* The topic only grows, by events that createOrder holds, and an answer is given
\* for an event that is on it.
LEMMA TopicStep == GInv /\ Next => TopicInv'
  <1> SUFFICES ASSUME GInv, Next PROVE TopicInv' OBVIOUS
  <1>0. \A c \in Clients : call[c] # NoCall =>
            /\ call[c].evt \in Event
            /\ Keyed(call[c].evt)
            /\ call[c].state = "appended" => Queued(call[c].evt.order)
    BY Zenon DEF GInv, CallInv, Calls
  <1> USE DEF GInv, TopicInv
  <1>1. ASSUME NEW c \in Clients, Post(c) \/ Refused(c) PROVE TopicInv'
    BY ZenonT(30), <1>1 DEF Post, Refused, Queued
  <1>2. ASSUME NEW c \in Clients, Produced(c) PROVE TopicInv'
    <2>1. call[c].evt \in Event /\ Keyed(call[c].evt)
      BY <1>0, <1>2 DEF Produced, NoCall
    <2>2. topic' = Append(topic, call[c].evt) /\ settled' = settled /\ answers' = answers
      BY ZenonT(30), <1>2 DEF Produced
    <2>3. /\ topic' \in Seq(Event)
          /\ DOMAIN topic \subseteq DOMAIN topic'
          /\ \A i \in DOMAIN topic : topic'[i] = topic[i]
          /\ \A i \in DOMAIN topic' \ DOMAIN topic : topic'[i] = call[c].evt
      BY SMTT(30), <2>1, <2>2
    <2>4. \A i \in DOMAIN topic' : Keyed(topic'[i])
      BY ZenonT(30), <2>1, <2>3
    <2>5. \A a \in answers : Queued(a.order)'
      BY ZenonT(30), <2>2, <2>3 DEF Queued
    <2> QED BY ZenonT(30), <2>2, <2>3, <2>4, <2>5
  <1>3. ASSUME NEW c \in Clients, Accepted(c) PROVE TopicInv'
    <2>1. /\ call[c].evt \in Event /\ Keyed(call[c].evt) /\ Queued(call[c].evt.order)
      BY SMTT(30), <1>0, <1>3 DEF Accepted, NoCall
    <2> DEFINE new == [key |-> call[c].evt.key, order |-> call[c].evt.order]
    <2>2. /\ new \in [key : (Keys \ Invalid) \cup {NoKey}, order : Id]
          /\ Queued(new.order) /\ (new.key # NoKey => new.order = derive(new.key))
      BY ZenonT(30), <2>1 DEF Event, Keyed
    <2>3. answers' = answers \cup {new} /\ topic' = topic /\ settled' = settled
      BY ZenonT(30), <1>3 DEF Accepted
    <2> HIDE DEF new
    <2> QED BY ZenonT(30), <2>2, <2>3 DEF Queued
  <1>4. ASSUME NEW i \in DOMAIN topic, Persist(i) \/ Park(i) PROVE TopicInv'
    BY ZenonT(30), <1>4 DEF Persist, Park, Queued
  <1>5. ASSUME NEW id \in Id, GetOrder(id) PROVE TopicInv'
    BY ZenonT(30), <1>5 DEF GetOrder, Queued
  <1> QED BY ZenonT(30), <1>1, <1>2, <1>3, <1>4, <1>5 DEF Next

\* The insert adds at most one row, and only one that no row conflicts with.
LEMMA TableStep == GInv /\ Next => TableInv'
  <1> SUFFICES ASSUME GInv, Next PROVE TableInv' OBVIOUS
  <1> USE DEF GInv, TableInv
  <1>1. ASSUME NEW c \in Clients, Post(c) \/ Produced(c) \/ Accepted(c) \/ Refused(c)
        PROVE  TableInv'
    BY ZenonT(30), <1>1 DEF Post, Produced, Accepted, Refused
  <1>2. ASSUME NEW i \in DOMAIN topic, Persist(i) PROVE TableInv'
    <2>1. topic[i] \in Event /\ Keyed(topic[i])
      BY DEF TopicInv
    <2>2. db' = Inserted(topic[i]) /\ reads' = reads
      BY ZenonT(30), <1>2 DEF Persist
    <2>3. CASE \E r \in db : r.event = topic[i].event \/ r.order = topic[i].order
      BY ZenonT(30), <2>2, <2>3 DEF Inserted
    <2>4. CASE ~ \E r \in db : r.event = topic[i].event \/ r.order = topic[i].order
      <3>1. db' = db \cup {topic[i]}
        BY ZenonT(30), <2>2, <2>4 DEF Inserted
      <3> QED BY ZenonT(30), <2>1, <2>2, <2>4, <3>1
    <2> QED BY ZenonT(30), <2>3, <2>4
  <1>3. ASSUME NEW i \in DOMAIN topic, Park(i) PROVE TableInv'
    BY ZenonT(30), <1>3 DEF Park
  <1>4. ASSUME NEW id \in Id, GetOrder(id) PROVE TableInv'
    BY ZenonT(30), <1>4 DEF GetOrder, Found
  <1> QED BY ZenonT(30), <1>1, <1>2, <1>3, <1>4 DEF Next

\* The inductive invariant of the gateway.
THEOREM GatewayInvariant == Spec => []GInv
  <1>1. GInv /\ UNCHANGED vars => GInv'
    BY ZenonT(30) DEF vars, GInv, CallInv, TopicInv, TableInv, Queued
  <1>2. GInv /\ [Next]_vars => GInv'
    BY Zenon, <1>1, CallStep, TopicStep, TableStep DEF GInv
  <1> QED BY GInit, <1>2, PTL DEF Spec

-----------------------------------------------------------------------------
\* NewEvent with InsertOrder, for any number of requests: a key has at most one row,
\* and every 202 given for it names that row's order.
THEOREM KeysHaveOneOrder == Spec => []OneOrderPerKey
  <1>1. GInv => OneOrderPerKey
    BY ZenonT(30) DEF GInv, TopicInv, TableInv, OneOrderPerKey, Keyed
  <1> QED BY <1>1, GatewayInvariant, PTL

\* Validate and ValidateIdempotencyKey keep what they refuse off the topic and
\* out of the table, where no two rows share an event id or an order id.
THEOREM GatewayTypes == Spec => []TypeOK
  <1>1. ASSUME CallInv, NEW c \in Clients
        PROVE  \/ call[c] = NoCall
               \/ call[c].state \in {"producing", "appended"} /\ call[c].evt \in Event
    BY Zenon, <1>1 DEF CallInv, Calls
  <1>2. ASSUME TopicInv PROVE answers \subseteq [key : Keys \cup {NoKey}, order : Id]
    BY Zenon, <1>2 DEF TopicInv
  <1>3. GInv => TypeOK
    BY ZenonT(30), <1>1, <1>2 DEF GInv, CallInv, TopicInv, TableInv, TypeOK
  <1> QED BY <1>3, GatewayInvariant, PTL

\* createOrder answers 202 only for an order whose record is on the topic.
THEOREM AcceptedOrdersAreQueued == Spec => []AcceptedIsQueued
  <1>1. GInv => AcceptedIsQueued
    BY ZenonT(30) DEF GInv, TopicInv, AcceptedIsQueued, Queued
  <1> QED BY <1>1, GatewayInvariant, PTL

\* getOrder never shows two different rows for one order.
THEOREM ReadsNeverDisagree == Spec => []ReadsAgree
  <1>1. GInv => ReadsAgree
    BY Zenon DEF GInv, TableInv, ReadsAgree
  <1> QED BY <1>1, GatewayInvariant, PTL

-----------------------------------------------------------------------------
(* Login, for any number of handlers, addresses and limits.                *)

\* Both modules count with the operator of FiniteSets.
LEMMA SameCount == ASSUME NEW S PROVE A!Cardinality(S) = Cardinality(S)
  BY Zenon DEF A!Cardinality, Cardinality

\* A failure record, seen no later than now.
Entries == [count : Nat, seen : 1..now, until : Nat]

\* What a failed login leaves of an address: a lock from the third failure on,
\* counted from the last one.
Entry(f) ==
    /\ f \in Entries
    /\ f.until = IF f.count < 3 THEN 0 ELSE f.seen + A!Backoff(f.count)

\* What auth keeps: a table within its limit, of entries that failed logins
\* leave, and at most one comparison for each handler.
LoginInv ==
    /\ now \in 1..MaxClock
    /\ A!Tracked \subseteq Addresses
    /\ failures = [a \in A!Tracked |-> failures[a]]
    /\ IsFiniteSet(A!Tracked) /\ Cardinality(A!Tracked) <= MaxTrackedIPs
    /\ \A a \in A!Tracked : Entry(failures[a])
    /\ comparing \in [Handlers -> Addresses \cup {Nobody}]

\* The back-off is positive, capped, and never shrinks from one failure to the next.
LEMMA BackoffGrows ==
    ASSUME A!LoginParameters, NEW n \in Nat
    PROVE  /\ A!Counted(n) \in Nat
           /\ n >= 3 => A!Backoff(n) \in 1..MaxBackoff
           /\ n >= 3 => A!Counted(n) >= 3 /\ A!Backoff(A!Counted(n)) >= A!Backoff(n)
           /\ n < 3 => A!Counted(n) = n + 1
  <1>1. ASSUME NEW m \in Nat, m >= 3 PROVE A!Backoff(m) \in 1..MaxBackoff
    BY <1>1 DEF A!LoginParameters, A!Backoff, A!Doubled
  <1>2. ASSUME NEW m \in 3..8 PROVE A!Backoff(m + 1) >= A!Backoff(m)
    BY <1>2 DEF A!LoginParameters, A!Backoff, A!Doubled
  <1>3. A!Counted(n) \in Nat /\ (n >= 3 => A!Counted(n) >= 3) /\ (n < 3 => A!Counted(n) = n + 1)
    BY DEF A!Counted
  <1>4. n >= 3 => A!Backoff(A!Counted(n)) >= A!Backoff(n)
    <2>1. CASE A!Counted(n) = n
      BY SMTT(30), <2>1, <1>1, <1>3 DEF A!LoginParameters
    <2>2. CASE n \in 3..8 /\ A!Counted(n) = n + 1
      BY ZenonT(30), <2>2, <1>2
    <2> QED BY <2>1, <2>2 DEF A!Counted
  <1> QED BY ZenonT(30), <1>1, <1>3, <1>4

\* recordFailure writes such an entry, and its lock ends no earlier.
LEMMA FailedEntry ==
    ASSUME A!LoginParameters, now \in 1..MaxClock, NEW f, f.count \in Nat, f.seen \in 0..now,
           f.until = IF f.count < 3 THEN 0 ELSE f.seen + A!Backoff(f.count)
    PROVE  Entry(A!Failed(f)) /\ A!Failed(f).until >= f.until /\ A!Failed(f).seen = now
  <1> DEFINE n == A!Counted(f.count)
  <1>1. n \in Nat /\ (f.count >= 3 => n >= 3 /\ A!Backoff(n) >= A!Backoff(f.count))
        /\ (f.count < 3 => n = f.count + 1)
    BY ZenonT(30), BackoffGrows
  <1>2. (n >= 3 => A!Backoff(n) \in 1..MaxBackoff) /\ (f.count >= 3 => A!Backoff(f.count) \in 1..MaxBackoff)
    BY ZenonT(30), <1>1, BackoffGrows
  <1>3. A!Failed(f) = [count |-> n, seen |-> now, until |-> IF n < 3 THEN f.until ELSE now + A!Backoff(n)]
    BY Zenon DEF A!Failed
  <1> HIDE DEF n
  <1>4. n < 3 => f.count < 3 /\ f.until = 0
    BY <1>1
  <1>5. f.until \in Nat /\ (IF n < 3 THEN f.until ELSE now + A!Backoff(n)) \in Nat
    BY SMTT(30), <1>1, <1>2, <1>4 DEF A!LoginParameters
  <1>6. Entry(A!Failed(f))
    BY SMTT(30), <1>1, <1>3, <1>4, <1>5 DEF Entry, Entries, A!LoginParameters
  <1>7. A!Failed(f).until >= f.until
    BY SMTT(30), <1>1, <1>2, <1>3, <1>4, <1>5 DEF A!LoginParameters
  <1> QED BY SMTT(30), <1>3, <1>6, <1>7

\* sweep makes room for one entry.
LEMMA SweepsFit ==
    ASSUME A!LoginParameters, LoginInv, NEW kept \in A!Sweeps
    PROVE  /\ kept \subseteq A!Tracked /\ IsFiniteSet(kept)
           /\ Cardinality(kept) < MaxTrackedIPs
           /\ \/ kept = {a \in A!Tracked : ~A!Stale(a)}
              \/ /\ Cardinality(A!Tracked) >= MaxTrackedIPs
                 /\ \A a \in kept, b \in A!Tracked \ kept :
                        A!Stale(b) \/ failures[a].seen >= failures[b].seen
  <1> DEFINE fresh == {a \in A!Tracked : ~A!Stale(a)}
  <1>1. IsFiniteSet(fresh) /\ Cardinality(fresh) <= Cardinality(A!Tracked)
        /\ Cardinality(fresh) \in Nat /\ Cardinality(A!Tracked) \in Nat
    BY ZenonT(30), FS_Subset, FS_CardinalityType DEF LoginInv
  <1>2. CASE Cardinality(fresh) < MaxTrackedIPs
    BY ZenonT(30), <1>1, <1>2, SameCount DEF A!Sweeps
  <1>3. CASE ~(Cardinality(fresh) < MaxTrackedIPs)
    <2>1. kept \subseteq fresh /\ Cardinality(kept) = A!Target
          /\ \A a \in kept, b \in fresh \ kept : failures[a].seen >= failures[b].seen
      BY ZenonT(30), <1>3, SameCount DEF A!Sweeps
    <2>2. A!Target < MaxTrackedIPs
      BY DEF A!Target, A!LoginParameters
    <2>3. IsFiniteSet(kept)
      BY ZenonT(30), <1>1, <2>1, FS_Subset
    <2> QED BY SMTT(30), <1>1, <1>3, <2>1, <2>2, <2>3 DEF A!LoginParameters
  <1> QED BY ZenonT(30), <1>2, <1>3

\* A failed login leaves what a sweep keeps, and an entry of its own whose lock
\* ends no earlier than before.
LEMMA WrongTable ==
    ASSUME A!LoginParameters, LoginInv, NEW h \in Handlers, A!WrongPassword(h)
    PROVE  \E kept \in A!Sweeps, new \in Entries :
            /\ comparing[h] \in Addresses
            /\ failures' = [b \in kept \cup {comparing[h]} |->
                                IF b = comparing[h] THEN new ELSE failures[b]]
            /\ Entry(new) /\ new.seen = now
            /\ comparing[h] \in kept => new.until >= failures[comparing[h]].until
  <1> DEFINE a == comparing[h]
  <1> DEFINE Old(kept) == IF a \in kept THEN failures[a] ELSE [count |-> 0, seen |-> 0, until |-> 0]
  <1>1. PICK kept \in A!Sweeps :
            failures' = [b \in kept \cup {a} |-> IF b = a THEN A!Failed(Old(kept)) ELSE failures[b]]
    BY ZenonT(30) DEF A!WrongPassword
  <1>2. a \in Addresses
    BY ZenonT(30) DEF A!WrongPassword, LoginInv
  <1>3. /\ Old(kept).count \in Nat /\ Old(kept).seen \in 0..now
        /\ Old(kept).until = IF Old(kept).count < 3 THEN 0
                             ELSE Old(kept).seen + A!Backoff(Old(kept).count)
    <2>1. CASE a \in kept
      BY SMTT(30), <2>1, SweepsFit DEF LoginInv, Entry, Entries
    <2>2. CASE a \notin kept
      BY SMTT(30), <2>2 DEF LoginInv
    <2> QED BY ZenonT(30), <2>1, <2>2
  <1>4. a \in kept => Old(kept) = failures[a]
    OBVIOUS
  <1> HIDE DEF Old
  <1>5. Entry(A!Failed(Old(kept))) /\ A!Failed(Old(kept)).until >= Old(kept).until
        /\ A!Failed(Old(kept)).seen = now
    BY ZenonT(30), <1>3, FailedEntry DEF LoginInv
  <1>6. A!Failed(Old(kept)) \in Entries
    BY ZenonT(30), <1>5 DEF Entry, Entries
  <1> QED BY ZenonT(30), <1>1, <1>2, <1>4, <1>5, <1>6

\* The table starts empty.
LEMMA LoginInit == A!LoginParameters /\ A!Init => LoginInv
  <1> SUFFICES ASSUME A!LoginParameters, A!Init PROVE LoginInv OBVIOUS
  <1>1. A!Tracked = {}
    BY ZenonT(30) DEF A!Init, A!Tracked
  <1> QED BY SMTT(30), <1>1, FS_EmptySet DEF A!Init, LoginInv, A!LoginParameters

\* A login, a failure with its sweep, a success and the clock keep the table so.
LEMMA LoginStep == A!LoginParameters /\ LoginInv /\ [A!Next]_(A!vars) => LoginInv'
  <1> SUFFICES ASSUME A!LoginParameters, LoginInv, [A!Next]_(A!vars) PROVE LoginInv'
    OBVIOUS
  <1>1. ASSUME NEW h \in Handlers, A!Login(h) PROVE LoginInv'
    BY ZenonT(30), <1>1 DEF A!Login, LoginInv, A!Tracked, Entry, Entries
  <1>2. ASSUME NEW h \in Handlers, A!WrongPassword(h) PROVE LoginInv'
    <2> DEFINE a == comparing[h]
    <2>1. PICK kept \in A!Sweeps, new \in Entries :
            /\ a \in Addresses
            /\ failures' = [b \in kept \cup {a} |-> IF b = a THEN new ELSE failures[b]]
            /\ Entry(new)
      BY ZenonT(30), <1>2, WrongTable
    <2>2. kept \subseteq A!Tracked /\ IsFiniteSet(kept) /\ Cardinality(kept) < MaxTrackedIPs
      BY ZenonT(30), SweepsFit
    <2>3. A!Tracked' = kept \cup {a} /\ now' = now
      BY ZenonT(30), <1>2, <2>1 DEF A!Tracked, A!WrongPassword
    <2>4. IsFiniteSet(A!Tracked') /\ Cardinality(A!Tracked') <= MaxTrackedIPs
      <3>1. IsFiniteSet(kept \cup {a}) /\ Cardinality(kept) \in Nat
            /\ Cardinality(kept \cup {a}) \in {Cardinality(kept), Cardinality(kept) + 1}
        BY ZenonT(30), <2>2, FS_AddElement, FS_CardinalityType
      <3> QED BY SMTT(30), <2>2, <2>3, <3>1 DEF A!LoginParameters
    <2>5. \A b \in A!Tracked' : Entry(failures'[b])
      BY ZenonT(30), <2>1, <2>2, <2>3 DEF LoginInv
    <2>6. \A b \in A!Tracked' : Entry(failures[b])'
      BY ZenonT(30), <2>3, <2>5 DEF Entry, Entries
    <2>7. comparing' \in [Handlers -> Addresses \cup {Nobody}]
      BY ZenonT(30), <1>2 DEF A!WrongPassword, LoginInv
    <2>8. A!Tracked' \subseteq Addresses
      BY ZenonT(30), <2>1, <2>2, <2>3 DEF LoginInv
    <2>9. failures' = [b \in A!Tracked' |-> failures'[b]]
      BY ZenonT(30), <2>1, <2>3
    <2> QED BY ZenonT(30), <2>3, <2>4, <2>6, <2>7, <2>8, <2>9 DEF LoginInv
  <1>3. ASSUME NEW h \in Handlers, A!RightPassword(h) PROVE LoginInv'
    <2>1. A!Tracked' = A!Tracked \ {comparing[h]} /\ now' = now
      BY ZenonT(30), <1>3 DEF A!RightPassword, A!Tracked
    <2>2. \A b \in A!Tracked' : failures'[b] = failures[b]
      BY ZenonT(30), <1>3, <2>1 DEF A!RightPassword
    <2>3. IsFiniteSet(A!Tracked') /\ Cardinality(A!Tracked') <= MaxTrackedIPs
      BY SMTT(30), <2>1, FS_Subset, FS_CardinalityType DEF LoginInv, A!LoginParameters
    <2>4. comparing' \in [Handlers -> Addresses \cup {Nobody}]
      BY ZenonT(30), <1>3 DEF A!RightPassword, LoginInv
    <2>5. failures' = [b \in A!Tracked' |-> failures'[b]]
      BY ZenonT(30), <1>3, <2>1 DEF A!RightPassword
    <2> QED BY ZenonT(30), <2>1, <2>2, <2>3, <2>4, <2>5 DEF LoginInv, Entry, Entries
  <1>4. CASE A!Tick
    BY <1>4 DEF A!Tick, LoginInv, A!Tracked, Entry, Entries, A!LoginParameters
  <1>5. CASE UNCHANGED A!vars
    BY ZenonT(30), <1>5 DEF A!vars, LoginInv, A!Tracked, Entry, Entries
  <1> QED BY ZenonT(30), <1>1, <1>2, <1>3, <1>4, <1>5 DEF A!Next

\* No step shortens a lock in force but in the two cases that KeepsLocks names.
LEMMA LocksHold == A!LoginParameters /\ LoginInv /\ [A!Next]_(A!vars) => A!KeepsLocks
  <1> SUFFICES ASSUME A!LoginParameters, LoginInv, [A!Next]_(A!vars), NEW a \in A!Tracked, A!LockedFor(a)
               PROVE  \/ a \in A!Tracked' /\ failures'[a].until >= failures[a].until
                      \/ \E h \in Handlers : comparing[h] = a /\ A!RightPassword(h)
                      \/ /\ Cardinality(A!Tracked) >= MaxTrackedIPs
                         /\ \A b \in A!Tracked' \cap A!Tracked : failures'[b].seen >= failures[a].seen
    BY ZenonT(30), SameCount DEF A!KeepsLocks
  <1> USE DEF A!Tracked
  <1>1. failures[a].until \in Nat /\ failures[a].seen \in 1..now /\ now \in Nat
    BY DEF LoginInv, Entry, Entries
  <1>2. ~A!Stale(a)
    BY <1>1 DEF A!LockedFor, A!Stale
  <1>3. CASE failures' = failures
    BY SMTT(30), <1>1, <1>3
  <1>4. ASSUME NEW h \in Handlers, A!WrongPassword(h)
        PROVE  \/ a \in A!Tracked' /\ failures'[a].until >= failures[a].until
               \/ /\ Cardinality(A!Tracked) >= MaxTrackedIPs
                  /\ \A b \in A!Tracked' \cap A!Tracked : failures'[b].seen >= failures[a].seen
    <2> DEFINE c == comparing[h]
    <2>1. PICK kept \in A!Sweeps, new \in Entries :
            /\ failures' = [b \in kept \cup {c} |-> IF b = c THEN new ELSE failures[b]]
            /\ new.seen = now /\ (c \in kept => new.until >= failures[c].until)
      BY ZenonT(30), <1>4, WrongTable
    <2>2. CASE a \in kept
      BY SMTT(30), <1>1, <2>1, <2>2
    <2>3. CASE a \notin kept
      <3>1. /\ Cardinality(A!Tracked) >= MaxTrackedIPs
            /\ \A b \in kept : failures[b].seen >= failures[a].seen
        BY ZenonT(30), <1>2, <2>3, SweepsFit
      <3>2. ASSUME NEW b \in A!Tracked' \cap A!Tracked PROVE failures'[b].seen >= failures[a].seen
        <4>1. CASE b = c
          BY SMTT(30), <1>1, <2>1, <4>1
        <4>2. CASE b # c
          BY ZenonT(30), <2>1, <3>1, <4>2
        <4> QED BY ZenonT(30), <4>1, <4>2
      <3> QED BY ZenonT(30), <3>1, <3>2
    <2> QED BY ZenonT(30), <2>2, <2>3
  <1>5. ASSUME NEW h \in Handlers, A!RightPassword(h)
        PROVE  \/ a \in A!Tracked' /\ failures'[a].until >= failures[a].until
               \/ comparing[h] = a
    BY SMTT(30), <1>1, <1>5 DEF A!RightPassword
  <1>6. CASE \E h \in Handlers : A!Login(h)
    BY ZenonT(30), <1>3, <1>6 DEF A!Login
  <1>7. CASE A!Tick
    BY ZenonT(30), <1>3, <1>7 DEF A!Tick
  <1>8. CASE UNCHANGED A!vars
    BY ZenonT(30), <1>3, <1>8 DEF A!vars
  <1> QED BY ZenonT(30), <1>4, <1>5, <1>6, <1>7, <1>8 DEF A!Next

\* auth: the table of failures stays within maxTrackedIPs and each entry has
\* the lock that its count calls for, whatever comparisons run beside each other.
THEOREM LoginInvariant ==
    ASSUME A!LoginParameters
    PROVE  A!Spec => []LoginInv
  BY LoginInit, LoginStep, PTL DEF A!Spec

\* That is all that its TypeOK says.
LEMMA LoginTyped == A!LoginParameters /\ LoginInv => A!TypeOK
  <1> SUFFICES ASSUME A!LoginParameters, LoginInv PROVE A!TypeOK OBVIOUS
  <1>1. ASSUME NEW a \in A!Tracked
        PROVE  failures[a].until <= failures[a].seen + MaxBackoff
    BY BackoffGrows DEF LoginInv, Entry, Entries, A!LoginParameters
  <1> QED BY ZenonT(30), <1>1, SameCount DEF LoginInv, A!TypeOK, Entry, Entries

\* auth: the same as types, and no lock reaches further than MaxBackoff from
\* its last failure.
THEOREM LoginTypes ==
    ASSUME A!LoginParameters
    PROVE  A!Spec => []A!TypeOK
  BY LoginInvariant, LoginTyped, PTL

\* recordFailure, clearFailures, sweep: a lock in force is neither lost nor shortened,
\* but by a success of the address itself or by the eviction of a full table.
THEOREM LocksAreKept ==
    ASSUME A!LoginParameters
    PROVE  A!Spec => A!LockIsKept
  BY LoginInvariant, LocksHold, PTL DEF A!Spec, A!LockIsKept

-----------------------------------------------------------------------------
(* The four side by side.                                                  *)

\* All the variables.
all == <<part, vars, listing, login, runner>>

\* A step of one of them is a step or a stutter of each.
LEMMA Together == mcSpec => Spec /\ L!Spec /\ A!Spec /\ R!Spec
  <1>1. mcInit => Init /\ L!Init /\ A!Init /\ R!Init
    BY ZenonT(30) DEF mcInit
  <1>2. [mcNext]_all => [Next]_vars
    BY ZenonT(30) DEF mcNext, all
  <1>3. [mcNext]_all => [L!Next]_(L!vars)
    BY ZenonT(30) DEF mcNext, all, listing, L!vars
  <1>4. [mcNext]_all => [A!Next]_(A!vars)
    BY ZenonT(30) DEF mcNext, all, login, A!vars
  <1>5. [mcNext]_all => [R!Next]_(R!vars)
    BY ZenonT(30) DEF mcNext, all, runner, R!vars, R!runs, R!output, R!tabs
  <1> QED BY <1>1, <1>2, <1>3, <1>4, <1>5, PTL DEF mcSpec, all, Spec, L!Spec, A!Spec, R!Spec

\* The handlers, the table of failures, the listing and the runner keep their types
\* and limits while requests of all four kinds interleave.
THEOREM RequestsTypes == mcSpec => []TypesOK
  <1>1. Spec => []TypeOK
    BY ZenonT(30), GatewayTypes
  <1>2. L!Spec => []L!TypeOK
    BY ZenonT(30), MCRequestsParameters, L!ListingTypes
  <1>3. A!Spec => []A!TypeOK
    BY ZenonT(30), MCRequestsParameters, LoginTypes
  <1>4. R!Spec => []R!TypeOK
    BY ZenonT(30), MCRequestsParameters, R!RunnerTypes
  <1> QED BY Together, <1>1, <1>2, <1>3, <1>4, PTL DEF TypesOK

\* store.ListOrders: a client that pages through a growing table sees no row twice.
THEOREM ListingsRepeatNoRow == mcSpec => []NoRowTwice
  <1>1. L!Spec => []L!NoRowTwice
    BY Zenon, MCRequestsParameters, L!RowsAreSeenOnce
  <1> QED BY Together, <1>1, PTL DEF NoRowTwice

\* store.ListOrders: nor does it miss a matching row that was there at its first page.
THEOREM ListingsSkipNoRow == mcSpec => []NoRowSkipped
  <1>1. L!Spec => []L!NoRowSkipped
    BY Zenon, MCRequestsParameters, L!RowsAreNotSkipped
  <1> QED BY Together, <1>1, PTL DEF NoRowSkipped

\* auth: a lock in force is lost only by success or by eviction.
THEOREM LocksAreKeptAmongRequests == mcSpec => LockIsKept
  <1>1. A!Spec => A!LockIsKept
    BY ZenonT(30), MCRequestsParameters, LocksAreKept
  <1>2. A!KeepsLocks \/ UNCHANGED A!vars => [A!KeepsLocks]_login
    BY ZenonT(30) DEF A!vars, login
  <1> QED BY Together, <1>1, <1>2, PTL DEF LockIsKept, A!LockIsKept, login, A!vars

\* runner.start and supervise: the processes of two runs never overlap.
THEOREM RunsNeverOverlap == mcSpec => []OneAtATime
  <1>1. R!Spec => []R!OneAtATime
    BY Zenon, MCRequestsParameters, R!OneRunAtATime
  <1> QED BY Together, <1>1, PTL DEF OneAtATime

\* stream: no line is lost between the snapshot of the ring and the subscription.
THEOREM StreamsHaveNoGap == mcSpec => []NothingBetween
  <1>1. R!Spec => []R!NothingBetween
    BY Zenon, MCRequestsParameters, R!StreamHasNoGap
  <1> QED BY Together, <1>1, PTL DEF NothingBetween

\* start and finish: of an earlier run the ring holds at most the last line.
THEOREM RingsHoldOneStray == mcSpec => []StrayIsLastLine
  <1>1. R!Spec => []R!StrayIsLastLine
    BY Zenon, MCRequestsParameters, R!StrayLineIsLast
  <1> QED BY Together, <1>1, PTL DEF StrayIsLastLine
=============================================================================
