------------------------------ MODULE Gateway ------------------------------
(***************************************************************************)
(* The write path as a client sees it: POST /orders in cmd/api,             *)
(* order.NewEvent and Producer.Publish, and GET /orders/{id} through        *)
(* cmd/query.  In between, the workers are reduced to what they do to one   *)
(* record of the topic: write it, park it, or meet it again.                *)
(*                                                                          *)
(* What a request says is its body.  A request that fails validation is     *)
(* answered 400 before any state changes.                                   *)
(***************************************************************************)
EXTENDS Naturals, Sequences

CONSTANTS
    Clients,     \* connections a request may come in on
    Keys,        \* Idempotency-Keys
    Bodies,      \* what tells two requests apart
    Invalid,     \* the bodies and keys that validation refuses
    NoKey,
    MaxPosts     \* bound on the requests to POST /orders

ASSUME GatewayAssumption ==
    /\ NoKey \notin Keys
    /\ MaxPosts \in Nat

VARIABLES
    call,     \* what the handler of a client's POST has in hand
    topic,    \* the orders topic
    settled,  \* topic records some worker is done with
    db,       \* the orders table
    posts,
    \* history
    answers,  \* the order ids answered with 202, with the key sent
    reads     \* the rows that GET /orders/{id} has shown

vars == <<call, topic, settled, db, posts, answers, reads>>

NoCall == [state |-> "none"]

Init ==
    /\ call = [c \in Clients |-> NoCall]
    /\ topic = <<>> /\ settled = {} /\ db = {}
    /\ posts = 0 /\ answers = {} /\ reads = {}

-----------------------------------------------------------------------------
(* createOrder                                                             *)

\* uuid.NewString: an id no one has seen.
FreshId == [fresh |-> posts]

\* UUIDv5 of the key, injective for our purposes.  The prefixes that keep an
\* event id from being an order id are left out: the two are never compared.
derive(key) == [key |-> key]

\* Mutation of NewEvent: the key decides the event id only.
NewEventHalf(body, key) ==
    [event |-> IF key = NoKey THEN FreshId ELSE derive(key), order |-> FreshId,
     body |-> body, key |-> key]

\* NewEvent: a key decides both ids.
NewEvent(body, key) ==
    LET id == IF key = NoKey THEN FreshId ELSE derive(key)
    IN  [event |-> id, order |-> id, body |-> body, key |-> key]

ValidateIdempotencyKey(key) == key = NoKey \/ key \notin Invalid
Validate(body) == body \notin Invalid

\* A valid request, up to the call of Publish.
Post(c) ==
    /\ call[c] = NoCall
    /\ posts < MaxPosts
    /\ posts' = posts + 1
    /\ \E body \in Bodies, key \in Keys \cup {NoKey} :
        /\ ValidateIdempotencyKey(key)
        /\ Validate(body)
        /\ call' = [call EXCEPT ![c] = [state |-> "producing", evt |-> NewEvent(body, key)]]
    /\ UNCHANGED <<topic, settled, db, answers, reads>>

\* The broker appends the record.
Produced(c) ==
    /\ call[c].state = "producing"
    /\ topic' = Append(topic, call[c].evt)
    /\ call' = [call EXCEPT ![c].state = "appended"]
    /\ UNCHANGED <<settled, db, posts, answers, reads>>

\* Mutation of Accepted: fire and forget.
AcceptedEarly(c) ==
    /\ call[c] # NoCall
    /\ answers' = answers \cup {[key |-> call[c].evt.key, order |-> call[c].evt.order]}
    /\ call' = [call EXCEPT ![c] = NoCall]
    /\ UNCHANGED <<topic, settled, db, posts, reads>>

\* ProduceSync returns the acknowledgement: 202 with the order id.
Accepted(c) ==
    /\ call[c].state = "appended"
    /\ answers' = answers \cup {[key |-> call[c].evt.key, order |-> call[c].evt.order]}
    /\ call' = [call EXCEPT ![c] = NoCall]
    /\ UNCHANGED <<topic, settled, db, posts, reads>>

\* ProduceSync fails, by timeout, by the request's own context or because the
\* acknowledgement was lost: 503, and the record may or may not be there.
Refused(c) ==
    /\ call[c] # NoCall
    /\ call' = [call EXCEPT ![c] = NoCall]
    /\ UNCHANGED <<topic, settled, db, posts, answers, reads>>

-----------------------------------------------------------------------------
(* The workers: the records of one order come from one partition, so each   *)
(* is first handled in its turn; any of them may come again later, by       *)
(* redelivery or by a replay.                                               *)

Deliverable(i) ==
    \A j \in 1..(i - 1) : topic[j].order = topic[i].order => j \in settled

\* Mutation of Inserted: ON CONFLICT (event_id) DO UPDATE.
InsertedLast(e) == {r \in db : r.event # e.event} \cup {e}

\* Mutation of Inserted: no unique columns.
InsertedAlways(e) == db \cup {e}

\* InsertOrder: ON CONFLICT (event_id) DO NOTHING; a second event for an
\* order_id is an error, which parks the record and leaves the table alone.
Inserted(e) ==
    IF \E r \in db : r.event = e.event \/ r.order = e.order
    THEN db
    ELSE db \cup {e}

\* Written, or found to be there, and accounted for.
Persist(i) ==
    /\ Deliverable(i)
    /\ db' = Inserted(topic[i])
    /\ settled' = settled \cup {i}
    /\ UNCHANGED <<call, topic, posts, answers, reads>>

\* Retries exhausted: the record goes to the dead-letter topic.
Park(i) ==
    /\ Deliverable(i)
    /\ i \notin settled
    /\ settled' = settled \cup {i}
    /\ UNCHANGED <<call, topic, db, posts, answers, reads>>

-----------------------------------------------------------------------------
(* getOrder: 404 while there is no row, which changes nothing, and the row  *)
(* afterwards.                                                              *)

Id == {derive(key) : key \in Keys} \cup {[fresh |-> n] : n \in 0..MaxPosts}

\* The store's SELECT by primary key.
Found(id) == {r \in db : r.order = id}

GetOrder(id) ==
    /\ Found(id) # {}
    /\ reads' = reads \cup Found(id)
    /\ UNCHANGED <<call, topic, settled, db, posts, answers>>

-----------------------------------------------------------------------------
Next ==
    \/ \E c \in Clients : Post(c) \/ Produced(c) \/ Accepted(c) \/ Refused(c)
    \/ \E i \in DOMAIN topic : Persist(i) \/ Park(i)
    \/ \E id \in Id : GetOrder(id)

Spec == Init /\ [][Next]_vars

-----------------------------------------------------------------------------
(* Properties                                                              *)

Event == [event : Id, order : Id, body : Bodies \ Invalid, key : (Keys \ Invalid) \cup {NoKey}]

\* Types of the state; the table's two unique columns are unique, and nothing
\* that validation refuses is on the topic.
TypeOK ==
    /\ \A c \in Clients : call[c] = NoCall
        \/ (call[c].state \in {"producing", "appended"} /\ call[c].evt \in Event)
    /\ topic \in Seq(Event)
    /\ settled \subseteq DOMAIN topic
    /\ db \subseteq Event
    /\ \A r, s \in db : r.event = s.event \/ r.order = s.order => r = s
    /\ posts \in 0..MaxPosts
    /\ answers \subseteq [key : Keys \cup {NoKey}, order : Id]
    /\ reads \subseteq Event

\* order.NewEvent: "the same key always produces the same OrderID and EventID",
\* which "routes the retry into exactly the same deduplication".  Whatever was
\* accepted, refused, redelivered or parked on the way, a key has at most one
\* row, and every 202 given for the key names that row's order.
OneOrderPerKey ==
    /\ \A r, s \in db : r.key = s.key /\ r.key # NoKey => r = s
    /\ \A a \in answers, r \in db : a.key = r.key /\ a.key # NoKey => a.order = r.order

\* createOrder: the 202 means "Kafka has this", and a parked record stays in the
\* topic: an accepted order is never only in the answer.
AcceptedIsQueued ==
    \A a \in answers : \E i \in DOMAIN topic : topic[i].order = a.order

\* InsertOrder never rewrites a row: two reads of one order agree for ever,
\* also when its key has been sent again with another body in between.
ReadsAgree ==
    \A r \in reads : \A s \in reads \cup db : r.order = s.order => r = s

=============================================================================
