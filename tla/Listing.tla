------------------------------- MODULE Listing -------------------------------
(***************************************************************************)
(* GET /orders: listOrders in cmd/api, server.ListOrders in cmd/query and   *)
(* store.ListOrders with its keyset cursor, walked page by page by a client *)
(* while workers insert rows.  Order ids and timestamps are numbers,        *)
(* because the query compares them.                                         *)
(***************************************************************************)
EXTENDS Naturals, Sequences, Functions, FiniteSets

CONSTANTS
    OrderIds,    \* order ids
    Customers, NoOne,
    Times,       \* values of processed_at
    DefaultPageSize, MaxPageSize,
    MaxLists     \* bound on the walks

\* What a model gives the constants.
ListingParameters ==
    /\ OrderIds \subseteq Nat \ {0} /\ Times \subseteq Nat \ {0}
    /\ NoOne \notin Customers
    /\ DefaultPageSize \in Nat \ {0} /\ MaxPageSize \in Nat \ {0}
    /\ DefaultPageSize <= MaxPageSize
    /\ MaxLists \in Nat

VARIABLES
    db,       \* the orders table
    pager,    \* a client walking GET /orders
    lists

vars == <<db, pager, lists>>

Row == [order : OrderIds, customer : Customers, at : Times]
NoToken == [at |-> 0, order |-> 0]   \* no page token

Init ==
    /\ db = {}
    /\ pager = [state |-> "idle"]
    /\ lists = 0

\* A worker's insert becomes visible.  processed_at is the start of the
\* inserting transaction, so it may be earlier than that of rows that are
\* there already, and the rows of one batch share it.
Insert(r) ==
    /\ \A s \in db : s.order # r.order
    /\ db' = db \cup {r}
    /\ UNCHANGED <<pager, lists>>

-----------------------------------------------------------------------------
(* listOrders, server.ListOrders and store.ListOrders                      *)

\* parsePageSize, then the store's default and ceiling.
PageSize(n) ==
    LET asked == IF n > MaxPageSize THEN MaxPageSize ELSE n
    IN  IF asked = 0 THEN DefaultPageSize ELSE asked

Matches(r, who) == who = NoOne \/ r.customer = who

\* Mutation of Before: <= instead of <.
BeforeOrAt(r, cur) == r.at < cur.at \/ (r.at = cur.at /\ r.order <= cur.order)

\* The row comparison (processed_at, order_id) < (p, o).
Before(r, cur) == r.at < cur.at \/ (r.at = cur.at /\ r.order < cur.order)

\* ORDER BY processed_at DESC, order_id DESC: i - 1 rows come before row i.
Newer(r, s) == r.at > s.at \/ (r.at = s.at /\ r.order > s.order)
Ahead(r, rows) == {s \in rows : Newer(s, r)}
Newest(rows) ==
    [i \in 1..Cardinality(rows) |-> CHOOSE r \in rows : Cardinality(Ahead(r, rows)) = i - 1]

Anchor(r) == [at |-> r.at, order |-> r.order]

\* Mutation of NextToken: the anchor is the extra row instead of the last one.
NextTokenExtra(rows, size) == IF Len(rows) > size THEN Anchor(rows[size + 1]) ELSE NoToken

\* One extra row tells whether a further page exists; the anchor is the last
\* row of this page.
NextToken(rows, size) ==
    IF Len(rows) > size THEN Anchor(rows[size]) ELSE NoToken

ListOrders(size, token, who) ==
    LET seen == {r \in db : Matches(r, who) /\ (token = NoToken \/ Before(r, token))}
        all == Newest(seen)
        rows == SubSeq(all, 1, IF Len(all) > size + 1 THEN size + 1 ELSE Len(all))
    IN  [orders |-> SubSeq(rows, 1, IF Len(rows) > size THEN size ELSE Len(rows)),
         next |-> NextToken(rows, size)]

\* A client decides to list; due is what it may rely on being shown.
ListStart ==
    /\ pager.state = "idle"
    /\ lists < MaxLists
    /\ lists' = lists + 1
    /\ \E n \in 0..(MaxPageSize + 1), who \in Customers \cup {NoOne} :
        pager' = [state |-> "paging", size |-> PageSize(n), who |-> who, token |-> NoToken,
                  got |-> <<>>, due |-> {r \in db : Matches(r, who)}]
    /\ UNCHANGED db

\* One GET /orders with the token of the previous answer.
ListPage ==
    /\ pager.state = "paging"
    /\ LET res == ListOrders(pager.size, pager.token, pager.who)
       IN  pager' = [pager EXCEPT !.got = @ \o res.orders,
                                  !.token = res.next,
                                  !.state = IF res.next = NoToken THEN "listed" ELSE @]
    /\ UNCHANGED <<db, lists>>

ListEnd ==
    /\ pager.state = "listed"
    /\ pager' = [state |-> "idle"]
    /\ UNCHANGED <<db, lists>>

-----------------------------------------------------------------------------
Next ==
    \/ \E r \in Row : Insert(r)
    \/ ListStart \/ ListPage \/ ListEnd

Spec == Init /\ [][Next]_vars

-----------------------------------------------------------------------------
(* Properties                                                              *)

\* Types of the state.  No page is larger than MaxPageSize, whatever a client
\* asks for, and every token is the place of a row.
TypeOK ==
    /\ db \subseteq Row
    /\ lists \in 0..MaxLists
    /\ pager.state \in {"idle", "paging", "listed"}
    /\ pager.state # "idle" =>
        /\ pager.size \in 1..MaxPageSize
        /\ pager.who \in Customers \cup {NoOne}
        /\ pager.got \in Seq(Row) /\ pager.due \subseteq Row
        /\ pager.token = NoToken \/ \E r \in db : pager.token = Anchor(r)

\* store.ListOrders: rows inserted while a client pages must not make it see a
\* row twice.
NoRowTwice ==
    pager.state # "idle" => \A i, j \in DOMAIN pager.got : i # j => pager.got[i] # pager.got[j]

\* store.ListOrders: nor must they make it miss one: a finished walk has shown
\* every matching row that was there when it started, and no row of another
\* customer.
NoRowSkipped ==
    pager.state = "listed" =>
        /\ pager.due \subseteq Range(pager.got)
        /\ \A r \in Range(pager.got) : Matches(r, pager.who)
=============================================================================
