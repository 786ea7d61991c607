--------------------------- MODULE ListingProofs ----------------------------
(***************************************************************************)
(* Keyset pagination, for any orders, timestamps, page sizes and walks: a    *)
(* client sees no row twice and misses none that was there when it started. *)
(***************************************************************************)
EXTENDS Listing, FiniteSetTheorems, TLAPS

-----------------------------------------------------------------------------
(* ORDER BY                                                                *)

\* A set of rows as the table may hold it: finite, with order_id unique.
Table(rows) ==
    /\ rows \subseteq Row /\ IsFiniteSet(rows)
    /\ \A r, s \in rows : r.order = s.order => r = s

LEMMA RowTypes ==
    ASSUME ListingParameters, NEW r \in Row
    PROVE  r.at \in Nat \ {0} /\ r.order \in Nat \ {0}
  BY DEF ListingParameters, Row

\* (processed_at, order_id) orders the rows of a table totally.
LEMMA NewerIsTotal ==
    ASSUME ListingParameters, NEW rows, Table(rows), NEW r \in rows, NEW s \in rows
    PROVE  /\ ~Newer(r, r)
           /\ r = s \/ Newer(r, s) \/ Newer(s, r)
           /\ \A q \in rows : Newer(q, r) /\ Newer(r, s) => Newer(q, s)
           /\ ~(Newer(r, s) /\ Newer(s, r))
  <1>1. \A q \in rows : q.at \in Nat /\ q.order \in Nat
    BY RowTypes DEF Table
  <1> QED BY <1>1 DEF Newer, Table

\* How many rows come before one tells its place.
LEMMA RanksAreApart ==
    ASSUME ListingParameters, NEW rows, Table(rows)
    PROVE  /\ \A r \in rows : Cardinality(Ahead(r, rows)) \in 0..(Cardinality(rows) - 1)
           /\ \A r, s \in rows :
                Newer(r, s) => Cardinality(Ahead(r, rows)) < Cardinality(Ahead(s, rows))
  <1>1. \A r \in rows : IsFiniteSet(Ahead(r, rows)) /\ Cardinality(Ahead(r, rows)) \in Nat
    BY FS_Subset, FS_CardinalityType DEF Ahead, Table
  <1>2. Cardinality(rows) \in Nat
    BY FS_CardinalityType DEF Table
  <1>3. ASSUME NEW r \in rows PROVE Cardinality(Ahead(r, rows)) < Cardinality(rows)
    <2>1. Ahead(r, rows) \in SUBSET rows /\ r \notin Ahead(r, rows)
      BY NewerIsTotal DEF Ahead
    <2> QED BY <1>1, <1>2, <2>1, FS_Subset DEF Table
  <1>4. ASSUME NEW r \in rows, NEW s \in rows, Newer(r, s)
        PROVE  Cardinality(Ahead(r, rows)) < Cardinality(Ahead(s, rows))
    <2>1. Ahead(r, rows) \in SUBSET Ahead(s, rows)
      BY <1>4, NewerIsTotal DEF Ahead
    <2>2. r \in Ahead(s, rows) /\ r \notin Ahead(r, rows)
      BY <1>4, NewerIsTotal DEF Ahead
    <2> QED BY <1>1, <2>1, <2>2, FS_Subset
  <1> QED BY <1>1, <1>2, <1>3, <1>4

\* So Newest lists the rows, each once, the newest first.
LEMMA NewestSorts ==
    ASSUME ListingParameters, NEW rows, Table(rows)
    PROVE  LET all == Newest(rows)
           IN  /\ all \in Seq(rows) /\ Len(all) \in Nat /\ Len(all) = Cardinality(rows)
               /\ \A i, j \in 1..Len(all) : i < j => Newer(all[i], all[j])
               /\ \A r \in rows : \E i \in 1..Len(all) : all[i] = r
  <1> DEFINE n == Cardinality(rows)
  <1> DEFINE Rank(r) == Cardinality(Ahead(r, rows))
  <1> DEFINE all == Newest(rows)
  <1>1. n \in Nat
    BY FS_CardinalityType DEF Table
  <1>2. \A r \in rows : Rank(r) \in 0..(n - 1)
    BY RanksAreApart
  <1>3. \A r, s \in rows : Newer(r, s) => Rank(r) < Rank(s)
    BY RanksAreApart
  <1>4. \A r, s \in rows : Rank(r) = Rank(s) => r = s
    <2> SUFFICES ASSUME NEW r \in rows, NEW s \in rows, Rank(r) = Rank(s) PROVE r = s
      OBVIOUS
    <2>1. ~Newer(r, s) /\ ~Newer(s, r)
      BY <1>2, <1>3
    <2> QED BY <2>1, NewerIsTotal
  <1>5. \A i \in 1..n : \E r \in rows : Rank(r) = i - 1
    <2> DEFINE f == [r \in rows |-> Rank(r)]
    <2>1. f \in Injection(rows, 0..(n - 1))
      BY <1>2, <1>4 DEF Injection, IsInjective
    <2>2. IsFiniteSet(0..(n - 1)) /\ Cardinality(0..(n - 1)) = n
      BY <1>1, FS_Interval
    <2>3. f \in Surjection(rows, 0..(n - 1))
      BY <2>1, <2>2, FS_Injection
    <2>4. \A t \in 0..(n - 1) : \E r \in rows : f[r] = t
      BY <2>3 DEF Surjection
    <2>5. \A i \in 1..n : i - 1 \in 0..(n - 1)
      BY <1>1
    <2> QED BY <2>4, <2>5
  <1>6. all = [i \in 1..n |-> CHOOSE r \in rows : Rank(r) = i - 1]
    BY DEF Newest
  <1> HIDE DEF n, Rank, all
  <1>7. \A i \in 1..n : all[i] \in rows /\ Rank(all[i]) = i - 1
    BY <1>5, <1>6
  <1>8. all \in Seq(rows) /\ Len(all) = n
    BY <1>1, <1>6, <1>7
  <1>9. \A i, j \in 1..n : i < j => Newer(all[i], all[j])
    <2> SUFFICES ASSUME NEW i \in 1..n, NEW j \in 1..n, i < j PROVE Newer(all[i], all[j])
      OBVIOUS
    <2>1. all[i] \in rows /\ all[j] \in rows /\ Rank(all[i]) < Rank(all[j])
      BY <1>1, <1>7
    <2>2. all[i] # all[j] /\ ~Newer(all[j], all[i])
      BY <1>2, <1>3, <2>1, <1>1
    <2> QED BY <2>1, <2>2, NewerIsTotal
  <1>10. \A r \in rows : \E i \in 1..n : all[i] = r
    <2> SUFFICES ASSUME NEW r \in rows PROVE \E i \in 1..n : all[i] = r
      OBVIOUS
    <2>1. Rank(r) + 1 \in 1..n
      BY <1>1, <1>2
    <2>2. Rank(all[Rank(r) + 1]) = Rank(r)
      BY <1>1, <1>2, <1>7, <2>1
    <2> QED BY <1>4, <1>7, <2>1, <2>2
  <1> QED BY <1>1, <1>8, <1>9, <1>10 DEF n, all

-----------------------------------------------------------------------------
(* One page                                                                *)

Seen(token, who) == {r \in db : Matches(r, who) /\ (token = NoToken \/ Before(r, token))}

\* A page is the first rows of what the query may see, and its token says
\* whether there are more.
LEMMA PageIsPrefix ==
    ASSUME ListingParameters, Table(db), NEW size \in 1..MaxPageSize, NEW token, NEW who
    PROVE  LET all == Newest(Seen(token, who))
               res == ListOrders(size, token, who)
           IN  /\ res.orders \in Seq(Seen(token, who))
               /\ Len(res.orders) = IF Len(all) > size THEN size ELSE Len(all)
               /\ \A i \in 1..Len(res.orders) : res.orders[i] = all[i]
               /\ res.next = IF Len(all) > size THEN Anchor(res.orders[Len(res.orders)])
                             ELSE NoToken
  <1> DEFINE seen == Seen(token, who)
  <1> DEFINE all == Newest(seen)
  <1> DEFINE rows == SubSeq(all, 1, IF Len(all) > size + 1 THEN size + 1 ELSE Len(all))
  <1> DEFINE orders == SubSeq(rows, 1, IF Len(rows) > size THEN size ELSE Len(rows))
  <1>1. Table(seen)
    BY FS_Subset DEF Table, Seen
  <1>2. all \in Seq(seen) /\ Len(all) \in Nat
    BY <1>1, NewestSorts
  <1>3. size \in Nat \ {0}
    BY DEF ListingParameters
  <1>4. ListOrders(size, token, who) = [orders |-> orders, next |-> NextToken(rows, size)]
    BY DEF ListOrders, Seen
  <1> HIDE DEF seen, all
  <1>5. /\ rows \in Seq(seen) /\ Len(rows) = IF Len(all) > size + 1 THEN size + 1 ELSE Len(all)
        /\ \A i \in 1..Len(rows) : rows[i] = all[i]
    BY <1>2, <1>3
  <1> HIDE DEF rows
  <1>6. /\ orders \in Seq(seen) /\ Len(orders) = IF Len(rows) > size THEN size ELSE Len(rows)
        /\ \A i \in 1..Len(orders) : orders[i] = rows[i]
    BY <1>3, <1>5
  <1> HIDE DEF orders
  <1>7. Len(rows) > size <=> Len(all) > size
    BY <1>2, <1>3, <1>5
  <1>8. Len(orders) = IF Len(all) > size THEN size ELSE Len(all)
    BY <1>2, <1>3, <1>5, <1>6, <1>7
  <1>9. \A i \in 1..Len(orders) : orders[i] = all[i]
    BY <1>2, <1>3, <1>5, <1>6, <1>8
  <1>10. NextToken(rows, size) = IF Len(all) > size THEN Anchor(orders[Len(orders)]) ELSE NoToken
    <2>1. CASE Len(all) > size
      <3>1. Len(orders) = size /\ orders[size] = rows[size]
        BY <1>3, <1>6, <1>8, <2>1
      <3> QED BY <1>7, <2>1, <3>1 DEF NextToken
    <2>2. CASE ~(Len(all) > size)
      BY <1>7, <2>2 DEF NextToken
    <2> QED BY <2>1, <2>2
  <1> QED BY <1>4, <1>6, <1>8, <1>9, <1>10 DEF seen, all

-----------------------------------------------------------------------------
(* The walk                                                                *)

Pager == [state : {"paging", "listed"}, size : 1..MaxPageSize, who : Customers \cup {NoOne},
          token : [at : Nat, order : Nat], got : Seq(Row), due : SUBSET Row]

\* What a client has of the table, and where it is: the pages so far descend, and
\* what it is still owed lies beyond its token.
Walk ==
    /\ pager \in Pager
    /\ \A i \in 1..Len(pager.got) : pager.got[i] \in db /\ Matches(pager.got[i], pager.who)
    /\ \A i, j \in 1..Len(pager.got) : i < j => Newer(pager.got[i], pager.got[j])
    /\ pager.token # NoToken =>
            Len(pager.got) > 0 /\ pager.token = Anchor(pager.got[Len(pager.got)])
    /\ pager.due \subseteq db /\ \A r \in pager.due : Matches(r, pager.who)
    /\ pager.state = "paging" =>
            /\ pager.token = NoToken => pager.got = <<>>
            /\ \A r \in pager.due :
                \/ \E i \in 1..Len(pager.got) : pager.got[i] = r
                \/ pager.token = NoToken \/ Before(r, pager.token)
    /\ pager.state = "listed" => \A r \in pager.due : \E i \in 1..Len(pager.got) : pager.got[i] = r

\* The table, and the walk if one is under way.
ListingInv ==
    /\ Table(db)
    /\ lists \in 0..MaxLists
    /\ pager = [state |-> "idle"] \/ Walk

\* The rows of a page come after those of the pages before it.
LEMMA PageContinues ==
    ASSUME ListingParameters, ListingInv, Walk, pager.state = "paging",
           NEW r \in Seen(pager.token, pager.who), NEW i \in 1..Len(pager.got)
    PROVE  Newer(pager.got[i], r)
  <1> DEFINE n == Len(pager.got)
  <1>1. pager.got \in Seq(Row) /\ n \in Nat
    BY DEF Walk, Pager
  <1>2. pager.token # NoToken /\ n > 0 /\ pager.token = Anchor(pager.got[n])
    BY DEF Walk
  <1>3. Before(r, Anchor(pager.got[n])) /\ r \in db
    BY <1>2 DEF Seen
  <1>4. Newer(pager.got[n], r)
    BY <1>3 DEF Before, Newer, Anchor
  <1>5. CASE i = n
    BY <1>4, <1>5
  <1>6. CASE i # n
    <2>1. Newer(pager.got[i], pager.got[n]) /\ pager.got[i] \in db /\ pager.got[n] \in db
      BY <1>1, <1>2, <1>6 DEF Walk
    <2> QED BY <1>3, <1>4, <2>1, NewerIsTotal DEF ListingInv
  <1> QED BY <1>5, <1>6

\* At the start nobody has listed anything.
LEMMA ListingInit == ListingParameters /\ Init => ListingInv
  BY FS_EmptySet DEF ListingParameters, Init, ListingInv, Table

\* A page extends the walk.
LEMMA PageStep ==
    ASSUME ListingParameters, ListingInv, ListPage
    PROVE  Walk'
  <1> DEFINE old == pager.got
  <1> DEFINE seen == Seen(pager.token, pager.who)
  <1> DEFINE all == Newest(seen)
  <1> DEFINE res == ListOrders(pager.size, pager.token, pager.who)
  <1> DEFINE page == res.orders
  <1> DEFINE new == old \o page
  <1>1. Walk /\ pager \in Pager /\ pager.state = "paging"
    BY DEF ListPage, ListingInv, Walk
  <1>2. /\ pager.size \in 1..MaxPageSize /\ pager.size \in Nat \ {0}
        /\ old \in Seq(Row) /\ Len(old) \in Nat
    BY <1>1 DEF Pager, ListingParameters
  <1>3. Table(seen) /\ seen \subseteq db /\ seen \subseteq Row
    BY FS_Subset DEF Table, Seen, ListingInv
  <1>4. /\ all \in Seq(seen) /\ Len(all) \in Nat
        /\ \A i, j \in 1..Len(all) : i < j => Newer(all[i], all[j])
        /\ \A r \in seen : \E i \in 1..Len(all) : all[i] = r
    BY <1>3, NewestSorts
  <1>5. /\ page \in Seq(seen)
        /\ Len(page) = IF Len(all) > pager.size THEN pager.size ELSE Len(all)
        /\ \A i \in 1..Len(page) : page[i] = all[i]
        /\ res.next = IF Len(all) > pager.size THEN Anchor(page[Len(page)]) ELSE NoToken
    BY <1>2, PageIsPrefix DEF ListingInv
  <1>6. pager' = [pager EXCEPT !.got = new, !.token = res.next,
                               !.state = IF res.next = NoToken THEN "listed" ELSE @]
        /\ db' = db
    BY DEF ListPage
  <1>7. \A r \in seen : \A i \in 1..Len(old) : Newer(old[i], r)
    BY <1>1, PageContinues
  <1> HIDE DEF old, seen, all, res, page
  <1>8. /\ Len(page) \in Nat /\ (Len(all) > pager.size => Len(page) > 0)
        /\ page \in Seq(Row) /\ Len(page) <= Len(all)
        /\ (Len(page) < Len(all) => Len(all) > pager.size)
    <2>1. page \in Seq(Row) /\ Len(page) \in Nat
      BY <1>3, <1>5
    <2>2. Len(page) = IF Len(all) > pager.size THEN pager.size ELSE Len(all)
      BY <1>5
    <2> QED BY <1>2, <1>4, <2>1, <2>2
  <1>9. /\ new \in Seq(Row) /\ Len(new) = Len(old) + Len(page)
        /\ \A i \in 1..Len(old) : new[i] = old[i]
        /\ \A i \in 1..Len(page) : new[Len(old) + i] = page[i]
    BY <1>2, <1>8
  <1>10. \A i \in 1..Len(page) : page[i] \in seen /\ page[i] = all[i] /\ i \in 1..Len(all)
    <2>1. \A i \in 1..Len(page) : page[i] \in seen /\ page[i] = all[i]
      BY <1>5
    <2>2. \A i \in 1..Len(page) : i \in 1..Len(all)
      BY <1>4, <1>8
    <2> QED BY <2>1, <2>2
  <1>11. \A i \in 1..Len(new) : (i \in 1..Len(old) /\ new[i] = old[i])
            \/ \E k \in 1..Len(page) : i = Len(old) + k /\ new[i] = page[k]
    <2> SUFFICES ASSUME NEW i \in 1..Len(new), i \notin 1..Len(old)
                 PROVE  \E k \in 1..Len(page) : i = Len(old) + k /\ new[i] = page[k]
      BY <1>9
    <2>1. i - Len(old) \in 1..Len(page) /\ i = Len(old) + (i - Len(old))
      BY <1>2, <1>8, <1>9
    <2> QED BY <1>9, <2>1
  <1> HIDE DEF new
  <1>12. /\ pager'.got = new /\ pager'.token = res.next /\ pager'.who = pager.who
         /\ pager'.due = pager.due /\ pager'.size = pager.size
         /\ pager'.state = IF res.next = NoToken THEN "listed" ELSE "paging"
    BY <1>1, <1>6 DEF Pager
  <1>13. Len(all) > pager.size => Anchor(page[Len(page)]) \in [at : Nat, order : Nat]
                                  /\ Anchor(page[Len(page)]) # NoToken
    <2> SUFFICES ASSUME Len(all) > pager.size
                 PROVE  Anchor(page[Len(page)]) \in [at : Nat, order : Nat]
                        /\ Anchor(page[Len(page)]) # NoToken
      OBVIOUS
    <2>1. page[Len(page)] \in Row
      BY <1>3, <1>8, <1>10
    <2> QED BY <2>1, RowTypes DEF Anchor, NoToken
  <1>14. pager' \in Pager
    <2>1. res.next \in [at : Nat, order : Nat]
      BY <1>5, <1>13 DEF NoToken
    <2> QED BY <1>1, <1>6, <1>9, <2>1 DEF Pager
  <1>15. \A i \in 1..Len(new) : new[i] \in db /\ Matches(new[i], pager.who)
    <2>1. \A i \in 1..Len(old) : old[i] \in db /\ Matches(old[i], pager.who)
      BY <1>1 DEF Walk, old
    <2>2. \A r \in seen : r \in db /\ Matches(r, pager.who)
      BY DEF seen, Seen
    <2> QED BY <1>10, <1>11, <2>1, <2>2
  <1>16. \A i, j \in 1..Len(new) : i < j => Newer(new[i], new[j])
    <2> SUFFICES ASSUME NEW i \in 1..Len(new), NEW j \in 1..Len(new), i < j
                 PROVE  Newer(new[i], new[j])
      OBVIOUS
    <2>1. CASE j \in 1..Len(old)
      <3>1. i \in 1..Len(old)
        BY <1>2, <2>1
      <3>2. Newer(old[i], old[j])
        BY <1>1, <2>1, <3>1 DEF Walk, old
      <3> QED BY <1>9, <2>1, <3>1, <3>2
    <2>2. CASE j \notin 1..Len(old)
      <3>1. PICK k \in 1..Len(page) : j = Len(old) + k /\ new[j] = page[k]
        BY <1>11, <2>2
      <3>2. CASE i \in 1..Len(old)
        BY <1>7, <1>9, <1>10, <3>1, <3>2
      <3>3. CASE i \notin 1..Len(old)
        <4>1. PICK l \in 1..Len(page) : i = Len(old) + l /\ new[i] = page[l]
          BY <1>11, <3>3
        <4>2. l < k
          BY <1>2, <1>8, <3>1, <4>1
        <4> QED BY <1>4, <1>10, <3>1, <4>1, <4>2
      <3> QED BY <3>2, <3>3
    <2> QED BY <2>1, <2>2
  <1>17. res.next # NoToken => Len(new) > 0 /\ res.next = Anchor(new[Len(new)])
    <2> SUFFICES ASSUME res.next # NoToken PROVE Len(new) > 0 /\ res.next = Anchor(new[Len(new)])
      OBVIOUS
    <2>1. Len(page) > 0 /\ res.next = Anchor(page[Len(page)])
      BY <1>5, <1>8
    <2>2. Len(page) \in 1..Len(page)
      BY <1>8, <2>1
    <2> QED BY <1>2, <1>8, <1>9, <2>1, <2>2
  <1>18. ASSUME NEW r \in pager.due
         PROVE  \/ \E i \in 1..Len(new) : new[i] = r
                \/ res.next # NoToken /\ Before(r, res.next)
    <2>1. CASE \E i \in 1..Len(old) : old[i] = r
      <3>1. PICK i \in 1..Len(old) : old[i] = r
        BY <2>1
      <3>2. i \in 1..Len(new) /\ new[i] = r
        BY <1>2, <1>8, <1>9, <3>1
      <3> QED BY <3>2
    <2>2. CASE ~\E i \in 1..Len(old) : old[i] = r
      <3>1. r \in seen
        BY <1>1, <2>2 DEF Walk, old, seen, Seen
      <3>2. PICK i \in 1..Len(all) : all[i] = r
        BY <1>4, <3>1
      <3>3. CASE i \in 1..Len(page)
        <4>1. Len(old) + i \in 1..Len(new) /\ new[Len(old) + i] = r
          BY <1>2, <1>8, <1>9, <1>10, <3>2, <3>3
        <4> QED BY <4>1
      <3>4. CASE i \notin 1..Len(page)
        <4>1. Len(all) > pager.size /\ Len(page) \in 1..Len(page) /\ Len(page) < i
          BY <1>4, <1>8, <3>4
        <4>2. Newer(page[Len(page)], r)
          BY <1>4, <1>10, <3>2, <4>1
        <4>3. res.next = Anchor(page[Len(page)]) /\ res.next # NoToken
          BY <1>5, <1>13, <4>1
        <4>4. Before(r, Anchor(page[Len(page)]))
          BY <4>2 DEF Before, Newer, Anchor
        <4> QED BY <4>3, <4>4
      <3> QED BY <3>3, <3>4
    <2> QED BY <2>1, <2>2
  <1>19. pager.due \subseteq db /\ \A r \in pager.due : Matches(r, pager.who)
    BY <1>1 DEF Walk
  <1> QED BY <1>6, <1>12, <1>14, <1>15, <1>16, <1>17, <1>18, <1>19 DEF Walk

\* Inserting a row and fetching a page keep it.
LEMMA ListingStep == ListingParameters /\ ListingInv /\ [Next]_vars => ListingInv'
  <1> SUFFICES ASSUME ListingParameters, ListingInv, [Next]_vars PROVE ListingInv'
    OBVIOUS
  <1>1. ASSUME NEW r \in Row, Insert(r) PROVE ListingInv'
    <2>1. Table(db')
      BY <1>1, FS_AddElement DEF Insert, ListingInv, Table
    <2>2. Walk => Walk'
      <3>1. pager' = pager /\ db \subseteq db'
        BY <1>1 DEF Insert
      <3> QED BY <3>1 DEF Walk
    <2> QED BY <1>1, <2>1, <2>2 DEF Insert, ListingInv, Table
  <1>2. CASE ListStart
    <2>1. PICK n \in 0..(MaxPageSize + 1), who \in Customers \cup {NoOne} :
            pager' = [state |-> "paging", size |-> PageSize(n), who |-> who, token |-> NoToken,
                      got |-> <<>>, due |-> {r \in db : Matches(r, who)}]
      BY <1>2 DEF ListStart
    <2>2. PageSize(n) \in 1..MaxPageSize
      BY DEF PageSize, ListingParameters
    <2>3. NoToken \in [at : Nat, order : Nat] /\ <<>> \in Seq(Row) /\ Len(<<>>) = 0
      BY DEF NoToken
    <2>4. db' = db /\ db \subseteq Row
      BY <1>2 DEF ListStart, ListingInv, Table
    <2>5. pager' \in Pager
      BY <2>1, <2>2, <2>3, <2>4 DEF Pager
    <2>6. Walk'
      BY <2>1, <2>3, <2>4, <2>5 DEF Walk
    <2>7. lists' \in 0..MaxLists
      BY <1>2 DEF ListStart, ListingInv, ListingParameters
    <2> QED BY <2>4, <2>6, <2>7 DEF ListingInv, Table
  <1>3. CASE ListPage
    BY <1>3, PageStep DEF ListPage, ListingInv, Table
  <1>4. CASE ListEnd
    BY <1>4 DEF ListEnd, ListingInv, Table
  <1>5. CASE UNCHANGED vars
    BY <1>5 DEF vars, ListingInv, Table, Walk
  <1> QED BY <1>1, <1>2, <1>3, <1>4, <1>5 DEF Next

\* The invariant: the table's ids are unique, and a walk in progress has descended
\* through the table without leaving out a row it owes.
THEOREM ListingInvariant ==
    ASSUME ListingParameters
    PROVE  Spec => []ListingInv
  BY ListingInit, ListingStep, PTL DEF Spec

\* What the invariant says of types.
LEMMA ListingTyped == ListingParameters /\ ListingInv => TypeOK
  <1> SUFFICES ASSUME ListingParameters, ListingInv PROVE TypeOK OBVIOUS
  <1>1. CASE pager = [state |-> "idle"]
    BY <1>1 DEF ListingInv, TypeOK, Table
  <1>2. CASE Walk
    <2>1. pager.token = NoToken \/ \E r \in db : pager.token = Anchor(r)
      <3>1. Len(pager.got) \in Nat
        BY <1>2 DEF Walk, Pager
      <3>2. Len(pager.got) > 0 => pager.got[Len(pager.got)] \in db
        BY <1>2, <3>1 DEF Walk
      <3> QED BY <1>2, <3>2 DEF Walk
    <2>2. pager \in Pager
      BY <1>2 DEF Walk
    <2> QED BY <2>1, <2>2 DEF ListingInv, TypeOK, Table, Pager
  <1> QED BY <1>1, <1>2 DEF ListingInv

\* parsePageSize and store.ListOrders: no page exceeds MaxPageSize, and every token
\* handed out is the place of a row of the table.
THEOREM ListingTypes ==
    ASSUME ListingParameters
    PROVE  Spec => []TypeOK
  BY ListingInvariant, ListingTyped, PTL

\* A walk that descends has no row twice.
LEMMA ListingDistinct == ListingParameters /\ ListingInv => NoRowTwice
  <1> SUFFICES ASSUME ListingParameters, ListingInv, pager.state # "idle",
                      NEW i \in DOMAIN pager.got, NEW j \in DOMAIN pager.got, i # j
               PROVE  pager.got[i] # pager.got[j]
    BY DEF NoRowTwice
  <1>1. Walk
    BY DEF ListingInv
  <1>2. pager.got \in Seq(Row) /\ i \in 1..Len(pager.got) /\ j \in 1..Len(pager.got)
    BY <1>1 DEF Walk, Pager
  <1>3. Newer(pager.got[i], pager.got[j]) \/ Newer(pager.got[j], pager.got[i])
    BY <1>1, <1>2 DEF Walk
  <1>4. pager.got[i] \in db /\ pager.got[j] \in db
    BY <1>1, <1>2 DEF Walk
  <1> QED BY <1>3, <1>4, NewerIsTotal DEF ListingInv

\* store.ListOrders: whatever rows are inserted between two pages, and wherever they
\* fall, a client sees no row twice.
THEOREM RowsAreSeenOnce ==
    ASSUME ListingParameters
    PROVE  Spec => []NoRowTwice
  BY ListingInvariant, ListingDistinct, PTL

\* A finished walk has nothing left to owe.
LEMMA ListingComplete == ListingParameters /\ ListingInv => NoRowSkipped
  <1> SUFFICES ASSUME ListingParameters, ListingInv, pager.state = "listed"
               PROVE  /\ pager.due \subseteq Range(pager.got)
                      /\ \A r \in Range(pager.got) : Matches(r, pager.who)
    BY DEF NoRowSkipped
  <1>1. Walk
    BY DEF ListingInv
  <1>2. pager.got \in Seq(Row)
    BY <1>1 DEF Walk, Pager
  <1>3. Range(pager.got) = {pager.got[i] : i \in 1..Len(pager.got)}
    BY <1>2 DEF Range
  <1> QED BY <1>1, <1>3 DEF Walk

\* store.ListOrders: nor does it miss a matching row that was there when it started.
THEOREM RowsAreNotSkipped ==
    ASSUME ListingParameters
    PROVE  Spec => []NoRowSkipped
  BY ListingInvariant, ListingComplete, PTL
=============================================================================
