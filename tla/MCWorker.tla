------------------------------ MODULE MCWorker ------------------------------
(* Worker on small instances. *)
EXTENDS Worker, TLC

CONSTANTS w1, w2, p1, p2, a, b, c, bad, junk

\* c is a second event for a's order: the API derives both ids from one key, but
\* the topic accepts events from any producer.
MCEvents == {a, b, c, bad, junk}
MCMalformed == {junk}
MCUnusable == {bad}
MCOrderOf == a :> "A" @@ b :> "B" @@ c :> "A" @@ bad :> "D" @@ junk :> "J"

\* Two orders; one event twice; an event behind one it conflicts with; a record
\* that does not parse, or does not fit the schema, before a good one.
GroupInput == {<<a, b>>, <<a, a>>, <<a, c>>, <<junk, a>>, <<bad, a>>}
\* The same event on two partitions, or a record that does not parse on either.
PartitionInput == {<<a>>, <<junk>>}
\* One event twice in a row, as a retried produce or a replay leaves it.
TwiceInput == {<<a, a>>}

Symmetry == Permutations(Workers)
=============================================================================
