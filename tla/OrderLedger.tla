---------------------------- MODULE OrderLedger -----------------------------
(***************************************************************************)
(* What the consumer group promises about the orders topic, whoever the     *)
(* workers are and whatever happens to them: a record that is accounted for *)
(* stays so, and the group's offset only ever covers records that are       *)
(* accounted for or were skipped by a resumed partition.  The offset may    *)
(* move back: a stale holder's commit costs a redelivery, not a record.     *)
(***************************************************************************)
EXTENDS Naturals

CONSTANT Partitions

VARIABLES
    accounted,  \* records persisted or parked, by partition
    skipped,    \* records a resumed fetch position had passed
    committed   \* the group's offset

Init ==
    /\ accounted = [p \in Partitions |-> {}]
    /\ skipped = [p \in Partitions |-> {}]
    /\ committed = [p \in Partitions |-> 0]

Account ==
    /\ \A p \in Partitions : accounted[p] \subseteq accounted'[p]
    /\ UNCHANGED <<skipped, committed>>

\* Only a record that is not accounted for can be skipped.
Skip ==
    /\ \A p \in Partitions : /\ skipped[p] \subseteq skipped'[p]
                             /\ (skipped'[p] \ skipped[p]) \cap accounted[p] = {}
    /\ UNCHANGED <<accounted, committed>>

Commit ==
    /\ \A p \in Partitions :
        committed'[p] # committed[p] => 1..committed'[p] \subseteq accounted[p] \cup skipped[p]
    /\ UNCHANGED <<accounted, skipped>>

Next == Account \/ Skip \/ Commit

vars == <<accounted, skipped, committed>>

Spec == Init /\ [][Next]_vars
=============================================================================
