---------------------------- MODULE WorkerProofs ----------------------------
(***************************************************************************)
(* What is proved of Worker for any number of workers, partitions, records *)
(* and faults, any batch size and any contents of the topic: the offset rule, *)
(* that the group implements OrderLedger, and what recordOutcome counts.   *)
(***************************************************************************)
EXTENDS WorkerFrame

-----------------------------------------------------------------------------
(* What is settled stays settled.                                          *)

SafeGrow == \A p \in Partitions : \A n \in SafeOffsets[p] : n \in SafeOffsets'[p]

\* Rows and dead letters are never removed; only CommitRecords moves an offset, only
\* ResumeFetchPartitions skips a record, only a successful insert is counted.
Grows(w) ==
    /\ log' = log /\ db \subseteq db' /\ dlq \subseteq dlq'
    /\ \A q \in Partitions : resumedOver[q] \subseteq resumedOver'[q]
    /\ CommitRecords(w) \/ committed' = committed
    /\ ResumeFetchPartitions(w) \/ resumedOver' = resumedOver
    /\ InsertOrders(w) \/ InsertOrder(w) \/ processed' = processed

\* The poll loop only adds to the history.
LEMMA GrowsPoll ==
    ASSUME TypeOK, NEW w \in Workers, PollLoop(w)
    PROVE  Grows(w)
  <1> USE DEF Grows, kafka, group, client, loop, resumer, history
  <1>1. CASE Poll(w)
    BY Zenon, <1>1 DEF Poll
  <1>2. CASE PollInterrupted(w)
    BY Zenon, <1>2 DEF PollInterrupted, Goto
  <1>3. CASE NextPartition(w)
    BY Zenon, <1>3 DEF NextPartition, Goto
  <1>4. CASE EndOfPoll(w)
    BY Zenon, <1>4 DEF EndOfPoll, Goto
  <1>5. CASE PauseFetchPartitions(w)
    BY Zenon, <1>5 DEF PauseFetchPartitions, Goto
  <1>6. CASE PausedSetAdd(w)
    BY Zenon, <1>6 DEF PausedSetAdd, Goto
  <1>7. CASE CommitRecords(w)
    BY Zenon, <1>7 DEF CommitRecords, Goto, Zero
  <1>8. CASE PartitionDone(w)
    BY Zenon, <1>8 DEF PartitionDone, Goto
  <1>9. CASE ChunkUnbatched(w)
    BY Zenon, <1>9 DEF ChunkUnbatched, ChunkReady, OneByOne, EndOfChunk, Goto
  <1>10. CASE InsertOrders(w)
    BY Zenon, <1>10 DEF InsertOrders, ChunkReady, AdvanceTo
  <1>11. CASE InsertOrdersFails(w)
    BY Zenon, <1>11 DEF InsertOrdersFails, ChunkReady, OneByOne, EndOfChunk, Goto
  <1>12. CASE InsertOrder(w)
    BY Zenon, <1>12 DEF InsertOrder, Handled, AdvanceTo, Goto
  <1>13. CASE InsertUnacknowledged(w)
    BY Zenon, <1>13 DEF InsertUnacknowledged, Inserting
  <1>14. CASE InsertCancelled(w)
    BY Zenon, <1>14 DEF InsertCancelled, Stall, Goto
  <1>15. CASE GiveUp(w)
    BY Zenon, <1>15 DEF GiveUp, Goto
  <1>16. CASE DeadLetter(w)
    BY Zenon, <1>16 DEF DeadLetter, DeadLetterOf, Handled, AdvanceTo, Goto
  <1>17. CASE DeadLetterFails(w)
    BY Zenon, <1>17 DEF DeadLetterFails, DeadLetterOf, Stall, Goto
  <1> HIDE DEF Grows, kafka, group, client, loop, resumer, history
  <1> QED
    BY ZenonT(30), <1>1, <1>2, <1>3, <1>4, <1>5, <1>6, <1>7, <1>8, <1>9, <1>10, <1>11, <1>12,
       <1>13, <1>14, <1>15, <1>16, <1>17
       DEF PollLoop

\* The same of the resumer, the process and the coordinator.
LEMMA GrowsRest ==
    ASSUME TypeOK, NEW w \in Workers, Resumer(w) \/ Process(w) \/ Coordinator(w)
    PROVE  Grows(w)
  <1> USE DEF Grows, kafka, group, client, loop, resumer, history
  <1>1. CASE ResumerPing(w)
    BY Zenon, <1>1 DEF ResumerPing
  <1>2. CASE PausedSetTake(w)
    BY Zenon, <1>2 DEF PausedSetTake
  <1>3. CASE ResumeFetchPartitions(w)
    BY Zenon, <1>3 DEF ResumeFetchPartitions
  <1>4. CASE Signal(w)
    BY Zenon, <1>4 DEF Signal, Fault
  <1>5. CASE WatchdogAbandon(w)
    BY Zenon, <1>5 DEF WatchdogAbandon
  <1>6. CASE WatchdogExit(w)
    BY Zenon, <1>6 DEF WatchdogExit, Halt, Goto, Zero
  <1>7. CASE Close(w)
    BY Zenon, <1>7 DEF Close, Halt, Release, Goto, Zero
  <1>8. CASE Crash(w)
    BY Zenon, <1>8 DEF Crash, Halt, Fault, Goto, Zero
  <1>9. CASE Restart(w)
    BY Zenon, <1>9 DEF Restart, Goto
  <1>10. ASSUME NEW p \in Partitions, PartitionAssigned(w, p) PROVE Grows(w)
    BY Zenon, <1>10 DEF PartitionAssigned
  <1>11. ASSUME NEW p \in Partitions, PartitionRevoked(w, p) PROVE Grows(w)
    BY Zenon, <1>11 DEF PartitionRevoked, Fault
  <1>12. CASE SessionTimeout(w)
    BY Zenon, <1>12 DEF SessionTimeout, Fault, Release
  <1>13. CASE PartitionsLost(w)
    BY Zenon, <1>13 DEF PartitionsLost, Zero
  <1> HIDE DEF Grows, kafka, group, client, loop, resumer, history
  <1> QED
    BY ZenonT(30), <1>1, <1>2, <1>3, <1>4, <1>5, <1>6, <1>7, <1>8, <1>9, <1>10, <1>11, <1>12,
       <1>13
       DEF Resumer, Process, Coordinator

\* Hence every step of a worker.
LEMMA GrowsStep ==
    ASSUME TypeOK, NEW w \in Workers, Step(w)
    PROVE  Grows(w)
  BY Zenon, GrowsPoll, GrowsRest DEF Step

\* An offset that a commit may take stays one.
LEMMA SafeGrows ==
    ASSUME TypeOK, NEW w \in Workers, Step(w)
    PROVE  SafeGrow
  <1>1. /\ log' = log /\ db \subseteq db' /\ dlq \subseteq dlq'
        /\ \A p \in Partitions : resumedOver[p] \subseteq resumedOver'[p]
    BY Zenon, GrowsStep DEF Grows
  <1>2. ASSUME NEW p \in Partitions, NEW i, Accounted(p, i) PROVE Accounted(p, i)'
    BY Zenon, <1>1, <1>2 DEF Accounted
  <1>3. ASSUME NEW p \in Partitions, NEW n \in SafeOffsets[p] PROVE n \in SafeOffsets'[p]
    <2>1. n \in 0..Len(log[p]) /\ \A i \in 1..n : Accounted(p, i) \/ i \in resumedOver[p]
      BY Zenon DEF SafeOffsets
    <2>2. \A i \in 1..n : Accounted(p, i)' \/ i \in resumedOver'[p]
      BY Zenon, <2>1, <1>1, <1>2
    <2> QED BY Zenon, <1>1, <2>1, <2>2 DEF SafeOffsets
  <1> QED BY Zenon, <1>3 DEF SafeGrow

\* Accounting for the records behind an offset moves it on.
LEMMA SafeExtends ==
    ASSUME NEW p \in Partitions, NEW n \in Nat, n \in SafeOffsets'[p],
           NEW m \in Nat, m <= Len(log'[p]), Len(log'[p]) \in Nat,
           \A i \in (n + 1)..m : Accounted(p, i)'
    PROVE  m \in SafeOffsets'[p]
  <1>1. \A i \in 1..n : Accounted(p, i)' \/ i \in resumedOver'[p]
    BY Zenon DEF SafeOffsets
  <1>2. \A i \in 1..m : Accounted(p, i)' \/ i \in resumedOver'[p]
    BY <1>1
  <1> QED BY <1>2 DEF SafeOffsets

\* An offset below a safe one is safe.
LEMMA SafeBelow ==
    ASSUME TypeOK, NEW p \in Partitions, NEW n \in SafeOffsets[p], NEW m \in Nat, m <= n
    PROVE  m \in SafeOffsets[p]
  BY DEF SafeOffsets, TypeOK

\* A commit of a worker that may commit only takes safe offsets.
LEMMA CommittedStep ==
    ASSUME IInv, NEW w \in Workers, Step(w), SafeGrow
    PROVE  \A p \in Partitions : committed'[p] \in SafeOffsets'[p]
  <1>1. CASE CommitRecords(w)
    <2>1. PICK acked \in SUBSET committable[w] :
            /\ acked # {} => member[w] /\ ~abandoned[w]
            /\ committed' = [p \in Partitions |->
                                IF p \in acked THEN lo[w][p] ELSE committed[p]]
      BY Zenon, <1>1 DEF CommitRecords
    <2>2. ASSUME NEW p \in Partitions PROVE committed'[p] \in SafeOffsets'[p]
      <3>1. CASE p \in acked
        BY Zenon, <2>1, <3>1 DEF IInv, OffsetInv, SafeGrow
      <3>2. CASE p \notin acked
        BY Zenon, <2>1, <3>2 DEF IInv, SafeGrow
      <3> QED BY Zenon, <3>1, <3>2
    <2> QED BY Zenon, <2>2
  <1>2. CASE ~CommitRecords(w)
    <2>1. committed' = committed
      BY Zenon, <1>2, GrowsStep DEF Grows, IInv
    <2> QED BY Zenon, <2>1 DEF IInv, SafeGrow
  <1> QED BY Zenon, <1>1, <1>2

\* handle's success: the offset after the record becomes safe.
LEMMA HandledOffset ==
    ASSUME IInv, NEW w \in Workers, SafeGrow, log' = log,
           pc[w] \in {"handle"} \cup Reasons, Handled(w), ~abandoned[w],
           NEW q, q = cur[w], NEW i, i = lo[w][q] + 1, Accounted(q, i)',
           UNCHANGED <<client, abandoned>>
    PROVE  OffsetInv(w)'
  <1>1. /\ q \in Partitions /\ lo[w][q] \in Nat /\ i \in Nat
        /\ hi[w][q] \in Nat /\ i <= hi[w][q] /\ hi[w][q] <= Len(log[q])
    BY EventType DEF IInv
  <1>2. Len(log'[q]) \in Nat /\ i <= Len(log'[q])
    <2>1. log[q] \in Seq(Events)
      BY Zenon, <1>1, WorkerAssumption DEF IInv, TypeOK
    <2> QED BY <1>1, <2>1
  <1>3. lo[w][q] \in SafeOffsets'[q]
    BY Zenon, <1>1 DEF IInv, OffsetInv, SafeGrow
  <1>4. \A j \in (lo[w][q] + 1)..i : Accounted(q, j)'
    <2>1. \A j \in (lo[w][q] + 1)..i : j = i
      BY <1>1
    <2> QED BY Zenon, <2>1
  <1>5. i \in SafeOffsets'[q]
    BY Zenon, <1>1, <1>2, <1>3, <1>4, SafeExtends
  <1>6. /\ lo'[w][q] = i /\ \A p \in Partitions : p # q => lo'[w][p] = lo[w][p]
        /\ committable'[w] = committable[w] \cup {q}
        /\ UNCHANGED <<todo, cur, hi, blocked, assigned, pos, paused, abandoned>>
    BY Zenon, <1>1 DEF Handled, AdvanceTo, IInv, TypeOK, client
  <1>7. ASSUME NEW p \in Partitions
        PROVE  /\ p \in committable'[w] \cup todo'[w] \cup {cur'[w]} => lo'[w][p] \in SafeOffsets'[p]
               /\ p \in assigned'[w] \ paused'[w] =>
                        \/ pos'[w][p] \in SafeOffsets'[p]
                        \/ p \in InHand(w)' /\ pos'[w][p] <= hi'[w][p]
    <2>1. InHand(w)' = InHand(w)
      BY Zenon, <1>6 DEF InHand
    <2>2. p \in committable'[w] \cup todo'[w] \cup {cur'[w]} => lo'[w][p] \in SafeOffsets'[p]
      BY ZenonT(30), <1>5, <1>6 DEF IInv, OffsetInv, SafeGrow
    <2>3. p \in assigned[w] \ paused[w] =>
                \/ pos[w][p] \in SafeOffsets[p]
                \/ p \in InHand(w) /\ pos[w][p] <= hi[w][p]
      <3>1. OffsetInv(w)
        BY Zenon DEF IInv
      <3> QED BY Zenon, <3>1 DEF OffsetInv
    <2> QED BY Zenon, <1>6, <2>1, <2>2, <2>3 DEF SafeGrow
  <1> QED BY Zenon, <1>7 DEF OffsetInv

\* A step that commits to nothing new and fetches from nothing new.
LEMMA OffsetKept ==
    ASSUME NEW w \in Workers, OffsetInv(w), SafeGrow, abandoned[w] => abandoned'[w],
           \A p \in Partitions : p \in committable'[w] \cup todo'[w] \cup {cur'[w]} =>
                p \in committable[w] \cup todo[w] \cup {cur[w]} /\ lo'[w][p] = lo[w][p],
           \A p \in Partitions : p \in assigned'[w] \ paused'[w] =>
                /\ p \in assigned[w] \ paused[w] /\ pos'[w][p] = pos[w][p]
                /\ p \in InHand(w) => p \in InHand(w)' /\ hi'[w][p] = hi[w][p]
    PROVE  OffsetInv(w)'
  BY Zenon DEF OffsetInv, SafeGrow

\* A worker that does not move keeps its offsets safe.
LEMMA OffsetFrame ==
    ASSUME NEW v \in Workers, Same(v), OffsetInv(v), SafeGrow
    PROVE  OffsetInv(v)'
  BY Zenon, OffsetKept DEF Same, InHand

\* A process that is gone holds nothing.
LEMMA HaltOffset ==
    ASSUME TypeOK, NEW w \in Workers, Halt(w)
    PROVE  OffsetInv(w)'
  <1>1. /\ assigned'[w] = {} /\ committable'[w] = {} /\ todo'[w] = {} /\ cur'[w] = NoOne
    BY Zenon DEF Halt, TypeOK
  <1> QED BY Zenon, <1>1, WorkerAssumption DEF OffsetInv

\* A worker keeps track of every gap behind its fetch position.
LEMMA OffsetPoll ==
    ASSUME IInv, NEW w \in Workers, PollLoop(w), SafeGrow
    PROVE  OffsetInv(w)'
  <1> USE DEF kafka, group, client, loop, resumer, history
  <1>1. CASE Poll(w)
    <2>1. PICK end \in [Partitions -> Offsets] :
            /\ \A p \in Partitions : \/ end[p] = pos[w][p]
                                     \/ p \in assigned[w] \ paused[w]
            /\ todo' = [todo EXCEPT ![w] = {p \in Partitions : end[p] # pos[w][p]}]
            /\ lo' = [lo EXCEPT ![w] = pos[w]]
            /\ hi' = [hi EXCEPT ![w] = end]
            /\ pos' = [pos EXCEPT ![w] = end]
      BY Zenon, <1>1 DEF Poll
    <2>2. /\ todo'[w] = {p \in Partitions : end[p] # pos[w][p]}
          /\ lo'[w] = pos[w] /\ hi'[w] = end /\ pos'[w] = end
          /\ UNCHANGED <<cur, committable, blocked, assigned, paused, abandoned>>
          /\ pc[w] = "poll"
      BY ZenonT(30), <1>1, <2>1 DEF Poll, IInv, TypeOK
    <2>3. todo[w] = {} /\ cur[w] = NoOne /\ blocked[w] = {} /\ NoOne \notin Partitions
      BY Zenon, <2>2, WorkerAssumption DEF IInv, LoopInv, Working, Reasons
    <2>4. committable[w] = {}
      BY Zenon, <2>2 DEF IInv, LoopInv
    <2>5. ASSUME ~abandoned[w], NEW p \in Partitions, p \in assigned[w] \ paused[w]
          PROVE  pos[w][p] \in SafeOffsets'[p]
      BY Zenon, <2>3, <2>5 DEF IInv, OffsetInv, InHand, SafeGrow
    <2>6. TypeOK'
      BY Zenon, TypePoll DEF IInv
    <2>7. \A p \in Partitions : end[p] \in Nat
      BY SMTT(30), <2>2, <2>6 DEF TypeOK
    <2>8. ASSUME ~abandoned[w], NEW p \in Partitions
          PROVE  /\ p \in committable'[w] \cup todo'[w] \cup {cur'[w]} => lo'[w][p] \in SafeOffsets'[p]
                 /\ p \in assigned'[w] \ paused'[w] =>
                        \/ pos'[w][p] \in SafeOffsets'[p]
                        \/ p \in todo'[w] /\ pos'[w][p] <= hi'[w][p]
      BY <2>1, <2>2, <2>3, <2>4, <2>5, <2>7, <2>8
    <2> QED BY Zenon, <2>2, <2>8 DEF OffsetInv, InHand
  <1>2. CASE PollInterrupted(w)
    <2>1. /\ UNCHANGED <<committable, todo, cur, lo, hi, blocked, assigned, pos, paused>>
          /\ abandoned[w] => abandoned'[w]
      BY Zenon, <1>2 DEF PollInterrupted
    <2> QED BY Zenon, <2>1, OffsetKept DEF IInv, InHand
  <1>3. CASE NextPartition(w)
    <2>1. pc[w] = "each" /\ UNCHANGED <<committable, lo, hi, blocked, assigned, pos, paused, abandoned>>
      BY Zenon, <1>3 DEF NextPartition
    <2>2. cur'[w] \in todo[w] /\ todo'[w] = todo[w] \ {cur'[w]}
      BY <1>3 DEF NextPartition, IInv, TypeOK
    <2>3. cur[w] = NoOne /\ NoOne \notin Partitions
      BY Zenon, <2>1, WorkerAssumption DEF IInv, LoopInv, Working, Reasons
    <2> QED BY Zenon, <2>1, <2>2, <2>3, OffsetKept DEF IInv, InHand
  <1>4. CASE EndOfPoll(w)
    <2>1. /\ UNCHANGED <<committable, todo, cur, lo, hi, blocked, assigned, pos, paused>>
          /\ abandoned[w] => abandoned'[w]
      BY Zenon, <1>4 DEF EndOfPoll
    <2> QED BY Zenon, <2>1, OffsetKept DEF IInv, InHand
  <1>5. CASE PauseFetchPartitions(w)
    <2>1. /\ paused[w] \subseteq paused'[w]
          /\ UNCHANGED <<committable, todo, cur, lo, hi, blocked, assigned, pos, abandoned>>
      BY Zenon, <1>5 DEF PauseFetchPartitions, IInv, TypeOK
    <2> QED BY Zenon, <2>1, OffsetKept DEF IInv, InHand
  <1>6. CASE PausedSetAdd(w)
    <2>1. /\ pc[w] = "add" /\ blocked'[w] = {}
          /\ UNCHANGED <<committable, todo, cur, lo, hi, assigned, pos, paused, abandoned>>
      BY Zenon, <1>6 DEF PausedSetAdd, IInv, TypeOK
    <2>2. \A p \in Partitions : p \in blocked[w] => p \in paused[w]
      BY Zenon, <2>1 DEF IInv, PauseInv
    <2> QED BY Zenon, <2>1, <2>2, OffsetKept DEF IInv, InHand
  <1>7. CASE CommitRecords(w)
    <2>1. /\ pc[w] = "commit" /\ committable'[w] = {}
          /\ UNCHANGED <<todo, cur, blocked, assigned, pos, paused, abandoned>>
      BY Zenon, <1>7 DEF CommitRecords, IInv, TypeOK
    <2>2. todo[w] = {} /\ cur[w] = NoOne /\ blocked[w] = {} /\ NoOne \notin Partitions
      BY Zenon, <2>1, WorkerAssumption DEF IInv, LoopInv, Working, Reasons
    <2> QED BY Zenon, <2>1, <2>2, OffsetKept DEF IInv, InHand
  <1>8. CASE PartitionDone(w)
    <2>1. /\ pc[w] = "chunk" /\ cur'[w] = NoOne
          /\ lo[w][cur[w]] = hi[w][cur[w]] \/ abandoned[w]
          /\ UNCHANGED <<committable, todo, lo, hi, blocked, assigned, pos, paused, abandoned>>
      BY Zenon, <1>8 DEF PartitionDone, IInv, TypeOK
    <2>2. cur[w] \in Partitions /\ NoOne \notin Partitions
      BY Zenon, <2>1, WorkerAssumption DEF IInv, LoopInv, Working
    <2>3. CASE abandoned[w]
      BY Zenon, <2>1, <2>3 DEF OffsetInv
    <2>4. CASE ~abandoned[w]
      <3>1. lo[w][cur[w]] = hi[w][cur[w]] /\ hi[w][cur[w]] \in SafeOffsets[cur[w]]
        BY Zenon, <2>1, <2>2, <2>4 DEF IInv, OffsetInv
      <3>2. pos[w][cur[w]] <= hi[w][cur[w]] => pos[w][cur[w]] \in SafeOffsets[cur[w]]
        <4>1. TypeOK
          BY Zenon DEF IInv
        <4>2. pos[w][cur[w]] \in Nat
          BY <2>2, <4>1 DEF TypeOK
        <4> QED BY Zenon, <2>2, <3>1, <4>1, <4>2, SafeBelow
      <3>3. OffsetInv(w)
        BY Zenon DEF IInv
      <3> QED BY Zenon, <2>1, <2>2, <2>4, <3>1, <3>2, <3>3 DEF OffsetInv, InHand, SafeGrow
    <2> QED BY Zenon, <2>3, <2>4
  <1>9. CASE ChunkUnbatched(w)
    <2>1. /\ UNCHANGED <<committable, todo, cur, lo, hi, blocked, assigned, pos, paused>>
          /\ abandoned[w] => abandoned'[w]
      BY Zenon, <1>9 DEF ChunkUnbatched, OneByOne
    <2> QED BY Zenon, <2>1, OffsetKept DEF IInv, InHand
  <1>10. CASE InsertOrders(w)
    <2>0. PICK q \in Partitions : q = cur[w]
      BY Zenon, <1>10 DEF InsertOrders, ChunkReady, IInv, LoopInv, Working
    <2>1. /\ pc[w] = "chunk" /\ lo[w][q] < hi[w][q] /\ ~abandoned[w]
          /\ lo' = [lo EXCEPT ![w][q] = EndOfChunk(w)]
          /\ committable' = [committable EXCEPT ![w] = @ \cup {q}]
          /\ db' = db \cup ChunkEvents(w)
          /\ UNCHANGED <<log, todo, cur, hi, blocked, assigned, pos, paused, abandoned>>
      BY Zenon, <1>10, <2>0 DEF InsertOrders, ChunkReady, AdvanceTo
    <2>2. /\ lo[w][q] \in Nat /\ EndOfChunk(w) \in Nat
          /\ EndOfChunk(w) <= Len(log[q])
      BY Zenon, <2>0, <2>1, ChunkType DEF IInv
    <2>3. lo[w][q] \in SafeOffsets'[q]
      BY Zenon, <2>0, <2>1, <2>2 DEF IInv, OffsetInv, SafeGrow
    <2>4. ASSUME NEW i \in (lo[w][q] + 1)..EndOfChunk(w) PROVE Accounted(q, i)'
      BY Zenon, <2>0, <2>1 DEF ChunkEvents, Accounted
    <2>5. Len(log'[q]) \in Nat
      <3>1. log[q] \in Seq(Events)
        BY Zenon, <2>2, WorkerAssumption DEF IInv, TypeOK
      <3> QED BY SMTT(30), <2>1, <3>1
    <2>6. EndOfChunk(w) \in SafeOffsets'[q]
      <3>1. EndOfChunk(w) <= Len(log'[q])
        BY Zenon, <2>1, <2>2
      <3> QED BY Zenon, <2>2, <2>3, <2>4, <2>5, <3>1, SafeExtends
    <2>7. /\ lo'[w][q] = EndOfChunk(w) /\ committable'[w] = committable[w] \cup {q}
          /\ \A p \in Partitions : p # q => lo'[w][p] = lo[w][p]
      BY Zenon, <2>1, <2>2 DEF IInv, TypeOK
    <2>8. OffsetInv(w)
      BY Zenon DEF IInv
    <2> QED BY ZenonT(30), <2>0, <2>1, <2>6, <2>7, <2>8 DEF OffsetInv, InHand, SafeGrow
  <1>11. CASE InsertOrdersFails(w)
    <2>1. /\ UNCHANGED <<committable, todo, cur, lo, hi, blocked, assigned, pos, paused>>
          /\ abandoned[w] => abandoned'[w]
      BY Zenon, <1>11 DEF InsertOrdersFails, OneByOne
    <2> QED BY Zenon, <2>1, OffsetKept DEF IInv, InHand
  <1>12. CASE InsertOrder(w)
    <2>1. /\ pc[w] \in {"handle"} \cup Reasons /\ ~abandoned[w] /\ Handled(w)
          /\ db' = db \cup {Event(w)} /\ log' = log /\ UNCHANGED <<client, abandoned>>
      BY Zenon, <1>12 DEF InsertOrder
    <2>2. \A q, i : q = cur[w] /\ i = lo[w][q] + 1 => Accounted(q, i)'
      BY Zenon, <2>1 DEF Accounted, Event
    <2> QED BY Zenon, <2>1, <2>2, HandledOffset
  <1>13. CASE InsertUnacknowledged(w)
    <2>1. /\ UNCHANGED <<committable, todo, cur, lo, hi, blocked, assigned, pos, paused>>
          /\ abandoned[w] => abandoned'[w]
      BY Zenon, <1>13 DEF InsertUnacknowledged
    <2> QED BY Zenon, <2>1, OffsetKept DEF IInv, InHand
  <1>14. CASE InsertCancelled(w)
    <2>1. /\ blocked'[w] = blocked[w] \cup {cur[w]} /\ cur'[w] = NoOne
          /\ UNCHANGED <<committable, todo, lo, hi, assigned, pos, paused, abandoned>>
      BY Zenon, <1>14 DEF InsertCancelled, Stall, IInv, TypeOK
    <2>2. NoOne \notin Partitions
      BY Zenon, WorkerAssumption
    <2> QED BY Zenon, <2>1, <2>2, OffsetKept DEF IInv, InHand
  <1>15. CASE GiveUp(w)
    <2>1. /\ UNCHANGED <<committable, todo, cur, lo, hi, blocked, assigned, pos, paused>>
          /\ abandoned[w] => abandoned'[w]
      BY Zenon, <1>15 DEF GiveUp
    <2> QED BY Zenon, <2>1, OffsetKept DEF IInv, InHand
  <1>16. CASE DeadLetter(w)
    <2>1. /\ pc[w] \in {"handle"} \cup Reasons /\ ~abandoned[w] /\ Handled(w)
          /\ dlq' = dlq \cup {DeadLetterOf(w)} /\ log' = log /\ UNCHANGED <<client, abandoned>>
      BY Zenon, <1>16 DEF DeadLetter
    <2>2. \A q, i : q = cur[w] /\ i = lo[w][q] + 1 => Accounted(q, i)'
      <3>1. /\ DeadLetterOf(w) \in dlq' /\ DeadLetterOf(w).partition = cur[w]
            /\ DeadLetterOf(w).offset = lo[w][cur[w]] + 1
        BY Zenon, <2>1 DEF DeadLetterOf
      <3> QED BY Zenon, <3>1 DEF Accounted
    <2> QED BY Zenon, <2>1, <2>2, HandledOffset
  <1>17. CASE DeadLetterFails(w)
    <2>1. /\ blocked'[w] = blocked[w] \cup {cur[w]} /\ cur'[w] = NoOne
          /\ UNCHANGED <<committable, todo, lo, hi, assigned, pos, paused, abandoned>>
      BY Zenon, <1>17 DEF DeadLetterFails, Stall, IInv, TypeOK
    <2>2. NoOne \notin Partitions
      BY Zenon, WorkerAssumption
    <2> QED BY Zenon, <2>1, <2>2, OffsetKept DEF IInv, InHand
  <1> HIDE DEF kafka, group, client, loop, resumer, history
  <1> QED
    BY ZenonT(30), <1>1, <1>2, <1>3, <1>4, <1>5, <1>6, <1>7, <1>8, <1>9, <1>10, <1>11, <1>12,
       <1>13, <1>14, <1>15, <1>16, <1>17
       DEF PollLoop

\* The same of the resumer, the process and the coordinator.
LEMMA OffsetRest ==
    ASSUME IInv, NEW w \in Workers, Resumer(w) \/ Process(w) \/ Coordinator(w), SafeGrow
    PROVE  OffsetInv(w)'
  <1> USE DEF kafka, group, client, loop, resumer, history
  <1>1. CASE ResumerPing(w)
    <2>1. /\ UNCHANGED <<committable, todo, cur, lo, hi, blocked, assigned, pos, paused>>
          /\ abandoned[w] => abandoned'[w]
      BY Zenon, <1>1 DEF ResumerPing
    <2> QED BY Zenon, <2>1, OffsetKept DEF IInv, InHand
  <1>2. CASE PausedSetTake(w)
    <2>1. /\ UNCHANGED <<committable, todo, cur, lo, hi, blocked, assigned, pos, paused>>
          /\ abandoned[w] => abandoned'[w]
      BY Zenon, <1>2 DEF PausedSetTake
    <2> QED BY Zenon, <2>1, OffsetKept DEF IInv, InHand
  <1>3. CASE ResumeFetchPartitions(w)
    <2>1. /\ paused'[w] = paused[w] \ taken[w]
          /\ resumedOver' = [p \in Partitions |->
                IF p \in taken[w] \cap assigned[w]
                THEN resumedOver[p] \cup {i \in 1..pos[w][p] : ~Accounted(p, i)}
                ELSE resumedOver[p]]
          /\ UNCHANGED <<log, db, dlq, todo, cur, lo, hi, committable, blocked, assigned, pos, abandoned>>
      BY Zenon, <1>3 DEF ResumeFetchPartitions, IInv, TypeOK
    <2>2. ASSUME NEW p \in Partitions, p \in taken[w], p \in assigned[w]
          PROVE  pos[w][p] \in SafeOffsets'[p]
      <3>1. pos[w][p] \in 0..Len(log'[p])
        <4>1. log[p] \in Seq(Events)
          BY Zenon, WorkerAssumption DEF IInv, TypeOK
        <4>2. pos[w][p] \in Nat /\ pos[w][p] <= Len(log[p])
          <5>1. TypeOK
            BY Zenon DEF IInv
          <5> QED BY ZenonT(30), <5>1 DEF TypeOK
        <4>3. Len(log[p]) \in Nat
          BY <4>1
        <4>4. log' = log
          BY Zenon, <2>1
        <4> QED BY SMTT(30), <4>2, <4>3, <4>4
      <3>2. \A i \in 1..pos[w][p] : Accounted(p, i)' <=> Accounted(p, i)
        BY Zenon, <2>1 DEF Accounted
      <3>3. \A i \in 1..pos[w][p] : Accounted(p, i)' \/ i \in resumedOver'[p]
        BY Zenon, <2>1, <2>2, <3>2
      <3> QED BY Zenon, <3>1, <3>3 DEF SafeOffsets
    <2>3. OffsetInv(w)
      BY Zenon DEF IInv
    <2> QED BY Zenon, <2>1, <2>2, <2>3 DEF OffsetInv, InHand, SafeGrow
  <1>4. CASE Signal(w)
    <2>1. /\ UNCHANGED <<committable, todo, cur, lo, hi, blocked, assigned, pos, paused>>
          /\ abandoned[w] => abandoned'[w]
      BY Zenon, <1>4 DEF Signal
    <2> QED BY Zenon, <2>1, OffsetKept DEF IInv, InHand
  <1>5. CASE WatchdogAbandon(w)
    <2>1. /\ UNCHANGED <<committable, todo, cur, lo, hi, blocked, assigned, pos, paused>>
          /\ abandoned[w] => abandoned'[w]
      BY Zenon, <1>5 DEF WatchdogAbandon, IInv, TypeOK
    <2> QED BY Zenon, <2>1, OffsetKept DEF IInv, InHand
  <1>6. CASE WatchdogExit(w)
    BY Zenon, <1>6, HaltOffset DEF WatchdogExit, IInv
  <1>7. CASE Close(w)
    BY Zenon, <1>7, HaltOffset DEF Close, IInv
  <1>8. CASE Crash(w)
    BY Zenon, <1>8, HaltOffset DEF Crash, IInv
  <1>9. CASE Restart(w)
    <2>1. /\ UNCHANGED <<committable, todo, cur, lo, hi, blocked, assigned, pos, paused>>
          /\ abandoned[w] => abandoned'[w]
      BY Zenon, <1>9 DEF Restart
    <2> QED BY Zenon, <2>1, OffsetKept DEF IInv, InHand
  <1>10. ASSUME NEW p \in Partitions, PartitionAssigned(w, p) PROVE OffsetInv(w)'
    <2>1. /\ assigned'[w] = assigned[w] \cup {p} /\ pos'[w][p] = committed[p]
          /\ \A q \in Partitions : q # p => pos'[w][q] = pos[w][q]
          /\ UNCHANGED <<committable, todo, cur, lo, hi, blocked, paused, abandoned>>
      BY Zenon, <1>10 DEF PartitionAssigned, IInv, TypeOK
    <2>2. OffsetInv(w) /\ committed[p] \in SafeOffsets[p]
      BY Zenon DEF IInv
    <2> QED BY Zenon, <2>1, <2>2 DEF OffsetInv, InHand, SafeGrow
  <1>11. ASSUME NEW p \in Partitions, PartitionRevoked(w, p) PROVE OffsetInv(w)'
    <2>1. /\ assigned'[w] = assigned[w] \ {p}
          /\ \A q \in Partitions : q # p => pos'[w][q] = pos[w][q]
          /\ UNCHANGED <<committable, todo, cur, lo, hi, blocked, paused, abandoned>>
      BY Zenon, <1>11 DEF PartitionRevoked, IInv, TypeOK
    <2> QED BY Zenon, <2>1, OffsetKept DEF IInv, InHand
  <1>12. CASE SessionTimeout(w)
    <2>1. /\ UNCHANGED <<committable, todo, cur, lo, hi, blocked, assigned, pos, paused>>
          /\ abandoned[w] => abandoned'[w]
      BY Zenon, <1>12 DEF SessionTimeout
    <2> QED BY Zenon, <2>1, OffsetKept DEF IInv, InHand
  <1>13. CASE PartitionsLost(w)
    <2>1. /\ assigned'[w] = {}
          /\ UNCHANGED <<committable, todo, cur, lo, hi, blocked, paused, abandoned>>
      BY Zenon, <1>13 DEF PartitionsLost, IInv, TypeOK
    <2> QED BY Zenon, <2>1, OffsetKept DEF IInv, InHand
  <1> HIDE DEF kafka, group, client, loop, resumer, history
  <1> QED
    BY ZenonT(30), <1>1, <1>2, <1>3, <1>4, <1>5, <1>6, <1>7, <1>8, <1>9, <1>10, <1>11, <1>12,
       <1>13
       DEF Resumer, Process, Coordinator

\* Hence every step of a worker.
LEMMA OffsetStep ==
    ASSUME IInv, NEW w \in Workers, Step(w), SafeGrow
    PROVE  OffsetInv(w)'
  BY Zenon, OffsetPoll, OffsetRest DEF Step

-----------------------------------------------------------------------------
(* The invariant.                                                          *)

\* A fresh group has committed, fetched and paused nothing.
LEMMA InitIInv == Init => IInv
  <1> SUFFICES ASSUME Init PROVE IInv OBVIOUS
  <1>1. TypeOK
    <2>1. \A p \in Partitions : log[p] \in Seq(Events)
      BY Zenon, WorkerAssumption DEF Init
    <2>2. \A p \in Partitions : Len(log[p]) \in Nat
      BY SMTT(30), <2>1
    <2> QED BY <2>2, WorkerAssumption DEF Init, TypeOK, Zero, PC
  <1>2. \A p \in Partitions : 0 \in SafeOffsets[p]
    <2>1. \A p \in Partitions : Len(log[p]) \in Nat
      BY WorkerAssumption DEF Init
    <2>2. \A i \in 1..0 : FALSE
      OBVIOUS
    <2>3. \A p \in Partitions : 0 \in 0..Len(log[p])
      BY <2>1
    <2> QED BY Zenon, <2>2, <2>3 DEF SafeOffsets
  <1>3. \A p \in Partitions : committed[p] \in SafeOffsets[p]
    BY Zenon, <1>2 DEF Init, Zero
  <1>4. ASSUME NEW w \in Workers PROVE LoopInv(w) /\ PauseInv(w) /\ OffsetInv(w)
    <2>1. LoopInv(w)
      BY Zenon DEF Init, LoopInv, Working, Reasons
    <2>2. PauseInv(w)
      BY Zenon DEF Init, PauseInv, InHand
    <2>3. OffsetInv(w)
      BY Zenon, <1>2, WorkerAssumption DEF Init, OffsetInv, Zero
    <2> QED BY Zenon, <2>1, <2>2, <2>3
  <1> QED BY Zenon, <1>1, <1>3, <1>4 DEF IInv

\* A step of one worker keeps the invariant of all.
LEMMA StepIInv ==
    ASSUME IInv, NEW w \in Workers, Step(w)
    PROVE  IInv'
  <1>1. TypeOK /\ LoopInv(w) /\ PauseInv(w)
    BY Zenon DEF IInv
  <1>2. SafeGrow
    BY Zenon, <1>1, SafeGrows
  <1>3. TypeOK'
    BY Zenon, <1>1, TypeStep
  <1>4. \A p \in Partitions : committed'[p] \in SafeOffsets'[p]
    BY Zenon, <1>2, CommittedStep
  <1>5. ASSUME NEW v \in Workers PROVE LoopInv(v)' /\ PauseInv(v)' /\ OffsetInv(v)'
    <2>1. CASE v = w
      BY Zenon, <1>1, <1>2, <2>1, LoopStep, PauseStep, OffsetStep
    <2>2. CASE v # w
      <3>1. Same(v)
        BY Zenon, <1>1, <2>2, OthersStep
      <3>2. LoopInv(v) /\ PauseInv(v) /\ OffsetInv(v)
        BY Zenon DEF IInv
      <3> QED BY Zenon, <1>2, <3>1, <3>2, LoopFrame, PauseFrame, OffsetFrame
    <2> QED BY Zenon, <2>1, <2>2
  <1> QED BY Zenon, <1>3, <1>4, <1>5 DEF IInv

\* Nor does a step that changes nothing break it.
LEMMA NextIInv == IInv /\ [Next]_vars => IInv'
  <1> SUFFICES ASSUME IInv, [Next]_vars PROVE IInv' OBVIOUS
  <1>1. CASE Next
    BY Zenon, <1>1, StepIInv DEF Next
  <1>2. CASE UNCHANGED vars
    <2>1. /\ UNCHANGED <<log, committed, dlq, db, owner, member, assigned, pos, paused>>
          /\ UNCHANGED <<pc, todo, cur, lo, hi, chunkEnd, committable, blocked, sig, abandoned>>
          /\ UNCHANGED <<rpc, pausedSet, taken, processed, resumedOver, faults>>
      BY Zenon, <1>2 DEF vars, kafka, group, client, loop, resumer, history
    <2>2. TypeOK'
      BY Zenon, <2>1 DEF IInv, TypeOK, DeadLetters
    <2>3. SafeOffsets' = SafeOffsets
      BY Zenon, <2>1 DEF SafeOffsets, Accounted
    <2>4. ASSUME NEW w \in Workers PROVE LoopInv(w)' /\ PauseInv(w)' /\ OffsetInv(w)'
      <3>1. Same(w) /\ SafeGrow
        BY Zenon, <2>1, <2>3 DEF Same, SafeGrow
      <3> QED BY Zenon, <3>1, LoopFrame, PauseFrame, OffsetFrame DEF IInv
    <2> QED BY Zenon, <2>1, <2>2, <2>3, <2>4 DEF IInv
  <1> QED BY Zenon, <1>1, <1>2

\* The inductive invariant holds in every reachable state, for any group, topic,
\* batch size and number of faults.
THEOREM Invariance == Spec => []IInv
  BY InitIInv, NextIInv, PTL DEF Spec

\* No commit, fetch position or poll ever points past the end of a partition, and
\* every variable of the workers keeps its type.
THEOREM TypeCorrect == Spec => []TypeOK
  <1>1. IInv => TypeOK
    BY Zenon DEF IInv
  <1> QED BY <1>1, Invariance, PTL

\* The offset rule of processPartition and CommitRecords: below a committed offset
\* lies no record that is neither in the database nor a dead letter, unless
\* resumePaused had left it behind.
THEOREM OffsetRule == Spec => []LostOnlyByResume
  <1>1. IInv => LostOnlyByResume
    BY Zenon DEF IInv, LostOnlyByResume, SafeOffsets
  <1> QED BY <1>1, Invariance, PTL

\* Every pause is one that resumePaused will find, holds, or is about to be told of.
THEOREM PausesTracked == Spec => []PausedIsTracked
  <1>1. IInv => PausedIsTracked
    <2> SUFFICES ASSUME IInv, NEW w \in Workers, NEW p \in paused[w]
                 PROVE  p \in pausedSet[w] \cup taken[w]
                                 \cup (IF pc[w] = "add" THEN blocked[w] ELSE {})
      BY Zenon DEF PausedIsTracked
    <2>1. p \in Partitions /\ PauseInv(w)
      BY Zenon DEF IInv, TypeOK
    <2> QED BY Zenon, <2>1 DEF PauseInv
  <1> QED BY <1>1, Invariance, PTL

\* Where resumePaused has never lifted a pause over an unsettled record, the
\* offset rule holds without an exception: the poll loop, the rebalances, the
\* watchdog and the crashes lose nothing.
THEOREM LossNeedsResume ==
    Spec => []((\A p \in Partitions : resumedOver[p] = {}) => NothingLost)
  <1>1. LostOnlyByResume => ((\A p \in Partitions : resumedOver[p] = {}) => NothingLost)
    BY Zenon DEF LostOnlyByResume, NothingLost
  <1> QED BY <1>1, OffsetRule, PTL

-----------------------------------------------------------------------------
\* The refinement: every step of every worker is a step of the ledger or leaves it
\* alone, so no crash, rebalance or late commit makes the group's offset cover a
\* record that is neither settled nor skipped by resumePaused.
THEOREM Refinement == Spec => ImplementsLedger
  <1> DEFINE acc == [p \in Partitions |-> {i \in 1..Len(log[p]) : Accounted(p, i)}]
  <1>1. Init => Ledger!Init
    <2> SUFFICES ASSUME Init PROVE Ledger!Init OBVIOUS
    <2>1. \A p \in Partitions : {i \in 1..Len(log[p]) : Accounted(p, i)} = {}
      BY Zenon DEF Init, Accounted
    <2> QED BY Zenon, <2>1 DEF Init, Ledger!Init, Zero
  <1>2. IInv /\ [Next]_vars => [Ledger!Next]_(Ledger!vars)
    <2> SUFFICES ASSUME IInv, [Next]_vars PROVE [Ledger!Next]_(Ledger!vars) OBVIOUS
    <2>1. ASSUME NEW w \in Workers, CommitRecords(w) PROVE Ledger!Commit
      <3>1. UNCHANGED <<log, db, dlq, resumedOver>>
        BY Zenon, <2>1 DEF CommitRecords, history
      <3>2. acc' = acc
        BY Zenon, <3>1 DEF Accounted
      <3>3. ASSUME NEW p \in Partitions, committed'[p] # committed[p]
            PROVE  1..committed'[p] \subseteq acc[p] \cup resumedOver[p]
        <4>1. PICK acked \in SUBSET committable[w] :
                /\ acked # {} => member[w] /\ ~abandoned[w]
                /\ committed' = [q \in Partitions |->
                                    IF q \in acked THEN lo[w][q] ELSE committed[q]]
          BY Zenon, <2>1 DEF CommitRecords
        <4>2. p \in committable[w] /\ ~abandoned[w] /\ committed'[p] = lo[w][p]
          BY Zenon, <3>3, <4>1
        <4>3. lo[w][p] \in SafeOffsets[p]
          BY Zenon, <4>2 DEF IInv, OffsetInv
        <4>4. /\ lo[w][p] \in 0..Len(log[p])
              /\ \A i \in 1..lo[w][p] : Accounted(p, i) \/ i \in resumedOver[p]
          BY Zenon, <4>3 DEF SafeOffsets
        <4>5. Len(log[p]) \in Nat
          <5>1. log \in [Partitions -> Input]
            BY Zenon DEF IInv, TypeOK
          <5> QED BY SMTT(30), <5>1, WorkerAssumption
        <4> QED BY <4>2, <4>4, <4>5
      <3> QED BY Zenon, <3>1, <3>2, <3>3 DEF Ledger!Commit
    <2>2. ASSUME NEW w \in Workers, ResumeFetchPartitions(w) PROVE Ledger!Skip
      <3>1. /\ UNCHANGED <<log, db, dlq, committed>>
            /\ resumedOver' = [p \in Partitions |->
                    IF p \in taken[w] \cap assigned[w]
                    THEN resumedOver[p] \cup {i \in 1..pos[w][p] : ~Accounted(p, i)}
                    ELSE resumedOver[p]]
        BY Zenon, <2>2 DEF ResumeFetchPartitions, kafka
      <3>2. acc' = acc
        BY Zenon, <3>1 DEF Accounted
      <3>3. ASSUME NEW p \in Partitions
            PROVE  /\ resumedOver[p] \subseteq resumedOver'[p]
                   /\ (resumedOver'[p] \ resumedOver[p]) \cap acc[p] = {}
        BY Zenon, <3>1
      <3> QED BY Zenon, <3>1, <3>2, <3>3 DEF Ledger!Skip
    <2>3. ASSUME NEW w \in Workers, Step(w), ~CommitRecords(w), ~ResumeFetchPartitions(w)
          PROVE  Ledger!Account
      <3>1. /\ log' = log /\ db \subseteq db' /\ dlq \subseteq dlq'
            /\ committed' = committed /\ resumedOver' = resumedOver
        BY Zenon, <2>3, GrowsStep DEF Grows, IInv
      <3>2. \A p \in Partitions : acc[p] \subseteq acc'[p]
        BY Zenon, <3>1 DEF Accounted
      <3> QED BY Zenon, <3>1, <3>2 DEF Ledger!Account
    <2>4. CASE UNCHANGED vars
      <3>1. UNCHANGED <<log, db, dlq, committed, resumedOver>>
        BY Zenon, <2>4 DEF vars, kafka, history
      <3>2. acc' = acc
        BY Zenon, <3>1 DEF Accounted
      <3> QED BY Zenon, <3>1, <3>2 DEF Ledger!vars
    <2> QED BY Zenon, <2>1, <2>2, <2>3, <2>4 DEF Next, Ledger!Next
  <1> QED BY <1>1, <1>2, Invariance, PTL DEF Spec, Ledger!Spec, ImplementsLedger

-----------------------------------------------------------------------------
(* What recordOutcome counts.                                              *)

\* An event without a row has not been counted.
NoneBeforeRow == \A e \in Events : e \notin db => processed[e] = 0

\* What a chunk holds of an event, a batch does.
LEMMA CopiesInBatch ==
    ASSUME TypeOK, NEW w \in Workers, cur[w] \in Partitions, NEW e
    PROVE  /\ lo[w][cur[w]] \in 0..Len(log[cur[w]])
           /\ Copies(w, e) \in Nat /\ InBatch(cur[w], lo[w][cur[w]], e) \in Nat
           /\ Copies(w, e) <= InBatch(cur[w], lo[w][cur[w]], e)
           /\ e \notin ChunkEvents(w) => Copies(w, e) = 0
  <1> DEFINE a == lo[w][cur[w]]
  <1> DEFINE b == EndOfChunk(w)
  <1> DEFINE s == log[cur[w]]
  <1> DEFINE at == {i \in (a + 1)..b : s[i] = e}
  <1> DEFINE all == {i \in (a + 1)..Len(s) : i <= a + BatchSize /\ s[i] = e}
  <1>1. /\ a \in Nat /\ b \in Nat /\ b <= a + BatchSize /\ b <= Len(s) /\ a <= Len(s)
        /\ Len(s) \in Nat
    <2>1. s \in Seq(Events) /\ Len(s) \in Nat
      BY SMTT(30), WorkerAssumption DEF TypeOK
    <2>2. a \in Nat /\ hi[w][cur[w]] \in Nat /\ a <= hi[w][cur[w]] /\ hi[w][cur[w]] <= Len(s)
      BY DEF TypeOK
    <2> QED BY SMTT(30), <2>1, <2>2, WorkerAssumption DEF EndOfChunk
  <1>2. Copies(w, e) = Cardinality(at) /\ InBatch(cur[w], a, e) = Cardinality(all)
    BY Zenon DEF Copies, InBatch
  <1>3. e \notin ChunkEvents(w) => at = {}
    BY Zenon DEF ChunkEvents
  <1> HIDE DEF a, b, s
  <1>4. at \subseteq all /\ all \subseteq (a + 1)..Len(s)
    BY <1>1, WorkerAssumption
  <1>5. IsFiniteSet(all)
    <2>1. a + 1 \in Int /\ Len(s) \in Int
      BY <1>1
    <2> HIDE DEF all
    <2>2. IsFiniteSet((a + 1)..Len(s))
      BY Zenon, <2>1, FS_Interval
    <2> QED BY Zenon, <1>4, <2>2, FS_Subset
  <1> HIDE DEF at, all
  <1>6. IsFiniteSet(at) /\ Cardinality(at) <= Cardinality(all)
    BY Zenon, <1>4, <1>5, FS_Subset
  <1>7. Cardinality(at) \in Nat /\ Cardinality(all) \in Nat
    BY Zenon, <1>5, <1>6, FS_CardinalityType
  <1>8. e \notin ChunkEvents(w) => Copies(w, e) = 0
    BY Zenon, <1>2, <1>3, FS_EmptySet
  <1>9. a \in 0..Len(s)
    BY <1>1
  <1> QED BY Zenon, <1>2, <1>6, <1>7, <1>8, <1>9 DEF a, s

\* recordOutcome, over every redelivery and every worker: an event is counted for
\* the records of one batch and for no other.
THEOREM CountsOneBatch == Spec => []CountedInOneBatch
  <1> DEFINE Inv == NoneBeforeRow /\ CountedInOneBatch
  <1>1. Init => Inv
    BY DEF Init, NoneBeforeRow, CountedInOneBatch
  <1>2. ASSUME IInv, Inv, NEW w \in Workers, Step(w) PROVE Inv'
    <2>1. TypeOK /\ LoopInv(w) /\ processed \in [Events -> Nat]
      BY Zenon, <1>2 DEF IInv, TypeOK
    <2>2. Grows(w)
      BY Zenon, <1>2, <2>1, GrowsStep
    <2>3. \A p, n, e : InBatch(p, n, e)' = InBatch(p, n, e)
      BY Zenon, <2>2 DEF Grows, InBatch
    <2>4. ASSUME NEW e \in Events, processed'[e] = processed[e]
          PROVE  \/ processed'[e] <= 1
                 \/ \E p \in Partitions : \E n \in 0..Len(log'[p]) : processed'[e] <= InBatch(p, n, e)'
      BY Zenon, <1>2, <2>2, <2>3, <2>4 DEF CountedInOneBatch, Grows
    <2>5. CASE InsertOrders(w)
      <3>1. cur[w] \in Partitions
        BY Zenon, <2>1, <2>5 DEF InsertOrders, ChunkReady, LoopInv, Working
      <3>2. /\ db' = db \cup ChunkEvents(w)
            /\ processed' = [e \in Events |-> processed[e] + IF e \in db THEN 0 ELSE Copies(w, e)]
        BY Zenon, <2>5 DEF InsertOrders
      <3>3. ASSUME NEW e \in Events, e \in db
            PROVE  processed'[e] = processed[e]
        BY <2>1, <3>2, <3>3
      <3>4. ASSUME NEW e \in Events, e \notin db
            PROVE  processed'[e] = Copies(w, e)
        <4>1. processed[e] = 0 /\ Copies(w, e) \in Nat
          BY Zenon, <1>2, <2>1, <3>1, <3>4, CopiesInBatch DEF NoneBeforeRow
        <4> QED BY <3>2, <3>4, <4>1
      <3>5. NoneBeforeRow'
        BY Zenon, <2>1, <3>1, <3>2, <3>4, CopiesInBatch DEF NoneBeforeRow
      <3>6. ASSUME NEW e \in Events, e \notin db
            PROVE  \E p \in Partitions : \E n \in 0..Len(log'[p]) : processed'[e] <= InBatch(p, n, e)'
        BY Zenon, <2>1, <2>2, <2>3, <3>1, <3>4, <3>6, CopiesInBatch DEF Grows
      <3> QED BY Zenon, <2>4, <3>3, <3>5, <3>6 DEF CountedInOneBatch
    <2>6. CASE InsertOrder(w)
      <3>1. /\ db' = db \cup {Event(w)}
            /\ processed' = IF Event(w) \in db THEN processed
                            ELSE [processed EXCEPT ![Event(w)] = @ + 1]
        BY Zenon, <2>6 DEF InsertOrder
      <3>2. \A e \in Events : \/ processed'[e] = processed[e]
                              \/ e = Event(w) /\ e \notin db /\ processed'[e] = 1
        BY SMTT(30), <1>2, <2>1, <3>1 DEF NoneBeforeRow
      <3>3. \A e \in Events : processed'[e] = 1 => processed'[e] <= 1
        OBVIOUS
      <3>4. NoneBeforeRow'
        BY Zenon, <1>2, <3>1, <3>2 DEF NoneBeforeRow
      <3> QED BY Zenon, <2>4, <3>2, <3>3, <3>4 DEF CountedInOneBatch
    <2>7. CASE processed' = processed
      BY Zenon, <1>2, <2>2, <2>4, <2>7 DEF NoneBeforeRow, CountedInOneBatch, Grows
    <2> QED BY Zenon, <2>2, <2>5, <2>6, <2>7 DEF Grows
  <1>3. ASSUME Inv, UNCHANGED vars PROVE Inv'
    <2>1. UNCHANGED <<log, db, processed>>
      BY Zenon, <1>3 DEF vars, kafka, history
    <2>2. \A p, n, e : InBatch(p, n, e)' = InBatch(p, n, e)
      BY Zenon, <2>1 DEF InBatch
    <2> QED BY Zenon, <1>3, <2>1, <2>2 DEF NoneBeforeRow, CountedInOneBatch
  <1> HIDE DEF Inv
  <1>4. IInv /\ Inv /\ [Next]_vars => Inv'
    BY Zenon, <1>2, <1>3 DEF Next
  <1>5. Inv => CountedInOneBatch
    BY Zenon DEF Inv
  <1> QED BY <1>1, <1>4, <1>5, Invariance, PTL DEF Spec

\* No event comes twice among BatchSize records in a row.  With batches of one that
\* is no restriction.
NoRepeatInBatch ==
    \A s \in Input : \A i, j \in DOMAIN s : i < j /\ j < i + BatchSize => s[i] # s[j]

\* An event is counted at most once, and not before it has a row.
CountInv == \A e \in Events : processed[e] \in {0, 1} /\ (e \notin db => processed[e] = 0)

\* Then a chunk has each event at most once.
LEMMA CopiesApart ==
    ASSUME NoRepeatInBatch, TypeOK, NEW w \in Workers, cur[w] \in Partitions, NEW e
    PROVE  /\ Copies(w, e) \in {0, 1}
           /\ e \notin ChunkEvents(w) => Copies(w, e) = 0
  <1> DEFINE a == lo[w][cur[w]]
  <1> DEFINE b == EndOfChunk(w)
  <1> DEFINE s == log[cur[w]]
  <1> DEFINE at == {i \in (a + 1)..b : s[i] = e}
  <1>1. /\ a \in Nat /\ b \in Nat /\ b <= a + BatchSize /\ b <= Len(s)
        /\ s \in Input /\ s \in Seq(Events) /\ Len(s) \in Nat
    <2>1. s \in Input /\ s \in Seq(Events) /\ Len(s) \in Nat
      BY SMTT(30), WorkerAssumption DEF TypeOK
    <2>2. a \in Nat /\ hi[w][cur[w]] \in Nat /\ hi[w][cur[w]] <= Len(s)
      BY DEF TypeOK
    <2> QED BY SMTT(30), <2>1, <2>2, WorkerAssumption DEF EndOfChunk
  <1>2. Copies(w, e) = Cardinality(at)
    BY Zenon DEF Copies
  <1>3. e \notin ChunkEvents(w) => at = {}
    BY Zenon DEF ChunkEvents
  <1> HIDE DEF a, b, s
  <1>4. ASSUME NEW i \in at, NEW j \in at, i < j PROVE FALSE
    <2>1. i \in DOMAIN s /\ j \in DOMAIN s /\ j < i + BatchSize
      BY <1>1, WorkerAssumption
    <2>2. s[i] # s[j]
      BY Zenon, <1>1, <1>4, <2>1 DEF NoRepeatInBatch
    <2> QED BY Zenon, <2>2
  <1>5. \A i, j \in at : i = j
    <2>1. \A i \in at : i \in Int
      BY <1>1
    <2> QED BY <1>4, <2>1
  <1> HIDE DEF at
  <1>6. CASE at = {}
    BY Zenon, <1>2, <1>6, FS_EmptySet
  <1>7. CASE at # {}
    <2>1. PICK i : i \in at
      BY Zenon, <1>7
    <2>2. at = {i}
      BY Zenon, <1>5, <2>1
    <2>3. Cardinality(at) = 1
      BY Zenon, <2>2, FS_Singleton
    <2> QED BY Zenon, <1>2, <1>3, <1>7, <2>3
  <1> QED BY ZenonT(30), <1>6, <1>7

\* recordOutcome: an event is counted as persisted once, however often it is
\* delivered and whichever workers write it, unless one batch holds it
\* twice (worker_count).
THEOREM CountsOnce ==
    ASSUME NoRepeatInBatch
    PROVE  Spec => []CountedOnce
  <1>1. Init => CountInv
    BY Zenon DEF Init, CountInv
  <1>2. ASSUME IInv, CountInv, NEW w \in Workers, Step(w) PROVE CountInv'
    <2>1. TypeOK /\ LoopInv(w)
      BY Zenon, <1>2 DEF IInv
    <2>2. Grows(w)
      BY Zenon, <1>2, <2>1, GrowsStep
    <2>3. CASE InsertOrders(w)
      <3>1. cur[w] \in Partitions
        BY Zenon, <2>1, <2>3 DEF InsertOrders, ChunkReady, LoopInv, Working
      <3>2. \A e \in Events : Copies(w, e) \in {0, 1} /\ (e \notin ChunkEvents(w) => Copies(w, e) = 0)
        BY Zenon, <2>1, <3>1, CopiesApart
      <3>3. /\ db' = db \cup ChunkEvents(w)
            /\ processed' = [e \in Events |-> processed[e] + IF e \in db THEN 0 ELSE Copies(w, e)]
        BY Zenon, <2>3 DEF InsertOrders
      <3> QED BY SMTT(30), <1>2, <3>2, <3>3 DEF CountInv
    <2>4. CASE InsertOrder(w)
      <3>1. processed \in [Events -> Nat]
        BY Zenon, <2>1 DEF TypeOK
      <3>2. /\ db' = db \cup {Event(w)}
            /\ processed' = IF Event(w) \in db THEN processed
                            ELSE [processed EXCEPT ![Event(w)] = @ + 1]
        BY Zenon, <2>4 DEF InsertOrder
      <3> QED BY SMTT(30), <1>2, <3>1, <3>2 DEF CountInv
    <2>5. CASE processed' = processed
      BY Zenon, <1>2, <2>2, <2>5 DEF CountInv, Grows
    <2> QED BY Zenon, <2>2, <2>3, <2>4, <2>5 DEF Grows
  <1>3. ASSUME CountInv, UNCHANGED vars PROVE CountInv'
    BY Zenon, <1>3 DEF vars, kafka, history, CountInv
  <1>4. IInv /\ CountInv /\ [Next]_vars => CountInv'
    BY Zenon, <1>2, <1>3 DEF Next
  <1>5. CountInv => CountedOnce
    BY DEF CountInv, CountedOnce
  <1> QED BY <1>1, <1>4, <1>5, Invariance, PTL DEF Spec
=============================================================================
