---------------------------- MODULE WorkerFrame -----------------------------
(***************************************************************************)
(* The inductive invariant of Worker, and what its proof rests on: the types *)
(* of the records in hand, and that a step of one worker leaves the variables *)
(* of the others alone.  Then the first half of the proof: a step keeps every *)
(* variable in its type and every offset within its partition, and the books *)
(* of the poll loop and of the resumer in order.                            *)
(***************************************************************************)
EXTENDS Worker, FiniteSetTheorems, TLAPS

\* The offsets of each partition that a commit may take.
SafeOffsets ==
    [p \in Partitions |->
        {n \in 0..Len(log[p]) : \A i \in 1..n : Accounted(p, i) \/ i \in resumedOver[p]}]

\* A partition some of whose records of the current poll are not settled yet.
InHand(w) == todo[w] \cup {cur[w]} \cup blocked[w]

Working == {"chunk", "handle"} \cup Reasons

\* Where the poll loop is, and what it then holds.
LoopInv(w) ==
    /\ pc[w] \notin Working => cur[w] = NoOne
    /\ pc[w] \in Working => cur[w] \in Partitions
    /\ pc[w] \notin Working \cup {"each"} => todo[w] = {}
    /\ pc[w] \in {"poll", "commit", "closing", "down"} => blocked[w] = {}
    /\ pc[w] \in {"poll", "closing", "down"} => committable[w] = {}
    /\ pc[w] \in {"handle"} \cup Reasons =>
            lo[w][cur[w]] < chunkEnd[w] /\ chunkEnd[w] <= hi[w][cur[w]]

\* The client pauses exactly the partitions that the resumer knows of or is about
\* to be told of, and a partition in hand is none that the resumer knows of: it
\* was fetched after its last pause ended.
PauseInv(w) ==
    /\ rpc[w] # "taken" => taken[w] = {}
    /\ \A p \in Partitions :
        /\ p \in paused[w] <=> \/ p \in pausedSet[w] \cup taken[w]
                               \/ pc[w] = "add" /\ p \in blocked[w]
        /\ p \in pausedSet[w] \cup taken[w] => p \notin InHand(w)
        /\ ~(p \in pausedSet[w] /\ p \in taken[w])

\* Until its workCtx is cancelled, a worker knows of every unsettled record that
\* its fetch position has passed: what is done of a poll may be committed, and a
\* partition it fetches from has no gap behind its position that is not in hand.
OffsetInv(w) ==
    ~abandoned[w] =>
        \A p \in Partitions :
            /\ p \in committable[w] \cup todo[w] \cup {cur[w]} => lo[w][p] \in SafeOffsets[p]
            /\ p \in assigned[w] \ paused[w] =>
                    \/ pos[w][p] \in SafeOffsets[p]
                    \/ p \in InHand(w) /\ pos[w][p] <= hi[w][p]

IInv ==
    /\ TypeOK
    /\ \A p \in Partitions : committed[p] \in SafeOffsets[p]
    /\ \A w \in Workers : LoopInv(w) /\ PauseInv(w) /\ OffsetInv(w)

-----------------------------------------------------------------------------
(* Facts about the records in hand.                                        *)

\* Inside handle and deadLetter the record after lo exists and is an event.
LEMMA EventType ==
    ASSUME TypeOK, NEW w \in Workers, LoopInv(w), pc[w] \in {"handle"} \cup Reasons
    PROVE  /\ cur[w] \in Partitions
           /\ lo[w][cur[w]] \in Nat /\ lo[w][cur[w]] + 1 <= hi[w][cur[w]]
           /\ hi[w][cur[w]] \in Nat /\ hi[w][cur[w]] <= Len(log[cur[w]])
           /\ Event(w) \in Events
  <1>1. log[cur[w]] \in Seq(Events)
    BY Zenon, WorkerAssumption DEF TypeOK, LoopInv, Working, Reasons
  <1> QED BY SMTT(30), <1>1 DEF TypeOK, LoopInv, Working, Reasons, Event

\* A chunk is not empty, lies within its poll and consists of events.
LEMMA ChunkType ==
    ASSUME TypeOK, NEW w \in Workers, LoopInv(w), pc[w] = "chunk",
           lo[w][cur[w]] < hi[w][cur[w]]
    PROVE  /\ cur[w] \in Partitions
           /\ lo[w][cur[w]] \in Nat /\ EndOfChunk(w) \in Nat
           /\ lo[w][cur[w]] < EndOfChunk(w) /\ EndOfChunk(w) <= hi[w][cur[w]]
           /\ EndOfChunk(w) <= Len(log[cur[w]])
           /\ ChunkEvents(w) \subseteq Events
  <1>1. /\ cur[w] \in Partitions
        /\ lo[w][cur[w]] \in Nat /\ hi[w][cur[w]] \in Nat
        /\ hi[w][cur[w]] <= Len(log[cur[w]])
        /\ log[cur[w]] \in Seq(Events)
        /\ BatchSize \in Nat \ {0}
    BY WorkerAssumption DEF TypeOK, LoopInv, Working
  <1>2. /\ EndOfChunk(w) \in Nat
        /\ lo[w][cur[w]] < EndOfChunk(w) /\ EndOfChunk(w) <= hi[w][cur[w]]
    BY <1>1 DEF EndOfChunk
  <1>3. ChunkEvents(w) \subseteq Events
    BY <1>1, <1>2 DEF ChunkEvents
  <1> QED BY <1>1, <1>2, <1>3

\* A statement writes events that parse.
LEMMA StatementType ==
    ASSUME TypeOK, NEW w \in Workers, LoopInv(w), Inserting(w)
    PROVE  Statement(w) \subseteq Events \ Malformed
  <1>1. CASE pc[w] = "chunk" /\ lo[w][cur[w]] < hi[w][cur[w]] /\ Batched(w)
    BY Zenon, <1>1, ChunkType DEF Statement, Batched
  <1>2. CASE pc[w] = "handle" /\ Event(w) \notin Malformed
    BY Zenon, <1>2, EventType DEF Statement
  <1> QED BY Zenon, <1>1, <1>2 DEF Inserting

\* handle's success moves lo by one, within the poll.
LEMMA HandledType ==
    ASSUME TypeOK, NEW w \in Workers, LoopInv(w), pc[w] \in {"handle"} \cup Reasons, Handled(w)
    PROVE  /\ lo' \in [Workers -> [Partitions -> Nat]]
           /\ \A v \in Workers, p \in Partitions : lo'[v][p] <= hi[v][p]
           /\ committable' \in [Workers -> SUBSET Partitions]
           /\ pc' \in [Workers -> PC] /\ chunkEnd' \in [Workers -> Nat]
           /\ UNCHANGED <<todo, cur, hi, blocked>>
  <1>1. /\ cur[w] \in Partitions /\ lo[w][cur[w]] \in Nat
        /\ lo[w][cur[w]] + 1 <= hi[w][cur[w]]
    BY Zenon, EventType
  <1>2. /\ lo \in [Workers -> [Partitions -> Nat]] /\ hi \in [Workers -> [Partitions -> Nat]]
        /\ \A v \in Workers, p \in Partitions : lo[v][p] <= hi[v][p]
    BY Zenon DEF TypeOK
  <1>3. lo' = [lo EXCEPT ![w][cur[w]] = lo[w][cur[w]] + 1]
    BY Zenon DEF Handled, AdvanceTo
  <1>4. /\ lo' \in [Workers -> [Partitions -> Nat]]
        /\ \A v \in Workers, p \in Partitions : lo'[v][p] <= hi[v][p]
    BY <1>1, <1>2, <1>3
  <1>5. committable' \in [Workers -> SUBSET Partitions]
    BY ZenonT(30), <1>1 DEF Handled, AdvanceTo, TypeOK
  <1>6. pc' \in [Workers -> PC] /\ chunkEnd' \in [Workers -> Nat]
    <2>1. CASE lo[w][cur[w]] + 1 = chunkEnd[w]
      <3>1. pc' = [pc EXCEPT ![w] = "chunk"] /\ chunkEnd' = [chunkEnd EXCEPT ![w] = 0]
        BY Zenon, <2>1 DEF Handled, Goto
      <3> QED BY Zenon, <3>1 DEF TypeOK, PC
    <2>2. CASE lo[w][cur[w]] + 1 # chunkEnd[w]
      BY Zenon, <2>2 DEF Handled, Goto, TypeOK, PC
    <2> QED BY Zenon, <2>1, <2>2
  <1> QED BY Zenon, <1>4, <1>5, <1>6 DEF Handled

\* The same step keeps the loop's bookkeeping.
LEMMA HandledLoop ==
    ASSUME TypeOK, NEW w \in Workers, LoopInv(w), pc[w] \in {"handle"} \cup Reasons, Handled(w)
    PROVE  LoopInv(w)'
  <1>1. /\ cur[w] \in Partitions /\ lo[w][cur[w]] \in Nat
        /\ lo[w][cur[w]] < chunkEnd[w] /\ chunkEnd[w] <= hi[w][cur[w]]
        /\ chunkEnd[w] \in Nat
    BY DEF TypeOK, LoopInv, Working, Reasons
  <1>2. UNCHANGED <<todo, cur, hi, blocked>> /\ lo'[w][cur[w]] = lo[w][cur[w]] + 1
    BY Zenon, <1>1 DEF Handled, AdvanceTo, TypeOK
  <1>3. CASE lo[w][cur[w]] + 1 = chunkEnd[w]
    <2>1. pc'[w] = "chunk"
      BY ZenonT(30), <1>3 DEF Handled, Goto, TypeOK
    <2> QED BY Zenon, <2>1, <1>1, <1>2 DEF LoopInv, Working, Reasons
  <1>4. CASE lo[w][cur[w]] + 1 # chunkEnd[w]
    <2>1. pc'[w] = "handle" /\ chunkEnd' = chunkEnd
      BY Zenon, <1>4 DEF Handled, Goto, TypeOK
    <2> QED BY <2>1, <1>1, <1>2, <1>4 DEF LoopInv, Working, Reasons
  <1> QED BY Zenon, <1>3, <1>4

\* How often an event occurs in a chunk is a natural number.
LEMMA CopiesType ==
    ASSUME NEW w, NEW e, lo[w][cur[w]] \in Nat, EndOfChunk(w) \in Nat
    PROVE  Copies(w, e) \in Nat
  <1>1. IsFiniteSet((lo[w][cur[w]] + 1)..EndOfChunk(w))
    <2>1. lo[w][cur[w]] + 1 \in Int /\ EndOfChunk(w) \in Int
      OBVIOUS
    <2> QED BY Zenon, <2>1, FS_Interval
  <1>2. IsFiniteSet({i \in (lo[w][cur[w]] + 1)..EndOfChunk(w) : log[cur[w]][i] = e})
    BY Zenon, <1>1, FS_Subset
  <1> QED BY Zenon, <1>2, FS_CardinalityType DEF Copies

\* A process that is gone has empty hands.
LEMMA HaltType ==
    ASSUME TypeOK, NEW w \in Workers, Halt(w),
           owner' \in [Partitions -> Workers \cup {NoOne}],
           member' \in [Workers -> BOOLEAN], faults' \in 0..MaxFaults
    PROVE  TypeOK'
  <1>1. Zero \in [Partitions -> Nat] /\ "down" \in PC
    BY Zenon DEF Zero, PC
  <1>2. \A p \in Partitions : Len(log[p]) \in Nat
    BY WorkerAssumption DEF TypeOK
  <1>3. UNCHANGED <<log, committed, dlq, db, processed, resumedOver>>
    BY Zenon DEF Halt, kafka, history
  <1>4. \A p \in Partitions : \A v \in Workers :
            /\ pos'[v][p] <= Len(log[p])
            /\ lo'[v][p] <= hi'[v][p] /\ hi'[v][p] <= Len(log[p])
    BY <1>2 DEF TypeOK, Halt, Zero
  <1>5. /\ pc' \in [Workers -> PC]
        /\ pos' \in [Workers -> [Partitions -> Nat]] /\ lo' \in [Workers -> [Partitions -> Nat]]
        /\ hi' \in [Workers -> [Partitions -> Nat]] /\ chunkEnd' \in [Workers -> Nat]
    BY Zenon, <1>1 DEF TypeOK, Halt, Goto
  <1>6. /\ assigned' \in [Workers -> SUBSET Partitions] /\ paused' \in [Workers -> SUBSET Partitions]
        /\ todo' \in [Workers -> SUBSET Partitions] /\ cur' \in [Workers -> Partitions \cup {NoOne}]
        /\ committable' \in [Workers -> SUBSET Partitions] /\ blocked' \in [Workers -> SUBSET Partitions]
        /\ pausedSet' \in [Workers -> SUBSET Partitions] /\ taken' \in [Workers -> SUBSET Partitions]
        /\ sig' \in [Workers -> BOOLEAN] /\ abandoned' \in [Workers -> BOOLEAN]
        /\ rpc' \in [Workers -> {"idle", "pinged", "taken"}]
    BY Zenon DEF TypeOK, Halt
  <1> QED BY Zenon, <1>3, <1>4, <1>5, <1>6 DEF TypeOK

-----------------------------------------------------------------------------
(* A step of one worker leaves the others' variables alone.                *)

Same(v) ==
    /\ pc'[v] = pc[v] /\ todo'[v] = todo[v] /\ cur'[v] = cur[v]
    /\ lo'[v] = lo[v] /\ hi'[v] = hi[v] /\ chunkEnd'[v] = chunkEnd[v]
    /\ committable'[v] = committable[v] /\ blocked'[v] = blocked[v]
    /\ assigned'[v] = assigned[v] /\ pos'[v] = pos[v] /\ paused'[v] = paused[v]
    /\ abandoned'[v] = abandoned[v]
    /\ rpc'[v] = rpc[v] /\ pausedSet'[v] = pausedSet[v] /\ taken'[v] = taken[v]

\* No action touches a variable of another worker.
LEMMA OthersPoll ==
    ASSUME TypeOK, NEW w \in Workers, PollLoop(w), NEW v \in Workers, v # w
    PROVE  Same(v)
  <1> USE DEF TypeOK, Same, kafka, group, client, loop, resumer, history
  <1>1. CASE Poll(w)
    BY ZenonT(30), <1>1 DEF Poll, Offsets, Goto
  <1>2. CASE PollInterrupted(w)
    BY Zenon, <1>2 DEF PollInterrupted, Goto
  <1>3. CASE NextPartition(w)
    BY Zenon, <1>3 DEF NextPartition, Goto
  <1>4. CASE EndOfPoll(w)
    BY Zenon, <1>4 DEF EndOfPoll, Goto
  <1>5. CASE PauseFetchPartitions(w)
    BY Zenon, <1>5 DEF PauseFetchPartitions, Goto
  <1>6. CASE PausedSetAdd(w)
    BY Zenon, <1>6 DEF PausedSetAdd, Goto
  <1>7. CASE CommitRecords(w)
    BY Zenon, <1>7 DEF CommitRecords, Goto, Zero
  <1>8. CASE PartitionDone(w)
    BY Zenon, <1>8 DEF PartitionDone, Goto
  <1>9. CASE ChunkUnbatched(w)
    BY Zenon, <1>9 DEF ChunkUnbatched, ChunkReady, OneByOne, EndOfChunk, Goto
  <1>10. CASE InsertOrders(w)
    BY Zenon, <1>10 DEF InsertOrders, ChunkReady, AdvanceTo
  <1>11. CASE InsertOrdersFails(w)
    BY Zenon, <1>11 DEF InsertOrdersFails, ChunkReady, OneByOne, EndOfChunk, Goto
  <1>12. CASE InsertOrder(w)
    BY Zenon, <1>12 DEF InsertOrder, Handled, AdvanceTo, Goto
  <1>13. CASE InsertUnacknowledged(w)
    BY Zenon, <1>13 DEF InsertUnacknowledged, Inserting
  <1>14. CASE InsertCancelled(w)
    BY Zenon, <1>14 DEF InsertCancelled, Stall, Goto
  <1>15. CASE GiveUp(w)
    BY Zenon, <1>15 DEF GiveUp, Goto
  <1>16. CASE DeadLetter(w)
    BY Zenon, <1>16 DEF DeadLetter, DeadLetterOf, Handled, AdvanceTo, Goto
  <1>17. CASE DeadLetterFails(w)
    BY Zenon, <1>17 DEF DeadLetterFails, DeadLetterOf, Stall, Goto
  <1> HIDE DEF TypeOK, Same, kafka, group, client, loop, resumer, history
  <1> QED
    BY ZenonT(30), <1>1, <1>2, <1>3, <1>4, <1>5, <1>6, <1>7, <1>8, <1>9, <1>10, <1>11, <1>12,
       <1>13, <1>14, <1>15, <1>16, <1>17
       DEF PollLoop

\* The same of the resumer, the process and the coordinator.
LEMMA OthersRest ==
    ASSUME TypeOK, NEW w \in Workers, Resumer(w) \/ Process(w) \/ Coordinator(w), NEW v \in Workers, v # w
    PROVE  Same(v)
  <1> USE DEF TypeOK, Same, kafka, group, client, loop, resumer, history
  <1>1. CASE ResumerPing(w)
    BY Zenon, <1>1 DEF ResumerPing
  <1>2. CASE PausedSetTake(w)
    BY Zenon, <1>2 DEF PausedSetTake
  <1>3. CASE ResumeFetchPartitions(w)
    BY Zenon, <1>3 DEF ResumeFetchPartitions
  <1>4. CASE Signal(w)
    BY Zenon, <1>4 DEF Signal, Fault
  <1>5. CASE WatchdogAbandon(w)
    BY Zenon, <1>5 DEF WatchdogAbandon
  <1>6. CASE WatchdogExit(w)
    BY Zenon, <1>6 DEF WatchdogExit, Halt, Goto, Zero
  <1>7. CASE Close(w)
    BY Zenon, <1>7 DEF Close, Halt, Release, Goto, Zero
  <1>8. CASE Crash(w)
    BY Zenon, <1>8 DEF Crash, Halt, Fault, Goto, Zero
  <1>9. CASE Restart(w)
    BY Zenon, <1>9 DEF Restart, Goto
  <1>10. ASSUME NEW p \in Partitions, PartitionAssigned(w, p) PROVE Same(v)
    BY Zenon, <1>10 DEF PartitionAssigned
  <1>11. ASSUME NEW p \in Partitions, PartitionRevoked(w, p) PROVE Same(v)
    BY Zenon, <1>11 DEF PartitionRevoked, Fault
  <1>12. CASE SessionTimeout(w)
    BY Zenon, <1>12 DEF SessionTimeout, Fault, Release
  <1>13. CASE PartitionsLost(w)
    BY Zenon, <1>13 DEF PartitionsLost, Zero
  <1> HIDE DEF TypeOK, Same, kafka, group, client, loop, resumer, history
  <1> QED
    BY Zenon, <1>1, <1>2, <1>3, <1>4, <1>5, <1>6, <1>7, <1>8, <1>9, <1>10, <1>11, <1>12,
       <1>13
       DEF Resumer, Process, Coordinator

\* Hence every step of a worker.
LEMMA OthersStep ==
    ASSUME TypeOK, NEW w \in Workers, Step(w), NEW v \in Workers, v # w
    PROVE  Same(v)
  BY Zenon, OthersPoll, OthersRest DEF Step

\* A worker that does not move keeps the invariant, whatever another one does.
LEMMA LoopFrame ==
    ASSUME NEW v \in Workers, Same(v), LoopInv(v)
    PROVE  LoopInv(v)'
  BY Zenon DEF Same, LoopInv, Working, Reasons

\* The same of its pauses.
LEMMA PauseFrame ==
    ASSUME NEW v \in Workers, Same(v), PauseInv(v)
    PROVE  PauseInv(v)'
  BY ZenonT(30) DEF Same, PauseInv, InHand

-----------------------------------------------------------------------------
(* The inductive invariant, part by part.                                  *)

\* Every action keeps every variable in its type and every offset in its log.
LEMMA TypePoll ==
    ASSUME TypeOK, NEW w \in Workers, LoopInv(w), PollLoop(w)
    PROVE  TypeOK'
  <1> USE DEF TypeOK, LoopInv, Working, Reasons, PC, Up, kafka, group, client, loop, resumer, history
  <1>1. CASE Poll(w)
    <2>1. PICK end \in [Partitions -> Offsets] :
            /\ \A p \in Partitions : \/ end[p] = pos[w][p]
                                     \/ end[p] \in (pos[w][p] + 1)..Len(log[p])
            /\ todo' = [todo EXCEPT ![w] = {p \in Partitions : end[p] # pos[w][p]}]
            /\ lo' = [lo EXCEPT ![w] = pos[w]]
            /\ hi' = [hi EXCEPT ![w] = end]
            /\ pos' = [pos EXCEPT ![w] = end]
      BY Zenon, <1>1 DEF Poll
    <2>2. \A p \in Partitions : Len(log[p]) \in Nat
      BY WorkerAssumption
    <2>3. /\ end \in [Partitions -> Nat]
          /\ \A p \in Partitions : pos[w][p] <= end[p] /\ end[p] <= Len(log[p])
      <3>1. \A p \in Partitions : end[p] \in Nat /\ pos[w][p] <= end[p] /\ end[p] <= Len(log[p])
        BY SMTT(30), <2>1, <2>2
      <3> QED BY Zenon, <3>1
    <2>4. UNCHANGED <<kafka, db, group, assigned, paused, cur, chunkEnd, committable,
                      blocked, sig, abandoned, resumer, history, faults>>
          /\ pc' = [pc EXCEPT ![w] = "each"]
      BY Zenon, <1>1 DEF Poll, Goto
    <2> QED BY Zenon, <2>1, <2>3, <2>4
  <1>2. CASE PollInterrupted(w)
    BY Zenon, <1>2 DEF PollInterrupted, Goto
  <1>3. CASE NextPartition(w)
    BY SMTT(30), <1>3 DEF NextPartition, Goto
  <1>4. CASE EndOfPoll(w)
    BY Zenon, <1>4 DEF EndOfPoll, Goto
  <1>5. CASE PauseFetchPartitions(w)
    BY Zenon, <1>5 DEF PauseFetchPartitions, Goto
  <1>6. CASE PausedSetAdd(w)
    BY Zenon, <1>6 DEF PausedSetAdd, Goto
  <1>7. CASE CommitRecords(w)
    BY SMTT(30), <1>7 DEF CommitRecords, Goto, Zero
  <1>8. CASE PartitionDone(w)
    BY Zenon, <1>8 DEF PartitionDone, Goto
  <1>9. CASE ChunkUnbatched(w)
    <2>1. pc[w] = "chunk" /\ lo[w][cur[w]] < hi[w][cur[w]] /\ chunkEnd' = [chunkEnd EXCEPT ![w] = EndOfChunk(w)]
      BY Zenon, <1>9 DEF ChunkUnbatched, ChunkReady, OneByOne
    <2>2. EndOfChunk(w) \in Nat
      BY ZenonT(30), <2>1, ChunkType
    <2> QED BY SMTT(30), <1>9, <2>1, <2>2 DEF ChunkUnbatched, OneByOne, Goto
  <1>10. CASE InsertOrders(w)
    <2>1. pc[w] = "chunk" /\ lo[w][cur[w]] < hi[w][cur[w]] /\ Batched(w)
      BY Zenon, <1>10 DEF InsertOrders, ChunkReady
    <2>2. /\ EndOfChunk(w) \in Nat /\ EndOfChunk(w) <= hi[w][cur[w]]
          /\ lo[w][cur[w]] \in Nat /\ cur[w] \in Partitions
      BY Zenon, <2>1, ChunkType
    <2>3. db \cup ChunkEvents(w) \subseteq Events \ Malformed
      BY ZenonT(30), <2>1, ChunkType DEF Batched
    <2>4. processed' \in [Events -> Nat]
      BY SMTT(30), <1>10, <2>2, CopiesType DEF InsertOrders
    <2> QED BY ZenonT(30), <1>10, <2>2, <2>3, <2>4 DEF InsertOrders, AdvanceTo
  <1>11. CASE InsertOrdersFails(w)
    <2>1. pc[w] = "chunk" /\ lo[w][cur[w]] < hi[w][cur[w]] /\ chunkEnd' = [chunkEnd EXCEPT ![w] = EndOfChunk(w)]
      BY Zenon, <1>11 DEF InsertOrdersFails, ChunkReady, OneByOne
    <2>2. EndOfChunk(w) \in Nat
      BY Zenon, <2>1, ChunkType
    <2> QED BY SMTT(30), <1>11, <2>1, <2>2 DEF InsertOrdersFails, OneByOne, Goto
  <1>12. CASE InsertOrder(w)
    <2>1. pc[w] \in {"handle"} \cup Reasons
      BY Zenon, <1>12 DEF InsertOrder
    <2>2. /\ cur[w] \in Partitions /\ lo[w][cur[w]] \in Nat
          /\ lo[w][cur[w]] + 1 <= hi[w][cur[w]] /\ Event(w) \in Events
      BY ZenonT(30), <2>1, EventType
    <2>3. db' \subseteq Events \ Malformed /\ processed' \in [Events -> Nat]
      BY SMTT(30), <1>12, <2>2 DEF InsertOrder
    <2>4. /\ Handled(w)
          /\ UNCHANGED <<kafka, group, client, sig, abandoned, resumer, resumedOver, faults>>
      BY ZenonT(30), <1>12 DEF InsertOrder
    <2>5. pc[w] \in {"handle"} \cup Reasons
      BY Zenon, <1>12 DEF InsertOrder, DeadLetter
    <2> QED BY ZenonT(30), <2>5, <2>3, <2>4, HandledType
  <1>13. CASE InsertUnacknowledged(w)
    BY ZenonT(30), <1>13, StatementType DEF InsertUnacknowledged
  <1>14. CASE InsertCancelled(w)
    <2>1. /\ Stall(w)
          /\ UNCHANGED <<kafka, db, group, client, sig, abandoned, resumer, history, faults>>
      BY Zenon, <1>14 DEF InsertCancelled
    <2>2. cur[w] \in Partitions
      BY Zenon, <1>14 DEF InsertCancelled, Inserting
    <2> QED BY ZenonT(30), <2>1, <2>2 DEF Stall, Goto
  <1>15. CASE GiveUp(w)
    BY ZenonT(30), <1>15 DEF GiveUp, Goto
  <1>16. CASE DeadLetter(w)
    <2>1. /\ cur[w] \in Partitions /\ lo[w][cur[w]] \in Nat
          /\ lo[w][cur[w]] + 1 <= hi[w][cur[w]]
      BY ZenonT(30), <1>16, EventType DEF DeadLetter
    <2>2. dlq' \subseteq DeadLetters
      BY SMTT(30), <1>16, <2>1 DEF DeadLetter, DeadLetterOf, DeadLetters
    <2>3. /\ Handled(w)
          /\ UNCHANGED <<log, committed, db, group, client, sig, abandoned, resumer, history, faults>>
      BY Zenon, <1>16 DEF DeadLetter
    <2>5. pc[w] \in {"handle"} \cup Reasons
      BY Zenon, <1>16 DEF InsertOrder, DeadLetter
    <2> QED BY Zenon, <2>5, <2>2, <2>3, HandledType
  <1>17. CASE DeadLetterFails(w)
    <2>1. cur[w] \in Partitions /\ lo[w][cur[w]] \in Nat
      BY Zenon, <1>17, EventType DEF DeadLetterFails
    <2>2. dlq' \subseteq DeadLetters
      BY SMTT(30), <1>17, <2>1 DEF DeadLetterFails, DeadLetterOf, DeadLetters
    <2>3. /\ Stall(w)
          /\ UNCHANGED <<log, committed, db, group, client, sig, abandoned, resumer, history, faults>>
      BY Zenon, <1>17 DEF DeadLetterFails
    <2> QED BY ZenonT(30), <2>1, <2>2, <2>3 DEF Stall, Goto
  <1> HIDE DEF TypeOK, LoopInv, Working, Reasons, PC, Up, kafka, group, client, loop, resumer, history
  <1> QED
    BY Zenon, <1>1, <1>2, <1>3, <1>4, <1>5, <1>6, <1>7, <1>8, <1>9, <1>10, <1>11, <1>12,
       <1>13, <1>14, <1>15, <1>16, <1>17
       DEF PollLoop

\* The same of the resumer, the process and the coordinator.
LEMMA TypeRest ==
    ASSUME TypeOK, NEW w \in Workers, LoopInv(w), Resumer(w) \/ Process(w) \/ Coordinator(w)
    PROVE  TypeOK'
  <1> USE DEF TypeOK, LoopInv, Working, Reasons, PC, Up, kafka, group, client, loop, resumer, history
  <1>1. CASE ResumerPing(w)
    BY Zenon, <1>1 DEF ResumerPing
  <1>2. CASE PausedSetTake(w)
    BY Zenon, <1>2 DEF PausedSetTake
  <1>3. CASE ResumeFetchPartitions(w)
    <2>1. resumedOver' \in [Partitions -> SUBSET Nat]
      BY SMTT(30), <1>3 DEF ResumeFetchPartitions
    <2> QED BY ZenonT(30), <1>3, <2>1 DEF ResumeFetchPartitions
  <1>4. CASE Signal(w)
    BY SMTT(30), <1>4, WorkerAssumption DEF Signal, Fault
  <1>5. CASE WatchdogAbandon(w)
    BY Zenon, <1>5 DEF WatchdogAbandon
  <1>6. CASE WatchdogExit(w)
    BY ZenonT(30), <1>6, HaltType DEF WatchdogExit
  <1>7. CASE Close(w)
    <2>1. owner' \in [Partitions -> Workers \cup {NoOne}] /\ member' \in [Workers -> BOOLEAN]
      BY Zenon, <1>7 DEF Close, Release
    <2> QED BY ZenonT(30), <1>7, <2>1, HaltType DEF Close
  <1>8. CASE Crash(w)
    <2>1. faults' \in 0..MaxFaults
      BY SMTT(30), <1>8, WorkerAssumption DEF Crash, Fault
    <2> QED BY ZenonT(30), <1>8, <2>1, HaltType DEF Crash
  <1>9. CASE Restart(w)
    BY Zenon, <1>9 DEF Restart, Goto
  <1>10. ASSUME NEW p \in Partitions, PartitionAssigned(w, p) PROVE TypeOK'
    BY ZenonT(30), <1>10 DEF PartitionAssigned
  <1>11. ASSUME NEW p \in Partitions, PartitionRevoked(w, p) PROVE TypeOK'
    BY <1>11, WorkerAssumption, SMTT(30) DEF PartitionRevoked, Fault
  <1>12. CASE SessionTimeout(w)
    BY <1>12, WorkerAssumption, SMTT(30) DEF SessionTimeout, Fault, Release
  <1>13. CASE PartitionsLost(w)
    BY <1>13, SMTT(30) DEF PartitionsLost, Zero
  <1> HIDE DEF TypeOK, LoopInv, Working, Reasons, PC, Up, kafka, group, client, loop, resumer, history
  <1> QED
    BY ZenonT(30), <1>1, <1>2, <1>3, <1>4, <1>5, <1>6, <1>7, <1>8, <1>9, <1>10, <1>11, <1>12,
       <1>13
       DEF Resumer, Process, Coordinator

\* Hence every step of a worker.
LEMMA TypeStep ==
    ASSUME TypeOK, NEW w \in Workers, LoopInv(w), Step(w)
    PROVE  TypeOK'
  BY Zenon, TypePoll, TypeRest DEF Step

-----------------------------------------------------------------------------
(* The poll loop and the resumer keep their books, and agree on which       *)
(* partitions are paused.                                                   *)

\* The types of the variables that these books are kept in.
BookTypes ==
    /\ pc \in [Workers -> PC] /\ rpc \in [Workers -> {"idle", "pinged", "taken"}]
    /\ cur \in [Workers -> Partitions \cup {NoOne}]
    /\ lo \in [Workers -> [Partitions -> Nat]] /\ hi \in [Workers -> [Partitions -> Nat]]
    /\ chunkEnd \in [Workers -> Nat]
    /\ {todo, blocked, committable, paused, pausedSet, taken} \subseteq [Workers -> SUBSET Partitions]

\* The poll loop keeps its own bookkeeping.
LEMMA LoopPoll ==
    ASSUME TypeOK, NEW w \in Workers, LoopInv(w), PollLoop(w)
    PROVE  LoopInv(w)'
  <1>t. BookTypes
    BY Zenon DEF TypeOK, BookTypes
  <1> USE <1>t DEF BookTypes, LoopInv, Working, Reasons, PC, Up, kafka, group, client, loop, resumer, history
  <1>1. CASE Poll(w)
    BY ZenonT(30), <1>1 DEF Poll, Goto
  <1>2. CASE PollInterrupted(w)
    BY Zenon, <1>2 DEF PollInterrupted, Goto
  <1>3. CASE NextPartition(w)
    <2>1. PICK p \in todo[w] : cur' = [cur EXCEPT ![w] = p]
      BY Zenon, <1>3 DEF NextPartition
    <2>2. p \in Partitions /\ cur'[w] = p /\ pc'[w] = "chunk"
      BY ZenonT(30), <1>3, <2>1 DEF NextPartition, Goto
    <2> QED BY Zenon, <2>2
  <1>4. CASE EndOfPoll(w)
    BY Zenon, <1>4 DEF EndOfPoll, Goto
  <1>5. CASE PauseFetchPartitions(w)
    BY Zenon, <1>5 DEF PauseFetchPartitions, Goto
  <1>6. CASE PausedSetAdd(w)
    BY Zenon, <1>6 DEF PausedSetAdd, Goto
  <1>7. CASE CommitRecords(w)
    BY Zenon, <1>7 DEF CommitRecords, Goto, Zero
  <1>8. CASE PartitionDone(w)
    BY Zenon, <1>8 DEF PartitionDone, Goto
  <1>9. CASE ChunkUnbatched(w)
    <2>1. pc[w] = "chunk" /\ lo[w][cur[w]] < hi[w][cur[w]]
      BY Zenon, <1>9 DEF ChunkUnbatched, ChunkReady
    <2>2. /\ pc'[w] = "handle" /\ chunkEnd'[w] = EndOfChunk(w)
            /\ UNCHANGED <<cur, lo, hi, todo, blocked>>
      BY Zenon, <1>9 DEF ChunkUnbatched, OneByOne, Goto
    <2> QED BY Zenon, <2>1, <2>2, ChunkType
  <1>10. CASE InsertOrders(w)
    BY ZenonT(30), <1>10 DEF InsertOrders, ChunkReady, AdvanceTo
  <1>11. CASE InsertOrdersFails(w)
    <2>1. pc[w] = "chunk" /\ lo[w][cur[w]] < hi[w][cur[w]]
      BY Zenon, <1>11 DEF InsertOrdersFails, ChunkReady
    <2>2. /\ pc'[w] = "handle" /\ chunkEnd'[w] = EndOfChunk(w)
            /\ UNCHANGED <<cur, lo, hi, todo, blocked>>
      BY Zenon, <1>11 DEF InsertOrdersFails, OneByOne, Goto
    <2> QED BY Zenon, <2>1, <2>2, ChunkType
  <1>12. CASE InsertOrder(w)
    <2>1. pc[w] \in {"handle"} \cup Reasons /\ Handled(w)
      BY Zenon, <1>12 DEF InsertOrder
    <2> QED BY Zenon, <2>1, HandledLoop
  <1>13. CASE InsertUnacknowledged(w)
    BY Zenon, <1>13 DEF InsertUnacknowledged, Inserting
  <1>14. CASE InsertCancelled(w)
    BY Zenon, <1>14 DEF InsertCancelled, Stall, Goto
  <1>15. CASE GiveUp(w)
    <2>1. /\ pc[w] = "handle" /\ pc'[w] \in Reasons
            /\ UNCHANGED <<todo, cur, lo, hi, chunkEnd, blocked>>
      BY Zenon, <1>15 DEF GiveUp, Goto
    <2> QED BY Zenon, <2>1
  <1>16. CASE DeadLetter(w)
    <2>1. pc[w] \in {"handle"} \cup Reasons /\ Handled(w)
      BY Zenon, <1>16 DEF DeadLetter
    <2> QED BY Zenon, <2>1, HandledLoop
  <1>17. CASE DeadLetterFails(w)
    BY Zenon, <1>17 DEF DeadLetterFails, DeadLetterOf, Stall, Goto
  <1> HIDE <1>t DEF BookTypes, LoopInv, Working, Reasons, PC, Up, kafka, group, client, loop, resumer, history
  <1> QED
    BY ZenonT(30), <1>1, <1>2, <1>3, <1>4, <1>5, <1>6, <1>7, <1>8, <1>9, <1>10, <1>11, <1>12,
       <1>13, <1>14, <1>15, <1>16, <1>17
       DEF PollLoop

\* The same of the resumer, the process and the coordinator.
LEMMA LoopRest ==
    ASSUME TypeOK, NEW w \in Workers, LoopInv(w), Resumer(w) \/ Process(w) \/ Coordinator(w)
    PROVE  LoopInv(w)'
  <1>t. BookTypes
    BY Zenon DEF TypeOK, BookTypes
  <1> USE <1>t DEF BookTypes, LoopInv, Working, Reasons, PC, Up, kafka, group, client, loop, resumer, history
  <1>1. CASE ResumerPing(w)
    BY Zenon, <1>1 DEF ResumerPing
  <1>2. CASE PausedSetTake(w)
    BY Zenon, <1>2 DEF PausedSetTake
  <1>3. CASE ResumeFetchPartitions(w)
    BY Zenon, <1>3 DEF ResumeFetchPartitions
  <1>4. CASE Signal(w)
    BY Zenon, <1>4 DEF Signal, Fault
  <1>5. CASE WatchdogAbandon(w)
    BY Zenon, <1>5 DEF WatchdogAbandon
  <1>6. CASE WatchdogExit(w)
    BY Zenon, <1>6 DEF WatchdogExit, Halt, Goto, Zero
  <1>7. CASE Close(w)
    BY Zenon, <1>7 DEF Close, Halt, Release, Goto, Zero
  <1>8. CASE Crash(w)
    BY Zenon, <1>8 DEF Crash, Halt, Fault, Goto, Zero
  <1>9. CASE Restart(w)
    BY Zenon, <1>9 DEF Restart, Goto
  <1>10. ASSUME NEW p \in Partitions, PartitionAssigned(w, p) PROVE LoopInv(w)'
    BY Zenon, <1>10 DEF PartitionAssigned
  <1>11. ASSUME NEW p \in Partitions, PartitionRevoked(w, p) PROVE LoopInv(w)'
    BY Zenon, <1>11 DEF PartitionRevoked, Fault
  <1>12. CASE SessionTimeout(w)
    BY Zenon, <1>12 DEF SessionTimeout, Fault, Release
  <1>13. CASE PartitionsLost(w)
    BY Zenon, <1>13 DEF PartitionsLost, Zero
  <1> HIDE <1>t DEF BookTypes, LoopInv, Working, Reasons, PC, Up, kafka, group, client, loop, resumer, history
  <1> QED
    BY ZenonT(30), <1>1, <1>2, <1>3, <1>4, <1>5, <1>6, <1>7, <1>8, <1>9, <1>10, <1>11, <1>12,
       <1>13
       DEF Resumer, Process, Coordinator

\* Hence every step of a worker.
LEMMA LoopStep ==
    ASSUME TypeOK, NEW w \in Workers, LoopInv(w), Step(w)
    PROVE  LoopInv(w)'
  BY Zenon, LoopPoll, LoopRest DEF Step

\* Pauses and the paused set stay in line.
LEMMA PausePoll ==
    ASSUME TypeOK, NEW w \in Workers, LoopInv(w), PauseInv(w), PollLoop(w)
    PROVE  PauseInv(w)'
  <1>t. BookTypes
    BY Zenon DEF TypeOK, BookTypes
  <1> USE <1>t DEF BookTypes, LoopInv, PauseInv, InHand, Working, Reasons, Up, kafka, group, client, loop, resumer, history
  <1>1. CASE Poll(w)
    <2>1. /\ pc[w] = "poll" /\ pc'[w] = "each"
          /\ todo'[w] \subseteq assigned[w] \ paused[w]
          /\ UNCHANGED <<cur, blocked, paused, pausedSet, taken, rpc>>
      BY <1>1 DEF Poll, Goto
    <2> QED BY ZenonT(30), <2>1
  <1>2. CASE PollInterrupted(w)
    BY Zenon, <1>2 DEF PollInterrupted, Goto
  <1>3. CASE NextPartition(w)
    <2>1. /\ pc[w] = "each" /\ pc'[w] = "chunk"
          /\ cur'[w] \in todo[w] /\ todo'[w] \subseteq todo[w]
          /\ UNCHANGED <<blocked, paused, pausedSet, taken, rpc>>
      BY <1>3 DEF NextPartition, Goto
    <2>2. InHand(w)' \subseteq InHand(w)
      BY Zenon, <2>1
    <2> QED BY Zenon, <2>1, <2>2
  <1>4. CASE EndOfPoll(w)
    BY Zenon, <1>4 DEF EndOfPoll, Goto
  <1>5. CASE PauseFetchPartitions(w)
    BY Zenon, <1>5 DEF PauseFetchPartitions, Goto
  <1>6. CASE PausedSetAdd(w)
    <2>1. /\ pc[w] = "add" /\ pc'[w] = "commit"
          /\ pausedSet'[w] = pausedSet[w] \cup blocked[w] /\ blocked'[w] = {}
          /\ UNCHANGED <<todo, cur, paused, taken, rpc>>
      BY Zenon, <1>6 DEF PausedSetAdd, Goto
    <2>2. InHand(w)' \cap Partitions = {} /\ paused[w] \subseteq Partitions
      BY <2>1, WorkerAssumption
    <2> QED BY Zenon, <2>1, <2>2
  <1>7. CASE CommitRecords(w)
    BY Zenon, <1>7 DEF CommitRecords, Goto, Zero
  <1>8. CASE PartitionDone(w)
    <2>1. /\ pc[w] = "chunk" /\ pc'[w] = "each" /\ cur'[w] = NoOne
          /\ UNCHANGED <<todo, blocked, paused, pausedSet, taken, rpc>>
      BY Zenon, <1>8 DEF PartitionDone, Goto
    <2>2. NoOne \notin paused[w]
      BY Zenon, WorkerAssumption
    <2> QED BY Zenon, <2>1, <2>2
  <1>9. CASE ChunkUnbatched(w)
    BY Zenon, <1>9 DEF ChunkUnbatched, ChunkReady, OneByOne, EndOfChunk, Goto
  <1>10. CASE InsertOrders(w)
    BY Zenon, <1>10 DEF InsertOrders, ChunkReady, AdvanceTo
  <1>11. CASE InsertOrdersFails(w)
    BY Zenon, <1>11 DEF InsertOrdersFails, ChunkReady, OneByOne, EndOfChunk, Goto
  <1>12. CASE InsertOrder(w)
    <2>1. /\ pc[w] # "add" /\ pc'[w] # "add"
          /\ UNCHANGED <<todo, cur, blocked, paused, pausedSet, taken, rpc>>
      BY Zenon, <1>12 DEF InsertOrder, Handled, Goto
    <2> QED BY Zenon, <2>1
  <1>13. CASE InsertUnacknowledged(w)
    BY Zenon, <1>13 DEF InsertUnacknowledged, Inserting
  <1>14. CASE InsertCancelled(w)
    <2>1. /\ pc[w] \in Working /\ pc'[w] = "each" /\ cur'[w] = NoOne
          /\ blocked'[w] = blocked[w] \cup {cur[w]}
          /\ UNCHANGED <<todo, paused, pausedSet, taken, rpc>>
      BY Zenon, <1>14 DEF InsertCancelled, Inserting, Stall, Goto
    <2>2. NoOne \notin paused[w]
      BY Zenon, WorkerAssumption
    <2> QED BY ZenonT(30), <2>1, <2>2
  <1>15. CASE GiveUp(w)
    <2>1. /\ pc[w] # "add" /\ pc'[w] # "add"
          /\ UNCHANGED <<todo, cur, blocked, paused, pausedSet, taken, rpc>>
      BY Zenon, <1>15 DEF GiveUp, Goto
    <2> QED BY Zenon, <2>1
  <1>16. CASE DeadLetter(w)
    <2>1. /\ pc[w] # "add" /\ pc'[w] # "add"
          /\ UNCHANGED <<todo, cur, blocked, paused, pausedSet, taken, rpc>>
      BY Zenon, <1>16 DEF DeadLetter, Handled, Goto
    <2> QED BY Zenon, <2>1
  <1>17. CASE DeadLetterFails(w)
    <2>1. /\ pc[w] \in Working /\ pc'[w] = "each" /\ cur'[w] = NoOne
          /\ blocked'[w] = blocked[w] \cup {cur[w]}
          /\ UNCHANGED <<todo, paused, pausedSet, taken, rpc>>
      BY Zenon, <1>17 DEF DeadLetterFails, Inserting, Stall, Goto
    <2>2. NoOne \notin paused[w]
      BY Zenon, WorkerAssumption
    <2> QED BY Zenon, <2>1, <2>2
  <1> HIDE <1>t DEF BookTypes, LoopInv, PauseInv, InHand, Working, Reasons, Up, kafka, group, client, loop, resumer, history
  <1> QED
    BY ZenonT(30), <1>1, <1>2, <1>3, <1>4, <1>5, <1>6, <1>7, <1>8, <1>9, <1>10, <1>11, <1>12,
       <1>13, <1>14, <1>15, <1>16, <1>17
       DEF PollLoop

\* The same of the resumer, the process and the coordinator.
LEMMA PauseRest ==
    ASSUME TypeOK, NEW w \in Workers, LoopInv(w), PauseInv(w), Resumer(w) \/ Process(w) \/ Coordinator(w)
    PROVE  PauseInv(w)'
  <1>t. BookTypes
    BY Zenon DEF TypeOK, BookTypes
  <1> USE <1>t DEF BookTypes, LoopInv, PauseInv, InHand, Working, Reasons, Up, kafka, group, client, loop, resumer, history
  <1>1. CASE ResumerPing(w)
    BY Zenon, <1>1 DEF ResumerPing
  <1>2. CASE PausedSetTake(w)
    <2>1. /\ taken'[w] = pausedSet[w] /\ pausedSet'[w] = {}
          /\ rpc'[w] = "taken" /\ UNCHANGED <<pc, todo, cur, blocked, paused>>
      BY Zenon, <1>2 DEF PausedSetTake
    <2>2. taken[w] = {}
      BY Zenon, <1>2 DEF PausedSetTake
    <2> QED BY Zenon, <2>1, <2>2
  <1>3. CASE ResumeFetchPartitions(w)
    BY Zenon, <1>3 DEF ResumeFetchPartitions
  <1>4. CASE Signal(w)
    BY Zenon, <1>4 DEF Signal, Fault
  <1>5. CASE WatchdogAbandon(w)
    BY Zenon, <1>5 DEF WatchdogAbandon
  <1>6. CASE WatchdogExit(w)
    BY Zenon, <1>6 DEF WatchdogExit, Halt, Goto, Zero
  <1>7. CASE Close(w)
    BY Zenon, <1>7 DEF Close, Halt, Release, Goto, Zero
  <1>8. CASE Crash(w)
    BY Zenon, <1>8 DEF Crash, Halt, Fault, Goto, Zero
  <1>9. CASE Restart(w)
    BY Zenon, <1>9 DEF Restart, Goto
  <1>10. ASSUME NEW p \in Partitions, PartitionAssigned(w, p) PROVE PauseInv(w)'
    BY Zenon, <1>10 DEF PartitionAssigned
  <1>11. ASSUME NEW p \in Partitions, PartitionRevoked(w, p) PROVE PauseInv(w)'
    BY Zenon, <1>11 DEF PartitionRevoked, Fault
  <1>12. CASE SessionTimeout(w)
    BY Zenon, <1>12 DEF SessionTimeout, Fault, Release
  <1>13. CASE PartitionsLost(w)
    BY Zenon, <1>13 DEF PartitionsLost, Zero
  <1> HIDE <1>t DEF BookTypes, LoopInv, PauseInv, InHand, Working, Reasons, Up, kafka, group, client, loop, resumer, history
  <1> QED
    BY ZenonT(30), <1>1, <1>2, <1>3, <1>4, <1>5, <1>6, <1>7, <1>8, <1>9, <1>10, <1>11, <1>12,
       <1>13
       DEF Resumer, Process, Coordinator

\* Hence every step of a worker.
LEMMA PauseStep ==
    ASSUME TypeOK, NEW w \in Workers, LoopInv(w), PauseInv(w), Step(w)
    PROVE  PauseInv(w)'
  BY Zenon, PausePoll, PauseRest DEF Step
=============================================================================
