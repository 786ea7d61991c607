---------------------------- MODULE ReplayProofs ----------------------------
(***************************************************************************)
(* What is proved of Replay for any topic, command lines, number of runs    *)
(* and backlog.                                                             *)
(***************************************************************************)
EXTENDS Replay, FiniteSetTheorems, TLAPS

Rec == [event : Events, count : Nat, trips : Nat]

\* The records of both topics.
Topics ==
    /\ dead \in [Partitions -> Seq(Letter)]
    /\ orders \in Seq(Rec)

\* The run's position: the poll's bounds are inside the topic, and the record in
\* hand inside the bounds.
Cursor ==
    /\ rcommitted \in [Partitions -> Nat]
    /\ pos \in [Partitions -> Nat]
    /\ hi \in [Partitions -> Nat]
    /\ opts \in Options
    /\ todo \subseteq Partitions
    /\ at \in Nat /\ last \in Nat /\ sent \in Nat
    /\ \A p \in Partitions : hi[p] <= Len(dead[p])
    /\ pc \in {"record", "commit"} => cur \in Partitions

-----------------------------------------------------------------------------
\* A sequence over a set is one over a larger set.
LEMMA SeqMono ==
    ASSUME NEW S, NEW T, S \subseteq T, NEW s \in Seq(S) PROVE s \in Seq(T)
  OBVIOUS

\* What the head and the tail of a topic are.
LEMMA HeadTail ==
    ASSUME NEW S, NEW s \in Seq(S), s # <<>>
    PROVE  /\ Head(s) \in S /\ Tail(s) \in Seq(S)
           /\ \A i \in 1..Len(Tail(s)) : \E j \in 1..Len(s) : Tail(s)[i] = s[j]
           /\ \E j \in 1..Len(s) : Head(s) = s[j]
  <1>1. Len(s) \in Nat /\ Len(s) >= 1
    OBVIOUS
  <1>2. Head(s) = s[1] /\ Tail(s) \in Seq(S) /\ Len(Tail(s)) = Len(s) - 1
    BY <1>1
  <1>3. \A i \in 1..Len(Tail(s)) : Tail(s)[i] = s[i + 1] /\ i + 1 \in 1..Len(s)
    BY <1>1
  <1> QED BY <1>1, <1>2, <1>3

\* The first run starts from offset 0 and a backlog of letters.
LEMMA TopicsInit == Init => Topics
  <1> SUFFICES ASSUME Init PROVE Topics OBVIOUS
  <1>1. ASSUME NEW p \in Partitions PROVE dead[p] \in Seq(Letter)
    <2>1. dead[p] \in Seq({l \in Letter : l.count = 0 /\ l.trips = 0})
      BY Zenon, ReplayAssumption DEF Init
    <2> QED BY Zenon, <2>1, SeqMono
  <1>2. dead \in [Partitions -> Seq(Letter)]
    BY Zenon, <1>1 DEF Init
  <1>3. orders \in Seq(Rec)
    BY DEF Init
  <1> QED BY Zenon, <1>2, <1>3 DEF Topics

\* The first run's position is offset 0 of every partition.
LEMMA CursorInit == Init /\ Topics => Cursor
  BY DEF Init, Topics, Cursor, Nowhere

\* The dead-letter topic only grows.
DeadGrows ==
    \A p \in Partitions :
        /\ Len(dead[p]) \in Nat /\ Len(dead'[p]) \in Nat
        /\ Len(dead[p]) <= Len(dead'[p])
        /\ \A i \in 1..Len(dead[p]) : dead'[p][i] = dead[p][i]

\* What replayPartition and the workers write is a record of its topic.
LEMMA WorkerTopics == Topics /\ Worker => Topics' /\ DeadGrows
  <1> SUFFICES ASSUME Topics, Worker PROVE Topics' /\ DeadGrows OBVIOUS
  <1>0. orders # <<>> => Head(orders) \in Rec /\ Tail(orders) \in Seq(Rec)
    BY Zenon, HeadTail DEF Topics
  <1>1. CASE WorkerPersists
    <2>1. orders' \in Seq(Rec) /\ dead' = dead
      BY Zenon, <1>0, <1>1 DEF WorkerPersists
    <2> QED BY <2>1 DEF Topics, DeadGrows
  <1>2. CASE WorkerParks
    <2>1. PICK p \in Partitions, reason \in Reasons :
            dead' = [dead EXCEPT ![p] = Append(@, SendDead(Head(orders), reason))]
      BY Zenon, <1>2 DEF WorkerParks
    <2>2. SendDead(Head(orders), reason) \in Letter
      BY Zenon, <1>0, <1>2 DEF WorkerParks, SendDead, Letter, Rec
    <2>3. orders' \in Seq(Rec)
      BY Zenon, <1>0, <1>2 DEF WorkerParks, Topics
    <2>4. ASSUME NEW l \in Letter, dead' = [dead EXCEPT ![p] = Append(@, l)]
          PROVE  dead' \in [Partitions -> Seq(Letter)] /\ DeadGrows
      BY <2>4 DEF Topics, DeadGrows
    <2> QED BY Zenon, <2>1, <2>2, <2>3, <2>4 DEF Topics
  <1> QED BY Zenon, <1>1, <1>2 DEF Worker

\* A step that touches neither topic.
LEMMA SameTopics == Topics /\ UNCHANGED <<dead, orders>> => Topics' /\ DeadGrows
  BY DEF Topics, DeadGrows

\* The record in hand is a letter of the topic.
LEMMA CurrentLetter ==
    ASSUME Topics, Cursor, AtRecord
    PROVE  /\ cur \in Partitions /\ at + 1 \in 1..Len(dead[cur])
           /\ Current \in Letter /\ Replayed(Current) \in Rec
  <1>1. cur \in Partitions /\ at + 1 \in 1..Len(dead[cur])
    BY DEF Topics, Cursor, AtRecord
  <1>2. Current \in Letter
    BY <1>1 DEF Topics, Current
  <1>3. Replayed(Current) \in Rec
    BY <1>2 DEF Replayed, Letter, Rec
  <1> QED BY Zenon, <1>1, <1>2, <1>3

\* The steps of the command that may put a record back.
Publishing == PublishRecord \/ PublishFails

\* All the others leave both topics alone.
LEMMA OtherTopics ==
    Next /\ ~Worker /\ ~Publishing => UNCHANGED <<dead, orders, db>>
  BY Zenon DEF Next, Publishing, Start, Step, PollFetches, PollEnds, EachPartition, ReturnLast,
         SkipRecord, DryRunRecord, CommitRecords, CommitNothing, Leave, VerifyDone,
         VerifyDeadline, VerifyError, Interrupt, Kill, pipeline

\* Every step leaves records of their types on both topics, and no dead letter is lost.
LEMMA TopicsStep == Topics /\ Cursor /\ Next => Topics' /\ DeadGrows
  <1> SUFFICES ASSUME Topics, Cursor, Next PROVE Topics' /\ DeadGrows OBVIOUS
  <1>1. CASE Worker
    BY Zenon, <1>1, WorkerTopics
  <1>2. CASE Publishing
    <2>1. AtRecord /\ dead' = dead /\ orders' \in {orders, Append(orders, Replayed(Current))}
      BY Zenon, <1>2 DEF Publishing, PublishRecord, PublishFails
    <2>2. Replayed(Current) \in Rec
      BY Zenon, <2>1, CurrentLetter
    <2>3. orders' \in Seq(Rec)
      BY <2>1, <2>2 DEF Topics
    <2>4. \A p \in Partitions : dead[p] \in Seq(Letter)
      BY Zenon DEF Topics
    <2>5. DeadGrows
      BY <2>1, <2>4 DEF DeadGrows
    <2> QED BY Zenon, <2>1, <2>3, <2>5 DEF Topics
  <1>3. CASE ~Worker /\ ~Publishing
    BY Zenon, <1>3, OtherTopics, SameTopics
  <1> QED BY Zenon, <1>1, <1>2, <1>3

\* The position moves inside what the poll has fetched.
LEMMA CursorStep == Topics /\ Cursor /\ Next => Cursor'
  <1> SUFFICES ASSUME Topics, Cursor, Next PROVE Cursor' OBVIOUS
  <1>0. DeadGrows
    BY Zenon, TopicsStep
  <1>a. \A p \in Partitions : Len(dead[p]) \in Nat /\ Len(dead'[p]) \in Nat
                              /\ Len(dead[p]) <= Len(dead'[p])
    BY Zenon, <1>0 DEF DeadGrows
  <1>b. Nowhere \in [Partitions -> Nat] /\ \A p \in Partitions : Nowhere[p] = 0
    BY Zenon DEF Nowhere
  <1>c. \A p \in Partitions : hi[p] <= Len(dead'[p])
    BY <1>a DEF Cursor
  <1> USE DEF Cursor
  <1>1. CASE Worker
    <2>1. UNCHANGED <<rcommitted, pc, opts, pos, todo, cur, hi, at, last, sent>>
      BY Zenon, <1>1 DEF Worker, WorkerPersists, WorkerParks, run
    <2> QED BY Zenon, <1>c, <2>1
  <1>2. CASE Start
    BY <1>2, <1>a DEF Start
  <1>3. CASE PollFetches
    <2>1. PICK end \in [Partitions -> 0..MaxLetters] :
            /\ \A p \in Partitions : end[p] \in pos[p]..Len(dead[p])
            /\ hi' = end
            /\ todo' = {p \in Partitions : end[p] # pos[p]}
      BY Zenon, <1>3 DEF PollFetches
    <2>2. /\ hi' \in [Partitions -> Nat] /\ todo' \subseteq Partitions
          /\ \A p \in Partitions : hi'[p] <= Len(dead[p])
      BY <1>a, <2>1, ReplayAssumption
    <2> QED BY Zenon, <1>3, <1>a, <2>2 DEF PollFetches, pipeline
  <1>4. CASE PollEnds
    <2>1. /\ pc' \in {"verify", "off"}
          /\ UNCHANGED <<rcommitted, opts, pos, todo, hi, at, last, sent>>
      BY Zenon, <1>4 DEF PollEnds, Finish, run
    <2> QED BY Zenon, <1>c, <2>1
  <1>5. CASE EachPartition
    <2>1. CASE todo = {} \/ stopping
      <3>1. pc' \in {"poll", "verify", "off"}
        BY Zenon, <1>5, <2>1 DEF EachPartition, Finish
      <3>2. pos' \in [Partitions -> Nat]
        BY Zenon, <1>5, <2>1 DEF EachPartition
      <3> QED BY <1>5, <1>a, <1>b, <2>1, <3>1, <3>2 DEF EachPartition
    <2>2. CASE ~(todo = {} \/ stopping)
      <3>1. PICK p \in todo : cur' = p /\ todo' = todo \ {p} /\ at' = pos[p]
        BY Zenon, <1>5, <2>2 DEF EachPartition
      <3>2. /\ last' = 0
            /\ UNCHANGED <<pos, hi, rcommitted, opts, sent>>
        BY Zenon, <1>5, <2>2 DEF EachPartition
      <3>3. cur' \in Partitions /\ todo' \subseteq Partitions /\ at' \in Nat
        BY Zenon, <3>1
      <3> QED BY Zenon, <1>c, <3>2, <3>3
    <2> QED BY Zenon, <2>1, <2>2
  <1>6. CASE ReturnLast
    BY Zenon, <1>6, <1>c DEF ReturnLast, run
  <1>7. CASE VerifyDone \/ VerifyDeadline \/ VerifyError
    <2>1. pc' = "off" /\ UNCHANGED run /\ rcommitted' = rcommitted
      BY Zenon, <1>7 DEF VerifyDone, VerifyDeadline, VerifyError
    <2> QED BY Zenon, <1>c, <2>1 DEF run
  <1>8. CASE Interrupt
    BY Zenon, <1>8, <1>c DEF Interrupt, run
  <1>9. CASE SkipRecord
    BY <1>9, <1>c DEF SkipRecord, AtRecord
  <1>10. CASE DryRunRecord
    BY <1>10, <1>c DEF DryRunRecord, AtRecord
  <1>11. CASE Publishing
    BY <1>11, <1>c DEF Publishing, PublishRecord, PublishFails, AtRecord
  <1>12. CASE CommitRecords \/ CommitNothing
    <2>1. rcommitted' \in [Partitions -> Nat]
      BY Zenon, <1>12 DEF CommitRecords, CommitNothing
    <2>2. pc' = "each" /\ at' = 0 /\ last' = 0 /\ UNCHANGED <<opts, pos, todo, hi, sent>>
      BY Zenon, <1>12 DEF CommitRecords, CommitNothing, Leave
    <2> QED BY Zenon, <1>c, <2>1, <2>2
  <1>13. CASE Kill
    BY <1>13, <1>a, <1>b DEF Kill
  <1> QED BY Zenon, <1>1, <1>2, <1>3, <1>4, <1>5, <1>6, <1>7, <1>8, <1>9, <1>10, <1>11, <1>12, <1>13
          DEF Next, Step, Publishing

\* Where a run is, and what is on the topics.
THEOREM CursorInvariant == Spec => [](Topics /\ Cursor)
  <1>1. Topics /\ Cursor /\ UNCHANGED vars => Topics' /\ Cursor'
    BY Zenon DEF Topics, Cursor, vars, pipeline, run
  <1>2. Topics /\ Cursor /\ [Next]_vars => Topics' /\ Cursor'
    BY Zenon, <1>1, TopicsStep, CursorStep
  <1> QED BY TopicsInit, CursorInit, <1>2, PTL DEF Spec

-----------------------------------------------------------------------------
Handled == produced \cup declined

\* S has the first n letters of a partition.
Covers(S, p, n) == \A i \in 1..n : [partition |-> p, offset |-> i] \in S

\* Why a poll's records need not all be handled: no poll follows.
LastPoll == cancelled \/ stopping \/ LimitReached

\* An applying run fetches from a position below which all is handled, has handled a
\* partition it has left unless this is its last poll, and commits no more than that.
RunAccounts ==
    /\ pc \in {"each", "record", "commit"} \/ (pc = "poll" /\ ~LimitReached) =>
        \A p \in Partitions : Covers(Handled, p, pos[p])
    /\ pc = "each" => LastPoll \/ \A p \in Partitions \ todo : Covers(Handled, p, hi[p])
    /\ pc \in {"record", "commit"} =>
        /\ LastPoll \/ \A p \in Partitions \ (todo \cup {cur}) : Covers(Handled, p, hi[p])
        /\ Covers(Handled, cur, at)
        /\ last \in {0, at}
    /\ pc = "commit" => LastPoll \/ at = hi[cur]

Accounting == NoDeadLetterDeleted /\ (opts.apply => RunAccounts)

\* Before the first run the group has no offset to account for.
LEMMA AccountingInit == Init => Accounting
  BY DEF Init, Accounting, NoDeadLetterDeleted, RunAccounts, Nowhere

\* What has been handled stays so.
LEMMA CoversMono ==
    ASSUME NEW S, NEW T, S \subseteq T, NEW p, NEW n, Covers(S, p, n)
    PROVE  Covers(T, p, n)
  BY Zenon DEF Covers

\* One more letter.
LEMMA CoversNext ==
    ASSUME NEW S, NEW p, NEW n \in Nat, Covers(S, p, n)
    PROVE  Covers(S \cup {[partition |-> p, offset |-> n + 1]}, p, n + 1)
  <1>1. \A i \in 1..(n + 1) : i \in 1..n \/ i = n + 1
    OBVIOUS
  <1> QED BY Zenon, <1>1 DEF Covers

\* No step forgets what was put back or turned down.
LEMMA HandledGrows == Next => Handled \subseteq Handled'
  BY Zenon DEF Handled, Next, Worker, WorkerPersists, WorkerParks, Start, Step, PollFetches, PollEnds,
         EachPartition, ReturnLast, SkipRecord, DryRunRecord, PublishRecord, PublishFails,
         CommitRecords, CommitNothing, Leave, VerifyDone, VerifyDeadline, VerifyError,
         Interrupt, Kill

\* Only a commit moves the group's offset, to a record below which all is handled.
LEMMA OffsetStep == Cursor /\ Accounting /\ Next => NoDeadLetterDeleted'
  <1> SUFFICES ASSUME Cursor, Accounting, Next,
                      NEW p \in Partitions
               PROVE  Covers(Handled', p, rcommitted'[p])
    BY Zenon DEF NoDeadLetterDeleted, Covers, Handled
  <1>0. Handled \subseteq Handled'
    BY Zenon, HandledGrows
  <1>a. Covers(Handled, p, rcommitted[p])
    BY Zenon DEF Accounting, NoDeadLetterDeleted, Covers, Handled
  <1>1. CASE CommitRecords
    <2>1. /\ cur \in Partitions /\ rcommitted \in [Partitions -> Nat]
          /\ rcommitted' = [rcommitted EXCEPT ![cur] = last]
      BY Zenon, <1>1 DEF CommitRecords, Cursor
    <2>2. Covers(Handled, cur, last)
      BY Zenon, <1>1 DEF CommitRecords, Accounting, RunAccounts
    <2>3. rcommitted'[p] = IF p = cur THEN last ELSE rcommitted[p]
      BY Zenon, <2>1
    <2>4. Covers(Handled, p, rcommitted'[p])
      BY Zenon, <1>a, <2>2, <2>3
    <2> QED BY Zenon, <1>0, <2>4, CoversMono
  <1>2. CASE ~CommitRecords
    <2>1. rcommitted' = rcommitted
      BY Zenon, <1>2 DEF Next, Worker, WorkerPersists, WorkerParks, Start, Step, PollFetches, PollEnds,
         EachPartition, ReturnLast, SkipRecord, DryRunRecord, PublishRecord, PublishFails,
         CommitNothing, Leave, VerifyDone, VerifyDeadline, VerifyError, Interrupt, Kill
    <2> QED BY Zenon, <1>0, <1>a, <2>1, CoversMono
  <1> QED BY Zenon, <1>1, <1>2

\* A run that applies handles records in order and leaves none behind but in its last
\* poll.
LEMMA RunStep == Cursor /\ Accounting /\ Next => (opts'.apply => RunAccounts')
  <1> SUFFICES ASSUME Cursor, Accounting, Next, opts'.apply PROVE RunAccounts' OBVIOUS
  <1>g. \A p, n : Covers(Handled, p, n) => Covers(Handled', p, n)
    BY Zenon, HandledGrows, CoversMono
  <1>z. CASE pc' \in {"off", "verify"}
    BY Zenon, <1>z DEF RunAccounts
  <1>1. CASE Worker \/ Interrupt
    <2>1. UNCHANGED <<pc, run>> /\ (cancelled => cancelled')
      BY <1>1 DEF Worker, WorkerPersists, WorkerParks, Interrupt
    <2>2. RunAccounts /\ UNCHANGED <<pc, opts, pos, todo, cur, hi, at, last, stopping, sent>>
      BY Zenon, <2>1 DEF Accounting, run
    <2> QED BY Zenon, <1>g, <2>1, <2>2 DEF RunAccounts, LastPoll, LimitReached
  <1>2. CASE Start
    <2>1. pc' = "poll" /\ pos' = rcommitted
      BY Zenon, <1>2 DEF Start
    <2>2. \A p \in Partitions : Covers(Handled, p, rcommitted[p])
      BY Zenon DEF Accounting, NoDeadLetterDeleted, Covers, Handled
    <2> QED BY Zenon, <1>g, <2>1, <2>2 DEF RunAccounts
  <1>3. CASE PollFetches
    <2>1. PICK fetched \in [Partitions -> 0..MaxLetters] :
            hi' = fetched /\ todo' = {p \in Partitions : fetched[p] # pos[p]}
      BY Zenon, <1>3 DEF PollFetches
    <2>2. pc' = "each" /\ pos' = pos /\ pc = "poll" /\ ~LimitReached /\ RunAccounts
      BY Zenon, <1>3 DEF PollFetches, Accounting
    <2>3. \A p \in Partitions : Covers(Handled', p, pos[p])
      BY Zenon, <1>g, <2>2 DEF RunAccounts
    <2>4. \A p \in Partitions \ todo' : hi'[p] = pos[p]
      BY Zenon, <2>1
    <2> QED BY Zenon, <2>2, <2>3, <2>4 DEF RunAccounts
  <1>4. CASE EachPartition
    <2>1. /\ RunAccounts /\ pc = "each"
          /\ UNCHANGED <<opts, sent, stopping, cancelled>>
      BY Zenon, <1>4 DEF EachPartition, Accounting
    <2>2. LimitReached' = LimitReached /\ LastPoll' = LastPoll
      BY Zenon, <2>1 DEF LastPoll, LimitReached
    <2>3. \A p \in Partitions : Covers(Handled', p, pos[p])
      BY Zenon, <1>g, <2>1 DEF RunAccounts
    <2>4. LastPoll \/ \A p \in Partitions \ todo : Covers(Handled', p, hi[p])
      BY Zenon, <1>g, <2>1 DEF RunAccounts
    <2>5. CASE todo = {} \/ stopping
      <3>1. CASE stopping \/ cancelled
        BY Zenon, <1>4, <1>z, <2>5, <3>1 DEF EachPartition, Finish
      <3>2. CASE ~(stopping \/ cancelled)
        <4>1. pc' = "poll" /\ todo = {}
              /\ pos' = [p \in Partitions |-> IF hi[p] > pos[p] THEN hi[p] ELSE pos[p]]
          BY Zenon, <1>4, <2>5, <3>2 DEF EachPartition
        <4>2. \A p \in Partitions : pos'[p] \in {hi[p], pos[p]}
          BY Zenon, <4>1
        <4>3. ~LimitReached => \A p \in Partitions : Covers(Handled', p, hi[p])
          BY Zenon, <2>4, <3>2, <4>1 DEF LastPoll
        <4>4. ~LimitReached' => \A p \in Partitions : Covers(Handled', p, pos'[p])
          BY Zenon, <2>2, <2>3, <4>2, <4>3
        <4> QED BY Zenon, <4>1, <4>4 DEF RunAccounts
      <3> QED BY Zenon, <3>1, <3>2
    <2>6. CASE ~(todo = {} \/ stopping)
      <3>1. PICK p \in todo : cur' = p /\ todo' = todo \ {p} /\ at' = pos[p]
        BY Zenon, <1>4, <2>6 DEF EachPartition
      <3>2. pc' = "record" /\ last' = 0 /\ pos' = pos /\ hi' = hi
        BY Zenon, <1>4, <2>6 DEF EachPartition
      <3>3. todo' \cup {cur'} = todo
        BY Zenon, <3>1
      <3>4. Covers(Handled', cur', at')
        BY Zenon, <2>3, <3>1 DEF Cursor
      <3> QED BY Zenon, <2>2, <2>3, <2>4, <3>2, <3>3, <3>4 DEF RunAccounts
    <2> QED BY Zenon, <2>5, <2>6
  <1>5. CASE ReturnLast
    <2>1. /\ RunAccounts /\ pc = "record" /\ pc' = "commit" /\ (at = hi[cur] \/ LastPoll)
          /\ UNCHANGED <<opts, pos, todo, cur, hi, at, last, stopping, sent, cancelled>>
      BY Zenon, <1>5 DEF ReturnLast, run, Accounting, LastPoll
    <2>2. LastPoll' = LastPoll
      BY Zenon, <2>1 DEF LastPoll, LimitReached
    <2> QED BY Zenon, <1>g, <2>1, <2>2 DEF RunAccounts
  <1>6. CASE SkipRecord \/ PublishRecord
    <2>1. /\ RunAccounts /\ pc = "record" /\ pc' = "record"
          /\ at' = at + 1 /\ last' = at + 1 /\ sent' \in {sent, sent + 1}
          /\ UNCHANGED <<opts, pos, todo, cur, hi, stopping, cancelled>>
          /\ Handled' = Handled \cup {[partition |-> cur, offset |-> at + 1]}
      BY Zenon, <1>6 DEF SkipRecord, PublishRecord, AtRecord, Accounting, Handled, Here
    <2>2. LastPoll => LastPoll'
      BY <2>1, ReplayAssumption DEF LastPoll, LimitReached, Cursor, Option
    <2>3. Covers(Handled', cur, at + 1)
      BY Zenon, <2>1, CoversNext DEF RunAccounts, Cursor
    <2> QED BY Zenon, <1>g, <2>1, <2>2, <2>3 DEF RunAccounts
  <1>7. CASE DryRunRecord
    BY Zenon, <1>7 DEF DryRunRecord
  <1>8. CASE PublishFails
    <2>1. /\ RunAccounts /\ pc = "record" /\ pc' = "commit" /\ stopping'
          /\ UNCHANGED <<opts, pos, todo, cur, hi, at, last, sent, cancelled>>
      BY Zenon, <1>8 DEF PublishFails, AtRecord, Accounting
    <2>2. LastPoll'
      BY Zenon, <2>1 DEF LastPoll
    <2> QED BY Zenon, <1>g, <2>1, <2>2 DEF RunAccounts
  <1>9. CASE CommitRecords \/ CommitNothing
    <2>1. /\ RunAccounts /\ pc = "commit" /\ pc' = "each"
          /\ UNCHANGED <<opts, pos, todo, hi, stopping, sent, cancelled>>
      BY Zenon, <1>9 DEF CommitRecords, CommitNothing, Leave, Accounting
    <2>2. LastPoll' = LastPoll
      BY Zenon, <2>1 DEF LastPoll, LimitReached
    <2>3. LastPoll \/ \A p \in Partitions \ todo : Covers(Handled', p, hi[p])
      BY Zenon, <1>g, <2>1 DEF RunAccounts
    <2>4. \A p \in Partitions : Covers(Handled', p, pos[p])
      BY Zenon, <1>g, <2>1 DEF RunAccounts
    <2> QED BY Zenon, <2>1, <2>2, <2>3, <2>4 DEF RunAccounts
  <1>10. CASE PollEnds \/ VerifyDone \/ VerifyDeadline \/ VerifyError \/ Kill
    BY Zenon, <1>10, <1>z DEF PollEnds, Finish, VerifyDone, VerifyDeadline, VerifyError, Kill
  <1> QED BY Zenon, <1>1, <1>2, <1>3, <1>4, <1>5, <1>6, <1>7, <1>8, <1>9, <1>10 DEF Next, Step

\* run, replayPartition and the commits, through interrupts, failures, kills and reruns:
\* the group's offset never passes a dead letter that was neither put back nor declined.
THEOREM NothingDeleted == Spec => []NoDeadLetterDeleted
  <1>1. Cursor /\ Accounting /\ [Next]_vars => Accounting'
    <2>1. Accounting /\ UNCHANGED vars => Accounting'
      <3> SUFFICES ASSUME Accounting, UNCHANGED vars PROVE Accounting' OBVIOUS
      <3>1. UNCHANGED <<pc, rcommitted, opts, pos, todo, cur, hi, at, last, stopping, sent,
                        cancelled, produced, declined>>
        BY Zenon DEF vars, run
      <3>2. LimitReached' = LimitReached /\ LastPoll' = LastPoll /\ Handled' = Handled
        BY Zenon, <3>1 DEF LimitReached, LastPoll, Handled
      <3>3. NoDeadLetterDeleted'
        BY Zenon, <3>1 DEF Accounting, NoDeadLetterDeleted
      <3>4. RunAccounts => RunAccounts'
        BY Zenon, <3>1, <3>2 DEF RunAccounts
      <3> QED BY Zenon, <3>1, <3>3, <3>4 DEF Accounting
    <2> QED BY Zenon, <2>1, OffsetStep, RunStep DEF Accounting
  <1>2. Accounting => NoDeadLetterDeleted
    BY Zenon DEF Accounting
  <1> QED BY <1>1, <1>2, AccountingInit, CursorInvariant, PTL DEF Spec

-----------------------------------------------------------------------------
\* run without -apply commits nothing and produces nothing.
THEOREM DryRunsTouchNothing == Spec => DryRunTouchesNothing
  <1>1. [Next]_vars => [pc # "off" /\ ~opts.apply => UNCHANGED <<rcommitted, produced>>]_vars
    BY Zenon DEF Next, Worker, WorkerPersists, WorkerParks, Start, Step, PollFetches, PollEnds,
         EachPartition, ReturnLast, SkipRecord, DryRunRecord, PublishRecord, PublishFails,
         CommitRecords, CommitNothing, Leave, VerifyDone, VerifyDeadline, VerifyError,
         Interrupt, Kill, vars
  <1> QED BY <1>1, PTL DEF Spec, DryRunTouchesNothing

-----------------------------------------------------------------------------
\* A record that carries its true number of laps, within some command line's limit.
TrueLaps(r) == r.count = r.trips /\ \E o \in Options : r.trips <= o.maxReplays

Laps ==
    /\ \A i \in 1..Len(orders) : TrueLaps(orders[i])
    /\ \A p \in Partitions : \A i \in 1..Len(dead[p]) : TrueLaps(dead[p][i])

\* The backlog has made no lap.
LEMMA LapsInit == Init => Laps
  <1> SUFFICES ASSUME Init PROVE Laps OBVIOUS
  <1>1. \E o \in Options : 0 <= o.maxReplays
    BY ReplayAssumption DEF Init, Option
  <1>2. ASSUME NEW p \in Partitions, NEW i \in 1..Len(dead[p]) PROVE TrueLaps(dead[p][i])
    <2>1. dead[p] \in Seq({l \in Letter : l.count = 0 /\ l.trips = 0})
      BY Zenon, ReplayAssumption DEF Init
    <2>2. dead[p][i] \in {l \in Letter : l.count = 0 /\ l.trips = 0}
      BY <2>1
    <2> QED BY Zenon, <1>1, <2>2 DEF TrueLaps
  <1>3. orders = <<>>
    BY Zenon DEF Init
  <1> QED BY <1>2, <1>3 DEF Laps

\* Sending to a topic one more record with its true laps.
LEMMA LapsAppend ==
    ASSUME NEW S, NEW s \in Seq(S), NEW r \in S, TrueLaps(r),
           \A i \in 1..Len(s) : TrueLaps(s[i])
    PROVE  \A i \in 1..Len(Append(s, r)) : TrueLaps(Append(s, r)[i])
  <1>1. \A i \in 1..Len(Append(s, r)) :
            Append(s, r)[i] = r \/ \E j \in 1..Len(s) : Append(s, r)[i] = s[j]
    OBVIOUS
  <1> QED BY Zenon, <1>1

\* A lap is counted when decide lets the record go, and carried when it is parked.
LEMMA LapsStep == Topics /\ Cursor /\ Laps /\ Next => Laps'
  <1> SUFFICES ASSUME Topics, Cursor, Laps, Next PROVE Laps' OBVIOUS
  <1>0. orders # <<>> =>
            /\ Head(orders) \in Rec /\ TrueLaps(Head(orders))
            /\ \A i \in 1..Len(Tail(orders)) : TrueLaps(Tail(orders)[i])
    BY ZenonT(30), HeadTail DEF Topics, Laps
  <1>1. CASE WorkerPersists
    <2>1. orders # <<>> /\ orders' = Tail(orders) /\ dead' = dead
      BY Zenon, <1>1 DEF WorkerPersists
    <2> QED BY Zenon, <1>0, <2>1 DEF Laps
  <1>2. CASE WorkerParks
    <2>1. PICK p \in Partitions, reason \in Reasons :
            dead' = [dead EXCEPT ![p] = Append(@, SendDead(Head(orders), reason))]
      BY Zenon, <1>2 DEF WorkerParks
    <2> DEFINE l == SendDead(Head(orders), reason)
    <2>2. orders # <<>> /\ orders' \in {orders, Tail(orders)}
      BY Zenon, <1>2 DEF WorkerParks
    <2>3. l \in Letter /\ TrueLaps(l)
      BY Zenon, <1>0, <2>2 DEF SendDead, Letter, Rec, TrueLaps
    <2> HIDE DEF l
    <2>4. dead[p] \in Seq(Letter) /\ \A i \in 1..Len(dead[p]) : TrueLaps(dead[p][i])
      BY Zenon DEF Topics, Laps
    <2>5. \A i \in 1..Len(Append(dead[p], l)) : TrueLaps(Append(dead[p], l)[i])
      BY Zenon, <2>3, <2>4, LapsAppend
    <2>6. dead'[p] = Append(dead[p], l) /\ \A q \in Partitions \ {p} : dead'[q] = dead[q]
      BY Zenon, <2>1 DEF Topics, l
    <2>7. \A q \in Partitions : \A i \in 1..Len(dead'[q]) : TrueLaps(dead'[q][i])
      BY Zenon, <2>5, <2>6 DEF Laps
    <2>8. \A i \in 1..Len(orders') : TrueLaps(orders'[i])
      BY Zenon, <1>0, <2>2 DEF Laps
    <2> QED BY Zenon, <2>7, <2>8 DEF Laps
  <1>3. CASE Publishing
    <2>1. /\ AtRecord /\ Decide(Current) /\ dead' = dead
          /\ orders' \in {orders, Append(orders, Replayed(Current))}
      BY Zenon, <1>3 DEF Publishing, PublishRecord, PublishFails
    <2>2. Current \in Letter /\ Replayed(Current) \in Rec /\ TrueLaps(Current)
      BY Zenon, <2>1, CurrentLetter DEF Laps, Current
    <2>3. opts \in Options /\ opts.maxReplays \in Nat /\ Current.count + 1 <= opts.maxReplays
      BY <2>1, <2>2, ReplayAssumption DEF Cursor, Option, Decide, Letter
    <2>4. TrueLaps(Replayed(Current))
      BY Zenon, <2>2, <2>3 DEF TrueLaps, Replayed
    <2>5. \A i \in 1..Len(orders') : TrueLaps(orders'[i])
      BY Zenon, <2>1, <2>2, <2>4, LapsAppend DEF Topics, Laps
    <2> QED BY Zenon, <2>1, <2>5 DEF Laps
  <1>4. CASE ~Worker /\ ~Publishing
    BY Zenon, <1>4, OtherTopics DEF Laps
  <1> QED BY Zenon, <1>1, <1>2, <1>3, <1>4 DEF Worker

\* decide, replayHeaders and carryForward: replay_count is the number of laps made, and
\* no record makes more of them than some command line allowed.
THEOREM LapsAreCounted == Spec => []GuardCountsLaps
  <1>1. Topics /\ Cursor /\ Laps /\ [Next]_vars => Laps'
    <2>1. Laps /\ UNCHANGED vars => Laps'
      BY Zenon DEF Laps, vars, pipeline
    <2> QED BY Zenon, <2>1, LapsStep
  <1>2. Laps => GuardCountsLaps
    BY DEF Laps, GuardCountsLaps, TrueLaps
  <1> QED BY <1>1, <1>2, LapsInit, CursorInvariant, PTL DEF Spec

-----------------------------------------------------------------------------
\* As many distinct rows as records: every record has its row.
LEMMA CountedRows ==
    ASSUME NEW S, NEW s \in Seq(S), NEW T,
           Cardinality({s[i] : i \in 1..Len(s)} \cap T) >= Len(s)
    PROVE  \A i \in 1..Len(s) : s[i] \in T
  <1> DEFINE R == {s[i] : i \in 1..Len(s)}
             f == [i \in 1..Len(s) |-> s[i]]
  <1>1. Len(s) \in Nat
    OBVIOUS
  <1>2. f \in Surjection(1..Len(s), R)
    BY Zenon DEF Surjection
  <1>3. IsFiniteSet(1..Len(s)) /\ Cardinality(1..Len(s)) = Len(s)
    <2> DEFINE n == Len(s)
    <2>1. n \in Nat
      OBVIOUS
    <2> HIDE DEF n
    <2>2. IsFiniteSet(1..n) /\ Cardinality(1..n) = IF 1 > n THEN 0 ELSE n - 1 + 1
      <3>1. n \in Int /\ 1 \in Int
        BY <2>1
      <3> QED BY Zenon, <3>1, FS_Interval
    <2>3. (IF 1 > n THEN 0 ELSE n - 1 + 1) = n
      BY <2>1
    <2> QED BY <2>2, <2>3 DEF n
  <1> HIDE DEF f, R
  <1>4. IsFiniteSet(R) /\ Cardinality(R) <= Len(s)
    BY <1>2, <1>3, FS_Surjection
  <1>5. /\ Cardinality(R \cap T) <= Cardinality(R)
        /\ Cardinality(R) = Cardinality(R \cap T) => R = R \cap T
    BY Zenon, <1>4, FS_Subset
  <1>6. Cardinality(R) \in Nat /\ Cardinality(R \cap T) \in Nat
    BY Zenon, <1>4, FS_Subset, FS_CardinalityType
  <1>7. Cardinality(R \cap T) >= Len(s)
    BY Zenon DEF R
  <1>8. R = R \cap T
    BY <1>1, <1>4, <1>5, <1>6, <1>7
  <1> QED BY Zenon, <1>8 DEF R

\* A run has no exit code before its end, and 0 only for a run whose rows are there.
Outcome ==
    /\ replayed \in Seq(Events)
    /\ pc # "off" => exit = "none"
    /\ OkMeansPersisted

\* Before the first run there is no exit code.
LEMMA OutcomeInit == Init => Outcome
  BY DEF Init, Outcome, OkMeansPersisted

\* Each way a run ends sets the exit code that its rows justify.
LEMMA OutcomeStep == Topics /\ Cursor /\ Outcome /\ Next => Outcome'
  <1> SUFFICES ASSUME Topics, Cursor, Outcome, Next PROVE Outcome' OBVIOUS
  <1>n. CASE exit' = "none" /\ replayed' \in Seq(Events)
    BY Zenon, <1>n DEF Outcome, OkMeansPersisted
  <1>f. ASSUME Finish, UNCHANGED run, pc # "off" PROVE Outcome'
    <2>1. CASE opts.apply /\ opts.verify /\ replayed # <<>>
      BY Zenon, <1>f, <1>n, <2>1 DEF Finish, run, Outcome
    <2>2. CASE ~(opts.apply /\ opts.verify /\ replayed # <<>>)
      <3>1. pc' = "off" /\ replayed' = replayed /\ opts' = opts
        BY Zenon, <1>f, <2>2 DEF Finish, run
      <3> QED BY <2>2, <3>1 DEF Outcome, OkMeansPersisted
    <2> QED BY Zenon, <2>1, <2>2
  <1>1. CASE Worker
    <2>1. UNCHANGED <<pc, exit, replayed, opts>> /\ db \subseteq db'
      BY Zenon, <1>1 DEF Worker, WorkerPersists, WorkerParks, run
    <2> QED BY Zenon, <2>1 DEF Outcome, OkMeansPersisted
  <1>2. CASE Start
    BY <1>2, <1>n DEF Start
  <1>3. CASE PollEnds
    BY Zenon, <1>3, <1>f DEF PollEnds
  <1>4. CASE EachPartition
    <2>1. pc = "each" /\ replayed' = replayed /\ opts' = opts
      BY Zenon, <1>4 DEF EachPartition
    <2>2. CASE (todo = {} \/ stopping) /\ (stopping \/ cancelled)
      <3>1. Finish
        BY Zenon, <1>4, <2>2 DEF EachPartition
      <3>2. CASE opts.apply /\ opts.verify /\ replayed # <<>>
        BY Zenon, <1>n, <2>1, <3>1, <3>2 DEF Finish, Outcome
      <3>3. CASE ~(opts.apply /\ opts.verify /\ replayed # <<>>)
        BY <2>1, <3>1, <3>3 DEF Finish, Outcome, OkMeansPersisted
      <3> QED BY Zenon, <3>2, <3>3
    <2>3. CASE ~((todo = {} \/ stopping) /\ (stopping \/ cancelled))
      <3>1. exit' = exit
        BY Zenon, <1>4, <2>3 DEF EachPartition
      <3> QED BY Zenon, <1>n, <2>1, <3>1 DEF Outcome
    <2> QED BY Zenon, <2>2, <2>3
  <1>5. CASE PollFetches \/ ReturnLast \/ SkipRecord \/ DryRunRecord \/ PublishFails
             \/ CommitRecords \/ CommitNothing \/ Interrupt
    <2>1. pc # "off" /\ exit' = exit /\ replayed' = replayed
      BY Zenon, <1>5 DEF PollFetches, ReturnLast, SkipRecord, DryRunRecord, PublishFails, AtRecord,
                  CommitRecords, CommitNothing, Leave, Interrupt, run
    <2> QED BY Zenon, <1>n, <2>1 DEF Outcome
  <1>6. CASE PublishRecord
    <2>1. pc # "off" /\ exit' = exit /\ AtRecord
          /\ replayed' \in {replayed, Append(replayed, Current.event)}
      BY Zenon, <1>6 DEF PublishRecord, AtRecord
    <2>2. Current.event \in Events
      BY Zenon, <2>1, CurrentLetter DEF Letter
    <2>3. replayed' \in Seq(Events)
      BY <2>1, <2>2 DEF Outcome
    <2> QED BY Zenon, <1>n, <2>1, <2>3 DEF Outcome
  <1>7. CASE VerifyDone
    <2>1. Cardinality({replayed[i] : i \in 1..Len(replayed)} \cap db) >= Len(replayed)
      BY Zenon, <1>7 DEF VerifyDone, Persisted, Checked
    <2>2. \A i \in 1..Len(replayed) : replayed[i] \in db
      BY Zenon, <2>1, CountedRows DEF Outcome
    <2>3. pc' = "off" /\ UNCHANGED <<replayed, db>>
      BY Zenon, <1>7 DEF VerifyDone, run, pipeline
    <2> QED BY Zenon, <2>2, <2>3 DEF Outcome, OkMeansPersisted
  <1>8. CASE VerifyDeadline \/ VerifyError \/ Kill
    <2>1. pc' = "off" /\ exit' # "ok" /\ replayed' = replayed
      BY Zenon, <1>8 DEF VerifyDeadline, VerifyError, Kill, run
    <2> QED BY Zenon, <2>1 DEF Outcome, OkMeansPersisted
  <1> QED BY Zenon, <1>1, <1>2, <1>3, <1>4, <1>5, <1>6, <1>7, <1>8 DEF Next, Step

\* verify and main's exit code: an applying run that verifies and ends with 0 has
\* recovered every readable record it put back.
THEOREM OkIsPersisted == Spec => []OkMeansPersisted
  <1>1. Topics /\ Cursor /\ Outcome /\ [Next]_vars => Outcome'
    <2>1. Outcome /\ UNCHANGED vars => Outcome'
      BY Zenon DEF Outcome, OkMeansPersisted, vars, pipeline, run
    <2> QED BY Zenon, <2>1, OutcomeStep
  <1>2. Outcome => OkMeansPersisted
    BY Zenon DEF Outcome
  <1> QED BY <1>1, <1>2, OutcomeInit, CursorInvariant, PTL DEF Spec
-----------------------------------------------------------------------------
(* Types.                                                                  *)

\* No position is past the end of its partition.
Ends ==
    /\ \A p \in Partitions : rcommitted[p] <= Len(dead[p]) /\ pos[p] <= Len(dead[p])
    /\ last <= at
    /\ pc \in {"record", "commit"} => at <= Len(dead[cur])

\* The rest of what run and main keep.
Fields ==
    /\ db \subseteq Events \ Malformed
    /\ pc \in {"off", "poll", "each", "record", "commit", "verify"}
    /\ cur \in Partitions \cup {NoPartition}
    /\ stopping \in BOOLEAN /\ failed \in BOOLEAN /\ cancelled \in BOOLEAN
    /\ replayed \in Seq(Events \ Malformed)
    /\ exit \in {"none", "ok", "failed", "missing", "error", "killed"}
    /\ runs \in 0..MaxRuns
    /\ produced \subseteq [partition : Partitions, offset : Nat]
    /\ declined \subseteq [partition : Partitions, offset : Nat]

\* A commit is of the last record, which the poll has fetched; a later run's position
\* starts there.
LEMMA EndsStep == Topics /\ Cursor /\ Ends /\ Next => Ends'
  <1> SUFFICES ASSUME Topics, Cursor, Ends, Next PROVE Ends' OBVIOUS
  <1>0. DeadGrows
    BY Zenon, TopicsStep
  <1>a. \A p \in Partitions :
            /\ Len(dead[p]) \in Nat /\ Len(dead'[p]) \in Nat /\ Len(dead[p]) <= Len(dead'[p])
            /\ rcommitted[p] \in Nat /\ pos[p] \in Nat /\ hi[p] \in Nat
            /\ rcommitted[p] <= Len(dead'[p]) /\ pos[p] <= Len(dead'[p]) /\ hi[p] <= Len(dead'[p])
    BY <1>0 DEF DeadGrows, Cursor, Ends
  <1>b. at \in Nat /\ last \in Nat /\ last <= at
    BY Zenon DEF Cursor, Ends
  <1>c. pc \in {"record", "commit"} => cur \in Partitions /\ at <= Len(dead'[cur])
    BY <1>a, <1>b DEF Cursor, Ends
  <1>1. CASE /\ UNCHANGED <<rcommitted, pos, at, last>>
             /\ \/ UNCHANGED <<pc, cur>>
                \/ pc' \notin {"record", "commit"}
    BY Zenon, <1>1, <1>a, <1>b, <1>c DEF Ends
  <1>2. CASE Start
    BY Zenon, <1>2, <1>a, <1>b DEF Start, Ends
  <1>3. CASE Worker \/ PollFetches \/ PollEnds \/ VerifyDone \/ VerifyDeadline \/ VerifyError \/ Interrupt
    BY Zenon, <1>1, <1>3 DEF Worker, WorkerPersists, WorkerParks, PollFetches, PollEnds, Finish, VerifyDone,
         VerifyDeadline, VerifyError, Interrupt, run
  <1>4. CASE EachPartition
    <2>1. CASE todo = {} \/ stopping
      <3>1. /\ pc' \notin {"record", "commit"} /\ UNCHANGED <<rcommitted, at, last>>
            /\ pos' = [p \in Partitions |-> IF hi[p] > pos[p] THEN hi[p] ELSE pos[p]]
        BY Zenon, <1>4, <2>1 DEF EachPartition, Finish
      <3> QED BY Zenon, <1>a, <1>b, <3>1 DEF Ends
    <2>2. CASE ~(todo = {} \/ stopping)
      <3>1. PICK p \in todo : cur' = p /\ at' = pos[p]
        BY Zenon, <1>4, <2>2 DEF EachPartition
      <3>2. p \in Partitions /\ last' = 0 /\ UNCHANGED <<rcommitted, pos>>
        BY Zenon, <1>4, <2>2, <3>1 DEF EachPartition, Cursor
      <3> QED BY <1>a, <3>1, <3>2 DEF Ends
    <2> QED BY Zenon, <2>1, <2>2
  <1>5. CASE ReturnLast \/ PublishFails
    <2>1. /\ pc = "record" /\ UNCHANGED <<rcommitted, pos, cur, at, last>>
      BY Zenon, <1>5 DEF ReturnLast, PublishFails, AtRecord, run
    <2> QED BY Zenon, <1>a, <1>b, <1>c, <2>1 DEF Ends
  <1>6. CASE SkipRecord \/ DryRunRecord \/ PublishRecord
    <2>1. /\ pc = "record" /\ at < hi[cur] /\ at' = at + 1 /\ last' \in {last, at + 1}
          /\ UNCHANGED <<rcommitted, pos, cur>>
      BY Zenon, <1>6 DEF SkipRecord, DryRunRecord, PublishRecord, AtRecord
    <2> QED BY <1>a, <1>b, <1>c, <2>1 DEF Ends
  <1>7. CASE CommitRecords \/ CommitNothing
    <2>1. /\ pc = "commit" /\ pc' = "each" /\ at' = 0 /\ last' = 0 /\ pos' = pos
          /\ rcommitted' \in {rcommitted, [rcommitted EXCEPT ![cur] = last]}
      BY Zenon, <1>7 DEF CommitRecords, CommitNothing, Leave
    <2>2. last <= Len(dead'[cur]) /\ cur \in Partitions
      BY <1>a, <1>b, <1>c, <2>1
    <2>3. \A p \in Partitions : rcommitted'[p] \in {rcommitted[p]} \/ (p = cur /\ rcommitted'[p] = last)
      BY Zenon, <2>1, <2>2 DEF Cursor
    <2> QED BY <1>a, <2>1, <2>2, <2>3 DEF Ends
  <1>8. CASE Kill
    BY <1>8, <1>a DEF Kill, Ends
  <1> QED BY Zenon, <1>2, <1>3, <1>4, <1>5, <1>6, <1>7, <1>8 DEF Next, Step

\* The handlers keep the other variables in their types.
LEMMA FieldsStep == Topics /\ Cursor /\ Fields /\ Next => Fields'
  <1> SUFFICES ASSUME Topics, Cursor, Fields, Next PROVE Fields' OBVIOUS
  <1> USE DEF Fields
  <1>0. ExitCode \in {"failed", "ok"}
    BY Zenon DEF ExitCode
  <1>1. CASE WorkerPersists
    <2>1. Head(orders) \in Rec
      BY Zenon, <1>1, HeadTail DEF Topics, WorkerPersists
    <2>2. db' \subseteq Events \ Malformed
      BY Zenon, <1>1, <2>1 DEF WorkerPersists, Rec
    <2> QED BY Zenon, <1>1, <2>2 DEF WorkerPersists, run
  <1>2. CASE WorkerParks
    BY Zenon, <1>2 DEF WorkerParks, run
  <1>3. CASE Start
    <2>1. replayed' \in Seq(Events \ Malformed)
      BY <1>3 DEF Start
    <2>2. runs' \in 0..MaxRuns
      BY <1>3, ReplayAssumption DEF Start
    <2> QED BY Zenon, <1>3, <2>1, <2>2 DEF Start, pipeline
  <1>4. CASE PollFetches \/ PollEnds \/ ReturnLast \/ DryRunRecord
    BY Zenon, <1>0, <1>4 DEF PollFetches, PollEnds, ReturnLast, DryRunRecord, Finish, pipeline, run
  <1>5. CASE EachPartition
    BY Zenon, <1>0, <1>5 DEF EachPartition, Finish, pipeline, Cursor
  <1>6. CASE SkipRecord \/ Publishing
    <2>1. AtRecord
      BY Zenon, <1>6 DEF SkipRecord, Publishing, PublishRecord, PublishFails
    <2>2. Current \in Letter /\ Here \in [partition : Partitions, offset : Nat]
      BY <2>1, CurrentLetter DEF Here, Cursor
    <2>3. produced' \subseteq produced \cup {Here} /\ declined' \subseteq declined \cup {Here}
      BY Zenon, <1>6 DEF SkipRecord, Publishing, PublishRecord, PublishFails
    <2>4. replayed' = replayed \/ (Current.event \notin Malformed /\ replayed' = Append(replayed, Current.event))
      BY Zenon, <1>6 DEF SkipRecord, Publishing, PublishRecord, PublishFails
    <2>5. replayed' \in Seq(Events \ Malformed)
      BY SMTT(30), <2>2, <2>4 DEF Letter
    <2>6. /\ UNCHANGED <<db, cur, cancelled, exit, runs>> /\ pc' \in {pc, "commit"}
          /\ stopping' \in {stopping, TRUE} /\ failed' \in {failed, TRUE}
      BY Zenon, <1>6 DEF SkipRecord, Publishing, PublishRecord, PublishFails, pipeline
    <2> QED BY ZenonT(30), <2>2, <2>3, <2>5, <2>6
  <1>7. CASE CommitRecords \/ CommitNothing
    BY Zenon, <1>7 DEF CommitRecords, CommitNothing, Leave, pipeline
  <1>8. CASE VerifyDone \/ VerifyDeadline \/ VerifyError
    BY Zenon, <1>0, <1>8 DEF VerifyDone, VerifyDeadline, VerifyError, pipeline, run
  <1>9. CASE Interrupt \/ Kill
    BY Zenon, <1>9 DEF Interrupt, Kill, pipeline, run
  <1> QED BY Zenon, <1>1, <1>2, <1>3, <1>4, <1>5, <1>6, <1>7, <1>8, <1>9
          DEF Next, Step, Worker, Publishing

\* run: every variable keeps its type, and neither a poll nor a commit, of this run or
\* an earlier one, reaches past the end of a partition.
THEOREM ReplayTypes == Spec => []TypeOK
  <1>1. Init => Fields
    <2> SUFFICES ASSUME Init PROVE Fields OBVIOUS
    <2>1. replayed \in Seq(Events \ Malformed)
      BY DEF Init
    <2>2. runs \in 0..MaxRuns
      BY ReplayAssumption DEF Init
    <2> QED BY Zenon, <2>1, <2>2 DEF Init, Fields
  <1>2. Init /\ Topics => Ends
    BY DEF Init, Ends, Topics, Nowhere
  <1>3. Ends /\ Fields /\ UNCHANGED vars => Ends' /\ Fields'
    BY Zenon DEF Ends, Fields, vars, pipeline, run
  <1>4. Topics /\ Cursor /\ Ends /\ Fields /\ [Next]_vars => Ends' /\ Fields'
    BY Zenon, <1>3, EndsStep, FieldsStep
  <1>5. Topics /\ Cursor /\ Ends /\ Fields => TypeOK
    BY Zenon DEF Topics, Cursor, Ends, Fields, TypeOK, Rec
  <1> QED BY <1>1, <1>2, <1>4, <1>5, TopicsInit, CursorInvariant, PTL DEF Spec
=============================================================================
