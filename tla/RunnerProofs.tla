---------------------------- MODULE RunnerProofs ----------------------------
(***************************************************************************)
(* What is proved of Runner for any number of tabs, runs, lines and lives   *)
(* and any size of the ring and the channels.                               *)
(***************************************************************************)
EXTENDS Runner, TLAPS

RunTypes ==
    /\ life \in 1..MaxLives /\ up \in {"up", "stopping", "down"}
    /\ started \in 0..MaxRuns
    /\ phase \in [Runs -> Busy \cup {"new", "finished", "done"}]
    /\ ctx \in [Runs -> {"live", "done"}]
    /\ alive \in [Runs -> BOOLEAN] /\ holder \in [Runs -> BOOLEAN]
    /\ lines \in 0..MaxLines
    /\ starter \in [Runs -> Tabs]

OutputTypes ==
    /\ ring \in Seq(Line) /\ Len(ring) <= MaxRing
    /\ seq \in Nat
    /\ chan \in [Tabs -> Seq(Line)] /\ \A t \in Tabs : Len(chan[t]) <= ChanCap
    /\ overflowed \in [Tabs -> BOOLEAN]

TabTypes ==
    /\ conn \in [Tabs -> {"off", "subscribed", "streaming"}]
    /\ backlog \in [Tabs -> Seq(Line)] /\ pane \in [Tabs -> Seq(Line)]
    /\ lastSeq \in [Tabs -> Nat]
    /\ accepted \in [Tabs -> BOOLEAN]
    /\ offered \in [Tabs -> SUBSET Line]

Types == RunTypes /\ OutputTypes /\ TabTypes

\* Runs are started in order, only the last one can hold the lock, and a process
\* group exists only while supervise waits for it or after the console has gone.
RunInv ==
    \A r \in Runs :
        /\ phase[r] = "new" <=> r > started
        /\ phase[r] \in Busy => r = started
        /\ alive[r] => phase[r] \in {"running", "done"}

\* A line of another run than the current one is the last that run emits.
RingInv ==
    started > 0 /\ phase[started] # "claimed" =>
        \A i \in DOMAIN ring :
            /\ ring[i].run # started => phase[ring[i].run] = "done"
            /\ \A j \in DOMAIN ring :
                ring[i].run = ring[j].run /\ ring[i].run # started => i = j

\* Every line of the ring has been written to a tab or is about to be.
StreamInv ==
    \A t \in Tabs :
        conn[t] = "streaming" /\ ~overflowed[t] =>
            Range(ring) \subseteq offered[t] \cup Range(backlog[t]) \cup Range(chan[t])

\* A pane ascends, and lastSeq is not below what it shows.
PaneInv ==
    \A t \in Tabs : \A i \in DOMAIN pane[t] :
        /\ pane[t][i].seq <= lastSeq[t]
        /\ \A j \in DOMAIN pane[t] : i < j => pane[t][i].seq < pane[t][j].seq

IInv == Types /\ RunInv /\ RingInv /\ StreamInv /\ PaneInv

-----------------------------------------------------------------------------
LEMMA InitIInv == ASSUME RunnerParameters, Init PROVE IInv
  <1> USE DEF Init, RunnerParameters
  <1>1. RunTypes
    BY DEF RunTypes
  <1>2. OutputTypes
    BY DEF OutputTypes
  <1>3. TabTypes
    BY DEF TabTypes
  <1>4. RunInv
    BY DEF RunInv, Busy, Runs
  <1>5. RingInv /\ StreamInv /\ PaneInv
    BY DEF RingInv, StreamInv, PaneInv
  <1> QED BY <1>1, <1>2, <1>3, <1>4, <1>5 DEF IInv, Types

-----------------------------------------------------------------------------
(* emit                                                                    *)

NewLine(r) == [seq |-> seq + 1, run |-> r, life |-> life]

LEMMA NewLineType ==
    ASSUME OutputTypes, RunTypes, NEW r \in Runs
    PROVE  NewLine(r) \in Line
  BY DEF OutputTypes, RunTypes, NewLine, Line

\* The ring after a line: the same lines one place further down or not, and then
\* the new one.
Shifted(r, d) ==
    /\ Len(ring') = Len(ring) + 1 - d
    /\ \A i \in DOMAIN ring' :
        \/ i + d \in DOMAIN ring /\ ring'[i] = ring[i + d]
        \/ i + d = Len(ring) + 1 /\ ring'[i] = NewLine(r)

LEMMA EmitRing ==
    ASSUME RunnerParameters, OutputTypes, RunTypes, NEW r \in Runs, Emit(r)
    PROVE  /\ ring' \in Seq(Line) /\ Len(ring') <= MaxRing
           /\ \E d \in {0, 1} : Shifted(r, d)
  <1> DEFINE all == Append(ring, NewLine(r))
  <1>1. /\ all \in Seq(Line) /\ Len(all) = Len(ring) + 1
        /\ \A i \in 1..Len(ring) : all[i] = ring[i]
        /\ all[Len(ring) + 1] = NewLine(r)
    BY NewLineType DEF OutputTypes
  <1>2. ring' = IF Len(all) > MaxRing THEN Tail(all) ELSE all
    BY DEF Emit, Recent, NewLine
  <1> HIDE DEF all
  <1>3. MaxRing \in Nat \ {0} /\ Len(ring) \in Nat /\ Len(ring) <= MaxRing /\ DOMAIN ring = 1..Len(ring)
    BY DEF RunnerParameters, OutputTypes
  <1>4. CASE Len(all) > MaxRing
    <2>1. /\ ring' \in Seq(Line) /\ Len(ring') = Len(ring)
          /\ \A i \in 1..Len(ring) : ring'[i] = all[i + 1]
      BY <1>1, <1>2, <1>3, <1>4
    <2>2. Shifted(r, 1)
      BY <2>1, <1>1, <1>3 DEF Shifted
    <2> QED BY <2>1, <2>2, <1>3
  <1>5. CASE ~(Len(all) > MaxRing)
    <2>1. Shifted(r, 0)
      BY <1>1, <1>2, <1>3, <1>5 DEF Shifted
    <2> QED BY <2>1, <1>1, <1>2, <1>3, <1>5
  <1> QED BY <1>4, <1>5

LEMMA EmitOutput ==
    ASSUME RunnerParameters, OutputTypes, RunTypes, NEW r \in Runs, Emit(r)
    PROVE  OutputTypes'
  <1>1. ring' \in Seq(Line) /\ Len(ring') <= MaxRing
    BY EmitRing
  <1>2. seq' \in Nat /\ overflowed' \in [Tabs -> BOOLEAN]
    BY DEF Emit, OutputTypes
  <1>3. chan' \in [Tabs -> Seq(Line)] /\ \A t \in Tabs : Len(chan'[t]) <= ChanCap
    <2>1. chan' = [t \in Tabs |-> IF conn[t] # "off" /\ Len(chan[t]) < ChanCap
                                    THEN Append(chan[t], NewLine(r)) ELSE chan[t]]
      BY DEF Emit, NewLine
    <2>2. ChanCap \in Nat
      BY DEF RunnerParameters
    <2>3. ASSUME NEW t \in Tabs
          PROVE  chan'[t] \in Seq(Line) /\ Len(chan'[t]) <= ChanCap
      BY <2>1, <2>2, NewLineType DEF OutputTypes
    <2> QED BY <2>1, <2>3
  <1> QED BY <1>1, <1>2, <1>3 DEF OutputTypes

-----------------------------------------------------------------------------
(* The runs: who holds the lock and whose processes exist.                 *)

LEMMA RunStep == ASSUME RunnerParameters, RunTypes, RunInv, Next PROVE RunTypes' /\ RunInv'
  <1> USE DEF RunTypes, RunInv, Busy, Runs, RunnerParameters
  <1>1. ASSUME NEW r \in Runs, Supervise(r) PROVE RunTypes' /\ RunInv'
    <2>1. CASE ResetRing(r)
      BY <2>1 DEF ResetRing
    <2>2. CASE Announce(r)
      BY <2>2 DEF Announce
    <2>3. CASE Launch(r)
      BY <2>3 DEF Launch
    <2>4. CASE LaunchFails(r)
      BY <2>4 DEF LaunchFails, Finish
    <2>5. CASE Deadline(r)
      BY <2>5 DEF Deadline
    <2>6. CASE KillTree(r)
      BY <2>6 DEF KillTree
    <2>7. CASE Wait(r)
      BY <2>7 DEF Wait
    <2>8. CASE Finishes(r)
      BY <2>8 DEF Finishes, Finish
    <2>9. CASE LastLine(r)
      BY <2>9 DEF LastLine
    <2> QED BY SMTT(30), <1>1, <2>1, <2>2, <2>3, <2>4, <2>5, <2>6, <2>7, <2>8, <2>9 DEF Supervise
  <1>2. ASSUME NEW r \in Runs, Environment(r) PROVE RunTypes' /\ RunInv'
    <2>1. CASE Claim(r)
      BY <2>1 DEF Claim, Idle
    <2>2. CASE ProcessLine(r) \/ TailLine(r)
      BY <2>2 DEF ProcessLine, TailLine
    <2>3. CASE ProcessExits(r) \/ PipesReleased(r)
      BY ZenonT(30), <2>3 DEF ProcessExits, PipesReleased
    <2> QED BY <1>2, <2>1, <2>2, <2>3 DEF Environment
  <1>3. ASSUME NEW t \in Tabs, Tab(t) PROVE RunTypes' /\ RunInv'
    BY <1>3 DEF Tab, Connect, Disconnect, TakeBacklog, WriteBacklog, WriteLine, ClearPane, runs
  <1>4. CASE Stop
    BY <1>4 DEF Stop, StopRun
  <1>5. CASE Shutdown
    BY <1>5 DEF Shutdown, StopRun
  <1>6. CASE Exit
    BY <1>6 DEF Exit, Gone
  <1>7. CASE NewRunner
    BY <1>7 DEF NewRunner, runs
  <1> QED BY SMTT(30), <1>1, <1>2, <1>3, <1>4, <1>5, <1>6, <1>7 DEF Next

-----------------------------------------------------------------------------
(* What a step does to the output and to the tabs.                         *)

\* One line of run r, and nothing else that a tab could see.
Emits(r) == Emit(r) /\ UNCHANGED <<life, conn, backlog, lastSeq, pane, offered>>

Quiet == UNCHANGED <<output, tabs>>

LEMMA Cases ==
    ASSUME Next
    PROVE  \/ \E r \in Runs : Emits(r) /\ (Announce(r) \/ UNCHANGED accepted)
           \/ \E r \in Runs : ResetRing(r)
           \/ \E t \in Tabs : Tab(t)
           \/ Exit \/ NewRunner
           \/ Quiet
  <1> USE DEF Emits, Quiet, tabs
  <1>1. ASSUME NEW r \in Runs, Supervise(r)
        PROVE  (Emits(r) /\ (Announce(r) \/ UNCHANGED accepted)) \/ ResetRing(r) \/ Quiet
    BY <1>1 DEF Supervise, Announce, Launch, LaunchFails, Deadline, KillTree, Wait, Finishes,
                LastLine, Finish
  <1>2. ASSUME NEW r \in Runs, Environment(r)
        PROVE  (Emits(r) /\ UNCHANGED accepted) \/ Quiet
    BY <1>2 DEF Environment, Claim, ProcessLine, TailLine, ProcessExits, PipesReleased
  <1>3. CASE Stop
    BY <1>3 DEF Stop, StopRun
  <1>4. CASE Shutdown
    BY <1>4 DEF Shutdown, StopRun
  <1> QED BY <1>1, <1>2, <1>3, <1>4, Zenon DEF Next

LEMMA OnMessageTypes ==
    ASSUME TabTypes, OutputTypes, NEW t \in Tabs, NEW l \in Line, OnMessage(t, l)
    PROVE  /\ pane' \in [Tabs -> Seq(Line)]
           /\ lastSeq' \in [Tabs -> Nat]
           /\ offered' \in [Tabs -> SUBSET Line]
  <1>1. l.seq \in Nat
    BY DEF Line
  <1>2. pane' \in [Tabs -> Seq(Line)] /\ lastSeq' \in [Tabs -> Nat]
    BY <1>1 DEF OnMessage, TabTypes
  <1>3. offered' \in [Tabs -> SUBSET Line]
    BY DEF OnMessage, TabTypes
  <1> QED BY <1>2, <1>3

LEMMA UnsubscribeTypes ==
    ASSUME TabTypes, OutputTypes, RunnerParameters, NEW ts, Unsubscribe(ts)
    PROVE  /\ conn' \in [Tabs -> {"off", "subscribed", "streaming"}]
           /\ backlog' \in [Tabs -> Seq(Line)]
           /\ offered' \in [Tabs -> SUBSET Line]
           /\ chan' \in [Tabs -> Seq(Line)] /\ \A t \in Tabs : Len(chan'[t]) <= ChanCap
           /\ overflowed' \in [Tabs -> BOOLEAN]
  <1>1. /\ conn' \in [Tabs -> {"off", "subscribed", "streaming"}]
        /\ backlog' \in [Tabs -> Seq(Line)]
        /\ offered' \in [Tabs -> SUBSET Line]
    BY DEF Unsubscribe, TabTypes
  <1>2. /\ chan' \in [Tabs -> Seq(Line)] /\ \A t \in Tabs : Len(chan'[t]) <= ChanCap
        /\ overflowed' \in [Tabs -> BOOLEAN]
    BY DEF Unsubscribe, OutputTypes, RunnerParameters
  <1> QED BY <1>1, <1>2

LEMMA TabStep ==
    ASSUME RunnerParameters, OutputTypes, TabTypes, NEW t \in Tabs, Tab(t)
    PROVE  OutputTypes' /\ TabTypes'
  <1>1. CASE Connect(t)
    BY <1>1 DEF Connect, OutputTypes, TabTypes, output
  <1>2. CASE Disconnect(t)
    <2>1. OutputTypes'
      BY <1>2, UnsubscribeTypes DEF Disconnect, OutputTypes
    <2> QED BY <1>2, <2>1, UnsubscribeTypes DEF Disconnect, TabTypes
  <1>3. CASE TakeBacklog(t)
    BY <1>3 DEF TakeBacklog, OutputTypes, TabTypes, output
  <1>4. CASE WriteBacklog(t)
    <2>1. Head(backlog[t]) \in Line /\ Tail(backlog[t]) \in Seq(Line)
      BY <1>4 DEF WriteBacklog, TabTypes
    <2>2. backlog' \in [Tabs -> Seq(Line)]
      BY <1>4, <2>1 DEF WriteBacklog, TabTypes
    <2>3. OutputTypes'
      BY <1>4 DEF WriteBacklog, OutputTypes, output
    <2> QED BY <1>4, <2>1, <2>2, <2>3, OnMessageTypes DEF WriteBacklog, TabTypes
  <1>5. CASE WriteLine(t)
    <2>1. Head(chan[t]) \in Line /\ Tail(chan[t]) \in Seq(Line) /\ Len(Tail(chan[t])) <= ChanCap
      BY <1>5 DEF WriteLine, OutputTypes, RunnerParameters
    <2>2. OutputTypes'
      BY <1>5, <2>1 DEF WriteLine, OutputTypes
    <2> QED BY <1>5, <2>1, <2>2, OnMessageTypes DEF WriteLine, TabTypes
  <1>6. CASE ClearPane(t)
    BY <1>6 DEF ClearPane, OutputTypes, TabTypes, output
  <1> QED BY <1>1, <1>2, <1>3, <1>4, <1>5, <1>6 DEF Tab

LEMMA TypesStep == ASSUME RunnerParameters, Types, RunInv, Next PROVE Types'
  <1> USE DEF Types
  <1>1. RunTypes'
    BY RunStep
  <1>2. ASSUME NEW r \in Runs, Emits(r), Announce(r) \/ UNCHANGED accepted
        PROVE  OutputTypes' /\ TabTypes'
    <2>1. OutputTypes'
      BY <1>2, EmitOutput DEF Emits
    <2>2. accepted' \in [Tabs -> BOOLEAN]
      BY <1>2 DEF Announce, TabTypes
    <2> QED BY <1>2, <2>1, <2>2 DEF Emits, TabTypes
  <1>3. ASSUME NEW r \in Runs, ResetRing(r) PROVE OutputTypes' /\ TabTypes'
    BY <1>3 DEF ResetRing, OutputTypes, TabTypes, tabs, RunnerParameters
  <1>4. CASE Exit
    <2>1. OutputTypes'
      BY <1>4, UnsubscribeTypes DEF Exit, OutputTypes
    <2> QED BY <1>1, <1>4, <2>1, UnsubscribeTypes DEF Exit, TabTypes
  <1>5. CASE NewRunner
    BY <1>1, <1>5 DEF NewRunner, OutputTypes, TabTypes, tabs, RunnerParameters
  <1>6. CASE Quiet
    BY <1>1, <1>6 DEF Quiet, OutputTypes, TabTypes, output, tabs
  <1> QED BY SMTT(30), <1>1, <1>2, <1>3, <1>4, <1>5, <1>6, TabStep, Cases

-----------------------------------------------------------------------------
(* The ring: whose lines it holds.                                         *)

\* The current run stays the current one, its ring has been reset, and a run
\* that has said its last stays silent.
SameRun ==
    /\ started' = started
    /\ started \in Runs /\ phase'[started] # "claimed" => phase[started] # "claimed"
    /\ \A q \in Runs : phase[q] = "done" => phase'[q] = "done"

LEMMA RingRuns == ASSUME Types PROVE \A k \in DOMAIN ring : ring[k].run \in Runs
  <1> SUFFICES ASSUME NEW k \in DOMAIN ring PROVE ring[k].run \in Runs
    OBVIOUS
  <1>1. ring[k] \in Line
    BY DEF Types, OutputTypes
  <1> QED BY <1>1 DEF Line

LEMMA RingSame ==
    ASSUME RunnerParameters, Types, RingInv, SameRun, ring' = ring
    PROVE  RingInv'
  <1>1. started > 0 => started \in Runs
    BY DEF RunnerParameters, Types, RunTypes, Runs
  <1> QED BY <1>1, RingRuns DEF RingInv, SameRun

LEMMA RingGrows ==
    ASSUME RunnerParameters, Types, RingInv, SameRun, NEW r \in Runs, Emit(r),
           r = started \/ (phase[r] # "done" /\ phase'[r] = "done")
    PROVE  RingInv'
  <1> SUFFICES ASSUME started > 0, phase'[started] # "claimed",
                      NEW i \in DOMAIN ring'
               PROVE  /\ ring'[i].run # started => phase'[ring'[i].run] = "done"
                      /\ \A j \in DOMAIN ring' :
                          ring'[i].run = ring'[j].run /\ ring'[i].run # started => i = j
    BY DEF RingInv, SameRun
  <1>0. started \in Runs
    BY DEF RunnerParameters, Types, RunTypes, Runs
  <1>1. PICK d \in {0, 1} : Shifted(r, d)
    BY EmitRing DEF Types
  <1>2. \A k \in DOMAIN ring : ring[k].run \in Runs
    BY RingRuns
  <1>3. /\ \A k \in DOMAIN ring : ring[k].run # started => phase[ring[k].run] = "done"
        /\ \A k, m \in DOMAIN ring :
            ring[k].run = ring[m].run /\ ring[k].run # started => k = m
    BY <1>0 DEF RingInv, SameRun
  <1>4. NewLine(r).run = r
    BY DEF NewLine
  <1>5. Len(ring) \in Nat /\ DOMAIN ring = 1..Len(ring)
    BY DEF Types, OutputTypes
  <1>6. ring' \in Seq(Line)
    BY EmitRing DEF Types
  <1>7. DOMAIN ring' \subseteq Nat
    BY <1>6
  <1>8. ring'[i].run # started => phase'[ring'[i].run] = "done"
    BY SMTT(30), <1>1, <1>2, <1>3, <1>4, <1>5 DEF Shifted, SameRun
  <1>9. ASSUME NEW j \in DOMAIN ring', ring'[i].run = ring'[j].run, ring'[i].run # started
        PROVE  i = j
    BY SMTT(30), <1>1, <1>2, <1>3, <1>4, <1>5, <1>7, <1>9 DEF Shifted, SameRun
  <1> QED BY <1>8, <1>9

LEMMA RingStep == ASSUME RunnerParameters, Types, RunInv, RingInv, Next PROVE RingInv'
  <1> USE DEF SameRun, Busy
  <1>0. phase \in [Runs -> Busy \cup {"new", "finished", "done"}]
    BY DEF Types, RunTypes
  <1>1. ASSUME NEW r \in Runs, phase[r] \in Busy, Emit(r), started' = started,
               phase' = phase \/ (phase[r] # "claimed" /\ \E x : phase' = [phase EXCEPT ![r] = x])
        PROVE  RingInv'
    <2>1. r = started
      BY <1>1 DEF RunInv
    <2>2. SameRun
      BY <1>0, <1>1, <2>1
    <2> QED BY <1>1, <2>1, <2>2, RingGrows
  <1>2. ASSUME NEW r \in Runs, Supervise(r) PROVE RingInv'
    <2>1. CASE ResetRing(r)
      BY <2>1 DEF ResetRing, RingInv
    <2>2. CASE Announce(r)
      BY ZenonT(30), <1>1, <2>2 DEF Announce
    <2>3. CASE LastLine(r)
      <3>1. SameRun /\ phase[r] # "done" /\ phase'[r] = "done" /\ Emit(r)
        BY <1>0, <2>3 DEF LastLine
      <3> QED BY <3>1, RingGrows
    <2>4. CASE Launch(r) \/ LaunchFails(r) \/ Deadline(r) \/ KillTree(r) \/ Wait(r) \/ Finishes(r)
      <3>1. SameRun /\ ring' = ring
        BY <1>0, <2>4
           DEF Launch, LaunchFails, Deadline, KillTree, Wait, Finishes, Finish, Doomed, output
      <3> QED BY <3>1, RingSame
    <2> QED BY SMTT(30), <1>2, <2>1, <2>2, <2>3, <2>4 DEF Supervise
  <1>3. ASSUME NEW r \in Runs, Environment(r) PROVE RingInv'
    <2>1. CASE Claim(r)
      BY SMTT(30), <1>0, <2>1 DEF Claim, RingInv
    <2>2. CASE ProcessLine(r) \/ TailLine(r)
      BY SMTT(30), <1>1, <2>2 DEF ProcessLine, TailLine
    <2>3. CASE ProcessExits(r) \/ PipesReleased(r)
      <3>1. SameRun /\ ring' = ring
        BY <2>3 DEF ProcessExits, PipesReleased, output
      <3> QED BY <3>1, RingSame
    <2> QED BY SMTT(30), <1>3, <2>1, <2>2, <2>3 DEF Environment
  <1>4. ASSUME NEW t \in Tabs, Tab(t) PROVE RingInv'
    <2>1. SameRun /\ ring' = ring
      BY <1>4 DEF Tab, Connect, Disconnect, TakeBacklog, WriteBacklog, WriteLine, ClearPane, runs,
                  output
    <2> QED BY SMTT(30), <2>1, RingSame
  <1>5. ASSUME StopRun, UNCHANGED <<started, phase>> PROVE RingInv'
    <2>1. CASE UNCHANGED output
      <3>1. SameRun /\ ring' = ring
        BY <1>5, <2>1 DEF output
      <3> QED BY <3>1, RingSame
    <2> QED BY <1>1, <1>5, <2>1 DEF StopRun
  <1>6. CASE Stop \/ Shutdown
    BY SMTT(30), <1>5, <1>6 DEF Stop, Shutdown
  <1>7. CASE Exit
    <2>1. SameRun /\ ring' = ring
      BY SMTT(30), <1>0, <1>7 DEF Exit, Gone, Types, RunTypes, RunnerParameters, Runs
    <2> QED BY <2>1, RingSame
  <1>8. CASE NewRunner
    BY <1>8 DEF NewRunner, RingInv
  <1> QED BY SMTT(30), <1>2, <1>3, <1>4, <1>6, <1>7, <1>8 DEF Next

-----------------------------------------------------------------------------
(* The stream: where the lines of the ring are.                            *)

LEMMA StreamEmit ==
    ASSUME RunnerParameters, Types, StreamInv, NEW r \in Runs, Emits(r)
    PROVE  StreamInv'
  <1> SUFFICES ASSUME NEW t \in Tabs, conn[t] = "streaming", ~overflowed'[t], NEW i \in DOMAIN ring'
               PROVE  ring'[i] \in offered[t] \cup Range(backlog[t]) \cup Range(chan'[t])
    BY DEF StreamInv, Emits, Range
  <1>1. PICK d \in {0, 1} : Shifted(r, d)
    BY EmitRing DEF Types, Emits
  <1>2. ~overflowed[t] /\ chan'[t] = Append(chan[t], NewLine(r))
    BY DEF Emits, Emit, NewLine, Types, OutputTypes
  <1>3. chan[t] \in Seq(Line) /\ NewLine(r) \in Line
    BY NewLineType DEF Types, OutputTypes
  <1>4. Range(chan[t]) \subseteq Range(chan'[t]) /\ NewLine(r) \in Range(chan'[t])
    BY <1>2, <1>3 DEF Range
  <1>5. ASSUME NEW k \in DOMAIN ring
        PROVE  ring[k] \in offered[t] \cup Range(backlog[t]) \cup Range(chan[t])
    BY <1>2, <1>5 DEF StreamInv, Range
  <1> QED BY SMTT(30), <1>1, <1>4, <1>5 DEF Shifted

\* A line that is written moves from its queue to what the tab was offered.
LEMMA Written ==
    ASSUME NEW q \in Seq(Line), q # <<>>
    PROVE  Range(q) \subseteq {Head(q)} \cup Range(Tail(q))
  <1> SUFFICES ASSUME NEW i \in 1..Len(q), i # 1 PROVE q[i] \in Range(Tail(q))
    BY DEF Range
  <1>1. i - 1 \in DOMAIN Tail(q) /\ Tail(q)[i - 1] = q[i]
    OBVIOUS
  <1> QED BY <1>1 DEF Range

LEMMA StreamTab ==
    ASSUME Types, StreamInv, NEW u \in Tabs, Tab(u)
    PROVE  StreamInv'
  <1> USE DEF Types, OutputTypes, TabTypes, output
  <1>1. CASE Connect(u)
    BY <1>1 DEF Connect, StreamInv
  <1>2. CASE Disconnect(u)
    BY <1>2 DEF Disconnect, Unsubscribe, StreamInv
  <1>3. CASE TakeBacklog(u)
    BY <1>3 DEF TakeBacklog, StreamInv
  <1>4. CASE WriteBacklog(u)
    <2>1. Range(backlog[u]) \subseteq {Head(backlog[u])} \cup Range(backlog'[u])
      BY <1>4, Written DEF WriteBacklog
    <2>2. offered' = [offered EXCEPT ![u] = (@ \cup {Head(backlog[u])}) \cap Range(ring)]
      BY <1>4 DEF WriteBacklog, OnMessage
    <2>3. backlog' = [backlog EXCEPT ![u] = Tail(@)] /\ UNCHANGED <<conn, chan, overflowed, ring>>
      BY <1>4 DEF WriteBacklog
    <2> QED BY SMTT(30), <2>1, <2>2, <2>3 DEF StreamInv
  <1>5. CASE WriteLine(u)
    <2>1. Range(chan[u]) \subseteq {Head(chan[u])} \cup Range(chan'[u])
      BY <1>5, Written DEF WriteLine
    <2>2. offered' = [offered EXCEPT ![u] = (@ \cup {Head(chan[u])}) \cap Range(ring)]
      BY <1>5 DEF WriteLine, OnMessage
    <2>3. chan' = [chan EXCEPT ![u] = Tail(@)] /\ UNCHANGED <<conn, backlog, overflowed, ring>>
      BY <1>5 DEF WriteLine
    <2> QED BY <2>1, <2>2, <2>3 DEF StreamInv
  <1>6. CASE ClearPane(u)
    BY <1>6 DEF ClearPane, StreamInv
  <1> QED BY <1>1, <1>2, <1>3, <1>4, <1>5, <1>6 DEF Tab

LEMMA StreamStep == ASSUME RunnerParameters, Types, StreamInv, Next PROVE StreamInv'
  <1>1. ASSUME NEW r \in Runs, ResetRing(r) PROVE StreamInv'
    BY <1>1 DEF ResetRing, StreamInv, Range
  <1>2. CASE Exit
    BY SMTT(30), <1>2 DEF Exit, Unsubscribe, StreamInv
  <1>3. CASE NewRunner
    BY <1>3 DEF NewRunner, StreamInv, Range
  <1>4. CASE Quiet
    BY <1>4 DEF Quiet, output, tabs, StreamInv
  <1> QED BY SMTT(30), <1>1, <1>2, <1>3, <1>4, StreamEmit, StreamTab, Cases

-----------------------------------------------------------------------------
(* The pane: a tab prints what is newer than all it shows.                 *)

LEMMA PaneMessage ==
    ASSUME TabTypes, PaneInv, NEW u \in Tabs, NEW l \in Line, OnMessage(u, l)
    PROVE  PaneInv'
  <1>1. CASE ~Fresh(u, l)
    BY <1>1 DEF OnMessage, PaneInv
  <1>2. CASE Fresh(u, l)
    <2>1. /\ lastSeq' = [lastSeq EXCEPT ![u] = l.seq]
          /\ pane' = [pane EXCEPT ![u] = Append(@, l)]
          /\ l.seq > lastSeq[u]
      BY <1>2 DEF OnMessage, Fresh
    <2>2. ASSUME NEW t \in Tabs, t # u
          PROVE  pane'[t] = pane[t] /\ lastSeq'[t] = lastSeq[t]
      BY <2>1, <2>2 DEF TabTypes
    <2>3. /\ pane[u] \in Seq(Line) /\ lastSeq[u] \in Nat /\ lastSeq'[u] = l.seq /\ l.seq \in Nat
          /\ pane'[u] = Append(pane[u], l)
      BY <2>1 DEF TabTypes, Line
    <2>4. \A i \in DOMAIN pane[u] : pane[u][i].seq \in Nat
      <3> SUFFICES ASSUME NEW i \in DOMAIN pane[u] PROVE pane[u][i].seq \in Nat
        OBVIOUS
      <3>1. pane[u][i] \in Line
        BY <2>3
      <3> QED BY <3>1 DEF Line
    <2>5. ASSUME NEW i \in DOMAIN pane'[u]
          PROVE  /\ pane'[u][i].seq <= lastSeq'[u]
                 /\ \A j \in DOMAIN pane'[u] : i < j => pane'[u][i].seq < pane'[u][j].seq
      <3> DEFINE n == Len(pane[u])
      <3>1. /\ n \in Nat /\ DOMAIN pane[u] = 1..n /\ DOMAIN pane'[u] = 1..(n + 1)
            /\ pane'[u][n + 1] = l
            /\ \A k \in 1..n : pane'[u][k] = pane[u][k]
        BY <2>3
      <3>2. \A k \in 1..n :
              /\ pane[u][k].seq <= lastSeq[u]
              /\ \A j \in 1..n : k < j => pane[u][k].seq < pane[u][j].seq
        BY SMTT(30), <3>1 DEF PaneInv
      <3> HIDE DEF n
      <3> QED BY SMTT(30), <3>1, <3>2, <2>1, <2>3, <2>4
    <2> QED BY <2>2, <2>5 DEF PaneInv
  <1> QED BY <1>1, <1>2

LEMMA PaneStep == ASSUME RunnerParameters, Types, PaneInv, Next PROVE PaneInv'
  <1> USE DEF PaneInv
  <1>1. ASSUME NEW t \in Tabs, Tab(t) PROVE PaneInv'
    <2>1. CASE Connect(t) \/ Disconnect(t) \/ TakeBacklog(t)
      BY SMTT(30), <2>1 DEF Connect, Disconnect, TakeBacklog
    <2>2. CASE WriteBacklog(t)
      <3>1. Head(backlog[t]) \in Line
        BY <2>2 DEF WriteBacklog, Types, TabTypes
      <3> QED BY <2>2, <3>1, PaneMessage DEF WriteBacklog, Types
    <2>3. CASE WriteLine(t)
      <3>1. Head(chan[t]) \in Line
        BY <2>3 DEF WriteLine, Types, OutputTypes
      <3> QED BY <2>3, <3>1, PaneMessage DEF WriteLine, Types
    <2>4. CASE ClearPane(t)
      BY <2>4 DEF ClearPane, Types, TabTypes
    <2> QED BY SMTT(30), <1>1, <2>1, <2>2, <2>3, <2>4 DEF Tab
  <1>2. ASSUME UNCHANGED <<pane, lastSeq>> PROVE PaneInv'
    BY <1>2
  <1>3. (\E r \in Runs : Emits(r) \/ ResetRing(r)) \/ Exit \/ NewRunner \/ Quiet
          => UNCHANGED <<pane, lastSeq>>
    BY DEF Emits, ResetRing, Exit, NewRunner, Quiet, tabs
  <1> QED BY SMTT(30), <1>1, <1>2, <1>3, Cases

-----------------------------------------------------------------------------
LEMMA NextIInv == ASSUME RunnerParameters, IInv, [Next]_vars PROVE IInv'
  <1>1. CASE Next
    BY SMTT(30), <1>1, TypesStep, RunStep, RingStep, StreamStep, PaneStep DEF IInv, Types
  <1>2. CASE UNCHANGED vars
    <2> USE <1>2 DEF vars, runs, output, tabs
    <2>1. Types'
      BY DEF IInv, Types, RunTypes, OutputTypes, TabTypes
    <2>2. RunInv' /\ RingInv'
      BY DEF IInv, RunInv, RingInv
    <2>3. StreamInv' /\ PaneInv'
      BY DEF IInv, StreamInv, PaneInv
    <2> QED BY SMTT(30), <2>1, <2>2, <2>3 DEF IInv
  <1> QED BY <1>1, <1>2

\* The invariant above holds of every behaviour of the console.
THEOREM RunnerInvariant == ASSUME RunnerParameters PROVE Spec => []IInv
  <1>1. Init => IInv
    BY InitIInv
  <1>2. IInv /\ [Next]_vars => IInv'
    BY NextIInv
  <1> QED BY <1>1, <1>2, PTL DEF Spec

\* Types: the ring keeps to maxRing and every channel to its capacity.
THEOREM RunnerTypes == ASSUME RunnerParameters PROVE Spec => []TypeOK
  <1>1. IInv => TypeOK
    BY DEF IInv, Types, RunTypes, OutputTypes, TabTypes, TypeOK
  <1> QED BY <1>1, RunnerInvariant, PTL

\* start, supervise, finish: the lock covers the processes of a run.
THEOREM OneRunAtATime == ASSUME RunnerParameters PROVE Spec => []OneAtATime
  <1>1. IInv => OneAtATime
    BY DEF IInv, RunInv, OneAtATime, Busy
  <1> QED BY <1>1, RunnerInvariant, PTL

\* start, finish: of an earlier run the ring holds at most the last line.
THEOREM StrayLineIsLast == ASSUME RunnerParameters PROVE Spec => []StrayIsLastLine
  <1>1. IInv => StrayIsLastLine
    BY SMTT(30) DEF IInv, RingInv, StrayIsLastLine
  <1> QED BY <1>1, RunnerInvariant, PTL

\* stream: subscribing before the snapshot leaves no gap.
THEOREM StreamHasNoGap == ASSUME RunnerParameters PROVE Spec => []NothingBetween
  <1>1. IInv => NothingBetween
    BY DEF IInv, StreamInv, NothingBetween, Range
  <1> QED BY <1>1, RunnerInvariant, PTL

\* onmessage: a pane shows no line twice and none out of order.
THEOREM PanesAscend == ASSUME RunnerParameters PROVE Spec => []PaneInOrder
  <1>1. IInv => PaneInOrder
    BY DEF IInv, PaneInv, PaneInOrder
  <1> QED BY <1>1, RunnerInvariant, PTL
=============================================================================
