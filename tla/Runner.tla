------------------------------- MODULE Runner -------------------------------
(***************************************************************************)
(* cmd/console: the runner that executes one allowlisted action at a time,  *)
(* the ring of recent output lines, the server-sent-event streams that feed *)
(* the browser tabs, and the tabs' own bookkeeping (ui/console.js).         *)
(*                                                                          *)
(* A run of an action is a number.  A line is its sequence number, the run  *)
(* that emitted it and the console process (its life) that numbered it.     *)
(* Every step below is one critical section of runner.mu or runner.subsMu,  *)
(* one wake-up of os/exec, or one message handled by a tab.                 *)
(***************************************************************************)
EXTENDS Naturals, Sequences, Functions, FiniteSets

CONSTANTS
    Tabs,        \* browser tabs
    MaxRing,     \* runner.maxRing
    ChanCap,     \* capacity of a subscriber's channel
    MaxRuns,     \* bound on the actions started
    MaxLines,    \* bound on the lines from processes, reports and repeated stops
    MaxLives     \* bound on the console processes, one after the other

\* What a model gives the constants.
RunnerParameters ==
    /\ MaxRing \in Nat \ {0} /\ ChanCap \in Nat \ {0}
    /\ MaxRuns \in Nat /\ MaxLines \in Nat /\ MaxLives \in Nat \ {0}

Runs == 1..MaxRuns

VARIABLES
    life, up,     \* which console process this is; "up", "stopping" or "down"
    started,      \* actions started so far; the last one is the current run
    phase,        \* how far start and supervise have come with a run
    ctx,          \* a run's context: "live", or "done" by stop or by timeout
    alive,        \* the run's process group exists
    holder,       \* a descendant outside the group holds the output pipes
    lines,        \* lines that MaxLines counts
    ring, seq,
    conn,         \* a tab's stream: "off", "subscribed" or "streaming"
    chan,         \* its subscription channel
    backlog,      \* snapshot lines the stream handler has still to write
    lastSeq, pane,\* the tab's state.lastSeq and output pane
    accepted,     \* the 202 for the tab's POST /api/run is under way
    \* history
    starter,      \* the tab that started a run
    offered,      \* lines of the ring written to the tab on this connection
    overflowed    \* a line found the tab's channel full on this connection

runs == <<started, starter, phase, ctx, alive, holder, lines>>
output == <<ring, seq, chan, overflowed>>
tabs == <<conn, backlog, lastSeq, pane, accepted, offered>>
vars == <<life, up, runs, output, tabs>>

Line == [seq : Nat, run : Runs, life : 1..MaxLives]

\* state.Running holds exactly in these phases of a run.
Busy == {"claimed", "reset", "launch", "running", "waited"}

Init ==
    /\ life = 1 /\ up = "up"
    /\ started = 0
    /\ phase = [r \in Runs |-> "new"]
    /\ ctx = [r \in Runs |-> "live"]
    /\ alive = [r \in Runs |-> FALSE]
    /\ holder = [r \in Runs |-> FALSE]
    /\ lines = 0
    /\ starter \in [Runs -> Tabs]
    /\ ring = <<>> /\ seq = 0
    /\ conn = [t \in Tabs |-> "off"]
    /\ chan = [t \in Tabs |-> <<>>]
    /\ backlog = [t \in Tabs |-> <<>>]
    /\ lastSeq = [t \in Tabs |-> 0]
    /\ pane = [t \in Tabs |-> <<>>]
    /\ accepted = [t \in Tabs |-> FALSE]
    /\ offered = [t \in Tabs |-> {}]
    /\ overflowed = [t \in Tabs |-> FALSE]

-----------------------------------------------------------------------------
(* emit, under subsMu: number the line, keep it in the ring, offer it to    *)
(* every subscriber that has room.                                          *)

Recent(all) == IF Len(all) > MaxRing THEN Tail(all) ELSE all

Emit(r) ==
    LET l == [seq |-> seq + 1, run |-> r, life |-> life]
        all == Append(ring, l)
        subs == {t \in Tabs : conn[t] # "off"}
        room == {t \in subs : Len(chan[t]) < ChanCap}
    IN  /\ seq' = seq + 1
        /\ ring' = Recent(all)
        /\ chan' = [t \in Tabs |-> IF t \in room THEN Append(chan[t], l) ELSE chan[t]]
        /\ overflowed' = [t \in Tabs |-> overflowed[t] \/ t \in subs \ room]

-----------------------------------------------------------------------------
(* start, on the goroutine of POST /api/run.                               *)

\* Mutation of Idle: the check and the claim are not one critical section, so
\* a second request passes while the first has yet to reset the ring.
IdleUnlocked == \A r \in Runs : phase[r] \notin Busy \ {"claimed"}

\* ~state.Running; a start that finds it set answers 409 and changes nothing.
Idle == \A r \in Runs : phase[r] \notin Busy

\* Under mu: check Running, take the lock, create the context.  A request that
\* was under way when the signal came is still served.
Claim(r) ==
    /\ up # "down"
    /\ r = started + 1
    /\ Idle
    /\ started' = r
    /\ phase' = [phase EXCEPT ![r] = "claimed"]
    /\ UNCHANGED <<life, up, starter, ctx, alive, holder, lines, output, tabs>>

\* Mutation of ResetRing: the previous run's output stays.
KeepRing(r) ==
    /\ phase[r] = "claimed"
    /\ phase' = [phase EXCEPT ![r] = "reset"]
    /\ UNCHANGED <<life, up, started, starter, ctx, alive, holder, lines, output, tabs>>

ResetRing(r) ==
    /\ phase[r] = "claimed"
    /\ phase' = [phase EXCEPT ![r] = "reset"]
    /\ ring' = <<>>
    /\ UNCHANGED <<life, up, started, starter, ctx, alive, holder, lines>>
    /\ UNCHANGED <<seq, chan, overflowed, tabs>>

\* The "$ command" line, then the goroutine of supervise and the 202.
Announce(r) ==
    /\ phase[r] = "reset"
    /\ phase' = [phase EXCEPT ![r] = "launch"]
    /\ Emit(r)
    /\ accepted' = [accepted EXCEPT ![starter[r]] = TRUE]
    /\ UNCHANGED <<life, up, started, starter, ctx, alive, holder, lines>>
    /\ UNCHANGED <<conn, backlog, lastSeq, pane, offered>>

-----------------------------------------------------------------------------
(* supervise                                                               *)

\* cmd.Start, which refuses a context that is already done.
Launch(r) ==
    /\ phase[r] = "launch"
    /\ ctx[r] = "live"
    /\ phase' = [phase EXCEPT ![r] = "running"]
    /\ alive' = [alive EXCEPT ![r] = TRUE]
    /\ \E held \in BOOLEAN : holder' = [holder EXCEPT ![r] = held]
    /\ UNCHANGED <<life, up, started, starter, ctx, lines, output, tabs>>

\* finish, under mu: Running becomes FALSE.  Its line follows in LastLine.
Finish(r) ==
    /\ phase' = [phase EXCEPT ![r] = "finished"]
    /\ UNCHANGED <<life, up, started, starter, ctx, alive, holder, lines, output, tabs>>

\* The context was done already, or the executable is not on the PATH.
LaunchFails(r) == phase[r] = "launch" /\ Finish(r)

\* lineWriter: while anything holds the pipes, complete lines are emitted.
ProcessLine(r) ==
    /\ phase[r] = "running"
    /\ alive[r] \/ holder[r]
    /\ lines < MaxLines
    /\ lines' = lines + 1
    /\ Emit(r)
    /\ UNCHANGED <<life, up, started, starter, phase, ctx, alive, holder, tabs>>

\* flush of an unterminated last line, and appendReport.
TailLine(r) ==
    /\ phase[r] = "waited"
    /\ lines < MaxLines
    /\ lines' = lines + 1
    /\ Emit(r)
    /\ UNCHANGED <<life, up, started, starter, phase, ctx, alive, holder, tabs>>

\* The process exits by itself.  The scripts wait for what they start, so the
\* group goes with it.
ProcessExits(r) ==
    /\ alive[r]
    /\ alive' = [alive EXCEPT ![r] = FALSE]
    /\ UNCHANGED <<life, up, started, starter, phase, ctx, holder, lines, output, tabs>>

PipesReleased(r) ==
    /\ phase[r] = "running" /\ holder[r]
    /\ holder' = [holder EXCEPT ![r] = FALSE]
    /\ UNCHANGED <<life, up, started, starter, phase, ctx, alive, lines, output, tabs>>

Deadline(r) ==
    /\ phase[r] \in Busy
    /\ ctx[r] = "live"
    /\ ctx' = [ctx EXCEPT ![r] = "done"]
    /\ UNCHANGED <<life, up, started, starter, phase, alive, holder, lines, output, tabs>>

\* cmd.Cancel, called by os/exec's own goroutine once the context is done.
Doomed(r) == phase[r] = "running" /\ ctx[r] # "live" /\ alive[r]
KillTree(r) ==
    /\ Doomed(r)
    /\ alive' = [alive EXCEPT ![r] = FALSE]
    /\ UNCHANGED <<life, up, started, starter, phase, ctx, holder, lines, output, tabs>>

\* Mutation of PipesDone: without WaitDelay, Wait waits for every pipe holder.
PipesNeeded(r) == ~holder[r]

\* WaitDelay: once the process has gone, the pipes are given up on.
PipesDone(r) == TRUE

Wait(r) ==
    /\ phase[r] = "running"
    /\ ~alive[r]
    /\ PipesDone(r)
    /\ phase' = [phase EXCEPT ![r] = "waited"]
    /\ holder' = [holder EXCEPT ![r] = FALSE]
    /\ UNCHANGED <<life, up, started, starter, ctx, alive, lines, output, tabs>>

Finishes(r) == phase[r] = "waited" /\ Finish(r)

\* finish after its Unlock: "-- label finished --" or "-- label failed --".
LastLine(r) ==
    /\ phase[r] = "finished"
    /\ phase' = [phase EXCEPT ![r] = "done"]
    /\ ctx' = [ctx EXCEPT ![r] = "done"]
    /\ Emit(r)
    /\ UNCHANGED <<life, up, started, starter, alive, holder, lines, tabs>>

\* stop, under mu throughout: announce and cancel the current run.
StopRun ==
    \/ /\ Idle
       /\ UNCHANGED <<ctx, output>>
    \/ \E r \in Runs :
        /\ phase[r] \in Busy
        /\ Emit(r)
        /\ ctx' = [ctx EXCEPT ![r] = "done"]

\* POST /api/stop.  An idle runner answers 409; a second stop adds only a line.
Stop ==
    /\ up # "down"
    /\ ~Idle
    /\ StopRun
    /\ IF ctx' = ctx THEN lines < MaxLines /\ lines' = lines + 1 ELSE UNCHANGED lines
    /\ UNCHANGED <<life, up, started, starter, phase, alive, holder, tabs>>

-----------------------------------------------------------------------------
(* stream and connectStream                                                *)

Connect(t) ==
    /\ up # "down"
    /\ conn[t] = "off"
    /\ conn' = [conn EXCEPT ![t] = "subscribed"]
    /\ UNCHANGED <<life, up, runs, output, backlog, lastSeq, pane, accepted, offered>>

\* Mutation of TakeBacklog: the snapshot was taken first, so what has come in
\* since is neither in it nor in the channel.
TakeBacklogThenSubscribe(t) ==
    /\ conn[t] = "subscribed"
    /\ conn' = [conn EXCEPT ![t] = "streaming"]
    /\ backlog' = [backlog EXCEPT ![t] = SelectSeq(ring, LAMBDA l : l \notin Range(chan[t]))]
    /\ chan' = [chan EXCEPT ![t] = <<>>]
    /\ UNCHANGED <<life, up, runs, ring, seq, overflowed, lastSeq, pane, accepted, offered>>

\* snapshot: what a new stream replays is the whole ring.
TakeBacklog(t) ==
    /\ conn[t] = "subscribed"
    /\ conn' = [conn EXCEPT ![t] = "streaming"]
    /\ backlog' = [backlog EXCEPT ![t] = ring]
    /\ UNCHANGED <<life, up, runs, output, lastSeq, pane, accepted, offered>>

\* Mutation of Fresh: onmessage prints whatever arrives.
FreshAlways(t, l) == TRUE

\* onmessage: a line the tab has seen is not printed again.
Fresh(t, l) == l.seq > lastSeq[t]

OnMessage(t, l) ==
    /\ offered' = [offered EXCEPT ![t] = (@ \cup {l}) \cap Range(ring)]
    /\ lastSeq' = IF Fresh(t, l) THEN [lastSeq EXCEPT ![t] = l.seq] ELSE lastSeq
    /\ pane' = IF Fresh(t, l) THEN [pane EXCEPT ![t] = Append(@, l)] ELSE pane

\* The handler writes the backlog first and then what the channel holds.
WriteBacklog(t) ==
    /\ conn[t] = "streaming"
    /\ backlog[t] # <<>>
    /\ OnMessage(t, Head(backlog[t]))
    /\ backlog' = [backlog EXCEPT ![t] = Tail(@)]
    /\ UNCHANGED <<life, up, runs, output, conn, accepted>>

WriteLine(t) ==
    /\ conn[t] = "streaming"
    /\ backlog[t] = <<>>
    /\ chan[t] # <<>>
    /\ OnMessage(t, Head(chan[t]))
    /\ chan' = [chan EXCEPT ![t] = Tail(@)]
    /\ UNCHANGED <<life, up, runs, ring, seq, overflowed, conn, backlog, accepted>>

\* The handlers of these tabs return, and what they held is gone.
Unsubscribe(ts) ==
    /\ conn' = [t \in Tabs |-> IF t \in ts THEN "off" ELSE conn[t]]
    /\ chan' = [t \in Tabs |-> IF t \in ts THEN <<>> ELSE chan[t]]
    /\ backlog' = [t \in Tabs |-> IF t \in ts THEN <<>> ELSE backlog[t]]
    /\ offered' = [t \in Tabs |-> IF t \in ts THEN {} ELSE offered[t]]
    /\ overflowed' = [t \in Tabs |-> overflowed[t] /\ t \notin ts]

\* The connection breaks: unsubscribe; EventSource comes back with Connect.
Disconnect(t) ==
    /\ conn[t] # "off"
    /\ Unsubscribe({t})
    /\ UNCHANGED <<life, up, runs, ring, seq, lastSeq, pane, accepted>>

\* run() in the tab, after the 202: empty the pane and forget lastSeq.
ClearPane(t) ==
    /\ accepted[t]
    /\ accepted' = [accepted EXCEPT ![t] = FALSE]
    /\ pane' = [pane EXCEPT ![t] = <<>>]
    /\ lastSeq' = [lastSeq EXCEPT ![t] = 0]
    /\ UNCHANGED <<life, up, runs, output, conn, backlog, offered>>

-----------------------------------------------------------------------------
(* The console process                                                     *)

\* SIGINT or SIGTERM: main calls stop and closes the listener.
Shutdown ==
    /\ up = "up"
    /\ up' = "stopping"
    /\ StopRun
    /\ UNCHANGED <<life, started, starter, phase, alive, holder, lines, tabs>>

\* srv.Shutdown returns at once when no request is open and after 5 s at the
\* latest, time enough for a kill.
ShutdownReturns ==
    \/ \A t \in Tabs : conn[t] = "off"
    \/ \A r \in Runs : ~Doomed(r)

Gone(r) == phase[r] \in {"new", "done"}
Exit ==
    /\ up = "stopping"
    /\ \A r \in Runs : phase[r] \notin {"claimed", "reset"}
    /\ ShutdownReturns
    /\ up' = "down"
    /\ phase' = [r \in Runs |-> IF Gone(r) THEN phase[r] ELSE "done"]
    /\ Unsubscribe(Tabs)
    /\ UNCHANGED <<life, started, starter, ctx, alive, holder, lines>>
    /\ UNCHANGED <<ring, seq, lastSeq, pane, accepted>>

\* newRunner: an empty ring, and sequence numbers from the start again.
NewRunner ==
    /\ up = "down"
    /\ life < MaxLives
    /\ life' = life + 1
    /\ up' = "up"
    /\ ring' = <<>> /\ seq' = 0
    /\ UNCHANGED <<runs, chan, overflowed, tabs>>

-----------------------------------------------------------------------------
Supervise(r) ==
    \/ ResetRing(r) \/ Announce(r)
    \/ Launch(r) \/ LaunchFails(r)
    \/ Deadline(r) \/ KillTree(r)
    \/ Wait(r) \/ Finishes(r) \/ LastLine(r)

Environment(r) ==
    \/ Claim(r)
    \/ ProcessLine(r) \/ TailLine(r)
    \/ ProcessExits(r) \/ PipesReleased(r)

Tab(t) ==
    \/ Connect(t) \/ Disconnect(t)
    \/ TakeBacklog(t) \/ WriteBacklog(t) \/ WriteLine(t)
    \/ ClearPane(t)

Next ==
    \/ \E r \in Runs : Supervise(r) \/ Environment(r)
    \/ \E t \in Tabs : Tab(t)
    \/ Stop \/ Shutdown \/ Exit \/ NewRunner

Spec == Init /\ [][Next]_vars

\* The goroutines of start, supervise and os/exec run, timers fire, and a
\* shutdown ends.  No process need exit and no pipe need be released.
Fairness == (\A r \in Runs : WF_vars(Supervise(r))) /\ WF_vars(Exit)

FairSpec == Spec /\ Fairness

-----------------------------------------------------------------------------
(* Properties                                                              *)

\* Types of the state.
TypeOK ==
    /\ life \in 1..MaxLives /\ up \in {"up", "stopping", "down"}
    /\ started \in 0..MaxRuns
    /\ phase \in [Runs -> Busy \cup {"new", "finished", "done"}]
    /\ ctx \in [Runs -> {"live", "done"}]
    /\ alive \in [Runs -> BOOLEAN] /\ holder \in [Runs -> BOOLEAN]
    /\ lines \in 0..MaxLines
    /\ starter \in [Runs -> Tabs]
    /\ ring \in Seq(Line) /\ Len(ring) <= MaxRing
    /\ seq \in Nat
    /\ conn \in [Tabs -> {"off", "subscribed", "streaming"}]
    /\ \A t \in Tabs :
        /\ chan[t] \in Seq(Line) /\ Len(chan[t]) <= ChanCap
        /\ backlog[t] \in Seq(Line) /\ pane[t] \in Seq(Line)
        /\ lastSeq[t] \in Nat
        /\ offered[t] \subseteq Line
    /\ accepted \in [Tabs -> BOOLEAN] /\ overflowed \in [Tabs -> BOOLEAN]

\* runner.go: "One at a time is a correctness requirement."  While a console
\* is up, the process groups of two of its runs never exist together, and none
\* exists once Running is FALSE: start's check, cmd.Wait before finish, and
\* killTree's reach together make the lock cover the processes.
OneAtATime ==
    \A r \in Runs : alive[r] /\ phase[r] # "done" => phase[r] = "running" /\ r = started

\* start: "Clear the previous run's output rather than appending to it."  Once
\* the ring is reset it holds lines of the current run, and of an earlier run at
\* most the last one, which finish emits after it has given the lock back.
StrayIsLastLine ==
    started > 0 /\ phase[started] # "claimed" =>
        \A i, j \in DOMAIN ring :
            ring[i].run = ring[j].run /\ ring[i].run # started => i = j

\* stream: subscribing before the snapshot leaves no line in between.  A tab
\* that has been written everything its handler holds has been offered every
\* line of the ring, unless its channel was full when a line came.
NothingBetween ==
    \A t \in Tabs :
        (/\ conn[t] = "streaming"
         /\ backlog[t] = <<>> /\ chan[t] = <<>>
         /\ ~overflowed[t]) => Range(ring) \subseteq offered[t]

\* connectStream: "a reconnect mid-run would otherwise print the run twice".
\* However often a tab reconnects or clears, no line is on its pane twice and
\* one console's lines stand in the order they were emitted.
PaneInOrder ==
    \A t \in Tabs : \A i, j \in DOMAIN pane[t] :
        i < j /\ pane[t][i].life = pane[t][j].life => pane[t][i].seq < pane[t][j].seq

\* supervise: "WaitDelay is what stops a stopped run from wedging the
\* console."  Every run gives the single-run lock back, even if its process
\* never exits by itself and something keeps the output pipes for ever.
LockIsReleased == \A r \in Runs : phase[r] \in Busy ~> phase[r] \notin Busy

\* main: "Stop a running experiment rather than orphaning it."  When a console
\* that was asked to shut down has exited, none of its process groups is left.
NoOrphan == up = "down" => \A r \in Runs : ~alive[r]
=============================================================================
