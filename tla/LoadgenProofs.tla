---------------------------- MODULE LoadgenProofs ----------------------------
(***************************************************************************)
(* What is proved of Loadgen for any number of ticks, any concurrency and   *)
(* any rows an earlier run has left.  Its counters are compared with the    *)
(* sets of requests they count.                                             *)
(***************************************************************************)
EXTENDS Loadgen, FiniteSetTheorems, TLAPS

Stages == {"unsent", "sent", "answered", "recorded", "returning", "returned", "done"}
Ended == {"returning", "returned", "done"}
Reporting == {"drain", "sleep", "measure", "done"}

\* The requests that each counter has counted so far.
InRecorded(c) == {i \in Requests : code[i] = c /\ req[i] \in Ended \cup {"recorded"}}
InAccepted == {i \in Requests : code[i] = 202 /\ req[i] \in Ended}
InFailed == {i \in Requests : code[i] = 0 /\ req[i] \in Ended}
Holders == {i \in Requests : Holds(i)}
Launched == {i \in Requests : req[i] # "unsent"}
Ok == {i \in Requests : code[i] = 202}

Types ==
    /\ pc \in {"start", "due", "permit", "wait"} \cup Reporting
    /\ next \in 1..(Ticks + 1) /\ (pc = "permit" => next <= Ticks)
    /\ permits \in Nat
    /\ req \in [Requests -> Stages]
    /\ code \in [Requests -> Codes \cup {0}]
    /\ recorded \in [Codes -> Nat]
    /\ accepted \in Nat /\ failed \in Nat
    /\ report.accepted \in Nat
    /\ endToEnd.missing \in Int
    /\ rows \subseteq appended /\ appended \subseteq Requests
    /\ earlier \in Nat
    /\ lost \subseteq Requests

\* An answer is there from its stage on, and ticks are used in order.
InStage ==
    \A i \in Requests :
        /\ req[i] \in {"unsent", "sent"} => code[i] = 0
        /\ req[i] \in {"answered", "recorded"} => code[i] \in Codes
        /\ req[i] = "unsent" <=> i >= next

Counts ==
    /\ \A c \in Codes : recorded[c] = Cardinality(InRecorded(c))
    /\ accepted = Cardinality(InAccepted)
    /\ failed = Cardinality(InFailed)
    /\ permits + Cardinality(Holders) = Concurrency

\* Once the report is made no sender is left that could change a count.
Reported ==
    pc \in Reporting =>
        /\ AllSent
        /\ report.sent = Cardinality(Launched)
        /\ report.accepted = Cardinality(Ok)
        /\ report.accepted = recorded[202]

MissingIsLost == endToEnd.missing > 0 => endToEnd.missing <= Cardinality(lost)

IInv == Types /\ InStage /\ Counts /\ Reported /\ MissingIsLost

-----------------------------------------------------------------------------
(* Counting.                                                               *)

LEMMA Finite ==
    ASSUME LoadgenParameters, NEW S, S \subseteq Requests
    PROVE  IsFiniteSet(S) /\ Cardinality(S) \in 0..Ticks
  <1>1. IsFiniteSet(Requests) /\ Cardinality(Requests) = Ticks
    BY FS_Interval DEF LoadgenParameters, Requests
  <1>2. IsFiniteSet(S) /\ Cardinality(S) <= Ticks
    BY <1>1, FS_Subset
  <1>3. Cardinality(S) \in Nat
    BY <1>2, FS_CardinalityType
  <1> QED BY <1>2, <1>3 DEF LoadgenParameters

LEMMA OneMore ==
    ASSUME LoadgenParameters, NEW S, S \subseteq Requests, NEW i \in Requests, i \notin S
    PROVE  Cardinality(S \cup {i}) = Cardinality(S) + 1
  BY Finite, FS_AddElement

\* Three sets of requests that share no element.
LEMMA Apart ==
    ASSUME LoadgenParameters, NEW S, NEW T, NEW U,
           S \subseteq Requests, T \subseteq Requests, U \subseteq Requests,
           S \cap T = {}, (S \cup T) \cap U = {}
    PROVE  Cardinality(S \cup T \cup U) = Cardinality(S) + Cardinality(T) + Cardinality(U)
  <1>1. IsFiniteSet(S) /\ IsFiniteSet(T) /\ IsFiniteSet(U) /\ IsFiniteSet(S \cup T)
    BY Finite
  <1>2. Cardinality(S \cup T) = Cardinality(S) + Cardinality(T)
    <2>1. Cardinality(S \cup T) = Cardinality(S) + Cardinality(T) - Cardinality(S \cap T)
      BY <1>1, FS_Union
    <2> QED BY <2>1, Finite, FS_EmptySet
  <1>3. Cardinality((S \cup T) \cup U) = Cardinality(S \cup T) + Cardinality(U)
    <2>1. Cardinality((S \cup T) \cup U)
            = Cardinality(S \cup T) + Cardinality(U) - Cardinality((S \cup T) \cap U)
      BY <1>1, FS_Union
    <2>2. Cardinality(S \cup T) \in Nat /\ Cardinality(U) \in Nat
      BY <1>1, FS_CardinalityType
    <2> QED BY <2>1, <2>2, FS_EmptySet
  <1> QED BY <1>2, <1>3

-----------------------------------------------------------------------------
(* The steps.                                                              *)

LEMMA InitIInv == ASSUME LoadgenParameters, Init PROVE IInv
  <1> USE DEF Init, NoReport, NoStats
  <1>1. Types
    BY DEF LoadgenParameters, Types, Stages, Codes
  <1>2. InStage
    BY DEF LoadgenParameters, InStage, Requests
  <1>3. /\ \A c \in Codes : InRecorded(c) = {}
        /\ InAccepted = {} /\ InFailed = {} /\ Holders = {}
    BY DEF InRecorded, InAccepted, InFailed, Holders, Holds, Ended
  <1>4. Counts
    <2>1. Cardinality({}) = 0
      BY FS_EmptySet
    <2>2. \A c \in Codes : recorded[c] = Cardinality(InRecorded(c))
      BY <1>3, <2>1
    <2>3. permits + Cardinality(Holders) = Concurrency
      BY <1>3, <2>1 DEF LoadgenParameters
    <2> QED BY <1>3, <2>1, <2>2, <2>3 DEF Counts
  <1>5. Reported /\ MissingIsLost
    BY DEF Reported, Reporting, MissingIsLost
  <1> QED BY <1>1, <1>2, <1>4, <1>5 DEF IInv

\* Most steps leave the senders and every count alone.
Frame ==
    /\ UNCHANGED <<sending, results, outcome, earlier>>
    /\ pc' \in {"start", "due", "permit", "wait"} \cup Reporting
    /\ pc' \in Reporting => pc \in Reporting
    /\ pc' = "permit" => next <= Ticks
    /\ rows' \subseteq appended' /\ appended' \subseteq Requests

LEMMA FrameStep == ASSUME IInv, Frame PROVE IInv'
  BY DEF IInv, Frame, sending, results, outcome, Types, InStage, Counts, Reported, MissingIsLost,
         InRecorded, InAccepted, InFailed, Holders, Holds, Launched, Ok, AllSent

LEMMA FrameActions ==
    ASSUME IInv,
           \/ Start \/ Due \/ StopSending \/ Interrupt
           \/ CountRows \/ Sleep \/ DrainEnds \/ MeasureFails \/ Expire
           \/ \E i \in Requests : Append(i) \/ Persist(i)
    PROVE  Frame
  <1> USE DEF Frame, IInv, Types, Reporting, pipeline
  <1>1. CASE Start \/ Due \/ StopSending \/ Interrupt
    BY <1>1 DEF Start, Due, StopSending, Interrupt
  <1>2. CASE CountRows \/ Sleep \/ DrainEnds \/ MeasureFails \/ Expire
    BY <1>2 DEF CountRows, Sleep, DrainEnds, MeasureFails, Expire
  <1>3. CASE \E i \in Requests : Append(i) \/ Persist(i)
    BY <1>3 DEF Append, Persist
  <1> QED BY <1>1, <1>2, <1>3

\* The scheduler hands a permit to the sender of the next tick.
LEMMA LaunchStep == ASSUME LoadgenParameters, IInv, Launch PROVE IInv'
  <1> USE DEF IInv, Launch, results, outcome, pipeline
  <1>0. permits \in Nat \ {0} /\ next \in Requests /\ Ticks \in Nat
    BY DEF Types, LoadgenParameters, Requests
  <1>1. Types'
    BY <1>0 DEF Types, Requests, Stages
  <1>2. InStage'
    BY <1>0 DEF Types, InStage, Requests
  <1>3. /\ \A c \in Codes : InRecorded(c)' = InRecorded(c)
        /\ InAccepted' = InAccepted /\ InFailed' = InFailed
        /\ Holders' = Holders \cup {next} /\ next \notin Holders
    BY <1>0 DEF Types, InStage, InRecorded, InAccepted, InFailed, Holders, Holds, Ended, Requests
  <1>4. Cardinality(Holders') = Cardinality(Holders) + 1 /\ Cardinality(Holders) \in Nat
    BY <1>0, <1>3, OneMore, Finite DEF Holders
  <1>5. Counts'
    BY <1>0, <1>3, <1>4 DEF Counts, LoadgenParameters
  <1>6. Reported' /\ MissingIsLost'
    BY DEF Reported, Reporting, MissingIsLost
  <1> QED BY <1>1, <1>2, <1>5, <1>6

\* A sender at work: no report has been made.
LEMMA NotReporting ==
    ASSUME IInv, NEW i \in Requests, req[i] \notin {"unsent", "done"}
    PROVE  pc \notin Reporting
  BY DEF IInv, Reported, AllSent

LEMMA AnsweredStep ==
    ASSUME IInv, NEW i \in Requests, Answered(i)
    PROVE  IInv'
  <1> USE DEF IInv, Answered, outcome, pipeline
  <1>1. Types'
    BY DEF Types, Stages
  <1>2. InStage'
    BY DEF Types, InStage
  <1>3. /\ \A c \in Codes : InRecorded(c)' = InRecorded(c)
        /\ InAccepted' = InAccepted /\ InFailed' = InFailed /\ Holders' = Holders
    BY DEF Types, InRecorded, InAccepted, InFailed, Holders, Holds, Ended
  <1>4. Counts'
    BY <1>3 DEF Counts
  <1>5. Reported' /\ MissingIsLost'
    BY NotReporting DEF Reported, MissingIsLost
  <1> QED BY <1>1, <1>2, <1>4, <1>5

LEMMA SendFailsStep ==
    ASSUME LoadgenParameters, IInv, NEW i \in Requests, SendFails(i)
    PROVE  IInv'
  <1> USE DEF IInv, SendFails, outcome, pipeline
  <1>1. Types'
    BY DEF Types, Stages
  <1>2. InStage'
    BY DEF Types, InStage
  <1>3. /\ \A c \in Codes : InRecorded(c)' = InRecorded(c)
        /\ InAccepted' = InAccepted /\ Holders' = Holders
        /\ InFailed' = InFailed \cup {i} /\ i \notin InFailed
    BY DEF Types, InStage, InRecorded, InAccepted, InFailed, Holders, Holds, Ended, Codes
  <1>4. Cardinality(InFailed') = Cardinality(InFailed) + 1
    BY <1>3, OneMore DEF InFailed
  <1>5. Counts'
    BY <1>3, <1>4 DEF Counts
  <1>6. Reported' /\ MissingIsLost'
    BY NotReporting DEF Reported, MissingIsLost
  <1> QED BY <1>1, <1>2, <1>5, <1>6

LEMMA RecordStep ==
    ASSUME LoadgenParameters, IInv, NEW i \in Requests, Record(i)
    PROVE  IInv'
  <1> USE DEF IInv, Record, outcome, pipeline
  <1>0. code[i] \in Codes
    BY DEF InStage
  <1>1. Types'
    BY <1>0 DEF Types, Stages
  <1>2. InStage'
    BY DEF Types, InStage
  <1>3. /\ \A c \in Codes : InRecorded(c)' = IF c = code[i] THEN InRecorded(c) \cup {i}
                                                            ELSE InRecorded(c)
        /\ i \notin InRecorded(code[i])
        /\ InAccepted' = InAccepted /\ InFailed' = InFailed /\ Holders' = Holders
    BY DEF Types, InRecorded, InAccepted, InFailed, Holders, Holds, Ended
  <1>4. \A c \in Codes : InRecorded(c) \subseteq Requests
    BY DEF InRecorded
  <1>5. Cardinality(InRecorded(code[i]) \cup {i}) = Cardinality(InRecorded(code[i])) + 1
    BY <1>0, <1>3, <1>4, OneMore
  <1>6. Counts'
    BY <1>0, <1>3, <1>5 DEF Counts, Types
  <1>7. Reported' /\ MissingIsLost'
    BY NotReporting DEF Reported, MissingIsLost
  <1> QED BY <1>1, <1>2, <1>6, <1>7

LEMMA CountAcceptedStep ==
    ASSUME LoadgenParameters, IInv, NEW i \in Requests, CountAccepted(i)
    PROVE  IInv'
  <1> USE DEF IInv, CountAccepted, outcome, pipeline
  <1>0. code[i] \in Codes
    BY DEF InStage
  <1>1. Types'
    BY DEF Types, Stages
  <1>2. InStage'
    BY DEF Types, InStage
  <1>3. /\ \A c \in Codes : InRecorded(c)' = InRecorded(c)
        /\ InAccepted' = IF code[i] = 202 THEN InAccepted \cup {i} ELSE InAccepted
        /\ i \notin InAccepted
        /\ InFailed' = InFailed /\ Holders' = Holders
    BY <1>0 DEF Types, InRecorded, InAccepted, InFailed, Holders, Holds, Ended, Codes
  <1>4. Cardinality(InAccepted \cup {i}) = Cardinality(InAccepted) + 1
    BY <1>3, OneMore DEF InAccepted
  <1>5. Counts'
    BY <1>3, <1>4 DEF Counts
  <1>6. Reported' /\ MissingIsLost'
    BY NotReporting DEF Reported, MissingIsLost
  <1> QED BY <1>1, <1>2, <1>5, <1>6

LEMMA ReturnPermitStep ==
    ASSUME LoadgenParameters, IInv, NEW i \in Requests, ReturnPermit(i)
    PROVE  IInv'
  <1> USE DEF IInv, ReturnPermit, results, outcome, pipeline
  <1>1. Types'
    BY DEF Types, Stages
  <1>2. InStage'
    BY DEF Types, InStage
  <1>3. /\ \A c \in Codes : InRecorded(c)' = InRecorded(c)
        /\ InAccepted' = InAccepted /\ InFailed' = InFailed
        /\ Holders = Holders' \cup {i} /\ i \notin Holders'
    BY DEF Types, InRecorded, InAccepted, InFailed, Holders, Holds, Ended
  <1>4. Cardinality(Holders) = Cardinality(Holders') + 1 /\ Cardinality(Holders') \in Nat
    BY <1>3, OneMore, Finite DEF Holders
  <1>5. Counts'
    BY <1>3, <1>4 DEF Counts, Types, LoadgenParameters
  <1>6. Reported' /\ MissingIsLost'
    BY NotReporting DEF Reported, MissingIsLost
  <1> QED BY <1>1, <1>2, <1>5, <1>6

LEMMA DoneStep ==
    ASSUME IInv, NEW i \in Requests, Done(i)
    PROVE  IInv'
  <1> USE DEF IInv, Done, results, outcome, pipeline
  <1>1. Types'
    BY DEF Types, Stages
  <1>2. InStage'
    BY DEF Types, InStage
  <1>3. /\ \A c \in Codes : InRecorded(c)' = InRecorded(c)
        /\ InAccepted' = InAccepted /\ InFailed' = InFailed /\ Holders' = Holders
    BY DEF Types, InRecorded, InAccepted, InFailed, Holders, Holds, Ended
  <1>4. Counts'
    BY <1>3 DEF Counts
  <1>5. Reported' /\ MissingIsLost'
    BY NotReporting DEF Reported, MissingIsLost
  <1> QED BY <1>1, <1>2, <1>4, <1>5

\* With every sender done, the counters cover the launched requests.
LEMMA SummariseStep == ASSUME LoadgenParameters, IInv, Summarise PROVE IInv'
  <1> USE DEF IInv, Summarise, sending, results, pipeline
  <1>1. /\ InRecorded(202) = Ok /\ InAccepted = Ok
        /\ InRecorded(202) \cup InRecorded(503) \cup InFailed = Launched
        /\ InRecorded(202) \cap InRecorded(503) = {}
        /\ (InRecorded(202) \cup InRecorded(503)) \cap InFailed = {}
    BY DEF Types, InStage, AllSent, InRecorded, InAccepted, InFailed, Ok, Launched, Ended, Codes
  <1>2. /\ InRecorded(202) \subseteq Requests /\ InRecorded(503) \subseteq Requests
        /\ InFailed \subseteq Requests
    BY DEF InRecorded, InFailed
  <1>3. Cardinality(Launched)
          = Cardinality(InRecorded(202)) + Cardinality(InRecorded(503)) + Cardinality(InFailed)
    BY <1>1, <1>2, Apart
  <1>4. /\ recorded[202] = Cardinality(InRecorded(202))
        /\ recorded[503] = Cardinality(InRecorded(503))
        /\ failed = Cardinality(InFailed) /\ accepted = Cardinality(InAccepted)
    BY DEF Counts, Codes
  <1>5. report'.sent = Cardinality(Launched) /\ report'.accepted = Cardinality(Ok)
    BY <1>1, <1>3, <1>4
  <1>6. report'.accepted = recorded[202]
    BY <1>1, <1>4
  <1>7. Launched' = Launched /\ Ok' = Ok /\ (AllSent)' /\ recorded' = recorded
    BY DEF Launched, Ok, AllSent
  <1>8. Reported'
    BY <1>5, <1>6, <1>7 DEF Reported
  <1>9. Types' /\ InStage' /\ MissingIsLost'
    BY DEF Types, Reporting, InStage, MissingIsLost
  <1>10. Counts'
    BY DEF Counts, InRecorded, InAccepted, InFailed, Holders, Holds
  <1> QED BY <1>8, <1>9, <1>10

\* MISSING cannot exceed the loss: every row counted makes it smaller.
LEMMA MeasureStep == ASSUME LoadgenParameters, IInv, Measure PROVE IInv'
  <1> USE DEF IInv, Measure, sending, results, pipeline
  <1>0. Ok \subseteq Requests /\ rows \subseteq Requests /\ earlier \in Nat
    BY DEF Types, Ok
  <1>1. /\ Cardinality(rows) \in Nat /\ Cardinality(Ok) \in Nat
        /\ IsFiniteSet(Ok) /\ IsFiniteSet(rows)
    BY <1>0, Finite
  <1>2. Cardinality(Ok \ rows) = Cardinality(Ok) - Cardinality(Ok \cap rows)
    BY <1>1, FS_Difference
  <1>3. Cardinality(Ok \cap rows) \in Nat /\ Cardinality(Ok \cap rows) <= Cardinality(rows)
    <2>1. Ok \cap rows \subseteq rows
      OBVIOUS
    <2> QED BY <1>1, <2>1, FS_Subset, FS_CardinalityType
  <1>4. report.accepted = Cardinality(Ok)
    BY DEF Reported, Reporting
  <1>5. /\ endToEnd'.missing = Cardinality(Ok) - (earlier + Cardinality(rows))
        /\ lost' = Ok \ rows
    BY <1>4 DEF Missing, Persisted, Rowless, Ok
  <1>6. MissingIsLost' /\ endToEnd'.missing \in Int
    BY <1>0, <1>1, <1>2, <1>3, <1>5 DEF MissingIsLost
  <1>7. Types'
    BY <1>0, <1>5, <1>6 DEF Types, Reporting
  <1>8. Reported'
    BY DEF Reported, Reporting, AllSent, Launched, Ok
  <1>9. InStage'
    BY DEF InStage
  <1>10. Counts'
    BY DEF Counts, InRecorded, InAccepted, InFailed, Holders, Holds
  <1> QED BY <1>6, <1>7, <1>8, <1>9, <1>10

LEMMA NextIInv == ASSUME LoadgenParameters, IInv, [Next]_vars PROVE IInv'
  <1>1. CASE Start \/ Scheduler \/ Interrupt
    BY <1>1, FrameActions, FrameStep, LaunchStep, SummariseStep DEF Scheduler
  <1>2. ASSUME NEW i \in Requests, Sender(i) PROVE IInv'
    BY <1>2, AnsweredStep, SendFailsStep, RecordStep, CountAcceptedStep, ReturnPermitStep, DoneStep
       DEF Sender
  <1>3. ASSUME NEW i \in Requests, Append(i) \/ Persist(i) PROVE IInv'
    BY <1>3, FrameActions, FrameStep
  <1>4. CASE Drain \/ Expire
    BY <1>4, FrameActions, FrameStep, MeasureStep DEF Drain
  <1>5. CASE UNCHANGED vars
    <2>1. Frame
      BY <1>5 DEF vars, Frame, sending, pipeline, IInv, Types
    <2> QED BY <2>1, FrameStep
  <1> QED BY <1>1, <1>2, <1>3, <1>4, <1>5 DEF Next

\* The inductive invariant: each counter is the number of requests that have
\* passed the step that counts.
THEOREM LoadgenInvariant ==
    ASSUME LoadgenParameters
    PROVE  Spec => []IInv
  <1>1. Init => IInv
    BY InitIInv
  <1>2. IInv /\ [Next]_vars => IInv'
    BY NextIInv
  <1> QED BY <1>1, <1>2, PTL DEF Spec

\* The two contexts.
Flags == interrupted \in BOOLEAN /\ expired \in BOOLEAN

LEMMA FlagsHold == Spec => []Flags
  <1>1. Init => Flags
    BY DEF Init, Flags
  <1>2. Flags /\ [Next]_vars => Flags'
    <2> SUFFICES ASSUME Flags, [Next]_vars PROVE Flags' OBVIOUS
    <2> USE DEF Flags
    <2>1. CASE Start \/ Scheduler \/ Interrupt
      BY <2>1 DEF Start, Scheduler, Due, Launch, StopSending, Summarise, Interrupt
    <2>2. ASSUME NEW i \in Requests, Sender(i) PROVE Flags'
      BY <2>2 DEF Sender, Answered, SendFails, Record, CountAccepted, ReturnPermit, Done
    <2>3. ASSUME NEW i \in Requests, Append(i) \/ Persist(i) PROVE Flags'
      BY <2>3 DEF Append, Persist
    <2>4. CASE Drain \/ Expire
      BY <2>4 DEF Drain, CountRows, Sleep, DrainEnds, MeasureFails, Measure, Expire
    <2>5. CASE UNCHANGED vars
      BY <2>5 DEF vars
    <2> QED BY <2>1, <2>2, <2>3, <2>4, <2>5 DEF Next
  <1> QED BY <1>1, <1>2, PTL DEF Spec

\* run and send: no permit is lost or made up, so at most Concurrency requests are in
\* flight, whichever way sends end; and no counter exceeds the number of ticks.
THEOREM LoadgenTypes ==
    ASSUME LoadgenParameters
    PROVE  Spec => []TypeOK
  <1>1. IInv /\ Flags => TypeOK
    <2> SUFFICES ASSUME IInv, Flags PROVE TypeOK OBVIOUS
    <2>1. /\ \A c \in Codes : recorded[c] \in 0..Ticks
          /\ accepted \in 0..Ticks /\ failed \in 0..Ticks
      <3>1. /\ \A c \in Codes : InRecorded(c) \subseteq Requests
            /\ InAccepted \subseteq Requests /\ InFailed \subseteq Requests
        BY DEF InRecorded, InAccepted, InFailed
      <3> QED BY <3>1, Finite DEF IInv, Counts
    <2>2. recorded \in [Codes -> 0..Ticks]
      BY <2>1 DEF IInv, Types
    <2>3. /\ permits + Cardinality({i \in Requests : Holds(i)}) = Concurrency
          /\ permits \in 0..Concurrency
      <3>1. Cardinality(Holders) \in Nat
        BY Finite DEF Holders
      <3> QED BY <3>1 DEF IInv, Types, Counts, Holders, LoadgenParameters
    <2>4. /\ \A i \in Requests : code[i] \in Codes \cup {0}
          /\ \A i \in Requests : (req[i] = "unsent") <=> (i >= next)
      BY DEF IInv, Types, InStage
    <2>5. pc \in {"start", "due", "permit", "wait", "drain", "sleep", "measure", "done"}
      BY DEF IInv, Types, Reporting
    <2> QED BY <2>1, <2>2, <2>3, <2>4, <2>5 DEF IInv, Types, Flags, TypeOK
  <1> QED BY <1>1, LoadgenInvariant, FlagsHold, PTL

\* summarise and measureEndToEnd, for any load: the report has every launched
\* request once, accepts the ones that were answered 202, and its MISSING never
\* exceeds the accepted orders that had no row.
THEOREM ReportsAddUp ==
    ASSUME LoadgenParameters
    PROVE  Spec => []ReportAddsUp
  <1>1. IInv => ReportAddsUp
    BY DEF IInv, Reported, Reporting, MissingIsLost, ReportAddsUp, Launched, Ok
  <1> QED BY <1>1, LoadgenInvariant, PTL
=============================================================================
