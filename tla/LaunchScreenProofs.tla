------------------------- MODULE LaunchScreenProofs -------------------------
(***************************************************************************)
(* What the host backend promises, for every behaviour of a screen that    *)
(* launches with it: whatever the user, the worker and the child do, an    *)
(* execution that ended left no process and reported what happened.        *)
(***************************************************************************)
EXTENDS LaunchScreen, FiniteSetTheorems, SequenceTheorems, TLAPS

\* What holds at each place of execute.
HostInv ==
    /\ host \in {"idle", "waiting", "draining", "returned"}
    /\ host # "returned" => observation = None
    /\ host = "returned" => observation \in Observations
    /\ child \in {"none", "running"} \cup Ends /\ terminated \in BOOLEAN
    /\ host \in {"idle", "returned"} => child # "running"
    /\ host = "waiting" => child \in {"running", "exit_0", "exit_1"} /\ ~terminated
    /\ host = "returned" =>
          /\ observation = "success" => child = "exit_0" /\ ~terminated
          /\ observation = "non_zero_exit" => child = "exit_1" /\ ~terminated

\* None of the steps of a screen but Launch, Observe, Waits and Child touches the host.
LEMMA ScreenLeavesHostAlone ==
    ASSUME \/ User \/ Loop
           \/ Take \/ ReadHistory \/ PrepareFails \/ Prepare \/ Blocked \/ Ready
           \/ Save \/ SaveFails \/ SaveLog \/ Return
    PROVE  UNCHANGED hostVars
<1>1. CASE User
  BY <1>1 DEF User, Type, Press, Close
<1>2. CASE Loop
  BY <1>2 DEF Loop, StartMeasurement, StartGenerate, HandleSaved, HandleRecord, HandleError,
              HandleGeneration, Discard, Handle
<1>3. CASE Take \/ ReadHistory \/ PrepareFails \/ Prepare \/ Blocked \/ Ready
  BY <1>3 DEF Take, ReadHistory, PrepareFails, Prepare, Blocked, Ready
<1>4. CASE Save \/ SaveFails \/ SaveLog \/ Return
  BY <1>4 DEF Save, SaveFails, SaveLog, Return
<1> QED
  BY <1>1, <1>2, <1>3, <1>4

\* The invariant survives every step of the screen, the host and the child.
LEMMA HostInvStep ==
    ASSUME HostInv, [Next]_vars
    PROVE  HostInv'
<1> USE HostAssumption DEF HostInv, Observations, Ends
<1>1. CASE UNCHANGED hostVars
  BY <1>1 DEF hostVars
<1>2. CASE Launch
  BY <1>2 DEF Launch, Spawn
<1>3. ASSUME NEW to, Observe(to) PROVE HostInv'
  BY <1>3 DEF Observe
<1>4. CASE Generated \/ Executed \/ Unrecorded
  BY <1>3, <1>4 DEF Generated, Executed, Unrecorded
<1>5. CASE HostStep
  <2>1. CASE Collect
    BY <2>1 DEF Collect
  <2>2. CASE Deadline
    BY <2>2 DEF Deadline
  <2>3. CASE Kill
    BY <2>3 DEF Kill
  <2>4. CASE Drain
    BY <2>4 DEF Drain
  <2> QED
    BY <1>5, <2>1, <2>2, <2>3, <2>4 DEF HostStep
<1>6. CASE ChildExits
  BY <1>6 DEF ChildExits, Ends
<1>7. CASE UNCHANGED vars
  BY <1>7, <1>1 DEF vars
<1>8. CASE Work
  BY <1>8, <1>1, <1>2, <1>4, ScreenLeavesHostAlone DEF Work
<1> QED
  BY <1>1, <1>5, <1>6, <1>7, <1>8, ScreenLeavesHostAlone DEF Next, Waits, Child

\* Throughout every visit of every screen.
LEMMA HostInvariant == Spec => []HostInv
<1>1. Init => HostInv
  BY DEF Init, HostInit, HostInv
<1>2. HostInv /\ [Next]_vars => HostInv'
  BY HostInvStep
<1> QED
  BY <1>1, <1>2, PTL DEF Spec

\* No process outlives its execution: execute returns or raises only when the child has
\* ended, on time, terminated or killed, whatever the user does meanwhile.
THEOREM NothingIsLeftRunning == Spec => []NoChildLeftBehind
<1>1. HostInv => NoChildLeftBehind
  BY DEF HostInv, NoChildLeftBehind
<1> QED
  BY <1>1, HostInvariant, PTL

\* What is recorded happened: a late exit is never a success and a terminated child never a
\* failure of its own.
THEOREM ObservationsAreTrue == Spec => []ObservationIsTruthful
<1>1. HostInv => ObservationIsTruthful
  BY HostAssumption DEF HostInv, ObservationIsTruthful, Observations
<1> QED
  BY <1>1, HostInvariant, PTL

\* HostExecutionBackend.execute leaves neither a process nor a false account of it.
THEOREM ExecutionsEndClean == Spec => []ExecutionEndsClean
<1>1. NoChildLeftBehind /\ ObservationIsTruthful => ExecutionEndsClean
  BY DEF ExecutionEndsClean
<1> QED
  BY <1>1, NothingIsLeftRunning, ObservationsAreTrue, PTL

-----------------------------------------------------------------------------
(* What the runs of a visit leave behind.                                  *)

\* A run is started for a press, so the bound on presses bounds the runs.
PressInv == started + Cardinality(PressedAt(inbox)) <= MaxRuns

\* Runs are taken in the order in which they were started, and each once.
OrderInv ==
    /\ job.run <= started
    /\ \A i \in DOMAIN jobs :
          /\ jobs[i].run <= started
          /\ job.run < jobs[i].run \/ (job.run = 0 /\ jobs[i].run = 0)
    /\ \A i, j \in DOMAIN jobs : i < j => jobs[i].run < jobs[j].run
    /\ \A r \in ended : r <= job.run
    /\ at = "history" => job.run = 0
    /\ at \notin {"idle", "history"} => job.run \in Runs \ ended
    /\ \A r \in Runs : r > job.run => observed[r] = None /\ stored[r] = None

\* What the worker knows of its run at each place.
PlaceInv ==
    /\ at \in {"prepare", "check", "launch", "execute"} =>
          observed[job.run] = None /\ stored[job.run] = None
    /\ at = "save" => observed[job.run] # None /\ stored[job.run] = None
    /\ at = "log" => observed[job.run] # None /\ stored[job.run] = observed[job.run]
    /\ at = "return" /\ kind = "validate" /\ observed[job.run] \notin {None, "success"} =>
          stored[job.run] = observed[job.run] \/ job.run \in lost

-----------------------------------------------------------------------------
(* The Run screen.                                                         *)

Replies == {i \in DOMAIN inbox : inbox[i].type # "pressed"}

\* A run is queued, or the worker has not answered it yet.
UnderWay == jobs # <<>> \/ at \notin {"idle", "return"}

\* One prompt at a time: until its answer is handled the composer stays disabled.
ComposerInv ==
    /\ UnderWay => Replies = {}
    /\ jobs # <<>> => at \in {"idle", "return"} /\ Len(jobs) = 1
    /\ \A i, j \in Replies : i = j
    /\ UnderWay \/ Replies # {} => ~button /\ ~prompt

\* The artifact the screen remembers and the launch prepared for it are of one run, and
\* so is what travels to the worker and back.
PairInv ==
    /\ artifact = launch
    /\ at \in {"idle", "prepare", "check", "launch", "execute", "return"}
    /\ \A i \in DOMAIN jobs : /\ jobs[i].run # 0
                              /\ jobs[i].artifact = artifact /\ jobs[i].runtime = artifact
    /\ at = "prepare" => job.artifact = 0 /\ prepared = 0
    /\ at \in {"check", "launch", "execute"} =>
          /\ job.artifact # 0 /\ job.runtime = job.artifact
          /\ prepared = 0 => job.artifact = artifact
          /\ prepared # 0 => job.artifact = prepared
    /\ \A i \in Replies :
          /\ inbox[i].prepared = 0 => inbox[i].artifact \in {0, artifact}
          /\ inbox[i].prepared # 0 => inbox[i].artifact = inbox[i].prepared

RunScreenInv == kind = "run" => ComposerInv /\ (plan => PairInv)

-----------------------------------------------------------------------------
(* The screens that measure.                                               *)

\* The messages that bring a record to the screen.
BringsRecord(m) == m.type = "done" \/ m.type = "not_saved"

Records == {i \in DOMAIN inbox : BringsRecord(inbox[i])}

\* Records arrive in the order of their runs, and the one of the latest run is on the
\* screen or on its way.
ResultInv ==
    /\ \A i \in Records : /\ inbox[i].run \in 1..job.run
                          /\ inbox[i].type = "done" => stored[inbox[i].run] # None
                          /\ shown.what = "record" => shown.run <= inbox[i].run
    /\ \A i, j \in Records : i < j => inbox[i].run <= inbox[j].run
    /\ shown.what = "record" => /\ shown.run \in 1..job.run
                                /\ shown.stored => stored[shown.run] # None
    /\ open /\ started # 0 =>
          (stored[started] # None => \/ at = "log" /\ job.run = started
                                     \/ \E i \in Records : inbox[i].run = started
                                     \/ shown.what = "record" /\ shown.run = started)

MeasurementInv == kind # "run" => ResultInv

-----------------------------------------------------------------------------
(* The inbox.                                                              *)

\* A sequence with one more element.
LEMMA Appended ==
    ASSUME NEW S, NEW s \in Seq(S), NEW e \in S
    PROVE  /\ Append(s, e) \in Seq(S) /\ Append(s, e) # <<>>
           /\ Len(s) \in Nat /\ Len(Append(s, e)) = Len(s) + 1
           /\ DOMAIN s = 1..Len(s) /\ DOMAIN Append(s, e) = 1..(Len(s) + 1)
           /\ \A i \in 1..Len(s) : Append(s, e)[i] = s[i]
           /\ Append(s, e)[Len(s) + 1] = e
<1>1. Append(s, e) \in Seq(S) /\ Append(s, e) # <<>> /\ Len(Append(s, e)) = Len(s) + 1
  BY AppendProperties
<1>2. DOMAIN Append(s, e) = 1..Len(Append(s, e))
  BY <1>1, LenProperties
<1>3. (\A i \in 1..Len(s) : Append(s, e)[i] = s[i]) /\ Append(s, e)[Len(s) + 1] = e
  BY AppendProperties
<1> QED
  BY <1>1, <1>2, <1>3, LenProperties

\* A sequence without its first element.
LEMMA Taken ==
    ASSUME NEW S, NEW s \in Seq(S), s # <<>>
    PROVE  /\ Tail(s) \in Seq(S) /\ Head(s) \in S /\ Head(s) = s[1]
           /\ Len(s) \in Nat \ {0} /\ Len(Tail(s)) = Len(s) - 1
           /\ DOMAIN s = 1..Len(s) /\ DOMAIN Tail(s) = 1..(Len(s) - 1)
           /\ \A i \in 1..(Len(s) - 1) : Tail(s)[i] = s[i + 1]
<1>1. Tail(s) \in Seq(S) /\ Head(s) \in S /\ Len(Tail(s)) = Len(s) - 1
  BY HeadTailProperties
<1>2. DOMAIN Tail(s) = 1..Len(Tail(s)) /\ Len(s) \in Nat \ {0}
  BY <1>1, LenProperties, EmptySeq
<1>3. \A i \in 1..Len(Tail(s)) : Tail(s)[i] = s[i + 1]
  BY HeadTailProperties
<1> QED
  BY <1>1, <1>2, <1>3, LenProperties

LEMMA PressesAreFinite ==
    ASSUME NEW box \in Seq(Message)
    PROVE  IsFiniteSet(PressedAt(box)) /\ Cardinality(PressedAt(box)) \in Nat
<1>1. PressedAt(box) \subseteq 1..Len(box) /\ IsFiniteSet(1..Len(box))
  BY FS_Interval DEF PressedAt
<1> QED
  BY <1>1, FS_Subset, FS_CardinalityType

\* A message appended is a press or is not.
LEMMA PressesAppended ==
    ASSUME NEW box \in Seq(Message), NEW m \in Message
    PROVE  /\ m.type = "pressed" =>
                  Cardinality(PressedAt(Append(box, m))) = Cardinality(PressedAt(box)) + 1
           /\ m.type # "pressed" =>
                  Cardinality(PressedAt(Append(box, m))) = Cardinality(PressedAt(box))
<1>1. PressedAt(Append(box, m)) =
          PressedAt(box) \cup (IF m.type = "pressed" THEN {Len(box) + 1} ELSE {})
  BY Appended DEF PressedAt
<1>2. Len(box) + 1 \notin PressedAt(box)
  BY Appended DEF PressedAt
<1>3. CASE m.type = "pressed"
  BY <1>1, <1>2, <1>3, PressesAreFinite, FS_AddElement
<1>4. CASE m.type # "pressed"
  BY <1>1, <1>4, PressesAreFinite
<1> QED
  BY <1>3, <1>4

\* A message handled was a press or was not.
LEMMA PressesHandled ==
    ASSUME NEW box \in Seq(Message), box # <<>>
    PROVE  Cardinality(PressedAt(box)) =
               Cardinality(PressedAt(Tail(box))) + (IF Head(box).type = "pressed" THEN 1 ELSE 0)
<1> DEFINE later == PressedAt(box) \ {1}
           f == [i \in PressedAt(Tail(box)) |-> i + 1]
<1>1. f \in Bijection(PressedAt(Tail(box)), later)
  <2>1. f \in [PressedAt(Tail(box)) -> later]
    BY Taken DEF PressedAt
  <2>2. \A i, j \in PressedAt(Tail(box)) : f[i] = f[j] => i = j
    BY Taken DEF PressedAt
  <2>3. ASSUME NEW k \in later PROVE \E i \in PressedAt(Tail(box)) : f[i] = k
    <3>1. k \in 2..Len(box) /\ box[k].type = "pressed"
      BY <2>3, Taken DEF PressedAt
    <3>2. k - 1 \in PressedAt(Tail(box))
      BY <3>1, Taken DEF PressedAt
    <3> QED
      BY <3>1, <3>2
  <2> HIDE DEF f, later
  <2>4. f \in Injection(PressedAt(Tail(box)), later)
    BY <2>1, <2>2 DEF Injection, IsInjective
  <2>5. f \in Surjection(PressedAt(Tail(box)), later)
    BY <2>1, <2>3 DEF Surjection
  <2> QED
    BY <2>4, <2>5 DEF Bijection
<1>2. Cardinality(later) = Cardinality(PressedAt(Tail(box)))
  <2>1. IsFiniteSet(PressedAt(Tail(box)))
    BY Taken, PressesAreFinite
  <2> HIDE DEF f, later
  <2> QED
    BY <1>1, <2>1, FS_Bijection DEF ExistsBijection
<1>3. 1 \in PressedAt(box) <=> Head(box).type = "pressed"
  BY Taken DEF PressedAt
<1>4. IsFiniteSet(PressedAt(box)) /\ Cardinality(PressedAt(box)) \in Nat
      /\ Cardinality(PressedAt(Tail(box))) \in Nat
  BY Taken, PressesAreFinite
<1>5. Cardinality(later) =
          IF 1 \in PressedAt(box) THEN Cardinality(PressedAt(box)) - 1 ELSE Cardinality(PressedAt(box))
  BY <1>4, FS_RemoveElement
<1> QED
  BY <1>2, <1>3, <1>4, <1>5

\* What the worker posts is a message and no press.
LEMMA PostedMessage ==
    ASSUME LaunchTypeOK, PressInv, UNCHANGED started,
           NEW type \in {"saved", "done", "not_saved", "not_ready", "failed"},
           NEW art \in 0..MaxRuns, NEW prep \in 0..MaxRuns, Post(type, art, prep)
    PROVE  inbox' \in Seq(Message) /\ PressInv'
<1> DEFINE m == [type |-> type, run |-> job.run, artifact |-> art, prepared |-> prep]
<1>1. m \in Message /\ m.type # "pressed"
  BY DEF LaunchTypeOK, Message, Job
<1>2. inbox' = inbox \/ inbox' = Append(inbox, m)
  BY DEF Post
<1>3. Append(inbox, m) \in Seq(Message)
       /\ Cardinality(PressedAt(Append(inbox, m))) = Cardinality(PressedAt(inbox))
  <2>1. inbox \in Seq(Message) /\ Cardinality(PressedAt(inbox)) \in Nat
    BY PressesAreFinite DEF LaunchTypeOK
  <2> HIDE DEF m
  <2>2. Append(inbox, m) \in Seq(Message)
    BY <1>1, <2>1, Appended
  <2> QED
    BY <1>1, <2>1, <2>2, PressesAppended
<1> QED
  BY <1>2, <1>3 DEF PressInv, LaunchTypeOK

\* Handling a message leaves one press less, or none less.
LEMMA HandledMessage ==
    ASSUME LaunchTypeOK, PressInv, inbox # <<>>, inbox' = Tail(inbox),
           started' = started \/ (Head(inbox).type = "pressed" /\ started' = started + 1)
    PROVE  /\ inbox' \in Seq(Message) /\ started' \in 0..MaxRuns /\ PressInv'
           /\ Head(inbox) \in Message
<1>1. Tail(inbox) \in Seq(Message) /\ Head(inbox) \in Message
  BY Taken DEF LaunchTypeOK
<1>2. Cardinality(PressedAt(inbox)) = Cardinality(PressedAt(Tail(inbox)))
          + (IF Head(inbox).type = "pressed" THEN 1 ELSE 0)
  BY PressesHandled DEF LaunchTypeOK
<1>3. Cardinality(PressedAt(Tail(inbox))) \in Nat
  BY <1>1, PressesAreFinite
<1> QED
  BY <1>1, <1>2, <1>3, LaunchAssumption DEF PressInv, LaunchTypeOK

LEMMA PressIsMessage == [type |-> "pressed", run |-> 0, artifact |-> 0, prepared |-> 0] \in Message
BY LaunchAssumption DEF Message

\* Types and the bound survive what the user does.
LEMMA UserTypes ==
    ASSUME LaunchTypeOK, PressInv, User
    PROVE  LaunchTypeOK' /\ PressInv'
<1> USE LaunchAssumption DEF LaunchTypeOK, userVars, viewVars, runVars, workVars, hostVars, HostTypeOK
<1>1. CASE Type
  BY <1>1 DEF Type, PressInv
<1>2. CASE Press
  <2> DEFINE m == [type |-> "pressed", run |-> 0, artifact |-> 0, prepared |-> 0]
  <2>1. m \in Message /\ m.type = "pressed"
    BY PressIsMessage
  <2>2. inbox' = Append(inbox, m) /\ started + Cardinality(PressedAt(inbox)) < MaxRuns
    BY <1>2 DEF Press
  <2>3. inbox' \in Seq(Message)
        /\ Cardinality(PressedAt(inbox')) = Cardinality(PressedAt(inbox)) + 1
        /\ Cardinality(PressedAt(inbox)) \in Nat
    <3>1. inbox \in Seq(Message) /\ Cardinality(PressedAt(inbox)) \in Nat
      BY PressesAreFinite
    <3> HIDE DEF m
    <3>2. Append(inbox, m) \in Seq(Message)
      BY <2>1, <3>1, Appended
    <3> QED
      BY <2>1, <2>2, <3>1, <3>2, PressesAppended
  <2> QED
    BY <1>2, <2>2, <2>3 DEF Press, PressInv
<1>3. CASE Close
  <2>1. jobs' \in Seq(Job) /\ open' \in BOOLEAN
    BY <1>3, EmptySeq DEF Close
  <2>2. PressInv'
    BY <1>3 DEF Close, PressInv
  <2>3. UNCHANGED <<kind, plan, prompt, viewVars, started, inbox, workVars, hostVars>>
    BY <1>3 DEF Close
  <2> QED
    BY <2>1, <2>2, <2>3
<1> QED
  BY <1>1, <1>2, <1>3 DEF User

\* ... and what the message loop does.
LEMMA LoopTypes ==
    ASSUME LaunchTypeOK, PressInv, Loop
    PROVE  LaunchTypeOK' /\ PressInv'
<1>1. inbox # <<>> /\ inbox' = Tail(inbox) /\ UNCHANGED <<kind, plan, open, workVars, hostVars>>
  BY DEF Loop, StartMeasurement, StartGenerate, HandleSaved, HandleRecord, HandleError,
         HandleGeneration, Discard, Handle, userVars
<1>2. \/ UNCHANGED <<started, jobs>> /\ button' \in {button, TRUE}
      \/ Head(inbox).type = "pressed" /\ Submit
  BY DEF Loop, StartMeasurement, StartGenerate, HandleSaved, HandleRecord, HandleError,
         HandleGeneration, Discard, Handle, runVars, viewVars
<1>3. started' = started \/ (Head(inbox).type = "pressed" /\ started' = started + 1)
  BY <1>2 DEF Submit
<1>4. inbox' \in Seq(Message) /\ started' \in 0..MaxRuns /\ PressInv' /\ Head(inbox) \in Message
  BY <1>1, <1>3, HandledMessage
<1>5. jobs' \in Seq(Job) /\ button' \in BOOLEAN
  <2>1. jobs \in Seq(Job) /\ artifact \in 0..MaxRuns /\ launch \in 0..MaxRuns /\ button \in BOOLEAN
    BY DEF LaunchTypeOK
  <2>2. CASE Submit
    <3>1. [run |-> started + 1, artifact |-> artifact, runtime |-> launch] \in Job
      BY <1>4, <2>1, <2>2 DEF Submit, Job
    <3> QED
      BY <2>1, <2>2, <3>1, Appended DEF Submit
  <2> QED
    BY <1>2, <2>1, <2>2
<1>6. prompt' \in BOOLEAN /\ shown' \in Shown /\ artifact' \in 0..MaxRuns /\ launch' \in 0..MaxRuns
  <2>1. prompt \in BOOLEAN /\ shown \in Shown /\ artifact \in 0..MaxRuns /\ launch \in 0..MaxRuns
    BY DEF LaunchTypeOK
  <2>2. /\ Nothing \in Shown
        /\ \A run \in 0..MaxRuns, b \in BOOLEAN :
              [what |-> "record", run |-> run, stored |-> b] \in Shown
        /\ [what |-> "history", run |-> 0, stored |-> TRUE] \in Shown
    BY LaunchAssumption DEF Nothing, Shown
  <2>3. Head(inbox).run \in 0..MaxRuns /\ Head(inbox).artifact \in 0..MaxRuns
        /\ Head(inbox).prepared \in 0..MaxRuns
    BY <1>4 DEF Message
  <2> HIDE DEF Shown, Nothing
  <2>4. CASE StartMeasurement
    BY <2>1, <2>2, <2>4 DEF StartMeasurement
  <2>5. CASE StartGenerate
    BY <2>1, <2>5 DEF StartGenerate
  <2>6. CASE HandleSaved
    BY <2>1, <2>2, <2>6 DEF HandleSaved
  <2>7. CASE HandleRecord
    <3>1. \E type \in {"done", "not_saved"} :
             shown' = [what |-> "record", run |-> Head(inbox).run, stored |-> (type = "done")]
      BY <2>7 DEF HandleRecord
    <3>2. shown' \in Shown
      BY <2>2, <2>3, <3>1
    <3> QED
      BY <2>1, <2>7, <3>2 DEF HandleRecord
  <2>8. CASE HandleError
    BY <2>1, <2>8 DEF HandleError
  <2>9. CASE HandleGeneration
    BY <2>1, <2>3, <2>9 DEF HandleGeneration
  <2>10. CASE Discard
    BY <2>1, <2>10 DEF Discard, userVars, viewVars
  <2> QED
    BY <2>4, <2>5, <2>6, <2>7, <2>8, <2>9, <2>10 DEF Loop
<1> QED
  BY <1>1, <1>4, <1>5, <1>6 DEF LaunchTypeOK, HostTypeOK, workVars, hostVars

\* ... and what the worker does.
LEMMA WorkTypes ==
    ASSUME LaunchTypeOK, PressInv, OrderInv, Work
    PROVE  LaunchTypeOK' /\ PressInv'
<1>0. /\ jobs \in Seq(Job) /\ job \in Job /\ prepared \in 0..MaxRuns
      /\ ended \subseteq Runs /\ lost \subseteq Runs
      /\ observed \in [Runs -> Observations \cup {None}]
      /\ stored \in [Runs -> Observations \cup {None}]
      /\ inbox \in Seq(Message) /\ HostTypeOK
      /\ job.run \in 0..MaxRuns /\ job.artifact \in 0..MaxRuns /\ job.runtime \in 0..MaxRuns
  BY DEF LaunchTypeOK, Job
<1>1. UNCHANGED <<kind, plan, userVars, viewVars, started>>
      /\ at' \in {"idle", "history", "prepare", "check", "launch", "execute", "save", "log", "return"}
  BY DEF Work, Take, ReadHistory, PrepareFails, Prepare, Blocked, Ready, Launch, Generated,
         Executed, Unrecorded, Observe, Save, SaveFails, SaveLog, Return, Worker
<1>2. inbox' \in Seq(Message) /\ PressInv'
  <2>1. CASE UNCHANGED inbox
    BY <1>0, <1>1, <2>1 DEF PressInv
  <2>2. ASSUME NEW type \in {"saved", "done", "not_saved", "not_ready", "failed"},
               NEW art \in 0..MaxRuns, NEW prep \in 0..MaxRuns, Post(type, art, prep)
        PROVE  inbox' \in Seq(Message) /\ PressInv'
    <3>1. UNCHANGED started
      BY <1>1
    <3> QED
      BY <2>2, <3>1, PostedMessage
  <2>3. \/ UNCHANGED inbox
        \/ \E type \in {"saved", "done", "not_saved", "not_ready", "failed"} :
              Post(type, 0, 0) \/ Post(type, job.artifact, prepared)
    BY DEF Work, Take, ReadHistory, PrepareFails, Prepare, Blocked, Ready, Launch, Generated,
           Executed, Unrecorded, Save, SaveFails, SaveLog, Return, Quietly
  <2>4. 0 \in 0..MaxRuns
    BY LaunchAssumption
  <2> QED
    BY <1>0, <2>1, <2>2, <2>3, <2>4
<1>3. jobs' \in Seq(Job) /\ job' \in Job /\ prepared' \in 0..MaxRuns
  <2>1. CASE Take
    BY <1>0, <2>1, Taken, LaunchAssumption DEF Take
  <2>2. CASE Prepare
    <3>1. job' = [job EXCEPT !.artifact = job.run, !.runtime = IF plan THEN job.run ELSE @]
      BY <2>2 DEF Prepare
    <3>2. job' \in Job
      BY <1>0, <3>1 DEF Job
    <3> QED
      BY <1>0, <2>2, <3>2, LaunchAssumption DEF Prepare
  <2>3. CASE ~Take /\ ~Prepare
    <3>1. UNCHANGED <<jobs, job, prepared>>
      BY <2>3 DEF Work, ReadHistory, PrepareFails, Blocked, Ready, Launch, Generated, Executed,
                  Unrecorded, Observe, Save, SaveFails, SaveLog, Return
    <3> QED
      BY <1>0, <3>1
  <2> QED
    BY <2>1, <2>2, <2>3
<1>4. ended' \subseteq Runs /\ lost' \subseteq Runs
  <2>1. at \in {"save", "log", "return"} => job.run \in Runs
    BY DEF OrderInv
  <2>2. \/ UNCHANGED <<ended, lost>>
        \/ at \in {"save", "log", "return"} /\ ended' \subseteq ended \cup {job.run}
               /\ lost' \subseteq lost \cup {job.run}
    BY DEF Work, Take, ReadHistory, PrepareFails, Prepare, Blocked, Ready, Launch, Generated,
           Executed, Unrecorded, Observe, Save, SaveFails, SaveLog, Return, Worker
  <2> QED
    BY <1>0, <2>1, <2>2
<1>5. observed' \in [Runs -> Observations \cup {None}] /\ stored' \in [Runs -> Observations \cup {None}]
  <2>1. CASE Generated \/ Executed \/ Unrecorded
    <3>1. observation \in Observations \cup {None}
      BY <1>0 DEF HostTypeOK
    <3>2. observed' = [observed EXCEPT ![job.run] = observation] /\ stored' = stored
      BY <2>1 DEF Generated, Executed, Unrecorded, Observe
    <3> QED
      BY <1>0, <3>1, <3>2
  <2>2. CASE Save
    <3>1. job.run \in Runs
      BY <2>2 DEF OrderInv, Save, Worker
    <3>2. observed' = observed /\ stored' = [stored EXCEPT ![job.run] = observed[job.run]]
      BY <2>2 DEF Save
    <3> QED
      BY <1>0, <3>1, <3>2
  <2>3. CASE ~(Generated \/ Executed \/ Unrecorded) /\ ~Save
    <3>1. UNCHANGED <<observed, stored>>
      BY <2>3 DEF Work, Take, ReadHistory, PrepareFails, Prepare, Blocked, Ready, Launch,
                  SaveFails, SaveLog, Return
    <3> QED
      BY <1>0, <3>1
  <2> QED
    BY <2>1, <2>2, <2>3
<1>6. HostTypeOK'
  <2>1. CASE Launch
    BY <1>0, <2>1 DEF Launch, Spawn, HostTypeOK, Ends, Observations
  <2>2. CASE Generated \/ Executed \/ Unrecorded
    BY <1>0, <2>2 DEF Generated, Executed, Unrecorded, Observe, HostTypeOK
  <2>3. CASE ~Launch /\ ~(Generated \/ Executed \/ Unrecorded)
    BY <1>0, <2>3 DEF Work, Take, ReadHistory, PrepareFails, Prepare, Blocked, Ready, Save,
                      SaveFails, SaveLog, Return, hostVars, HostTypeOK
  <2> QED
    BY <2>1, <2>2, <2>3
<1> QED
  BY <1>1, <1>2, <1>3, <1>4, <1>5, <1>6 DEF LaunchTypeOK, userVars, viewVars

\* ... and what the execution and the child do, which is nothing to the screen.
LEMMA HostTypes ==
    ASSUME LaunchTypeOK, PressInv, Waits \/ Child
    PROVE  LaunchTypeOK' /\ PressInv'
<1>1. UNCHANGED <<kind, plan, userVars, viewVars, runVars, inbox, workVars>>
  BY DEF Waits, Child
<1>2. HostTypeOK'
  <2>1. CASE HostStep
    BY <2>1 DEF LaunchTypeOK, HostTypeOK, HostStep, Collect, Deadline, Kill, Drain, Ends, Observations
  <2>2. CASE ChildExits
    BY <2>2 DEF LaunchTypeOK, HostTypeOK, ChildExits, Ends
  <2> QED
    BY <2>1, <2>2 DEF Waits, Child
<1> QED
  BY <1>1, <1>2 DEF LaunchTypeOK, PressInv, userVars, viewVars, runVars, workVars

-----------------------------------------------------------------------------
(* Order and place of the runs.                                            *)

\* Every step that is not of the worker leaves its variables alone; what is queued
\* changes only with a run that is started, and when the screen closes.
LEMMA OthersAndTheQueue ==
    ASSUME [Next]_vars, ~Work
    PROVE  /\ UNCHANGED <<kind, plan, workVars>>
           /\ \/ UNCHANGED runVars
              \/ jobs' = <<>> /\ UNCHANGED started
              \/ Submit /\ open /\ inbox # <<>> /\ Head(inbox).type = "pressed"
<1>1. CASE User
  BY <1>1 DEF User, Type, Press, Close
<1>2. CASE Loop
  BY <1>2 DEF Loop, StartMeasurement, StartGenerate, HandleSaved, HandleRecord, HandleError,
         HandleGeneration, Discard, Handle
<1>3. CASE Waits \/ Child
  BY <1>3 DEF Waits, Child
<1>4. CASE UNCHANGED vars
  BY <1>4 DEF vars, workVars, runVars
<1> QED
  BY <1>1, <1>2, <1>3, <1>4 DEF Next

\* Every queued run is a number.
LEMMA QueuedRuns ==
    ASSUME NEW s \in Seq(Job)
    PROVE  \A i \in DOMAIN s : s[i] \in Job /\ s[i].run \in Nat /\ s[i].run <= MaxRuns
<1>1. \A i \in DOMAIN s : s[i] \in Job
  BY ElementOfSeq, LenProperties
<1>2. \A j \in Job : j.run \in Nat /\ j.run <= MaxRuns
  BY LaunchAssumption DEF Job
<1> QED
  BY <1>1, <1>2

\* A run that is started joins the queue last.
LEMMA SubmitKeepsOrder ==
    ASSUME LaunchTypeOK, OrderInv, Submit, UNCHANGED workVars
    PROVE  OrderInv'
<1> DEFINE new == [run |-> started + 1, artifact |-> artifact, runtime |-> launch]
<1>0. jobs \in Seq(Job) /\ started \in Nat /\ job.run \in Nat
  BY LaunchAssumption DEF LaunchTypeOK, Job
<1>1. /\ jobs \in Seq(Job) /\ started \in Nat /\ job.run \in Nat
      /\ \A i \in DOMAIN jobs : jobs[i].run \in Nat
      /\ jobs' = Append(jobs, new) /\ started' = started + 1 /\ new.run = started + 1
  <2>1. \A i \in DOMAIN jobs : jobs[i].run \in Nat
    BY <1>0, QueuedRuns
  <2> QED
    BY <1>0, <2>1 DEF Submit
<1>2. /\ Len(jobs) \in Nat /\ DOMAIN jobs = 1..Len(jobs) /\ DOMAIN jobs' = 1..(Len(jobs) + 1)
      /\ \A i \in 1..Len(jobs) : jobs'[i] = jobs[i]
      /\ jobs'[Len(jobs) + 1] = new
  <2>1. jobs \in Seq(Job \cup {new}) /\ new \in Job \cup {new}
    BY <1>1
  <2> HIDE DEF new
  <2> QED
    BY <1>1, <2>1, Appended
<1> HIDE DEF new
<1>3. UNCHANGED <<at, job, ended, observed, stored>>
  BY DEF workVars
<1>4. \A i \in DOMAIN jobs' : /\ jobs'[i].run <= started'
                              /\ job'.run < jobs'[i].run \/ (job'.run = 0 /\ jobs'[i].run = 0)
  BY <1>1, <1>2, <1>3 DEF OrderInv
<1>5. \A i, j \in DOMAIN jobs' : i < j => jobs'[i].run < jobs'[j].run
  BY <1>1, <1>2 DEF OrderInv
<1> QED
  BY <1>1, <1>3, <1>4, <1>5 DEF OrderInv

\* The worker takes the oldest.
LEMMA TakeKeepsOrder ==
    ASSUME LaunchTypeOK, OrderInv, Take
    PROVE  OrderInv'
<1>1. /\ jobs \in Seq(Job) /\ jobs # <<>> /\ started \in Nat /\ job.run \in Nat
      /\ job' = Head(jobs) /\ jobs' = Tail(jobs)
      /\ UNCHANGED <<started, ended, observed, stored>>
      /\ at' = IF Head(jobs).run = 0 THEN "history"
               ELSE IF Head(jobs).artifact = 0 THEN "prepare" ELSE "launch"
      /\ ended \subseteq Runs
  BY LaunchAssumption DEF LaunchTypeOK, Job, Take, Worker
<1>2. /\ Head(jobs) = jobs[1] /\ Len(jobs) \in Nat \ {0} /\ Head(jobs).run \in 0..MaxRuns
      /\ DOMAIN jobs = 1..Len(jobs) /\ DOMAIN jobs' = 1..(Len(jobs) - 1)
      /\ \A i \in 1..(Len(jobs) - 1) : jobs'[i] = jobs[i + 1]
      /\ \A i \in 1..Len(jobs) : jobs[i].run \in Nat
  <2>1. /\ Head(jobs) = jobs[1] /\ Head(jobs) \in Job /\ Len(jobs) \in Nat \ {0}
        /\ DOMAIN jobs = 1..Len(jobs) /\ DOMAIN jobs' = 1..(Len(jobs) - 1)
        /\ \A i \in 1..(Len(jobs) - 1) : jobs'[i] = jobs[i + 1]
    BY <1>1, Taken
  <2>2. Head(jobs).run \in 0..MaxRuns
    BY <2>1 DEF Job
  <2>3. \A i \in 1..Len(jobs) : jobs[i].run \in Nat
    BY <1>1, <2>1, QueuedRuns
  <2> QED
    BY <2>1, <2>2, <2>3
<1>3. \A i \in DOMAIN jobs' : jobs'[i].run <= started' /\ job'.run < jobs'[i].run
  BY <1>1, <1>2 DEF OrderInv
<1>4. \A i, j \in DOMAIN jobs' : i < j => jobs'[i].run < jobs'[j].run
  BY <1>1, <1>2 DEF OrderInv
<1>5. job'.run <= started' /\ (job.run < job'.run \/ (job.run = 0 /\ job'.run = 0))
  BY <1>1, <1>2 DEF OrderInv
<1>6. \A r \in ended' : r <= job'.run /\ r <= job.run
  BY <1>1, <1>2, <1>5, LaunchAssumption DEF OrderInv, Runs
<1>7. at' \notin {"idle", "history"} => job'.run \in Runs \ ended'
  BY <1>1, <1>2, <1>5, <1>6, LaunchAssumption DEF Runs
<1>8. \A r \in Runs : r > job'.run => observed'[r] = None /\ stored'[r] = None
  BY <1>1, <1>2, <1>5, LaunchAssumption DEF OrderInv, Runs
<1>9. at' = "history" => job'.run = 0
  BY <1>1, <1>2
<1> QED
  BY <1>3, <1>4, <1>5, <1>6, <1>7, <1>8, <1>9 DEF OrderInv

\* ... and works it off before the next: nothing of a later run is observed or stored.
LEMMA WorkKeepsOrder ==
    ASSUME LaunchTypeOK, OrderInv, Work
    PROVE  OrderInv'
<1>0. /\ job.run \in 0..MaxRuns /\ started \in Nat /\ ended \subseteq Runs
      /\ observed \in [Runs -> Observations \cup {None}]
      /\ stored \in [Runs -> Observations \cup {None}]
  BY LaunchAssumption DEF LaunchTypeOK, Job
<1>1. CASE Take
  BY <1>1, TakeKeepsOrder
<1>2. CASE ~Take
  <2>1. UNCHANGED <<started, jobs>> /\ job'.run = job.run
    <3>1. CASE Prepare
      <4>1. job \in Job /\ job' = [job EXCEPT !.artifact = job.run, !.runtime = IF plan THEN job.run ELSE @]
        BY <3>1 DEF Prepare, LaunchTypeOK
      <4>2. job'.run = job.run
        BY <4>1 DEF Job
      <4> QED
        BY <3>1, <4>2 DEF Prepare, Worker
    <3>2. CASE ~Prepare
      BY <1>2, <3>2 DEF Work, ReadHistory, PrepareFails, Blocked, Ready, Launch, Generated,
                        Executed, Unrecorded, Observe, Save, SaveFails, SaveLog, Return, Worker
    <3> QED
      BY <3>1, <3>2
  <2>2. CASE at = "history"
    BY <1>2, <2>1, <2>2 DEF OrderInv, Work, ReadHistory, PrepareFails, Prepare, Blocked, Ready,
           Launch, Generated, Executed, Unrecorded, Observe, Save, SaveFails, SaveLog, Return, Worker
  <2>3. CASE at # "history"
    <3>1. at # "idle" /\ job.run \in Runs \ ended /\ at' # "history"
      BY <1>2, <2>3 DEF OrderInv, Work, ReadHistory, PrepareFails, Prepare, Blocked, Ready, Launch,
           Generated, Executed, Unrecorded, Observe, Save, SaveFails, SaveLog, Return, Worker
    <3>2. \/ UNCHANGED ended
          \/ at' = "idle" /\ ended' = ended \cup {job.run}
      BY <1>2, <3>1 DEF Work, ReadHistory, PrepareFails, Prepare, Blocked, Ready, Launch,
           Generated, Executed, Unrecorded, Observe, Save, SaveFails, SaveLog, Return, Worker
    <3>3. \A r \in Runs \ {job.run} : observed'[r] = observed[r] /\ stored'[r] = stored[r]
      <4>1. \/ UNCHANGED <<observed, stored>>
            \/ observed' = [observed EXCEPT ![job.run] = observation] /\ UNCHANGED stored
            \/ stored' = [stored EXCEPT ![job.run] = observed[job.run]] /\ UNCHANGED observed
        BY <1>2 DEF Work, ReadHistory, PrepareFails, Prepare, Blocked, Ready, Launch,
             Generated, Executed, Unrecorded, Observe, Save, SaveFails, SaveLog, Return, Worker
      <4> QED
        BY <1>0, <4>1
    <3>4. \A r \in ended' : r <= job.run
      BY <1>0, <3>2 DEF OrderInv
    <3>5. \A r \in Runs : r > job.run => observed'[r] = None /\ stored'[r] = None
      BY <1>0, <3>3 DEF OrderInv, Runs
    <3>6. at' \notin {"idle", "history"} => job.run \in Runs \ ended'
      BY <3>1, <3>2
    <3> QED
      BY <2>1, <3>1, <3>4, <3>5, <3>6 DEF OrderInv
  <2> QED
    BY <2>2, <2>3
<1> QED
  BY <1>1, <1>2

LEMMA WorkOfTheScreen ==
    ASSUME Work
    PROVE  UNCHANGED <<kind, plan, userVars, viewVars, started>>
BY DEF Work, Take, ReadHistory, PrepareFails, Prepare, Blocked, Ready, Launch, Generated,
       Executed, Unrecorded, Observe, Save, SaveFails, SaveLog, Return, Worker

\* The worker knows at each place what became of its run.
LEMMA WorkKeepsPlace ==
    ASSUME LaunchTypeOK, OrderInv, PlaceInv, HostInv, Work
    PROVE  PlaceInv'
<1>0. /\ job.run \in 0..MaxRuns /\ job \in Job
      /\ observed \in [Runs -> Observations \cup {None}]
      /\ stored \in [Runs -> Observations \cup {None}]
      /\ at \notin {"idle", "history"} => job.run \in Runs
  BY DEF LaunchTypeOK, Job, OrderInv
<1>1. CASE Take
  <2>1. /\ jobs \in Seq(Job) /\ jobs # <<>> /\ job' = Head(jobs) /\ UNCHANGED <<observed, stored>>
        /\ at' \in {"history", "prepare", "launch"} /\ (Head(jobs).run = 0 => at' = "history")
    BY <1>1 DEF LaunchTypeOK, Take, Worker
  <2>2. 1 \in DOMAIN jobs /\ Head(jobs) = jobs[1] /\ Head(jobs) \in Job
    BY <2>1, Taken
  <2>3. Head(jobs).run \in 0..MaxRuns /\ (Head(jobs).run # 0 => Head(jobs).run > job.run)
    BY <1>0, <2>2 DEF OrderInv, Job
  <2>4. at' # "history" => observed[Head(jobs).run] = None /\ stored[Head(jobs).run] = None
    BY <2>1, <2>3, LaunchAssumption DEF OrderInv, Runs
  <2> QED
    BY <2>1, <2>4 DEF PlaceInv
<1>2. CASE Prepare
  <2>1. job' = [job EXCEPT !.artifact = job.run, !.runtime = IF plan THEN job.run ELSE @]
    BY <1>2 DEF Prepare
  <2>2. job'.run = job.run
    BY <1>0, <2>1 DEF Job
  <2> QED
    BY <1>2, <2>2 DEF Prepare, Worker, PlaceInv
<1>3. CASE Generated \/ Executed \/ Unrecorded
  <2>1. /\ UNCHANGED <<job, stored, lost, kind>> /\ at = "execute"
        /\ observed' = [observed EXCEPT ![job.run] = observation] /\ observation \in Observations
        /\ at' = "save" \/ (at' = "return" /\ (kind # "validate" \/ observation = "success"))
    BY <1>3 DEF Generated, Executed, Unrecorded, Observe, Worker, HostInv
  <2>2. observed'[job.run] = observation /\ observation # None
    BY <1>0, <2>1, HostAssumption
  <2> QED
    BY <2>1, <2>2 DEF PlaceInv
<1>4. CASE Save
  <2>1. /\ UNCHANGED <<job, observed, lost, kind>> /\ at = "save" /\ at' \in {"return", "log"}
        /\ stored' = [stored EXCEPT ![job.run] = observed[job.run]]
    BY <1>4 DEF Save, Worker
  <2>2. stored'[job.run] = observed[job.run]
    BY <1>0, <2>1
  <2> QED
    BY <2>1, <2>2 DEF PlaceInv
<1>5. CASE SaveFails \/ SaveLog
  <2>1. /\ UNCHANGED <<job, observed, stored, kind>> /\ at' = "return"
        /\ lost' = lost \cup {job.run} \/ (at = "log" /\ lost' = lost)
    BY <1>5 DEF SaveFails, SaveLog, Worker
  <2> QED
    BY <2>1 DEF PlaceInv
<1>6. CASE ReadHistory \/ PrepareFails \/ Blocked \/ Ready \/ Launch \/ Return
  <2>1. /\ UNCHANGED <<job, observed, stored, lost, kind>>
        /\ \/ at' = "idle"
           \/ at \in {"prepare", "check"} /\ at' = "return"
           \/ at \in {"check", "launch"} /\ at' \in {"launch", "execute"}
    BY <1>6 DEF ReadHistory, PrepareFails, Blocked, Ready, Launch, Return, Worker
  <2> QED
    BY <2>1 DEF PlaceInv
<1> QED
  BY <1>1, <1>2, <1>3, <1>4, <1>5, <1>6 DEF Work

\* A run that ended left its observation in its record, or its record is known to be lost.
LEMMA WorkKeepsEvidence ==
    ASSUME LaunchTypeOK, OrderInv, PlaceInv, FailuresAreEvidence, Work
    PROVE  FailuresAreEvidence'
<1>0. /\ job.run \in 0..MaxRuns /\ ended \subseteq Runs
      /\ observed \in [Runs -> Observations \cup {None}]
      /\ stored \in [Runs -> Observations \cup {None}]
      /\ at \notin {"idle", "history"} => job.run \in Runs \ ended
  BY DEF LaunchTypeOK, Job, OrderInv
<1>1. kind' = kind /\ lost \subseteq lost'
  BY DEF Work, Take, ReadHistory, PrepareFails, Prepare, Blocked, Ready, Launch, Generated,
         Executed, Unrecorded, Observe, Save, SaveFails, SaveLog, Return, Worker
<1>2. CASE Return
  <2>1. UNCHANGED <<observed, stored>> /\ at = "return" /\ ended' = ended \cup {job.run}
    BY <1>2 DEF Return, Worker
  <2> QED
    BY <1>1, <2>1 DEF FailuresAreEvidence, PlaceInv
<1>3. CASE ~Return
  <2>1. UNCHANGED ended
    BY <1>3 DEF Work, Take, ReadHistory, PrepareFails, Prepare, Blocked, Ready, Launch, Generated,
           Executed, Unrecorded, Observe, Save, SaveFails, SaveLog, Worker
  <2>2. \A r \in ended : observed'[r] = observed[r] /\ stored'[r] = stored[r]
    <3>1. \/ UNCHANGED <<observed, stored>>
          \/ at \notin {"idle", "history"} /\ UNCHANGED stored
                /\ observed' = [observed EXCEPT ![job.run] = observation]
          \/ at \notin {"idle", "history"} /\ UNCHANGED observed
                /\ stored' = [stored EXCEPT ![job.run] = observed[job.run]]
      BY <1>3 DEF Work, Take, ReadHistory, PrepareFails, Prepare, Blocked, Ready, Launch, Generated,
             Executed, Unrecorded, Observe, Save, SaveFails, SaveLog, Worker
    <3> QED
      BY <1>0, <3>1
  <2> QED
    BY <1>1, <2>1, <2>2 DEF FailuresAreEvidence
<1> QED
  BY <1>2, <1>3

\* All of it together, over every step of the screen.
ScreenInv == LaunchTypeOK /\ PressInv /\ HostInv /\ OrderInv /\ PlaceInv /\ FailuresAreEvidence

LEMMA ScreenInvInit == Init => ScreenInv
<1> SUFFICES ASSUME Init PROVE ScreenInv
  OBVIOUS
<1>1. HostInv /\ HostTypeOK
  BY DEF Init, HostInit, HostInv, HostTypeOK
<1>2. PressedAt(inbox) = {} /\ Cardinality({}) = 0
  BY FS_EmptySet DEF Init, PressedAt
<1>3. jobs \in Seq(Job)
  <2>1. [run |-> 0, artifact |-> 0, runtime |-> 0] \in Job
    BY LaunchAssumption DEF Job
  <2> QED
    BY <2>1, EmptySeq DEF Init
<1>4. LaunchTypeOK
  <2>1. Nothing \in Shown /\ job \in Job
    BY LaunchAssumption DEF Init, Nothing, Shown, Job
  <2>2. inbox \in Seq(Message)
    BY EmptySeq DEF Init
  <2>3. kind \in Kinds /\ plan \in BOOLEAN /\ open \in BOOLEAN /\ button \in BOOLEAN
        /\ prompt \in BOOLEAN
    BY DEF Init
  <2>4. started \in 0..MaxRuns /\ prepared \in 0..MaxRuns /\ artifact \in 0..MaxRuns
        /\ launch \in 0..MaxRuns /\ at = "idle" /\ ended = {} /\ lost = {} /\ shown = Nothing
    BY LaunchAssumption DEF Init
  <2>5. observed \in [Runs -> Observations \cup {None}] /\ stored \in [Runs -> Observations \cup {None}]
    BY DEF Init
  <2> HIDE DEF Nothing
  <2> QED
    BY <1>1, <1>3, <2>1, <2>2, <2>3, <2>4, <2>5 DEF LaunchTypeOK
<1>5. OrderInv
  <2>1. \A i \in DOMAIN jobs : i = 1 /\ jobs[i].run = 0
    BY DEF Init
  <2> QED
    BY <2>1 DEF Init, OrderInv
<1>6. PressInv
  <2>1. started = 0 /\ Cardinality(PressedAt(inbox)) = 0
    BY <1>2 DEF Init
  <2> QED
    BY <2>1, LaunchAssumption DEF PressInv
<1>7. PlaceInv /\ FailuresAreEvidence
  BY DEF Init, PlaceInv, FailuresAreEvidence
<1> QED
  BY <1>1, <1>4, <1>5, <1>6, <1>7 DEF ScreenInv

LEMMA ScreenInvStep ==
    ASSUME ScreenInv, [Next]_vars
    PROVE  ScreenInv'
<1> USE DEF ScreenInv
<1>1. HostInv'
  BY HostInvStep
<1>2. CASE Work
  BY <1>1, <1>2, WorkTypes, WorkKeepsOrder, WorkKeepsPlace, WorkKeepsEvidence
<1>3. CASE ~Work
  <2>1. LaunchTypeOK' /\ PressInv'
    <3>1. CASE UNCHANGED vars
      BY <3>1 DEF vars, userVars, viewVars, runVars, workVars, hostVars, LaunchTypeOK, HostTypeOK,
                  PressInv
    <3> QED
      BY <1>3, <3>1, UserTypes, LoopTypes, HostTypes DEF Next
  <2>2. PlaceInv' /\ FailuresAreEvidence'
    BY <1>3, OthersAndTheQueue DEF PlaceInv, FailuresAreEvidence, workVars
  <2>3. OrderInv'
    <3>1. UNCHANGED <<kind, workVars>>
      BY <1>3, OthersAndTheQueue
    <3>2. CASE UNCHANGED runVars \/ (jobs' = <<>> /\ UNCHANGED started)
      BY <3>1, <3>2 DEF OrderInv, workVars, runVars
    <3>3. CASE Submit
      BY <3>1, <3>3, SubmitKeepsOrder
    <3> QED
      BY <1>3, <3>2, <3>3, OthersAndTheQueue
  <2> QED
    BY <1>1, <2>1, <2>2, <2>3
<1> QED
  BY <1>2, <1>3

LEMMA ScreenInvariant == Spec => []ScreenInv
BY ScreenInvInit, ScreenInvStep, PTL DEF Spec

\* The types of every variable, in every behaviour of the three screens.
THEOREM TypeCorrect == Spec => []LaunchTypeOK
BY ScreenInvariant, PTL DEF ScreenInv

\* A validation that timed out, crashed or could not start is on disk when its worker is
\* done, or its loss is known, also when the screen was left meanwhile.
THEOREM EvidenceIsKept == Spec => []FailuresAreEvidence
BY ScreenInvariant, PTL DEF ScreenInv

-----------------------------------------------------------------------------
(* The Run screen: one prompt at a time, and a pair that stays a pair.     *)

LEMMA RepliesAppended ==
    ASSUME LaunchTypeOK, NEW m \in Message, inbox' = Append(inbox, m)
    PROVE  /\ \A i \in Replies' : i \in Replies \/ (m.type # "pressed" /\ i = Len(inbox) + 1)
           /\ \A i \in Replies : inbox'[i] = inbox[i]
           /\ inbox'[Len(inbox) + 1] = m
<1>1. inbox \in Seq(Message)
  BY DEF LaunchTypeOK
<1> QED
  BY <1>1, Appended DEF Replies

LEMMA RepliesHandled ==
    ASSUME LaunchTypeOK, inbox # <<>>, inbox' = Tail(inbox)
    PROVE  /\ \A i \in Replies' : i + 1 \in Replies /\ i + 1 # 1 /\ inbox'[i] = inbox[i + 1]
           /\ Head(inbox).type # "pressed" => 1 \in Replies /\ Head(inbox) = inbox[1]
<1>1. inbox \in Seq(Message)
  BY DEF LaunchTypeOK
<1> QED
  BY <1>1, Taken DEF Replies

\* What the user and the message loop do keeps the composer disabled while a run is under
\* way or its answer is not handled.
LEMMA OthersKeepComposer ==
    ASSUME LaunchTypeOK, ComposerInv, kind = "run", User \/ Loop
    PROVE  ComposerInv'
<1>1. CASE Type
  <2>1. button /\ UNCHANGED <<button, jobs, at, inbox>>
    BY <1>1 DEF Type, viewVars, runVars, workVars
  <2> QED
    BY <2>1 DEF ComposerInv, UnderWay, Replies
<1>2. CASE Press
  <2> DEFINE m == [type |-> "pressed", run |-> 0, artifact |-> 0, prepared |-> 0]
  <2>1. inbox' = Append(inbox, m) /\ UNCHANGED <<button, prompt, jobs, at>>
    BY <1>2 DEF Press, userVars, viewVars, runVars, workVars
  <2>2. m \in Message /\ m.type = "pressed"
    BY PressIsMessage
  <2> HIDE DEF m
  <2>3. \A i \in Replies' : i \in Replies
    BY <2>1, <2>2, RepliesAppended
  <2> QED
    BY <2>1, <2>3 DEF ComposerInv, UnderWay
<1>3. CASE Close
  <2>1. jobs' = <<>> /\ UNCHANGED <<button, prompt, at, inbox>>
    BY <1>3 DEF Close, viewVars, workVars
  <2> QED
    BY <2>1 DEF ComposerInv, UnderWay, Replies
<1>4. ASSUME Loop PROVE ComposerInv'
  <2>1. inbox # <<>> /\ inbox' = Tail(inbox) /\ UNCHANGED at
    BY <1>4 DEF Loop, StartMeasurement, StartGenerate, HandleSaved, HandleRecord, HandleError,
           HandleGeneration, Discard, Handle, workVars
  <2>2. /\ \A i \in Replies' : i + 1 \in Replies /\ i + 1 # 1
        /\ Head(inbox).type # "pressed" => 1 \in Replies
    BY <2>1, RepliesHandled
  <2>3. (\A i, j \in Replies' : i = j) /\ (Replies = {} => Replies' = {})
    <3>1. \A i, j \in Replies' : i \in Nat /\ j \in Nat
      <4>1. Tail(inbox) \in Seq(Message) /\ Replies' \subseteq DOMAIN inbox'
        BY <2>1, Taken DEF LaunchTypeOK, Replies
      <4> QED
        BY <2>1, <4>1, LenProperties
    <3>2. \A i, j \in Replies' : i + 1 = j + 1
      BY <2>2 DEF ComposerInv
    <3> QED
      BY <2>2, <3>1, <3>2
  <2>4. CASE UNCHANGED <<jobs, button, prompt>>
    BY <2>1, <2>3, <2>4 DEF ComposerInv, UnderWay
  <2>5. CASE StartGenerate /\ prompt
    <3>1. ~UnderWay /\ Replies = {} /\ Submit /\ prompt' = FALSE
      BY <2>5 DEF StartGenerate, ComposerInv
    <3>2. jobs = <<>> /\ at \in {"idle", "return"}
      BY <3>1 DEF UnderWay
    <3>3. jobs' # <<>> /\ Len(jobs') = 1 /\ button' = FALSE
      BY <3>1, <3>2 DEF Submit
    <3> QED
      BY <2>1, <2>3, <3>1, <3>2, <3>3 DEF ComposerInv
  <2>6. CASE HandleGeneration
    <3>1. 1 \in Replies /\ UNCHANGED <<jobs, prompt>>
      BY <2>2, <2>6 DEF HandleGeneration, Handle, runVars
    <3>2. Replies' = {} /\ ~UnderWay
      BY <2>2, <3>1 DEF ComposerInv
    <3> QED
      BY <2>1, <3>1, <3>2 DEF ComposerInv, UnderWay
  <2>7. \/ UNCHANGED <<jobs, button, prompt>>
        \/ StartGenerate /\ prompt
        \/ HandleGeneration
    BY <1>4 DEF Loop, StartMeasurement, StartGenerate, HandleSaved, HandleRecord, HandleError,
           Discard, runVars, userVars, viewVars
  <2> QED
    BY <2>4, <2>5, <2>6, <2>7
<1> QED
  BY <1>1, <1>2, <1>3, <1>4 DEF User

\* A step of the worker of the Run screen takes the prompt, goes on with it, answers it,
\* or is the return of the worker function.
LEMMA WorkOfAPrompt ==
    ASSUME LaunchTypeOK, kind = "run", Work
    PROVE  /\ UNCHANGED <<kind, plan, button, prompt, artifact, launch>>
           /\ \/ Take
              \/ /\ UNCHANGED jobs /\ at \notin {"idle", "return"} /\ at' \in {"idle", "return"}
                 /\ \/ UNCHANGED inbox
                    \/ \E m \in Message : m.type # "pressed" /\ inbox' = Append(inbox, m)
              \/ /\ UNCHANGED <<jobs, inbox>>
                 /\ at \notin {"idle", "return"} /\ at' \notin {"idle", "return"}
              \/ UNCHANGED <<jobs, inbox>> /\ at = "return" /\ at' = "idle"
<1>1. UNCHANGED <<kind, plan, button, prompt, artifact, launch>>
  BY DEF Work, Take, ReadHistory, PrepareFails, Prepare, Blocked, Ready, Launch, Generated,
         Executed, Unrecorded, Observe, Save, SaveFails, SaveLog, Return, Worker, userVars, viewVars
<1>2. CASE Take
  BY <1>1, <1>2
<1>3. CASE Prepare \/ Ready \/ Launch \/ Return
  BY <1>1, <1>3 DEF Prepare, Ready, Launch, Return, Worker, Quietly
<1>4. CASE \/ ReadHistory \/ PrepareFails \/ Blocked \/ Generated \/ Save \/ SaveFails \/ SaveLog
           \/ Executed \/ Unrecorded
  <2>1. UNCHANGED jobs /\ at \notin {"idle", "return"} /\ at' \in {"idle", "return"}
    BY <1>4 DEF ReadHistory, PrepareFails, Blocked, Generated, Save, SaveFails, SaveLog, Executed,
                Unrecorded, Observe, Worker
  <2>2. \/ UNCHANGED inbox
        \/ \E type \in {"saved", "done", "not_saved", "not_ready", "failed"} :
              Post(type, 0, 0) \/ Post(type, job.artifact, prepared)
    BY <1>4 DEF ReadHistory, PrepareFails, Blocked, Generated, Save, SaveFails, SaveLog, Executed,
                Unrecorded, Quietly
  <2>3. \A type \in {"saved", "done", "not_saved", "not_ready", "failed"},
           art \in 0..MaxRuns, prep \in 0..MaxRuns :
             [type |-> type, run |-> job.run, artifact |-> art, prepared |-> prep] \in Message
    BY DEF LaunchTypeOK, Job, Message
  <2>4. 0 \in 0..MaxRuns /\ job.artifact \in 0..MaxRuns /\ prepared \in 0..MaxRuns
    BY LaunchAssumption DEF LaunchTypeOK, Job
  <2>5. ASSUME NEW type \in {"saved", "done", "not_saved", "not_ready", "failed"},
               NEW art \in 0..MaxRuns, NEW prep \in 0..MaxRuns, Post(type, art, prep)
        PROVE  \/ UNCHANGED inbox
               \/ \E m \in Message : m.type # "pressed" /\ inbox' = Append(inbox, m)
    <3> DEFINE m == [type |-> type, run |-> job.run, artifact |-> art, prepared |-> prep]
    <3>1. m \in Message /\ m.type # "pressed"
      BY <2>3
    <3>2. inbox' = inbox \/ inbox' = Append(inbox, m)
      BY <2>5 DEF Post
    <3> HIDE DEF m
    <3> QED
      BY <3>1, <3>2
  <2>6. \/ UNCHANGED inbox
        \/ \E m \in Message : m.type # "pressed" /\ inbox' = Append(inbox, m)
    BY <2>2, <2>4, <2>5
  <2> QED
    BY <1>1, <2>1, <2>6
<1> QED
  BY <1>2, <1>3, <1>4 DEF Work

LEMMA WorkKeepsComposer ==
    ASSUME LaunchTypeOK, ComposerInv, kind = "run", Work
    PROVE  ComposerInv'
<1>1. UNCHANGED <<button, prompt>>
  BY WorkOfAPrompt
<1>2. CASE Take
  <2>1. jobs # <<>> /\ at' \notin {"idle", "return"} /\ jobs' = Tail(jobs) /\ UNCHANGED inbox
    BY <1>2 DEF Take, Worker, Quietly
  <2>2. jobs' = <<>>
    <3>1. Len(jobs') = 0 /\ jobs' \in Seq(Job)
      BY <2>1, Taken DEF ComposerInv, LaunchTypeOK
    <3> QED
      BY <3>1, EmptySeq
  <2> QED
    BY <1>1, <2>1, <2>2 DEF ComposerInv, UnderWay, Replies
<1>3. CASE UNCHANGED jobs /\ at \notin {"idle", "return"} /\ at' \in {"idle", "return"}
  <2>1. UnderWay /\ Replies = {} /\ jobs = <<>> /\ ~button /\ ~prompt
    BY <1>3 DEF ComposerInv, UnderWay
  <2>2. \A i, j \in Replies' : i = j
    <3>1. CASE UNCHANGED inbox
      BY <2>1, <3>1 DEF Replies
    <3>2. ASSUME NEW m \in Message, inbox' = Append(inbox, m) PROVE \A i, j \in Replies' : i = j
      BY <2>1, <3>2, RepliesAppended
    <3>3. ~Take
      BY <1>3 DEF Take, Worker
    <3> QED
      BY <1>3, <3>1, <3>2, <3>3, WorkOfAPrompt
  <2> QED
    BY <1>1, <1>3, <2>1, <2>2 DEF ComposerInv, UnderWay
<1>4. CASE UNCHANGED <<jobs, inbox>> /\ (at \notin {"idle", "return"} <=> at' \notin {"idle", "return"})
  BY <1>1, <1>4 DEF ComposerInv, UnderWay, Replies
<1> QED
  BY <1>2, <1>3, <1>4, WorkOfAPrompt

LEMMA OthersLeaveTheWorker ==
    ASSUME User \/ Loop
    PROVE  UNCHANGED <<kind, plan, at, job, prepared>>
BY DEF User, Type, Press, Close, Loop, StartMeasurement, StartGenerate, HandleSaved,
       HandleRecord, HandleError, HandleGeneration, Discard, Handle, workVars

\* The pair of artifact and launch, through what the user and the message loop do.
LEMMA OthersKeepPair ==
    ASSUME LaunchTypeOK, ComposerInv, PairInv, kind = "run", User \/ Loop
    PROVE  PairInv'
<1>0. /\ UNCHANGED <<at, job, prepared>>
      /\ artifact \in 0..MaxRuns /\ launch \in 0..MaxRuns /\ artifact = launch
  BY OthersLeaveTheWorker DEF LaunchTypeOK, PairInv
<1>1. CASE Type \/ Press \/ Close
  <2>1. UNCHANGED <<artifact, launch>> /\ (UNCHANGED jobs \/ jobs' = <<>>)
    BY <1>1 DEF Type, Press, Close, viewVars, runVars
  <2>2. \A i \in Replies' : i \in Replies /\ inbox'[i] = inbox[i]
    <3>1. CASE UNCHANGED inbox
      BY <3>1 DEF Replies
    <3>2. CASE Press
      <4> DEFINE m == [type |-> "pressed", run |-> 0, artifact |-> 0, prepared |-> 0]
      <4>1. inbox' = Append(inbox, m) /\ m \in Message /\ m.type = "pressed"
        BY <3>2, PressIsMessage DEF Press
      <4> HIDE DEF m
      <4> QED
        BY <4>1, RepliesAppended
    <3> QED
      BY <1>1, <3>1, <3>2 DEF Type, Close
  <2> QED
    BY <1>0, <2>1, <2>2 DEF PairInv
<1>2. CASE Loop
  <2>1. inbox # <<>> /\ inbox' = Tail(inbox)
    BY <1>2 DEF Loop, StartMeasurement, StartGenerate, HandleSaved, HandleRecord, HandleError,
           HandleGeneration, Discard, Handle
  <2>2. /\ \A i \in Replies' : i + 1 \in Replies /\ i + 1 # 1 /\ inbox'[i] = inbox[i + 1]
        /\ Head(inbox).type # "pressed" => 1 \in Replies /\ Head(inbox) = inbox[1]
    BY <2>1, RepliesHandled
  <2>3. CASE UNCHANGED <<jobs, artifact, launch>>
    BY <1>0, <2>2, <2>3 DEF PairInv
  <2>4. CASE StartGenerate /\ prompt
    <3>1. jobs = <<>> /\ Submit /\ UNCHANGED <<artifact, launch>> /\ started \in Nat
      BY <2>4, LaunchAssumption DEF StartGenerate, ComposerInv, UnderWay, LaunchTypeOK
    <3>2. \A i \in DOMAIN jobs' : jobs'[i] = [run |-> started + 1, artifact |-> artifact, runtime |-> launch]
      BY <3>1 DEF Submit
    <3>3. \A i \in DOMAIN jobs' : jobs'[i].run # 0 /\ jobs'[i].artifact = artifact
                                    /\ jobs'[i].runtime = artifact
      BY <1>0, <3>1, <3>2
    <3> QED
      BY <1>0, <2>2, <3>1, <3>3 DEF PairInv
  <2>5. CASE HandleGeneration
    <3>1. /\ 1 \in Replies /\ Head(inbox) = inbox[1] /\ UNCHANGED jobs
          /\ artifact' = IF Head(inbox).artifact = 0 THEN artifact ELSE Head(inbox).artifact
          /\ launch' = IF Head(inbox).prepared = 0 THEN launch ELSE Head(inbox).prepared
      BY <2>2, <2>5 DEF HandleGeneration, Handle, runVars
    <3>2. Replies' = {} /\ jobs = <<>> /\ at \in {"idle", "return"}
      BY <2>2, <3>1 DEF ComposerInv, UnderWay
    <3>3. artifact' = launch'
      BY <1>0, <3>1 DEF PairInv
    <3> QED
      BY <1>0, <3>1, <3>2, <3>3 DEF PairInv
  <2>6. \/ UNCHANGED <<jobs, artifact, launch>>
        \/ StartGenerate /\ prompt
        \/ HandleGeneration
    BY <1>2 DEF Loop, StartMeasurement, StartGenerate, HandleSaved, HandleRecord, HandleError,
           Discard, runVars, viewVars
  <2> QED
    BY <2>3, <2>4, <2>5, <2>6
<1> QED
  BY <1>1, <1>2 DEF User

\* ... and through the worker: what it prepares replaces both halves.
LEMMA WorkKeepsPair ==
    ASSUME LaunchTypeOK, OrderInv, ComposerInv, PairInv, kind = "run", plan, Work
    PROVE  PairInv'
<1>0. /\ UNCHANGED <<artifact, launch>> /\ job \in Job /\ job.run \in 0..MaxRuns
      /\ job.artifact \in 0..MaxRuns /\ prepared \in 0..MaxRuns
  BY WorkOfAPrompt DEF LaunchTypeOK, Job
<1>1. CASE Take
  <2>1. /\ jobs \in Seq(Job) /\ jobs # <<>> /\ job' = Head(jobs) /\ jobs' = Tail(jobs)
        /\ prepared' = 0 /\ UNCHANGED inbox
        /\ at' = IF Head(jobs).run = 0 THEN "history"
                 ELSE IF Head(jobs).artifact = 0 THEN "prepare" ELSE "launch"
    BY <1>1 DEF LaunchTypeOK, Take, Worker, Quietly
  <2>2. /\ Head(jobs) = jobs[1] /\ 1 \in DOMAIN jobs
        /\ \A i \in DOMAIN jobs' : i + 1 \in DOMAIN jobs /\ jobs'[i] = jobs[i + 1]
    BY <2>1, Taken
  <2>3. Head(jobs).run # 0 /\ Head(jobs).artifact = artifact /\ Head(jobs).runtime = artifact
    BY <2>2 DEF PairInv
  <2> QED
    BY <1>0, <2>1, <2>2, <2>3 DEF PairInv, Replies
<1>2. CASE Prepare
  <2>1. /\ job' = [job EXCEPT !.artifact = job.run, !.runtime = IF plan THEN job.run ELSE @]
        /\ prepared' = job.run /\ at' = "check" /\ UNCHANGED <<jobs, inbox>>
    BY <1>2 DEF Prepare, Worker, Quietly
  <2>2. job'.artifact = job.run /\ job'.runtime = job.run
    BY <1>0, <2>1 DEF Job
  <2>3. job.run # 0
    BY <1>2 DEF Prepare, Worker, OrderInv, Runs
  <2> QED
    BY <1>0, <2>1, <2>2, <2>3 DEF PairInv, Replies
<1>3. CASE Ready \/ Launch \/ Return
  <2>1. /\ UNCHANGED <<job, jobs, prepared, inbox>>
        /\ at' = "idle" \/ (at \in {"check", "launch"} /\ at' \in {"launch", "execute"})
    BY <1>3 DEF Ready, Launch, Return, Worker, Quietly
  <2> QED
    BY <1>0, <2>1 DEF PairInv, Replies
<1>4. CASE PrepareFails \/ Blocked \/ Generated
  <2>1. UNCHANGED <<job, jobs, prepared>> /\ at' = "return"
    BY <1>4 DEF PrepareFails, Blocked, Generated, Observe, Worker
  <2>2. \/ UNCHANGED inbox
        \/ \E type \in {"done", "not_ready", "failed"} : Post(type, 0, 0)
        \/ at = "execute" /\ \E type \in {"done", "failed"} : Post(type, job.artifact, prepared)
    BY <1>4 DEF PrepareFails, Blocked, Generated, Observe, Worker, Quietly
  <2>3. ASSUME NEW type \in {"done", "not_ready", "failed"}, NEW art \in 0..MaxRuns,
               NEW prep \in 0..MaxRuns, Post(type, art, prep),
               prep = 0 => art \in {0, artifact}, prep # 0 => art = prep
        PROVE  PairInv'
    <3> DEFINE m == [type |-> type, run |-> job.run, artifact |-> art, prepared |-> prep]
    <3>1. m \in Message /\ m.artifact = art /\ m.prepared = prep
      BY <1>0, <2>3 DEF Message
    <3>2. inbox' = inbox \/ inbox' = Append(inbox, m)
      BY <2>3 DEF Post
    <3> HIDE DEF m
    <3>3. CASE inbox' = inbox
      BY <1>0, <2>1, <3>3 DEF PairInv, Replies
    <3>4. CASE inbox' = Append(inbox, m)
      <4>1. /\ \A i \in Replies' : i \in Replies \/ i = Len(inbox) + 1
            /\ \A i \in Replies : inbox'[i] = inbox[i]
            /\ inbox'[Len(inbox) + 1] = m
        BY <3>1, <3>4, RepliesAppended
      <4>2. \A i \in Replies' :
              /\ inbox'[i].prepared = 0 => inbox'[i].artifact \in {0, artifact'}
              /\ inbox'[i].prepared # 0 => inbox'[i].artifact = inbox'[i].prepared
        BY <1>0, <2>3, <3>1, <4>1 DEF PairInv
      <4> QED
        BY <1>0, <2>1, <4>2 DEF PairInv
    <3> QED
      BY <3>2, <3>3, <3>4
  <2>4. at = "execute" => /\ prepared = 0 => job.artifact \in {0, artifact}
                          /\ prepared # 0 => job.artifact = prepared
    BY DEF PairInv
  <2>5. 0 \in 0..MaxRuns
    BY LaunchAssumption
  <2>6. CASE UNCHANGED inbox
    BY <1>0, <2>1, <2>6 DEF PairInv, Replies
  <2> QED
    BY <1>0, <2>2, <2>3, <2>4, <2>5, <2>6
<1>5. ~(ReadHistory \/ Executed \/ Unrecorded \/ Save \/ SaveFails \/ SaveLog)
  BY DEF PairInv, ReadHistory, Executed, Unrecorded, Save, SaveFails, SaveLog, Worker
<1> QED
  BY <1>1, <1>2, <1>3, <1>4, <1>5 DEF Work

LEMMA RunScreenStep ==
    ASSUME LaunchTypeOK, OrderInv, RunScreenInv, [Next]_vars
    PROVE  RunScreenInv'
<1>1. UNCHANGED <<kind, plan>>
  BY OthersAndTheQueue, WorkOfTheScreen
<1>2. CASE kind = "run"
  <2>1. CASE Work
    BY <1>1, <1>2, <2>1, WorkKeepsComposer, WorkKeepsPair DEF RunScreenInv
  <2>2. CASE User \/ Loop
    BY <1>1, <1>2, <2>2, OthersKeepComposer, OthersKeepPair DEF RunScreenInv
  <2>3. CASE Waits \/ Child \/ UNCHANGED vars
    <3>1. UNCHANGED <<button, prompt, artifact, launch, jobs, inbox, at, job, prepared>>
      BY <2>3 DEF Waits, Child, vars, userVars, viewVars, runVars, workVars
    <3> QED
      BY <1>1, <3>1 DEF RunScreenInv, ComposerInv, PairInv, UnderWay, Replies
  <2> QED
    BY <2>1, <2>2, <2>3 DEF Next
<1> QED
  BY <1>1, <1>2 DEF RunScreenInv

LEMMA RunScreenInvariant == Spec => []RunScreenInv
<1>1. Init => RunScreenInv
  <2> SUFFICES ASSUME Init PROVE RunScreenInv
    OBVIOUS
  <2>1. Replies = {} /\ (kind = "run" => jobs = <<>>) /\ at = "idle"
    BY DEF Init, Replies
  <2> QED
    BY <2>1 DEF Init, RunScreenInv, ComposerInv, PairInv, UnderWay
<1>2. ScreenInv /\ RunScreenInv /\ [Next]_vars => RunScreenInv'
  BY RunScreenStep DEF ScreenInv
<1> QED
  BY <1>1, <1>2, ScreenInvariant, PTL DEF Spec

\* Whatever the user asks next, and whatever failed before, the Run screen launches an
\* artifact with the launch that was prepared for it.
THEOREM ArtifactKeepsItsLaunch == Spec => []ArtifactRunsWithItsLaunch
<1>1. RunScreenInv => ArtifactRunsWithItsLaunch
  BY DEF RunScreenInv, PairInv, ArtifactRunsWithItsLaunch
<1> QED
  BY <1>1, RunScreenInvariant, PTL

-----------------------------------------------------------------------------
(* The screens that measure: the record of the last run is what they show. *)

LEMMA RecordsAppended ==
    ASSUME LaunchTypeOK, NEW m \in Message, inbox' = Append(inbox, m)
    PROVE  /\ \A i \in Records' : i \in Records \/ (i = Len(inbox) + 1 /\ BringsRecord(m))
           /\ \A i \in Records : i \in Records' /\ inbox'[i] = inbox[i]
                                 /\ i \in Nat /\ i < Len(inbox) + 1
           /\ BringsRecord(m) => Len(inbox) + 1 \in Records'
           /\ inbox'[Len(inbox) + 1] = m /\ Len(inbox) \in Nat
<1>1. inbox \in Seq(Message) /\ Records \subseteq DOMAIN inbox /\ Records' \subseteq DOMAIN inbox'
  BY DEF LaunchTypeOK, Records
<1>2. /\ Len(inbox) \in Nat /\ DOMAIN inbox = 1..Len(inbox) /\ DOMAIN inbox' = 1..(Len(inbox) + 1)
      /\ \A i \in 1..Len(inbox) : inbox'[i] = inbox[i]
      /\ inbox'[Len(inbox) + 1] = m
  BY <1>1, Appended
<1>3. \A i \in Records : i \in Nat /\ i < Len(inbox) + 1 /\ inbox'[i] = inbox[i]
  BY <1>1, <1>2
<1>4. \A i \in 1..(Len(inbox) + 1) : i \in 1..Len(inbox) \/ i = Len(inbox) + 1
  BY <1>2
<1> QED
  BY <1>1, <1>2, <1>3, <1>4 DEF Records, BringsRecord

LEMMA RecordsHandled ==
    ASSUME LaunchTypeOK, inbox # <<>>, inbox' = Tail(inbox)
    PROVE  /\ \A i \in Records' : i \in Nat /\ i + 1 \in Records /\ i + 1 # 1 /\ inbox'[i] = inbox[i + 1]
           /\ \A i \in Records : i = 1 \/ (i \in Nat /\ i > 1 /\ i - 1 \in Records' /\ inbox'[i - 1] = inbox[i])
           /\ Head(inbox) = inbox[1]
           /\ 1 \in Records <=> BringsRecord(Head(inbox))
<1>1. inbox \in Seq(Message)
  BY DEF LaunchTypeOK
<1>2. /\ Len(inbox) \in Nat \ {0} /\ DOMAIN inbox = 1..Len(inbox) /\ DOMAIN inbox' = 1..(Len(inbox) - 1)
      /\ \A i \in 1..(Len(inbox) - 1) : inbox'[i] = inbox[i + 1]
      /\ Head(inbox) = inbox[1]
  BY <1>1, Taken
<1>3. \A i \in Records' : i \in Nat /\ i + 1 \in Records /\ i + 1 # 1 /\ inbox'[i] = inbox[i + 1]
  BY <1>2 DEF Records, BringsRecord
<1>4. \A i \in Records : i = 1 \/ (i \in Nat /\ i > 1 /\ i - 1 \in 1..(Len(inbox) - 1) /\ (i - 1) + 1 = i)
  BY <1>2 DEF Records, BringsRecord
<1>5. \A i \in Records : i = 1 \/ (i \in Nat /\ i > 1 /\ i - 1 \in Records' /\ inbox'[i - 1] = inbox[i])
  BY <1>2, <1>4 DEF Records, BringsRecord
<1> QED
  BY <1>2, <1>3, <1>5 DEF Records, BringsRecord

\* A step that brings no record keeps the result, also when the worker goes on.
LEMMA NoRecordArrives ==
    ASSUME LaunchTypeOK, LaunchTypeOK', ResultInv, UNCHANGED <<shown, started>>, open' => open,
           \A i \in Records' : i \in Records /\ inbox'[i] = inbox[i],
           \A i \in Records : i \in Records' /\ inbox'[i] = inbox[i],
           job.run <= job'.run,
           at # "log" \/ UNCHANGED <<at, job>>,
           \A r \in Runs : stored[r] # None => stored'[r] # None,
           \A r \in Runs : stored'[r] # None => stored[r] # None \/ (at' = "log" /\ job'.run = r)
    PROVE  ResultInv'
<1>1. job.run \in 0..MaxRuns /\ job'.run \in 0..MaxRuns /\ started \in 0..MaxRuns /\ MaxRuns \in Nat
  BY LaunchAssumption DEF LaunchTypeOK, Job
<1>2. \A r \in 1..job.run : r \in Runs /\ r \in 1..job'.run
  BY <1>1 DEF Runs
<1>3. \A i \in Records' : /\ inbox'[i].run \in 1..job'.run
                          /\ inbox'[i].type = "done" => stored'[inbox'[i].run] # None
                          /\ shown'.what = "record" => shown'.run <= inbox'[i].run
  BY <1>2 DEF ResultInv
<1>4. \A i, j \in Records' : i < j => inbox'[i].run <= inbox'[j].run
  BY DEF ResultInv
<1>5. shown'.what = "record" => /\ shown'.run \in 1..job'.run
                                /\ shown'.stored => stored'[shown'.run] # None
  BY <1>2 DEF ResultInv
<1>6. open' /\ started' # 0 =>
          (stored'[started'] # None => \/ at' = "log" /\ job'.run = started'
                                       \/ \E i \in Records' : inbox'[i].run = started'
                                       \/ shown'.what = "record" /\ shown'.run = started')
  <2> SUFFICES ASSUME open', started # 0, stored'[started] # None
               PROVE  \/ at' = "log" /\ job'.run = started
                      \/ \E i \in Records' : inbox'[i].run = started
                      \/ shown.what = "record" /\ shown.run = started
    OBVIOUS
  <2>1. started \in Runs
    BY <1>1 DEF Runs
  <2>2. CASE stored[started] # None
    BY <2>2 DEF ResultInv
  <2> QED
    BY <2>1, <2>2
<1> QED
  BY <1>3, <1>4, <1>5, <1>6 DEF ResultInv

\* The worker posts the record of its run, which is the latest it took.
LEMMA RecordArrives ==
    ASSUME LaunchTypeOK, LaunchTypeOK', ResultInv, OrderInv, UNCHANGED <<shown, started, open, job>>,
           job.run \in Runs,
           NEW type, type = "done" \/ type = "not_saved", Post(type, 0, 0),
           type = "done" => stored'[job.run] # None,
           \A r \in Runs : stored[r] # None => stored'[r] # None,
           \A r \in Runs : r # job.run => stored'[r] = stored[r]
    PROVE  ResultInv'
<1> DEFINE m == [type |-> type, run |-> job.run, artifact |-> 0, prepared |-> 0]
<1>1. job.run \in 0..MaxRuns /\ started \in 0..MaxRuns /\ MaxRuns \in Nat
  BY LaunchAssumption DEF LaunchTypeOK, Job
<1>2. m \in Message /\ m.run = job.run /\ m.type = type /\ BringsRecord(m)
  BY <1>1 DEF Message, BringsRecord
<1>3. \A r \in 1..job.run : r \in Runs
  BY <1>1 DEF Runs
<1>4. inbox' = IF open THEN Append(inbox, m) ELSE inbox
  BY DEF Post
<1> HIDE DEF m
<1>5. CASE open
  <2>1. /\ \A i \in Records' : i \in Records \/ i = Len(inbox) + 1
        /\ \A i \in Records : i \in Records' /\ inbox'[i] = inbox[i]
                              /\ i \in Nat /\ i < Len(inbox) + 1
        /\ Len(inbox) + 1 \in Records' /\ inbox'[Len(inbox) + 1] = m /\ Len(inbox) \in Nat
    BY <1>2, <1>4, <1>5, RecordsAppended
  <2>2. /\ \A i \in Records : /\ inbox[i].run \in 1..job.run
                              /\ inbox[i].type = "done" => stored'[inbox[i].run] # None
                              /\ shown.what = "record" => shown.run <= inbox[i].run
        /\ shown.what = "record" => shown.run \in 1..job.run
        /\ shown.what = "record" /\ shown.stored => stored'[shown.run] # None
    BY <1>3 DEF ResultInv
  <2>3. \A i \in Records' : /\ inbox'[i].run \in 1..job.run
                            /\ inbox'[i].type = "done" => stored'[inbox'[i].run] # None
                            /\ shown.what = "record" => shown.run <= inbox'[i].run
    BY <1>1, <1>2, <2>1, <2>2 DEF Runs
  <2>4. \A i, j \in Records' : i < j => inbox'[i].run <= inbox'[j].run
    <3>1. \A i, j \in Records : i < j => inbox[i].run <= inbox[j].run
      BY DEF ResultInv
    <3>2. \A i \in Records' : inbox'[i].run <= job.run /\ inbox'[i].run \in Nat
      BY <1>1, <2>3
    <3> QED
      BY <1>1, <1>2, <2>1, <3>1, <3>2
  <2>5. started # 0 /\ stored'[started] # None =>
            \/ \E i \in Records' : inbox'[i].run = started
            \/ shown.what = "record" /\ shown.run = started
    <3>1. CASE started = job.run
      BY <1>2, <2>1, <3>1
    <3>2. CASE started # job.run /\ started # 0
      <4>1. started \in Runs /\ started > job.run
        BY <1>1, <3>2 DEF OrderInv, Runs
      <4>2. stored[started] = None
        BY <4>1 DEF OrderInv
      <4>3. stored'[started] = stored[started]
        BY <3>2, <4>1
      <4> QED
        BY <4>2, <4>3
    <3> QED
      BY <3>1, <3>2
  <2> QED
    BY <2>2, <2>3, <2>4, <2>5 DEF ResultInv
<1>6. CASE ~open
  <2>1. Records' = Records /\ inbox' = inbox
    BY <1>4, <1>6 DEF Records, BringsRecord
  <2> QED
    BY <1>3, <1>6, <2>1 DEF ResultInv
<1> QED
  BY <1>5, <1>6

\* The message loop: a record handled is no older than the one on the screen.
LEMMA LoopKeepsResult ==
    ASSUME LaunchTypeOK, LaunchTypeOK', ResultInv, OrderInv, kind # "run", Loop
    PROVE  ResultInv'
<1>1. /\ inbox # <<>> /\ inbox' = Tail(inbox)
      /\ UNCHANGED <<open, at, job, stored, ended>>
  BY DEF Loop, StartMeasurement, StartGenerate, HandleSaved, HandleRecord, HandleError,
         HandleGeneration, Discard, Handle, userVars, workVars
<1>2. /\ \A i \in Records' : i \in Nat /\ i + 1 \in Records /\ i + 1 # 1 /\ inbox'[i] = inbox[i + 1]
      /\ \A i \in Records : i = 1 \/ (i \in Nat /\ i > 1 /\ i - 1 \in Records' /\ inbox'[i - 1] = inbox[i])
      /\ Head(inbox) = inbox[1]
      /\ 1 \in Records <=> BringsRecord(Head(inbox))
  BY <1>1, RecordsHandled
<1>3. job.run \in 0..MaxRuns /\ started \in 0..MaxRuns /\ MaxRuns \in Nat /\ job.run <= started
  BY LaunchAssumption DEF LaunchTypeOK, Job, OrderInv
<1>4. /\ \A i \in Records' : /\ inbox'[i].run \in 1..job'.run
                             /\ inbox'[i].type = "done" => stored'[inbox'[i].run] # None
      /\ \A i, j \in Records' : i < j => inbox'[i].run <= inbox'[j].run
  <2>1. \A i, j \in Records : i < j => inbox[i].run <= inbox[j].run
    BY DEF ResultInv
  <2>2. \A i \in Records : /\ inbox[i].run \in 1..job.run
                           /\ inbox[i].type = "done" => stored[inbox[i].run] # None
    BY DEF ResultInv
  <2>3. UNCHANGED <<job, stored>>
    BY <1>1
  <2>4. ASSUME NEW i \in Records'
        PROVE  /\ inbox'[i].run \in 1..job'.run
               /\ inbox'[i].type = "done" => stored'[inbox'[i].run] # None
    <3>1. PICK k \in Records : inbox'[i] = inbox[k]
      BY <1>2, <2>4
    <3> QED
      BY <2>2, <2>3, <3>1
  <2>5. ASSUME NEW i \in Records', NEW j \in Records', i < j PROVE inbox'[i].run <= inbox'[j].run
    <3>1. i + 1 \in Records /\ j + 1 \in Records /\ i + 1 < j + 1
          /\ inbox'[i] = inbox[i + 1] /\ inbox'[j] = inbox[j + 1]
      BY <1>2, <2>5
    <3> QED
      BY <2>1, <3>1
  <2> QED
    BY <2>4, <2>5
\* A message that is no record leaves the result as it is.
<1>5. ASSUME ~BringsRecord(Head(inbox)), started' = started,
             shown' = shown \/ (shown.what # "record" /\ shown'.what # "record")
      PROVE  ResultInv'
  <2>1. \A i \in Records : i # 1
    BY <1>2, <1>5
  <2>2. shown'.what = "record" => /\ shown' = shown /\ shown.run \in 1..job.run
                                  /\ shown.stored => stored[shown.run] # None
                                  /\ \A i \in Records : shown.run <= inbox[i].run
    BY <1>5 DEF ResultInv
  <2>3. open /\ started # 0 /\ stored[started] # None =>
            \/ at = "log" /\ job.run = started
            \/ \E i \in Records' : inbox'[i].run = started
            \/ shown'.what = "record" /\ shown'.run = started
    <3>1. CASE \E i \in Records : inbox[i].run = started
      BY <1>2, <2>1, <3>1
    <3>2. CASE shown.what = "record" /\ shown.run = started
      BY <1>5, <3>2
    <3> QED
      BY <3>1, <3>2 DEF ResultInv
  <2> QED
    BY <1>1, <1>2, <1>4, <1>5, <2>2, <2>3 DEF ResultInv
<1>6. CASE StartMeasurement
  <2>1. Head(inbox).type = "pressed"
    BY <1>6 DEF StartMeasurement, Handle
  <2>2. CASE UNCHANGED <<started, shown>>
    BY <1>5, <2>1, <2>2 DEF BringsRecord
  <2>3. CASE started' = started + 1 /\ shown' = Nothing
    <3>1. shown'.what # "record"
      BY <2>3 DEF Nothing
    <3>2. stored[started'] = None
      <4>1. started' \in Runs /\ started' > job.run
        BY <1>3, <2>3 DEF LaunchTypeOK, Runs
      <4> QED
        BY <4>1 DEF OrderInv
    <3> QED
      BY <1>1, <1>4, <3>1, <3>2 DEF ResultInv
  <2> QED
    BY <1>6, <2>2, <2>3 DEF StartMeasurement, Submit, runVars
<1>7. CASE HandleSaved
  <2>1. Head(inbox).type = "saved" /\ UNCHANGED started
    BY <1>7 DEF HandleSaved, Handle, runVars
  <2>2. shown' = shown \/ (shown.what # "record" /\ shown'.what # "record")
    BY <1>7 DEF HandleSaved, Nothing
  <2> QED
    BY <1>5, <2>1, <2>2 DEF BringsRecord
<1>8. CASE HandleError
  <2>1. ~BringsRecord(Head(inbox)) /\ UNCHANGED <<started, shown>>
    BY <1>8 DEF HandleError, Handle, runVars, BringsRecord
  <2> QED
    BY <1>5, <2>1
<1>9. CASE HandleRecord
  <2>1. PICK type \in {"done", "not_saved"} :
            /\ Head(inbox).type = type
            /\ shown' = [what |-> "record", run |-> Head(inbox).run, stored |-> type = "done"]
    BY <1>9 DEF HandleRecord, Handle
  <2>2. /\ shown'.what = "record" /\ shown'.run = inbox[1].run /\ 1 \in Records
        /\ shown'.stored => inbox[1].type = "done"
    BY <1>2, <2>1 DEF BringsRecord
  <2>3. UNCHANGED started
    BY <1>9 DEF HandleRecord, runVars
  <2>4. /\ shown'.run \in 1..job.run
        /\ shown'.stored => stored[shown'.run] # None
    BY <2>2 DEF ResultInv
  <2>5. \A i \in Records' : shown'.run <= inbox'[i].run
    <3>1. \A i \in Records' : 1 < i + 1 /\ i + 1 \in Records
      <4>1. Records' \subseteq DOMAIN inbox' /\ inbox' \in Seq(Message)
        BY DEF Records, LaunchTypeOK
      <4>2. \A i \in Records' : i \in Nat /\ i > 0
        BY <4>1, LenProperties
      <4> QED
        BY <1>2, <4>2
    <3> QED
      BY <1>2, <2>2, <3>1 DEF ResultInv
  <2>6. open /\ started # 0 /\ stored[started] # None =>
            \/ at = "log" /\ job.run = started
            \/ \E i \in Records' : inbox'[i].run = started
            \/ shown'.what = "record" /\ shown'.run = started
    <3>1. CASE \E i \in Records : inbox[i].run = started
      BY <1>2, <2>2, <3>1
    <3>2. CASE shown.what = "record" /\ shown.run = started
      <4>1. inbox[1].run \in 1..job.run /\ started <= inbox[1].run
        BY <2>2, <3>2 DEF ResultInv
      <4> QED
        BY <1>3, <2>2, <4>1
    <3> QED
      BY <3>1, <3>2 DEF ResultInv
  <2> QED
    BY <1>1, <1>4, <2>2, <2>3, <2>4, <2>5, <2>6 DEF ResultInv
<1>10. CASE Discard
  <2>1. ~open /\ UNCHANGED <<started, shown>>
    BY <1>10 DEF Discard, runVars, viewVars
  <2> QED
    BY <1>1, <1>2, <1>4, <2>1 DEF ResultInv
<1> QED
  BY <1>6, <1>7, <1>8, <1>9, <1>10 DEF Loop, StartGenerate, HandleGeneration

\* Any other message of the worker leaves the records alone.
LEMMA SilentPost ==
    ASSUME LaunchTypeOK,
           \/ UNCHANGED inbox
           \/ \E type \in {"saved", "not_ready", "failed"} : Post(type, 0, 0)
    PROVE  /\ \A i \in Records' : i \in Records /\ inbox'[i] = inbox[i]
           /\ \A i \in Records : i \in Records' /\ inbox'[i] = inbox[i]
<1>1. CASE UNCHANGED inbox
  BY <1>1 DEF Records
<1>2. ASSUME NEW type \in {"saved", "not_ready", "failed"}, Post(type, 0, 0)
      PROVE  /\ \A i \in Records' : i \in Records /\ inbox'[i] = inbox[i]
             /\ \A i \in Records : i \in Records' /\ inbox'[i] = inbox[i]
  <2> DEFINE m == [type |-> type, run |-> job.run, artifact |-> 0, prepared |-> 0]
  <2>1. m \in Message /\ ~BringsRecord(m)
    BY LaunchAssumption DEF LaunchTypeOK, Job, Message, BringsRecord
  <2>2. inbox' = inbox \/ inbox' = Append(inbox, m)
    BY <1>2 DEF Post
  <2> HIDE DEF m
  <2> QED
    BY <1>1, <2>1, <2>2, RecordsAppended
<1> QED
  BY <1>1, <1>2

\* The worker: its record follows the ones it posted before.
LEMMA WorkKeepsResult ==
    ASSUME LaunchTypeOK, LaunchTypeOK', OrderInv, PlaceInv, ResultInv, kind # "run", Work
    PROVE  ResultInv'
<1>1. UNCHANGED <<shown, started, open>>
  BY WorkOfTheScreen DEF userVars, viewVars
<1>2. /\ job.run \in 0..MaxRuns /\ job'.run \in 0..MaxRuns /\ MaxRuns \in Nat
      /\ at \notin {"idle", "history"} => job.run \in Runs
      /\ stored \in [Runs -> Observations \cup {None}]
  BY LaunchAssumption DEF LaunchTypeOK, Job, OrderInv
<1>3. ASSUME UNCHANGED stored, at # "log", job.run <= job'.run,
             \/ UNCHANGED inbox
             \/ \E type \in {"saved", "not_ready", "failed"} : Post(type, 0, 0)
      PROVE  ResultInv'
  BY <1>1, <1>3, SilentPost, NoRecordArrives
<1>4. CASE Take
  <2>1. UNCHANGED <<stored, inbox>> /\ at # "log" /\ job' = Head(jobs) /\ jobs # <<>>
    BY <1>4 DEF Take, Worker, Quietly
  <2>2. job.run <= job'.run
    <3>1. Head(jobs) = jobs[1] /\ 1 \in DOMAIN jobs
      BY <2>1, Taken DEF LaunchTypeOK
    <3>2. job.run < jobs[1].run \/ (job.run = 0 /\ jobs[1].run = 0)
      BY <3>1 DEF OrderInv
    <3> QED
      BY <1>2, <2>1, <3>1, <3>2
  <2> QED
    BY <1>3, <2>1, <2>2
<1>5. CASE Prepare
  <2>1. UNCHANGED <<stored, inbox>> /\ at # "log"
        /\ job' = [job EXCEPT !.artifact = job.run, !.runtime = IF plan THEN job.run ELSE @]
    BY <1>5 DEF Prepare, Worker, Quietly
  <2>2. job'.run = job.run
    BY <2>1 DEF LaunchTypeOK, Job
  <2> QED
    BY <1>2, <1>3, <2>1, <2>2
<1>6. CASE \/ ReadHistory \/ PrepareFails \/ Blocked \/ Ready \/ Launch \/ Executed \/ Unrecorded
           \/ Return
  <2>1. UNCHANGED <<job, stored>> /\ at # "log"
    BY <1>6 DEF ReadHistory, PrepareFails, Blocked, Ready, Launch, Executed, Unrecorded, Observe,
                Return, Worker
  <2>2. \/ UNCHANGED inbox
        \/ \E type \in {"saved", "not_ready", "failed"} : Post(type, 0, 0)
    BY <1>6 DEF ReadHistory, PrepareFails, Blocked, Ready, Launch, Executed, Unrecorded, Return, Quietly
  <2>3. job.run <= job'.run
    BY <1>2, <2>1
  <2> QED
    BY <1>3, <2>1, <2>2, <2>3
<1>7. CASE Save
  <2>1. /\ UNCHANGED job /\ at = "save" /\ stored' = [stored EXCEPT ![job.run] = observed[job.run]]
        /\ Post("done", 0, 0) \/ (at' = "log" /\ UNCHANGED inbox)
    BY <1>7 DEF Save, Worker, Quietly
  <2>2. /\ job.run \in Runs /\ stored'[job.run] # None
        /\ \A r \in Runs : r # job.run => stored'[r] = stored[r]
    BY <1>2, <2>1 DEF PlaceInv
  <2>3. \A r \in Runs : stored[r] # None => stored'[r] # None
    BY <2>2
  <2>4. CASE Post("done", 0, 0)
    BY <1>1, <2>1, <2>2, <2>3, <2>4, RecordArrives
  <2>5. CASE at' = "log" /\ UNCHANGED inbox
    <3>1. Records' = Records
      BY <2>5 DEF Records
    <3>2. \A r \in Runs : stored'[r] # None => stored[r] # None \/ (at' = "log" /\ job'.run = r)
      BY <2>1, <2>2, <2>5
    <3>3. job.run <= job'.run /\ at # "log"
      BY <1>2, <2>1
    <3> QED
      BY <1>1, <2>3, <2>5, <3>1, <3>2, <3>3, NoRecordArrives
  <2> QED
    BY <2>1, <2>4, <2>5
<1>8. CASE SaveFails
  <2>1. /\ UNCHANGED <<job, stored>> /\ at = "save" /\ job.run \in Runs
        /\ Post("not_saved", 0, 0) \/ Post("failed", 0, 0)
    BY <1>2, <1>8 DEF SaveFails, Worker
  <2>2. CASE Post("not_saved", 0, 0)
    BY <1>1, <2>1, <2>2, RecordArrives
  <2>3. CASE Post("failed", 0, 0)
    <3>1. job.run <= job'.run
      BY <1>2, <2>1
    <3> QED
      BY <1>3, <2>1, <2>3, <3>1
  <2> QED
    BY <2>1, <2>2, <2>3
<1>9. CASE SaveLog
  <2>1. /\ UNCHANGED <<job, stored>> /\ at = "log" /\ job.run \in Runs
        /\ Post("done", 0, 0) \/ Post("not_saved", 0, 0)
    BY <1>2, <1>9 DEF SaveLog, Worker
  <2>2. stored'[job.run] # None
    BY <2>1 DEF PlaceInv
  <2> QED
    BY <1>1, <2>1, <2>2, RecordArrives
<1> QED
  BY <1>4, <1>5, <1>6, <1>7, <1>8, <1>9 DEF Work, Generated

LEMMA MeasurementStep ==
    ASSUME ScreenInv, ScreenInv', MeasurementInv, [Next]_vars
    PROVE  MeasurementInv'
<1> USE DEF ScreenInv
<1>1. UNCHANGED kind
  BY OthersAndTheQueue, WorkOfTheScreen
<1>2. ASSUME kind # "run" PROVE ResultInv'
  <2>1. ResultInv
    BY <1>2 DEF MeasurementInv
  <2>2. CASE Work
    BY <1>2, <2>1, <2>2, WorkKeepsResult
  <2>3. CASE Loop
    BY <1>2, <2>1, <2>3, LoopKeepsResult
  <2>4. CASE User \/ Waits \/ Child \/ UNCHANGED vars
    <3>1. UNCHANGED <<shown, started, job, at, stored>> /\ (open' => open)
      BY <2>4 DEF User, Type, Press, Close, Waits, Child, vars, userVars, viewVars, runVars, workVars
    <3>2. /\ \A i \in Records' : i \in Records /\ inbox'[i] = inbox[i]
          /\ \A i \in Records : i \in Records' /\ inbox'[i] = inbox[i]
      <4>1. CASE Press
        <5> DEFINE m == [type |-> "pressed", run |-> 0, artifact |-> 0, prepared |-> 0]
        <5>1. inbox' = Append(inbox, m) /\ m \in Message /\ ~BringsRecord(m)
          BY <4>1, PressIsMessage DEF Press, BringsRecord
        <5> HIDE DEF m
        <5> QED
          BY <5>1, RecordsAppended
      <4>2. CASE UNCHANGED inbox
        BY <4>2 DEF Records
      <4> QED
        BY <2>4, <4>1, <4>2 DEF User, Type, Close, Waits, Child, vars
    <3>3. job.run <= job'.run
      BY <3>1 DEF LaunchTypeOK, Job
    <3> QED
      BY <2>1, <3>1, <3>2, <3>3, NoRecordArrives
  <2> QED
    BY <2>2, <2>3, <2>4 DEF Next
<1> QED
  BY <1>1, <1>2 DEF MeasurementInv

LEMMA MeasurementInvariant == Spec => []MeasurementInv
<1>1. Init => MeasurementInv
  <2> SUFFICES ASSUME Init PROVE ResultInv
    BY DEF MeasurementInv
  <2>1. Records = {} /\ started = 0 /\ shown.what # "record"
    BY DEF Init, Records, Nothing
  <2> QED
    BY <2>1 DEF ResultInv
<1>2. ScreenInv /\ ScreenInv' /\ MeasurementInv /\ [Next]_vars => MeasurementInv'
  BY MeasurementStep
<1> QED
  BY <1>1, <1>2, ScreenInvariant, PTL DEF Spec

\* A screen where nothing is under way shows the record of its last run whenever there is
\* one, and calls it saved only when it is.
THEOREM LastRunIsShown == Spec => []QuietScreenShowsLastRun
<1>1. ScreenInv /\ MeasurementInv => QuietScreenShowsLastRun
  <2> SUFFICES ASSUME MeasurementInv, kind # "run", open, inbox = <<>>, at = "idle", started # 0
               PROVE  /\ stored[started] # None => shown.what = "record" /\ shown.run = started
                      /\ shown.what = "record" /\ shown.stored => stored[shown.run] # None
    BY DEF QuietScreenShowsLastRun
  <2>1. Records = {} /\ ResultInv
    BY DEF Records, MeasurementInv
  <2> QED
    BY <2>1 DEF ResultInv
<1> QED
  BY <1>1, ScreenInvariant, MeasurementInvariant, PTL

\* What a run of the screen does reaches the next prompt, the stored evidence and the
\* result area.
THEOREM RunsAreFollowed == Spec => []ScreenFollowsItsRuns
<1>1. FailuresAreEvidence /\ ArtifactRunsWithItsLaunch /\ QuietScreenShowsLastRun
          => ScreenFollowsItsRuns
  BY DEF ScreenFollowsItsRuns
<1> QED
  BY <1>1, EvidenceIsKept, ArtifactKeepsItsLaunch, LastRunIsShown, PTL
=============================================================================
