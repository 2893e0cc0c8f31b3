------------------------- MODULE BenchmarkRunProofs -------------------------
(***************************************************************************)
(* What is recorded of a run was measured, and on the selected card, for   *)
(* any machines, jobs and changes of the machine: an execution tells the   *)
(* truth, the thread knows of its child what it asked for, and every       *)
(* record it builds is honest.                                             *)
(***************************************************************************)
EXTENDS BenchmarkRun, FiniteSetTheorems, SequenceTheorems, WellFoundedInduction,
        NaturalsInduction, TLAPS

\* What execute observed is what the child did.
ExecutionInv ==
    /\ host \in {"idle", "waiting", "draining", "returned"}
    /\ terminated \in BOOLEAN
    /\ host = "idle" => child = "none" /\ truth = None
    /\ host = "waiting" => ~terminated
    /\ host = "returned" => child # "running"
    /\ observation # None => host = "returned"
    /\ observation = "success" => child = "exit_0" /\ ~terminated

\* Where the thread waits for a child, that child runs what heads the queue on a machine
\* of its time, the present one unless it changed.
TruthInv ==
    host # "idle" =>
        /\ step \in Commands
        /\ truth.machine \in Machines
        /\ ~moved => truth.machine = machine
        /\ queue # <<>> => truth.request = Head(queue)

\* Steps that serve the head of the queue.
Serving == {"confirm", "bench", "after", "save", "worker", "preflight", "generate"}

IsSequence(s) == s \in Seq({s[i] : i \in DOMAIN s})

\* A Vulkan configuration is one of a Vulkan selection.
QueueInv ==
    /\ machine \in Machines /\ job \in Jobs
    /\ IsSequence(queue)
    /\ step \in Serving => queue # <<>>
    /\ \A i \in DOMAIN queue : queue[i].backend = "vulkan" => job.backend = "vulkan"
    /\ step \in {"preflight", "generate"} => queue = <<ValidationRequest>>

\* A model runs on a Vulkan device that the machine's llama-bench still lists as the
\* selected card.
ConfirmedInv ==
    step = "bench" /\ ~moved /\ Head(queue).backend = "vulkan" =>
        /\ MatchDevice(Selection, machine.bench).device # None
        /\ MatchDevice(Selection, machine.bench).device.id = Head(queue).device

Fields == {"runtime", "request", "success", "exit0", "rows", "telling", "build", "probed",
           "names", "card", "exit", "killed", "printed"}

\* A record claims no more than its run did.
Honest(r) ==
    /\ DOMAIN r = Fields
    /\ r.runtime \in {"llama", "transformers"} /\ r.success =>
          r.exit = "exit_0" /\ ~r.killed /\ r.printed = Tests
    /\ r.runtime = "llama" /\ NamesConfirm(r.names, r.request.device, Accelerator.name) =>
          r.request.backend = "cpu" \/ r.card = Accelerator.card
    /\ r.runtime = "validation" /\ r.success =>
          /\ r.exit = "exit_0" /\ ~r.killed
          /\ r.request.backend = "vulkan" => r.card = Accelerator.card
          /\ job.runtime = "torch" => r.printed = {"text"}

RecordInv ==
    /\ Honest(record)
    /\ IsSequence(store) /\ \A i \in DOMAIN store : Honest(store[i])

IInv == ExecutionInv /\ TruthInv /\ QueueInv /\ ConfirmedInv /\ RecordInv
-----------------------------------------------------------------------------
(* What a listing tells.                                                   *)

\* A listing of a machine is a finite sequence that tells the cards by their names.
LEMMA ListingFacts ==
    ASSUME NEW m \in Machines, NEW devices \in {m.cli, m.bench}
    PROVE  IsFiniteSet(DOMAIN devices) /\ DOMAIN devices \subseteq Nat /\ NamesTell(devices)
  <1>1. IsSequence(devices) /\ NamesTell(devices)
    BY MachineAssumption DEF IsSequence
  <1>2. DOMAIN devices = 1..Len(devices) /\ Len(devices) \in Nat
    BY <1>1, LenProperties DEF IsSequence
  <1> QED BY <1>1, <1>2, FS_Interval

\* The device with a number is the one that was asked for by it.
LEMMA NumbersAreUnique ==
    ASSUME NEW devices, NamesTell(devices), NEW i \in DOMAIN devices,
           NEW request, request.backend # "cpu", request.device = devices[i].id
    PROVE  CardOf(devices, request) = devices[i].card
  <1>1. \A j \in DOMAIN devices : devices[j].id = devices[i].id => j = i
    BY DEF NamesTell
  <1>2. Chosen(devices, request.device) = {devices[i]}
    BY <1>1 DEF Chosen
  <1> QED BY <1>2 DEF CardOf

\* match_runtime_device finds, for Vulkan, the selected card or nothing.
LEMMA MatchedIsTheCard ==
    ASSUME NEW m \in Machines, NEW devices \in {m.cli, m.bench}, job.backend = "vulkan",
           MatchDevice(Selection, devices).device # None,
           NEW request, request.backend = "vulkan",
           request.device = MatchDevice(Selection, devices).device.id
    PROVE  CardOf(devices, request) = Accelerator.card
  <1> DEFINE real  == {i \in DOMAIN devices : ~devices[i].software}
             named == {i \in real : NamesAgree(devices[i].name, Accelerator.name)}
  <1>1. IsFiniteSet(DOMAIN devices) /\ DOMAIN devices \subseteq Nat /\ NamesTell(devices)
    BY ListingFacts
  <1>2. IsFiniteSet(real) /\ IsFiniteSet(named)
    BY <1>1, FS_Subset
  <1>3. Cardinality(real) \in Nat /\ Cardinality(named) \in Nat
    BY <1>2, FS_CardinalityType
  <1>4. (Cardinality(real) = 0 <=> real = {}) /\ (Cardinality(named) = 0 <=> named = {})
    BY <1>2, FS_EmptySet
  <1>5. Selection.backend = "vulkan" /\ Selection.accelerator = Accelerator
    BY DEF Selection
  <1>6. Cardinality(named) = 1 /\ MatchDevice(Selection, devices).device = devices[Min(named)]
    <2> DEFINE meant == {i \in real : /\ Selection.accelerator # None
                                     /\ NamesAgree(devices[i].name, Selection.accelerator.name)}
    <2>1. MatchDevice(Selection, devices) =
            CASE real = {} -> [device |-> None, reason |-> "none"]
              [] Cardinality(meant) = 1 -> [device |-> devices[Min(meant)], reason |-> "matched"]
              [] Cardinality(meant) > 1 \/ (meant = {} /\ Cardinality(real) > 1) ->
                    [device |-> None, reason |-> "ambiguous"]
              [] meant = {} /\ Cardinality(real) = 1 ->
                    IF Selection.backend = "vulkan"
                    THEN [device |-> None, reason |-> "mismatch"]
                    ELSE [device |-> devices[Min(real)], reason |-> "matched"]
      BY DEF MatchDevice
    <2>2. meant = {} \/ meant = named
      BY <1>5
    <2> HIDE DEF real, named, meant
    <2>3. Cardinality(meant) \in Nat /\ (Cardinality(meant) = 0 <=> meant = {})
      BY <1>3, <1>4, <2>2, FS_EmptySet
    <2>4. Cardinality(meant) = 1 /\ MatchDevice(Selection, devices).device = devices[Min(meant)]
      BY <1>3, <1>4, <1>5, <2>1, <2>3
    <2> QED BY <2>2, <2>3, <2>4
  <1>7. PICK i : named = {i}
    BY <1>2, <1>6, FS_Singleton
  <1>8. i \in DOMAIN devices /\ Min(named) = i
    BY <1>1, <1>7 DEF Min
  <1>9. {j \in DOMAIN devices : NamesAgree(devices[j].name, Accelerator.name)} = {i}
    BY <1>1, <1>7 DEF NamesTell
  <1>10. devices[i].card = Accelerator.card
    BY <1>1, <1>9 DEF NamesTell
  <1> QED BY <1>1, <1>6, <1>8, <1>10, NumbersAreUnique

\* A run whose own output confirms its device ran on the selected card.
LEMMA ConfirmedIsTheCard ==
    ASSUME NEW m \in Machines, NEW devices \in {m.cli, m.bench}, NEW named \in BOOLEAN,
           NEW request, request.backend # "cpu",
           NamesConfirm(Enumerated(devices, named), request.device, Accelerator.name)
    PROVE  CardOf(devices, request) = Accelerator.card
  <1>1. NamesTell(devices)
    BY ListingFacts
  <1> DEFINE output == Enumerated(devices, named)
             agreed == {e \in output : NamesAgree(e.name, Accelerator.name)}
  <1>2. {d.id : d \in agreed} = {request.device}
    BY DEF NamesConfirm
  <1>3. PICK d \in agreed : d.id = request.device
    BY <1>2
  <1>4. PICK i \in DOMAIN devices : devices[i] = d
    BY <1>3 DEF Enumerated
  <1>5. output = {devices[j] : j \in DOMAIN devices}
    BY <1>3 DEF Enumerated
  <1>6. \A j \in DOMAIN devices :
            NamesAgree(devices[j].name, Accelerator.name) => devices[j].id = devices[i].id
    BY <1>2, <1>3, <1>4, <1>5
  <1>7. {j \in DOMAIN devices : NamesAgree(devices[j].name, Accelerator.name)} = {i}
    BY <1>1, <1>3, <1>4, <1>6 DEF NamesTell
  <1>8. devices[i].card = Accelerator.card
    BY <1>1, <1>7 DEF NamesTell
  <1> QED BY <1>1, <1>3, <1>4, <1>8, NumbersAreUnique

-----------------------------------------------------------------------------
(* The queue.                                                              *)

\* What is known of a queue by itself.
Queued(q) ==
    IsSequence(q) /\ \A i \in DOMAIN q : q[i].backend = "vulkan" => job.backend = "vulkan"

\* A sequence over any set.
LEMMA Sequenced == ASSUME NEW S, NEW s \in Seq(S) PROVE IsSequence(s)
  <1>1. DOMAIN s = 1..Len(s) /\ Len(s) \in Nat /\ s \in [1..Len(s) -> S]
    BY LenProperties
  <1> QED BY <1>1 DEF IsSequence

\* A queue of one configuration.
LEMMA OneQueued ==
    ASSUME NEW r, r.backend = "vulkan" => job.backend = "vulkan"
    PROVE  Queued(<<r>>) /\ <<r>> # <<>> /\ Head(<<r>>) = r
  <1>1. <<r>> \in Seq({r})
    OBVIOUS
  <1>2. IsSequence(<<r>>)
    BY <1>1, Sequenced
  <1> QED BY <1>2 DEF Queued

\* What is left of a queue.
LEMMA TailQueued ==
    ASSUME NEW q, Queued(q), q # <<>>
    PROVE  Queued(Tail(q))
  <1> DEFINE S == {q[i] : i \in DOMAIN q}
  <1>1. q \in Seq(S)
    BY DEF Queued, IsSequence
  <1> HIDE DEF S
  <1>2. Tail(q) \in Seq(S) /\ Len(Tail(q)) = Len(q) - 1 /\ Len(q) \in Nat
        /\ \A i \in 1..Len(Tail(q)) : Tail(q)[i] = q[i + 1]
    BY <1>1, HeadTailProperties, LenProperties
  <1>3. DOMAIN Tail(q) = 1..Len(Tail(q)) /\ DOMAIN q = 1..Len(q)
    BY <1>1, <1>2, LenProperties
  <1>4. \A i \in DOMAIN Tail(q) : i + 1 \in DOMAIN q
    BY <1>2, <1>3
  <1> QED BY <1>2, <1>3, <1>4, Sequenced DEF Queued

\* A configuration of Vulkan comes first only to be confirmed.
LEMMA StepForHead ==
    ASSUME NEW q
    PROVE  /\ StepFor(q) \in {"done", "bench", "confirm"}
           /\ StepFor(q) # "done" => q # <<>>
           /\ StepFor(q) = "bench" => Head(q).backend = "cpu"
  BY DEF StepFor

\* _build_requests asks for Vulkan only when it is the selected backend.
LEMMA MatrixQueued == ASSUME job \in Jobs PROVE Queued(MatrixRequests)
  <1> DEFINE layers == IF job.layers = <<>> THEN <<LayersOf(job.flag)>> ELSE job.layers
             cpu == IF job.cpu THEN <<OnCpu>> ELSE <<>>
             gpu == IF job.selected /\ job.backend # "cpu" /\ Listed # None
                    THEN [i \in DOMAIN layers |-> On(Listed.id, layers[i])] ELSE <<>>
             S == {OnCpu} \cup {On(Listed.id, layers[i]) : i \in DOMAIN layers}
  <1>1. DOMAIN layers = 1..Len(layers) /\ Len(layers) \in Nat
    <2>1. job.layers \in Seq(Int)
      BY JobAssumption
    <2>2. CASE job.layers = <<>>
      BY <2>2
    <2>3. CASE job.layers # <<>>
      BY <2>1, <2>3
    <2> QED BY <2>2, <2>3
  <1>2. cpu \in Seq(S)
    <2>1. OnCpu \in S
      OBVIOUS
    <2> HIDE DEF S
    <2> QED BY <2>1
  <1>3. gpu \in Seq(S)
    <2> HIDE DEF layers
    <2> QED BY <1>1
  <1>4. \A r \in S : r.backend = "vulkan" => job.backend = "vulkan"
    BY DEF On, OnCpu
  <1>5. MatrixRequests = cpu \o gpu
    BY DEF MatrixRequests
  <1> HIDE DEF S, cpu, gpu
  <1>6. MatrixRequests \in Seq(S)
    BY <1>2, <1>3, <1>5, ConcatProperties
  <1>7. \A i \in DOMAIN MatrixRequests : MatrixRequests[i] \in S
    BY <1>6, LenProperties, ElementOfSeq
  <1> QED BY <1>4, <1>6, <1>7, Sequenced DEF Queued

-----------------------------------------------------------------------------
(* How a step of the thread ends or begins a command.                      *)

worldAndJob == <<machine, changes, job>>

\* A step that asks nothing of the host, one that takes what a command observed, or a
\* launch; the machine and the job are not the thread's.
LEMMA ThreadAndHost ==
    ASSUME Thread
    PROVE  /\ UNCHANGED worldAndJob
           /\ \/ Launch
              \/ \E from \in Commands : Returned(from)
              \/ /\ step \in {"begin", "save"} \/ host = "idle"
                 /\ UNCHANGED <<truth, moved, hostVars>>
  <1> USE DEF Keep, worldVars, worldAndJob, Commands
  <1>1. CASE Begin
    BY <1>1 DEF Begin, BeginMatrix, BeginPlan, BeginScreen, BeginTorch, BeginValidation
  <1>2. CASE Launch
    BY <1>2 DEF Launch
  <1>3. CASE Version
    BY <1>3 DEF Version
  <1>4. CASE Footer
    BY <1>4 DEF Footer
  <1>5. CASE Confirm
    BY <1>5 DEF Confirm
  <1>6. CASE Refuse
    BY <1>6 DEF Refuse, RefuseBench, RefuseLlama, RefuseTorch, Refused
  <1>7. CASE Unavailable
    BY <1>7 DEF Unavailable
  <1>8. CASE Bench
    BY <1>8 DEF Bench
  <1>9. CASE After
    BY <1>9 DEF After
  <1>10. CASE Worker
    BY <1>10 DEF Worker
  <1>11. CASE Preflight
    BY <1>11 DEF Preflight
  <1>12. CASE PreflightTorch
    BY <1>12 DEF PreflightTorch
  <1>13. CASE Generate
    BY <1>13 DEF Generate
  <1>14. CASE GenerateTorch
    BY <1>14 DEF GenerateTorch
  <1>15. CASE Save
    BY <1>15 DEF Save
  <1> QED BY <1>1, <1>2, <1>3, <1>4, <1>5, <1>6, <1>7, <1>8, <1>9, <1>10, <1>11, <1>12, <1>13,
             <1>14, <1>15 DEF Thread

\* An execution tells the truth, and its child what was asked of it.
LEMMA ExecutionKeeps ==
    ASSUME IInv, [Next]_vars
    PROVE  ExecutionInv' /\ TruthInv'
  <1>1. ExecutionInv /\ TruthInv /\ machine \in Machines
    BY DEF IInv, QueueInv
  <1>2. CASE Launch
    <2>1. /\ step \in Commands /\ host = "idle" /\ Spawn
          /\ UNCHANGED <<step, queue, machine>>
          /\ truth' = [machine |-> machine,
                       request |-> IF queue = <<>> THEN OnCpu ELSE Head(queue)]
      BY <1>2 DEF Launch, Keep, worldVars
    <2> QED BY <1>1, <2>1, HostAssumption
            DEF ExecutionInv, TruthInv, Spawn, Observations
  <1>3. ASSUME NEW from \in Commands, Returned(from) PROVE ExecutionInv' /\ TruthInv'
    BY <1>3, HostAssumption DEF Returned, ExecutionInv, TruthInv, Observations
  <1>4. ASSUME step \in {"begin", "save"} \/ host = "idle", UNCHANGED <<truth, moved, hostVars>>
        PROVE  ExecutionInv' /\ TruthInv'
    <2>1. host = "idle"
      BY <1>1, <1>4 DEF TruthInv, Commands
    <2> QED BY <1>1, <1>4, <2>1 DEF ExecutionInv, TruthInv, hostVars
  <1>5. CASE Waits
    <2>1. HostStep /\ UNCHANGED <<machine, step, queue, truth, moved>>
      BY <1>5 DEF Waits, worldVars
    <2>2. TruthInv'
      BY <1>1, <2>1 DEF HostStep, Collect, Deadline, Kill, Drain, TruthInv
    <2>3. ExecutionInv'
      <3>1. CASE Collect
        BY <1>1, <2>1, <3>1 DEF Collect, ExecutionInv
      <3>2. CASE Deadline
        BY <1>1, <2>1, <3>2 DEF Deadline, ExecutionInv
      <3>3. CASE Kill
        BY <1>1, <2>1, <3>3 DEF Kill, ExecutionInv
      <3>4. CASE Drain
        BY <1>1, <2>1, <3>4, HostAssumption DEF Drain, ExecutionInv, Observations
      <3> QED BY <2>1, <3>1, <3>2, <3>3, <3>4 DEF HostStep
    <2> QED BY <2>2, <2>3
  <1>6. CASE ChildEnds
    <2>1. ChildExits /\ UNCHANGED <<machine, step, queue, truth, moved>>
      BY <1>6 DEF ChildEnds, worldVars
    <2> QED BY <1>1, <2>1, HostAssumption
            DEF ChildExits, ExecutionInv, TruthInv, Ends, Observations
  <1>7. CASE Change
    BY <1>1, <1>7 DEF Change, ExecutionInv, TruthInv, hostVars
  <1>8. CASE UNCHANGED vars
    BY <1>1, <1>8 DEF vars, worldVars, hostVars, ExecutionInv, TruthInv
  <1> QED BY <1>2, <1>3, <1>4, <1>5, <1>6, <1>7, <1>8, ThreadAndHost DEF Next

-----------------------------------------------------------------------------
(* The queue and the device of its head.                                   *)

\* What is queued, and where the thread may be with it.
QueueAt(q, at) ==
    /\ Queued(q)
    /\ at \in Serving => q # <<>>
    /\ at = "bench" => Head(q).backend = "cpu"
    /\ at \notin {"preflight", "generate"}

\* A step to such a place keeps both invariants.
LEMMA ArrivesWell ==
    ASSUME QueueAt(queue', step'), job \in Jobs, machine \in Machines, UNCHANGED worldAndJob
    PROVE  QueueInv' /\ ConfirmedInv'
  BY DEF QueueAt, Queued, QueueInv, ConfirmedInv, worldAndJob, IsSequence

\* A queue is served from its head.
LEMMA ServesTheHead == ASSUME NEW q, Queued(q) PROVE QueueAt(q, StepFor(q))
  BY StepForHead DEF QueueAt, Serving

\* The matrix goes on with the next configuration; a single one is over.
LEMMA LeaveArrives ==
    ASSUME QueueInv, step \in Serving, NEW outcome, Leave(outcome)
    PROVE  QueueAt(queue', step')
  <1>1. Queued(queue) /\ queue # <<>>
    BY DEF QueueInv, Queued
  <1>2. CASE job.kind = "matrix"
    <2>1. queue' = Tail(queue) /\ step' = StepFor(queue')
      BY <1>2 DEF Leave
    <2>2. Queued(queue')
      BY <1>1, <2>1, TailQueued
    <2> QED BY <2>1, <2>2, ServesTheHead
  <1>3. CASE job.kind # "matrix"
    <2>1. queue' = queue /\ step' \in {"raised", "done"}
      BY <1>3 DEF Leave
    <2> QED BY <1>1, <2>1 DEF QueueAt, Serving
  <1> QED BY <1>2, <1>3

\* Every job asks for Vulkan only when it is the selected backend.
LEMMA BeginArrives ==
    ASSUME IInv, Begin, UNCHANGED worldAndJob
    PROVE  QueueInv' /\ ConfirmedInv'
  <1>1. Queued(queue) /\ job \in Jobs /\ machine \in Machines
    BY DEF IInv, QueueInv, Queued
  <1>2. CASE step' = "raised" /\ UNCHANGED queue
    <2>1. QueueAt(queue', step')
      BY <1>1, <1>2 DEF QueueAt, Serving
    <2> QED BY <1>1, <2>1, ArrivesWell
  <1>3. CASE BeginMatrix
    <2>1. queue' = MatrixRequests /\ step' = "version"
      BY <1>3 DEF BeginMatrix, Ask
    <2>2. QueueAt(queue', step')
      BY <1>1, <2>1, MatrixQueued DEF QueueAt, Serving
    <2> QED BY <1>1, <2>2, ArrivesWell
  <1>4. CASE BeginPlan /\ ~(step' = "raised" /\ UNCHANGED queue)
    <2>1. queue' = <<PlanRequest>> /\ step' = StepFor(queue')
      BY <1>4 DEF BeginPlan, Ask, askedVars
    <2>2. PlanRequest.backend = "vulkan" => job.backend = "vulkan"
      BY DEF PlanRequest, OnCpu, On
    <2>3. QueueAt(queue', step')
      BY <2>1, <2>2, OneQueued, ServesTheHead
    <2> QED BY <1>1, <2>3, ArrivesWell
  <1>5. CASE BeginScreen /\ ~(step' = "raised" /\ UNCHANGED queue)
    <2>1. /\ queue' = <<ScreenRequest>>
          /\ step' = IF job.runtime = "torch" THEN "worker" ELSE StepFor(queue')
      BY <1>5 DEF BeginScreen, Ask, askedVars
    <2>2. ScreenRequest.backend = "vulkan" => job.backend = "vulkan"
      BY DEF ScreenRequest, ScreenBackend, TorchBackend
    <2>3. QueueAt(queue', step')
      BY <2>1, <2>2, OneQueued, ServesTheHead DEF QueueAt, Serving
    <2> QED BY <1>1, <2>3, ArrivesWell
  <1>6. CASE BeginTorch /\ ~(step' = "raised" /\ UNCHANGED queue)
    <2>1. /\ queue' = <<[backend |-> TorchBackend, device |-> None, layers |-> 0]>>
          /\ step' = "worker"
      BY <1>6 DEF BeginTorch, Ask, askedVars
    <2>2. TorchBackend # "vulkan"
      BY DEF TorchBackend
    <2>3. QueueAt(queue', step')
      BY <2>1, <2>2, OneQueued DEF QueueAt, Serving
    <2> QED BY <1>1, <2>3, ArrivesWell
  <1>7. CASE BeginValidation /\ ~(step' = "raised" /\ UNCHANGED queue)
    <2>1. queue' = <<ValidationRequest>> /\ step' = "preflight"
      BY <1>7 DEF BeginValidation, Ask, askedVars
    <2>2. ValidationRequest.backend = "vulkan" => job.backend = "vulkan"
      BY DEF ValidationRequest, On
    <2>3. Queued(queue') /\ queue' # <<>>
      BY <2>1, <2>2, OneQueued
    <2>4. queue' = <<ValidationRequest'>>
      BY <2>1 DEF ValidationRequest, On, worldAndJob
    <2> QED BY <1>1, <2>1, <2>3, <2>4
            DEF QueueInv, Queued, IsSequence, ConfirmedInv, Serving, worldAndJob
  <1> QED BY <1>2, <1>3, <1>4, <1>5, <1>6, <1>7 DEF Begin

\* A step that leaves the queue and goes on with its head, not to a model.
LEMMA GoesOn ==
    ASSUME QueueInv, queue' = queue, UNCHANGED worldAndJob, step \in Serving,
           \/ step' \in {"after", "save"}
           \/ step = "preflight" /\ step' = "generate"
    PROVE  QueueInv' /\ ConfirmedInv'
  <1>1. ValidationRequest' = ValidationRequest
    BY DEF ValidationRequest, On, worldAndJob
  <1> QED BY <1>1 DEF QueueInv, ConfirmedInv, Serving, worldAndJob, IsSequence

\* What waits for a child, or changes the machine, takes nothing from the queue.
LEMMA StaysAsked ==
    ASSUME QueueInv, ConfirmedInv, UNCHANGED <<queue, step, job>>,
           machine' \in Machines, moved' \/ UNCHANGED <<machine, moved>>
    PROVE  QueueInv' /\ ConfirmedInv'
  <1>1. ValidationRequest' = ValidationRequest /\ Selection' = Selection
    BY DEF ValidationRequest, On, Selection
  <1> QED BY <1>1 DEF QueueInv, ConfirmedInv, IsSequence

\* A configuration that ends lets the next one begin.
LEMMA Leaves ==
    ASSUME IInv, step \in Serving, UNCHANGED worldAndJob, NEW outcome, Leave(outcome)
    PROVE  QueueInv' /\ ConfirmedInv'
  <1>1. QueueInv /\ job \in Jobs /\ machine \in Machines
    BY DEF IInv, QueueInv
  <1> QED BY <1>1, LeaveArrives, ArrivesWell

LEMMA Fails ==
    ASSUME IInv, step \in Serving, UNCHANGED worldAndJob, Failed
    PROVE  QueueInv' /\ ConfirmedInv'
  BY Leaves DEF Failed

\* confirm_benchmark_device lets a model run only on the device the machine's llama-bench
\* lists as the selected card.
LEMMA ConfirmKeeps ==
    ASSUME IInv, Confirm, UNCHANGED worldAndJob
    PROVE  QueueInv' /\ ConfirmedInv'
  <1>1. /\ QueueInv /\ TruthInv /\ job \in Jobs /\ machine \in Machines
        /\ step = "confirm" /\ host = "returned" /\ moved' = moved
    BY DEF IInv, QueueInv, Confirm, Returned
  <1> DEFINE match == MatchDevice(Selection, truth.machine.bench).device
  <1>2. CASE Failed
    BY <1>1, <1>2, Fails DEF Serving
  <1>3. CASE ~Failed
    <2>1. match # None /\ match.id = Head(queue).device /\ step' = "bench" /\ queue' = queue
      BY <1>3 DEF Confirm
    <2>2. Selection' = Selection
      BY DEF Selection, worldAndJob
    <2>3. ~moved => truth.machine = machine
      BY <1>1 DEF TruthInv
    <2>4. ConfirmedInv'
      <3> HIDE DEF match
      <3>1. ~moved => match = MatchDevice(Selection, machine.bench).device
        BY <2>3 DEF match
      <3>2. machine' = machine
        BY DEF worldAndJob
      <3> QED BY <1>1, <2>1, <2>2, <3>1, <3>2 DEF ConfirmedInv
    <2>5. QueueInv'
      BY <1>1, <2>1 DEF QueueInv, IsSequence, worldAndJob, Serving
    <2> QED BY <2>4, <2>5
  <1> QED BY <1>2, <1>3

\* Every step of the thread keeps the queue and the confirmed device.
LEMMA ThreadKeepsQueue ==
    ASSUME IInv, Thread
    PROVE  QueueInv' /\ ConfirmedInv'
  <1>0. /\ QueueInv /\ ConfirmedInv /\ Queued(queue) /\ UNCHANGED worldAndJob
        /\ job \in Jobs /\ machine \in Machines
    BY ThreadAndHost DEF IInv, QueueInv, Queued
  <1>1. CASE Begin
    BY <1>0, <1>1, BeginArrives
  <1>2. CASE Launch
    <2>1. UNCHANGED <<queue, step, machine>> /\ moved' \in {moved, FALSE}
          /\ (step = "bench" => moved' = moved)
      BY <1>2 DEF Launch, Keep, worldVars
    <2>2. Selection' = Selection /\ ValidationRequest' = ValidationRequest
      BY <1>0 DEF Selection, ValidationRequest, On, worldAndJob
    <2> QED BY <1>0, <2>1, <2>2 DEF QueueInv, ConfirmedInv, IsSequence, worldAndJob
  <1>3. CASE Version \/ Footer
    <2>1. queue' = queue /\ step' \in {"raised", "footer", StepFor(queue)}
      BY <1>3 DEF Version, Footer, Keep
    <2>2. QueueAt(queue', step')
      <3>1. CASE step' = StepFor(queue)
        BY <1>0, <2>1, <3>1, ServesTheHead
      <3>2. CASE step' \in {"raised", "footer"}
        BY <1>0, <2>1, <3>2 DEF QueueAt, Serving
      <3> QED BY <2>1, <3>1, <3>2
    <2> QED BY <1>0, <2>2, ArrivesWell
  <1>4. CASE Confirm
    BY <1>0, <1>4, ConfirmKeeps
  <1>5. CASE Refuse
    BY <1>0, <1>5, Fails DEF Refuse, RefuseBench, RefuseLlama, RefuseTorch, Refused, Serving
  <1>6. CASE Unavailable
    BY <1>0, <1>6, Fails DEF Unavailable, Returned, Serving
  <1>7. CASE Bench
    <2>1. step = "bench" /\ step' \in {"save", "after"} /\ queue' = queue
      BY <1>7 DEF Bench, Returned, Keep
    <2>2. step \in Serving
      BY <2>1 DEF Serving
    <2> QED BY <1>0, <2>1, <2>2, GoesOn
  <1>8. CASE After
    <2>1. step = "after" /\ step' \in {"save"} /\ queue' = queue
      BY <1>8 DEF After, Returned, Keep
    <2>2. step \in Serving
      BY <2>1 DEF Serving
    <2> QED BY <1>0, <2>1, <2>2, GoesOn
  <1>9. CASE Worker
    <2>1. step = "worker" /\ step' \in {"save"} /\ queue' = queue
      BY <1>9 DEF Worker, Returned, Keep
    <2>2. step \in Serving
      BY <2>1 DEF Serving
    <2> QED BY <1>0, <2>1, <2>2, GoesOn
  <1>10. CASE Preflight
    <2>1. step = "preflight" /\ step \in Serving
      BY <1>10 DEF Preflight, Returned, Serving
    <2>2. Failed \/ (step' = "generate" /\ UNCHANGED <<queue, outcomes>>)
      BY <1>10 DEF Preflight
    <2> QED BY <1>0, <2>1, <2>2, GoesOn, Fails
  <1>11. CASE PreflightTorch
    <2>1. step = "preflight" /\ step \in Serving
      BY <1>11 DEF PreflightTorch, Returned, Serving
    <2>2. Failed \/ (step' = "generate" /\ UNCHANGED <<queue, outcomes>>)
      BY <1>11 DEF PreflightTorch
    <2> QED BY <1>0, <2>1, <2>2, GoesOn, Fails
  <1>12. CASE Generate
    <2>1. step = "generate" /\ step \in Serving
      BY <1>12 DEF Generate, Returned, Serving
    <2>2. Failed \/ (step' = "save" /\ UNCHANGED <<queue, outcomes>>)
      BY <1>12 DEF Generate
    <2> QED BY <1>0, <2>1, <2>2, GoesOn, Fails
  <1>13. CASE GenerateTorch
    <2>1. step = "generate" /\ step' \in {"save"} /\ queue' = queue
      BY <1>13 DEF GenerateTorch, Returned, Keep
    <2>2. step \in Serving
      BY <2>1 DEF Serving
    <2> QED BY <1>0, <2>1, <2>2, GoesOn
  <1>14. CASE Save
    <2>1. step = "save" /\ \E outcome : Leave(outcome)
      BY <1>14 DEF Save
    <2> QED BY <1>0, <2>1, Leaves DEF Serving
  <1> QED BY <1>1, <1>2, <1>3, <1>4, <1>5, <1>6, <1>7, <1>8, <1>9, <1>10, <1>11, <1>12, <1>13,
             <1>14 DEF Thread

LEMMA QueueKeeps ==
    ASSUME IInv, [Next]_vars
    PROVE  QueueInv' /\ ConfirmedInv'
  <1>0. QueueInv /\ ConfirmedInv /\ machine \in Machines
    BY DEF IInv, QueueInv
  <1>1. CASE Thread
    BY <1>1, ThreadKeepsQueue
  <1>2. CASE Waits \/ ChildEnds \/ UNCHANGED vars
    BY <1>0, <1>2, StaysAsked DEF Waits, ChildEnds, vars, worldVars
  <1>3. CASE Change
    BY <1>0, <1>3, StaysAsked DEF Change
  <1> QED BY <1>1, <1>2, <1>3 DEF Next

-----------------------------------------------------------------------------
(* The records.                                                            *)

\* Nothing is claimed of no run.
LEMMA NoRecordIsHonest == Honest(NoRecord)
  <1>1. DOMAIN NoRecord = Fields
    BY DEF NoRecord, Fields
  <1>2. ~NamesConfirm({}, NoRecord.request.device, Accelerator.name)
    BY DEF NamesConfirm
  <1>3. NoRecord.names = {} /\ NoRecord.success = FALSE
    BY DEF NoRecord
  <1> QED BY <1>1, <1>2, <1>3 DEF Honest

\* The footer of a run tells its build, nothing else.
LEMMA EnrichedIsHonest ==
    ASSUME NEW r, Honest(r), NEW build
    PROVE  Honest(Enriched(r)) /\ Honest([r EXCEPT !.probed = build])
  BY DEF Honest, Enriched, Fields

\* LlamaBenchRunner.run: a success is of a child that ended well with both figures, and a
\* log that confirms the device is of a run on the selected card.
LEMMA BenchIsHonest ==
    ASSUME IInv, step = "bench", host = "returned", NEW out
    PROVE  Honest(BenchRecord(out))
  <1> DEFINE r == BenchRecord(out)
             ok == observation = "success" /\ Measured(out)
  <1>1. /\ truth.machine \in Machines /\ truth.request = Head(queue)
        /\ observation = "success" => child = "exit_0" /\ ~terminated
    BY DEF IInv, TruthInv, ExecutionInv, QueueInv, Serving
  <1>2. DOMAIN r = Fields
    BY DEF BenchRecord, Fields
  <1>3. /\ r.runtime = "llama" /\ r.request = Head(queue) /\ r.success = ok
        /\ r.exit = child /\ r.killed = terminated /\ r.printed = out.rows
        /\ r.names = Enumerated(truth.machine.bench, ok /\ out.named)
        /\ r.card = CardOf(truth.machine.bench, truth.request)
    BY DEF BenchRecord
  <1> HIDE DEF r
  <1>4. r.success => r.exit = "exit_0" /\ ~r.killed /\ r.printed = Tests
    BY <1>1, <1>3 DEF Measured
  <1>5. ASSUME NamesConfirm(r.names, r.request.device, Accelerator.name),
               r.request.backend # "cpu"
        PROVE  r.card = Accelerator.card
    <2>1. PICK told \in BOOLEAN : r.names = Enumerated(truth.machine.bench, told)
      BY <1>3 DEF Enumerated
    <2> QED BY <1>1, <1>3, <1>5, <2>1, ConfirmedIsTheCard
  <1> QED BY <1>2, <1>3, <1>4, <1>5 DEF Honest, r

\* TransformersBenchmarkRunner.run
LEMMA TorchIsHonest ==
    ASSUME IInv, NEW payload
    PROVE  Honest(TorchRecord(payload))
  <1> DEFINE r == TorchRecord(payload)
  <1>1. observation = "success" => child = "exit_0" /\ ~terminated
    BY DEF IInv, ExecutionInv
  <1>2. DOMAIN r = Fields
    BY DEF TorchRecord, NoRecord, Fields
  <1>3. /\ r.runtime = "transformers" /\ r.exit = child /\ r.killed = terminated
        /\ r.success = (observation = "success" /\ TorchSuccess(payload))
        /\ r.printed = IF payload = "whole" THEN Tests ELSE {}
    BY DEF TorchRecord, NoRecord
  <1> HIDE DEF r
  <1>4. r.success => r.exit = "exit_0" /\ ~r.killed /\ r.printed = Tests
    BY <1>1, <1>3 DEF TorchSuccess
  <1> QED BY <1>2, <1>3, <1>4 DEF Honest, r

\* ExperimentRunner.run of llama.cpp: a Vulkan run its log does not confirm is no success.
LEMMA GenerateIsHonest ==
    ASSUME IInv, Generate, UNCHANGED worldAndJob
    PROVE  Honest(record')
  <1>1. /\ host = "returned" /\ step = "generate" /\ job.runtime = "llama"
        /\ QueueInv /\ Honest(record)
    BY DEF IInv, RecordInv, Generate, Returned
  <1>2. queue = <<ValidationRequest>> /\ Head(queue) = ValidationRequest
    BY <1>1 DEF QueueInv
  <1>3. /\ truth.machine \in Machines /\ truth.request = ValidationRequest
        /\ observation = "success" => child = "exit_0" /\ ~terminated
    BY <1>1, <1>2 DEF IInv, TruthInv, ExecutionInv
  <1>4. ValidationRequest.backend = job.backend /\ ValidationRequest.device = job.device
    BY <1>1 DEF ValidationRequest, On
  <1>5. PICK used \in {None, job.device}, named \in BOOLEAN :
            IF /\ observation = "success" /\ job.backend = "vulkan"
               /\ ~Confirmed(used, Enumerated(truth.machine.cli, named))
            THEN Failed /\ UNCHANGED record
            ELSE /\ record' = [NoRecord EXCEPT
                        !.runtime = "validation", !.request = Head(queue),
                        !.success = observation = "success",
                        !.exit0 = observation = "success",
                        !.card = CardOf(truth.machine.cli, truth.request),
                        !.exit = child, !.killed = terminated]
                 /\ step' = "save" /\ UNCHANGED <<queue, outcomes>>
    BY DEF Generate
  <1>6. CASE record' = record
    BY <1>1, <1>6
  <1>7. CASE record' # record
    <2>1. /\ record' = [NoRecord EXCEPT
                !.runtime = "validation", !.request = Head(queue),
                !.success = observation = "success",
                !.exit0 = observation = "success",
                !.card = CardOf(truth.machine.cli, truth.request),
                !.exit = child, !.killed = terminated]
          /\ (observation = "success" /\ job.backend = "vulkan" =>
                 Confirmed(used, Enumerated(truth.machine.cli, named)))
      BY <1>5, <1>7
    <2>2. /\ DOMAIN record' = Fields
          /\ record'.runtime = "validation" /\ record'.request = Head(queue)
          /\ record'.success = (observation = "success")
          /\ record'.card = CardOf(truth.machine.cli, truth.request)
          /\ record'.exit = child /\ record'.killed = terminated
      BY <2>1 DEF NoRecord, Fields
    <2>3. ASSUME observation = "success", job.backend = "vulkan"
          PROVE  CardOf(truth.machine.cli, truth.request) = Accelerator.card
      BY <1>3, <1>4, <2>1, <2>3, ConfirmedIsTheCard DEF Confirmed
    <2>4. record'.success => record'.exit = "exit_0" /\ ~record'.killed
      BY <1>3, <2>2
    <2>5. ASSUME record'.success, record'.request.backend = "vulkan"
          PROVE  record'.card = Accelerator.card
      <3>1. record'.request.backend = job.backend
        BY <1>2, <1>4, <2>2
      <3>2. observation = "success"
        BY <2>2, <2>5
      <3> QED BY <2>2, <2>3, <2>5, <3>1, <3>2
    <2> QED BY <1>1, <2>2, <2>4, <2>5 DEF Honest
  <1> QED BY <1>6, <1>7

\* ExperimentRunner.run of Transformers: a success is of a worker that told its text.
LEMMA GenerateTorchIsHonest ==
    ASSUME IInv, GenerateTorch, UNCHANGED worldAndJob
    PROVE  Honest(record')
  <1>1. host = "returned" /\ step = "generate" /\ job.runtime = "torch" /\ QueueInv
    BY DEF IInv, GenerateTorch, Returned
  <1>2. observation = "success" => child = "exit_0" /\ ~terminated
    BY DEF IInv, ExecutionInv
  <1>3. Head(queue) = ValidationRequest
    BY <1>1 DEF QueueInv
  <1>4. ValidationRequest.backend # "vulkan"
    BY <1>1 DEF ValidationRequest
  <1>5. PICK payload \in TextPayloads(child) :
            record' = [NoRecord EXCEPT
                !.runtime = "validation", !.request = Head(queue),
                !.success = observation = "success" /\ TextSuccess(payload),
                !.exit0 = observation = "success",
                !.exit = child, !.killed = terminated,
                !.printed = IF payload = "whole" THEN {"text"} ELSE {}]
    BY DEF GenerateTorch
  <1>6. /\ DOMAIN record' = Fields
        /\ record'.runtime = "validation" /\ record'.request = Head(queue)
        /\ record'.success = (observation = "success" /\ TextSuccess(payload))
        /\ record'.exit = child /\ record'.killed = terminated
        /\ record'.printed = IF payload = "whole" THEN {"text"} ELSE {}
    BY <1>5 DEF NoRecord, Fields
  <1> QED BY <1>2, <1>3, <1>4, <1>6 DEF Honest, TextSuccess

\* A record added to the store.
LEMMA Appended ==
    ASSUME NEW s, IsSequence(s), \A i \in DOMAIN s : Honest(s[i]), NEW r, Honest(r)
    PROVE  IsSequence(Append(s, r)) /\ \A i \in DOMAIN Append(s, r) : Honest(Append(s, r)[i])
  <1> DEFINE S == {s[i] : i \in DOMAIN s} \cup {r}
  <1>1. s \in Seq(S) /\ r \in S /\ \A e \in S : Honest(e)
    BY DEF IsSequence
  <1> HIDE DEF S
  <1>2. Append(s, r) \in Seq(S)
    BY <1>1
  <1>3. \A i \in DOMAIN Append(s, r) : Append(s, r)[i] \in S
    BY <1>2, LenProperties, ElementOfSeq
  <1> QED BY <1>1, <1>2, <1>3, Sequenced

\* Honesty is about the record, the job and the accelerator.
LEMMA HonestNextTime ==
    ASSUME UNCHANGED worldAndJob, Honest(record'),
           IsSequence(store'), \A i \in DOMAIN store' : Honest(store'[i])
    PROVE  RecordInv'
  BY DEF RecordInv, Honest, IsSequence, worldAndJob

\* Every step of the thread keeps the records honest.
LEMMA ThreadKeepsRecords ==
    ASSUME IInv, Thread
    PROVE  RecordInv'
  <1>0. /\ UNCHANGED worldAndJob /\ Honest(record)
        /\ IsSequence(store) /\ \A i \in DOMAIN store : Honest(store[i])
    BY ThreadAndHost DEF IInv, RecordInv
  <1>1. CASE UNCHANGED <<record, store>>
    BY <1>0, <1>1, HonestNextTime
  <1>2. CASE Bench
    <2>1. step = "bench" /\ host = "returned" /\ store' = store
      BY <1>2 DEF Bench, Returned, Keep
    <2>2. PICK out : record' \in {BenchRecord(out), Enriched(BenchRecord(out))}
      BY <1>2 DEF Bench
    <2>3. Honest(record')
      BY <2>1, <2>2, BenchIsHonest, EnrichedIsHonest
    <2> QED BY <1>0, <2>1, <2>3, HonestNextTime
  <1>3. CASE After
    <2>1. PICK build : record' = Enriched([record EXCEPT !.probed = build])
      BY <1>3 DEF After
    <2>2. store' = store
      BY <1>3 DEF After, Keep
    <2>3. Honest(record')
      BY <1>0, <2>1, EnrichedIsHonest
    <2> QED BY <1>0, <2>2, <2>3, HonestNextTime
  <1>4. CASE Worker
    <2>1. PICK payload : record' = TorchRecord(payload)
      BY <1>4 DEF Worker
    <2>2. store' = store
      BY <1>4 DEF Worker, Keep
    <2>3. Honest(record')
      BY <2>1, TorchIsHonest
    <2> QED BY <1>0, <2>2, <2>3, HonestNextTime
  <1>5. CASE Generate
    <2>1. store' = store
      BY <1>5 DEF Generate, Keep
    <2> QED BY <1>0, <1>5, <2>1, GenerateIsHonest, HonestNextTime
  <1>6. CASE GenerateTorch
    <2>1. store' = store
      BY <1>6 DEF GenerateTorch, Keep
    <2> QED BY <1>0, <1>6, <2>1, GenerateTorchIsHonest, HonestNextTime
  <1>7. CASE Save
    <2>1. record' = NoRecord /\ (store' = store \/ store' = Append(store, record))
      BY <1>7 DEF Save
    <2>2. Honest(record')
      BY <2>1, NoRecordIsHonest
    <2>3. IsSequence(store') /\ \A i \in DOMAIN store' : Honest(store'[i])
      BY <1>0, <2>1, Appended
    <2> QED BY <1>0, <2>2, <2>3, HonestNextTime
  <1>8. CASE Begin \/ Launch \/ Version \/ Footer \/ Confirm \/ Refuse \/ Unavailable \/ Preflight
             \/ PreflightTorch
    <2>1. UNCHANGED <<record, store>>
      BY <1>8 DEF Begin, BeginMatrix, BeginPlan, BeginScreen, BeginTorch, BeginValidation, Launch,
         Version, Footer, Confirm, Refuse, RefuseBench, RefuseLlama, RefuseTorch, Refused,
         Unavailable, Preflight, PreflightTorch, Keep, resultVars
    <2> QED BY <1>1, <2>1
  <1> QED BY <1>2, <1>3, <1>4, <1>5, <1>6, <1>7, <1>8 DEF Thread

LEMMA RecordKeeps == ASSUME IInv, [Next]_vars PROVE RecordInv'
  <1>0. RecordInv
    BY DEF IInv
  <1>1. CASE Thread
    BY <1>1, ThreadKeepsRecords
  <1>2. CASE Waits \/ ChildEnds \/ Change \/ UNCHANGED vars
    <2>1. UNCHANGED <<record, store, job>>
      BY <1>2 DEF Waits, ChildEnds, Change, vars, resultVars
    <2> QED BY <1>0, <2>1 DEF RecordInv, Honest, IsSequence
  <1> QED BY <1>1, <1>2 DEF Next

-----------------------------------------------------------------------------

\* The job begins with nothing launched and nothing claimed.
LEMMA InitInv == ASSUME Init PROVE IInv
  <1>1. ExecutionInv /\ TruthInv
    BY HostAssumption DEF Init, HostInit, ExecutionInv, TruthInv, Observations
  <1>2. QueueInv /\ ConfirmedInv
    <2>1. IsSequence(<<>>)
      BY EmptySeq, Sequenced
    <2> QED BY <2>1 DEF Init, QueueInv, ConfirmedInv, Serving
  <1>3. RecordInv
    <2>1. IsSequence(<<>>)
      BY EmptySeq, Sequenced
    <2> QED BY <2>1, NoRecordIsHonest DEF Init, RecordInv
  <1> QED BY <1>1, <1>2, <1>3 DEF IInv

\* The invariant of the thread, its child, the machine and the store.
LEMMA Inductive == Spec => []IInv
  <1>1. Init => IInv
    BY InitInv
  <1>2. IInv /\ [Next]_vars => IInv'
    BY ExecutionKeeps, QueueKeeps, RecordKeeps DEF IInv
  <1> QED BY <1>1, <1>2, PTL DEF Spec

\* A record is evidence of a plan's speed only when it says that the run succeeded.
LEMMA MatchesNeedSuccess ==
    ASSUME NEW p, NEW r, Speed!Matches(p, AsEvidence(r))
    PROVE  r.success
  <1>1. AsEvidence(r).success = r.success
    BY DEF AsEvidence
  <1>2. AsEvidence(r).success
    BY DEF Speed!Matches
  <1> QED BY <1>1, <1>2

\* One that may rank plans is of llama-bench and names the selected card, or is of the CPU.
LEMMA RankingNeedsTheCard ==
    ASSUME NEW r, Speed!Blockers(PlanOf(r), TRUE, AsEvidence(r)) = {}
    PROVE  /\ r.runtime = "llama"
           /\ \/ r.request.backend = "cpu"
              \/ NamesConfirm(r.names, r.request.device, Accelerator.name)
  <1> DEFINE e == AsEvidence(r)
  <1>1. /\ e.runtime = r.runtime /\ e.backend = r.request.backend
        /\ e.device = IF NamesConfirm(r.names, r.request.device, Accelerator.name)
                      THEN "selected" ELSE "unknown"
    BY DEF AsEvidence
  <1>2. PlanOf(r).device = "selected"
    BY DEF PlanOf, AsEvidence
  <1>3. /\ "runtime" \notin Speed!RecordBlockers(e)
        /\ "device" \notin (IF e.backend = "cpu" \/ e.device = PlanOf(r).device THEN {} ELSE {"device"})
    BY DEF Speed!Blockers
  <1>4. e.runtime = "llama"
    BY <1>3 DEF Speed!RecordBlockers
  <1>5. e.backend = "cpu" \/ e.device = PlanOf(r).device
    BY <1>3
  <1> QED BY <1>1, <1>2, <1>4, <1>5

\* What any reader of the store takes for a speed was measured by a child that ended well
\* by itself with every figure asked for, and what may rank plans was measured on the
\* selected card, however the machine changed between the probes and the run.
THEOREM MeasuredSpeeds == Spec => []SpeedIsMeasured
  <1>1. IInv => SpeedIsMeasured
    <2> SUFFICES ASSUME IInv, NEW i \in DOMAIN store,
                        store[i].runtime \in {"llama", "transformers"}
                 PROVE  /\ Speed!Matches(PlanOf(store[i]), AsEvidence(store[i])) =>
                              /\ store[i].exit = "exit_0" /\ ~store[i].killed
                              /\ store[i].printed = Tests
                        /\ Speed!Blockers(PlanOf(store[i]), TRUE, AsEvidence(store[i])) = {} =>
                              \/ store[i].request.backend = "cpu"
                              \/ store[i].card = Accelerator.card
      BY DEF SpeedIsMeasured
    <2>1. Honest(store[i])
      BY DEF IInv, RecordInv
    <2>2. ASSUME Speed!Matches(PlanOf(store[i]), AsEvidence(store[i]))
          PROVE  /\ store[i].exit = "exit_0" /\ ~store[i].killed
                 /\ store[i].printed = Tests
      BY <2>1, <2>2, MatchesNeedSuccess DEF Honest
    <2>3. ASSUME Speed!Blockers(PlanOf(store[i]), TRUE, AsEvidence(store[i])) = {}
          PROVE  store[i].request.backend = "cpu" \/ store[i].card = Accelerator.card
      BY <2>1, <2>3, RankingNeedsTheCard DEF Honest
    <2> QED BY <2>2, <2>3
  <1> QED BY <1>1, Inductive, PTL

\* A Vulkan model runs on the selected card, or nobody says that it did: a validation
\* succeeds only when its own output confirms the card, and llama-bench starts a model
\* only on the device it just listed as the selected card.
THEOREM RunsWhereSelected == Spec => []RunsOnTheSelectedCard
  <1>1. IInv => ValidatedRanThere
    <2> SUFFICES ASSUME IInv, NEW i \in DOMAIN store,
                        store[i].runtime = "validation", store[i].success
                 PROVE  /\ store[i].exit = "exit_0" /\ ~store[i].killed
                        /\ store[i].request.backend = "vulkan" =>
                              store[i].card = Accelerator.card
                        /\ job.runtime = "torch" => store[i].printed = {"text"}
      BY DEF ValidatedRanThere
    <2>1. Honest(store[i])
      BY DEF IInv, RecordInv
    <2> QED BY <2>1 DEF Honest
  <1>2. IInv => LaunchedWhereConfirmed
    <2> SUFFICES ASSUME IInv, step = "bench", child = "running", ~moved,
                        Head(queue).backend = "vulkan"
                 PROVE  CardOf(truth.machine.bench, truth.request) = Accelerator.card
      BY DEF LaunchedWhereConfirmed
    <2>1. /\ QueueInv /\ machine \in Machines
          /\ truth.machine = machine /\ truth.request = Head(queue)
      BY DEF IInv, ExecutionInv, TruthInv, QueueInv, Serving
    <2>2. job.backend = "vulkan"
      <3> DEFINE S == {queue[i] : i \in DOMAIN queue}
      <3>1. queue \in Seq(S) /\ queue # <<>>
        BY <2>1 DEF QueueInv, IsSequence, Serving
      <3>2. Head(queue) \in S
        <4> HIDE DEF S
        <4> QED BY <3>1, HeadTailProperties
      <3> QED BY <2>1, <3>2 DEF QueueInv
    <2>3. /\ MatchDevice(Selection, machine.bench).device # None
          /\ MatchDevice(Selection, machine.bench).device.id = Head(queue).device
      BY DEF IInv, ConfirmedInv
    <2> QED BY <2>1, <2>2, <2>3, MatchedIsTheCard
  <1>3. IInv => RunsOnTheSelectedCard
    BY <1>1, <1>2 DEF RunsOnTheSelectedCard
  <1> QED BY <1>3, Inductive, PTL

-----------------------------------------------------------------------------
(* Comprehensions.                                                         *)

\* A set of numbers that is not empty has a least one.
LEMMA LeastNumber ==
    ASSUME NEW T \in SUBSET Nat, T # {}
    PROVE  \E n \in T : \A k \in T : n <= k
  <1>1. PICK n \in T : \A k \in T : ~(<<k, n>> \in OpToRel(<, Nat))
    BY NatLessThanWellFounded, WFMin
  <1>2. \A k \in T : ~(k < n)
    BY <1>1 DEF OpToRel
  <1> QED BY <1>2

\* What passes of the first n entries, for every n up to m.
Prefixes(s, places, m, g) ==
    /\ g = [n \in 0..m |-> g[n]] /\ g[0] = <<>>
    /\ \A n \in 1..m : g[n] = IF n \in places THEN Append(g[n - 1], s[n]) ELSE g[n - 1]

\* There are such prefixes ...
LEMMA PrefixesExist ==
    ASSUME NEW s, NEW places, NEW m \in Nat
    PROVE  \E g : Prefixes(s, places, m, g)
  <1> DEFINE Bad == {n \in Nat : ~\E g : Prefixes(s, places, n, g)}
  <1>1. SUFFICES ASSUME Bad # {} PROVE FALSE
    OBVIOUS
  <1>2. PICK n \in Bad : \A k \in Bad : n <= k
    BY <1>1, LeastNumber
  <1>2a. n \in Nat
    BY <1>2
  <1>3. n # 0
    <2>1. Prefixes(s, places, 0, [k \in {0} |-> <<>>])
      <3>1. 0..0 = {0} /\ 1..0 = {}
        OBVIOUS
      <3> QED BY <3>1 DEF Prefixes
    <2> QED BY <1>2, <2>1
  <1>4. n - 1 \in Nat /\ n - 1 \notin Bad
    BY <1>2, <1>3
  <1>5. PICK g : Prefixes(s, places, n - 1, g)
    BY <1>4
  <1> DEFINE last == IF n \in places THEN Append(g[n - 1], s[n]) ELSE g[n - 1]
             h == [k \in 0..n |-> IF k = n THEN last ELSE g[k]]
  <1>6. /\ h = [k \in 0..n |-> h[k]] /\ h[n] = last
        /\ \A k \in 0..(n - 1) : h[k] = g[k]
    BY <1>2a
  <1> HIDE DEF h, Bad, last
  <1>7. h[0] = <<>>
    <2>1. g[0] = <<>>
      BY <1>5 DEF Prefixes
    <2>2. 0 \in 0..(n - 1)
      BY <1>4
    <2> QED BY <1>6, <2>1, <2>2
  <1>8. ASSUME NEW k \in 1..n
        PROVE  h[k] = IF k \in places THEN Append(h[k - 1], s[k]) ELSE h[k - 1]
    <2>0. k - 1 \in 0..(n - 1)
      BY <1>2a
    <2>1. h[k - 1] = g[k - 1]
      BY <1>6, <2>0
    <2>2. CASE k = n
      BY <1>6, <2>1, <2>2 DEF last
    <2>3. CASE k # n
      <3>0. k \in 1..(n - 1) /\ k \in 0..(n - 1)
        BY <1>2a, <2>3
      <3>1. k \in 1..(n - 1) /\ h[k] = g[k]
        BY <1>6, <3>0
      <3> QED BY <1>5, <2>1, <3>1 DEF Prefixes
    <2> QED BY <2>2, <2>3
  <1>9. Prefixes(s, places, n, h)
    BY <1>6, <1>7, <1>8 DEF Prefixes
  <1> QED BY <1>2, <1>9 DEF Bad

\* ... the last is what passes ...
LEMMA PassingPrefix ==
    ASSUME NEW s, NEW places, Len(s) \in Nat
    PROVE  \E g : Prefixes(s, places, Len(s), g) /\ Passing(s, places) = g[Len(s)]
  <1> DEFINE Filled(h) == [n \in 0..Len(s) |-> IF n = 0 THEN <<>>
                           ELSE IF n \in places THEN Append(h[n - 1], s[n]) ELSE h[n - 1]]
             kept[n \in 0..Len(s)] ==
                 IF n = 0 THEN <<>>
                 ELSE IF n \in places THEN Append(kept[n - 1], s[n]) ELSE kept[n - 1]
  <1>1. PICK g : Prefixes(s, places, Len(s), g)
    BY PrefixesExist
  <1>2. g = Filled(g)
    <2>1. g = [n \in 0..Len(s) |-> g[n]]
      BY <1>1 DEF Prefixes
    <2>2. ASSUME NEW n \in 0..Len(s) PROVE g[n] = Filled(g)[n]
      <3>1. CASE n = 0
        BY <1>1, <3>1 DEF Prefixes
      <3>2. CASE n # 0
        BY <1>1, <3>2 DEF Prefixes
      <3> QED BY <3>1, <3>2
    <2> QED BY <2>1, <2>2
  <1>3. kept = CHOOSE h : h = Filled(h)
    BY DEF kept
  <1>4. Passing(s, places) = kept[Len(s)]
    BY DEF Passing
  <1> HIDE DEF kept
  <1>5. kept = Filled(kept)
    BY <1>2, <1>3
  <1>6. Prefixes(s, places, Len(s), kept)
    <2>1. kept = [n \in 0..Len(s) |-> kept[n]]
      BY <1>5
    <2>2. 0 \in 0..Len(s) /\ kept[0] = <<>>
      BY <1>5
    <2>3. ASSUME NEW n \in 1..Len(s)
          PROVE  kept[n] = IF n \in places THEN Append(kept[n - 1], s[n]) ELSE kept[n - 1]
      <3>1. n \in 0..Len(s) /\ n # 0
        OBVIOUS
      <3>2. Filled(kept)[n] = IF n \in places THEN Append(kept[n - 1], s[n]) ELSE kept[n - 1]
        BY <3>1
      <3> QED BY <1>5, <3>2
    <2> QED BY <2>1, <2>2, <2>3 DEF Prefixes
  <1> QED BY <1>4, <1>6

\* ... and they depend on no more than their entries and which of those pass.
LEMMA PrefixesAgree ==
    ASSUME NEW s, NEW t, NEW I, NEW J, NEW m \in Nat, NEW l \in Nat, m <= l, NEW g, NEW h,
           Prefixes(s, I, m, g), Prefixes(t, J, l, h),
           \A n \in 1..m : s[n] = t[n] /\ (n \in I <=> n \in J)
    PROVE  g[m] = h[m]
  <1> DEFINE Bad == {n \in 0..m : g[n] # h[n]}
  <1>1. SUFFICES ASSUME Bad # {} PROVE FALSE
    OBVIOUS
  <1>1a. Bad \in SUBSET Nat
    OBVIOUS
  <1>2. PICK n \in Bad : \A k \in Bad : n <= k
    <2> HIDE DEF Bad
    <2> QED BY <1>1, <1>1a, LeastNumber
  <1>3. n # 0
    BY <1>2 DEF Prefixes
  <1>4. n \in 1..m /\ n \in 1..l /\ n - 1 \in 0..m /\ n - 1 \notin Bad
    BY <1>2, <1>3
  <1>5. g[n] = IF n \in I THEN Append(g[n - 1], s[n]) ELSE g[n - 1]
    BY <1>4 DEF Prefixes
  <1>6. h[n] = IF n \in J THEN Append(h[n - 1], t[n]) ELSE h[n - 1]
    BY <1>4 DEF Prefixes
  <1> QED BY <1>2, <1>4, <1>5, <1>6

\* A further entry passes after the others, or not at all.
LEMMA PassingAppend ==
    ASSUME NEW S, NEW s \in Seq(S), NEW x \in S, NEW I, NEW J,
           \A n \in 1..Len(s) : n \in I <=> n \in J
    PROVE  Passing(Append(s, x), J) =
               IF Len(s) + 1 \in J THEN Append(Passing(s, I), x) ELSE Passing(s, I)
  <1> DEFINE t == Append(s, x)
  <1>1. /\ Len(s) \in Nat /\ Len(t) = Len(s) + 1 /\ t[Len(s) + 1] = x
        /\ \A n \in 1..Len(s) : t[n] = s[n]
    BY AppendProperties, LenProperties
  <1> HIDE DEF t
  <1>2. PICK g : Prefixes(s, I, Len(s), g) /\ Passing(s, I) = g[Len(s)]
    BY <1>1, PassingPrefix
  <1>3. PICK h : Prefixes(t, J, Len(s) + 1, h) /\ Passing(t, J) = h[Len(s) + 1]
    BY <1>1, PassingPrefix
  <1>4. g[Len(s)] = h[Len(s)]
    BY <1>1, <1>2, <1>3, PrefixesAgree
  <1>5. Len(s) + 1 \in 1..(Len(s) + 1) /\ (Len(s) + 1) - 1 = Len(s)
    BY <1>1
  <1>6. h[Len(s) + 1] = IF Len(s) + 1 \in J THEN Append(h[Len(s)], x) ELSE h[Len(s)]
    BY <1>1, <1>3, <1>5 DEF Prefixes
  <1> QED BY <1>2, <1>3, <1>4, <1>6 DEF t

\* What passes is of the entries at the places.
LEMMA PassingType ==
    ASSUME NEW s, NEW I, Len(s) \in Nat, NEW T, \A n \in 1..Len(s) : n \in I => s[n] \in T
    PROVE  Passing(s, I) \in Seq(T)
  <1>1. PICK g : Prefixes(s, I, Len(s), g) /\ Passing(s, I) = g[Len(s)]
    BY PassingPrefix
  <1> DEFINE Bad == {n \in 0..Len(s) : g[n] \notin Seq(T)}
  <1>2. SUFFICES ASSUME Bad # {} PROVE FALSE
    BY <1>1
  <1>2a. Bad \in SUBSET Nat
    OBVIOUS
  <1>3. PICK n \in Bad : \A k \in Bad : n <= k
    <2> HIDE DEF Bad
    <2> QED BY <1>2, <1>2a, LeastNumber
  <1>4. n # 0
    <2>1. <<>> \in Seq(T)
      OBVIOUS
    <2> QED BY <1>1, <1>3, <2>1 DEF Prefixes
  <1>5. n \in 1..Len(s) /\ n - 1 \in 0..Len(s) /\ n - 1 \notin Bad
    BY <1>3, <1>4
  <1>6. g[n] = IF n \in I THEN Append(g[n - 1], s[n]) ELSE g[n - 1]
    BY <1>1, <1>5 DEF Prefixes
  <1>7. g[n - 1] \in Seq(T)
    BY <1>5
  <1>8. n \in I => s[n] \in T
    BY <1>5
  <1>9. n \in I => Append(g[n - 1], s[n]) \in Seq(T)
    BY <1>7, <1>8, AppendProperties
  <1>10. g[n] \in Seq(T)
    BY <1>6, <1>7, <1>9
  <1> QED BY <1>3, <1>10

LEMMA OneMore ==
    ASSUME NEW a \in Nat, NEW b \in Nat, NEW n \in Nat, a + b = n - 1
    PROVE  (a + 1) + b = n /\ a + (b + 1) = n
  OBVIOUS

\* Every entry passes here or with the rest.
LEMMA PassingParts ==
    ASSUME NEW S, NEW s \in Seq(S), NEW I, NEW J, \A n \in 1..Len(s) : n \in J <=> n \notin I
    PROVE  Len(Passing(s, I)) + Len(Passing(s, J)) = Len(s)
  <1>0. Len(s) \in Nat /\ \A n \in 1..Len(s) : s[n] \in S
    BY LenProperties, ElementOfSeq
  <1>1. PICK g : Prefixes(s, I, Len(s), g) /\ Passing(s, I) = g[Len(s)]
    BY <1>0, PassingPrefix
  <1>2. PICK h : Prefixes(s, J, Len(s), h) /\ Passing(s, J) = h[Len(s)]
    BY <1>0, PassingPrefix
  <1> DEFINE Good(n) == g[n] \in Seq(S) /\ h[n] \in Seq(S) /\ Len(g[n]) + Len(h[n]) = n
             Bad == {n \in 0..Len(s) : ~Good(n)}
  <1>3. SUFFICES ASSUME Bad # {} PROVE FALSE
    <2>1. ASSUME Bad = {} PROVE Good(Len(s))
      <3> HIDE DEF Good
      <3>1. Len(s) \in 0..Len(s)
        BY <1>0
      <3> QED BY <2>1, <3>1
    <2> QED BY <1>1, <1>2, <2>1
  <1>3a. Bad \in SUBSET Nat
    <2> HIDE DEF Good
    <2> QED OBVIOUS
  <1>4. PICK n \in Bad : \A k \in Bad : n <= k
    <2> HIDE DEF Bad
    <2> QED BY <1>3, <1>3a, LeastNumber
  <1>5. n # 0
    <2>1. <<>> \in Seq(S) /\ Len(<<>>) = 0
      OBVIOUS
    <2>2. g[0] = <<>> /\ h[0] = <<>>
      BY <1>1, <1>2 DEF Prefixes
    <2>3. Good(0)
      BY <2>1, <2>2
    <2> QED BY <1>4, <2>3
  <1>6. n \in 1..Len(s) /\ n - 1 \in 0..Len(s) /\ n - 1 \notin Bad
    <2>1. n \in 0..Len(s)
      BY <1>4
    <2>2. n \in 1..Len(s) /\ n - 1 \in 0..Len(s) /\ ~(n <= n - 1)
      BY <1>0, <1>5, <2>1
    <2> HIDE DEF Bad
    <2> QED BY <1>4, <2>2
  <1>7. Good(n - 1) /\ s[n] \in S
    BY <1>0, <1>6
  <1>8. g[n] = IF n \in I THEN Append(g[n - 1], s[n]) ELSE g[n - 1]
    BY <1>1, <1>6 DEF Prefixes
  <1>9. h[n] = IF n \in J THEN Append(h[n - 1], s[n]) ELSE h[n - 1]
    BY <1>2, <1>6 DEF Prefixes
  <1>10. Good(n)
    <2>1. /\ Append(g[n - 1], s[n]) \in Seq(S) /\ Append(h[n - 1], s[n]) \in Seq(S)
          /\ Len(Append(g[n - 1], s[n])) = Len(g[n - 1]) + 1
          /\ Len(Append(h[n - 1], s[n])) = Len(h[n - 1]) + 1
      BY <1>7, AppendProperties
    <2>2. Len(g[n - 1]) \in Nat /\ Len(h[n - 1]) \in Nat
      BY <1>7, LenProperties
    <2>3. n \in J <=> n \notin I
      BY <1>6
    <2>4. n \in Nat
      BY <1>6
    <2>5a. Len(g[n - 1]) + Len(h[n - 1]) = n - 1
      BY <1>7
    <2>5b. (Len(g[n - 1]) + 1) + Len(h[n - 1]) = n /\ Len(g[n - 1]) + (Len(h[n - 1]) + 1) = n
      <3>1. PICK a \in Nat, b \in Nat : a = Len(g[n - 1]) /\ b = Len(h[n - 1])
        BY <2>2
      <3>2. a + b = n - 1
        BY <2>5a, <3>1
      <3>3. (a + 1) + b = n /\ a + (b + 1) = n
        BY <2>4, <3>2
      <3> QED BY <3>1, <3>3
    <2>5. CASE n \in I
      <3>1. g[n] = Append(g[n - 1], s[n]) /\ h[n] = h[n - 1]
        BY <1>8, <1>9, <2>3, <2>5
      <3>2. g[n] \in Seq(S) /\ Len(g[n]) = Len(g[n - 1]) + 1
        BY <2>1, <3>1
      <3>3. h[n] \in Seq(S) /\ Len(h[n]) = Len(h[n - 1])
        BY <1>7, <3>1
      <3>5. Len(g[n]) + Len(h[n]) = n
        BY <2>5b, <3>2, <3>3
      <3> QED BY <3>2, <3>3, <3>5
    <2>6. CASE n \notin I
      <3>1. g[n] = g[n - 1] /\ h[n] = Append(h[n - 1], s[n])
        BY <1>8, <1>9, <2>3, <2>6
      <3>2. h[n] \in Seq(S) /\ Len(h[n]) = Len(h[n - 1]) + 1
        BY <2>1, <3>1
      <3>3. g[n] \in Seq(S) /\ Len(g[n]) = Len(g[n - 1])
        BY <1>7, <3>1
      <3>5. Len(g[n]) + Len(h[n]) = n
        BY <2>5b, <3>2, <3>3
      <3> QED BY <3>2, <3>3, <3>5
    <2> QED BY <2>5, <2>6
  <1> QED BY <1>4, <1>10

-----------------------------------------------------------------------------
(* Everything is accounted for.                                            *)

LEMMA PassingNothing == ASSUME NEW places PROVE Passing(<<>>, places) = <<>>
  <1>1. Len(<<>>) = 0
    OBVIOUS
  <1>2. PICK g : Prefixes(<<>>, places, 0, g) /\ Passing(<<>>, places) = g[0]
    BY <1>1, PassingPrefix
  <1> QED BY <1>2 DEF Prefixes

\* The record of the run just observed is of the configuration at the head of the queue,
\* and calls no run a success that did not end well.
ObservedInv ==
    step \in {"after", "save"} =>
        record.request = Head(queue) /\ (record.success => record.exit = "exit_0")

\* A completed configuration has its record, saved when that was asked for.
Accounted(o) ==
    o.how = "completed" =>
        /\ o.record.success
        /\ job.persist => /\ o.saved
                          /\ \E j \in DOMAIN store :
                                store[j].request = o.of /\ store[j].exit = "exit_0"

\* The outcomes that say they were saved.
Kept == Passing(outcomes, {i \in DOMAIN outcomes : outcomes[i].saved})

\* What was asked of a matrix is what has its outcome and what still waits.
MatrixInv ==
    /\ step \in {"begin", "version", "footer", "raised"} => outcomes = <<>>
    /\ step = "done" => queue = <<>>
    /\ Len(asked) = Len(outcomes) + Len(queue)
    /\ \A i \in DOMAIN outcomes : asked[i] = outcomes[i].of
    /\ \A i \in DOMAIN queue : asked[Len(outcomes) + i] = queue[i]
    /\ [i \in DOMAIN Kept |-> Kept[i].record] = store

\* Every other job runs one configuration.
SingleInv ==
    /\ step \notin {"version", "footer"}
    /\ step \notin Ended => outcomes = <<>>
    /\ step \notin {"begin", "raised"} => Len(asked) = 1
    /\ step = "done" => Len(outcomes) = 1

AccountInv ==
    /\ IsSequence(asked) /\ IsSequence(outcomes) /\ ObservedInv
    /\ \A i \in DOMAIN outcomes : Accounted(outcomes[i])
    /\ IF job.kind = "matrix" THEN MatrixInv ELSE SingleInv

LEMMA SequenceFacts ==
    ASSUME NEW s, IsSequence(s)
    PROVE  Len(s) \in Nat /\ DOMAIN s = 1..Len(s) /\ s = [i \in 1..Len(s) |-> s[i]]
  <1> DEFINE S == {s[i] : i \in DOMAIN s}
  <1>1. s \in Seq(S)
    BY DEF IsSequence
  <1> HIDE DEF S
  <1> QED BY <1>1, LenProperties

\* The records of a list that gains an entry.
LEMMA RecordsAppend ==
    ASSUME NEW T, NEW k \in Seq(T), NEW o \in T, NEW s, s = [i \in DOMAIN k |-> k[i].record]
    PROVE  [i \in DOMAIN Append(k, o) |-> Append(k, o)[i].record] = Append(s, o.record)
  <1> DEFINE R == {t.record : t \in T}
             a == Append(k, o)
             l == [i \in DOMAIN a |-> a[i].record]
             r == Append(s, o.record)
  <1>1. /\ Len(k) \in Nat /\ DOMAIN k = 1..Len(k) /\ \A i \in 1..Len(k) : k[i] \in T
        /\ a \in Seq(T) /\ Len(a) = Len(k) + 1 /\ DOMAIN a = 1..(Len(k) + 1)
        /\ a[Len(k) + 1] = o /\ \A i \in 1..Len(k) : a[i] = k[i]
    BY LenProperties, ElementOfSeq, AppendProperties
  <1>2. s \in Seq(R) /\ Len(s) = Len(k) /\ o.record \in R
    BY <1>1
  <1> HIDE DEF R, a
  <1>3. /\ r \in Seq(R) /\ Len(r) = Len(k) + 1 /\ r[Len(k) + 1] = o.record
        /\ \A i \in 1..Len(k) : r[i] = s[i]
    BY <1>2, AppendProperties
  <1>4. DOMAIN r = 1..(Len(k) + 1) /\ r = [i \in 1..(Len(k) + 1) |-> r[i]]
    <2> HIDE DEF r
    <2> QED BY <1>3, LenProperties
  <1> HIDE DEF r
  <1>5. ASSUME NEW i \in 1..(Len(k) + 1) PROVE a[i].record = r[i]
    <2>1. CASE i = Len(k) + 1
      BY <1>1, <1>3, <2>1
    <2>2. CASE i # Len(k) + 1
      <3>1. i \in 1..Len(k)
        BY <1>1, <2>2
      <3> QED BY <1>1, <1>3, <3>1
    <2> QED BY <2>1, <2>2
  <1>6. l = r
    BY <1>1, <1>4, <1>5
  <1> QED BY <1>6 DEF a, r

LEMMA InitAccounts == ASSUME Init PROVE AccountInv
  <1>1. IsSequence(<<>>) /\ DOMAIN <<>> = {} /\ Len(<<>>) = 0
    <2>1. IsSequence(<<>>)
      BY EmptySeq, Sequenced
    <2> QED BY <2>1
  <1>2. step = "begin" /\ asked = <<>> /\ queue = <<>> /\ outcomes = <<>> /\ store = <<>>
    BY DEF Init
  <1>3. Kept = <<>>
    BY <1>2, PassingNothing DEF Kept
  <1>4. [i \in DOMAIN Kept |-> Kept[i].record] = store
    BY <1>1, <1>2, <1>3
  <1>5. MatrixInv
    BY <1>1, <1>2, <1>4 DEF MatrixInv
  <1>6. SingleInv
    BY <1>2 DEF SingleInv, Ended
  <1> QED BY <1>1, <1>2, <1>5, <1>6 DEF AccountInv, ObservedInv

\* What the account is about.
accountVars == <<job, asked, queue, outcomes, store>>

LEMMA AccountStands ==
    ASSUME AccountInv, UNCHANGED accountVars, UNCHANGED step, ObservedInv'
    PROVE  AccountInv'
  <1>1. UNCHANGED <<job, asked, queue, outcomes, store, step>>
    BY DEF accountVars
  <1>2. Kept' = Kept
    BY <1>1 DEF Kept
  <1>3. MatrixInv => MatrixInv'
    BY <1>1, <1>2 DEF MatrixInv
  <1>4. SingleInv => SingleInv'
    BY <1>1 DEF SingleInv
  <1>5. \A i \in DOMAIN outcomes' : Accounted(outcomes[i])'
    BY <1>1 DEF AccountInv, Accounted
  <1> QED BY <1>1, <1>3, <1>4, <1>5 DEF AccountInv, IsSequence

\* A step that neither begins the job nor ends a configuration.
LEMMA AccountGoesOn ==
    ASSUME AccountInv, UNCHANGED accountVars, step \in Commands, ObservedInv',
           step' \notin {"begin", "version"},
           step' \in {"footer", "raised"} => step = "version",
           step' = "done" => step \in {"version", "footer"} /\ queue = <<>>
    PROVE  AccountInv'
  <1>1. UNCHANGED <<job, asked, queue, outcomes, store>>
    BY DEF accountVars
  <1>2. Kept' = Kept
    BY <1>1 DEF Kept
  <1>3. MatrixInv => MatrixInv'
    BY <1>1, <1>2 DEF MatrixInv
  <1>4. SingleInv => SingleInv'
    BY <1>1 DEF SingleInv, Ended, Commands
  <1>5. \A i \in DOMAIN outcomes' : Accounted(outcomes[i])'
    BY <1>1 DEF AccountInv, Accounted
  <1> QED BY <1>1, <1>3, <1>4, <1>5 DEF AccountInv, IsSequence

\* A job begins with all its configurations waiting.
LEMMA BeginAccounts ==
    ASSUME AccountInv, Begin, job \in Jobs
    PROVE  AccountInv'
  <1>1. step = "begin" /\ UNCHANGED <<job, outcomes, store>>
    BY DEF Begin, BeginMatrix, BeginPlan, BeginScreen, BeginTorch, BeginValidation, Keep, resultVars
  <1>2. Kept' = Kept
    BY <1>1 DEF Kept
  <1>3. outcomes = <<>> /\ Len(outcomes) = 0 /\ DOMAIN outcomes = {}
    BY <1>1 DEF AccountInv, MatrixInv, SingleInv, Ended
  <1>4. CASE job.kind = "matrix"
    <2>1. step' = "version" /\ asked' = MatrixRequests /\ queue' = MatrixRequests
      BY <1>4 DEF Begin, BeginMatrix, BeginPlan, BeginScreen, BeginTorch, BeginValidation, Ask
    <2>2. IsSequence(MatrixRequests) /\ Len(MatrixRequests) \in Nat
      BY MatrixQueued, SequenceFacts DEF Queued
    <2>3. DOMAIN MatrixRequests = 1..Len(MatrixRequests)
      BY <2>2, SequenceFacts
    <2>4. MatrixInv'
      BY <1>1, <1>2, <1>3, <1>4, <2>1, <2>2, <2>3 DEF AccountInv, MatrixInv
    <2> QED BY <1>1, <1>3, <1>4, <2>1, <2>2, <2>4 DEF AccountInv, ObservedInv, IsSequence
  <1>5. CASE job.kind # "matrix"
    <2>1. \/ step' = "raised" /\ UNCHANGED asked
          \/ step' \in {"worker", "preflight", "bench", "confirm"} /\ \E r : asked' = <<r>>
      <3>1. \A r : StepFor(<<r>>) \in {"bench", "confirm"}
        BY DEF StepFor
      <3>2. CASE BeginPlan
        BY <3>1, <3>2 DEF BeginPlan, Ask, askedVars
      <3>3. CASE BeginScreen
        BY <3>1, <3>3 DEF BeginScreen, Ask, askedVars
      <3>4. CASE BeginTorch
        BY <3>4 DEF BeginTorch, Ask, askedVars
      <3>5. CASE BeginValidation
        BY <3>5 DEF BeginValidation, Ask, askedVars
      <3> QED BY <1>5, <3>2, <3>3, <3>4, <3>5 DEF Begin, BeginMatrix
    <2>2. \A r : IsSequence(<<r>>) /\ Len(<<r>>) = 1
      <3> SUFFICES ASSUME NEW r PROVE IsSequence(<<r>>) /\ Len(<<r>>) = 1
        OBVIOUS
      <3>1. <<r>> \in Seq({r})
        OBVIOUS
      <3> QED BY <3>1, Sequenced
    <2>3. IsSequence(asked')
      BY <2>1, <2>2 DEF AccountInv
    <2>4. SingleInv'
      BY <1>1, <1>3, <1>5, <2>1, <2>2 DEF AccountInv, SingleInv, Ended
    <2>5. step' \notin {"after", "save"}
      BY <2>1
    <2> QED BY <1>1, <1>3, <1>5, <2>3, <2>4, <2>5 DEF AccountInv, ObservedInv, IsSequence
  <1> QED BY <1>4, <1>5

\* A configuration leaves the queue with its outcome, and its record is saved when the
\* outcome says so.
LEMMA LeaveAccounts ==
    ASSUME AccountInv, QueueInv, IsSequence(store), step \in Serving, UNCHANGED <<job, asked>>,
           NEW o, Leave(o), o.of = Head(queue), o.saved \in BOOLEAN,
           store' = IF o.saved THEN Append(store, o.record) ELSE store,
           o.how = "completed" =>
               /\ o.record.success
               /\ job.persist => o.saved /\ o.record.request = o.of /\ o.record.exit = "exit_0"
    PROVE  AccountInv'
  <1> DEFINE n == Len(outcomes)
             S == {outcomes[i] : i \in DOMAIN outcomes} \cup {o}
             R == {store[i] : i \in DOMAIN store} \cup {o.record}
             Q == {queue[i] : i \in DOMAIN queue}
  <1>1. outcomes \in Seq(S) /\ o \in S /\ outcomes' = Append(outcomes, o)
    BY DEF AccountInv, IsSequence, Leave
  <1>2. store \in Seq(R) /\ o.record \in R
    BY DEF IsSequence
  <1>3. queue \in Seq(Q) /\ queue # <<>>
    BY DEF QueueInv, IsSequence
  <1> HIDE DEF S, R, Q
  <1>4. /\ n \in Nat /\ Len(outcomes') = n + 1 /\ outcomes' \in Seq(S)
        /\ DOMAIN outcomes = 1..n /\ DOMAIN outcomes' = 1..(n + 1)
        /\ outcomes'[n + 1] = o /\ \A i \in 1..n : outcomes'[i] = outcomes[i]
    BY <1>1, AppendProperties, LenProperties
  <1>5. /\ \A j \in DOMAIN store : j \in DOMAIN store' /\ store'[j] = store[j]
        /\ o.saved => \E j \in DOMAIN store' : store'[j] = o.record
    <2>1. CASE ~o.saved
      BY <2>1
    <2>2. CASE o.saved
      <3>1. /\ Len(store) \in Nat /\ DOMAIN store = 1..Len(store)
            /\ DOMAIN store' = 1..(Len(store) + 1) /\ store'[Len(store) + 1] = o.record
            /\ \A j \in 1..Len(store) : store'[j] = store[j]
        BY <1>2, <2>2, AppendProperties, LenProperties
      <3>2. Len(store) + 1 \in DOMAIN store'
        BY <3>1
      <3> QED BY <3>1, <3>2
    <2> QED BY <2>1, <2>2
  <1>6. ASSUME NEW i \in DOMAIN outcomes' PROVE Accounted(outcomes[i])'
    <2>1. CASE i = n + 1
      BY <1>4, <1>5, <2>1 DEF Accounted
    <2>2. CASE i # n + 1
      <3>1. i \in DOMAIN outcomes /\ outcomes'[i] = outcomes[i]
        BY <1>4, <2>2
      <3>2. Accounted(outcomes[i])
        BY <3>1 DEF AccountInv
      <3> QED BY <1>5, <3>1, <3>2 DEF Accounted
    <2> QED BY <2>1, <2>2
  <1>7. IsSequence(outcomes') /\ IsSequence(asked')
    BY <1>4, Sequenced DEF AccountInv
  <1>8. ObservedInv'
    BY StepForHead DEF ObservedInv, Leave
  <1>9. CASE job.kind = "matrix"
    <2>1. queue' = Tail(queue) /\ step' = StepFor(queue')
      BY <1>9 DEF Leave
    <2>2. /\ Len(queue) \in Nat /\ Len(queue') = Len(queue) - 1 /\ DOMAIN queue = 1..Len(queue)
          /\ DOMAIN queue' = 1..Len(queue') /\ Len(queue') \in Nat
          /\ \A i \in 1..Len(queue') : queue'[i] = queue[i + 1]
      BY <1>3, <2>1, HeadTailProperties, LenProperties
    <2>3. step' \in {"done", "bench", "confirm"} /\ (step' = "done" => queue' = <<>>)
      BY <2>1 DEF StepFor
    <2>4. MatrixInv
      BY <1>9 DEF AccountInv
    <2>5. Len(asked') = Len(outcomes') + Len(queue')
      BY <1>4, <2>2, <2>4 DEF MatrixInv
    <2>6. ASSUME NEW i \in DOMAIN outcomes' PROVE asked'[i] = outcomes'[i].of
      <3>1. CASE i = n + 1
        <4>1. 1 \in DOMAIN queue /\ queue[1] = Head(queue)
          BY <1>3, <2>2
        <4>2. asked[n + 1] = queue[1]
          BY <2>4, <4>1 DEF MatrixInv
        <4> QED BY <1>4, <3>1, <4>1, <4>2
      <3>2. CASE i # n + 1
        <4>1. i \in DOMAIN outcomes /\ outcomes'[i] = outcomes[i]
          BY <1>4, <3>2
        <4> QED BY <2>4, <4>1 DEF MatrixInv
      <3> QED BY <3>1, <3>2
    <2>7. ASSUME NEW i \in DOMAIN queue' PROVE asked'[Len(outcomes') + i] = queue'[i]
      <3>1. i + 1 \in DOMAIN queue /\ queue'[i] = queue[i + 1]
        BY <2>2
      <3>2. asked[n + (i + 1)] = queue[i + 1]
        BY <2>4, <3>1 DEF MatrixInv
      <3>3. Len(outcomes') + i = n + (i + 1)
        BY <1>4, <2>2
      <3> QED BY <3>1, <3>2, <3>3
    <2>8. [i \in DOMAIN Kept' |-> Kept'[i].record] = store'
      <3> DEFINE I == {i \in DOMAIN outcomes : outcomes[i].saved}
                 J == {i \in DOMAIN outcomes' : outcomes'[i].saved}
      <3>1. \A i \in 1..n : i \in I <=> i \in J
        BY <1>4
      <3>2. n + 1 \in J <=> o.saved
        BY <1>4
      <3>3. Kept = Passing(outcomes, I) /\ Kept' = Passing(outcomes', J)
        BY DEF Kept
      <3>4. Kept \in Seq(S)
        <4>1. \A i \in 1..n : outcomes[i] \in S
          BY <1>1, ElementOfSeq
        <4> HIDE DEF I
        <4> QED BY <1>4, <3>3, <4>1, PassingType
      <3> HIDE DEF I, J
      <3>5. Kept' = IF o.saved THEN Append(Kept, o) ELSE Kept
        BY <1>1, <3>1, <3>2, <3>3, PassingAppend
      <3>6. store = [i \in DOMAIN Kept |-> Kept[i].record]
        BY <2>4 DEF MatrixInv
      <3>7. CASE o.saved
        BY <1>1, <3>4, <3>5, <3>6, <3>7, RecordsAppend
      <3>8. CASE ~o.saved
        BY <3>5, <3>6, <3>8
      <3> QED BY <3>7, <3>8
    <2>9. MatrixInv'
      BY <2>3, <2>5, <2>6, <2>7, <2>8 DEF MatrixInv
    <2> QED BY <1>6, <1>7, <1>8, <1>9, <2>9 DEF AccountInv
  <1>10. CASE job.kind # "matrix"
    <2>1. step' \in Ended
      BY <1>10 DEF Leave, Ended
    <2>2. outcomes = <<>> /\ Len(asked) = 1
      BY <1>10 DEF AccountInv, SingleInv, Serving, Ended
    <2>3. Len(outcomes') = 1
      <3>1. n = 0
        BY <2>2
      <3> QED BY <1>4, <3>1
    <2>4. SingleInv'
      BY <2>1, <2>2, <2>3 DEF SingleInv, Ended
    <2> QED BY <1>6, <1>7, <1>8, <1>10, <2>4 DEF AccountInv
  <1> QED BY <1>9, <1>10

\* The record of a run is of the configuration that ran.
LEMMA ObservedKeeps ==
    ASSUME IInv, AccountInv, Bench \/ After \/ Worker \/ Generate \/ GenerateTorch,
           step' \in {"after", "save"}
    PROVE  /\ queue' = queue /\ record'.request = Head(queue)
           /\ record'.success => record'.exit = "exit_0"
  <1>0. observation = "success" => child = "exit_0"
    BY DEF IInv, ExecutionInv
  <1>1. CASE Bench
    <2>1. PICK out : record' \in {BenchRecord(out), Enriched(BenchRecord(out))}
      BY <1>1 DEF Bench
    <2> DEFINE r == BenchRecord(out)
    <2>2. /\ r.request = Head(queue) /\ r.success = (observation = "success" /\ Measured(out))
          /\ r.exit = child
      BY DEF BenchRecord
    <2>3. /\ Enriched(r).request = r.request /\ Enriched(r).success = r.success
          /\ Enriched(r).exit = r.exit
      BY DEF Enriched, BenchRecord
    <2>4. queue' = queue
      BY <1>1 DEF Bench, Keep
    <2> HIDE DEF r
    <2> QED BY <1>0, <2>1, <2>2, <2>3, <2>4 DEF r
  <1>2. CASE After
    <2>1. PICK build : record' = Enriched([record EXCEPT !.probed = build])
      BY <1>2 DEF After
    <2>2. DOMAIN record = Fields
      BY DEF IInv, RecordInv, Honest
    <2>3. /\ record'.request = record.request /\ record'.success = record.success
          /\ record'.exit = record.exit
      BY <2>1, <2>2 DEF Enriched, Fields
    <2>4. queue' = queue /\ step = "after"
      BY <1>2 DEF After, Keep, Returned
    <2> QED BY <2>3, <2>4 DEF AccountInv, ObservedInv
  <1>3. CASE Worker
    <2>1. PICK payload : record' = TorchRecord(payload)
      BY <1>3 DEF Worker
    <2>2. queue' = queue
      BY <1>3 DEF Worker, Keep
    <2>3. /\ record'.request = Head(queue) /\ record'.exit = child
          /\ record'.success = (observation = "success" /\ TorchSuccess(payload))
      BY <2>1 DEF TorchRecord, NoRecord
    <2> QED BY <1>0, <2>2, <2>3
  <1>4. CASE Generate
    <2>1. step' = "save" \/ Failed
      BY <1>4 DEF Generate
    <2>2. ~Failed
      BY StepForHead DEF Failed, Leave
    <2>3. /\ queue' = queue
          /\ record' = [NoRecord EXCEPT
                !.runtime = "validation", !.request = Head(queue),
                !.success = observation = "success",
                !.exit0 = observation = "success",
                !.card = CardOf(truth.machine.cli, truth.request),
                !.exit = child, !.killed = terminated]
      BY <1>4, <2>2 DEF Generate
    <2>4. /\ record'.request = Head(queue) /\ record'.exit = child
          /\ record'.success = (observation = "success")
      BY <2>3 DEF NoRecord
    <2> QED BY <1>0, <2>3, <2>4
  <1>5. CASE GenerateTorch
    <2>1. PICK payload :
            record' = [NoRecord EXCEPT
                !.runtime = "validation", !.request = Head(queue),
                !.success = observation = "success" /\ TextSuccess(payload),
                !.exit0 = observation = "success",
                !.exit = child, !.killed = terminated,
                !.printed = IF payload = "whole" THEN {"text"} ELSE {}]
      BY <1>5 DEF GenerateTorch
    <2>2. queue' = queue
      BY <1>5 DEF GenerateTorch, Keep
    <2>3. /\ record'.request = Head(queue) /\ record'.exit = child
          /\ record'.success = (observation = "success" /\ TextSuccess(payload))
      BY <2>1 DEF NoRecord
    <2> QED BY <1>0, <2>2, <2>3
  <1> QED BY <1>1, <1>2, <1>3, <1>4, <1>5

\* A configuration that failed leaves nothing behind.
LEMMA FailedAccounts ==
    ASSUME IInv, AccountInv, Failed, step \in Serving, UNCHANGED <<job, asked, store>>
    PROVE  AccountInv'
  <1> DEFINE o == [of |-> Head(queue), how |-> "error", saved |-> FALSE, record |-> None]
  <1>1. Leave(o)
    BY DEF Failed
  <1>2. o.of = Head(queue) /\ o.saved = FALSE /\ o.how = "error"
    OBVIOUS
  <1> HIDE DEF o
  <1>3. store' = IF o.saved THEN Append(store, o.record) ELSE store
    BY <1>2
  <1> QED BY <1>1, <1>2, <1>3, LeaveAccounts DEF IInv, RecordInv

LEMMA SaveAccounts ==
    ASSUME IInv, AccountInv, Save
    PROVE  AccountInv'
  <1> DEFINE how == IF record.success THEN "completed" ELSE "failed"
             O(h, s) == [of |-> Head(queue), how |-> h, saved |-> s, record |-> record]
  <1>1. step = "save" /\ step \in Serving /\ UNCHANGED <<job, asked>>
    BY DEF Save, Serving, Keep, askedVars
  <1>2. record.request = Head(queue) /\ (record.success => record.exit = "exit_0")
    BY <1>1 DEF AccountInv, ObservedInv
  <1>3. \/ job.persist /\ Leave(O(how, TRUE)) /\ store' = Append(store, record)
        \/ job.persist /\ Leave(O("unsaved", FALSE)) /\ UNCHANGED store
        \/ ~job.persist /\ Leave(O(how, FALSE)) /\ UNCHANGED store
    BY DEF Save
  <1>4. how \in {"completed", "failed"} /\ (how = "completed" => record.success)
    OBVIOUS
  <1>5. \A h, s : /\ O(h, s).of = Head(queue) /\ O(h, s).how = h /\ O(h, s).saved = s
                  /\ O(h, s).record = record
    OBVIOUS
  <1>6. QueueInv /\ IsSequence(store)
    BY DEF IInv, RecordInv
  <1> HIDE DEF how, O
  <1>7. CASE job.persist /\ Leave(O(how, TRUE)) /\ store' = Append(store, record)
    <2>1. /\ O(how, TRUE).of = Head(queue) /\ O(how, TRUE).how = how
          /\ O(how, TRUE).saved = TRUE /\ O(how, TRUE).record = record
      BY <1>5
    <2>2. O(how, TRUE).how = "completed" =>
            /\ O(how, TRUE).record.success
            /\ job.persist => /\ O(how, TRUE).saved
                              /\ O(how, TRUE).record.request = O(how, TRUE).of
                              /\ O(how, TRUE).record.exit = "exit_0"
      BY <1>2, <1>4, <2>1
    <2>3. store' = IF O(how, TRUE).saved THEN Append(store, O(how, TRUE).record) ELSE store
      BY <1>7, <2>1
    <2> QED BY <1>1, <1>6, <1>7, <2>1, <2>2, <2>3, LeaveAccounts
  <1>8. CASE job.persist /\ Leave(O("unsaved", FALSE)) /\ UNCHANGED store
    <2>0. /\ O("unsaved", FALSE).of = Head(queue) /\ O("unsaved", FALSE).how = "unsaved"
          /\ O("unsaved", FALSE).saved = FALSE
      BY <1>5
    <2>1. O("unsaved", FALSE).how # "completed"
      BY <2>0
    <2>2. store' = IF O("unsaved", FALSE).saved THEN Append(store, O("unsaved", FALSE).record)
                   ELSE store
      BY <1>8, <2>0
    <2> QED BY <1>1, <1>6, <1>8, <2>0, <2>1, <2>2, LeaveAccounts
  <1>9. CASE ~job.persist /\ Leave(O(how, FALSE)) /\ UNCHANGED store
    <2>1. /\ O(how, FALSE).of = Head(queue) /\ O(how, FALSE).how = how
          /\ O(how, FALSE).saved = FALSE /\ O(how, FALSE).record = record
      BY <1>5
    <2>2. O(how, FALSE).how = "completed" =>
            O(how, FALSE).record.success /\ ~job.persist
      BY <1>4, <1>9, <2>1
    <2>3. store' = IF O(how, FALSE).saved THEN Append(store, O(how, FALSE).record) ELSE store
      BY <1>9, <2>1
    <2> QED BY <1>1, <1>6, <1>9, <2>1, <2>2, <2>3, LeaveAccounts
  <1> QED BY <1>3, <1>7, <1>8, <1>9

LEMMA AccountKeeps ==
    ASSUME IInv, AccountInv, [Next]_vars
    PROVE  AccountInv'
  <1> USE DEF Keep
  <1>1. CASE Begin
    BY <1>1, BeginAccounts DEF IInv, QueueInv
  <1>2. CASE Launch \/ Waits \/ ChildEnds \/ Change \/ UNCHANGED vars
    <2>1. UNCHANGED <<job, asked, queue, outcomes, store, step, record>>
      BY <1>2 DEF Launch, Waits, ChildEnds, Change, vars, askedVars, resultVars
    <2>2. ObservedInv'
      BY <2>1 DEF AccountInv, ObservedInv
    <2> QED BY <2>1, <2>2, AccountStands DEF accountVars
  <1>3. CASE Version
    <2>1. /\ UNCHANGED accountVars /\ step = "version"
          /\ step' \in {"raised", "footer"} \/ step' = StepFor(queue)
      BY <1>3 DEF Version, Returned, accountVars, askedVars, resultVars
    <2>2. StepFor(queue) \in {"done", "bench", "confirm"} /\ (StepFor(queue) = "done" => queue = <<>>)
      BY DEF StepFor
    <2>3. ObservedInv'
      BY <2>1, <2>2 DEF ObservedInv
    <2> QED BY <2>1, <2>2, <2>3, AccountGoesOn DEF Commands
  <1>4. CASE Footer
    <2>1. UNCHANGED accountVars /\ step = "footer" /\ step' = StepFor(queue)
      BY <1>4 DEF Footer, Returned, accountVars, askedVars, resultVars
    <2>2. StepFor(queue) \in {"done", "bench", "confirm"} /\ (StepFor(queue) = "done" => queue = <<>>)
      BY DEF StepFor
    <2>3. ObservedInv'
      BY <2>1, <2>2 DEF ObservedInv
    <2> QED BY <2>1, <2>2, <2>3, AccountGoesOn DEF Commands
  <1>5. CASE Confirm \/ Refuse \/ Unavailable \/ Preflight \/ PreflightTorch
    <2>1. step \in Serving /\ step \in Commands /\ UNCHANGED <<job, asked, store>>
      BY <1>5 DEF Confirm, Refuse, RefuseBench, RefuseLlama, RefuseTorch, Refused, Unavailable,
         Preflight, PreflightTorch, Returned, Serving, Commands, askedVars
    <2>2. \/ Failed
          \/ step' \in {"bench", "generate"} /\ UNCHANGED <<queue, outcomes>>
      BY <1>5 DEF Confirm, Refuse, RefuseBench, RefuseLlama, RefuseTorch, Refused, Unavailable,
         Preflight, PreflightTorch
    <2>3. CASE Failed
      BY <2>1, <2>3, FailedAccounts
    <2>4. CASE step' \in {"bench", "generate"} /\ UNCHANGED <<queue, outcomes>>
      <3>1. ObservedInv'
        BY <2>4 DEF ObservedInv
      <3> QED BY <2>1, <2>4, <3>1, AccountGoesOn DEF accountVars
    <2> QED BY <2>2, <2>3, <2>4
  <1>6. CASE Bench \/ After \/ Worker \/ Generate \/ GenerateTorch
    <2>1. /\ step \in Serving /\ step \in Commands /\ UNCHANGED <<job, asked, store>>
          /\ Failed \/ (step' \in {"after", "save"} /\ UNCHANGED outcomes)
      <3>1. CASE Bench
        BY <3>1 DEF Bench, Returned, Serving, Commands, askedVars
      <3>2. CASE After
        BY <3>2 DEF After, Returned, Serving, Commands, askedVars
      <3>3. CASE Worker
        BY <3>3 DEF Worker, Returned, Serving, Commands, askedVars
      <3>4. CASE Generate
        BY <3>4 DEF Generate, Returned, Serving, Commands, askedVars
      <3>5. CASE GenerateTorch
        BY <3>5 DEF GenerateTorch, Returned, Serving, Commands, askedVars
      <3> QED BY <1>6, <3>1, <3>2, <3>3, <3>4, <3>5
    <2>2. CASE Failed
      BY <2>1, <2>2, FailedAccounts
    <2>3. CASE step' \in {"after", "save"} /\ UNCHANGED outcomes
      <3>1. queue' = queue /\ ObservedInv'
        BY <1>6, <2>3, ObservedKeeps DEF ObservedInv
      <3> QED BY <2>1, <2>3, <3>1, AccountGoesOn DEF accountVars
    <2> QED BY <2>1, <2>2, <2>3
  <1>7. CASE Save
    BY <1>7, SaveAccounts
  <1> QED BY <1>1, <1>2, <1>3, <1>4, <1>5, <1>6, <1>7 DEF Next, Thread

\* The rows of the screen: one for every outcome and one for a backend left out, and a speed
\* only for an outcome that completed.
LEMMA RowsTell ==
    ASSUME IsSequence(outcomes)
    PROVE  /\ Len(Rows) = Len(outcomes) + (IF skipped THEN 1 ELSE 0)
           /\ \A i \in DOMAIN Rows : Rows[i].what = "speed" =>
                 \E j \in DOMAIN outcomes :
                    outcomes[j].how = "completed" /\ Rows[i].of = outcomes[j].of
  <1> DEFINE C == {i \in DOMAIN outcomes : outcomes[i].how = "completed"}
             S == {outcomes[i] : i \in DOMAIN outcomes}
             a == Passing(outcomes, C)
             b == Passing(outcomes, DOMAIN outcomes \ C)
             ran == a \o b
             shown == [i \in DOMAIN ran |-> Row(ran[i])]
             left == [of |-> On(None, 0), what |-> "skipped"]
             rest == IF skipped THEN <<left>> ELSE <<>>
             W == {Row(o) : o \in S} \cup {left}
  <1>1. /\ outcomes \in Seq(S) /\ Len(outcomes) \in Nat /\ DOMAIN outcomes = 1..Len(outcomes)
        /\ \A i \in DOMAIN outcomes : outcomes[i] \in S
    BY SequenceFacts DEF IsSequence
  <1>2. Rows = shown \o rest
    BY DEF Rows
  <1>3. a \in Seq(S) /\ b \in Seq(S)
    <2> HIDE DEF C, S
    <2> QED BY <1>1, PassingType
  <1>4. Len(a) + Len(b) = Len(outcomes)
    <2>1. \A i \in 1..Len(outcomes) : i \in DOMAIN outcomes \ C <=> i \notin C
      BY <1>1
    <2> HIDE DEF C, S
    <2> QED BY <1>1, <2>1, PassingParts
  <1> HIDE DEF a, b
  <1>5. ran \in Seq(S) /\ Len(ran) = Len(outcomes) /\ DOMAIN ran = 1..Len(outcomes)
        /\ \A i \in DOMAIN ran : ran[i] \in S
    <2> HIDE DEF S
    <2>1. ran \in Seq(S) /\ Len(ran) = Len(outcomes)
      BY <1>3, <1>4, ConcatProperties
    <2> HIDE DEF ran
    <2> QED BY <2>1, LenProperties, ElementOfSeq
  <1> HIDE DEF ran
  <1>6. shown \in Seq(W) /\ Len(shown) = Len(outcomes)
    <2>1. \A i \in DOMAIN ran : Row(ran[i]) \in W
      BY <1>5
    <2> HIDE DEF W
    <2>2. shown \in [1..Len(outcomes) -> W]
      BY <1>5, <2>1
    <2>3. Len(outcomes) \in Nat
      BY <1>1
    <2> HIDE DEF shown, S
    <2> QED BY <2>2, <2>3
  <1>7. rest \in Seq(W) /\ Len(rest) = (IF skipped THEN 1 ELSE 0) /\ \A i \in DOMAIN rest : rest[i] = left
    <2>1. left \in W
      OBVIOUS
    <2> HIDE DEF left, W
    <2> QED BY <2>1
  <1>8. left.what = "skipped"
    OBVIOUS
  <1>9. \A i \in DOMAIN shown : shown[i] = Row(ran[i]) /\ i \in DOMAIN ran
    OBVIOUS
  <1> HIDE DEF left, W, shown, rest
  <1>10. /\ Rows \in Seq(W) /\ Len(Rows) = Len(shown) + Len(rest)
         /\ DOMAIN Rows = 1..(Len(shown) + Len(rest)) /\ DOMAIN shown = 1..Len(shown)
         /\ DOMAIN rest = 1..Len(rest) /\ Len(shown) \in Nat /\ Len(rest) \in Nat
         /\ \A i \in 1..(Len(shown) + Len(rest)) :
               Rows[i] = IF i <= Len(shown) THEN shown[i] ELSE rest[i - Len(shown)]
    BY <1>2, <1>6, <1>7, ConcatProperties, LenProperties
  <1>11. ASSUME NEW i \in DOMAIN Rows, Rows[i].what = "speed"
         PROVE  \E j \in DOMAIN outcomes :
                   outcomes[j].how = "completed" /\ Rows[i].of = outcomes[j].of
    <2>1. i <= Len(shown)
      <3> SUFFICES ASSUME ~(i <= Len(shown)) PROVE FALSE
        OBVIOUS
      <3>1. i - Len(shown) \in DOMAIN rest /\ Rows[i] = rest[i - Len(shown)]
        BY <1>10
      <3> QED BY <1>7, <1>8, <1>11, <3>1
    <2>2. i \in DOMAIN shown /\ Rows[i] = Row(ran[i]) /\ ran[i] \in S
      BY <1>5, <1>9, <1>10, <2>1
    <2>3. ran[i].how = "completed" /\ Rows[i].of = ran[i].of
      BY <1>11, <2>2 DEF Row
    <2> QED BY <2>2, <2>3
  <1> QED BY <1>6, <1>7, <1>10, <1>11

\* Every configuration a matrix was asked for ends in one outcome, in order, also when
\* probes, runs and saves fail around it, and the screen shows a row for each; what was
\* saved is what it says was saved.  The same count holds of the jobs that run only one.
THEOREM Accounts == Spec => []EveryRunAccounted
  <1>1. IInv /\ AccountInv => EveryRunAccounted
    <2> SUFFICES ASSUME IInv, AccountInv PROVE EveryRunAccounted
      OBVIOUS
    <2>1. /\ Len(asked) \in Nat /\ asked = [i \in 1..Len(asked) |-> asked[i]]
          /\ Len(outcomes) \in Nat /\ DOMAIN outcomes = 1..Len(outcomes)
      BY SequenceFacts DEF AccountInv
    <2>2. \A i \in DOMAIN outcomes : Accounted(outcomes[i])
      BY DEF AccountInv
    <2>3. ASSUME step = "done" PROVE Len(outcomes) = Len(asked)
      <3>1. CASE job.kind = "matrix"
        <4>1. Len(asked) = Len(outcomes) + Len(queue) /\ queue = <<>>
          BY <2>3, <3>1 DEF AccountInv, MatrixInv
        <4>2. Len(queue) = 0
          BY <4>1
        <4> QED BY <2>1, <4>1, <4>2
      <3>2. CASE job.kind # "matrix"
        BY <2>3, <3>2 DEF AccountInv, SingleInv
      <3> QED BY <3>1, <3>2
    <2>4. ASSUME step = "done"
          PROVE  /\ Len(Rows) = Len(asked) + (IF skipped THEN 1 ELSE 0)
                 /\ \A i \in DOMAIN Rows :
                       Rows[i].what = "speed" /\ job.persist =>
                          \E j \in DOMAIN store :
                             store[j].request = Rows[i].of /\ store[j].exit = "exit_0"
      <3>1. IsSequence(outcomes)
        BY DEF AccountInv
      <3>2. ASSUME NEW i \in DOMAIN Rows, Rows[i].what = "speed", job.persist
            PROVE  \E j \in DOMAIN store :
                      store[j].request = Rows[i].of /\ store[j].exit = "exit_0"
        <4>1. PICK k \in DOMAIN outcomes :
                 outcomes[k].how = "completed" /\ Rows[i].of = outcomes[k].of
          BY <3>1, <3>2, RowsTell
        <4>2. Accounted(outcomes[k])
          BY <2>2
        <4> QED BY <3>2, <4>1, <4>2 DEF Accounted
      <3> QED BY <2>3, <2>4, <3>1, <3>2, RowsTell
    <2>5. ASSUME job.kind = "matrix"
          PROVE  /\ step = "raised" => outcomes = <<>>
                 /\ step = "done" => [i \in DOMAIN outcomes |-> outcomes[i].of] = asked
                 /\ [i \in DOMAIN Kept |-> Kept[i].record] = store
      <3>1. MatrixInv
        BY <2>5 DEF AccountInv
      <3>2. ASSUME step = "done" PROVE [i \in DOMAIN outcomes |-> outcomes[i].of] = asked
        <4>1. DOMAIN outcomes = 1..Len(asked)
          BY <2>1, <2>3, <3>2
        <4>2. \A i \in 1..Len(asked) : asked[i] = outcomes[i].of
          BY <3>1, <4>1 DEF MatrixInv
        <4> QED BY <2>1, <4>1, <4>2
      <3> QED BY <3>1, <3>2 DEF MatrixInv
    <2>6. \A i \in DOMAIN outcomes : outcomes[i].how = "completed" =>
             outcomes[i].record.success /\ (job.persist => outcomes[i].saved)
      BY <2>2 DEF Accounted
    <2> QED BY <2>4, <2>5, <2>6 DEF EveryRunAccounted, Kept
  <1>2. Init => AccountInv
    BY InitAccounts
  <1>3. IInv /\ AccountInv /\ [Next]_vars => AccountInv'
    BY AccountKeeps
  <1> QED BY <1>1, <1>2, <1>3, Inductive, PTL DEF Spec
=============================================================================
