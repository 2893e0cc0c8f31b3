---------------------------- MODULE BenchmarkRun ----------------------------
(***************************************************************************)
(* From a request to a stored record: the benchmark matrix                 *)
(* (benchmarks/matrix.py), the speed of one plan and the benchmark of a    *)
(* Transformers model (AdvisorService.benchmark_plan_speed, run_benchmark),*)
(* and the validation of a plan (experiments/runner.py), with the runners  *)
(* that start the binaries and read what they print (runtime/).            *)
(* The benchmark screen asks for one of them or for its plan.              *)
(*                                                                         *)
(* The thread starts one child process after another: probes of the        *)
(* binary, a list of its devices, then the model.  Between any two the     *)
(* machine may change: another build is installed, a driver numbers the    *)
(* devices in another way.  "truth" is what a child really ran on, which   *)
(* the code never sees; a record keeps it for the properties only.         *)
(***************************************************************************)
EXTENDS HostExecution, Integers, Sequences, FiniteSets

CONSTANTS
    Machines,     \* [cli, bench: devices listed, build: of llama-bench]
    Jobs,         \* what may be asked for, see below
    Accelerator,  \* the accelerator selected when the hardware was read: [name, card]
    MaxChanges,   \* bound on the changes of the machine
    Granularity   \* see SpeedEvidence

ASSUME BenchmarkAssumption == MaxChanges \in Nat

INSTANCE DeviceMatching
Speed == INSTANCE SpeedEvidence

\* A job: its kind, "matrix", "plan", "screen", "torch" or "validate"; its runtime, the
\* selected backend, the offload and the device flags (device_map for Transformers); for
\* a matrix whether it wants the CPU and the selected backend, the offloads asked for,
\* and whether to save.
ASSUME JobAssumption == \A j \in Jobs : j.layers \in Seq(Int)

\* What joining devices by name takes for granted: a listing numbers its devices, no
\* renderer of software goes by the accelerator's name, and a device that alone in its
\* listing does is the accelerator.
NamesTell(devices) ==
    LET named == {i \in DOMAIN devices : NamesAgree(devices[i].name, Accelerator.name)}
    IN  /\ \A i, j \in DOMAIN devices : devices[i].id = devices[j].id => i = j
        /\ \A i \in named : ~devices[i].software
        /\ \A i \in named : named = {i} => devices[i].card = Accelerator.card

ASSUME MachineAssumption ==
    \A m \in Machines :
        \A devices \in {m.cli, m.bench} :
            devices \in Seq({devices[i] : i \in DOMAIN devices}) /\ NamesTell(devices)

VARIABLES
    machine, changes,
    job,
    step,        \* what the thread does, or how the job ended
    asked,       \* the configurations of the job
    skipped,     \* whether the selected backend was left out
    queue,       \* those still to run, the one under way first
    probed,      \* the build llama-bench told when it was probed, or None
    record,      \* the record of the run just observed
    outcomes,    \* completed and failed configurations, oldest first
    store,       \* the records saved
    truth,       \* what the last child ran on: [machine, request]
    moved        \* history: the machine changed after the device was confirmed

worldVars == <<machine, changes>>
askedVars == <<asked, skipped>>
resultVars == <<record, outcomes, store>>
vars == <<worldVars, job, step, askedVars, queue, probed, resultVars, truth, moved, hostVars>>

Selection == [backend |-> job.backend, accelerator |-> Accelerator]

Ended == {"done", "raised"}

-----------------------------------------------------------------------------
(* The configurations of a job.                                            *)

\* A count of layers, -1 for all.  _runtime_gpu_layers: no flag, no layer.
LayersOf(flag) == IF flag = None THEN 0 ELSE flag

OnCpu == [backend |-> "cpu", device |-> None, layers |-> 0]

On(device, layers) == [backend |-> job.backend, device |-> device, layers |-> layers]

\* The device llama-cli listed for the accelerator, None when its backend is not
\* exposed, has no device, or none can be told to be the one.
Listed == MatchDevice(Selection, machine.cli).device

\* _build_requests: the CPU first, then every offload of the selected backend.
MatrixRequests ==
    LET layers == IF job.layers = <<>> THEN <<LayersOf(job.flag)>> ELSE job.layers
        gpu    == IF job.selected /\ job.backend # "cpu" /\ Listed # None
                  THEN [i \in DOMAIN layers |-> On(Listed.id, layers[i])] ELSE <<>>
    IN  (IF job.cpu THEN <<OnCpu>> ELSE <<>>) \o gpu

\* BenchmarkMatrixResult.skipped
Skipped == job.selected /\ job.backend # "cpu" /\ Listed = None

\* benchmark_plan_speed: the offload the plan names, on the device it names, which must
\* still be the one llama-cli lists.
PlanRefused ==
    \/ job.flag = None
    \/ /\ job.backend # "cpu"
       /\ \/ Listed = None
          \/ job.device # None /\ job.device # Listed.id

PlanRequest ==
    IF job.backend = "cpu" THEN [OnCpu EXCEPT !.layers = LayersOf(job.flag)]
    ELSE On(Listed.id, LayersOf(job.flag))

\* _transformers_backend of the benchmark screen
TorchBackend ==
    IF job.device = "cuda" THEN "cuda"
    ELSE IF job.backend \in {"cpu", "cuda", "hip"} THEN job.backend ELSE "cpu"

\* _benchmark_backend and _benchmark_device: no runtime lists the devices of PyTorch.
ScreenBackend == IF job.runtime = "torch" THEN TorchBackend ELSE job.backend

ScreenDevice ==
    IF ScreenBackend = "cpu" \/ job.runtime = "torch" \/ Listed = None THEN None ELSE Listed.id

\* _benchmark_gpu_layers: no flag, every layer.
ScreenLayers ==
    IF ScreenBackend = "cpu" THEN 0 ELSE IF job.flag = None THEN -1 ELSE job.flag

\* _plan_benchmark_worker, once the plan is prepared.
ScreenRequest == [backend |-> ScreenBackend, device |-> ScreenDevice, layers |-> ScreenLayers]

\* _llama_cpp_benchmark_worker: a recommendation without a plan asks for all layers on
\* the selected backend, or for the CPU.
ScreenMatrix(backend) ==
    [kind |-> "matrix", runtime |-> "llama", backend |-> backend, flag |-> None, device |-> None,
     cpu |-> backend = "cpu", selected |-> TRUE,
     layers |-> IF backend = "cpu" THEN <<>> ELSE <<-1>>, persist |-> TRUE]

\* What comes first for the configuration at the head of a queue.
StepFor(q) ==
    IF q = <<>> THEN "done" ELSE IF Head(q).backend = "cpu" THEN "bench" ELSE "confirm"

-----------------------------------------------------------------------------
(* The thread, one child at a time.                                        *)

Keep(others) == UNCHANGED <<worldVars, job, others>>

Ask(requests) ==
    /\ asked' = requests /\ queue' = requests
    /\ skipped' = (job.kind = "matrix" /\ Skipped)

\* inspect_llama_cpp_runtime has listed the devices of llama-cli for the caller.
BeginMatrix ==
    /\ step = "begin" /\ job.kind = "matrix"
    /\ step' = "version" /\ Ask(MatrixRequests)
    /\ Keep(<<probed, resultVars, truth, moved, hostVars>>)

\* Preparing the artifact may fail too.
BeginPlan ==
    /\ step = "begin" /\ job.kind = "plan"
    /\ \/ step' = "raised" /\ UNCHANGED <<askedVars, queue>>
       \/ ~PlanRefused /\ Ask(<<PlanRequest>>) /\ step' = StepFor(queue')
    /\ Keep(<<probed, resultVars, truth, moved, hostVars>>)

\* The plan is prepared anew; its readiness may block it, and a Vulkan device that is
\* not known leaves the choice to the runtime.
BeginScreen ==
    /\ step = "begin" /\ job.kind = "screen"
    /\ \/ step' = "raised" /\ UNCHANGED <<askedVars, queue>>
       \/ /\ ScreenBackend = "vulkan" => ScreenDevice # None
          /\ Ask(<<ScreenRequest>>)
          /\ step' = IF job.runtime = "torch" THEN "worker" ELSE StepFor(queue')
    /\ Keep(<<probed, resultVars, truth, moved, hostVars>>)

\* _transformers_benchmark_worker and _run_transformers_benchmark: not ready, or ready.
BeginTorch ==
    /\ step = "begin" /\ job.kind = "torch"
    /\ \/ step' = "raised" /\ UNCHANGED <<askedVars, queue>>
       \/ step' = "worker" /\ Ask(<<[backend |-> TorchBackend, device |-> None, layers |-> 0]>>)
    /\ Keep(<<probed, resultVars, truth, moved, hostVars>>)

\* _load_device: a Transformers model goes to torch's first card, or to the CPU.
ValidationRequest ==
    IF job.runtime = "torch"
    THEN [backend |-> IF job.device = "cuda" THEN "cuda" ELSE "cpu", device |-> None, layers |-> 0]
    ELSE On(job.device, LayersOf(job.flag))

\* ExperimentRunner.run: the prediction must be of this runtime.
BeginValidation ==
    /\ step = "begin" /\ job.kind = "validate"
    /\ \/ step' = "raised" /\ UNCHANGED <<askedVars, queue>>
       \/ step' = "preflight" /\ Ask(<<ValidationRequest>>)
    /\ Keep(<<probed, resultVars, truth, moved, hostVars>>)

Begin == BeginMatrix \/ BeginPlan \/ BeginScreen \/ BeginTorch \/ BeginValidation

Commands == {"version", "footer", "confirm", "bench", "after", "worker", "preflight", "generate"}

\* Every command goes through the host backend.
Launch ==
    /\ step \in Commands /\ host = "idle" /\ Spawn
    /\ truth' = [machine |-> machine,
                 request |-> IF queue = <<>> THEN OnCpu ELSE Head(queue)]
    /\ moved' = IF step = "confirm" THEN FALSE ELSE moved
    /\ Keep(<<step, askedVars, queue, probed, resultVars>>)

\* execute returned or raised.
Returned(from) ==
    /\ step = from /\ host = "returned"
    /\ host' = "idle" /\ child' = "none" /\ terminated' = FALSE /\ observation' = None
    /\ truth' = None /\ UNCHANGED moved

\* The configuration at the head is over: the matrix goes on, a plan's caller is told.
Leave(outcome) ==
    /\ outcomes' = Append(outcomes, outcome)
    /\ queue' = IF job.kind = "matrix" THEN Tail(queue) ELSE queue
    /\ step' = IF job.kind = "matrix" THEN StepFor(queue')
               ELSE IF outcome.how \in {"error", "unsaved"} THEN "raised" ELSE "done"

\* Mutant of Failed: what the loop does not catch ends the matrix.
FailedForAll ==
    /\ outcomes' = Append(outcomes, [of |-> Head(queue), how |-> "error", saved |-> FALSE,
                                     record |-> None])
    /\ step' = "raised" /\ UNCHANGED queue

\* BenchmarkParseError, BenchmarkRunnerError and what derives from it.
Failed == Leave([of |-> Head(queue), how |-> "error", saved |-> FALSE, record |-> None])

\* inspect_llama_bench before a matrix.
Version ==
    /\ Returned("version")
    /\ \/ /\ observation \in {"executable_not_found", "spawn_error"}
          /\ step' = "raised" /\ UNCHANGED probed
       \/ /\ observation = "non_zero_exit"
          /\ step' = "footer" /\ UNCHANGED probed
       \/ /\ observation \in {"timeout", "success"}
          /\ probed' = IF observation = "success" THEN truth.machine.build ELSE None
          /\ step' = StepFor(queue)
    /\ Keep(<<askedVars, queue, resultVars>>)

\* _probe_empty_workload_build, which needs no model.
Footer ==
    /\ Returned("footer")
    /\ probed' \in IF observation = "success" THEN {None, truth.machine.build} ELSE {None}
    /\ step' = StepFor(queue)
    /\ Keep(<<askedVars, queue, resultVars>>)

\* Mutant of Confirm: a device listed once is not asked for again.
ConfirmOnce ==
    /\ Returned("confirm")
    /\ step' = "bench" /\ UNCHANGED <<queue, outcomes>>
    /\ Keep(<<askedVars, probed, record, store>>)

\* confirm_benchmark_device
Confirm ==
    /\ Returned("confirm")
    /\ LET match == MatchDevice(Selection, truth.machine.bench).device
       IN  IF observation = "success" /\ match # None /\ match.id = Head(queue).device
           THEN step' = "bench" /\ UNCHANGED <<queue, outcomes>>
           ELSE Failed
    /\ Keep(<<askedVars, probed, record, store>>)

-----------------------------------------------------------------------------
(* What the runners make of an execution.                                  *)

\* The card the child ran the layers on: None for the CPU, or when no device has the
\* number asked for.  "" in a torch or unnumbered run stands for the first device.
Chosen(devices, id) ==
    {d \in {devices[i] : i \in DOMAIN devices} : d.id = id}

CardOf(devices, request) ==
    IF request.backend = "cpu" \/ Chosen(devices, request.device) = {} THEN None
    ELSE (CHOOSE d \in Chosen(devices, request.device) : TRUE).card

Tests == {"pp", "tg"}

\* What a llama-bench that exits with 0 may have printed: rows of its table, one of them
\* not to be parsed, and whether the table, the JSON lines and the footer tell all that
\* llama_bench_v2 asks for; and whether its log enumerates the devices.
Prints == [rows : SUBSET Tests, broken : BOOLEAN, telling : BOOLEAN, named : BOOLEAN]

\* Mutant of Measured: a measurement is enough.
MeasuredSome(out) == ~out.broken /\ out.rows # {}

\* parse_llama_bench_output and the measurements the request expects.
Measured(out) == ~out.broken /\ out.rows = Tests

Enumerated(devices, named) ==
    IF named THEN {devices[i] : i \in DOMAIN devices} ELSE {}

NoRecord ==
    [runtime |-> None, request |-> None, success |-> FALSE, exit0 |-> FALSE, rows |-> {},
     telling |-> FALSE, build |-> None, probed |-> None, names |-> {}, card |-> None,
     exit |-> None, killed |-> FALSE, printed |-> {}]

\* BenchmarkRecord of LlamaBenchRunner.run: a failed execution, an unreadable table or a
\* missing measurement is an observation without figures.
BenchRecord(out) ==
    LET ok == observation = "success" /\ Measured(out)
    IN  [runtime |-> "llama", request |-> Head(queue), success |-> ok,
         exit0 |-> observation = "success",
         rows |-> IF ok THEN out.rows ELSE {},
         telling |-> ok /\ out.telling,
         build |-> IF ok /\ out.telling THEN truth.machine.build ELSE None,
         probed |-> probed,
         names |-> Enumerated(truth.machine.bench, ok /\ out.named),
         card |-> CardOf(truth.machine.bench, truth.request),
         exit |-> child, killed |-> terminated, printed |-> out.rows]

Silent == [rows |-> {}, broken |-> FALSE, telling |-> FALSE, named |-> FALSE]

\* Nothing is started.
Refused ==
    /\ host = "idle" /\ Failed
    /\ Keep(<<askedVars, probed, record, store, truth, moved, hostVars>>)

\* physical_core_threads: the machine does not tell how many cores it has.
RefuseBench == step = "bench" /\ Refused

\* _validate_prompt, _validate_artifact: the file is not there, or is no GGUF.
RefuseLlama == step = "generate" /\ job.runtime = "llama" /\ Refused

\* _model_ref, _flag, _int_flag: not a model Transformers loads, or flags of another runtime.
RefuseTorch == step = "generate" /\ job.runtime = "torch" /\ Refused

Refuse == RefuseBench \/ RefuseLlama \/ RefuseTorch

\* Without its executable there is nothing to record.
Unavailable ==
    /\ observation = "executable_not_found"
    /\ Returned("bench") \/ Returned("worker")
    /\ Failed
    /\ Keep(<<askedVars, probed, record, store>>)

\* enrich_capability_from_benchmark_output: the footer of the run tells what no probe did.
Enriched(r) == [r EXCEPT !.probed = IF @ = None THEN r.build ELSE @]

Bench ==
    /\ observation # "executable_not_found" /\ Returned("bench")
    /\ \E out \in IF observation = "success" THEN Prints ELSE {Silent} :
          record' = IF job.kind = "matrix" THEN Enriched(BenchRecord(out)) ELSE BenchRecord(out)
    /\ step' = IF job.kind = "matrix" THEN "save" ELSE "after"
    /\ Keep(<<askedVars, queue, probed, outcomes, store>>)

\* run_benchmark asks for the build when the run is over.
After ==
    /\ Returned("after")
    /\ record' = Enriched([record EXCEPT !.probed =
                              IF observation = "success" THEN truth.machine.build ELSE None])
    /\ step' = "save"
    /\ Keep(<<askedVars, queue, probed, outcomes, store>>)

\* The last JSON object of the worker's output: none, of somebody else, of a failure, or
\* of a success with fewer figures than asked for or with all of them.  The worker ends
\* with 0 only after a success, but what it imports may print after it.
Payloads(exit) == IF exit = "exit_0" THEN {"none", "foreign", "short", "whole"}
                  ELSE {"none", "failure"}

\* Mutant of TorchSuccess: what is not called a failure is a success.
TorchNoFailure(payload) == payload \in {"foreign", "short", "whole"}

\* _parse_worker_payload and the counts of the measurements.
TorchSuccess(payload) == payload = "whole"

\* TransformersBenchmarkRunner.run
TorchRecord(payload) ==
    LET ok == observation = "success" /\ TorchSuccess(payload)
    IN  [NoRecord EXCEPT
            !.runtime = "transformers", !.request = Head(queue), !.success = ok,
            !.exit0 = observation = "success", !.rows = IF ok THEN Tests ELSE {},
            !.exit = child, !.killed = terminated,
            !.printed = IF payload = "whole" THEN Tests ELSE {}]

Worker ==
    /\ observation # "executable_not_found" /\ Returned("worker")
    /\ \E payload \in Payloads(child) : record' = TorchRecord(payload)
    /\ step' = "save"
    /\ Keep(<<askedVars, queue, probed, outcomes, store>>)

\* inspect_pytorch_runtime: a probe that ran out of time counts by the last line it had
\* printed; evaluate_pytorch_execution_readiness may still find the runtime wanting.
PreflightTorch ==
    /\ Returned("preflight") /\ job.runtime = "torch"
    /\ \/ Failed
       \/ /\ observation \in {"success", "timeout"}
          /\ step' = "generate" /\ UNCHANGED <<queue, outcomes>>
    /\ Keep(<<askedVars, probed, record, store>>)

\* ExperimentRunner._preflight: ready, and for Vulkan on the device that was prepared.
Preflight ==
    /\ Returned("preflight") /\ job.runtime = "llama"
    /\ LET devices == truth.machine.cli
            match   == MatchDevice(Selection, devices).device
            ready   == /\ observation = "success"
                       /\ CASE job.backend = "cpu"    -> TRUE
                            [] job.backend = "vulkan" -> match # None /\ match.id = job.device
                            [] OTHER                  -> devices # <<>>
       IN  IF ready THEN step' = "generate" /\ UNCHANGED <<queue, outcomes>> ELSE Failed
    /\ Keep(<<askedVars, probed, record, store>>)

\* The device the log of the run names, by its number and by the accelerator's name.
Confirmed(used, names) ==
    used = job.device /\ NamesConfirm(names, job.device, Accelerator.name)

\* LlamaCppRunner.run within ExperimentRunner.run: a failure is an observation, a Vulkan
\* run its log does not confirm is none.
Generate ==
    /\ Returned("generate") /\ job.runtime = "llama"
    /\ \E used \in {None, job.device}, named \in BOOLEAN :
          LET names == Enumerated(truth.machine.cli, named)
          IN  IF /\ observation = "success" /\ job.backend = "vulkan"
                 /\ ~Confirmed(used, names)
              THEN Failed /\ UNCHANGED record
              ELSE /\ record' = [NoRecord EXCEPT
                          !.runtime = "validation", !.request = Head(queue),
                          !.success = observation = "success",
                          !.exit0 = observation = "success",
                          !.card = CardOf(truth.machine.cli, truth.request),
                          !.exit = child, !.killed = terminated]
                   /\ step' = "save" /\ UNCHANGED <<queue, outcomes>>
    /\ Keep(<<askedVars, probed, store>>)

\* The last JSON object of the generation worker, which ends with 0 only after a text.
TextPayloads(exit) ==
    IF exit = "exit_0" THEN {"none", "foreign", "whole"} ELSE {"none", "failure"}

\* _parse_worker_payload of a generation.
TextSuccess(payload) == payload = "whole"

\* TransformersRunner.run within ExperimentRunner.run: a bad payload turns the observation
\* of a run that ended well into a failure, and is recorded like one.
GenerateTorch ==
    /\ Returned("generate") /\ job.runtime = "torch"
    /\ \E payload \in TextPayloads(child) :
          record' = [NoRecord EXCEPT
              !.runtime = "validation", !.request = Head(queue),
              !.success = observation = "success" /\ TextSuccess(payload),
              !.exit0 = observation = "success",
              !.exit = child, !.killed = terminated,
              !.printed = IF payload = "whole" THEN {"text"} ELSE {}]
    /\ step' = "save"
    /\ Keep(<<askedVars, queue, probed, outcomes, store>>)

\* store.save; a matrix may be asked not to, and goes on when it fails.
Save ==
    /\ step = "save"
    /\ LET ended(how, saved) == Leave([of |-> Head(queue), how |-> how, saved |-> saved,
                                       record |-> record])
            how == IF record.success THEN "completed" ELSE "failed"
       IN  \/ job.persist /\ ended(how, TRUE) /\ store' = Append(store, record)
           \/ job.persist /\ ended("unsaved", FALSE) /\ UNCHANGED store
           \/ ~job.persist /\ ended(how, FALSE) /\ UNCHANGED store
    /\ record' = NoRecord
    /\ Keep(<<askedVars, probed, truth, moved, hostVars>>)

\* The entries at the given places, in their order: a comprehension.
Passing(s, places) ==
    LET kept[n \in 0..Len(s)] ==
            IF n = 0 THEN <<>>
            ELSE IF n \in places THEN Append(kept[n - 1], s[n]) ELSE kept[n - 1]
    IN  kept[Len(s)]

\* _build_rows of the screen: what ran, then what failed, then what was left out.
Row(outcome) ==
    [of |-> outcome.of, what |-> IF outcome.how = "completed" THEN "speed" ELSE "failed"]

Rows ==
    LET completed == {i \in DOMAIN outcomes : outcomes[i].how = "completed"}
        ran == Passing(outcomes, completed) \o Passing(outcomes, DOMAIN outcomes \ completed)
    IN  [i \in DOMAIN ran |-> Row(ran[i])]
          \o (IF skipped THEN <<[of |-> On(None, 0), what |-> "skipped"]>> ELSE <<>>)

-----------------------------------------------------------------------------

Init ==
    /\ HostInit
    /\ machine \in Machines /\ changes = 0 /\ job \in Jobs
    /\ step = "begin" /\ asked = <<>> /\ skipped = FALSE /\ queue = <<>> /\ probed = None
    /\ record = NoRecord /\ outcomes = <<>> /\ store = <<>>
    /\ truth = None /\ moved = FALSE

Thread == \/ Begin \/ Launch \/ Version \/ Footer \/ Confirm \/ Refuse \/ Unavailable \/ Bench
          \/ After \/ Worker \/ Preflight \/ PreflightTorch \/ Generate \/ GenerateTorch \/ Save

Waits == HostStep /\ UNCHANGED <<worldVars, job, step, askedVars, queue, probed, resultVars, truth,
                                 moved>>

\* No process computes on a device that is not there.
ChildEnds ==
    /\ ChildExits
    /\ child' = "exit_0" /\ step = "bench" /\ truth.request.backend # "cpu" =>
          CardOf(truth.machine.bench, truth.request) # None
    /\ UNCHANGED <<worldVars, job, step, askedVars, queue, probed, resultVars, truth, moved>>

Change ==
    /\ step \notin Ended /\ changes < MaxChanges
    /\ \E m \in Machines \ {machine} : machine' = m
    /\ changes' = changes + 1 /\ moved' = TRUE
    /\ UNCHANGED <<job, step, askedVars, queue, probed, resultVars, truth, hostVars>>

Next == Thread \/ Waits \/ ChildEnds \/ Change

\* The thread is scheduled and every execution has a deadline.
Fairness == WF_vars(Thread \/ Waits)

Spec == Init /\ [][Next]_vars /\ Fairness

-----------------------------------------------------------------------------
(* Properties.                                                             *)

\* How the readers of the store see a record of this job's artifact on this machine.
\* The faults are those of fastest_record_blockers and _v2_blockers.
AsEvidence(r) ==
    [kind |-> "benchmark", at |-> 0, repo |-> "m", file |-> "m", revision |-> "r", quant |-> "q",
     sha |-> "s", host |-> "h", memory |-> 0, driver |-> "d", runtime |-> r.runtime,
     backend |-> r.request.backend, layers |-> r.request.layers,
     device |-> IF NamesConfirm(r.names, r.request.device, Accelerator.name)
                THEN "selected" ELSE "unknown",
     method |-> IF r.runtime = "llama" THEN "v2" ELSE "v3", build |-> r.build,
     success |-> r.success, exit0 |-> r.exit0,
     faults |-> (IF r.telling THEN {} ELSE {"protocol"})
                \cup (IF r.probed = None \/ r.probed = r.build THEN {} ELSE {"probed_build"}),
     tg |-> IF "tg" \in r.rows THEN 1 ELSE None]

PlanOf(r) == [AsEvidence(r) EXCEPT !.device = "selected"]

\* What counts as a speed was measured.  A record taken for a plan's speed is of a child
\* that ended well, by itself, having printed every figure asked for; and one that may
\* rank plans ran on the selected card, however the machine changed between the probes
\* and the run.
SpeedIsMeasured ==
    \A i \in DOMAIN store :
        LET r == store[i]
            e == AsEvidence(r)
        IN  r.runtime \in {"llama", "transformers"} =>
            /\ Speed!Matches(PlanOf(r), e) =>
                  r.exit = "exit_0" /\ ~r.killed /\ r.printed = Tests
            /\ Speed!Blockers(PlanOf(r), TRUE, e) = {} =>
                  r.request.backend = "cpu" \/ r.card = Accelerator.card

\* A validation says of a Vulkan run that it worked only when it ran on the selected card,
\* although the devices may be numbered anew between the preflight and the run; and of any
\* run only when the child ended well by itself, a Transformers worker after its text.
ValidatedRanThere ==
    \A i \in DOMAIN store :
        LET r == store[i]
        IN  r.runtime = "validation" /\ r.success =>
              /\ r.exit = "exit_0" /\ ~r.killed
              /\ r.request.backend = "vulkan" => r.card = Accelerator.card
              /\ job.runtime = "torch" => r.printed = {"text"}

\* No model is started on a Vulkan device that llama-bench itself did not just list as
\* the selected card: llama-cli's numbers, and those of the configuration before, may
\* not be its own.
LaunchedWhereConfirmed ==
    step = "bench" /\ child = "running" /\ ~moved /\ Head(queue).backend = "vulkan" =>
        CardOf(truth.machine.bench, truth.request) = Accelerator.card

\* A model that is to run on the selected card does, or nobody says so.
RunsOnTheSelectedCard == ValidatedRanThere /\ LaunchedWhereConfirmed

\* A matrix accounts for everything: every configuration it was asked for ends in one
\* outcome, in order, also when probes, runs and saves fail around it; what was saved is
\* what it says was saved; and it raises only before the first configuration.  The screen
\* has one row for every configuration and one for a backend left out, and a speed only
\* for a run that ended well, and was saved when that was asked for.
EveryRunAccounted ==
    /\ step = "done" =>
          /\ Len(Rows) = Len(asked) + (IF skipped THEN 1 ELSE 0)
          /\ \A i \in DOMAIN Rows :
                Rows[i].what = "speed" /\ job.persist =>
                   \E j \in DOMAIN store : store[j].request = Rows[i].of /\ store[j].exit = "exit_0"
    /\ job.kind = "matrix" =>
           /\ step = "raised" => outcomes = <<>>
           /\ step = "done" => [i \in DOMAIN outcomes |-> outcomes[i].of] = asked
           /\ LET kept == Passing(outcomes, {i \in DOMAIN outcomes : outcomes[i].saved})
              IN  [i \in DOMAIN kept |-> kept[i].record] = store
           /\ \A i \in DOMAIN outcomes :
                 outcomes[i].how = "completed" =>
                     outcomes[i].record.success /\ (job.persist => outcomes[i].saved)

\* Every job ends: the caller gets a result or an error, whatever the children do.
JobEnds == <>(step \in Ended)
=============================================================================
