--------------------------- MODULE LaunchPlanning ---------------------------
(***************************************************************************)
(* From a recommendation to a launch.  A search scans the hardware and     *)
(* makes a plan; a worker of the Paths screen inspects the runtimes and    *)
(* offers ways to run it; the preparation of the chosen way scans again,   *)
(* refuses or keeps its accelerator, inspects the runtime and plans the    *)
(* launch.  In between the machine may change: memory is taken, a card     *)
(* disappears, the Python environment changes.  Worker and preparation     *)
(* share one AdvisorService, which remembers the llama.cpp installation it *)
(* last selected and what the PyTorch probe said.                          *)
(***************************************************************************)
EXTENDS LaunchPolicy

CONSTANTS
    Wanted,             \* the models a plan is made for
    Disks,              \* what may be installed, see RuntimeLocator
    Builds,             \* by directory, the llama.cpp there: [exposes: backends, naming]
    Environments,       \* the Python environments
    Ram,                \* memory of the host, enough for every model
    MaxChanges          \* times the machine changes

ASSUME PlanningAssumption == Ram \in Nat /\ MaxChanges \in Nat

VARIABLES
    model, environment, \* a disk for a GGUF model, a Python environment for another
    changes,
    phase,              \* "scan", "planned", "rescan", "select", "launch", "over"
    recommended,        \* the plan of the recommendation, None before
    planHardware,       \* ExecutionPlan.hardware of it
    paths,              \* the Paths worker: "idle", "first", "second", "shown"
    capability,         \* what its first inspection found
    options,            \* the plans the Paths screen offers
    installed,          \* llama_cli of llama_cpp_installation, None before it is resolved
    torchCache,         \* _pytorch_capability_cache
    probed,             \* the environment that probe saw (for the properties)
    chosen, prepared,   \* the plan to prepare, the plan to launch
    estimate,           \* the estimate of the preparation
    ran                 \* the llama-cli that ran, None before

planningVars == <<model, environment, changes, phase, recommended, planHardware,
                  paths, capability, options, installed, torchCache, probed,
                  chosen, prepared, estimate, ran>>
vars == <<hardwareVars, planningVars>>

EnvironmentsOf(m) == IF m.gguf THEN Disks ELSE Environments

Init ==
    /\ DetectionInit
    /\ model \in Wanted
    /\ environment \in EnvironmentsOf(model)
    /\ changes = 0 /\ phase = "scan" /\ recommended = None /\ planHardware = None
    /\ paths = "idle" /\ capability = None /\ options = {} /\ installed = None
    /\ torchCache = None /\ probed = None /\ chosen = None /\ prepared = None
    /\ estimate = None /\ ran = None

-----------------------------------------------------------------------------
(* Inspecting the runtimes.                                                 *)

\* The cards a backend's driver shows; the loader adds its renderer.
Shown(backend) ==
    {i \in Present : CASE backend = "cuda" -> box.cards[i].vendor = "nvidia"
                       [] backend = "hip" -> box.cards[i].vendor = "amd"
                       [] backend = "vulkan" -> TRUE}

Listed(backend, naming) ==
    LET order == InOrder(Shown(backend))
        cards == [i \in DOMAIN order |->
                     [backend |-> backend, card |-> order[i], software |-> FALSE,
                      name |-> VulkanName(box.cards[order[i]].model, naming)]]
    IN  IF backend = "vulkan" /\ box.renderer
        THEN Append(cards, [backend |-> backend, card |-> 0, software |-> TRUE,
                            name |-> SoftwareRenderer.name])
        ELSE cards

Outcomes == {"available", "probe_failed", "missing"}

\* What inspect_llama_cpp_runtime tells of a binary, without starting it when it is not
\* there or must not be executed.
StatusOf(cli, outcome) ==
    IF cli = None THEN "missing"
    ELSE CASE environment.files[cli] = "absent"   -> "missing"
           [] environment.files[cli] = "blocked"  -> "not_executable"
           [] environment.files[cli] = "runnable" -> outcome

\* _build_backend_capabilities
DevicesOf(cli, status) ==
    [b \in Backends |->
        IF status = "available" /\ b \in Builds[cli[1]].exposes
        THEN Listed(b, Builds[cli[1]].naming) ELSE <<>>]

\* inspect_llama_cpp_runtime of one binary.
Inspected(cli, outcome) ==
    LET status == StatusOf(cli, outcome)
    IN  [binary |-> cli, status |-> status, devices |-> DevicesOf(cli, status)]

Clis == {i.cli : i \in ToSet(Locator!DiscoverLlama(environment))} \ {None}

\* _select_llama_cpp_installation: every installation with a llama-cli is probed, and
\* any of the probes may fail.
SelectInstallation(selection) ==
    LET couldBeReady ==
            {cli \in Clis : LlamaReadiness(selection, Inspected(cli, "available")).status = "ready"}
    IN  {Locator!SelectLlama(environment, ready) : ready \in SUBSET couldBeReady}

\* What is told of the installation selected: on the CPU a benchmark binary that must
\* not be executed speaks for both; a GPU backend is asked for all the same.
ToldOf(selection, selected, outcome) ==
    LET seen == Inspected(selected.cli, outcome)
    IN  IF selection.backend = "cpu" /\ selected.status = "not_executable"
        THEN [seen EXCEPT !.status = "not_executable"] ELSE seen

\* What an inspection may tell, and what the service remembers of it.
Remember(answer) ==
    /\ installed' = answer.installed
    /\ torchCache' = answer.cache /\ probed' = answer.probed

\* AdvisorService.inspect_llama_cpp_runtime: the selected one is probed again, and
\* becomes the one the runners use.
InspectLlama(selection) ==
    {[told |-> ToldOf(selection, i, again), cache |-> torchCache, probed |-> probed,
      installed |-> IF i.cli = None THEN installed ELSE i.cli] :
        i \in SelectInstallation(selection), again \in Outcomes}

\* AdvisorService.inspect_pytorch_runtime: what was probed once is kept.
InspectTorch(refresh) ==
    LET answers ==
            IF torchCache # None /\ ~refresh THEN {torchCache}
            ELSE LET card == environment.build # "cpu" /\ Shown(environment.build) # {}
                 IN  {TorchProbe(environment, end, card) : end \in ProbeEnds}
    IN  {[told |-> answer, cache |-> answer, installed |-> installed,
          probed |-> IF torchCache # None /\ ~refresh THEN probed ELSE environment] :
            answer \in answers}

Inspect(selection, refresh) ==
    IF model.gguf THEN InspectLlama(selection) ELSE InspectTorch(refresh)

-----------------------------------------------------------------------------
(* The search and the Paths screen.                                         *)

\* service.recommend: the plan of the hardware found, nothing inspected yet.
Recommend ==
    /\ phase = "scan" /\ probing = "done"
    /\ LET selection == SelectBackend(Hardware)
           launch == AutomaticLaunch(model, Estimate(model, Hardware, Ram, "auto"),
                                     Hardware, selection, None)
       IN  recommended' = BuildPlan(model, launch, Hardware, selection, None)
    /\ planHardware' = Hardware
    /\ phase' = "planned"
    /\ UNCHANGED <<hardwareVars, model, environment, changes, paths, capability,
                   options, installed, torchCache, probed, chosen, prepared,
                   estimate, ran>>

\* execution_plans_for_recommendation: the first inspection, or the probe.
InspectForPaths(refresh) ==
    /\ phase = "planned" /\ paths \in {"idle", "shown"}
    /\ paths' = "first"
    /\ refresh => ~model.gguf
    /\ \E answer \in Inspect(recommended.selection, refresh) :
          Remember(answer) /\ capability' = answer.told
    /\ UNCHANGED <<hardwareVars, model, environment, changes, phase, recommended,
                   planHardware, options, chosen, prepared, estimate,
                   ran>>

ReadinessOf(selection, seen) ==
    IF model.gguf THEN LlamaReadiness(selection, seen)
    ELSE TorchReadiness(selection, seen, model.quantized)

\* The recommended plan again, with what the runtime says of it.
RecheckedPlan(downloaded) ==
    BuildPlan(model, recommended.launch, planHardware, recommended.selection,
              ReadinessForArtifact(ReadinessOf(recommended.selection, capability),
                                   model.gguf, downloaded, model.files))

VulkanPlan(selection, seen, downloaded) ==
    BuildPlan(model, AllOnVulkan(recommended.launch), planHardware, selection,
              ReadinessForArtifact(LlamaReadiness(selection, seen), TRUE,
                                   downloaded, model.files))

\* The rest of it: an integrated accelerator gets a path of its own, for which
\* the installations are inspected once more.  Nobody stops the worker: left
\* behind by a preparation, it still ends and its answer is dropped.
OfferPaths ==
    LET shared == SharedVulkan(planHardware)
        extra  == /\ model.gguf /\ shared # None
                  /\ recommended.selection.backend # "vulkan"
    IN  /\ paths = "first"
        /\ paths' = "shown"
        /\ capability' = None
        /\ \E downloaded \in BOOLEAN :
              LET Offer(plans) == options' = IF phase = "planned" THEN plans ELSE {}
              IN  IF extra
                  THEN \E answer \in InspectLlama(shared) :
                          /\ installed' = answer.installed
                          /\ Offer({RecheckedPlan(downloaded),
                                    VulkanPlan(shared, answer.told, downloaded)})
                  ELSE /\ Offer({RecheckedPlan(downloaded)})
                       /\ UNCHANGED installed
        /\ UNCHANGED <<hardwareVars, model, environment, changes, phase,
                       recommended, planHardware, torchCache, probed, chosen,
                       prepared, estimate, ran>>

-----------------------------------------------------------------------------
(* The preparation and the run.                                             *)

\* A screen opens the preparation of a plan it does not refuse.
Choose ==
    /\ phase = "planned"
    /\ \E plan \in options \cup {recommended} :
          /\ ~Blocked(plan)
          /\ chosen' = plan
    /\ phase' = "rescan" /\ options' = {}
    /\ probing' = "nvidia" /\ gpus' = <<>> /\ accelerators' = <<>>
    /\ UNCHANGED <<box, model, environment, changes, recommended, planHardware,
                   paths, capability, installed, torchCache, probed, prepared,
                   estimate, ran>>

\* The selection of the scan, turned to the backend of the plan.
RequestedSelection ==
    ForBackend(SelectBackend(Hardware), chosen.selection.backend)

\* The accelerator the plan was made for is not there any more.
Refused ==
    LET found == RequestedSelection.accelerator
    IN  /\ chosen.selection.backend # "cpu"
        /\ \/ found = None
           \/ /\ chosen.selection.accelerator # None
              /\ ~SameAccelerator(chosen.selection.accelerator, found)

\* AdvisorService.plan_launch of a preparation: with the evidence at hand.
LaunchFor(est, selection, seen, layers) ==
    PlanLaunch(model, est, Hardware, selection, seen, ReadinessOf(selection, seen), layers)

\* The plan to launch, with the readiness it was planned for.
PlanFor(est, selection, seen) ==
    BuildPlan(model, LaunchFor(est, selection, seen, LayersOf(chosen)), Hardware, selection,
              ReadinessOf(selection, seen))

\* prepare_execution_plan after its scan: refuse, or inspect and plan.
Prepare ==
    /\ phase = "rescan" /\ probing = "done"
    /\ IF Refused
       THEN /\ phase' = "over"
            /\ UNCHANGED <<prepared, estimate, installed, torchCache, probed>>
       ELSE LET selection == RequestedSelection
                est == Estimate(model, Hardware, Ram, TargetOf(chosen))
            IN  /\ phase' = "launch"
                /\ estimate' = est
                /\ \E answer \in Inspect(selection, FALSE) :
                      Remember(answer) /\ prepared' = PlanFor(est, selection, answer.told)
    /\ UNCHANGED <<hardwareVars, model, environment, changes, recommended,
                   planHardware, paths, capability, options, chosen, ran>>

\* jaull run: the plan of the command line, by a scan or by the user's layers.
PlanOnCommandLine ==
    /\ phase = "scan" /\ probing = "done" /\ model.gguf
    /\ \/ \E layers \in {0, AllLayers} :
             /\ prepared' = [launch |-> [runtime |-> "llama_cpp", ngl |-> layers,
                                         pin |-> None, map |-> None,
                                         attn |-> "auto"],
                             selection |-> WithAlternatives(
                                 [backend |-> None, accelerator |-> None], <<>>),
                             readiness |-> None, runs |-> TRUE]
             /\ UNCHANGED <<installed, estimate>>
       \/ LET selection == SelectBackend(Hardware)
              est == Estimate(model, Hardware, Ram, "auto")
          IN  /\ estimate' = est
              /\ \E answer \in InspectLlama(selection) :
                    /\ installed' = answer.installed
                    /\ prepared' = BuildPlan(model, LaunchFor(est, selection, answer.told, None),
                                             Hardware, None, None)
    /\ phase' = "launch"
    /\ UNCHANGED <<hardwareVars, model, environment, changes, recommended,
                   planHardware, paths, capability, options, torchCache, probed,
                   chosen, ran>>

\* The runner of the installation the service remembers.
Run ==
    /\ phase = "launch"
    /\ IF chosen # None /\ Blocked(prepared)
       THEN UNCHANGED <<installed, ran>>
       ELSE IF ~model.gguf THEN UNCHANGED <<installed, ran>>
       ELSE /\ installed' = IF installed = None THEN Locator!ResolveLlama(environment).cli
                                                ELSE installed
            /\ ran' = IF StatusOf(installed', "available") = "available"
                      THEN installed' ELSE None
    /\ phase' = "over"
    /\ UNCHANGED <<hardwareVars, model, environment, changes, recommended,
                   planHardware, paths, capability, options, torchCache, probed,
                   chosen, prepared, estimate>>

-----------------------------------------------------------------------------
(* The world.                                                               *)

MachineChanges ==
    /\ changes < MaxChanges
    /\ phase = "planned" \/ (phase = "rescan" /\ probing = "done")
    /\ changes' = changes + 1
    /\ \E i \in Present :
          \/ box' = [box EXCEPT !.cards[i].free = @ \div 4]
          \/ box' = [box EXCEPT !.cards[i].present = FALSE]
    /\ UNCHANGED <<probing, gpus, accelerators, model, environment, phase,
                   recommended, planHardware, paths, capability, options,
                   installed, torchCache, probed, chosen, prepared, estimate, ran>>

EnvironmentChanges ==
    /\ changes < MaxChanges /\ phase = "planned"
    /\ changes' = changes + 1
    /\ environment' \in EnvironmentsOf(model) \ {environment}
    /\ UNCHANGED <<hardwareVars, model, phase, recommended, planHardware, paths,
                   capability, options, installed, torchCache, probed, chosen,
                   prepared, estimate, ran>>

Scan == phase \in {"scan", "rescan"} /\ Detect /\ UNCHANGED planningVars

Next ==
    \/ Scan \/ Recommend
    \/ InspectForPaths(FALSE) \/ InspectForPaths(TRUE) \/ OfferPaths
    \/ Choose \/ Prepare \/ PlanOnCommandLine \/ Run
    \/ MachineChanges \/ EnvironmentChanges

Spec == Init /\ [][Next]_vars

-----------------------------------------------------------------------------
(* Properties.                                                              *)

Launches == phase = "launch" /\ (chosen # None => ~Blocked(prepared))

\* A plan for Vulkan that may be launched is pinned to a device of the model
\* of the card it was made for, though cards vanish, names repeat or carry a
\* driver's annotation, and another installation lists other devices
\* (prepare_execution_plan, match_runtime_device).
PinIsTheSelectedCard ==
    (Launches /\ chosen # None /\ prepared.selection.backend = "vulkan"
              /\ model.gguf) =>
        /\ prepared.launch.pin # None
        /\ prepared.launch.pin.backend = "vulkan"
        /\ box.cards[prepared.launch.pin.card].model
              = box.cards[chosen.selection.accelerator.card].model

\* The layers the program puts on the GPU by itself fit the memory that was
\* free when it counted them, with the reserve and the headroom, by the bytes
\* of the tensors where those are known; only the bytes that a division by
\* the layers leaves over are not counted (_pick_aggregate_gpu_layers,
\* select_tensor_budget).
OffloadFitsBudget ==
    LET r == model.request
        n == prepared.launch.ngl
        auto == chosen = None \/ LayersOf(chosen) = None
        block == IF r.decomp # None THEN r.decomp.block
                 ELSE r.weights - (r.weights % r.blocks)
        fixed == IF r.decomp # None THEN r.decomp.nonBlock ELSE 0
    IN  (phase = "launch" /\ model.gguf /\ estimate # None /\ auto
            /\ estimate.place = "offload") =>
            /\ n >= 0
            /\ (n > 0 /\ r.blocks > 0) =>
                  \/ r.blocks * (fixed + r.reserve + Headroom) + n * (block + r.kv)
                        <= r.blocks * estimate.vram
                  \/ /\ model.tensors # None
                     /\ TensorNeed(estimate, model.tensors, n - 1) <= estimate.vram

\* A prepared plan that is ready asks of the runtime what the runtime was
\* found ready for: layers, device map and pinned device are of the backend
\* whose readiness it carries (build_execution_plan, _apply_backend_device).
ReadyAsProbed ==
    (phase = "launch" /\ prepared.readiness # None) =>
        LET launch  == prepared.launch
            backend == prepared.readiness.selection.backend
        IN  /\ backend = "cpu" => launch.ngl \in {0, None} /\ launch.map \in {"cpu", None}
            /\ backend # "cpu" => launch.ngl # 0 /\ launch.map # "cpu"
            /\ launch.pin # None => launch.pin.backend = backend

\* A quantized Transformers plan is ready only if the probe saw bitsandbytes
\* import: an answer cut short by the time limit, a stray last line or an
\* import that breaks leaves it unknown, from the cache too
\* (inspect_pytorch_runtime, _with_quantization_readiness).
QuantizedNeedsBitsandbytes ==
    (phase = "launch" /\ ~model.gguf /\ model.quantized
        /\ prepared.readiness # None) =>
        (prepared.readiness.status = "ready" =>
            PythonStarts(probed) /\ probed.torch = "works"
                /\ probed.transformers = "works" /\ probed.bnb = "works")

\* A GGUF plan that is ready runs a llama-cli that is there to be started, and the
\* configured one where one is configured: builds may come and go between the
\* recommendation and the preparation, and a worker left behind selects too.
ReadyRunsWhatIsInstalled ==
    (phase = "launch" /\ model.gguf /\ prepared.readiness # None) =>
        (prepared.readiness.status = "ready" =>
            /\ StatusOf(installed, "available") = "available"
            /\ environment.config.cli # None => installed = environment.config.cli)

\* A ready plan is one the runtime was found ready for.
ReadyIsTrue == ReadyAsProbed /\ QuantizedNeedsBitsandbytes /\ ReadyRunsWhatIsInstalled
=============================================================================
