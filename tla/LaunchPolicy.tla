---------------------------- MODULE LaunchPolicy ----------------------------
(***************************************************************************)
(* How a plan is launched: the placement estimated for a machine           *)
(* (HardwareFit) becomes a number of GPU layers or a device map, the       *)
(* confirmed device is pinned, and the plan is built, its backend aligned  *)
(* with the flags.                                                         *)
(*                                                                         *)
(* A model is [gguf, quantized, files, request, tensors]: the request of   *)
(* HardwareFit, and the bytes of the tensors of a verified local file,     *)
(* [blocks: a sequence, output], or None.  A launch is [runtime, ngl,      *)
(* pin, map, attn]: the flags the program sets.                            *)
(***************************************************************************)
EXTENDS RuntimeReadiness

CONSTANTS
    Headroom,           \* LLAMA_CPP_HEADROOM_BYTES
    DefaultLayers       \* LLAMA_CPP_DEFAULT_LAYERS_WHEN_UNKNOWN

ASSUME LaunchAssumption == Headroom \in Nat /\ DefaultLayers \in Nat \ {0}

AllLayers == -1

Fit == INSTANCE HardwareFit WITH
           Requests <- {}, Machines <- {}, request <- None, machine <- None,
           step <- None, n <- 0, low <- 0, high <- 0, best <- None, fit <- None

-----------------------------------------------------------------------------
(* The estimate a launch starts from.                                       *)

MachineOf(hw, ram) ==
    [vram |-> AvailableMemory(hw), ram |-> ram, shared |-> FALSE]

\* estimate_model, assess_components_with_fit: where the model would run.
Estimate(model, hw, ram, target) ==
    LET r == model.request
        m == MachineOf(hw, ram)
        splits == IF r.blocks > 0
                  THEN \E k \in 1..Fit!SearchCeiling(r, m) : Fit!BlocksFit(r, m, k)
                  ELSE \E b \in 1..r.weights : Fit!SomeBytesFit(r, m, b)
    IN  [request |-> r, vram |-> m.vram,
         place |->
            IF target = "cpu" \/ m.vram = None THEN "cpu"
            ELSE IF Fit!RequiredIfResident(r) <= m.vram THEN "gpu"
            ELSE IF splits THEN "offload"
            ELSE "cpu"]

-----------------------------------------------------------------------------
(* Layers.                                                                  *)

\* Mutant of AggregateLayers: the headroom is not set aside.
LayersWithoutHeadroom(est) ==
    LET r == est.request
        perBlock == IF r.decomp # None
                    THEN Fit!CeilDiv(r.decomp.block, r.decomp.blocks)
                    ELSE r.weights \div r.blocks
        fixed    == IF r.decomp # None THEN r.decomp.nonBlock ELSE 0
        budget   == est.vram - r.reserve - fixed
    IN  CASE est.place = "cpu" -> 0
          [] est.place = "gpu" -> AllLayers
          [] OTHER -> IF budget <= 0 \/ perBlock <= 0 THEN 0
                      ELSE Fit!Minimum(r.blocks, (r.blocks * budget)
                                  \div (r.blocks * perBlock + r.kv))

\* _pick_aggregate_gpu_layers, _weight_split
AggregateLayers(est) ==
    LET r == est.request
        perBlock == IF r.decomp # None
                    THEN Fit!CeilDiv(r.decomp.block, r.decomp.blocks)
                    ELSE r.weights \div r.blocks
        fixed    == IF r.decomp # None THEN r.decomp.nonBlock ELSE 0
        budget   == est.vram - r.reserve - Headroom - fixed
    IN  CASE est.place = "cpu" -> 0
          [] est.place = "gpu" -> AllLayers
          [] est.place = "offload" /\ r.blocks = 0 -> DefaultLayers
          [] est.place = "offload" /\ r.blocks > 0 ->
                IF budget <= 0 \/ perBlock <= 0 THEN 0
                ELSE Fit!Minimum(r.blocks, (r.blocks * budget)
                            \div (r.blocks * perBlock + r.kv))

Total(bytes, from) ==
    FoldLeft(LAMBDA x, y : x + y, 0, SubSeq(bytes, from, Len(bytes)))

\* What the last k blocks, the output and their cache need on the GPU.
TensorNeed(est, tensors, k) ==
    LET r == est.request
        T == Len(tensors.blocks)
    IN  Total(tensors.blocks, T - k + 1) + tensors.output
            + Fit!CeilDiv(r.kv * k, T) + r.reserve + Headroom

\* select_tensor_budget: a unit more than blocks, for the output; or none.
TensorLayers(est, tensors) ==
    LET fits == {k \in 0..Len(tensors.blocks) :
                    TensorNeed(est, tensors, k) <= est.vram}
    IN  IF fits = {} THEN 0 ELSE Max(fits) + 1

\* inspect_tensor_context: one confirmed discrete NVIDIA GPU and nothing
\* else, and a file whose tensors agree with the estimate.
TensorsApply(model, hw, selection, capability) ==
    /\ model.tensors # None
    /\ capability.status = "available"
    /\ selection.backend = "cuda"
    /\ Len(hw.gpus) = 1
    /\ \A a \in ToSet(hw.accelerators) : ~a.shared
    /\ Len(capability.devices["cuda"]) = 1
    /\ \A b \in Backends \ {"cuda"} : capability.devices[b] = <<>>
    /\ model.request.blocks = Len(model.tensors.blocks)

\* pick_gpu_layers; capability None: no file was inspected.
PickLayers(model, est, hw, selection, capability) ==
    IF /\ capability # None /\ est.place # "cpu" /\ est.vram # None
       /\ TensorsApply(model, hw, selection, capability)
    THEN TensorLayers(est, model.tensors)
    ELSE AggregateLayers(est)

\* pick_device_map
DeviceMap(est) ==
    CASE est.place = "cpu" -> "cpu" [] est.place = "gpu" -> "cuda"
      [] est.place = "offload" -> "auto"

-----------------------------------------------------------------------------
(* The launch.                                                              *)

\* llama_cpp.build or transformers.build.
AutomaticLaunch(model, est, hw, selection, capability) ==
    IF model.gguf
    THEN [runtime |-> "llama_cpp", pin |-> None, map |-> None, attn |-> "auto",
          ngl |-> PickLayers(model, est, hw, selection, capability)]
    ELSE [runtime |-> "transformers", pin |-> None, map |-> DeviceMap(est),
          attn |-> "auto", ngl |-> None]

\* _apply_backend_device
Pinned(launch, selection, readiness) ==
    IF \/ launch.runtime # "llama_cpp" \/ readiness = None
       \/ selection.backend = "cpu"
    THEN launch
    ELSE IF readiness.status # "ready" \/ readiness.devices = <<>> THEN launch
    ELSE LET match == MatchDevice(selection, readiness.devices)
         IN  IF match.device = None THEN launch
             ELSE [launch EXCEPT !.pin = match.device]

\* _apply_vulkan_driver_compatibility
ForDozen(launch, selection) ==
    IF /\ launch.runtime = "llama_cpp" /\ selection.backend = "vulkan"
       /\ selection.accelerator # None /\ launch.ngl # 0
    THEN IF selection.accelerator.dozen THEN [launch EXCEPT !.attn = "off"]
         ELSE launch
    ELSE launch

\* plan_launch; layers: the layers the plan insists on, or None.
PlanLaunch(model, est, hw, selection, capability, readiness, layers) ==
    LET auto == AutomaticLaunch(model, est, hw, selection,
                                IF layers = None THEN capability ELSE None)
        own  == IF layers = None \/ ~model.gguf
                THEN Pinned(auto, selection, readiness)
                ELSE [Pinned(auto, selection, readiness) EXCEPT !.ngl = layers]
    IN  ForDozen(own, selection)

-----------------------------------------------------------------------------
(* The plan.                                                                *)

\* The backend of the flags, then of the selection.
BackendOf(launch, hw, selection) ==
    CASE launch.map = "cpu" \/ launch.ngl = 0 -> "cpu"
      [] launch.map = "cuda" ->
            IF selection # None /\ selection.backend \in {"cuda", "hip"}
            THEN selection.backend
            ELSE IF "cuda" \notin ComputeBackends(hw) /\ "hip" \in ComputeBackends(hw)
            THEN "hip" ELSE "cuda"
      [] OTHER ->
            IF selection # None THEN selection.backend
            ELSE LET usable == ComputeBackends(hw)
                            \ (IF launch.runtime = "transformers"
                               THEN {"cpu", "vulkan"} ELSE {"cpu"})
                 IN  CASE "cuda" \in usable -> "cuda"
                       [] "cuda" \notin usable /\ "hip" \in usable -> "hip"
                       [] usable = {"vulkan"} -> "vulkan"
                       [] usable = {} -> "cpu"

\* _execution_selection
ExecutionSelection(launch, hw, selection) ==
    LET backend == BackendOf(launch, hw, selection)
        bare    == WithAlternatives([backend |-> backend, accelerator |-> None],
                                    <<>>)
        other   == FirstWith(selection.alternatives, backend)
    IN  IF selection = None THEN bare
        ELSE IF selection.backend = backend THEN selection
        ELSE IF other # None THEN WithAlternatives(other, <<>>)
        ELSE bare

\* technical_support_issue, and an offload with nothing to offload to.
Unsupported(model, launch, hw, backend) ==
    \/ backend \notin ComputeBackends(hw)
    \/ /\ launch.runtime = "transformers"
       /\ \/ backend = "vulkan"
          \/ model.quantized /\ backend \notin {"cuda", "hip"}
    \/ /\ launch.runtime = "llama_cpp"
       /\ launch.ngl # 0 /\ backend = "cpu"

\* Mutant of BuildPlan: the readiness of another backend is kept.
BuildPlanKeepingReadiness(model, launch, hw, selection, readiness) ==
    LET own == ExecutionSelection(launch, hw, selection)
    IN  [launch |-> launch, selection |-> own, readiness |-> readiness,
         runs |-> ~Unsupported(model, launch, hw, own.backend)]

\* build_execution_plan
BuildPlan(model, launch, hw, selection, readiness) ==
    LET own == ExecutionSelection(launch, hw, selection)
    IN  [launch |-> launch, selection |-> own,
         readiness |-> IF readiness = None THEN None
                       ELSE IF readiness.selection.backend = own.backend
                       THEN readiness ELSE None,
         runs |-> ~Unsupported(model, launch, hw, own.backend)]

\* runtime_block_reason: whether the screens refuse to launch the plan.
Blocked(plan) ==
    LET r      == plan.readiness
        vulkan == plan.selection.backend = "vulkan"
    IN  \/ ~plan.runs
        \/ r = None /\ vulkan
        \/ r # None
           /\ \/ r.status = "not_ready"
              \/ r.status = "unknown"
                    /\ (vulkan \/ r.reason = "not_identified")
              \/ vulkan /\ r.status \in {"ready", "preparable"}
                    /\ \/ r.selection # plan.selection
                       \/ MatchDevice(plan.selection, r.devices).device = None

-----------------------------------------------------------------------------
(* What an earlier plan says about its preparation.                         *)

\* _config_for_plan: the processor stays the processor.
TargetOf(plan) == IF plan.selection.backend = "cpu" THEN "cpu" ELSE "auto"

\* _execution_overrides_for_plan: a Vulkan path keeps its layers.
LayersOf(plan) ==
    IF plan.selection.backend = "vulkan" /\ plan.launch.runtime = "llama_cpp"
    THEN plan.launch.ngl ELSE None

\* _vulkan_offload_runtime
AllOnVulkan(launch) == [launch EXCEPT !.ngl = AllLayers]
=============================================================================
