-------------------------- MODULE RuntimeReadiness --------------------------
(***************************************************************************)
(* From what the hardware offers to what an installed runtime can use: the *)
(* ranking of backends (select_runtime_backend), the join of the selected  *)
(* accelerator with the devices llama-cli lists (DeviceMatching),          *)
(* the readiness of a plan, and the probe of the PyTorch environment, whose *)
(* output may be cut by its time limit.                                    *)
(*                                                                         *)
(* A selection is [backend, accelerator, alternatives].  A capability of   *)
(* llama.cpp is [binary, status, devices]: by backend, the devices listed. *)
(***************************************************************************)
EXTENDS HardwareDetection, Integers

INSTANCE DeviceMatching
Locator == INSTANCE RuntimeLocator

-----------------------------------------------------------------------------
(* Selecting a backend.                                                     *)

\* _BACKEND_POLICY
VendorPolicy(vendor) ==
    CASE vendor = "nvidia" -> <<"cuda", "vulkan">>
      [] vendor = "amd"    -> <<"hip", "vulkan">>
      [] OTHER             -> <<"vulkan">>

PolicyRank(vendor, backend) ==
    CHOOSE i \in DOMAIN VendorPolicy(vendor) : VendorPolicy(vendor)[i] = backend

KindRank(kind) ==
    CASE kind = "dedicated" -> 0 [] kind = "integrated" -> 1 [] OTHER -> 2

Candidates(hw) ==
    {<<i, b>> \in (DOMAIN hw.accelerators) \X Backends :
        LET a == hw.accelerators[i]
        IN  /\ a.kind # "software"
            /\ a.backends[b].is = "available"
            /\ b \in ToSet(VendorPolicy(a.vendor))}

\* The order of _ranked_candidates: backend, kind, memory, discovery.
Ahead(hw, x, y) ==
    LET rank(c) == PolicyRank(hw.accelerators[c[1]].vendor, c[2])
        kind(c) == KindRank(hw.accelerators[c[1]].kind)
        size(c) == IF hw.accelerators[c[1]].total = None THEN 0
                   ELSE hw.accelerators[c[1]].total + 1
    IN  \/ rank(x) < rank(y)
        \/ rank(x) = rank(y) /\ kind(x) < kind(y)
        \/ rank(x) = rank(y) /\ kind(x) = kind(y) /\ size(x) > size(y)
        \/ rank(x) = rank(y) /\ kind(x) = kind(y) /\ size(x) = size(y)
              /\ x[1] < y[1]

\* What a selection keeps of an accelerator.
Ref(a) == [card |-> a.card, name |-> a.name, vendor |-> a.vendor,
           kind |-> a.kind, device |-> a.device, shared |-> a.shared,
           dozen |-> a.backends["vulkan"].dozen]

CpuChoice == [backend |-> "cpu", accelerator |-> None]

Ranked(hw) ==
    LET order == SetToSortSeq(Candidates(hw), LAMBDA x, y : Ahead(hw, x, y))
    IN  [i \in DOMAIN order |->
            [backend |-> order[i][2],
             accelerator |-> Ref(hw.accelerators[order[i][1]])]]

WithAlternatives(choice, others) ==
    [backend |-> choice.backend, accelerator |-> choice.accelerator,
     alternatives |-> others]

SelectBackend(hw) ==
    LET ranked == Ranked(hw)
    IN  IF ranked = <<>> THEN WithAlternatives(CpuChoice, <<>>)
        ELSE WithAlternatives(Head(ranked), Append(Tail(ranked), CpuChoice))

FirstWith(choices, backend) ==
    LET with(c) == c.backend = backend
    IN  IF SelectSeq(choices, with) = <<>> THEN None
        ELSE Head(SelectSeq(choices, with))

\* _selection_for_requested_backend
ForBackend(selection, backend) ==
    LET other == FirstWith(selection.alternatives, backend)
        rest(c) == c.backend # backend
    IN  IF selection.backend = backend THEN selection
        ELSE IF other = None
        THEN [selection EXCEPT !.backend = backend, !.accelerator = None]
        ELSE WithAlternatives(other, SelectSeq(selection.alternatives, rest))

\* _shared_memory_vulkan_selection: the one integrated accelerator that
\* shares the memory and has Vulkan, when that is the one selected.
SharedVulkan(hw) ==
    LET s == ForBackend(SelectBackend(hw), "vulkan")
        a == s.accelerator
        profiles == {i \in DOMAIN hw.accelerators :
                        LET p == hw.accelerators[i]
                        IN  /\ p.shared /\ p.kind = "integrated"
                            /\ p.backends["vulkan"].is = "available"
                            /\ a # None =>
                                  IF a.device # None THEN p.device = a.device
                                  ELSE p.name = a.name}
    IN  IF a = None THEN None
        ELSE IF a.shared /\ a.kind = "integrated" /\ Cardinality(profiles) = 1
        THEN s ELSE None

-----------------------------------------------------------------------------
(* Readiness of llama.cpp.                                                  *)

Verdict(selection, status, reason, devices) ==
    [selection |-> selection, status |-> status, reason |-> reason,
     devices |-> devices]

\* evaluate_execution_readiness, with _vulkan_device_readiness.
LlamaReadiness(selection, capability) ==
    LET says(status, reason, devices) ==
            Verdict(selection, status, reason, devices)
        devices == IF selection.backend = "cpu" THEN <<>>
                   ELSE capability.devices[selection.backend]
        match   == MatchDevice(selection, devices)
    IN  CASE capability.status \in {"missing", "not_executable"} ->
                says("not_ready", "runtime", <<>>)
          [] capability.status = "probe_failed" ->
                says("unknown", "probe_failed", <<>>)
          [] capability.status = "available" ->
                CASE selection.backend = "cpu" -> says("ready", "runtime", <<>>)
                  [] selection.backend # "cpu" /\ devices = <<>> ->
                        says("not_ready", "not_exposed", devices)
                  [] selection.backend \in {"cuda", "hip"} /\ devices # <<>> ->
                        says("ready", "exposed", devices)
                  [] selection.backend = "vulkan" /\ devices # <<>> ->
                        CASE match.device # None -> says("ready", "exposed", devices)
                          [] match.reason = "ambiguous" ->
                                says("unknown", "not_identified", devices)
                          [] match.reason \in {"none", "mismatch"} ->
                                says("not_ready", "device_not_exposed", devices)

\* _readiness_for_artifact
ReadinessForArtifact(readiness, gguf, downloaded, files) ==
    IF readiness = None THEN None
    ELSE IF gguf /\ files > 1
    THEN [readiness EXCEPT !.status = "not_ready", !.reason = "multipart"]
    ELSE IF readiness.status # "ready" \/ (gguf /\ downloaded) THEN readiness
    ELSE [readiness EXCEPT !.status = "preparable", !.reason = "artifact"]

-----------------------------------------------------------------------------
(* PyTorch.  An environment is [python, torch, transformers, build, bnb]:   *)
(* the interpreters of RuntimeLocator; build is "cpu", "cuda" or "hip"; bnb *)
(* "works", "missing" or "breaks".                                         *)

\* bitsandbytes_available, told by an import: an import that raises tells nothing.
BitsAndBytes(found) ==
    CASE found = "works" -> "yes" [] found = "missing" -> "no" [] found = "breaks" -> None

\* _PROBE_SCRIPT: the lines it prints.  The first import that fails ends it; otherwise
\* the runtime is told before bitsandbytes is looked for, and told again after.
ScriptLines(env) ==
    LET line(status, bnb) == [status |-> status, bnb |-> bnb]
        imports == IF env.torch = "works" THEN env.transformers ELSE env.torch
    IN  CASE imports = "missing" -> <<line("missing", None)>>
          [] imports = "breaks"  -> <<line("import_failed", None)>>
          [] imports = "works"   -> <<line("available", None),
                                      line("available", BitsAndBytes(env.bnb))>>

\* _cuda_capability
CudaState(logical) == IF logical = "cuda" THEN "confirmed" ELSE "not_observed"

\* _hip_capability: a ROCm build without a device leaves the matter open.
HipState(logical, build) ==
    CASE logical = "hip"                    -> "confirmed"
      [] logical # "hip" /\ build = "hip"   -> "unknown"
      [] logical # "hip" /\ build # "hip"   -> "not_observed"

\* _build_backend_capabilities: the devices of torch.cuda are those of the one GPU
\* backend torch was built for.
BackendStates(build, seesDevice) ==
    LET logical == IF seesDevice /\ build # "cpu" THEN build ELSE None
    IN  [cpu |-> "confirmed", cuda |-> CudaState(logical), vulkan |-> "not_observed",
         hip |-> HipState(logical, build)]

NothingKnown(status) ==
    [status |-> status, bnb |-> None,
     backends |-> [b \in {"cpu", "cuda", "vulkan", "hip"} |-> None]]

\* parse_pytorch_probe_json of a whole line.
Capability(line, build, seesDevice) ==
    IF line.status # "available" THEN NothingKnown(line.status)
    ELSE [status |-> "available", bnb |-> line.bnb,
          backends |-> BackendStates(build, seesDevice)]

\* How a probe ends: by itself, killed by its limit before, between or after its lines,
\* after something else printed to its output, or with an error.
ProbeEnds == {"whole", "cut_before", "cut_between", "cut_after", "stray", "fails"}

\* _resolve_python of the probe.
PythonStarts(env) == Locator!ResolvePytorch(env.python) = "found"

\* inspect_pytorch_runtime: of a probe cut by its limit the last whole line is
\* kept if it says that the runtime is there; then bitsandbytes may be unknown.
TorchProbe(env, end, seesDevice) ==
    LET lines == ScriptLines(env)
        told  == Capability(IF end = "cut_between" THEN Head(lines) ELSE lines[Len(lines)],
                            env.build, seesDevice)
        starts == PythonStarts(env)
    IN  CASE ~starts -> NothingKnown("missing")
          [] starts /\ end \in {"fails", "cut_before"} -> NothingKnown("probe_failed")
          [] starts /\ end = "stray" -> NothingKnown("unknown")
          [] starts /\ end = "whole" -> told
          [] starts /\ end \in {"cut_between", "cut_after"} ->
                IF told.status = "available" THEN told ELSE NothingKnown("probe_failed")

\* _with_quantization_readiness: bitsandbytes is trusted on CUDA only.
WithQuantization(readiness, selection, capability) ==
    LET says(status) == Verdict(selection, status, "quantization", <<>>)
    IN  CASE selection.backend = "cpu"             -> says("not_ready")
          [] selection.backend \in {"hip", "vulkan"} -> says("unknown")
          [] selection.backend = "cuda" ->
                CASE capability.bnb = "no"  -> says("not_ready")
                  [] capability.bnb = None  -> says("unknown")
                  [] capability.bnb = "yes" -> readiness

\* evaluate_pytorch_execution_readiness
TorchReadiness(selection, capability, quantized) ==
    LET says(status, reason) == Verdict(selection, status, reason, <<>>)
        state == capability.backends[selection.backend]
        ready == says("ready", "exposed")
    IN  CASE capability.status = "missing" -> says("not_ready", "runtime")
          [] capability.status = "import_failed" -> says("not_ready", "import")
          [] capability.status = "probe_failed" -> says("unknown", "probe_failed")
          [] capability.status = "unknown" -> says("unknown", "unknown")
          [] capability.status = "available" ->
                CASE state = "confirmed" ->
                        IF quantized THEN WithQuantization(ready, selection, capability)
                        ELSE ready
                  [] state = "not_observed" -> says("not_ready", "not_exposed")
                  [] state = "unknown"      -> says("unknown", "unknown")
=============================================================================
