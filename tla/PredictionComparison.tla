------------------------ MODULE PredictionComparison ------------------------
(***************************************************************************)
(* A prediction held to a run: build_experiment_record compares the memory *)
(* that was estimated with the memory of an execution (evaluation/         *)
(* comparison.py), and an experiment read back later is estimated, placed  *)
(* and compared again from what it recorded (experiments/reevaluation.py). *)
(*                                                                         *)
(* The estimate counts transformer blocks; llama.cpp counts the units of   *)
(* --n-gpu-layers, each build in its own way.  A run is [runtime, layers,  *)
(* facts, sources, success, sameContext, input]: facts are those of Scope  *)
(* that hold of it, sources who reported its device memory, input whether  *)
(* an analysis was kept to estimate it again.                              *)
(***************************************************************************)
EXTENDS ConfigurationLadder

CONSTANT Runs

\* What the one mapping from units to blocks was read from.
Scope == {"qwen2", "verified_build", "cuda_selected", "one_device", "discrete"}

ASSUME RunAssumption ==
    \A r \in Runs : /\ r.facts \subseteq Scope /\ r.sources \subseteq {"driver", "report"}
                     /\ r.input \in {"analysis", "none"}

VARIABLES
    record,     \* the ExperimentRecord, or None
    replay,     \* what is estimated again: the case as it was recorded, or None
    again       \* the ExperimentReevaluationResult, or None

comparisonVars == <<vars, record, replay, again>>

-----------------------------------------------------------------------------
(* The MemoryEstimate of a case, once it is placed.                         *)

Sized(c, rung) == Weights(c, rung) # None /\ KvCache(c) # None

\* Whether assess_components_with_fit places it: nothing is missing, no device is named.
Placeable(c, rung) == Sized(c, rung) /\ TargetOf(c) = "auto"

PlacesOnGpu(f) == f.mode \in {"gpu_resident", "gpu_offload"}

\* f is its placement, or None; blocks are those of the KV cache, bounded is whether the
\* prediction is an interval (non_block_placement_bounds).
PredictionOf(c, rung, f) ==
    [weights |-> Weights(c, rung), kv |-> KvCache(c),
     overhead |-> Overhead(c, Weights(c, rung)), reserve |-> Reserve(c),
     blocks |-> IF HasKvFields(c.config) THEN c.config.layers ELSE 0,
     fit |-> f,
     bounded |-> /\ f # None /\ f.mode = "gpu_offload"
                 /\ Decomposed(RequestOf(c, rung)) /\ RequestOf(c, rung).decomp.nonBlock > 0,
     status |-> IF ~Sized(c, rung) THEN "unknown"
                ELSE IF f # None THEN AssessFit(f, machine).status
                ELSE AssessDevice(Subtotal(c, rung) + SafetyMargin(c, rung),
                                  machine, TargetOf(c)).status,
     device |-> IF f = None THEN TargetOf(c) ELSE IF PlacesOnGpu(f) THEN "gpu" ELSE "cpu"]

-----------------------------------------------------------------------------
(* compare_prediction                                                      *)

\* gpu_physical_bytes: the budget without what no process allocates.
Physical(p) == p.fit.gpu - p.reserve - p.fit.gpuMargin

\* Mutant of VerifiedBlocks: every unit is a block.
UnitsAsBlocks(run, evidence, p) ==
    IF evidence /\ run.facts = Scope /\ p.blocks > 0 THEN Minimum(run.layers, p.blocks) ELSE None

\* _verified_gpu_blocks: the first unit is the output layer.
VerifiedBlocks(run, evidence, p) ==
    IF evidence /\ run.facts = Scope /\ p.blocks > 0
    THEN Minimum(IF run.layers > 1 THEN run.layers - 1 ELSE 0, p.blocks) ELSE None

\* _placement_mismatch: none when the run is shown to have split as predicted.
SplitsAgree(run, evidence, p) ==
    /\ run.runtime = "llama" /\ run.layers # None
    /\ IF run.layers < 0 THEN p.fit.mode = "gpu_resident"
       ELSE /\ p.fit.blocks # 0
            /\ VerifiedBlocks(run, evidence, p) = p.fit.blocks

\* _predicted_vram: None when it is methodologically unavailable.
PredictedVram(run, evidence, p) ==
    IF p.fit # None /\ PlacesOnGpu(p.fit) /\ ~p.bounded /\ SplitsAgree(run, evidence, p)
    THEN Physical(p) ELSE None

\* _uses_gpu_memory: the layers asked for, or else the effective device.
UsesGpu(run, p) ==
    IF run.runtime = "llama" /\ run.layers # None THEN run.layers # 0 ELSE p.device = "gpu"

\* _predicted_ram: of any estimate without a missing part, placed or not.
PredictedRam(run, p) ==
    IF UsesGpu(run, p) \/ None \in {p.weights, p.kv} THEN None
    ELSE p.weights + p.kv + p.overhead

\* _predicted_runnable and _compatibility_outcome
Runnable(run, status) ==
    CASE status \in Acceptable -> "yes"
      [] status = "insufficient" -> "no"
      [] status = "offloading_required" /\ run.runtime = "llama" /\ run.layers \notin {None, 0}
            -> "yes"
      [] OTHER -> "unknown"

Outcome(run, status) ==
    CASE Runnable(run, status) = "unknown" -> "unknown"
      [] Runnable(run, status) = "yes" -> IF run.success THEN "correct" ELSE "false_positive"
      [] OTHER -> IF run.success THEN "false_negative" ELSE "correct"

\* _vram_components: told apart only where their total is, and only by the runtime.
Components(run, evidence, p) ==
    IF "report" \notin run.sources \/ PredictedVram(run, evidence, p) = None THEN None
    ELSE [weights |-> p.fit.gpuWeights, kv |-> p.fit.gpuKv, overhead |-> p.fit.gpuOverhead]

Comparison(run, evidence, p) ==
    [ram |-> PredictedRam(run, p),
     vram |-> IF run.sources = {} THEN None ELSE PredictedVram(run, evidence, p),
     source |-> IF "driver" \in run.sources THEN "driver"
                ELSE IF run.sources = {} THEN None ELSE "report",
     parts |-> Components(run, evidence, p),
     outcome |-> Outcome(run, p.status)]

-----------------------------------------------------------------------------
(* build_experiment_record                                                  *)

Depth(c) == IF c.config = None \/ c.config.layers = None THEN 0 ELSE c.config.layers

\* The blocks of depth that a run puts on the device: by the rule of the verified build, or
\* by one that is not known here.
Executed(run, depth) ==
    CASE run.runtime = "llama" /\ run.layers # None /\ run.layers < 0 -> {depth}
      [] run.runtime = "llama" /\ run.layers = 0 -> {0}
      [] run.runtime = "llama" /\ run.facts = Scope /\ run.layers # None
            -> {Minimum(run.layers - 1, depth)}
      [] OTHER -> 0..depth

\* The estimate at hand is the one that was chosen.
Predicted == at = "end" /\ choice # None /\ choice.rung = estimate.rung

\* assert_prediction_runtime_matches
Comparable(run) ==
    run.runtime = "llama" =>
        /\ run.sameContext
        /\ TargetOf(case) = "cpu" => run.layers \in {None, 0}

\* The record of what ExperimentRunner observed.
Experiment ==
    /\ Predicted /\ record = None
    /\ \E run \in Runs : \E blocks \in Executed(run, Depth(case)) :
          LET p == PredictionOf(case, estimate.rung,
                                IF Placeable(case, estimate.rung) THEN fit ELSE None)
          IN  /\ Comparable(run)
              /\ record' = [run |-> run, executed |-> blocks, predicted |-> p,
                            compared |-> Comparison(run, TRUE, p)]
    /\ UNCHANGED <<vars, replay, again>>

-----------------------------------------------------------------------------
(* ExperimentReevaluationService.reevaluate                                 *)

\* Without an analysis nothing is estimated.
NotReproducible ==
    /\ record # None /\ again = None
    /\ record.run.input = "none"
    /\ again' = [predicted |-> None, current |-> None]
    /\ UNCHANGED <<vars, record, replay>>

\* What the recorded analysis says of the model.  The estimate of a GGUF file was made
\* from its header and base model, which the analysis does not hold: left is the
\* repository's own configuration, if it has one, which may be silent about its key and
\* value heads, or about what made the base model's cache one that cannot be sized.
Own(c) ==
    IF c.kind # "gguf" \/ c.config = None THEN {c.config}
    ELSE {None} \cup {[c.config EXCEPT !.kvHeads = k, !.exotic = x] :
                         k \in {c.config.kvHeads, 0}, x \in {c.config.exotic, FALSE}}

\* estimate_memory of the record, with its hardware: no header is read, no base model is
\* resolved, and the safetensors summary was never kept.
Reestimate ==
    /\ record # None /\ replay = None
    /\ record.run.input = "analysis"
    /\ \E g \in Own(case) : replay' = [case EXCEPT !.config = g, !.params = None]
    /\ IF Placeable(replay', estimate.rung)
       THEN /\ request' = RequestOf(replay', estimate.rung)
            /\ step' = "ask" /\ n' = 0 /\ low' = 0 /\ high' = 0
            /\ best' = None /\ fit' = None
            /\ UNCHANGED machine
       ELSE UNCHANGED fitVars
    /\ UNCHANGED <<ladderVars, record, again>>

PlaceAgain ==
    /\ replay # None /\ again = None
    /\ Placeable(replay, estimate.rung)
    /\ FitStep
    /\ UNCHANGED <<ladderVars, record, replay, again>>

\* It is compared whatever came of it, and not told what the run was placed by.
Recompare ==
    LET placed == Placeable(replay, estimate.rung)
        p      == PredictionOf(replay, estimate.rung, IF placed THEN fit ELSE None)
    IN  /\ replay # None /\ again = None
        /\ placed => step = "done"
        /\ again' = [predicted |-> p, current |-> Comparison(record.run, FALSE, p)]
        /\ UNCHANGED <<vars, record, replay>>

ComparisonInit == LadderInit /\ record = None /\ replay = None /\ again = None

ComparisonNext ==
    \/ Next /\ UNCHANGED <<record, replay, again>>
    \/ Experiment
    \/ NotReproducible \/ Reestimate \/ PlaceAgain \/ Recompare

ComparisonSpec == ComparisonInit /\ [][ComparisonNext]_comparisonVars

-----------------------------------------------------------------------------
(* Properties.                                                              *)

\* A memory error is about the memory model: predicted and measured device memory are
\* compared only when the run placed the blocks that were predicted, the prediction has
\* no bytes the process does not allocate, and the host is held to a run only when
\* nothing of it was on a device.
AsExecuted(p, compared) ==
    /\ compared.vram # None =>
          /\ record.executed = p.fit.blocks
          /\ compared.vram = p.fit.gpuWeights + p.fit.gpuKv + p.fit.gpuOverhead
    /\ compared.parts # None =>
          compared.vram = compared.parts.weights + compared.parts.kv + compared.parts.overhead
    /\ compared.ram # None /\ record.run.layers # None => record.executed = 0

Reevaluated == again # None /\ again.current # None

\* That holds when the record is written, and of the estimate that is made again from it,
\* which may be another one.
ComparedAsExecuted ==
    /\ record # None => AsExecuted(record.predicted, record.compared)
    /\ Reevaluated => AsExecuted(again.predicted, again.current)

\* A record read back never claims more than what was kept of it supports: from the same
\* inputs come the same figures, or none where the placement was the only evidence; where
\* a size is lost, nothing is predicted and the outcome is unknown.
AgainClaimsNoMore ==
    Reevaluated =>
        /\ replay = case =>
              /\ again.current.vram \in {None, record.compared.vram}
              /\ again.current.parts \in {None, record.compared.parts}
              /\ again.current.ram = record.compared.ram
              /\ again.current.outcome = record.compared.outcome
        /\ ~Sized(replay, estimate.rung) =>
              /\ again.current.vram = None /\ again.current.parts = None
              /\ again.current.ram = None
              /\ again.current.outcome = "unknown"

\* Errors are of the model and stay what they were.
ComparisonIsFair == ComparedAsExecuted /\ AgainClaimsNoMore
=============================================================================
