------------------------ MODULE QualityPreparation ------------------------
(***************************************************************************)
(* What the evaluation screen's worker asks before anything is measured:   *)
(* whether the evaluator is at hand (advisor/quality.py), on which backend *)
(* it would run (runtime/quality_execution.py), and which plans of the     *)
(* search can be measured (advisor/quality_candidates.py).  No state: an   *)
(* answer is a function of the evaluator installed, of the machine and of  *)
(* what the Hub and the estimator say of each plan at that moment.         *)
(***************************************************************************)
EXTENDS Naturals, Sequences, SequencesExt, FiniteSets

CONSTANTS
    Plan,           \* plan -> [model, gguf, single, confirmed, digest]
    Shown,          \* the plans the search showed, in order
    Pool,           \* its ranked plans, rejected ones left out, in order
    Ladders,        \* for each recommended model its plans, best quantization first
    GeneralChat,    \* the request is English general chat
    MaxRuns,        \* MAX_QUALITY_CANDIDATES
    MaxInspected,   \* MAX_VARIANT_DEEP_INSPECTION
    ContextOf,      \* PROFILE_CONTEXT: suite -> context length
    Readings,       \* what the Hub and the estimator may say: plan -> reading
    Evaluators,     \* what may be installed of the evaluator
    Machines        \* what the machine may offer

ASSUME PreparationAssumption == MaxRuns \in Nat \ {0} /\ MaxInspected \in Nat \ {0}

\* "auto" is no backend asked for, "none" a refused one or an unpublished digest.
SelectableBackends == {"auto", "cpu", "cuda", "vulkan"}

-----------------------------------------------------------------------------
(* The evaluator.                                                          *)

\* PROFILE_SUITE: Balanced measures its quality with IFEval.
PilotSuite(s) == IF s = "smoke" THEN "hellaswag" ELSE "ifeval"

\* find_evaluator_image: local images only; IFEval is a capability its label declares,
\* HellaSwag needs the observable runtime.
Serves(image, suite) ==
    /\ image.exactGguf
    /\ suite = "hellaswag" => image.observable
    /\ suite = "ifeval" => image.chat

FindsImage(e, suite) == e.docker /\ \E image \in e.images : Serves(image, suite)

\* IFEval keeps the CUDA protocol.
BackendAllowed(suite, backend) == suite = "ifeval" => backend \in {"auto", "cuda"}

\* prepare_quality_setup: inputs, then the pilot's own check of runtime, image and pinned
\* dataset; a missing dataset is downloaded with permission only.
SetupPasses(e, suite, backend, permission) ==
    /\ e.checkout /\ e.server
    /\ e.dataset \/ permission
    /\ backend \in SelectableBackends /\ BackendAllowed(suite, backend)
    /\ e.verified /\ FindsImage(e, suite)

\* check_quality_readiness: a missing dataset is only a warning, so the verification waits
\* for the start of a run.
ReadinessBlocks(e, suite, backend) ==
    \/ ~FindsImage(e, suite) \/ ~BackendAllowed(suite, backend)
    \/ ~e.server \/ ~e.checkout
    \/ e.dataset /\ ~SetupPasses(e, suite, "auto", FALSE)

ReadinessAnswers(s) ==
    {ReadinessBlocks(e, PilotSuite(s), b) : e \in Evaluators, b \in SelectableBackends}

SetupAnswers(s) ==
    {SetupPasses(e, PilotSuite(s), b, permission) :
        e \in Evaluators, b \in SelectableBackends, permission \in BOOLEAN}

-----------------------------------------------------------------------------
(* Where an evaluation runs.                                               *)

\* quality_backend_selection: the backend asked for or the machine's own, the processor
\* where it has no CUDA or Vulkan; nothing falls back.
EvaluationBackend(hw, asked) ==
    LET own    == IF hw.selected \in {"cuda", "vulkan"} THEN hw.selected ELSE "cpu"
        wanted == IF asked = "auto" THEN own ELSE asked IN
    IF /\ wanted \in hw.available
       /\ wanted \in {"cpu", hw.selected} \cup hw.alternatives
    THEN wanted ELSE "none"

\* quality_memory_hardware: one card alone, or the request is ambiguous.
OneDevice(hw, backend) == backend = "cpu" \/ ~hw.twins

\* validate_quality_memory; without a backend, as IFEval asks, the whole model must be in
\* device memory too.
MemoryConfirmed(estimate, backend) ==
    /\ estimate.confirmed
    /\ IF backend = "cpu" THEN estimate.device = "cpu" /\ estimate.complete
       ELSE estimate.resident

-----------------------------------------------------------------------------
(* The plans that can be measured.                                         *)

Measurable(p) == Plan[p].gguf /\ Plan[p].single /\ Plan[p].confirmed /\ Plan[p].digest # "none"

\* _gguf_path: the plan itself, or the first of its model in the saved order.
GgufPath(p) ==
    IF Measurable(p) THEN <<p>>
    ELSE LET same == SelectSeq(Pool, LAMBDA q : Measurable(q) /\ Plan[q].model = Plan[p].model) IN
         SubSeq(same, 1, IF same = <<>> THEN 0 ELSE 1)

DigestsOf(ps) == {Plan[q].digest : q \in ToSet(ps)}

\* _prepare_candidate: the exact artifact with an immutable revision, a model that takes the
\* context, and a fit for the evaluation and for the search.
Accepts(hw, reading, p, context, backend) ==
    /\ Plan[p].single /\ reading[p].sameArtifact /\ Plan[p].digest # "none"
    /\ reading[p].limit >= context
    /\ reading[p].listedOnce
    /\ OneDevice(hw, backend)
    /\ MemoryConfirmed(IF backend = "cpu" THEN reading[p].onCpu ELSE reading[p].onDevice, backend)
    /\ reading[p].workloadFits

\* prepare_candidates: one artifact per recommended model, the first of its ladder that is
\* accepted, until MaxRuns are chosen or MaxInspected models were looked at.
ChooseFromLadders(hw, reading, asked) ==
    LET backend == EvaluationBackend(hw, asked)
        chosen[n \in 0..Len(Ladders)] ==
            IF n = 0 THEN <<>>
            ELSE LET before == chosen[n - 1]
                     fit == SelectSeq(Ladders[n],
                                LAMBDA p : /\ Plan[p].gguf /\ Plan[p].confirmed
                                           /\ Plan[p].digest \notin DigestsOf(before)
                                           /\ Accepts(hw, reading, p, ContextOf["smoke"],
                                                      backend)) IN
                 IF Len(before) = MaxRuns \/ n > MaxInspected \/ fit = <<>> THEN before
                 ELSE Append(before, Head(fit))
    IN IF backend = "none" THEN <<>> ELSE chosen[Len(Ladders)]

\* The GGUF paths of the shown plans that are acceptable, in order, no bytes twice, MaxRuns
\* at most.
PathsOfShown(acceptable) ==
    LET chosen[n \in 0..Len(Shown)] ==
            IF n = 0 THEN <<>>
            ELSE LET before == chosen[n - 1]
                     path == GgufPath(Shown[n])
                     fresh == /\ Len(before) < MaxRuns
                              /\ ToSet(path) \subseteq acceptable
                              /\ DigestsOf(path) \cap DigestsOf(before) = {} IN
                 IF fresh THEN before \o path ELSE before
    IN chosen[Len(Shown)]

\* _prepare_shown_plans: IFEval measures what the search showed, on one CUDA card.
ChooseShown(hw, reading) ==
    IF GeneralChat /\ hw.selected = "cuda" /\ hw.cards = 1
    THEN PathsOfShown({p \in DOMAIN Plan : Accepts(hw, reading, p, ContextOf["ifeval"], "auto")})
    ELSE <<>>

\* prepare_speed_candidates: from metadata alone.
ChooseForSpeed == PathsOfShown(DOMAIN Plan)

\* prepare_quality_candidates and prepare_speed_candidates of the service: Balanced takes
\* the candidates of its quality profile.
SelectionAnswers(s) ==
    CASE s = "smoke" ->
            {ChooseFromLadders(hw, reading, asked) :
                hw \in Machines, reading \in Readings, asked \in SelectableBackends}
      [] s \in {"ifeval", "balanced"} ->
            {ChooseShown(hw, reading) : hw \in Machines, reading \in Readings}
      [] s = "speed" -> {ChooseForSpeed}
=============================================================================
