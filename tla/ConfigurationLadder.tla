------------------------ MODULE ConfigurationLadder ------------------------
(***************************************************************************)
(* The choice of a configuration: select_configuration walks the ladder of *)
(* quantizations or precisions of a priority, estimates the memory of each *)
(* rung (estimate_memory), has it placed (HardwareFit), turns the placement *)
(* into a status, and keeps the first rung that will do.  The command line *)
(* estimates one configuration of the user's instead of a ladder.          *)
(*                                                                         *)
(* A case is [kind, priority, sizes, params, files, dtype, packed, hint,   *)
(* config, context, users, asked, target, kvDtype, margin, cpuOnly,        *)
(* quantOk, slack]: the repository, the wishes and the machine's backends. *)
(***************************************************************************)
EXTENDS HardwareFit, Sequences, SequencesExt, FiniteSetsExt

CONSTANTS
    Cases,              \* what the program is asked
    OverheadBase, OverheadMin,      \* estimator.policies, in small units
    GgufOverheadBase,
    DefaultReserve, GgufHeadroom,
    BlockShare          \* block parameters of a config, in hundredths

ASSUME PolicyAssumption ==
    /\ OverheadBase \in Nat /\ OverheadMin \in Nat /\ GgufOverheadBase \in Nat
    /\ DefaultReserve \in Nat /\ GgufHeadroom \in Nat /\ BlockShare \in 0..100

VARIABLES
    case,
    at,             \* "start", "rung", "fit", "judge", "chosen", "end", "direct"
    rungs,          \* rungs not tried yet
    estimate,       \* the MemoryEstimate of the rung being tried
    options,        \* fallback_options: the estimates so far, in order
    tight,          \* tight_fallback
    choice,         \* the ConfigurationChoice: its estimate, or None
    message,        \* what its reason and warnings claim
    profile         \* the ArtifactProfile

ladderVars == <<case, at, rungs, estimate, options, tight, choice, message,
                profile>>
vars == <<fitVars, ladderVars>>

-----------------------------------------------------------------------------
(* The ladders.                                                             *)

Names == <<"IQ2_M", "Q2_K", "Q3_K_M", "Q3_K_S", "Q4_K_M", "Q4_K_S",
           "Q5_K_M", "Q6_K", "Q8_0">>       \* in alphabetical order

QuantizationLadder(priority) ==
    CASE priority = "quality"  -> <<"Q6_K", "Q5_K_M", "Q4_K_M", "Q4_K_S", "Q3_K_M">>
      [] priority = "balanced" -> <<"Q5_K_M", "Q4_K_M", "Q4_K_S", "Q3_K_M">>
      [] priority = "speed"    -> <<"Q4_K_M", "Q4_K_S", "Q3_K_M", "Q3_K_S">>
      [] priority = "memory"   -> <<"Q4_K_S", "Q3_K_M", "Q3_K_S", "Q2_K">>

Aggressive == {"IQ2_M", "Q2_K", "Q3_K_S"}

Theoretical == {"int8", "int4"}

Acceptable == {"comfortable", "compatible", "tight"}

\* The rungs the repository publishes, then the others, aggressive ones last.
GgufRungs(c) ==
    LET available == DOMAIN c.sizes
        ladder    == QuantizationLadder(c.priority)
        extra(q)  == q \in available \ ToSet(ladder)
        In(q)     == q \in available
        Mild(q)   == extra(q) /\ q \notin Aggressive
        Harsh(q)  == extra(q) /\ q \in Aggressive
    IN  SelectSeq(ladder, In) \o SelectSeq(Names, Mild)
            \o SelectSeq(Names, Harsh)

\* transformers_precision_options: the native precision first, once.
PrecisionRungs(c) ==
    LET rest(p)  == p # c.dtype
        ladder   == IF c.dtype = None THEN <<"float16", "int8", "int4">>
                    ELSE <<c.dtype>> \o SelectSeq(<<"float16", "int8", "int4">>, rest)
    IN  IF c.packed THEN <<ladder[1]>> ELSE ladder

-----------------------------------------------------------------------------
(* The components of an estimate.  Sizes of precisions are in half bytes.   *)

HalfBytes(p) ==
    CASE p = "float32" -> 8 [] p \in {"float16", "bfloat16"} -> 4
      [] p = "int8" -> 2 [] p = "int4" -> 1

Stored(c) == IF c.dtype = None THEN "float16" ELSE c.dtype

\* _estimate_weights: the variant's file, the safetensors or all the files.
Weights(c, rung) ==
    IF c.kind = "gguf" THEN c.sizes[rung]
    ELSE IF c.kind = "transformers" /\ ~c.packed /\ c.params # None
    THEN CeilDiv(c.params * HalfBytes(rung), 2)
    ELSE IF c.files = 0 THEN None
    ELSE IF c.kind = "transformers" /\ c.packed THEN c.files
    ELSE IF rung = Stored(c) THEN c.files
    ELSE CeilDiv(c.files * HalfBytes(rung), HalfBytes(Stored(c)))

WeightConfidence(c, rung) ==
    IF Weights(c, rung) = None THEN 0
    ELSE IF c.kind = "gguf" THEN 3
    ELSE IF c.kind = "transformers" /\ ~c.packed /\ c.params # None THEN 3
    ELSE 2

\* _apply_sliding_window
EffectiveContext(g, context) ==
    IF /\ g.window > 0 /\ context > g.window
       /\ \/ g.useWindow = "true"
          \/ g.useWindow = "absent" /\ g.alwaysWindowed
    THEN g.window
    ELSE context

\* Whether the window had to be assumed: the configuration does not say.
WindowAssumed(g, context) ==
    g.window > 0 /\ context > g.window /\ g.useWindow = "absent"

\* bytes_per_parameter of the cache's type, cut to a whole number.
DtypeBytes(dtype) == HalfBytes(dtype) \div 2

HasKvFields(g) == g # None /\ ~g.exotic /\ g.layers # None /\ g.heads # None

\* estimate_kv_cache
KvCache(c) ==
    LET g == c.config
    IN  IF ~HasKvFields(g) THEN None
        ELSE 2 * g.layers * (IF g.kvHeads = 0 THEN g.heads ELSE g.kvHeads)
               * g.headDim * EffectiveContext(g, c.context) * c.users
               * DtypeBytes(c.kvDtype)

KvConfidence(c) ==
    IF ~HasKvFields(c.config) THEN 0
    ELSE IF WindowAssumed(c.config, c.context) \/ c.config.moe THEN 2
    ELSE 3

\* estimate_overhead
Overhead(c, weights) ==
    LET base == IF c.kind = "gguf" THEN GgufOverheadBase ELSE OverheadBase
        part == IF c.kind = "gguf" \/ weights = None THEN 0 ELSE weights \div 10
    IN  IF base + part < OverheadMin THEN OverheadMin ELSE base + part

Reserve(c) ==
    IF c.kind = "gguf" /\ DefaultReserve < GgufHeadroom THEN GgufHeadroom
                                                       ELSE DefaultReserve

MarginPercent(c) == IF c.kind = "gguf" /\ c.margin = 10 THEN 0 ELSE c.margin

OrZero(x) == IF x = None THEN 0 ELSE x

Subtotal(c, rung) ==
    OrZero(Weights(c, rung)) + OrZero(KvCache(c))
        + Overhead(c, Weights(c, rung)) + Reserve(c)

SafetyMargin(c, rung) ==
    IF MarginPercent(c) = 0 THEN 0
    ELSE CeilShare(Subtotal(c, rung), MarginPercent(c), 100, c.slack)

\* add_transformer_block_decomposition
Decomposition(c, weights) ==
    IF weights = None \/ c.config = None \/ c.config.layers \in {None, 0}
    THEN None
    ELSE LET block == IF c.config.splitKnown
                      THEN (weights * BlockShare) \div 100 ELSE weights
         IN  [blocks |-> c.config.layers, total |-> weights, block |-> block,
              nonBlock |-> weights - block, uniform |-> ~c.config.splitKnown]

RequestOf(c, rung) ==
    [weights |-> Weights(c, rung), kv |-> KvCache(c),
     overhead |-> Overhead(c, Weights(c, rung)), reserve |-> Reserve(c),
     margin |-> SafetyMargin(c, rung), blocks |-> c.config.layers,
     decomp |-> Decomposition(c, Weights(c, rung)), slack |-> c.slack]

-----------------------------------------------------------------------------
(* Compatibility.                                                           *)

StatusOf(need, capacity) ==
    IF capacity = 0 THEN "tight"
    ELSE IF 100 * need <= 75 * capacity THEN "comfortable"
    ELSE IF 10 * need <= 9 * capacity THEN "compatible"
    ELSE IF need <= capacity THEN "tight"
    ELSE "insufficient"

\* assess for a device the user named: one memory, the reserve included.
AssessDevice(total, m, target) ==
    LET capacity == IF target = "cpu" THEN m.ram ELSE m.vram
    IN  IF capacity = None THEN [status |-> "insufficient", sure |-> 3]
        ELSE IF capacity = 0 THEN [status |-> "unknown", sure |-> 0]
        ELSE [status |-> StatusOf(total, capacity), sure |-> 3]

\* _assessment_from_fit
AssessFit(f, m) ==
    CASE f.mode = "gpu_resident" ->
            [status |-> StatusOf(f.gpu, m.vram), sure |-> 3]
      [] f.mode = "gpu_offload" ->
            [status |-> "offloading_required",
             sure |-> IF f.method = "transformer_blocks" THEN 2 ELSE 1]
      [] f.mode = "cpu_ram" -> [status |-> StatusOf(f.ram, m.ram), sure |-> 3]
      [] f.mode = "too_large" -> [status |-> "insufficient", sure |-> 3]

\* _combined_confidence; the overhead is always an assumption of low worth.
Confidence(c, rung, sure) ==
    Min({WeightConfidence(c, rung), KvConfidence(c), 1, sure})

\* lower_theoretical_confidence
Lowered(confidence) ==
    IF confidence = 0 THEN 0 ELSE IF confidence = 1 THEN 1 ELSE confidence - 1

-----------------------------------------------------------------------------
(* The walk.                                                                *)

\* The user's device, or the processor where nothing else is observed.
TargetOf(c) ==
    IF c.asked # None THEN c.target
    ELSE IF IF c.kind = "gguf" THEN c.cpuOnly ELSE ~c.quantOk
    THEN "cpu" ELSE "auto"

Start ==
    /\ at = "start"
    /\ rungs' = IF case.asked # None THEN <<case.asked>>
                ELSE IF case.kind = "gguf" THEN GgufRungs(case)
                ELSE PrecisionRungs(case)
    /\ IF case.kind = "gguf" /\ DOMAIN case.sizes = {}
       THEN at' = "chosen" /\ message' = {"no_variant"}
       ELSE at' = "rung" /\ message' = message
    /\ UNCHANGED <<fitVars, case, estimate, options, tight, choice, profile>>

Estimated(rung, a) ==
    [rung |-> rung, status |-> a.status,
     confidence |-> Confidence(case, rung, a.sure)]

\* A precision the machine's backends cannot load is passed over.
SkipRung ==
    /\ at = "rung" /\ rungs # <<>>
    /\ case.asked = None /\ case.kind # "gguf"
    /\ Head(rungs) \in Theoretical /\ ~case.quantOk
    /\ rungs' = Tail(rungs)
    /\ UNCHANGED <<fitVars, case, at, estimate, options, tight, choice,
                   message, profile>>

\* estimate_memory up to the placement.
EstimateRung ==
    LET rung  == Head(rungs)
        known == Weights(case, rung) # None /\ KvCache(case) # None
    IN  /\ at = "rung" /\ rungs # <<>>
        /\ case.asked # None \/ case.kind = "gguf"
              \/ rung \notin Theoretical \/ case.quantOk
        /\ rungs' = Tail(rungs)
        /\ \/ /\ ~known
              /\ estimate' = Estimated(rung, [status |-> "unknown", sure |-> 0])
              /\ at' = "judge"
              /\ UNCHANGED fitVars
           \/ /\ known /\ TargetOf(case) # "auto"
              /\ estimate' = Estimated(rung,
                     AssessDevice(Subtotal(case, rung)
                                      + SafetyMargin(case, rung),
                                  machine, TargetOf(case)))
              /\ at' = "judge"
              /\ UNCHANGED fitVars
           \/ /\ known /\ TargetOf(case) = "auto"
              /\ estimate' = [rung |-> rung, status |-> None, confidence |-> 0]
              /\ request' = RequestOf(case, rung)
              /\ step' = "ask" /\ n' = 0 /\ low' = 0 /\ high' = 0
              /\ best' = None /\ fit' = None
              /\ machine' = machine
              /\ at' = "fit"
        /\ UNCHANGED <<case, options, tight, choice, message, profile>>

PlaceRung ==
    /\ at \in {"fit", "direct"}
    /\ FitStep
    /\ UNCHANGED ladderVars

Assess ==
    /\ at = "fit" /\ step = "done"
    /\ estimate' = Estimated(estimate.rung, AssessFit(fit, machine))
    /\ at' = "judge"
    /\ UNCHANGED <<fitVars, case, rungs, options, tight, choice, message,
                   profile>>

\* The choice, and what is said of a rung that loses much.
Choose(e, said) ==
    /\ choice' = e
    /\ message' = said \cup (IF case.kind = "gguf" /\ e.rung \in Aggressive
                             THEN {"nothing_larger_fits"} ELSE {})
    /\ at' = "chosen"

\* Mutant of PassesOver: a tight rung is passed over for any priority.
PassesOverTight(e) == e.status = "tight"

\* Balanced keeps a tight rung in reserve while it looks for headroom.
PassesOver(e) ==
    /\ case.kind = "gguf" /\ e.status = "tight"
    /\ \/ case.priority = "balanced" /\ e.rung \notin Aggressive
       \/ tight # None

\* Packed weights on a machine without a backend that unpacks them.
Unloadable(c) == c.kind # "gguf" /\ c.packed /\ ~c.quantOk

Judge ==
    LET e == estimate
    IN  /\ at = "judge"
        /\ options' = Append(options, e)
        /\ \/ /\ case.asked # None
              /\ choice' = e /\ message' = {} /\ at' = "chosen"
              /\ tight' = tight
           \/ /\ case.asked = None /\ Unloadable(case)
              /\ choice' = e /\ message' = {"quantized_cpu"} /\ at' = "chosen"
              /\ tight' = tight
           \/ /\ case.asked = None /\ ~Unloadable(case)
              /\ e.status \in Acceptable /\ ~PassesOver(e)
              /\ IF case.kind # "gguf" /\ e.rung \in Theoretical
                 THEN Choose([e EXCEPT !.confidence = Lowered(@)],
                             {"theoretical"})
                 ELSE Choose(e, {})
              /\ tight' = tight
           \/ /\ case.asked = None /\ ~Unloadable(case)
              /\ e.status \notin Acceptable \/ PassesOver(e)
              /\ tight' = IF PassesOver(e) /\ tight = None THEN e ELSE tight
              /\ at' = "rung"
              /\ UNCHANGED <<choice, message>>
        /\ UNCHANGED <<fitVars, case, rungs, estimate, profile>>

\* Mutant of Fallback: the first option, whatever its status.
FallbackFirst(opts) == opts[1]

\* _fallback_option: an offload before an unknown before what does not fit.
Fallback(opts) ==
    LET with(s) == {i \in DOMAIN opts : opts[i].status = s}
        first   == SelectInSeq(<<"offloading_required", "unknown",
                                 "insufficient">>, LAMBDA s : with(s) # {})
    IN  IF first = 0 THEN opts[1]
        ELSE opts[Min(with(<<"offloading_required", "unknown",
                             "insufficient">>[first]))]

\* _exhausted_ladder_message
Exhausted(opts) ==
    IF opts = <<>> THEN {"none_evaluated"}
    ELSE CASE Fallback(opts).status = "offloading_required" -> {"offload"}
           [] Fallback(opts).status = "unknown" -> {"unconfirmed"}
           [] OTHER -> IF \A i \in DOMAIN opts : opts[i].status = "insufficient"
                       THEN {"nothing_fits"} ELSE {"reported_does_not_fit"}

Exhaust ==
    /\ at = "rung" /\ rungs = <<>>
    /\ IF tight # None
       THEN Choose(tight, {"tight"})
       ELSE /\ choice' = IF options = <<>> THEN None ELSE Fallback(options)
            /\ message' = Exhausted(options)
            /\ at' = "chosen"
    /\ UNCHANGED <<fitVars, case, rungs, estimate, options, tight, profile>>

\* analyze_artifact: what is known of the artifact behind the choice.
ProfileOf(c, e) ==
    IF e # None /\ c.kind = "gguf" THEN [format |-> "gguf", known |-> "confirmed"]
    ELSE IF c.packed THEN [format |-> "packed", known |-> "confirmed"]
    ELSE IF c.hint THEN [format |-> "packed", known |-> "inferred"]
    ELSE IF e # None /\ e.rung \in Theoretical
    THEN [format |-> "unknown", known |-> "theoretical"]
    ELSE IF (e # None /\ c.kind # "gguf") \/ c.kind = "transformers"
    THEN [format |-> "native", known |-> "confirmed"]
    ELSE [format |-> "unknown", known |-> "unknown"]

Profile ==
    /\ at = "chosen"
    /\ profile' = ProfileOf(case, choice)
    /\ at' = "end"
    /\ UNCHANGED <<fitVars, case, rungs, estimate, options, tight, choice,
                   message>>

\* A ladder to walk, or a request placed by itself (analyze_estimate).
LadderInit ==
    /\ machine \in Machines
    /\ AskInit
    /\ \/ at = "start" /\ case \in Cases /\ request = None
       \/ at = "direct" /\ case = None /\ request \in Requests
    /\ rungs = <<>> /\ estimate = None /\ options = <<>>
    /\ tight = None /\ choice = None /\ message = {} /\ profile = None

Next ==
    \/ Start \/ SkipRung \/ EstimateRung \/ PlaceRung \/ Assess \/ Judge
    \/ Exhaust \/ Profile

LadderSpec == LadderInit /\ [][Next]_vars

-----------------------------------------------------------------------------
(* Properties.                                                              *)

Walked == at \in {"chosen", "end"} /\ case.asked = None /\ ~Unloadable(case)

\* The choice is the one the whole ladder justifies, though it is made rung
\* by rung: a chosen rung fits and all before it did not, or were tight and
\* kept in reserve by a balanced walk that found nothing with headroom later;
\* what is reported for want of a fit is the best of all rungs, an offload
\* before an unknown, and is called hopeless only when every rung is.
ChoiceFollowsLadder ==
    Walked =>
        LET fits(i) == options[i].status \in Acceptable
            none    == \A i \in DOMAIN options : ~fits(i)
            held(i) == options[i].status = "tight" /\ case.kind = "gguf"
                           /\ case.priority = "balanced"
        IN  /\ choice # None => choice.rung \in {o.rung : o \in ToSet(options)}
            /\ (choice # None /\ choice.status \in Acceptable) =>
                  \E i \in DOMAIN options :
                      /\ options[i].rung = choice.rung
                      /\ \A j \in 1..(i - 1) : fits(j) => held(j)
                      /\ (\E j \in 1..(i - 1) : fits(j)) =>
                             options[i].status \in {"comfortable", "compatible"}
                      /\ "tight" \in message =>
                             \A j \in DOMAIN options :
                                 options[j].status \notin {"comfortable", "compatible"}
            /\ (choice = None \/ choice.status \notin Acceptable) =>
                  /\ none /\ rungs = <<>>
                  /\ (\E i \in DOMAIN options :
                         options[i].status = "offloading_required")
                        => choice.status = "offloading_required"
                  /\ "nothing_fits" \in message =>
                        \A i \in DOMAIN options :
                            options[i].status = "insufficient"

=============================================================================
