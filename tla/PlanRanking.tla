---------------------------- MODULE PlanRanking ----------------------------
(***************************************************************************)
(* From inspected candidates to the recommendations shown: assessment of   *)
(* every execution plan and the base order (recommendation/engine_v2.py),  *)
(* weak plans last (selection.py), the measured order (shadow.py, in the   *)
(* case of one cohort; MeasuredPolicy has the whole policy), variety       *)
(* (diversity.py), and the heading and label of each card (tier.py,        *)
(* actionability.py), as application/recommendation/service.py runs them.  *)
(*                                                                         *)
(* Scores are percentages.  A candidate carries what its card says; each   *)
(* of its variants carries what the estimator and the stores say of it.    *)
(***************************************************************************)
EXTENDS Integers, Sequences, FiniteSets, SequencesExt

CONSTANTS
    Candidates,   \* the candidates a search may have inspected
    MaxPool,      \* bound on the candidates of one search
    Priorities, UseCases,
    Limit,        \* MAX_RECOMMENDATIONS
    MaxVariants,  \* MAX_GGUF_PLAN_VARIANTS
    SizeCurve,    \* _size_curve: billions of parameters -> percent; 0 is unknown
    Ladder,       \* QUANTIZATION_LADDERS: priority -> sequence of quantizations
    QualityOrder, \* the quantizations, best first
    Aggressive,   \* AGGRESSIVE_QUANTIZATIONS
    None

ASSUME RankingAssumption ==
    /\ MaxPool \in Nat /\ Limit \in Nat /\ MaxVariants \in Nat \ {0}
    /\ Priorities \subseteq {"quality", "speed", "memory", "balanced"}
    /\ \A a, b \in DOMAIN SizeCurve : 0 < a /\ a < b => SizeCurve[a] =< SizeCurve[b]

VARIABLES
    req,        \* [priority, use, commercial, language]
    pool,       \* the evaluated candidates, a sequence
    stage,      \* what recommend does next
    ranked,     \* the base order
    order,      \* the order so far
    remaining,  \* buckets not chosen yet: [primary, others, index]
    shown       \* the recommendations: [primary, others, position, tier]

vars == <<req, pool, stage, ranked, order, remaining, shown>>

CapabilityFirst == {"balanced", "quality"}

LevelRank == [strong |-> 0, adequate |-> 1, weak |-> 2, unknown |-> 3, blocked |-> 4]

ConfidenceRank == [high |-> 0, medium |-> 1, low |-> 2, unknown |-> 3]

Least(a, b) == IF a < b THEN a ELSE b

Place(s, x) == IF \E i \in DOMAIN s : s[i] = x THEN (CHOOSE i \in DOMAIN s : s[i] = x) - 1
               ELSE Len(s)

\* The elements of a finite set in a strict total order.
InOrder(S, Less(_, _)) ==
    [i \in 1..Cardinality(S) |-> CHOOSE x \in S : Cardinality({y \in S : Less(y, x)}) = i - 1]

LexLess(a, b) == \E i \in DOMAIN a : a[i] < b[i] /\ \A j \in 1..(i - 1) : a[j] = b[j]

-----------------------------------------------------------------------------
(* What the card of a candidate says.                                      *)

TaskMatch(c) ==
    LET named == IF c.hits = 0 THEN 25 ELSE Least(100, 45 + 18 * c.hits + 15 * c.strong)
        piped == IF c.textgen THEN Least(100, named + 10) ELSE named
    IN  IF c.negative THEN piped \div 2 ELSE piped

\* MetadataCapabilityAnalyzer: three quarters size, one quarter what is published.
CapabilityScore(c) == (3 * SizeCurve[c.size] + c.artifact) \div 4

CapabilityLevel(c) == LET s == CapabilityScore(c) IN
    IF s >= 72 THEN "strong" ELSE IF s >= 55 THEN "adequate"
    ELSE IF s > 0 THEN "weak" ELSE "unknown"

InfersGeneralist(c) ==
    /\ TaskMatch(c) < 45 /\ CapabilityScore(c) >= 55
    /\ c.signals \cap {"chat", "instruct"} # {}
    /\ c.signals \cap {"base", "other"} = {}

\* The task score as a conversational use reads it.
Conversational(c) ==
    LET t == TaskMatch(c)  up == IF t < 65 THEN 65 ELSE t IN
    IF req.use # "chat" THEN t
    ELSE IF "chat" \in c.signals THEN up
    ELSE IF "instruct" \in c.signals THEN Least(up, 70)
    ELSE IF "base" \in c.signals THEN Least(t, 40) ELSE t

TaskSuitability(c) == LET t == Conversational(c) IN
    IF t >= 75 THEN "strong"
    ELSE IF t >= 45 \/ InfersGeneralist(c) THEN "adequate"
    ELSE IF t = 0 /\ c.metadata = "low" THEN "unknown" ELSE "weak"

LanguageMismatch(c) == req.language /\ c.language = "other"

OneLevelLower == [strong |-> "adequate", adequate |-> "weak", weak |-> "weak",
                  unknown |-> "unknown"]

Suitability(c) == IF LanguageMismatch(c) THEN OneLevelLower[TaskSuitability(c)]
                  ELSE TaskSuitability(c)

LanguageFit(c) ==
    IF ~req.language THEN "unknown"
    ELSE CASE c.language = "other"        -> "weak"
           [] c.language = "declared"     -> "strong"
           [] c.language = "multilingual" -> "adequate"
           [] c.language = "undeclared"   -> "unknown"

LicenseFit(c) == CASE c.license = "allowed" -> "strong"
                   [] c.license = "restricted" -> IF req.commercial THEN "blocked" ELSE "weak"
                   [] c.license = "unclear" -> "unknown"

\* requirements_gate: whether some hard requirement is missed.
Penalised(c) == \/ req.commercial /\ c.license # "allowed"
                \/ req.language /\ c.language = "other"

-----------------------------------------------------------------------------
(* What a plan [c, v] is worth.                                            *)

Confirmed(p) == p.v.status \in {"comfortable", "compatible", "tight", "offloading"}

Executability(p) == CASE p.v.support = "no" -> "blocked" [] p.v.support = "yes" -> "strong"
                      [] p.v.support = "unknown" -> "unknown"

Feasibility(p) == CASE p.v.status = "comfortable" -> "strong"
                    [] p.v.status \in {"compatible", "tight"} -> "adequate"
                    [] p.v.status = "offloading" -> "weak"
                    [] p.v.status = "insufficient" -> "blocked"
                    [] p.v.status \in {"unknown", "none"} -> "unknown"

ExecutionFitness(p) ==
    IF "blocked" \in {Executability(p), Feasibility(p)} THEN "blocked"
    ELSE IF Executability(p) = "unknown" THEN "unknown" ELSE Feasibility(p)

\* _hard_constraints
HardConstraints(p) ==
    LET short == p.v.status = "insufficient" IN
    UNION {IF p.v.runtime = "unknown"
           THEN IF short THEN {} ELSE {"runtime_undetermined"}
           ELSE IF p.v.runtime # (IF p.c.gguf THEN "llama_cpp" ELSE "transformers")
                   \/ p.v.support = "no"
           THEN {"artifact_runtime_incompatible"} ELSE {},
           IF short THEN {"memory_insufficient"} ELSE {},
           IF req.commercial /\ p.c.license = "restricted" THEN {"license_incompatible"} ELSE {}}

Rejected(p) == HardConstraints(p) # {}

\* _confidence: the weaker of the card's and the estimate's.
Confidence(p) ==
    IF p.v.status = "none" \/ ConfidenceRank[p.c.metadata] >= ConfidenceRank[p.v.confidence]
    THEN p.c.metadata ELSE p.v.confidence

RunnabilityRank(p) == LET f == ExecutionFitness(p) IN
    CASE f \in {"strong", "adequate"} -> 0 [] f = "weak" -> 1
      [] f = "unknown" -> 2 [] f = "blocked" -> 3

\* measured or estimated: a measurement of nothing falls back to the estimate.
MemoryRank(p) == IF p.v.measured # 0 THEN p.v.measured
                 ELSE IF p.v.bytes # None THEN p.v.bytes ELSE 10^9

ComfortRank(p) == LET f == Feasibility(p) IN
    IF p.v.status = "tight" THEN 1
    ELSE CASE f \in {"strong", "adequate"} -> 0 [] f = "weak" -> 2
           [] f = "unknown" -> 3 [] f = "blocked" -> 4

AggressiveRank(p) == IF p.c.gguf /\ p.v.quant \in Aggressive THEN 1 ELSE 0

QuantizationQuality(p) == IF p.c.gguf THEN Place(QualityOrder, p.v.quant) ELSE 0

LadderRank(p) == IF p.c.gguf THEN Place(Ladder[req.priority], p.v.quant) ELSE 0

SizeRank(p) == IF req.priority \in CapabilityFirst THEN -p.c.size ELSE 0

LicenseRank(p) == CASE LicenseFit(p.c) = "strong" -> 0 [] LicenseFit(p.c) = "unknown" -> 1
                    [] LicenseFit(p.c) \in {"weak", "blocked"} -> 2

\* Coding words say what a model is for, not that it is better at it.
SuitabilityRank(p) ==
    IF /\ req.use = "coding" /\ req.priority \in CapabilityFirst
       /\ Suitability(p.c) \in {"strong", "adequate"} /\ LanguageFit(p.c) # "weak"
    THEN 0 ELSE LevelRank[Suitability(p.c)]

PriorityAxes(p) ==
    CASE req.priority = "quality" ->
            <<SuitabilityRank(p), LevelRank[CapabilityLevel(p.c)], AggressiveRank(p),
              RunnabilityRank(p), SizeRank(p), QuantizationQuality(p),
              LevelRank[ExecutionFitness(p)]>>
      [] req.priority = "speed" ->
            <<LevelRank[Suitability(p.c)], RunnabilityRank(p), LevelRank[Executability(p)],
              MemoryRank(p)>>
      [] req.priority = "memory" ->
            <<MemoryRank(p), LevelRank[ExecutionFitness(p)], LevelRank[Executability(p)]>>
      [] req.priority = "balanced" ->
            <<SuitabilityRank(p), AggressiveRank(p), RunnabilityRank(p),
              LevelRank[CapabilityLevel(p.c)], LevelRank[Executability(p)], ComfortRank(p)>>

\* ranking_tie_key: all that is compared before the names.
TieKey(p) == <<IF Rejected(p) THEN 1 ELSE 0, IF req.commercial THEN LicenseRank(p) ELSE 0>>
             \o PriorityAxes(p)
             \o <<ConfidenceRank[Confidence(p)], SizeRank(p), LadderRank(p), -p.c.downloads>>

Names(p) == <<p.c.repo, Place(QualityOrder, p.v.quant)>>

RankingKey(p) == TieKey(p) \o Names(p)

Viable(p) == ~Rejected(p) /\ Confirmed(p)

\* Mutant of RankingCriteria: the key alone, without the partition that follows it.
RankingCriteriaOfTheKey(p) ==
    <<IF Rejected(p) THEN 1 ELSE 0>> \o (IF req.commercial THEN <<LicenseRank(p)>> ELSE <<>>)
    \o PriorityAxes(p)
    \o <<ConfidenceRank[Confidence(p)], LadderRank(p), -p.c.downloads>>

\* ranking_criteria: what a report says placed the plan, in the order it says it.
RankingCriteria(p) ==
    <<IF Viable(p) THEN 0 ELSE 1, IF Rejected(p) THEN 1 ELSE 0>>
    \o (IF req.commercial THEN <<LicenseRank(p)>> ELSE <<>>)
    \o PriorityAxes(p)
    \o <<ConfidenceRank[Confidence(p)]>>
    \o (IF req.priority = "balanced" THEN <<SizeRank(p)>> ELSE <<>>)
    \o <<LadderRank(p), -p.c.downloads>>

-----------------------------------------------------------------------------
(* Plans and the base order.                                               *)

\* _ordered_gguf_variants: by the ladder, then by size.
OrderedVariants(c) ==
    LET key(v) == <<Place(Ladder[req.priority], v.quant),
                    IF v.bytes = None THEN 10^9 ELSE v.bytes, Place(QualityOrder, v.quant)>>
    IN  SortSeq(c.variants, LAMBDA v, w : LexLess(key(v), key(w)))

\* _gguf_plans: MaxVariants of them, the chosen one always among them.
GgufPlans(c) ==
    LET all == OrderedVariants(c)
        cut == SubSeq(all, 1, Least(Len(all), MaxVariants))
        chosen == SelectSeq(all, LAMBDA v : v.quant = c.chosen)
        kept == IF chosen # <<>> /\ Head(chosen) \notin ToSet(cut)
                THEN [cut EXCEPT ![Len(cut)] = Head(chosen)] ELSE cut
    IN  [i \in DOMAIN kept |-> [c |-> c, v |-> kept[i]]]

\* generate_execution_plans: a Transformers repository has a plan per precision.
Plans(c) == IF c.gguf THEN GgufPlans(c)
            ELSE [i \in DOMAIN c.variants |-> [c |-> c, v |-> c.variants[i]]]

\* Mutant of ConfirmedFirst: the order of the key is kept.
ConfirmedWhereTheyAre(s) == s

\* _prioritize_confirmed_memory_fit
ConfirmedFirst(s) == SelectSeq(s, Viable) \o SelectSeq(s, LAMBDA p : ~Viable(p))

\* rank_execution_plans
BaseOrder(cs) ==
    ConfirmedFirst(SortSeq(FlattenSeq([i \in DOMAIN cs |-> Plans(cs[i])]),
                           LAMBDA p, q : LexLess(RankingKey(p), RankingKey(q))))

-----------------------------------------------------------------------------
(* Selection: weak_plans_last.                                             *)

Capable(p) == CapabilityLevel(p.c) \in {"strong", "adequate"}

ViabilityGroup(p) == <<IF Rejected(p) THEN 1 ELSE 0, IF Confirmed(p) THEN 0 ELSE 1,
                       RunnabilityRank(p)>>

AtLeastAsViable(p, q) == ~LexLess(ViabilityGroup(q), ViabilityGroup(p))

\* The capable plan after which plan i comes: the last one ahead of it already, or the
\* last one that is at least as viable, whichever is later.
Anchor(s, i) ==
    LET capable == {j \in DOMAIN s : Capable(s[j])}
        behind == {j \in capable : j < i \/ AtLeastAsViable(s[j], s[i])}
    IN  IF behind = {} THEN 0 ELSE CHOOSE j \in behind : \A k \in behind : k =< j

WeakPlansLast(s) ==
    IF req.priority \notin CapabilityFirst THEN s
    ELSE LET key(i) == IF Capable(s[i]) THEN <<i, 0>> ELSE <<Anchor(s, i), i>>
             at == SortSeq([i \in DOMAIN s |-> i], LAMBDA i, j : LexLess(key(i), key(j)))
         IN  [i \in DOMAIN s |-> s[at[i]]]

-----------------------------------------------------------------------------
(* The measured order of one cohort.                                       *)

\* _stratum
Stratum(p) == <<Viable(p), Rejected(p), IF req.commercial THEN LicenseRank(p) ELSE 0,
                Suitability(p.c), LicenseFit(p.c), LanguageFit(p.c)>>

Measured(p) == p.v.score # None /\ ~Rejected(p) /\ req.priority # "memory"

\* i and j are measured and in one contiguous run of their stratum.
SameGroup(s, i, j) ==
    /\ Measured(s[i]) /\ Measured(s[j])
    /\ \A k \in (i..j) \cup (j..i) : Stratum(s[k]) = Stratum(s[i])

\* The members of a group share out the places they hold, best first, ties as they were.
MeasuredOrder(s) ==
    LET group(i) == {j \in DOMAIN s : SameGroup(s, i, j)}
        ahead(j, k) == \/ s[j].v.score > s[k].v.score
                       \/ s[j].v.score = s[k].v.score /\ j < k
        turn(j) == Cardinality({k \in group(j) : ahead(k, j)})
        seat(i) == Cardinality({k \in group(i) : k < i})
    IN  [i \in DOMAIN s |-> IF Measured(s[i])
                            THEN s[CHOOSE j \in group(i) : turn(j) = seat(i)] ELSE s[i]]

-----------------------------------------------------------------------------
(* Variety and the cards.                                                  *)

Models(s) == {s[i].c.model : i \in DOMAIN s}

\* _best_plan_per_identity: one bucket per model that has a plan left.
Buckets(s) ==
    LET own(m) == SelectSeq(s, LAMBDA p : p.c.model = m)
        first(m) == SelectInSeq(s, LAMBDA p : p.c.model = m /\ ~Rejected(p))
        alive == {m \in Models(s) : first(m) # 0}
        bucket(m) == [primary |-> s[first(m)], index |-> first(m),
                      others |-> SelectSeq(own(m), LAMBDA p : p # s[first(m)])]
    IN  InOrder({bucket(m) : m \in alive}, LAMBDA a, b : a.index < b.index)

ParameterTier(n) ==
    IF n = 0 THEN 0 ELSE IF n < 2 THEN 1 ELSE IF n < 5 THEN 2 ELSE IF n < 10 THEN 3 ELSE 4

\* _redundancy_key: what the cards chosen so far already show.
Redundancy(p, chosen) ==
    LET count(T(_)) == Cardinality({i \in DOMAIN chosen : T(chosen[i].primary)})
        sized(q) == ParameterTier(q.c.size) = ParameterTier(p.c.size)
        run(q) == q.v.runtime = p.v.runtime
    IN  <<IF p.c.family = None THEN 0 ELSE count(LAMBDA q : q.c.family = p.c.family),
          IF p.c.size = 0 THEN 0 ELSE count(sized), count(run),
          count(LAMBDA q : run(q) /\ q.v.quant = p.v.quant /\ sized(q))>>

\* _choose_next: among the plans tied with the leader, the least redundant.
ChosenNext(chosen, left) ==
    LET tied == {i \in DOMAIN left : TieKey(left[i].primary) = TieKey(left[1].primary)}
        key(i) == Append(Redundancy(left[i].primary, chosen), i)
    IN  CHOOSE i \in tied : \A j \in tied \ {i} : LexLess(key(i), key(j))

Footprint(p) == IF p.v.measured # 0 THEN p.v.measured ELSE p.v.bytes

\* _position_for
Position(p, best, n) ==
    IF n = 1 THEN "best_overall"
    ELSE IF p.v.tps # None THEN "faster"
    ELSE IF /\ Footprint(p) # None /\ Footprint(best) # None
            /\ Footprint(p) =< (3 * Footprint(best)) \div 4 THEN "lighter"
    ELSE IF p.c.size # 0 /\ best.c.size # 0 /\ 4 * p.c.size >= 5 * best.c.size
         THEN "higher_quality" ELSE "alternative"

\* assess_actionability
Actionability(p) ==
    IF p.v.status = "insufficient" \/ p.v.launch = "unsupported" THEN "blocked"
    ELSE IF p.v.theoretical \/ p.v.launch = "unknown" \/ ~Confirmed(p) THEN "speculative"
    ELSE IF p.v.launch = "executable" /\ p.v.status \in {"comfortable", "compatible"}
         THEN "actionable" ELSE "likely"

\* choose_tier
Heading(p) ==
    IF Penalised(p.c) \/ p.v.confidence = "unknown" \/ Actionability(p) = "speculative"
    THEN "best_effort"
    ELSE IF p.v.status \in {"offloading", "insufficient", "unknown", "none"}
    THEN "closest_option"
    ELSE IF p.v.status = "tight" \/ p.v.confidence # "high" \/ Actionability(p) = "likely"
    THEN "recommended" ELSE "best_match"

-----------------------------------------------------------------------------
(* Without hardware there are no plans: candidates by composite score.     *)

\* collapse_families and group_by_series: the best member of each stays.
Collapsed(cs, key) ==
    SelectSeq(cs, LAMBDA c : \A d \in ToSet(cs) :
        key[d] = key[c] => \/ d.composite < c.composite
                           \/ d.composite = c.composite /\ c.repo =< d.repo)

AsPlan(c) == [c |-> c, v |-> Head(c.variants)]

CanLead(p) == Confirmed(p) /\ Actionability(p) # "blocked"

\* select_ranked: what cannot run is left out, confirmed placements come first, and the
\* best candidate that may lead does.
LegacyOrder(cs) ==
    LET model  == [c \in ToSet(cs) |-> c.model]
        series == [c \in ToSet(cs) |-> IF c.family = None THEN c.model ELSE c.family]
        best   == Collapsed(Collapsed(cs, model), series)
        byScore == SortSeq(best, LAMBDA c, d : LexLess(<<-c.composite, c.repo>>,
                                                       <<-d.composite, d.repo>>))
        open == SelectSeq([i \in DOMAIN byScore |-> AsPlan(byScore[i])],
                          LAMBDA p : Actionability(p) # "blocked")
        s == SelectSeq(open, Confirmed) \o SelectSeq(open, LAMBDA p : ~Confirmed(p))
        lead == SelectInSeq(s, CanLead)
    IN  IF lead > 1 THEN <<s[lead]>> \o RemoveAt(s, lead) ELSE s

-----------------------------------------------------------------------------
(* recommend, step by step.                                                *)

Pools == UNION {[1..n -> Candidates] : n \in 0..MaxPool}

Init ==
    /\ req \in [priority : Priorities, use : UseCases, commercial : BOOLEAN,
                language : BOOLEAN, hardware : BOOLEAN]
    /\ pool \in {s \in Pools : \A i, j \in DOMAIN s : i < j => s[i].repo < s[j].repo}
    /\ stage = "enrich"
    /\ ranked = <<>> /\ order = <<>> /\ remaining = <<>> /\ shown = <<>>

Advance(from, to) == stage = from /\ stage' = to

\* Failed inspections are dropped.
Enrich ==
    /\ Advance("enrich", IF req.hardware THEN "rank" ELSE "legacy")
    /\ pool' = SelectSeq(pool, LAMBDA c : ~c.failed)
    /\ UNCHANGED <<req, ranked, order, remaining, shown>>

Rank ==
    /\ Advance("rank", "select")
    /\ ranked' = BaseOrder(pool) /\ order' = BaseOrder(pool)
    /\ UNCHANGED <<req, pool, remaining, shown>>

\* apply_active_policy: the selection preference, then comparable evidence.
SelectWeak ==
    /\ Advance("select", "measure") /\ order' = WeakPlansLast(order)
    /\ UNCHANGED <<req, pool, ranked, remaining, shown>>

Measure ==
    /\ Advance("measure", "group") /\ order' = MeasuredOrder(order)
    /\ UNCHANGED <<req, pool, ranked, remaining, shown>>

Group ==
    /\ Advance("group", "choose") /\ remaining' = Buckets(order)
    /\ UNCHANGED <<req, pool, ranked, order, shown>>

Card(b, best, n) == [primary |-> b.primary, others |-> b.others,
                     position |-> Position(b.primary, best, n), tier |-> Heading(b.primary)]

\* diversify_ranked_plans: the best plan first, then one bucket at a time.
Choose ==
    /\ stage = "choose" /\ remaining # <<>> /\ Len(shown) < Limit
    /\ LET i == IF shown = <<>> THEN 1 ELSE ChosenNext(shown, remaining)
           b == remaining[i]
       IN  /\ shown' = Append(shown, Card(b, IF shown = <<>> THEN b.primary
                                             ELSE shown[1].primary, Len(shown) + 1))
           /\ remaining' = RemoveAt(remaining, i)
    /\ UNCHANGED <<req, pool, stage, ranked, order>>

Deliver ==
    /\ Advance("choose", "done") /\ (remaining = <<>> \/ Len(shown) >= Limit)
    /\ UNCHANGED <<req, pool, ranked, order, remaining, shown>>

Legacy ==
    /\ Advance("legacy", "done")
    /\ order' = LegacyOrder(pool)
    /\ shown' = LET s == LegacyOrder(pool) IN
                [i \in 1..Least(Limit, Len(s)) |->
                    [primary |-> s[i], others |-> <<>>, position |-> None,
                     tier |-> Heading(s[i])]]
    /\ UNCHANGED <<req, pool, ranked, remaining>>

Next == Enrich \/ Rank \/ SelectWeak \/ Measure \/ Group \/ Choose \/ Deliver \/ Legacy

Spec == Init /\ [][Next]_vars

-----------------------------------------------------------------------------
(* Properties.                                                             *)

Before(s, i, j) == i \in DOMAIN s /\ j \in DOMAIN s /\ i < j

\* Whatever selection, evidence and variety do after the ranking, no card whose placement
\* is unknown stands before one whose placement is confirmed.
ConfirmedPlacementFirst ==
    \A i, j \in DOMAIN shown : i < j /\ Confirmed(shown[j].primary) => Confirmed(shown[i].primary)

\* weak_plans_last puts every plan without known capability behind the capable plans that
\* are at least as viable and no further back than the last of those, and overtakes no
\* capable plan.
WeakYieldsToCapable ==
    stage = "measure" /\ req.priority \in CapabilityFirst =>
        \A i, j \in DOMAIN order : i < j =>
            LET p == order[i]  q == order[j]
                swapped == \E a, b \in DOMAIN ranked : a < b /\ ranked[a] = q /\ ranked[b] = p
            IN  /\ ~Capable(p) /\ Capable(q) => ~AtLeastAsViable(q, p)
                /\ swapped => ~Capable(q)
                /\ swapped /\ Capable(p) =>
                      \E k \in i..(j - 1) : Capable(order[k]) /\ AtLeastAsViable(order[k], q)

\* The criteria a report prints for a plan explain the base order: sorting by them gives
\* the order the engine returned.
CriteriaExplainOrder ==
    \A i, j \in DOMAIN ranked :
        i < j => ~LexLess(RankingCriteria(ranked[j]), RankingCriteria(ranked[i]))

\* A model has one card, its best plan that can run; the best-ranked plan of all leads; and
\* no model that has such a plan is left out while there is room.
EveryModelOnce ==
    stage = "done" /\ req.hardware =>
        LET alive == SelectSeq(order, LAMBDA p : ~Rejected(p)) IN
        /\ \A i \in DOMAIN shown :
              LET own == SelectSeq(alive, LAMBDA p : p.c.model = shown[i].primary.c.model)
              IN  own # <<>> /\ shown[i].primary = Head(own)
        /\ alive # <<>> /\ Limit > 0 => shown # <<>> /\ shown[1].primary = Head(alive)
        /\ Cardinality({shown[i].primary.c.model : i \in DOMAIN shown}) = Len(shown)
        /\ Len(shown) = Least(Limit, Cardinality(Models(alive)))

\* Viability comes first at both ends: in the order, where a plan of unknown capability gives
\* way to capable plans as viable and to no other, and on the cards.
ViabilityFirst == ConfirmedPlacementFirst /\ WeakYieldsToCapable

\* What the report and the cards say of the order is true of it.
OrderIsExplained == CriteriaExplainOrder /\ EveryModelOnce
=============================================================================
