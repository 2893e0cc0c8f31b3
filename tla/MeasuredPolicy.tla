--------------------------- MODULE MeasuredPolicy ---------------------------
(***************************************************************************)
(* The measured policy "shadow-v2" of recommendation/shadow.py: how stored *)
(* measurements may reorder a ranked pool of execution plans, and how      *)
(* Recompare builds a new proposal from the same pool with refreshed       *)
(* evidence.                                                               *)
(*                                                                         *)
(* A plan is named by its base position.  `pool' is what Search saved: the *)
(* stratum of every position and the evidence attached to it.  The policy  *)
(* takes the groups one after the other; a group's slots are filled from   *)
(* the last one to the first: by _demonstrable_order, or in the order of a *)
(* stable sort when the priority is Quality.                               *)
(***************************************************************************)
EXTENDS Integers, FiniteSets

CONSTANTS
    N,              \* number of plans in the ranked pool
    Tiers,          \* strata of plans that are not rejected
    Rejected,       \* the stratum of the rejected plans, ranked last
    Evidence,       \* PlanEvidence values: [speed, quality], where speed is None or
                    \* [cohort, min, max, ready] and quality None or [cohort, correct]
    None,           \* no applicable evidence on an axis
    WilsonLow,      \* lower bound of the 95% interval of a number of correct answers
    WilsonHigh,     \* upper bound
    Priorities,     \* priorities the user may choose
    MaxRecompares   \* bound on the Recompare requests of a behaviour

Idx == 1..N

Policies == {"quality", "fastest", "balanced", "memory"}

ASSUME SizeAssumption == N \in Nat /\ MaxRecompares \in Nat

ASSUME PriorityAssumption == Priorities \subseteq Policies

\* A llama_bench_v2 range holds its median, so its bounds are ordered.
ASSUME SpeedAssumption ==
    \A e \in Evidence : e.speed # None =>
        /\ e.speed.min \in Nat /\ e.speed.max \in Nat
        /\ e.speed.min <= e.speed.max
        /\ e.speed.ready \in BOOLEAN

\* Every applicable record has the audited number of samples, so one pair of
\* monotone bounds serves all of them.
ASSUME QualityAssumption ==
    \A e \in Evidence : e.quality # None =>
        /\ e.quality.correct \in Nat
        /\ WilsonLow[e.quality.correct] \in Nat
        /\ WilsonHigh[e.quality.correct] \in Nat
        /\ WilsonLow[e.quality.correct] <= WilsonHigh[e.quality.correct]

ASSUME RejectedAssumption == Rejected \notin Tiers

VARIABLES
    priority,   \* the priority of the request
    stratum,    \* stratum[i]: stratum of the plan at base position i
    evidence,   \* evidence[i]: the evidence that applies to it
    phase,      \* "active" (Search), "proposal" (Recompare) or "idle"
    todo,       \* groups not processed yet
    group,      \* the group being ordered; {} between groups
    slots,      \* its slots that are still to be filled
    remaining,  \* its plans that are still to be placed
    order,      \* order[s]: the plan at slot s
    shown,      \* the active order Search returned
    saved,      \* the evidence attached to the pool Search saved
    recompares  \* Recompare requests so far

vars == <<priority, stratum, evidence, phase, todo, group, slots,
          remaining, order, shown, saved, recompares>>

BaseOrder == [i \in Idx |-> i]

-----------------------------------------------------------------------------
(* Cohorts, strata and groups.                                             *)

\* The comparable cohort of a plan under a policy; None bars it from any group.
Cohort(p, e) ==
    LET s == e.speed  q == e.quality IN
    CASE p = "quality"  -> IF q = None THEN None ELSE <<q.cohort>>
      [] p = "fastest"  -> IF s = None \/ ~s.ready THEN None ELSE <<s.cohort>>
      [] p = "balanced" -> IF s = None \/ ~s.ready \/ q = None
                           THEN None ELSE <<q.cohort, s.cohort>>
      [] p = "memory"   -> None

CohortOf(i) == Cohort(priority, evidence[i])

\* i and j lie in one contiguous run of one stratum.
SameRun(i, j) == \A k \in Idx : (i <= k /\ k <= j) \/ (j <= k /\ k <= i)
                                    => stratum[k] = stratum[i]

Eligible(i) == stratum[i] # Rejected /\ CohortOf(i) # None

\* Mutant of GroupOf: groups join separate runs of one stratum.
GroupOfAcrossRuns(i) ==
    {j \in Idx : Eligible(j) /\ stratum[j] = stratum[i] /\ CohortOf(j) = CohortOf(i)}

GroupOf(i) == {j \in Idx : Eligible(j) /\ SameRun(i, j) /\ CohortOf(j) = CohortOf(i)}

\* A lone measurement is not promoted for existing.
Groups == {g \in {GroupOf(i) : i \in {j \in Idx : Eligible(j)}} :
              \E i, j \in g : i # j}

-----------------------------------------------------------------------------
(* Pairwise comparison of two members of one group.                        *)

\* 1 or -1 only when two intervals are disjoint; 0 means indistinguishable.
CompareBounds(aLow, aHigh, bLow, bHigh) ==
    IF aLow > bHigh THEN 1 ELSE IF aHigh < bLow THEN -1 ELSE 0

CompareSpeed(a, b) ==
    LET x == evidence[a].speed  y == evidence[b].speed IN
    CompareBounds(x.min, x.max, y.min, y.max)

CompareQuality(a, b) ==
    LET x == evidence[a].quality.correct  y == evidence[b].quality.correct IN
    CompareBounds(WilsonLow[x], WilsonHigh[x], WilsonLow[y], WilsonHigh[y])

\* Whether plan a demonstrably belongs before plan b.
Precedes(a, b) ==
    IF priority = "fastest"
    THEN CompareSpeed(a, b) > 0
    ELSE /\ CompareSpeed(a, b) >= 0
         /\ CompareQuality(a, b) >= 0
         /\ CompareSpeed(a, b) > 0 \/ CompareQuality(a, b) > 0

\* The plans of R that precede no other plan of R.
Free(R) == {x \in R : \A y \in R \ {x} : ~Precedes(x, y)}

IsLast(x, S) == x \in S /\ \A y \in S : y <= x

IsFirst(x, S) == x \in S /\ \A y \in S : x <= y

\* The stable descending sort of Quality: a belongs before b.
SortsBefore(a, b) ==
    \/ evidence[a].quality.correct > evidence[b].quality.correct
    \/ evidence[a].quality.correct = evidence[b].quality.correct /\ a < b

\* sorted(items, key = -value), seen from the back: the last plan in sort order.
PickQuality(x) == x \in remaining /\ \A y \in remaining \ {x} : SortsBefore(y, x)

\* Mutant of PickMeasured: the latest plan takes the slot, demonstrably better or not.
PickIgnoresPairs(x) == IsLast(x, remaining)

\* Mutant of PickMeasured: free[0] for free[-1].
PickFirstFree(x) == IsFirst(x, Free(remaining))

\* The plan for the last open slot: the latest free one; with no free plan
\* (a cycle) the latest plan keeps its base order.
PickMeasured(x) == IF Free(remaining) # {} THEN IsLast(x, Free(remaining))
                                           ELSE IsLast(x, remaining)

Pick(x) == IF priority = "quality" THEN PickQuality(x) ELSE PickMeasured(x)

-----------------------------------------------------------------------------
(* The state machine.                                                      *)

Init ==
    /\ priority \in Priorities
    /\ stratum \in [Idx -> Tiers \cup {Rejected}]
    /\ \A i, j \in Idx : i < j /\ stratum[i] = Rejected => stratum[j] = Rejected
    /\ evidence \in [Idx -> Evidence]
    /\ phase = "active"
    /\ todo = Groups
    /\ group = {} /\ slots = {} /\ remaining = {}
    /\ order = BaseOrder
    /\ shown = BaseOrder
    /\ saved = evidence
    /\ recompares = 0

\* members.items(): groups in the order of their first member.
TakeGroup ==
    /\ phase # "idle" /\ group = {}
    /\ \E g \in todo :
          /\ \E x \in g : IsFirst(x, g) /\ \A h \in todo : \E y \in h : IsFirst(y, h) /\ x <= y
          /\ todo' = todo \ {g}
          /\ group' = g /\ slots' = g /\ remaining' = g
    /\ UNCHANGED <<priority, stratum, evidence, phase, order, shown, saved, recompares>>

\* One turn of the loop of _demonstrable_order, or one position of the sort.
PlaceLast ==
    /\ group # {} /\ remaining # {}
    /\ \E x \in remaining, s \in slots :
          /\ Pick(x) /\ IsLast(s, slots)
          /\ order' = [order EXCEPT ![s] = x]
          /\ remaining' = remaining \ {x}
          /\ slots' = slots \ {s}
    /\ UNCHANGED <<priority, stratum, evidence, phase, todo, group, shown, saved, recompares>>

FinishGroup ==
    /\ group # {} /\ remaining = {}
    /\ group' = {}
    /\ UNCHANGED <<priority, stratum, evidence, phase, todo, slots, remaining,
                   order, shown, saved, recompares>>

\* _shadow_order returns; the active order is what Search shows, a proposal
\* stays beside it.
Return ==
    /\ phase # "idle" /\ group = {} /\ todo = {}
    /\ phase' = "idle"
    /\ shown' = IF phase = "active" THEN order ELSE shown
    /\ UNCHANGED <<priority, stratum, evidence, todo, group, slots, remaining,
                   order, saved, recompares>>

\* Mutant of Recompare: the policy starts over from the previous order.
RecompareFromOrder ==
    /\ phase = "idle" /\ recompares < MaxRecompares
    /\ \E i \in Idx, e \in Evidence : evidence' = [evidence EXCEPT ![i] = e]
    /\ UNCHANGED <<priority, stratum, group, slots, remaining, order, shown, saved>>
    /\ phase' = "proposal"
    /\ todo' = Groups'
    /\ recompares' = recompares + 1

\* recompare_quality: quality and speed are read again from the stores, the
\* saved pool and its strata stay as Search saw them, and the policy starts
\* over from the base order.
Recompare ==
    /\ phase = "idle" /\ recompares < MaxRecompares
    /\ \E i \in Idx, e \in Evidence : evidence' = [evidence EXCEPT ![i] = e]
    /\ UNCHANGED <<priority, stratum, group, slots, remaining, shown, saved>>
    /\ phase' = "proposal"
    /\ todo' = Groups'
    /\ order' = BaseOrder
    /\ recompares' = recompares + 1

Policy == TakeGroup \/ PlaceLast \/ FinishGroup \/ Return

Next == Policy \/ Recompare

\* The policy is a loop of one thread: it runs on until it returns.  Recompare
\* is the user's choice and is not fair.
Spec == Init /\ [][Next]_vars /\ WF_vars(Policy)

-----------------------------------------------------------------------------
(* Properties.                                                             *)

\* Every variable keeps its type; the loop's variables are subsets of the pool.
TypeOK ==
    /\ priority \in Policies
    /\ stratum \in [Idx -> Tiers \cup {Rejected}]
    /\ evidence \in [Idx -> Evidence]
    /\ phase \in {"active", "proposal", "idle"}
    /\ todo \subseteq SUBSET Idx
    /\ group \subseteq Idx /\ slots \subseteq Idx /\ remaining \subseteq Idx
    /\ order \in [Idx -> Idx]
    /\ shown \in [Idx -> Idx]
    /\ saved \in [Idx -> Evidence]
    /\ recompares \in 0..MaxRecompares

Done == phase = "idle"

\* _shadow_order writes slots of `order' in place, group by group: when it
\* returns no plan has been lost and none appears twice.
NoPlanLostOrRepeated ==
    Done => \A i \in Idx : \E s \in Idx : order[s] = i /\ \A t \in Idx : order[t] = i => t = s

\* Evidence never crosses a stratum: the plan at a slot comes from the same
\* contiguous stratum run as the plan that held the slot in the base order.
StrataNeverCrossed == Done => \A s \in Idx : SameRun(s, order[s])

\* A plan without comparable evidence, a rejected plan and a lone measured plan
\* keep their base place, whatever moves around them.
BystandersKeepPlace ==
    Done => \A s \in Idx :
        (\A j \in Idx \ {s} :
            ~(Eligible(s) /\ Eligible(j) /\ SameRun(s, j) /\ CohortOf(s) = CohortOf(j)))
        => order[s] = s

\* The policy reorders and does nothing else: the order it returns is the pool again, no
\* plan passes one of another stratum, and whoever takes no part in a comparison stays.
OrderRespectsStrata == NoPlanLostOrRepeated /\ StrataNeverCrossed /\ BystandersKeepPlace

\* Some member of every subset of g precedes no other member of the subset.
Acyclic(g) == \A R \in SUBSET g : R # {} => Free(R) # {}

Honoured(g) == \A s, t \in g : s < t => ~Precedes(order[t], order[s])

\* The returned order honours every demonstrable pair: always under Fastest, and
\* under Balanced whenever the pairs of the group have no cycle.
PairsHonoured ==
    Done => \A g \in Groups :
               /\ priority = "fastest" => Honoured(g)
               /\ priority = "balanced" /\ Acyclic(g) => Honoured(g)

\* Under Quality a group ends in descending order of its metric, and equal
\* figures keep their base order.
QualitySorted ==
    Done /\ priority = "quality" =>
        \A g \in Groups : \A s, t \in g : s < t => SortsBefore(order[s], order[t])

\* What the evidence shows decides within a group, whatever the policy in force.
OrderFollowsEvidence == PairsHonoured /\ QualitySorted

\* A group of two or more plans in which no pair is demonstrably ordered keeps the
\* base order: overlapping ranges, chained or not, never move a plan.
MovesNeedDemonstration ==
    Done /\ priority \in {"fastest", "balanced"} =>
        \A g \in Groups : (\A a, b \in g : ~Precedes(a, b)) => \A s \in g : order[s] = s

\* Recompare is a function of the saved pool and the stored evidence: once the
\* evidence is again what Search saw, the proposal is again the order Search
\* showed, however many other proposals came between.
ProposalIsNotPathDependent ==
    Done /\ evidence = saved => order = shown

=============================================================================
