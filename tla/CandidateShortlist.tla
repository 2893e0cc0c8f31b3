------------------------- MODULE CandidateShortlist -------------------------
(***************************************************************************)
(* From what a search finds to the candidates PlanRanking gets: queries    *)
(* (discovery/query_builder.py), deduplication, filter, re-uploads, coarse *)
(* placement and the shortlist (discovery/candidate_filter.py), alternative*)
(* artifacts and rescued re-uploads (application/recommendation/           *)
(* alternatives.py, application/discovery/artifact_variants.py).           *)
(*                                                                         *)
(* Memory is counted in hundredths of a GiB, parameters in tenths of a     *)
(* billion, scores in hundredths.  A repository carries what a search says *)
(* of it and, in the field inspect, the candidate its inspection yields.   *)
(***************************************************************************)
EXTENDS PlanRanking

CONSTANTS
    SearchPriorities, \* the priorities searches are made for
    Hubs,          \* the sets of repositories the hub may hold
    Machines,      \* [ram, vram, backends, shared]
    ShortlistMax,  \* MAX_DEEP_INSPECTION
    ExtraMax,      \* MAX_VARIANT_DEEP_INSPECTION
    SearchesMax,   \* MAX_TARGETED_VARIANT_SEARCHES
    QueryMax,      \* results of one query
    ContextUsers   \* context factor times concurrent users

ASSUME ShortlistAssumption ==
    /\ ShortlistMax \in Nat /\ ExtraMax \in Nat /\ SearchesMax \in Nat
    /\ QueryMax \in Nat \ {0} /\ ContextUsers \in Nat \ {0}

VARIABLES
    hub, machine,
    kept,      \* the repositories that passed the filter, re-uploads collapsed
    largest,   \* largest_fitting_billions of the machine
    hits,      \* a repository |-> the queries that returned it
    entry,     \* a kept repository |-> [mode, score]: its coarse placement and its score
    alts,      \* a kept repository |-> the re-uploads it stands for
    picked,    \* the shortlist: [c, how]
    buckets,   \* size classes still to cover
    left,      \* repositories the coverage left
    explore,   \* picks left for exploration
    at,        \* the evaluated candidate whose alternatives are looked for
    queue,     \* re-uploads to try for it
    seen,      \* repositories inspected or in the pool
    extra, searches, spent   \* inspections and searches made for alternatives

rankVars == <<ranked, order, remaining, shown>>

foundVars == <<kept, largest, hits, entry, alts>>

pickVars == <<picked, buckets, left, explore>>

altVars == <<at, queue, seen, extra, searches, spent>>

searchVars == <<hub, machine, foundVars, pickVars, altVars>>

allVars == <<vars, searchVars>>

-----------------------------------------------------------------------------
(* Coarse placement: the name of a repository against the machine.         *)

\* _COARSE_BYTES_PER_PARAM, in hundredths of a byte.
BytesPerParameter == [Q2 |-> 35, Q3 |-> 45, Q4 |-> 60, Q8 |-> 105, F16 |-> 200,
                      AWQ |-> 60, GPTQ |-> 60]

CudaOnly == {"AWQ", "GPTQ"}

Reserve == 50

Margin(n) == (11 * n + 9) \div 10

CoarseOverhead(w) == LET n == 50 + w \div 10 IN IF n < 25 THEN 25 ELSE n

CoarseCache(size) == LET n == (7 * size * ContextUsers) \div 20 IN IF n < 15 THEN 15 ELSE n

Weights(c) == LET n == (c.size * BytesPerParameter[c.hint]) \div 10 IN IF n < 1 THEN 1 ELSE n

\* _candidate_vram_bytes: accelerator memory this kind of artifact can use.
UsableVram(c, mach) ==
    LET supported == IF c.gguf THEN {"cuda", "hip", "vulkan"}
                     ELSE IF c.hint \in CudaOnly THEN {"cuda"} ELSE {"cuda", "hip"}
    IN  IF mach.vram # None /\ mach.backends \cap supported # {} THEN mach.vram ELSE None

Unified(mach) == mach.vram = None /\ mach.shared

SplitProportionally(total, part, whole) == IF whole =< 0 THEN 0 ELSE (total * part) \div whole

\* _max_gpu_weight_bytes finds by bisection the largest share of the weights that fits.
GpuWeights(w, mach) ==
    LET needs(n) == Margin(CoarseCache(w.size) + Reserve + n
                           + SplitProportionally(CoarseOverhead(w.bytes), n, w.bytes))
    IN  IF needs(w.bytes) =< mach.vram THEN w.bytes
        ELSE CHOOSE n \in 0..(w.bytes - 1) : /\ n = 0 \/ needs(n) =< mach.vram
                                             /\ needs(n + 1) > mach.vram

\* _coarse_offload_hint
Offloads(c, mach) ==
    LET all == Weights(c)
        fixed == CoarseCache(c.size) + Reserve
        gpu == GpuWeights([size |-> c.size, bytes |-> all], mach)
        gpuOver == SplitProportionally(CoarseOverhead(all), gpu, all)
    IN  /\ Margin(fixed) < mach.vram
        /\ gpu < all /\ 10 * gpu >= all
        /\ Margin(fixed + gpu + gpuOver) =< mach.vram
        /\ Margin(all - gpu + CoarseOverhead(all) - gpuOver) =< mach.ram

\* coarse_placement_hint
PlacementOf(c, mach) ==
    LET total == Weights(c) + CoarseCache(c.size) + CoarseOverhead(Weights(c))
        vram == UsableVram(c, mach)
        ram == IF Margin(total) =< mach.ram THEN "cpu_ram" ELSE "too_large"
    IN  IF c.size = 0 THEN "unknown"
        ELSE IF c.hint \in CudaOnly /\ ~c.gguf /\ "cuda" \notin mach.backends THEN "too_large"
        ELSE IF vram = None \/ Unified(mach) THEN ram
        ELSE IF Margin(total + Reserve) =< vram THEN "gpu_resident"
        ELSE IF Offloads(c, mach) THEN "gpu_offload" ELSE ram

Mode(c) == entry[c.repo].mode

ModeOrder(c) ==
    IF machine.vram = None \/ Unified(machine)
    THEN CASE Mode(c) = "cpu_ram" -> 0 [] Mode(c) = "unknown" -> 1
           [] Mode(c) = "gpu_resident" -> 2 [] Mode(c) = "gpu_offload" -> 3
           [] Mode(c) = "too_large" -> 4
    ELSE CASE Mode(c) = "gpu_resident" -> 0 [] Mode(c) = "gpu_offload" -> 1
           [] Mode(c) = "cpu_ram" -> 2 [] Mode(c) = "unknown" -> 3
           [] Mode(c) = "too_large" -> 4

FitBonus == [gpu_resident |-> 400, gpu_offload |-> 300, cpu_ram |-> 150, unknown |-> 0,
             too_large |-> -900]

-----------------------------------------------------------------------------
(* What the machine can hold, and the queries made for it.                 *)

LargestAsked == 1000   \* tenths of a billion; no machine of an instance holds more

\* largest_fitting_billions, by bisection in the code.
LargestFitting(mach) ==
    LET room == IF mach.vram # None THEN mach.vram ELSE mach.ram
        needs(n) == LET w == (n * BytesPerParameter["Q4"]) \div 10
                    IN  Margin(CoarseCache(n) + Reserve + w + CoarseOverhead(w))
    IN  CHOOSE n \in 0..LargestAsked : (n = 0 \/ needs(n) =< room) /\ needs(n + 1) > room

CoverSmall(max) == 0 < max /\ max =< 140

Edges == {10, 40, 140, 320}

\* size_bands
SizeBands(max) ==
    LET low == IF CoverSmall(max) THEN 0 ELSE 40
        inner == {e \in Edges \cup (IF CoverSmall(max) THEN {20} ELSE {}) :
                     low < e /\ e < max}
        edges == InOrder(inner \cup {low, max}, LAMBDA a, b : a < b)
    IN  IF max =< 0 THEN <<>> ELSE [i \in 1..(Len(edges) - 1) |-> <<edges[i], edges[i + 1]>>]

\* build_queries: by phrase, by preferred format, by size band and what is trending.
Queries(max) ==
    LET all == [phrase |-> TRUE, gguf |-> FALSE, band |-> None]
        bands == SizeBands(max)
    IN  {all, [all EXCEPT !.gguf = TRUE]}
        \cup {[all EXCEPT !.gguf = TRUE, !.band = bands[i]] : i \in DOMAIN bands}
        \cup {[phrase |-> FALSE, gguf |-> TRUE, band |-> bands[i]] : i \in DOMAIN bands}

Answers(q, c) == /\ q.phrase => c.text
                 /\ q.gguf => c.gguf
                 /\ q.band # None => c.size > q.band[1] /\ c.size =< q.band[2]

\* What a query returns: the most downloaded repositories that answer it.
Returned(q) == {c \in hub : Answers(q, c)
                  /\ Cardinality({d \in hub : Answers(q, d) /\ d.log > c.log}) < QueryMax}

-----------------------------------------------------------------------------
(* Filter and re-uploads.                                                  *)

\* _rejection_reason
Acceptable(c) == ~c.unusable /\ ~(req.commercial /\ c.inspect.license = "restricted")

MorePopular(c, d) == c.log > d.log \/ (c.log = d.log /\ c.repo < d.repo)

\* collapse_quantized_reuploads: one repository stands for the re-quantizations of a base.
StandsFor(c, S) == IF c.base = None \/ ~c.gguf THEN {}
                   ELSE {d \in S : d.gguf /\ d.base = c.base /\ d # c}

Stays(c, S) == \A d \in StandsFor(c, S) : MorePopular(c, d)

ByPopularity(S) == InOrder(S, MorePopular)

-----------------------------------------------------------------------------
(* The shortlist.                                                          *)

\* _cheap_desirability with the bonus of the placement.
Desirability(c, n) == c.log + (IF c.gguf THEN 200 ELSE 0) + 75 * (n - 1)
                         - 50 * c.penalties

Entry(c, n) == LET mode == PlacementOf(c, machine)
                  IN  [mode |-> mode, score |-> Desirability(c, n) + FitBonus[mode]]

Score(c) == entry[c.repo].score

Scale(size) == IF size = 0 THEN 5 ELSE IF size =< 10 THEN 0 ELSE IF size =< 40 THEN 1
               ELSE IF size =< 140 THEN 2 ELSE IF size =< 320 THEN 3 ELSE 4

Small(c) == Scale(c.size) \in {0, 1}

HasTextSignal(c) == c.gguf \/ c.text

Flag(b) == IF b THEN 1 ELSE 0

RedundancyKey(c) == <<c.family, Scale(c.size), Mode(c)>>

VersionKey(c) == <<c.family, c.size>>

Chosen(F(_)) == {F(picked[i].c) : i \in DOMAIN picked}

SmallCovered == CoverSmall(largest)

ByScore(S) == SortSeq(S, LAMBDA c, d : LexLess(<<Flag(c.other), -Score(c), c.repo>>,
                                               <<Flag(d.other), -Score(d), d.repo>>))

\* _group_shortlist_buckets, then larger classes first on a small machine.
SizeClasses(S) ==
    LET scale(c) == IF ~SmallCovered THEN Scale(c.size)
                    ELSE 2 * Scale(c.size) + Flag(c.size > 20 /\ c.size =< 40)
        key(c) == <<ModeOrder(c), IF SmallCovered THEN Flag(Small(c)) ELSE 0, scale(c)>>
        keys == {key(S[i]) : i \in DOMAIN S}
        sorted == InOrder(keys, LexLess)
    IN  [i \in DOMAIN sorted |-> ByScore(SelectSeq(S, LAMBDA c : key(c) = sorted[i]))]

\* _pop_bucket_candidate: the best one, among equals one that brings a new family or kind.
PoppedFrom(s) ==
    LET tied == {i \in DOMAIN s : Score(s[i]) >= Score(s[1]) /\ s[i].other = s[1].other}
        new == {i \in tied : RedundancyKey(s[i]) \notin Chosen(RedundancyKey)}
        fresh == {i \in new : s[i].family \notin Chosen(LAMBDA c : c.family)}
        least(S) == CHOOSE i \in S : \A j \in S : i =< j
    IN  s[IF fresh # {} THEN least(fresh) ELSE IF new # {} THEN least(new) ELSE least(tied)]

Without(s, c) == SelectSeq(s, LAMBDA d : d # c)

\* The best placement class with a candidate of known size.
BestClass(bs) == LET placed == {ModeOrder(bs[i][1]) : i \in {j \in DOMAIN bs :
                                                             Mode(bs[j][1]) # "unknown"}}
                 IN  IF placed = {} THEN None ELSE CHOOSE n \in placed : \A k \in placed : n =< k

\* Whether a bucket gets a coverage pick: unknown sizes only with a text signal, known ones
\* only in the best class, and small ones only where nothing larger is there.
Covered(s, best, larger) ==
    IF Mode(s[1]) = "unknown" THEN HasTextSignal(s[1])
    ELSE ModeOrder(s[1]) = best /\ ~(larger /\ ~SmallCovered /\ Small(s[1]))

\* Unknown sizes with a text signal come first in their bucket.
SignalFirst(s) == IF Mode(s[1]) # "unknown" THEN s
                  ELSE SelectSeq(s, HasTextSignal) \o SelectSeq(s, LAMBDA c : ~HasTextSignal(c))

QualityCoverage == req.priority = "quality" /\ ~SmallCovered

RelevanceKey(c) == <<ModeOrder(c), IF SmallCovered THEN 0 ELSE Flag(Small(c)), Flag(c.other),
                     -Score(c), c.repo>>

ByRelevance(s) == SortSeq(s, LAMBDA c, d : LexLess(RelevanceKey(c), RelevanceKey(d)))

\* The candidates the leader competes with.
RelevanceGroup(s) == SelectSeq(s, LAMBDA c :
    /\ ModeOrder(c) = ModeOrder(s[1]) /\ c.other = s[1].other
    /\ SmallCovered \/ Small(c) = Small(s[1]))

ExplorationScore(c) == IF QualityCoverage THEN c.log ELSE Score(c) - FitBonus[Mode(c)]

\* Candidates of a kind not chosen yet, not a hundred times less popular than the leader.
Novel(s, group) ==
    LET wide == SelectSeq(s, LAMBDA c : /\ Mode(c) \in {"gpu_resident", "gpu_offload"}
                                        /\ ~Small(c) /\ c.other = s[1].other)
        from == IF QualityCoverage /\ Mode(s[1]) = "gpu_resident" THEN wide ELSE group
    IN  SelectSeq(from, LAMBDA c :
            /\ IF QualityCoverage THEN VersionKey(c) \notin Chosen(VersionKey)
               ELSE RedundancyKey(c) \notin Chosen(RedundancyKey)
            /\ ExplorationScore(c) >= ExplorationScore(group[1]) - 460)

ByScale(s) == LET key(c) == <<-(IF QualityCoverage THEN c.size ELSE Scale(c.size)),
                              -Score(c), c.repo>>
              IN  SortSeq(s, LAMBDA c, d : LexLess(key(c), key(d)))

\* A second version of a chosen model waits behind the others of its group.
NewVersionTied(group) ==
    LET new(c) == VersionKey(c) \notin Chosen(VersionKey)
        first == IF \E i \in DOMAIN group : new(group[i])
                 THEN group[SelectInSeq(group, new)] ELSE group[1]
    IN  <<first>> \o SelectSeq(group, LAMBDA c : /\ c # first /\ Score(c) = Score(first)
                                                 /\ new(first) => new(c))

-----------------------------------------------------------------------------
(* The search.                                                             *)

SearchInit ==
    /\ req \in [priority : SearchPriorities, use : {"other"}, commercial : BOOLEAN,
                language : {FALSE}, hardware : {TRUE}]
    /\ hub \in Hubs /\ machine \in Machines
    /\ stage = "collect"
    /\ pool = <<>> /\ ranked = <<>> /\ order = <<>> /\ remaining = <<>> /\ shown = <<>>
    /\ kept = <<>> /\ largest = 0 /\ hits = <<>> /\ entry = <<>> /\ alts = <<>> /\ picked = <<>> /\ buckets = <<>> /\ left = <<>>
    /\ explore = 0 /\ at = 1 /\ queue = <<>> /\ seen = {}
    /\ extra = 0 /\ searches = 0 /\ spent = 0

\* All queries, and what they return once: a repository keeps how many found it.
Query ==
    /\ Advance("collect", "filter")
    /\ largest' = LargestFitting(machine)
    /\ hits' = [r \in {c.repo : c \in hub} |->
                  Cardinality({q \in Queries(largest') : \E c \in Returned(q) : c.repo = r})]
    /\ UNCHANGED <<req, pool, rankVars, hub, machine, kept, entry, alts, pickVars, altVars>>

Found == {c \in hub : hits[c.repo] > 0 /\ Acceptable(c)}

\* The filter, and one repository for the re-uploads of a base.
Filter ==
    /\ Advance("filter", "plan")
    /\ kept' = InOrder({c \in Found : Stays(c, Found)}, LAMBDA c, d : c.repo < d.repo)
    /\ entry' = [r \in {kept'[i].repo : i \in DOMAIN kept'} |->
                   LET c == CHOOSE d \in hub : d.repo = r IN Entry(c, hits[r])]
    /\ alts' = [r \in DOMAIN entry' |->
                   LET c == CHOOSE d \in hub : d.repo = r IN ByPopularity(StandsFor(c, Found))]
    /\ UNCHANGED <<req, pool, rankVars, hub, machine, largest, hits, pickVars, altVars>>

\* The size classes of what fits.
PlanCoverage ==
    /\ Advance("plan", "cover")
    /\ LET classes == SizeClasses(SelectSeq(kept, LAMBDA c : Mode(c) # "too_large"))
           best == BestClass(classes)
           larger == \E i \in DOMAIN classes : /\ Mode(classes[i][1]) # "unknown"
                                               /\ ModeOrder(classes[i][1]) = best
                                               /\ ~Small(classes[i][1])
           signalled == [i \in DOMAIN classes |-> SignalFirst(classes[i])]
       IN  /\ buckets' = SelectSeq(signalled, LAMBDA s : Covered(s, best, larger))
           /\ left' = FlattenSeq(classes)
    /\ explore' = ShortlistMax \div (IF QualityCoverage THEN 2 ELSE 4)
    /\ UNCHANGED <<req, pool, rankVars, hub, machine, foundVars, picked, altVars>>

Pick(c, how) == picked' = Append(picked, [c |-> c, how |-> how])

\* Coverage: one repository of each class.
Cover ==
    /\ stage = "cover" /\ buckets # <<>> /\ Len(picked) < ShortlistMax
    /\ LET c == PoppedFrom(Head(buckets)) IN Pick(c, "coverage") /\ left' = Without(left, c)
    /\ buckets' = Tail(buckets)
    /\ UNCHANGED <<req, stage, pool, rankVars, hub, machine, foundVars, explore, altVars>>

\* Relevance, apart from the bounded exploration.
Fill ==
    /\ stage = "cover" /\ buckets = <<>> /\ left # <<>> /\ Len(picked) < ShortlistMax
    /\ LET s == ByRelevance(left)
           novel == IF explore > 0 THEN Novel(s, RelevanceGroup(s)) ELSE <<>>
           from == IF novel # <<>> THEN ByScale(novel) ELSE RelevanceGroup(s)
           c == PoppedFrom(NewVersionTied(from))
       IN  /\ Pick(c, IF novel # <<>> THEN "exploration" ELSE "relevance")
           /\ left' = Without(left, c)
           /\ explore' = explore - Flag(novel # <<>>)
    /\ UNCHANGED <<req, stage, pool, rankVars, hub, machine, foundVars, buckets, altVars>>

FallbackMax == 2

\* Repositories that do not fit get what is left of the shortlist, two at most.
TooLarge ==
    LET s == SortSeq(SelectSeq(kept, LAMBDA c : Mode(c) = "too_large"),
                     LAMBDA c, d : LexLess(<<-Score(c), c.repo>>, <<-Score(d), d.repo>>))
    IN  SubSeq(s, 1, Least(Len(s), Least(FallbackMax, ShortlistMax - Len(picked))))

Evaluated(s) == [i \in DOMAIN s |-> s[i].inspect]

\* The fallback, and the inspection of the shortlist.
Inspect ==
    /\ Advance("cover", "expand")
    /\ Len(picked) >= ShortlistMax \/ (buckets = <<>> /\ left = <<>>)
    /\ picked' = picked \o [i \in DOMAIN TooLarge |-> [c |-> TooLarge[i], how |-> "too_large"]]
    /\ LET s == [i \in DOMAIN picked' |-> picked'[i].c]
       IN  pool' = Evaluated(s) /\ seen' = {s[i].repo : i \in DOMAIN s}
    /\ UNCHANGED <<req, rankVars, hub, machine, foundVars, buckets, left, explore, at, queue, extra, searches, spent>>

-----------------------------------------------------------------------------
(* Alternatives of what cannot run as it was found.                        *)

Placed(e) == ~e.failed /\ Confirmed(AsPlan(e))

RunsHere(e) == \E i \in DOMAIN Plans(e) : LET p == Plans(e)[i] IN p.v.support = "yes" /\ Confirmed(p)

HasPath(model, s) == \E i \in DOMAIN s : ~s[i].failed /\ s[i].model = model /\ RunsHere(s[i])

\* add_confirmed: GGUF repositories of this model that pass the filter and are not there yet.
Added(s, result) ==
    Evaluated(SelectSeq(s, LAMBDA c : /\ c.inspect.gguf /\ ~c.inspect.failed /\ Acceptable(c)
                                      /\ \A i \in DOMAIN result : result[i].repo # c.repo))

\* Repositories of the search that declare the model as their base.
KnownVariants(model) == SelectSeq(kept, LAMBDA c : c.repo \notin seen /\ c.base = model)

\* discover_artifact_variants: by the hub, up to a failed inspection or three confirmed files.
Discovered(model, max) ==
    LET s == ByPopularity({c \in hub : c.base = model /\ c.gguf})
        files(n) == Cardinality({<<i, j>> \in (1..n) \X (1..3) :
                        i \in DOMAIN s /\ j \in DOMAIN s[i].inspect.variants})
        ends(n) == n >= Least(Len(s), max) \/ s[n + 1].inspect.failed \/ files(n) >= 3
    IN  SubSeq(s, 1, CHOOSE n \in 0..Least(Len(s), max) :
                        ends(n) /\ \A k \in 0..(n - 1) : ~ends(k))

DiscoveryBudget(cost) == ExtraMax - extra - cost

\* expand_execution_candidates, one evaluated candidate at a time.
Expand ==
    /\ stage = "expand" /\ at =< Len(picked)
    /\ LET e == pool[at]
           known == KnownVariants(e.model)
           tries == SubSeq(known, 1, Least(Len(known), ExtraMax - extra))
           first == pool \o Added(tries, pool)
           budget == DiscoveryBudget(Len(tries))
           searching == ~HasPath(e.model, first) /\ budget > 0 /\ searches < SearchesMax
           finds == IF searching THEN Discovered(e.model, budget) ELSE <<>>
           new == SelectSeq(finds, LAMBDA c : c.repo \notin seen \cup {d.repo : d \in ToSet(tries)})
       IN  IF e.failed \/ e.gguf \/ HasPath(e.model, pool)
           THEN UNCHANGED <<pool, seen, extra, searches>>
           ELSE /\ pool' = first \o Added(finds, first)
                /\ seen' = seen \cup {c.repo : c \in ToSet(tries) \cup ToSet(finds)}
                /\ extra' = extra + Len(tries) + Len(new)
                /\ searches' = searches + Flag(searching)
    /\ at' = at + 1
    /\ UNCHANGED <<req, stage, rankVars, hub, machine, foundVars, pickVars, queue, spent>>

\* rescue_with_reupload_alternatives begins with what expansion returned.
StartRescue ==
    /\ Advance("expand", "rescue") /\ at > Len(picked)
    /\ at' = 1 /\ seen' = {pool[i].repo : i \in DOMAIN pool}
    /\ UNCHANGED <<req, pool, rankVars, hub, machine, foundVars, pickVars, queue, extra, searches, spent>>

ReuploadsOf(r) == IF r \in DOMAIN alts THEN alts[r] ELSE <<>>

\* The next candidate without a placement that stands for re-uploads.
RescueItem ==
    /\ stage = "rescue" /\ queue = <<>> /\ at =< Len(pool)
    /\ queue' = IF Placed(pool[at]) THEN <<>> ELSE ReuploadsOf(pool[at].repo)
    /\ at' = at + 1
    /\ UNCHANGED <<req, stage, pool, rankVars, hub, machine, foundVars, pickVars, seen, extra, searches, spent>>

\* Mutant of AfterTry: the first re-upload ends the rescue of a candidate.
AfterFirstTry(c) == <<>>

\* The rescue of a candidate ends with a re-upload that has a placement.
AfterTry(c) == IF c.inspect.gguf /\ Placed(c.inspect) THEN <<>> ELSE Tail(queue)

RescueSibling ==
    /\ stage = "rescue" /\ queue # <<>> /\ spent < ExtraMax
    /\ LET c == Head(queue) IN
       IF c.repo \in seen
       THEN queue' = Tail(queue) /\ UNCHANGED <<pool, seen, spent>>
       ELSE /\ queue' = AfterTry(c)
            /\ seen' = seen \cup {c.repo} /\ spent' = spent + 1
            /\ pool' = IF c.inspect.gguf /\ ~c.inspect.failed THEN Append(pool, c.inspect) ELSE pool
    /\ UNCHANGED <<req, stage, rankVars, hub, machine, foundVars, pickVars, at, extra, searches>>

EndRescue ==
    /\ Advance("rescue", "enrich")
    /\ IF queue = <<>> THEN at > Len(pool) ELSE spent >= ExtraMax
    /\ UNCHANGED <<req, pool, rankVars, searchVars>>

\* recommend is also called with evaluated candidates at hand (Recompare, tests).
RankInit == /\ Init
            /\ hub = {} /\ machine = None
            /\ kept = <<>> /\ largest = 0 /\ hits = <<>> /\ entry = <<>> /\ alts = <<>> /\ picked = <<>> /\ buckets = <<>> /\ left = <<>>
            /\ explore = 0 /\ at = 1 /\ queue = <<>> /\ seen = {}
            /\ extra = 0 /\ searches = 0 /\ spent = 0

RecommendInit == SearchInit \/ RankInit

SearchNext == \/ Query \/ Filter \/ PlanCoverage \/ Cover \/ Fill \/ Inspect \/ Expand
              \/ StartRescue \/ RescueItem \/ RescueSibling \/ EndRescue

RankNext == Next /\ UNCHANGED searchVars

RecommendSpec == RecommendInit /\ [][SearchNext \/ RankNext]_allVars

-----------------------------------------------------------------------------
(* Properties.                                                             *)

Shortlisted == stage \notin {"collect", "filter", "plan", "cover"} /\ hub # {}

\* A repository that cannot fit is inspected only after every one that may fit is.
FallbackIsLast ==
    Shortlisted => \A c \in ToSet(kept) :
        Mode(c) # "too_large" /\ (\E i \in DOMAIN picked : picked[i].how = "too_large")
            => \E i \in DOMAIN picked : picked[i].c = c

\* The first repository inspected is in the best placement class the machine offers and
\* larger than the small classes when that class has a larger one, on every machine.
LargerFirst ==
    Shortlisted /\ ShortlistMax > 0 =>
        LET fit == {c \in ToSet(kept) : Mode(c) \notin {"unknown", "too_large"}}
            best == {c \in fit : \A d \in fit : ModeOrder(c) =< ModeOrder(d)}
        IN  best # {} => /\ picked[1].c \in best
                         /\ (\E c \in best : ~Small(c)) => ~Small(picked[1].c)

\* The bands asked for tile the sizes the machine can hold: none is asked for twice and none
\* is missed above the lowest edge.
BandsTile ==
    stage = "plan" =>
        LET bands == SizeBands(largest)
            low == IF SmallCovered THEN 0 ELSE 40
        IN  \A n \in UNION {{e, e + 1} : e \in Edges \cup {0, 20, largest}} :
                Cardinality({i \in DOMAIN bands : bands[i][1] < n /\ n =< bands[i][2]})
                    = Flag(low < n /\ n =< largest)

\* A candidate without a placement has been replaced, or every re-upload it stands for was
\* tried, or the inspections ran out.
RescueIsThorough ==
    stage = "enrich" /\ hub # {} => \A r \in DOMAIN alts, i \in DOMAIN picked :
        picked[i].c.repo = r /\ ~Placed(picked[i].c.inspect) =>
            \/ spent = ExtraMax
            \/ \E c \in ToSet(alts[r]) : c.inspect \in ToSet(pool) /\ Placed(c.inspect)
            \/ \A c \in ToSet(alts[r]) : c.repo \in seen

\* Alternatives cost at most the inspections they were given, whatever is shared between the
\* known variants, the targeted searches and the re-uploads.
ExtraIsBounded == extra =< ExtraMax /\ spent =< ExtraMax /\ searches =< SearchesMax

\* The inspections, of which there are few, go where they help: first to what fits, the larger
\* ones first, and then to whatever may still give a model a placement.
ShortlistIsThorough ==
    FallbackIsLast /\ LargerFirst /\ BandsTile /\ RescueIsThorough /\ ExtraIsBounded
=============================================================================
