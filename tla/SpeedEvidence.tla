--------------------------- MODULE SpeedEvidence ---------------------------
(***************************************************************************)
(* What saved records say about an execution plan: the ticks of the paths  *)
(* and results screens (tui/evidence.py), the measured speed of a plan     *)
(* (recommendation/local_evidence.py) and its text                         *)
(* (presentation/speed.py), and the comparison of saved benchmarks         *)
(* (evaluation/benchmark_comparison.py).                                   *)
(*                                                                         *)
(* A record is read back, never interpreted: what its command line, output *)
(* and protocol say of the run matters only as the set "faults" of the     *)
(* requirements of llama_bench_v2 it misses.  "at" is the instant it was   *)
(* saved, which also names it: a store refuses a second record of one id.  *)
(* "device" is the accelerator the runtime's own output names.             *)
(***************************************************************************)
EXTENDS Integers, Sequences, FiniteSets, SequencesExt

CONSTANTS
    Granularity,  \* EVIDENCE_MEMORY_GRANULARITY, in units of memory
    None

ASSUME SpeedAssumption == Granularity \in Nat \ {0}

\* _METHODOLOGIES_BY_RUNTIME: the preferred methodology first.
Methodologies == [llama |-> <<"v2", "v1">>, transformers |-> <<"v3">>]

-----------------------------------------------------------------------------
(* Which records are of this machine and of these bytes.                   *)

\* round(memory / granularity), halves to the even multiple.
Rounded(memory) ==
    LET q == memory \div Granularity
        r == 2 * (memory % Granularity)
    IN  IF r < Granularity \/ (r = Granularity /\ q % 2 = 0) THEN q ELSE q + 1

SameMachine(x, y) == x.host = y.host /\ Rounded(x.memory) = Rounded(y.memory)

\* local_evidence: the same identity, or the same bytes under the same name.
SameArtifact(p, r) ==
    /\ p.sha = None \/ r.sha = None \/ p.sha = r.sha
    /\ p.repo = r.repo /\ p.file = r.file
    /\ \/ p.revision = r.revision /\ p.quant = r.quant
       \/ p.sha # None /\ p.sha = r.sha

\* A mutant: the revision must be the plan's as well.
SameBytesAndRevision(p, r) ==
    IF p.sha # None THEN r.sha = p.sha /\ r.revision = p.revision
    ELSE p.revision # None /\ r.revision = p.revision /\ r.file = p.file

\* evidence: the same bytes, or the same file of a pinned revision.
SameBytes(p, r) ==
    IF p.sha # None THEN r.sha = p.sha
    ELSE p.revision # None /\ r.revision = p.revision /\ r.file = p.file

\* _artifact_key of a plan or of a record.
EvidenceKey(x) == <<x.repo, x.runtime, IF x.quant # None THEN x.quant ELSE x.file>>

SameMachineAndArtifact(p, r) ==
    /\ EvidenceKey(p) = EvidenceKey(r)
    /\ SameMachine(p, r) /\ SameBytes(p, r)

CommonMatches(p, r) ==
    SameMachine(p, r) /\ p.runtime = r.runtime /\ SameArtifact(p, r)

-----------------------------------------------------------------------------
(* Benchmarks.                                                             *)

Benchmarks(R) == {r \in R : r.kind = "benchmark"}

\* matching_benchmark of one record.  "layers" is 0 when a CPU plan has no flag;
\* for Transformers it stands for the precision of the weights.
Matches(p, r) ==
    /\ CommonMatches(p, r)
    /\ r.backend = p.backend
    /\ r.success
    /\ \E i \in DOMAIN Methodologies[p.runtime] : Methodologies[p.runtime][i] = r.method
    /\ r.tg # None
    /\ r.layers = p.layers

\* matching_benchmark: the preferred methodology first, then the newest.
BestMatch(p, R) ==
    LET fit == {r \in Benchmarks(R) : Matches(p, r)}
        preferred == {r \in fit : r.method = Methodologies[p.runtime][1]}
        pool == IF preferred # {} THEN preferred ELSE fit
    IN  IF pool = {} THEN None ELSE CHOOSE r \in pool : \A s \in pool : s.at =< r.at

\* _protocol_blockers: llama_bench_v1 never says what the run applied.
ProtocolBlockers(r) == r.faults \cup (IF r.method = "v2" THEN {} ELSE {"protocol"})

\* fastest_record_blockers
RecordBlockers(r) ==
    ProtocolBlockers(r)
    \cup (IF r.success /\ r.exit0 THEN {} ELSE {"exit"})
    \cup (IF r.runtime = "llama" THEN {} ELSE {"runtime"})
    \cup (IF r.sha # None THEN {} ELSE {"sha"})

\* The driver of the cards of one backend; a CPU run has none.
EnvironmentFits(p, r) == r.driver # None /\ r.driver = p.driver

\* fastest_benchmark_blockers
Blockers(p, single, r) ==
    RecordBlockers(r)
    \cup (IF single THEN {} ELSE {"workload"})
    \cup (IF p.sha # None /\ p.sha = r.sha THEN {} ELSE {"bytes"})
    \cup (IF Matches(p, r) THEN {} ELSE {"match"})
    \cup (IF r.backend = "cpu" \/ (p.device # None /\ r.device = p.device) THEN {} ELSE {"device"})
    \cup (IF r.backend = "cpu" \/ EnvironmentFits(p, r) THEN {} ELSE {"driver"})

\* speed_cohort
Cohort(r) ==
    <<r.host, Rounded(r.memory), r.driver, r.method, r.build, r.backend, r.device>>

Eligible(p, single, R) ==
    {r \in Benchmarks(R) : Blockers(p, single, r) = {} /\ r.tg \notin {None, 0}}

Newest(R) == CHOOSE r \in R : \A s \in R : s.at =< r.at

\* Twice the median.
TwiceMedian(figures) ==
    LET s == SortSeq(figures, LAMBDA a, b : a < b)
        n == Len(s)
    IN  IF n % 2 = 1 THEN 2 * s[(n + 1) \div 2] ELSE s[n \div 2] + s[n \div 2 + 1]

\* assess_speed: the runs of the newest eligible record's cohort.
MeasuredRuns(p, single, R) ==
    LET fit == Eligible(p, single, R)
    IN  {r \in fit : Cohort(r) = Cohort(Newest(fit))}

\* historical_speed_benchmarks
History(p, R) ==
    {r \in Benchmarks(R) : /\ r.exit0
                           /\ p.sha = None \/ r.sha = None \/ p.sha = r.sha
                           /\ Matches(p, r)}

\* The newest of the measured runs, else what was found in the history.
ReadoutOf(runs, past) ==
    LET InTime == SetToSortSeq(runs, LAMBDA a, b : a.at < b.at)
    IN  IF runs # {}
        THEN [source |-> "measured", figure |-> Newest(runs).tg,
              ranking |-> TwiceMedian([i \in DOMAIN InTime |-> InTime[i].tg])]
        ELSE IF past # None
        THEN [source |-> "historical", figure |-> past.tg, ranking |-> None]
        ELSE [source |-> "unknown", figure |-> None, ranking |-> None]

\* speed_readout
Readout(p, single, R) == ReadoutOf(MeasuredRuns(p, single, R), BestMatch(p, History(p, R)))

-----------------------------------------------------------------------------
(* The ticks of a plan.  An index holds no failed record.                  *)

Indexed(R) == {r \in R : r.kind = "quality" \/ r.success}

\* _experiment_matches_plan
ExperimentMatches(p, r) ==
    /\ r.kind = "experiment"
    /\ SameMachineAndArtifact(p, r)
    /\ r.backend = p.backend
    /\ p.backend = "cpu" \/ r.device = p.device

\* _benchmark_matches_plan
BenchmarkMatches(p, r) ==
    /\ r.kind = "benchmark"
    /\ SameMachineAndArtifact(p, r)
    /\ r.backend = p.backend
    /\ p.backend = "cpu" \/ (p.device # None /\ r.device = p.device)

\* EvidenceIndex.for_plan
Validated(p, R) == \E r \in Indexed(R) : ExperimentMatches(p, r)
Benchmarked(p, R) == \E r \in Indexed(R) : BenchmarkMatches(p, r)
BenchmarkHistory(p, R) ==
    {r \in Benchmarks(Indexed(R)) : /\ EvidenceKey(p) = EvidenceKey(r)
                                    /\ r.backend = p.backend
                                    /\ SameMachineAndArtifact(p, r) \/ r \in History(p, R)}
QualityOf(p, R) ==
    {r \in R : r.kind = "quality" /\ p.runtime = "llama" /\ p.sha # None /\ r.sha = p.sha}

-----------------------------------------------------------------------------
(* Saved benchmarks of one model compared.                                 *)

\* _configuration_key, without and with the methodology.
Setting(r) == <<r.host, r.memory, r.repo, r.file, r.revision, r.sha, r.quant, r.runtime,
                r.build, r.backend, r.device, r.layers>>
Configuration(r) == <<Setting(r), r.method>>

\* _prefer_current_methodologies
Preferred(R) ==
    {r \in R : LET best == Methodologies[r.runtime][1]
                   group == {s \in R : Setting(s) = Setting(r)}
               IN  r.method = best \/ \A s \in group : s.method # best}

\* The last successful record of each configuration.
LastRecords(R) ==
    LET kept == Preferred({r \in R : r.success})
    IN  {r \in kept : \A s \in kept : Configuration(s) = Configuration(r) => s.at =< r.at}

\* _latest_records_by_configuration, oldest first.
Latest(R) == SetToSortSeq(LastRecords(R), LAMBDA a, b : a.at < b.at)

Label(r) == <<r.runtime, r.quant, r.backend>>

Kinds == {"tg", "pp"}
Figure(r, k) == IF k = "tg" THEN r.tg ELSE r.pp

\* _metric_comparisons: every later record against the first.
Metrics(R) ==
    LET c == Latest(R)
    IN  {m \in (2..Len(c)) \X Kinds :
            Figure(c[1], m[2]) \notin {None, 0} /\ Figure(c[m[1]], m[2]) # None}

\* _benchmark_metric_values: figures by label, one label after the other; each
\* comparison writes the first record's figure again, then the later record's.
ShownFigure(R, i, k) ==
    LET c == Latest(R)
        rows == {m[1] : m \in {n \in Metrics(R) : n[2] = k}}
        same == {j \in rows : Label(c[j]) = Label(c[i])}
        LastOf(J) == CHOOSE j \in J : \A l \in J : l =< j
    IN  IF Label(c[i]) = Label(c[1]) /\ rows # {} /\ LastOf(rows) \notin same THEN Figure(c[1], k)
        ELSE IF same # {} THEN Figure(c[LastOf(same)], k)
        ELSE None
=============================================================================
