------------------------ MODULE MCCandidateShortlist ------------------------
(* Small instances of CandidateShortlist and PlanRanking for TLC.          *)
EXTENDS CandidateShortlist

\* 1 / (1 + exp(-1.8 (log10(n * 10^9) - 9.5))), in percent; the default for unknown.
MCSizeCurve == [n \in {0, 1, 3, 8, 14} |->
    CASE n = 0 -> 50 [] n = 1 -> 29 [] n = 3 -> 49 [] n = 8 -> 67 [] n = 14 -> 76]

MCQualityOrder == <<"F16", "Q8_0", "Q6_K", "Q5_K_M", "Q4_K_M", "Q3_K_M", "IQ1_S">>

MCLadder == [quality  |-> <<"Q6_K", "Q5_K_M", "Q4_K_M", "Q3_K_M">>,
             balanced |-> <<"Q5_K_M", "Q4_K_M", "Q3_K_M">>,
             speed    |-> <<"Q4_K_M", "Q3_K_M">>,
             memory   |-> <<"Q3_K_M">>]

Fit(quant, status, bytes) ==
    [quant |-> quant, status |-> status, bytes |-> bytes, confidence |-> "high",
     support |-> "yes", runtime |-> "llama_cpp", launch |-> "executable",
     theoretical |-> FALSE, measured |-> 0, score |-> None, tps |-> None]

Scored(v, n) == [v EXCEPT !.score = n, !.tps = n]

Base == [repo |-> 1, model |-> "m1", family |-> "f1", size |-> 8, license |-> "allowed",
         language |-> "declared", hits |-> 2, strong |-> 1, textgen |-> TRUE, negative |-> FALSE,
         signals |-> {"chat", "instruct"}, metadata |-> "high", artifact |-> 90, downloads |-> 5,
         gguf |-> TRUE, chosen |-> "Q4_K_M", composite |-> 70, failed |-> FALSE,
         variants |-> <<Scored(Fit("Q4_K_M", "comfortable", 5), 2),
                        Fit("Q6_K", "tight", 8), Fit("IQ1_S", "comfortable", 2)>>]

\* The same bytes in another repository, two models tied with the first on every axis and
\* measured faster and slower, a small one, a large one that needs offloading, one whose
\* estimate is missing, one for a restricted licence, a base model, a Transformers
\* repository and a failed inspection.
MCCandidates ==
    {Base,
     [Base EXCEPT !.repo = 2, !.downloads = 9, !.chosen = "Q6_K",
                  !.variants = <<Fit("Q4_K_M", "comfortable", 5), Fit("Q6_K", "tight", 8),
                                 Fit("Q5_K_M", "compatible", 6), Fit("Q3_K_M", "comfortable", 4)>>],
     [Base EXCEPT !.repo = 3, !.model = "m2", !.composite = 60,
                  !.variants = <<Scored(Fit("Q4_K_M", "comfortable", 5), 3)>>],
     [Base EXCEPT !.repo = 4, !.model = "m3", !.family = "f2", !.composite = 80,
                  !.variants = <<Scored(Fit("Q4_K_M", "comfortable", 5), 1)>>],
     [Base EXCEPT !.repo = 5, !.model = "m4", !.size = 1, !.family = None, !.hits = 0,
                  !.language = "other", !.variants = <<Fit("Q4_K_M", "comfortable", 1)>>],
     [Base EXCEPT !.repo = 6, !.model = "m5", !.size = 14, !.license = "unclear",
                  !.variants = <<Fit("Q4_K_M", "offloading", 9),
                                 [Fit("F16", "insufficient", 30) EXCEPT !.runtime = "unknown"]>>],
     [Base EXCEPT !.repo = 7, !.model = "m6", !.size = 14, !.composite = 90,
                  !.variants = <<[Fit("Q4_K_M", "unknown", None) EXCEPT !.confidence = "unknown"]>>],
     [Base EXCEPT !.repo = 8, !.model = "m7", !.size = 3, !.license = "restricted",
                  !.signals = {"base"}, !.negative = TRUE, !.language = "undeclared",
                  !.variants = <<Scored(Fit("Q4_K_M", "compatible", 3), 4)>>],
     [Base EXCEPT !.repo = 9, !.model = "m8", !.size = 0, !.gguf = FALSE, !.metadata = "low",
                  !.language = "multilingual", !.hits = 0, !.signals = {"instruct"},
                  !.variants = <<[Fit("F16", "compatible", 9) EXCEPT !.runtime = "transformers"],
                                 [Fit("Q8_0", "comfortable", 5) EXCEPT
                                     !.runtime = "transformers", !.theoretical = TRUE,
                                     !.support = "no", !.launch = "unsupported"],
                                 [Fit("Q4_K_M", "none", None) EXCEPT
                                     !.runtime = "transformers", !.support = "unknown",
                                     !.launch = "unknown"]>>],
     [Base EXCEPT !.repo = 10, !.model = "m9", !.failed = TRUE]}

-----------------------------------------------------------------------------
\* What a search says of a repository, and what its inspection yields.
Repo(n, log, size, family, base) ==
    [repo |-> n, log |-> log, size |-> size, family |-> family, base |-> base, gguf |-> TRUE,
     hint |-> "Q4", text |-> TRUE, other |-> FALSE, unusable |-> FALSE, penalties |-> 0,
     inspect |-> [Base EXCEPT !.repo = n, !.model = base, !.family = family,
                              !.size = IF size \in {10, 30, 80, 140} THEN size \div 10 ELSE 0]]

Original == [Repo(24, 950, 140, "ll", "b2") EXCEPT
                !.gguf = FALSE, !.hint = "F16", !.inspect.gguf = FALSE,
                !.inspect.variants = <<Fit("F16", "insufficient", 30)>>]

Awq(n) == [Original EXCEPT !.repo = n, !.inspect.repo = n, !.hint = "AWQ", !.log = 900 + n]

Popular == [Repo(32, 999, 140, "ll", "b2") EXCEPT
                !.inspect.license = "restricted",
                !.inspect.variants = <<Fit("Q4_K_M", "insufficient", 9)>>]

Seen(r, status) == [r EXCEPT !.inspect.variants = <<Fit("Q4_K_M", status, 5)>>]

\* Two re-uploads of one base after a popular one that does not fit; a Transformers original
\* with GGUF and AWQ variants; one without a size; small ones, one of them for another task;
\* a huge one; one whose inspection fails.
MCRepos ==
    {Seen(Repo(21, 900, 80, "qw", "b1"), "insufficient"),
     Seen(Repo(22, 700, 80, "qw", "b1"), "insufficient"),
     Seen(Repo(23, 700, 80, "qw", "b1"), "comfortable"),
     Original, Seen(Repo(25, 300, 140, "ll", "b2"), "comfortable"),
     Repo(26, 600, 0, "mi", "b3"), Awq(27), Popular,
     [Repo(28, 800, 30, "ge", "b5") EXCEPT !.other = TRUE],
     Repo(29, 800, 30, "mi", "b6"), Repo(30, 995, 700, "hu", "b7"),
     [Repo(31, 650, 10, "qw", "b8") EXCEPT !.inspect.failed = TRUE, !.penalties = 1]}

\* The original and the popular one with any four others, and with more variants than the
\* inspections allow.
MCHubs == {H \in SUBSET MCRepos : Cardinality(H) = 6 /\ {Original, Popular} \subseteq H}
          \cup {{Original, Popular, Awq(27), Awq(33)}
                \cup {r \in MCRepos : r.repo \in {25, 26, 29}}}

MCMachines == {[ram |-> 1600, vram |-> None, backends |-> {}, shared |-> FALSE],
               [ram |-> 3200, vram |-> 800, backends |-> {"cuda"}, shared |-> FALSE],
               [ram |-> 6400, vram |-> 2400, backends |-> {"vulkan"}, shared |-> FALSE]}
=============================================================================
