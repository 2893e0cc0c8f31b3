# Jaull in TLA+

Jaull recommends local language models: it scans the machine, searches the Hugging
Face Hub, ranks execution plans, downloads and verifies model files, runs and measures
them, and keeps the measurements as evidence for later rankings.  This directory holds
TLA+ modules of the parts of `src/src/jaull` whose correctness depends on order,
failure, concurrency or arithmetic at a boundary, the TLC runs that check them and the
TLAPS proofs that go with them.  Paths below are relative to `src/src/jaull` unless they
start with `src/`.

    tlc -workers 2 -config Search.cfg DiscoveryScreen
    tlapm SearchWorkflowProofs.tla

## The system

### Components, their state and operations

| Component | State | Operations | What makes it correct |
|---|---|---|---|
| Measured policy, `recommendation/shadow.py` | a ranked pool (base order, stratum and evidence of each plan), the order returned | apply the policy after Search; Recompare with refreshed evidence | a permutation, no stratum crossed, demonstrable pairs honoured and nothing else moved, no memory of earlier proposals |
| Artifact store, `artifacts/` | model files and SHA-256 sidecars of a repository folder | resolve, download, verify, delete | a digest belongs to the bytes beside it, after any failure or crash |
| Guided search, `workflow/` | the stage, queries, three thread pools, the run cache, progress, the cancel flag | one search from queries to ranking | every candidate evaluated once, no thread left, cancel respected, an outage is not an empty result, it ends |
| Discovery screen, `tui/screens/model_discovery.py` | what is shown, the closing flag, posted messages | run, cancel, retry, leave | only wanted results are shown, nothing after leaving, every search ends on screen |
| Model discovery, `discovery/`, `application/discovery` | none beyond a search | queries, filter, groups, shortlist, alternatives, rescue | bounds and quotas kept, the best artifact of a shortlisted model is not missed |
| Hub client, analyzers, metadata and caches, `adapters/`, `analyzers/`, `metadata/` | cache entries on disk, windows of a remote file | inspect, read a header, resolve the base model, get and put with expiry | answers no older than asked for, bounded reads, a torn entry is a miss |
| Estimator, `estimator/` | none | sizes, KV cache, overhead, the ladder of configurations, placement | the placement agrees with its own figures at every boundary, nothing feasible is skipped |
| Plan ranking, `recommendation/`, `application/recommendation` | none: a function of candidates, requirements and evidence | assess, order, select, diversify, label | viable plans first, an order its criteria explain |
| Hardware detection, `hardware/` | the devices three probes saw | probe, merge | one accelerator per card, memory of the right one |
| Runtimes, `runtime/`, `application/execution` | installations on disk, probe caches | locate, probe, match the device, layers, readiness, launch | the launch runs on the device that was selected, within what is free, or not at all |
| Host execution, `execution/host.py` | the child process, the deadline, the observation | spawn, wait, terminate, kill, drain | no child left behind, the observation is what happened |
| Launch screens, `tui/screens/recommendation_{execution,validation,benchmark}.py` | the start button, message queue, worker, remembered artifact and launch, the result shown | press, close, saved history, prepare, check, launch, record, save | failures become records, the shown record is the last one, no screen stays busy |
| Experiments and benchmarks, `experiments/`, `benchmarks/` | one JSON record per run | preflight, run, save, load, re-evaluate | what counts as a speed was measured where it says, every configuration is accounted for |
| Quality evaluation, `advisor/quality*.py`, `evaluation/quality_*.py`, its screen | a batch of candidates, an evaluation child, records on disk | prepare, select, run, interrupt, persist, look up | a record is complete or absent, an interrupt ends the child, a success leaves nothing behind, the screen is held while it works |
| Pilot, `src/scripts/quality_eval_smoke.py`, `src/pilot/quality_eval`, `runtime/quality_eval_runner.py` | a model server, a container, a result file | start, measure, clean up, escalate | whatever is owned is given back before a success |
| Evidence readers, `tui/evidence.py`, `recommendation/local_evidence.py`, `evaluation/` | none: functions of the stores | ticks of a plan, measured speed, comparisons | only records of this machine, artifact and method count |
| Results and paths screens, `tui/screens/recommendation_results.py`, `execution_paths.py` | rows, the index read last, the path selected, the stack | refresh, compare, select, filter, recheck, open, back | what was saved is shown, actions belong to the selection |
| Cases, navigation, command line, reporting, scripts | none worth a model | sequential drivers, wording | see "Not modelled" |

### How they interact

The screens own one worker thread each (`ThreadPoolExecutor(max_workers=1)`), submit
blocking calls of `AdvisorService` to it and get the outcome as a message of the Textual
event loop.  A search runs three further pools inside that call.  Measurements launch a
child process through `HostExecutionBackend` (the quality pilot through a loop of its own)
and write records which the evidence index reads back for the policy and the screens.
Nothing but the file system connects two Jaull processes.

### What is hard

- user, event loop, worker, pool threads and child interleave; a press or a key may be
  queued before the state that forbids it is visible;
- a cancel flag is polled, between a check and the step that follows it anything happens;
- an inspection, a read, a save or the child may fail at any point, and exceptions
  travel through futures that nobody reads;
- a deadline races the exit of the child, an interrupt races its cleanup;
- a crash falls between two system calls on files that belong together;
- two processes share stores and caches without a lock, and the Hub moves under both;
- devices are numbered by each runtime on its own and may be numbered anew between a
  probe and the run it was made for;
- placement and layer counts are quotients of floats at a boundary;
- interval comparisons are not transitive, so "honour every pair" may be unsatisfiable.

`PROJECT.json` lists the hazards with their lines and the properties that cover them.

## Modules

| Module | Models | State and actions |
|---|---|---|
| `MeasuredPolicy` | `recommendation/shadow.py` | `order` is the list `_shadow_order` rewrites in place. `TakeGroup`, `PlaceLast` and `FinishGroup` are the two nested loops; `Return` and `Recompare` the callers. A plan is its base position. |
| `ArtifactStore` | `artifacts/service.py`, `artifacts/storage.py` | one action per system call of `download`, `verify` and `delete`; `Resolve` with the promotion of a local file; `Die` forgets the process and keeps the disk. Contents stand for their digests. |
| `SearchWorkflow` | `workflow/`, parts of `discovery/` and `application/recommendation/alternatives.py` | `stage` and `pc` are the thread of `run_workflow`, which alternates between `Check` of the cancel flag and one action; `task[i]` the futures of the current pool; `entry` one key of the run cache. |
| `DiscoveryScreen` | `tui/screens/model_discovery.py`; extends `SearchWorkflow` | the worker posts one message, the event loop handles it, the user cancels, retries or leaves at any moment |
| `CandidateShortlist` | `discovery/`, `application/recommendation/alternatives.py`, `application/discovery`; extends `PlanRanking` | search, filter, shortlist and the tries for alternatives as steps that spend one budget of inspections |
| `PlanRanking` | `recommendation/engine_v2.py`, `selection.py`, `diversity.py`, `tier.py`, `actionability.py` | operators for the axes, keys and criteria; one step per pass over the order |
| `ModelInspection` | Hub client, analyzers, `metadata/`, `adapters/cache` | each inspector is a record of its place and locals; one action per request, cache access and replacement; `Push` and `Tick` are the Hub's |
| `HardwareFit`, `ConfigurationLadder`, `PredictionComparison` | `estimator/`, `evaluation/comparison.py`, `experiments/reevaluation.py`; each extends the one before | an iteration of a search loop is a step; a walk over the ladder, a run and its comparison follow; `Reestimate`, `PlaceAgain` and `Recompare` are `reevaluate()` of the stored record |
| `HardwareDetection`, `RuntimeReadiness`, `LaunchPolicy`, `LaunchPlanning` | `hardware/`, `runtime/`, `application/execution`, `advisor/service.py`; each extends the one before | probes one after the other; then inspection, offer, preparation, with `Change` of the machine in between |
| `RuntimeLocator`, `DeviceMatching` | `runtime/locator.py`, `runtime/device_matching.py` | operators, used by `LaunchPlanning` and `BenchmarkRun` as instances |
| `HostExecution` | `execution/host.py` | `host` is where `execute` is, `child` the process; `Spawn`, `Collect`, `Deadline`, `Kill`, `Drain` |
| `LaunchScreen` | the three launch screens, `experiments/runner.py`, the record stores, `AdvisorService.prepare_execution_plan`; extends `HostExecution` | `inbox` is the message queue, `at` the place of the worker, `jobs` what its executor holds |
| `BenchmarkRun` | `benchmarks/matrix.py`, `runtime/llama_bench_runner.py` and the other runners, `AdvisorService.benchmark_plan_speed` and `run_benchmark`; extends `HostExecution` | one command after another, each with what the machine was when it started (`truth`, for the properties only) |
| `SpeedEvidence`, `PathsScreen`, `ResultsScreen` | `tui/evidence.py`, `recommendation/local_evidence.py`, the two screens; each extends the one before, and `BenchmarkRun` uses the first as an instance | reads of the stores while records are saved; presses and messages in order |
| `QualityPilot`, `QualityPreparation`, `QualityScreen` | `runtime/quality_eval_runner.py` and the pilot; `advisor/quality*.py`; the screen, which extends the first two | `jobs`, `worker` and `inbox` hold at most one operation; `invoke` and `child` are the escalation and the pilot |
| `QualityStore` | `evaluation/quality_storage.py`, `quality_records.py` | writers system call by system call with failures and deaths, readers that list and read |
| `EvidenceLog` | what a record store promises | `QualityStore` implements it: `INSTANCE EvidenceLog WITH Records <- Record, log <- StoredRecords` |
| `MC*` | | inputs, machines, jobs and repositories for TLC |
| `*Proofs` | | theorems of the module they are named after, `SearchWorkflowProofs` also of `DiscoveryScreen` |

An action is a whole handler or the stretch of code between two points where another
actor can act.  Mutants (`Mutant of ...` in a comment) stand before the definition they
change: each states a plausible bug that the named property must catch.

What stands for what: names and payloads are model values or members of small sets, and
two names may differ by an annotation where the code compares names.  Files stand for
their digest.  `HardwareFit` counts memory in small units and keeps the one effect of
floats that decides something, a product that lands above a whole number (`slack`).
A prediction in `PredictionComparison` is the whole estimate, with a fit or without one;
what a record keeps is the analysis the Validate screen stores, without header, base model
and safetensors summary, so the estimate made again is in general another one (`Own`), and
may have no size at all.  It is estimated on the machine of the record; an estimate that
raises is left out.  `LaunchPolicy` has one reserve, where the fit's is raised to 1 GiB for
GGUF and the launch policy reads the configured one.  The records of `quality_store` are of
one identity.  `QualityPreparation` leaves out the external server that only the command
line starts.

## Runs

| Run | Module | Checks | Distinct states |
|---|---|---|---|
| `policy` | `MCMeasuredPolicy` | `OrderRespectsStrata`, `OrderFollowsEvidence`, `MovesNeedDemonstration`, `ProposalIsNotPathDependent` | 3.4 M |
| `artifact_store` | `ArtifactStore` | `SidecarCertifiesBytes`, `DownloadIsKept`, `VerificationIsHonest` | 3.2 M |
| `search` | `DiscoveryScreen` | `RunEndsWell`, `WorkIsShared`, `ShownResultsAreWanted`, `SearchEndsOnScreen` | 298 k |
| `launch` | `LaunchScreen` | `ExecutionEndsClean`, `ScreenFollowsItsRuns`, `MeasurementEnds` | 51 k |
| `quality` | `MCQualityScreen` | `ResultMeansClean`, `ScreenHoldsItsWork`, `CancelEnds` | 1.5 M |
| `quality_store` | `MCQualityStore` | `LookupIsASnapshot`, `ImplementsLog`, `AppliedAnswerIsStable` | 643 k |
| `ranking` | `MCCandidateShortlist` | `ViabilityFirst`, `OrderIsExplained`, `ShortlistIsThorough` | 151 k |
| `inspection` | `MCModelInspection` | `AnswersAreCurrent`, `PartSuffices`, `EntriesStayReadable` | 726 k |
| `planning` | `MCConfigurationLadder` | `PlacementFits`, `NothingSkipped`, `ChoiceFollowsLadder`, `ComparisonIsFair` | 2.2 M |
| `launch_planning` | `MCLaunchPlanning` | `PinIsTheSelectedCard`, `OffloadFitsBudget`, `ReadyIsTrue` | 2.0 M |
| `results` | `MCResultsScreen` | `SavedIsShown`, `ActionsFollowSelection`, `MeasuredIsBacked` | 417 k |
| `benchmark_run` | `MCBenchmarkRun` | `SpeedIsMeasured`, `RunsOnTheSelectedCard`, `EveryRunAccounted`, `JobEnds` | 747 k |

What each run shows is said in `PROJECT.json`; what each property says stands above it in
its module.

### Bounds

Only counters and sets of inputs are bounded.

- `policy`: three plans over two strata and the rejected one, six kinds of evidence, two
  Recompares.  Three plans are a pair beside a bystander, a group over two runs of a
  stratum, or a chain of overlapping ranges; two Recompares are needed to come back to
  the evidence Search saw by a detour.
- `artifact_store`: two files (siblings in one folder), two contents (a replaced file),
  one writer and one reader.
- `search`: `NQueries` 2 (a partial outage), `MaxTasks` 3 on `Workers` 2 (one task waits
  while two run, end together or fail), `MaxExtra` 1 (the budget is reached).  In the code
  these are the length of the query list, the shortlist and the budget.
- `launch`: `MaxRuns` 2, so that a second press waits in the queue, a history arrives
  late and a prompt reuses what an earlier one prepared.
- `quality`: two operations (`MaxOps`), two calls of a speed measurement (`MinCalls`),
  three plans shown of which two fit a batch.
- `quality_store`: writers that race for one name and for two, and one that dies.
- `ranking`: a pool of three (`MaxPool`), limits small enough that quotas, the budget of
  extra inspections and the last place are all reached.
- `inspection`: two inspectors and one push (`MaxRev` 2), which fall between any two
  requests; a window that doubles once and reaches its budget.
- `planning`: runs are recorded, and read back, on eight sizes of device memory and four
  of host memory (`RecordedOn`); the ladders are walked on all of them.
- `planning`, `launch_planning`: machines of every size up to the largest case, one
  change of the machine between scan, offer and preparation.
- `results`: three records (`MaxStore`), two jobs, one waiting message, two reads: a read
  overtaken by a save, and the one that repairs it.
- `benchmark_run`: two changes of the machine, one before and one after a device was
  confirmed; two offloads in a matrix.

Deadlock checking is off only where the system rests: a policy that returned, a search
that was shown, a screen that was left, a job that ended.

### Fairness

Liveness assumes weak fairness of the threads of Jaull only.  In `SearchWorkflow` the
thread of `run_workflow` and each pool worker are scheduled and every request of the Hub
client ends (the range reader sets a timeout, the Hub library has its own); in
`DiscoveryScreen` the event loop also handles what was posted.  In `LaunchScreen` the
event loop, the worker and the thread waiting for the child are scheduled and the clock
reaches the deadline; in `BenchmarkRun` the one thread and its waits.  In `QualityScreen`
the event loop, the worker and the waits of `_invoke` are scheduled, and a child that was
sent SIGKILL dies.  In `ResultsScreen` the worker of the Paths screen and its messages.
The user and the child owe nothing: a child that hangs for ever is killed by the deadline
or the escalation, and that `MeasurementEnds`, `JobEnds` and `CancelEnds` nevertheless is
part of what the runs show.

## Proofs

The theorems hold for every value of the constants under the named assumptions of the
modules.  Constants that only bound TLC's search (`MaxRuns`, `MaxOps`, `MaxRecompares`,
`MaxRev`) are arbitrary.  In each proof one lemma per action shows that it keeps the
inductive invariant; TLC checked the invariants on the runs before they were proved.

`MeasuredPolicyProofs` (`TypeCorrect`, `OrderIsPermutation`, `NoStratumCrossed`,
`BystandersUnmoved`, `DemonstrablePairs`, `QualityOrder`; with them `StrataRespected` and
`EvidenceFollowed`; `NoMoveWithoutDemonstration`, `ProposalIsAFunction`).  The loop rewrites
a shared list, so in the middle of it the list is no permutation; the invariant says that
a group has as many open slots as unplaced plans (`LoopInv`), that filled slots hold the
placed plans once each (`PlacedInv`), that waiting groups are untouched (`UntouchedInv`)
and that a filled slot holds a plan comparable with its own (`PlaceInv`).  The pairs
theorem adds that no unplaced plan is ordered behind a placed one; under Fastest a free
plan always exists because the slowest remaining range precedes nothing, and that argument
picks a minimum of a finite set.  A group without a demonstrable pair keeps the base order
because its open slots are then always the base positions of its unplaced plans.  That a
proposal depends on pool and evidence alone is a uniqueness argument: whatever the loop
builds is an order of which each position is determined by the later ones, and two such
orders have no last position where they differ.

`StoreProofs` has the two stores of files; it extends both, so the model store's
specification is named `ModelsSpec`. Of the models (`SidecarsAreTrue`, `DownloadsAreKept`,
`VerificationsAreHonest`; one writing process, any number of readers) the sidecar
invariant is not inductive alone: `DownloadInv` adds that a download has removed the
sidecar before it replaces the bytes, and that the bytes it hashed are still at the path
when it writes their digest. The second half is false with two writers. A completed
download is kept because readers leave the store alone; a verification reports what the
read before it stands for, and bytes never change under a sidecar that certifies them.

`SearchWorkflowProofs` (`TypeCorrect`, `NothingOutlivesTheRun`, `ShortlistIsComplete`,
`CacheAgrees`, `EmptyMeansAnswered`; with them `EndsWell` and `SharedWorkIsWhole`).
`PoolInv` says what each stage may find in the pool; the step that matters is that
`_evaluate` leaves its `with` block, by either door, only when every future is done or
cancelled.

The same module carries them over to the search screen, which runs one search after
another (`ResultsAreWanted`, `EverySearchEndsWell`, `EverySearchSharesItsWork`).  Every
step of the composition is a step of the search, a start of a new one after the last has
ended, or leaves it alone; `ScreenInv` adds that the message under way is the outcome of
the search on the screen, and that a cancelled search stays cancelled.

`LaunchScreenProofs` (`NothingIsLeftRunning`, `ObservationsAreTrue`, with them
`ExecutionsEndClean`; `TypeCorrect`, `EvidenceIsKept`, `ArtifactKeepsItsLaunch`,
`LastRunIsShown`, with them `RunsAreFollowed`), over the whole specification of the launch
screens.  `HostInv` describes each place of `execute`; the screen touches the host only to
launch and to take the observation.  Runs are taken in the order they were pressed
(`PressInv`, `OrderInv`), so at most one is under way, and `PlaceInv` says what the worker
knows of it at each place; a prompt of the Run screen waits for the one before, so what it
remembers is a pair, artifact and launch of one run (`PairInv`); records reach the event
loop in the order of their runs, so the last one shown is the newest.

Of the quality evaluations `StoreProofs` has `TypeCorrect`, `StoreImplementsLog`,
`SavedStaysReadable`, `LookupsAnswerFromOneMoment` and `AnswersAreOnlyWithdrawn`.  The refinement maps the log to
the records that can be read back under their names; the invariant says that a published
name holds a complete record for ever, because a link fails on a name that exists and a
temporary file is never read.  Every step then maps to an append, an acknowledgement or a
stutter.  The last theorem is an action property of the answer derived from the records:
they only accumulate, so a second answer can only withdraw the first.

`QualityScreenProofs` (`SuccessIsClean`, `ScreenIsHeld`).  `ChildInv` says what the pilot
owes at each place while nothing was raised; the success it reports comes after its
`finally` clause.  `PlaceInv` says that an operation is in exactly one place, the
executor's queue, the worker or the inbox, and that the screen is busy while it is; a
pilot runs only inside the worker's step for it, so a screen that is gone has none.

`ModelInspectionProofs` (`AnswersStayCurrent`, `EntriesAreNeverTorn`, `HeadersAreCheap`).
An entry of either cache is never older than the revision its key names: the key is the
stamp of a listing, the value was read after it, and the head only moves on.  With it,
what an inspection holds at each place follows (`ListingInv`, `AnalysisInv`, `HeaderInv`).
That a key looked up is a key of the cache needs that whatever is selected is one of the
variants of the listing.  The traffic bound is the sum of a geometric series: the windows
read so far are smaller than the next one, because each is at least twice the one before.

`BenchmarkRunProofs` (`MeasuredSpeeds`, `RunsWhereSelected`, `Accounts`).  The thread never sees what
its child runs on; `TruthInv` says that the child nevertheless runs what heads the queue,
on the present machine unless it changed since, and `ConfirmedInv` that the device of a
Vulkan head is still the one the binary itself lists for the accelerator.  Every record is
`Honest` when it is built, whatever the child printed, and nothing that is added to it
later makes it claim more.  Both theorems rest on `MachineAssumption`, which is what
joining devices by name takes for granted: numbers are unique in a listing, no renderer
of software goes by the accelerator's name, and a device that alone in its listing does
is the accelerator.  With two cards of one name, of which a binary lists only one, that
is not so, and neither the code nor the theorems can tell the cards apart.  `Accounts`
rests on `AccountInv`: what was asked is, in order, what has its outcome followed by what
heads and waits in the queue, and the records kept are those of the outcomes that say
they were saved.  What `Passing` selects is proved from its equations, each time at the
least length for which the claim could fail (`LeastNumber`).

`ResultsScreenProofs` (`ActionsFollow`, `SavedShown`, `MeasuredBacked`).  What a reader has
seen is a place in the stores, and the stores only grow: an index holds the same records
after later saves (`HeldKeeps`), and one begun later has seen no less (`NewestGrows`).
`FreshInv` says at which stage the read is that covers the last return to Results: still
waiting, begun after it, in the inbox as the last message, or shown.  The other half of
`SavedShown` and `MeasuredBacked` hold of every set of records.  `MeasuredBacked` rests on
`RecordAssumption`: the label of a GGUF file is read from its name, so a record and a plan
of one file have one label.  `NoneAssumption` keeps `None` apart from numbers and jobs.

### Only model-checked

- All liveness (`SearchEndsOnScreen`, `MeasurementEnds`, `CancelEnds`, `JobEnds`): fairness
  and `ENABLED` are out of the prover's reach.
- What is computed by recursion over data or by folds: the placements of
  `HardwareFit`, the ladder, the comparison, the ranking and the shortlist (`PlacementFits`,
  `NothingSkipped`, `ChoiceFollowsLadder`, `ComparisonIsFair`, `ViabilityFirst`,
  `OrderIsExplained`, `ShortlistIsThorough`), the sizes of header fields in `PartSuffices`.
  They would need induction over data.
- `PinIsTheSelectedCard`, `OffloadFitsBudget` and `ReadyIsTrue`, which rest on such
  operators.

## Where the code and its documents disagree

Met while modelling; no run checks them, the model follows the code.

Results and paths:

- Labels of compared configurations collide (`recommendation_results.py:1298`, against
  `src/README.md:220`), and a figure the baseline lacks is shown as not measured.
- A failed recheck leaves Run, Validate and Benchmark disabled under "Checking runtime
  readiness." (`_paths_failed`, `execution_paths.py:477`); its text stays after a later
  success; selecting, filtering or refreshed evidence during a recheck enables the actions
  again (`:487`).
- `src/README.md:349` says Recheck probes llama.cpp again; the button shows only with a
  Transformers path and refreshes only the PyTorch cache.
- Paths' `on_screen_resume` returns when a refresh is running; Results' resume overwrites
  plans that a candidate evaluation added to `_known_paths`.
- The rounding of memory in the fingerprint does not absorb a drift at a boundary
  (`hardware_fingerprint.py:13`); the comparison of benchmarks uses the exact fingerprint.

Runs and measurements:

- A Transformers model is loaded on "cuda", torch's first card, and its records match a
  plan without a look at the device.  CUDA and HIP accept the only listed device under any
  name; the experiment runner confirms the device for Vulkan only.  `run_benchmark` probes
  the version after the run, the matrix before.
- A configured llama.cpp whose `llama-bench` may not be executed is "not executable" for
  the CPU yet used for a GPU backend (`advisor/service.py:484`, `locator.py:222`).
- `reevaluate()` calls the comparison without the evidence of a placement
  (`reevaluation.py:147`), so a partial offload that was compared is not compared again.
- A validated GGUF model is estimated again without its header and base model
  (`recommendation_validation.py:790`, `estimator/service.py:214`): unless its repository
  has a `config.json`, the current prediction is "unknown" and is compared all the same.
  A Transformers model is sized anew from its files: nothing fills
  `ModelAnalysis.safetensors_summary` (`domain/model.py:117`).
- A validation whose raw log fails says it was not saved although its record was
  (`experiments/runner.py:187`, `errors.py:46`).
- The Run screen stays busy when the Hub is unreachable while it prepares the artifact
  (`recommendation_execution.py:247`, against `src/docs/ui.md:200`).
- A SIGINT inside the pilot's `finally` leaves its server (`quality_eval_runner.py:265`);
  a cancelled readiness check posts nothing (`quality_evaluation.py:731`); without a
  search an older readiness answer can enable Start for the new backend.

Stores and search:

- Two processes that download one file can leave the digest of one beside the bytes of
  the other (`artifacts/service.py:96`), and deleting a folder can remove a download that
  finished in between (`artifacts/storage.py:123`).  The proofs assume one writer.
- Escape on the error screen looks up a button the error screen removed
  (`model_discovery.py:243`).
- Under Balanced the pairs of five plans can form a cycle (`shadow.py:480`), which the
  comment at `:468` does not expect; one pair is then not honoured.
- Variety swaps plans that measurements had ordered (`diversity.py:110`, against `:42`).

Estimates and planning:

- A header whose key dimension follows a large tokenizer is accepted without it
  (`gguf_reader.py:148`); `--kv-dtype int4` gives a cache of no bytes (`kv_cache.py:34`).
- `_select_gguf` under Balanced may pick a later, aggressive rung;
  `lower_theoretical_confidence` never lowers; a CPU target is charged the device reserve.
- Two identical NVIDIA cards give a third accelerator from `vulkaninfo`; names are merged
  by other rules than devices are matched by (`detector.py:145`); planning and available
  memory take separate maxima.
- A CUDA plan estimated again with little memory becomes a CPU plan that keeps its
  `--device` (`advisor/service.py:1582`); an inspection left behind by the Paths screen
  swaps the installation after a preparation (`advisor/service.py:1945`, against
  `src/docs/llamacpp.md:113`).

## Not modelled

- Rendering, wording, logging, serialisation, command lines and parsing of output, except
  where what is told apart decides something.
- Processor, memory and disk probes, the transport of the Hub client, the file system
  below a system call (fsync is assumed to work).
- The process tree of a child and the pipes its descendants inherit.
- More than one visit to a launch screen at a time, and screens that open without a
  launchable plan (their button is never enabled).
- Cases (a store of files like the ones modelled), navigation between screens of static
  content, the scripts outside the program except the pilot, vLLM, the scoring of quality
  cases, the external evaluator's files, coefficients of the estimator and scores.

## Plan

1. Proofs about launch planning as far as they rest on one device and one budget: the pin
   is the selected card.
2. Lemmas about the placement arithmetic of `HardwareFit` for one iteration of a loop.
