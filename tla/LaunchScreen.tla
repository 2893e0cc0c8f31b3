---------------------------- MODULE LaunchScreen ----------------------------
(***************************************************************************)
(* One visit to a screen that launches a model: Run, Validate or Benchmark *)
(* (tui/screens/recommendation_execution.py, recommendation_validation.py  *)
(* and recommendation_benchmark.py), over the experiment runner and the    *)
(* host backend.                                                           *)
(*                                                                         *)
(* The user, the message loop of the screen, its single worker thread and  *)
(* the child process interleave.  A run of the screen is its number; the   *)
(* number of the run that prepared an artifact or a launch stands for it,  *)
(* and 0 for none, or for the launch of the plan the screen was opened     *)
(* with.                                                                   *)
(***************************************************************************)
EXTENDS HostExecution, Naturals, FiniteSets, Sequences

CONSTANTS
    Kinds,    \* the screens: a subset of {"run", "validate", "benchmark"}
    MaxRuns   \* bound on the runs of one visit

ASSUME LaunchAssumption == MaxRuns \in Nat /\ Kinds \subseteq {"run", "validate", "benchmark"}

Runs == 1..MaxRuns

Job == [run : 0..MaxRuns, artifact : 0..MaxRuns, runtime : 0..MaxRuns]

Message == [type : {"pressed", "saved", "done", "not_saved", "not_ready", "failed"},
            run : 0..MaxRuns, artifact : 0..MaxRuns, prepared : 0..MaxRuns]

Shown == [what : {"nothing", "history", "record"}, run : 0..MaxRuns, stored : BOOLEAN]

VARIABLES
    kind,      \* which screen this is
    plan,      \* whether it was opened with an execution plan
    open,      \* mounted; FALSE once the closing event is set
    button,    \* whether the start button is enabled
    prompt,    \* whether the composer of the Run screen holds text
    inbox,     \* messages of the screen, oldest first
    started,   \* runs started
    ended,     \* runs whose future is done
    jobs,      \* submitted and not yet taken by the worker
    at,        \* where the worker is
    job,       \* the job it is in
    prepared,  \* what that job prepared
    observed,  \* observed[r]: what run r's execution observed
    stored,    \* stored[r]: the observation in run r's record on disk
    lost,      \* runs whose record, or its log, could not be written
    shown,     \* the result area
    artifact,  \* the artifact the Run screen remembers
    launch     \* the prepared launch it remembers

userVars == <<open, prompt>>
viewVars == <<button, shown, artifact, launch>>
runVars == <<started, jobs>>
workVars == <<at, job, prepared, ended, observed, stored, lost>>

vars == <<kind, plan, userVars, viewVars, runVars, inbox, workVars, hostVars>>

Nothing == [what |-> "nothing", run |-> 0, stored |-> FALSE]

\* _future is not None and not _future.done()
Busy == started # 0 /\ started \notin ended

\* on_mount of a screen that may launch: otherwise its button is disabled for good.  A
\* benchmark takes the plan of the recommendation; the matrix of one without is left out.
Init ==
    /\ HostInit
    /\ kind \in Kinds /\ plan \in BOOLEAN /\ (kind = "benchmark" => plan)
    /\ open = TRUE /\ button = TRUE /\ prompt = FALSE
    /\ inbox = <<>> /\ started = 0 /\ ended = {}
    /\ jobs = IF plan /\ kind # "run" THEN <<[run |-> 0, artifact |-> 0, runtime |-> 0]>> ELSE <<>>
    /\ at = "idle" /\ job = [run |-> 0, artifact |-> 0, runtime |-> 0] /\ prepared = 0
    /\ observed = [r \in Runs |-> None] /\ stored = [r \in Runs |-> None] /\ lost = {}
    /\ shown = Nothing /\ artifact = 0 /\ launch = 0

-----------------------------------------------------------------------------
(* The user.                                                               *)

Type ==
    /\ open /\ kind = "run" /\ button /\ ~prompt
    /\ prompt' = TRUE
    /\ UNCHANGED <<kind, plan, open, viewVars, runVars, inbox, workVars, hostVars>>

PressedAt(box) == {i \in DOMAIN box : box[i].type = "pressed"}

\* A press is a message of its own: a second one may follow before it is handled.
Press ==
    /\ open /\ button /\ started + Cardinality(PressedAt(inbox)) < MaxRuns
    /\ inbox' = Append(inbox, [type |-> "pressed", run |-> 0, artifact |-> 0, prepared |-> 0])
    /\ UNCHANGED <<kind, plan, userVars, viewVars, runVars, workVars, hostVars>>

\* on_unmount: what has not begun is cancelled, what runs goes on.
Close ==
    /\ open
    /\ open' = FALSE /\ jobs' = <<>>
    /\ UNCHANGED <<kind, plan, prompt, viewVars, started, inbox, workVars, hostVars>>

-----------------------------------------------------------------------------
(* The message loop.                                                       *)

\* A handler returns at once when the screen is closing.
Handle(type) ==
    /\ inbox # <<>> /\ Head(inbox).type = type /\ inbox' = Tail(inbox)
    /\ UNCHANGED <<kind, plan, open, workVars, hostVars>>

Discard ==
    /\ ~open /\ inbox # <<>> /\ inbox' = Tail(inbox)
    /\ UNCHANGED <<kind, plan, userVars, viewVars, runVars, workVars, hostVars>>

Submit ==
    /\ started' = started + 1
    /\ jobs' = Append(jobs, [run |-> started + 1, artifact |-> artifact, runtime |-> launch])
    /\ button' = FALSE

\* _start_validation and _start_benchmark.
StartMeasurement ==
    /\ open /\ kind # "run" /\ Handle("pressed")
    /\ \/ Busy /\ UNCHANGED <<runVars, button, shown>>
       \/ ~Busy /\ Submit /\ shown' = Nothing
    /\ UNCHANGED <<prompt, artifact, launch>>

\* _start_generate: the prompt moves from the composer to the history.
StartGenerate ==
    /\ open /\ kind = "run" /\ Handle("pressed")
    /\ \/ ~prompt /\ UNCHANGED <<prompt, runVars, button>>
       \/ prompt /\ prompt' = FALSE /\ Submit
    /\ UNCHANGED <<shown, artifact, launch>>

\* A run started or finished meanwhile is newer than anything on disk.
HandleSaved ==
    /\ open /\ Handle("saved")
    /\ shown' = IF Busy \/ shown # Nothing THEN shown
                ELSE [what |-> "history", run |-> 0, stored |-> TRUE]
    /\ UNCHANGED <<prompt, runVars, button, artifact, launch>>

\* _validation_done, _validation_persistence_failed, _benchmark_done.
HandleRecord ==
    /\ open /\ kind # "run"
    /\ \E type \in {"done", "not_saved"} :
          /\ Handle(type)
          /\ shown' = [what |-> "record", run |-> Head(inbox).run, stored |-> type = "done"]
    /\ button' = TRUE
    /\ UNCHANGED <<prompt, runVars, artifact, launch>>

\* _validation_not_ready, _validation_failed, _benchmark_failed: the error is shown.
HandleError ==
    /\ open /\ kind # "run"
    /\ \E type \in {"not_ready", "failed"} : Handle(type)
    /\ button' = TRUE
    /\ UNCHANGED <<prompt, runVars, shown, artifact, launch>>

\* Mutant of HandleGeneration: a failure remembers the artifact alone.
HandleGenerationHalf ==
    /\ open /\ kind = "run"
    /\ \E type \in {"done", "failed"} : Handle(type)
    /\ LET m == Head(inbox) IN artifact' = IF m.artifact = 0 THEN artifact ELSE m.artifact
    /\ button' = TRUE
    /\ UNCHANGED <<prompt, runVars, shown, launch>>

\* _generation_done and _generation_failed: whatever was prepared is remembered.
HandleGeneration ==
    /\ open /\ kind = "run"
    /\ \E type \in {"done", "failed"} : Handle(type)
    /\ LET m == Head(inbox) IN
       /\ artifact' = IF m.artifact = 0 THEN artifact ELSE m.artifact
       /\ launch' = IF m.prepared = 0 THEN launch ELSE m.prepared
    /\ button' = TRUE
    /\ UNCHANGED <<prompt, runVars, shown>>

-----------------------------------------------------------------------------
(* The worker.                                                             *)

Worker(from, to) ==
    /\ at = from /\ at' = to
    /\ UNCHANGED <<kind, plan, userVars, viewVars, started>>

Quietly == UNCHANGED inbox

\* _post_*: nothing is posted to a closing screen.
Post(type, art, prep) ==
    inbox' = IF open THEN Append(inbox, [type |-> type, run |-> job.run, artifact |-> art,
                                         prepared |-> prep])
                     ELSE inbox

Take ==
    /\ jobs # <<>>
    /\ job' = Head(jobs) /\ jobs' = Tail(jobs) /\ prepared' = 0
    /\ Worker("idle", IF Head(jobs).run = 0 THEN "history"
                      ELSE IF Head(jobs).artifact = 0 THEN "prepare" ELSE "launch")
    /\ Quietly /\ UNCHANGED <<ended, observed, stored, lost, hostVars>>

\* _saved_worker: there may be records, none, or an unreadable store.
ReadHistory ==
    /\ Worker("history", "idle")
    /\ Post("saved", 0, 0) \/ Quietly
    /\ UNCHANGED <<jobs, job, prepared, ended, observed, stored, lost, hostVars>>

\* Mutant of Caught: every screen catches the errors it expects and no other.
CaughtExpected(error) == error = "expected"

\* The handlers of the three workers: the Run screen names the errors it expects, the
\* others catch every JaullError, OSError and ValueError.
Caught(error) == error = "expected" \/ kind # "run"

\* prepare_execution_plan, prepare_recommendation_artifact: inspection, estimate,
\* download and verification, any of which may fail.
PrepareFails ==
    /\ Worker("prepare", "return")
    /\ \E error \in {"expected", "hub_unavailable"} :
          IF Caught(error) THEN Post("failed", 0, 0) ELSE Quietly
    /\ UNCHANGED <<jobs, job, prepared, ended, observed, stored, lost, hostVars>>

Prepare ==
    /\ Worker("prepare", "check")
    /\ job' = [job EXCEPT !.artifact = job.run, !.runtime = IF plan THEN job.run ELSE @]
    /\ prepared' = IF plan THEN job.run ELSE 0
    /\ Quietly /\ UNCHANGED <<jobs, ended, observed, stored, lost, hostVars>>

\* The fresh readiness blocks: runtime_block_reason, or the preflight of the runner.
Blocked ==
    /\ Worker("check", "return")
    /\ \/ kind = "validate" /\ Post("not_ready", 0, 0)
       \/ kind # "run" /\ Post("failed", 0, 0)
       \/ kind = "run" /\ plan /\ Post("failed", 0, 0)
    /\ UNCHANGED <<jobs, job, prepared, ended, observed, stored, lost, hostVars>>

Ready ==
    /\ Worker("check", "launch")
    /\ Quietly /\ UNCHANGED <<jobs, job, prepared, ended, observed, stored, lost, hostVars>>

Launch ==
    /\ Worker("launch", "execute") /\ Spawn
    /\ Quietly /\ UNCHANGED <<jobs, job, prepared, ended, observed, stored, lost>>

\* execute returned or raised.
Observe(to) ==
    /\ host = "returned" /\ Worker("execute", to)
    /\ host' = "idle" /\ observation' = None /\ UNCHANGED <<child, terminated>>
    /\ observed' = [observed EXCEPT ![job.run] = observation]
    /\ UNCHANGED <<jobs, job, prepared, ended, stored, lost>>

\* run_artifact: the answer, or an ExecutionError with what was prepared.
Generated ==
    /\ kind = "run" /\ Observe("return")
    /\ Post(IF observation = "success" THEN "done" ELSE "failed", job.artifact, prepared)

\* ExperimentRunner.run and LlamaBenchRunner.run: a failed execution is an observation
\* like any other, but a benchmark without its executable is unavailable.
Executed ==
    /\ kind # "run" /\ ~(kind = "benchmark" /\ observation = "executable_not_found")
    /\ Observe("save") /\ Quietly

\* ... and a validation whose Vulkan device the log does not confirm is not recorded.
Unrecorded ==
    /\ \/ kind = "benchmark" /\ observation = "executable_not_found"
       \/ kind = "validate" /\ observation = "success"
    /\ Observe("return") /\ Post("failed", 0, 0)

\* store.save; a validation that has output may go on to save the runtime log.
Save ==
    /\ \/ Worker("save", "return") /\ Post("done", 0, 0)
       \/ /\ kind = "validate" /\ Worker("save", "log") /\ Quietly
          /\ observed[job.run] \notin {"executable_not_found", "spawn_error"}
    /\ stored' = [stored EXCEPT ![job.run] = observed[job.run]]
    /\ UNCHANGED <<jobs, job, prepared, ended, observed, lost, hostVars>>

\* A validation keeps its record on the screen, a benchmark only reports the error.
SaveFails ==
    /\ Worker("save", "return")
    /\ Post(IF kind = "validate" THEN "not_saved" ELSE "failed", 0, 0)
    /\ lost' = lost \cup {job.run}
    /\ UNCHANGED <<jobs, job, prepared, ended, observed, stored, hostVars>>

SaveLog ==
    /\ Worker("log", "return")
    /\ \/ Post("done", 0, 0) /\ UNCHANGED lost
       \/ Post("not_saved", 0, 0) /\ lost' = lost \cup {job.run}
    /\ UNCHANGED <<jobs, job, prepared, ended, observed, stored, hostVars>>

\* The worker function returns and its future is done.
Return ==
    /\ Worker("return", "idle")
    /\ ended' = ended \cup {job.run}
    /\ Quietly /\ UNCHANGED <<jobs, job, prepared, observed, stored, lost, hostVars>>

-----------------------------------------------------------------------------

User == Type \/ Press \/ Close

Loop == \/ StartMeasurement \/ StartGenerate \/ HandleSaved \/ HandleRecord \/ HandleError
        \/ HandleGeneration \/ Discard

Work == \/ Take \/ ReadHistory \/ PrepareFails \/ Prepare \/ Blocked \/ Ready \/ Launch
        \/ Generated \/ Executed \/ Unrecorded \/ Save \/ SaveFails \/ SaveLog \/ Return

Waits == HostStep /\ UNCHANGED <<kind, plan, userVars, viewVars, runVars, inbox, workVars>>

Child == ChildExits /\ UNCHANGED <<kind, plan, userVars, viewVars, runVars, inbox, workVars>>

Next == User \/ Loop \/ Work \/ Waits \/ Child

\* The event loop and the worker thread are scheduled, downloads and probes end by their
\* own timeouts, and the deadline of an execution passes.
Fairness == WF_vars(Loop) /\ WF_vars(Work) /\ WF_vars(Waits)

Spec == Init /\ [][Next]_vars /\ Fairness

-----------------------------------------------------------------------------
(* Properties.                                                             *)

\* Every variable keeps its type.
LaunchTypeOK ==
    /\ HostTypeOK
    /\ kind \in Kinds /\ plan \in BOOLEAN
    /\ open \in BOOLEAN /\ button \in BOOLEAN /\ prompt \in BOOLEAN
    /\ inbox \in Seq(Message) /\ started \in 0..MaxRuns /\ ended \subseteq Runs
    /\ jobs \in Seq(Job) /\ job \in Job /\ prepared \in 0..MaxRuns
    /\ at \in {"idle", "history", "prepare", "check", "launch", "execute", "save", "log", "return"}
    /\ observed \in [Runs -> Observations \cup {None}]
    /\ stored \in [Runs -> Observations \cup {None}] /\ lost \subseteq Runs
    /\ shown \in Shown /\ artifact \in 0..MaxRuns /\ launch \in 0..MaxRuns

\* Timeouts, crashes of the model and missing executables are results of a validation:
\* its record is on disk when the worker is done, unless writing it failed, also when
\* the screen was left meanwhile.
FailuresAreEvidence ==
    kind = "validate" =>
        \A r \in ended : observed[r] \notin {None, "success"} =>
            stored[r] = observed[r] \/ r \in lost

\* The Run screen launches an artifact with the launch prepared for it, in later prompts
\* and after a failed run too, never with the flags of the recommendation.
ArtifactRunsWithItsLaunch ==
    kind = "run" /\ plan /\ at = "execute" => job.artifact # 0 /\ job.runtime = job.artifact

\* When nothing is under way, the screen shows the record of its last run if there is one,
\* never the history or an earlier run, and marks a record stored only if it is.
QuietScreenShowsLastRun ==
    /\ kind # "run" /\ open /\ inbox = <<>> /\ jobs = <<>> /\ at = "idle" /\ started # 0
    => /\ stored[started] # None => shown.what = "record" /\ shown.run = started
       /\ shown.what = "record" /\ shown.stored => stored[shown.run] # None

\* A measurement always ends on the screen that started it.
MeasurementEnds == kind # "run" /\ open /\ ~button ~> button \/ ~open

\* What a run of the screen does reaches whoever relies on it: the next prompt, the stored
\* evidence and the result area.
ScreenFollowsItsRuns ==
    FailuresAreEvidence /\ ArtifactRunsWithItsLaunch /\ QuietScreenShowsLastRun
=============================================================================
