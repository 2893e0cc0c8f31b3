--------------------------- MODULE QualityScreen ---------------------------
(***************************************************************************)
(* The evaluation screen (tui/screens/quality_evaluation.py) with its one  *)
(* worker thread, the batch the worker runs (advisor/quality_candidates.py *)
(* and AdvisorService), and the pilot it invokes.                          *)
(*                                                                         *)
(* The event loop handles one message or key at a time; `jobs' is the      *)
(* executor's queue and `inbox' the messages the worker posted.  A         *)
(* candidate carries what the stores held when it was selected or last     *)
(* refreshed: `seen' is that reading.                                      *)
(***************************************************************************)
EXTENDS QualityPilot, QualityPreparation

CONSTANTS
    MinCalls,   \* SPEED_MIN_CALLS
    MaxOps      \* bound on the operations a user starts

Suites == {"smoke", "ifeval", "speed", "balanced"}

PlanSet == {p \in DOMAIN Plan : Measurable(p)}

\* The plan of a screen opened for one exact artifact.
Exact == CHOOSE p \in PlanSet : TRUE

ASSUME ScreenAssumption == MinCalls \in Nat \ {0} /\ MaxOps \in Nat

VARIABLES
    search,     \* opened for a search (TRUE) or for one exact artifact
    suite,      \* the suite chosen: _measure and _profile
    busy, selecting, checking, blocked, closing, leave, quit,   \* the screen's flags
    stored,     \* _stored: whether the last run left a path
    shown,      \* "open", "dismissed" or "exited"
    selection,  \* [suite, plans, seen]: the candidates on show
    checked,    \* the candidates whose box is checked
    jobs,       \* submitted and not started
    inbox,      \* posted and not handled
    worker,     \* the job being run, or Resting
    held,       \* what applies of the stores: [quality : plans, calls : plan -> number]
    ops         \* operations started so far

flags == <<search, selecting, blocked, closing, leave, quit, stored, shown>>
pane == <<suite, checking, busy, selection, checked>>
screenVars == <<flags, pane, jobs, inbox, worker, held, ops>>
allVars == <<pilotVars, screenVars>>

\* The worker between two jobs.
Resting == [kind |-> "none", step |-> "none"]

Nothing == [quality |-> {}, calls |-> [p \in PlanSet |-> 0]]

\* settled and speed_settled: nothing a rerun could add on that axis.
SpeedSettled(seen, p) == seen.calls[p] >= MinCalls
Settled(s, seen, p) == CASE s = "smoke"    -> FALSE
                         [] s = "ifeval"   -> p \in seen.quality
                         [] s = "speed"    -> SpeedSettled(seen, p)
                         [] s = "balanced" -> p \in seen.quality /\ SpeedSettled(seen, p)

\* _needs_evaluator: Speed never does; Balanced only while a checked plan lacks quality.
NeedsEvaluator == \/ suite \in {"smoke", "ifeval"}
                  \/ suite = "balanced" /\ ~ checked \subseteq selection.seen.quality

\* _evaluator_blocks
EvaluatorBlocks == blocked /\ NeedsEvaluator

\* speed_calls_needed: one more where there are enough.
CallsNeeded(seen, p) == IF MinCalls - seen.calls[p] > 1 THEN MinCalls - seen.calls[p] ELSE 1

\* speed_call_schedule: A B C, A B, A.
SpeedSchedule(seen, ps) ==
    FlattenSeq([k \in 1..MinCalls |-> SelectSeq(ps, LAMBDA p : CallsNeeded(seen, p) >= k)])

Checked == SelectSeq(selection.plans, LAMBDA p : p \in checked)

\* A job's arguments are read on the event loop, when it is submitted.
Job(k, s, ps) == [kind |-> k, suite |-> s, plans |-> ps, seen |-> selection.seen]

\* _check_readiness: a Speed suite needs no evaluator and is answered at once.
ReadinessJob(s) == IF s = "speed" THEN <<>> ELSE <<Job("ready", s, <<>>)>>
ReadinessNote(s) == IF s = "speed" THEN <<[kind |-> "ready", blocked |-> FALSE]>> ELSE <<>>

-----------------------------------------------------------------------------
(* The worker thread.                                                      *)

Post(m) == inbox' = IF closing THEN inbox ELSE Append(inbox, m)

\* Where a job starts: the first plan of a batch, the first call of a speed run.
\* Balanced runs each axis only where it is still missing.
Begin(j) ==
    [kind |-> j.kind, suite |-> j.suite, plans |-> j.plans, seen |-> j.seen,
     step |-> IF j.kind = "speed" THEN "call" ELSE "start", path |-> FALSE,
     todo |-> CASE j.kind = "speed" -> SpeedSchedule(j.seen, j.plans)
                [] j.kind = "batch" /\ j.suite = "balanced" ->
                       SelectSeq(j.plans, LAMBDA p : p \notin j.seen.quality)
                [] OTHER -> j.plans]

WorkerTakes ==
    /\ worker = Resting /\ jobs # <<>>
    /\ worker' = Begin(Head(jobs)) /\ jobs' = Tail(jobs)
    /\ UNCHANGED <<pilotVars, flags, pane, inbox, held, ops>>

Runs(kinds) == worker.kind \in kinds

\* A job that ends with one message.
WorkerEnds(m) ==
    /\ Post(m)
    /\ worker' = Resting
    /\ UNCHANGED <<pilotVars, flags, pane, jobs, held, ops>>

\* What a suite's check, setup and selection may answer, from QualityPreparation.
Readiness  == [s \in Suites \ {"speed"} |-> ReadinessAnswers(s)]
Setups     == [s \in Suites |-> SetupAnswers(s)]
Candidates == [s \in Suites |-> SelectionAnswers(s)]

\* _readiness_worker: a check that raises blocks, a cancelled one posts nothing.
WorkerChecks ==
    /\ Runs({"ready"})
    /\ \/ \E b \in Readiness[worker.suite] \cup {TRUE} :
             WorkerEnds([kind |-> "ready", blocked |-> b])
       \/ /\ cancel /\ worker' = Resting
          /\ UNCHANGED <<pilotVars, flags, pane, jobs, inbox, held, ops>>

\* _select_candidates: a cancellation leaves a notice alone.
WorkerSelects ==
    /\ Runs({"select"})
    /\ \E ps \in Candidates[worker.suite] \cup {<<>>} :
          /\ cancel => ps = <<>>
          /\ WorkerEnds([kind |-> "selected", suite |-> worker.suite, seen |-> held,
                         plans |-> ps])

\* _prepare: the setup passes, is not cancelled behind it and is saved; anything else is
\* reported as not ready.
WorkerSetsUp ==
    /\ Runs({"setup"})
    /\ \E ok \in Setups[worker.suite] \cup {FALSE} :
          /\ ok => ~cancel
          /\ WorkerEnds([kind |-> "setup", ready |-> ok])

\* _recompare: the saved pool ranked again, or an error; both are only shown.
WorkerRecompares == Runs({"recompare"}) /\ WorkerEnds([kind |-> "recompare"])

At(step) == worker.step = step

Goto(w) == worker' = w /\ UNCHANGED <<flags, pane, jobs, inbox, ops>>

\* The quality axis is over; Balanced goes on with the plans whose speed is missing.
AfterQuality(w) ==
    LET missing == SelectSeq(w.plans, LAMBDA p : ~SpeedSettled(w.seen, p)) IN
    IF w.suite = "balanced" /\ ~cancel /\ missing # <<>>
    THEN [w EXCEPT !.step = "call", !.todo = SpeedSchedule(w.seen, missing)]
    ELSE [w EXCEPT !.step = "report"]

\* run_candidates: the shared preflight; when it raises, no plan is tried.
BatchStarts ==
    /\ At("start") /\ Runs({"batch"})
    /\ \/ TRUE \in Setups[worker.suite] /\ ~cancel /\ Goto([worker EXCEPT !.step = "plan"])
       \/ Goto(AfterQuality(worker))
    /\ UNCHANGED <<pilotVars, held>>

\* _run: one exact artifact, whose preflight is part of its own preparation.
SingleStarts ==
    /\ At("start") /\ Runs({"single"})
    /\ Goto(IF cancel THEN AfterQuality(worker) ELSE [worker EXCEPT !.step = "plan"])
    /\ UNCHANGED <<pilotVars, held>>

\* The head of the loop: every plan was tried, or the batch is cancelled.
BatchStops ==
    /\ At("plan") /\ (cancel \/ worker.todo = <<>>)
    /\ Goto(AfterQuality(worker))
    /\ UNCHANGED <<pilotVars, held>>

\* The outcome of one plan: a cancelled one ends the batch, any other goes on.
Outcome(saved, cancelled) ==
    LET w == [worker EXCEPT !.todo = Tail(@), !.path = saved \/ worker.path, !.step = "plan"] IN
    Goto(IF cancelled THEN AfterQuality(w) ELSE w)

BatchContinues ==
    /\ At("plan") /\ ~cancel /\ worker.todo # <<>>
    /\ Goto([worker EXCEPT !.step = "prepare"])
    /\ UNCHANGED <<pilotVars, held>>

\* run_quality_evaluation_for_plan up to the pilot: preflight, download with permission,
\* full hash, and the checks of the manifest.
PlanIsPrepared ==
    /\ At("prepare")
    /\ \/ InvokeBegins /\ Goto([worker EXCEPT !.step = "pilot"])
       \/ Outcome(FALSE, FALSE) /\ UNCHANGED pilotVars
       \/ cancel /\ Outcome(FALSE, TRUE) /\ UNCHANGED pilotVars
    /\ UNCHANGED held

Forget == result' = None /\ UNCHANGED <<cancel, invoke, reason, childVars>>

\* _invoke returned or raised; a TimeoutExpired ends the whole batch.
PilotReturns ==
    /\ At("pilot") /\ invoke = "idle" /\ result # None
    /\ CASE result = "ok"        -> Goto([worker EXCEPT !.step = "import"])
         [] result = "failed"    -> Outcome(FALSE, FALSE)
         [] result = "cancelled" -> Outcome(FALSE, TRUE)
         [] result = "escaped"   -> Goto(AfterQuality(worker))
    /\ Forget
    /\ UNCHANGED held

\* The snapshot is built, its artifact, profile and backend compared with the request,
\* the cancellation read a last time, and the record saved.
RecordIsImported ==
    /\ At("import")
    /\ \/ /\ ~cancel
          /\ held' = IF worker.suite = "smoke" THEN held
                     ELSE [held EXCEPT !.quality = @ \cup {Head(worker.todo)}]
          /\ Outcome(TRUE, FALSE)
       \/ Outcome(FALSE, FALSE) /\ UNCHANGED held
       \/ cancel /\ Outcome(FALSE, TRUE) /\ UNCHANGED held
    /\ UNCHANGED pilotVars

\* run_speed_candidates: the cool-down watches the cancellation; every call is stored
\* before the next starts.
SpeedCall ==
    /\ At("call") /\ worker.todo # <<>> /\ ~cancel
    /\ \/ held' = [held EXCEPT !.calls[Head(worker.todo)] = @ + 1]
       \/ UNCHANGED held
    /\ Goto([worker EXCEPT !.todo = Tail(@)])
    /\ UNCHANGED pilotVars

SpeedStops ==
    /\ At("call") /\ (cancel \/ worker.todo = <<>>)
    /\ Goto([worker EXCEPT !.step = "report"])
    /\ UNCHANGED <<pilotVars, held>>

\* _post_candidate_finished: the candidates are read again from the stores; the refresh
\* may fail.
Finished(fresh) == [kind |-> "finished", path |-> worker.path, fresh |-> fresh, seen |-> held]

WorkerFinishes ==
    /\ At("report") /\ ~Runs({"single"})
    /\ \E fresh \in BOOLEAN : WorkerEnds(Finished(fresh))

\* The end of _run: the record's path is told even when its display fails.
SingleFinishes == At("report") /\ Runs({"single"}) /\ WorkerEnds(Finished(FALSE))

Worker == \/ WorkerTakes \/ WorkerChecks \/ WorkerSelects \/ WorkerSetsUp \/ WorkerRecompares
          \/ BatchStarts \/ SingleStarts \/ BatchStops \/ BatchContinues
          \/ PlanIsPrepared \/ PilotReturns \/ RecordIsImported
          \/ SpeedCall \/ SpeedStops \/ WorkerFinishes \/ SingleFinishes

-----------------------------------------------------------------------------
(* The event loop.                                                         *)

\* on_unmount.
Unmount(how) == /\ shown' = how /\ closing' = TRUE /\ cancel' = TRUE
                /\ jobs' = <<>> /\ inbox' = <<>>

Stay == /\ inbox' = Tail(inbox) /\ UNCHANGED <<shown, closing, cancel, jobs>>

\* The end of a handler that makes the screen idle: a pending Quit or Back is carried out.
LeaveOrStay == IF quit THEN Unmount("exited") ELSE IF leave THEN Unmount("dismissed") ELSE Stay

Receives(k) == shown = "open" /\ inbox # <<>> /\ Head(inbox).kind = k

UnchangedPilot == UNCHANGED <<parentVars, childVars>>

HandleReadiness ==
    /\ Receives("ready")
    /\ checking' = FALSE /\ blocked' = Head(inbox).blocked
    /\ inbox' = Tail(inbox)
    /\ UNCHANGED <<pilotVars, search, selecting, closing, leave, quit, stored, shown, suite, busy,
                   selection, checked, jobs, worker, held, ops>>

HandleSelected ==
    /\ Receives("selected")
    /\ LET m == Head(inbox) IN
       /\ selection' = [suite |-> m.suite, plans |-> m.plans, seen |-> m.seen]
       /\ checked' = {p \in ToSet(m.plans) : ~Settled(suite, m.seen, p)}
    /\ selecting' = FALSE /\ busy' = FALSE
    /\ LeaveOrStay
    /\ UnchangedPilot
    /\ UNCHANGED <<search, blocked, leave, quit, stored, suite, checking, worker, held, ops>>

\* _setup_finished: a ready evaluator is checked again.
HandleSetup ==
    /\ Receives("setup")
    /\ busy' = FALSE
    /\ IF quit \/ leave
       THEN LeaveOrStay /\ UNCHANGED checking
       ELSE LET again == Head(inbox).ready IN
            /\ checking' = (checking \/ again)
            /\ jobs' = IF again THEN jobs \o ReadinessJob(suite) ELSE jobs
            /\ inbox' = Tail(inbox) \o IF again THEN ReadinessNote(suite) ELSE <<>>
            /\ UNCHANGED <<shown, closing, cancel>>
    /\ UnchangedPilot
    /\ UNCHANGED <<search, selecting, blocked, leave, quit, stored, suite, selection, checked,
                   worker, held, ops>>

HandleRecompared ==
    /\ Receives("recompare")
    /\ busy' = FALSE
    /\ LeaveOrStay
    /\ UnchangedPilot
    /\ UNCHANGED <<search, selecting, blocked, leave, quit, stored, suite, checking, selection,
                   checked, worker, held, ops>>

\* _finished: refreshed candidates keep their boxes unless they are settled now.
HandleFinished ==
    /\ Receives("finished")
    /\ LET m == Head(inbox) IN
       /\ IF m.fresh
          THEN /\ selection' = [selection EXCEPT !.seen = m.seen]
               /\ checked' = {p \in checked : ~Settled(suite, m.seen, p)}
          ELSE UNCHANGED <<selection, checked>>
       /\ stored' = m.path
    /\ busy' = FALSE
    /\ LeaveOrStay
    /\ UnchangedPilot
    /\ UNCHANGED <<search, selecting, blocked, leave, quit, suite, checking, worker, held, ops>>

Handle == HandleReadiness \/ HandleSelected \/ HandleSetup \/ HandleRecompared \/ HandleFinished

-----------------------------------------------------------------------------
(* The user.                                                               *)

Free == shown = "open" /\ ~busy

Operation == ops < MaxOps /\ ops' = ops + 1

\* _start_selection: what is queued before it was submitted by the same handler.
Reselect(s, before) ==
    /\ cancel' = FALSE /\ busy' = TRUE /\ selecting' = TRUE
    /\ jobs' = jobs \o before \o <<Job("select", s, <<>>)>>

\* _profile_changed and _backend_changed: the evaluator is checked for the new suite and
\* the candidates are chosen again; without a search only the check is submitted.
ChangeSuite(s) ==
    /\ Free /\ Operation
    /\ IF search THEN s \in Suites ELSE s = suite
    /\ suite' = s /\ checking' = TRUE
    /\ inbox' = inbox \o ReadinessNote(s)
    /\ IF search
       THEN /\ Reselect(s, ReadinessJob(s))
            /\ selection' = [suite |-> s, plans |-> <<>>, seen |-> Nothing]
            /\ checked' = {}
       ELSE /\ jobs' = jobs \o ReadinessJob(s)
            /\ UNCHANGED <<cancel, busy, selecting, selection, checked>>
    /\ UnchangedPilot
    /\ UNCHANGED <<search, blocked, closing, leave, quit, stored, shown, worker, held>>

\* Back from the storage screen: Local and Download marks may be stale.
ReturnFromStorage ==
    /\ Free /\ search /\ Operation
    /\ Reselect(suite, <<>>)
    /\ UnchangedPilot
    /\ UNCHANGED <<search, blocked, closing, leave, quit, stored, shown, suite, checking,
                   selection, checked, inbox, worker, held>>

Toggle(p) ==
    /\ Free /\ Operation /\ p \in ToSet(selection.plans)
    /\ checked' = IF p \in checked THEN checked \ {p} ELSE checked \cup {p}
    /\ UNCHANGED <<pilotVars, flags, suite, checking, busy, selection, jobs, inbox, worker, held>>

\* A job that holds the screen until its message is handled.
Occupy(j) ==
    /\ busy' = TRUE
    /\ jobs' = Append(jobs, j)
    /\ UnchangedPilot
    /\ UNCHANGED <<flags, suite, checking, selection, checked, inbox, worker, held>>

\* Start: refused while a needed evaluator is blocked or still being checked, and
\* without a checked candidate.
Start ==
    /\ Free /\ Operation
    /\ NeedsEvaluator => ~blocked /\ ~checking
    /\ search => checked # {}
    /\ cancel' = FALSE
    /\ Occupy(IF ~search THEN Job("single", suite, <<Exact>>)
              ELSE IF NeedsEvaluator THEN Job("batch", suite, Checked)
              ELSE Job("speed", suite,
                       IF suite = "balanced"
                       THEN SelectSeq(Checked, LAMBDA p : ~SpeedSettled(selection.seen, p))
                       ELSE Checked))

Prepare == Free /\ Operation /\ cancel' = FALSE /\ Occupy(Job("setup", suite, <<>>))

\* The cancel event keeps the value an earlier cancellation gave it.
Recompare == Free /\ search /\ Operation /\ UNCHANGED cancel
             /\ Occupy(Job("recompare", suite, <<>>))

Cancel ==
    /\ shown = "open" /\ busy /\ ~cancel
    /\ cancel' = TRUE
    /\ UnchangedPilot
    /\ UNCHANGED screenVars

\* Mutant of Leave: the screen is dismissed while a run is cancelled in the background.
LeaveAtOnce(how) ==
    /\ shown = "open"
    /\ Unmount(how)
    /\ UnchangedPilot
    /\ UNCHANGED <<search, selecting, blocked, leave, quit, stored, pane, worker, held, ops>>

\* Back and Quit: at once when idle, else after a cancellation.
Leave(how) ==
    /\ shown = "open"
    /\ IF busy \/ selecting
       THEN /\ leave' = (leave \/ how = "dismissed") /\ quit' = (quit \/ how = "exited")
            /\ cancel' = TRUE
            /\ UNCHANGED <<shown, closing, jobs, inbox>>
       ELSE Unmount(how) /\ UNCHANGED <<leave, quit>>
    /\ UnchangedPilot
    /\ UNCHANGED <<search, selecting, blocked, stored, pane, worker, held, ops>>

User == \/ \E s \in Suites : ChangeSuite(s)
        \/ ReturnFromStorage \/ \E p \in PlanSet : Toggle(p)
        \/ Start \/ Prepare \/ Recompare \/ Cancel
        \/ \E how \in {"dismissed", "exited"} : Leave(how)

-----------------------------------------------------------------------------

\* on_mount: the readiness check is submitted first, then the selection.
Init ==
    /\ PilotInit
    /\ search \in BOOLEAN
    /\ suite \in IF search THEN Suites \ {"smoke"} ELSE {"smoke"}
    /\ blocked = FALSE /\ closing = FALSE /\ leave = FALSE /\ quit = FALSE /\ stored = FALSE
    /\ shown = "open"
    /\ checking = TRUE
    /\ busy = search /\ selecting = search
    /\ selection = [suite |-> suite, plans |-> <<>>, seen |-> Nothing]
    /\ checked = {}
    /\ jobs = ReadinessJob(suite) \o IF search THEN <<Job("select", suite, <<>>)>> ELSE <<>>
    /\ inbox = ReadinessNote(suite)
    /\ worker = Resting
    /\ held = Nothing
    /\ ops = 0

Pilot == PilotNext /\ UNCHANGED screenVars

Next == User \/ Handle \/ Worker \/ Pilot

\* The event loop and the worker thread keep running, _invoke's timed waits expire, and a
\* child that was killed goes away.  What the user does and when a deadline falls is free;
\* the pilot's own steps need no fairness once it is interrupted, because _invoke escalates.
Fairness == /\ WF_allVars(Handle) /\ WF_allVars(Worker)
            /\ WF_allVars((InvokeSeesExit \/ InvokeReaps \/ InvokeTerminates \/ InvokeKills
                           \/ InvokeGivesUp \/ InvokeEscapes \/ (cancel /\ InvokeInterrupts))
                          /\ UNCHANGED screenVars)
            /\ WF_allVars(ChildDies /\ UNCHANGED screenVars)

Spec == Init /\ [][Next]_allVars /\ Fairness

-----------------------------------------------------------------------------
(* Properties.                                                             *)

Occupies(k) == k \notin {"ready", "none"}

Pending(s) == \E n \in DOMAIN s : Occupies(s[n].kind)

\* The buttons are held exactly while the worker has something of theirs to do or to say:
\* no run goes on under an idle screen, and no way to end a run leaves the screen held.
BusyWhileWorking ==
    shown = "open" =>
        (busy <=> \/ Pending(jobs) \/ Pending(inbox)
                  \/ Occupies(worker.kind))

\* Back and Quit wait for the evaluation: no pilot, and none of its escalation, outlives
\* the screen that started it.
LeaveWaitsForThePilot == shown # "open" => invoke = "idle" /\ child = "gone"

\* A cancelled run ends, however the child takes the signal.
CancelEnds == (busy /\ cancel) ~> (~busy \/ shown # "open")

\* The screen is held while its worker works and stays until the pilot is gone.
ScreenHoldsItsWork == BusyWhileWorking /\ LeaveWaitsForThePilot
=============================================================================
