--------------------------- MODULE SearchWorkflow ---------------------------
(***************************************************************************)
(* One guided search: workflow/orchestrator.py (run_workflow), its thread  *)
(* pools (_evaluate, lineage, header prefetch), the run cache the workers  *)
(* share, and the progress it reports.                                     *)
(*                                                                         *)
(* The thread of run_workflow moves from stage to stage.  Inside a pool it *)
(* alternates between a check of the caller's cancel flag and one action;  *)
(* the workers and the caller interleave with it anywhere.                 *)
(***************************************************************************)
EXTENDS Naturals, FiniteSets

CONSTANTS
    NQueries,     \* search queries of the run
    MaxTasks,     \* bound on a shortlist and on a list of reads
    MaxExtra,     \* bound on the alternatives inspected after the shortlist
    Workers,      \* workers of a pool
    Metadata,     \* answers the Hub may give to one metadata request
    None

Tasks == 1..MaxTasks

Stages == {"queries", "search", "lineage", "inspect", "join", "expand", "rescue",
           "headers", "rank", "returned"}

StepKeys == {"queries", "search", "filter", "inspect", "estimate", "rank"}

\* Where a task of a pool is.
Statuses == {"none", "queued", "reading", "running", "metadata", "fetching",
             "ok", "failed", "unavailable", "unexpected", "taken", "cancelled"}

StepStatus == {"pending", "running", "done", "failed"}

Errors == {"cancelled", "unavailable", "unexpected"}

Ends == {"recommendations", "no_results"} \cup Errors

ASSUME SearchAssumption ==
    /\ NQueries \in Nat \ {0} /\ Workers \in Nat \ {0}
    /\ MaxTasks \in Nat /\ MaxExtra \in Nat
    /\ None \notin Metadata /\ None \notin Ends

VARIABLES
    cancel,     \* the caller's cancel flag
    stage,      \* where run_workflow is
    pc,         \* inside a stage: about to "check" the flag or to "act"
    asked,      \* queries asked so far
    failures,   \* queries that failed
    found,      \* whether a query returned a candidate
    size,       \* tasks of the current pool
    next,       \* the next one to submit
    task,       \* task[i]: where it is
    batch,      \* finished tasks wait returned and the loop has not taken yet
    value,      \* value[i]: the shared metadata its evaluation used
    entry,      \* the shared entry of the run cache
    usable,     \* whether an evaluated candidate did not fail
    extra,      \* alternatives inspected so far
    error,      \* the exception on its way out of the pool's with block
    progress,   \* status of every progress step
    current,    \* progress.current_key
    result,     \* how the run ended; None while it runs
    late        \* tasks submitted since the cancel flag was set

poolVars == <<size, next, task, batch>>
workerVars == <<value, entry>>
searchVars == <<asked, failures, found>>
endVars == <<error, result>>
progressVars == <<progress, current>>

vars == <<cancel, stage, pc, searchVars, poolVars, workerVars, usable, extra, endVars,
          progressVars, late>>

Queued == {i \in Tasks : task[i] = "queued"}
Working == {i \in Tasks : task[i] \in {"reading", "running", "metadata", "fetching"}}
Ended == {i \in Tasks : task[i] \in {"ok", "failed", "unavailable", "unexpected"}}
Pending == Queued \cup Working \cup Ended

-----------------------------------------------------------------------------
(* ProgressReporter.                                                       *)

\* with_step: current_key moves only when a step starts.
SetStep(p, key, status) == [p EXCEPT ![key] = status]

StartStep(key) ==
    /\ progress' = SetStep(progress, key, "running")
    /\ current' = key

DoneThenStart(done, key) ==
    /\ progress' = SetStep([s \in StepKeys |-> IF s \in done THEN "done" ELSE progress[s]],
                           key, "running")
    /\ current' = key

-----------------------------------------------------------------------------
(* Run boundaries.                                                         *)

NoTasks == [i \in Tasks |-> "none"]
NoValues == [i \in Tasks |-> None]
FirstProgress == [s \in StepKeys |-> IF s = "queries" THEN "running" ELSE "pending"]

Init ==
    /\ cancel = FALSE
    /\ stage = "queries" /\ pc = "check"
    /\ asked = 0 /\ failures = 0 /\ found = FALSE
    /\ size = 0 /\ next = 1 /\ task = NoTasks /\ batch = {}
    /\ value = NoValues /\ entry = None
    /\ usable = FALSE /\ extra = 0
    /\ error = None /\ result = None
    /\ progress = FirstProgress /\ current = "queries"
    /\ late = 0

\* Another call of run_workflow: nothing of the previous one is carried over.
Rerun ==
    /\ cancel' = FALSE
    /\ stage' = "queries" /\ pc' = "check"
    /\ asked' = 0 /\ failures' = 0 /\ found' = FALSE
    /\ size' = 0 /\ next' = 1 /\ task' = NoTasks /\ batch' = {}
    /\ value' = NoValues /\ entry' = None
    /\ usable' = FALSE /\ extra' = 0
    /\ error' = None /\ result' = None
    /\ progress' = FirstProgress /\ current' = "queries"
    /\ late' = 0

\* The exception handlers of run_workflow, and the exceptions it lets through.
Raise(e) ==
    /\ stage' = "returned" /\ result' = e
    /\ progress' = IF e = "unavailable" THEN SetStep(progress, current, "failed") ELSE progress
    /\ UNCHANGED <<cancel, pc, searchVars, usable, extra, error, current, late>>

\* _finish_without_results and the final return.
Finish(end) ==
    /\ stage' = "returned" /\ result' = end
    /\ progress' = SetStep(progress, "rank", "done")
    /\ UNCHANGED <<cancel, pc, searchVars, poolVars, workerVars, usable, extra, error,
                   current, late>>

\* _check: a raised WorkflowCancelled unwinds a pool first.
Check ==
    /\ pc = "check" /\ stage \notin {"join", "returned"}
    /\ \/ /\ ~cancel
          /\ pc' = "act"
          /\ UNCHANGED <<cancel, stage, searchVars, poolVars, workerVars, usable, extra,
                         endVars, progressVars, late>>
       \/ /\ cancel /\ stage = "inspect"
          /\ task' = [i \in Tasks |-> IF i \in Queued THEN "cancelled" ELSE task[i]]
          /\ stage' = "join" /\ error' = "cancelled"
          /\ UNCHANGED <<cancel, pc, searchVars, size, next, batch, workerVars, usable,
                         extra, result, progressVars, late>>
       \/ /\ cancel /\ stage # "inspect"
          /\ task' = [i \in Tasks |-> IF i \in Queued THEN "cancelled" ELSE task[i]]
          /\ Raise("cancelled")
          /\ UNCHANGED <<size, next, batch, workerVars>>

-----------------------------------------------------------------------------
(* Queries and search.                                                     *)

BuildQueries ==
    /\ stage = "queries" /\ pc = "act"
    /\ stage' = "search" /\ pc' = "check"
    /\ DoneThenStart({"queries"}, "search")
    /\ UNCHANGED <<cancel, searchVars, poolVars, workerVars, usable, extra, endVars, late>>

\* One query of _search; a transport failure ends the run only if every query failed.
Query(failed, hits) ==
    /\ stage = "search" /\ pc = "act" /\ asked < NQueries
    /\ \/ /\ failed /\ failures + 1 = NQueries
          /\ Raise("unavailable")
          /\ UNCHANGED <<poolVars, workerVars>>
       \/ /\ ~(failed /\ failures + 1 = NQueries)
          /\ asked' = asked + 1
          /\ failures' = failures + (IF failed THEN 1 ELSE 0)
          /\ found' = (found \/ (hits /\ ~failed))
          /\ pc' = IF asked' = NQueries THEN "act" ELSE "check"
          /\ UNCHANGED <<cancel, stage, poolVars, workerVars, usable, extra, endVars,
                         progressVars, late>>

\* A pool of n tasks opens.
Open(n) ==
    /\ size' = n /\ next' = 1 /\ batch' = {}
    /\ task' = NoTasks

\* The candidates go to the filter, and n bases are looked up.
Filter(n) ==
    /\ stage = "search" /\ pc = "act" /\ asked = NQueries
    /\ \/ ~found /\ Finish("no_results")
       \/ /\ found
          /\ stage' = "lineage" /\ pc' = IF n = 0 THEN "act" ELSE "check"
          /\ Open(n)
          /\ DoneThenStart({"search"}, "filter")
          /\ UNCHANGED <<cancel, searchVars, workerVars, usable, extra, endVars, late>>

-----------------------------------------------------------------------------
(* Pools.                                                                  *)

InPool == stage \in {"lineage", "inspect", "headers"}

CanSubmit == next <= size /\ Cardinality(Pending) < Workers

\* _evaluate checks before every submission, the readers fill their window at once.
Submit ==
    /\ InPool /\ pc = "act" /\ CanSubmit
    /\ task' = [task EXCEPT ![next] = "queued"]
    /\ next' = next + 1
    /\ pc' = IF stage = "inspect" /\ batch = {} THEN "check" ELSE "act"
    /\ late' = IF cancel THEN late + 1 ELSE late
    /\ UNCHANGED <<cancel, stage, searchVars, size, batch, workerVars, usable, extra,
                   endVars, progressVars>>

\* wait(pending, FIRST_COMPLETED, timeout): everything that has ended so far, or
\* nothing when the poll interval passes.
Wait ==
    /\ InPool /\ pc = "act" /\ ~CanSubmit /\ batch = {} /\ Pending # {}
    /\ \/ Ended # {} /\ batch' = Ended /\ UNCHANGED pc
       \/ Ended = {} /\ pc' = "check" /\ UNCHANGED batch
    /\ UNCHANGED <<cancel, stage, searchVars, size, next, task, workerVars, usable, extra,
                   endVars, progressVars, late>>

\* The readers take everything that was read and check the flag.
TakeReads ==
    /\ stage \in {"lineage", "headers"} /\ pc = "act" /\ batch # {}
    /\ task' = [i \in Tasks |-> IF i \in batch THEN "taken" ELSE task[i]]
    /\ batch' = {}
    /\ pc' = "check"
    /\ UNCHANGED <<cancel, stage, searchVars, size, next, workerVars, usable, extra,
                   endVars, progressVars, late>>

\* Mutant of TakeInspection: one ended task stands for the whole batch.
TakeInspectionOnce(i) ==
    /\ stage = "inspect" /\ pc = "act" /\ i \in batch /\ ~CanSubmit
    /\ task' = [j \in Tasks |-> IF j = i THEN "taken"
                                ELSE IF j \in batch THEN "cancelled" ELSE task[j]]
    /\ batch' = {}
    /\ usable' = (usable \/ task[i] = "ok")
    /\ pc' = IF next <= size \/ Pending' # {} THEN "check" ELSE "act"
    /\ UNCHANGED <<cancel, stage, searchVars, size, next, workerVars, extra, endVars,
                   progressVars, late>>

\* future.result() of one inspection: its candidate is stored at its own index and
\* the next one submitted, or its exception ends the loop.
TakeInspection(i) ==
    /\ stage = "inspect" /\ pc = "act" /\ i \in batch /\ ~CanSubmit
    /\ \/ /\ task[i] \in {"ok", "failed"}
          /\ task' = [task EXCEPT ![i] = "taken"]
          /\ batch' = batch \ {i}
          /\ usable' = (usable \/ task[i] = "ok")
          /\ pc' = IF next <= size \/ (batch' = {} /\ Pending' # {}) THEN "check" ELSE "act"
          /\ UNCHANGED <<stage, error>>
       \/ /\ task[i] \in {"unavailable", "unexpected"}
          /\ task' = [j \in Tasks |-> IF j = i THEN "taken"
                                      ELSE IF j \in Queued THEN "cancelled" ELSE task[j]]
          /\ stage' = "join" /\ error' = task[i]
          /\ UNCHANGED <<batch, usable, pc>>
    /\ UNCHANGED <<cancel, searchVars, size, next, workerVars, extra, result, progressVars,
                   late>>

\* Mutant of Join: the exception leaves while inspections still run.
JoinNothing ==
    /\ stage = "join"
    /\ Raise(error)
    /\ UNCHANGED <<poolVars, workerVars>>

\* The with block joins its workers before the exception leaves it.
Join ==
    /\ stage = "join" /\ Working = {}
    /\ Raise(error)
    /\ UNCHANGED <<poolVars, workerVars>>

PoolEmpty == pc = "act" /\ next > size /\ Pending = {}

\* The bases are read; n candidates make the shortlist.
CloseLineage(n) ==
    /\ stage = "lineage" /\ PoolEmpty
    /\ \/ n = 0 /\ Finish("no_results")
       \/ /\ n # 0
          /\ stage' = "inspect" /\ pc' = "check"
          /\ Open(n)
          /\ DoneThenStart({"filter"}, "inspect")
          /\ UNCHANGED <<cancel, searchVars, workerVars, usable, extra, endVars, late>>

CloseInspect ==
    /\ stage = "inspect" /\ PoolEmpty
    /\ stage' = "expand" /\ pc' = "check"
    /\ progress' = SetStep(SetStep(progress, "inspect", "done"), "estimate", "done")
    /\ UNCHANGED <<cancel, searchVars, poolVars, workerVars, usable, extra, endVars,
                   current, late>>

-----------------------------------------------------------------------------
(* A worker's evaluate_one or read.                                        *)

Move(i, s) ==
    /\ task' = [task EXCEPT ![i] = s]
    /\ UNCHANGED <<cancel, stage, pc, searchVars, size, next, batch, usable, extra, endVars,
                   progressVars, late>>

StartTask(i) ==
    /\ InPool /\ i \in Queued
    /\ Move(i, IF stage = "inspect" THEN "running" ELSE "reading")
    /\ UNCHANGED workerVars

\* A read is best effort and never raises.
Read(i) ==
    /\ task[i] = "reading"
    /\ \E s \in {"ok", "failed"} : Move(i, s)
    /\ UNCHANGED workerVars

\* _inspect_with_persistent_cache and evaluate_candidate: a bad model is a failed
\* candidate, a transport failure is about the run.
Inspect(i) ==
    /\ task[i] = "running"
    /\ \E s \in {"metadata", "failed", "unavailable", "unexpected"} : Move(i, s)
    /\ UNCHANGED workerVars

\* RunCache.get_or_compute, first critical section.
Lookup(i) ==
    /\ task[i] = "metadata"
    /\ \/ /\ entry # None
          /\ value' = [value EXCEPT ![i] = entry]
          /\ Move(i, "ok")
       \/ /\ entry = None
          /\ Move(i, "fetching") /\ UNCHANGED value
    /\ UNCHANGED entry

\* The Hub's answer and the second critical section, setdefault: the first value
\* stays.  A missing file is a value too; a transport failure is not cached.
Publish(i) ==
    /\ task[i] = "fetching"
    /\ \/ \E v \in Metadata :
             /\ entry' = IF entry = None THEN v ELSE entry
             /\ value' = [value EXCEPT ![i] = entry']
             /\ Move(i, "ok")
       \/ Move(i, "unavailable") /\ UNCHANGED workerVars

-----------------------------------------------------------------------------
(* Alternatives, header prefetch and ranking.                              *)

\* expand_execution_candidates: every failure of an alternative is swallowed.
ExpandOne ==
    /\ stage = "expand" /\ pc = "act" /\ extra < MaxExtra
    /\ extra' = extra + 1
    /\ \E ok \in BOOLEAN : usable' = (usable \/ ok)
    /\ pc' = "check"
    /\ UNCHANGED <<cancel, stage, searchVars, poolVars, workerVars, endVars, progressVars,
                   late>>

ExpandDone ==
    /\ stage = "expand" /\ pc = "act"
    /\ stage' = "rescue" /\ extra' = 0
    /\ UNCHANGED <<cancel, pc, searchVars, poolVars, workerVars, usable, endVars,
                   progressVars, late>>

\* rescue_with_reupload_alternatives: the inspection of a sibling may fail, its
\* estimate may not.
RescueOne ==
    /\ stage = "rescue" /\ extra < MaxExtra
    /\ \/ cancel /\ Raise("cancelled")
       \/ ~cancel /\ Raise("unavailable")
       \/ /\ ~cancel
          /\ extra' = extra + 1
          /\ \E ok \in BOOLEAN : usable' = (usable \/ ok)
          /\ UNCHANGED <<cancel, stage, pc, searchVars, endVars, progressVars, late>>
    /\ UNCHANGED <<poolVars, workerVars>>

\* The headers of n variants are not cached yet.
RescueDone(n) ==
    /\ stage = "rescue"
    /\ stage' = "headers" /\ pc' = IF n = 0 THEN "act" ELSE "check"
    /\ Open(n)
    /\ StartStep("rank")
    /\ UNCHANGED <<cancel, searchVars, workerVars, usable, extra, endVars, late>>

CloseHeaders ==
    /\ stage = "headers" /\ PoolEmpty
    /\ stage' = "rank"
    /\ UNCHANGED <<cancel, pc, searchVars, poolVars, workerVars, usable, extra, endVars,
                   progressVars, late>>

\* recommend; the estimate of a plan checks the flag once more.
Rank ==
    /\ stage = "rank"
    /\ \/ ~usable /\ Finish("no_results")
       \/ usable /\ \E end \in {"recommendations", "no_results"} : Finish(end)
       \/ /\ usable
          /\ \/ cancel /\ Raise("cancelled")
             \/ Raise("unexpected")
          /\ UNCHANGED <<poolVars, workerVars>>

-----------------------------------------------------------------------------

RequestCancel ==
    /\ ~cancel /\ cancel' = TRUE
    /\ UNCHANGED <<stage, pc, searchVars, poolVars, workerVars, usable, extra, endVars,
                   progressVars, late>>

Main ==
    \/ Check \/ BuildQueries
    \/ \E failed, hits \in BOOLEAN : Query(failed, hits)
    \/ \E n \in 0..MaxTasks : Filter(n) \/ CloseLineage(n) \/ RescueDone(n)
    \/ Submit \/ Wait \/ TakeReads \/ (\E i \in Tasks : TakeInspection(i)) \/ Join
    \/ CloseInspect \/ ExpandOne \/ ExpandDone \/ RescueOne \/ CloseHeaders \/ Rank

Worker(i) == StartTask(i) \/ Read(i) \/ Inspect(i) \/ Lookup(i) \/ Publish(i)

Step == Main \/ \E i \in Tasks : Worker(i)

\* The thread of the run and the workers are scheduled, and every request to the
\* Hub ends, by its HTTP timeout at the latest.
Fairness == WF_vars(Main) /\ \A i \in Tasks : WF_vars(Worker(i))

Next == Step \/ RequestCancel

Spec == Init /\ [][Next]_vars /\ Fairness

-----------------------------------------------------------------------------
(* Properties.                                                             *)

\* Every variable keeps its type.
TypeOK ==
    /\ cancel \in BOOLEAN
    /\ stage \in Stages /\ pc \in {"check", "act"}
    /\ asked \in 0..NQueries /\ failures \in 0..NQueries /\ found \in BOOLEAN
    /\ size \in 0..MaxTasks /\ next \in 1..(MaxTasks + 1)
    /\ task \in [Tasks -> Statuses]
    /\ batch \subseteq Tasks
    /\ value \in [Tasks -> Metadata \cup {None}] /\ entry \in Metadata \cup {None}
    /\ usable \in BOOLEAN /\ extra \in 0..MaxExtra
    /\ error \in Errors \cup {None} /\ result \in Ends \cup {None}
    /\ progress \in [StepKeys -> StepStatus]
    /\ current \in StepKeys
    /\ late \in Nat

\* No inspection outlives the run, however it ends: the run's caches and counters
\* are not written after run_workflow returned.  (A header or lineage read may, see
\* header_prefetch.py.)
InspectionsEndWithTheRun ==
    result # None => \A i \in Tasks : task[i] \notin {"queued", "running", "metadata", "fetching"}

\* Every shortlisted candidate is evaluated and stored at its index before the run
\* goes on, in whatever order the workers end.
NoCandidateLost == stage \in {"expand", "rescue"} => \A i \in 1..size : task[i] = "taken"

\* Workers that miss the run cache at the same time may both ask the Hub, but all
\* of them go on with one answer.
OneAnswerPerKey == \A i \in Tasks : value[i] # None => value[i] = entry

\* An unreachable Hub is an error, never an empty result.
UnreachableHubIsReported == result = "no_results" => failures < NQueries

\* A run that returned has ended: nothing of it goes on behind the result, and an empty
\* result is the answer of at least one query.
RunEndsWell == InspectionsEndWithTheRun /\ UnreachableHubIsReported

\* Whatever the workers share and in whatever order they end, every candidate is there
\* and all of them saw one answer of the Hub.
WorkIsShared == NoCandidateLost /\ OneAnswerPerKey
=============================================================================
