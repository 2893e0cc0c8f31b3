--------------------------- MODULE ResultsScreen ---------------------------
(***************************************************************************)
(* The results of a search (tui/screens/recommendation_results.py), for    *)
(* one recommendation, and the screens it opens: the paths (PathsScreen),  *)
(* the Run, Validate, Benchmark and quality screens, whose workers save    *)
(* records also after their screen was left, the evaluation of the         *)
(* search's candidates, and the comparison of saved benchmarks.  Results   *)
(* reads the stores again whenever it is shown again; its worker is its    *)
(* own.                                                                    *)
(***************************************************************************)
EXTENDS PathsScreen

CONSTANTS
    Single,        \* one interactive user: what a microbenchmark speaks of
    MaxReads       \* bound on the evidence reads not shown yet

VARIABLES
    reads,     \* evidence futures submitted and not begun
    read,      \* how many records there were when its worker began, or None
    arrived,   \* messages to handle: snapshots
    shown,     \* what the index of the row in view has seen, or None
    compared,  \* the records the comparison screen shows, or None
    due        \* how many records were saved when Results was last shown

resultsVars == <<reads, read, arrived, shown, compared, due>>
vars == <<stores, pathsVars, resultsVars>>

Init ==
    /\ store \in Stored
    /\ stack = <<>> /\ Closed
    /\ reads = 1 /\ read = None /\ arrived = <<>> /\ shown = None
    /\ compared = None /\ due = Len(store)

ASSUME ResultsAssumption == MaxReads \in Nat \ {0} /\ Single \in BOOLEAN

-----------------------------------------------------------------------------
(* Going to another screen and back.                                       *)

Push(screen) == stack' = Append(stack, screen)

\* on_button_pressed: Run, Validate and Speed act on the recommended plan.
LaunchFromResults ==
    /\ stack = <<>> /\ Push("launch")
    /\ UNCHANGED <<store, pathsVars, resultsVars>>

\* The paths' buttons act on the selected plan.
LaunchFromPaths ==
    /\ On("paths") /\ usable /\ Push("launch")
    /\ UNCHANGED <<store, pathsVars, resultsVars>>

EvaluateFromPaths ==
    /\ On("paths") /\ selected # None
    /\ Listed(list, ShownPaths(list, evidence, filter), selected) /\ selected.runtime = "llama"
    /\ Push("quality")
    /\ UNCHANGED <<store, pathsVars, resultsVars>>

OpenPaths ==
    /\ stack = <<>> /\ Push("paths") /\ Blank(<<"load">>)
    /\ UNCHANGED <<store, resultsVars>>

OpenCandidates ==
    /\ stack = <<>> /\ Push("candidates")
    /\ UNCHANGED <<store, pathsVars, resultsVars>>

OpenCompare ==
    /\ stack = <<>> /\ Push("compare") /\ compared' = None
    /\ UNCHANGED <<store, pathsVars, reads, read, arrived, shown, due>>

\* A mutant: the guard of the paths screen, "already pending", here too.
ResultsResumeUnlessReading(submitted) ==
    /\ reads + Len(arrived) + (IF read = None THEN 0 ELSE 1) + submitted =< MaxReads
    /\ reads' = IF reads > 0 \/ read # None THEN reads ELSE reads + submitted
    /\ due' = Len(store)
    /\ compared' = None
    /\ UNCHANGED <<read, arrived, shown>>

\* on_screen_resume
ResultsResume(submitted) ==
    /\ reads + Len(arrived) + (IF read = None THEN 0 ELSE 1) + submitted =< MaxReads
    /\ reads' = reads + submitted
    /\ due' = Len(store)
    /\ compared' = None
    /\ UNCHANGED <<read, arrived, shown>>

LeavePaths ==
    /\ On("paths") /\ stack' = Front(stack)
    /\ ResultsResume(1) /\ Blank(<<>>)
    /\ UNCHANGED store

\* Leaving a launch or quality screen resumes the screen below it.
LeaveLaunch ==
    /\ On("launch") \/ On("quality")
    /\ stack' = Front(stack)
    /\ IF Len(stack) = 1
       THEN ResultsResume(1) /\ UNCHANGED <<pathsVars>>
       ELSE Resumed /\ UNCHANGED <<view, job, inbox, resultsVars>>
    /\ UNCHANGED store

LeaveCompare ==
    /\ On("compare") /\ stack' = Front(stack)
    /\ ResultsResume(1)
    /\ UNCHANGED <<store, pathsVars>>

\* _candidate_evaluations_finished: the screen resumes and the callback reads again.
LeaveCandidates ==
    /\ On("candidates") /\ stack' = Front(stack)
    /\ ResultsResume(2)
    /\ UNCHANGED <<store, pathsVars>>

-----------------------------------------------------------------------------
(* Records appear while a launch or an evaluation runs, and after its      *)
(* screen was left.                                                        *)

Save(shape) ==
    /\ Len(store) < MaxStore
    /\ store' = Append(store, shape)
    /\ UNCHANGED <<stack, pathsVars, resultsVars>>

-----------------------------------------------------------------------------
(* The workers of Results and of the comparison, and their messages.       *)

BeginRead ==
    /\ read = None /\ reads > 0
    /\ reads' = reads - 1 /\ read' = Len(store)
    /\ UNCHANGED <<stores, pathsVars, arrived, shown, compared, due>>

PostRead ==
    /\ read # None /\ read' = None
    /\ \E seen \in SeenSince(read) : arrived' = Append(arrived, seen)
    /\ UNCHANGED <<stores, pathsVars, reads, shown, compared, due>>

\* _evidence_loaded
ShowEvidence ==
    /\ arrived # <<>>
    /\ shown' = Head(arrived) /\ arrived' = Tail(arrived)
    /\ UNCHANGED <<stores, pathsVars, reads, read, compared, due>>

\* compare_saved_benchmarks_for_recommendation, loaded and shown.
ShowComparison ==
    /\ On("compare") /\ compared = None
    /\ compared' = {[store[i] EXCEPT !.at = i] : i \in {j \in DOMAIN store : store[j].kind = "benchmark"}}
    /\ UNCHANGED <<stores, pathsVars, reads, read, arrived, shown, due>>

ResultsWorker == BeginRead \/ PostRead

User ==
    \/ PathsUser /\ UNCHANGED resultsVars
    \/ LaunchFromResults \/ LaunchFromPaths \/ EvaluateFromPaths
    \/ OpenPaths \/ OpenCandidates \/ OpenCompare
    \/ LeavePaths \/ LeaveLaunch \/ LeaveCompare
    \/ LeaveCandidates

Next ==
    \/ User
    \/ PathsWorker /\ UNCHANGED resultsVars
    \/ PathsMessages /\ UNCHANGED resultsVars
    \/ ResultsWorker \/ ShowEvidence \/ ShowComparison
    \/ \E s \in Shapes : Save(s)

\* The thread of the paths' worker runs, and the application handles what it posts.
Fairness == WF_pathsVars(PathsWorker) /\ WF_pathsVars(PathsMessages)

Spec == Init /\ [][Next]_vars /\ Fairness

-----------------------------------------------------------------------------
(* Properties.                                                             *)

\* on_screen_resume: "Returning from evaluation/Paths must see newly persisted
\* evidence": when no read is under way, Results has read every store after
\* it was last shown again, whatever was saved, read and left in between.
ResultsShowSaved ==
    reads = 0 /\ read = None /\ arrived = <<>> =>
        shown # None /\ \A k \in DOMAIN shown : shown[k] >= SeenAt(due)[k]

\* Run, Validate and Benchmark of the paths screen are enabled exactly when the
\* selected path is listed, shown by the filter, and ready, through reloads,
\* refreshed evidence and filters that hide it; but for a check under way and
\* after one that failed.
CheckPending ==
    \/ \E i \in DOMAIN jobs : jobs[i] = "recheck"
    \/ job # None /\ job.kind = "recheck"
    \/ \E i \in DOMAIN inbox : inbox[i].kind \in {"loaded", "failed"}
ActionsFollowSelection ==
    IsOpen /\ ~CheckPending /\ ~error => usable = MayAct(list, ShownPaths(list, evidence, filter), selected)

\* What the row calls measured, the other readers of the stores confirm: the
\* plan has its Benchmarked tick, and each run counted is in its history.
MeasuredIsBacked ==
    shown # None =>
        LET R == Held(shown)
            runs == MeasuredRuns(Recommended, Single, R)
        IN  runs # {} => Benchmarked(Recommended, R) /\ runs \subseteq BenchmarkHistory(Recommended, R)

\* docs/evidence.md: a later failure does not replace earlier successful evidence,
\* in the speed of the row, in the ticks, and in the comparison.
FailureReplacesNothing ==
    /\ shown # None =>
           LET R == Held(shown)
           IN  Readout(Recommended, Single, R) = Readout(Recommended, Single, Indexed(R))
    /\ compared # None =>
           \A r \in Indexed(compared) : \E s \in LastRecords(compared) : Setting(s) = Setting(r)

\* The screen shows what is stored, and counts what succeeded whatever failed later.
SavedIsShown == ResultsShowSaved /\ FailureReplacesNothing
=============================================================================
