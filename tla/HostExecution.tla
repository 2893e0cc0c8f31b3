--------------------------- MODULE HostExecution ---------------------------
(***************************************************************************)
(* HostExecutionBackend.execute (execution/host.py): one command, its      *)
(* deadline, and the escalation from terminate to kill.  The child process *)
(* runs beside the thread that waits for it and may end, hang or ignore    *)
(* the terminate signal at any moment.                                     *)
(***************************************************************************)
CONSTANT None

Ends == {"exit_0", "exit_1", "signalled"}

\* ExecutionFailureReason, and success.
Observations == {"success", "executable_not_found", "spawn_error", "timeout", "non_zero_exit"}

ASSUME HostAssumption == None \notin Observations

VARIABLES
    host,         \* where execute is
    child,        \* the child process
    terminated,   \* whether it was asked to terminate
    observation   \* what execute observed; None until it returns or raises

hostVars == <<host, child, terminated, observation>>

HostInit == host = "idle" /\ child = "none" /\ terminated = FALSE /\ observation = None

\* Popen: an executable that is missing, or that the system refuses to start, is an
\* observation too.
Spawn ==
    /\ host = "idle"
    /\ \/ /\ host' = "waiting" /\ child' = "running" /\ observation' = None
       \/ /\ host' = "returned" /\ child' = "none"
          /\ observation' \in {"executable_not_found", "spawn_error"}
    /\ terminated' = FALSE

\* Left alone it exits, with 0 or with what stands here for any failure, a signal of
\* somebody else included; asked to terminate it may also die of that.
ChildExits ==
    /\ child = "running"
    /\ child' \in IF terminated THEN Ends ELSE {"exit_0", "exit_1"}
    /\ UNCHANGED <<host, terminated, observation>>

\* communicate returned before the deadline.
Collect ==
    /\ host = "waiting" /\ child # "running"
    /\ host' = "returned"
    /\ observation' = IF child = "exit_0" THEN "success" ELSE "non_zero_exit"
    /\ UNCHANGED <<child, terminated>>

\* The deadline has passed; poll, and terminate what still runs.
Deadline ==
    /\ host = "waiting"
    /\ host' = "draining" /\ terminated' = (child = "running")
    /\ UNCHANGED <<child, observation>>

\* Mutant of Kill: the grace period ends without a kill.
GiveUp ==
    /\ host = "draining" /\ child = "running"
    /\ host' = "returned" /\ observation' = "timeout"
    /\ UNCHANGED <<child, terminated>>

\* Mutant of Kill: the child is asked to terminate once more.
TerminateAgain ==
    /\ host = "draining" /\ child = "running"
    /\ terminated' = TRUE
    /\ UNCHANGED <<host, child, observation>>

\* The grace period is over and the child still runs.
Kill ==
    /\ host = "draining" /\ child = "running"
    /\ child' = "signalled"
    /\ UNCHANGED <<host, terminated, observation>>

\* The output is drained; whatever the exit code, the run timed out.
Drain ==
    /\ host = "draining" /\ child # "running"
    /\ host' = "returned" /\ observation' = "timeout"
    /\ UNCHANGED <<child, terminated>>

HostStep == Collect \/ Deadline \/ Kill \/ Drain

HostNext == Spawn \/ HostStep \/ ChildExits

\* The clock moves and the waiting thread is scheduled; the child owes nothing.
HostFairness == WF_hostVars(HostStep)

HostSpec == HostInit /\ [][HostNext]_hostVars /\ HostFairness

-----------------------------------------------------------------------------

HostTypeOK ==
    /\ host \in {"idle", "waiting", "draining", "returned"}
    /\ child \in {"none", "running"} \cup Ends
    /\ terminated \in BOOLEAN
    /\ observation \in Observations \cup {None}

\* No child is left behind: once execute returned or raised, on time or not, the
\* process it started has ended.
NoChildLeftBehind == host = "returned" => child # "running"

\* What is recorded happened: success is exit code 0 of a child nobody signalled, a
\* non-zero exit is the child's own, and only an execution that returned is observed.
ObservationIsTruthful ==
    /\ observation = "success" => child = "exit_0" /\ ~terminated
    /\ observation = "non_zero_exit" => child = "exit_1" /\ ~terminated
    /\ observation # None => host = "returned"

\* An execution that ended is over and told as it was.
ExecutionEndsClean == NoChildLeftBehind /\ ObservationIsTruthful
=============================================================================
