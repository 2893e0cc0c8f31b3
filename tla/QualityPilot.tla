---------------------------- MODULE QualityPilot ----------------------------
(***************************************************************************)
(* One invocation of the quality pilot: _invoke of                         *)
(* runtime/quality_eval_runner.py, which polls for a cancellation and a    *)
(* deadline and escalates SIGINT, SIGTERM and SIGKILL, and the child it    *)
(* starts, run of scripts/quality_eval_smoke.py, which owns a model server *)
(* and a container and gives them back in its finally clause.              *)
(***************************************************************************)
EXTENDS Integers

CONSTANT None

ASSUME PilotAssumption ==
    None \notin {"ok", "failed", "cancelled", "escaped"} /\ None \notin {0, 1}

VARIABLES
    cancel,     \* the Event a user sets: Cancel, Back, Quit
    invoke,     \* where _invoke is: "idle", "poll", "int", "term", "kill", "reap"
    reason,     \* why it interrupts the child: None, "cancelled" or "failed"
    result,     \* how the last invocation ended: None, "ok", "failed", "cancelled", "escaped"
    child,      \* where the child is; "gone" when it is not running
    code,       \* its exit code: 0, 1 or None
    raised,     \* an exception is on its way through the child's finally
    verified,   \* artifact_verified
    attempted,  \* container_attempted
    untidy,     \* cleanup-error.json was written
    server,     \* the server on the fixed port: "down", "up" or "ending"
    container   \* "none", "up" or "removed"

childVars == <<child, code, raised, verified, attempted, untidy, server, container>>
parentVars == <<invoke, reason, result>>
pilotVars == <<cancel, invoke, reason, result, child, code, raised, verified,
               attempted, untidy, server, container>>

PilotInit ==
    /\ cancel = FALSE
    /\ invoke = "idle" /\ reason = None /\ result = None
    /\ child = "gone" /\ code = None
    /\ raised = FALSE /\ verified = FALSE /\ attempted = FALSE /\ untidy = FALSE
    /\ server = "down" /\ container = "none"

-----------------------------------------------------------------------------
(* The child.                                                              *)

\* Mutant of Cleanup: the server is stopped only after a container was.
CleanupOfContainer(att, ver) == IF att THEN "remove" ELSE IF ver THEN "rehash" ELSE "status"

\* Where the finally clause starts: container, server, then the second hash.
Cleanup(att, ver) ==
    IF att THEN "remove"
    ELSE IF server # "down" /\ child \in {"serve", "evaluate", "finish", "remove"} THEN "stop"
    ELSE IF ver THEN "rehash" ELSE "status"

\* An exception in the body; the finally clause runs next.
Raise == raised' = TRUE /\ child' = Cleanup(attempted, verified)

Exit(c) == child' = "gone" /\ code' = c

\* Verify the artifact, check the infrastructure, readiness and fit.
ChildPrepares ==
    /\ child = "prepare"
    /\ \/ child' = "launch" /\ verified' = TRUE /\ UNCHANGED raised
       \/ \E ver \in BOOLEAN : /\ verified' = ver
                               /\ raised' = TRUE
                               /\ child' = Cleanup(FALSE, ver)
    /\ UNCHANGED <<cancel, parentVars, code, attempted, untidy, server, container>>

\* check_server_port refuses a port that is taken; server is Popen's from here on.
ChildLaunches ==
    /\ child = "launch"
    /\ IF server = "down" THEN child' = "serve" /\ server' = "up" /\ UNCHANGED raised
                          ELSE child' = "rehash" /\ raised' = TRUE /\ UNCHANGED server
    /\ UNCHANGED <<cancel, parentVars, code, verified, attempted, untidy, container>>

\* wait_for_server: healthy, dead, or not ready in time.
ChildServes ==
    /\ child = "serve"
    /\ \/ /\ server = "up" /\ child' = "evaluate"
          /\ attempted' = TRUE /\ container' = "up" /\ UNCHANGED raised
       \/ Raise /\ UNCHANGED <<attempted, container>>
    /\ UNCHANGED <<cancel, parentVars, code, verified, untidy, server>>

\* docker run --rm: it completes, fails, or its client is killed at the timeout and
\* the container stays.
ChildEvaluates ==
    /\ child = "evaluate"
    /\ \/ /\ container' = "removed" /\ attempted' = FALSE
          /\ child' = "finish" /\ UNCHANGED raised
       \/ container' \in {"up", "removed"} /\ Raise /\ UNCHANGED attempted
    /\ UNCHANGED <<cancel, parentVars, code, verified, untidy, server>>

\* smoke-status.json names the completed profile, or the run is refused.
ChildFinishes ==
    /\ child = "finish"
    /\ child' = Cleanup(attempted, verified)
    /\ raised' \in BOOLEAN
    /\ UNCHANGED <<cancel, parentVars, code, verified, attempted, untidy, server, container>>

\* docker rm --force; a failure is written down and the cleanup goes on.
ChildRemoves ==
    /\ child = "remove"
    /\ \/ container' = "removed" /\ UNCHANGED untidy
       \/ untidy' = TRUE /\ UNCHANGED container
    /\ child' = Cleanup(FALSE, verified)
    /\ UNCHANGED <<cancel, parentVars, code, raised, verified, attempted, server>>

\* server.terminate()
ChildTerminates ==
    /\ child = "stop"
    /\ server' = IF server = "up" THEN "ending" ELSE server
    /\ child' = "wait"
    /\ UNCHANGED <<cancel, parentVars, code, raised, verified, attempted, untidy, container>>

\* server.wait(10), then server.kill().
ChildWaits ==
    /\ child = "wait"
    /\ server' = "down"
    /\ child' = IF verified THEN "rehash" ELSE "status"
    /\ UNCHANGED <<cancel, parentVars, code, raised, verified, attempted, untidy, container>>

\* The artifact and the server binary are hashed again; either may have changed.
ChildRehashes ==
    /\ child = "rehash"
    /\ child' = "status"
    /\ raised' \in {raised, TRUE}
    /\ UNCHANGED <<cancel, parentVars, code, verified, attempted, untidy, server, container>>

\* The child exits: 0 only when nothing was raised and the cleanup was confirmed.
ChildReports ==
    /\ child = "status"
    /\ Exit(IF raised \/ untidy THEN 1 ELSE 0)
    /\ UNCHANGED <<cancel, parentVars, raised, verified, attempted, untidy, server, container>>

\* KeyboardInterrupt: in the body it starts the cleanup (a docker client is killed, its
\* container is not); in the cleanup it leaves it.
Interrupted ==
    IF child \in {"prepare", "launch", "serve", "evaluate", "finish"}
    THEN Raise /\ UNCHANGED code
    ELSE IF child = "gone" THEN UNCHANGED <<raised, child, code>>
                           ELSE Exit(1) /\ UNCHANGED raised

\* The server ends by itself, or because it was told to.
ServerEnds ==
    /\ server # "down" /\ server' = "down"
    /\ UNCHANGED <<cancel, parentVars, child, code, raised, verified, attempted, untidy,
                   container>>

\* A process group that was signalled and is not yet dead.
ChildDies ==
    /\ child = "dying" /\ Exit(1)
    /\ UNCHANGED <<cancel, parentVars, raised, verified, attempted, untidy, server, container>>

Child == \/ ChildPrepares \/ ChildLaunches \/ ChildServes \/ ChildEvaluates \/ ChildFinishes
         \/ ChildRemoves \/ ChildTerminates \/ ChildWaits \/ ChildRehashes \/ ChildReports
         \/ ChildDies

-----------------------------------------------------------------------------
(* _invoke.                                                                *)

\* _check_cancel and Popen, in a session of its own.
InvokeBegins ==
    /\ IF cancel
       THEN /\ result' = "cancelled"
            /\ UNCHANGED <<invoke, childVars>>
       ELSE /\ invoke' = "poll" /\ result' = None
            /\ child' = "prepare" /\ code' = None
            /\ raised' = FALSE /\ verified' = FALSE /\ attempted' = FALSE /\ untidy' = FALSE
            /\ container' = "none"
            /\ UNCHANGED server
    /\ reason' = None
    /\ UNCHANGED cancel

InvokeEnds(r) == invoke' = "idle" /\ result' = r /\ UNCHANGED reason

\* process.wait returned: the exit code decides.
InvokeSeesExit ==
    /\ invoke = "poll" /\ child = "gone"
    /\ InvokeEnds(IF code = 0 THEN "ok" ELSE "failed")
    /\ UNCHANGED <<cancel, childVars>>

\* A cancellation or the deadline: SIGINT to the child alone.
InvokeInterrupts ==
    /\ invoke = "poll"
    /\ \/ cancel /\ reason' = "cancelled"
       \/ reason' = "failed"
    /\ invoke' = "int"
    /\ Interrupted
    /\ UNCHANGED <<cancel, result, verified, attempted, untidy, server, container>>

\* The child went away in time after a signal.
InvokeReaps ==
    /\ invoke \in {"int", "term", "kill"} /\ child = "gone"
    /\ InvokeEnds(reason)
    /\ UNCHANGED <<cancel, childVars>>

\* Mutant of InvokeTerminates: SIGTERM goes to the server alone.
InvokeTerminatesServer ==
    /\ invoke = "int" /\ child # "gone"
    /\ invoke' = "term"
    /\ server' = IF server = "up" THEN "ending" ELSE server
    /\ UNCHANGED <<cancel, reason, result, child, code, raised, verified, attempted, untidy,
                   container>>

\* wait(60) expired: SIGTERM to the group, which is the child and its server.
InvokeTerminates ==
    /\ invoke = "int" /\ child # "gone"
    /\ invoke' = "term" /\ child' = "dying"
    /\ server' = IF server = "up" THEN "ending" ELSE server
    /\ UNCHANGED <<cancel, reason, result, code, raised, verified, attempted, untidy, container>>

\* wait(10) expired: SIGKILL to the group.
InvokeKills ==
    /\ invoke = "term" /\ child # "gone"
    /\ invoke' = "kill" /\ server' = "down"
    /\ UNCHANGED <<cancel, reason, result, child, code, raised, verified, attempted, untidy,
                   container>>

\* wait(5) expired: TimeoutExpired replaces the reason, and Popen's exit waits on.
InvokeGivesUp ==
    /\ invoke = "kill" /\ child # "gone"
    /\ invoke' = "reap"
    /\ UNCHANGED <<cancel, reason, result, childVars>>

InvokeEscapes ==
    /\ invoke = "reap" /\ child = "gone"
    /\ InvokeEnds("escaped")
    /\ UNCHANGED <<cancel, childVars>>

Invoke == \/ InvokeSeesExit \/ InvokeInterrupts \/ InvokeReaps \/ InvokeTerminates
          \/ InvokeKills \/ InvokeGivesUp \/ InvokeEscapes

PilotNext == Child \/ Invoke \/ ServerEnds

-----------------------------------------------------------------------------

\* An invocation that succeeds has given back all it owned: no server of its own is
\* left on the port and its container is gone.
ResultMeansClean ==
    invoke = "idle" /\ result = "ok" /\ child = "gone" =>
        server = "down" /\ container = "removed" /\ verified

=============================================================================
