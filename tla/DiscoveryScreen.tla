-------------------------- MODULE DiscoveryScreen --------------------------
(***************************************************************************)
(* The search screen of the TUI (tui/screens/model_discovery.py) around a  *)
(* guided search: its worker runs run_workflow outside the event loop and  *)
(* posts the result; keys and buttons act at any moment in between.        *)
(***************************************************************************)
EXTENDS SearchWorkflow

VARIABLES
    screen,   \* what the user sees
    closing,  \* _discovery_closing
    inbox     \* the posted result the event loop has not handled yet; None if there is none

screenVars == <<screen, closing, inbox>>

allVars == <<vars, screenVars>>

runVars == <<stage, pc, searchVars, poolVars, workerVars, usable, extra, endVars,
             progressVars, late>>

\* The worker of the screen has not posted the end of its run yet.
Unposted == screen = "searching" /\ inbox = None

ScreenInit == Init /\ screen = "searching" /\ closing = FALSE /\ inbox = None

-----------------------------------------------------------------------------

RunStep == Step /\ UNCHANGED screenVars

\* Mutant of Post: an exception of the run is swallowed.
PostResultOnly ==
    /\ result \notin {None, "unexpected"} /\ ~closing /\ Unposted
    /\ inbox' = result
    /\ UNCHANGED <<vars, screen, closing>>

\* _run after recommend returned or raised.
Post ==
    /\ result # None /\ ~closing /\ Unposted
    /\ inbox' = result
    /\ UNCHANGED <<vars, screen, closing>>

\* Mutant of Handle: a finished search is shown although it was cancelled.
HandleUncancelled ==
    /\ inbox # None /\ ~closing
    /\ inbox' = None
    /\ screen' = IF inbox \in Errors THEN "error" ELSE "results"
    /\ UNCHANGED <<vars, closing>>

\* _finish_message, _failed_message and _finish.
Handle ==
    /\ inbox # None
    /\ inbox' = None
    /\ screen' = CASE closing                         -> screen
                   [] ~closing /\ cancel              -> "cancelled"
                   [] ~closing /\ ~cancel /\ inbox \in Errors -> "error"
                   [] OTHER                           -> "results"
    /\ UNCHANGED <<vars, closing>>

\* action_cancel, from the button or the Escape key; it disables the button it
\* finds, and _show_error and _show_cancelled have removed that button.
ActionCancel ==
    /\ screen \in {"searching", "error", "cancelled"}
    /\ cancel' = TRUE
    /\ screen' = IF screen = "searching" THEN "searching" ELSE "crashed"
    /\ UNCHANGED <<runVars, closing, inbox>>

\* The Retry button of _show_error.
Retry ==
    /\ screen = "error"
    /\ Rerun
    /\ screen' = "searching"
    /\ UNCHANGED <<closing, inbox>>

\* Start again, Advanced tools, a navigation key or Quit: the screen is unmounted
\* and its executor is shut down without waiting.  The flag is not set, so the
\* search goes on unseen.
Leave ==
    /\ screen \in {"searching", "error", "cancelled"}
    /\ closing' = TRUE /\ screen' = "away"
    /\ UNCHANGED <<vars, inbox>>

EventLoop == Handle \/ ActionCancel \/ Retry \/ Leave

ScreenNext == RunStep \/ Post \/ EventLoop

\* The event loop handles its messages; the user need not do anything.
ScreenSpec ==
    /\ ScreenInit /\ [][ScreenNext]_allVars
    /\ WF_allVars(Main /\ UNCHANGED screenVars)
    /\ \A i \in Tasks : WF_allVars(Worker(i) /\ UNCHANGED screenVars)
    /\ WF_allVars(Post) /\ WF_allVars(Handle)

-----------------------------------------------------------------------------

\* Results are shown only for a run that ended with them, and never after the user
\* asked to cancel, also when the cancel comes after the last checkpoint of the run.
ShownResultsAreWanted ==
    screen = "results" => ~cancel /\ result \in {"recommendations", "no_results"}

\* A search on screen comes to an end the user sees, whatever fails and whenever
\* Cancel is pressed.
SearchEndsOnScreen == screen = "searching" ~> screen # "searching"

=============================================================================
