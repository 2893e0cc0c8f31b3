---------------------------- MODULE PathsScreen ----------------------------
(***************************************************************************)
(* The execution paths of one recommendation (tui/screens/                 *)
(* execution_paths.py) over the record stores: the list a worker loads,    *)
(* the ticks and filters that read the stores, the path selected and       *)
(* whether its actions may be pressed.  The screen has one worker; what it *)
(* posts is handled in order, between the user's presses.                  *)
(*                                                                         *)
(* The stores are flat directories: EvidenceIndex.load lists and reads     *)
(* experiments, then benchmarks, then quality records, while the launch    *)
(* screens save.  What a reader has seen is how many records of each kind  *)
(* there were when it came to that kind.                                   *)
(***************************************************************************)
EXTENDS SpeedEvidence

CONSTANTS
    Shapes,       \* the records a launch screen may save, but for "at"
    Stored,       \* what the stores may hold at first: sequences of shapes
    MaxStore,     \* bound on the records
    Lists,        \* what a load may find: sequences of [plan, state]
    Recommended,  \* the plan of the recommendation
    Filters,      \* the filters the user tries
    MaxJobs,      \* bound on the jobs waiting for the worker
    MaxInbox      \* bound on the messages posted and not handled

ASSUME PathsAssumption ==
    /\ Filters \subseteq {"all", "ready", "validated", "benchmarked"}
    /\ MaxStore \in Nat /\ {MaxJobs, MaxInbox} \subseteq Nat \ {0}

\* The three stores, and what a record of any of them tells.
RecordKinds == {"experiment", "benchmark", "quality"}
Fields == {"kind", "at", "repo", "file", "revision", "quant", "sha", "runtime", "host",
           "memory", "driver", "backend", "device", "layers", "method", "build", "success",
           "exit0", "faults", "tg", "pp"}
Records == Shapes \cup UNION {{s[i] : i \in DOMAIN s} : s \in Stored}

\* The quantization of a GGUF file is read from its name (huggingface/classifiers.py).
ASSUME RecordAssumption ==
    /\ \A s \in Stored : s \in Seq(Records)
    /\ \A r \in Records :
          /\ DOMAIN r = Fields /\ r.kind \in RecordKinds
          /\ {r.runtime, Recommended.runtime} = {"llama"} /\ r.file = Recommended.file
                => r.quant = Recommended.quant

VARIABLES
    store,     \* the records, oldest first
    stack,     \* the screens above the results screen, the lowest first
    list,      \* _plans
    evidence,  \* _evidence: what the index in use has seen
    selected,  \* _selected_plan_id
    filter,    \* _path_filter
    usable,    \* Run, Validate and Benchmark are enabled
    recheck,   \* Recheck runtime is enabled
    offered,   \* Recheck runtime is displayed
    error,     \* an error is displayed
    jobs,      \* submitted to the worker and not begun
    job,       \* what the worker does: [kind, list, since] or None
    inbox      \* messages to handle

stores == <<store, stack>>
view == <<list, evidence, selected, filter, usable, recheck, offered, error>>
worker == <<jobs, job, inbox>>
pathsVars == <<view, worker>>

\* What a reader may have seen, and a job of the worker.
Seen == [RecordKinds -> Nat]
Job == [kind : {"load", "recheck", "evidence"}, list : Lists \cup {None}, since : Nat]

ASSUME NoneAssumption == None \notin Nat /\ None \notin Seen /\ None \notin Job

Nothing == [experiment |-> 0, benchmark |-> 0, quality |-> 0]

\* The place of the newest record of a kind among the first n.
NewestOf(records, n, k) ==
    CHOOSE i \in 0..n : /\ i = 0 \/ records[i].kind = k
                        /\ \A j \in (i + 1)..n : records[j].kind # k

SeenAt(n) == [k \in RecordKinds |-> NewestOf(store, n, k)]

\* The records an index of the stores holds.
HeldOf(records, seen) ==
    {[records[i] EXCEPT !.at = i] : i \in {j \in DOMAIN records : j =< seen[records[j].kind]}}

Held(seen) == HeldOf(store, seen)

\* EvidenceIndex.load, begun when "since" records were saved: one directory after
\* the other, each as it is when the reader comes to it.
SeenSince(since) ==
    {[experiment |-> SeenAt(t[1])["experiment"], benchmark |-> SeenAt(t[2])["benchmark"],
      quality |-> SeenAt(t[3])["quality"]] :
        t \in {u \in (since..Len(store)) \X (since..Len(store)) \X (since..Len(store)) :
                  u[1] =< u[2] /\ u[2] =< u[3]}}

On(screen) == stack # <<>> /\ stack[Len(stack)] = screen
IsOpen == \E i \in DOMAIN stack : stack[i] = "paths"

-----------------------------------------------------------------------------
(* The list, the filter and the selection.                                 *)

Fits(x) == x.state # "unfit"

MatchesFilter(x, f, R) ==
    CASE f = "all" -> TRUE
      [] f = "ready" -> x.state = "ready"
      [] f = "validated" -> Validated(x.plan, R)
      [] f = "benchmarked" -> BenchmarkHistory(x.plan, R) # {}

\* The places of a list its filter shows.
ShownPaths(l, seen, f) ==
    LET R == Held(seen)
    IN  {i \in DOMAIN l : MatchesFilter(l[i], f, R)}

Listed(l, places, plan) == \E i \in places : l[i].plan = plan
First(places) == CHOOSE i \in places : \A j \in places : i =< j

\* _default_plan_id: the recommended plan, unless others fit and it does not;
\* then the best quantization of the group of the first that fits.
DefaultPlan(l) ==
    LET fitting == {i \in DOMAIN l : Fits(l[i])}
        pool == IF fitting = {} THEN DOMAIN l ELSE fitting
        wanted == IF Listed(l, DOMAIN l, Recommended) THEN Recommended ELSE l[1].plan
        Group(i) == <<l[i].plan.runtime, l[i].plan.backend>>
        group == {i \in pool : Group(i) = Group(First(pool))}
    IN  IF l = <<>> THEN None
        ELSE IF Listed(l, pool, wanted) THEN wanted
        ELSE l[First({i \in group : \A j \in group : l[i].plan.rank =< l[j].plan.rank})].plan

\* _build_list: a selection the filter hides moves to the first plan it shows.
Reselected(l, places, plan) ==
    IF places = {} \/ Listed(l, places, plan) THEN plan ELSE l[First(places)].plan

\* _apply_selection: a plan that is listed, shown by the filter and not blocked.
MayAct(l, places, plan) == \E i \in places : l[i].plan = plan /\ l[i].state = "ready"

\* _render_plans
Render(l, seen, f, plan) ==
    LET places == ShownPaths(l, seen, f)
        chosen == Reselected(l, places, plan)
    IN  /\ list' = l /\ evidence' = seen /\ filter' = f
        /\ selected' = chosen
        /\ usable' = MayAct(l, places, chosen)

-----------------------------------------------------------------------------
(* The screen is built anew for every visit.                               *)

Closed ==
    /\ list = <<>> /\ evidence = Nothing /\ selected = None /\ filter = "all"
    /\ usable = FALSE /\ recheck = FALSE /\ offered = TRUE /\ error = FALSE
    /\ jobs = <<>> /\ job = None /\ inbox = <<>>

Blank(submitted) ==
    /\ list' = <<>> /\ evidence' = Nothing /\ selected' = None /\ filter' = "all"
    /\ usable' = FALSE /\ recheck' = FALSE /\ offered' = TRUE /\ error' = FALSE
    /\ jobs' = submitted /\ job' = None /\ inbox' = <<>>

Submit(kind) == Len(jobs) < MaxJobs /\ jobs' = Append(jobs, kind)

\* on_screen_resume: nothing to refresh, or a refresh has not ended yet.
Refreshing ==
    (job # None /\ job.kind = "evidence") \/ \E i \in DOMAIN jobs : jobs[i] = "evidence"
Resumed == jobs' = IF list = <<>> \/ Refreshing THEN jobs ELSE Append(jobs, "evidence")

-----------------------------------------------------------------------------
(* The user.                                                               *)

Choose(x) ==
    /\ On("paths")
    /\ LET places == ShownPaths(list, evidence, filter)
       IN  /\ Listed(list, places, x) /\ selected' = x
           /\ usable' = MayAct(list, places, x)
    /\ UNCHANGED <<stores, list, evidence, filter, recheck, offered, error, worker>>

SetFilter(f) ==
    /\ On("paths") /\ f # filter
    /\ Render(list, evidence, f, selected)
    /\ UNCHANGED <<stores, recheck, offered, error, worker>>

Recheck ==
    /\ On("paths") /\ recheck
    /\ recheck' = FALSE /\ error' = FALSE /\ usable' = FALSE
    /\ Submit("recheck")
    /\ UNCHANGED <<stores, list, evidence, selected, filter, offered, job, inbox>>

\* _quality_finished: a new quality record reloads the list, and the return the evidence.
QualityStored(shape) ==
    /\ On("quality")
    /\ store' = Append(store, shape)
    /\ stack' = Front(stack)
    /\ Len(jobs) + 2 =< MaxJobs
    /\ jobs' = (IF list = <<>> \/ Refreshing THEN jobs ELSE Append(jobs, "evidence"))
               \o <<"load">>
    /\ UNCHANGED <<view, job, inbox>>

-----------------------------------------------------------------------------
(* The worker.                                                             *)

Take ==
    /\ job = None /\ jobs # <<>>
    /\ job' = [kind |-> Head(jobs), list |-> None, since |-> Len(store)]
    /\ jobs' = Tail(jobs)
    /\ UNCHANGED <<stores, view, inbox>>

Post(message) == Len(inbox) < MaxInbox /\ inbox' = Append(inbox, message) /\ job' = None

\* _load_worker: the probe or the Hub fails, or the plans are found.
LoadFails ==
    /\ job # None /\ job.kind # "evidence" /\ job.list = None
    /\ Post([kind |-> "failed"])
    /\ UNCHANGED <<stores, view, jobs>>

LoadPlans(l) ==
    /\ job # None /\ job.kind # "evidence" /\ job.list = None
    /\ job' = [job EXCEPT !.list = l, !.since = Len(store)]
    /\ UNCHANGED <<stores, view, jobs, inbox>>

\* Nothing is read for an empty list.
PostLoaded ==
    /\ job # None /\ job.kind # "evidence" /\ job.list # None
    /\ \E seen \in IF job.list = <<>> THEN {Nothing} ELSE SeenSince(job.since) :
           Post([kind |-> "loaded", list |-> job.list, seen |-> seen])
    /\ UNCHANGED <<stores, view, jobs>>

PostEvidence ==
    /\ job # None /\ job.kind = "evidence"
    /\ \E seen \in SeenSince(job.since) : Post([kind |-> "evidence", seen |-> seen])
    /\ UNCHANGED <<stores, view, jobs>>

-----------------------------------------------------------------------------
(* The messages, in the order posted.                                      *)

Handling(kind) == inbox # <<>> /\ Head(inbox).kind = kind /\ inbox' = Tail(inbox)

HandleLoaded ==
    /\ Handling("loaded")
    /\ LET m == Head(inbox)
           kept == IF Listed(m.list, DOMAIN m.list, selected) THEN selected ELSE DefaultPlan(m.list)
       IN  /\ Render(m.list, m.seen, filter, kept)
           /\ offered' = \E i \in DOMAIN m.list : m.list[i].plan.runtime = "transformers"
           /\ recheck' = offered'
    /\ UNCHANGED <<stores, error, jobs, job>>

HandleFailed ==
    /\ Handling("failed")
    /\ error' = TRUE /\ recheck' = offered
    /\ UNCHANGED <<stores, list, evidence, selected, filter, usable, offered, jobs, job>>

\* A mutant: the ticks are redrawn, not the selection.
HandleEvidenceTicksOnly ==
    /\ Handling("evidence")
    /\ evidence' = Head(inbox).seen
    /\ UNCHANGED <<stores, list, selected, filter, usable, recheck, offered, error, jobs, job>>

HandleEvidence ==
    /\ Handling("evidence")
    /\ Render(list, Head(inbox).seen, filter, selected)
    /\ UNCHANGED <<stores, recheck, offered, error, jobs, job>>

PathsWorker == Take \/ LoadFails \/ (\E l \in Lists : LoadPlans(l))
               \/ PostLoaded \/ PostEvidence

PathsMessages == HandleLoaded \/ HandleFailed \/ HandleEvidence

PathsUser ==
    \/ \E x \in {list[i].plan : i \in DOMAIN list} : Choose(x)
    \/ \E f \in Filters : SetFilter(f)
    \/ Recheck
    \/ \E r \in {s \in Shapes : s.kind = "quality"} : Len(store) < MaxStore /\ QualityStored(r)
=============================================================================
