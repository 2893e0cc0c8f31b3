------------------------ MODULE QualityScreenProofs ------------------------
(***************************************************************************)
(* Safety of the evaluation screen, its worker and the pilot it invokes,   *)
(* for any plans, machines and evaluators and any number of operations.    *)
(***************************************************************************)
EXTENDS QualityScreen, TLAPS

-----------------------------------------------------------------------------
(* The inductive invariant.                                                *)

Body == {"prepare", "launch", "serve", "evaluate", "finish"}
Tidying == {"remove", "stop", "wait", "rehash", "status"}

\* What the child owes where it stands, as long as nothing was raised: every step of the
\* cleanup that gives something back is behind it before it can report success.
ChildInv ==
    /\ child \in Body \cup Tidying \cup {"dying", "gone"}
    /\ raised \in BOOLEAN /\ verified \in BOOLEAN /\ attempted \in BOOLEAN
    /\ server \in {"down", "up", "ending"}
    /\ child \in Body => ~raised
    /\ child \in {"launch", "serve", "evaluate", "finish"} \cup Tidying => verified \/ raised
    /\ child \in {"prepare", "launch", "serve"} => ~attempted
    /\ child \in {"finish"} \cup (Tidying \ {"remove"}) =>
          raised \/ (container = "removed" /\ ~attempted)
    /\ child = "remove" => raised
    /\ child \in {"rehash", "status"} => raised \/ server = "down"
    /\ child = "gone" /\ code = 0 => server = "down" /\ container = "removed" /\ verified

\* _invoke runs as long as its child does, and interrupts it for a reason of its own.
InvokeInv ==
    /\ invoke \in {"idle", "poll", "int", "term", "kill", "reap"}
    /\ invoke = "idle" => child = "gone"
    /\ invoke \in {"int", "term", "kill"} => reason \in {"cancelled", "failed"}
    /\ result \in {None, "ok", "failed", "cancelled", "escaped"}

PilotInv == ChildInv /\ InvokeInv /\ ResultMeansClean

\* A job in the worker's hands has all the fields of one.
Shaped(w) ==
    w \in [kind : {w.kind}, suite : {w.suite}, plans : {w.plans}, seen : {w.seen},
           step : {w.step}, path : {w.path}, todo : {w.todo}]

JobKinds == {"ready", "select", "setup", "recompare", "batch", "single", "speed"}

\* The kinds of job that are one step long.
Answers == {"ready", "select", "setup", "recompare"}

MessageKinds == {"ready", "selected", "setup", "recompare", "finished"}

\* The worker's job, and that a pilot runs only inside the step of a plan that waits for it.
WorkerInv ==
    /\ worker = Resting \/ (Shaped(worker) /\ worker.kind \in JobKinds)
    /\ worker.step \in {"none", "start", "plan", "prepare", "pilot", "import", "call", "report"}
    /\ worker.kind \in Answers => worker.step = "start"
    /\ invoke # "idle" => worker.step = "pilot"

\* At most one entry of a queue holds the screen.
AtMostOne(s) == \A m, n \in 1..Len(s) : Occupies(s[m].kind) /\ Occupies(s[n].kind) => m = n

Queue(s, kinds) ==
    /\ \E S : s \in Seq(S)
    /\ AtMostOne(s)
    /\ \A n \in 1..Len(s) : s[n].kind \in kinds

\* The operation that holds the screen is in one place - submitted, being run, or
\* answered - and a screen that is gone has none.
PlaceInv ==
    /\ Queue(jobs, JobKinds) /\ Queue(inbox, MessageKinds)
    /\ ~(Pending(jobs) /\ Pending(inbox))
    /\ Occupies(worker.kind) => ~Pending(jobs) /\ ~Pending(inbox)
    /\ shown \in {"open", "dismissed", "exited"} /\ (closing <=> shown # "open")
    /\ shown # "open" => jobs = <<>> /\ ~Occupies(worker.kind)
    /\ busy \in BOOLEAN /\ search \in BOOLEAN
    /\ BusyWhileWorking

IInv == PilotInv /\ WorkerInv /\ PlaceInv

-----------------------------------------------------------------------------
(* Queues.                                                                 *)

\* An empty queue holds nothing.
LEMMA EmptyQueue == \A kinds : Queue(<<>>, kinds) /\ ~Pending(<<>>)
  BY DEF Queue, AtMostOne, Pending

\* Submitting or posting one entry more.
LEMMA QueueAppend ==
    ASSUME NEW s, NEW kinds, Queue(s, kinds), NEW e, e.kind \in kinds,
           Occupies(e.kind) => ~Pending(s)
    PROVE  /\ Queue(Append(s, e), kinds)
           /\ Pending(Append(s, e)) <=> Pending(s) \/ Occupies(e.kind)
           /\ Append(s, e) # <<>>
           /\ s \o <<e>> = Append(s, e)
  <1>1. PICK S : s \in Seq(S)
    BY DEF Queue
  <1>2. s \in Seq(S \cup {e}) /\ e \in S \cup {e}
    BY <1>1
  <1> DEFINE t == Append(s, e)
  <1>3. /\ t \in Seq(S \cup {e}) /\ Len(t) = Len(s) + 1 /\ Len(s) \in Nat
        /\ \A n \in 1..Len(s) : t[n] = s[n]
        /\ t[Len(s) + 1] = e
        /\ DOMAIN t = 1..Len(t) /\ DOMAIN s = 1..Len(s)
    BY <1>2
  <1>4. s \o <<e>> = t /\ t # <<>>
    BY <1>2
  <1> HIDE DEF t
  <1>5. \A n \in 1..Len(t) : n \in 1..Len(s) \/ n = Len(s) + 1
    BY <1>3
  <1>6. AtMostOne(t)
    BY <1>3, <1>5 DEF Queue, AtMostOne, Pending
  <1>7. \A n \in 1..Len(t) : t[n].kind \in kinds
    BY <1>3, <1>5 DEF Queue
  <1>8. Pending(t) <=> Pending(s) \/ Occupies(e.kind)
    BY <1>3, <1>5 DEF Pending
  <1> QED BY <1>3, <1>4, <1>6, <1>7, <1>8 DEF t, Queue

\* Taking the first entry: nothing else of its queue holds the screen if it does.
LEMMA QueueTail ==
    ASSUME NEW s, NEW kinds, Queue(s, kinds), s # <<>>
    PROVE  /\ Queue(Tail(s), kinds)
           /\ Head(s).kind \in kinds
           /\ Occupies(Head(s).kind) => Pending(s) /\ ~Pending(Tail(s))
           /\ ~Occupies(Head(s).kind) => (Pending(Tail(s)) <=> Pending(s))
  <1>1. PICK S : s \in Seq(S)
    BY DEF Queue
  <1> DEFINE t == Tail(s)
  <1>2. /\ t \in Seq(S) /\ Len(t) = Len(s) - 1 /\ Len(s) \in Nat /\ Len(s) > 0
        /\ \A n \in 1..Len(t) : t[n] = s[n + 1]
        /\ Head(s) = s[1] /\ DOMAIN t = 1..Len(t) /\ DOMAIN s = 1..Len(s)
    BY <1>1
  <1> HIDE DEF t
  <1>3. \A n \in 1..Len(t) : n + 1 \in 1..Len(s) /\ n + 1 # 1
    BY <1>2
  <1>4. \A n \in 1..Len(s) : n = 1 \/ (n - 1 \in 1..Len(t) /\ t[n - 1] = s[n])
    BY <1>2
  <1>5. 1 \in 1..Len(s)
    BY <1>2
  <1>6. AtMostOne(t)
    <2> SUFFICES ASSUME NEW m \in 1..Len(t), NEW n \in 1..Len(t),
                        Occupies(t[m].kind), Occupies(t[n].kind)
                 PROVE  m = n
      BY DEF AtMostOne
    <2>1. m + 1 = n + 1
      BY <1>2, <1>3 DEF Queue, AtMostOne
    <2> QED BY <1>2, <2>1
  <1>7. \A n \in 1..Len(t) : t[n].kind \in kinds
    BY <1>2, <1>3 DEF Queue
  <1>8. Occupies(Head(s).kind) => Pending(s) /\ ~Pending(t)
    BY <1>2, <1>3, <1>5 DEF Queue, AtMostOne, Pending
  <1>9. ~Occupies(Head(s).kind) => (Pending(t) <=> Pending(s))
    <2>1. Pending(t) => Pending(s)
      BY <1>2, <1>3 DEF Pending
    <2>2. ~Occupies(Head(s).kind) /\ Pending(s) => Pending(t)
      BY <1>2, <1>4 DEF Pending
    <2> QED BY <2>1, <2>2
  <1> QED BY <1>2, <1>5, <1>6, <1>7, <1>8, <1>9 DEF t, Queue

\* A note of the event loop to itself or a readiness check holds nothing.
LEMMA QueueNote ==
    ASSUME NEW s, NEW kinds, Queue(s, kinds), NEW t,
           t = <<>> \/ \E e : t = <<e>> /\ e.kind \in kinds /\ ~Occupies(e.kind)
    PROVE  Queue(s \o t, kinds) /\ (Pending(s \o t) <=> Pending(s))
  <1>1. CASE t = <<>>
    <2>1. PICK S : s \in Seq(S)
      BY DEF Queue
    <2>2. s \o t = s
      BY <1>1, <2>1
    <2> QED BY <2>2
  <1>2. CASE \E e : t = <<e>> /\ e.kind \in kinds /\ ~Occupies(e.kind)
    <2>1. PICK e : t = <<e>> /\ e.kind \in kinds /\ ~Occupies(e.kind)
      BY <1>2
    <2>2. /\ Queue(Append(s, e), kinds)
          /\ Pending(Append(s, e)) <=> Pending(s) \/ Occupies(e.kind)
          /\ s \o <<e>> = Append(s, e)
      BY <2>1, QueueAppend
    <2> QED BY <2>1, <2>2
  <1> QED BY <1>1, <1>2

-----------------------------------------------------------------------------
(* The pilot.                                                              *)

\* Raising in the body leads to the part of the cleanup that is still owed.
LEMMA RaiseKeeps ==
    ASSUME ChildInv, child \in Body, Raise, UNCHANGED <<code, verified, server>>,
           attempted' \in BOOLEAN
    PROVE  ChildInv'
  <1>1. child' \in Tidying /\ raised' = TRUE
    BY DEF Raise, Cleanup, Tidying
  <1> QED BY <1>1 DEF ChildInv, Tidying, Body

\* Every step of the child keeps what it owes.
LEMMA ChildKeeps == ASSUME PilotAssumption, PilotInv, Child PROVE PilotInv'
  <1>0. /\ child # "gone" /\ invoke # "idle" /\ UNCHANGED <<invoke, reason, result>>
        /\ ChildInv
    BY DEF PilotInv, Child, InvokeInv, parentVars, ChildPrepares, ChildLaunches, ChildServes,
       ChildEvaluates, ChildFinishes, ChildRemoves, ChildTerminates, ChildWaits, ChildRehashes,
       ChildReports, ChildDies
  <1>1. InvokeInv' /\ ResultMeansClean'
    BY <1>0 DEF PilotInv, InvokeInv, ResultMeansClean
  <1> SUFFICES ChildInv'
    BY <1>1 DEF PilotInv
  <1>2. CASE ChildPrepares
    <2>1. CASE child' = "launch" /\ verified' = TRUE /\ UNCHANGED raised
      BY <1>0, <1>2, <2>1 DEF ChildPrepares, ChildInv, Body, Tidying
    <2>2. CASE \E ver \in BOOLEAN : /\ verified' = ver
                                    /\ raised' = TRUE
                                    /\ child' = Cleanup(FALSE, ver)
      <3>1. child' \in {"rehash", "status"} /\ raised' = TRUE /\ verified' \in BOOLEAN
        BY <1>2, <2>2 DEF ChildPrepares, Cleanup
      <3> QED BY <1>0, <1>2, <3>1 DEF ChildPrepares, ChildInv, Body, Tidying
    <2> QED BY <1>2, <2>1, <2>2 DEF ChildPrepares
  <1>3. CASE ChildLaunches
    BY <1>0, <1>3 DEF ChildLaunches, ChildInv, Body, Tidying
  <1>4. CASE ChildServes
    <2>1. CASE child' = "evaluate" /\ attempted' = TRUE /\ UNCHANGED raised
      BY <1>0, <1>4, <2>1 DEF ChildServes, ChildInv, Body, Tidying
    <2>2. CASE Raise /\ UNCHANGED attempted
      BY <1>0, <1>4, <2>2, RaiseKeeps DEF ChildServes, ChildInv, Body
    <2> QED BY <1>4, <2>1, <2>2 DEF ChildServes
  <1>5. CASE ChildEvaluates
    <2>1. CASE /\ container' = "removed" /\ attempted' = FALSE
               /\ child' = "finish" /\ raised' = raised
      BY <1>0, <1>5, <2>1 DEF ChildEvaluates, ChildInv, Body, Tidying
    <2>2. CASE Raise /\ UNCHANGED attempted
      BY <1>0, <1>5, <2>2, RaiseKeeps DEF ChildEvaluates, ChildInv, Body
    <2> QED BY <1>5, <2>1, <2>2 DEF ChildEvaluates
  <1>6. CASE ChildFinishes
    <2>1. /\ child = "finish" /\ raised' \in BOOLEAN
          /\ UNCHANGED <<code, verified, attempted, server, container>>
      BY <1>6 DEF ChildFinishes
    <2>2. container = "removed" /\ ~attempted /\ verified
      BY <1>0, <2>1 DEF ChildInv, Tidying, Body
    <2>3. \/ child' = "stop"
          \/ child' = "rehash" /\ server = "down"
      BY <1>0, <1>6, <2>2 DEF ChildFinishes, Cleanup
    <2> QED BY <1>0, <2>1, <2>2, <2>3 DEF ChildInv, Tidying, Body
  <1>7. CASE ChildRemoves
    <2>1. child' \in {"stop", "rehash", "status"} /\ raised
      BY <1>0, <1>7 DEF ChildRemoves, Cleanup, ChildInv
    <2> QED BY <1>0, <1>7, <2>1 DEF ChildRemoves, ChildInv, Tidying, Body
  <1>8. CASE ChildTerminates
    BY <1>0, <1>8 DEF ChildTerminates, ChildInv, Tidying, Body
  <1>9. CASE ChildWaits
    BY <1>0, <1>9 DEF ChildWaits, ChildInv, Tidying, Body
  <1>10. CASE ChildRehashes
    BY <1>0, <1>10 DEF ChildRehashes, ChildInv, Tidying, Body
  <1>11. CASE ChildReports
    BY <1>0, <1>11 DEF ChildReports, Exit, ChildInv, Tidying, Body
  <1>12. CASE ChildDies
    BY <1>0, <1>12 DEF ChildDies, Exit, ChildInv, Tidying, Body
  <1> QED BY <1>2, <1>3, <1>4, <1>5, <1>6, <1>7, <1>8, <1>9, <1>10, <1>11, <1>12 DEF Child

\* The end of an invocation says ok only of a child that exited with 0.
LEMMA EndKeeps ==
    ASSUME PilotInv, child = "gone", NEW r \in {"ok", "failed", "cancelled", "escaped"},
           InvokeEnds(r), UNCHANGED childVars, r = "ok" => code = 0
    PROVE  PilotInv'
  BY DEF PilotInv, InvokeEnds, childVars, InvokeInv, ChildInv, ResultMeansClean

\* Every step of _invoke's polling and escalation keeps it.
LEMMA InvokeKeeps == ASSUME PilotInv, Invoke PROVE PilotInv'
  <1>0. ChildInv /\ InvokeInv
    BY DEF PilotInv
  <1>1. CASE InvokeSeesExit
    BY <1>1, EndKeeps DEF InvokeSeesExit
  <1>2. CASE InvokeReaps
    BY <1>0, <1>2, EndKeeps DEF InvokeReaps, InvokeInv
  <1>3. CASE InvokeEscapes
    BY <1>3, EndKeeps DEF InvokeEscapes
  <1>4. ASSUME invoke' \in {"int", "term", "kill", "reap"}, result' = result,
               invoke' # "reap" => reason' \in {"cancelled", "failed"}
        PROVE  InvokeInv' /\ ResultMeansClean'
    BY <1>0, <1>4 DEF InvokeInv, ResultMeansClean
  <1>5. CASE InvokeInterrupts
    <2>1. invoke' = "int" /\ reason' \in {"cancelled", "failed"} /\ result' = result
      BY <1>5 DEF InvokeInterrupts
    <2>2. UNCHANGED <<verified, attempted, untidy, server, container>>
      BY <1>5 DEF InvokeInterrupts
    <2>3. ChildInv'
      <3>1. CASE child \in Body
        <4>1. Raise /\ UNCHANGED code
          BY <1>5, <3>1 DEF InvokeInterrupts, Interrupted, Body
        <4> QED BY <1>0, <2>2, <3>1, <4>1, RaiseKeeps DEF ChildInv
      <3>2. CASE child = "gone"
        BY <1>0, <1>5, <2>2, <3>2 DEF InvokeInterrupts, Interrupted, ChildInv
      <3>3. CASE child \notin Body \cup {"gone"}
        <4>1. child' = "gone" /\ code' = 1
          BY <1>5, <3>3 DEF InvokeInterrupts, Interrupted, Exit, Body
        <4> QED BY <1>0, <1>5, <2>2, <3>3, <4>1
                DEF InvokeInterrupts, Interrupted, ChildInv, Body, Tidying
      <3> QED BY <3>1, <3>2, <3>3
    <2> QED BY <1>4, <2>1, <2>3 DEF PilotInv
  <1>6. CASE InvokeTerminates
    <2>1. InvokeInv' /\ ResultMeansClean'
      BY <1>0, <1>4, <1>6 DEF InvokeTerminates, InvokeInv
    <2>2. ChildInv'
      BY <1>0, <1>6 DEF InvokeTerminates, ChildInv, Body, Tidying
    <2> QED BY <2>1, <2>2 DEF PilotInv
  <1>7. CASE InvokeKills
    <2>1. InvokeInv' /\ ResultMeansClean'
      BY <1>0, <1>4, <1>7 DEF InvokeKills, InvokeInv
    <2>2. ChildInv'
      BY <1>0, <1>7 DEF InvokeKills, ChildInv, Body, Tidying
    <2> QED BY <2>1, <2>2 DEF PilotInv
  <1>8. CASE InvokeGivesUp
    <2>1. InvokeInv' /\ ResultMeansClean'
      BY <1>0, <1>4, <1>8 DEF InvokeGivesUp, InvokeInv
    <2>2. ChildInv'
      BY <1>0, <1>8 DEF InvokeGivesUp, childVars, ChildInv
    <2> QED BY <2>1, <2>2 DEF PilotInv
  <1> QED BY <1>1, <1>2, <1>3, <1>5, <1>6, <1>7, <1>8 DEF Invoke

\* So does a server that ends by itself.
LEMMA ServerKeeps == ASSUME PilotInv, ServerEnds PROVE PilotInv'
  BY DEF PilotInv, ServerEnds, parentVars, ChildInv, InvokeInv, ResultMeansClean

\* A new invocation starts a new child, beside whatever server is on the port.
LEMMA BeginKeeps ==
    ASSUME PilotAssumption, PilotInv, invoke = "idle", InvokeBegins PROVE PilotInv'
  <1>1. CASE cancel
    BY <1>1 DEF PilotInv, InvokeBegins, childVars, ChildInv, InvokeInv, ResultMeansClean
  <1>2. CASE ~cancel
    BY <1>2 DEF PilotInv, InvokeBegins, ChildInv, InvokeInv, ResultMeansClean, Body, Tidying
  <1> QED BY <1>1, <1>2

\* Taking the result of an invocation, and everything that leaves the pilot alone.
LEMMA ResultTaken ==
    ASSUME PilotAssumption, PilotInv, UNCHANGED <<invoke, reason, childVars>>,
           result' \in {result, None}
    PROVE  PilotInv'
  BY DEF PilotAssumption, PilotInv, childVars, ChildInv, InvokeInv, ResultMeansClean

-----------------------------------------------------------------------------
(* The worker.                                                             *)

\* What leaves the pilot alone keeps its part.
LEMMA PilotStays == ASSUME PilotAssumption, PilotInv, UNCHANGED pilotVars PROVE PilotInv'
  BY ResultTaken DEF pilotVars, childVars

\* A job that has the fields of another except for its step, its path and what is left.
LEMMA JobIs ==
    ASSUME NEW w, Shaped(w), NEW v, NEW s, NEW p, NEW t,
           v \in [kind : {w.kind}, suite : {w.suite}, plans : {w.plans}, seen : {w.seen},
                  step : {s}, path : {p}, todo : {t}]
    PROVE  Shaped(v) /\ v.kind = w.kind /\ v.step = s
  BY DEF Shaped

\* It goes to another step ...
LEMMA StepMoves ==
    ASSUME NEW w, Shaped(w), NEW s
    PROVE  LET v == [w EXCEPT !.step = s] IN Shaped(v) /\ v.kind = w.kind /\ v.step = s
  <1>1. [w EXCEPT !.step = s] \in
            [kind : {w.kind}, suite : {w.suite}, plans : {w.plans}, seen : {w.seen},
             step : {s}, path : {w.path}, todo : {w.todo}]
    BY DEF Shaped
  <1> QED BY <1>1, JobIs

\* ... is done with an entry ...
LEMMA TodoMoves ==
    ASSUME NEW w, Shaped(w), NEW t
    PROVE  LET v == [w EXCEPT !.todo = t] IN Shaped(v) /\ v.kind = w.kind /\ v.step = w.step
  <1>1. [w EXCEPT !.todo = t] \in
            [kind : {w.kind}, suite : {w.suite}, plans : {w.plans}, seen : {w.seen},
             step : {w.step}, path : {w.path}, todo : {t}]
    BY DEF Shaped
  <1> QED BY <1>1, JobIs

\* ... or both.
LEMMA StepTodoMoves ==
    ASSUME NEW w, Shaped(w), NEW s, NEW t
    PROVE  LET v == [w EXCEPT !.step = s, !.todo = t] IN
           Shaped(v) /\ v.kind = w.kind /\ v.step = s
  <1>1. [w EXCEPT !.step = s, !.todo = t] \in
            [kind : {w.kind}, suite : {w.suite}, plans : {w.plans}, seen : {w.seen},
             step : {s}, path : {w.path}, todo : {t}]
    BY DEF Shaped
  <1> QED BY <1>1, JobIs

\* The axis that follows is the speed, or the end of the job.
LEMMA AfterQualityMoves ==
    ASSUME NEW w, Shaped(w)
    PROVE  /\ Shaped(AfterQuality(w)) /\ AfterQuality(w).kind = w.kind
           /\ AfterQuality(w).step \in {"call", "report"}
  <1>1. \/ \E t : AfterQuality(w) = [w EXCEPT !.step = "call", !.todo = t]
        \/ AfterQuality(w) = [w EXCEPT !.step = "report"]
    BY DEF AfterQuality
  <1>2. CASE \E t : AfterQuality(w) = [w EXCEPT !.step = "call", !.todo = t]
    <2>1. PICK t : AfterQuality(w) = [w EXCEPT !.step = "call", !.todo = t]
      BY <1>2
    <2> DEFINE v == [w EXCEPT !.step = "call", !.todo = t]
    <2>2. Shaped(v) /\ v.kind = w.kind /\ v.step = "call"
      BY StepTodoMoves
    <2> QED BY <2>1, <2>2
  <1>3. CASE AfterQuality(w) = [w EXCEPT !.step = "report"]
    BY <1>3, StepMoves
  <1> QED BY <1>1, <1>2, <1>3

\* A job that goes on from one step to the next holds the screen as before.
LEMMA GotoKeeps ==
    ASSUME WorkerInv, PlaceInv, NEW w, Goto(w), Shaped(w), w.kind = worker.kind,
           worker.step \notin {"none", "start"} \/ worker.kind \in {"batch", "single"},
           w.step \in {"plan", "prepare", "pilot", "import", "call", "report"},
           invoke' # "idle" => w.step = "pilot"
    PROVE  WorkerInv' /\ PlaceInv'
  <1>1. worker' = w /\ worker'.kind = worker.kind
        /\ UNCHANGED <<search, shown, closing, busy, jobs, inbox>>
    BY DEF Goto, flags, pane
  <1>2. worker.kind \in JobKinds \ Answers
    BY DEF WorkerInv, JobKinds, Answers, Resting
  <1>3. WorkerInv'
    BY <1>1, <1>2 DEF WorkerInv
  <1>4. PlaceInv'
    BY <1>1 DEF PlaceInv, BusyWhileWorking
  <1> QED BY <1>3, <1>4

\* So does the outcome of one plan.
LEMMA OutcomeKeeps ==
    ASSUME WorkerInv, PlaceInv, worker.step \in {"prepare", "pilot", "import"},
           NEW saved \in BOOLEAN, NEW cancelled \in BOOLEAN, Outcome(saved, cancelled),
           invoke' = "idle"
    PROVE  WorkerInv' /\ PlaceInv'
  <1>1. PICK w : /\ \E t, p : w = [worker EXCEPT !.todo = t, !.path = p, !.step = "plan"]
                 /\ Goto(w) \/ Goto(AfterQuality(w))
    BY DEF Outcome
  <1>2. Shaped(worker)
    BY DEF WorkerInv, Resting
  <1>3. Shaped(w) /\ w.kind = worker.kind /\ w.step = "plan"
    <2>1. PICK t, p : w = [worker EXCEPT !.todo = t, !.path = p, !.step = "plan"]
      BY <1>1
    <2> DEFINE v == [worker EXCEPT !.todo = t, !.path = p, !.step = "plan"]
    <2>2. v \in [kind : {worker.kind}, suite : {worker.suite}, plans : {worker.plans},
                 seen : {worker.seen}, step : {"plan"}, path : {p}, todo : {t}]
      BY <1>2 DEF Shaped
    <2> HIDE DEF v
    <2>3. Shaped(v) /\ v.kind = worker.kind /\ v.step = "plan"
      BY <1>2, <2>2, JobIs
    <2> QED BY <2>1, <2>3 DEF v
  <1>4. CASE Goto(w)
    BY <1>3, <1>4, GotoKeeps
  <1>5. CASE Goto(AfterQuality(w))
    BY <1>3, <1>5, GotoKeeps, AfterQualityMoves
  <1> QED BY <1>1, <1>4, <1>5

\* Between two steps of the worker the queues change only at their ends.
LEMMA TakesKeeps ==
    ASSUME PilotAssumption, IInv, WorkerTakes PROVE IInv'
  <1> DEFINE j == Head(jobs)
  <1>1. /\ worker = Resting /\ jobs # <<>> /\ worker' = Begin(j) /\ jobs' = Tail(jobs)
        /\ UNCHANGED <<pilotVars, search, shown, closing, busy, inbox>>
    BY DEF WorkerTakes, flags, pane
  <1>2. PilotInv'
    BY <1>1, PilotStays DEF IInv
  <1>3. /\ Shaped(Begin(j)) /\ Begin(j).kind = j.kind
        /\ Begin(j).step = IF j.kind = "speed" THEN "call" ELSE "start"
    BY DEF Begin, Shaped
  <1>4. /\ Queue(Tail(jobs), JobKinds) /\ j.kind \in JobKinds
        /\ Occupies(j.kind) => Pending(jobs) /\ ~Pending(Tail(jobs))
        /\ ~Occupies(j.kind) => (Pending(Tail(jobs)) <=> Pending(jobs))
    BY <1>1, QueueTail DEF IInv, PlaceInv
  <1>5. WorkerInv'
    <2>1. invoke = "idle"
      BY <1>1 DEF IInv, WorkerInv, Resting
    <2>2. invoke' = "idle"
      BY <1>1, <2>1 DEF pilotVars
    <2> QED BY <1>1, <1>3, <1>4, <2>2 DEF WorkerInv, Answers
  <1>6. shown = "open" /\ ~Occupies(worker.kind)
    BY <1>1 DEF IInv, PlaceInv, Resting, Occupies
  <1> HIDE DEF j
  <1>7. PlaceInv'
    BY <1>1, <1>3, <1>4, <1>6 DEF IInv, PlaceInv, BusyWhileWorking
  <1> QED BY <1>2, <1>5, <1>7 DEF IInv

\* The last step of a job hands its answer over, unless the screen is gone.
LEMMA EndsKeeps ==
    ASSUME PilotAssumption, IInv, worker.kind # "none", worker.step # "pilot",
           NEW m, m.kind \in MessageKinds, Occupies(m.kind) <=> Occupies(worker.kind),
           WorkerEnds(m)
    PROVE  IInv'
  <1>1. /\ worker' = Resting /\ Post(m)
        /\ UNCHANGED <<pilotVars, search, shown, closing, busy, jobs>>
    BY DEF WorkerEnds, flags, pane
  <1>2. PilotInv'
    BY <1>1, PilotStays DEF IInv
  <1>3. WorkerInv'
    <2>1. invoke = "idle" /\ invoke' = invoke
      BY <1>1 DEF IInv, WorkerInv, pilotVars
    <2> QED BY <1>1, <2>1 DEF WorkerInv, Resting, Answers
  <1>4. ~Occupies(worker'.kind)
    BY <1>1 DEF Resting, Occupies
  <1>5. PlaceInv'
    <2>1. CASE closing
      <3>1. inbox' = inbox
        BY <1>1, <2>1 DEF Post
      <3> QED BY <1>1, <1>4, <2>1, <3>1 DEF IInv, PlaceInv, BusyWhileWorking
    <2>2. CASE ~closing
      <3>1. inbox' = Append(inbox, m)
        BY <1>1, <2>2 DEF Post
      <3>2. Occupies(m.kind) => ~Pending(inbox)
        BY DEF IInv, PlaceInv
      <3>3. /\ Queue(Append(inbox, m), MessageKinds)
            /\ Pending(Append(inbox, m)) <=> Pending(inbox) \/ Occupies(m.kind)
        BY <3>2, QueueAppend DEF IInv, PlaceInv
      <3> QED BY <1>1, <1>4, <2>2, <3>1, <3>2, <3>3 DEF IInv, PlaceInv, BusyWhileWorking
    <2> QED BY <2>1, <2>2
  <1> QED BY <1>2, <1>3, <1>5 DEF IInv

\* Every step of the worker thread keeps the invariant.
LEMMA WorkerKeeps == ASSUME PilotAssumption, IInv, Worker PROVE IInv'
  <1>0. PilotInv /\ WorkerInv /\ PlaceInv
    BY DEF IInv
  <1>1. CASE WorkerTakes
    BY <1>1, TakesKeeps
  <1>2. CASE WorkerChecks
    <2>1. worker.kind = "ready" /\ worker.step = "start"
      BY <1>0, <1>2 DEF WorkerChecks, Runs, WorkerInv, Answers
    <2>2. ASSUME NEW b, WorkerEnds([kind |-> "ready", blocked |-> b]) PROVE IInv'
      <3> DEFINE m == [kind |-> "ready", blocked |-> b]
      <3>1. m.kind \in MessageKinds /\ (Occupies(m.kind) <=> Occupies(worker.kind))
        BY <2>1 DEF MessageKinds, Occupies
      <3> QED BY <2>1, <2>2, <3>1, EndsKeeps
    <2>3. CASE /\ worker' = Resting
               /\ UNCHANGED <<pilotVars, flags, pane, jobs, inbox, held, ops>>
      <3>1. /\ PilotInv'
            /\ UNCHANGED <<search, shown, closing, busy, jobs, inbox>> /\ invoke' = invoke
        BY <1>0, <2>3, PilotStays DEF flags, pane, pilotVars
      <3>2. ~Occupies(worker.kind) /\ ~Occupies(worker'.kind)
        BY <2>1, <2>3 DEF Occupies, Resting
      <3>3. WorkerInv'
        BY <1>0, <2>1, <2>3, <3>1 DEF WorkerInv, Resting, Answers
      <3>4. PlaceInv'
        BY <1>0, <3>1, <3>2 DEF PlaceInv, BusyWhileWorking
      <3> QED BY <3>1, <3>3, <3>4 DEF IInv
    <2> QED BY <1>2, <2>2, <2>3 DEF WorkerChecks
  <1>3. CASE WorkerSelects
    <2>1. worker.kind = "select" /\ worker.step = "start"
      BY <1>0, <1>3 DEF WorkerSelects, Runs, WorkerInv, Answers
    <2>2. PICK ps : WorkerEnds([kind |-> "selected", suite |-> worker.suite, seen |-> held,
                                plans |-> ps])
      BY <1>3 DEF WorkerSelects
    <2> DEFINE m == [kind |-> "selected", suite |-> worker.suite, seen |-> held, plans |-> ps]
    <2>3. m.kind \in MessageKinds /\ (Occupies(m.kind) <=> Occupies(worker.kind))
      BY <2>1 DEF MessageKinds, Occupies
    <2> QED BY <2>1, <2>2, <2>3, EndsKeeps
  <1>4. CASE WorkerSetsUp
    <2>1. worker.kind = "setup" /\ worker.step = "start"
      BY <1>0, <1>4 DEF WorkerSetsUp, Runs, WorkerInv, Answers
    <2>2. PICK ok : WorkerEnds([kind |-> "setup", ready |-> ok])
      BY <1>4 DEF WorkerSetsUp
    <2> DEFINE m == [kind |-> "setup", ready |-> ok]
    <2>3. m.kind \in MessageKinds /\ (Occupies(m.kind) <=> Occupies(worker.kind))
      BY <2>1 DEF MessageKinds, Occupies
    <2> QED BY <2>1, <2>2, <2>3, EndsKeeps
  <1>5. CASE WorkerRecompares
    <2>1. worker.kind = "recompare" /\ worker.step = "start"
      BY <1>0, <1>5 DEF WorkerRecompares, Runs, WorkerInv, Answers
    <2> DEFINE m == [kind |-> "recompare"]
    <2>2. WorkerEnds(m)
      BY <1>5 DEF WorkerRecompares
    <2>3. m.kind \in MessageKinds /\ (Occupies(m.kind) <=> Occupies(worker.kind))
      BY <2>1 DEF MessageKinds, Occupies
    <2> QED BY <2>1, <2>2, <2>3, EndsKeeps
  <1>6. CASE BatchStarts \/ SingleStarts \/ BatchStops \/ BatchContinues \/ SpeedStops
    <2>1. /\ worker.step \in {"start", "plan", "call"}
          /\ worker.step = "start" => worker.kind \in {"batch", "single"}
          /\ UNCHANGED pilotVars
      BY <1>6 DEF BatchStarts, SingleStarts, BatchStops, BatchContinues, SpeedStops, At, Runs
    <2>2. Shaped(worker)
      BY <1>0, <2>1 DEF WorkerInv, Resting
    <2>3. invoke' = "idle"
      BY <1>0, <2>1 DEF WorkerInv, pilotVars
    <2>4. \/ Goto(AfterQuality(worker))
          \/ \E s \in {"plan", "prepare", "report"} : Goto([worker EXCEPT !.step = s])
      BY <1>6 DEF BatchStarts, SingleStarts, BatchStops, BatchContinues, SpeedStops
    <2>5. WorkerInv' /\ PlaceInv'
      <3>1. CASE Goto(AfterQuality(worker))
        BY <1>0, <2>1, <2>2, <2>3, <3>1, GotoKeeps, AfterQualityMoves
      <3>2. ASSUME NEW s \in {"plan", "prepare", "report"}, Goto([worker EXCEPT !.step = s])
            PROVE  WorkerInv' /\ PlaceInv'
        <4> DEFINE w == [worker EXCEPT !.step = s]
        <4>1. Shaped(w) /\ w.kind = worker.kind /\ w.step = s
          BY <2>2, StepMoves
        <4> HIDE DEF w
        <4> QED BY <1>0, <2>1, <2>3, <3>2, <4>1, GotoKeeps DEF w
      <3> QED BY <2>4, <3>1, <3>2
    <2> QED BY <1>0, <2>1, <2>5, PilotStays DEF IInv
  <1>7. CASE PlanIsPrepared
    <2>1. worker.step = "prepare" /\ invoke = "idle"
      BY <1>0, <1>7 DEF PlanIsPrepared, At, WorkerInv
    <2>2. Shaped(worker) /\ worker.kind \in JobKinds
      BY <1>0, <2>1 DEF WorkerInv, Resting
    <2>3. CASE InvokeBegins /\ Goto([worker EXCEPT !.step = "pilot"])
      <3> DEFINE w == [worker EXCEPT !.step = "pilot"]
      <3>1. Shaped(w) /\ w.kind = worker.kind /\ w.step = "pilot"
        BY <2>2, StepMoves
      <3>2. Goto(w)
        BY <2>3
      <3> HIDE DEF w
      <3>3. WorkerInv' /\ PlaceInv'
        BY <1>0, <2>1, <3>1, <3>2, GotoKeeps
      <3> QED BY <1>0, <2>1, <2>3, <3>3, BeginKeeps DEF IInv
    <2>4. ASSUME NEW cancelled \in BOOLEAN, Outcome(FALSE, cancelled), UNCHANGED pilotVars
          PROVE  IInv'
      <3>1. invoke' = "idle"
        BY <2>1, <2>4 DEF pilotVars
      <3>2. WorkerInv' /\ PlaceInv'
        BY <1>0, <2>1, <2>2, <2>4, <3>1, OutcomeKeeps
      <3> QED BY <1>0, <2>4, <3>2, PilotStays DEF IInv
    <2> QED BY <1>7, <2>3, <2>4 DEF PlanIsPrepared
  <1>8. CASE PilotReturns
    <2>1. worker.step = "pilot" /\ invoke = "idle" /\ Forget
      BY <1>8 DEF PilotReturns, At
    <2>2. Shaped(worker) /\ worker.kind \in JobKinds
      BY <1>0, <2>1 DEF WorkerInv, Resting
    <2>3. invoke' = "idle" /\ PilotInv'
      BY <1>0, <2>1, ResultTaken DEF Forget
    <2>4. CASE Goto([worker EXCEPT !.step = "import"])
      <3> DEFINE w == [worker EXCEPT !.step = "import"]
      <3>1. Shaped(w) /\ w.kind = worker.kind /\ w.step = "import"
        BY <2>2, StepMoves
      <3>2. Goto(w)
        BY <2>4
      <3> HIDE DEF w
      <3> QED BY <1>0, <2>1, <2>3, <3>1, <3>2, GotoKeeps DEF IInv
    <2>5. ASSUME NEW cancelled \in BOOLEAN, Outcome(FALSE, cancelled) PROVE IInv'
      BY <1>0, <2>1, <2>2, <2>3, <2>5, OutcomeKeeps DEF IInv
    <2>6. CASE Goto(AfterQuality(worker))
      BY <1>0, <2>1, <2>2, <2>3, <2>6, GotoKeeps, AfterQualityMoves DEF IInv
    <2>7. result \in {"ok", "failed", "cancelled", "escaped"}
      BY <1>0, <1>8 DEF PilotReturns, PilotInv, InvokeInv
    <2>8. \/ Goto([worker EXCEPT !.step = "import"])
          \/ Outcome(FALSE, FALSE) \/ Outcome(FALSE, TRUE)
          \/ Goto(AfterQuality(worker))
      BY <1>8, <2>7 DEF PilotReturns
    <2> QED BY <2>4, <2>5, <2>6, <2>8
  <1>9. CASE RecordIsImported
    <2>1. worker.step = "import" /\ UNCHANGED pilotVars
      BY <1>9 DEF RecordIsImported, At
    <2>2. Shaped(worker) /\ worker.kind \in JobKinds
      BY <1>0, <2>1 DEF WorkerInv, Resting
    <2>3. invoke' = "idle" /\ PilotInv'
      BY <1>0, <2>1, PilotStays DEF WorkerInv, pilotVars
    <2>4. \E saved, cancelled \in BOOLEAN : Outcome(saved, cancelled)
      BY <1>9 DEF RecordIsImported
    <2> QED BY <1>0, <2>1, <2>2, <2>3, <2>4, OutcomeKeeps DEF IInv
  <1>10. CASE SpeedCall
    <2>1. worker.step = "call" /\ UNCHANGED pilotVars
      BY <1>10 DEF SpeedCall, At
    <2>2. Shaped(worker) /\ worker.kind \in JobKinds
      BY <1>0, <2>1 DEF WorkerInv, Resting
    <2>3. invoke' = "idle" /\ PilotInv'
      BY <1>0, <2>1, PilotStays DEF WorkerInv, pilotVars
    <2> DEFINE w == [worker EXCEPT !.todo = Tail(worker.todo)]
    <2>4. Shaped(w) /\ w.kind = worker.kind /\ w.step = worker.step
      BY <2>2, TodoMoves
    <2>5. Goto(w)
      BY <1>10 DEF SpeedCall
    <2> HIDE DEF w
    <2> QED BY <1>0, <2>1, <2>3, <2>4, <2>5, GotoKeeps DEF IInv
  <1>11. CASE WorkerFinishes \/ SingleFinishes
    <2>1. worker.step = "report"
      BY <1>11 DEF WorkerFinishes, SingleFinishes, At
    <2>2. Occupies(worker.kind)
      BY <1>0, <2>1 DEF WorkerInv, Resting, Answers, JobKinds, Occupies
    <2>3. PICK fresh \in BOOLEAN : WorkerEnds(Finished(fresh))
      BY <1>11 DEF WorkerFinishes, SingleFinishes
    <2>4. Finished(fresh).kind = "finished"
      BY DEF Finished
    <2>5. Finished(fresh).kind \in MessageKinds /\ Occupies(Finished(fresh).kind)
      BY <2>4 DEF MessageKinds, Occupies
    <2>6. worker.kind # "none"
      BY <2>2 DEF Occupies
    <2> QED BY <2>1, <2>2, <2>3, <2>5, <2>6, EndsKeeps
  <1> QED BY <1>1, <1>2, <1>3, <1>4, <1>5, <1>6, <1>7, <1>8, <1>9, <1>10, <1>11 DEF Worker

-----------------------------------------------------------------------------
(* The event loop and the user.                                            *)

\* The pilot is left alone except for the Event it polls.
LEMMA EventKeeps == ASSUME PilotAssumption, IInv, UnchangedPilot PROVE PilotInv' /\ invoke' = invoke
  BY ResultTaken DEF IInv, UnchangedPilot, parentVars

\* A free screen has nothing in its queues that could hold it.
LEMMA FreeIsQuiet ==
    ASSUME IInv, Free PROVE ~Pending(jobs) /\ ~Pending(inbox) /\ ~Occupies(worker.kind)
  BY DEF IInv, PlaceInv, Free, BusyWhileWorking

\* Notes and readiness checks come and go without holding the screen.
LEMMA QuietKeeps ==
    ASSUME PilotAssumption, IInv, UnchangedPilot, shown = "open",
           UNCHANGED <<search, shown, closing, busy, worker>>,
           Queue(jobs, JobKinds)', Queue(inbox, MessageKinds)',
           Pending(jobs)' <=> Pending(jobs), Pending(inbox)' <=> Pending(inbox)
    PROVE  IInv'
  <1>1. PilotInv' /\ invoke' = invoke
    BY EventKeeps
  <1>2. WorkerInv'
    BY <1>1 DEF IInv, WorkerInv
  <1>3. PlaceInv'
    BY DEF IInv, PlaceInv, BusyWhileWorking
  <1> QED BY <1>1, <1>2, <1>3 DEF IInv

\* A free screen submits the one operation that holds it.
LEMMA SubmitKeeps ==
    ASSUME PilotAssumption, IInv, UnchangedPilot, Free,
           NEW q, Queue(q, JobKinds), ~Pending(q),
           NEW j, j.kind \in JobKinds, Occupies(j.kind), jobs' = Append(q, j),
           Queue(inbox, MessageKinds)', ~Pending(inbox)', busy' = TRUE,
           UNCHANGED <<search, shown, closing, worker>>
    PROVE  IInv'
  <1>1. PilotInv' /\ invoke' = invoke
    BY EventKeeps
  <1>2. WorkerInv'
    BY <1>1 DEF IInv, WorkerInv
  <1>3. Queue(Append(q, j), JobKinds) /\ Pending(Append(q, j))
    BY QueueAppend
  <1>4. ~Occupies(worker.kind)
    BY FreeIsQuiet
  <1>5. PlaceInv'
    BY <1>3, <1>4 DEF IInv, PlaceInv, BusyWhileWorking, Free
  <1> QED BY <1>1, <1>2, <1>5 DEF IInv

\* A screen whose worker holds nothing may go, whatever is queued.
LEMMA UnmountKeeps ==
    ASSUME PilotAssumption, IInv, UnchangedPilot, ~Occupies(worker.kind),
           NEW how \in {"dismissed", "exited"}, Unmount(how),
           UNCHANGED <<search, worker>>, busy' \in BOOLEAN
    PROVE  IInv'
  <1>1. PilotInv' /\ invoke' = invoke
    BY EventKeeps
  <1>2. WorkerInv'
    BY <1>1 DEF IInv, WorkerInv
  <1>3. PlaceInv'
    BY EmptyQueue DEF IInv, PlaceInv, BusyWhileWorking, Unmount
  <1> QED BY <1>1, <1>2, <1>3 DEF IInv

\* The message that ends an operation frees the screen, or lets it go.
LEMMA AnswerKeeps ==
    ASSUME PilotAssumption, IInv, UnchangedPilot, shown = "open", inbox # <<>>,
           Occupies(Head(inbox).kind), busy' = FALSE, LeaveOrStay, UNCHANGED <<search, worker>>
    PROVE  IInv'
  <1>1. /\ Queue(Tail(inbox), MessageKinds) /\ Pending(inbox) /\ ~Pending(Tail(inbox))
    BY QueueTail DEF IInv, PlaceInv
  <1>2. ~Pending(jobs) /\ ~Occupies(worker.kind)
    BY <1>1 DEF IInv, PlaceInv
  <1>3. CASE \E how \in {"dismissed", "exited"} : Unmount(how)
    BY <1>2, <1>3, UnmountKeeps
  <1>4. CASE Stay
    <2>1. inbox' = Tail(inbox) /\ UNCHANGED <<shown, closing, jobs>>
      BY <1>4 DEF Stay
    <2>2. PilotInv' /\ invoke' = invoke
      BY EventKeeps
    <2>3. WorkerInv'
      BY <2>2 DEF IInv, WorkerInv
    <2>4. PlaceInv'
      BY <1>1, <1>2, <2>1 DEF IInv, PlaceInv, BusyWhileWorking
    <2> QED BY <2>2, <2>3, <2>4 DEF IInv
  <1> QED BY <1>3, <1>4 DEF LeaveOrStay

\* The check of a suite's readiness and its answer for Speed hold nothing.
LEMMA ReadinessHoldsNothing ==
    ASSUME NEW s
    PROVE  /\ \A q : Queue(q, JobKinds) =>
                  Queue(q \o ReadinessJob(s), JobKinds) /\ (Pending(q \o ReadinessJob(s)) <=> Pending(q))
           /\ \A q : Queue(q, MessageKinds) =>
                  Queue(q \o ReadinessNote(s), MessageKinds)
                  /\ (Pending(q \o ReadinessNote(s)) <=> Pending(q))
  <1>1. ReadinessJob(s) = <<>> \/ \E e : ReadinessJob(s) = <<e>> /\ e.kind \in JobKinds /\ ~Occupies(e.kind)
    <2>1. Job("ready", s, <<>>).kind = "ready"
      BY DEF Job
    <2> QED BY <2>1 DEF ReadinessJob, JobKinds, Occupies
  <1>2. ReadinessNote(s) = <<>>
        \/ \E e : ReadinessNote(s) = <<e>> /\ e.kind \in MessageKinds /\ ~Occupies(e.kind)
    <2> DEFINE e == [kind |-> "ready", blocked |-> FALSE]
    <2>1. e.kind \in MessageKinds /\ ~Occupies(e.kind)
      BY DEF MessageKinds, Occupies
    <2>2. ReadinessNote(s) = <<>> \/ ReadinessNote(s) = <<e>>
      BY DEF ReadinessNote
    <2> QED BY <2>1, <2>2
  <1> QED BY <1>1, <1>2, QueueNote

\* Every message the event loop handles keeps the invariant.
LEMMA HandleKeeps == ASSUME PilotAssumption, IInv, Handle PROVE IInv'
  <1>0. PilotInv /\ WorkerInv /\ PlaceInv
    BY DEF IInv
  <1>a. shown = "open" /\ inbox # <<>>
    BY DEF Handle, HandleReadiness, HandleSelected, HandleSetup, HandleRecompared,
       HandleFinished, Receives
  <1>b. /\ Queue(Tail(inbox), MessageKinds)
        /\ Occupies(Head(inbox).kind) => Pending(inbox) /\ ~Pending(Tail(inbox))
        /\ ~Occupies(Head(inbox).kind) => (Pending(Tail(inbox)) <=> Pending(inbox))
    BY <1>0, <1>a, QueueTail DEF PlaceInv
  <1>1. CASE HandleReadiness
    <2>1. /\ inbox' = Tail(inbox) /\ UNCHANGED pilotVars
          /\ UNCHANGED <<search, shown, closing, busy, jobs, worker>>
          /\ ~Occupies(Head(inbox).kind)
      BY <1>1 DEF HandleReadiness, Receives, Occupies
    <2>2. UnchangedPilot
      BY <2>1 DEF pilotVars, UnchangedPilot, parentVars, childVars
    <2> QED BY <1>0, <1>a, <1>b, <2>1, <2>2, QuietKeeps DEF PlaceInv
  <1>2. CASE HandleSelected
    BY <1>a, <1>2, AnswerKeeps DEF HandleSelected, Receives, Occupies
  <1>3. CASE HandleSetup
    <2>1. Occupies(Head(inbox).kind) /\ busy' = FALSE /\ UnchangedPilot
          /\ UNCHANGED <<search, worker>>
      BY <1>3 DEF HandleSetup, Receives, Occupies
    <2>2. CASE quit \/ leave
      BY <1>a, <1>3, <2>1, <2>2, AnswerKeeps DEF HandleSetup
    <2>3. CASE ~(quit \/ leave)
      <3>1. /\ jobs' = jobs \/ jobs' = jobs \o ReadinessJob(suite)
            /\ inbox' = Tail(inbox) \o <<>> \/ inbox' = Tail(inbox) \o ReadinessNote(suite)
            /\ UNCHANGED <<shown, closing>>
        BY <1>3, <2>3 DEF HandleSetup
      <3>2. ~Pending(jobs) /\ ~Pending(Tail(inbox)) /\ ~Occupies(worker.kind)
        BY <1>0, <1>b, <2>1 DEF PlaceInv
      <3>3. Queue(jobs, JobKinds)' /\ ~Pending(jobs)'
        BY <1>0, <3>1, <3>2, ReadinessHoldsNothing DEF PlaceInv
      <3>4. Queue(inbox, MessageKinds)' /\ ~Pending(inbox)'
        <4>1. CASE inbox' = Tail(inbox) \o <<>>
          BY <1>b, <3>2, <4>1, QueueNote
        <4>2. CASE inbox' = Tail(inbox) \o ReadinessNote(suite)
          BY <1>b, <3>2, <4>2, ReadinessHoldsNothing
        <4> QED BY <3>1, <4>1, <4>2
      <3>5. PilotInv' /\ invoke' = invoke
        BY <2>1, EventKeeps
      <3>6. WorkerInv'
        BY <1>0, <2>1, <3>5 DEF WorkerInv
      <3>7. PlaceInv'
        BY <1>0, <1>a, <2>1, <3>1, <3>2, <3>3, <3>4 DEF PlaceInv, BusyWhileWorking
      <3> QED BY <3>5, <3>6, <3>7 DEF IInv
    <2> QED BY <2>2, <2>3
  <1>4. CASE HandleRecompared
    BY <1>a, <1>4, AnswerKeeps DEF HandleRecompared, Receives, Occupies
  <1>5. CASE HandleFinished
    BY <1>a, <1>5, AnswerKeeps DEF HandleFinished, Receives, Occupies
  <1> QED BY <1>1, <1>2, <1>3, <1>4, <1>5 DEF Handle

\* Whatever the user does keeps the invariant.
LEMMA UserKeeps == ASSUME PilotAssumption, IInv, User PROVE IInv'
  <1>0. PilotInv /\ WorkerInv /\ PlaceInv
    BY DEF IInv
  <1>a. Queue(jobs, JobKinds) /\ Queue(inbox, MessageKinds)
    BY <1>0 DEF PlaceInv
  <1>b. Job("select", suite, <<>>).kind = "select"
    BY DEF Job
  <1>1. ASSUME NEW s \in Suites, ChangeSuite(s) PROVE IInv'
    <2>1. /\ Free /\ inbox' = inbox \o ReadinessNote(s) /\ UnchangedPilot
          /\ UNCHANGED <<search, closing, shown, worker>>
      BY <1>1 DEF ChangeSuite
    <2>2. Queue(inbox, MessageKinds)' /\ (Pending(inbox)' <=> Pending(inbox))
      BY <1>a, <2>1, ReadinessHoldsNothing
    <2>3. Queue(jobs \o ReadinessJob(s), JobKinds)
          /\ (Pending(jobs \o ReadinessJob(s)) <=> Pending(jobs))
      BY <1>a, ReadinessHoldsNothing
    <2>4. ~Pending(jobs) /\ ~Pending(inbox)
      BY <2>1, FreeIsQuiet
    <2>5. CASE search
      <3> DEFINE j == Job("select", s, <<>>)
                 q == jobs \o ReadinessJob(s)
      <3>1. jobs' = jobs \o ReadinessJob(s) \o <<j>> /\ busy' = TRUE
        BY <1>1, <2>5 DEF ChangeSuite, Reselect
      <3>2. j.kind \in JobKinds /\ Occupies(j.kind)
        BY DEF Job, JobKinds, Occupies
      <3>3. Queue(q, JobKinds) /\ ~Pending(q)
        BY <2>3, <2>4
      <3> HIDE DEF j, q
      <3>4. q \o <<j>> = Append(q, j)
        BY <3>2, <3>3, QueueAppend
      <3>5. jobs' = Append(q, j)
        BY <3>1, <3>4 DEF q
      <3> QED BY <2>1, <2>2, <2>4, <3>1, <3>2, <3>3, <3>5, SubmitKeeps
    <2>6. CASE ~search
      <3>1. jobs' = jobs \o ReadinessJob(s) /\ busy' = busy
        BY <1>1, <2>6 DEF ChangeSuite
      <3> QED BY <2>1, <2>2, <2>3, <3>1, QuietKeeps DEF Free
    <2> QED BY <2>5, <2>6
  <1>2. CASE ReturnFromStorage
    <2> DEFINE j == Job("select", suite, <<>>)
    <2>1. /\ Free /\ UnchangedPilot /\ UNCHANGED <<search, closing, shown, inbox, worker>>
          /\ jobs' = jobs \o <<>> \o <<j>> /\ busy' = TRUE
      BY <1>2 DEF ReturnFromStorage, Reselect
    <2>2. j.kind \in JobKinds /\ Occupies(j.kind)
      BY DEF Job, JobKinds, Occupies
    <2>3. ~Pending(jobs) /\ ~Pending(inbox)
      BY <2>1, FreeIsQuiet
    <2>4. jobs \o <<>> = jobs
      <3>1. PICK S : jobs \in Seq(S)
        BY <1>a DEF Queue
      <3> QED BY <3>1
    <2> HIDE DEF j
    <2>5. jobs' = Append(jobs, j)
      BY <1>a, <2>1, <2>2, <2>3, <2>4, QueueAppend
    <2> QED BY <1>a, <2>1, <2>2, <2>3, <2>5, SubmitKeeps
  <1>3. CASE \E p \in PlanSet : Toggle(p)
    <2>1. UNCHANGED <<search, closing, shown, busy, jobs, inbox, worker>> /\ UNCHANGED pilotVars
          /\ shown = "open"
      BY <1>3 DEF Toggle, flags, Free
    <2>2. UnchangedPilot
      BY <2>1 DEF pilotVars, UnchangedPilot, parentVars, childVars
    <2> QED BY <1>a, <2>1, <2>2, QuietKeeps
  <1>4. ASSUME NEW j, j.kind \in JobKinds, Occupies(j.kind), Free, Occupy(j)
        PROVE  IInv'
    <2>1. /\ jobs' = Append(jobs, j) /\ busy' = TRUE /\ UnchangedPilot
          /\ UNCHANGED <<search, closing, shown, inbox, worker>>
      BY <1>4 DEF Occupy, flags
    <2>2. ~Pending(jobs) /\ ~Pending(inbox)
      BY <1>4, FreeIsQuiet
    <2> QED BY <1>a, <1>4, <2>1, <2>2, SubmitKeeps
  <1>5. CASE Start
    <2>1. PICK k, ps : k \in {"single", "batch", "speed"} /\ Occupy(Job(k, suite, ps))
      BY <1>5 DEF Start
    <2>2. Free
      BY <1>5 DEF Start
    <2> DEFINE j == Job(k, suite, ps)
    <2>3. j.kind \in JobKinds /\ Occupies(j.kind)
      BY <2>1 DEF Job, JobKinds, Occupies
    <2> HIDE DEF j
    <2> QED BY <1>4, <2>1, <2>2, <2>3 DEF j
  <1>6. CASE Prepare \/ Recompare
    <2>1. PICK k \in {"setup", "recompare"} : Occupy(Job(k, suite, <<>>))
      BY <1>6 DEF Prepare, Recompare
    <2>2. Free
      BY <1>6 DEF Prepare, Recompare
    <2> DEFINE j == Job(k, suite, <<>>)
    <2>3. j.kind \in JobKinds /\ Occupies(j.kind)
      BY DEF Job, JobKinds, Occupies
    <2> HIDE DEF j
    <2> QED BY <1>4, <2>1, <2>2, <2>3 DEF j
  <1>7. CASE Cancel
    <2>1. /\ shown = "open" /\ UnchangedPilot
          /\ UNCHANGED <<search, closing, shown, busy, jobs, inbox, worker>>
      BY <1>7 DEF Cancel, screenVars, flags, pane
    <2> QED BY <1>a, <2>1, QuietKeeps
  <1>8. ASSUME NEW how \in {"dismissed", "exited"}, Leave(how) PROVE IInv'
    <2>1. shown = "open" /\ UnchangedPilot /\ UNCHANGED <<search, busy, worker>>
      BY <1>8 DEF Leave, pane
    <2>2. CASE busy \/ selecting
      <3>1. UNCHANGED <<shown, closing, jobs, inbox>>
        BY <1>8, <2>2 DEF Leave
      <3> QED BY <1>a, <2>1, <3>1, QuietKeeps
    <2>3. CASE ~(busy \/ selecting)
      <3>1. Unmount(how)
        BY <1>8, <2>3 DEF Leave
      <3>2. ~Occupies(worker.kind)
        BY <2>1, <2>3, FreeIsQuiet DEF Free
      <3> QED BY <1>0, <2>1, <3>1, <3>2, UnmountKeeps DEF PlaceInv
    <2> QED BY <2>2, <2>3
  <1> QED BY <1>1, <1>2, <1>3, <1>5, <1>6, <1>7, <1>8 DEF User

-----------------------------------------------------------------------------
(* The theorems.                                                           *)

\* The screen opens with its readiness check and, for a search, its selection queued.
LEMMA ScreenInit == ASSUME PilotAssumption, Init PROVE IInv
  <1>1. PilotInv
    <2>1. PilotInit
      BY DEF Init
    <2>2. code = None /\ result = None
      BY <2>1 DEF PilotInit
    <2>3. ChildInv
      BY <2>1, PilotAssumption DEF PilotAssumption, PilotInit, ChildInv, Body, Tidying
    <2>4. InvokeInv
      BY <2>1 DEF PilotInit, InvokeInv
    <2>5. ResultMeansClean
      BY PilotAssumption, <2>2 DEF PilotAssumption, ResultMeansClean
    <2> QED BY <2>3, <2>4, <2>5 DEF PilotInv
  <1>2. WorkerInv
    BY DEF Init, PilotInit, WorkerInv, Resting, Answers
  <1>3. Queue(<<>>, JobKinds) /\ ~Pending(<<>>) /\ Queue(<<>>, MessageKinds)
    BY EmptyQueue
  <1>4. /\ <<>> \o ReadinessJob(suite) = ReadinessJob(suite)
        /\ <<>> \o ReadinessNote(suite) = ReadinessNote(suite)
    BY DEF ReadinessJob, ReadinessNote
  <1>5. /\ Queue(ReadinessJob(suite), JobKinds) /\ ~Pending(ReadinessJob(suite))
        /\ Queue(ReadinessNote(suite), MessageKinds) /\ ~Pending(ReadinessNote(suite))
    BY <1>3, <1>4, ReadinessHoldsNothing
  <1>6. /\ Queue(jobs, JobKinds) /\ (Pending(jobs) <=> search)
    <2> DEFINE j == Job("select", suite, <<>>)
               q == ReadinessJob(suite)
    <2>1. j.kind \in JobKinds /\ Occupies(j.kind)
      BY DEF Job, JobKinds, Occupies
    <2>2. jobs = q \o IF search THEN <<j>> ELSE <<>>
      BY DEF Init
    <2>3. Queue(q, JobKinds) /\ ~Pending(q)
      BY <1>5
    <2> HIDE DEF j, q
    <2>4. Queue(q \o <<j>>, JobKinds) /\ Pending(q \o <<j>>)
      BY <2>1, <2>3, QueueAppend
    <2>5. Queue(q \o <<>>, JobKinds) /\ ~Pending(q \o <<>>)
      BY <2>3, QueueNote
    <2> QED BY <2>2, <2>4, <2>5
  <1>7. PlaceInv
    BY <1>5, <1>6 DEF Init, PlaceInv, BusyWhileWorking, Resting, Occupies
  <1> QED BY <1>1, <1>2, <1>7 DEF IInv

\* Every step of the user, the event loop, the worker, the pilot and its child.
LEMMA ScreenNextKeeps == ASSUME PilotAssumption, IInv, [Next]_allVars PROVE IInv'
  <1>1. CASE User BY <1>1, UserKeeps
  <1>2. CASE Handle BY <1>2, HandleKeeps
  <1>3. CASE Worker BY <1>3, WorkerKeeps
  <1>4. CASE Pilot
    <2>1. PilotInv'
      BY <1>4, ChildKeeps, InvokeKeeps, ServerKeeps DEF Pilot, PilotNext, IInv
    <2>2. invoke' # "idle" => invoke # "idle"
      BY <1>4 DEF Pilot, PilotNext, ServerEnds, parentVars, Child, Invoke, InvokeSeesExit,
         InvokeInterrupts, InvokeReaps, InvokeTerminates, InvokeKills, InvokeGivesUp,
         InvokeEscapes, InvokeEnds, ChildPrepares, ChildLaunches, ChildServes,
         ChildEvaluates, ChildFinishes, ChildRemoves, ChildTerminates, ChildWaits,
         ChildRehashes, ChildReports, ChildDies
    <2>3. UNCHANGED <<search, shown, closing, busy, jobs, inbox, worker>>
      BY <1>4 DEF Pilot, screenVars, flags, pane
    <2>4. WorkerInv' /\ PlaceInv'
      BY <2>2, <2>3 DEF IInv, WorkerInv, PlaceInv, BusyWhileWorking
    <2> QED BY <2>1, <2>4 DEF IInv
  <1>5. CASE UNCHANGED allVars
    <2>1. /\ UNCHANGED pilotVars
          /\ UNCHANGED <<search, shown, closing, busy, jobs, inbox, worker>>
      BY <1>5 DEF allVars, screenVars, flags, pane
    <2>2. PilotInv' /\ invoke' = invoke
      BY <2>1, PilotStays DEF IInv, pilotVars
    <2>3. WorkerInv' /\ PlaceInv'
      BY <2>1, <2>2 DEF IInv, WorkerInv, PlaceInv, BusyWhileWorking
    <2> QED BY <2>2, <2>3 DEF IInv
  <1> QED BY <1>1, <1>2, <1>3, <1>4, <1>5 DEF Next

\* The invariant of the screen, its worker and the pilot.
LEMMA Inductive == Spec => []IInv
  <1>1. Init => IInv
    BY PilotAssumption, ScreenInit
  <1>2. IInv /\ [Next]_allVars => IInv'
    BY PilotAssumption, ScreenNextKeeps
  <1> QED BY <1>1, <1>2, PTL DEF Spec

\* A pilot that reports success left no server of its own on the port and no container,
\* and verified the artifact, whatever it was interrupted by and whatever its server does.
THEOREM SuccessIsClean == Spec => []ResultMeansClean
  <1>1. IInv => ResultMeansClean
    BY DEF IInv, PilotInv
  <1> QED BY <1>1, Inductive, PTL

\* The screen is held exactly while the worker has something of the user's to do or to
\* say, and neither Back nor Quit leaves a pilot behind.
THEOREM ScreenIsHeld == Spec => []ScreenHoldsItsWork
  <1>1. IInv => BusyWhileWorking
    BY DEF IInv, PlaceInv
  <1>2. ASSUME IInv, shown # "open" PROVE invoke = "idle" /\ child = "gone"
    <2>1. ~Occupies(worker.kind)
      BY <1>2 DEF IInv, PlaceInv
    <2>2. worker.step # "pilot"
      BY <1>2, <2>1 DEF IInv, WorkerInv, Occupies, Answers, JobKinds, Resting
    <2> QED BY <1>2, <2>2 DEF IInv, WorkerInv, PilotInv, InvokeInv
  <1>3. IInv => ScreenHoldsItsWork
    BY <1>1, <1>2 DEF ScreenHoldsItsWork, LeaveWaitsForThePilot
  <1> QED BY <1>3, Inductive, PTL
=============================================================================
