------------------------ MODULE SearchWorkflowProofs ------------------------
(***************************************************************************)
(* Safety of the guided search for any number of queries, tasks, workers   *)
(* and answers of the Hub, and of the search screen around it, which shows *)
(* results only where they are wanted and whose run keeps what is shown of *)
(* one run through every retry, cancel and departure.                      *)
(***************************************************************************)
EXTENDS DiscoveryScreen, TLAPS

Inspecting == {"running", "metadata", "fetching"}

Unfinished == {"queued", "reading", "ok", "failed", "unavailable", "unexpected"} \cup Inspecting

\* What each stage may find in the pool: inspections exist only while _evaluate runs
\* or is being unwound, the other stages between two pools find nothing pending.
PoolInv ==
    /\ stage \in {"lineage", "headers"} => \A i \in Tasks : task[i] \notin Inspecting
    /\ stage \in {"queries", "search", "expand", "rescue", "rank"} =>
          \A i \in Tasks : task[i] \notin Unfinished
    /\ stage = "join" => error # None /\ \A i \in Tasks : task[i] # "queued"
    /\ stage = "returned" => \A i \in Tasks : task[i] \notin Inspecting \cup {"queued"}
    /\ stage = "inspect" => \A i \in Tasks : i < next => task[i] \in Unfinished \cup {"taken"}

IInv ==
    /\ TypeOK
    /\ PoolInv
    /\ NoCandidateLost
    /\ OneAnswerPerKey
    /\ failures < NQueries
    /\ (result = None) <=> (stage # "returned")

USE DEF Tasks

\* The first state of a run.
LEMMA InitInv == ASSUME Init PROVE IInv
  <1>1. TypeOK
    <2>1. asked \in 0..NQueries /\ failures \in 0..NQueries /\ size \in 0..MaxTasks
          /\ next \in 1..(MaxTasks + 1) /\ extra \in 0..MaxExtra /\ late \in Nat
      BY SearchAssumption DEF Init
    <2>2. cancel \in BOOLEAN /\ found \in BOOLEAN /\ usable \in BOOLEAN /\ stage \in Stages
          /\ pc \in {"check", "act"} /\ batch \subseteq Tasks
          /\ entry \in Metadata \cup {None} /\ error \in Errors \cup {None}
          /\ result \in Ends \cup {None} /\ current \in StepKeys
      BY DEF Init, Stages, StepKeys
    <2>3. progress \in [StepKeys -> StepStatus]
      BY DEF Init, StepStatus, FirstProgress
    <2>4. value \in [Tasks -> Metadata \cup {None}]
      BY DEF Init, NoValues
    <2>5. task \in [Tasks -> Statuses]
      BY DEF Init, NoTasks, Statuses
    <2> QED BY <2>1, <2>2, <2>3, <2>4, <2>5 DEF TypeOK
  <1>2. PoolInv /\ NoCandidateLost /\ OneAnswerPerKey
    BY SearchAssumption DEF Init, PoolInv, NoCandidateLost, OneAnswerPerKey, NoTasks, NoValues,
       Unfinished, Inspecting
  <1> QED BY <1>1, <1>2, SearchAssumption DEF Init, IInv

USE DEF vars, poolVars, workerVars, searchVars, endVars, progressVars

\* The check of the cancel flag.
LEMMA CheckKeeps == ASSUME IInv, Check PROVE IInv'
  <1>1. asked' \in 0..NQueries /\ failures' \in 0..(NQueries - 1) /\ size' \in 0..MaxTasks
        /\ next' \in 1..(MaxTasks + 1) /\ extra' \in 0..MaxExtra /\ late' \in Nat
    BY SearchAssumption DEF IInv, TypeOK, Check, Raise
  <1>2. stage' \in Stages /\ pc' \in {"check", "act"} /\ current' \in StepKeys
        /\ error' \in Errors \cup {None} /\ result' \in Ends \cup {None}
    BY DEF IInv, TypeOK, Check, Raise, PoolInv, Stages, StepKeys, Errors, Ends
  <1>3. cancel' \in BOOLEAN /\ found' \in BOOLEAN /\ usable' \in BOOLEAN
    BY DEF IInv, TypeOK, Check, Raise
  <1>4. task' \in [Tasks -> Statuses] /\ batch' \subseteq Tasks
    BY DEF IInv, TypeOK, Check, Raise, Statuses
  <1>5. value' \in [Tasks -> Metadata \cup {None}] /\ entry' \in Metadata \cup {None}
    BY DEF IInv, TypeOK, Check, Raise
  <1>6. progress' \in [StepKeys -> StepStatus]
    BY DEF IInv, TypeOK, Check, Raise, SetStep, StepKeys, StepStatus
  <1>7. TypeOK'
    BY <1>1, <1>2, <1>3, <1>4, <1>5, <1>6, SearchAssumption DEF TypeOK
  <1>8. PoolInv' /\ NoCandidateLost'
    <2>1. CASE ~cancel
      BY <1>4, <2>1, SearchAssumption DEF IInv, TypeOK, PoolInv, NoCandidateLost, Unfinished, Inspecting,
         Check, Raise, Queued
    <2>2. CASE cancel /\ stage = "inspect"
      <3>1. stage' = "join" /\ error' = "cancelled"
        BY <2>2 DEF Check
      <3>2. \A j \in Tasks : task'[j] # "queued"
        BY <2>2 DEF IInv, TypeOK, Check, Queued
      <3>3. "cancelled" # None
        BY SearchAssumption DEF Ends, Errors
      <3> QED BY <3>1, <3>2, <3>3 DEF PoolInv, NoCandidateLost
    <2>3. CASE cancel /\ stage # "inspect"
      <3>1. stage' = "returned"
        BY <2>3 DEF Check, Raise
      <3>2. \A j \in Tasks : task[j] \notin Inspecting
        BY <2>3 DEF IInv, TypeOK, PoolInv, Check, Stages, Unfinished
      <3>3. \A j \in Tasks : task'[j] \notin Inspecting \cup {"queued"}
        BY <2>3, <3>2 DEF IInv, TypeOK, Check, Queued, Inspecting
      <3> QED BY <3>1, <3>3 DEF PoolInv, NoCandidateLost
    <2> QED BY <2>1, <2>2, <2>3 DEF IInv, TypeOK, Check
  <1>9. OneAnswerPerKey'
    BY DEF IInv, TypeOK, OneAnswerPerKey, Check, Raise
  <1>10. (result' = None) <=> (stage' # "returned")
    BY SearchAssumption DEF IInv, TypeOK, PoolInv, Check, Raise, Ends, Errors
  <1> QED BY <1>1, <1>7, <1>8, <1>9, <1>10, SearchAssumption DEF IInv

\* A step that starts or ends leaves every step a status.
LEMMA StepEnds ==
    ASSUME progress \in [StepKeys -> StepStatus]
    PROVE  SetStep(progress, "rank", "done") \in [StepKeys -> StepStatus]
  BY DEF SetStep, StepStatus

LEMMA StepStarts ==
    ASSUME progress \in [StepKeys -> StepStatus], NEW done, NEW key, DoneThenStart(done, key)
    PROVE  progress' \in [StepKeys -> StepStatus]
  <1>1. [s \in StepKeys |-> IF s \in done THEN "done" ELSE progress[s]] \in [StepKeys -> StepStatus]
    BY DEF StepStatus
  <1> QED BY <1>1 DEF DoneThenStart, SetStep, StepStatus

\* The queries are built.
LEMMA BuildQueriesKeeps == ASSUME IInv, BuildQueries PROVE IInv'
  <1>1. asked' \in 0..NQueries /\ failures' \in 0..(NQueries - 1) /\ size' \in 0..MaxTasks
        /\ next' \in 1..(MaxTasks + 1) /\ extra' \in 0..MaxExtra /\ late' \in Nat
    BY SearchAssumption DEF IInv, TypeOK, BuildQueries
  <1>2. stage' \in Stages /\ pc' \in {"check", "act"} /\ current' \in StepKeys
        /\ error' \in Errors \cup {None} /\ result' \in Ends \cup {None}
    BY DEF IInv, TypeOK, BuildQueries, DoneThenStart, PoolInv, Stages, StepKeys, Errors, Ends
  <1>3. cancel' \in BOOLEAN /\ found' \in BOOLEAN /\ usable' \in BOOLEAN
    BY DEF IInv, TypeOK, BuildQueries
  <1>4. task' \in [Tasks -> Statuses] /\ batch' \subseteq Tasks
    BY DEF IInv, TypeOK, BuildQueries, Statuses
  <1>5. value' \in [Tasks -> Metadata \cup {None}] /\ entry' \in Metadata \cup {None}
    BY DEF IInv, TypeOK, BuildQueries
  <1>6. progress' \in [StepKeys -> StepStatus]
    BY DEF IInv, TypeOK, BuildQueries, DoneThenStart, SetStep, StepKeys, StepStatus
  <1>7. TypeOK'
    BY <1>1, <1>2, <1>3, <1>4, <1>5, <1>6, SearchAssumption DEF TypeOK
  <1>8. PoolInv' /\ NoCandidateLost'
    BY <1>4, SearchAssumption DEF IInv, TypeOK, PoolInv, NoCandidateLost, Unfinished, Inspecting,
       BuildQueries
  <1>9. OneAnswerPerKey'
    BY DEF IInv, TypeOK, OneAnswerPerKey, BuildQueries
  <1>10. (result' = None) <=> (stage' # "returned")
    BY SearchAssumption DEF IInv, TypeOK, PoolInv, BuildQueries
  <1> QED BY <1>1, <1>7, <1>8, <1>9, <1>10, SearchAssumption DEF IInv

\* A query answers or fails.
LEMMA QueryKeeps == ASSUME IInv, NEW failed \in BOOLEAN, NEW hits \in BOOLEAN, Query(failed, hits) PROVE IInv'
  <1>1. asked' \in 0..NQueries /\ failures' \in 0..(NQueries - 1) /\ size' \in 0..MaxTasks
        /\ next' \in 1..(MaxTasks + 1) /\ extra' \in 0..MaxExtra /\ late' \in Nat
    <2>1. CASE failed /\ failures + 1 = NQueries
      <3>1. UNCHANGED <<asked, failures, size, next, extra, late>>
        BY <2>1 DEF Query, Raise, searchVars, poolVars
      <3> QED BY <3>1, SearchAssumption DEF IInv, TypeOK
    <2>2. CASE ~(failed /\ failures + 1 = NQueries)
      <3>1. /\ asked < NQueries /\ asked' = asked + 1
            /\ failures' = failures + (IF failed THEN 1 ELSE 0)
            /\ UNCHANGED <<size, next, extra, late>>
        BY <2>2 DEF Query, poolVars
      <3>2. asked' \in 0..NQueries /\ failures' \in 0..(NQueries - 1)
        BY <2>2, <3>1, SearchAssumption DEF IInv, TypeOK
      <3> QED BY <3>1, <3>2 DEF IInv, TypeOK
    <2> QED BY <2>1, <2>2
  <1>2. stage' \in Stages /\ pc' \in {"check", "act"} /\ current' \in StepKeys
        /\ error' \in Errors \cup {None} /\ result' \in Ends \cup {None}
    BY DEF IInv, TypeOK, Query, Raise, PoolInv, Stages, StepKeys, Errors, Ends
  <1>3. cancel' \in BOOLEAN /\ found' \in BOOLEAN /\ usable' \in BOOLEAN
    BY DEF IInv, TypeOK, Query, Raise
  <1>4. task' \in [Tasks -> Statuses] /\ batch' \subseteq Tasks
    BY DEF IInv, TypeOK, Query, Raise, Statuses
  <1>5. value' \in [Tasks -> Metadata \cup {None}] /\ entry' \in Metadata \cup {None}
    BY DEF IInv, TypeOK, Query, Raise
  <1>6. progress' \in [StepKeys -> StepStatus]
    BY DEF IInv, TypeOK, Query, Raise, SetStep, StepKeys, StepStatus
  <1>7. TypeOK'
    BY <1>1, <1>2, <1>3, <1>4, <1>5, <1>6, SearchAssumption DEF TypeOK
  <1>8. PoolInv' /\ NoCandidateLost'
    BY <1>4, SearchAssumption DEF IInv, TypeOK, PoolInv, NoCandidateLost, Unfinished, Inspecting,
       Query, Raise
  <1>9. OneAnswerPerKey'
    BY DEF IInv, TypeOK, OneAnswerPerKey, Query, Raise
  <1>10. (result' = None) <=> (stage' # "returned")
    BY SearchAssumption DEF IInv, TypeOK, PoolInv, Query, Raise, Ends, Errors
  <1> QED BY <1>1, <1>7, <1>8, <1>9, <1>10, SearchAssumption DEF IInv

\* The search ends and the lineage pool opens.
LEMMA FilterKeeps == ASSUME IInv, NEW n \in 0..MaxTasks, Filter(n) PROVE IInv'
  <1>1. asked' \in 0..NQueries /\ failures' \in 0..(NQueries - 1) /\ size' \in 0..MaxTasks
        /\ next' \in 1..(MaxTasks + 1) /\ extra' \in 0..MaxExtra /\ late' \in Nat
    <2>1. CASE ~found
      <3>1. UNCHANGED <<asked, failures, size, next, extra, late>>
        BY <2>1 DEF Filter, Finish
      <3> QED BY <3>1, SearchAssumption DEF IInv, TypeOK
    <2>2. CASE found
      <3>1. UNCHANGED <<asked, failures, extra, late>> /\ size' = n /\ next' = 1
        BY <2>2 DEF Filter, Open
      <3> QED BY <3>1, SearchAssumption DEF IInv, TypeOK
    <2> QED BY <2>1, <2>2 DEF IInv, TypeOK
  <1>2. stage' \in Stages /\ pc' \in {"check", "act"} /\ current' \in StepKeys
        /\ error' \in Errors \cup {None} /\ result' \in Ends \cup {None}
    BY DEF IInv, TypeOK, Filter, Finish, DoneThenStart, PoolInv, Stages, StepKeys, Errors, Ends
  <1>3. cancel' \in BOOLEAN /\ found' \in BOOLEAN /\ usable' \in BOOLEAN
    BY DEF IInv, TypeOK, Filter, Finish
  <1>4. task' \in [Tasks -> Statuses] /\ batch' \subseteq Tasks
    BY DEF IInv, TypeOK, Filter, Finish, Open, NoTasks, Statuses
  <1>5. value' \in [Tasks -> Metadata \cup {None}] /\ entry' \in Metadata \cup {None}
    BY DEF IInv, TypeOK, Filter, Finish
  <1>6. progress' \in [StepKeys -> StepStatus]
    BY StepStarts, StepEnds DEF IInv, TypeOK, Filter, Finish
  <1>7. TypeOK'
    BY <1>1, <1>2, <1>3, <1>4, <1>5, <1>6, SearchAssumption DEF TypeOK
  <1>8. PoolInv' /\ NoCandidateLost'
    <2>1. CASE ~found
      BY <1>4, <2>1, SearchAssumption DEF IInv, TypeOK, PoolInv, NoCandidateLost, Unfinished, Inspecting,
         Filter, Finish, Open, NoTasks
    <2>2. CASE found
      BY <1>4, <2>2, SearchAssumption DEF IInv, TypeOK, PoolInv, NoCandidateLost, Unfinished, Inspecting,
         Filter, Finish, Open, NoTasks
    <2> QED BY <2>1, <2>2 DEF IInv, TypeOK, Filter
  <1>9. OneAnswerPerKey'
    BY DEF IInv, TypeOK, OneAnswerPerKey, Filter, Finish
  <1>10. (result' = None) <=> (stage' # "returned")
    BY SearchAssumption DEF IInv, TypeOK, PoolInv, Filter, Finish, Ends, Errors
  <1> QED BY <1>1, <1>7, <1>8, <1>9, <1>10, SearchAssumption DEF IInv

\* The lineage pool closes and the shortlist opens.
LEMMA CloseLineageKeeps == ASSUME IInv, NEW n \in 0..MaxTasks, CloseLineage(n) PROVE IInv'
  <1>1. asked' \in 0..NQueries /\ failures' \in 0..(NQueries - 1) /\ size' \in 0..MaxTasks
        /\ next' \in 1..(MaxTasks + 1) /\ extra' \in 0..MaxExtra /\ late' \in Nat
    <2>1. CASE n = 0
      <3>1. UNCHANGED <<asked, failures, size, next, extra, late>>
        BY <2>1 DEF CloseLineage, Finish
      <3> QED BY <3>1, SearchAssumption DEF IInv, TypeOK
    <2>2. CASE n # 0
      <3>1. UNCHANGED <<asked, failures, extra, late>> /\ size' = n /\ next' = 1
        BY <2>2 DEF CloseLineage, Open
      <3> QED BY <3>1, SearchAssumption DEF IInv, TypeOK
    <2> QED BY <2>1, <2>2 DEF IInv, TypeOK
  <1>2. stage' \in Stages /\ pc' \in {"check", "act"} /\ current' \in StepKeys
        /\ error' \in Errors \cup {None} /\ result' \in Ends \cup {None}
    BY DEF IInv, TypeOK, CloseLineage, Finish, DoneThenStart, PoolInv, Stages, StepKeys, Errors, Ends
  <1>3. cancel' \in BOOLEAN /\ found' \in BOOLEAN /\ usable' \in BOOLEAN
    BY DEF IInv, TypeOK, CloseLineage, Finish
  <1>4. task' \in [Tasks -> Statuses] /\ batch' \subseteq Tasks
    BY DEF IInv, TypeOK, CloseLineage, Finish, Open, NoTasks, Ended, Statuses
  <1>5. value' \in [Tasks -> Metadata \cup {None}] /\ entry' \in Metadata \cup {None}
    BY DEF IInv, TypeOK, CloseLineage, Finish
  <1>6. progress' \in [StepKeys -> StepStatus]
    BY StepStarts, StepEnds DEF IInv, TypeOK, CloseLineage, Finish
  <1>7. TypeOK'
    BY <1>1, <1>2, <1>3, <1>4, <1>5, <1>6, SearchAssumption DEF TypeOK
  <1>8. PoolInv' /\ NoCandidateLost'
    <2>1. CASE n = 0
      BY <1>4, <2>1, SearchAssumption DEF IInv, TypeOK, PoolInv, NoCandidateLost, Unfinished, Inspecting,
         CloseLineage, Finish, Open, NoTasks, PoolEmpty, Pending, Queued, Working, Ended
    <2>2. CASE n # 0
      <3>1. stage' = "inspect" /\ next' = 1
        BY <2>2 DEF CloseLineage, Open
      <3> QED BY <3>1, SearchAssumption DEF PoolInv, NoCandidateLost
    <2> QED BY <2>1, <2>2 DEF IInv, TypeOK, CloseLineage
  <1>9. OneAnswerPerKey'
    BY DEF IInv, TypeOK, OneAnswerPerKey, CloseLineage, Finish
  <1>10. (result' = None) <=> (stage' # "returned")
    BY SearchAssumption DEF IInv, TypeOK, PoolInv, CloseLineage, Finish, Ends, Errors
  <1> QED BY <1>1, <1>7, <1>8, <1>9, <1>10, SearchAssumption DEF IInv

\* The header pool opens.
LEMMA RescueDoneKeeps == ASSUME IInv, NEW n \in 0..MaxTasks, RescueDone(n) PROVE IInv'
  <1>1. asked' \in 0..NQueries /\ failures' \in 0..(NQueries - 1) /\ size' \in 0..MaxTasks
        /\ next' \in 1..(MaxTasks + 1) /\ extra' \in 0..MaxExtra /\ late' \in Nat
    BY SearchAssumption DEF IInv, TypeOK, RescueDone, Open
  <1>2. stage' \in Stages /\ pc' \in {"check", "act"} /\ current' \in StepKeys
        /\ error' \in Errors \cup {None} /\ result' \in Ends \cup {None}
    BY DEF IInv, TypeOK, RescueDone, StartStep, PoolInv, Stages, StepKeys, Errors, Ends
  <1>3. cancel' \in BOOLEAN /\ found' \in BOOLEAN /\ usable' \in BOOLEAN
    BY DEF IInv, TypeOK, RescueDone
  <1>4. task' \in [Tasks -> Statuses] /\ batch' \subseteq Tasks
    BY DEF IInv, TypeOK, RescueDone, Open, NoTasks, Statuses
  <1>5. value' \in [Tasks -> Metadata \cup {None}] /\ entry' \in Metadata \cup {None}
    BY DEF IInv, TypeOK, RescueDone
  <1>6. progress' \in [StepKeys -> StepStatus]
    BY DEF IInv, TypeOK, RescueDone, StartStep, SetStep, StepKeys, StepStatus
  <1>7. TypeOK'
    BY <1>1, <1>2, <1>3, <1>4, <1>5, <1>6, SearchAssumption DEF TypeOK
  <1>8. PoolInv' /\ NoCandidateLost'
    BY <1>4, SearchAssumption DEF IInv, TypeOK, PoolInv, NoCandidateLost, Unfinished, Inspecting,
       RescueDone, Open, NoTasks
  <1>9. OneAnswerPerKey'
    BY DEF IInv, TypeOK, OneAnswerPerKey, RescueDone
  <1>10. (result' = None) <=> (stage' # "returned")
    BY SearchAssumption DEF IInv, TypeOK, PoolInv, RescueDone
  <1> QED BY <1>1, <1>7, <1>8, <1>9, <1>10, SearchAssumption DEF IInv

\* A task is submitted.
LEMMA SubmitKeeps == ASSUME IInv, Submit PROVE IInv'
  <1>1. asked' \in 0..NQueries /\ failures' \in 0..(NQueries - 1) /\ size' \in 0..MaxTasks
        /\ next' \in 1..(MaxTasks + 1) /\ extra' \in 0..MaxExtra /\ late' \in Nat
    BY SearchAssumption DEF IInv, TypeOK, Submit, CanSubmit
  <1>2. stage' \in Stages /\ pc' \in {"check", "act"} /\ current' \in StepKeys
        /\ error' \in Errors \cup {None} /\ result' \in Ends \cup {None}
    BY DEF IInv, TypeOK, Submit, PoolInv, Stages, StepKeys, Errors, Ends
  <1>3. cancel' \in BOOLEAN /\ found' \in BOOLEAN /\ usable' \in BOOLEAN
    BY DEF IInv, TypeOK, Submit
  <1>4. task' \in [Tasks -> Statuses] /\ batch' \subseteq Tasks
    BY DEF IInv, TypeOK, Submit, Ended, Statuses
  <1>5. value' \in [Tasks -> Metadata \cup {None}] /\ entry' \in Metadata \cup {None}
    BY DEF IInv, TypeOK, Submit
  <1>6. progress' \in [StepKeys -> StepStatus]
    BY DEF IInv, TypeOK, Submit, StepKeys, StepStatus
  <1>7. TypeOK'
    BY <1>1, <1>2, <1>3, <1>4, <1>5, <1>6, SearchAssumption DEF TypeOK
  <1>8. PoolInv' /\ NoCandidateLost'
    BY <1>4, SearchAssumption DEF IInv, TypeOK, PoolInv, NoCandidateLost, Unfinished, Inspecting,
       Submit, CanSubmit, InPool, Pending, Queued, Working, Ended
  <1>9. OneAnswerPerKey'
    BY DEF IInv, TypeOK, OneAnswerPerKey, Submit
  <1>10. (result' = None) <=> (stage' # "returned")
    BY SearchAssumption DEF IInv, TypeOK, PoolInv, Submit
  <1> QED BY <1>1, <1>7, <1>8, <1>9, <1>10, SearchAssumption DEF IInv

\* The loop waits.
LEMMA WaitKeeps == ASSUME IInv, Wait PROVE IInv'
  <1>1. asked' \in 0..NQueries /\ failures' \in 0..(NQueries - 1) /\ size' \in 0..MaxTasks
        /\ next' \in 1..(MaxTasks + 1) /\ extra' \in 0..MaxExtra /\ late' \in Nat
    BY SearchAssumption DEF IInv, TypeOK, Wait, CanSubmit
  <1>2. stage' \in Stages /\ pc' \in {"check", "act"} /\ current' \in StepKeys
        /\ error' \in Errors \cup {None} /\ result' \in Ends \cup {None}
    BY DEF IInv, TypeOK, Wait, PoolInv, Stages, StepKeys, Errors, Ends
  <1>3. cancel' \in BOOLEAN /\ found' \in BOOLEAN /\ usable' \in BOOLEAN
    BY DEF IInv, TypeOK, Wait
  <1>4. task' \in [Tasks -> Statuses] /\ batch' \subseteq Tasks
    BY DEF IInv, TypeOK, Wait, Ended, Statuses
  <1>5. value' \in [Tasks -> Metadata \cup {None}] /\ entry' \in Metadata \cup {None}
    BY DEF IInv, TypeOK, Wait
  <1>6. progress' \in [StepKeys -> StepStatus]
    BY DEF IInv, TypeOK, Wait, StepKeys, StepStatus
  <1>7. TypeOK'
    BY <1>1, <1>2, <1>3, <1>4, <1>5, <1>6, SearchAssumption DEF TypeOK
  <1>8. PoolInv' /\ NoCandidateLost'
    BY <1>4, SearchAssumption DEF IInv, TypeOK, PoolInv, NoCandidateLost, Unfinished, Inspecting,
       Wait, CanSubmit, InPool, Pending, Queued, Working, Ended
  <1>9. OneAnswerPerKey'
    BY DEF IInv, TypeOK, OneAnswerPerKey, Wait
  <1>10. (result' = None) <=> (stage' # "returned")
    BY SearchAssumption DEF IInv, TypeOK, PoolInv, Wait
  <1> QED BY <1>1, <1>7, <1>8, <1>9, <1>10, SearchAssumption DEF IInv

\* Reads are taken.
LEMMA TakeReadsKeeps == ASSUME IInv, TakeReads PROVE IInv'
  <1>1. asked' \in 0..NQueries /\ failures' \in 0..(NQueries - 1) /\ size' \in 0..MaxTasks
        /\ next' \in 1..(MaxTasks + 1) /\ extra' \in 0..MaxExtra /\ late' \in Nat
    BY SearchAssumption DEF IInv, TypeOK, TakeReads
  <1>2. stage' \in Stages /\ pc' \in {"check", "act"} /\ current' \in StepKeys
        /\ error' \in Errors \cup {None} /\ result' \in Ends \cup {None}
    BY DEF IInv, TypeOK, TakeReads, PoolInv, Stages, StepKeys, Errors, Ends
  <1>3. cancel' \in BOOLEAN /\ found' \in BOOLEAN /\ usable' \in BOOLEAN
    BY DEF IInv, TypeOK, TakeReads
  <1>4. task' \in [Tasks -> Statuses] /\ batch' \subseteq Tasks
    BY DEF IInv, TypeOK, TakeReads, Statuses
  <1>5. value' \in [Tasks -> Metadata \cup {None}] /\ entry' \in Metadata \cup {None}
    BY DEF IInv, TypeOK, TakeReads
  <1>6. progress' \in [StepKeys -> StepStatus]
    BY DEF IInv, TypeOK, TakeReads, StepKeys, StepStatus
  <1>7. TypeOK'
    BY <1>1, <1>2, <1>3, <1>4, <1>5, <1>6, SearchAssumption DEF TypeOK
  <1>8. PoolInv' /\ NoCandidateLost'
    BY <1>4, SearchAssumption DEF IInv, TypeOK, PoolInv, NoCandidateLost, Unfinished, Inspecting,
       TakeReads
  <1>9. OneAnswerPerKey'
    BY DEF IInv, TypeOK, OneAnswerPerKey, TakeReads
  <1>10. (result' = None) <=> (stage' # "returned")
    BY SearchAssumption DEF IInv, TypeOK, PoolInv, TakeReads
  <1> QED BY <1>1, <1>7, <1>8, <1>9, <1>10, SearchAssumption DEF IInv

\* One inspection is taken.
LEMMA TakeInspectionKeeps == ASSUME IInv, NEW i \in Tasks, TakeInspection(i) PROVE IInv'
  <1>1. asked' \in 0..NQueries /\ failures' \in 0..(NQueries - 1) /\ size' \in 0..MaxTasks
        /\ next' \in 1..(MaxTasks + 1) /\ extra' \in 0..MaxExtra /\ late' \in Nat
    BY SearchAssumption DEF IInv, TypeOK, TakeInspection, CanSubmit
  <1>2. stage' \in Stages /\ pc' \in {"check", "act"} /\ current' \in StepKeys
        /\ error' \in Errors \cup {None} /\ result' \in Ends \cup {None}
    BY DEF IInv, TypeOK, TakeInspection, PoolInv, Stages, StepKeys, Errors, Ends
  <1>3. cancel' \in BOOLEAN /\ found' \in BOOLEAN /\ usable' \in BOOLEAN
    BY DEF IInv, TypeOK, TakeInspection
  <1>4. task' \in [Tasks -> Statuses] /\ batch' \subseteq Tasks
    BY DEF IInv, TypeOK, TakeInspection, Ended, Statuses
  <1>5. value' \in [Tasks -> Metadata \cup {None}] /\ entry' \in Metadata \cup {None}
    BY DEF IInv, TypeOK, TakeInspection
  <1>6. progress' \in [StepKeys -> StepStatus]
    BY DEF IInv, TypeOK, TakeInspection, StepKeys, StepStatus
  <1>7. TypeOK'
    BY <1>1, <1>2, <1>3, <1>4, <1>5, <1>6, SearchAssumption DEF TypeOK
  <1>8. PoolInv' /\ NoCandidateLost'
    <2>1. CASE task[i] \in {"ok", "failed"}
      BY <1>4, <2>1, SearchAssumption DEF IInv, TypeOK, PoolInv, NoCandidateLost, Unfinished, Inspecting,
         TakeInspection, CanSubmit, Pending, Queued, Working, Ended
    <2>2. CASE task[i] \in {"unavailable", "unexpected"}
      <3>1. stage' = "join" /\ error' = task[i]
        BY <2>2 DEF TakeInspection
      <3>2. \A j \in Tasks : task'[j] # "queued"
        BY <2>2 DEF IInv, TypeOK, TakeInspection, Queued
      <3>3. task[i] # None
        BY <2>2, SearchAssumption DEF Ends, Errors
      <3> QED BY <3>1, <3>2, <3>3 DEF PoolInv, NoCandidateLost
    <2> QED BY <2>1, <2>2 DEF IInv, TypeOK, TakeInspection
  <1>9. OneAnswerPerKey'
    BY DEF IInv, TypeOK, OneAnswerPerKey, TakeInspection
  <1>10. (result' = None) <=> (stage' # "returned")
    BY SearchAssumption DEF IInv, TypeOK, PoolInv, TakeInspection
  <1> QED BY <1>1, <1>7, <1>8, <1>9, <1>10, SearchAssumption DEF IInv

\* The pool is unwound.
LEMMA JoinKeeps == ASSUME IInv, Join PROVE IInv'
  <1>1. asked' \in 0..NQueries /\ failures' \in 0..(NQueries - 1) /\ size' \in 0..MaxTasks
        /\ next' \in 1..(MaxTasks + 1) /\ extra' \in 0..MaxExtra /\ late' \in Nat
    BY SearchAssumption DEF IInv, TypeOK, Join, Raise
  <1>2. stage' \in Stages /\ pc' \in {"check", "act"} /\ current' \in StepKeys
        /\ error' \in Errors \cup {None} /\ result' \in Ends \cup {None}
    BY DEF IInv, TypeOK, Join, Raise, PoolInv, Stages, StepKeys, Errors, Ends
  <1>3. cancel' \in BOOLEAN /\ found' \in BOOLEAN /\ usable' \in BOOLEAN
    BY DEF IInv, TypeOK, Join, Raise
  <1>4. task' \in [Tasks -> Statuses] /\ batch' \subseteq Tasks
    BY DEF IInv, TypeOK, Join, Raise, Statuses
  <1>5. value' \in [Tasks -> Metadata \cup {None}] /\ entry' \in Metadata \cup {None}
    BY DEF IInv, TypeOK, Join, Raise
  <1>6. progress' \in [StepKeys -> StepStatus]
    BY DEF IInv, TypeOK, Join, Raise, SetStep, StepKeys, StepStatus
  <1>7. TypeOK'
    BY <1>1, <1>2, <1>3, <1>4, <1>5, <1>6, SearchAssumption DEF TypeOK
  <1>8. PoolInv' /\ NoCandidateLost'
    BY <1>4, SearchAssumption DEF IInv, TypeOK, PoolInv, NoCandidateLost, Unfinished, Inspecting,
       Join, Raise, Working
  <1>9. OneAnswerPerKey'
    BY DEF IInv, TypeOK, OneAnswerPerKey, Join, Raise
  <1>10. (result' = None) <=> (stage' # "returned")
    BY SearchAssumption DEF IInv, TypeOK, PoolInv, Join, Raise, Ends, Errors
  <1> QED BY <1>1, <1>7, <1>8, <1>9, <1>10, SearchAssumption DEF IInv

\* The shortlist is evaluated.
LEMMA CloseInspectKeeps == ASSUME IInv, CloseInspect PROVE IInv'
  <1>1. asked' \in 0..NQueries /\ failures' \in 0..(NQueries - 1) /\ size' \in 0..MaxTasks
        /\ next' \in 1..(MaxTasks + 1) /\ extra' \in 0..MaxExtra /\ late' \in Nat
    BY SearchAssumption DEF IInv, TypeOK, CloseInspect
  <1>2. stage' \in Stages /\ pc' \in {"check", "act"} /\ current' \in StepKeys
        /\ error' \in Errors \cup {None} /\ result' \in Ends \cup {None}
    BY DEF IInv, TypeOK, CloseInspect, PoolInv, Stages, StepKeys, Errors, Ends
  <1>3. cancel' \in BOOLEAN /\ found' \in BOOLEAN /\ usable' \in BOOLEAN
    BY DEF IInv, TypeOK, CloseInspect
  <1>4. task' \in [Tasks -> Statuses] /\ batch' \subseteq Tasks
    BY DEF IInv, TypeOK, CloseInspect, Ended, Statuses
  <1>5. value' \in [Tasks -> Metadata \cup {None}] /\ entry' \in Metadata \cup {None}
    BY DEF IInv, TypeOK, CloseInspect
  <1>6. progress' \in [StepKeys -> StepStatus]
    BY DEF IInv, TypeOK, CloseInspect, SetStep, StepKeys, StepStatus
  <1>7. TypeOK'
    BY <1>1, <1>2, <1>3, <1>4, <1>5, <1>6, SearchAssumption DEF TypeOK
  <1>8. PoolInv' /\ NoCandidateLost'
    BY <1>4, SearchAssumption DEF IInv, TypeOK, PoolInv, NoCandidateLost, Unfinished, Inspecting,
       CloseInspect, PoolEmpty, Pending, Queued, Working, Ended
  <1>9. OneAnswerPerKey'
    BY DEF IInv, TypeOK, OneAnswerPerKey, CloseInspect
  <1>10. (result' = None) <=> (stage' # "returned")
    BY SearchAssumption DEF IInv, TypeOK, PoolInv, CloseInspect
  <1> QED BY <1>1, <1>7, <1>8, <1>9, <1>10, SearchAssumption DEF IInv

\* An alternative is inspected.
LEMMA ExpandOneKeeps == ASSUME IInv, ExpandOne PROVE IInv'
  <1>1. asked' \in 0..NQueries /\ failures' \in 0..(NQueries - 1) /\ size' \in 0..MaxTasks
        /\ next' \in 1..(MaxTasks + 1) /\ extra' \in 0..MaxExtra /\ late' \in Nat
    BY SearchAssumption DEF IInv, TypeOK, ExpandOne
  <1>2. stage' \in Stages /\ pc' \in {"check", "act"} /\ current' \in StepKeys
        /\ error' \in Errors \cup {None} /\ result' \in Ends \cup {None}
    BY DEF IInv, TypeOK, ExpandOne, PoolInv, Stages, StepKeys, Errors, Ends
  <1>3. cancel' \in BOOLEAN /\ found' \in BOOLEAN /\ usable' \in BOOLEAN
    BY DEF IInv, TypeOK, ExpandOne
  <1>4. task' \in [Tasks -> Statuses] /\ batch' \subseteq Tasks
    BY DEF IInv, TypeOK, ExpandOne, Statuses
  <1>5. value' \in [Tasks -> Metadata \cup {None}] /\ entry' \in Metadata \cup {None}
    BY DEF IInv, TypeOK, ExpandOne
  <1>6. progress' \in [StepKeys -> StepStatus]
    BY DEF IInv, TypeOK, ExpandOne, StepKeys, StepStatus
  <1>7. TypeOK'
    BY <1>1, <1>2, <1>3, <1>4, <1>5, <1>6, SearchAssumption DEF TypeOK
  <1>8. PoolInv' /\ NoCandidateLost'
    BY <1>4, SearchAssumption DEF IInv, TypeOK, PoolInv, NoCandidateLost, Unfinished, Inspecting,
       ExpandOne
  <1>9. OneAnswerPerKey'
    BY DEF IInv, TypeOK, OneAnswerPerKey, ExpandOne
  <1>10. (result' = None) <=> (stage' # "returned")
    BY SearchAssumption DEF IInv, TypeOK, PoolInv, ExpandOne
  <1> QED BY <1>1, <1>7, <1>8, <1>9, <1>10, SearchAssumption DEF IInv

\* Expansion ends.
LEMMA ExpandDoneKeeps == ASSUME IInv, ExpandDone PROVE IInv'
  <1>1. asked' \in 0..NQueries /\ failures' \in 0..(NQueries - 1) /\ size' \in 0..MaxTasks
        /\ next' \in 1..(MaxTasks + 1) /\ extra' \in 0..MaxExtra /\ late' \in Nat
    BY SearchAssumption DEF IInv, TypeOK, ExpandDone
  <1>2. stage' \in Stages /\ pc' \in {"check", "act"} /\ current' \in StepKeys
        /\ error' \in Errors \cup {None} /\ result' \in Ends \cup {None}
    BY DEF IInv, TypeOK, ExpandDone, PoolInv, Stages, StepKeys, Errors, Ends
  <1>3. cancel' \in BOOLEAN /\ found' \in BOOLEAN /\ usable' \in BOOLEAN
    BY DEF IInv, TypeOK, ExpandDone
  <1>4. task' \in [Tasks -> Statuses] /\ batch' \subseteq Tasks
    BY DEF IInv, TypeOK, ExpandDone, Statuses
  <1>5. value' \in [Tasks -> Metadata \cup {None}] /\ entry' \in Metadata \cup {None}
    BY DEF IInv, TypeOK, ExpandDone
  <1>6. progress' \in [StepKeys -> StepStatus]
    BY DEF IInv, TypeOK, ExpandDone, StepKeys, StepStatus
  <1>7. TypeOK'
    BY <1>1, <1>2, <1>3, <1>4, <1>5, <1>6, SearchAssumption DEF TypeOK
  <1>8. PoolInv' /\ NoCandidateLost'
    BY <1>4, SearchAssumption DEF IInv, TypeOK, PoolInv, NoCandidateLost, Unfinished, Inspecting,
       ExpandDone
  <1>9. OneAnswerPerKey'
    BY DEF IInv, TypeOK, OneAnswerPerKey, ExpandDone
  <1>10. (result' = None) <=> (stage' # "returned")
    BY SearchAssumption DEF IInv, TypeOK, PoolInv, ExpandDone
  <1> QED BY <1>1, <1>7, <1>8, <1>9, <1>10, SearchAssumption DEF IInv

\* A sibling is inspected.
LEMMA RescueOneKeeps == ASSUME IInv, RescueOne PROVE IInv'
  <1>1. asked' \in 0..NQueries /\ failures' \in 0..(NQueries - 1) /\ size' \in 0..MaxTasks
        /\ next' \in 1..(MaxTasks + 1) /\ extra' \in 0..MaxExtra /\ late' \in Nat
    BY SearchAssumption DEF IInv, TypeOK, RescueOne, Raise
  <1>2. stage' \in Stages /\ pc' \in {"check", "act"} /\ current' \in StepKeys
        /\ error' \in Errors \cup {None} /\ result' \in Ends \cup {None}
    BY DEF IInv, TypeOK, RescueOne, Raise, PoolInv, Stages, StepKeys, Errors, Ends
  <1>3. cancel' \in BOOLEAN /\ found' \in BOOLEAN /\ usable' \in BOOLEAN
    BY DEF IInv, TypeOK, RescueOne, Raise
  <1>4. task' \in [Tasks -> Statuses] /\ batch' \subseteq Tasks
    BY DEF IInv, TypeOK, RescueOne, Raise, Statuses
  <1>5. value' \in [Tasks -> Metadata \cup {None}] /\ entry' \in Metadata \cup {None}
    BY DEF IInv, TypeOK, RescueOne, Raise
  <1>6. progress' \in [StepKeys -> StepStatus]
    BY DEF IInv, TypeOK, RescueOne, Raise, SetStep, StepKeys, StepStatus
  <1>7. TypeOK'
    BY <1>1, <1>2, <1>3, <1>4, <1>5, <1>6, SearchAssumption DEF TypeOK
  <1>8. PoolInv' /\ NoCandidateLost'
    BY <1>4, SearchAssumption DEF IInv, TypeOK, PoolInv, NoCandidateLost, Unfinished, Inspecting,
       RescueOne, Raise
  <1>9. OneAnswerPerKey'
    BY DEF IInv, TypeOK, OneAnswerPerKey, RescueOne, Raise
  <1>10. (result' = None) <=> (stage' # "returned")
    BY SearchAssumption DEF IInv, TypeOK, PoolInv, RescueOne, Raise, Ends, Errors
  <1> QED BY <1>1, <1>7, <1>8, <1>9, <1>10, SearchAssumption DEF IInv

\* The header pool closes.
LEMMA CloseHeadersKeeps == ASSUME IInv, CloseHeaders PROVE IInv'
  <1>1. asked' \in 0..NQueries /\ failures' \in 0..(NQueries - 1) /\ size' \in 0..MaxTasks
        /\ next' \in 1..(MaxTasks + 1) /\ extra' \in 0..MaxExtra /\ late' \in Nat
    BY SearchAssumption DEF IInv, TypeOK, CloseHeaders
  <1>2. stage' \in Stages /\ pc' \in {"check", "act"} /\ current' \in StepKeys
        /\ error' \in Errors \cup {None} /\ result' \in Ends \cup {None}
    BY DEF IInv, TypeOK, CloseHeaders, PoolInv, Stages, StepKeys, Errors, Ends
  <1>3. cancel' \in BOOLEAN /\ found' \in BOOLEAN /\ usable' \in BOOLEAN
    BY DEF IInv, TypeOK, CloseHeaders
  <1>4. task' \in [Tasks -> Statuses] /\ batch' \subseteq Tasks
    BY DEF IInv, TypeOK, CloseHeaders, Ended, Statuses
  <1>5. value' \in [Tasks -> Metadata \cup {None}] /\ entry' \in Metadata \cup {None}
    BY DEF IInv, TypeOK, CloseHeaders
  <1>6. progress' \in [StepKeys -> StepStatus]
    BY DEF IInv, TypeOK, CloseHeaders, StepKeys, StepStatus
  <1>7. TypeOK'
    BY <1>1, <1>2, <1>3, <1>4, <1>5, <1>6, SearchAssumption DEF TypeOK
  <1>8. PoolInv' /\ NoCandidateLost'
    BY <1>4, SearchAssumption DEF IInv, TypeOK, PoolInv, NoCandidateLost, Unfinished, Inspecting,
       CloseHeaders, PoolEmpty, Pending, Queued, Working, Ended
  <1>9. OneAnswerPerKey'
    BY DEF IInv, TypeOK, OneAnswerPerKey, CloseHeaders
  <1>10. (result' = None) <=> (stage' # "returned")
    BY SearchAssumption DEF IInv, TypeOK, PoolInv, CloseHeaders
  <1> QED BY <1>1, <1>7, <1>8, <1>9, <1>10, SearchAssumption DEF IInv

\* The run ranks and returns.
LEMMA RankKeeps == ASSUME IInv, Rank PROVE IInv'
  <1>1. asked' \in 0..NQueries /\ failures' \in 0..(NQueries - 1) /\ size' \in 0..MaxTasks
        /\ next' \in 1..(MaxTasks + 1) /\ extra' \in 0..MaxExtra /\ late' \in Nat
    <2>1. UNCHANGED <<asked, failures, size, next, extra, late>>
      BY DEF Rank, Finish, Raise
    <2> QED BY <2>1, SearchAssumption DEF IInv, TypeOK
  <1>2. stage' \in Stages /\ pc' \in {"check", "act"} /\ current' \in StepKeys
        /\ error' \in Errors \cup {None} /\ result' \in Ends \cup {None}
    BY DEF IInv, TypeOK, Rank, Raise, Finish, PoolInv, Stages, StepKeys, Errors, Ends
  <1>3. cancel' \in BOOLEAN /\ found' \in BOOLEAN /\ usable' \in BOOLEAN
    BY DEF IInv, TypeOK, Rank, Raise, Finish
  <1>4. task' \in [Tasks -> Statuses] /\ batch' \subseteq Tasks
    BY DEF IInv, TypeOK, Rank, Raise, Finish, Statuses
  <1>5. value' \in [Tasks -> Metadata \cup {None}] /\ entry' \in Metadata \cup {None}
    BY DEF IInv, TypeOK, Rank, Raise, Finish
  <1>6. progress' \in [StepKeys -> StepStatus]
    BY DEF IInv, TypeOK, Rank, Raise, Finish, SetStep, StepKeys, StepStatus
  <1>7. TypeOK'
    BY <1>1, <1>2, <1>3, <1>4, <1>5, <1>6, SearchAssumption DEF TypeOK
  <1>8. PoolInv' /\ NoCandidateLost'
    BY <1>4, SearchAssumption DEF IInv, TypeOK, PoolInv, NoCandidateLost, Unfinished, Inspecting,
       Rank, Raise, Finish
  <1>9. OneAnswerPerKey'
    BY DEF IInv, TypeOK, OneAnswerPerKey, Rank, Raise, Finish
  <1>10. (result' = None) <=> (stage' # "returned")
    BY SearchAssumption DEF IInv, TypeOK, PoolInv, Rank, Raise, Finish, Ends, Errors
  <1> QED BY <1>1, <1>7, <1>8, <1>9, <1>10, SearchAssumption DEF IInv

\* A worker takes a queued task.
LEMMA StartTaskKeeps == ASSUME IInv, NEW i \in Tasks, StartTask(i) PROVE IInv'
  <1>1. asked' \in 0..NQueries /\ failures' \in 0..(NQueries - 1) /\ size' \in 0..MaxTasks
        /\ next' \in 1..(MaxTasks + 1) /\ extra' \in 0..MaxExtra /\ late' \in Nat
    BY SearchAssumption DEF IInv, TypeOK, StartTask, Move
  <1>2. stage' \in Stages /\ pc' \in {"check", "act"} /\ current' \in StepKeys
        /\ error' \in Errors \cup {None} /\ result' \in Ends \cup {None}
    BY DEF IInv, TypeOK, StartTask, Move, PoolInv, Stages, StepKeys, Errors, Ends
  <1>3. cancel' \in BOOLEAN /\ found' \in BOOLEAN /\ usable' \in BOOLEAN
    BY DEF IInv, TypeOK, StartTask, Move
  <1>4. task' \in [Tasks -> Statuses] /\ batch' \subseteq Tasks
    BY DEF IInv, TypeOK, StartTask, Move, Statuses
  <1>5. value' \in [Tasks -> Metadata \cup {None}] /\ entry' \in Metadata \cup {None}
    BY DEF IInv, TypeOK, StartTask, Move
  <1>6. progress' \in [StepKeys -> StepStatus]
    BY DEF IInv, TypeOK, StartTask, Move, StepKeys, StepStatus
  <1>7. TypeOK'
    BY <1>1, <1>2, <1>3, <1>4, <1>5, <1>6, SearchAssumption DEF TypeOK
  <1>8. PoolInv' /\ NoCandidateLost'
    BY <1>4, SearchAssumption DEF IInv, TypeOK, PoolInv, NoCandidateLost, Unfinished, Inspecting,
       StartTask, Move, InPool, Queued
  <1>9. OneAnswerPerKey'
    BY DEF IInv, TypeOK, OneAnswerPerKey, StartTask, Move
  <1>10. (result' = None) <=> (stage' # "returned")
    BY SearchAssumption DEF IInv, TypeOK, PoolInv, StartTask, Move
  <1> QED BY <1>1, <1>7, <1>8, <1>9, <1>10, SearchAssumption DEF IInv

\* A read ends.
LEMMA ReadKeeps == ASSUME IInv, NEW i \in Tasks, Read(i) PROVE IInv'
  <1>1. asked' \in 0..NQueries /\ failures' \in 0..(NQueries - 1) /\ size' \in 0..MaxTasks
        /\ next' \in 1..(MaxTasks + 1) /\ extra' \in 0..MaxExtra /\ late' \in Nat
    BY SearchAssumption DEF IInv, TypeOK, Read, Move
  <1>2. stage' \in Stages /\ pc' \in {"check", "act"} /\ current' \in StepKeys
        /\ error' \in Errors \cup {None} /\ result' \in Ends \cup {None}
    BY DEF IInv, TypeOK, Read, Move, PoolInv, Stages, StepKeys, Errors, Ends
  <1>3. cancel' \in BOOLEAN /\ found' \in BOOLEAN /\ usable' \in BOOLEAN
    BY DEF IInv, TypeOK, Read, Move
  <1>4. task' \in [Tasks -> Statuses] /\ batch' \subseteq Tasks
    BY DEF IInv, TypeOK, Read, Move, Statuses
  <1>5. value' \in [Tasks -> Metadata \cup {None}] /\ entry' \in Metadata \cup {None}
    BY DEF IInv, TypeOK, Read, Move
  <1>6. progress' \in [StepKeys -> StepStatus]
    BY DEF IInv, TypeOK, Read, Move, StepKeys, StepStatus
  <1>7. TypeOK'
    BY <1>1, <1>2, <1>3, <1>4, <1>5, <1>6, SearchAssumption DEF TypeOK
  <1>8. PoolInv' /\ NoCandidateLost'
    <2>1. /\ UNCHANGED <<stage, next, size, error>> /\ task'[i] \in {"ok", "failed"}
          /\ \A j \in Tasks : j # i => task'[j] = task[j]
      BY DEF Read, Move, IInv, TypeOK, endVars
    <2>2. stage \notin {"queries", "search", "expand", "rescue", "rank"}
      BY DEF Read, IInv, PoolInv, Unfinished
    <2>3. PoolInv'
      BY <2>1, <2>2 DEF IInv, PoolInv, Unfinished, Inspecting
    <2>4. NoCandidateLost'
      BY <2>1, <2>2 DEF NoCandidateLost
    <2> QED BY <2>3, <2>4
  <1>9. OneAnswerPerKey'
    BY DEF IInv, TypeOK, OneAnswerPerKey, Read, Move
  <1>10. (result' = None) <=> (stage' # "returned")
    BY SearchAssumption DEF IInv, TypeOK, PoolInv, Read, Move
  <1> QED BY <1>1, <1>7, <1>8, <1>9, <1>10, SearchAssumption DEF IInv

\* An inspection ends.
LEMMA InspectKeeps == ASSUME IInv, NEW i \in Tasks, Inspect(i) PROVE IInv'
  <1>1. asked' \in 0..NQueries /\ failures' \in 0..(NQueries - 1) /\ size' \in 0..MaxTasks
        /\ next' \in 1..(MaxTasks + 1) /\ extra' \in 0..MaxExtra /\ late' \in Nat
    BY SearchAssumption DEF IInv, TypeOK, Inspect, Move
  <1>2. stage' \in Stages /\ pc' \in {"check", "act"} /\ current' \in StepKeys
        /\ error' \in Errors \cup {None} /\ result' \in Ends \cup {None}
    BY DEF IInv, TypeOK, Inspect, Move, PoolInv, Stages, StepKeys, Errors, Ends
  <1>3. cancel' \in BOOLEAN /\ found' \in BOOLEAN /\ usable' \in BOOLEAN
    BY DEF IInv, TypeOK, Inspect, Move
  <1>4. task' \in [Tasks -> Statuses] /\ batch' \subseteq Tasks
    BY DEF IInv, TypeOK, Inspect, Move, Statuses
  <1>5. value' \in [Tasks -> Metadata \cup {None}] /\ entry' \in Metadata \cup {None}
    BY DEF IInv, TypeOK, Inspect, Move
  <1>6. progress' \in [StepKeys -> StepStatus]
    BY DEF IInv, TypeOK, Inspect, Move, StepKeys, StepStatus
  <1>7. TypeOK'
    BY <1>1, <1>2, <1>3, <1>4, <1>5, <1>6, SearchAssumption DEF TypeOK
  <1>8. PoolInv' /\ NoCandidateLost'
    BY <1>4, SearchAssumption DEF IInv, TypeOK, PoolInv, NoCandidateLost, Unfinished, Inspecting,
       Inspect, Move
  <1>9. OneAnswerPerKey'
    BY DEF IInv, TypeOK, OneAnswerPerKey, Inspect, Move
  <1>10. (result' = None) <=> (stage' # "returned")
    BY SearchAssumption DEF IInv, TypeOK, PoolInv, Inspect, Move
  <1> QED BY <1>1, <1>7, <1>8, <1>9, <1>10, SearchAssumption DEF IInv

\* The first critical section of the run cache.
LEMMA LookupKeeps == ASSUME IInv, NEW i \in Tasks, Lookup(i) PROVE IInv'
  <1>1. asked' \in 0..NQueries /\ failures' \in 0..(NQueries - 1) /\ size' \in 0..MaxTasks
        /\ next' \in 1..(MaxTasks + 1) /\ extra' \in 0..MaxExtra /\ late' \in Nat
    BY SearchAssumption DEF IInv, TypeOK, Lookup, Move
  <1>2. stage' \in Stages /\ pc' \in {"check", "act"} /\ current' \in StepKeys
        /\ error' \in Errors \cup {None} /\ result' \in Ends \cup {None}
    <2>1. UNCHANGED <<stage, pc, current, error, result>>
      BY DEF Lookup, Move
    <2> QED BY <2>1 DEF IInv, TypeOK
  <1>3. cancel' \in BOOLEAN /\ found' \in BOOLEAN /\ usable' \in BOOLEAN
    BY DEF IInv, TypeOK, Lookup, Move
  <1>4. task' \in [Tasks -> Statuses] /\ batch' \subseteq Tasks
    BY DEF IInv, TypeOK, Lookup, Move, Statuses
  <1>5. value' \in [Tasks -> Metadata \cup {None}] /\ entry' \in Metadata \cup {None}
    BY DEF IInv, TypeOK, Lookup, Move
  <1>6. progress' \in [StepKeys -> StepStatus]
    BY DEF IInv, TypeOK, Lookup, Move, StepKeys, StepStatus
  <1>7. TypeOK'
    BY <1>1, <1>2, <1>3, <1>4, <1>5, <1>6, SearchAssumption DEF TypeOK
  <1>8. PoolInv' /\ NoCandidateLost'
    BY <1>4, SearchAssumption DEF IInv, TypeOK, PoolInv, NoCandidateLost, Unfinished, Inspecting,
       Lookup, Move
  <1>9. OneAnswerPerKey'
    BY DEF IInv, TypeOK, OneAnswerPerKey, Lookup, Move
  <1>10. (result' = None) <=> (stage' # "returned")
    BY SearchAssumption DEF IInv, TypeOK, PoolInv, Lookup, Move
  <1> QED BY <1>1, <1>7, <1>8, <1>9, <1>10, SearchAssumption DEF IInv

\* The second critical section of the run cache.
LEMMA PublishKeeps == ASSUME IInv, NEW i \in Tasks, Publish(i) PROVE IInv'
  <1>1. asked' \in 0..NQueries /\ failures' \in 0..(NQueries - 1) /\ size' \in 0..MaxTasks
        /\ next' \in 1..(MaxTasks + 1) /\ extra' \in 0..MaxExtra /\ late' \in Nat
    BY SearchAssumption DEF IInv, TypeOK, Publish, Move
  <1>2. stage' \in Stages /\ pc' \in {"check", "act"} /\ current' \in StepKeys
        /\ error' \in Errors \cup {None} /\ result' \in Ends \cup {None}
    <2>1. UNCHANGED <<stage, pc, current, error, result>>
      BY DEF Publish, Move
    <2> QED BY <2>1 DEF IInv, TypeOK
  <1>3. cancel' \in BOOLEAN /\ found' \in BOOLEAN /\ usable' \in BOOLEAN
    BY DEF IInv, TypeOK, Publish, Move
  <1>4. task' \in [Tasks -> Statuses] /\ batch' \subseteq Tasks
    BY DEF IInv, TypeOK, Publish, Move, Statuses
  <1>5. value' \in [Tasks -> Metadata \cup {None}] /\ entry' \in Metadata \cup {None}
    BY DEF IInv, TypeOK, Publish, Move
  <1>6. progress' \in [StepKeys -> StepStatus]
    BY DEF IInv, TypeOK, Publish, Move, StepKeys, StepStatus
  <1>7. TypeOK'
    BY <1>1, <1>2, <1>3, <1>4, <1>5, <1>6, SearchAssumption DEF TypeOK
  <1>8. PoolInv' /\ NoCandidateLost'
    BY <1>4, SearchAssumption DEF IInv, TypeOK, PoolInv, NoCandidateLost, Unfinished, Inspecting,
       Publish, Move
  <1>9. OneAnswerPerKey'
    BY DEF IInv, TypeOK, OneAnswerPerKey, Publish, Move
  <1>10. (result' = None) <=> (stage' # "returned")
    BY SearchAssumption DEF IInv, TypeOK, PoolInv, Publish, Move
  <1> QED BY <1>1, <1>7, <1>8, <1>9, <1>10, SearchAssumption DEF IInv

\* The caller cancels.
LEMMA RequestCancelKeeps == ASSUME IInv, RequestCancel PROVE IInv'
  <1>1. asked' \in 0..NQueries /\ failures' \in 0..(NQueries - 1) /\ size' \in 0..MaxTasks
        /\ next' \in 1..(MaxTasks + 1) /\ extra' \in 0..MaxExtra /\ late' \in Nat
    BY SearchAssumption DEF IInv, TypeOK, RequestCancel
  <1>2. stage' \in Stages /\ pc' \in {"check", "act"} /\ current' \in StepKeys
        /\ error' \in Errors \cup {None} /\ result' \in Ends \cup {None}
    BY DEF IInv, TypeOK, RequestCancel, PoolInv, Stages, StepKeys, Errors, Ends
  <1>3. cancel' \in BOOLEAN /\ found' \in BOOLEAN /\ usable' \in BOOLEAN
    BY DEF IInv, TypeOK, RequestCancel
  <1>4. task' \in [Tasks -> Statuses] /\ batch' \subseteq Tasks
    BY DEF IInv, TypeOK, RequestCancel, Statuses
  <1>5. value' \in [Tasks -> Metadata \cup {None}] /\ entry' \in Metadata \cup {None}
    BY DEF IInv, TypeOK, RequestCancel
  <1>6. progress' \in [StepKeys -> StepStatus]
    BY DEF IInv, TypeOK, RequestCancel, StepKeys, StepStatus
  <1>7. TypeOK'
    BY <1>1, <1>2, <1>3, <1>4, <1>5, <1>6, SearchAssumption DEF TypeOK
  <1>8. PoolInv' /\ NoCandidateLost'
    BY <1>4, SearchAssumption DEF IInv, TypeOK, PoolInv, NoCandidateLost, Unfinished, Inspecting,
       RequestCancel
  <1>9. OneAnswerPerKey'
    BY DEF IInv, TypeOK, OneAnswerPerKey, RequestCancel
  <1>10. (result' = None) <=> (stage' # "returned")
    BY SearchAssumption DEF IInv, TypeOK, PoolInv, RequestCancel
  <1> QED BY <1>1, <1>7, <1>8, <1>9, <1>10, SearchAssumption DEF IInv

\* Every step of the run, its workers and its caller.
LEMMA NextKeeps == ASSUME IInv, [Next]_vars PROVE IInv'
  <1>1. CASE Check BY <1>1, CheckKeeps
  <1>2. CASE BuildQueries BY <1>2, BuildQueriesKeeps
  <1>3. CASE \E failed, hits \in BOOLEAN : Query(failed, hits) BY <1>3, QueryKeeps
  <1>4. CASE \E n \in 0..MaxTasks : Filter(n) \/ CloseLineage(n) \/ RescueDone(n)
    <2>1. PICK n \in 0..MaxTasks : Filter(n) \/ CloseLineage(n) \/ RescueDone(n) BY <1>4
    <2>2. CASE Filter(n) BY <2>2, FilterKeeps
    <2>3. CASE CloseLineage(n) BY <2>3, CloseLineageKeeps
    <2>4. CASE RescueDone(n) BY <2>4, RescueDoneKeeps
    <2> QED BY <2>1, <2>2, <2>3, <2>4
  <1>5. CASE Submit BY <1>5, SubmitKeeps
  <1>6. CASE Wait BY <1>6, WaitKeeps
  <1>7. CASE TakeReads BY <1>7, TakeReadsKeeps
  <1>8. CASE \E i \in Tasks : TakeInspection(i) BY <1>8, TakeInspectionKeeps
  <1>9. CASE Join BY <1>9, JoinKeeps
  <1>10. CASE CloseInspect BY <1>10, CloseInspectKeeps
  <1>11. CASE ExpandOne BY <1>11, ExpandOneKeeps
  <1>12. CASE ExpandDone BY <1>12, ExpandDoneKeeps
  <1>13. CASE RescueOne BY <1>13, RescueOneKeeps
  <1>14. CASE CloseHeaders BY <1>14, CloseHeadersKeeps
  <1>15. CASE Rank BY <1>15, RankKeeps
  <1>16. CASE \E i \in Tasks : Worker(i)
    <2>1. PICK i \in Tasks : Worker(i) BY <1>16
    <2>2. CASE StartTask(i) BY <2>2, StartTaskKeeps
    <2>3. CASE Read(i) BY <2>3, ReadKeeps
    <2>4. CASE Inspect(i) BY <2>4, InspectKeeps
    <2>5. CASE Lookup(i) BY <2>5, LookupKeeps
    <2>6. CASE Publish(i) BY <2>6, PublishKeeps
    <2> QED BY <2>1, <2>2, <2>3, <2>4, <2>5, <2>6 DEF Worker
  <1>17. CASE RequestCancel BY <1>17, RequestCancelKeeps
  <1>18. CASE UNCHANGED vars
    BY <1>18 DEF IInv, TypeOK, PoolInv, NoCandidateLost, OneAnswerPerKey
  <1> QED BY <1>1, <1>2, <1>3, <1>4, <1>5, <1>6, <1>7, <1>8, <1>9, <1>10, <1>11, <1>12, <1>13,
             <1>14, <1>15, <1>16, <1>17, <1>18 DEF Next, Step, Main

\* The inductive invariant holds throughout a run.
LEMMA Inductive == Spec => []IInv
  <1>1. Init => IInv BY InitInv
  <1>2. IInv /\ [Next]_vars => IInv' BY NextKeeps
  <1> QED BY <1>1, <1>2, PTL DEF Spec

\* Every variable of run_workflow keeps its type.
THEOREM TypeCorrect == Spec => []TypeOK
  <1>1. IInv => TypeOK BY DEF IInv
  <1> QED BY <1>1, Inductive, PTL

\* However run_workflow ends - recommendations, an error, a cancellation - no inspection
\* is queued or running any more: the with block of _evaluate joined them.
THEOREM NothingOutlivesTheRun == Spec => []InspectionsEndWithTheRun
  <1>1. IInv => InspectionsEndWithTheRun
    BY DEF IInv, PoolInv, InspectionsEndWithTheRun, Inspecting
  <1> QED BY <1>1, Inductive, PTL

\* Whatever the order in which the workers of _evaluate end, the run goes on only with
\* every shortlisted candidate stored.
THEOREM ShortlistIsComplete == Spec => []NoCandidateLost
  <1>1. IInv => NoCandidateLost BY DEF IInv
  <1> QED BY <1>1, Inductive, PTL

\* RunCache.get_or_compute: concurrent misses of one key agree on the first answer stored.
THEOREM CacheAgrees == Spec => []OneAnswerPerKey
  <1>1. IInv => OneAnswerPerKey BY DEF IInv
  <1> QED BY <1>1, Inductive, PTL

\* _search: an empty result means that at least one query was answered.
THEOREM EmptyMeansAnswered == Spec => []UnreachableHubIsReported
  <1>1. IInv => UnreachableHubIsReported BY DEF IInv, UnreachableHubIsReported
  <1> QED BY <1>1, Inductive, PTL

\* Every way run_workflow ends is clean and says what happened.
THEOREM EndsWell == Spec => []RunEndsWell
  <1>1. InspectionsEndWithTheRun /\ UnreachableHubIsReported => RunEndsWell
    BY DEF RunEndsWell
  <1> QED BY <1>1, NothingOutlivesTheRun, EmptyMeansAnswered, PTL

\* The workers of _evaluate and RunCache lose nothing and agree.
THEOREM SharedWorkIsWhole == Spec => []WorkIsShared
  <1>1. NoCandidateLost /\ OneAnswerPerKey => WorkIsShared
    BY DEF WorkIsShared
  <1> QED BY <1>1, ShortlistIsComplete, CacheAgrees, PTL

-----------------------------------------------------------------------------
(* The screen.                                                             *)

\* A posted result is the one of the run on screen until the event loop takes it,
\* and results on screen are those of a run nobody cancelled.
ScreenInv ==
    /\ screen \in {"searching", "results", "error", "cancelled", "crashed", "away"}
    /\ closing \in BOOLEAN
    /\ inbox # None => inbox = result /\ screen \in {"searching", "away"}
    /\ screen = "away" <=> closing
    /\ ShownResultsAreWanted

AllInv == IInv /\ ScreenInv

USE DEF Tasks, vars, poolVars, workerVars, searchVars, endVars, progressVars

\* A run that returned takes no step any more that its screen could see.
LEMMA ReturnedStays ==
    ASSUME IInv, Step, result # None PROVE cancel' = cancel /\ result' = result
  <1>1. stage = "returned" /\ PoolInv
    BY DEF IInv
  <1>2. ~Main
    BY <1>1 DEF Main, Check, BuildQueries, Query, Filter, CloseLineage, RescueDone, Submit, Wait,
       TakeReads, TakeInspection, Join, CloseInspect, ExpandOne, ExpandDone, RescueOne,
       CloseHeaders, Rank, InPool, PoolEmpty
  <1>3. PICK i \in Tasks : Worker(i)
    BY <1>2 DEF Step
  <1> QED BY <1>3 DEF Worker, StartTask, Read, Inspect, Lookup, Publish, Move

\* A step of the run does not touch the caller's flag.
LEMMA StepIsNoCancel == ASSUME Step PROVE cancel' = cancel
  <1>1. CASE Main
    BY <1>1 DEF Main, Check, BuildQueries, Query, Filter, CloseLineage, RescueDone, Submit, Wait,
       TakeReads, TakeInspection, Join, CloseInspect, ExpandOne, ExpandDone, RescueOne,
       CloseHeaders, Rank, Raise, Finish
  <1>2. CASE \E i \in Tasks : Worker(i)
    BY <1>2 DEF Worker, StartTask, Read, Inspect, Lookup, Publish, Move
  <1> QED BY <1>1, <1>2 DEF Step

\* The screen opens on the first state of a run.
LEMMA ScreenInitInv == ASSUME ScreenInit PROVE AllInv
  <1>1. IInv
    BY InitInv DEF ScreenInit
  <1>2. ScreenInv
    BY DEF ScreenInit, ScreenInv, ShownResultsAreWanted
  <1> QED BY <1>1, <1>2 DEF AllInv

\* A new run of the same screen begins with the invariant.
LEMMA RunBeginsAgain == (Init => IInv)'
  <1>1. Init => IInv
    BY InitInv
  <1> QED BY <1>1, PTL

\* The run under the screen keeps its invariant: the screen only sets the flag, reads
\* the result and starts a new run.
LEMMA RunKeeps == ASSUME IInv, [ScreenNext]_allVars PROVE IInv'
  <1>1. CASE RunStep
    BY <1>1, NextKeeps DEF RunStep, Next
  <1>2. CASE Post \/ Handle \/ Leave \/ UNCHANGED allVars
    <2>1. UNCHANGED vars
      BY <1>2 DEF Post, Handle, Leave, allVars
    <2> QED BY <2>1, NextKeeps
  <1>3. CASE ActionCancel
    <2>1. UNCHANGED runVars /\ cancel' = TRUE
      BY <1>3 DEF ActionCancel
    <2>2. CASE cancel = TRUE
      <3>1. UNCHANGED vars
        BY <2>1, <2>2 DEF runVars
      <3> QED BY <3>1, NextKeeps
    <2>3. CASE ~cancel
      <3>1. RequestCancel
        BY <2>1, <2>3 DEF RequestCancel, runVars
      <3> QED BY <3>1, RequestCancelKeeps
    <2> QED BY <2>2, <2>3 DEF IInv, TypeOK
  <1>4. CASE Retry
    <2>1. Rerun
      BY <1>4 DEF Retry
    <2>2. Init'
      BY <2>1 DEF Rerun, Init, NoTasks, NoValues, FirstProgress
    <2> QED BY <2>2, RunBeginsAgain
  <1> QED BY <1>1, <1>2, <1>3, <1>4 DEF ScreenNext, EventLoop

\* Every step of the run, of its worker and of the event loop keeps the screen's part.
LEMMA ScreenKeeps ==
    ASSUME SearchAssumption, AllInv, [ScreenNext]_allVars PROVE ScreenInv'
  <1>0. IInv /\ ScreenInv /\ cancel \in BOOLEAN /\ result \in Ends \cup {None}
    BY DEF AllInv, IInv, TypeOK
  <1>1. CASE RunStep
    <2>1. UNCHANGED <<screen, closing, inbox>> /\ Step
      BY <1>1 DEF RunStep, screenVars
    <2>2. result # None => result' = result
      BY <1>0, <2>1, ReturnedStays
    <2>3. cancel' = cancel
      BY <2>1, StepIsNoCancel
    <2>4. (inbox # None => inbox = result /\ screen \in {"searching", "away"})'
      BY <1>0, <2>1, <2>2 DEF ScreenInv
    <2>5. ShownResultsAreWanted'
      BY <1>0, <2>1, <2>2, <2>3, SearchAssumption
         DEF ScreenInv, ShownResultsAreWanted, SearchAssumption, Ends
    <2> QED BY <1>0, <2>1, <2>4, <2>5 DEF ScreenInv
  <1>2. CASE Post
    BY <1>0, <1>2 DEF Post, Unposted, ScreenInv, ShownResultsAreWanted
  <1>3. CASE Handle
    <2>1. inbox' = None /\ UNCHANGED <<vars, closing>> /\ inbox = result /\ inbox # None
          /\ screen \in {"searching", "away"}
      BY <1>0, <1>3 DEF Handle, ScreenInv
    <2>2. CASE closing
      <3>1. screen' = screen
        BY <1>3, <2>2 DEF Handle
      <3> QED BY <1>0, <2>1, <3>1 DEF ScreenInv, ShownResultsAreWanted
    <2>3. CASE ~closing /\ cancel
      <3>1. screen' = "cancelled"
        BY <1>3, <2>3 DEF Handle
      <3> QED BY <1>0, <2>1, <2>3, <3>1 DEF ScreenInv, ShownResultsAreWanted
    <2>4. CASE ~closing /\ ~cancel /\ inbox \in Errors
      <3>1. screen' = "error"
        BY <1>3, <2>4 DEF Handle
      <3> QED BY <1>0, <2>1, <2>4, <3>1 DEF ScreenInv, ShownResultsAreWanted
    <2>5. CASE ~closing /\ ~cancel /\ inbox \notin Errors
      <3>1. screen' = "results"
        BY <1>3, <2>5 DEF Handle
      <3>2. result \in {"recommendations", "no_results"}
        BY <1>0, <2>1, <2>5 DEF Ends
      <3> QED BY <1>0, <2>1, <2>5, <3>1, <3>2 DEF ScreenInv, ShownResultsAreWanted
    <2> QED BY <1>0, <2>2, <2>3, <2>4, <2>5
  <1>4. CASE ActionCancel
    BY <1>0, <1>4 DEF ActionCancel, runVars, ScreenInv, ShownResultsAreWanted
  <1>5. CASE Retry
    BY <1>0, <1>5 DEF Retry, ScreenInv, ShownResultsAreWanted
  <1>6. CASE Leave
    BY <1>0, <1>6 DEF Leave, ScreenInv, ShownResultsAreWanted
  <1>7. CASE UNCHANGED allVars
    BY <1>0, <1>7 DEF allVars, screenVars, ScreenInv, ShownResultsAreWanted
  <1> QED BY <1>1, <1>2, <1>3, <1>4, <1>5, <1>6, <1>7 DEF ScreenNext, EventLoop

\* The invariant of the screen and its run.
LEMMA ScreenInductive == ScreenSpec => []AllInv
  <1>1. ScreenInit => AllInv
    BY ScreenInitInv
  <1>2. AllInv /\ [ScreenNext]_allVars => AllInv'
    BY SearchAssumption, RunKeeps, ScreenKeeps DEF AllInv
  <1> QED BY <1>1, <1>2, PTL DEF ScreenSpec

\* The search screen never shows results of a search the user asked to cancel, nor any
\* that did not end with them, wherever the cancel falls between the last checkpoint of
\* the run, its posted result and the event loop.
THEOREM ResultsAreWanted == ScreenSpec => []ShownResultsAreWanted
  <1>1. AllInv => ShownResultsAreWanted
    BY DEF AllInv, ScreenInv
  <1> QED BY <1>1, ScreenInductive, PTL

\* Every search the screen runs, a retry included, ends with nothing of it going on and
\* says what happened.
THEOREM EverySearchEndsWell == ScreenSpec => []RunEndsWell
  <1>1. AllInv => RunEndsWell
    BY DEF AllInv, IInv, PoolInv, RunEndsWell, InspectionsEndWithTheRun,
       UnreachableHubIsReported, Inspecting
  <1> QED BY <1>1, ScreenInductive, PTL

\* Every search the screen runs loses no candidate and lets its workers agree, also when
\* the user cancels, retries or leaves while they run.
THEOREM EverySearchSharesItsWork == ScreenSpec => []WorkIsShared
  <1>1. AllInv => WorkIsShared
    BY DEF AllInv, IInv, WorkIsShared
  <1> QED BY <1>1, ScreenInductive, PTL
=============================================================================
