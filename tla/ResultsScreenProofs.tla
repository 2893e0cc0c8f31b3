------------------------- MODULE ResultsScreenProofs -------------------------
(***************************************************************************)
(* Results and the paths screen over the record stores, for all records,   *)
(* lists, filters and bounds.                                              *)
(***************************************************************************)
EXTENDS ResultsScreen, FiniteSetTheorems, SequenceTheorems, WellFoundedInduction,
        NaturalsInduction, TLAPS

-----------------------------------------------------------------------------
(* The readers of one set of records agree.                                *)

\* A run that counts as measured is a successful benchmark that matches the plan and
\* says so of the plan's bytes and device.
LEMMA EligibleMeans ==
    ASSUME NEW p, NEW single, NEW R, NEW r \in Eligible(p, single, R)
    PROVE  /\ r \in R /\ r.kind = "benchmark" /\ r.success /\ r.exit0 /\ r.runtime = "llama"
           /\ Matches(p, r) /\ p.sha # None /\ p.sha = r.sha
           /\ r.backend = "cpu" \/ (p.device # None /\ r.device = p.device)
  <1>1. r \in R /\ r.kind = "benchmark" /\ Blockers(p, single, r) = {}
    BY DEF Eligible, Benchmarks
  <1>2. RecordBlockers(r) = {} /\ "bytes" \notin Blockers(p, single, r)
        /\ "match" \notin Blockers(p, single, r) /\ "device" \notin Blockers(p, single, r)
    BY <1>1 DEF Blockers
  <1>3. r.success /\ r.exit0 /\ r.runtime = "llama"
    <2>1. "exit" \notin RecordBlockers(r) /\ "runtime" \notin RecordBlockers(r)
      BY <1>2
    <2> QED BY <2>1 DEF RecordBlockers
  <1>4. p.sha # None /\ p.sha = r.sha
    BY <1>2 DEF Blockers
  <1>5. Matches(p, r)
    BY <1>2 DEF Blockers
  <1>6. r.backend = "cpu" \/ (p.device # None /\ r.device = p.device)
    BY <1>2 DEF Blockers
  <1> QED BY <1>1, <1>3, <1>4, <1>5, <1>6

\* So a failed record among the others is none of them.
LEMMA FailuresDoNotCount ==
    ASSUME NEW p, NEW single, NEW R
    PROVE  Readout(p, single, R) = Readout(p, single, Indexed(R))
  <1>1. Eligible(p, single, R) = Eligible(p, single, Indexed(R))
    <2>1. \A r \in Eligible(p, single, R) : r \in Indexed(R)
      BY EligibleMeans DEF Indexed
    <2>2. \A r \in Eligible(p, single, Indexed(R)) : r \in R
      BY DEF Eligible, Benchmarks, Indexed
    <2> QED BY <2>1, <2>2 DEF Eligible, Benchmarks
  <1>2. History(p, R) = History(p, Indexed(R))
    <2>1. \A r \in History(p, R) : r \in Indexed(R)
      BY DEF History, Benchmarks, Matches, Indexed
    <2>2. \A r \in History(p, Indexed(R)) : r \in R
      BY DEF History, Benchmarks, Indexed
    <2> QED BY <2>1, <2>2 DEF History, Benchmarks
  <1>3. MeasuredRuns(p, single, R) = MeasuredRuns(p, single, Indexed(R))
    BY <1>1 DEF MeasuredRuns
  <1> QED BY <1>2, <1>3 DEF Readout

\* Every record of the stores tells what the readers ask.
LEMMA RecordsTell == \A r \in Records : DOMAIN r = Fields /\ r.kind \in RecordKinds
  BY RecordAssumption DEF RecordAssumption

\* A record an index holds is one of the store's, but for its name.
LEMMA HeldTells ==
    ASSUME RecordAssumption, store \in Seq(Records), NEW seen, NEW r \in Held(seen),
           r.runtime = "llama", Recommended.runtime = "llama", r.file = Recommended.file
    PROVE  r.quant = Recommended.quant
  <1>1. PICK i \in DOMAIN store : r = [store[i] EXCEPT !.at = i]
    BY DEF Held, HeldOf
  <1>2. store[i] \in Records
    BY <1>1, ElementOfSeq
  <1>3. DOMAIN store[i] = Fields
    BY <1>2 DEF RecordAssumption
  <1>4. r.runtime = store[i].runtime /\ r.file = store[i].file /\ r.quant = store[i].quant
    BY <1>1, <1>3 DEF Fields
  <1> QED BY <1>2, <1>4 DEF RecordAssumption

\* A run that counts as measured is a success the other readers find for the plan.
LEMMA MeasuredIsFound ==
    ASSUME RecordAssumption, store \in Seq(Records), NEW seen,
           NEW r \in Eligible(Recommended, Single, Held(seen))
    PROVE  /\ r \in Indexed(Held(seen)) /\ BenchmarkMatches(Recommended, r)
           /\ r \in BenchmarkHistory(Recommended, Held(seen))
  <1> DEFINE p == Recommended
  <1>1. /\ r \in Held(seen) /\ r.kind = "benchmark" /\ r.success /\ r.runtime = "llama"
        /\ Matches(p, r) /\ p.sha # None /\ p.sha = r.sha
        /\ r.backend = "cpu" \/ (p.device # None /\ r.device = p.device)
    BY EligibleMeans
  <1>2. /\ SameMachine(p, r) /\ p.runtime = "llama" /\ p.repo = r.repo /\ p.file = r.file
        /\ r.backend = p.backend
    BY <1>1 DEF Matches, CommonMatches, SameArtifact
  <1>3. r.quant = p.quant
    BY <1>1, <1>2, HeldTells
  <1>4. EvidenceKey(p) = EvidenceKey(r)
    BY <1>1, <1>2, <1>3 DEF EvidenceKey
  <1>5. SameBytes(p, r)
    BY <1>1 DEF SameBytes
  <1>6. SameMachineAndArtifact(p, r)
    BY <1>2, <1>4, <1>5 DEF SameMachineAndArtifact
  <1>7. r \in Indexed(Held(seen)) /\ BenchmarkMatches(p, r)
    BY <1>1, <1>2, <1>6 DEF Indexed, BenchmarkMatches
  <1>8. r \in BenchmarkHistory(p, Held(seen))
    BY <1>1, <1>2, <1>4, <1>6, <1>7 DEF BenchmarkHistory, Benchmarks
  <1> QED BY <1>7, <1>8

LEMMA ReadersAgree ==
    ASSUME RecordAssumption, store \in Seq(Records) PROVE MeasuredIsBacked
  <1> DEFINE R == Held(shown)
             runs == MeasuredRuns(Recommended, Single, R)
  <1>1. \A r \in runs : r \in Eligible(Recommended, Single, R)
    BY DEF MeasuredRuns
  <1>2. \A r \in runs : /\ r \in Indexed(R) /\ BenchmarkMatches(Recommended, r)
                        /\ r \in BenchmarkHistory(Recommended, R)
    BY <1>1, MeasuredIsFound
  <1>3. runs # {} => Benchmarked(Recommended, R)
    BY <1>2 DEF Benchmarked
  <1>4. runs \subseteq BenchmarkHistory(Recommended, R)
    BY <1>2
  <1> QED BY <1>3, <1>4 DEF MeasuredIsBacked

-----------------------------------------------------------------------------
(* The comparison.                                                         *)

\* A set of natural numbers below a bound has a greatest one.
LEMMA Greatest ==
    ASSUME NEW n \in Nat, NEW S, S \subseteq 0..n, S # {}
    PROVE  \E m \in S : \A k \in S : k =< m
  <1> DEFINE T == {i \in Nat : \E k \in S : i = n - k}
  <1>1. T \subseteq Nat /\ T # {}
    <2>1. PICK k \in S : TRUE
      OBVIOUS
    <2>2. n - k \in Nat
      BY <2>1
    <2> QED BY <2>2
  <1>2. PICK t \in T : \A u \in T : <<u, t>> \notin OpToRel(<, Nat)
    BY <1>1, NatLessThanWellFounded, WFMin
  <1>3. PICK m \in S : t = n - m
    BY <1>2
  <1>4. \A k \in S : k =< m
    <2> SUFFICES ASSUME NEW k \in S, k > m PROVE FALSE
      BY <1>3
    <2>1. n - k \in T
      OBVIOUS
    <2>2. n - k < t
      BY <1>3
    <2> QED BY <1>2, <2>1, <2>2 DEF OpToRel
  <1> QED BY <1>3, <1>4

\* The records of one runtime, for one setting, have one runtime.
LEMMA SettingTells ==
    ASSUME NEW r, NEW s, Setting(r) = Setting(s)
    PROVE  r.runtime = s.runtime
  <1>1. Setting(r)[8] = r.runtime /\ Setting(s)[8] = s.runtime
    BY DEF Setting
  <1> QED BY <1>1

\* Of every setting that ever succeeded a record is shown.
LEMMA SettingsStand ==
    ASSUME NEW R, NEW n \in Nat, \A r \in R : r.at \in 0..n, NEW r \in R, r.success
    PROVE  \E s \in LastRecords(R) : Setting(s) = Setting(r)
  <1> DEFINE good == {s \in R : s.success}
             kept == Preferred(good)
  <1>1. PICK k \in kept : Setting(k) = Setting(r)
    <2>1. CASE r \in kept
      BY <2>1
    <2>2. CASE r \notin kept
      <3>1. PICK s \in good : Setting(s) = Setting(r) /\ s.method = Methodologies[r.runtime][1]
        BY <2>2 DEF Preferred
      <3>2. s.runtime = r.runtime
        BY <3>1, SettingTells
      <3>3. s \in kept
        BY <3>1, <3>2 DEF Preferred
      <3> QED BY <3>1, <3>3
    <2> QED BY <2>1, <2>2
  <1> DEFINE same == {s \in kept : Configuration(s) = Configuration(k)}
             places == {s.at : s \in same}
  <1>2. kept \subseteq R
    BY DEF Preferred
  <1>3. places \subseteq 0..n /\ places # {}
    BY <1>1, <1>2
  <1>4. PICK m \in places : \A i \in places : i =< m
    <2> HIDE DEF places
    <2> QED BY <1>3, Greatest
  <1>5. PICK s \in same : s.at = m
    OBVIOUS
  <1>6. \A t \in kept : Configuration(t) = Configuration(s) => t.at =< s.at
    BY <1>4, <1>5
  <1>7. s \in LastRecords(R)
    BY <1>5, <1>6 DEF LastRecords
  <1>8. Setting(s) = Setting(k)
    <2>1. Configuration(s)[1] = Setting(s) /\ Configuration(k)[1] = Setting(k)
      BY DEF Configuration
    <2> QED BY <1>5, <2>1
  <1> QED BY <1>1, <1>7, <1>8

-----------------------------------------------------------------------------
(* What the readers have seen.                                             *)

\* The newest record of a kind among the first n is one of them, and none of that
\* kind comes after it.
LEMMA NewestStands ==
    ASSUME NEW records, NEW n \in Nat, NEW k
    PROVE  /\ NewestOf(records, n, k) \in 0..n
           /\ \/ NewestOf(records, n, k) = 0
              \/ records[NewestOf(records, n, k)].kind = k
           /\ \A j \in (NewestOf(records, n, k) + 1)..n : records[j].kind # k
  <1> DEFINE places == {0} \cup {i \in 1..n : records[i].kind = k}
             Fit(i) == /\ i = 0 \/ records[i].kind = k
                       /\ \A j \in (i + 1)..n : records[j].kind # k
  <1>1. places \subseteq 0..n /\ places # {}
    OBVIOUS
  <1>2. PICK m \in places : \A i \in places : i =< m
    <2> HIDE DEF places
    <2> QED BY <1>1, Greatest
  <1>3. m \in 0..n /\ Fit(m)
    BY <1>2
  <1>4. (CHOOSE i \in 0..n : Fit(i)) \in 0..n /\ Fit(CHOOSE i \in 0..n : Fit(i))
    <2> HIDE DEF Fit
    <2> QED BY <1>3
  <1> QED BY <1>4 DEF NewestOf

\* Later it is the same record or a later one.
LEMMA NewestGrows ==
    ASSUME NEW records, NEW m \in Nat, NEW n \in Nat, m =< n, NEW k
    PROVE  NewestOf(records, m, k) =< NewestOf(records, n, k)
  <1> DEFINE a == NewestOf(records, m, k)
             b == NewestOf(records, n, k)
  <1>1. /\ a \in 0..m /\ (a = 0 \/ records[a].kind = k)
        /\ b \in 0..n /\ \A j \in (b + 1)..n : records[j].kind # k
    BY NewestStands
  <1> HIDE DEF a, b
  <1>2. a =< b
    BY <1>1
  <1> QED BY <1>2 DEF a, b

\* Records that are appended do not change what came before them.
LEMMA NewestKeeps ==
    ASSUME NEW records, NEW more, NEW n \in Nat, NEW k,
           \A i \in 1..n : records[i].kind = more[i].kind
    PROVE  NewestOf(records, n, k) = NewestOf(more, n, k)
  <1> DEFINE a == NewestOf(records, n, k)
             b == NewestOf(more, n, k)
  <1>1. /\ a \in 0..n /\ (a = 0 \/ records[a].kind = k)
        /\ \A j \in (a + 1)..n : records[j].kind # k
        /\ b \in 0..n /\ (b = 0 \/ more[b].kind = k)
        /\ \A j \in (b + 1)..n : more[j].kind # k
    BY NewestStands
  <1> HIDE DEF a, b
  <1>2. ~(a < b) /\ ~(b < a)
    BY <1>1
  <1>3. a = b
    BY <1>1, <1>2
  <1> QED BY <1>3 DEF a, b

\* What an index holds is not changed by records that are appended after it looked.
LEMMA HeldKeeps ==
    ASSUME NEW records \in Seq(Records), NEW more \in Seq(Records), RecordAssumption,
           NEW seen \in Seen, \A k \in RecordKinds : seen[k] =< Len(records),
           Len(records) =< Len(more), \A i \in 1..Len(records) : more[i] = records[i]
    PROVE  HeldOf(more, seen) = HeldOf(records, seen)
  <1>1. \A i \in 1..Len(more) : more[i].kind \in RecordKinds
    BY ElementOfSeq DEF RecordAssumption
  <1>2. \A i \in 1..Len(more) : i =< seen[more[i].kind] => i =< Len(records)
    BY <1>1 DEF Seen
  <1>3. {j \in DOMAIN more : j =< seen[more[j].kind]}
          = {j \in DOMAIN records : j =< seen[records[j].kind]}
    BY <1>2
  <1>4. \A i \in {j \in DOMAIN records : j =< seen[records[j].kind]} : more[i] = records[i]
    OBVIOUS
  <1> QED BY <1>3, <1>4 DEF HeldOf

-----------------------------------------------------------------------------
(* The state.                                                              *)

Screens == {"paths", "candidates", "compare", "launch", "quality"}
Message == [kind : {"failed"}] \cup [kind : {"evidence"}, seen : Seen]
             \cup [kind : {"loaded"}, list : Lists, seen : Seen]

StoresOK == store \in Seq(Records) /\ stack \in Seq(Screens)

\* An index never claims to have seen a record that is not there.
Within(seen) == \A k \in RecordKinds : seen[k] =< Len(store)

PathsInv ==
    /\ evidence \in Seen /\ Within(evidence)
    /\ jobs \in Seq({"load", "recheck", "evidence"})
    /\ job # None => job \in Job /\ job.since =< Len(store)
    /\ inbox \in Seq(Message)
    /\ \A i \in DOMAIN inbox : inbox[i].kind # "failed" => Within(inbox[i].seen)

ReadsOK ==
    /\ reads \in Nat /\ due \in 0..Len(store)
    /\ read # None => read \in 0..Len(store)
    /\ arrived \in Seq(Seen)
    /\ shown # None => shown \in Seen

\* What is shown last, once no read waits, was begun after Results was shown again.
Covers(seen) == \A k \in RecordKinds : SeenAt(due)[k] =< seen[k]

FreshInv ==
    reads = 0 =>
        IF read # None THEN due =< read
        ELSE IF arrived # <<>> THEN Covers(arrived[Len(arrived)])
        ELSE shown # None /\ Covers(shown)

ComparedInv ==
    compared # None => \A r \in compared : r.kind = "benchmark" /\ r.at \in 0..Len(store)

ReadsInv == ReadsOK /\ FreshInv /\ ComparedInv

IInv == StoresOK /\ PathsInv /\ ReadsInv

\* The stores only grow.
Grows ==
    /\ Len(store) =< Len(store')
    /\ \A i \in 1..Len(store) : store'[i] = store[i]

-----------------------------------------------------------------------------
(* Steps of the stores.                                                    *)

LEMMA SavedGrows ==
    ASSUME StoresOK, NEW r \in Records, store' = Append(store, r)
    PROVE  store' \in Seq(Records) /\ Grows
  BY DEF StoresOK, Grows

LEMMA FrontStands ==
    ASSUME StoresOK, stack # <<>>
    PROVE  /\ Front(stack) \in Seq(Screens)
           /\ \A i \in DOMAIN Front(stack) : i \in DOMAIN stack /\ Front(stack)[i] = stack[i]
  <1>1. Front(stack) = SubSeq(stack, 1, Len(stack) - 1)
    BY DEF Front
  <1>2. Len(stack) \in Nat \ {0}
    BY DEF StoresOK
  <1> QED BY <1>1, <1>2 DEF StoresOK

\* Every action leaves the stores alone or appends a record.
LEMMA StoresStep ==
    ASSUME StoresOK, [Next]_vars PROVE StoresOK' /\ Grows
  <1>1. store' = store \/ \E r \in Records : store' = Append(store, r)
    <2>1. Shapes \subseteq Records
      BY DEF Records
    <2>2. CASE UNCHANGED vars
      BY <2>2 DEF vars, stores
    <2>3. CASE User
      <3>1. CASE PathsUser
        BY <2>1, <3>1 DEF PathsUser, Choose, SetFilter, Recheck, QualityStored, stores
      <3> QED BY <2>3, <3>1 DEF User, LaunchFromResults, LaunchFromPaths, EvaluateFromPaths,
                 OpenPaths, OpenCandidates, OpenCompare, LeavePaths, LeaveLaunch, LeaveCompare,
                 LeaveCandidates
    <2>4. CASE PathsWorker \/ PathsMessages
      BY <2>4 DEF PathsWorker, Take, LoadFails, LoadPlans, PostLoaded, PostEvidence,
                  PathsMessages, HandleLoaded, HandleFailed, HandleEvidence, stores
    <2>5. CASE ResultsWorker \/ ShowEvidence \/ ShowComparison
      BY <2>5 DEF ResultsWorker, BeginRead, PostRead, ShowEvidence, ShowComparison, stores
    <2>6. CASE \E r \in Shapes : Save(r)
      BY <2>1, <2>6 DEF Save
    <2> QED BY <2>2, <2>3, <2>4, <2>5, <2>6 DEF Next
  <1>2. store' \in Seq(Records) /\ Grows
    <2>1. CASE store' = store
      BY <2>1 DEF StoresOK, Grows
    <2> QED BY <1>1, <2>1, SavedGrows
  <1>3. stack' \in Seq(Screens)
    <2>1. \/ stack' = stack \/ \E x \in Screens : stack' = Append(stack, x)
          \/ stack # <<>> /\ stack' = Front(stack)
      <3>1. CASE UNCHANGED vars
        BY <3>1 DEF vars, stores
      <3>2. CASE PathsUser
        BY <3>2 DEF PathsUser, Choose, SetFilter, Recheck, QualityStored, stores, On
      <3>3. CASE LaunchFromResults \/ LaunchFromPaths \/ EvaluateFromPaths \/ OpenPaths
                   \/ OpenCandidates \/ OpenCompare
        BY <3>3 DEF LaunchFromResults, LaunchFromPaths, EvaluateFromPaths, OpenPaths,
                    OpenCandidates, OpenCompare, Push, Screens
      <3>4. CASE LeavePaths \/ LeaveLaunch \/ LeaveCompare \/ LeaveCandidates
        BY <3>4 DEF LeavePaths, LeaveLaunch, LeaveCompare, LeaveCandidates, On
      <3>5. CASE PathsWorker \/ PathsMessages
        BY <3>5 DEF PathsWorker, Take, LoadFails, LoadPlans, PostLoaded, PostEvidence,
                    PathsMessages, HandleLoaded, HandleFailed, HandleEvidence, stores
      <3>6. CASE ResultsWorker \/ ShowEvidence \/ ShowComparison
        BY <3>6 DEF ResultsWorker, BeginRead, PostRead, ShowEvidence, ShowComparison, stores
      <3>7. CASE \E r \in Shapes : Save(r)
        BY <3>7 DEF Save
      <3> QED BY <3>1, <3>2, <3>3, <3>4, <3>5, <3>6, <3>7 DEF Next, User
    <2>2. CASE stack # <<>> /\ stack' = Front(stack)
      BY <2>2, FrontStands
    <2> QED BY <2>1, <2>2 DEF StoresOK
  <1> QED BY <1>2, <1>3 DEF StoresOK

\* What a reader begun at "since" may have seen: no less than there was, no more than
\* there is.
LEMMA SeenTells ==
    ASSUME StoresOK, NEW since \in 0..Len(store), NEW seen \in SeenSince(since)
    PROVE  /\ seen \in Seen /\ Within(seen)
           /\ \A k \in RecordKinds : SeenAt(since)[k] =< seen[k]
  <1>0. Len(store) \in Nat
    BY DEF StoresOK
  <1>1. PICK t \in {u \in (since..Len(store)) \X (since..Len(store)) \X (since..Len(store)) :
                      u[1] =< u[2] /\ u[2] =< u[3]} :
           seen = [experiment |-> SeenAt(t[1])["experiment"],
                   benchmark |-> SeenAt(t[2])["benchmark"],
                   quality |-> SeenAt(t[3])["quality"]]
    BY DEF SeenSince
  <1>2. \A k \in RecordKinds : \E n \in since..Len(store) : seen[k] = NewestOf(store, n, k)
    BY <1>1 DEF SeenAt, RecordKinds
  <1>3. \A k \in RecordKinds :
           /\ seen[k] \in 0..Len(store)
           /\ NewestOf(store, since, k) =< seen[k]
    <2> SUFFICES ASSUME NEW k \in RecordKinds
                 PROVE  seen[k] \in 0..Len(store) /\ NewestOf(store, since, k) =< seen[k]
      OBVIOUS
    <2>1. PICK n \in since..Len(store) : seen[k] = NewestOf(store, n, k)
      BY <1>2
    <2>2. n \in Nat /\ since \in Nat /\ since =< n /\ n =< Len(store)
      BY <1>0
    <2>3. NewestOf(store, n, k) \in 0..n
      BY <2>2, NewestStands
    <2> HIDE DEF NewestOf
    <2>4. seen[k] \in 0..Len(store)
      BY <1>0, <2>1, <2>2, <2>3
    <2> QED BY <2>1, <2>2, <2>4, NewestGrows
  <1>4. DOMAIN seen = RecordKinds /\ seen = [k \in RecordKinds |-> seen[k]]
    BY <1>1 DEF RecordKinds
  <1>5. seen \in Seen
    BY <1>3, <1>4 DEF Seen
  <1>6. \A k \in RecordKinds : SeenAt(since)[k] = NewestOf(store, since, k)
    BY DEF SeenAt
  <1> QED BY <1>0, <1>3, <1>5, <1>6 DEF Within

LEMMA NothingSeen == ASSUME StoresOK PROVE Nothing \in Seen /\ Within(Nothing)
  <1>1. Nothing = [k \in RecordKinds |-> 0]
    BY DEF Nothing, RecordKinds
  <1> QED BY <1>1 DEF Seen, Within, StoresOK

-----------------------------------------------------------------------------
(* Steps of the paths screen.                                              *)

\* Steps that leave the screen alone: the stores may have grown.
LEMMA PathsStand ==
    ASSUME StoresOK, StoresOK', Grows, PathsInv, UNCHANGED <<evidence, job, inbox>>,
           jobs' \in Seq({"load", "recheck", "evidence"})
    PROVE  PathsInv'
  <1>1. Len(store) \in Nat /\ Len(store') \in Nat /\ Len(store) =< Len(store')
    BY DEF StoresOK, Grows
  <1>2. evidence' \in Seen /\ Within(evidence)'
    BY <1>1 DEF PathsInv, Within, Seen
  <1>3. job' # None => job' \in Job /\ job'.since =< Len(store')
    BY <1>1 DEF PathsInv, Job
  <1>4. \A i \in DOMAIN inbox' : inbox'[i].kind # "failed" => Within(inbox[i].seen)'
    <2> SUFFICES ASSUME NEW i \in DOMAIN inbox, inbox[i].kind # "failed"
                 PROVE  Within(inbox[i].seen)'
      OBVIOUS
    <2>1. inbox[i] \in Message /\ Within(inbox[i].seen)
      BY ElementOfSeq DEF PathsInv
    <2>2. inbox[i].seen \in Seen
      BY <2>1 DEF Message
    <2> QED BY <1>1, <2>1, <2>2 DEF Within, Seen
  <1> QED BY <1>2, <1>3, <1>4 DEF PathsInv

LEMMA BlankStands ==
    ASSUME StoresOK', NEW s \in Seq({"load", "recheck", "evidence"}), Blank(s)
    PROVE  PathsInv'
  <1>1. Nothing \in Seen /\ \A k \in RecordKinds : Nothing[k] = 0
    BY DEF Nothing, Seen, RecordKinds
  <1>2. Within(Nothing)'
    BY <1>1 DEF Within, StoresOK
  <1>3. inbox' \in Seq(Message) /\ DOMAIN inbox' = {}
    BY DEF Blank
  <1> QED BY <1>1, <1>2, <1>3 DEF PathsInv, Blank, Within

\* Choosing, filtering and showing what was seen.
LEMMA EvidenceStands ==
    ASSUME StoresOK, PathsInv, UNCHANGED stores, UNCHANGED jobs, UNCHANGED job,
           evidence' \in Seen, \A k \in RecordKinds : evidence'[k] =< Len(store),
           inbox' = inbox \/ (inbox # <<>> /\ inbox' = Tail(inbox))
    PROVE  PathsInv'
  <1>1. /\ inbox' \in Seq(Message)
        /\ \A i \in DOMAIN inbox' : \E j \in DOMAIN inbox : inbox'[i] = inbox[j]
    BY DEF PathsInv
  <1>2. \A i \in DOMAIN inbox' : inbox'[i].kind # "failed" => Within(inbox'[i].seen)
    BY <1>1 DEF PathsInv
  <1> QED BY <1>1, <1>2 DEF PathsInv, Within, stores

\* A message that is posted.
LEMMA PostStands ==
    ASSUME StoresOK, PathsInv, UNCHANGED stores, UNCHANGED jobs, UNCHANGED evidence,
           NEW m \in Message, m.kind # "failed" => Within(m.seen), Post(m)
    PROVE  PathsInv'
  <1>1. inbox' = Append(inbox, m) /\ job' = None
    BY DEF Post
  <1>2. inbox' \in Seq(Message)
    BY <1>1 DEF PathsInv
  <1>3. \A i \in DOMAIN inbox' : inbox'[i].kind # "failed" => Within(inbox'[i].seen)
    BY <1>1 DEF PathsInv
  <1> QED BY <1>1, <1>2, <1>3 DEF PathsInv, Within, stores

LEMMA WorkerStands ==
    ASSUME StoresOK, PathsInv, PathsWorker PROVE PathsInv'
  <1>0. Len(store) \in Nat
    BY DEF StoresOK
  <1>1. CASE Take
    <2>1. /\ job' = [kind |-> Head(jobs), list |-> None, since |-> Len(store)]
          /\ jobs' = Tail(jobs) /\ UNCHANGED <<stores, evidence, inbox>>
          /\ jobs # <<>>
      BY <1>1 DEF Take, view
    <2>2. Head(jobs) \in {"load", "recheck", "evidence"}
          /\ Tail(jobs) \in Seq({"load", "recheck", "evidence"})
      BY <2>1 DEF PathsInv
    <2>3. job' \in Job /\ job'.since =< Len(store)
      BY <1>0, <2>1, <2>2 DEF Job
    <2> QED BY <2>1, <2>2, <2>3 DEF PathsInv, Within, stores
  <1>2. CASE LoadFails
    BY <1>2, PostStands DEF LoadFails, Message, view
  <1>3. CASE \E l \in Lists : LoadPlans(l)
    <2>1. PICK l \in Lists : LoadPlans(l)
      BY <1>3
    <2>2. job \in Job
      BY <2>1 DEF LoadPlans, PathsInv
    <2>3. job' = [kind |-> job.kind, list |-> l, since |-> Len(store)]
      BY <2>1, <2>2 DEF LoadPlans, Job
    <2>4. job' \in Job /\ job'.since =< Len(store)
      BY <1>0, <2>2, <2>3 DEF Job
    <2> QED BY <2>1, <2>4 DEF LoadPlans, PathsInv, Within, stores, view
  <1>4. CASE PostLoaded
    <2>1. job \in Job /\ job.since \in 0..Len(store) /\ job.list \in Lists
      BY <1>0, <1>4 DEF PostLoaded, PathsInv, Job
    <2>2. PICK seen \in IF job.list = <<>> THEN {Nothing} ELSE SeenSince(job.since) :
             Post([kind |-> "loaded", list |-> job.list, seen |-> seen])
      BY <1>4 DEF PostLoaded
    <2>3. seen \in Seen /\ Within(seen)
      BY <2>1, <2>2, NothingSeen, SeenTells
    <2>4. [kind |-> "loaded", list |-> job.list, seen |-> seen] \in Message
      BY <2>1, <2>3 DEF Message
    <2> QED BY <1>4, <2>2, <2>3, <2>4, PostStands DEF PostLoaded, view
  <1>5. CASE PostEvidence
    <2>1. job \in Job /\ job.since \in 0..Len(store)
      BY <1>0, <1>5 DEF PostEvidence, PathsInv, Job
    <2>2. PICK seen \in SeenSince(job.since) : Post([kind |-> "evidence", seen |-> seen])
      BY <1>5 DEF PostEvidence
    <2>3. seen \in Seen /\ Within(seen)
      BY <2>1, <2>2, SeenTells
    <2>4. [kind |-> "evidence", seen |-> seen] \in Message
      BY <2>3 DEF Message
    <2> QED BY <1>5, <2>2, <2>3, <2>4, PostStands DEF PostEvidence, view
  <1> QED BY <1>1, <1>2, <1>3, <1>4, <1>5 DEF PathsWorker

LEMMA MessagesStand ==
    ASSUME StoresOK, PathsInv, PathsMessages PROVE PathsInv'
  <1>1. inbox # <<>> /\ inbox' = Tail(inbox) /\ UNCHANGED <<stores, jobs, job>>
    BY DEF PathsMessages, HandleLoaded, HandleFailed, HandleEvidence, Handling
  <1>2. Head(inbox) \in Message /\ (Head(inbox).kind # "failed" => Within(Head(inbox).seen))
    BY <1>1 DEF PathsInv
  <1>3. evidence' = evidence \/ (Head(inbox).kind # "failed" /\ evidence' = Head(inbox).seen)
    BY DEF PathsMessages, HandleLoaded, HandleFailed, HandleEvidence, Handling, Render
  <1>4. evidence' \in Seen /\ \A k \in RecordKinds : evidence'[k] =< Len(store)
    <2>1. CASE evidence' = evidence
      BY <2>1 DEF PathsInv, Within
    <2>2. CASE Head(inbox).kind # "failed" /\ evidence' = Head(inbox).seen
      BY <1>2, <2>2 DEF Message, Within
    <2> QED BY <1>3, <2>1, <2>2
  <1> QED BY <1>1, <1>4, EvidenceStands

LEMMA PathsStep ==
    ASSUME StoresOK, PathsInv, [Next]_vars PROVE PathsInv'
  <1>0. StoresOK' /\ Grows
    BY StoresStep
  <1>1. jobs \in Seq({"load", "recheck", "evidence"})
    BY DEF PathsInv
  <1>2. CASE UNCHANGED pathsVars
    BY <1>0, <1>1, <1>2, PathsStand DEF pathsVars, view, worker
  <1>3. CASE \E s \in {<<>>, <<"load">>} : Blank(s)
    <2>1. <<>> \in Seq({"load", "recheck", "evidence"})
      OBVIOUS
    <2>2. <<"load">> \in Seq({"load", "recheck", "evidence"})
      OBVIOUS
    <2>3. CASE Blank(<<>>)
      BY <1>0, <2>1, <2>3, BlankStands
    <2>4. CASE Blank(<<"load">>)
      BY <1>0, <2>2, <2>4, BlankStands
    <2> QED BY <1>3, <2>3, <2>4
  <1>4. CASE PathsWorker
    BY <1>4, WorkerStands
  <1>5. CASE PathsMessages
    BY <1>5, MessagesStand
  <1>6. CASE \E x, f : Choose(x) \/ SetFilter(f)
    BY <1>6, EvidenceStands DEF Choose, SetFilter, Render, worker, PathsInv, Within
  <1>7. CASE Recheck
    <2>1. jobs' \in Seq({"load", "recheck", "evidence"})
      BY <1>1, <1>7 DEF Recheck, Submit
    <2> QED BY <1>0, <1>7, <2>1, PathsStand DEF Recheck
  <1>8. CASE \E r : QualityStored(r)
    <2>1. jobs' \in Seq({"load", "recheck", "evidence"})
      BY <1>1, <1>8 DEF QualityStored
    <2> QED BY <1>0, <1>8, <2>1, PathsStand DEF QualityStored, view
  <1>9. CASE Resumed /\ UNCHANGED <<view, job, inbox>>
    <2>1. jobs' \in Seq({"load", "recheck", "evidence"})
      BY <1>1, <1>9 DEF Resumed
    <2> QED BY <1>0, <1>9, <2>1, PathsStand DEF view
  <1>10. \/ UNCHANGED pathsVars \/ (\E s \in {<<>>, <<"load">>} : Blank(s))
         \/ PathsWorker \/ PathsMessages \/ (\E x, f : Choose(x) \/ SetFilter(f)) \/ Recheck
         \/ (\E r : QualityStored(r)) \/ (Resumed /\ UNCHANGED <<view, job, inbox>>)
    <2>1. CASE UNCHANGED vars
      BY <2>1 DEF vars
    <2>2. CASE PathsUser
      BY <2>2 DEF PathsUser
    <2>3. CASE LaunchFromResults \/ LaunchFromPaths \/ EvaluateFromPaths
               \/ OpenCandidates \/ OpenCompare \/ LeaveCompare \/ LeaveCandidates
      BY <2>3 DEF LaunchFromResults, LaunchFromPaths, EvaluateFromPaths, OpenCandidates,
                  OpenCompare, LeaveCompare, LeaveCandidates
    <2>4. CASE OpenPaths \/ LeavePaths
      BY <2>4 DEF OpenPaths, LeavePaths
    <2>5. CASE LeaveLaunch
      BY <2>5 DEF LeaveLaunch
    <2>6. CASE ResultsWorker \/ ShowEvidence \/ ShowComparison
      BY <2>6 DEF ResultsWorker, BeginRead, PostRead, ShowEvidence, ShowComparison
    <2>7. CASE \E r \in Shapes : Save(r)
      BY <2>7 DEF Save
    <2> QED BY <2>1, <2>2, <2>3, <2>4, <2>5, <2>6, <2>7 DEF Next, User
  <1> QED BY <1>2, <1>3, <1>4, <1>5, <1>6, <1>7, <1>8, <1>9, <1>10

-----------------------------------------------------------------------------
(* Steps of Results.                                                       *)

\* What was seen of the first records is the same after more were saved.
LEMMA DueKeeps ==
    ASSUME StoresOK, Grows, ReadsOK, due' = due PROVE SeenAt(due)' = SeenAt(due)
  <1>1. due \in Nat /\ \A i \in 1..due : store[i] = store'[i]
    BY DEF ReadsOK, Grows, StoresOK
  <1>2. \A k \in RecordKinds : NewestOf(store, due, k) = NewestOf(store', due, k)
    BY <1>1, NewestKeeps
  <1> QED BY <1>2 DEF SeenAt

LEMMA ReadsStand ==
    ASSUME StoresOK, StoresOK', Grows, ReadsInv, UNCHANGED resultsVars PROVE ReadsInv'
  <1>1. Len(store) \in Nat /\ Len(store') \in Nat /\ Len(store) =< Len(store')
    BY DEF StoresOK, Grows
  <1>2. ReadsOK'
    BY <1>1 DEF ReadsInv, ReadsOK, resultsVars
  <1>3. SeenAt(due)' = SeenAt(due)
    BY DueKeeps DEF ReadsInv, resultsVars
  <1>4. FreshInv'
    BY <1>3 DEF ReadsInv, FreshInv, Covers, resultsVars
  <1>5. ComparedInv'
    BY <1>1 DEF ReadsInv, ComparedInv, resultsVars
  <1> QED BY <1>2, <1>4, <1>5 DEF ReadsInv

\* Results is shown again: a read is due.
LEMMA ResumeStands ==
    ASSUME StoresOK, UNCHANGED store, ReadsInv, NEW n \in {1, 2}, ResultsResume(n)
    PROVE  ReadsInv'
  <1>1. ReadsOK'
    BY DEF ReadsInv, ReadsOK, ResultsResume, StoresOK
  <1>2. reads' > 0
    BY DEF ReadsInv, ReadsOK, ResultsResume
  <1>3. FreshInv'
    BY <1>2 DEF FreshInv
  <1>4. ComparedInv'
    BY DEF ResultsResume, ComparedInv
  <1> QED BY <1>1, <1>3, <1>4 DEF ReadsInv

LEMMA ReadingStands ==
    ASSUME NoneAssumption, StoresOK, ReadsInv, ResultsWorker \/ ShowEvidence PROVE ReadsInv'
  <1>0. /\ Len(store) \in Nat /\ UNCHANGED <<store, due, compared>>
        /\ SeenAt(due)' = SeenAt(due)
    BY DEF StoresOK, ResultsWorker, BeginRead, PostRead, ShowEvidence, stores, SeenAt
  <1>1. ComparedInv'
    BY <1>0 DEF ReadsInv, ComparedInv
  <1>2. CASE BeginRead
    <2>1. ReadsOK'
      BY <1>0, <1>2 DEF BeginRead, ReadsInv, ReadsOK
    <2>2. due' =< read' /\ read' # None
      BY <1>0, <1>2 DEF BeginRead, ReadsInv, ReadsOK, NoneAssumption
    <2>3. FreshInv'
      BY <2>2 DEF FreshInv
    <2> QED BY <1>1, <2>1, <2>3 DEF ReadsInv
  <1>3. CASE PostRead
    <2>1. read \in 0..Len(store) /\ read' = None /\ UNCHANGED <<reads, shown>>
      BY <1>3 DEF PostRead, ReadsInv, ReadsOK
    <2>2. PICK seen \in SeenSince(read) : arrived' = Append(arrived, seen)
      BY <1>3 DEF PostRead
    <2>3. seen \in Seen /\ \A k \in RecordKinds : SeenAt(read)[k] =< seen[k]
      BY <2>1, <2>2, SeenTells
    <2>4. /\ arrived' \in Seq(Seen) /\ arrived' # <<>> /\ arrived'[Len(arrived')] = seen
      BY <2>2, <2>3 DEF ReadsInv, ReadsOK
    <2>5. ReadsOK'
      BY <1>0, <2>1, <2>4 DEF ReadsInv, ReadsOK
    <2>6. due =< read => Covers(seen)'
      <3> SUFFICES ASSUME due =< read, NEW k \in RecordKinds PROVE SeenAt(due)[k] =< seen[k]
        BY <1>0 DEF Covers
      <3>1. due \in Nat /\ read \in Nat /\ seen[k] \in Nat
        BY <1>0, <2>1, <2>3 DEF ReadsInv, ReadsOK, Seen
      <3>2. NewestOf(store, due, k) =< NewestOf(store, read, k)
        BY <3>1, NewestGrows
      <3>3. NewestOf(store, due, k) \in 0..due /\ NewestOf(store, read, k) \in 0..read
        BY <3>1, NewestStands
      <3>4. SeenAt(due)[k] = NewestOf(store, due, k) /\ SeenAt(read)[k] = NewestOf(store, read, k)
        BY DEF SeenAt
      <3>5. NewestOf(store, read, k) =< seen[k]
        BY <2>3, <3>4
      <3> HIDE DEF NewestOf
      <3> QED BY <3>1, <3>2, <3>3, <3>4, <3>5
    <2>7. reads = 0 => due =< read
      BY <1>3 DEF PostRead, ReadsInv, FreshInv
    <2>8. FreshInv'
      BY <2>1, <2>4, <2>6, <2>7 DEF FreshInv, Covers
    <2> QED BY <1>1, <2>5, <2>8 DEF ReadsInv
  <1>4. CASE ShowEvidence
    <2>1. /\ arrived # <<>> /\ shown' = Head(arrived) /\ arrived' = Tail(arrived)
          /\ arrived \in Seq(Seen) /\ UNCHANGED <<reads, read>>
      BY <1>4 DEF ShowEvidence, ReadsInv, ReadsOK
    <2>2. shown' \in Seen /\ arrived' \in Seq(Seen)
      BY <2>1
    <2>3. /\ Len(arrived) \in Nat \ {0} /\ Len(arrived') = Len(arrived) - 1
          /\ \A i \in 1..Len(arrived') : arrived'[i] = arrived[i + 1]
      BY <2>1
    <2>4. arrived' = <<>> => shown' = arrived[Len(arrived)]
      <3>1. arrived' = <<>> => Len(arrived') = 0
        OBVIOUS
      <3>2. Head(arrived) = arrived[1]
        BY <2>1
      <3> QED BY <2>1, <2>3, <3>1, <3>2
    <2>5. arrived' # <<>> => arrived'[Len(arrived')] = arrived[Len(arrived)]
      <3>1. arrived' # <<>> => Len(arrived') # 0
        BY <2>2, EmptySeq
      <3> QED BY <2>3, <3>1
    <2>6. ReadsOK'
      BY <1>0, <2>1, <2>2 DEF ReadsInv, ReadsOK
    <2>7. shown' # None
      BY <2>2 DEF NoneAssumption
    <2>8. ASSUME arrived' = <<>> PROVE FreshInv'
      BY <1>0, <2>1, <2>4, <2>7, <2>8 DEF ReadsInv, FreshInv, Covers
    <2>9. ASSUME arrived' # <<>> PROVE FreshInv'
      BY <1>0, <2>1, <2>5, <2>9 DEF ReadsInv, FreshInv, Covers
    <2>10. FreshInv'
      BY <2>8, <2>9
    <2> QED BY <1>1, <2>6, <2>10 DEF ReadsInv
  <1> QED BY <1>2, <1>3, <1>4 DEF ResultsWorker

LEMMA ComparisonStands ==
    ASSUME StoresOK, ReadsInv, ShowComparison PROVE ReadsInv'
  <1>1. UNCHANGED <<store, reads, read, arrived, shown, due>>
    BY DEF ShowComparison, stores
  <1>2. ReadsOK' /\ FreshInv'
    BY <1>1 DEF ReadsInv, ReadsOK, FreshInv, Covers, SeenAt
  <1>3. ComparedInv'
    <2> SUFFICES ASSUME NEW r \in compared' PROVE r.kind = "benchmark" /\ r.at \in 0..Len(store)
      BY <1>1 DEF ComparedInv
    <2>1. PICK i \in DOMAIN store : r = [store[i] EXCEPT !.at = i] /\ store[i].kind = "benchmark"
      BY DEF ShowComparison
    <2>2. DOMAIN store[i] = Fields
      BY <2>1, ElementOfSeq, RecordsTell DEF StoresOK
    <2> QED BY <2>1, <2>2 DEF Fields, StoresOK
  <1> QED BY <1>2, <1>3 DEF ReadsInv

LEMMA ReadsStep ==
    ASSUME NoneAssumption, StoresOK, ReadsInv, [Next]_vars PROVE ReadsInv'
  <1>0. StoresOK' /\ Grows
    BY StoresStep
  <1>1. CASE UNCHANGED resultsVars
    BY <1>0, <1>1, ReadsStand
  <1>2. CASE UNCHANGED store /\ \E n \in {1, 2} : ResultsResume(n)
    BY <1>2, ResumeStands
  <1>3. CASE ResultsWorker \/ ShowEvidence
    BY <1>3, ReadingStands
  <1>4. CASE ShowComparison
    BY <1>4, ComparisonStands
  <1>5. CASE OpenCompare
    <2>1. UNCHANGED <<store, reads, read, arrived, shown, due>> /\ compared' = None
      BY <1>5 DEF OpenCompare
    <2> QED BY <2>1 DEF ReadsInv, ReadsOK, FreshInv, Covers, SeenAt, ComparedInv
  <1>6. \/ UNCHANGED resultsVars \/ (UNCHANGED store /\ \E n \in {1, 2} : ResultsResume(n))
        \/ ResultsWorker \/ ShowEvidence \/ ShowComparison \/ OpenCompare
    <2>1. CASE UNCHANGED vars
      BY <2>1 DEF vars
    <2>2. CASE User
      BY <2>2 DEF User, LaunchFromResults, LaunchFromPaths, EvaluateFromPaths, OpenPaths,
                  OpenCandidates, LeavePaths, LeaveLaunch, LeaveCompare, LeaveCandidates
    <2>3. CASE \E r \in Shapes : Save(r)
      BY <2>3 DEF Save
    <2> QED BY <2>1, <2>2, <2>3 DEF Next
  <1> QED BY <1>1, <1>2, <1>3, <1>4, <1>5, <1>6

-----------------------------------------------------------------------------
(* The actions of the selected path.                                       *)

\* The selection stands while neither it nor what decides on it changes.
LEMMA SelectionStands ==
    ASSUME ActionsFollowSelection, UNCHANGED view, Held(evidence)' = Held(evidence),
           IsOpen' => IsOpen, CheckPending => CheckPending'
    PROVE  ActionsFollowSelection'
  <1>1. UNCHANGED <<list, evidence, selected, filter, usable, error>>
    BY DEF view
  <1>2. ShownPaths(list, evidence, filter)' = ShownPaths(list, evidence, filter)
    BY <1>1 DEF ShownPaths
  <1>3. MayAct(list, ShownPaths(list, evidence, filter), selected)'
          = MayAct(list, ShownPaths(list, evidence, filter), selected)
    BY <1>1, <1>2 DEF MayAct
  <1> QED BY <1>1, <1>3 DEF ActionsFollowSelection

LEMMA RenderShows ==
    ASSUME NEW l, NEW seen, NEW f, NEW x, Render(l, seen, f, x), UNCHANGED stores
    PROVE  ActionsFollowSelection'
  <1> DEFINE places == ShownPaths(l, seen, f)
             chosen == Reselected(l, places, x)
  <1>1. /\ list' = l /\ evidence' = seen /\ filter' = f /\ selected' = chosen
        /\ usable' = MayAct(l, places, chosen)
    BY DEF Render
  <1>2. ShownPaths(list, evidence, filter)' = places
    BY <1>1 DEF ShownPaths, Held, stores
  <1>3. MayAct(list, ShownPaths(list, evidence, filter), selected)' = MayAct(l, places, chosen)
    BY <1>1, <1>2 DEF MayAct
  <1> QED BY <1>1, <1>3 DEF ActionsFollowSelection

LEMMA EvidenceKept ==
    ASSUME StoresOK, StoresOK', Grows, PathsInv, evidence' = evidence
    PROVE  Held(evidence)' = Held(evidence)
  <1>1. HeldOf(store', evidence) = HeldOf(store, evidence)
    BY HeldKeeps, RecordAssumption DEF StoresOK, Grows, PathsInv, Within
  <1> QED BY <1>1 DEF Held

\* No path is listed on a screen just opened.
LEMMA BlankShows == ASSUME NEW s, Blank(s) PROVE ActionsFollowSelection'
  <1>1. list' = <<>> /\ usable' = FALSE
    BY DEF Blank
  <1>2. ShownPaths(list, evidence, filter)' = {}
    BY <1>1 DEF ShownPaths
  <1>3. MayAct(list, ShownPaths(list, evidence, filter), selected)' = FALSE
    BY <1>2 DEF MayAct
  <1> QED BY <1>1, <1>3 DEF ActionsFollowSelection

\* Going elsewhere does not open the paths screen.
LEMMA ElsewhereIsNotPaths ==
    ASSUME StoresOK,
           \/ stack' = stack \/ (stack # <<>> /\ stack' = Front(stack))
           \/ \E x \in Screens \ {"paths"} : stack' = Append(stack, x)
    PROVE  IsOpen' => IsOpen
  <1>1. CASE stack # <<>> /\ stack' = Front(stack)
    BY <1>1, FrontStands DEF IsOpen
  <1>2. CASE \E x \in Screens \ {"paths"} : stack' = Append(stack, x)
    BY <1>2 DEF IsOpen, StoresOK
  <1> QED BY <1>1, <1>2 DEF IsOpen

\* What is not taken from a queue waits in the rest of it.
LEMMA OthersWait ==
    ASSUME NEW S, NEW s \in Seq(S), s # <<>>, NEW i \in DOMAIN s
    PROVE  s[i] = Head(s) \/ \E j \in DOMAIN Tail(s) : Tail(s)[j] = s[i]
  <1>1. /\ Len(s) \in Nat \ {0} /\ i \in 1..Len(s) /\ Head(s) = s[1]
        /\ Tail(s) \in Seq(S) /\ Len(Tail(s)) = Len(s) - 1
        /\ \A k \in 1..Len(Tail(s)) : Tail(s)[k] = s[k + 1]
    BY HeadTailProperties, EmptySeq
  <1>2. CASE i # 1
    <2>1. i - 1 \in 1..Len(Tail(s)) /\ (i - 1) + 1 = i
      BY <1>1, <1>2
    <2>2. Tail(s)[i - 1] = s[i]
      BY <1>1, <2>1
    <2>3. i - 1 \in DOMAIN Tail(s)
      BY <1>1, <2>1
    <2> QED BY <2>2, <2>3
  <1> QED BY <1>1, <1>2

LEMMA WorkerActs ==
    ASSUME StoresOK, PathsInv, ActionsFollowSelection, PathsWorker
    PROVE  ActionsFollowSelection'
  <1>0. UNCHANGED <<stores, view>> /\ Held(evidence)' = Held(evidence) /\ (IsOpen' => IsOpen)
    BY DEF PathsWorker, Take, LoadFails, LoadPlans, PostLoaded, PostEvidence, stores, view,
           Held, IsOpen
  <1>1. SUFFICES ASSUME CheckPending PROVE CheckPending'
    BY <1>0, SelectionStands
  <1>2. CASE Take
    <2>1. jobs # <<>> /\ job = None /\ jobs' = Tail(jobs) /\ inbox' = inbox
          /\ job' = [kind |-> Head(jobs), list |-> None, since |-> Len(store)]
          /\ jobs \in Seq({"load", "recheck", "evidence"})
      BY <1>2 DEF Take, PathsInv
    <2>2. job' \in Job
      BY <2>1 DEF Job, StoresOK
    <2>3. job' # None
      BY <2>2, NoneAssumption DEF NoneAssumption
    <2>4. \A i \in DOMAIN jobs :
             jobs[i] = Head(jobs) \/ \E j \in DOMAIN Tail(jobs) : Tail(jobs)[j] = jobs[i]
      BY <2>1, OthersWait
    <2> QED BY <1>1, <2>1, <2>3, <2>4 DEF CheckPending
  <1>3. CASE LoadFails
    <2>1. inbox' = Append(inbox, [kind |-> "failed"])
      BY <1>3 DEF LoadFails, Post
    <2>2. Len(inbox) + 1 \in DOMAIN inbox' /\ inbox'[Len(inbox) + 1].kind = "failed"
      BY <2>1 DEF PathsInv
    <2> QED BY <2>2 DEF CheckPending
  <1>4. CASE \E l \in Lists : LoadPlans(l)
    <2>1. PICK l \in Lists : LoadPlans(l)
      BY <1>4
    <2>2. job \in Job /\ job' = [job EXCEPT !.list = l, !.since = Len(store)]
          /\ UNCHANGED <<jobs, inbox>>
      BY <2>1 DEF LoadPlans, PathsInv
    <2>3. job' = [kind |-> job.kind, list |-> l, since |-> Len(store)]
      BY <2>2 DEF Job
    <2>4. job' \in Job
      BY <2>2, <2>3 DEF Job, StoresOK
    <2>5. job' # None /\ job'.kind = job.kind
      BY <2>3, <2>4, NoneAssumption DEF NoneAssumption
    <2> QED BY <1>1, <2>2, <2>5 DEF CheckPending
  <1>5. CASE PostLoaded
    <2>1. PICK seen : inbox' = Append(inbox, [kind |-> "loaded", list |-> job.list, seen |-> seen])
      BY <1>5 DEF PostLoaded, Post
    <2>2. Len(inbox) + 1 \in DOMAIN inbox' /\ inbox'[Len(inbox) + 1].kind = "loaded"
      BY <2>1 DEF PathsInv
    <2> QED BY <2>2 DEF CheckPending
  <1>6. CASE PostEvidence
    <2>1. PICK seen : inbox' = Append(inbox, [kind |-> "evidence", seen |-> seen])
      BY <1>6 DEF PostEvidence, Post
    <2>2. \A i \in DOMAIN inbox : i \in DOMAIN inbox' /\ inbox'[i] = inbox[i]
      BY <2>1 DEF PathsInv
    <2>3. job.kind = "evidence" /\ jobs' = jobs
      BY <1>6 DEF PostEvidence
    <2> QED BY <1>1, <2>2, <2>3 DEF CheckPending
  <1> QED BY <1>2, <1>3, <1>4, <1>5, <1>6 DEF PathsWorker

LEMMA UserActs ==
    ASSUME StoresOK, StoresOK', Grows, PathsInv, ActionsFollowSelection, PathsUser
    PROVE  ActionsFollowSelection'
  <1>1. CASE \E x : Choose(x)
    <2>1. PICK x : Choose(x)
      BY <1>1
    <2>2. /\ selected' = x /\ usable' = MayAct(list, ShownPaths(list, evidence, filter), x)
          /\ UNCHANGED <<store, list, evidence, filter>>
      BY <2>1 DEF Choose, stores
    <2>3. ShownPaths(list, evidence, filter)' = ShownPaths(list, evidence, filter)
      BY <2>2 DEF ShownPaths, Held
    <2>4. MayAct(list, ShownPaths(list, evidence, filter), selected)'
            = MayAct(list, ShownPaths(list, evidence, filter), x)
      BY <2>2, <2>3 DEF MayAct
    <2> QED BY <2>2, <2>4 DEF ActionsFollowSelection
  <1>2. CASE \E f : SetFilter(f)
    BY <1>2, RenderShows DEF SetFilter
  <1>3. CASE Recheck
    <2>1. jobs' = Append(jobs, "recheck")
      BY <1>3 DEF Recheck, Submit
    <2>2. Len(jobs) + 1 \in DOMAIN jobs' /\ jobs'[Len(jobs) + 1] = "recheck"
      BY <2>1 DEF PathsInv
    <2> QED BY <2>2 DEF CheckPending, ActionsFollowSelection
  <1>4. CASE \E r : QualityStored(r)
    <2>1. /\ UNCHANGED <<view, job, inbox>> /\ stack # <<>> /\ stack' = Front(stack)
          /\ jobs' = (IF list = <<>> \/ Refreshing THEN jobs ELSE Append(jobs, "evidence"))
                       \o <<"load">>
      BY <1>4 DEF QualityStored, On
    <2>2. Held(evidence)' = Held(evidence)
      BY <2>1, EvidenceKept DEF view
    <2>3. IsOpen' => IsOpen
      BY <2>1, ElsewhereIsNotPaths
    <2>4. \A i \in DOMAIN jobs : i \in DOMAIN jobs' /\ jobs'[i] = jobs[i]
      BY <2>1 DEF PathsInv
    <2>5. CheckPending => CheckPending'
      BY <2>1, <2>4 DEF CheckPending
    <2> QED BY <2>1, <2>2, <2>3, <2>5, SelectionStands
  <1> QED BY <1>1, <1>2, <1>3, <1>4 DEF PathsUser

LEMMA ActionsStep ==
    ASSUME StoresOK, PathsInv, ActionsFollowSelection, [Next]_vars
    PROVE  ActionsFollowSelection'
  <1>0. StoresOK' /\ Grows
    BY StoresStep
  <1>1. CASE UNCHANGED pathsVars /\ (IsOpen' => IsOpen)
    <2>1. Held(evidence)' = Held(evidence)
      BY <1>0, <1>1, EvidenceKept DEF pathsVars, view
    <2>2. CheckPending => CheckPending'
      BY <1>1 DEF CheckPending, pathsVars, worker
    <2> QED BY <1>1, <2>1, <2>2, SelectionStands DEF pathsVars
  <1>2. CASE \E s : Blank(s)
    BY <1>2, BlankShows
  <1>3. CASE PathsWorker
    BY <1>3, WorkerActs
  <1>4. CASE PathsUser
    BY <1>0, <1>4, UserActs
  <1>5. CASE HandleLoaded \/ HandleEvidence
    BY <1>5, RenderShows DEF HandleLoaded, HandleEvidence
  <1>6. CASE HandleFailed
    BY <1>6 DEF HandleFailed, ActionsFollowSelection
  <1>7. CASE Resumed /\ UNCHANGED <<view, job, inbox>> /\ (IsOpen' => IsOpen)
    <2>1. Held(evidence)' = Held(evidence)
      BY <1>0, <1>7, EvidenceKept DEF view
    <2>2. \A i \in DOMAIN jobs : i \in DOMAIN jobs' /\ jobs'[i] = jobs[i]
      BY <1>7 DEF PathsInv, Resumed
    <2>3. CheckPending => CheckPending'
      BY <1>7, <2>2 DEF CheckPending
    <2> QED BY <1>7, <2>1, <2>3, SelectionStands
  <1>8. \/ (UNCHANGED pathsVars /\ (IsOpen' => IsOpen)) \/ (\E s : Blank(s))
        \/ PathsWorker \/ PathsUser \/ HandleLoaded \/ HandleEvidence \/ HandleFailed
        \/ (Resumed /\ UNCHANGED <<view, job, inbox>> /\ (IsOpen' => IsOpen))
    <2>1. CASE UNCHANGED vars
      BY <2>1 DEF vars, stores, IsOpen
    <2>2. CASE LaunchFromResults \/ LaunchFromPaths \/ EvaluateFromPaths
               \/ OpenCandidates \/ OpenCompare
      <3>1. \E x \in Screens \ {"paths"} : stack' = Append(stack, x)
        BY <2>2 DEF LaunchFromResults, LaunchFromPaths, EvaluateFromPaths, OpenCandidates,
                    OpenCompare, Push, Screens
      <3>2. UNCHANGED pathsVars
        BY <2>2 DEF LaunchFromResults, LaunchFromPaths, EvaluateFromPaths, OpenCandidates,
                    OpenCompare
      <3> QED BY <3>1, <3>2, ElsewhereIsNotPaths
    <2>3. CASE LeaveCompare \/ LeaveCandidates \/ LeaveLaunch
      <3>1. IsOpen' => IsOpen
        <4>1. stack # <<>> /\ stack' = Front(stack)
          BY <2>3 DEF LeaveCompare, LeaveCandidates, LeaveLaunch, On
        <4> QED BY <4>1, ElsewhereIsNotPaths
      <3>2. UNCHANGED pathsVars \/ (Resumed /\ UNCHANGED <<view, job, inbox>>)
        BY <2>3 DEF LeaveCompare, LeaveCandidates, LeaveLaunch
      <3> QED BY <3>1, <3>2
    <2>4. CASE OpenPaths \/ LeavePaths
      BY <2>4 DEF OpenPaths, LeavePaths
    <2>5. CASE ResultsWorker \/ ShowEvidence \/ ShowComparison
      BY <2>5 DEF ResultsWorker, BeginRead, PostRead, ShowEvidence, ShowComparison, stores, IsOpen
    <2>6. CASE \E r \in Shapes : Save(r)
      BY <2>6 DEF Save, IsOpen
    <2> QED BY <2>1, <2>2, <2>3, <2>4, <2>5, <2>6 DEF Next, User, PathsMessages
  <1> QED BY <1>1, <1>2, <1>3, <1>4, <1>5, <1>6, <1>7, <1>8

-----------------------------------------------------------------------------
(* The theorems.                                                           *)

LEMMA ResultsInit == Init => IInv /\ ActionsFollowSelection
  <1> SUFFICES ASSUME Init PROVE IInv /\ ActionsFollowSelection
    OBVIOUS
  <1>1. StoresOK
    BY RecordAssumption DEF Init, StoresOK, RecordAssumption
  <1>2. PathsInv
    <2>1. inbox \in Seq(Message) /\ DOMAIN inbox = {} /\ job = None
          /\ jobs \in Seq({"load", "recheck", "evidence"})
      BY DEF Init, Closed
    <2>2. evidence \in Seen /\ Within(evidence)
      BY <1>1, NothingSeen DEF Init, Closed
    <2> QED BY <2>1, <2>2 DEF PathsInv
  <1>3. ReadsInv
    BY <1>1 DEF Init, ReadsInv, ReadsOK, FreshInv, ComparedInv, StoresOK
  <1>4. ActionsFollowSelection
    BY DEF Init, ActionsFollowSelection, IsOpen
  <1> QED BY <1>1, <1>2, <1>3, <1>4 DEF IInv

LEMMA ResultsInvariant == Spec => [](IInv /\ ActionsFollowSelection)
  <1>1. IInv /\ ActionsFollowSelection /\ [Next]_vars => (IInv /\ ActionsFollowSelection)'
    <2> SUFFICES ASSUME IInv, ActionsFollowSelection, [Next]_vars
                 PROVE  IInv' /\ ActionsFollowSelection'
      OBVIOUS
    <2>1. StoresOK' /\ PathsInv'
      BY StoresStep, PathsStep DEF IInv
    <2>2. ReadsInv'
      BY ReadsStep, NoneAssumption DEF IInv
    <2>3. ActionsFollowSelection'
      BY ActionsStep DEF IInv
    <2> QED BY <2>1, <2>2, <2>3 DEF IInv
  <1> QED BY ResultsInit, <1>1, PTL DEF Spec

\* Run, Validate and Benchmark of the paths screen are enabled exactly when the selected
\* path is listed, shown and ready, whatever is saved, reloaded, filtered and left.
THEOREM ActionsFollow == Spec => []ActionsFollowSelection
  BY ResultsInvariant, PTL

\* When no read is under way, Results has seen every record that was saved when it was
\* last shown again, and of every configuration that succeeded the comparison shows a
\* record, whatever failed later.
THEOREM SavedShown == Spec => []SavedIsShown
  <1>1. IInv => SavedIsShown
    <2> SUFFICES ASSUME IInv PROVE SavedIsShown
      OBVIOUS
    <2>1. ResultsShowSaved
      <3> SUFFICES ASSUME reads = 0, read = None, arrived = <<>>
                   PROVE  shown # None /\ \A k \in DOMAIN shown : shown[k] >= SeenAt(due)[k]
        BY DEF ResultsShowSaved
      <3>1. shown # None /\ Covers(shown)
        BY DEF IInv, ReadsInv, FreshInv
      <3>2. shown \in Seen /\ due \in Nat
        BY <3>1 DEF IInv, ReadsInv, ReadsOK
      <3> SUFFICES ASSUME NEW k \in RecordKinds PROVE shown[k] >= SeenAt(due)[k]
        BY <3>1, <3>2 DEF Seen
      <3>3. SeenAt(due)[k] =< shown[k]
        BY <3>1 DEF Covers
      <3>4. SeenAt(due)[k] \in Nat /\ shown[k] \in Nat
        BY <3>2, NewestStands DEF SeenAt, Seen
      <3> QED BY <3>3, <3>4
    <2>2. FailureReplacesNothing
      <3>1. \A r \in Indexed(compared) : compared # None =>
              \E s \in LastRecords(compared) : Setting(s) = Setting(r)
        <4> SUFFICES ASSUME compared # None, NEW r \in Indexed(compared)
                     PROVE  \E s \in LastRecords(compared) : Setting(s) = Setting(r)
          OBVIOUS
        <4>1. \A s \in compared : s.kind = "benchmark" /\ s.at \in 0..Len(store)
          BY DEF IInv, ReadsInv, ComparedInv
        <4>2. r \in compared /\ r.success
          BY <4>1 DEF Indexed
        <4>3. Len(store) \in Nat
          BY DEF IInv, StoresOK
        <4> QED BY <4>1, <4>2, <4>3, SettingsStand
      <3> QED BY <3>1, FailuresDoNotCount DEF FailureReplacesNothing
    <2> QED BY <2>1, <2>2 DEF SavedIsShown
  <1> QED BY <1>1, ResultsInvariant, PTL

\* A run that the row of Results calls measured has its tick and its place in the
\* history: the three readers of the stores do not disagree about it.
THEOREM MeasuredBacked == Spec => []MeasuredIsBacked
  <1>1. IInv => MeasuredIsBacked
    BY ReadersAgree, RecordAssumption DEF IInv, StoresOK
  <1> QED BY <1>1, ResultsInvariant, PTL
=============================================================================
