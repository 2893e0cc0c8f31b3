------------------------- MODULE StoreProofs -------------------------
(***************************************************************************)
(* The two stores of files.  That of quality evaluations implements the    *)
(* log of EvidenceLog, for any number of writers and readers that fail or  *)
(* die anywhere; a lookup answers from one moment; and the answer a plan   *)
(* is ranked with is withdrawn, never replaced, by later repeats.  That of *)
(* models keeps the digests beside its files true, for any number of       *)
(* files, contents and readers, and one writing process.                   *)
(***************************************************************************)
EXTENDS QualityStore, ArtifactStore, FiniteSetTheorems, TLAPS

\* A writer inside save has a record and a name to publish it under, and the name
\* holds that record from the link on.
WriterInv ==
    \A w \in Writers : pc[w] # "idle" =>
        /\ rec[w] \in Record
        /\ path[w] \in {Primary(rec[w].identity), Repeated(rec[w])}
        /\ pc[w] = "unlink" => file[path[w]] = rec[w]

\* However many records could be produced, a store holds finitely many.
FiniteInv == IsFiniteSet(StoredRecords)

StoreInv == TypeOK /\ WriterInv /\ FiniteInv

-----------------------------------------------------------------------------
(* The names of the store.                                                 *)

\* Both names of a record are names of the store.
LEMMA NamesArePaths ==
    ASSUME NEW r \in Record
    PROVE  Primary(r.identity) \in Paths /\ Repeated(r) \in Paths
BY DEF Paths, Identities

\* A stored record is the content of one of the names.
LEMMA StoredMeansPublished ==
    StoredRecords = {file[p] : p \in {q \in Paths : file[q] \in Record}}
BY ConstantsAssumption DEF StoredRecords, ListIds, Load

\* A step that leaves the files alone leaves the records alone.
LEMMA SameFilesSameRecords ==
    ASSUME UNCHANGED file
    PROVE  StoredRecords' = StoredRecords
BY DEF StoredRecords, ListIds, Load

\* Publishing adds the record to the others.
LEMMA PublishAppends ==
    ASSUME TypeOK, NEW p \in Paths, NEW r \in Record,
           file[p] = None, file' = [file EXCEPT ![p] = r]
    PROVE  StoredRecords' = StoredRecords \cup {r}
<1>1. file'[p] = r /\ \A q \in Paths \ {p} : file'[q] = file[q]
  BY DEF TypeOK
<1>2. None \notin Record
  BY ConstantsAssumption
<1>3. StoredRecords' = {file'[q] : q \in {x \in Paths : file'[x] \in Record}}
  BY ConstantsAssumption DEF StoredRecords, ListIds, Load
<1> QED
  BY <1>1, <1>2, <1>3, StoredMeansPublished

-----------------------------------------------------------------------------
(* The invariant of the store.                                             *)

\* Only Link changes a file, and only one that was not there.
LEMMA FilesAreOnlyAdded ==
    ASSUME StoreInv, [Next]_vars
    PROVE  \/ UNCHANGED file
           \/ \E w \in Writers : /\ Link(w) /\ pc[w] = "link" /\ file[path[w]] = None
                                 /\ file' = [file EXCEPT ![path[w]] = rec[w]]
                                 /\ Goto(w, "unlink") /\ UNCHANGED <<rec, path, acked, lookup>>
<1>1. CASE UNCHANGED vars
  BY <1>1 DEF vars
<1>2. ASSUME NEW w \in Writers, SaveStep(w), ~Link(w) PROVE UNCHANGED file
  BY <1>2 DEF SaveStep, Save, CheckPath, Compare, CreateTemp, WriteTemp, Finish, Crash
<1>3. ASSUME NEW r \in Readers, BeginLookup(r) \/ ReadNext(r) \/ EndLookup(r)
      PROVE  UNCHANGED file
  BY <1>3 DEF BeginLookup, ReadNext, EndLookup
<1>4. ASSUME NEW w \in Writers, Link(w)
      PROVE  \/ UNCHANGED file
             \/ /\ pc[w] = "link" /\ file[path[w]] = None
                /\ file' = [file EXCEPT ![path[w]] = rec[w]]
                /\ Goto(w, "unlink") /\ UNCHANGED <<rec, path, acked, lookup>>
  BY <1>4 DEF Link
<1> QED
  BY <1>1, <1>2, <1>3, <1>4 DEF Next

\* What is under a name stays under it.
LEMMA FilesStay ==
    ASSUME StoreInv, [Next]_vars, NEW p \in Paths, file[p] # None
    PROVE  file'[p] = file[p]
BY FilesAreOnlyAdded DEF StoreInv, TypeOK

\* The log never loses a record, and gains at most the one a writer publishes.
LEMMA RecordsAreOnlyAdded ==
    ASSUME StoreInv, [Next]_vars
    PROVE  \/ StoredRecords' = StoredRecords
           \/ \E r \in Record : StoredRecords' = StoredRecords \cup {r} /\ UNCHANGED acked
<1>1. CASE UNCHANGED file
  BY <1>1, SameFilesSameRecords
<1>2. ASSUME NEW w \in Writers, pc[w] = "link", file[path[w]] = None,
             file' = [file EXCEPT ![path[w]] = rec[w]], UNCHANGED acked
      PROVE  \E r \in Record : StoredRecords' = StoredRecords \cup {r} /\ UNCHANGED acked
  <2>1. rec[w] \in Record /\ path[w] \in Paths
    BY <1>2, NamesArePaths DEF StoreInv, WriterInv
  <2>2. StoredRecords' = StoredRecords \cup {rec[w]}
    BY <1>2, <2>1, PublishAppends DEF StoreInv
  <2> QED
    BY <1>2, <2>1, <2>2
<1> QED
  BY <1>1, <1>2, FilesAreOnlyAdded

\* A step of one writer keeps its place, record and name together.
LEMMA WriterStep ==
    ASSUME StoreInv, NEW w \in Writers, SaveStep(w)
    PROVE  /\ pc' \in [Writers -> {"idle", "check", "compare", "validate", "write", "link", "unlink"}]
           /\ rec' \in [Writers -> Record \cup {None}]
           /\ path' \in [Writers -> Paths \cup {None}]
           /\ acked' \subseteq Record
           /\ \A v \in Writers \ {w} : pc'[v] = pc[v] /\ rec'[v] = rec[v] /\ path'[v] = path[v]
           /\ pc'[w] # "idle" =>
                 /\ rec'[w] \in Record
                 /\ path'[w] \in {Primary(rec'[w].identity), Repeated(rec'[w])}
                 /\ pc'[w] = "unlink" => file'[path'[w]] = rec'[w]
<1> USE NamesArePaths DEF StoreInv, TypeOK, WriterInv, Goto
<1>1. CASE Save(w)
  BY <1>1 DEF Save
<1>2. CASE CheckPath(w)
  BY <1>2 DEF CheckPath
<1>3. CASE Compare(w)
  <2>1. pc[w] = "compare" /\ UNCHANGED file
    BY <1>3 DEF Compare
  <2>2. Return(w) \/ TryRepeated(w) \/ Fail(w)
    BY <1>3, Zenon DEF Compare
  <2>3. CASE Return(w)
    BY <2>1, <2>3 DEF Return, Leave
  <2>4. CASE TryRepeated(w)
    BY <2>1, <2>4 DEF TryRepeated
  <2>5. CASE Fail(w)
    BY <2>1, <2>5 DEF Fail, Leave
  <2> QED
    BY <2>2, <2>3, <2>4, <2>5
<1>4. CASE CreateTemp(w)
  BY <1>4 DEF CreateTemp, Fail, Leave
<1>5. CASE WriteTemp(w)
  BY <1>5 DEF WriteTemp, Fail, Leave
<1>6. CASE Link(w)
  BY <1>6 DEF Link, Fail, Leave
<1>7. CASE Finish(w)
  BY <1>7 DEF Finish, Return, Fail, Leave
<1>8. CASE Crash(w)
  BY <1>8 DEF Crash, Fail, Leave
<1> QED
  BY <1>1, <1>2, <1>3, <1>4, <1>5, <1>6, <1>7, <1>8 DEF SaveStep

LEMMA StoreInvInit == Init => StoreInv
<1> SUFFICES ASSUME Init PROVE StoreInv
  OBVIOUS
<1>1. StoredRecords = {}
  BY ConstantsAssumption, StoredMeansPublished DEF Init
<1>2. TypeOK
  BY DEF Init, TypeOK, Contents
<1> QED
  BY <1>1, <1>2, FS_EmptySet DEF Init, StoreInv, WriterInv, FiniteInv

LEMMA StoreInvStep ==
    ASSUME StoreInv, [Next]_vars
    PROVE  StoreInv'
<1>1. file' \in [Paths -> Contents]
  <2>1. \A w \in Writers : pc[w] = "link" => rec[w] \in Record
    BY DEF StoreInv, WriterInv
  <2> QED
    BY <2>1, FilesAreOnlyAdded DEF StoreInv, TypeOK, Contents
<1>2. FiniteInv'
  BY RecordsAreOnlyAdded, FS_AddElement DEF StoreInv, FiniteInv
<1>3. CASE UNCHANGED <<pc, rec, path, acked>>
  <2>1. ASSUME NEW w \in Writers, pc[w] # "idle"
        PROVE  /\ rec[w] \in Record /\ path[w] \in {Primary(rec[w].identity), Repeated(rec[w])}
               /\ pc[w] = "unlink" => file'[path[w]] = rec[w]
    <3>1. /\ rec[w] \in Record /\ path[w] \in {Primary(rec[w].identity), Repeated(rec[w])}
          /\ pc[w] = "unlink" => file[path[w]] = rec[w]
      BY <2>1 DEF StoreInv, WriterInv
    <3>2. path[w] \in Paths
      BY <3>1, NamesArePaths
    <3>3. rec[w] # None
      BY <3>1, ConstantsAssumption
    <3> QED BY <3>1, <3>2, <3>3, FilesStay
  <2>2. WriterInv'
    BY <1>3, <2>1 DEF WriterInv
  <2> QED
    BY <1>1, <1>2, <1>3, <2>2 DEF StoreInv, TypeOK
<1>4. ASSUME NEW w \in Writers, SaveStep(w)
      PROVE  StoreInv'
  <2>1. TypeOK'
    BY <1>1, <1>4, WriterStep DEF TypeOK
  <2>2. ASSUME NEW v \in Writers, v # w, pc'[v] # "idle"
        PROVE  /\ rec'[v] \in Record
               /\ path'[v] \in {Primary(rec'[v].identity), Repeated(rec'[v])}
               /\ pc'[v] = "unlink" => file'[path'[v]] = rec'[v]
    <3>1. pc'[v] = pc[v] /\ rec'[v] = rec[v] /\ path'[v] = path[v]
      BY <1>4, <2>2, WriterStep
    <3>2. /\ rec[v] \in Record /\ path[v] \in {Primary(rec[v].identity), Repeated(rec[v])}
          /\ pc[v] = "unlink" => file[path[v]] = rec[v]
      BY <2>2, <3>1 DEF StoreInv, WriterInv
    <3>3. path[v] \in Paths
      BY <3>2, NamesArePaths
    <3>4. rec[v] # None
      BY <3>2, ConstantsAssumption
    <3> QED BY <3>1, <3>2, <3>3, <3>4, FilesStay
  <2>3. WriterInv'
    BY <1>4, <2>2, WriterStep DEF WriterInv
  <2> QED
    BY <1>2, <2>1, <2>3 DEF StoreInv
<1> QED
  BY <1>3, <1>4 DEF Next, vars, BeginLookup, ReadNext, EndLookup

\* Through every race, failure and death.
LEMMA StoreInvariant == Spec => []StoreInv
BY StoreInvInit, StoreInvStep, PTL DEF Spec

\* Every variable of the store keeps its type.
THEOREM TypeCorrect == Spec => []TypeOK
BY StoreInvariant, PTL DEF StoreInv

-----------------------------------------------------------------------------
(* The refinement.                                                         *)

\* A caller is told "saved" only of a record that is in the store: found under its own
\* name, or linked there by this call.
LEMMA AcknowledgedIsStored ==
    ASSUME StoreInv, NEW w \in Writers, SaveStep(w), acked' # acked
    PROVE  /\ rec[w] \in StoredRecords
           /\ acked' = acked \cup {rec[w]}
           /\ UNCHANGED file
<1>1. rec[w] # None => rec[w] \in Record
  BY DEF StoreInv, TypeOK
<1>2. CASE Compare(w)
  <2>1. pc[w] = "compare" /\ UNCHANGED file
    BY <1>2 DEF Compare
  <2>2. \/ Return(w) /\ Load(path[w]) = rec[w]
        \/ TryRepeated(w) \/ Fail(w)
    BY <1>2, Zenon DEF Compare
  <2>3. Return(w) /\ Load(path[w]) = rec[w]
    BY <2>2 DEF TryRepeated, Fail
  <2>4. rec[w] \in Record /\ path[w] \in Paths /\ file[path[w]] \in Record
    BY <2>1, <2>3, NamesArePaths, ConstantsAssumption DEF StoreInv, WriterInv, Load
  <2> QED
    BY <2>1, <2>3, <2>4, StoredMeansPublished DEF Return, Load
<1>3. CASE Finish(w)
  <2>1. pc[w] = "unlink" /\ UNCHANGED file /\ Return(w)
    BY <1>3 DEF Finish, Fail
  <2>2. rec[w] \in Record /\ path[w] \in Paths /\ file[path[w]] = rec[w]
    BY <2>1, NamesArePaths DEF StoreInv, WriterInv
  <2> QED
    BY <2>1, <2>2, StoredMeansPublished DEF Return
<1> QED
  BY <1>2, <1>3 DEF SaveStep, Save, CheckPath, CreateTemp, WriteTemp, Link, Crash, Fail

LEMMA InitIsLogInit == Init => Log!Init
<1> SUFFICES ASSUME Init PROVE StoredRecords = {} /\ acked = {}
  BY DEF Log!Init
<1> QED
  BY ConstantsAssumption, StoredMeansPublished DEF Init

\* Every step of the store is a step of the log or leaves it alone.
LEMMA StepIsLogStep ==
    ASSUME StoreInv, [Next]_vars
    PROVE  [Log!Next]_(Log!vars)
<1>1. CASE acked' = acked
  <2>1. CASE StoredRecords' = StoredRecords
    BY <1>1, <2>1 DEF Log!vars
  <2>2. ASSUME NEW r \in Record, StoredRecords' = StoredRecords \cup {r}, UNCHANGED acked
        PROVE  Log!Next
    BY <2>2 DEF Log!Next, Log!Append
  <2> QED
    BY <2>1, <2>2, RecordsAreOnlyAdded
<1>2. CASE acked' # acked
  <2>1. PICK w \in Writers : SaveStep(w)
    BY <1>2 DEF Next, vars, BeginLookup, ReadNext, EndLookup
  <2>2. rec[w] \in StoredRecords /\ acked' = acked \cup {rec[w]} /\ UNCHANGED file
    BY <1>2, <2>1, AcknowledgedIsStored
  <2>3. StoredRecords' = StoredRecords /\ rec[w] \in Record
    BY <2>2, SameFilesSameRecords, StoredMeansPublished
  <2> QED
    BY <2>2, <2>3 DEF Log!Next, Log!Acknowledge
<1> QED
  BY <1>1, <1>2

\* QualityEvidenceStore is a log of immutable records: whatever writers race, fail or die,
\* none is replaced or withdrawn, and save returns a path only for a record in the store.
THEOREM StoreImplementsLog == Spec => ImplementsLog
<1>1. StoreInv /\ [Next]_vars => [Log!Next]_(Log!vars)
  BY StepIsLogStep
<1> QED
  BY <1>1, InitIsLogInit, StoreInvariant, PTL DEF Spec, ImplementsLog, Log!Spec

\* What a caller was told is saved can be read back for ever after, by any process.
THEOREM SavedStaysReadable == Spec => [](acked \subseteq StoredRecords)
<1>1. Init => acked \subseteq StoredRecords
  BY DEF Init
<1>2. ASSUME StoreInv, acked \subseteq StoredRecords, [Next]_vars
      PROVE  (acked \subseteq StoredRecords)'
  <2>1. StoredRecords \subseteq StoredRecords'
    BY <1>2, RecordsAreOnlyAdded
  <2>2. CASE acked' # acked
    <3>1. PICK w \in Writers : SaveStep(w)
      BY <1>2, <2>2 DEF Next, vars, BeginLookup, ReadNext, EndLookup
    <3> QED
      BY <1>2, <2>1, <2>2, <3>1, AcknowledgedIsStored
  <2> QED
    BY <1>2, <2>1, <2>2
<1> QED
  BY <1>1, <1>2, StoreInvariant, PTL DEF Spec

-----------------------------------------------------------------------------
(* Lookup.                                                                 *)

Lookups == [identity : Identities \cup {None}, ids : SUBSET Paths, found : SUBSET Record,
            listed : SUBSET Record, answer : {x.answers : x \in Record} \cup {None}]

\* What a lookup has read, with what is still to read, is what was there when it listed
\* the names; and a lookup that ended answered from that.
Snapshot(l) ==
    /\ IsFiniteSet(l.listed)
    /\ \A p \in l.ids : file[p] # None
    /\ l.identity # None =>
          Complete(l.listed) = l.found \cup Complete({Load(p) : p \in l.ids} \ {None})
    /\ l.identity = None /\ l.answer # None =>
          l.ids = {} /\ {x.answers : x \in Complete(l.listed)} = {l.answer}

ReaderInv == /\ lookup \in [Readers -> Lookups]
             /\ \A r \in Readers : Snapshot(lookup[r])

\* Repeats give an answer only when they give one answer.
LEMMA DecidesTheOnlyAnswer ==
    ASSUME NEW S \in SUBSET Record, IsFiniteSet(S), Decide(S) # None
    PROVE  {x.answers : x \in S} = {Decide(S)} /\ Decide(S) \in {x.answers : x \in Record}
<1> DEFINE A == {x.answers : x \in S}
           f == [x \in S |-> x.answers]
<1>1. f \in Surjection(S, A)
  BY DEF Surjection
<1>2. IsFiniteSet(A)
  BY <1>1, FS_Surjection
<1>3. Cardinality(A) = 1 /\ Decide(S) = (CHOOSE x \in S : TRUE).answers
  BY DEF Decide
<1>4. PICK a : A = {a}
  BY <1>2, <1>3, FS_Singleton
<1>5. (CHOOSE x \in S : TRUE) \in S
  BY <1>4
<1> QED
  BY <1>3, <1>4, <1>5

LEMMA ReaderInvInit == Init => ReaderInv
<1> SUFFICES ASSUME Init PROVE ReaderInv
  OBVIOUS
<1>1. Idle \in Lookups
  BY DEF Idle, Lookups
<1>2. Snapshot(Idle)
  BY FS_EmptySet DEF Idle, Snapshot
<1> QED
  BY <1>1, <1>2 DEF Init, ReaderInv

\* What is listed stays as it was listed, whatever writers do meanwhile.
LEMMA SnapshotStays ==
    ASSUME StoreInv, [Next]_vars, NEW l \in Lookups, Snapshot(l)
    PROVE  Snapshot(l)'
<1>1. ASSUME NEW p \in l.ids PROVE file'[p] = file[p] /\ file'[p] # None
  <2>1. p \in Paths /\ file[p] # None
    BY DEF Lookups, Snapshot
  <2> QED
    BY <2>1, FilesStay
<1>2. {Load(p) : p \in l.ids}' = {Load(p) : p \in l.ids}
  BY <1>1 DEF Load
<1>3. Complete({Load(p) : p \in l.ids} \ {None})' = Complete({Load(p) : p \in l.ids} \ {None})
  BY <1>2 DEF Complete
<1>4. Complete(l.listed)' = Complete(l.listed)
  BY DEF Complete
<1> QED
  BY <1>1, <1>3, <1>4 DEF Snapshot

\* BeginLookup lists what is stored under an identity.
LEMMA ListingIsASnapshot ==
    ASSUME StoreInv, ReaderInv, NEW r \in Readers, BeginLookup(r)
    PROVE  \E l \in Lookups : Snapshot(l) /\ lookup' = [lookup EXCEPT ![r] = l]
<1>1. PICK i \in Identities :
          lookup' = [lookup EXCEPT ![r] =
              [Idle EXCEPT !.identity = i, !.ids = {p \in ListIds : Belongs(p, i)},
                           !.listed = {Load(p) : p \in {q \in ListIds : Belongs(q, i)}} \ {None}]]
  BY DEF BeginLookup
<1> DEFINE ids == {p \in ListIds : Belongs(p, i)}
           listed == {Load(p) : p \in ids} \ {None}
           l == [Idle EXCEPT !.identity = i, !.ids = ids, !.listed = listed]
<1>2. ids \subseteq Paths /\ \A p \in ids : file[p] # None
  BY DEF ListIds
<1>3. listed \subseteq StoredRecords
  BY DEF StoredRecords
<1>4. IsFiniteSet(listed) /\ listed \subseteq Record
  BY <1>3, FS_Subset, StoredMeansPublished DEF StoreInv, FiniteInv
<1>5. /\ l \in Lookups
      /\ l.identity = i /\ l.ids = ids /\ l.found = {} /\ l.listed = listed /\ l.answer = None
  <2>1. Idle \in Lookups /\ ids \in SUBSET Paths /\ listed \in SUBSET Record
    BY <1>2, <1>4 DEF Idle, Lookups
  <2> HIDE DEF ids, listed
  <2> QED
    BY <2>1 DEF Idle, Lookups
<1>6. Snapshot(l)
  <2> HIDE DEF l
  <2> QED
    BY <1>2, <1>4, <1>5 DEF Snapshot, Complete
<1> QED
  BY <1>1, <1>5, <1>6

\* ReadNext moves one record from what is to be read to what is found.
LEMMA ReadingKeepsTheSnapshot ==
    ASSUME ReaderInv, NEW r \in Readers, ReadNext(r)
    PROVE  \E l \in Lookups : Snapshot(l) /\ lookup' = [lookup EXCEPT ![r] = l]
<1>1. PICK p \in lookup[r].ids :
          lookup' = [lookup EXCEPT ![r].ids = @ \ {p},
                                   ![r].found = @ \cup Complete({Load(p)} \ {None})]
  BY DEF ReadNext
<1> DEFINE o == lookup[r]
           l == [o EXCEPT !.ids = @ \ {p}, !.found = @ \cup Complete({Load(p)} \ {None})]
<1>2. o \in Lookups /\ Snapshot(o)
  BY DEF ReaderInv
<1>3. Complete({Load(p)} \ {None}) \subseteq Record
  BY DEF Complete, Load
<1>4. /\ l \in Lookups
      /\ l.ids = o.ids \ {p} /\ l.found = o.found \cup Complete({Load(p)} \ {None})
      /\ l.identity = o.identity /\ l.listed = o.listed /\ l.answer = o.answer
  BY <1>2, <1>3 DEF Lookups
<1>5. Complete({Load(q) : q \in o.ids} \ {None}) =
          Complete({Load(p)} \ {None}) \cup Complete({Load(q) : q \in o.ids \ {p}} \ {None})
  BY DEF Complete
<1>6. Snapshot(l)
  <2> HIDE DEF l, o
  <2> QED
    BY <1>1, <1>2, <1>4, <1>5 DEF Snapshot, o
<1>7. lookup' = [lookup EXCEPT ![r] = l]
  BY <1>1, <1>2 DEF Lookups, ReaderInv
<1> QED
  BY <1>4, <1>6, <1>7

\* EndLookup decides from all that was listed.
LEMMA DecidingKeepsTheSnapshot ==
    ASSUME ReaderInv, NEW r \in Readers, EndLookup(r)
    PROVE  \E l \in Lookups : Snapshot(l) /\ lookup' = [lookup EXCEPT ![r] = l]
<1> DEFINE o == lookup[r]
           l == [o EXCEPT !.identity = None, !.found = {}, !.answer = Decide(o.found)]
<1>1. /\ o.identity # None /\ o.ids = {} /\ lookup' = [lookup EXCEPT ![r] = l]
      /\ o \in Lookups /\ Snapshot(o)
  BY DEF EndLookup, ReaderInv
<1>2. o.found = Complete(o.listed) /\ o.listed \subseteq Record
  BY <1>1 DEF Snapshot, Complete, Lookups
<1>3. IsFiniteSet(o.found) /\ o.found \subseteq Record
  BY <1>1, <1>2, FS_Subset DEF Complete, Snapshot
<1>4. Decide(o.found) # None => /\ {x.answers : x \in o.found} = {Decide(o.found)}
                                /\ Decide(o.found) \in {x.answers : x \in Record}
  BY <1>3, DecidesTheOnlyAnswer
<1>5. /\ l.ids = {} /\ l.identity = None /\ l.listed = o.listed /\ l.answer = Decide(o.found)
      /\ l \in Lookups
  BY <1>1, <1>4 DEF Lookups
<1>6. Snapshot(l)
  <2> HIDE DEF l, o
  <2> QED
    BY <1>1, <1>2, <1>4, <1>5 DEF Snapshot
<1> QED
  BY <1>1, <1>5, <1>6

LEMMA ReaderInvStep ==
    ASSUME StoreInv, ReaderInv, [Next]_vars
    PROVE  ReaderInv'
<1>1. CASE UNCHANGED lookup
  BY <1>1, SnapshotStays DEF ReaderInv
<1>2. ASSUME NEW r \in Readers, BeginLookup(r) \/ ReadNext(r) \/ EndLookup(r)
      PROVE  ReaderInv'
  <2>1. PICK l \in Lookups : Snapshot(l) /\ lookup' = [lookup EXCEPT ![r] = l]
    BY <1>2, ListingIsASnapshot, ReadingKeepsTheSnapshot, DecidingKeepsTheSnapshot
  <2>2. Snapshot(l)' /\ \A q \in Readers : Snapshot(lookup[q]) /\ lookup[q] \in Lookups
    BY <2>1, SnapshotStays DEF ReaderInv
  <2>3. ASSUME NEW q \in Readers, q # r PROVE Snapshot(lookup[q])'
    <3>1. lookup'[q] = lookup[q]
      BY <2>1, <2>3 DEF ReaderInv
    <3>2. UNCHANGED file
      BY <1>2 DEF BeginLookup, ReadNext, EndLookup
    <3> QED
      BY <2>2, <3>1, <3>2 DEF Snapshot, Complete, Load
  <2>4. Snapshot(lookup[r])'
    BY <2>1, <2>2 DEF Snapshot, Complete, Load, ReaderInv
  <2> QED
    BY <2>1, <2>3, <2>4 DEF ReaderInv
<1>3. ASSUME NEW w \in Writers, SaveStep(w) PROVE UNCHANGED lookup
  BY <1>3 DEF SaveStep, Save, CheckPath, Compare, CreateTemp, WriteTemp, Link, Finish, Crash
<1> QED
  BY <1>1, <1>2, <1>3 DEF Next, vars

\* A lookup that answers says what every reusable record it listed says, although records
\* were published while it read.
THEOREM LookupsAnswerFromOneMoment == Spec => []LookupIsASnapshot
<1>1. ReaderInv => LookupIsASnapshot
  BY DEF ReaderInv, Snapshot, LookupIsASnapshot
<1>2. StoreInv /\ ReaderInv /\ [Next]_vars => ReaderInv'
  BY ReaderInvStep
<1> QED
  BY <1>1, <1>2, ReaderInvInit, StoreInvariant, PTL DEF Spec

-----------------------------------------------------------------------------
(* The answer a plan is ranked with.                                       *)

\* The results of a finite store are finitely many.
LEMMA DistinctIsFinite ==
    ASSUME NEW S, IsFiniteSet(S)
    PROVE  IsFiniteSet(Distinct(S))
<1> DEFINE f == [x \in Complete(S) |-> <<x.identity, x.answers>>]
<1>1. f \in Surjection(Complete(S), Distinct(S))
  BY DEF Surjection, Distinct
<1>2. IsFiniteSet(Complete(S))
  BY FS_Subset DEF Complete
<1> QED
  BY <1>1, <1>2, FS_Surjection

\* With more records, a result stands or conflicts, and a conflict stays.
LEMMA MoreRecords ==
    ASSUME NEW S, NEW T, S \subseteq T, IsFiniteSet(T)
    PROVE  /\ Applicable(S) # None => Applicable(T) = Applicable(S) \/ Conflict(T)
           /\ Conflict(S) => Conflict(T)
<1>1. Distinct(S) \subseteq Distinct(T)
  BY DEF Distinct, Complete
<1>2. IsFiniteSet(Distinct(T)) /\ Cardinality(Distinct(T)) \in Nat
  BY DistinctIsFinite, FS_CardinalityType
<1>3. /\ Cardinality(Distinct(S)) \in Nat /\ Cardinality(Distinct(S)) <= Cardinality(Distinct(T))
      /\ Cardinality(Distinct(S)) = Cardinality(Distinct(T)) => Distinct(S) = Distinct(T)
  BY <1>1, <1>2, FS_Subset, FS_CardinalityType
<1> QED
  BY <1>2, <1>3 DEF Applicable, Conflict

\* stored_quality never turns the result of an artifact into another, and an artifact that
\* needs no further run never needs one again: records only accumulate.
THEOREM AnswersAreOnlyWithdrawn == Spec => AppliedAnswerIsStable
<1>1. ASSUME StoreInv, StoreInv', [Next]_vars
      PROVE  /\ Applicable(StoredRecords) # None =>
                    Applicable(StoredRecords') = Applicable(StoredRecords)
                        \/ Conflict(StoredRecords')
             /\ Settled(StoredRecords) => Settled(StoredRecords')
             /\ Conflict(StoredRecords) => Conflict(StoredRecords')
  <2>1. StoredRecords \subseteq StoredRecords'
    BY <1>1, RecordsAreOnlyAdded
  <2>2. IsFiniteSet(StoredRecords')
    BY <1>1 DEF StoreInv, FiniteInv
  <2> QED
    BY <2>1, <2>2, MoreRecords DEF Settled
<1> QED
  BY <1>1, StoreInvariant, PTL DEF Spec, AppliedAnswerIsStable

-----------------------------------------------------------------------------
(* The store of downloaded models: files beside their digests.             *)

\* One Jaull process at a time downloads into and deletes from the folder.
OneWriter == \A p, q \in Downloaders : p = q

\* Where a download stands, its sidecar is absent until the digest of the bytes
\* at the path is known, and those bytes stay until it is written.
DownloadInv ==
    \A p \in Procs :
        /\ ~At(p, "idle") /\ ~(job[p].step \in {"stat", "sidecar", "rehash"}) => p \in Downloaders
        /\ job[p].step \in {"fetch", "hash", "open"} => sidecar[job[p].f] = Absent
        /\ job[p].step \in {"open", "write"} =>
              content[job[p].f] \in Bytes /\ job[p].seen = content[job[p].f]
        /\ At(p, "write") => sidecar[job[p].f] = Torn

ModelsInv == ModelsTypeOK /\ DownloadInv /\ SidecarCertifiesBytes

\* Initially every variable has its type and the store is empty.
LEMMA ModelsInvInit == ASSUME ModelsInit PROVE ModelsInv
  <1>1. PICK f \in Files : /\ job = [p \in Procs |-> Resting(f)]
                           /\ outcome = [p \in Procs |-> [kind |-> "none", f |-> f, sha |-> Absent]]
    BY DEF ModelsInit
  <1>2. ModelsTypeOK
    BY <1>1 DEF ModelsInit, ModelsTypeOK, Job, Outcome, Resting, Steps
  <1>3. DownloadInv
    BY <1>1 DEF DownloadInv, At, Resting
  <1>4. SidecarCertifiesBytes
    BY DEF ModelsInit, SidecarCertifiesBytes
  <1> QED BY <1>2, <1>3, <1>4 DEF ModelsInv

\* Ending a job touches only the job and the outcome, and leaves both typed.
LEMMA EndType ==
    ASSUME ModelsTypeOK, NEW p \in Procs, NEW sha \in Bytes \cup {Absent},
           NEW kind \in {"error", "crashed", "downloaded", "verified", "deleted"},
           End(p, kind, sha)
    PROVE  /\ job' \in [Procs -> Job] /\ outcome' \in [Procs -> Outcome]
           /\ job'[p].step = "idle"
           /\ \A q \in Procs \ {p} : job'[q] = job[q]
  <1>1. Resting(job[p].f) \in Job /\ Resting(job[p].f).step = "idle"
    BY DEF ModelsTypeOK, Job, Resting, Steps
  <1>2. [kind |-> kind, f |-> job[p].f, sha |-> sha] \in Outcome
    BY DEF ModelsTypeOK, Job, Outcome
  <1> QED BY <1>1, <1>2 DEF End, ModelsTypeOK

\* A step that ends a job and leaves the store alone keeps the invariant.
LEMMA EndKeeps ==
    ASSUME ModelsInv, NEW p \in Procs, NEW sha \in Bytes \cup {Absent},
           NEW kind \in {"error", "crashed", "downloaded", "verified", "deleted"},
           End(p, kind, sha), UNCHANGED store
    PROVE  ModelsInv'
  <1>1. /\ job' \in [Procs -> Job] /\ outcome' \in [Procs -> Outcome]
        /\ job'[p].step = "idle"
        /\ \A q \in Procs \ {p} : job'[q] = job[q]
    BY EndType DEF ModelsInv
  <1>2. ModelsTypeOK'
    BY <1>1 DEF ModelsInv, ModelsTypeOK, store
  <1>3. DownloadInv'
    BY <1>1 DEF ModelsInv, DownloadInv, At, store
  <1>4. SidecarCertifiesBytes'
    BY DEF ModelsInv, SidecarCertifiesBytes, store
  <1> QED BY <1>2, <1>3, <1>4 DEF ModelsInv

\* So does starting an operation, which only sets the job.
LEMMA StartKeeps ==
    ASSUME ModelsInv, NEW p \in Procs, NEW f \in Files, NEW want \in Bytes \cup {Absent},
           NEW full \in BOOLEAN, NEW step \in {"clear", "stat", "unlink"},
           step # "stat" => p \in Downloaders, Start(p, step, f, want, full)
    PROVE  ModelsInv'
  <1> DEFINE j == [step |-> step, f |-> f, want |-> want, full |-> full, seen |-> Absent]
  <1>1. j \in Job /\ job' = [job EXCEPT ![p] = j] /\ UNCHANGED <<store, outcome>>
    BY DEF Start, Job, Steps
  <1>2. job' \in [Procs -> Job] /\ job'[p] = j /\ \A q \in Procs \ {p} : job'[q] = job[q]
    BY <1>1 DEF ModelsInv, ModelsTypeOK
  <1>3. ModelsTypeOK'
    BY <1>1, <1>2 DEF ModelsInv, ModelsTypeOK, store
  <1>4. DownloadInv'
    BY <1>1, <1>2 DEF ModelsInv, DownloadInv, At, store
  <1>5. SidecarCertifiesBytes'
    BY <1>1 DEF ModelsInv, SidecarCertifiesBytes, store
  <1> QED BY <1>3, <1>4, <1>5 DEF ModelsInv

\* With one writer nobody else stands in a writing step.
LEMMA OthersRead ==
    ASSUME OneWriter, ModelsInv, NEW p \in Procs,
           ~At(p, "idle"), ~(job[p].step \in {"stat", "sidecar", "rehash"})
    PROVE  \A q \in Procs \ {p} : job[q].step \in {"idle", "stat", "sidecar", "rehash"}
  BY DEF OneWriter, ModelsInv, DownloadInv, At

\* A step of a job that only moves it on.
LEMMA GotoType ==
    ASSUME ModelsTypeOK, NEW p \in Procs, NEW step \in Steps, Continue(p, step)
    PROVE  /\ job' \in [Procs -> Job]
           /\ job'[p] = [job[p] EXCEPT !.step = step]
           /\ job'[p].step = step /\ job'[p].f = job[p].f /\ job'[p].seen = job[p].seen
           /\ \A q \in Procs \ {p} : job'[q] = job[q]
  BY DEF ModelsTypeOK, Continue, Job

\* A step of a download keeps the invariant while no other process writes.
LEMMA DownloadKeeps ==
    ASSUME StoreAssumption, OneWriter, ModelsInv, NEW p \in Procs, Download(p)
    PROVE  ModelsInv'
  <1> DEFINE f == job[p].f
  <1>0. ModelsTypeOK /\ f \in Files /\ job[p] \in Job
    BY DEF ModelsInv, ModelsTypeOK, Job
  <1>1. CASE ClearSha(p)
    <2>1. \A q \in Procs \ {p} : job[q].step \in {"idle", "stat", "sidecar", "rehash"}
      BY <1>1, OthersRead DEF ClearSha, At
    <2>2. /\ job' \in [Procs -> Job] /\ job'[p].step = "fetch" /\ job'[p].f = f
          /\ \A q \in Procs \ {p} : job'[q] = job[q]
      BY <1>1, <1>0, GotoType DEF ClearSha, Steps
    <2>3. sidecar' \in [Files -> Bytes \cup {Absent, Torn}] /\ sidecar'[f] = Absent
      BY <1>1, <1>0 DEF ClearSha, ModelsTypeOK
    <2>4. ModelsTypeOK'
      BY <1>1, <2>2, <2>3, <1>0 DEF ClearSha, ModelsTypeOK
    <2>5. DownloadInv'
      BY <1>1, <2>1, <2>2, <2>3 DEF ClearSha, ModelsInv, DownloadInv, At
    <2>6. SidecarCertifiesBytes'
      BY <1>1, <1>0, StoreAssumption
         DEF ClearSha, ModelsInv, SidecarCertifiesBytes, ModelsTypeOK, StoreAssumption
    <2> QED BY <2>4, <2>5, <2>6 DEF ModelsInv
  <1>2. CASE Fetch(p)
    <2>1. \A q \in Procs \ {p} : job[q].step \in {"idle", "stat", "sidecar", "rehash"}
      BY <1>2, OthersRead DEF Fetch, At
    <2>2. /\ job' \in [Procs -> Job] /\ job'[p].step = "hash" /\ job'[p].f = f
          /\ \A q \in Procs \ {p} : job'[q] = job[q]
      BY <1>2, <1>0, GotoType DEF Fetch, Steps
    <2>3. /\ content' \in [Files -> Bytes \cup {Absent}] /\ sidecar' = sidecar
          /\ \A g \in Files \ {f} : content'[g] = content[g]
      BY <1>2, <1>0 DEF Fetch, ModelsTypeOK
    <2>4. ModelsTypeOK'
      BY <1>2, <2>2, <2>3, <1>0 DEF Fetch, ModelsTypeOK
    <2>5. sidecar[f] = Absent
      BY <1>2 DEF Fetch, ModelsInv, DownloadInv, At
    <2>6. DownloadInv'
      BY <1>2, <2>1, <2>2, <2>3, <2>5 DEF Fetch, ModelsInv, DownloadInv, At
    <2>7. SidecarCertifiesBytes'
      BY <2>3, <2>5, StoreAssumption DEF ModelsInv, SidecarCertifiesBytes, StoreAssumption
    <2> QED BY <2>4, <2>6, <2>7 DEF ModelsInv
  <1>3. CASE FetchFails(p)
    BY <1>3, EndKeeps DEF FetchFails, Raise
  <1>4. CASE Hash(p)
    <2>1. CASE Raise(p)
      BY <2>1, EndKeeps DEF Raise
    <2>2. CASE /\ content[f] # Absent
               /\ job' = [job EXCEPT ![p].seen = content[f], ![p].step = "open"]
               /\ UNCHANGED <<store, outcome>>
      <3>1. /\ job' \in [Procs -> Job] /\ job'[p].step = "open" /\ job'[p].f = f
            /\ job'[p].seen = content[f] /\ content[f] \in Bytes
            /\ \A q \in Procs \ {p} : job'[q] = job[q]
        BY <2>2, <1>0 DEF ModelsTypeOK, Job, Steps
      <3>2. \A q \in Procs \ {p} : job[q].step \in {"idle", "stat", "sidecar", "rehash"}
        BY <1>4, OthersRead DEF Hash, At
      <3>3. ModelsTypeOK'
        BY <2>2, <3>1, <1>0 DEF ModelsTypeOK, store
      <3>4. DownloadInv'
        <4>1. p \in Downloaders /\ sidecar[f] = Absent /\ sidecar' = sidecar /\ content' = content
          BY <1>4, <2>2 DEF Hash, ModelsInv, DownloadInv, At, store
        <4> QED BY <3>1, <3>2, <4>1 DEF ModelsInv, DownloadInv, At
      <3>5. SidecarCertifiesBytes'
        BY <2>2 DEF ModelsInv, SidecarCertifiesBytes, store
      <3> QED BY <3>3, <3>4, <3>5 DEF ModelsInv
    <2> QED BY <1>4, <2>1, <2>2 DEF Hash
  <1>5. CASE SaveOpen(p)
    <2>1. \A q \in Procs \ {p} : job[q].step \in {"idle", "stat", "sidecar", "rehash"}
      BY <1>5, OthersRead DEF SaveOpen, At
    <2>2. /\ job' \in [Procs -> Job] /\ job'[p].step = "write" /\ job'[p].f = f
          /\ job'[p].seen = job[p].seen
          /\ \A q \in Procs \ {p} : job'[q] = job[q]
      BY <1>5, <1>0, GotoType DEF SaveOpen, Steps
    <2>3. /\ sidecar' \in [Files -> Bytes \cup {Absent, Torn}] /\ sidecar'[f] = Torn
          /\ \A g \in Files \ {f} : sidecar'[g] = sidecar[g]
      BY <1>5, <1>0 DEF SaveOpen, ModelsTypeOK
    <2>4. ModelsTypeOK'
      BY <1>5, <2>2, <2>3, <1>0 DEF SaveOpen, ModelsTypeOK
    <2>5. DownloadInv'
      BY <1>5, <2>1, <2>2, <2>3 DEF SaveOpen, ModelsInv, DownloadInv, At
    <2>6. SidecarCertifiesBytes'
      BY <1>5, <2>3, StoreAssumption
         DEF SaveOpen, ModelsInv, SidecarCertifiesBytes, StoreAssumption
    <2> QED BY <2>4, <2>5, <2>6 DEF ModelsInv
  <1>6. CASE SaveWrite(p)
    <2>1. \A q \in Procs \ {p} : job[q].step \in {"idle", "stat", "sidecar", "rehash"}
      BY <1>6, OthersRead DEF SaveWrite, At
    <2>2. content[f] \in Bytes /\ job[p].seen = content[f] /\ sidecar[f] = Torn
      BY <1>6 DEF SaveWrite, ModelsInv, DownloadInv, At
    <2>3. /\ job' \in [Procs -> Job] /\ outcome' \in [Procs -> Outcome]
          /\ job'[p].step = "idle"
          /\ \A q \in Procs \ {p} : job'[q] = job[q]
      BY <1>6, <1>0, <2>2, EndType DEF SaveWrite
    <2>4. /\ sidecar' \in [Files -> Bytes \cup {Absent, Torn}] /\ sidecar'[f] = content[f]
          /\ \A g \in Files \ {f} : sidecar'[g] = sidecar[g]
      BY <1>6, <1>0, <2>2, StoreAssumption DEF SaveWrite, ModelsTypeOK, StoreAssumption
    <2>5. ModelsTypeOK'
      BY <1>6, <2>3, <2>4, <1>0 DEF SaveWrite, ModelsTypeOK
    <2>6. DownloadInv'
      BY <1>6, <2>1, <2>3 DEF SaveWrite, ModelsInv, DownloadInv, At
    <2>7. SidecarCertifiesBytes'
      BY <1>6, <2>4 DEF SaveWrite, ModelsInv, SidecarCertifiesBytes
    <2> QED BY <2>5, <2>6, <2>7 DEF ModelsInv
  <1> QED BY <1>1, <1>2, <1>3, <1>4, <1>5, <1>6 DEF Download

\* A step of a deletion keeps the invariant while no other process writes.
LEMMA DeleteKeeps ==
    ASSUME StoreAssumption, OneWriter, ModelsInv, NEW p \in Procs, Delete(p)
    PROVE  ModelsInv'
  <1> DEFINE f == job[p].f
  <1>0. ModelsTypeOK /\ f \in Files /\ job[p] \in Job
    BY DEF ModelsInv, ModelsTypeOK, Job
  <1>1. \A q \in Procs \ {p} : job[q].step \in {"idle", "stat", "sidecar", "rehash"}
    BY OthersRead DEF Delete, Unlink, UnlinkSidecar, Scan, RmTree, At
  <1>2. p \in Downloaders
    BY DEF Delete, Unlink, UnlinkSidecar, Scan, RmTree, At, ModelsInv, DownloadInv
  <1>3. CASE Unlink(p)
    <2>1. /\ job' \in [Procs -> Job] /\ job'[p].step = "unsidecar"
          /\ \A q \in Procs \ {p} : job'[q] = job[q]
      BY <1>3, <1>0, GotoType DEF Unlink, Steps
    <2>2. ModelsTypeOK'
      BY <1>3, <2>1, <1>0 DEF Unlink, ModelsTypeOK
    <2>3. DownloadInv'
      BY <1>1, <1>2, <2>1 DEF DownloadInv, At
    <2>4. SidecarCertifiesBytes'
      BY <1>3, <1>0 DEF Unlink, ModelsInv, SidecarCertifiesBytes, ModelsTypeOK
    <2> QED BY <2>2, <2>3, <2>4 DEF ModelsInv
  <1>4. CASE UnlinkSidecar(p)
    <2>1. /\ job' \in [Procs -> Job] /\ job'[p].step = "scan"
          /\ \A q \in Procs \ {p} : job'[q] = job[q]
      BY <1>4, <1>0, GotoType DEF UnlinkSidecar, Steps
    <2>2. ModelsTypeOK'
      BY <1>4, <2>1, <1>0 DEF UnlinkSidecar, ModelsTypeOK
    <2>3. DownloadInv'
      BY <1>1, <1>2, <2>1 DEF DownloadInv, At
    <2>4. SidecarCertifiesBytes'
      BY <1>4, <1>0, StoreAssumption
         DEF UnlinkSidecar, ModelsInv, SidecarCertifiesBytes, ModelsTypeOK, StoreAssumption
    <2> QED BY <2>2, <2>3, <2>4 DEF ModelsInv
  <1>5. CASE Scan(p)
    <2>1. CASE Raise(p)
      BY <2>1, EndKeeps DEF Raise
    <2>2. CASE End(p, "deleted", Absent) /\ UNCHANGED store
      BY <2>2, EndKeeps
    <2>3. CASE Continue(p, "rmtree") /\ UNCHANGED <<store, outcome>>
      <3>1. /\ job' \in [Procs -> Job] /\ job'[p].step = "rmtree"
            /\ \A q \in Procs \ {p} : job'[q] = job[q]
        BY <2>3, <1>0, GotoType DEF Steps
      <3>2. ModelsTypeOK'
        BY <2>3, <3>1, <1>0 DEF ModelsTypeOK, store
      <3>3. DownloadInv'
        BY <1>1, <1>2, <3>1 DEF DownloadInv, At
      <3>4. SidecarCertifiesBytes'
        BY <2>3 DEF ModelsInv, SidecarCertifiesBytes, store
      <3> QED BY <3>2, <3>3, <3>4 DEF ModelsInv
    <2> QED BY <1>5, <2>1, <2>2, <2>3 DEF Scan
  <1>6. CASE RmTree(p)
    <2>1. /\ job' \in [Procs -> Job] /\ outcome' \in [Procs -> Outcome]
          /\ job'[p].step = "idle"
          /\ \A q \in Procs \ {p} : job'[q] = job[q]
      BY <1>6, <1>0, EndType DEF RmTree
    <2>2. ModelsTypeOK'
      BY <1>6, <2>1 DEF RmTree, ModelsTypeOK
    <2>3. DownloadInv'
      BY <1>1, <2>1 DEF DownloadInv, At
    <2>4. SidecarCertifiesBytes'
      BY <1>6 DEF RmTree, SidecarCertifiesBytes
    <2> QED BY <2>2, <2>3, <2>4 DEF ModelsInv
  <1> QED BY <1>3, <1>4, <1>5, <1>6 DEF Delete

\* A verification only reads the store, and reports what its reads found.
LEMMA VerifyKeeps ==
    ASSUME StoreAssumption, ModelsInv, NEW p \in Procs, Verify(p) PROVE ModelsInv'
  <1>0. ModelsTypeOK /\ job[p].f \in Files /\ job[p] \in Job
    BY DEF ModelsInv, ModelsTypeOK, Job
  <1>1. CASE Raise(p)
    BY <1>1, EndKeeps DEF Raise
  <1>2. ASSUME NEW sha \in Bytes \cup {Absent}, End(p, "verified", sha), UNCHANGED store
        PROVE  ModelsInv'
    BY <1>2, EndKeeps
  <1>3. ASSUME /\ job' \in [Procs -> Job] /\ job'[p].step \in {"sidecar", "rehash"}
               /\ \A q \in Procs \ {p} : job'[q] = job[q]
               /\ UNCHANGED <<store, outcome>>
        PROVE  ModelsInv'
    BY <1>3, <1>0 DEF ModelsInv, ModelsTypeOK, DownloadInv, SidecarCertifiesBytes, At, store
  <1>4. CASE Stat(p)
    <2>1. CASE Continue(p, "sidecar") /\ UNCHANGED <<store, outcome>>
      BY <2>1, <1>0, <1>3, GotoType DEF Steps
    <2> QED BY <1>1, <1>4, <2>1 DEF Stat
  <1>5. CASE LoadSidecar(p)
    <2> DEFINE found == Stored(job[p].f)
    <2>1. found \in Bytes \cup {Absent}
      BY <1>0 DEF Stored
    <2>2. CASE job' = [job EXCEPT ![p].seen = found, ![p].step = "rehash"]
               /\ UNCHANGED <<store, outcome>>
      <3>1. /\ job' \in [Procs -> Job] /\ job'[p].step = "rehash"
            /\ \A q \in Procs \ {p} : job'[q] = job[q]
        BY <2>1, <2>2, <1>0 DEF ModelsTypeOK, Job, Steps
      <3> QED BY <2>2, <3>1, <1>3
    <2>3. CASE End(p, "verified", found) /\ UNCHANGED store
      BY <2>1, <2>3, <1>2
    <2> QED BY <1>1, <1>5, <2>2, <2>3 DEF LoadSidecar
  <1>6. CASE Rehash(p)
    <2>1. job[p].seen \in Bytes \cup {Absent}
      BY <1>0 DEF Job
    <2> QED BY <1>1, <1>2, <1>6, <2>1 DEF Rehash
  <1> QED BY <1>4, <1>5, <1>6 DEF Verify

\* With one writer every step of the store keeps the invariant.
LEMMA ModelsInvNext ==
    ASSUME StoreAssumption, OneWriter, ModelsInv, [ModelsNext]_modelsVars PROVE ModelsInv'
  <1>1. ASSUME NEW p \in Downloaders, NEW f \in Files,
               \/ \E want \in Bytes \cup {Absent} : StartDownload(p, f, want)
               \/ StartDelete(p, f)
        PROVE  ModelsInv'
    BY <1>1, StartKeeps DEF StartDownload, StartDelete, Procs
  <1>2. ASSUME NEW p \in Inspectors, NEW f \in Files, NEW want \in Bytes \cup {Absent},
               Resolve(p, f, want)
        PROVE  ModelsInv'
    <2>1. /\ UNCHANGED <<store, job>> /\ p \in Procs
          /\ outcome' \in [Procs -> Outcome]
      BY <1>2 DEF Resolve, Promote, ModelsInv, ModelsTypeOK, Outcome, Stored, Procs
    <2> QED BY <2>1
         DEF ModelsInv, ModelsTypeOK, DownloadInv, SidecarCertifiesBytes, At, store
  <1>3. ASSUME NEW p \in Inspectors, NEW f \in Files, NEW want \in Bytes \cup {Absent},
               NEW full \in BOOLEAN, StartVerify(p, f, want, full)
        PROVE  ModelsInv'
    BY <1>3, StartKeeps DEF StartVerify, Procs
  <1>4. ASSUME NEW p \in Procs, Download(p) \/ Delete(p) \/ Verify(p) PROVE ModelsInv'
    BY <1>4, DownloadKeeps, DeleteKeeps, VerifyKeeps
  <1>5. ASSUME NEW p \in Procs, Die(p) PROVE ModelsInv'
    BY <1>5, EndKeeps DEF Die
  <1>6. CASE UNCHANGED modelsVars
    BY <1>6 DEF modelsVars, ModelsInv, ModelsTypeOK, DownloadInv, SidecarCertifiesBytes, At
  <1> QED BY <1>1, <1>2, <1>3, <1>4, <1>5, <1>6 DEF ModelsNext

\* With one writing process every digest in the store is the digest of the bytes
\* beside it, whatever fails and wherever a process dies.
THEOREM SidecarsAreTrue ==
    ASSUME OneWriter PROVE ModelsSpec => []SidecarCertifiesBytes
  <1>1. ModelsInit => ModelsInv
    BY ModelsInvInit
  <1>2. ModelsInv /\ [ModelsNext]_modelsVars => ModelsInv'
    BY StoreAssumption, ModelsInvNext
  <1>3. ModelsInv => SidecarCertifiesBytes
    BY DEF ModelsInv
  <1> QED BY <1>1, <1>2, <1>3, PTL DEF ModelsSpec
-----------------------------------------------------------------------------
(* What the operations report.                                             *)

\* Of the steps of an operation only SaveWrite reports a download.
LEMMA OnlySaveReports ==
    ASSUME ModelsInv, NEW p \in Procs, Download(p) \/ Delete(p) \/ Verify(p) \/ Die(p),
           job'[p].step = "idle", outcome'[p].kind = "downloaded"
    PROVE  SaveWrite(p)
  <1>0. ~At(p, "idle")
    BY DEF Download, ClearSha, Fetch, FetchFails, Hash, SaveOpen, SaveWrite, Delete, Unlink,
           UnlinkSidecar, Scan, RmTree, Verify, Stat, LoadSidecar, Rehash, Die, At
  <1>1. ASSUME NEW step \in Steps \ {"idle"}, Continue(p, step) PROVE FALSE
    BY <1>1, GotoType DEF ModelsInv
  <1>2. ASSUME NEW sha, NEW kind \in {"error", "crashed", "verified", "deleted"},
               End(p, kind, sha)
        PROVE  FALSE
    BY <1>2 DEF End, ModelsInv, ModelsTypeOK
  <1>3. ASSUME NEW step \in Steps \ {"idle"}, NEW seen,
               job' = [job EXCEPT ![p].seen = seen, ![p].step = step]
        PROVE  FALSE
    <2>1. job'[p].step = step
      BY <1>3 DEF ModelsInv, ModelsTypeOK, Job
    <2> QED BY <1>3, <2>1
  <1>4. CASE Download(p)
    <2>1. ~ClearSha(p) /\ ~Fetch(p) /\ ~SaveOpen(p)
      BY <1>1 DEF ClearSha, Fetch, SaveOpen, Steps
    <2>2. ~FetchFails(p)
      BY <1>2 DEF FetchFails, Raise
    <2>3. ~Hash(p)
      BY <1>2, <1>3 DEF Hash, Raise, Steps
    <2> QED BY <1>4, <2>1, <2>2, <2>3 DEF Download
  <1>5. CASE Delete(p)
    <2>1. ~Unlink(p) /\ ~UnlinkSidecar(p)
      BY <1>1 DEF Unlink, UnlinkSidecar, Steps
    <2>2. ~Scan(p)
      BY <1>1, <1>2 DEF Scan, Raise, Steps
    <2>3. ~RmTree(p)
      BY <1>2 DEF RmTree
    <2> QED BY <1>5, <2>1, <2>2, <2>3 DEF Delete
  <1>6. CASE Verify(p)
    <2>1. ~Stat(p)
      BY <1>1, <1>2 DEF Stat, Raise, Steps
    <2>2. ~LoadSidecar(p)
      BY <1>2, <1>3 DEF LoadSidecar, Raise, Steps
    <2>3. ~Rehash(p)
      BY <1>2 DEF Rehash, Raise
    <2> QED BY <1>6, <2>1, <2>2, <2>3 DEF Verify
  <1>7. CASE Die(p)
    BY <1>2, <1>7 DEF Die
  <1> QED BY <1>4, <1>5, <1>6, <1>7

\* A step of an operation changes the job and the outcome of its process only.
LEMMA OthersStay ==
    ASSUME ModelsInv, NEW p \in Procs, Download(p) \/ Delete(p) \/ Verify(p) \/ Die(p)
    PROVE  \A q \in Procs \ {p} : job'[q] = job[q] /\ outcome'[q] = outcome[q]
  <1>1. job \in [Procs -> Job] /\ outcome \in [Procs -> Outcome]
    BY DEF ModelsInv, ModelsTypeOK
  <1>2. ASSUME NEW step, Continue(p, step), UNCHANGED outcome
        PROVE  \A q \in Procs \ {p} : job'[q] = job[q] /\ outcome'[q] = outcome[q]
    BY <1>1, <1>2 DEF Continue
  <1>3. ASSUME NEW kind, NEW sha, End(p, kind, sha)
        PROVE  \A q \in Procs \ {p} : job'[q] = job[q] /\ outcome'[q] = outcome[q]
    BY <1>1, <1>3 DEF End
  <1>4. ASSUME NEW step, NEW seen, job' = [job EXCEPT ![p].seen = seen, ![p].step = step],
               UNCHANGED outcome
        PROVE  \A q \in Procs \ {p} : job'[q] = job[q] /\ outcome'[q] = outcome[q]
    BY <1>1, <1>4
  <1>5. Download(p) => \A q \in Procs \ {p} : job'[q] = job[q] /\ outcome'[q] = outcome[q]
    BY <1>2, <1>3, <1>4
       DEF Download, ClearSha, Fetch, FetchFails, Raise, Hash, SaveOpen, SaveWrite
  <1>6. Delete(p) => \A q \in Procs \ {p} : job'[q] = job[q] /\ outcome'[q] = outcome[q]
    BY <1>2, <1>3 DEF Delete, Unlink, UnlinkSidecar, Scan, RmTree, Raise
  <1>7. Verify(p) \/ Die(p) =>
            \A q \in Procs \ {p} : job'[q] = job[q] /\ outcome'[q] = outcome[q]
    BY <1>2, <1>3, <1>4 DEF Verify, Stat, LoadSidecar, Rehash, Die, Raise
  <1> QED BY <1>5, <1>6, <1>7

\* With one writer a step that reports no download keeps what the last one left.
LEMMA KeptNext ==
    ASSUME StoreAssumption, OneWriter, ModelsInv, DownloadIsKept, [ModelsNext]_modelsVars
    PROVE  DownloadIsKept'
  <1> SUFFICES ASSUME NEW w \in Downloaders, job'[w].step = "idle", outcome'[w].kind = "downloaded"
               PROVE  /\ content'[outcome'[w].f] = outcome'[w].sha
                      /\ Stored(outcome[w].f)' = outcome'[w].sha
    BY DEF DownloadIsKept, At
  <1>0. w \in Procs /\ job[w] \in Job /\ job[w].f \in Files /\ outcome \in [Procs -> Outcome]
    BY DEF Procs, ModelsInv, ModelsTypeOK, Job
  <1>1. ASSUME job[w].step = "idle", outcome'[w] = outcome[w], UNCHANGED <<content, sidecar>>
        PROVE  /\ content'[outcome'[w].f] = outcome'[w].sha
               /\ Stored(outcome[w].f)' = outcome'[w].sha
    BY <1>1 DEF DownloadIsKept, At, Stored
  <1>2. ASSUME NEW p \in Procs, NEW f, NEW want, NEW full,
               NEW step \in {"clear", "stat", "unlink"}, Start(p, step, f, want, full)
        PROVE  job[w].step = "idle" /\ UNCHANGED <<content, sidecar, outcome>>
    <2>1. UNCHANGED <<content, sidecar, outcome>>
      BY <1>2 DEF Start, store
    <2>2. job'[p].step = step
      BY <1>2 DEF Start, ModelsInv, ModelsTypeOK
    <2>3. p # w
      BY <2>2
    <2> QED BY <1>2, <2>1, <2>3 DEF Start, ModelsInv, ModelsTypeOK
  <1>3. CASE \E p \in Downloaders, f \in Files :
                \/ \E want \in Bytes \cup {Absent} : StartDownload(p, f, want)
                \/ StartDelete(p, f)
    <2>1. job[w].step = "idle" /\ UNCHANGED <<content, sidecar, outcome>>
      BY <1>2, <1>3 DEF StartDownload, StartDelete, Procs
    <2> QED BY <1>1, <2>1
  <1>4. ASSUME NEW p \in Inspectors, NEW f \in Files, NEW want \in Bytes \cup {Absent},
               Resolve(p, f, want)
        PROVE  /\ content'[outcome'[w].f] = outcome'[w].sha
               /\ Stored(outcome[w].f)' = outcome'[w].sha
    <2>1. UNCHANGED <<content, sidecar, job>> /\ outcome' = [outcome EXCEPT ![p] = Promote(f, want)]
      BY <1>4 DEF Resolve, store
    <2>2. Promote(f, want).kind # "downloaded"
      BY DEF Promote
    <2>3. p # w
      BY <1>0, <2>1, <2>2
    <2> QED BY <1>0, <1>1, <2>1, <2>3
  <1>5. CASE \E p \in Inspectors, f \in Files, want \in Bytes \cup {Absent} :
                \E full \in BOOLEAN : StartVerify(p, f, want, full)
    <2>1. job[w].step = "idle" /\ UNCHANGED <<content, sidecar, outcome>>
      BY <1>2, <1>5 DEF StartVerify, Procs
    <2> QED BY <1>1, <2>1
  <1>6. ASSUME Download(w) \/ Delete(w) \/ Verify(w) \/ Die(w)
        PROVE  /\ content'[outcome'[w].f] = outcome'[w].sha
               /\ Stored(outcome[w].f)' = outcome'[w].sha
    <2>1. SaveWrite(w)
      BY <1>0, <1>6, OnlySaveReports
    <2>2. /\ content[job[w].f] \in Bytes /\ job[w].seen = content[job[w].f]
          /\ sidecar[job[w].f] = Torn
      BY <1>0, <2>1 DEF SaveWrite, ModelsInv, DownloadInv, At
    <2>3. outcome'[w].f = job[w].f /\ outcome'[w].sha = job[w].seen /\ content' = content
      BY <1>0, <2>1 DEF SaveWrite, End
    <2>4. sidecar'[job[w].f] = job[w].seen
      BY <1>0, <2>1, <2>2, StoreAssumption
         DEF SaveWrite, ModelsInv, ModelsTypeOK, StoreAssumption
    <2> QED BY <2>2, <2>3, <2>4 DEF Stored
  <1>7. ASSUME NEW p \in Procs \ {w}, Download(p) \/ Delete(p) \/ Verify(p) \/ Die(p)
        PROVE  /\ content'[outcome'[w].f] = outcome'[w].sha
               /\ Stored(outcome[w].f)' = outcome'[w].sha
    <2>1. job'[w] = job[w] /\ outcome'[w] = outcome[w]
      BY <1>0, <1>7, OthersStay
    <2>2. p \notin Downloaders
      BY DEF OneWriter
    <2>3. job[p].step \in {"idle", "stat", "sidecar", "rehash"}
      BY <2>2 DEF ModelsInv, DownloadInv, At
    <2>4. ~Download(p) /\ ~Delete(p)
      BY <2>3 DEF Download, ClearSha, Fetch, FetchFails, Hash, SaveOpen, SaveWrite,
                  Delete, Unlink, UnlinkSidecar, Scan, RmTree, At
    <2>5. UNCHANGED store
      BY <1>7, <2>4 DEF Verify, Stat, LoadSidecar, Rehash, Raise, Die
    <2> QED BY <1>1, <2>1, <2>5 DEF store
  <1>8. CASE UNCHANGED modelsVars
    BY <1>1, <1>8 DEF modelsVars
  <1> QED BY <1>3, <1>4, <1>5, <1>6, <1>7, <1>8 DEF ModelsNext

\* With one writing process, what a download returned stays in the store, certified,
\* until that process goes on, whatever the readers do and wherever they die.
THEOREM DownloadsAreKept ==
    ASSUME OneWriter PROVE ModelsSpec => []DownloadIsKept
  <1>1. ModelsInit => ModelsInv /\ DownloadIsKept
    <2>1. ASSUME ModelsInit PROVE DownloadIsKept
      BY <2>1 DEF ModelsInit, DownloadIsKept, Procs
    <2> QED BY <2>1, ModelsInvInit
  <1>2. (ModelsInv /\ DownloadIsKept) /\ [ModelsNext]_modelsVars => (ModelsInv /\ DownloadIsKept)'
    BY StoreAssumption, ModelsInvNext, KeptNext
  <1> QED BY <1>1, <1>2, PTL DEF ModelsSpec

\* A verification reports the digest of the bytes its last read of the file, or the
\* sidecar it trusts, stands for.
LEMMA HonestNext ==
    ASSUME StoreAssumption, ModelsInv, ModelsNext, NEW q \in Procs,
           outcome'[q] # outcome[q], outcome'[q].kind = "verified"
    PROVE  content[outcome'[q].f] \in {outcome'[q].sha, Absent}
  <1>0. /\ job \in [Procs -> Job] /\ outcome \in [Procs -> Outcome]
        /\ job[q] \in Job /\ job[q].f \in Files
    BY DEF ModelsInv, ModelsTypeOK, Job
  <1>1. ASSUME NEW kind, NEW sha, kind # "verified", End(q, kind, sha) PROVE FALSE
    BY <1>0, <1>1 DEF End
  <1>2. CASE \E p \in Downloaders, f \in Files :
                \/ \E want \in Bytes \cup {Absent} : StartDownload(p, f, want)
                \/ StartDelete(p, f)
    BY <1>2 DEF StartDownload, StartDelete, Start
  <1>3. CASE \E p \in Inspectors, f \in Files, want \in Bytes \cup {Absent} :
                \E full \in BOOLEAN : StartVerify(p, f, want, full)
    BY <1>3 DEF StartVerify, Start
  <1>4. ASSUME NEW p \in Inspectors, NEW f \in Files, NEW want \in Bytes \cup {Absent},
               Resolve(p, f, want)
        PROVE  FALSE
    <2>1. Promote(f, want).kind # "verified"
      BY DEF Promote
    <2> QED BY <1>0, <1>4, <2>1 DEF Resolve
  <1>5. ASSUME NEW p \in Procs \ {q}, Download(p) \/ Delete(p) \/ Verify(p) \/ Die(p)
        PROVE  FALSE
    BY <1>5, OthersStay
  <1>6. ~Download(q)
    BY <1>1 DEF Download, ClearSha, Fetch, FetchFails, Raise, Hash, SaveOpen, SaveWrite
  <1>7. ~Delete(q) /\ ~Die(q)
    BY <1>1 DEF Delete, Unlink, UnlinkSidecar, Scan, RmTree, Raise, Die
  <1>8. ASSUME NEW sha, End(q, "verified", sha)
        PROVE  outcome'[q].f = job[q].f /\ outcome'[q].sha = sha
    BY <1>0, <1>8 DEF End
  <1>9. CASE Verify(q)
    <2>1. ~Stat(q)
      BY <1>1 DEF Stat, Raise
    <2>2. CASE LoadSidecar(q)
      <3> DEFINE found == Stored(job[q].f)
      <3>1. End(q, "verified", found) /\ found # Absent
        BY <1>1, <2>2 DEF LoadSidecar, Raise
      <3>2. sidecar[job[q].f] \in Bytes /\ found = sidecar[job[q].f]
        BY <3>1 DEF Stored
      <3>3. content[job[q].f] \in {found, Absent}
        BY <1>0, <3>2 DEF ModelsInv, SidecarCertifiesBytes
      <3> QED BY <1>8, <3>1, <3>3
    <2>3. CASE Rehash(q)
      <3>1. End(q, "verified", job[q].seen) /\ content[job[q].f] = job[q].seen
        BY <1>1, <2>3 DEF Rehash, Raise
      <3> QED BY <1>8, <3>1
    <2> QED BY <1>9, <2>1, <2>2, <2>3 DEF Verify
  <1> QED BY <1>2, <1>3, <1>4, <1>5, <1>6, <1>7, <1>9 DEF ModelsNext

\* With one writing process, no other bytes than the reported ones are at the path
\* when a verification reports them, with the full rehash or with the sidecar alone.
THEOREM VerificationsAreHonest ==
    ASSUME OneWriter PROVE ModelsSpec => VerificationIsHonest
  <1>1. ModelsInit => ModelsInv
    BY ModelsInvInit
  <1>2. ModelsInv /\ [ModelsNext]_modelsVars => ModelsInv'
    BY StoreAssumption, ModelsInvNext
  <1>3. ModelsInv /\ [ModelsNext]_modelsVars =>
            [\A p \in Procs :
                /\ outcome'[p] # outcome[p] /\ outcome'[p].kind = "verified"
                => content[outcome'[p].f] \in {outcome'[p].sha, Absent}]_modelsVars
    BY StoreAssumption, HonestNext
  <1> QED BY <1>1, <1>2, <1>3, PTL DEF ModelsSpec, VerificationIsHonest
=============================================================================
