---------------------------- MODULE QualityStore ----------------------------
(***************************************************************************)
(* The store of quality evaluations (evaluation/quality_storage.py and     *)
(* save_record, load_record of quality_records.py): processes that save a  *)
(* record system call by system call, fail or die anywhere, and readers    *)
(* that look evidence up while they do.                                    *)
(*                                                                         *)
(* A record is [identity, answers, run]: the identity digest groups an     *)
(* artifact and a protocol, `answers' is what repeat_key keeps and `run'   *)
(* (the date) tells repeats apart.  The digest of a record is the record.  *)
(***************************************************************************)
EXTENDS Integers, FiniteSets

CONSTANTS
    Record,       \* the records runs may produce: [identity, answers, run]
    Reusable,     \* identities of a complete run of an audited suite
    Invalid,      \* records validate_record refuses
    Writers,      \* processes that save
    Readers,      \* processes that look up
    None,         \* no file, no record, no answer
    Damaged       \* a file that load refuses: truncated, foreign, checksum mismatch

Identities == {r.identity : r \in Record}

\* path_for: the identity's own file, and one more for every repeated run.
Primary(i) == <<i>>
Repeated(r) == <<r.identity, r>>
Paths == {Primary(i) : i \in Identities} \cup {Repeated(r) : r \in Record}

ASSUME ConstantsAssumption ==
    /\ Record \subseteq [identity : Identities, answers : {r.answers : r \in Record},
                        run : {r.run : r \in Record}]
    /\ Reusable \subseteq Identities
    /\ Invalid \subseteq Record
    /\ None \notin Record /\ Damaged \notin Record /\ None # Damaged

VARIABLES
    file,      \* file[p]: the content published at path p
    pc,        \* pc[w]: where w is inside save
    rec,       \* rec[w]: the record w saves
    path,      \* path[w]: the path it is trying
    acked,     \* records whose save has returned a path
    lookup     \* lookup[r]: a reader's [identity, ids, found, listed, answer]

vars == <<file, pc, rec, path, acked, lookup>>

Contents == Record \cup {None, Damaged}

\* QualityEvidenceStore.load: the record at a path, or None where load raises.
Load(p) == IF file[p] \in Record THEN file[p] ELSE None

\* list_ids: the names in the directory; temporary files are hidden and never read.
ListIds == {p \in Paths : file[p] # None}

\* records: every readable record; an unreadable one is skipped.
StoredRecords == {Load(p) : p \in ListIds} \ {None}

Idle == [identity |-> None, ids |-> {}, found |-> {}, listed |-> {}, answer |-> None]

-----------------------------------------------------------------------------
(* What a set of records says.                                             *)

\* Mutant of Decide: the first repeat wins, disagreeing or not.
DecideFirst(S) == IF S = {} THEN None ELSE (CHOOSE r \in S : TRUE).answers

\* The end of lookup: repeats with one answer are one result, others are none.
Decide(S) == IF Cardinality({r.answers : r \in S}) = 1
             THEN (CHOOSE r \in S : TRUE).answers ELSE None

\* The complete runs of the audited suite among records of an artifact.
Complete(S) == {r \in S : r.identity \in Reusable}

\* Mutant of Distinct: one repeat stands for its identity before answers are compared.
DistinctByIdentity(S) ==
    {<<i, (CHOOSE r \in Complete(S) : r.identity = i).answers>> :
        i \in {r.identity : r \in Complete(S)}}

\* stored_quality: repeat_key holds the identity, so results of two identities
\* of one artifact are distinct results.
Distinct(S) == {<<r.identity, r.answers>> : r \in Complete(S)}

Applicable(S) == IF Cardinality(Distinct(S)) = 1
                 THEN CHOOSE d \in Distinct(S) : TRUE ELSE None

Conflict(S) == Cardinality(Distinct(S)) > 1

\* QualityCandidate.settled.
Settled(S) == Applicable(S) # None \/ Conflict(S)

-----------------------------------------------------------------------------
(* save.                                                                   *)

\* A store that exists already may hold a damaged file under an identity's name.
Init ==
    /\ \E bad \in SUBSET {Primary(i) : i \in Identities} :
          file = [p \in Paths |-> IF p \in bad THEN Damaged ELSE None]
    /\ pc = [w \in Writers |-> "idle"]
    /\ rec = [w \in Writers |-> None]
    /\ path = [w \in Writers |-> None]
    /\ acked = {}
    /\ lookup = [r \in Readers |-> Idle]

Goto(w, l) == pc' = [pc EXCEPT ![w] = l]

Leave(w) == /\ Goto(w, "idle")
            /\ rec' = [rec EXCEPT ![w] = None]
            /\ path' = [path EXCEPT ![w] = None]

\* save raises QualityStoreError.
Fail(w) == Leave(w) /\ UNCHANGED acked

\* save returns the path: the caller has been told that rec[w] is stored.
Return(w) == Leave(w) /\ acked' = acked \cup {rec[w]}

\* The primary path is taken by another run (or damaged): try the repeated one.
TryRepeated(w) ==
    /\ path' = [path EXCEPT ![w] = Repeated(rec[w])]
    /\ Goto(w, "check")
    /\ UNCHANGED <<rec, acked>>

Save(w) ==
    /\ pc[w] = "idle"
    /\ \E r \in Record :
          /\ rec' = [rec EXCEPT ![w] = r]
          /\ path' = [path EXCEPT ![w] = Primary(r.identity)]
    /\ Goto(w, "check")
    /\ UNCHANGED <<file, acked, lookup>>

\* path.is_file()
CheckPath(w) ==
    /\ pc[w] = "check"
    /\ Goto(w, IF file[path[w]] # None THEN "compare" ELSE "validate")
    /\ UNCHANGED <<file, rec, path, acked, lookup>>

\* Mutant of Compare: any record found under the name is taken for this one.
CompareIdentityOnly(w) ==
    /\ pc[w] = "compare"
    /\ IF Load(path[w]) # None THEN Return(w) ELSE TryRepeated(w)
    /\ UNCHANGED <<file, lookup>>

\* The record found: this very record, another run of the identity, or unreadable.
Compare(w) ==
    /\ pc[w] = "compare"
    /\ LET found == Load(path[w])  first == path[w] = Primary(rec[w].identity) IN
       CASE found = rec[w]             -> Return(w)
         [] found # rec[w] /\ first    -> TryRepeated(w)
         [] found # rec[w] /\ ~first   -> Fail(w)
    /\ UNCHANGED <<file, lookup>>

\* validate_record, mkdir and mkstemp.
CreateTemp(w) ==
    /\ pc[w] = "validate"
    /\ \/ rec[w] \notin Invalid /\ Goto(w, "write") /\ UNCHANGED <<rec, path, acked>>
       \/ Fail(w)
    /\ UNCHANGED <<file, lookup>>

\* Write, flush and fsync the temporary file.
WriteTemp(w) ==
    /\ pc[w] = "write"
    /\ \/ Goto(w, "link") /\ UNCHANGED <<rec, path, acked>>
       \/ Fail(w)
    /\ UNCHANGED <<file, lookup>>

\* os.link publishes the complete file, and fails where a name is taken; the
\* temporary name goes away on every way out.
Link(w) ==
    /\ pc[w] = "link"
    /\ \/ /\ file[path[w]] = None
          /\ file' = [file EXCEPT ![path[w]] = rec[w]]
          /\ Goto(w, "unlink") /\ UNCHANGED <<rec, path, acked>>
       \/ /\ file[path[w]] # None
          /\ Goto(w, "compare") /\ UNCHANGED <<file, rec, path, acked>>
       \/ Fail(w) /\ UNCHANGED file
    /\ UNCHANGED lookup

\* The temporary name is removed and the directory flushed; an error here is
\* reported as a failure although the record is published.
Finish(w) ==
    /\ pc[w] = "unlink"
    /\ Return(w) \/ Fail(w)
    /\ UNCHANGED <<file, lookup>>

\* The process dies; what it published stays.
Crash(w) ==
    /\ pc[w] # "idle"
    /\ Fail(w)
    /\ UNCHANGED <<file, lookup>>

SaveStep(w) == \/ Save(w) \/ CheckPath(w) \/ Compare(w) \/ CreateTemp(w)
               \/ WriteTemp(w) \/ Link(w) \/ Finish(w) \/ Crash(w)

-----------------------------------------------------------------------------
(* lookup.                                                                 *)

Belongs(p, i) == p[1] = i

\* lookup lists the names of the identity first ...
BeginLookup(r) ==
    /\ lookup[r].identity = None
    /\ \E i \in Identities :
          LET ids == {p \in ListIds : Belongs(p, i)} IN
          lookup' = [lookup EXCEPT ![r] =
              [Idle EXCEPT !.identity = i, !.ids = ids,
                           !.listed = {Load(p) : p \in ids} \ {None}]]
    /\ UNCHANGED <<file, pc, rec, path, acked>>

\* ... and then opens them one by one, keeping what is reusable.
ReadNext(r) ==
    /\ \E p \in lookup[r].ids :
          lookup' = [lookup EXCEPT ![r].ids = @ \ {p},
                                   ![r].found = @ \cup Complete({Load(p)} \ {None})]
    /\ UNCHANGED <<file, pc, rec, path, acked>>

EndLookup(r) ==
    /\ lookup[r].identity # None /\ lookup[r].ids = {}
    /\ lookup' = [lookup EXCEPT ![r] = [@ EXCEPT !.identity = None, !.found = {},
                                                 !.answer = Decide(lookup[r].found)]]
    /\ UNCHANGED <<file, pc, rec, path, acked>>

Next == \/ \E w \in Writers : SaveStep(w)
        \/ \E r \in Readers : BeginLookup(r) \/ ReadNext(r) \/ EndLookup(r)

Spec == Init /\ [][Next]_vars

-----------------------------------------------------------------------------
(* Properties.                                                             *)

\* Every variable keeps its type.
TypeOK ==
    /\ file \in [Paths -> Contents]
    /\ pc \in [Writers -> {"idle", "check", "compare", "validate", "write", "link", "unlink"}]
    /\ rec \in [Writers -> Record \cup {None}]
    /\ path \in [Writers -> Paths \cup {None}]
    /\ acked \subseteq Record

Log == INSTANCE EvidenceLog WITH Records <- Record, log <- StoredRecords

\* The store implements the log: whatever writers race, fail or die, a reader
\* sees complete records only, none is ever replaced or withdrawn, and a path is
\* returned only for a record that can be read back.
ImplementsLog == Log!Spec

\* A lookup answers from the directory as it was listed: records that appear
\* while it reads never mix two moments into one answer, and repeats that
\* disagree are never chosen between.
LookupIsASnapshot ==
    \A r \in Readers :
        lookup[r].identity = None /\ lookup[r].answer # None =>
            {x.answers : x \in Complete(lookup[r].listed)} = {lookup[r].answer}

\* The result a plan is ranked with may be lost to a disagreeing repeat, but a
\* later record never turns it into another result, and an artifact that needs no
\* further run never needs one again.
AppliedAnswerIsStable ==
    [][/\ Applicable(StoredRecords) # None =>
              Applicable(StoredRecords') = Applicable(StoredRecords) \/ Conflict(StoredRecords')
       /\ Settled(StoredRecords) => Settled(StoredRecords')
       /\ Conflict(StoredRecords) => Conflict(StoredRecords')]_vars
=============================================================================
