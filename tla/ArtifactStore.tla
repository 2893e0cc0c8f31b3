--------------------------- MODULE ArtifactStore ---------------------------
(***************************************************************************)
(* One repository folder of the local model store: artifacts/service.py    *)
(* (download, verify, resolve) over artifacts/storage.py (files, SHA-256   *)
(* sidecars, delete).  Each process is a Jaull process (CLI or TUI) that   *)
(* runs one operation at a time; the steps of an operation are the system  *)
(* calls another process, or a crash, can fall between.                    *)
(*                                                                         *)
(* A file's content is a member of Bytes and stands for its own digest.    *)
(***************************************************************************)
EXTENDS Naturals

CONSTANTS
    Files,        \* file names of one <owner>/<repo> folder
    Bytes,        \* contents a file may have
    Downloaders,  \* processes that download and delete
    Inspectors,   \* processes that resolve and verify
    Absent,       \* no file, no sidecar, no expected digest
    Torn          \* a sidecar opened for writing and still empty

ASSUME StoreAssumption == Absent \notin Bytes /\ Torn \notin Bytes /\ Absent # Torn

Procs == Downloaders \cup Inspectors

Steps == {"idle", "clear", "fetch", "hash", "open", "write",
          "stat", "sidecar", "rehash",
          "unlink", "unsidecar", "scan", "rmtree"}

Job == [step : Steps, f : Files, want : Bytes \cup {Absent}, full : BOOLEAN,
        seen : Bytes \cup {Absent}]

Outcome == [kind : {"none", "error", "crashed", "resolved", "downloaded", "verified", "deleted"},
            f : Files, sha : Bytes \cup {Absent}]

Resting(f) == [step |-> "idle", f |-> f, want |-> Absent, full |-> FALSE, seen |-> Absent]

VARIABLES
    folder,   \* whether the repository folder exists
    content,  \* content[f]: the bytes at f's path
    sidecar,  \* sidecar[f]: the digest stored beside it
    job,      \* job[p]: the operation process p is in
    outcome   \* outcome[p]: how its last operation ended

store == <<folder, content, sidecar>>

modelsVars == <<folder, content, sidecar, job, outcome>>

ModelsInit ==
    /\ folder = FALSE
    /\ content = [f \in Files |-> Absent]
    /\ sidecar = [f \in Files |-> Absent]
    /\ \E f \in Files :
          /\ job = [p \in Procs |-> Resting(f)]
          /\ outcome = [p \in Procs |-> [kind |-> "none", f |-> f, sha |-> Absent]]

-----------------------------------------------------------------------------
(* Steps of a job.                                                         *)

At(p, step) == job[p].step = step

Start(p, step, f, want, full) ==
    /\ At(p, "idle")
    /\ job' = [job EXCEPT ![p] = [step |-> step, f |-> f, want |-> want, full |-> full,
                                  seen |-> Absent]]
    /\ UNCHANGED <<store, outcome>>

Continue(p, step) == job' = [job EXCEPT ![p].step = step]

\* The operation returns or raises; its job is over.
End(p, kind, sha) ==
    /\ job' = [job EXCEPT ![p] = Resting(job[p].f)]
    /\ outcome' = [outcome EXCEPT ![p] = [kind |-> kind, f |-> job[p].f, sha |-> sha]]

Raise(p) == End(p, "error", Absent) /\ UNCHANGED store

\* What load_sha256 returns: an empty sidecar reads as a missing one.
Stored(f) == IF sidecar[f] \in Bytes THEN sidecar[f] ELSE Absent

-----------------------------------------------------------------------------
(* ArtifactService.resolve: the hub's artifact, promoted if it is present. *)

\* _promote_if_present: the stored digest, unless it contradicts the hub's.
Promote(f, want) ==
    IF content[f] = Absent \/ Stored(f) = Absent
    THEN [kind |-> "resolved", f |-> f, sha |-> want]
    ELSE IF want # Absent /\ Stored(f) # want
         THEN [kind |-> "error", f |-> f, sha |-> Absent]
         ELSE [kind |-> "resolved", f |-> f, sha |-> Stored(f)]

Resolve(p, f, want) ==
    /\ At(p, "idle")
    /\ outcome' = [outcome EXCEPT ![p] = Promote(f, want)]
    /\ UNCHANGED <<store, job>>

-----------------------------------------------------------------------------
(* ArtifactService.download.                                               *)

StartDownload(p, f, want) == Start(p, "clear", f, want, FALSE)

\* Mutant of ClearSha: the old digest stays while the bytes are replaced.
KeepSha(p) ==
    /\ At(p, "clear")
    /\ folder' = TRUE
    /\ Continue(p, "fetch")
    /\ UNCHANGED <<content, sidecar, outcome>>

\* ensure_parent and clear_sha256.
ClearSha(p) ==
    /\ At(p, "clear")
    /\ folder' = TRUE
    /\ sidecar' = [sidecar EXCEPT ![job[p].f] = Absent]
    /\ Continue(p, "fetch")
    /\ UNCHANGED <<content, outcome>>

\* The downloader moves the finished file into place in one step.
Fetch(p) ==
    /\ At(p, "fetch")
    /\ folder' = TRUE
    /\ \E v \in Bytes : content' = [content EXCEPT ![job[p].f] = v]
    /\ Continue(p, "hash")
    /\ UNCHANGED <<sidecar, outcome>>

\* Gated, missing, HTTP or I/O error: whatever was at the path stays.
FetchFails(p) == At(p, "fetch") /\ Raise(p)

\* _sha256_of and the comparison with the expected digest.
Hash(p) ==
    /\ At(p, "hash")
    /\ LET f == job[p].f  want == job[p].want IN
       \/ /\ content[f] = Absent \/ (want # Absent /\ content[f] # want)
          /\ Raise(p)
       \/ /\ content[f] # Absent /\ (want = Absent \/ content[f] = want)
          /\ job' = [job EXCEPT ![p].seen = content[f], ![p].step = "open"]
          /\ UNCHANGED <<store, outcome>>

\* save_sha256 opens the sidecar, truncating it ...
SaveOpen(p) ==
    /\ At(p, "open")
    /\ folder' = TRUE
    /\ sidecar' = [sidecar EXCEPT ![job[p].f] = Torn]
    /\ Continue(p, "write")
    /\ UNCHANGED <<content, outcome>>

\* Mutant of SaveWrite: the expected digest is stored, not the computed one.
SaveWriteWanted(p) ==
    /\ At(p, "write")
    /\ sidecar' = [sidecar EXCEPT ![job[p].f] = job[p].want]
    /\ End(p, "downloaded", job[p].seen)
    /\ UNCHANGED <<folder, content>>

\* ... and writes the digest; a sidecar unlinked since takes the write with it.
SaveWrite(p) ==
    /\ At(p, "write")
    /\ LET f == job[p].f IN
       sidecar' = [sidecar EXCEPT ![f] = IF sidecar[f] = Absent THEN Absent ELSE job[p].seen]
    /\ End(p, "downloaded", job[p].seen)
    /\ UNCHANGED <<folder, content>>

-----------------------------------------------------------------------------
(* ArtifactService.verify.                                                 *)

StartVerify(p, f, want, full) == Start(p, "stat", f, want, full)

\* The file must be there; a content other than the expected one may already
\* show in its size.
Stat(p) ==
    /\ At(p, "stat")
    /\ LET f == job[p].f  want == job[p].want IN
       \/ content[f] # Absent /\ Continue(p, "sidecar") /\ UNCHANGED <<store, outcome>>
       \/ /\ content[f] = Absent \/ (want # Absent /\ content[f] # want)
          /\ Raise(p)

\* Mutant of LoadSidecar: an empty sidecar passes for the expected digest.
LoadSidecarLoose(p) ==
    /\ At(p, "sidecar")
    /\ LET f == job[p].f  want == job[p].want IN
       \/ /\ sidecar[f] = Torn /\ want # Absent
          /\ End(p, "verified", want) /\ UNCHANGED store
       \/ /\ sidecar[f] # Torn \/ want = Absent
          /\ Raise(p)

LoadSidecar(p) ==
    /\ At(p, "sidecar")
    /\ LET f == job[p].f  want == job[p].want  found == Stored(f) IN
       \/ /\ found = Absent \/ (want # Absent /\ found # want)
          /\ Raise(p)
       \/ /\ found # Absent /\ (want = Absent \/ found = want)
          /\ \/ /\ job[p].full
                /\ job' = [job EXCEPT ![p].seen = found, ![p].step = "rehash"]
                /\ UNCHANGED <<store, outcome>>
             \/ ~job[p].full /\ End(p, "verified", found) /\ UNCHANGED store

Rehash(p) ==
    /\ At(p, "rehash")
    /\ \/ content[job[p].f] = job[p].seen /\ End(p, "verified", job[p].seen) /\ UNCHANGED store
       \/ content[job[p].f] # job[p].seen /\ Raise(p)

-----------------------------------------------------------------------------
(* ArtifactStorage.delete.                                                 *)

StartDelete(p, f) == Start(p, "unlink", f, Absent, FALSE)

Unlink(p) ==
    /\ At(p, "unlink")
    /\ content' = [content EXCEPT ![job[p].f] = Absent]
    /\ Continue(p, "unsidecar")
    /\ UNCHANGED <<folder, sidecar, outcome>>

\* The sidecar and the download metadata.
UnlinkSidecar(p) ==
    /\ At(p, "unsidecar")
    /\ sidecar' = [sidecar EXCEPT ![job[p].f] = Absent]
    /\ Continue(p, "scan")
    /\ UNCHANGED <<folder, content, outcome>>

\* iterdir raises if the folder is gone; the folder stays if it holds a model.
Scan(p) ==
    /\ At(p, "scan")
    /\ \/ ~folder /\ Raise(p)
       \/ /\ folder /\ \E g \in Files : content[g] # Absent
          /\ End(p, "deleted", Absent) /\ UNCHANGED store
       \/ /\ folder /\ \A g \in Files : content[g] = Absent
          /\ Continue(p, "rmtree") /\ UNCHANGED <<store, outcome>>

\* rmtree removes whatever the folder holds by now.
RmTree(p) ==
    /\ At(p, "rmtree")
    /\ folder' = FALSE
    /\ content' = [g \in Files |-> Absent]
    /\ sidecar' = [g \in Files |-> Absent]
    /\ End(p, "deleted", Absent)

-----------------------------------------------------------------------------

\* The process dies between two system calls; a new one finds the store as it is.
Die(p) == ~At(p, "idle") /\ End(p, "crashed", Absent) /\ UNCHANGED store

Download(p) == ClearSha(p) \/ Fetch(p) \/ FetchFails(p) \/ Hash(p) \/ SaveOpen(p) \/ SaveWrite(p)

Delete(p) == Unlink(p) \/ UnlinkSidecar(p) \/ Scan(p) \/ RmTree(p)

Verify(p) == Stat(p) \/ LoadSidecar(p) \/ Rehash(p)

ModelsNext ==
    \/ \E p \in Downloaders, f \in Files :
          \/ \E want \in Bytes \cup {Absent} : StartDownload(p, f, want)
          \/ StartDelete(p, f)
    \/ \E p \in Inspectors, f \in Files, want \in Bytes \cup {Absent} :
          Resolve(p, f, want) \/ \E full \in BOOLEAN : StartVerify(p, f, want, full)
    \/ \E p \in Procs : Download(p) \/ Delete(p) \/ Verify(p) \/ Die(p)

ModelsSpec == ModelsInit /\ [][ModelsNext]_modelsVars

-----------------------------------------------------------------------------
(* Properties.                                                             *)

\* Every variable keeps its type.
ModelsTypeOK ==
    /\ folder \in BOOLEAN
    /\ content \in [Files -> Bytes \cup {Absent}]
    /\ sidecar \in [Files -> Bytes \cup {Absent, Torn}]
    /\ job \in [Procs -> Job]
    /\ outcome \in [Procs -> Outcome]

\* A digest on disk is the digest of the bytes beside it, across failed
\* downloads, interrupted saves, deletes and crashes between any two calls.
SidecarCertifiesBytes ==
    \A f \in Files : content[f] # Absent /\ sidecar[f] \in Bytes => sidecar[f] = content[f]

\* When a verification reports a digest, no other bytes are at the path, also
\* while another process downloads the file; they may just have been deleted.
VerificationIsHonest ==
    [][\A p \in Procs :
          /\ outcome'[p] # outcome[p] /\ outcome'[p].kind = "verified"
          => content[outcome'[p].f] \in {outcome'[p].sha, Absent}]_modelsVars

\* What download returned is what the store holds until its process goes on:
\* the expected bytes, certified.
DownloadIsKept ==
    \A p \in Downloaders : At(p, "idle") /\ outcome[p].kind = "downloaded" =>
        /\ content[outcome[p].f] = outcome[p].sha
        /\ Stored(outcome[p].f) = outcome[p].sha

=============================================================================
