---------------------------- MODULE RuntimeLocator ----------------------------
(***************************************************************************)
(* Where the runtimes are: RuntimeLocator and RuntimeRegistry              *)
(* (runtime/locator.py).  What is configured wins, found or not; else the  *)
(* registry, PATH and the usual build directories are asked in this order, *)
(* and the first installation that is ready for a backend is selected.     *)
(*                                                                         *)
(* A path is <<directory, name>>, the name "cli" or "bench".  A disk is    *)
(* [files: what is at each path, config, registry, onPath, builds]: the    *)
(* pair configured, the pairs registered, the pair PATH leads to, and the  *)
(* build directories.  A pair is [cli, bench], a path or None each.        *)
(***************************************************************************)
EXTENDS Naturals, Sequences

CONSTANT None

-----------------------------------------------------------------------------
(* llama.cpp.                                                              *)

Pair(cli, bench) == [cli |-> cli, bench |-> bench]

Runnable(disk, path) == disk.files[path] = "runnable"

\* _resolve_candidate: the path and how it was resolved.
Candidate(disk, path) ==
    [path |-> path,
     status |-> IF path = None THEN "not_found"
                ELSE CASE disk.files[path] = "absent"   -> "not_found"
                       [] disk.files[path] = "blocked"  -> "not_executable"
                       [] disk.files[path] = "runnable" -> "found"]

\* _sibling_binary: what lies beside a binary that was found stands in for what is not known.
WithSibling(disk, candidate, other, name) ==
    LET beside == <<other.path[1], name>>
    IN  IF other.status = "found" /\ candidate.path = None
        THEN Candidate(disk, IF Runnable(disk, beside) THEN beside ELSE None)
        ELSE candidate

\* _combined_llama_status
CombinedStatus(cli, bench, configured) ==
    LET statuses == {cli.status, bench.status}
    IN  IF "not_executable" \in statuses THEN "not_executable"
        ELSE IF "found" \in statuses THEN "found"
        ELSE IF configured THEN "configured_missing" ELSE "not_found"

\* _llama_installation_from_candidates
InstallationOf(disk, pair, configured) ==
    LET bench == WithSibling(disk, Candidate(disk, pair.bench),
                             Candidate(disk, pair.cli), "bench")
        cli   == WithSibling(disk, Candidate(disk, pair.cli), bench, "cli")
    IN  [cli |-> cli.path, bench |-> bench.path,
         status |-> CombinedStatus(cli, bench, configured)]

\* _llama_installation_is_valid
Valid(disk, installation) ==
    /\ installation.status = "found"
    /\ \A path \in {installation.cli, installation.bench} \ {None} : Runnable(disk, path)

\* _explicit_llama_cpp
Explicit(disk) ==
    IF disk.config = Pair(None, None) THEN <<>>
    ELSE <<InstallationOf(disk, disk.config, TRUE)>>

\* RuntimeRegistry.load_llama_cpp
Registered(disk) ==
    LET loaded == [i \in DOMAIN disk.registry |-> InstallationOf(disk, disk.registry[i], FALSE)]
        valid(installation) == Valid(disk, installation)
    IN  SelectSeq(loaded, valid)

\* _path_llama_cpp: an installation for each of the two binaries.
OnPath(disk) ==
    LET found(pair) == pair # Pair(None, None)
        pairs == SelectSeq(<<Pair(disk.onPath.cli, None), Pair(None, disk.onPath.bench)>>, found)
    IN  [i \in DOMAIN pairs |-> InstallationOf(disk, pairs[i], FALSE)]

\* _bounded_llama_cpp_discovery
InBuildDirectories(disk) ==
    LET here(d, name) == IF Runnable(disk, <<d, name>>) THEN <<d, name>> ELSE None
        pairs == [i \in DOMAIN disk.builds |->
                     Pair(here(disk.builds[i], "cli"), here(disk.builds[i], "bench"))]
        any(pair) == pair # Pair(None, None)
        found == SelectSeq(pairs, any)
    IN  [i \in DOMAIN found |-> InstallationOf(disk, found[i], FALSE)]

\* _dedupe_llama_installations: by the two paths, the first stays.
Deduplicated(installations) ==
    LET paths(i) == Pair(installations[i].cli, installations[i].bench)
        first(i) == \A j \in 1..(i - 1) : paths(j) # paths(i)
        kept == SelectSeq([i \in DOMAIN installations |-> i], first)
    IN  [k \in DOMAIN kept |-> installations[kept[k]]]

\* discover_llama_cpp
DiscoverLlama(disk) ==
    IF Explicit(disk) # <<>> THEN Explicit(disk)
    ELSE Deduplicated(Registered(disk) \o OnPath(disk) \o InBuildDirectories(disk))

NotFound == [cli |-> None, bench |-> None, status |-> "not_found"]

FirstOr(installations, otherwise) ==
    IF installations = <<>> THEN otherwise ELSE Head(installations)

\* resolve_llama_cpp
ResolveLlama(disk) ==
    LET found(installation) == installation.status = "found"
    IN  FirstOr(Explicit(disk),
                FirstOr(SelectSeq(DiscoverLlama(disk), found), NotFound))

\* select_llama_cpp: the first that is ready for the selection, else the first.
SelectLlama(disk, ready) ==
    LET chosen(i) == i.status = "found" /\ i.cli # None /\ i.cli \in ready
        all == DiscoverLlama(disk)
    IN  FirstOr(SelectSeq(all, chosen), FirstOr(all, ResolveLlama(disk)))

-----------------------------------------------------------------------------
(* Python.  The interpreters are [explicit, registered, current]: what is  *)
(* at each, "runnable", "blocked" or "absent", None when none is named.    *)

\* _pytorch_installation
PythonStatus(is, configured) ==
    CASE is = "runnable" -> "found"
      [] is = "blocked"  -> "not_executable"
      [] is = "absent"   -> IF configured THEN "configured_missing" ELSE "not_found"

\* resolve_pytorch, with load_pytorch: of what is registered only what runs counts.
ResolvePytorch(pythons) ==
    LET runs(is) == is = "runnable"
    IN  IF pythons.explicit # None THEN PythonStatus(pythons.explicit, TRUE)
        ELSE IF SelectSeq(pythons.registered, runs) # <<>> THEN "found"
        ELSE IF pythons.current = None THEN "not_found"
        ELSE PythonStatus(pythons.current, FALSE)
=============================================================================
