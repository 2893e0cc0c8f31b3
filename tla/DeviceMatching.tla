--------------------------- MODULE DeviceMatching ---------------------------
(***************************************************************************)
(* Which of the devices a llama.cpp binary lists is the accelerator that   *)
(* was selected (runtime/device_matching.py).  The runtime numbers its     *)
(* devices itself: they are joined by name, before a run by match_runtime_ *)
(* device and after it by what the run's own output says.                  *)
(*                                                                         *)
(* A name is [base, note], the note the parenthesis at its end or None; a  *)
(* device has at least [id, name, software].                               *)
(***************************************************************************)
EXTENDS Naturals, FiniteSets, FiniteSetsExt

CONSTANT None

\* names_agree: the same name, or one of the two with an annotation more.
NamesAgree(a, b) ==
    \/ a = b
    \/ (a.note = None) # (b.note = None) /\ a.base = b.base

\* Mutant of MatchDevice: the only device listed will do for Vulkan too.
MatchAnyOnly(selection, devices) ==
    LET real  == {i \in DOMAIN devices : ~devices[i].software}
        named == {i \in real : /\ selection.accelerator # None
                               /\ NamesAgree(devices[i].name,
                                             selection.accelerator.name)}
    IN  CASE real = {} -> [device |-> None, reason |-> "none"]
          [] Cardinality(named) = 1 ->
                [device |-> devices[Min(named)], reason |-> "matched"]
          [] named = {} /\ Cardinality(real) = 1 ->
                [device |-> devices[Min(real)], reason |-> "matched"]
          [] OTHER -> [device |-> None, reason |-> "ambiguous"]

\* match_runtime_device
MatchDevice(selection, devices) ==
    LET real  == {i \in DOMAIN devices : ~devices[i].software}
        named == {i \in real : /\ selection.accelerator # None
                               /\ NamesAgree(devices[i].name,
                                             selection.accelerator.name)}
    IN  CASE real = {} -> [device |-> None, reason |-> "none"]
          [] Cardinality(named) = 1 ->
                [device |-> devices[Min(named)], reason |-> "matched"]
          [] Cardinality(named) > 1 \/ (named = {} /\ Cardinality(real) > 1) ->
                [device |-> None, reason |-> "ambiguous"]
          [] named = {} /\ Cardinality(real) = 1 ->
                IF selection.backend = "vulkan"
                THEN [device |-> None, reason |-> "mismatch"]
                ELSE [device |-> devices[Min(real)], reason |-> "matched"]

\* selected_accelerator_matches: what is known of the expected one.
SameAccelerator(expected, observed) ==
    /\ expected # None /\ observed # None
    /\ expected.vendor = observed.vendor
    /\ NamesAgree(expected.name, observed.name)
    /\ expected.device # None => observed.device = expected.device

\* Mutant of NamesConfirm: the device the run used is of the name, others may be too.
NamesAllow(output, id, name) ==
    \E d \in output : d.id = id /\ NamesAgree(d.name, name)

\* runtime_device_name_matches: of the devices a run's own output enumerates, the one
\* it used and no other has the name.
NamesConfirm(output, id, name) ==
    /\ {d.id : d \in {e \in output : NamesAgree(e.name, name)}} = {id}
    /\ \A d \in output : d.id = id => NamesAgree(d.name, name)
=============================================================================
