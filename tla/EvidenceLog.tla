---------------------------- MODULE EvidenceLog ----------------------------
(***************************************************************************)
(* What a store of measurements promises: a log of immutable records.      *)
(* A record may appear at any time; none is ever replaced or withdrawn;    *)
(* and a caller is told "saved" only of a record that is in the log.       *)
(***************************************************************************)
CONSTANT Records

VARIABLES log,    \* the records a reader can load
          acked   \* the records some caller was told are saved

vars == <<log, acked>>

Init == log = {} /\ acked = {}

Append(r) == log' = log \cup {r} /\ UNCHANGED acked

Acknowledge(r) == r \in log /\ acked' = acked \cup {r} /\ UNCHANGED log

Next == \E r \in Records : Append(r) \/ Acknowledge(r)

Spec == Init /\ [][Next]_vars
=============================================================================
