--------------------------- MODULE MCQualityStore ---------------------------
(* A small instance of QualityStore for TLC.                               *)
EXTENDS QualityStore, TLC

\* Two runs that agree, one that does not, and one the contract refuses.
MCRecord == {[identity |-> "i1", answers |-> "a1", run |-> 1],
             [identity |-> "i1", answers |-> "a1", run |-> 2],
             [identity |-> "i1", answers |-> "a2", run |-> 1],
             [identity |-> "i1", answers |-> "a3", run |-> 1]}

MCInvalid == {r \in MCRecord : r.answers = "a3"}

Symmetry == Permutations(Writers)
=============================================================================
