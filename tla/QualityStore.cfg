SPECIFICATION Spec
CONSTANTS
    Record <- MCRecord
    Reusable = {"i1"}
    Invalid <- MCInvalid
    Writers = {w1, w2}
    Readers = {r1}
    None = None
    Damaged = Damaged
SYMMETRY Symmetry
INVARIANTS
    LookupIsASnapshot
PROPERTIES
    ImplementsLog
    AppliedAnswerIsStable
CHECK_DEADLOCK FALSE
