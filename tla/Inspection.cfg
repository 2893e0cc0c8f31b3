SPECIFICATION Spec
CONSTANTS
    Inspectors = {p, q}
    Contents <- MCContents
    BaseConfig <- MCBaseConfig
    StampKinds = {"revision"}
    MaxRev = 2
    MaxNow = 1
    Ttl = 0
    Initial = 4
    Growth = 2
    MaxWindow = 8
    None = None
    Absent = Absent
    Unreadable = Unreadable
    NotGguf = NotGguf
    Incomplete = Incomplete
INVARIANTS
    AnswersAreCurrent
    PartSuffices
PROPERTIES
    EntriesStayReadable
SYMMETRY
    InspectorSymmetry
