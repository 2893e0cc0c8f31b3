SPECIFICATION ModelsSpec
CONSTANTS
    Files = {f1, f2}
    Bytes = {b1, b2}
    Downloaders = {w1}
    Inspectors = {r1}
    Absent = Absent
    Torn = Torn
INVARIANTS
    SidecarCertifiesBytes
    DownloadIsKept
PROPERTIES
    VerificationIsHonest
