CONSTANTS
    p1 = p1 p2 = p2
    Path = {p1, p2}
    PathBytes <- BytesOf
    GramsOf <- GramSets
    PageSize = 8
    Threshold = 2
    Radix = 4
    MaxDigits = 5
    LaterBase = 5
    MaxSegments = 1
    MaxName = 3
    Trees = {{p1, p2}}
    Kinds = {"build", "flush", "compact"}
    MayFail = TRUE
SPECIFICATION Spec
CHECK_DEADLOCK FALSE
INVARIANTS ManifestFilesExist
PROPERTIES OnlyManifestPublishes VerifyFindsLoss LossIsNotCompacted
