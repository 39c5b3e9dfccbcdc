CONSTANTS
    s1 = s1 s2 = s2 k1 = k1 k2 = k2 v1 = v1 v2 = v2
    Session = {s1, s2}
    Key = {k1}
    Text = {v1}
    Nothing = Nothing
    Unreadable = Unreadable
    Faults = {"write"}
    FlushTurns = 2
    BatchDocs = 2
    MaxSegments = 1
    MaxTurns = 2
    MaxWrites = 2
    MaxEvents = 1
SPECIFICATION Spec
SYMMETRY DataSymmetry
CHECK_DEADLOCK FALSE
INVARIANTS AckedIsRecoverable ForgottenStaysGone
PROPERTIES ImplementsBook
