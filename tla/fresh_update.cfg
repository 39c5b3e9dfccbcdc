CONSTANTS
    p1 = p1 p2 = p2 c1 = c1 c2 = c2
    Path = {p1, p2}
    Content = {c1, c2}
    Absent = Absent
    MaxMoves = 5
    MaxLog = 3
    HeadMoves = FALSE
    Slow = FALSE
    Drains = FALSE
SPECIFICATION Spec
SYMMETRY DataSymmetry
INVARIANTS DriftIsFresh BaseIsApplied CleanIsFresh
