CONSTANTS
    r1 = r1 r2 = r2 m1 = m1 m2 = m2 d1 = d1 d2 = d2
    x = x y = y z = z blank = blank mute = mute
    Run = {r1}
    Model = {m1}
    Doc = {d1, d2}
    Text = {x, y, mute}
    Blank = {}
    Mute = {mute}
    Rank <- PlainRank
    Batch = 1
    MaxPassages = 1
    Prune = TRUE
    MaxWrites = 2
    MaxCompactions = 1
    MaxFaults = 1
SPECIFICATION Spec
INVARIANTS VectorOfItsText EmbeddedOnce
PROPERTY EventuallyCovered
