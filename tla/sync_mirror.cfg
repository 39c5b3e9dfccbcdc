CONSTANTS
    t1 = t1 t2 = t2 p1 = p1 p2 = p2
    Thread = {t1, t2}
    Name = {p1}
    Large = {p1}
    Binary = {2}
    Env = {}
    MaxVersion = 3
    MaxIgnores = 1
    MaxPartial = 1
    MaxFaults = 1
SPECIFICATION SpecSync
PROPERTIES SyncedIsMirrored EventuallyMirrored
