CONSTANTS
    p1 = p1 p2 = p2 c1 = c1 c2 = c2 t1 = t1 t2 = t2 k1 = k1 k2 = k2 u1 = u1
    Path = {p1}
    Content = {c1, c2}
    Absent = Absent
    Thread = {t1, t2}
    Uses <- Apart
    MaxPending = 2
    MaxGen = 2
    Caller = {k1, k2}
    Hosts <- Programs
    User = {u1}
    ChatDoc = {1, 2}
    MaxHeap = 3
    MaxObj = 4
    MaxEdits = 3
SPECIFICATION SharedSpec
SYMMETRY Symmetry
INVARIANTS NoEditDropped HandlesResolve CallbacksAreValid NothingLeaks OneWriter CommittedIsFound
