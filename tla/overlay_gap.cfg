SPECIFICATION Spec
CONSTANTS
  Path = {p1, p2}
  Content = {c1}
  Absent = Absent
  Unindexable = Unindexable
  MaxSegments = 1
  EnforcePercent = 100
  CompactPercent = 10
  MaxDocId = 3
SYMMETRY Symmetry
PROPERTIES FlushOpens
