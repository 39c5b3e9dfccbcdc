---------------------------- MODULE MCOverlayIndex ----------------------------
\* Small instances of OverlayIndex.  Paths and contents are interchangeable.
EXTENDS OverlayIndex, TLC

Symmetry == Permutations(Path) \cup Permutations(Content)

===============================================================================
