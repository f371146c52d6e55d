--------------------------- MODULE MCPointerPath ---------------------------
\* PointerPath on small instances.
EXTENDS PointerPath, TLC

Symmetry == Permutations(Buttons) \cup Permutations(Sizes)
=============================================================================
