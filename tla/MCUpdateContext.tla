--------------------------- MODULE MCUpdateContext ---------------------------
EXTENDS UpdateContext, TLC

Symmetry == Permutations(Version)
=============================================================================
