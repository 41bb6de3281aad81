----------------------------- MODULE MCContent -----------------------------
EXTENDS Content, TLC

Symmetry == Permutations(Reqs)
=============================================================================
