----------------------------- MODULE MCDunning -----------------------------
EXTENDS DunningDispatch, TLC

CONSTANTS w1, w2, n1, n2

Symmetry == Permutations({w1, w2})
=============================================================================
