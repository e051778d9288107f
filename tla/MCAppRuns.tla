----------------------------- MODULE MCAppRuns ------------------------------
EXTENDS AppRuns, TLC

CONSTANTS w1, w2, w3, c1, c2, r1, r2, r3

Symmetry == Permutations({w1, w2}) \cup Permutations({r1, r2})
=============================================================================
