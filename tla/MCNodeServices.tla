--------------------------- MODULE MCNodeServices ---------------------------
\* Instances of NodeServices for TLC.
EXTENDS NodeClaims, TLC

CONSTANTS o1, o2

\* Operators are interchangeable (safety runs only).
Symmetry == Permutations(Operators)
=============================================================================
