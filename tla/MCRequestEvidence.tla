--------------------------- MODULE MCRequestEvidence ---------------------------
EXTENDS RequestEvidence, TLC

CONSTANTS k1, k2, x1, x2

Symmetry == Permutations(Answers) \cup Permutations(Cancellations)
=============================================================================
