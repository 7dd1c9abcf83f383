---------------------------- MODULE MCEnrollment ----------------------------
EXTENDS Enrollment, TLC
CONSTANTS n1, n2, c1, c2, e1, e2
Symmetric == Permutations({c1, c2}) \cup Permutations({e1, e2})
=============================================================================
