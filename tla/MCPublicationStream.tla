------------------------ MODULE MCPublicationStream ------------------------
EXTENDS PublicationStream, TLC

\* Publishers and contents are interchangeable; consumers are not permuted,
\* so that liveness, which is checked without symmetry, reads the same.
Symmetric == Permutations(Publishers) \cup Permutations(Contents)
=============================================================================
