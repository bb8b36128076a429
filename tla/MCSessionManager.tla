-------------------------- MODULE MCSessionManager --------------------------
\* SessionManager with a few processes and session ids.
EXTENDS SessionManager, TLC

CONSTANTS p1, p2, q1, s1, s2, s3

Symmetry == Permutations(Starters) \cup Permutations(Ids)
=============================================================================
