---------------------------- MODULE MCStartLock ----------------------------
\* StartLock on a few processes.
EXTENDS StartLock, TLC

CONSTANTS p1, p2, p3

Symmetry == Permutations(Procs)
=============================================================================
