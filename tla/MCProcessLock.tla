---------------------------- MODULE MCProcessLock ----------------------------
(* ProcessLock with three process incarnations.                              *)
EXTENDS ProcessLock, TLC

CONSTANTS p1, p2, p3

ThreeProcesses == {p1, p2, p3}

Symmetry == Permutations(ThreeProcesses)
=============================================================================
