----------------------------- MODULE MCRpwMutex -----------------------------
(* RpwMutex with three goroutines that nest their read locks twice.        *)
EXTENDS RpwMutex, TLC

CONSTANTS p1, p2, p3

MCProcs == {p1, p2, p3}
MCSymmetry == Permutations(MCProcs)
=============================================================================
