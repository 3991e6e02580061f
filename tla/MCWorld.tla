------------------------------ MODULE MCWorld ------------------------------
(* World with three channels and two users, as many objects as numbers: an *)
(* object is made anew while some number has not been used.               *)
EXTENDS World, TLC

CONSTANTS c0, c1, c2, u1, u2

MCIds == 0 .. 2
MCChans == {c0, c1, c2}
MCSessions == {1, 2}
MCWildSessions == {1}
MCUsers == {u1, u2}
MCLinkSets == {{1}}
MCSymmetry == Permutations(MCChans) \cup Permutations(MCUsers)
=============================================================================
