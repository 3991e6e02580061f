--------------------------- MODULE MCAudioStreams ---------------------------
(* AudioStreams with the two readers, two streams and one or two users.    *)
EXTENDS AudioStreams, TLC

CONSTANTS tcp, udp, s1, s2, alice, bob

MCDispatchers == {tcp, udp}
MCStreams == {s1, s2}
MCOneStream == {s1}
MCUsers == {alice, bob}
MCOneUser == {alice}
MCSymmetry == Permutations(MCDispatchers) \cup Permutations(MCUsers) \cup Permutations(MCStreams)
=============================================================================
