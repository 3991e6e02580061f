----------------------------- MODULE MCSettings -----------------------------
(* Settings for TLC: two channels, the second inside the first, and a file *)
(* that is fresh or has entries that say nothing of the volume.            *)
EXTENDS Settings

CONSTANTS root, sub

MCChannels == <<root, sub>>
MCFiles == {Fresh, [n \in Names |-> Unset]}

MCSymmetry == Permutations(Names)

=============================================================================
