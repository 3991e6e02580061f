----------------------------- MODULE MCPlayback -----------------------------
(* Playback for TLC: a conversation that is recorded, or one a file is played *)
(* to. The two meet at the renderer only, where each of their steps is short. *)
EXTENDS Playback

MCInit == Init /\ (attached => file = "none")

MCSpec == MCInit /\ [][Next]_vars /\ Fairness

=============================================================================
