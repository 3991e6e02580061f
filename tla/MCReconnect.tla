---------------------------- MODULE MCReconnect ----------------------------
(* Reconnect on small instances: the constants' values for TLC.            *)
EXTENDS Reconnect

CONSTANTS l1, l2

MCLoops == {l1, l2}
=============================================================================
