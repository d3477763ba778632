--------------------------- MODULE MCServerLifecycle ---------------------------
(***************************************************************************)
(* Instances of ServerLifecycle for TLC.                                   *)
(***************************************************************************)
EXTENDS ServerLifecycle, TLC

CONSTANTS sock1, sock2, sock3, stop1, stop2

\* One socket more than the listener admits.
MCThreeSockets == {sock1, sock2, sock3}

MCTwoSockets == {sock1, sock2}
MCTwoStoppers == {stop1, stop2}

Symmetry == Permutations(MCThreeSockets) \cup Permutations(MCTwoStoppers)
================================================================================
