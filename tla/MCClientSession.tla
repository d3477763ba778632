--------------------------- MODULE MCClientSession ---------------------------
(***************************************************************************)
(* Instances of ClientSession for TLC: a replay-safe read beside a         *)
(* mutation or a broadcast, on a ring of two slots whose identifier        *)
(* counter wraps during the run.                                           *)
(***************************************************************************)
EXTENDS ClientSession, TLC

CONSTANTS r, w

ReadAndWrite == r :> "ReplaySafe" @@ w :> "Mutating"
ReadAndCast == r :> "ReplaySafe" @@ w :> "Broadcast"
=============================================================================
