----------------------------- MODULE MCRoomTurns -----------------------------
(* A small room for TLC.  Seats are alike.                                   *)
EXTENDS RoomTurns, TLC

Symmetry == Permutations(Seats)
=============================================================================
