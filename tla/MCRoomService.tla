--------------------------- MODULE MCRoomService ---------------------------
(***************************************************************************)
(* Instances of RoomService for TLC.                                       *)
(***************************************************************************)
EXTENDS RoomService, TLC

Symmetry == Permutations(Users) \cup Permutations(Characters)
              \cup Permutations(Requests)
=============================================================================
