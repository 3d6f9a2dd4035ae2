------------------------------- MODULE MCHub -------------------------------
(* Instances of Hub for TLC: two connections of one player, or one each. *)
EXTENDS Hub, TLC

CONSTANTS c1, c2, p1, p2, s1, s2

OnePlayer == c1 :> p1 @@ c2 :> p1
TwoPlayers == c1 :> p1 @@ c2 :> p2

\* The two connections of the one player, and the two sessions, are alike.
Alike == Permutations({c1, c2}) \cup Permutations({s1, s2})
=============================================================================
