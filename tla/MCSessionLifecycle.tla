------------------------- MODULE MCSessionLifecycle -------------------------
(* Instances of SessionLifecycle for TLC. *)
EXTENDS SessionLifecycle, TLC

CONSTANTS s1, s2, c1, r1

MCRooms == {r1}
MCSessions == {s1, s2}
MCOneSession == {s1}
MCClients == {c1}

\* Sessions are interchangeable: used for the safety runs only.
SessionSymmetry == Permutations(MCSessions)
=============================================================================
