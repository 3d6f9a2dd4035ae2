---------------------------- MODULE MCGameAudio ----------------------------
(***************************************************************************)
(* Instances of GameAudio for TLC.                                         *)
(***************************************************************************)
EXTENDS GameAudio, TLC

CONSTANTS MaxCalls, MaxCuts

MCCalls == 1..MaxCalls
MCCuts == 1..MaxCuts

Budget(b, c, v, m) == [bgm |-> b, cut |-> c, clip |-> v, mute |-> m]
MCBudgets == {Budget(3, 0, 0, 1), Budget(2, 1, 0, 1), Budget(1, 2, 0, 0), Budget(1, 0, 4, 0)}
Symmetry == Permutations(Tracks) \cup Permutations(Videos) \cup Permutations(Clips)
=============================================================================
