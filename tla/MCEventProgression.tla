-------------------------- MODULE MCEventProgression --------------------------
(***************************************************************************)
(* A game of three phases with a trigger that moves, one that moves from   *)
(* anywhere, one that only acts and one whose target does not exist, and a *)
(* legacy graph with a way back.                                           *)
(***************************************************************************)
EXTENDS EventProgression

CONSTANTS door, alarm, letter, typo

triggers == {door, alarm, letter, typo}
from == [t \in triggers |-> CASE t = door -> 0 [] t = letter -> 1 [] OTHER -> None]
to   == [t \in triggers |-> CASE t = door -> 1 [] t = alarm -> 2
                              [] t = letter -> None [] OTHER -> NumPhases]
edges  == {<<0, 1>>, <<1, 2>>, <<2, 0>>}
linear == <<>>
================================================================================
