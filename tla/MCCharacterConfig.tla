-------------------------- MODULE MCCharacterConfig --------------------------
(***************************************************************************)
(* An instance of CharacterConfig for TLC: the missions, which are sent    *)
(* alone, and the clues, which are sent with the whole document.           *)
(***************************************************************************)
EXTENDS CharacterConfig

CONSTANTS missions, clues

MCSettings == {missions, clues}
MCCarried == [s \in MCSettings |-> IF s = missions THEN {missions} ELSE MCSettings]
=============================================================================
