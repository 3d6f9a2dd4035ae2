---------------------------- MODULE MCPhaseEngine ----------------------------
(***************************************************************************)
(* Two games of three phases for TLC: one that moves along the list, and   *)
(* one with scene transitions, with a conditional edge in front of an      *)
(* unconditional one, a cycle, and a phase without successors.             *)
(***************************************************************************)
EXTENDS PhaseEngine

linear == <<>>
graph  == << [from |-> 0, to |-> 2, conditional |-> TRUE],
             [from |-> 0, to |-> 1, conditional |-> FALSE],
             [from |-> 0, to |-> 0, conditional |-> FALSE],
             [from |-> 1, to |-> 0, conditional |-> TRUE] >>
==============================================================================
