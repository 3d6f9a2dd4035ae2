----------------------------- MODULE PhaseCourse -----------------------------
(***************************************************************************)
(* What the phase engine promises to the players of a session: the game is *)
(* not begun, in one phase, or over.  A move takes the phase, the round,   *)
(* the visit counts and the phase shown to the players together; an        *)
(* operation that fails moves none of them, whatever went wrong in a       *)
(* module.                                                                 *)
(***************************************************************************)
EXTENDS Integers

CONSTANTS NumPhases,   \* number of phases of the game
          Follow,      \* pairs of phases a regular move may connect
          Last         \* phases a regular move may end the game from

Phases  == 0 .. NumPhases - 1
Idle    == -1
Over    == NumPhases

VARIABLES at,       \* Idle, a phase, or Over
          round,    \* number of the round
          visits,   \* times each phase was entered
          shown,    \* the phase the players were last told of
          halted    \* the engine is stopped

vars == <<at, round, visits, shown, halted>>

Init == /\ at = Idle /\ round = 0 /\ shown = Idle /\ halted = FALSE
        /\ visits = [p \in Phases |-> 0]

playing == at \in Phases /\ ~halted

Enter(p) == /\ at' = p /\ shown' = p
            /\ visits' = [visits EXCEPT ![p] = @ + 1]

Begin      == at = Idle /\ round' = 1 /\ Enter(0) /\ UNCHANGED halted
Advance(p) == playing /\ <<at, p>> \in Follow /\ round' = round + 1
              /\ Enter(p) /\ UNCHANGED halted
Jump(p)    == playing /\ Enter(p) /\ UNCHANGED <<round, halted>>
Finish     == playing /\ at \in Last /\ at' = Over
              /\ UNCHANGED <<round, visits, shown, halted>>
Halt       == at # Idle /\ ~halted /\ halted' = TRUE
              /\ UNCHANGED <<at, round, visits, shown>>

Next == Begin \/ Finish \/ Halt \/ \E p \in Phases : Advance(p) \/ Jump(p)

Spec == Init /\ [][Next]_vars
==============================================================================
