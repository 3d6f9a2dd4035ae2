---------------------------- MODULE MCWebSession ----------------------------
(* An instance of WebSession for TLC. *)
EXTENDS WebSession

Budget(calls, expiries, faults, reloads, turns) ==
  [calls |-> calls, expiries |-> expiries, faults |-> faults, reloads |-> reloads, turns |-> turns]

(* Three calls around an expiry and two around two; a reload and a fault   *)
(* between two; the game entered, left and entered again.                  *)
MCBudgets == {Budget(3, 1, 0, 0, 0), Budget(2, 2, 0, 0, 0), Budget(2, 1, 1, 1, 0),
              Budget(1, 1, 1, 0, 1), Budget(1, 1, 0, 1, 1), Budget(1, 0, 0, 0, 3)}
=============================================================================
