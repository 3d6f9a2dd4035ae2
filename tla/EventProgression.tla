-------------------------- MODULE EventProgression --------------------------
(***************************************************************************)
(* The event_progression module inside the PhaseEngine: players fire       *)
(* triggers, which dispatch actions and ask the engine to skip to a phase. *)
(* The module is called by the engine, calls it back, and is called by its *)
(* enter hooks, all within one message of the session's actor.             *)
(*                                                                         *)
(* What the module keeps of the phases it was told of is its entry in the  *)
(* hook variables of the engine.  Trigger ids and phase ids are different; *)
(* a password that does not match is an error without effect and left out. *)
(***************************************************************************)
EXTENDS PhaseEngine

CONSTANTS Triggers,        \* ids of the configured triggers
          From, To,        \* their phases; None if there is none, and
                           \* NumPhases for a target that does not exist
          Graph,           \* legacy edges between phases
          InitialPhase,
          AllowBacktrack,
          Self,            \* place of the module among the modules
          MaxDispatch      \* bound on the dispatches of a trigger

ASSUME TriggerAssumption ==
  /\ From \in [Triggers -> Phases \cup {None}]
  /\ To \in [Triggers -> 0 .. NumPhases \cup {None}]
  /\ Graph \subseteq Phases \X Phases
  /\ InitialPhase \in Phases /\ AllowBacktrack \in BOOLEAN /\ Self \in Modules

VARIABLES triggerCounts,   \* a trigger was applied
          triggerRuns,     \* a trigger is reserved by a call
          dispatched       \* times all actions of a trigger were dispatched

trigger == <<triggerCounts, triggerRuns, dispatched>>
allVars == <<vars, trigger>>

TriggersOK ==
  /\ triggerCounts \in [Triggers -> {0, 1}]
  /\ triggerRuns \in [Triggers -> BOOLEAN]
  /\ dispatched \in [Triggers -> Nat]

EventInit == /\ Init
             /\ triggerCounts = [t \in Triggers |-> 0]
             /\ triggerRuns = [t \in Triggers |-> FALSE]
             /\ dispatched = [t \in Triggers |-> 0]

\* OnPhaseEnter keeps the phase as the current one and among the visited.
currentPhaseID == IF entered[Self] = None THEN InitialPhase ELSE entered[Self]
visitedPhases  == heard[Self] \cup {InitialPhase}

-----------------------------------------------------------------------------
\* Only the phase the game is in counts as visited.
validateBacktrackOfCurrent(p) == AllowBacktrack \/ p # currentPhaseID

validateBacktrack(p) == AllowBacktrack \/ p \notin visitedPhases

\* A trigger is looked up without looking whether it was applied.
availableAgain(t) == /\ running /\ ~triggerRuns[t]
                     /\ From[t] \in {None, currentPhaseID}
                     /\ To[t] # None => validateBacktrack(To[t])

\* The trigger is configured for this phase, neither applied nor reserved, and
\* does not lead back.
available(t) == /\ running /\ triggerCounts[t] = 0 /\ ~triggerRuns[t]
                /\ From[t] \in {None, currentPhaseID}
                /\ To[t] # None => validateBacktrack(To[t])

commit(t)   == /\ triggerCounts' = [triggerCounts EXCEPT ![t] = @ + 1]
               /\ UNCHANGED triggerRuns

\* The reservation is kept when the trigger fails.
rollbackForgotten(t) == /\ triggerRuns' = [triggerRuns EXCEPT ![t] = TRUE]
                        /\ UNCHANGED triggerCounts

rollback(t) == UNCHANGED <<triggerCounts, triggerRuns>>

\* The call ends in a panic after it has reserved the trigger.
abandon(t)  == /\ triggerRuns' = [triggerRuns EXCEPT ![t] = TRUE]
               /\ UNCHANGED triggerCounts

dispatchAll(t) == /\ dispatched[t] < MaxDispatch
                  /\ dispatched' = [dispatched EXCEPT ![t] = @ + 1]

-----------------------------------------------------------------------------
\* A trigger whose actions fail.
TriggerFails(t) == /\ available(t) /\ rollback(t)
                   /\ UNCHANGED <<vars, dispatched>>

\* A trigger without a target.
TriggerActs(t) == /\ available(t) /\ To[t] = None
                  /\ dispatchAll(t) /\ commit(t)
                  /\ UNCHANGED vars

\* The trigger is committed before the engine has moved.
TriggerMovesEarly(t) ==
  /\ available(t) /\ To[t] # None /\ dispatchAll(t)
  /\ \/ To[t] \notin Phases /\ rollback(t) /\ UNCHANGED vars
     \/ To[t] \in Phases /\ IndexPanics /\ abandon(t)
     \/ To[t] \in Phases /\ Move(To[t], currentRound) /\ commit(t)

\* A trigger with a target: the phase may not exist, the engine may have no
\* phase to leave, and the move may succeed, which counts a visit, or fail.
TriggerMoves(t) ==
  /\ available(t) /\ To[t] # None /\ dispatchAll(t)
  /\ \/ To[t] \notin Phases /\ rollback(t) /\ UNCHANGED vars
     \/ To[t] \in Phases /\ IndexPanics /\ abandon(t)
     \/ /\ To[t] \in Phases /\ Move(To[t], currentRound)
        /\ IF visits' # visits THEN commit(t) ELSE rollback(t)

\* A legacy edge of the graph, which no trigger is configured for.
GraphMoves(p) ==
  /\ running /\ <<currentPhaseID, p>> \in Graph /\ validateBacktrack(p)
  /\ IndexPanics \/ Move(p, currentRound)
  /\ UNCHANGED trigger

\* Stop, with the Cleanup of the module.
StopAll == /\ Stop
           /\ triggerCounts' = [t \in Triggers |-> 0]
           /\ triggerRuns' = [t \in Triggers |-> FALSE]
           /\ UNCHANGED dispatched

EngineStep ==
  /\ \/ StartSucceeds \/ StartFails \/ cleanupOnStartFail
     \/ AdvanceScene \/ SkipToPhase
  /\ UNCHANGED trigger

EventNext ==
  \/ EngineStep \/ StopAll
  \/ \E t \in Triggers : TriggerFails(t) \/ TriggerActs(t) \/ TriggerMoves(t)
  \/ \E p \in Phases : GraphMoves(p)

EventSpec == EventInit /\ [][EventNext]_allVars

-----------------------------------------------------------------------------
(***************************************************************************)
(* Properties.                                                             *)
(***************************************************************************)
\* An applied trigger has brought the game to its target: it is not consumed
\* by a move that failed (commitTriggerExecution and its rollback).
AppliedMeansEntered ==
  \A t \in Triggers :
    triggerCounts[t] > 0 /\ To[t] \in Phases => visits[To[t]] > 0

\* Without backtracking, a trigger that moves the game moves it to a phase the
\* engine has never counted: what the module recalls is never less than what
\* the engine went through, by any kind of move.
NoReturn ==
  [][\A t \in Triggers :
       triggerCounts'[t] > triggerCounts[t] /\ To[t] \in Phases
         => AllowBacktrack \/ visits[To[t]] = 0]_allVars

\* A call that ends in a panic while it holds a reservation is one made after the game
\* has left its last phase: whatever fails or panics in the exits, actions and enters of
\* a move, or in finding its target, gives the trigger back to be tried again.
ReservedOnlyWhenOver ==
  (\E t \in Triggers : triggerRuns[t]) => started /\ current = NumPhases

-----------------------------------------------------------------------------
(***************************************************************************)
(* What the documentation says and the code does not do.                   *)
(***************************************************************************)
\* The module goes by the phase of the engine.
EngineIsSourceOfTruth == inPhase => currentPhaseID = current

\* The actions of a trigger are dispatched once, also when it is retried.
ActionsOnce == \A t \in Triggers : dispatched[t] <= 1
=============================================================================
