----------------------------- MODULE PhaseEngine -----------------------------
(***************************************************************************)
(* The PhaseEngine of package internal/engine: it starts the modules of a  *)
(* game, moves the game from phase to phase and stops the modules.  Only   *)
(* the session's actor calls it, so one action is one call, from its guard *)
(* to its return.                                                          *)
(*                                                                         *)
(* A move calls the exit hook of every module, in order, and then their    *)
(* enter hooks, and dispatches the actions configured for the phases.  Any *)
(* of these calls can fail or panic; the engine then gives up the move and *)
(* restores its own fields, but the modules in front of the failing one    *)
(* have heard of it.  A failing call is chosen by the number n of modules  *)
(* that took the hook; n = NumModules stands for a failing action.         *)
(***************************************************************************)
EXTENDS Integers, Sequences

CONSTANTS NumModules,        \* the modules are 1 .. NumModules, in order
          NumPhases,         \* len(phases)
          SceneTransitions,  \* edges [from, to, conditional] by sort order
          MaxVisits,         \* bound on the visits of a phase
          None

Modules == 1 .. NumModules
Phases  == 0 .. NumPhases - 1
Edges   == DOMAIN SceneTransitions

ASSUME SizeAssumption == NumModules \in Nat /\ NumPhases \in Nat \ {0}
ASSUME EdgeAssumption ==
  SceneTransitions \in Seq([from : Phases, to : Phases, conditional : BOOLEAN])
ASSUME BoundAssumption == MaxVisits \in Nat
ASSUME NoneAssumption == None \notin Nat

VARIABLES start,       \* the outcome of Start, called once by the session
          started, stopped, current, currentRound,
          visits,      \* sceneVisitCounts
          announced,   \* the phase of the last phase:entered event
          life,        \* Init and Cleanup of the modules
          entered,     \* the last phase whose enter hook a module took
          exited,      \* the module took an exit hook since
          heard,       \* the phases whose enter hook a module ever took
          misused,     \* modules called before Init or after Cleanup
          panicked     \* a call ended in an index out of range

position == <<current, currentRound>>
told     == <<visits, announced>>
hooks    == <<entered, exited, heard>>
vars == <<start, started, stopped, position, told, life, hooks, misused, panicked>>

TypeOK ==
  /\ start \in {"none", "ok", "failed", "released"}
  /\ started \in BOOLEAN /\ stopped \in BOOLEAN
  /\ current \in 0 .. NumPhases /\ currentRound \in Nat
  /\ visits \in [Phases -> Nat] /\ announced \in Phases \cup {None}
  /\ life \in [Modules -> {"fresh", "ready", "cleaned"}]
  /\ entered \in [Modules -> Phases \cup {None}]
  /\ exited \in [Modules -> BOOLEAN]
  /\ heard \in [Modules -> SUBSET Phases]
  /\ misused \in SUBSET Modules
  /\ panicked \in BOOLEAN

Init ==
  /\ start = "none" /\ started = FALSE /\ stopped = FALSE
  /\ current = 0 /\ currentRound = 0
  /\ visits = [p \in Phases |-> 0] /\ announced = None
  /\ life = [m \in Modules |-> "fresh"]
  /\ entered = [m \in Modules |-> None]
  /\ exited = [m \in Modules |-> FALSE]
  /\ heard = [m \in Modules |-> {}]
  /\ misused = {} /\ panicked = FALSE

running == started /\ ~stopped
inPhase == running /\ current \in Phases

-----------------------------------------------------------------------------
\* Modules ms are called.
Call(ms) == misused' = misused \cup {m \in ms : life[m] # "ready"}

\* callPhaseExitHooks, by the first n modules.
ExitHooks(n) == exited' = [m \in Modules |-> m <= n \/ exited[m]]

\* callPhaseEnterHooks, by the first n modules; exits is what went before.
EnterHooks(p, n, exits) ==
  /\ entered' = [m \in Modules |-> IF m <= n THEN p ELSE entered[m]]
  /\ exited' = [m \in Modules |-> m > n /\ (exits \/ exited[m])]
  /\ heard' = [m \in Modules |-> IF m <= n THEN heard[m] \cup {p} ELSE heard[m]]

\* enterCurrentPhase to its end: the visit is counted and published.
Enter(p, exits) ==
  /\ visits[p] < MaxVisits
  /\ EnterHooks(p, NumModules, exits)
  /\ visits' = [visits EXCEPT ![p] = @ + 1]
  /\ announced' = p

\* The visit is recorded before the hooks are called.
EnterFailsVisited(p, exits) ==
  /\ \E n \in 0 .. NumModules : EnterHooks(p, n, exits)
  /\ visits' = [visits EXCEPT ![p] = @ + 1] /\ visits[p] < MaxVisits
  /\ UNCHANGED announced

\* enterCurrentPhase up to a hook or an action that fails.
EnterFails(p, exits) ==
  /\ \E n \in 0 .. NumModules : EnterHooks(p, n, exits)
  /\ UNCHANGED told

\* exitCurrentPhase up to an action or a hook that fails.
ExitFails == /\ \E n \in 0 .. NumModules : ExitHooks(n)
             /\ UNCHANGED <<position, told, entered, heard>>

-----------------------------------------------------------------------------
(***************************************************************************)
(* Moves from the current phase to phase p in round r.                     *)
(***************************************************************************)
MoveSucceeds(p, r) ==
  /\ Enter(p, TRUE)
  /\ current' = p /\ currentRound' = r

\* The target stays the current phase when its enter hooks fail.
MoveFailsInTarget(p) ==
  \/ ExitFails
  \/ EnterFails(p, TRUE) /\ current' = p /\ UNCHANGED currentRound

\* The round of the move is not restored when it fails.
MoveFailsInRound(p) ==
  \/ ExitFails
  \/ EnterFails(p, TRUE) /\ UNCHANGED current /\ currentRound' = currentRound + 1

MoveFails(p) ==
  \/ ExitFails
  \/ EnterFails(p, TRUE) /\ UNCHANGED position

Move(p, r) == /\ inPhase /\ Call(Modules)
              /\ MoveSucceeds(p, r) \/ MoveFails(p)
              /\ UNCHANGED <<start, started, stopped, life, panicked>>

\* Completing again takes the index further past the last phase.
CompleteAgain ==
  /\ running /\ Call(Modules) /\ ExitHooks(NumModules)
  /\ current' = current + 1 /\ current <= NumPhases
  /\ UNCHANGED <<currentRound, told, entered, heard>>
  /\ UNCHANGED <<start, started, stopped, life, panicked>>

\* The last phase is left: there is no phase to enter.
Complete ==
  /\ inPhase /\ Call(Modules)
  /\ \/ ExitFails
     \/ /\ ExitHooks(NumModules)
        /\ current' = NumPhases /\ UNCHANGED <<currentRound, told, entered, heard>>
  /\ UNCHANGED <<start, started, stopped, life, panicked>>

\* The phase of an index past the last one is read.
IndexPanics == /\ running /\ current = NumPhases
               /\ panicked' = TRUE
               /\ UNCHANGED <<start, started, stopped, position, told, life,
                              hooks, misused>>

AdvancePhase ==
  \/ current + 1 < NumPhases /\ Move(current + 1, currentRound + 1)
  \/ current + 1 >= NumPhases /\ Complete
  \/ IndexPanics

\* SkipToPhase does not look whether the engine was stopped.
SkipWhenStopped ==
  \/ IndexPanics
  \/ \E p \in Phases :
       /\ started /\ current \in Phases /\ Call(Modules)
       /\ MoveSucceeds(p, currentRound) \/ MoveFails(p)
       /\ UNCHANGED <<start, started, stopped, life, panicked>>

SkipToPhase == IndexPanics \/ \E p \in Phases : Move(p, currentRound)

-----------------------------------------------------------------------------
(***************************************************************************)
(* Scene transitions.  The first edge whose condition holds is taken; an   *)
(* unconditional edge always matches, a conditional one may.               *)
(***************************************************************************)
sceneTransitionsFrom(p) == {e \in Edges : SceneTransitions[e].from = p}

matching(p) ==
  {e \in sceneTransitionsFrom(p) :
     \A f \in sceneTransitionsFrom(p) : f < e => SceneTransitions[f].conditional}

AdvanceScene ==
  IF SceneTransitions = <<>> THEN AdvancePhase
  ELSE \/ IndexPanics
       \/ sceneTransitionsFrom(current) = {} /\ Complete
       \/ \E e \in matching(current) :
            Move(SceneTransitions[e].to, currentRound + 1)

-----------------------------------------------------------------------------
(***************************************************************************)
(* Start calls Init of the modules and enters the first phase.  A failure  *)
(* is answered with cleanupOnStartFail by the caller.                      *)
(***************************************************************************)
InitModules(n) == life' = [m \in Modules |-> IF m <= n THEN "ready" ELSE life[m]]

StartSucceeds ==
  /\ start = "none" /\ ~started
  /\ InitModules(NumModules) /\ Enter(0, FALSE)
  /\ start' = "ok" /\ started' = TRUE /\ current' = 0 /\ currentRound' = 1
  /\ UNCHANGED <<stopped, misused, panicked>>

StartFails ==
  /\ start = "none" /\ ~started
  /\ start' = "failed"
  /\ \/ /\ \E n \in 0 .. NumModules - 1 : InitModules(n)
        /\ UNCHANGED <<hooks, told>>
     \/ InitModules(NumModules) /\ EnterFails(0, FALSE)
  /\ UNCHANGED <<started, stopped, position, misused, panicked>>

stop == IF running THEN stopped' = TRUE /\ life' = [m \in Modules |-> "cleaned"]
                   ELSE UNCHANGED <<stopped, life>>

Stop == /\ running /\ stop
        /\ UNCHANGED <<start, started, position, told, hooks, misused, panicked>>

cleanupOnStartFail ==
  /\ start = "failed" /\ start' = "released" /\ stop
  /\ UNCHANGED <<started, position, told, hooks, misused, panicked>>

-----------------------------------------------------------------------------
\* Messages are routed whenever the engine was started.
HandleMessageAlways ==
  /\ started /\ \E m \in Modules : Call({m})
  /\ UNCHANGED <<start, started, stopped, position, told, life, hooks, panicked>>

\* A message for one module, and an action for the modules that support it.
HandleMessage == /\ running /\ \E m \in Modules : Call({m})
                 /\ UNCHANGED <<start, started, stopped, position, told, life,
                                hooks, panicked>>

DispatchAction == /\ running /\ \E ms \in SUBSET Modules : Call(ms)
                  /\ UNCHANGED <<start, started, stopped, position, told, life,
                                 hooks, panicked>>

Next == \/ StartSucceeds \/ StartFails \/ cleanupOnStartFail \/ Stop
        \/ AdvanceScene \/ SkipToPhase \/ HandleMessage \/ DispatchAction

Spec == Init /\ [][Next]_vars
-----------------------------------------------------------------------------
(***************************************************************************)
(* Properties.                                                             *)
(***************************************************************************)
\* The phase the players were told of last is the phase the engine is in,
\* however many moves have failed: a failed move tells them nothing and is
\* undone (restored current of AdvancePhase, SkipToPhase and AdvanceScene).
AnnouncedIsCurrent == inPhase => announced = current

\* A visit is counted only of phases every module has entered: character
\* presets that wait for a scene never see one that a module refused.
VisitsAreHeard ==
  \A p \in Phases, m \in Modules : visits[p] > 0 => p \in heard[m]

\* No module is called before its Init or after its Cleanup, by a message, an
\* action or a hook, also when Start has failed half way.
CallsWithinLife == misused = {}

\* The modules are silent once the engine is stopped: no hook reaches them.
QuietAfterStop == [][stopped => UNCHANGED <<hooks, told, position>>]_vars

\* Every operation is a move of the abstract course of phases, or changes
\* nothing of it: the failed ones are undone in every field.
Follow ==
  IF SceneTransitions = <<>> THEN {<<p, p + 1>> : p \in 0 .. NumPhases - 2}
  ELSE UNION {{<<p, SceneTransitions[e].to>> : e \in matching(p)} : p \in Phases}

Last == IF SceneTransitions = <<>> THEN {NumPhases - 1}
        ELSE {p \in Phases : sceneTransitionsFrom(p) = {}}

Course == INSTANCE PhaseCourse WITH
            at <- IF started THEN current ELSE -1,
            round <- currentRound,
            shown <- IF announced = None THEN -1 ELSE announced,
            halted <- stopped

ImplementsCourse == Course!Spec

-----------------------------------------------------------------------------
(***************************************************************************)
(* What the documentation says and the code does not do.                   *)
(***************************************************************************)
\* CurrentRound is 0 once the phases are exhausted.
RoundIsZeroWhenOver == current = NumPhases => currentRound = 0

\* AdvancePhase and SkipToPhase answer, also after the game is complete.
MovesAnswer == ~panicked

\* A start that failed leaves no module initialised and never cleaned up.
FailedStartIsReleased ==
  start = "released" => \A m \in Modules : life[m] # "ready"

\* Between two moves, the modules are in the phase the engine is in.
ModulesFollow ==
  inPhase => \A m \in Modules : entered[m] = current /\ ~exited[m]

=============================================================================
