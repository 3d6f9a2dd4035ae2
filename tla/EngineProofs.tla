---------------------------- MODULE EngineProofs ----------------------------
(***************************************************************************)
(* Proofs about the PhaseEngine, for every number of modules and phases    *)
(* and every set of scene transitions: its types, that the players know    *)
(* the phase, that visits and calls are right, and that it implements the  *)
(* abstract course of phases.  Then the same for the event_progression     *)
(* module inside the engine and every set of triggers: it moves the game   *)
(* by the engine's own moves, so that what is proved of the engine, its    *)
(* invariant and its course of phases, carries over.                       *)
(***************************************************************************)
EXTENDS EventProgression, TLAPS

USE SizeAssumption, EdgeAssumption, BoundAssumption, NoneAssumption

\* Started modules are initialised until the engine stops; nothing is stopped
\* that was not started.
LifeInv == /\ running => \A m \in Modules : life[m] = "ready"
           /\ stopped => started

IInv == TypeOK /\ AnnouncedIsCurrent /\ VisitsAreHeard /\ CallsWithinLife /\ LifeInv

-----------------------------------------------------------------------------
\* The target of an edge that may be taken is a phase.
LEMMA TargetType ==
  ASSUME NEW p, NEW e \in matching(p)
  PROVE  SceneTransitions[e].to \in Phases
<1>1. e \in DOMAIN SceneTransitions
  BY DEF matching, sceneTransitionsFrom, Edges
<1> DEFINE R == [from : Phases, to : Phases, conditional : BOOLEAN]
<1>2. SceneTransitions \in Seq(R) OBVIOUS
<1> HIDE DEF R
<1>3. SceneTransitions[e] \in R BY <1>1, <1>2
<1> QED BY <1>3 DEF R

\* The next phase of the list is a phase.
LEMMA NextPhase ==
  ASSUME TypeOK, current + 1 < NumPhases
  PROVE  current + 1 \in Phases
BY DEF TypeOK, Phases

\* Calls of initialised modules misuse none.
LEMMA CallIsFine ==
  ASSUME IInv, running, NEW ms \in SUBSET Modules, Call(ms)
  PROVE  misused' = {}
BY DEF IInv, LifeInv, CallsWithinLife, Call

-----------------------------------------------------------------------------
\* Enter hooks keep the types of what the modules know and forget nothing.
LEMMA HooksType ==
  ASSUME TypeOK, NEW p \in Phases, NEW n \in 0 .. NumModules,
         NEW exits \in BOOLEAN, EnterHooks(p, n, exits)
  PROVE  /\ entered' \in [Modules -> Phases \cup {None}]
         /\ exited' \in [Modules -> BOOLEAN]
         /\ heard' \in [Modules -> SUBSET Phases]
         /\ \A m \in Modules : heard[m] \subseteq heard'[m]
         /\ n = NumModules => \A m \in Modules : p \in heard'[m]
<1>1. \A m \in Modules : (m <= n) \in BOOLEAN OBVIOUS
<1>2. entered' \in [Modules -> Phases \cup {None}]
  BY <1>1 DEF EnterHooks, TypeOK
<1>3. exited' \in [Modules -> BOOLEAN]
  BY DEF EnterHooks, TypeOK
<1>4. heard' \in [Modules -> SUBSET Phases]
  BY <1>1 DEF EnterHooks, TypeOK
<1>5. \A m \in Modules : heard[m] \subseteq heard'[m]
  BY DEF EnterHooks
<1>6. n = NumModules => \A m \in Modules : p \in heard'[m]
  BY DEF EnterHooks, Modules
<1> QED BY <1>2, <1>3, <1>4, <1>5, <1>6

\* What entering a phase to its end establishes.
LEMMA EnterType ==
  ASSUME TypeOK, VisitsAreHeard, NEW p \in Phases, NEW exits \in BOOLEAN,
         Enter(p, exits)
  PROVE  /\ entered' \in [Modules -> Phases \cup {None}]
         /\ exited' \in [Modules -> BOOLEAN]
         /\ heard' \in [Modules -> SUBSET Phases]
         /\ visits' \in [Phases -> Nat] /\ announced' = p
         /\ VisitsAreHeard'
<1>1. NumModules \in 0 .. NumModules OBVIOUS
<1>2. EnterHooks(p, NumModules, exits) /\ announced' = p
      /\ visits' = [visits EXCEPT ![p] = @ + 1]
  BY DEF Enter
<1>3. visits' \in [Phases -> Nat] BY <1>2 DEF TypeOK
<1>4. /\ entered' \in [Modules -> Phases \cup {None}]
      /\ exited' \in [Modules -> BOOLEAN]
      /\ heard' \in [Modules -> SUBSET Phases]
      /\ \A m \in Modules : heard[m] \subseteq heard'[m]
      /\ \A m \in Modules : p \in heard'[m]
  BY <1>1, <1>2, HooksType
<1>5. \A q \in Phases : q # p => visits'[q] = visits[q] BY <1>2 DEF TypeOK
<1>6. VisitsAreHeard' BY <1>4, <1>5 DEF VisitsAreHeard
<1> QED BY <1>2, <1>3, <1>4, <1>6

\* What a failed entry leaves.
LEMMA EnterFailsType ==
  ASSUME TypeOK, VisitsAreHeard, NEW p \in Phases, NEW exits \in BOOLEAN,
         EnterFails(p, exits)
  PROVE  /\ entered' \in [Modules -> Phases \cup {None}]
         /\ exited' \in [Modules -> BOOLEAN]
         /\ heard' \in [Modules -> SUBSET Phases]
         /\ UNCHANGED told /\ VisitsAreHeard'
<1>1. PICK n \in 0 .. NumModules : EnterHooks(p, n, exits) BY DEF EnterFails
<1>2. UNCHANGED told BY DEF EnterFails
<1>3. /\ entered' \in [Modules -> Phases \cup {None}]
      /\ exited' \in [Modules -> BOOLEAN]
      /\ heard' \in [Modules -> SUBSET Phases]
      /\ \A m \in Modules : heard[m] \subseteq heard'[m]
  BY <1>1, HooksType
<1>4. VisitsAreHeard' BY <1>2, <1>3 DEF VisitsAreHeard, told
<1> QED BY <1>2, <1>3, <1>4

\* What a failed exit leaves.
LEMMA ExitFailsType ==
  ASSUME TypeOK, ExitFails
  PROVE  exited' \in [Modules -> BOOLEAN] /\ UNCHANGED <<position, told, entered, heard>>
BY DEF TypeOK, ExitFails, ExitHooks

-----------------------------------------------------------------------------
\* A move keeps the invariant.
LEMMA MoveInv ==
  ASSUME IInv, NEW p \in Phases, NEW r \in Nat, Move(p, r)
  PROVE  IInv'
<1>1. inPhase /\ running BY DEF Move, inPhase
<1>2. misused' = {} BY <1>1, CallIsFine DEF Move
<1>3. UNCHANGED <<start, started, stopped, life, panicked>> BY DEF Move
<1>4. TypeOK /\ VisitsAreHeard /\ AnnouncedIsCurrent BY DEF IInv
<1>5. LifeInv' BY <1>3 DEF IInv, LifeInv, running
<1>6. CASE MoveSucceeds(p, r)
  <2>1. Enter(p, TRUE) /\ current' = p /\ currentRound' = r
    BY <1>6 DEF MoveSucceeds
  <2>2. /\ entered' \in [Modules -> Phases \cup {None}]
        /\ exited' \in [Modules -> BOOLEAN]
        /\ heard' \in [Modules -> SUBSET Phases]
        /\ visits' \in [Phases -> Nat] /\ announced' = p /\ VisitsAreHeard'
    BY <2>1, <1>4, EnterType
  <2>3. current' \in 0 .. NumPhases BY <2>1 DEF Phases
  <2>4. TypeOK' BY <1>2, <1>3, <1>4, <2>1, <2>2, <2>3 DEF TypeOK
  <2> QED BY <1>2, <1>5, <2>1, <2>2, <2>4
          DEF IInv, AnnouncedIsCurrent, CallsWithinLife
<1>7. CASE ExitFails
  <2>1. exited' \in [Modules -> BOOLEAN] /\ UNCHANGED <<position, told, entered, heard>>
    BY <1>7, <1>4, ExitFailsType
  <2>2. TypeOK' BY <1>2, <1>3, <1>4, <2>1 DEF TypeOK, position, told
  <2>3. VisitsAreHeard' BY <1>4, <2>1 DEF VisitsAreHeard, told
  <2>4. AnnouncedIsCurrent'
    BY <1>3, <1>4, <2>1 DEF AnnouncedIsCurrent, inPhase, running, position, told
  <2> QED BY <1>2, <1>5, <2>2, <2>3, <2>4 DEF IInv, CallsWithinLife
<1>8. CASE EnterFails(p, TRUE) /\ UNCHANGED position
  <2>1. /\ entered' \in [Modules -> Phases \cup {None}]
        /\ exited' \in [Modules -> BOOLEAN]
        /\ heard' \in [Modules -> SUBSET Phases]
        /\ UNCHANGED told /\ VisitsAreHeard'
    BY <1>8, <1>4, EnterFailsType
  <2>2. TypeOK' BY <1>2, <1>3, <1>4, <1>8, <2>1 DEF TypeOK, position, told
  <2>3. AnnouncedIsCurrent'
    BY <1>3, <1>4, <1>8, <2>1 DEF AnnouncedIsCurrent, inPhase, running, position, told
  <2> QED BY <1>2, <1>5, <2>1, <2>2, <2>3 DEF IInv, CallsWithinLife
<1> QED BY <1>6, <1>7, <1>8 DEF Move, MoveFails

\* Completing the game keeps the invariant.
LEMMA CompleteInv ==
  ASSUME IInv, Complete
  PROVE  IInv'
<1>1. inPhase /\ running BY DEF Complete, inPhase
<1>2. misused' = {} BY <1>1, CallIsFine DEF Complete
<1>3. UNCHANGED <<start, started, stopped, life, panicked>> BY DEF Complete
<1>4. TypeOK /\ VisitsAreHeard /\ AnnouncedIsCurrent BY DEF IInv
<1>5. LifeInv' BY <1>3 DEF IInv, LifeInv, running
<1>6. /\ exited' \in [Modules -> BOOLEAN]
      /\ UNCHANGED <<currentRound, told, entered, heard>>
      /\ current' = current \/ current' = NumPhases
  BY <1>4, ExitFailsType DEF Complete, ExitHooks, position, TypeOK
<1>7. TypeOK' BY <1>2, <1>3, <1>4, <1>6 DEF TypeOK, told
<1>8. VisitsAreHeard' BY <1>4, <1>6 DEF VisitsAreHeard, told
<1>9. AnnouncedIsCurrent'
  BY <1>3, <1>4, <1>6 DEF AnnouncedIsCurrent, inPhase, running, told, Phases
<1> QED BY <1>2, <1>5, <1>7, <1>8, <1>9 DEF IInv, CallsWithinLife

\* So does a panic.
LEMMA PanicInv ==
  ASSUME IInv, IndexPanics
  PROVE  IInv'
BY DEF IInv, IndexPanics, TypeOK, AnnouncedIsCurrent, VisitsAreHeard,
       CallsWithinLife, LifeInv, inPhase, running, position, told, hooks

LEMMA StartSucceedsInv ==
  ASSUME IInv, StartSucceeds
  PROVE  IInv'
<1>1. 0 \in Phases BY DEF Phases
<1>2. TypeOK /\ VisitsAreHeard BY DEF IInv
<1>3. Enter(0, FALSE) BY DEF StartSucceeds
<1>4. /\ entered' \in [Modules -> Phases \cup {None}]
      /\ exited' \in [Modules -> BOOLEAN]
      /\ heard' \in [Modules -> SUBSET Phases]
      /\ visits' \in [Phases -> Nat] /\ announced' = 0 /\ VisitsAreHeard'
  BY <1>1, <1>2, <1>3, EnterType
<1>5. life' = [m \in Modules |-> "ready"]
  BY DEF StartSucceeds, InitModules, Modules
<1>6. start' = "ok" /\ started' = TRUE /\ current' = 0 /\ currentRound' = 1
      /\ UNCHANGED <<stopped, misused, panicked>>
  BY DEF StartSucceeds
<1>7. TypeOK' BY <1>1, <1>2, <1>4, <1>5, <1>6 DEF TypeOK
<1>8. LifeInv' BY <1>5, <1>6 DEF LifeInv
<1>9. AnnouncedIsCurrent' BY <1>4, <1>6 DEF AnnouncedIsCurrent
<1> QED BY <1>4, <1>6, <1>7, <1>8, <1>9 DEF IInv, CallsWithinLife

LEMMA StartFailsInv ==
  ASSUME IInv, StartFails
  PROVE  IInv'
<1>1. 0 \in Phases BY DEF Phases
<1>2. TypeOK /\ VisitsAreHeard BY DEF IInv
<1>3. ~started /\ start' = "failed"
      /\ UNCHANGED <<started, stopped, position, misused, panicked>>
  BY DEF StartFails
<1>4. PICK n \in 0 .. NumModules : InitModules(n)
  <2>1. 0 .. NumModules - 1 \subseteq 0 .. NumModules
        /\ NumModules \in 0 .. NumModules
    OBVIOUS
  <2>2. CASE \E n \in 0 .. NumModules - 1 : InitModules(n) BY <2>1, <2>2
  <2>3. CASE InitModules(NumModules) BY <2>1, <2>3
  <2> QED BY <2>2, <2>3 DEF StartFails
<1>5. life' \in [Modules -> {"fresh", "ready", "cleaned"}]
  <2>1. \A m \in Modules : life[m] \in {"fresh", "ready", "cleaned"}
    BY <1>2 DEF TypeOK
  <2>2. life' = [m \in Modules |-> IF m <= n THEN "ready" ELSE life[m]]
    BY <1>4 DEF InitModules
  <2> QED BY <2>1, <2>2
<1>6. /\ entered' \in [Modules -> Phases \cup {None}]
      /\ exited' \in [Modules -> BOOLEAN]
      /\ heard' \in [Modules -> SUBSET Phases]
      /\ UNCHANGED told /\ VisitsAreHeard'
  <2>1. CASE UNCHANGED <<hooks, told>>
    BY <2>1, <1>2 DEF TypeOK, VisitsAreHeard, hooks, told
  <2>2. CASE EnterFails(0, FALSE)
    BY <2>2, <1>1, <1>2, EnterFailsType
  <2> QED BY <2>1, <2>2 DEF StartFails
<1>7. TypeOK' BY <1>2, <1>3, <1>5, <1>6 DEF TypeOK, position, told
<1>8. LifeInv' BY <1>3 DEF IInv, LifeInv, running
<1>9. AnnouncedIsCurrent' BY <1>3 DEF AnnouncedIsCurrent, inPhase, running
<1> QED BY <1>3, <1>6, <1>7, <1>8, <1>9 DEF IInv, CallsWithinLife

\* The engine is stopped, or was not running.
LEMMA StopInv ==
  ASSUME IInv, stop, start' \in {"none", "ok", "failed", "released"},
         UNCHANGED <<started, position, told, hooks, misused, panicked>>
  PROVE  IInv'
<1>1. CASE running
  <2>1. stopped' = TRUE /\ life' = [m \in Modules |-> "cleaned"] BY <1>1 DEF stop
  <2> QED BY <1>1, <2>1 DEF IInv, TypeOK, AnnouncedIsCurrent, VisitsAreHeard,
            CallsWithinLife, LifeInv, inPhase, running, position, told, hooks
<1>2. CASE ~running
  <2>1. UNCHANGED <<stopped, life>> BY <1>2 DEF stop
  <2> QED BY <2>1 DEF IInv, TypeOK, AnnouncedIsCurrent, VisitsAreHeard,
            CallsWithinLife, LifeInv, inPhase, running, position, told, hooks
<1> QED BY <1>1, <1>2

\* Messages and actions change no field of the engine.
LEMMA CallInv ==
  ASSUME IInv, HandleMessage \/ DispatchAction
  PROVE  IInv'
<1>1. running /\ UNCHANGED <<start, started, stopped, position, told, life, hooks, panicked>>
  BY DEF HandleMessage, DispatchAction
<1>2. PICK ms \in SUBSET Modules : Call(ms) BY DEF HandleMessage, DispatchAction
<1>3. misused' = {} BY <1>1, <1>2, CallIsFine
<1> QED BY <1>1, <1>3 DEF IInv, TypeOK, AnnouncedIsCurrent, VisitsAreHeard,
          CallsWithinLife, LifeInv, inPhase, running, position, told, hooks

-----------------------------------------------------------------------------
\* The initial states satisfy the invariant, and every call keeps it.
LEMMA InitInv == Init => IInv
BY DEF Init, IInv, TypeOK, AnnouncedIsCurrent, VisitsAreHeard, CallsWithinLife,
       LifeInv, inPhase, running, Phases

LEMMA RoundType == IInv => currentRound \in Nat /\ currentRound + 1 \in Nat
BY DEF IInv, TypeOK

LEMMA AdvancePhaseInv ==
  ASSUME IInv, AdvancePhase
  PROVE  IInv'
<1>1. CASE current + 1 < NumPhases /\ Move(current + 1, currentRound + 1)
  <2>1. current + 1 \in Phases BY <1>1, NextPhase DEF IInv
  <2>2. PICK p \in Phases : p = current + 1 BY <2>1
  <2>3. PICK r \in Nat : r = currentRound + 1 BY RoundType
  <2>4. Move(p, r) BY <1>1, <2>2, <2>3
  <2> QED BY <2>4, MoveInv
<1>2. CASE Complete BY <1>2, CompleteInv
<1>3. CASE IndexPanics BY <1>3, PanicInv
<1> QED BY <1>1, <1>2, <1>3 DEF AdvancePhase

LEMMA StepInv ==
  ASSUME IInv, [Next]_vars
  PROVE  IInv'
<1>1. CASE StartSucceeds BY <1>1, StartSucceedsInv
<1>2. CASE StartFails BY <1>2, StartFailsInv
<1>3. CASE cleanupOnStartFail
  BY <1>3, StopInv DEF cleanupOnStartFail
<1>4. CASE Stop
  <2>1. start' = start BY <1>4 DEF Stop
  <2>2. start' \in {"none", "ok", "failed", "released"} BY <2>1 DEF IInv, TypeOK
  <2> QED BY <1>4, <2>2, StopInv DEF Stop
<1>5. CASE AdvanceScene
  <2>1. CASE AdvancePhase BY <2>1, AdvancePhaseInv
  <2>2. CASE IndexPanics BY <2>2, PanicInv
  <2>3. CASE Complete BY <2>3, CompleteInv
  <2>4. ASSUME NEW e \in matching(current),
               Move(SceneTransitions[e].to, currentRound + 1)
        PROVE  IInv'
    <3>1. PICK p \in Phases : p = SceneTransitions[e].to BY TargetType
    <3>2. PICK r \in Nat : r = currentRound + 1 BY RoundType
    <3>3. Move(p, r) BY <2>4, <3>1, <3>2
    <3> QED BY <3>3, MoveInv
  <2> QED BY <1>5, <2>1, <2>2, <2>3, <2>4 DEF AdvanceScene
<1>6. CASE SkipToPhase
  <2>1. CASE IndexPanics BY <2>1, PanicInv
  <2>2. ASSUME NEW p \in Phases, Move(p, currentRound)
        PROVE  IInv'
    BY <2>2, MoveInv, RoundType
  <2> QED BY <1>6, <2>1, <2>2 DEF SkipToPhase
<1>7. CASE HandleMessage \/ DispatchAction BY <1>7, CallInv
<1>8. CASE UNCHANGED vars
  BY <1>8 DEF IInv, TypeOK, AnnouncedIsCurrent, VisitsAreHeard, CallsWithinLife,
      LifeInv, inPhase, running, vars, position, told, hooks
<1> QED BY <1>1, <1>2, <1>3, <1>4, <1>5, <1>6, <1>7, <1>8 DEF Next

LEMMA Invariance == Spec => []IInv
BY InitInv, StepInv, PTL DEF Spec

\* The fields of the engine, what the modules know and what was announced
\* always have their types.
THEOREM TypeCorrect == Spec => []TypeOK
BY Invariance, PTL DEF IInv

\* The players have last been told of the phase the engine is in, however many
\* moves have failed.
THEOREM PlayersKnowThePhase == Spec => []AnnouncedIsCurrent
BY Invariance, PTL DEF IInv

\* Visits are counted only of phases that every module has entered.
THEOREM VisitsAreComplete == Spec => []VisitsAreHeard
BY Invariance, PTL DEF IInv

\* Modules are called only between their Init and their Cleanup.
THEOREM CallsAreProtected == Spec => []CallsWithinLife
BY Invariance, PTL DEF IInv

\* A stopped engine moves no more and calls no hook.
THEOREM StoppedIsQuiet == Spec => QuietAfterStop
<1> DEFINE P == stopped => UNCHANGED <<hooks, told, position>>
<1>1. ASSUME IInv, [Next]_vars, stopped
      PROVE  UNCHANGED <<hooks, told, position>>
  <2>1. ~running /\ ~inPhase /\ started
    BY <1>1 DEF running, inPhase, IInv, LifeInv
  <2>2. ~AdvanceScene /\ ~SkipToPhase
    BY <2>1 DEF AdvanceScene, AdvancePhase, SkipToPhase, Move, Complete, IndexPanics
  <2> QED BY <1>1, <2>1, <2>2 DEF Next, StartSucceeds, StartFails,
          cleanupOnStartFail, Stop, HandleMessage, DispatchAction, vars
<1>2. IInv /\ [Next]_vars => [P]_vars BY <1>1
<1> QED BY <1>2, Invariance, PTL DEF Spec, QuietAfterStop

-----------------------------------------------------------------------------
(***************************************************************************)
(* The engine implements the course of phases.                             *)
(***************************************************************************)
\* A step that leaves the visible fields alone is a stutter of the course.
LEMMA Stutter ==
  ASSUME UNCHANGED <<started, stopped, position, told>>
  PROVE  UNCHANGED Course!vars
BY DEF Course!vars, position, told

\* A visit that is counted and announced is the course's Enter.
LEMMA EnterImplements ==
  ASSUME NEW p \in Phases, NEW exits, Enter(p, exits), started', current' = p
  PROVE  Course!Enter(p)
BY DEF Enter, Course!Enter, Phases

LEMMA PlayingImplements == inPhase => Course!playing
BY DEF inPhase, running, Course!playing, Course!Phases, Phases

\* A move is a move of the course of the same kind, or a stutter.
LEMMA MoveImplements ==
  ASSUME IInv, NEW p \in Phases, NEW r, Move(p, r)
  PROVE  \/ UNCHANGED Course!vars
         \/ /\ Course!playing /\ Course!Enter(p)
            /\ currentRound' = r /\ UNCHANGED stopped
<1>1. inPhase /\ started /\ UNCHANGED <<started, stopped>>
  BY DEF Move, inPhase, running
<1>2. CASE MoveFails(p)
  <2>1. UNCHANGED <<position, told>>
    BY <1>2 DEF MoveFails, ExitFails, EnterFails
  <2> QED BY <1>1, <2>1, Stutter
<1>3. CASE MoveSucceeds(p, r)
  <2>1. Enter(p, TRUE) /\ current' = p /\ currentRound' = r
    BY <1>3 DEF MoveSucceeds
  <2>2. Course!Enter(p) BY <1>1, <2>1, EnterImplements
  <2> QED BY <1>1, <2>1, <2>2, PlayingImplements
<1> QED BY <1>2, <1>3 DEF Move

LEMMA CompleteImplements ==
  ASSUME IInv, Complete, current \in Last
  PROVE  Course!Finish \/ UNCHANGED Course!vars
<1>1. inPhase /\ started /\ UNCHANGED <<started, stopped>>
  BY DEF Complete, inPhase, running
<1>2. CASE ExitFails
  <2>1. UNCHANGED <<position, told>> BY <1>2 DEF ExitFails
  <2> QED BY <1>1, <2>1, Stutter
<1>3. CASE current' = NumPhases /\ UNCHANGED <<currentRound, told>>
  BY <1>1, <1>3, PlayingImplements DEF Course!Finish, Course!Over, told
<1> QED BY <1>2, <1>3 DEF Complete

\* The pairs of a linear game are its neighbours, those of a game with scene
\* transitions its edges that may be taken.
LEMMA LinearFollow ==
  ASSUME SceneTransitions = <<>>, NEW p \in Phases, p + 1 < NumPhases
  PROVE  <<p, p + 1>> \in Follow
<1>1. p \in 0 .. NumPhases - 2 BY DEF Phases
<1> QED BY <1>1 DEF Follow

LEMMA EdgeFollow ==
  ASSUME SceneTransitions # <<>>, NEW p \in Phases, NEW e \in matching(p)
  PROVE  <<p, SceneTransitions[e].to>> \in Follow
<1> DEFINE S(q) == {<<q, SceneTransitions[f].to>> : f \in matching(q)}
<1>1. <<p, SceneTransitions[e].to>> \in S(p) OBVIOUS
<1>2. <<p, SceneTransitions[e].to>> \in UNION {S(q) : q \in Phases} BY <1>1
<1> QED BY <1>2 DEF Follow

LEMMA InitImplements == Init => Course!Init
BY DEF Init, Course!Init, Course!Idle, Course!Phases, Phases

\* Every step of the engine is a step of the course or a stutter.
LEMMA StepImplements ==
  ASSUME IInv, [Next]_vars
  PROVE  Course!Next \/ UNCHANGED Course!vars
<1>1. CASE StartSucceeds
  <2>1. Enter(0, FALSE) /\ started' /\ ~started /\ current' = 0
        /\ currentRound' = 1 /\ stopped' = stopped
    BY <1>1 DEF StartSucceeds
  <2> 0 \in Phases BY DEF Phases
  <2>2. Course!Enter(0) BY <2>1, EnterImplements
  <2>3. Course!Begin BY <2>1, <2>2 DEF Course!Begin, Course!Idle
  <2> QED BY <2>3 DEF Course!Next
<1>2. CASE StartFails
  <2>1. UNCHANGED <<started, stopped, announced, visits, currentRound>> /\ ~started
    BY <1>2 DEF StartFails, EnterFails, told, position
  <2> QED BY <2>1 DEF Course!vars
<1>3. CASE stop /\ UNCHANGED <<started, position, told>>
  <2>1. CASE running
    <3>1. started /\ ~stopped /\ stopped' /\ stopped' = TRUE
      BY <1>3, <2>1 DEF running, stop
    <3>2. current # -1 BY DEF IInv, TypeOK
    <3>3. Course!Halt
      BY <1>3, <3>1, <3>2 DEF Course!Halt, Course!Idle, position, told
    <3> QED BY <3>3 DEF Course!Next
  <2>2. CASE ~running
    <3>1. UNCHANGED stopped BY <1>3, <2>2 DEF stop
    <3> QED BY <1>3, <3>1, Stutter
  <2> QED BY <2>1, <2>2
<1>4. CASE AdvanceScene
  <2>1. CASE SceneTransitions = <<>> /\ current + 1 < NumPhases
                /\ Move(current + 1, currentRound + 1)
    <3>1. current \in Phases /\ current + 1 \in Phases
      BY <2>1, NextPhase DEF IInv, Move, inPhase
    <3>2. \/ UNCHANGED Course!vars
          \/ /\ Course!playing /\ Course!Enter(current + 1)
             /\ currentRound' = currentRound + 1 /\ UNCHANGED stopped
      BY <2>1, <3>1, MoveImplements
    <3>3. <<current, current + 1>> \in Follow BY <2>1, <3>1, LinearFollow
    <3>4. started BY <2>1 DEF Move, inPhase, running
    <3>5. Course!Advance(current + 1) \/ UNCHANGED Course!vars
      BY <3>2, <3>3, <3>4 DEF Course!Advance
    <3> QED BY <3>1, <3>5 DEF Course!Next, Course!Phases, Phases
  <2>2. CASE SceneTransitions = <<>> /\ current + 1 >= NumPhases /\ Complete
    <3>1. current \in Phases BY <2>2 DEF Complete, inPhase
    <3>2. current = NumPhases - 1 BY <2>2, <3>1 DEF Phases
    <3>3. current \in Last BY <2>2, <3>2 DEF Last
    <3> QED BY <2>2, <3>3, CompleteImplements DEF Course!Next
  <2>3. CASE IndexPanics
    BY <2>3, Stutter DEF IndexPanics
  <2>4. CASE SceneTransitions # <<>> /\ sceneTransitionsFrom(current) = {} /\ Complete
    <3>1. current \in Phases BY <2>4 DEF Complete, inPhase
    <3>2. current \in Last BY <2>4, <3>1 DEF Last
    <3> QED BY <2>4, <3>2, CompleteImplements DEF Course!Next
  <2>5. ASSUME SceneTransitions # <<>>, NEW e \in matching(current),
               Move(SceneTransitions[e].to, currentRound + 1)
        PROVE  Course!Next \/ UNCHANGED Course!vars
    <3>1. PICK p \in Phases : p = SceneTransitions[e].to BY TargetType
    <3>2. current \in Phases /\ started BY <2>5 DEF Move, inPhase, running
    <3>3. <<current, p>> \in Follow BY <2>5, <3>1, <3>2, EdgeFollow
    <3>4. Move(p, currentRound + 1) BY <2>5, <3>1
    <3>5. \/ UNCHANGED Course!vars
          \/ /\ Course!playing /\ Course!Enter(p)
             /\ currentRound' = currentRound + 1 /\ UNCHANGED stopped
      BY <3>4, MoveImplements
    <3>6. Course!Advance(p) \/ UNCHANGED Course!vars
      BY <3>2, <3>3, <3>5 DEF Course!Advance
    <3> QED BY <3>6 DEF Course!Next, Course!Phases, Phases
  <2> QED BY <1>4, <2>1, <2>2, <2>3, <2>4, <2>5 DEF AdvanceScene, AdvancePhase
<1>5. CASE SkipToPhase
  <2>1. CASE IndexPanics
    BY <2>1, Stutter DEF IndexPanics
  <2>2. ASSUME NEW p \in Phases, Move(p, currentRound)
        PROVE  Course!Next \/ UNCHANGED Course!vars
    <3>1. \/ UNCHANGED Course!vars
          \/ /\ Course!playing /\ Course!Enter(p)
             /\ currentRound' = currentRound /\ UNCHANGED stopped
      BY <2>2, MoveImplements
    <3>2. Course!Jump(p) \/ UNCHANGED Course!vars
      BY <3>1 DEF Course!Jump
    <3> QED BY <3>2 DEF Course!Next, Course!Phases, Phases
  <2> QED BY <1>5, <2>1, <2>2 DEF SkipToPhase
<1>6. CASE HandleMessage \/ DispatchAction
  BY <1>6, Stutter DEF HandleMessage, DispatchAction
<1>7. CASE UNCHANGED vars
  BY <1>7, Stutter DEF vars
<1>8. CASE cleanupOnStartFail \/ Stop
  BY <1>8, <1>3 DEF cleanupOnStartFail, Stop
<1> QED BY <1>1, <1>2, <1>4, <1>5, <1>6, <1>7, <1>8 DEF Next

\* Every behaviour of the engine is a behaviour of the course of phases: moves
\* are atomic for the players, and failed operations do not show.
THEOREM EngineImplementsCourse == Spec => ImplementsCourse
<1>1. IInv /\ [Next]_vars => [Course!Next]_(Course!vars) BY StepImplements
<1> QED BY <1>1, InitImplements, Invariance, PTL DEF Spec, ImplementsCourse, Course!Spec

-----------------------------------------------------------------------------
(* The event_progression module inside the engine *)

USE TriggerAssumption

\* Each step of the engine with the module is a step of the engine: a trigger
\* or a legacy edge re-enters it by a jump.
LEMMA MoveIsJump ==
  ASSUME NEW p \in Phases, IndexPanics \/ Move(p, currentRound)
  PROVE  Next
BY DEF Next, SkipToPhase

LEMMA EngineSteps == [EventNext]_allVars => [Next]_vars
<1> SUFFICES ASSUME [EventNext]_allVars PROVE [Next]_vars OBVIOUS
<1>1. CASE EngineStep BY <1>1 DEF EngineStep, Next
<1>2. CASE StopAll BY <1>2 DEF StopAll, Next
<1>3. ASSUME NEW t \in Triggers, TriggerFails(t) \/ TriggerActs(t) PROVE UNCHANGED vars
  BY <1>3 DEF TriggerFails, TriggerActs
<1>4. ASSUME NEW t \in Triggers, TriggerMoves(t) PROVE [Next]_vars
  <2>1. CASE UNCHANGED vars BY <2>1
  <2>2. CASE To[t] \in Phases /\ (IndexPanics \/ Move(To[t], currentRound))
    BY <2>2, MoveIsJump
  <2> QED BY <1>4, <2>1, <2>2 DEF TriggerMoves
<1>5. ASSUME NEW p \in Phases, GraphMoves(p) PROVE Next
  BY <1>5, MoveIsJump DEF GraphMoves
<1>6. CASE UNCHANGED allVars BY <1>6 DEF allVars
<1> QED BY <1>1, <1>2, <1>3, <1>4, <1>5, <1>6 DEF EventNext

LEMMA EventImpliesSpec == EventSpec => Spec
<1>1. EventInit => Init BY DEF EventInit
<1> QED BY <1>1, EngineSteps, PTL DEF EventSpec, Spec

\* With triggers, re-entry and their failures the game is still a course of
\* phases.
THEOREM EventImplementsCourse == EventSpec => ImplementsCourse
BY EventImpliesSpec, EngineImplementsCourse

LEMMA EngineInvariance == EventSpec => []IInv
BY EventImpliesSpec, Invariance

LEMMA NoneIsNoPhase == None \notin Phases
BY SizeAssumption, NoneAssumption DEF Phases

-----------------------------------------------------------------------------
\* A step counts at most the visit of one phase, by entering it to its end.
LEMMA VisitsGrow ==
  ASSUME IInv, [Next]_vars
  PROVE  \A p \in Phases : visits'[p] >= visits[p]
<1>1. visits \in [Phases -> Nat] BY DEF IInv, TypeOK
<1>2. ASSUME NEW q, NEW exits, Enter(q, exits) PROVE \A p \in Phases : visits'[p] >= visits[p]
  BY <1>1, <1>2 DEF Enter
<1>3. ASSUME UNCHANGED told PROVE \A p \in Phases : visits'[p] >= visits[p]
  BY <1>1, <1>3 DEF told
<1>4. ASSUME NEW q, NEW r, Move(q, r) PROVE \A p \in Phases : visits'[p] >= visits[p]
  BY <1>4, <1>2, <1>3 DEF Move, MoveSucceeds, MoveFails, ExitFails, EnterFails
<1>5. Complete \/ IndexPanics => UNCHANGED told
  BY DEF Complete, ExitFails, IndexPanics, told
<1>6. CASE StartSucceeds BY <1>6, <1>2 DEF StartSucceeds
<1>7. CASE AdvanceScene BY <1>7, <1>3, <1>4, <1>5 DEF AdvanceScene, AdvancePhase
<1>8. CASE SkipToPhase BY <1>8, <1>3, <1>4, <1>5 DEF SkipToPhase
<1>9. CASE StartFails \/ cleanupOnStartFail \/ Stop \/ HandleMessage \/ DispatchAction
           \/ UNCHANGED vars
  BY <1>9, <1>3 DEF StartFails, EnterFails, cleanupOnStartFail, Stop, HandleMessage,
                    DispatchAction, vars
<1> QED BY <1>6, <1>7, <1>8, <1>9 DEF Next

\* A game that has left its last phase enters no other.
LEMMA OverStays ==
  ASSUME IInv, [Next]_vars, started, current = NumPhases
  PROVE  started' /\ current' = NumPhases
<1>1. ~inPhase BY DEF inPhase, Phases, IInv, TypeOK
<1> QED
  BY <1>1 DEF Next, vars, StartSucceeds, StartFails, cleanupOnStartFail, Stop, AdvanceScene,
       AdvancePhase, SkipToPhase, Move, Complete, IndexPanics, HandleMessage, DispatchAction,
       position

\* A move that counts a visit has counted that of its target.
LEMMA CountedIsEntered ==
  ASSUME IInv, NEW p \in Phases, NEW r, Move(p, r), visits' # visits
  PROVE  visits'[p] > 0
<1>1. ~MoveFails(p) BY DEF MoveFails, ExitFails, EnterFails, told
<1>2. Enter(p, TRUE) BY <1>1 DEF Move, MoveSucceeds
<1>3. visits \in [Phases -> Nat] BY DEF IInv, TypeOK
<1> QED BY <1>2, <1>3 DEF Enter

-----------------------------------------------------------------------------
EventInv == TriggersOK /\ AppliedMeansEntered /\ ReservedOnlyWhenOver

LEMMA EventInitInv == EventInit => EventInv
BY DEF EventInit, EventInv, TriggersOK, AppliedMeansEntered, ReservedOnlyWhenOver

\* Only a commit counts a trigger, and only once.
LEMMA CommitType ==
  ASSUME TriggersOK, NEW t \in Triggers, available(t), commit(t)
  PROVE  /\ triggerCounts' \in [Triggers -> {0, 1}] /\ UNCHANGED triggerRuns
         /\ \A u \in Triggers : triggerCounts'[u] = IF u = t THEN 1 ELSE triggerCounts[u]
BY DEF TriggersOK, available, commit

LEMMA EventStepInv ==
  ASSUME IInv, EventInv, [EventNext]_allVars
  PROVE  EventInv'
<1>1. [Next]_vars BY EngineSteps
<1>2. \A p \in Phases : visits'[p] >= visits[p] BY <1>1, VisitsGrow
<1>3. started /\ current = NumPhases => started' /\ current' = NumPhases
  BY <1>1, OverStays
<1>4. TriggersOK /\ visits \in [Phases -> Nat] BY DEF EventInv, IInv, TypeOK
<1>4a. IInv' BY <1>1, StepInv
<1>4b. visits' \in [Phases -> Nat] BY <1>4a DEF IInv, TypeOK
<1>5. ASSUME NEW t \in Triggers, dispatchAll(t) PROVE dispatched' \in [Triggers -> Nat]
  BY <1>4, <1>5 DEF dispatchAll, TriggersOK
<1>6. ASSUME UNCHANGED <<triggerCounts, triggerRuns>>, dispatched' \in [Triggers -> Nat]
      PROVE  EventInv'
  BY <1>2, <1>3, <1>4, <1>4b, <1>6
  DEF EventInv, TriggersOK, AppliedMeansEntered, ReservedOnlyWhenOver
<1>7. ASSUME NEW t \in Triggers, available(t), commit(t), dispatched' \in [Triggers -> Nat],
             To[t] \in Phases => visits'[To[t]] > 0
      PROVE  EventInv'
  <2>1. /\ triggerCounts' \in [Triggers -> {0, 1}] /\ UNCHANGED triggerRuns
        /\ \A u \in Triggers : triggerCounts'[u] = IF u = t THEN 1 ELSE triggerCounts[u]
    BY <1>4, <1>7, CommitType
  <2>2. AppliedMeansEntered'
    <3>1. ASSUME NEW u \in Triggers, triggerCounts'[u] > 0, To[u] \in Phases
          PROVE  visits'[To[u]] > 0
      <4>1. CASE u = t BY <1>7, <3>1, <4>1
      <4>2. CASE u # t
        <5>1. triggerCounts[u] > 0 BY <2>1, <3>1, <4>2
        <5>2. visits[To[u]] > 0 BY <3>1, <5>1 DEF EventInv, AppliedMeansEntered
        <5> QED BY <1>2, <1>4, <1>4b, <3>1, <5>2
      <4> QED BY <4>1, <4>2
    <3> QED BY <3>1 DEF AppliedMeansEntered
  <2>3. TriggersOK' BY <1>4, <1>7, <2>1 DEF TriggersOK
  <2>4. ReservedOnlyWhenOver' BY <1>3, <2>1 DEF EventInv, ReservedOnlyWhenOver
  <2> QED BY <2>2, <2>3, <2>4 DEF EventInv
<1>8. ASSUME NEW t \in Triggers, IndexPanics, abandon(t), dispatched' \in [Triggers -> Nat]
      PROVE  EventInv'
  <2>1. started' /\ current' = NumPhases /\ UNCHANGED <<visits, triggerCounts>>
    BY <1>8 DEF IndexPanics, running, position, told, abandon
  <2>2. triggerRuns' \in [Triggers -> BOOLEAN] BY <1>4, <1>8 DEF abandon, TriggersOK
  <2> QED BY <1>4, <1>8, <2>1, <2>2
          DEF EventInv, TriggersOK, AppliedMeansEntered, ReservedOnlyWhenOver
<1>9. CASE EngineStep
  BY <1>9, <1>4, <1>6 DEF EngineStep, trigger, TriggersOK
<1>10. CASE StopAll
  BY <1>10, <1>4
  DEF StopAll, EventInv, TriggersOK, AppliedMeansEntered, ReservedOnlyWhenOver
<1>11. ASSUME NEW t \in Triggers, TriggerFails(t) PROVE EventInv'
  BY <1>11, <1>4, <1>6 DEF TriggerFails, rollback, TriggersOK
<1>12. ASSUME NEW t \in Triggers, TriggerActs(t) PROVE EventInv'
  <2>1. To[t] \notin Phases BY <1>12, NoneIsNoPhase DEF TriggerActs
  <2> QED BY <1>12, <1>5, <1>7, <2>1 DEF TriggerActs
<1>13. ASSUME NEW t \in Triggers, TriggerMoves(t) PROVE EventInv'
  <2>1. available(t) /\ dispatched' \in [Triggers -> Nat] BY <1>13, <1>5 DEF TriggerMoves
  <2>2. CASE rollback(t) BY <2>1, <2>2, <1>6 DEF rollback
  <2>3. CASE IndexPanics /\ abandon(t) BY <2>1, <2>3, <1>8
  <2>4. CASE To[t] \in Phases /\ Move(To[t], currentRound) /\ visits' # visits /\ commit(t)
    <3>1. visits'[To[t]] > 0 BY <2>4, CountedIsEntered
    <3> QED BY <2>1, <2>4, <3>1, <1>7
  <2> QED BY <1>13, <2>2, <2>3, <2>4 DEF TriggerMoves
<1>14. ASSUME NEW p \in Phases, GraphMoves(p) PROVE EventInv'
  BY <1>14, <1>4, <1>6 DEF GraphMoves, trigger, TriggersOK
<1>15. CASE UNCHANGED allVars
  BY <1>15, <1>4, <1>6 DEF allVars, trigger, TriggersOK
<1> QED BY <1>9, <1>10, <1>11, <1>12, <1>13, <1>14, <1>15 DEF EventNext

LEMMA EventInvariance == EventSpec => []EventInv
BY EngineInvariance, EventInitInv, EventStepInv, PTL DEF EventSpec

-----------------------------------------------------------------------------
\* A trigger is consumed only by a game that has entered its target, whatever
\* moves have failed before and after.
THEOREM ConsumedMeansEntered == EventSpec => []AppliedMeansEntered
BY EventInvariance, PTL DEF EventInv

\* A trigger stays reserved only in a game that has left its last phase, where
\* every move panics: as long as the game is in a phase, whatever failed or panicked on
\* a move gave the trigger back.
THEOREM FailureReleases == EventSpec => []ReservedOnlyWhenOver
BY EventInvariance, PTL DEF EventInv

\* Without backtracking no trigger leads to a phase the engine has counted:
\* the copy of the module is never behind the engine's own counts.
THEOREM TriggersNeverReturn == EventSpec => NoReturn
<1> DEFINE P == \A t \in Triggers :
                  triggerCounts'[t] > triggerCounts[t] /\ To[t] \in Phases
                    => AllowBacktrack \/ visits[To[t]] = 0
<1>1. ASSUME IInv, EventInv, EventNext, NEW t \in Triggers,
             triggerCounts'[t] > triggerCounts[t], To[t] \in Phases
      PROVE  AllowBacktrack \/ visits[To[t]] = 0
  <2>1. TriggersOK BY <1>1 DEF EventInv
  <2>2. triggerCounts' # triggerCounts BY <1>1, <2>1 DEF TriggersOK
  <2>3. ~StopAll
    <3>1. triggerCounts[t] \in {0, 1} BY <2>1 DEF TriggersOK
    <3>2. StopAll => triggerCounts'[t] = 0 BY DEF StopAll
    <3> QED BY <1>1, <3>1, <3>2
  <2>4. \E u \in Triggers : available(u) /\ commit(u)
    <3>1. ~EngineStep /\ ~\E p \in Phases : GraphMoves(p)
      BY <2>2 DEF EngineStep, GraphMoves, trigger
    <3>2. PICK u \in Triggers : TriggerFails(u) \/ TriggerActs(u) \/ TriggerMoves(u)
      BY <1>1, <2>3, <3>1 DEF EventNext
    <3>3. available(u) BY <3>2 DEF TriggerFails, TriggerActs, TriggerMoves
    <3>4. commit(u)
      BY <2>2, <3>2 DEF TriggerFails, TriggerActs, TriggerMoves, rollback, abandon
    <3> QED BY <3>3, <3>4
  <2>5. PICK u \in Triggers : available(u) /\ commit(u) BY <2>4
  <2>6. u = t BY <1>1, <2>1, <2>5, CommitType DEF TriggersOK
  <2>7. To[t] # None BY <1>1, NoneIsNoPhase
  <2>8. validateBacktrack(To[t]) BY <2>5, <2>6, <2>7 DEF available
  <2>9. AllowBacktrack \/ To[t] \notin heard[Self]
    BY <2>8 DEF validateBacktrack, visitedPhases
  <2>10. ~(visits[To[t]] > 0) \/ AllowBacktrack
    BY <1>1, <2>9 DEF IInv, VisitsAreHeard
  <2>11. visits[To[t]] \in Nat BY <1>1 DEF IInv, TypeOK
  <2> QED BY <2>10, <2>11
<1>2. IInv /\ EventInv /\ [EventNext]_allVars => [P]_allVars BY <1>1
<1> QED BY <1>2, EngineInvariance, EventInvariance, PTL DEF EventSpec, NoReturn
=============================================================================
