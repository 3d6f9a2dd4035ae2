--------------------------- MODULE SessionProofs ---------------------------
(***************************************************************************)
(* The safety of a game session.  First SessionLifecycle, for any rooms,   *)
(* sessions, clients, inbox size and panic threshold: IInv is the          *)
(* inductive invariant; each part says what one group of goroutines relies *)
(* on.  Then SessionSnapshot, where SnapshotInv is; the two specifications *)
(* share the variables of Session, and no theorem assumes both.            *)
(***************************************************************************)
EXTENDS SessionLifecycle, SessionSnapshot, TLAPS

\* Before its insertion nobody but the starter knows the session.
Unseen == {"idle", "built", "queued"}
\* The starter of a session that is not, or no longer, its to register.
Unregistered == Unseen \cup {"cleanup", "stop", "failed", "panicked"}

RegistryInv ==
  \A s \in Sessions, r \in Rooms :
    sessions[r] = s => room[s] = r /\ starter[s] \notin Unregistered

BirthInv ==
  \A s \in Sessions :
    /\ starter[s] # "idle" => room[s] \in Rooms
    /\ starter[s] \in Unseen => engine[s] = "new"
    /\ starter[s] \in Unseen \cup {"spawn"} => actor[s] = "unborn"
    /\ starter[s] \in Unseen => stopper[s] = "idle"
    /\ starter[s] \in {"idle", "built"} => inbox[s] = <<>>
    /\ actor[s] = "unborn" => panics[s] = 0 /\ cur[s] = None

ClientInv ==
  \A c \in Clients :
    /\ passed[c] => ref[c] # None
    /\ \A s \in Sessions : ref[c] = s => starter[s] \notin Unseen

\* KindEngineStart is the first message, and there is only one.
FirstIsStart(s) == engine[s] = "new" /\ starter[s] \notin {"idle", "built"} =>
                     \/ inbox[s] # <<>> /\ Head(inbox[s]) = "start"
                     \/ actor[s] = "handle" /\ cur[s] = "start"
OneStart(s) == \A i \in 1 .. Len(inbox[s]) :
                 inbox[s][i] = "start" => i = 1 /\ engine[s] = "new" /\ cur[s] # "start"
CurrentInv(s) == /\ cur[s] = "start" => engine[s] = "new"
                 /\ actor[s] = "handle" => cur[s] \in {"start", "command"}
                 /\ actor[s] = "kindStop" => cur[s] = "stop"
                 /\ reply[s] = "ok" => engine[s] = "started"
QueueInv == \A s \in Sessions : FirstIsStart(s) /\ OneStart(s) /\ CurrentInv(s)

DoneInv ==
  \A s \in Sessions :
    /\ starter[s] = "failed" => done[s]
    /\ actor[s] \in {"exited", "abortUnmap"} => done[s]

IInv == /\ TypeOK
        /\ RegistryInv
        /\ BirthInv
        /\ ClientInv
        /\ QueueInv
        /\ DoneInv
        /\ EngineStartFirst
        /\ AbortIsFinal
        /\ StartedHasEngine
-----------------------------------------------------------------------------
(***************************************************************************)
(* Session.stop and its callers.  Whatever stop finds, it keeps the types, *)
(* never reopens a channel, and returns only with the channel closed.      *)
(***************************************************************************)
GateStep == /\ done' \in [Sessions -> BOOLEAN]
            /\ status' \in [Sessions -> {"Starting", "Running", "Stopped"}]
            /\ armed' \in [Sessions -> SUBSET Roles]
            /\ \A s \in Sessions : done[s] => done'[s]

\* What the handler of KindStop leaves: it is still in stop, or back in the
\* loop, or its panic has been recovered.
KindStopStep(s) ==
  /\ GateStep
  /\ UNCHANGED <<sessions, room, starter, reply, cancelled, engine, ref, passed,
                 sends, inbox, stopper, crashed>>
  /\ actor[s] = "kindStop"
  /\ \E a \in {"kindStop", "select", "abortStop"}, k \in {cur[s], None},
        n \in {panics[s], panics[s] + 1} :
       /\ actor' = [actor EXCEPT ![s] = a]
       /\ cur' = [cur EXCEPT ![s] = k]
       /\ panics' = [panics EXCEPT ![s] = n]
       /\ a = "kindStop" => k = cur[s]
       /\ n >= PanicLimit /\ a # "abortStop" => n = panics[s]

StopSteps ==
  \A s \in Sessions :
    /\ StarterStop(s) \/ StopperStop(s) \/ CtxStop(s) \/ AbortStop(s) => GateStep
    /\ StarterStop(s) => starter'[s] \in {"stop", "panicked"} \/ done'[s]
    /\ CtxStop(s) => actor'[s] \in {"ctxStop", "dead"} \/ done'[s]
    /\ AbortStop(s) => actor'[s] \in {"abortStop", "dead"} \/ done'[s]
    /\ KindStop(s) => KindStopStep(s)

\* What one call of stop does to the session's channel.
LEMMA StopFacts ==
  ASSUME TypeOK, NEW s \in Sessions, NEW p \in Roles,
         StopPassesGuard(s, p) \/ StopReturns(s, p) \/ StopPanics(s, p)
  PROVE  GateStep /\ (StopReturns(s, p) => done'[s])
<1>1. CASE StopPassesGuard(s, p)
  BY <1>1 DEF StopPassesGuard, StopReturns, StopIsNoop, StopCloses, TypeOK, GateStep
<1>2. CASE StopIsNoop(s, p)
  BY <1>2 DEF StopIsNoop, gate, TypeOK, GateStep
<1>3. CASE StopCloses(s, p)
  BY <1>3 DEF StopCloses, TypeOK, GateStep
<1>4. CASE StopPanics(s, p)
  BY <1>4 DEF StopPanics, StopReturns, StopIsNoop, StopCloses, TypeOK, GateStep
<1> QED
  BY <1>1, <1>2, <1>3, <1>4 DEF StopReturns

\* The handler of KindStop, which recovers the panic of stop.
LEMMA KindStopFacts ==
  ASSUME TypeOK, NEW s \in Sessions, KindStop(s)
  PROVE  KindStopStep(s)
<1>1. /\ UNCHANGED <<sessions, room, starter, reply, cancelled, engine, ref, passed,
                     sends, inbox, stopper, crashed>>
      /\ actor[s] = "kindStop"
  BY DEF KindStop, registry, start, client
<1>2. "actor" \in Roles
  BY DEF Roles
<1>3. CASE StopPassesGuard(s, "actor") /\ UNCHANGED <<actor, cur, panics>>
  <2>1. /\ actor' = [actor EXCEPT ![s] = "kindStop"]
        /\ cur' = [cur EXCEPT ![s] = cur[s]]
        /\ panics' = [panics EXCEPT ![s] = panics[s]]
    BY <1>1, <1>3 DEF TypeOK
  <2>2. GateStep
    BY <1>2, <1>3, StopFacts
  <2> QED
    BY <1>1, <2>1, <2>2 DEF KindStopStep
<1>4. CASE /\ StopReturns(s, "actor")
           /\ actor' = [actor EXCEPT ![s] = "select"]
           /\ cur' = [cur EXCEPT ![s] = None] /\ UNCHANGED panics
  <2>1. panics' = [panics EXCEPT ![s] = panics[s]]
    BY <1>4 DEF TypeOK
  <2>2. GateStep
    BY <1>2, <1>4, StopFacts
  <2> QED
    BY <1>1, <1>4, <2>1, <2>2 DEF KindStopStep
<1>5. CASE StopPanics(s, "actor") /\ onPanic(s)
  <2>1. GateStep
    BY <1>2, <1>5, StopFacts
  <2> QED
    BY <1>1, <1>5, <2>1, SizeAssumption DEF KindStopStep, onPanic, TypeOK
<1> QED
  BY <1>3, <1>4, <1>5 DEF KindStop

\* The five callers of stop.
LEMMA StopStepsHold == TypeOK => StopSteps
<1> SUFFICES ASSUME TypeOK, NEW s \in Sessions
             PROVE  /\ StarterStop(s) \/ StopperStop(s) \/ CtxStop(s) \/ AbortStop(s) => GateStep
                    /\ StarterStop(s) => starter'[s] \in {"stop", "panicked"} \/ done'[s]
                    /\ CtxStop(s) => actor'[s] \in {"ctxStop", "dead"} \/ done'[s]
                    /\ AbortStop(s) => actor'[s] \in {"abortStop", "dead"} \/ done'[s]
  BY KindStopFacts DEF StopSteps
<1>1. Roles = {"starter", "stopper", "actor"}
  BY DEF Roles
<1>2. ASSUME StarterStop(s) PROVE GateStep /\ (starter'[s] \in {"stop", "panicked"} \/ done'[s])
  <2>1. GateStep
    BY <1>1, <1>2, StopFacts DEF StarterStop
  <2>2. StopReturns(s, "starter") => done'[s]
    BY <1>1, StopFacts
  <2> QED
    BY <1>2, <2>1, <2>2 DEF StarterStop, TypeOK
<1>3. ASSUME StopperStop(s) PROVE GateStep
  BY <1>1, <1>3, StopFacts DEF StopperStop
<1>4. ASSUME CtxStop(s) PROVE GateStep /\ (actor'[s] \in {"ctxStop", "dead"} \/ done'[s])
  <2>1. GateStep
    BY <1>1, <1>4, StopFacts DEF CtxStop
  <2>2. StopReturns(s, "actor") => done'[s]
    BY <1>1, StopFacts
  <2> QED
    BY <1>4, <2>1, <2>2 DEF CtxStop, TypeOK
<1>5. ASSUME AbortStop(s) PROVE GateStep /\ (actor'[s] \in {"abortStop", "dead"} \/ done'[s])
  <2>1. GateStep
    BY <1>1, <1>5, StopFacts DEF AbortStop
  <2>2. StopReturns(s, "actor") => done'[s]
    BY <1>1, StopFacts
  <2> QED
    BY <1>5, <2>1, <2>2 DEF AbortStop, TypeOK
<1> QED
  BY <1>2, <1>3, <1>4, <1>5

-----------------------------------------------------------------------------
\* What the inbox holds after a message enters or leaves it.
LEMMA AppendFacts ==
  ASSUME NEW q \in Seq(Kinds), NEW k \in Kinds
  PROVE  /\ Append(q, k) \in Seq(Kinds) /\ Append(q, k) # <<>>
         /\ Len(q) \in Nat /\ Len(Append(q, k)) = Len(q) + 1
         /\ Append(q, k)[Len(q) + 1] = k
         /\ \A i \in 1 .. Len(q) : Append(q, k)[i] = q[i]
         /\ q # <<>> => Head(Append(q, k)) = Head(q)
         /\ q = <<>> => Head(Append(q, k)) = k
  OBVIOUS

\* Receiving takes the first message and shifts the others.
LEMMA TailFacts ==
  ASSUME NEW q \in Seq(Kinds), q # <<>>
  PROVE  /\ Head(q) = q[1] /\ Head(q) \in Kinds /\ Len(q) \in Nat /\ Len(q) >= 1
         /\ Tail(q) \in Seq(Kinds) /\ Len(Tail(q)) = Len(q) - 1
         /\ \A i \in 1 .. Len(Tail(q)) : Tail(q)[i] = q[i + 1]
  OBVIOUS


\* Every step keeps the types: a send goes to a session, never to None.
LEMMA TypeOKStep == TypeOK /\ ClientInv /\ Next => TypeOK'
<1> SUFFICES ASSUME TypeOK /\ ClientInv, Next PROVE TypeOK'
  OBVIOUS
<1>s. StopSteps
  BY StopStepsHold
<1> USE NoneAssumption, SizeAssumption, BoundAssumption DEF TypeOK,
  ClientInv, Kinds, registry, start, run, gate, client, removeSession,
  onPanic
<1>1. ASSUME NEW s \in Sessions, StarterStop(s) PROVE TypeOK'
  <2>1. GateStep
    BY <1>1, <1>s DEF StopSteps
  <2>2. \E a \in {"stop", "failed", "panicked"} : starter' = [starter EXCEPT ![s] = a]
    BY <1>1 DEF StarterStop
  <2>3. UNCHANGED <<sessions, room, reply, cancelled, stopper, actor, cur, panics, engine, client,
                    inbox, crashed>>
    BY <1>1 DEF StarterStop
  <2> QED
    BY <2>1, <2>2, <2>3 DEF GateStep
<1>2. ASSUME NEW s \in Sessions, PreQueue(s) PROVE TypeOK'
  BY <1>2 DEF PreQueue
<1>3. ASSUME NEW s \in Sessions, Insert(s) PROVE TypeOK'
  BY <1>3 DEF Insert
<1>4. ASSUME NEW s \in Sessions, AlreadyActive(s) PROVE TypeOK'
  BY <1>4 DEF AlreadyActive
<1>5. ASSUME NEW s \in Sessions, Go(s) PROVE TypeOK'
  BY <1>5 DEF Go
<1>6. ASSUME NEW s \in Sessions, StartSucceeds(s) PROVE TypeOK'
  BY <1>6 DEF StartSucceeds
<1>7. ASSUME NEW s \in Sessions, StartFails(s) PROVE TypeOK'
  BY <1>7 DEF StartFails
<1>8. ASSUME NEW s \in Sessions, Unmap(s) PROVE TypeOK'
  BY <1>8 DEF Unmap
<1>9. ASSUME NEW s \in Sessions, Cleanup(s) PROVE TypeOK'
  BY <1>9 DEF Cleanup
<1>10. ASSUME NEW s \in Sessions, StopperStop(s) PROVE TypeOK'
  <2>1. GateStep
    BY <1>10, <1>s DEF StopSteps
  <2>2. \E a \in {"stop", "wait", "panicked"} : stopper' = [stopper EXCEPT ![s] = a]
    BY <1>10 DEF StopperStop
  <2>3. UNCHANGED <<sessions, room, reply, cancelled, starter, actor, cur, panics, engine, client,
                    inbox, crashed>>
    BY <1>10 DEF StopperStop
  <2> QED
    BY <2>1, <2>2, <2>3 DEF GateStep
<1>11. ASSUME NEW s \in Sessions, StopperWait(s) PROVE TypeOK'
  BY <1>11 DEF StopperWait
<1>12. ASSUME NEW s \in Sessions, CtxStop(s) PROVE TypeOK'
  <2>1. GateStep
    BY <1>12, <1>s DEF StopSteps
  <2>2. \E a \in {"ctxStop", "exited", "dead"} : actor' = [actor EXCEPT ![s] = a]
    BY <1>12 DEF CtxStop
  <2>3. /\ crashed' \in BOOLEAN
        /\ UNCHANGED <<sessions, room, reply, cancelled, starter, stopper, cur, panics, engine,
                       client, inbox>>
    BY <1>12 DEF CtxStop
  <2> QED
    BY <2>1, <2>2, <2>3 DEF GateStep
<1>13. ASSUME NEW s \in Sessions, KindStop(s) PROVE TypeOK'
  <2>1. KindStopStep(s)
    BY <1>13, <1>s DEF StopSteps
  <2>2. /\ actor' \in [Sessions -> {"unborn", "spawned", "select", "handle", "kindStop",
                    "abortStop", "abortUnmap", "ctxStop", "exited", "dead"}]
    BY <2>1 DEF KindStopStep
  <2>3. cur' \in [Sessions -> Kinds \cup {None}]
    <3>1. PICK k \in {cur[s], None} : cur' = [cur EXCEPT ![s] = k]
      BY <2>1 DEF KindStopStep
    <3>2. k \in Kinds \cup {None}
      OBVIOUS
    <3> QED
      BY <3>1, <3>2
  <2>4. panics' \in [Sessions -> Nat]
    BY <2>1 DEF KindStopStep
  <2> QED
    BY <2>1, <2>2, <2>3, <2>4 DEF KindStopStep, GateStep
<1>14. ASSUME NEW s \in Sessions, AbortStop(s) PROVE TypeOK'
  <2>1. GateStep
    BY <1>14, <1>s DEF StopSteps
  <2>2. \E a \in {"abortStop", "abortUnmap", "dead"} : actor' = [actor EXCEPT ![s] = a]
    BY <1>14 DEF AbortStop
  <2>3. /\ crashed' \in BOOLEAN
        /\ UNCHANGED <<sessions, room, reply, cancelled, starter, stopper, cur, panics, engine,
                       client, inbox>>
    BY <1>14 DEF AbortStop
  <2> QED
    BY <2>1, <2>2, <2>3 DEF GateStep
<1>15. ASSUME NEW s \in Sessions, RunEntry(s) PROVE TypeOK'
  BY <1>15 DEF RunEntry
<1>16. ASSUME NEW s \in Sessions, Receive(s) PROVE TypeOK'
  BY <1>16 DEF Receive
<1>17. ASSUME NEW s \in Sessions, SeeDone(s) PROVE TypeOK'
  BY <1>17 DEF SeeDone
<1>18. ASSUME NEW s \in Sessions, SeeCtx(s) PROVE TypeOK'
  BY <1>18 DEF SeeCtx
<1>19. ASSUME NEW s \in Sessions, HandleStart(s) PROVE TypeOK'
  BY <1>19 DEF HandleStart
<1>20. ASSUME NEW s \in Sessions, HandleCommand(s) PROVE TypeOK'
  BY <1>20 DEF HandleCommand
<1>21. ASSUME NEW s \in Sessions, HandlerPanics(s) PROVE TypeOK'
  BY <1>21 DEF HandlerPanics
<1>22. ASSUME NEW s \in Sessions, AbortUnmap(s) PROVE TypeOK'
  BY <1>22 DEF AbortUnmap
<1>23. ASSUME NEW s \in Sessions, Cancel(s) PROVE TypeOK'
  BY <1>23 DEF Cancel
<1>24. ASSUME NEW s \in Sessions, NEW r \in Rooms, Start(s, r) PROVE TypeOK'
  BY <1>24 DEF Start
<1>25. ASSUME NEW s \in Sessions, NEW r \in Rooms, Build(s, r) PROVE TypeOK'
  BY <1>25 DEF Build
<1>26. ASSUME NEW r \in Rooms, Take(r) PROVE TypeOK'
  BY <1>26 DEF Take
<1>27. ASSUME NEW c \in Clients, NEW r \in Rooms, Get(c, r) PROVE TypeOK'
  BY <1>27 DEF Get
<1>28. ASSUME NEW c \in Clients, SendCheck(c) PROVE TypeOK'
  <2>1. CASE done[ref[c]]
    <3>1. ref' = [ref EXCEPT ![c] = None] /\ passed' = passed
      BY <1>28, <2>1 DEF SendCheck
    <3> QED
      BY <1>28, <3>1 DEF SendCheck
  <2>2. CASE ~done[ref[c]]
    <3>1. passed' = [passed EXCEPT ![c] = TRUE] /\ ref' = ref /\ ref[c] # None
      BY <1>28, <2>2 DEF SendCheck
    <3> QED
      BY <1>28, <3>1 DEF SendCheck
  <2> QED
    BY <2>1, <2>2
<1>29. ASSUME NEW c \in Clients, NEW kind \in {"command", "stop"}, SendEnqueue(c, kind)
       PROVE  TypeOK'
  BY <1>29, AppendFacts DEF SendEnqueue, ClientInv
<1> QED
  BY ONLY Next, <1>1, <1>2, <1>3, <1>4, <1>5, <1>6, <1>7, <1>8, <1>9, <1>10,
    <1>11, <1>12, <1>13, <1>14, <1>15, <1>16, <1>17, <1>18, <1>19, <1>20,
    <1>21, <1>22, <1>23, <1>24, <1>25, <1>26, <1>27, <1>28, <1>29 DEF Next,
    Starter, Stopper, Actor, Sender


\* No step leaves in the map a session under a wrong room or one whose start
\* has given up.
LEMMA RegistryInvStep == TypeOK /\ RegistryInv /\ BirthInv /\ Next => RegistryInv'
<1> SUFFICES ASSUME TypeOK /\ RegistryInv /\ BirthInv, Next PROVE RegistryInv'
  OBVIOUS
<1>s. StopSteps
  BY StopStepsHold
<1> USE NoneAssumption, SizeAssumption, BoundAssumption DEF TypeOK,
  RegistryInv, Unregistered, Unseen, BirthInv, Kinds, registry, start, run,
  gate, client, removeSession, onPanic
<1>1. ASSUME NEW s \in Sessions, StarterStop(s) PROVE RegistryInv'
  <2>1. GateStep /\ (starter'[s] \in {"stop", "panicked"} \/ done'[s])
    BY <1>1, <1>s DEF StopSteps
  <2> QED
    BY <1>1, <2>1 DEF StarterStop, GateStep
<1>2. ASSUME NEW s \in Sessions, PreQueue(s) \/ Insert(s) \/
  AlreadyActive(s) \/ Go(s) \/ StartSucceeds(s) \/ StartFails(s) \/ Unmap(s)
  \/ Cleanup(s)
     PROVE  RegistryInv'
  BY <1>2 DEF PreQueue, Insert, AlreadyActive, Go, StartSucceeds,
    StartFails, Unmap, Cleanup
<1>3. ASSUME NEW s \in Sessions, StopperStop(s) PROVE RegistryInv'
  <2>1. GateStep
    BY <1>3, <1>s DEF StopSteps
  <2> QED
    BY <1>3, <2>1 DEF StopperStop, GateStep
<1>4. ASSUME NEW s \in Sessions, StopperWait(s) PROVE RegistryInv'
  BY <1>4 DEF StopperWait
<1>5. ASSUME NEW s \in Sessions, CtxStop(s) PROVE RegistryInv'
  <2>1. GateStep /\ (actor'[s] \in {"ctxStop", "dead"} \/ done'[s])
    BY <1>5, <1>s DEF StopSteps
  <2> QED
    BY <1>5, <2>1 DEF CtxStop, GateStep
<1>6. ASSUME NEW s \in Sessions, KindStop(s) PROVE RegistryInv'
  <2>1. KindStopStep(s)
    BY <1>6, <1>s DEF StopSteps
  <2> QED
    BY <2>1 DEF KindStopStep, GateStep
<1>7. ASSUME NEW s \in Sessions, AbortStop(s) PROVE RegistryInv'
  <2>1. GateStep /\ (actor'[s] \in {"abortStop", "dead"} \/ done'[s])
    BY <1>7, <1>s DEF StopSteps
  <2> QED
    BY <1>7, <2>1 DEF AbortStop, GateStep
<1>8. ASSUME NEW s \in Sessions, RunEntry(s) \/ Receive(s) \/ SeeDone(s) \/
  SeeCtx(s) \/ HandleStart(s) \/ HandleCommand(s) \/ HandlerPanics(s) \/
  AbortUnmap(s) \/ Cancel(s)
     PROVE  RegistryInv'
  BY <1>8 DEF RunEntry, Receive, SeeDone, SeeCtx, HandleStart,
    HandleCommand, HandlerPanics, AbortUnmap, Cancel
<1>9. ASSUME NEW s \in Sessions, NEW r \in Rooms, Start(s, r) PROVE RegistryInv'
  BY <1>9 DEF Start
<1>10. ASSUME NEW s \in Sessions, NEW r \in Rooms, Build(s, r) PROVE RegistryInv'
  BY <1>10 DEF Build
<1>11. ASSUME NEW r \in Rooms, Take(r) PROVE RegistryInv'
  BY <1>11 DEF Take
<1>12. ASSUME NEW c \in Clients, NEW r \in Rooms, Get(c, r) PROVE RegistryInv'
  BY <1>12 DEF Get
<1>13. ASSUME NEW c \in Clients, SendCheck(c) PROVE RegistryInv'
  BY <1>13 DEF SendCheck
<1>14. ASSUME NEW c \in Clients, NEW kind \in {"command", "stop"}, SendEnqueue(c, kind)
       PROVE  RegistryInv'
  BY <1>14 DEF SendEnqueue
<1> QED
  BY ONLY Next, <1>1, <1>2, <1>3, <1>4, <1>5, <1>6, <1>7, <1>8, <1>9, <1>10,
    <1>11, <1>12, <1>13, <1>14 DEF Next, Starter, Stopper, Actor, Sender


\* Every step respects the order build, queue, insert, go.
LEMMA BirthInvStep == TypeOK /\ RegistryInv /\ BirthInv /\ ClientInv /\ Next => BirthInv'
<1> SUFFICES ASSUME TypeOK /\ RegistryInv /\ BirthInv /\ ClientInv, Next PROVE BirthInv'
  OBVIOUS
<1>s. StopSteps
  BY StopStepsHold
<1> USE NoneAssumption, SizeAssumption, BoundAssumption DEF TypeOK,
  RegistryInv, Unregistered, Unseen, BirthInv, ClientInv, Kinds, registry,
  start, run, gate, client, removeSession, onPanic
<1>1. ASSUME NEW s \in Sessions, StarterStop(s) PROVE BirthInv'
  <2>1. GateStep /\ (starter'[s] \in {"stop", "panicked"} \/ done'[s])
    BY <1>1, <1>s DEF StopSteps
  <2> QED
    BY <1>1, <2>1 DEF StarterStop, GateStep
<1>2. ASSUME NEW s \in Sessions, PreQueue(s) \/ Insert(s) \/
  AlreadyActive(s) \/ Go(s) \/ StartSucceeds(s) \/ StartFails(s) \/ Unmap(s)
  \/ Cleanup(s)
     PROVE  BirthInv'
  BY <1>2 DEF PreQueue, Insert, AlreadyActive, Go, StartSucceeds,
    StartFails, Unmap, Cleanup
<1>3. ASSUME NEW s \in Sessions, StopperStop(s) PROVE BirthInv'
  <2>1. GateStep
    BY <1>3, <1>s DEF StopSteps
  <2> QED
    BY <1>3, <2>1 DEF StopperStop, GateStep
<1>4. ASSUME NEW s \in Sessions, StopperWait(s) PROVE BirthInv'
  BY <1>4 DEF StopperWait
<1>5. ASSUME NEW s \in Sessions, CtxStop(s) PROVE BirthInv'
  <2>1. GateStep /\ (actor'[s] \in {"ctxStop", "dead"} \/ done'[s])
    BY <1>5, <1>s DEF StopSteps
  <2> QED
    BY <1>5, <2>1 DEF CtxStop, GateStep
<1>6. ASSUME NEW s \in Sessions, KindStop(s) PROVE BirthInv'
  <2>1. KindStopStep(s)
    BY <1>6, <1>s DEF StopSteps
  <2> QED
    BY <2>1 DEF KindStopStep, GateStep
<1>7. ASSUME NEW s \in Sessions, AbortStop(s) PROVE BirthInv'
  <2>1. GateStep /\ (actor'[s] \in {"abortStop", "dead"} \/ done'[s])
    BY <1>7, <1>s DEF StopSteps
  <2> QED
    BY <1>7, <2>1 DEF AbortStop, GateStep
<1>8. ASSUME NEW s \in Sessions, RunEntry(s) \/ Receive(s) \/ SeeDone(s) \/
  SeeCtx(s) \/ HandleStart(s) \/ HandleCommand(s) \/ HandlerPanics(s) \/
  AbortUnmap(s) \/ Cancel(s)
     PROVE  BirthInv'
  BY <1>8 DEF RunEntry, Receive, SeeDone, SeeCtx, HandleStart,
    HandleCommand, HandlerPanics, AbortUnmap, Cancel
<1>9. ASSUME NEW s \in Sessions, NEW r \in Rooms, Start(s, r) PROVE BirthInv'
  BY <1>9 DEF Start
<1>10. ASSUME NEW s \in Sessions, NEW r \in Rooms, Build(s, r) PROVE BirthInv'
  BY <1>10 DEF Build
<1>11. ASSUME NEW r \in Rooms, Take(r) PROVE BirthInv'
  BY <1>11 DEF Take
<1>12. ASSUME NEW c \in Clients, NEW r \in Rooms, Get(c, r) PROVE BirthInv'
  BY <1>12 DEF Get
<1>13. ASSUME NEW c \in Clients, SendCheck(c) PROVE BirthInv'
  BY <1>13 DEF SendCheck
<1>14. ASSUME NEW c \in Clients, NEW kind \in {"command", "stop"}, SendEnqueue(c, kind)
       PROVE  BirthInv'
  <2>1. ref[c] \in Sessions /\ starter[ref[c]] \notin Unseen
    BY <1>14 DEF SendEnqueue, ClientInv
  <2> QED
    BY <1>14, <2>1 DEF SendEnqueue
<1> QED
  BY ONLY Next, <1>1, <1>2, <1>3, <1>4, <1>5, <1>6, <1>7, <1>8, <1>9, <1>10,
    <1>11, <1>12, <1>13, <1>14 DEF Next, Starter, Stopper, Actor, Sender


\* Every step lets a client hold only what was in the map.
LEMMA ClientInvStep == TypeOK /\ RegistryInv /\ ClientInv /\ Next => ClientInv'
<1> SUFFICES ASSUME TypeOK /\ RegistryInv /\ ClientInv, Next PROVE ClientInv'
  OBVIOUS
<1>s. StopSteps
  BY StopStepsHold
<1> USE NoneAssumption, SizeAssumption, BoundAssumption DEF TypeOK,
  RegistryInv, Unregistered, Unseen, ClientInv, Kinds, registry, start, run,
  gate, client, removeSession, onPanic
<1>1. ASSUME NEW s \in Sessions, StarterStop(s) PROVE ClientInv'
  <2>1. GateStep /\ (starter'[s] \in {"stop", "panicked"} \/ done'[s])
    BY <1>1, <1>s DEF StopSteps
  <2> QED
    BY <1>1, <2>1 DEF StarterStop, GateStep
<1>2. ASSUME NEW s \in Sessions, PreQueue(s) \/ Insert(s) \/
  AlreadyActive(s) \/ Go(s) \/ StartSucceeds(s) \/ StartFails(s) \/ Unmap(s)
  \/ Cleanup(s)
     PROVE  ClientInv'
  BY <1>2 DEF PreQueue, Insert, AlreadyActive, Go, StartSucceeds,
    StartFails, Unmap, Cleanup
<1>3. ASSUME NEW s \in Sessions, StopperStop(s) PROVE ClientInv'
  <2>1. GateStep
    BY <1>3, <1>s DEF StopSteps
  <2> QED
    BY <1>3, <2>1 DEF StopperStop, GateStep
<1>4. ASSUME NEW s \in Sessions, StopperWait(s) PROVE ClientInv'
  BY <1>4 DEF StopperWait
<1>5. ASSUME NEW s \in Sessions, CtxStop(s) PROVE ClientInv'
  <2>1. GateStep /\ (actor'[s] \in {"ctxStop", "dead"} \/ done'[s])
    BY <1>5, <1>s DEF StopSteps
  <2> QED
    BY <1>5, <2>1 DEF CtxStop, GateStep
<1>6. ASSUME NEW s \in Sessions, KindStop(s) PROVE ClientInv'
  <2>1. KindStopStep(s)
    BY <1>6, <1>s DEF StopSteps
  <2> QED
    BY <2>1 DEF KindStopStep, GateStep
<1>7. ASSUME NEW s \in Sessions, AbortStop(s) PROVE ClientInv'
  <2>1. GateStep /\ (actor'[s] \in {"abortStop", "dead"} \/ done'[s])
    BY <1>7, <1>s DEF StopSteps
  <2> QED
    BY <1>7, <2>1 DEF AbortStop, GateStep
<1>8. ASSUME NEW s \in Sessions, RunEntry(s) \/ Receive(s) \/ SeeDone(s) \/
  SeeCtx(s) \/ HandleStart(s) \/ HandleCommand(s) \/ HandlerPanics(s) \/
  AbortUnmap(s) \/ Cancel(s)
     PROVE  ClientInv'
  BY <1>8 DEF RunEntry, Receive, SeeDone, SeeCtx, HandleStart,
    HandleCommand, HandlerPanics, AbortUnmap, Cancel
<1>9. ASSUME NEW s \in Sessions, NEW r \in Rooms, Start(s, r) PROVE ClientInv'
  BY <1>9 DEF Start
<1>10. ASSUME NEW s \in Sessions, NEW r \in Rooms, Build(s, r) PROVE ClientInv'
  BY <1>10 DEF Build
<1>11. ASSUME NEW r \in Rooms, Take(r) PROVE ClientInv'
  BY <1>11 DEF Take
<1>12. ASSUME NEW c \in Clients, NEW r \in Rooms, Get(c, r) PROVE ClientInv'
  BY <1>12 DEF Get
<1>13. ASSUME NEW c \in Clients, SendCheck(c) PROVE ClientInv'
  <2>1. CASE done[ref[c]]
    <3>1. ref' = [ref EXCEPT ![c] = None] /\ passed' = passed
      BY <1>13, <2>1 DEF SendCheck
    <3> QED
      BY <1>13, <3>1 DEF SendCheck
  <2>2. CASE ~done[ref[c]]
    <3>1. passed' = [passed EXCEPT ![c] = TRUE] /\ ref' = ref /\ ref[c] # None
      BY <1>13, <2>2 DEF SendCheck
    <3> QED
      BY <1>13, <3>1 DEF SendCheck
  <2> QED
    BY <2>1, <2>2
<1>14. ASSUME NEW c \in Clients, NEW kind \in {"command", "stop"}, SendEnqueue(c, kind)
       PROVE  ClientInv'
  BY <1>14 DEF SendEnqueue
<1> QED
  BY ONLY Next, <1>1, <1>2, <1>3, <1>4, <1>5, <1>6, <1>7, <1>8, <1>9, <1>10,
    <1>11, <1>12, <1>13, <1>14 DEF Next, Starter, Stopper, Actor, Sender


\* Every step that ends a start in failure or a goroutine leaves done closed.
LEMMA DoneInvStep == TypeOK /\ DoneInv /\ Next => DoneInv'
<1> SUFFICES ASSUME TypeOK /\ DoneInv, Next PROVE DoneInv'
  OBVIOUS
<1>s. StopSteps
  BY StopStepsHold
<1> USE NoneAssumption, SizeAssumption, BoundAssumption DEF TypeOK, DoneInv,
  Kinds, registry, start, run, gate, client, removeSession, onPanic
<1>1. ASSUME NEW s \in Sessions, StarterStop(s) PROVE DoneInv'
  <2>1. GateStep /\ (starter'[s] \in {"stop", "panicked"} \/ done'[s])
    BY <1>1, <1>s DEF StopSteps
  <2> QED
    BY <1>1, <2>1 DEF StarterStop, GateStep
<1>2. ASSUME NEW s \in Sessions, PreQueue(s) \/ Insert(s) \/
  AlreadyActive(s) \/ Go(s) \/ StartSucceeds(s) \/ StartFails(s) \/ Unmap(s)
  \/ Cleanup(s)
     PROVE  DoneInv'
  BY <1>2 DEF PreQueue, Insert, AlreadyActive, Go, StartSucceeds,
    StartFails, Unmap, Cleanup
<1>3. ASSUME NEW s \in Sessions, StopperStop(s) PROVE DoneInv'
  <2>1. GateStep
    BY <1>3, <1>s DEF StopSteps
  <2> QED
    BY <1>3, <2>1 DEF StopperStop, GateStep
<1>4. ASSUME NEW s \in Sessions, StopperWait(s) PROVE DoneInv'
  BY <1>4 DEF StopperWait
<1>5. ASSUME NEW s \in Sessions, CtxStop(s) PROVE DoneInv'
  <2>1. GateStep /\ (actor'[s] \in {"ctxStop", "dead"} \/ done'[s])
    BY <1>5, <1>s DEF StopSteps
  <2> QED
    BY <1>5, <2>1 DEF CtxStop, GateStep
<1>6. ASSUME NEW s \in Sessions, KindStop(s) PROVE DoneInv'
  <2>1. KindStopStep(s)
    BY <1>6, <1>s DEF StopSteps
  <2> QED
    BY <2>1 DEF KindStopStep, GateStep
<1>7. ASSUME NEW s \in Sessions, AbortStop(s) PROVE DoneInv'
  <2>1. GateStep /\ (actor'[s] \in {"abortStop", "dead"} \/ done'[s])
    BY <1>7, <1>s DEF StopSteps
  <2> QED
    BY <1>7, <2>1 DEF AbortStop, GateStep
<1>8. ASSUME NEW s \in Sessions, RunEntry(s) \/ Receive(s) \/ SeeDone(s) \/
  SeeCtx(s) \/ HandleStart(s) \/ HandleCommand(s) \/ HandlerPanics(s) \/
  AbortUnmap(s) \/ Cancel(s)
     PROVE  DoneInv'
  BY <1>8 DEF RunEntry, Receive, SeeDone, SeeCtx, HandleStart,
    HandleCommand, HandlerPanics, AbortUnmap, Cancel
<1>9. ASSUME NEW s \in Sessions, NEW r \in Rooms, Start(s, r) PROVE DoneInv'
  BY <1>9 DEF Start
<1>10. ASSUME NEW s \in Sessions, NEW r \in Rooms, Build(s, r) PROVE DoneInv'
  BY <1>10 DEF Build
<1>11. ASSUME NEW r \in Rooms, Take(r) PROVE DoneInv'
  BY <1>11 DEF Take
<1>12. ASSUME NEW c \in Clients, NEW r \in Rooms, Get(c, r) PROVE DoneInv'
  BY <1>12 DEF Get
<1>13. ASSUME NEW c \in Clients, SendCheck(c) PROVE DoneInv'
  BY <1>13 DEF SendCheck
<1>14. ASSUME NEW c \in Clients, NEW kind \in {"command", "stop"}, SendEnqueue(c, kind)
       PROVE  DoneInv'
  BY <1>14 DEF SendEnqueue
<1> QED
  BY ONLY Next, <1>1, <1>2, <1>3, <1>4, <1>5, <1>6, <1>7, <1>8, <1>9, <1>10,
    <1>11, <1>12, <1>13, <1>14 DEF Next, Starter, Stopper, Actor, Sender


\* Every step keeps KindEngineStart the first and only message of its kind.
LEMMA QueueInvStep == TypeOK /\ BirthInv /\ ClientInv /\ QueueInv /\ Next => QueueInv'
<1> SUFFICES ASSUME TypeOK /\ BirthInv /\ ClientInv /\ QueueInv, Next PROVE QueueInv'
  OBVIOUS
<1>s. StopSteps
  BY StopStepsHold
<1>k. Kinds = {"start", "command", "stop"} /\ None \notin Kinds
  BY NoneAssumption DEF Kinds
<1> USE NoneAssumption, SizeAssumption, BoundAssumption DEF TypeOK,
  BirthInv, Unseen, ClientInv, QueueInv, registry, start, run, gate, client,
  removeSession, onPanic
<1>1. ASSUME NEW s \in Sessions, PreQueue(s) PROVE QueueInv'
  <2> USE <1>1 DEF PreQueue
  <2>1. \A t \in Sessions \ {s} : FirstIsStart(t)' /\ OneStart(t)' /\ CurrentInv(t)'
    BY DEF FirstIsStart, OneStart, CurrentInv
  <2>2. FirstIsStart(s)'
    BY <1>k, AppendFacts DEF FirstIsStart
  <2>3. OneStart(s)'
    BY <1>k, AppendFacts DEF OneStart, FirstIsStart, CurrentInv
  <2>4. CurrentInv(s)'
    BY <1>k DEF CurrentInv
  <2> QED
    BY <2>1, <2>2, <2>3, <2>4
<1>2. ASSUME NEW s \in Sessions, StarterStop(s) PROVE QueueInv'
  <2>1. GateStep /\ (starter'[s] \in {"stop", "panicked"} \/ done'[s])
    BY <1>2, <1>s DEF StopSteps
  <2> QED
    BY <1>2, <2>1 DEF StarterStop, GateStep, FirstIsStart, OneStart,
      CurrentInv
<1>3. ASSUME NEW s \in Sessions, Insert(s) PROVE QueueInv'
  BY <1>3 DEF Insert, FirstIsStart, OneStart, CurrentInv
<1>4. ASSUME NEW s \in Sessions, AlreadyActive(s) PROVE QueueInv'
  BY <1>4 DEF AlreadyActive, FirstIsStart, OneStart, CurrentInv
<1>5. ASSUME NEW s \in Sessions, Go(s) PROVE QueueInv'
  BY <1>5 DEF Go, FirstIsStart, OneStart, CurrentInv
<1>6. ASSUME NEW s \in Sessions, StartSucceeds(s) PROVE QueueInv'
  BY <1>6 DEF StartSucceeds, FirstIsStart, OneStart, CurrentInv
<1>7. ASSUME NEW s \in Sessions, StartFails(s) PROVE QueueInv'
  BY <1>7 DEF StartFails, FirstIsStart, OneStart, CurrentInv
<1>8. ASSUME NEW s \in Sessions, Unmap(s) PROVE QueueInv'
  BY <1>8 DEF Unmap, FirstIsStart, OneStart, CurrentInv
<1>9. ASSUME NEW s \in Sessions, Cleanup(s) PROVE QueueInv'
  BY <1>9 DEF Cleanup, FirstIsStart, OneStart, CurrentInv
<1>10. ASSUME NEW s \in Sessions, StopperStop(s) PROVE QueueInv'
  <2>1. GateStep
    BY <1>10, <1>s DEF StopSteps
  <2> QED
    BY <1>10, <2>1 DEF StopperStop, GateStep, FirstIsStart, OneStart,
      CurrentInv
<1>11. ASSUME NEW s \in Sessions, StopperWait(s) PROVE QueueInv'
  BY <1>11 DEF StopperWait, FirstIsStart, OneStart, CurrentInv
<1>12. ASSUME NEW s \in Sessions, Receive(s) PROVE QueueInv'
  <2> USE <1>12 DEF Receive
  <2>1. \A t \in Sessions \ {s} : FirstIsStart(t)' /\ OneStart(t)' /\ CurrentInv(t)'
    BY DEF FirstIsStart, OneStart, CurrentInv
  <2>2. FirstIsStart(s)'
    BY <1>k, TailFacts DEF FirstIsStart
  <2>3. OneStart(s)'
    BY <1>k, TailFacts DEF OneStart
  <2>4. CurrentInv(s)'
    BY <1>k, TailFacts DEF CurrentInv, OneStart
  <2> QED
    BY <2>1, <2>2, <2>3, <2>4
<1>13. ASSUME NEW s \in Sessions, CtxStop(s) PROVE QueueInv'
  <2>1. GateStep /\ (actor'[s] \in {"ctxStop", "dead"} \/ done'[s])
    BY <1>13, <1>s DEF StopSteps
  <2> QED
    BY <1>13, <2>1 DEF CtxStop, GateStep, FirstIsStart, OneStart, CurrentInv
<1>14. ASSUME NEW s \in Sessions, HandleStart(s) PROVE QueueInv'
  <2> USE <1>14 DEF HandleStart
  <2>1. \A t \in Sessions \ {s} : FirstIsStart(t)' /\ OneStart(t)' /\ CurrentInv(t)'
    BY DEF FirstIsStart, OneStart, CurrentInv
  <2>2. FirstIsStart(s)'
    BY DEF FirstIsStart, CurrentInv
  <2>3. OneStart(s)'
    BY DEF OneStart, CurrentInv
  <2>4. CurrentInv(s)'
    BY <1>k DEF CurrentInv, OneStart
  <2> QED
    BY <2>1, <2>2, <2>3, <2>4
<1>15. ASSUME NEW s \in Sessions, HandleCommand(s) PROVE QueueInv'
  <2> USE <1>15 DEF HandleCommand
  <2>1. \A t \in Sessions \ {s} : FirstIsStart(t)' /\ OneStart(t)' /\ CurrentInv(t)'
    BY DEF FirstIsStart, OneStart, CurrentInv
  <2>2. FirstIsStart(s)'
    BY DEF FirstIsStart, CurrentInv
  <2>3. OneStart(s)'
    BY DEF OneStart, CurrentInv
  <2>4. CurrentInv(s)'
    BY <1>k DEF CurrentInv, OneStart
  <2> QED
    BY <2>1, <2>2, <2>3, <2>4
<1>16. ASSUME NEW s \in Sessions, HandlerPanics(s) PROVE QueueInv'
  <2> USE <1>16 DEF HandlerPanics
  <2>1. \A t \in Sessions \ {s} : FirstIsStart(t)' /\ OneStart(t)' /\ CurrentInv(t)'
    BY DEF FirstIsStart, OneStart, CurrentInv
  <2>2. FirstIsStart(s)'
    BY DEF FirstIsStart, CurrentInv
  <2>3. OneStart(s)'
    BY DEF OneStart, CurrentInv
  <2>4. CurrentInv(s)'
    BY <1>k DEF CurrentInv, OneStart
  <2> QED
    BY <2>1, <2>2, <2>3, <2>4
<1>17. ASSUME NEW s \in Sessions, KindStop(s) PROVE QueueInv'
  <2>1. KindStopStep(s)
    BY <1>17, <1>s DEF StopSteps
  <2>2. cur[s] = "stop" /\ actor[s] = "kindStop"
    BY <2>1 DEF KindStopStep, CurrentInv
  <2>3. UNCHANGED <<engine, starter, reply, inbox>>
    BY <2>1 DEF KindStopStep
  <2>4. /\ cur'[s] # "start" /\ actor'[s] # "handle"
        /\ actor'[s] = "kindStop" => cur'[s] = "stop"
    BY <1>k, <2>1, <2>2 DEF KindStopStep
  <2>5. \A t \in Sessions \ {s} : actor'[t] = actor[t] /\ cur'[t] = cur[t]
    BY <2>1 DEF KindStopStep
  <2> QED
    BY <2>2, <2>3, <2>4, <2>5 DEF FirstIsStart, OneStart, CurrentInv
<1>18. ASSUME NEW s \in Sessions, AbortStop(s) PROVE QueueInv'
  <2>1. GateStep /\ (actor'[s] \in {"abortStop", "dead"} \/ done'[s])
    BY <1>18, <1>s DEF StopSteps
  <2> QED
    BY <1>18, <2>1 DEF AbortStop, GateStep, FirstIsStart, OneStart,
      CurrentInv
<1>19. ASSUME NEW s \in Sessions, RunEntry(s) PROVE QueueInv'
  BY <1>19 DEF RunEntry, FirstIsStart, OneStart, CurrentInv
<1>20. ASSUME NEW s \in Sessions, SeeDone(s) PROVE QueueInv'
  BY <1>20 DEF SeeDone, FirstIsStart, OneStart, CurrentInv
<1>21. ASSUME NEW s \in Sessions, SeeCtx(s) PROVE QueueInv'
  BY <1>21 DEF SeeCtx, FirstIsStart, OneStart, CurrentInv
<1>22. ASSUME NEW s \in Sessions, AbortUnmap(s) PROVE QueueInv'
  BY <1>22 DEF AbortUnmap, FirstIsStart, OneStart, CurrentInv
<1>23. ASSUME NEW s \in Sessions, Cancel(s) PROVE QueueInv'
  BY <1>23 DEF Cancel, FirstIsStart, OneStart, CurrentInv
<1>24. ASSUME NEW s \in Sessions, NEW r \in Rooms, Start(s, r) PROVE QueueInv'
  <2> USE <1>24 DEF Start
  <2>1. \A t \in Sessions \ {s} : FirstIsStart(t)' /\ OneStart(t)' /\ CurrentInv(t)'
    BY DEF FirstIsStart, OneStart, CurrentInv
  <2>2. FirstIsStart(s)'
    BY DEF FirstIsStart
  <2>3. OneStart(s)'
    BY DEF OneStart
  <2>4. CurrentInv(s)'
    BY <1>k DEF CurrentInv
  <2> QED
    BY <2>1, <2>2, <2>3, <2>4
<1>25. ASSUME NEW s \in Sessions, NEW r \in Rooms, Build(s, r) PROVE QueueInv'
  BY <1>25 DEF Build, FirstIsStart, OneStart, CurrentInv
<1>26. ASSUME NEW r \in Rooms, Take(r) PROVE QueueInv'
  BY <1>26 DEF Take, FirstIsStart, OneStart, CurrentInv
<1>27. ASSUME NEW c \in Clients, NEW r \in Rooms, Get(c, r) PROVE QueueInv'
  BY <1>27 DEF Get, FirstIsStart, OneStart, CurrentInv
<1>28. ASSUME NEW c \in Clients, SendCheck(c) PROVE QueueInv'
  BY <1>28 DEF SendCheck, FirstIsStart, OneStart, CurrentInv
<1>29. ASSUME NEW c \in Clients, NEW kind \in {"command", "stop"}, SendEnqueue(c, kind)
       PROVE  QueueInv'
  <2>1. PICK s \in Sessions : s = ref[c] /\ starter[s] \notin Unseen
    BY <1>29 DEF SendEnqueue, ClientInv
  <2>2. inbox' = [inbox EXCEPT ![s] = IF Len(@) < InboxCap THEN Append(@, kind) ELSE @]
    BY <1>29, <2>1 DEF SendEnqueue
  <2>3. UNCHANGED <<engine, starter, actor, cur, reply>>
    BY <1>29 DEF SendEnqueue
  <2>4. \A t \in Sessions \ {s} : FirstIsStart(t)' /\ OneStart(t)' /\ CurrentInv(t)'
    BY <2>1, <2>2, <2>3 DEF FirstIsStart, OneStart, CurrentInv
  <2>5. FirstIsStart(s)'
    <3>1. inbox[s] # <<>> => inbox'[s] # <<>> /\ Head(inbox'[s]) = Head(inbox[s])
      <4>1. CASE inbox'[s] = inbox[s]
        BY <4>1
      <4>2. CASE inbox'[s] = Append(inbox[s], kind)
        <5>1. kind \in Kinds /\ inbox[s] \in Seq(Kinds)
          BY <1>k
        <5> QED
          BY <4>2, <5>1, AppendFacts
      <4> QED
        BY <2>2, <4>1, <4>2
    <3> QED
      BY <2>1, <2>3, <3>1 DEF FirstIsStart
  <2>6. OneStart(s)'
    BY <2>1, <2>2, <2>3, <1>k, AppendFacts DEF OneStart
  <2>7. CurrentInv(s)'
    BY <2>1, <2>2, <2>3 DEF CurrentInv
  <2> QED
    BY <2>4, <2>5, <2>6, <2>7
<1> QED
  BY ONLY Next, <1>1, <1>2, <1>3, <1>4, <1>5, <1>6, <1>7, <1>8, <1>9, <1>10,
    <1>11, <1>12, <1>13, <1>14, <1>15, <1>16, <1>17, <1>18, <1>19, <1>20,
    <1>21, <1>22, <1>23, <1>24, <1>25, <1>26, <1>27, <1>28, <1>29 DEF Next,
    Starter, Stopper, Actor, Sender


\* No step makes the actor handle a command of a new engine.
LEMMA EngineStartFirstStep ==
  TypeOK /\ BirthInv /\ QueueInv /\ EngineStartFirst /\ Next => EngineStartFirst'
<1> SUFFICES ASSUME TypeOK /\ BirthInv /\ QueueInv /\ EngineStartFirst, Next PROVE EngineStartFirst'
  OBVIOUS
<1>s. StopSteps
  BY StopStepsHold
<1> USE NoneAssumption, SizeAssumption, BoundAssumption DEF TypeOK,
  BirthInv, QueueInv, FirstIsStart, CurrentInv, Unseen, EngineStartFirst,
  Kinds, registry, start, run, gate, client, removeSession, onPanic
<1>1. ASSUME NEW s \in Sessions, StarterStop(s) PROVE EngineStartFirst'
  <2>1. GateStep /\ (starter'[s] \in {"stop", "panicked"} \/ done'[s])
    BY <1>1, <1>s DEF StopSteps
  <2> QED
    BY <1>1, <2>1 DEF StarterStop, GateStep
<1>2. ASSUME NEW s \in Sessions, PreQueue(s) \/ Insert(s) \/
  AlreadyActive(s) \/ Go(s) \/ StartSucceeds(s) \/ StartFails(s) \/ Unmap(s)
  \/ Cleanup(s)
     PROVE  EngineStartFirst'
  BY <1>2 DEF PreQueue, Insert, AlreadyActive, Go, StartSucceeds,
    StartFails, Unmap, Cleanup
<1>3. ASSUME NEW s \in Sessions, StopperStop(s) PROVE EngineStartFirst'
  <2>1. GateStep
    BY <1>3, <1>s DEF StopSteps
  <2> QED
    BY <1>3, <2>1 DEF StopperStop, GateStep
<1>4. ASSUME NEW s \in Sessions, StopperWait(s) PROVE EngineStartFirst'
  BY <1>4 DEF StopperWait
<1>5. ASSUME NEW s \in Sessions, CtxStop(s) PROVE EngineStartFirst'
  <2>1. GateStep /\ (actor'[s] \in {"ctxStop", "dead"} \/ done'[s])
    BY <1>5, <1>s DEF StopSteps
  <2> QED
    BY <1>5, <2>1 DEF CtxStop, GateStep
<1>6. ASSUME NEW s \in Sessions, KindStop(s) PROVE EngineStartFirst'
  <2>1. KindStopStep(s)
    BY <1>6, <1>s DEF StopSteps
  <2> QED
    BY <2>1 DEF KindStopStep, GateStep
<1>7. ASSUME NEW s \in Sessions, AbortStop(s) PROVE EngineStartFirst'
  <2>1. GateStep /\ (actor'[s] \in {"abortStop", "dead"} \/ done'[s])
    BY <1>7, <1>s DEF StopSteps
  <2> QED
    BY <1>7, <2>1 DEF AbortStop, GateStep
<1>8. ASSUME NEW s \in Sessions, RunEntry(s) \/ Receive(s) \/ SeeDone(s) \/
  SeeCtx(s) \/ HandleStart(s) \/ HandleCommand(s) \/ HandlerPanics(s) \/
  AbortUnmap(s) \/ Cancel(s)
     PROVE  EngineStartFirst'
  BY <1>8 DEF RunEntry, Receive, SeeDone, SeeCtx, HandleStart,
    HandleCommand, HandlerPanics, AbortUnmap, Cancel
<1>9. ASSUME NEW s \in Sessions, NEW r \in Rooms, Start(s, r) PROVE EngineStartFirst'
  BY <1>9 DEF Start
<1>10. ASSUME NEW s \in Sessions, NEW r \in Rooms, Build(s, r) PROVE EngineStartFirst'
  BY <1>10 DEF Build
<1>11. ASSUME NEW r \in Rooms, Take(r) PROVE EngineStartFirst'
  BY <1>11 DEF Take
<1>12. ASSUME NEW c \in Clients, NEW r \in Rooms, Get(c, r) PROVE EngineStartFirst'
  BY <1>12 DEF Get
<1>13. ASSUME NEW c \in Clients, SendCheck(c) PROVE EngineStartFirst'
  BY <1>13 DEF SendCheck
<1>14. ASSUME NEW c \in Clients, NEW kind \in {"command", "stop"}, SendEnqueue(c, kind)
       PROVE  EngineStartFirst'
  BY <1>14 DEF SendEnqueue
<1> QED
  BY ONLY Next, <1>1, <1>2, <1>3, <1>4, <1>5, <1>6, <1>7, <1>8, <1>9, <1>10,
    <1>11, <1>12, <1>13, <1>14 DEF Next, Starter, Stopper, Actor, Sender


\* No step undoes an abort.
LEMMA AbortIsFinalStep ==
  TypeOK /\ RegistryInv /\ BirthInv /\ DoneInv /\ AbortIsFinal /\ Next => AbortIsFinal'
<1> SUFFICES ASSUME TypeOK /\ RegistryInv /\ BirthInv /\ DoneInv /\ AbortIsFinal, Next
             PROVE  AbortIsFinal'
  OBVIOUS
<1>s. StopSteps
  BY StopStepsHold
<1> USE NoneAssumption, SizeAssumption, BoundAssumption DEF TypeOK,
  RegistryInv, Unregistered, Unseen, BirthInv, DoneInv, AbortIsFinal, Kinds,
  registry, start, run, gate, client, removeSession, onPanic
<1>1. ASSUME NEW s \in Sessions, StarterStop(s) PROVE AbortIsFinal'
  <2>1. GateStep /\ (starter'[s] \in {"stop", "panicked"} \/ done'[s])
    BY <1>1, <1>s DEF StopSteps
  <2> QED
    BY <1>1, <2>1 DEF StarterStop, GateStep
<1>2. ASSUME NEW s \in Sessions, PreQueue(s) PROVE AbortIsFinal'
  BY <1>2 DEF PreQueue
<1>3. ASSUME NEW s \in Sessions, Insert(s) PROVE AbortIsFinal'
  BY <1>3 DEF Insert
<1>4. ASSUME NEW s \in Sessions, AlreadyActive(s) PROVE AbortIsFinal'
  BY <1>4 DEF AlreadyActive
<1>5. ASSUME NEW s \in Sessions, Go(s) PROVE AbortIsFinal'
  BY <1>5 DEF Go
<1>6. ASSUME NEW s \in Sessions, StartSucceeds(s) PROVE AbortIsFinal'
  BY <1>6 DEF StartSucceeds
<1>7. ASSUME NEW s \in Sessions, StartFails(s) PROVE AbortIsFinal'
  BY <1>7 DEF StartFails
<1>8. ASSUME NEW s \in Sessions, Unmap(s) PROVE AbortIsFinal'
  BY <1>8 DEF Unmap
<1>9. ASSUME NEW s \in Sessions, Cleanup(s) PROVE AbortIsFinal'
  BY <1>9 DEF Cleanup
<1>10. ASSUME NEW s \in Sessions, StopperStop(s) PROVE AbortIsFinal'
  <2>1. GateStep
    BY <1>10, <1>s DEF StopSteps
  <2> QED
    BY <1>10, <2>1 DEF StopperStop, GateStep
<1>11. ASSUME NEW s \in Sessions, StopperWait(s) PROVE AbortIsFinal'
  BY <1>11 DEF StopperWait
<1>12. ASSUME NEW s \in Sessions, CtxStop(s) PROVE AbortIsFinal'
  <2>1. GateStep /\ (actor'[s] \in {"ctxStop", "dead"} \/ done'[s])
    BY <1>12, <1>s DEF StopSteps
  <2>2. UNCHANGED <<sessions, room, panics>> /\ actor[s] = "ctxStop"
    BY <1>12 DEF CtxStop
  <2>3. \E a \in {"ctxStop", "exited", "dead"} : actor' = [actor EXCEPT ![s] = a]
    BY <1>12, <2>2 DEF CtxStop
  <2> QED
    BY <2>1, <2>2, <2>3 DEF GateStep
<1>13. ASSUME NEW s \in Sessions, KindStop(s) PROVE AbortIsFinal'
  <2>1. KindStopStep(s)
    BY <1>13, <1>s DEF StopSteps
  <2> QED
    BY <2>1 DEF KindStopStep, GateStep
<1>14. ASSUME NEW s \in Sessions, AbortStop(s) PROVE AbortIsFinal'
  <2>1. GateStep /\ (actor'[s] \in {"abortStop", "dead"} \/ done'[s])
    BY <1>14, <1>s DEF StopSteps
  <2>2. UNCHANGED <<sessions, room, panics>> /\ actor[s] = "abortStop"
    BY <1>14 DEF AbortStop
  <2>3. \E a \in {"abortStop", "abortUnmap", "dead"} : actor' = [actor EXCEPT ![s] = a]
    BY <1>14, <2>2 DEF AbortStop
  <2> QED
    BY <2>1, <2>2, <2>3 DEF GateStep
<1>15. ASSUME NEW s \in Sessions, RunEntry(s) PROVE AbortIsFinal'
  BY <1>15 DEF RunEntry
<1>16. ASSUME NEW s \in Sessions, Receive(s) PROVE AbortIsFinal'
  BY <1>16 DEF Receive
<1>17. ASSUME NEW s \in Sessions, SeeDone(s) PROVE AbortIsFinal'
  BY <1>17 DEF SeeDone
<1>18. ASSUME NEW s \in Sessions, SeeCtx(s) PROVE AbortIsFinal'
  BY <1>18 DEF SeeCtx
<1>19. ASSUME NEW s \in Sessions, HandleStart(s) PROVE AbortIsFinal'
  BY <1>19 DEF HandleStart
<1>20. ASSUME NEW s \in Sessions, HandleCommand(s) PROVE AbortIsFinal'
  BY <1>20 DEF HandleCommand
<1>21. ASSUME NEW s \in Sessions, HandlerPanics(s) PROVE AbortIsFinal'
  BY <1>21 DEF HandlerPanics
<1>22. ASSUME NEW s \in Sessions, AbortUnmap(s) PROVE AbortIsFinal'
  BY <1>22 DEF AbortUnmap
<1>23. ASSUME NEW s \in Sessions, Cancel(s) PROVE AbortIsFinal'
  BY <1>23 DEF Cancel
<1>24. ASSUME NEW s \in Sessions, NEW r \in Rooms, Start(s, r) PROVE AbortIsFinal'
  BY <1>24 DEF Start
<1>25. ASSUME NEW s \in Sessions, NEW r \in Rooms, Build(s, r) PROVE AbortIsFinal'
  BY <1>25 DEF Build
<1>26. ASSUME NEW r \in Rooms, Take(r) PROVE AbortIsFinal'
  BY <1>26 DEF Take
<1>27. ASSUME NEW c \in Clients, NEW r \in Rooms, Get(c, r) PROVE AbortIsFinal'
  BY <1>27 DEF Get
<1>28. ASSUME NEW c \in Clients, SendCheck(c) PROVE AbortIsFinal'
  BY <1>28 DEF SendCheck
<1>29. ASSUME NEW c \in Clients, NEW kind \in {"command", "stop"}, SendEnqueue(c, kind)
       PROVE  AbortIsFinal'
  BY <1>29 DEF SendEnqueue
<1> QED
  BY ONLY Next, <1>1, <1>2, <1>3, <1>4, <1>5, <1>6, <1>7, <1>8, <1>9, <1>10,
    <1>11, <1>12, <1>13, <1>14, <1>15, <1>16, <1>17, <1>18, <1>19, <1>20,
    <1>21, <1>22, <1>23, <1>24, <1>25, <1>26, <1>27, <1>28, <1>29 DEF Next,
    Starter, Stopper, Actor, Sender


\* No step reports success for an engine that did not start.
LEMMA StartedHasEngineStep ==
  TypeOK /\ BirthInv /\ QueueInv /\ StartedHasEngine /\ Next => StartedHasEngine'
<1> SUFFICES ASSUME TypeOK /\ BirthInv /\ QueueInv /\ StartedHasEngine, Next PROVE StartedHasEngine'
  OBVIOUS
<1>s. StopSteps
  BY StopStepsHold
<1> USE NoneAssumption, SizeAssumption, BoundAssumption DEF TypeOK,
  BirthInv, QueueInv, CurrentInv, Unseen, StartedHasEngine, Kinds, registry,
  start, run, gate, client, removeSession, onPanic
<1>1. ASSUME NEW s \in Sessions, StarterStop(s) PROVE StartedHasEngine'
  <2>1. GateStep /\ (starter'[s] \in {"stop", "panicked"} \/ done'[s])
    BY <1>1, <1>s DEF StopSteps
  <2> QED
    BY <1>1, <2>1 DEF StarterStop, GateStep
<1>2. ASSUME NEW s \in Sessions, PreQueue(s) \/ Insert(s) \/
  AlreadyActive(s) \/ Go(s) \/ StartSucceeds(s) \/ StartFails(s) \/ Unmap(s)
  \/ Cleanup(s)
     PROVE  StartedHasEngine'
  BY <1>2 DEF PreQueue, Insert, AlreadyActive, Go, StartSucceeds,
    StartFails, Unmap, Cleanup
<1>3. ASSUME NEW s \in Sessions, StopperStop(s) PROVE StartedHasEngine'
  <2>1. GateStep
    BY <1>3, <1>s DEF StopSteps
  <2> QED
    BY <1>3, <2>1 DEF StopperStop, GateStep
<1>4. ASSUME NEW s \in Sessions, StopperWait(s) PROVE StartedHasEngine'
  BY <1>4 DEF StopperWait
<1>5. ASSUME NEW s \in Sessions, CtxStop(s) PROVE StartedHasEngine'
  <2>1. GateStep /\ (actor'[s] \in {"ctxStop", "dead"} \/ done'[s])
    BY <1>5, <1>s DEF StopSteps
  <2> QED
    BY <1>5, <2>1 DEF CtxStop, GateStep
<1>6. ASSUME NEW s \in Sessions, KindStop(s) PROVE StartedHasEngine'
  <2>1. KindStopStep(s)
    BY <1>6, <1>s DEF StopSteps
  <2> QED
    BY <2>1 DEF KindStopStep, GateStep
<1>7. ASSUME NEW s \in Sessions, AbortStop(s) PROVE StartedHasEngine'
  <2>1. GateStep /\ (actor'[s] \in {"abortStop", "dead"} \/ done'[s])
    BY <1>7, <1>s DEF StopSteps
  <2> QED
    BY <1>7, <2>1 DEF AbortStop, GateStep
<1>8. ASSUME NEW s \in Sessions, RunEntry(s) \/ Receive(s) \/ SeeDone(s) \/
  SeeCtx(s) \/ HandleStart(s) \/ HandleCommand(s) \/ HandlerPanics(s) \/
  AbortUnmap(s) \/ Cancel(s)
     PROVE  StartedHasEngine'
  BY <1>8 DEF RunEntry, Receive, SeeDone, SeeCtx, HandleStart,
    HandleCommand, HandlerPanics, AbortUnmap, Cancel
<1>9. ASSUME NEW s \in Sessions, NEW r \in Rooms, Start(s, r) PROVE StartedHasEngine'
  BY <1>9 DEF Start
<1>10. ASSUME NEW s \in Sessions, NEW r \in Rooms, Build(s, r) PROVE StartedHasEngine'
  BY <1>10 DEF Build
<1>11. ASSUME NEW r \in Rooms, Take(r) PROVE StartedHasEngine'
  BY <1>11 DEF Take
<1>12. ASSUME NEW c \in Clients, NEW r \in Rooms, Get(c, r) PROVE StartedHasEngine'
  BY <1>12 DEF Get
<1>13. ASSUME NEW c \in Clients, SendCheck(c) PROVE StartedHasEngine'
  BY <1>13 DEF SendCheck
<1>14. ASSUME NEW c \in Clients, NEW kind \in {"command", "stop"}, SendEnqueue(c, kind)
       PROVE  StartedHasEngine'
  BY <1>14 DEF SendEnqueue
<1> QED
  BY ONLY Next, <1>1, <1>2, <1>3, <1>4, <1>5, <1>6, <1>7, <1>8, <1>9, <1>10,
    <1>11, <1>12, <1>13, <1>14 DEF Next, Starter, Stopper, Actor, Sender

-----------------------------------------------------------------------------
\* The invariant holds before any session exists.
LEMMA InitIInv == Init => IInv
<1> SUFFICES ASSUME Init PROVE IInv
  OBVIOUS
<1> USE NoneAssumption, SizeAssumption DEF Init
<1>1. TypeOK
  <2>1. inbox \in [Sessions -> Seq(Kinds)]
    OBVIOUS
  <2>2. armed \in [Sessions -> SUBSET Roles]
    OBVIOUS
  <2> QED
    BY <2>1, <2>2 DEF TypeOK
<1>2. RegistryInv /\ BirthInv /\ ClientInv /\ DoneInv
  BY DEF RegistryInv, BirthInv, ClientInv, DoneInv, Unregistered, Unseen
<1>3. QueueInv
  BY DEF QueueInv, FirstIsStart, OneStart, CurrentInv, Kinds
<1>4. EngineStartFirst /\ AbortIsFinal /\ StartedHasEngine
  BY DEF EngineStartFirst, AbortIsFinal, StartedHasEngine
<1> QED
  BY <1>1, <1>2, <1>3, <1>4 DEF IInv

\* It survives stuttering.
LEMMA StutterIInv == IInv /\ UNCHANGED vars => IInv'
<1> SUFFICES ASSUME IInv, UNCHANGED vars PROVE IInv'
  OBVIOUS
<1> USE DEF IInv, vars, registry, start, run, gate, client
<1>1. TypeOK'
  BY DEF TypeOK
<1>2. RegistryInv' /\ BirthInv' /\ ClientInv' /\ DoneInv'
  BY DEF RegistryInv, BirthInv, ClientInv, DoneInv
<1>3. QueueInv'
  BY DEF QueueInv, FirstIsStart, OneStart, CurrentInv
<1>4. EngineStartFirst' /\ AbortIsFinal' /\ StartedHasEngine'
  BY DEF EngineStartFirst, AbortIsFinal, StartedHasEngine
<1> QED
  BY <1>1, <1>2, <1>3, <1>4

\* The inductive invariant holds in every state the manager, its sessions and
\* their callers can reach.
THEOREM Invariance == Spec => []IInv
<1>1. IInv /\ [Next]_vars => IInv'
  BY StutterIInv, TypeOKStep, RegistryInvStep, BirthInvStep, ClientInvStep,
     DoneInvStep, QueueInvStep, EngineStartFirstStep, AbortIsFinalStep,
     StartedHasEngineStep DEF IInv
<1> QED
  BY InitIInv, <1>1, PTL DEF Spec

\* Type correctness: in particular the map only ever holds sessions.
THEOREM TypeCorrect == Spec => []TypeOK
BY Invariance, PTL DEF IInv

\* The M-2 fix is enough: however lookups, sends and the start interleave, no
\* engine command is handled before KindEngineStart.
THEOREM StartIsFirst == Spec => []EngineStartFirst
BY Invariance, PTL DEF IInv

\* An aborted session is closed to senders and out of the map, for any
\* threshold and whatever its other callers do at the same time.
THEOREM AbortFrees == Spec => []AbortIsFinal
BY Invariance, PTL DEF IInv

\* A start call that reports success reports on a started engine.
THEOREM SuccessIsReal == Spec => []StartedHasEngine
BY Invariance, PTL DEF IInv

\* A start call that reports an error leaves neither an open session nor an
\* entry of the map behind.
THEOREM FailureIsClean == Spec => []FailedStartLeavesNothing
<1>1. IInv => FailedStartLeavesNothing
  BY DEF IInv, FailedStartLeavesNothing, DoneInv, BirthInv, RegistryInv, Unregistered
<1> QED
  BY Invariance, <1>1, PTL

\* An actor that is gone has closed its channel.
THEOREM ExitIsVisible == Spec => []ExitClosesDone
<1>1. IInv => ExitClosesDone
  BY DEF IInv, ExitClosesDone, DoneInv
<1> QED
  BY Invariance, <1>1, PTL

-----------------------------------------------------------------------------
(***************************************************************************)
(* The snapshots of a session, for every number of players, size of the    *)
(* inbox and length of the debounce window: types, and what a transition   *)
(* and a clean flag say of the blobs.                                      *)
(***************************************************************************)
USE DebounceAssumption, VersionAssumption, PlayerAssumption

\* Nothing is marked or entered that the engine has not reached, so that a
\* blob of the current version covers every mark and every transition; the last
\* flushed transition is not after the last one.
MarksInv == marked <= version /\ entered <= version /\ flushed <= entered

SnapshotInv == SnapshotTypeOK /\ MarksInv /\ TransitionIsSaved /\ CleanIsSaved

-----------------------------------------------------------------------------
LEMMA VersionFacts == 0 \in Versions /\ 1 \in Versions /\ 0 # 1
BY DEF Versions

\* The inbox stays a sequence of messages.
LEMMA TakeType ==
  ASSUME SnapshotTypeOK, NEW kind, TakeMessage(kind)
  PROVE  inbox' \in Seq(Message) /\ UNCHANGED <<cancelled, actor, sends, ticked, rejoining>>
BY DEF SnapshotTypeOK, TakeMessage

LEMMA SendType ==
  ASSUME SnapshotTypeOK, NEW m \in Message
  PROVE  Append(inbox, m) \in Seq(Message)
<1> DEFINE M == Message
<1>1. inbox \in Seq(M) BY DEF SnapshotTypeOK
<1> HIDE DEF M
<1>2. m \in M BY DEF M
<1>3. Append(inbox, m) \in Seq(M) BY <1>1, <1>2
<1> QED BY <1>3 DEF M

LEMMA Changed == ASSUME SnapshotTypeOK, change
                 PROVE  version' \in Versions \ {0} /\ version' > version
BY DEF SnapshotTypeOK, change, Versions

-----------------------------------------------------------------------------
\* A write covers every mark: of the players whose write succeeded it has the
\* current version, the others are remembered as lost.
LEMMA PersistInv ==
  ASSUME SnapshotInv, persistSnapshot, version' \in Versions \ {0},
         marked' \in Versions, marked' <= version', entered' \in Versions, entered' <= version',
         flushed' \in Versions, flushed' <= entered'
  PROVE  /\ blob' \in [Players -> Versions] /\ lost' \subseteq Players
         /\ dirty' = FALSE /\ unsaved' = FALSE /\ elapsed' \in 0 .. Debounce
         /\ MarksInv' /\ TransitionIsSaved' /\ CleanIsSaved'
<1>1. PICK ok \in SUBSET Players :
        /\ blob' = [p \in Players |-> IF p \in ok THEN version' ELSE blob[p]]
        /\ lost' = Players \ ok
  BY DEF persistSnapshot
<1>2. blob \in [Players -> Versions] BY DEF SnapshotInv, SnapshotTypeOK
<1>3. blob' \in [Players -> Versions] BY <1>1, <1>2
<1>4. \A p \in Players : p \notin lost' => blob'[p] = version' BY <1>1
<1>5. dirty' = FALSE /\ unsaved' = FALSE /\ elapsed' = 0 BY DEF persistSnapshot
<1>6. elapsed' \in 0 .. Debounce BY <1>5
<1>7. TransitionIsSaved' /\ CleanIsSaved'
  BY <1>4, <1>5 DEF TransitionIsSaved, CleanIsSaved
<1> QED BY <1>1, <1>3, <1>5, <1>6, <1>7 DEF MarksInv

\* A handler that writes nothing keeps what the blobs cover: what it marks
\* makes the session dirty, and a transition that it makes is remembered as unsaved.
LEMMA KeepInv ==
  ASSUME SnapshotInv, keepBlobs, UNCHANGED flushed,
         change \/ UNCHANGED version,
         markDirty \/ UNCHANGED <<dirty, marked>>,
         \/ UNCHANGED <<entered, unsaved>>
         \/ change /\ entered' = version' /\ unsaved' = TRUE
  PROVE  /\ version' \in Versions \ {0} /\ marked' \in Versions /\ dirty' \in BOOLEAN
         /\ entered' \in Versions /\ unsaved' \in BOOLEAN
         /\ MarksInv' /\ TransitionIsSaved' /\ CleanIsSaved'
<1>1. /\ version \in Versions \ {0} /\ marked \in Versions
      /\ entered \in Versions /\ flushed \in Versions
      /\ dirty \in BOOLEAN /\ unsaved \in BOOLEAN /\ SnapshotTypeOK
      /\ marked <= version /\ entered <= version /\ flushed <= entered
  BY DEF SnapshotInv, SnapshotTypeOK, MarksInv
<1>2. /\ version' \in Versions \ {0} /\ version' >= version
      /\ UNCHANGED <<dirty, marked>> \/ (dirty' = TRUE /\ marked' = version')
  BY <1>1, Changed DEF markDirty, Versions
<1>3. /\ entered' \in Versions /\ unsaved' \in BOOLEAN
      /\ entered' <= version' /\ flushed' <= entered'
  <2>1. unsaved' \in BOOLEAN BY <1>1
  <2>2. CASE UNCHANGED entered BY <1>1, <1>2, <2>1, <2>2 DEF Versions
  <2>3. CASE entered' = version' BY <1>1, <1>2, <2>1, <2>3 DEF Versions
  <2> QED BY <2>2, <2>3
<1>4. MarksInv' BY <1>1, <1>2, <1>3 DEF MarksInv, Versions
<1>5. TransitionIsSaved'
  <2> SUFFICES ASSUME NEW p \in Players, p \notin lost
               PROVE  blob[p] >= IF unsaved' THEN flushed ELSE entered'
    BY DEF TransitionIsSaved, keepBlobs
  <2>1. blob[p] >= IF unsaved THEN flushed ELSE entered
    BY DEF SnapshotInv, TransitionIsSaved
  <2>2. blob[p] \in Versions BY <1>1 DEF SnapshotTypeOK
  <2> QED BY <1>1, <2>1, <2>2 DEF Versions
<1>6. CleanIsSaved' BY <1>2 DEF SnapshotInv, CleanIsSaved, keepBlobs
<1> QED BY <1>1, <1>2, <1>3, <1>4, <1>5, <1>6

\* Steps that touch neither the engine nor a blob.
LEMMA IdleInv ==
  ASSUME SnapshotInv, UNCHANGED <<version, dirty, blob, ghost>>, elapsed' \in 0 .. Debounce,
         ticked' \in BOOLEAN, done' \in BOOLEAN, cancelled' \in BOOLEAN,
         actor' \in {"running", "exited"}, sends' \in 0 .. MaxSends,
         inbox' \in Seq(Message), rejoining' \subseteq Players, waiting' \subseteq Players
  PROVE  SnapshotInv'
BY DEF SnapshotInv, SnapshotTypeOK, MarksInv, TransitionIsSaved, CleanIsSaved, ghost,
       phases

-----------------------------------------------------------------------------
LEMMA SnapshotInitInv == SnapshotInit => SnapshotInv
<1> SUFFICES ASSUME SnapshotInit PROVE SnapshotInv OBVIOUS
<1>1. blob \in [Players -> Versions] BY VersionFacts DEF SnapshotInit
<1>2. /\ version \in Versions \ {0} /\ marked \in Versions
      /\ entered \in Versions /\ flushed \in Versions
  BY VersionFacts DEF SnapshotInit
<1>3. elapsed \in 0 .. Debounce /\ sends \in 0 .. MaxSends BY DEF SnapshotInit
<1>4. inbox \in Seq(Message) BY DEF SnapshotInit
<1>5. SnapshotTypeOK BY <1>1, <1>2, <1>3, <1>4 DEF SnapshotInit, SnapshotTypeOK
<1>6. MarksInv /\ TransitionIsSaved /\ CleanIsSaved
  BY DEF SnapshotInit, MarksInv, TransitionIsSaved, CleanIsSaved
<1> QED BY <1>5, <1>6 DEF SnapshotInv

LEMMA SnapshotActorInv ==
  ASSUME SnapshotInv, SnapshotActor
  PROVE  SnapshotInv'
<1>1. /\ SnapshotTypeOK /\ MarksInv /\ TransitionIsSaved /\ CleanIsSaved
      /\ version \in Versions \ {0} /\ marked \in Versions
      /\ entered \in Versions /\ flushed \in Versions
      /\ marked <= version /\ entered <= version /\ flushed <= entered
  BY DEF SnapshotInv, SnapshotTypeOK, MarksInv
<1>2. CASE HandleEngineCommand \/ HandleTrigger \/ HandleLifecycle \/ HandleSnapshotFor
  <2>1. /\ inbox' \in Seq(Message) /\ UNCHANGED <<cancelled, actor, sends, ticked, rejoining>>
        /\ keepBlobs /\ UNCHANGED <<done, flushed, wiped>> /\ waiting' \subseteq waiting
    BY <1>1, <1>2, TakeType
    DEF HandleEngineCommand, HandleTrigger, HandleLifecycle, HandleSnapshotFor, phases
  <2>2. /\ change \/ UNCHANGED version
        /\ markDirty \/ UNCHANGED <<dirty, marked>>
        /\ \/ UNCHANGED <<entered, unsaved>>
           \/ change /\ entered' = version' /\ unsaved' = TRUE
    BY <1>2
    DEF HandleEngineCommand, HandleTrigger, HandleLifecycle, HandleSnapshotFor, phases
  <2>3. /\ version' \in Versions \ {0} /\ marked' \in Versions /\ dirty' \in BOOLEAN
        /\ entered' \in Versions /\ unsaved' \in BOOLEAN
        /\ MarksInv' /\ TransitionIsSaved' /\ CleanIsSaved'
    BY <2>1, <2>2, KeepInv
  <2>4. SnapshotTypeOK' BY <1>1, <2>1, <2>3 DEF SnapshotTypeOK, keepBlobs
  <2> QED BY <2>3, <2>4 DEF SnapshotInv
<1>3. CASE HandleAdvance
  <2>1. /\ inbox' \in Seq(Message) /\ UNCHANGED <<cancelled, actor, sends, ticked, rejoining>>
        /\ UNCHANGED <<done, waiting, wiped>>
    BY <1>1, <1>3, TakeType DEF HandleAdvance
  <2>2. CASE /\ change \/ UNCHANGED version
             /\ UNCHANGED <<dirty, marked, phases, unsaved>> /\ keepBlobs
    <3>1. /\ version' \in Versions \ {0} /\ marked' \in Versions /\ dirty' \in BOOLEAN
          /\ entered' \in Versions /\ unsaved' \in BOOLEAN
          /\ MarksInv' /\ TransitionIsSaved' /\ CleanIsSaved'
      BY <2>2, KeepInv DEF phases
    <3>2. SnapshotTypeOK' BY <1>1, <2>1, <2>2, <3>1 DEF SnapshotTypeOK, keepBlobs, phases
    <3> QED BY <3>1, <3>2 DEF SnapshotInv
  <2>3. CASE /\ change /\ persistSnapshot
             /\ marked' = version' /\ entered' = version' /\ flushed' = version'
    <3>1. version' \in Versions \ {0} BY <1>1, <2>3, Changed
    <3>2. /\ marked' \in Versions /\ marked' <= version'
          /\ entered' \in Versions /\ entered' <= version'
          /\ flushed' \in Versions /\ flushed' <= entered'
      BY <2>3, <3>1 DEF Versions
    <3>3. /\ blob' \in [Players -> Versions] /\ lost' \subseteq Players
          /\ dirty' = FALSE /\ unsaved' = FALSE /\ elapsed' \in 0 .. Debounce
          /\ MarksInv' /\ TransitionIsSaved' /\ CleanIsSaved'
      BY <2>3, <3>1, <3>2, PersistInv
    <3>4. SnapshotTypeOK' BY <1>1, <2>1, <3>1, <3>2, <3>3 DEF SnapshotTypeOK
    <3> QED BY <3>3, <3>4 DEF SnapshotInv
  <2> QED BY <1>3, <2>2, <2>3 DEF HandleAdvance
<1>4. CASE HandleCritical
  <2>1. /\ inbox' \in Seq(Message) /\ UNCHANGED <<cancelled, actor, sends, ticked, rejoining>>
        /\ UNCHANGED <<version, done, waiting, entered, flushed, wiped>>
        /\ persistSnapshot /\ marked' = version
    BY <1>1, <1>4, TakeType DEF HandleCritical, phases
  <2>2. /\ version' \in Versions \ {0} /\ marked' \in Versions /\ marked' <= version'
        /\ entered' \in Versions /\ entered' <= version'
        /\ flushed' \in Versions /\ flushed' <= entered'
    BY <1>1, <2>1 DEF Versions
  <2>3. /\ blob' \in [Players -> Versions] /\ lost' \subseteq Players
        /\ dirty' = FALSE /\ unsaved' = FALSE /\ elapsed' \in 0 .. Debounce
        /\ MarksInv' /\ TransitionIsSaved' /\ CleanIsSaved'
    BY <2>1, <2>2, PersistInv
  <2>4. SnapshotTypeOK' BY <1>1, <2>1, <2>2, <2>3 DEF SnapshotTypeOK
  <2> QED BY <2>3, <2>4 DEF SnapshotInv
<1>5. CASE HandleStop
  <2>1. /\ inbox' \in Seq(Message) /\ UNCHANGED <<cancelled, actor, sends, ticked, rejoining>>
        /\ done' = TRUE
        /\ UNCHANGED <<version, dirty, elapsed, marked, waiting, entered, flushed, unsaved>>
    BY <1>1, <1>5, TakeType DEF HandleStop, phases
  <2>2. \/ UNCHANGED <<blob, lost, wiped>>
        \/ blob' = [p \in Players |-> 0] /\ lost' = Players /\ wiped' = TRUE
    BY <1>5 DEF HandleStop
  <2>3. blob' \in [Players -> Versions] /\ lost' \subseteq Players /\ wiped' \in BOOLEAN
    BY <1>1, <2>2, VersionFacts DEF SnapshotTypeOK
  <2>4. SnapshotTypeOK' BY <1>1, <2>1, <2>3 DEF SnapshotTypeOK
  <2>5. MarksInv' /\ TransitionIsSaved' /\ CleanIsSaved'
    BY <1>1, <2>1, <2>2 DEF MarksInv, TransitionIsSaved, CleanIsSaved
  <2> QED BY <2>4, <2>5 DEF SnapshotInv
<1>6. CASE Tick
  <2>1. /\ ticked' = FALSE
        /\ UNCHANGED <<queue, sends, rejoin, marked, entered, flushed, wiped, version>>
    BY <1>6 DEF Tick, phases
  <2>2. CASE persistSnapshot
    <3>1. /\ blob' \in [Players -> Versions] /\ lost' \subseteq Players
          /\ dirty' = FALSE /\ unsaved' = FALSE /\ elapsed' \in 0 .. Debounce
          /\ MarksInv' /\ TransitionIsSaved' /\ CleanIsSaved'
      BY <1>1, <2>1, <2>2, PersistInv
    <3>2. SnapshotTypeOK' BY <1>1, <2>1, <3>1 DEF SnapshotTypeOK, queue, rejoin
    <3> QED BY <3>1, <3>2 DEF SnapshotInv
  <2>3. CASE UNCHANGED <<dirty, unsaved>> /\ keepBlobs
    BY <2>1, <2>3
    DEF SnapshotInv, SnapshotTypeOK, MarksInv, TransitionIsSaved, CleanIsSaved, queue,
        rejoin, keepBlobs
  <2> QED BY <1>6, <2>2, <2>3 DEF Tick
<1>7. CASE ExitDone \/ ExitCtx
  BY <1>1, <1>7, IdleInv DEF ExitDone, ExitCtx, SnapshotTypeOK, clock, rejoin
<1> QED BY <1>2, <1>3, <1>4, <1>5, <1>6, <1>7 DEF SnapshotActor

LEMMA SnapshotStepInv ==
  ASSUME SnapshotInv, [SnapshotNext]_snapshotVars
  PROVE  SnapshotInv'
<1>1. SnapshotTypeOK BY DEF SnapshotInv
<1>2. CASE Pass
  <2>1. elapsed' \in 0 .. Debounce BY <1>1, <1>2 DEF Pass, SnapshotTypeOK
  <2> QED BY <1>1, <1>2, <2>1, IdleInv DEF Pass, SnapshotTypeOK, queue, rejoin
<1>3. CASE Stop \/ CancelContext
  BY <1>1, <1>3, IdleInv DEF Stop, CancelContext, SnapshotTypeOK, clock, rejoin
<1>4. ASSUME NEW kind \in MessageKinds, Send(kind) PROVE SnapshotInv'
  <2>1. [kind |-> kind, player |-> None] \in Message BY <1>4 DEF Message
  <2>2. inbox' \in Seq(Message) BY <1>1, <1>4, <2>1, SendType DEF Send
  <2>3. sends' \in 0 .. MaxSends BY <1>1, <1>4 DEF Send, SnapshotTypeOK
  <2> QED BY <1>1, <1>4, <2>2, <2>3, IdleInv DEF Send, SnapshotTypeOK, clock, rejoin
<1>5. ASSUME NEW p \in Players, Rejoin(p) PROVE SnapshotInv'
  <2>1. [kind |-> "lifecycle", player |-> None] \in Message BY DEF Message, MessageKinds
  <2>2. inbox' \in Seq(Message) BY <1>1, <1>5, <2>1, SendType DEF Rejoin, SnapshotTypeOK
  <2>3. sends' \in 0 .. MaxSends BY <1>1, <1>5 DEF Rejoin, SnapshotTypeOK
  <2> QED BY <1>1, <1>5, <2>2, <2>3, IdleInv DEF Rejoin, SnapshotTypeOK, clock
<1>6. ASSUME NEW p \in Players, SendSnapshot(p) PROVE SnapshotInv'
  <2>1. [kind |-> "snapshotFor", player |-> p] \in Message BY DEF Message
  <2>2. inbox' \in Seq(Message)
    BY <1>1, <1>6, <2>1, SendType DEF SendSnapshot, SnapshotTypeOK
  <2> QED BY <1>1, <1>6, <2>2, IdleInv DEF SendSnapshot, SnapshotTypeOK, clock
<1>7. CASE UNCHANGED snapshotVars
  BY <1>1, <1>7, IdleInv DEF snapshotVars, queue, clock, rejoin, SnapshotTypeOK
<1> QED BY <1>2, <1>3, <1>4, <1>5, <1>6, <1>7, SnapshotActorInv DEF SnapshotNext

LEMMA SnapshotInvariance == SnapshotSpec => []SnapshotInv
BY SnapshotInitInv, SnapshotStepInv, PTL DEF SnapshotSpec

-----------------------------------------------------------------------------
\* The fields of the session and of the blobs keep their types.
THEOREM SnapshotTypes == SnapshotSpec => []SnapshotTypeOK
BY SnapshotInvariance, PTL DEF SnapshotInv

\* However writes fail, contexts end and messages are queued, a blob that was not
\* lost is as new as the last phase transition; after a trigger's transition and
\* until something is written, as the last one by KindAdvance or KindGMOverride.
THEOREM TransitionsAreSaved == SnapshotSpec => []TransitionIsSaved
BY SnapshotInvariance, PTL DEF SnapshotInv

\* A clean session has every marked change in every blob whose last write
\* succeeded.
THEOREM CleanMeansSaved == SnapshotSpec => []CleanIsSaved
BY SnapshotInvariance, PTL DEF SnapshotInv
=============================================================================
