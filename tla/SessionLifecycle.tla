-------------------------- MODULE SessionLifecycle --------------------------
(***************************************************************************)
(* The life of the game sessions of package internal/session: the map of   *)
(* the SessionManager, the call of startModularGame that builds a session  *)
(* (its starter), the goroutine that executes Session.Run (its actor), the *)
(* call of SessionManager.Stop that took it out of the map (its stopper),  *)
(* and the goroutines that look a session up and send it messages.         *)
(*                                                                         *)
(* One element of Sessions is one object built by newSession; a room can   *)
(* have several of them, one after the other, all with the room's ID.      *)
(* Only one of the callers of SessionManager.Stop can obtain a given       *)
(* object, for it is deleted from the map under the lock, so stopper is    *)
(* indexed by the session.  The mutex sections are single steps;           *)
(* Session.stop, which tests the channel and closes it in two steps that   *)
(* no lock covers, is two steps.                                           *)
(***************************************************************************)
EXTENDS Session

CONSTANTS Rooms,       \* rooms, whose ids are the session ids
          Sessions,    \* objects returned by newSession
          Clients,     \* goroutines that send messages to sessions
          PanicLimit   \* panicAbortThreshold

Kinds == {"start", "command", "stop"}
Roles == {"starter", "stopper", "actor"}

ASSUME NoneAssumption == None \notin Sessions \cup Rooms \cup Kinds
ASSUME SizeAssumption == InboxCap \in Nat \ {0} /\ PanicLimit \in Nat \ {0}
ASSUME BoundAssumption == MaxSends \in Nat

VARIABLES sessions,   \* SessionManager.sessions
          room,       \* Session.ID
          engine,     \* how far the engine of the session is
          starter,    \* the call that builds the session
          stopper,    \* the call of SessionManager.Stop on the session
          cur,        \* the message the actor handles
          status,     \* Session.status
          panics,     \* Session.panicCount
          armed,      \* callers past the guard of stop, about to close done
          reply,      \* startReply
          ref,        \* the session a client holds
          passed,     \* clients past the done check of Send
          crashed     \* a panic nobody recovers ended the process

registry == <<sessions, room>>
start    == <<starter, reply, cancelled>>
run      == <<actor, cur, panics, engine>>
gate     == <<done, status, armed>>
client   == <<ref, passed, sends>>
vars == <<registry, start, run, gate, client, inbox, stopper, crashed>>

TypeOK ==
  /\ sessions \in [Rooms -> Sessions \cup {None}]
  /\ room \in [Sessions -> Rooms \cup {None}]
  /\ engine \in [Sessions -> {"bare", "new", "started", "failed"}]
  /\ starter \in [Sessions -> {"idle", "built", "queued", "spawn", "waiting",
                    "unmap", "cleanup", "stop", "started", "failed", "panicked"}]
  /\ stopper \in [Sessions -> {"idle", "stop", "wait", "returned", "panicked"}]
  /\ actor \in [Sessions -> {"unborn", "spawned", "select", "handle", "kindStop",
                    "abortStop", "abortUnmap", "ctxStop", "exited", "dead"}]
  /\ cur \in [Sessions -> Kinds \cup {None}]
  /\ inbox \in [Sessions -> Seq(Kinds)]
  /\ done \in [Sessions -> BOOLEAN]
  /\ status \in [Sessions -> {"Starting", "Running", "Stopped"}]
  /\ panics \in [Sessions -> Nat]
  /\ armed \in [Sessions -> SUBSET Roles]
  /\ reply \in [Sessions -> {"none", "ok", "err"}]
  /\ cancelled \in [Sessions -> BOOLEAN]
  /\ ref \in [Clients -> Sessions \cup {None}]
  /\ passed \in [Clients -> BOOLEAN]
  /\ sends \in Nat
  /\ crashed \in BOOLEAN

Init ==
  /\ sessions = [r \in Rooms |-> None]
  /\ room = [s \in Sessions |-> None]
  /\ engine = [s \in Sessions |-> "new"]
  /\ starter = [s \in Sessions |-> "idle"]
  /\ stopper = [s \in Sessions |-> "idle"]
  /\ actor = [s \in Sessions |-> "unborn"]
  /\ cur = [s \in Sessions |-> None]
  /\ inbox = [s \in Sessions |-> <<>>]
  /\ done = [s \in Sessions |-> FALSE]
  /\ status = [s \in Sessions |-> "Starting"]
  /\ panics = [s \in Sessions |-> 0]
  /\ armed = [s \in Sessions |-> {}]
  /\ reply = [s \in Sessions |-> "none"]
  /\ cancelled = [s \in Sessions |-> FALSE]
  /\ ref = [c \in Clients |-> None]
  /\ passed = [c \in Clients |-> FALSE]
  /\ sends = 0
  /\ crashed = FALSE

-----------------------------------------------------------------------------
(***************************************************************************)
(* Session.stop, called by p.  Its select finds done closed and the call   *)
(* is a no-op, or finds it open: then it stores the status and, in a later *)
(* step, closes the channel.  Closing a closed channel panics.             *)
(***************************************************************************)
StopIsNoop(s, p) == /\ p \notin armed[s] /\ done[s]
                    /\ UNCHANGED gate

StopPassesGuard(s, p) == /\ p \notin armed[s] /\ ~done[s]
                         /\ armed' = [armed EXCEPT ![s] = @ \cup {p}]
                         /\ status' = [status EXCEPT ![s] = "Stopped"]
                         /\ UNCHANGED done

StopCloses(s, p) == /\ p \in armed[s] /\ ~done[s]
                    /\ done' = [done EXCEPT ![s] = TRUE]
                    /\ armed' = [armed EXCEPT ![s] = @ \ {p}]
                    /\ UNCHANGED status

StopReturns(s, p) == StopIsNoop(s, p) \/ StopCloses(s, p)

StopPanics(s, p) == /\ p \in armed[s] /\ done[s]
                    /\ armed' = [armed EXCEPT ![s] = @ \ {p}]
                    /\ UNCHANGED <<done, status>>

\* SessionManager.removeSession: by id, whatever object has that id.
removeSession(s) == sessions' = [sessions EXCEPT ![room[s]] = None]

-----------------------------------------------------------------------------
(* SessionManager.Start and startModularGame *)

\* SessionManager.Start: an engine without phases, entered in the map at once.
Start(s, r) ==
  /\ starter[s] = "idle" /\ sessions[r] = None
  /\ room' = [room EXCEPT ![s] = r]
  /\ engine' = [engine EXCEPT ![s] = "bare"]
  /\ sessions' = [sessions EXCEPT ![r] = s]
  /\ starter' = [starter EXCEPT ![s] = "spawn"]
  /\ UNCHANGED <<reply, cancelled, actor, cur, panics, gate, client, inbox,
                 stopper, crashed>>

\* startModularGame up to newSession and its wiring; a configuration that is
\* refused before that leaves no trace.
Build(s, r) ==
  /\ starter[s] = "idle"
  /\ room' = [room EXCEPT ![s] = r]
  /\ starter' = [starter EXCEPT ![s] = "built"]
  /\ UNCHANGED <<sessions, reply, cancelled, run, gate, client, inbox,
                 stopper, crashed>>

\* Mutant: the inbox is unbuffered and the error of Send is ignored.
PreQueueUnbuffered(s) ==
  /\ starter[s] = "built"
  /\ starter' = [starter EXCEPT ![s] = "queued"]
  /\ UNCHANGED <<registry, reply, cancelled, run, gate, client, inbox, stopper, crashed>>

\* KindEngineStart enters the inbox before anyone else can see the session.
PreQueue(s) ==
  /\ starter[s] = "built"
  /\ inbox' = [inbox EXCEPT ![s] = Append(@, "start")]
  /\ starter' = [starter EXCEPT ![s] = "queued"]
  /\ UNCHANGED <<registry, reply, cancelled, run, gate, client, stopper, crashed>>

\* Mutant: the map gets the key for the value.
InsertKey(s) ==
  /\ starter[s] = "queued" /\ sessions[room[s]] = None
  /\ sessions' = [sessions EXCEPT ![room[s]] = room[s]]
  /\ starter' = [starter EXCEPT ![s] = "spawn"]
  /\ UNCHANGED <<room, reply, cancelled, run, gate, client, inbox, stopper, crashed>>

Insert(s) ==
  /\ starter[s] = "queued" /\ sessions[room[s]] = None
  /\ sessions' = [sessions EXCEPT ![room[s]] = s]
  /\ starter' = [starter EXCEPT ![s] = "spawn"]
  /\ UNCHANGED <<room, reply, cancelled, run, gate, client, inbox, stopper, crashed>>

AlreadyActive(s) ==
  /\ starter[s] = "queued" /\ sessions[room[s]] # None
  /\ starter' = [starter EXCEPT ![s] = "cleanup"]
  /\ UNCHANGED <<registry, reply, cancelled, run, gate, client, inbox, stopper, crashed>>

\* go s.Run(ctx); SessionManager.Start then returns.
Go(s) ==
  /\ starter[s] = "spawn"
  /\ actor' = [actor EXCEPT ![s] = "spawned"]
  /\ starter' = [starter EXCEPT ![s] = IF engine[s] = "bare" THEN "started"
                                                             ELSE "waiting"]
  /\ UNCHANGED <<registry, reply, cancelled, cur, panics, engine, gate, client,
                 inbox, stopper, crashed>>

\* Mutant: any reply counts as success.
StartSucceedsOnReply(s) ==
  /\ starter[s] = "waiting" /\ reply[s] # "none"
  /\ starter' = [starter EXCEPT ![s] = "started"]
  /\ UNCHANGED <<registry, reply, cancelled, run, gate, client, inbox, stopper, crashed>>

\* Mutant: the wait has no ctx.Done case.
StartFailsOnReply(s) ==
  /\ starter[s] = "waiting" /\ reply[s] = "err"
  /\ starter' = [starter EXCEPT ![s] = "unmap"]
  /\ UNCHANGED <<registry, reply, cancelled, run, gate, client, inbox, stopper, crashed>>

\* The select on startReply and ctx.Done.
StartSucceeds(s) ==
  /\ starter[s] = "waiting" /\ reply[s] = "ok"
  /\ starter' = [starter EXCEPT ![s] = "started"]
  /\ UNCHANGED <<registry, reply, cancelled, run, gate, client, inbox, stopper, crashed>>

StartFails(s) ==
  /\ starter[s] = "waiting" /\ (reply[s] = "err" \/ cancelled[s])
  /\ starter' = [starter EXCEPT ![s] = "unmap"]
  /\ UNCHANGED <<registry, reply, cancelled, run, gate, client, inbox, stopper, crashed>>

\* Mutant: a failed start is left in the map.
UnmapForgotten(s) ==
  /\ starter[s] = "unmap"
  /\ starter' = [starter EXCEPT ![s] = "cleanup"]
  /\ UNCHANGED <<registry, reply, cancelled, run, gate, client, inbox, stopper, crashed>>

Unmap(s) ==
  /\ starter[s] = "unmap"
  /\ removeSession(s)
  /\ starter' = [starter EXCEPT ![s] = "cleanup"]
  /\ UNCHANGED <<room, reply, cancelled, run, gate, client, inbox, stopper, crashed>>

\* cleanupOnStartFail: the starter is in the engine while at "cleanup".
Cleanup(s) ==
  /\ starter[s] = "cleanup"
  /\ starter' = [starter EXCEPT ![s] = "stop"]
  /\ UNCHANGED <<registry, reply, cancelled, run, gate, client, inbox, stopper, crashed>>

\* The last call of a failed start.  net/http recovers a panic of the request.
StarterStop(s) ==
  /\ starter[s] = "stop"
  /\ \/ StopPassesGuard(s, "starter") /\ UNCHANGED starter
     \/ StopReturns(s, "starter") /\ starter' = [starter EXCEPT ![s] = "failed"]
     \/ StopPanics(s, "starter") /\ starter' = [starter EXCEPT ![s] = "panicked"]
  /\ UNCHANGED <<registry, reply, cancelled, run, client, inbox, stopper, crashed>>

\* The request's context: the client goes away, or the handler has returned.
Cancel(s) ==
  /\ starter[s] # "idle" /\ ~cancelled[s]
  /\ cancelled' = [cancelled EXCEPT ![s] = TRUE]
  /\ UNCHANGED <<registry, starter, reply, run, gate, client, inbox, stopper, crashed>>

-----------------------------------------------------------------------------
(* SessionManager.Stop *)

Take(r) ==
  /\ sessions[r] # None
  /\ stopper' = [stopper EXCEPT ![sessions[r]] = "stop"]
  /\ sessions' = [sessions EXCEPT ![r] = None]
  /\ UNCHANGED <<room, start, run, gate, client, inbox, crashed>>

\* Mutant: waits without having called stop.
StopperStopForgotten(s) ==
  /\ stopper[s] = "stop"
  /\ stopper' = [stopper EXCEPT ![s] = "wait"]
  /\ UNCHANGED <<registry, start, run, gate, client, inbox, crashed>>

StopperStop(s) ==
  /\ stopper[s] = "stop"
  /\ \/ StopPassesGuard(s, "stopper") /\ UNCHANGED stopper
     \/ StopReturns(s, "stopper") /\ stopper' = [stopper EXCEPT ![s] = "wait"]
     \/ StopPanics(s, "stopper") /\ stopper' = [stopper EXCEPT ![s] = "panicked"]
  /\ UNCHANGED <<registry, start, run, client, inbox, crashed>>

\* The wait on s.Done(), which is closed by now: the timeout never applies.
StopperWait(s) ==
  /\ stopper[s] = "wait" /\ done[s]
  /\ stopper' = [stopper EXCEPT ![s] = "returned"]
  /\ UNCHANGED <<registry, start, run, gate, client, inbox, crashed>>

-----------------------------------------------------------------------------
(* Session.Run: the actor *)

\* Run stores StatusRunning whatever the status is.
RunEntry(s) ==
  /\ actor[s] = "spawned"
  /\ status' = [status EXCEPT ![s] = "Running"]
  /\ actor' = [actor EXCEPT ![s] = "select"]
  /\ UNCHANGED <<registry, start, cur, panics, engine, done, armed, client,
                 inbox, stopper, crashed>>

\* The cases of the select: Go takes any that is ready.
Receive(s) ==
  /\ actor[s] = "select" /\ inbox[s] # <<>>
  /\ cur' = [cur EXCEPT ![s] = Head(inbox[s])]
  /\ inbox' = [inbox EXCEPT ![s] = Tail(@)]
  /\ actor' = [actor EXCEPT ![s] = IF Head(inbox[s]) = "stop" THEN "kindStop"
                                                              ELSE "handle"]
  /\ UNCHANGED <<registry, start, panics, engine, gate, client, stopper, crashed>>

\* Mutant: the loop looks at the status and not at the channel.
SeeStatus(s) ==
  /\ actor[s] = "select" /\ status[s] = "Stopped"
  /\ actor' = [actor EXCEPT ![s] = "exited"]
  /\ UNCHANGED <<registry, start, cur, panics, engine, gate, client, inbox,
                 stopper, crashed>>

SeeDone(s) ==
  /\ actor[s] = "select" /\ done[s]
  /\ actor' = [actor EXCEPT ![s] = "exited"]
  /\ UNCHANGED <<registry, start, cur, panics, engine, gate, client, inbox,
                 stopper, crashed>>

SeeCtx(s) ==
  /\ actor[s] = "select" /\ cancelled[s]
  /\ actor' = [actor EXCEPT ![s] = "ctxStop"]
  /\ UNCHANGED <<registry, start, cur, panics, engine, gate, client, inbox,
                 stopper, crashed>>

\* Mutant: the ctx.Done case returns without stop().
CtxReturn(s) ==
  /\ actor[s] = "ctxStop"
  /\ actor' = [actor EXCEPT ![s] = "exited"]
  /\ UNCHANGED <<registry, start, cur, panics, engine, gate, client, inbox,
                 stopper, crashed>>

\* stop() outside every recover: a panic ends the process.
CtxStop(s) ==
  /\ actor[s] = "ctxStop"
  /\ \/ StopPassesGuard(s, "actor") /\ UNCHANGED <<actor, crashed>>
     \/ /\ StopReturns(s, "actor")
        /\ actor' = [actor EXCEPT ![s] = "exited"] /\ UNCHANGED crashed
     \/ /\ StopPanics(s, "actor")
        /\ actor' = [actor EXCEPT ![s] = "dead"] /\ crashed' = TRUE
  /\ UNCHANGED <<registry, start, cur, panics, engine, client, inbox, stopper>>

HandleStart(s) ==
  /\ actor[s] = "handle" /\ cur[s] = "start"
  /\ \E ok \in BOOLEAN :
       /\ engine' = [engine EXCEPT ![s] = IF ok THEN "started" ELSE "failed"]
       /\ reply' = [reply EXCEPT ![s] = IF ok THEN "ok" ELSE "err"]
  /\ actor' = [actor EXCEPT ![s] = "select"]
  /\ cur' = [cur EXCEPT ![s] = None]
  /\ UNCHANGED <<registry, starter, cancelled, panics, gate, client, inbox,
                 stopper, crashed>>

\* Every other kind that calls into the engine, whatever error it returns.
HandleCommand(s) ==
  /\ actor[s] = "handle" /\ cur[s] = "command"
  /\ actor' = [actor EXCEPT ![s] = "select"]
  /\ cur' = [cur EXCEPT ![s] = None]
  /\ UNCHANGED <<registry, start, panics, engine, gate, client, inbox, stopper, crashed>>

\* onPanic, called by the deferred function of safeHandleMessage.
onPanic(s) ==
  /\ panics' = [panics EXCEPT ![s] = @ + 1]
  /\ actor' = [actor EXCEPT ![s] = IF panics[s] + 1 >= PanicLimit THEN "abortStop"
                                                                  ELSE "select"]
  /\ cur' = [cur EXCEPT ![s] = None]

\* The handler panics: no reply is sent.
HandlerPanics(s) ==
  /\ actor[s] = "handle"
  /\ onPanic(s)
  /\ engine' = [engine EXCEPT ![s] = IF cur[s] = "start" THEN "failed" ELSE @]
  /\ UNCHANGED <<registry, start, gate, client, inbox, stopper, crashed>>

\* KindStop: a panic of stop() is recovered like any handler's.
KindStop(s) ==
  /\ actor[s] = "kindStop"
  /\ \/ StopPassesGuard(s, "actor") /\ UNCHANGED <<actor, cur, panics>>
     \/ /\ StopReturns(s, "actor")
        /\ actor' = [actor EXCEPT ![s] = "select"]
        /\ cur' = [cur EXCEPT ![s] = None] /\ UNCHANGED panics
     \/ StopPanics(s, "actor") /\ onPanic(s)
  /\ UNCHANGED <<registry, start, engine, client, inbox, stopper, crashed>>

\* stop() inside onPanic: nothing above it recovers.
AbortStop(s) ==
  /\ actor[s] = "abortStop"
  /\ \/ StopPassesGuard(s, "actor") /\ UNCHANGED <<actor, crashed>>
     \/ /\ StopReturns(s, "actor")
        /\ actor' = [actor EXCEPT ![s] = "abortUnmap"] /\ UNCHANGED crashed
     \/ /\ StopPanics(s, "actor")
        /\ actor' = [actor EXCEPT ![s] = "dead"] /\ crashed' = TRUE
  /\ UNCHANGED <<registry, start, cur, panics, engine, client, inbox, stopper>>

\* Mutant: onAbort is not wired.
AbortUnwired(s) ==
  /\ actor[s] = "abortUnmap"
  /\ actor' = [actor EXCEPT ![s] = "select"]
  /\ UNCHANGED <<registry, start, cur, panics, engine, gate, client, inbox, stopper, crashed>>

\* s.onAbort(s.ID)
AbortUnmap(s) ==
  /\ actor[s] = "abortUnmap"
  /\ removeSession(s)
  /\ actor' = [actor EXCEPT ![s] = "select"]
  /\ UNCHANGED <<room, start, cur, panics, engine, gate, client, inbox, stopper, crashed>>

-----------------------------------------------------------------------------
(* SessionManager.Get followed by Session.Send *)

Get(c, r) ==
  /\ ref[c] = None /\ sessions[r] # None /\ sends < MaxSends
  /\ ref' = [ref EXCEPT ![c] = sessions[r]]
  /\ sends' = sends + 1
  /\ UNCHANGED <<registry, start, run, gate, passed, inbox, stopper, crashed>>

\* The first select of Send: errSessionStopped, or on to the second one.
SendCheck(c) ==
  /\ ref[c] # None /\ ~passed[c]
  /\ IF done[ref[c]] THEN ref' = [ref EXCEPT ![c] = None] /\ UNCHANGED passed
                     ELSE passed' = [passed EXCEPT ![c] = TRUE] /\ UNCHANGED ref
  /\ UNCHANGED <<registry, start, run, gate, sends, inbox, stopper, crashed>>

\* The second select: enqueue, or errInboxFull.
SendEnqueue(c, kind) ==
  /\ passed[c]
  /\ inbox' = [inbox EXCEPT ![ref[c]] = IF Len(@) < InboxCap THEN Append(@, kind)
                                                             ELSE @]
  /\ ref' = [ref EXCEPT ![c] = None]
  /\ passed' = [passed EXCEPT ![c] = FALSE]
  /\ UNCHANGED <<registry, start, run, gate, sends, stopper, crashed>>

-----------------------------------------------------------------------------
Starter(s) == \/ PreQueue(s) \/ Insert(s) \/ AlreadyActive(s) \/ Go(s)
              \/ StartSucceeds(s) \/ StartFails(s) \/ Unmap(s) \/ Cleanup(s)
              \/ StarterStop(s)

Stopper(s) == StopperStop(s) \/ StopperWait(s)

Actor(s) == \/ RunEntry(s) \/ Receive(s) \/ SeeDone(s) \/ SeeCtx(s) \/ CtxStop(s)
            \/ HandleStart(s) \/ HandleCommand(s) \/ HandlerPanics(s)
            \/ KindStop(s) \/ AbortStop(s) \/ AbortUnmap(s)

Sender(c) == SendCheck(c) \/ \E kind \in {"command", "stop"} : SendEnqueue(c, kind)

Next ==
  /\ ~crashed
  /\ \/ \E s \in Sessions : Starter(s) \/ Stopper(s) \/ Actor(s) \/ Cancel(s)
     \/ \E s \in Sessions, r \in Rooms : Start(s, r) \/ Build(s, r)
     \/ \E r \in Rooms : Take(r)
     \/ \E c \in Clients : Sender(c) \/ \E r \in Rooms : Get(c, r)

Spec == Init /\ [][Next]_vars

\* The Go scheduler runs every goroutine that can take a step.  Requests,
\* cancellations and the calls of Get and Stop are the users' and are not fair.
Fairness == \A s \in Sessions : /\ WF_vars(~crashed /\ Starter(s))
                                /\ WF_vars(~crashed /\ Stopper(s))
                                /\ WF_vars(~crashed /\ Actor(s))
FairSpec == Spec /\ Fairness

-----------------------------------------------------------------------------
(* Safety *)

\* The engine command a client sends as soon as it finds the session in the
\* map is never handled before KindEngineStart (the M-2 fix of starter.go).
EngineStartFirst ==
  \A s \in Sessions : actor[s] = "handle" /\ cur[s] = "command" => engine[s] # "new"

\* When startModularGame returns an error its session is closed to senders and
\* out of the map, whatever the other goroutines did meanwhile.
FailedStartLeavesNothing ==
  \A s \in Sessions : starter[s] = "failed" => done[s] /\ sessions[room[s]] # s

\* Run never returns, by whichever case of its select, with done still open:
\* no caller that waits on Done is left hanging by an actor that is gone.
ExitClosesDone == \A s \in Sessions : actor[s] = "exited" => done[s]

\* Once onPanic has returned for the PanicLimit-th time the session is closed
\* to senders and no longer in the map, so the room can be started again.
AbortIsFinal ==
  \A s \in Sessions :
    /\ panics[s] >= PanicLimit
    /\ actor[s] \notin {"abortStop", "abortUnmap", "dead"}
    => done[s] /\ sessions[room[s]] # s

\* Whoever is told that a start succeeded has a session whose engine is
\* started: a reply is never that of a start that failed or did not happen.
StartedHasEngine ==
  \A s \in Sessions : starter[s] = "started" => engine[s] \in {"bare", "started"}

-----------------------------------------------------------------------------
(* Liveness *)

\* The goroutine of a session that was stopped, by any of its callers, ends.
StoppedActorExits ==
  \A s \in Sessions :
    done[s] /\ actor[s] # "unborn" ~> actor[s] = "exited" \/ crashed

\* SessionManager.Stop returns: it never waits for a channel nobody closes.
StopCallReturns ==
  \A s \in Sessions :
    stopper[s] = "stop" ~> stopper[s] \in {"returned", "panicked"} \/ crashed

\* A start whose request is cancelled gives up: neither the reply it waits for
\* nor the actor can hold it back.
CancelledStartReturns ==
  \A s \in Sessions :
    cancelled[s] ~> starter[s] \in {"started", "failed", "panicked"} \/ crashed

-----------------------------------------------------------------------------
(* What comments of the code say and the code does not do *)

\* session.go: stop is "Safe to call multiple times (idempotent via select
\* guard)": nobody past the guard finds the channel closed.
StopIsIdempotent == \A s \in Sessions : armed[s] # {} => ~done[s]

\* session.go: "On return the done channel is always closed and status is
\* StatusStopped."
ExitedIsStopped == \A s \in Sessions : actor[s] = "exited" => status[s] = "Stopped"

\* manager.go: Stop "waits (up to stopTimeout) for the Run goroutine to exit".
StopWaitsForRun ==
  \A s \in Sessions : stopper[s] = "returned" => actor[s] \in {"unborn", "exited"}

\* manager.go: errSessionAlreadyActive "is returned when Start is called for a
\* sessionID that already has a running Session", and not for one whose start
\* is over and whose goroutine has ended.
RefusedOnlyWhenRunning ==
  [][\A s \in Sessions :
       AlreadyActive(s) => LET old == sessions[room[s]]
                           IN  ~(starter[old] = "started" /\ actor[old] = "exited")]_vars

\* manager.go: the manager "owns the lifecycle of all active Session actors":
\* a session whose start succeeded stays in the map until someone stops it.
ActiveIsOwned ==
  \A s \in Sessions :
    starter[s] = "started" /\ ~done[s] /\ stopper[s] = "idle"
       => sessions[room[s]] = s \/ actor[s] = "abortUnmap"

\* session.go: "The engine field is never accessed from any other goroutine."
EngineIsExclusive ==
  \A s \in Sessions : ~(actor[s] = "handle" /\ starter[s] = "cleanup")

\* panic_guard.go: "stop() closes the done channel so Run exits on its next
\* iteration."
AbortEndsRun ==
  \A s \in Sessions : panics[s] >= PanicLimit => actor[s] # "handle"

\* types.go: "Reply receives the handler's error (nil = success)": the start
\* call that waits for it gets an answer.
StartCallReturns ==
  \A s \in Sessions : starter[s] = "waiting" ~> starter[s] # "waiting" \/ crashed
=============================================================================
