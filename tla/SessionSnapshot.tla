-------------------------- MODULE SessionSnapshot --------------------------
(***************************************************************************)
(* The Redis snapshots of one running session: the dirty flag and the      *)
(* debounce of the actor, the blobs it writes for each player, their       *)
(* deletion by KindStop, and the state a rejoining player is sent, by the  *)
(* actor or from the blob.  The engine's state is a version number; a blob *)
(* is the version it was built from.  A handler is one step: nobody else   *)
(* writes what it reads.  Panics and the map are in SessionLifecycle.      *)
(***************************************************************************)
EXTENDS Session

CONSTANTS Players,
          Debounce,     \* snapshotDebounceInterval, in ticks of snapshotInterval
          MaxVersion    \* bound on changes of the engine

ASSUME DebounceAssumption == InboxCap \in Nat \ {0} /\ Debounce \in Nat \ {0}
ASSUME VersionAssumption == MaxVersion \in Nat /\ MaxSends \in Nat
ASSUME PlayerAssumption == None \notin Players

VARIABLES version,    \* of the engine's state
          dirty,      \* snapshotFields.dirty
          elapsed,    \* ticks since lastPersist, up to Debounce
          ticked,     \* a tick waits in ticker.C
          blob,       \* the Redis value of each player's key, 0 for no key
          rejoining,  \* players with a SendSnapshot goroutine in flight
          waiting,    \* players that rejoined and were sent no state yet
          marked,     \* the version at the last change that was marked dirty
          entered,    \* the version at the last phase transition
          flushed,    \* at the last by KindAdvance or KindGMOverride
          unsaved,    \* a trigger has moved the phase and nothing was written since
          lost,       \* players whose last write failed
          wiped       \* KindStop has deleted the blobs

queue == <<inbox, done, actor, cancelled>>
clock == <<elapsed, ticked>>
rejoin == <<rejoining, waiting>>
phases == <<entered, flushed>>
ghost == <<marked, phases, unsaved, lost, wiped>>
snapshotVars == <<version, dirty, clock, blob, queue, sends, rejoin, ghost>>

Versions == 0 .. MaxVersion + 1
MessageKinds == {"command", "trigger", "advance", "critical", "lifecycle", "stop"}
Message == [kind : MessageKinds, player : {None}] \cup [kind : {"snapshotFor"}, player : Players]

SnapshotTypeOK ==
  /\ version \in Versions \ {0} /\ marked \in Versions
  /\ entered \in Versions /\ flushed \in Versions /\ unsaved \in BOOLEAN
  /\ dirty \in BOOLEAN /\ ticked \in BOOLEAN /\ done \in BOOLEAN
  /\ cancelled \in BOOLEAN /\ wiped \in BOOLEAN
  /\ elapsed \in 0 .. Debounce /\ sends \in 0 .. MaxSends
  /\ blob \in [Players -> Versions]
  /\ inbox \in Seq(Message)
  /\ actor \in {"running", "exited"}
  /\ rejoining \subseteq Players /\ waiting \subseteq Players /\ lost \subseteq Players

\* The session after KindEngineStart: dirty, nothing persisted yet.  The first phase is
\* not reached by a transition.
SnapshotInit ==
  /\ version = 1 /\ marked = 1 /\ entered = 0 /\ flushed = 0 /\ unsaved = FALSE
  /\ dirty = TRUE /\ elapsed = Debounce /\ ticked = FALSE
  /\ blob = [p \in Players |-> 0]
  /\ inbox = <<>> /\ done = FALSE /\ actor = "running" /\ cancelled = FALSE
  /\ sends = 0 /\ rejoining = {} /\ waiting = {} /\ lost = {} /\ wiped = FALSE

-----------------------------------------------------------------------------
\* persistSnapshot, which writes one key per player: any of the writes, or
\* their BuildStateFor, may fail, and all do once the context is done.  The
\* flag is cleared all the same.
persistSnapshot ==
  /\ \E ok \in SUBSET Players :
       /\ cancelled => ok = {}
       /\ blob' = [p \in Players |-> IF p \in ok THEN version' ELSE blob[p]]
       /\ lost' = Players \ ok
  /\ dirty' = FALSE /\ unsaved' = FALSE
  /\ elapsed' = 0

keepBlobs == UNCHANGED <<blob, lost, elapsed>>

\* The engine changes: by one version, up to the bound.
change == version < MaxVersion /\ version' = version + 1

\* markDirty
markDirty == dirty' = TRUE /\ marked' = version'

\* The message the actor has received, and the only one it handles now.
TakeMessage(kind) == /\ actor = "running" /\ inbox # <<>> /\ Head(inbox).kind = kind
                 /\ inbox' = Tail(inbox)
                 /\ UNCHANGED <<cancelled, actor, sends, ticked, rejoining>>

\* KindEngineCommand never marks the session; a module that kills a player
\* does, through ApplyPlayerStatus.  A trigger of the event progression moves the
\* phase inside the command, by SkipToPhase: that neither marks nor flushes.
HandleEngineCommand ==
  /\ TakeMessage("command")
  /\ \/ UNCHANGED <<version, dirty, marked, entered, unsaved>>
     \/ change /\ UNCHANGED <<dirty, marked, entered, unsaved>>
     \/ change /\ markDirty /\ UNCHANGED <<entered, unsaved>>
     \/ change /\ entered' = version' /\ unsaved' = TRUE /\ UNCHANGED <<dirty, marked>>
  /\ keepBlobs /\ UNCHANGED <<done, waiting, flushed, wiped>>

\* KindHandleTrigger: an action that succeeds marks the session, whether it changed
\* anything or not; one that fails half-way has changed it and does not.
HandleTrigger ==
  /\ TakeMessage("trigger")
  /\ \/ change \/ UNCHANGED version
  /\ markDirty \/ UNCHANGED <<dirty, marked>>
  /\ keepBlobs /\ UNCHANGED <<done, waiting, phases, unsaved, wiped>>

\* Mutant: a transition is marked and left to the ticker.
HandleAdvanceLazily ==
  /\ TakeMessage("advance")
  /\ change /\ markDirty /\ entered' = version' /\ flushed' = version'
  /\ keepBlobs /\ UNCHANGED <<done, waiting, unsaved, wiped>>

\* KindAdvance and KindGMOverride: a transition is flushed at once; an error,
\* or the end of the last phase, is not.
HandleAdvance ==
  /\ TakeMessage("advance")
  /\ \/ /\ change \/ UNCHANGED version
        /\ UNCHANGED <<dirty, marked, phases, unsaved>> /\ keepBlobs
     \/ /\ change /\ persistSnapshot
        /\ marked' = version' /\ entered' = version' /\ flushed' = version'
  /\ UNCHANGED <<done, waiting, wiped>>

\* KindCriticalSnapshot
HandleCritical ==
  /\ TakeMessage("critical")
  /\ UNCHANGED <<version, done, waiting, phases, wiped>>
  /\ persistSnapshot /\ marked' = version

\* KindSnapshotFor: the player is sent the current state, or, if
\* BuildStateFor fails, the blob, if there is one.
HandleSnapshotFor ==
  /\ TakeMessage("snapshotFor")
  /\ LET p == Head(inbox).player
     IN  \/ waiting' = waiting \ {p}
         \/ (blob[p] = 0 \/ cancelled) /\ UNCHANGED waiting
  /\ keepBlobs /\ UNCHANGED <<version, dirty, marked, done, phases, unsaved, wiped>>

\* KindLifecycleLeft and KindLifecycleRejoined: no snapshot is marked.
HandleLifecycle ==
  /\ TakeMessage("lifecycle")
  /\ keepBlobs
  /\ UNCHANGED <<version, dirty, marked, done, waiting, phases, unsaved, wiped>>

\* KindStop: deleteSnapshot, which may fail, and stop.
HandleStop ==
  /\ TakeMessage("stop")
  /\ \/ /\ ~cancelled
        /\ blob' = [p \in Players |-> 0] /\ lost' = Players /\ wiped' = TRUE
     \/ UNCHANGED <<blob, lost, wiped>>
  /\ done' = TRUE
  /\ UNCHANGED <<version, dirty, elapsed, marked, waiting, phases, unsaved>>

\* Mutant: the tick clears the flag before it looks at the debounce window.
TickClearsDirty ==
  /\ actor = "running" /\ ticked
  /\ ticked' = FALSE
  /\ IF dirty /\ elapsed >= Debounce
       THEN UNCHANGED version /\ persistSnapshot
       ELSE UNCHANGED <<version, unsaved>> /\ dirty' = FALSE /\ keepBlobs
  /\ UNCHANGED <<queue, sends, rejoin, marked, phases, wiped>>

\* Mutant: a session that was flushed once is never due again.
TickNeverDue ==
  /\ actor = "running" /\ ticked
  /\ ticked' = FALSE
  /\ IF dirty /\ elapsed > Debounce THEN UNCHANGED version /\ persistSnapshot
                                    ELSE UNCHANGED <<version, dirty, unsaved>> /\ keepBlobs
  /\ UNCHANGED <<queue, sends, rejoin, marked, phases, wiped>>

\* maybeSnapshot
Tick ==
  /\ actor = "running" /\ ticked
  /\ ticked' = FALSE
  /\ IF dirty /\ elapsed >= Debounce THEN UNCHANGED version /\ persistSnapshot
                                     ELSE UNCHANGED <<version, dirty, unsaved>> /\ keepBlobs
  /\ UNCHANGED <<queue, sends, rejoin, marked, phases, wiped>>

\* The other cases of Run's select.
ExitDone == /\ actor = "running" /\ done
            /\ actor' = "exited"
            /\ UNCHANGED <<version, dirty, clock, blob, inbox, done, cancelled,
                           sends, rejoin, ghost>>

ExitCtx == /\ actor = "running" /\ cancelled
           /\ actor' = "exited" /\ done' = TRUE
           /\ UNCHANGED <<version, dirty, clock, blob, inbox, cancelled, sends,
                          rejoin, ghost>>

-----------------------------------------------------------------------------
(* The rest of the server *)

\* Mutant: the window grows without limit.
PassOn == /\ actor = "running"
          /\ elapsed < Debounce \/ ~ticked
          /\ ticked' = TRUE
          /\ elapsed' = elapsed + 1
          /\ UNCHANGED <<version, dirty, blob, queue, sends, rejoin, ghost>>

\* A second passes: the ticker fires and the debounce window shrinks.
Pass == /\ actor = "running"
        /\ elapsed < Debounce \/ ~ticked
        /\ ticked' = TRUE
        /\ elapsed' = IF elapsed < Debounce THEN elapsed + 1 ELSE elapsed
        /\ UNCHANGED <<version, dirty, blob, queue, sends, rejoin, ghost>>

\* Session.Send from another goroutine.
Send(kind) == /\ sends < MaxSends /\ ~done /\ Len(inbox) < InboxCap
              /\ inbox' = Append(inbox, [kind |-> kind, player |-> None])
              /\ sends' = sends + 1
              /\ UNCHANGED <<version, dirty, clock, blob, done, actor, cancelled,
                             rejoin, ghost>>

\* OnPlayerRejoined: a lifecycle message and a SendSnapshot goroutine.
Rejoin(p) == /\ sends < MaxSends /\ p \notin waiting
             /\ inbox' = IF ~done /\ Len(inbox) < InboxCap
                           THEN Append(inbox, [kind |-> "lifecycle", player |-> None])
                           ELSE inbox
             /\ rejoining' = rejoining \cup {p} /\ waiting' = waiting \cup {p}
             /\ sends' = sends + 1
             /\ UNCHANGED <<version, dirty, clock, blob, done, actor, cancelled, ghost>>

\* SendSnapshot: through the actor, or from the blob when the session has
\* stopped or the inbox is full.
SendSnapshot(p) ==
  /\ p \in rejoining
  /\ rejoining' = rejoining \ {p}
  /\ IF ~done /\ Len(inbox) < InboxCap
       THEN /\ inbox' = Append(inbox, [kind |-> "snapshotFor", player |-> p])
            /\ UNCHANGED waiting
       ELSE /\ waiting' = IF blob[p] = 0 \/ cancelled THEN waiting ELSE waiting \ {p}
            /\ UNCHANGED inbox
  /\ UNCHANGED <<version, dirty, clock, blob, done, actor, cancelled, sends, ghost>>

\* SessionManager.Stop, or an abort: the blobs stay.
Stop == /\ ~done
        /\ done' = TRUE
        /\ UNCHANGED <<version, dirty, clock, blob, inbox, actor, cancelled, sends,
                       rejoin, ghost>>

CancelContext == /\ ~cancelled
                 /\ cancelled' = TRUE
                 /\ UNCHANGED <<version, dirty, clock, blob, inbox, done, actor, sends,
                                rejoin, ghost>>

-----------------------------------------------------------------------------
SnapshotActor == \/ HandleEngineCommand \/ HandleTrigger \/ HandleAdvance \/ HandleCritical
                 \/ HandleSnapshotFor \/ HandleLifecycle \/ HandleStop \/ Tick \/ ExitDone \/ ExitCtx

SnapshotNext == \/ SnapshotActor \/ Pass \/ Stop \/ CancelContext
                \/ \E kind \in MessageKinds : Send(kind)
                \/ \E p \in Players : Rejoin(p) \/ SendSnapshot(p)

SnapshotSpec == SnapshotInit /\ [][SnapshotNext]_snapshotVars

\* The goroutines run, and time passes.
SnapshotFairness == /\ WF_snapshotVars(SnapshotActor) /\ WF_snapshotVars(Pass)
                    /\ \A p \in Players : WF_snapshotVars(SendSnapshot(p))
SnapshotFairSpec == SnapshotSpec /\ SnapshotFairness

-----------------------------------------------------------------------------
(* Safety *)

\* A player's blob, unless its last write failed or the session has deleted it,
\* is as new as the last phase transition, whoever made that and whatever was
\* written in between.  The one exception is a trigger's transition after which
\* nothing was written yet (nothing has to be: PhaseIsSaved): then it is still as
\* new as the last transition by KindAdvance or KindGMOverride.
TransitionIsSaved ==
  \A p \in Players \ lost : blob[p] >= IF unsaved THEN flushed ELSE entered

\* A clean session has nothing pending: every change that was marked dirty is
\* in every blob whose last write succeeded.
CleanIsSaved ==
  ~dirty => \A p \in Players : p \notin lost => blob[p] >= marked

-----------------------------------------------------------------------------
(* Liveness *)

\* A marked change does not stay pending: the debounce delays the write, and
\* neither messages nor later changes postpone it for ever.
DirtyIsWritten == dirty ~> ~dirty \/ done \/ cancelled

-----------------------------------------------------------------------------
(* What comments of the code say and the code does not do *)

\* session.go: KindStop deletes the snapshot "so PII/role data does not linger
\* for 24h after a game ends".
WipedStaysWiped == wiped => \A p \in Players : blob[p] = 0

\* session.go: "Phase transition is a critical event - flush snapshot immediately".
PhaseIsSaved == \A p \in Players \ lost : blob[p] >= entered

\* snapshot.go: markDirty "records that the session state has changed and
\* should be persisted".
ChangeIsMarked == marked = version

\* manager.go: OnPlayerRejoined "pushes the current snapshot to the
\* reconnecting player".  Here only of a request that is in the inbox, of a player
\* that has a blob, while the blobs are not deleted and the context is not done.
RejoinGetsState ==
  \A p \in Players :
     (\E i \in DOMAIN inbox : inbox[i].player = p) /\ blob[p] # 0
        ~> p \notin waiting \/ wiped \/ cancelled
=============================================================================
