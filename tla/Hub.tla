-------------------------------- MODULE Hub --------------------------------
(***************************************************************************)
(* The game Hub: which connection is in the lobby, in a session and in the *)
(* index of players, the 30-second memory of who left, and the callbacks   *)
(* OnPlayerLeft and OnPlayerRejoined.  Registrations and unregistrations   *)
(* reach the event loop by two channels; JoinSession and LeaveSession run  *)
(* on the reading goroutine of the connection.  All of them change the     *)
(* maps under the lock and issue their callback after they have released   *)
(* it, so that others run in between.  What is sent over a connection is   *)
(* left out.                                                               *)
(***************************************************************************)
EXTENDS Naturals, Sequences, FiniteSets

CONSTANTS Clients,      \* connections, each opened once
          Players, Sessions,
          PlayerOf,     \* the player of a connection
          QueueCap,     \* capacity of the two channels
          MaxJoins,     \* bound on JoinSession and LeaveSession calls
          MaxRevokes,   \* bound on revocations
          None

ASSUME OwnerAssumption == PlayerOf \in [Clients -> Players]
ASSUME QueueAssumption == QueueCap \in Nat \ {0}
ASSUME BoundAssumption == MaxJoins \in Nat /\ MaxRevokes \in Nat

Places == Sessions \X Players
Kinds == {"left", "rejoined"}
Some == Clients \cup {None}
Goroutines == Clients \cup {"run"}  \* the reading ones, and the loop's

ASSUME NoneAssumption == None \notin Clients \cup Sessions \cup (Kinds \X Places)
ASSUME GoroutineAssumption == IsFiniteSet(Clients) /\ "run" \notin Clients

VARIABLES pump,       \* the reading goroutine of a connection
          closed,     \* client.closed
          sid,        \* client.SessionID
          registerQ, unregisterQ,
          lobby, players, sessions,
          leftAt,     \* recentLeftAt: no entry, inside the window, or older
          stop,       \* progress of Hub.Stop
          loop,       \* the goroutine of run
          removing,   \* the connection it has unregistered and not closed yet
          telling,    \* the callback a goroutine has still to issue
          evict,      \* progress of pushRevokeAndUnregister
          notices,    \* listener goroutines in flight, counted
          joins, revokes,
          lefts, rejoins, \* callbacks issued so far
          recorded,   \* the last departure or return, by the order of the lock
          heard       \* the last callback the listener got

maps == <<lobby, players, sessions>>
queues == <<registerQ, unregisterQ>>
server == <<stop, loop, removing>>
calls == <<joins, revokes>>
callbacks == <<notices, lefts, rejoins, heard>>
notes == <<telling, recorded, callbacks>>
vars == <<pump, closed, sid, queues, maps, leftAt, server, evict, calls, notes>>

TypeOK ==
  /\ pump \in [Clients -> {"none", "open", "leaving", "ended"}]
  /\ closed \in [Clients -> BOOLEAN]
  /\ sid \in [Clients -> Sessions \cup {None}]
  /\ registerQ \in Seq(Clients) /\ Len(registerQ) <= QueueCap
  /\ unregisterQ \in Seq(Clients) /\ Len(unregisterQ) <= QueueCap
  /\ lobby \in [Players -> Some] /\ players \in [Players -> Some]
  /\ sessions \in [Places -> Some]
  /\ leftAt \in [Places -> {"none", "recent", "expired"}]
  /\ stop \in {"no", "closing", "stopped"} /\ loop \in {"running", "exited"}
  /\ removing \in Some
  /\ telling \in [Goroutines -> (Kinds \X Places) \cup {None}]
  /\ evict \in [Clients -> {"no", "chosen", "closed"}]
  /\ notices \in [Kinds \X Places -> Nat]
  /\ joins \in 0 .. MaxJoins /\ revokes \in 0 .. MaxRevokes
  /\ lefts \in [Places -> Nat] /\ rejoins \in [Places -> Nat]
  /\ recorded \in [Places -> Kinds] /\ heard \in [Places -> Kinds]

Init ==
  /\ pump = [c \in Clients |-> "none"] /\ closed = [c \in Clients |-> FALSE]
  /\ sid = [c \in Clients |-> None]
  /\ registerQ = <<>> /\ unregisterQ = <<>>
  /\ lobby = [p \in Players |-> None] /\ players = [p \in Players |-> None]
  /\ sessions = [l \in Places |-> None] /\ leftAt = [l \in Places |-> "none"]
  /\ stop = "no" /\ loop = "running" /\ removing = None
  /\ telling = [g \in Goroutines |-> None] /\ evict = [c \in Clients |-> "no"]
  /\ notices = [n \in Kinds \X Places |-> 0]
  /\ joins = 0 /\ revokes = 0
  /\ lefts = [l \in Places |-> 0] /\ rejoins = [l \in Places |-> 0]
  /\ recorded = [l \in Places |-> "rejoined"] /\ heard = [l \in Places |-> "rejoined"]

-----------------------------------------------------------------------------
(* Helpers *)

done == stop # "no"
Place(c) == <<sid[c], PlayerOf[c]>>
inSession(c) == sid[c] # None

\* removeClientLocked, the maps: whatever connection is registered there.
removeFromSession(c) ==
  IF inSession(c) THEN [sessions EXCEPT ![Place(c)] = None] ELSE sessions
removeFromLobby(c) ==
  IF inSession(c) THEN lobby ELSE [lobby EXCEPT ![PlayerOf[c]] = None]

\* Before the unlock: goroutine g will have to announce a departure or a return.
owe(g, kind, l) == /\ telling' = [telling EXCEPT ![g] = <<kind, l>>]
                   /\ recorded' = [recorded EXCEPT ![l] = kind]

\* removeClientLocked(c, true), by goroutine g: the window, and the callback.
recordLeave(g, c) ==
  IF inSession(c) THEN /\ leftAt' = [leftAt EXCEPT ![Place(c)] = "recent"]
                       /\ owe(g, "left", Place(c))
                  ELSE UNCHANGED <<leftAt, telling, recorded>>

\* notifyPlayerLeft and notifyPlayerRejoined, after the unlock: the listeners
\* are called by a goroutine of its own.
notifyPlayer(kind, l) ==
  /\ notices' = [notices EXCEPT ![<<kind, l>>] = @ + 1]
  /\ lefts' = IF kind = "left" THEN [lefts EXCEPT ![l] = @ + 1] ELSE lefts
  /\ rejoins' = IF kind = "rejoined" THEN [rejoins EXCEPT ![l] = @ + 1] ELSE rejoins
  /\ UNCHANGED heard

\* Goroutine g issues the callback it owes.
tell(g) == /\ notifyPlayer(telling[g][1], telling[g][2])
           /\ telling' = [telling EXCEPT ![g] = None]
           /\ UNCHANGED recorded

\* gcRecentLeftLocked and gcAllRecentLeft: drop the old entries of these places.
gcRecentLeft(places) ==
  [l \in Places |-> IF l \in places /\ leftAt[l] = "expired" THEN "none" ELSE leftAt[l]]

-----------------------------------------------------------------------------
(* The connection: the upgrade handler and the reading goroutine *)

\* Mutant: the channel has no bound.
RegisterUnbounded(c) ==
  /\ pump[c] = "none"
  /\ pump' = [pump EXCEPT ![c] = "open"]
  /\ registerQ' = Append(registerQ, c)
  /\ UNCHANGED <<closed, sid, unregisterQ, maps, leftAt, server, evict, calls, notes>>

\* UpgradeHandler: Register, then the pumps.
Register(c) ==
  /\ pump[c] = "none"
  /\ pump' = [pump EXCEPT ![c] = "open"]
  /\ \/ /\ Len(registerQ) < QueueCap
        /\ registerQ' = Append(registerQ, c) /\ UNCHANGED closed
     \/ /\ done
        /\ closed' = [closed EXCEPT ![c] = TRUE] /\ UNCHANGED registerQ
  /\ UNCHANGED <<sid, unregisterQ, maps, leftAt, server, evict, calls, notes>>

\* The reading goroutine is not inside JoinSession or LeaveSession.
reading(c) == pump[c] = "open" /\ telling[c] = None

\* ReadMessage fails: the peer is gone or the connection was closed.
ReadEnds(c) ==
  /\ reading(c)
  /\ pump' = [pump EXCEPT ![c] = "leaving"]
  /\ UNCHANGED <<closed, sid, queues, maps, leftAt, server, evict, calls, notes>>

\* Mutant: Unregister waits for the loop whatever happens.
UnregisterBlocking(c) ==
  /\ Len(unregisterQ) < QueueCap
  /\ unregisterQ' = Append(unregisterQ, c)

\* Unregister, from whichever goroutine.
Unregister(c) ==
  \/ Len(unregisterQ) < QueueCap /\ unregisterQ' = Append(unregisterQ, c)
  \/ done /\ UNCHANGED unregisterQ

\* The deferred function of ReadPump: Unregister and Close.
ReadPumpExit(c) ==
  /\ pump[c] = "leaving"
  /\ pump' = [pump EXCEPT ![c] = "ended"]
  /\ Unregister(c)
  /\ closed' = [closed EXCEPT ![c] = TRUE]
  /\ UNCHANGED <<sid, registerQ, maps, leftAt, server, evict, calls, notes>>

\* JoinSession to its unlock, with what it leaves of the sessions and of the window, and what
\* the entry of a reconnect becomes.
join(c, s, remaining, kept, cleared) ==
  LET l == <<s, PlayerOf[c]>>
      isReconnect == leftAt[l] = "recent"
  IN  /\ reading(c) /\ joins < MaxJoins
      /\ joins' = joins + 1
      /\ sid' = [sid EXCEPT ![c] = s]
      /\ sessions' = [remaining EXCEPT ![l] = c]
      /\ lobby' = removeFromLobby(c)
      /\ leftAt' = IF isReconnect THEN [kept EXCEPT ![l] = cleared] ELSE kept
      /\ IF isReconnect THEN owe(c, "rejoined", l) ELSE UNCHANGED <<telling, recorded>>
      /\ UNCHANGED <<pump, closed, queues, players, server, evict, revokes, callbacks>>

\* Mutant: a connection that switches sessions stays in the old one.
JoinSessionWithoutLeaving(c, s) ==
  join(c, s, sessions, gcRecentLeft({s} \X Players), "none")

\* Mutant: the entry of the player stays after the reconnect.
JoinSessionKeepingEntry(c, s) ==
  join(c, s, removeFromSession(c), gcRecentLeft({s} \X Players), "recent")

\* Mutant: switching sessions counts as leaving (recordLeave = true).
JoinSessionRecordingLeave(c, s) ==
  LET kept == gcRecentLeft({s} \X Players)
  IN  join(c, s, removeFromSession(c),
           IF inSession(c) THEN [kept EXCEPT ![Place(c)] = "recent"] ELSE kept, "none")

\* JoinSession.  The server has no caller of it, or of LeaveSession, yet: both are taken
\* to be called by a handler of messages, on the reading goroutine of the connection.
JoinSession(c, s) ==
  join(c, s, removeFromSession(c), gcRecentLeft({s} \X Players), "none")

\* LeaveSession to its unlock.
LeaveSession(c) ==
  /\ reading(c) /\ joins < MaxJoins
  /\ joins' = joins + 1
  /\ sid' = [sid EXCEPT ![c] = None]
  /\ sessions' = removeFromSession(c)
  /\ lobby' = [lobby EXCEPT ![PlayerOf[c]] = c]
  /\ recordLeave(c, c)
  /\ UNCHANGED <<pump, closed, queues, players, server, evict, revokes, callbacks>>

\* The end of both.
Announce(c) ==
  /\ telling[c] # None /\ tell(c)
  /\ UNCHANGED <<pump, closed, sid, queues, maps, leftAt, server, evict, calls>>

-----------------------------------------------------------------------------
(* The event loop *)

\* The loop is at its select.
selecting == loop = "running" /\ removing = None

HandleRegister ==
  /\ selecting /\ registerQ # <<>>
  /\ LET c == Head(registerQ)
     IN  /\ lobby' = [lobby EXCEPT ![PlayerOf[c]] = c]
         /\ players' = [players EXCEPT ![PlayerOf[c]] = c]
  /\ registerQ' = Tail(registerQ)
  /\ UNCHANGED <<pump, closed, sid, unregisterQ, sessions, leftAt, server, evict,
                 calls, notes>>

\* An unregistration, to the unlock.
HandleUnregister ==
  /\ selecting /\ unregisterQ # <<>>
  /\ LET c == Head(unregisterQ)
     IN  /\ sessions' = removeFromSession(c)
         /\ lobby' = removeFromLobby(c)
         /\ players' = [players EXCEPT ![PlayerOf[c]] = None]
         /\ removing' = c
         /\ recordLeave("run", c)
  /\ unregisterQ' = Tail(unregisterQ)
  /\ UNCHANGED <<pump, closed, sid, registerQ, stop, loop, evict, calls, callbacks>>

\* Its end: the connection is closed, and the departure announced.
Unregistered ==
  /\ removing # None
  /\ closed' = [closed EXCEPT ![removing] = TRUE]
  /\ removing' = None
  /\ IF telling["run"] # None THEN tell("run") ELSE UNCHANGED notes
  /\ UNCHANGED <<pump, sid, queues, maps, leftAt, stop, loop, evict, calls>>

GcTick ==
  /\ selecting
  /\ leftAt' = gcRecentLeft(Places)
  /\ UNCHANGED <<pump, closed, sid, queues, maps, server, evict, calls, notes>>

LoopExit ==
  /\ selecting /\ done
  /\ loop' = "exited"
  /\ UNCHANGED <<pump, closed, sid, queues, maps, leftAt, stop, removing, evict,
                 calls, notes>>

-----------------------------------------------------------------------------
(* Other goroutines *)

\* Stop: first the flag and the channel, then, under the lock, the maps.
StopBegins ==
  /\ stop = "no"
  /\ stop' = "closing"
  /\ UNCHANGED <<pump, closed, sid, queues, maps, leftAt, loop, removing, evict,
                 calls, notes>>

StopWipes ==
  /\ stop = "closing"
  /\ stop' = "stopped"
  /\ closed' = [c \in Clients |-> closed[c] \/ \E p \in Players : players[p] = c]
  /\ lobby' = [p \in Players |-> None] /\ players' = [p \in Players |-> None]
  /\ sessions' = [l \in Places |-> None]
  /\ UNCHANGED <<pump, sid, queues, leftAt, loop, removing, evict, calls, notes>>

\* RevokeUser and RevokeSession choose their connections under the lock.
choose(chosen) ==
  /\ revokes < MaxRevokes
  /\ revokes' = revokes + 1
  /\ evict' = [c \in Clients |-> IF c \in chosen /\ evict[c] = "no" THEN "chosen"
                                                                   ELSE evict[c]]
  /\ UNCHANGED <<pump, closed, sid, queues, maps, leftAt, server, joins, notes>>

RevokeUser(p) == choose({c \in Clients : players[p] = c})
RevokeSession(s) == choose({c \in Clients : \E p \in Players : sessions[<<s, p>>] = c})

\* pushRevokeAndUnregister: Close, then Unregister.
RevokeClose(c) ==
  /\ evict[c] = "chosen"
  /\ evict' = [evict EXCEPT ![c] = "closed"]
  /\ closed' = [closed EXCEPT ![c] = TRUE]
  /\ UNCHANGED <<pump, sid, queues, maps, leftAt, server, calls, notes>>

RevokeUnregister(c) ==
  /\ evict[c] = "closed"
  /\ evict' = [evict EXCEPT ![c] = "no"]
  /\ Unregister(c)
  /\ UNCHANGED <<pump, closed, sid, registerQ, maps, leftAt, server, calls, notes>>

\* A listener goroutine calls OnPlayerLeft or OnPlayerRejoined.
Listen(kind, l) ==
  /\ notices[<<kind, l>>] > 0
  /\ notices' = [notices EXCEPT ![<<kind, l>>] = @ - 1]
  /\ heard' = [heard EXCEPT ![l] = kind]
  /\ UNCHANGED <<pump, closed, sid, queues, maps, leftAt, server, evict, calls,
                 telling, recorded, lefts, rejoins>>

\* reconnectWindow passes.
Expire(l) ==
  /\ leftAt[l] = "recent"
  /\ leftAt' = [leftAt EXCEPT ![l] = "expired"]
  /\ UNCHANGED <<pump, closed, sid, queues, maps, server, evict, calls, notes>>

-----------------------------------------------------------------------------
Loop == HandleRegister \/ HandleUnregister \/ Unregistered \/ GcTick \/ LoopExit

Connection(c) == \/ Register(c) \/ ReadEnds(c) \/ ReadPumpExit(c)
                 \/ \E s \in Sessions : JoinSession(c, s)
                 \/ LeaveSession(c) \/ Announce(c)
                 \/ RevokeClose(c) \/ RevokeUnregister(c)

Next == \/ Loop \/ StopBegins \/ StopWipes
        \/ \E c \in Clients : Connection(c)
        \/ \E p \in Players : RevokeUser(p)
        \/ \E s \in Sessions : RevokeSession(s)
        \/ \E l \in Places : Expire(l) \/ \E kind \in Kinds : Listen(kind, l)

Spec == Init /\ [][Next]_vars

\* The select of the loop serves every ready channel in the end; goroutines run;
\* a closed connection fails its next read.
Fairness ==
  /\ SF_vars(HandleRegister) /\ SF_vars(HandleUnregister)
  /\ WF_vars(Unregistered) /\ WF_vars(LoopExit)
  /\ \A c \in Clients : /\ SF_vars(ReadPumpExit(c)) /\ WF_vars(Announce(c))
                        /\ WF_vars(RevokeClose(c))
                        /\ SF_vars(RevokeUnregister(c))
                        /\ WF_vars(closed[c] /\ ReadEnds(c))
  /\ \A l \in Places, kind \in Kinds : WF_vars(Listen(kind, l))
FairSpec == Spec /\ Fairness

-----------------------------------------------------------------------------
(* Safety *)

\* A session holds, under a player, a connection of that player which is in
\* that session and in no other: switching sessions leaves nothing behind, so
\* a broadcast never reaches a player that has moved on.
EntryMatchesClient ==
  \A l \in Places, c \in Clients : sessions[l] = c => Place(c) = l

\* The callbacks of a kind for a place that are recorded and not issued yet.
due(kind, l) == Cardinality({g \in Goroutines : telling[g] = <<kind, l>>})

\* OnPlayerRejoined is issued at most once for each OnPlayerLeft that was
\* issued or that a goroutine, between its unlock and its callback, is about to
\* issue: switching sessions, reconnecting twice, joining late and removing an
\* old connection never announce a return of someone who has not left.  (The
\* callbacks themselves may come in the wrong order: ReturnIsSecond.)
RejoinedAfterLeft == \A l \in Places : rejoins[l] <= lefts[l] + due("left", l)

\* Why: an entry of recentLeftAt, and a return that is still to be announced,
\* stand for departures of their own.
EntryIsOpenDeparture ==
  \A l \in Places :
     rejoins[l] + due("rejoined", l) + (IF leftAt[l] = "none" THEN 0 ELSE 1)
        <= lefts[l] + due("left", l)

-----------------------------------------------------------------------------
(* Liveness *)

\* A connection that ends or is revoked is not stuck in Unregister, also when
\* the hub stops with a full channel.
UnregisterReturns ==
  \A c \in Clients : /\ pump[c] = "leaving" ~> pump[c] = "ended"
                     /\ evict[c] # "no" ~> evict[c] = "no"

-----------------------------------------------------------------------------
(* What comments of the code say and the code does not do *)

live(c) == pump[c] = "open" /\ ~closed[c]
registered(c) == pump[c] # "none" /\ \A i \in DOMAIN registerQ : registerQ[i] # c

\* hub_revoke.go: RevokeUser is a silent success "If userID has no live
\* connection": the index never misses a player with a live, registered one.
IndexedIfLive ==
  stop = "no" => \A c \in Clients :
     live(c) /\ registered(c) => players[PlayerOf[c]] # None

\* hub_revoke.go: the bookkeeping "(players / lobby / sessions) is cleaned up
\* by Unregister".
Settled == registerQ = <<>> /\ unregisterQ = <<>> /\ stop = "no"
CleanedUp ==
  Settled => \A c \in Clients : pump[c] = "ended" =>
     \A p \in Players : players[p] # c /\ lobby[p] # c

\* hub.go: "lobby holds clients not yet in a game session".
LobbyIsOutside == \A p \in Players, c \in Clients : lobby[p] = c => ~inSession(c)

\* hub_broadcast.go: BroadcastToSession "sends an envelope to every client in
\* the given session": a player with a live connection there is reached.
BroadcastReaches ==
  stop = "no" => \A c \in Clients :
    live(c) /\ inSession(c) => sessions[Place(c)] # None

\* manager.go: OnPlayerLeft and OnPlayerRejoined keep the "per-player
\* connection state": what is heard last is what happened last.
LastNoticeWins ==
  (\A n \in Kinds \X Places : notices[n] = 0) /\ (\A g \in Goroutines : telling[g] = None)
     => heard = recorded

\* hub_lifecycle.go: OnPlayerRejoined is for a player who "disconnected from this
\* session": the departure was announced before.
ReturnIsSecond == \A l \in Places : rejoins[l] <= lefts[l]

\* hub.go: Stop "shuts down the hub event loop and closes all connected clients".
StopClosesAll ==
  stop = "stopped" /\ loop = "exited" =>
     \A c \in Clients : pump[c] = "open" => closed[c]
=============================================================================
