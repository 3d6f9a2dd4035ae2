----------------------------- MODULE HubProofs -----------------------------
(***************************************************************************)
(* Proofs about the Hub, for every set of connections, players and         *)
(* sessions and every capacity of the channels: its types, that a session  *)
(* entry is a connection of that player in that session, and that returns  *)
(* never outnumber the departures announced or about to be.                *)
(***************************************************************************)
EXTENDS Hub, FiniteSetTheorems, TLAPS

USE OwnerAssumption, QueueAssumption, BoundAssumption, NoneAssumption,
    GoroutineAssumption

\* The place of a connection in a session is a place.
LEMMA PlaceType ==
  ASSUME TypeOK, NEW c \in Clients, inSession(c)
  PROVE  Place(c) \in Places
BY DEF TypeOK, inSession, Place, Places

\* Queues: appending within the capacity and taking the head keep the type.
LEMMA QueueType ==
  ASSUME NEW q \in Seq(Clients), Len(q) <= QueueCap
  PROVE  /\ \A c \in Clients : Len(q) < QueueCap =>
               Append(q, c) \in Seq(Clients) /\ Len(Append(q, c)) <= QueueCap
         /\ q # <<>> => /\ Head(q) \in Clients /\ Tail(q) \in Seq(Clients)
                        /\ Len(Tail(q)) <= QueueCap
OBVIOUS

\* The collected window is a window.
LEMMA GcType ==
  ASSUME TypeOK, NEW places
  PROVE  gcRecentLeft(places) \in [Places -> {"none", "recent", "expired"}]
BY DEF TypeOK, gcRecentLeft

-----------------------------------------------------------------------------
\* A callback that is owed, and one that is issued, keep the types.
LEMMA OweType ==
  ASSUME TypeOK, NEW g \in Goroutines, NEW kind \in Kinds, NEW l \in Places,
         owe(g, kind, l)
  PROVE  /\ telling' \in [Goroutines -> (Kinds \X Places) \cup {None}]
         /\ recorded' \in [Places -> Kinds]
BY DEF TypeOK, owe

LEMMA TellType ==
  ASSUME TypeOK, NEW g \in Goroutines, telling[g] # None, tell(g)
  PROVE  /\ telling' \in [Goroutines -> (Kinds \X Places) \cup {None}]
         /\ recorded' \in [Places -> Kinds]
         /\ notices' \in [Kinds \X Places -> Nat]
         /\ lefts' \in [Places -> Nat] /\ rejoins' \in [Places -> Nat]
         /\ heard' \in [Places -> Kinds]
<1>1. PICK kind \in Kinds, l \in Places : telling[g] = <<kind, l>> BY DEF TypeOK
<1>2. notifyPlayer(kind, l) BY <1>1 DEF tell
<1>3. /\ notices' \in [Kinds \X Places -> Nat] /\ heard' \in [Places -> Kinds]
      /\ lefts' \in [Places -> Nat] /\ rejoins' \in [Places -> Nat]
  BY <1>2 DEF TypeOK, notifyPlayer
<1> QED BY <1>3 DEF TypeOK, tell

\* What removing a connection leaves has the types of the maps.
LEMMA RemoveType ==
  ASSUME TypeOK, NEW c \in Clients
  PROVE  /\ removeFromSession(c) \in [Places -> Some]
         /\ removeFromLobby(c) \in [Players -> Some]
<1>1. None \in Some BY DEF Some
<1>2. removeFromSession(c) \in [Places -> Some]
  BY <1>1 DEF TypeOK, removeFromSession
<1>3. removeFromLobby(c) \in [Players -> Some]
  BY <1>1 DEF TypeOK, removeFromLobby
<1> QED BY <1>2, <1>3

LEMMA RecordType ==
  ASSUME TypeOK, NEW c \in Clients, NEW g \in Goroutines, recordLeave(g, c)
  PROVE  /\ leftAt' \in [Places -> {"none", "recent", "expired"}]
         /\ telling' \in [Goroutines -> (Kinds \X Places) \cup {None}]
         /\ recorded' \in [Places -> Kinds]
<1>1. CASE inSession(c)
  <2>1. Place(c) \in Places BY <1>1, PlaceType
  <2>2. PICK l \in Places : l = Place(c) BY <2>1
  <2>3. leftAt' = [leftAt EXCEPT ![l] = "recent"] /\ owe(g, "left", l)
    BY <1>1, <2>2 DEF recordLeave
  <2>4. "left" \in Kinds BY DEF Kinds
  <2>5. leftAt' \in [Places -> {"none", "recent", "expired"}] BY <2>3 DEF TypeOK
  <2> QED BY <2>3, <2>4, <2>5, OweType
<1>2. CASE ~inSession(c)
  BY <1>2 DEF TypeOK, recordLeave
<1> QED BY <1>1, <1>2

-----------------------------------------------------------------------------
(* Type correctness, one lemma per group of actions *)

LEMMA InitType == Init => TypeOK
<1> SUFFICES ASSUME Init PROVE TypeOK OBVIOUS
<1>1. /\ closed \in [Clients -> BOOLEAN] /\ evict \in [Clients -> {"no", "chosen", "closed"}]
      /\ pump \in [Clients -> {"none", "open", "leaving", "ended"}]
  BY DEF Init
<1>2. /\ registerQ \in Seq(Clients) /\ Len(registerQ) <= QueueCap
      /\ unregisterQ \in Seq(Clients) /\ Len(unregisterQ) <= QueueCap
  BY DEF Init
<1> QED BY <1>1, <1>2 DEF Init, TypeOK, Some, Kinds

LEMMA JoinType ==
  ASSUME TypeOK, NEW c \in Clients, NEW s \in Sessions, JoinSession(c, s)
  PROVE  TypeOK'
<1> DEFINE l == <<s, PlayerOf[c]>>
<1>1. l \in Places BY DEF Places
<1>2. removeFromSession(c) \in [Places -> Some] /\ removeFromLobby(c) \in [Players -> Some]
  BY RemoveType
<1>3. gcRecentLeft({s} \X Players) \in [Places -> {"none", "recent", "expired"}]
  BY GcType
<1>4. sessions' \in [Places -> Some] /\ sid' \in [Clients -> Sessions \cup {None}]
  BY <1>1, <1>2 DEF JoinSession, join, TypeOK, Some
<1>5. leftAt' \in [Places -> {"none", "recent", "expired"}]
  BY <1>1, <1>3 DEF JoinSession, join
<1>6. /\ telling' \in [Goroutines -> (Kinds \X Places) \cup {None}]
      /\ recorded' \in [Places -> Kinds]
  <2>1. CASE leftAt[l] = "recent"
    <3>1. owe(c, "rejoined", l) BY <2>1 DEF JoinSession, join
    <3>2. "rejoined" \in Kinds /\ c \in Goroutines BY DEF Kinds, Goroutines
    <3> QED BY <1>1, <3>1, <3>2, OweType
  <2>2. CASE leftAt[l] # "recent"
    BY <2>2 DEF JoinSession, join, TypeOK
  <2> QED BY <2>1, <2>2
<1>7. lobby' \in [Players -> Some] BY <1>2 DEF JoinSession, join
<1>8. joins' \in 0 .. MaxJoins BY DEF JoinSession, join, TypeOK
<1>9. UNCHANGED <<pump, closed, registerQ, unregisterQ, players, stop, loop, removing,
                  evict, revokes, notices, lefts, rejoins, heard>>
  BY DEF JoinSession, join, queues, server, callbacks
<1> HIDE DEF l
<1> QED BY <1>4, <1>5, <1>6, <1>7, <1>8, <1>9 DEF TypeOK

LEMMA LeaveType ==
  ASSUME TypeOK, NEW c \in Clients, LeaveSession(c)
  PROVE  TypeOK'
<1>1. removeFromSession(c) \in [Places -> Some] BY RemoveType
<1>2. recordLeave(c, c) /\ c \in Goroutines BY DEF LeaveSession, Goroutines
<1>3. /\ leftAt' \in [Places -> {"none", "recent", "expired"}]
      /\ telling' \in [Goroutines -> (Kinds \X Places) \cup {None}]
      /\ recorded' \in [Places -> Kinds]
  BY <1>2, RecordType
<1>4. lobby' \in [Players -> Some] BY DEF LeaveSession, TypeOK, Some
<1> QED BY <1>1, <1>3, <1>4 DEF LeaveSession, TypeOK, queues, server, callbacks

LEMMA AnnounceType ==
  ASSUME TypeOK, NEW c \in Clients, Announce(c)
  PROVE  TypeOK'
<1>1. telling[c] # None /\ tell(c) /\ c \in Goroutines BY DEF Announce, Goroutines
<1>2. /\ telling' \in [Goroutines -> (Kinds \X Places) \cup {None}]
      /\ recorded' \in [Places -> Kinds]
      /\ notices' \in [Kinds \X Places -> Nat]
      /\ lefts' \in [Places -> Nat] /\ rejoins' \in [Places -> Nat]
      /\ heard' \in [Places -> Kinds]
  BY <1>1, TellType
<1> QED BY <1>2 DEF Announce, TypeOK, queues, maps, server, calls

LEMMA ConnectionType ==
  ASSUME TypeOK, NEW c \in Clients,
         \/ Register(c) \/ ReadEnds(c) \/ ReadPumpExit(c)
         \/ RevokeClose(c) \/ RevokeUnregister(c)
  PROVE  TypeOK'
<1>1. /\ Len(registerQ) < QueueCap => /\ Append(registerQ, c) \in Seq(Clients)
                                      /\ Len(Append(registerQ, c)) <= QueueCap
      /\ Len(unregisterQ) < QueueCap => /\ Append(unregisterQ, c) \in Seq(Clients)
                                        /\ Len(Append(unregisterQ, c)) <= QueueCap
  BY QueueType DEF TypeOK
<1>2. closed' \in [Clients -> BOOLEAN]
  BY DEF TypeOK, Register, ReadEnds, ReadPumpExit, RevokeClose, RevokeUnregister
<1>3. CASE Register(c)
  BY <1>1, <1>2, <1>3 DEF TypeOK, Register, maps, server, calls, notes, callbacks
<1>4. CASE ReadEnds(c)
  BY <1>4 DEF TypeOK, ReadEnds, queues, maps, server, calls, notes, callbacks
<1>5. CASE ReadPumpExit(c)
  BY <1>1, <1>2, <1>5 DEF TypeOK, ReadPumpExit, Unregister, maps, server, calls, notes, callbacks
<1>6. CASE RevokeClose(c)
  BY <1>2, <1>6 DEF TypeOK, RevokeClose, queues, maps, server, calls, notes, callbacks
<1>7. CASE RevokeUnregister(c)
  BY <1>1, <1>7 DEF TypeOK, RevokeUnregister, Unregister, maps, server, calls, notes, callbacks
<1> QED BY <1>3, <1>4, <1>5, <1>6, <1>7

LEMMA LoopType ==
  ASSUME TypeOK, Loop
  PROVE  TypeOK'
<1>1. CASE HandleRegister
  <2>1. /\ Head(registerQ) \in Clients /\ Tail(registerQ) \in Seq(Clients)
        /\ Len(Tail(registerQ)) <= QueueCap
    BY <1>1, QueueType DEF TypeOK, HandleRegister
  <2>2. lobby' \in [Players -> Some] /\ players' \in [Players -> Some]
    BY <1>1, <2>1 DEF TypeOK, HandleRegister, Some
  <2> QED BY <1>1, <2>1, <2>2 DEF TypeOK, HandleRegister, server, calls, notes, callbacks
<1>2. CASE HandleUnregister
  <2> DEFINE q == unregisterQ
  <2>1. /\ Head(q) \in Clients /\ Tail(q) \in Seq(Clients) /\ Len(Tail(q)) <= QueueCap
    BY <1>2, QueueType DEF TypeOK, HandleUnregister
  <2>2. PICK c \in Clients : c = Head(unregisterQ) BY <2>1
  <2>3. /\ sessions' = removeFromSession(c) /\ lobby' = removeFromLobby(c)
        /\ players' = [players EXCEPT ![PlayerOf[c]] = None]
        /\ removing' = c /\ recordLeave("run", c) /\ "run" \in Goroutines
    BY <1>2, <2>2 DEF HandleUnregister, Goroutines
  <2>4. /\ leftAt' \in [Places -> {"none", "recent", "expired"}]
        /\ telling' \in [Goroutines -> (Kinds \X Places) \cup {None}]
        /\ recorded' \in [Places -> Kinds]
    BY <2>3, RecordType
  <2>5. sessions' \in [Places -> Some] /\ lobby' \in [Players -> Some]
    BY <2>3, RemoveType
  <2>6. players' \in [Players -> Some] /\ removing' \in Some BY <2>3 DEF TypeOK, Some
  <2>7. unregisterQ' \in Seq(Clients) /\ Len(unregisterQ') <= QueueCap
    BY <1>2, <2>1 DEF HandleUnregister
  <2> QED BY <1>2, <2>4, <2>5, <2>6, <2>7
       DEF TypeOK, HandleUnregister, calls, callbacks
<1>3. CASE GcTick
  <2>1. leftAt' \in [Places -> {"none", "recent", "expired"}]
    BY <1>3, GcType DEF GcTick
  <2> QED BY <1>3, <2>1 DEF TypeOK, GcTick, queues, maps, server, calls, notes, callbacks
<1>4. CASE LoopExit
  BY <1>4 DEF TypeOK, LoopExit, queues, maps, calls, notes, callbacks
<1>5. CASE Unregistered
  <2>1. closed' \in [Clients -> BOOLEAN] BY <1>5 DEF TypeOK, Unregistered
  <2>2. removing' \in Some BY <1>5 DEF Unregistered, Some
  <2>3. /\ telling' \in [Goroutines -> (Kinds \X Places) \cup {None}]
        /\ recorded' \in [Places -> Kinds]
        /\ notices' \in [Kinds \X Places -> Nat]
        /\ lefts' \in [Places -> Nat] /\ rejoins' \in [Places -> Nat]
        /\ heard' \in [Places -> Kinds]
    <3>1. CASE telling["run"] # None
      <4>1. tell("run") /\ "run" \in Goroutines BY <1>5, <3>1 DEF Unregistered, Goroutines
      <4> QED BY <3>1, <4>1, TellType
    <3>2. CASE telling["run"] = None
      BY <1>5, <3>2 DEF TypeOK, Unregistered, notes, callbacks
    <3> QED BY <3>1, <3>2
  <2> QED BY <1>5, <2>1, <2>2, <2>3 DEF TypeOK, Unregistered, queues, maps, calls
<1> QED BY <1>1, <1>2, <1>3, <1>4, <1>5 DEF Loop

LEMMA OtherType ==
  ASSUME TypeOK,
         \/ StopBegins \/ StopWipes
         \/ \E p \in Players : RevokeUser(p)
         \/ \E s \in Sessions : RevokeSession(s)
         \/ \E l \in Places : Expire(l) \/ \E kind \in Kinds : Listen(kind, l)
  PROVE  TypeOK'
<1>1. CASE StopBegins
  BY <1>1 DEF TypeOK, StopBegins, queues, maps, calls, notes, callbacks
<1>2. CASE StopWipes
  <2>1. /\ closed' \in [Clients -> BOOLEAN] /\ sessions' \in [Places -> Some]
        /\ lobby' \in [Players -> Some] /\ players' \in [Players -> Some]
    BY <1>2 DEF TypeOK, StopWipes, Some
  <2> QED BY <1>2, <2>1 DEF TypeOK, StopWipes, queues, calls, notes, callbacks
<1>3. ASSUME NEW chosen, choose(chosen) PROVE TypeOK'
  BY <1>3 DEF TypeOK, choose, queues, maps, server, notes, callbacks
<1>4. ASSUME NEW l \in Places, Expire(l) PROVE TypeOK'
  BY <1>4 DEF TypeOK, Expire, queues, maps, server, calls, notes, callbacks
<1>5. ASSUME NEW l \in Places, NEW kind \in Kinds, Listen(kind, l) PROVE TypeOK'
  BY <1>5 DEF TypeOK, Listen, queues, maps, server, calls
<1> QED BY <1>1, <1>2, <1>3, <1>4, <1>5 DEF RevokeUser, RevokeSession

LEMMA NextType == TypeOK /\ [Next]_vars => TypeOK'
<1> SUFFICES ASSUME TypeOK, [Next]_vars PROVE TypeOK' OBVIOUS
<1>1. CASE Loop BY <1>1, LoopType
<1>2. ASSUME NEW c \in Clients, Connection(c) PROVE TypeOK'
  BY <1>2, JoinType, LeaveType, AnnounceType, ConnectionType DEF Connection
<1>3. CASE \/ StopBegins \/ StopWipes
           \/ \E p \in Players : RevokeUser(p)
           \/ \E s \in Sessions : RevokeSession(s)
           \/ \E l \in Places : Expire(l) \/ \E kind \in Kinds : Listen(kind, l)
  BY <1>3, OtherType
<1>4. CASE UNCHANGED vars
  BY <1>4 DEF TypeOK, vars, queues, maps, server, calls, notes, callbacks
<1> QED BY <1>1, <1>2, <1>3, <1>4 DEF Next

\* Every reachable state has the declared types.
THEOREM TypeCorrect == Spec => []TypeOK
<1>1. Init => TypeOK BY InitType
<1>2. TypeOK /\ [Next]_vars => TypeOK' BY NextType
<1> QED BY <1>1, <1>2, PTL DEF Spec

-----------------------------------------------------------------------------
(* Session entries *)

\* Removing a connection leaves entries that were there, of other connections.
LEMMA RemoveKeeps ==
  ASSUME TypeOK, EntryMatchesClient, NEW c \in Clients, NEW l \in Places,
         NEW d \in Clients, removeFromSession(c)[l] = d
  PROVE  d # c /\ sessions[l] = d
<1>1. CASE inSession(c)
  <2>1. Place(c) \in Places BY <1>1, PlaceType
  <2>2. l # Place(c) BY <1>1, <2>1 DEF removeFromSession, TypeOK
  <2>3. sessions[l] = d BY <1>1, <2>1, <2>2 DEF removeFromSession, TypeOK
  <2> QED BY <2>2, <2>3 DEF EntryMatchesClient
<1>2. CASE ~inSession(c)
  <2>1. sessions[l] = d BY <1>2 DEF removeFromSession
  <2>2. Place(d) = l BY <2>1 DEF EntryMatchesClient
  <2>3. sid[d] \in Sessions BY <2>2 DEF Place, Places
  <2> QED BY <1>2, <2>1, <2>3 DEF inSession
<1> QED BY <1>1, <1>2

\* Wiped or removed entries, with no connection moved, keep the invariant.
LEMMA FewerEntries ==
  ASSUME TypeOK, EntryMatchesClient, sid' = sid,
         \A l \in Places, d \in Clients : sessions'[l] = d => sessions[l] = d
  PROVE  EntryMatchesClient'
BY DEF EntryMatchesClient, Place

LEMMA EntryStep == TypeOK /\ EntryMatchesClient /\ [Next]_vars => EntryMatchesClient'
<1> SUFFICES ASSUME TypeOK, EntryMatchesClient, [Next]_vars
             PROVE  EntryMatchesClient'
  OBVIOUS
<1>1. ASSUME NEW c \in Clients, NEW s \in Sessions, JoinSession(c, s)
      PROVE  EntryMatchesClient'
  <2> SUFFICES ASSUME NEW l \in Places, NEW d \in Clients, sessions'[l] = d
               PROVE  Place(d)' = l
    BY DEF EntryMatchesClient
  <2>1. /\ sid' = [sid EXCEPT ![c] = s]
        /\ sessions' = [removeFromSession(c) EXCEPT ![<<s, PlayerOf[c]>>] = c]
    BY <1>1 DEF JoinSession, join
  <2>2. removeFromSession(c) \in [Places -> Some] BY RemoveType
  <2>3. CASE l = <<s, PlayerOf[c]>>
    <3>1. d = c BY <2>1, <2>2, <2>3
    <3> QED BY <2>1, <2>3, <3>1 DEF Place, TypeOK
  <2>4. CASE l # <<s, PlayerOf[c]>>
    <3>1. removeFromSession(c)[l] = d BY <2>1, <2>2, <2>4
    <3>2. d # c /\ sessions[l] = d BY <3>1, RemoveKeeps
    <3> QED BY <2>1, <3>2 DEF Place, TypeOK, EntryMatchesClient
  <2> QED BY <2>3, <2>4
<1>2. ASSUME NEW c \in Clients, LeaveSession(c) PROVE EntryMatchesClient'
  <2> SUFFICES ASSUME NEW l \in Places, NEW d \in Clients, sessions'[l] = d
               PROVE  Place(d)' = l
    BY DEF EntryMatchesClient
  <2>1. sid' = [sid EXCEPT ![c] = None] /\ sessions' = removeFromSession(c)
    BY <1>2 DEF LeaveSession
  <2>2. d # c /\ sessions[l] = d BY <2>1, RemoveKeeps
  <2> QED BY <2>1, <2>2 DEF Place, TypeOK, EntryMatchesClient
<1>3. CASE HandleUnregister
  <2>1. Head(unregisterQ) \in Clients
    BY <1>3, QueueType DEF TypeOK, HandleUnregister
  <2>2. PICK c \in Clients : c = Head(unregisterQ) BY <2>1
  <2>3. sid' = sid /\ sessions' = removeFromSession(c)
    BY <1>3, <2>2 DEF HandleUnregister
  <2>4. \A l \in Places, d \in Clients : sessions'[l] = d => sessions[l] = d
    BY <2>3, RemoveKeeps
  <2> QED BY <2>3, <2>4, FewerEntries
<1>4. CASE StopWipes
  <2>1. sid' = sid /\ \A l \in Places : sessions'[l] = None BY <1>4 DEF StopWipes
  <2> QED BY <2>1, FewerEntries
<1>5. ASSUME UNCHANGED <<sid, sessions>> PROVE EntryMatchesClient'
  BY <1>5, FewerEntries
<1>6. ASSUME NEW c \in Clients,
             \/ Register(c) \/ ReadEnds(c) \/ ReadPumpExit(c)
             \/ Announce(c) \/ RevokeClose(c) \/ RevokeUnregister(c)
      PROVE  UNCHANGED <<sid, sessions>>
  BY <1>6 DEF Register, ReadEnds, ReadPumpExit, Announce, RevokeClose,
              RevokeUnregister, maps
<1>7. ASSUME \/ HandleRegister \/ Unregistered \/ GcTick \/ LoopExit \/ StopBegins
      PROVE  UNCHANGED <<sid, sessions>>
  BY <1>7 DEF HandleRegister, Unregistered, GcTick, LoopExit, StopBegins, maps
<1>8. ASSUME \/ \E p \in Players : RevokeUser(p)
             \/ \E s \in Sessions : RevokeSession(s)
             \/ \E l \in Places : Expire(l) \/ \E kind \in Kinds : Listen(kind, l)
      PROVE  UNCHANGED <<sid, sessions>>
  BY <1>8 DEF RevokeUser, RevokeSession, choose, Expire, Listen, maps
<1>9. CASE UNCHANGED vars BY <1>5, <1>9 DEF vars, maps
<1> QED BY <1>1, <1>2, <1>3, <1>4, <1>5, <1>6, <1>7, <1>8, <1>9
     DEF Next, Loop, Connection

\* In every reachable state a session entry is a connection of that player
\* which is in that session.
THEOREM SessionEntries == Spec => []EntryMatchesClient
<1>1. Init => EntryMatchesClient BY DEF Init, EntryMatchesClient
<1>2. TypeOK /\ EntryMatchesClient /\ [Next]_vars => EntryMatchesClient' BY EntryStep
<1> QED BY <1>1, <1>2, TypeCorrect, PTL DEF Spec

-----------------------------------------------------------------------------
(* Callbacks that are owed *)

\* The loop owes a callback only while it removes a connection.
LoopTells == removing = None => telling["run"] = None

LEMMA LoopTellsStep == TypeOK /\ LoopTells /\ [Next]_vars => LoopTells'
<1> SUFFICES ASSUME TypeOK, LoopTells, [Next]_vars PROVE LoopTells' OBVIOUS
<1>1. CASE HandleUnregister
  <2>1. Head(unregisterQ) \in Clients
    BY <1>1, QueueType DEF TypeOK, HandleUnregister
  <2> QED BY <1>1, <2>1 DEF HandleUnregister, LoopTells
<1>2. CASE Unregistered
  BY <1>2 DEF Unregistered, tell, LoopTells, TypeOK, Goroutines, notes
<1>3. ASSUME removing' = removing, telling'["run"] = telling["run"] PROVE LoopTells'
  BY <1>3 DEF LoopTells
<1>4. ASSUME NEW c \in Clients,
             telling' = telling \/ \E n : telling' = [telling EXCEPT ![c] = n]
      PROVE  telling'["run"] = telling["run"]
  BY <1>4 DEF TypeOK, Goroutines
<1>5. ASSUME NEW c \in Clients, Connection(c)
      PROVE  removing' = removing /\ telling'["run"] = telling["run"]
  <2>1. ASSUME NEW s \in Sessions, JoinSession(c, s)
        PROVE  removing' = removing /\ telling'["run"] = telling["run"]
    BY <1>4, <2>1 DEF JoinSession, join, owe, server
  <2>2. CASE LeaveSession(c)
    BY <1>4, <2>2 DEF LeaveSession, recordLeave, owe, server
  <2>3. CASE Announce(c)
    BY <1>4, <2>3 DEF Announce, tell, server
  <2>4. CASE \/ Register(c) \/ ReadEnds(c) \/ ReadPumpExit(c)
             \/ RevokeClose(c) \/ RevokeUnregister(c)
    BY <2>4 DEF Register, ReadEnds, ReadPumpExit, RevokeClose, RevokeUnregister,
                server, notes
  <2> QED BY <1>5, <2>1, <2>2, <2>3, <2>4 DEF Connection
<1>6. ASSUME \/ HandleRegister \/ GcTick \/ LoopExit \/ StopBegins \/ StopWipes
             \/ \E p \in Players : RevokeUser(p)
             \/ \E s \in Sessions : RevokeSession(s)
             \/ \E l \in Places : Expire(l) \/ \E kind \in Kinds : Listen(kind, l)
      PROVE  UNCHANGED <<removing, telling>>
  BY <1>6 DEF HandleRegister, GcTick, LoopExit, StopBegins, StopWipes, RevokeUser,
              RevokeSession, choose, Expire, Listen, server, notes
<1>7. CASE UNCHANGED vars BY <1>3, <1>7 DEF vars, server, notes
<1> QED BY <1>1, <1>2, <1>3, <1>5, <1>6, <1>7 DEF Next, Loop

\* The goroutines that owe a callback are a finite set.
LEMMA DueType ==
  ASSUME NEW kind, NEW l
  PROVE  /\ IsFiniteSet({g \in Goroutines : telling[g] = <<kind, l>>})
         /\ due(kind, l) \in Nat
<1>1. IsFiniteSet(Goroutines) BY FS_AddElement DEF Goroutines
<1>2. {g \in Goroutines : telling[g] = <<kind, l>>} \subseteq Goroutines OBVIOUS
<1>3. IsFiniteSet({g \in Goroutines : telling[g] = <<kind, l>>})
  BY <1>1, <1>2, FS_Subset
<1> QED BY <1>3, FS_CardinalityType DEF due

\* A goroutine that owes nothing adds one callback to those that are owed.
LEMMA OweDue ==
  ASSUME TypeOK, NEW g \in Goroutines, telling[g] = None,
         NEW kind \in Kinds, NEW l \in Places, owe(g, kind, l),
         NEW k \in Kinds, NEW m \in Places
  PROVE  due(k, m)' = due(k, m) + (IF k = kind /\ m = l THEN 1 ELSE 0)
<1> DEFINE D == {h \in Goroutines : telling[h] = <<k, m>>}
           E == {h \in Goroutines : telling'[h] = <<k, m>>}
<1>1. IsFiniteSet(D) BY DueType
<1>2. telling' = [telling EXCEPT ![g] = <<kind, l>>] BY DEF owe
<1>3. None # <<k, m>> BY DEF Places
<1>4. g \notin D BY <1>3
<1>5. CASE k = kind /\ m = l
  <2>1. E = D \cup {g} BY <1>2, <1>5 DEF TypeOK
  <2> HIDE DEF D, E
  <2>2. Cardinality(E) = Cardinality(D) + 1 BY <1>1, <1>4, <2>1, FS_AddElement
  <2> QED BY <1>5, <2>2 DEF D, E, due
<1>6. CASE ~(k = kind /\ m = l)
  <2>1. <<kind, l>> # <<k, m>> BY <1>6
  <2>2. E = D BY <1>2, <1>4, <2>1 DEF TypeOK
  <2>3. Cardinality(D) \in Nat BY <1>1, FS_CardinalityType
  <2> HIDE DEF D, E
  <2>4. Cardinality(E) = Cardinality(D) + 0 BY <2>2, <2>3
  <2> QED BY <1>6, <2>4 DEF D, E, due
<1> QED BY <1>5, <1>6

\* The callback that is issued is owed no more.
LEMMA TellDue ==
  ASSUME TypeOK, NEW g \in Goroutines, NEW kind \in Kinds, NEW l \in Places,
         telling[g] = <<kind, l>>, tell(g), NEW k \in Kinds, NEW m \in Places
  PROVE  due(k, m)' + (IF k = kind /\ m = l THEN 1 ELSE 0) = due(k, m)
<1> DEFINE D == {h \in Goroutines : telling[h] = <<k, m>>}
           E == {h \in Goroutines : telling'[h] = <<k, m>>}
<1>1. IsFiniteSet(D) /\ Cardinality(D) \in Nat BY DueType, FS_CardinalityType
<1>2. telling' = [telling EXCEPT ![g] = None] BY DEF tell
<1>3. None # <<k, m>> BY DEF Places
<1>4. CASE k = kind /\ m = l
  <2>1. g \in D /\ E = D \ {g} BY <1>2, <1>3, <1>4 DEF TypeOK
  <2> HIDE DEF D, E
  <2>2. Cardinality(E) = Cardinality(D) - 1 BY <1>1, <2>1, FS_RemoveElement
  <2> QED BY <1>1, <1>4, <2>2 DEF D, E, due
<1>5. CASE ~(k = kind /\ m = l)
  <2>1. <<kind, l>> # <<k, m>> BY <1>5
  <2>2. E = D BY <1>2, <1>3, <2>1 DEF TypeOK
  <2> HIDE DEF D, E
  <2>3. Cardinality(E) + 0 = Cardinality(D) BY <1>1, <2>2
  <2> QED BY <1>5, <2>3 DEF D, E, due
<1> QED BY <1>4, <1>5

-----------------------------------------------------------------------------
(* Departures and returns *)

\* What a place has had of returns and still has to get, and its departures.
Spent(l) == rejoins[l] + due("rejoined", l) + (IF leftAt[l] = "none" THEN 0 ELSE 1)
Earned(l) == lefts[l] + due("left", l)

LEMMA CountTypes ==
  ASSUME TypeOK, NEW l \in Places
  PROVE  /\ rejoins[l] \in Nat /\ lefts[l] \in Nat
         /\ due("left", l) \in Nat /\ due("rejoined", l) \in Nat
BY DueType DEF TypeOK

\* Collecting old entries makes no entry.
LEMMA GcKeeps ==
  ASSUME TypeOK, NEW places, NEW l \in Places, gcRecentLeft(places)[l] # "none"
  PROVE  gcRecentLeft(places)[l] = leftAt[l]
BY DEF gcRecentLeft

\* Entries that only disappear or grow old, with no callback, owe no more.
LEMMA FewerOwed ==
  ASSUME TypeOK, EntryIsOpenDeparture, UNCHANGED <<lefts, rejoins, telling>>,
         \A l \in Places : leftAt'[l] # "none" => leftAt[l] # "none"
  PROVE  EntryIsOpenDeparture'
<1> SUFFICES ASSUME NEW l \in Places PROVE Spent(l)' <= Earned(l)'
  BY DEF EntryIsOpenDeparture, Spent, Earned
<1>1. Spent(l) <= Earned(l) BY DEF EntryIsOpenDeparture, Spent, Earned
<1>2. due("left", l)' = due("left", l) /\ due("rejoined", l)' = due("rejoined", l)
  BY DEF due
<1> QED BY <1>1, <1>2, CountTypes DEF Spent, Earned

\* A departure pays for the entry that it makes.
LEMMA LeaveOwes ==
  ASSUME TypeOK, EntryIsOpenDeparture, NEW c \in Clients, NEW g \in Goroutines,
         telling[g] = None, recordLeave(g, c), UNCHANGED <<lefts, rejoins>>
  PROVE  EntryIsOpenDeparture'
<1>1. CASE inSession(c)
  <2>1. Place(c) \in Places BY <1>1, PlaceType
  <2>2. PICK l \in Places : l = Place(c) BY <2>1
  <2>3. leftAt' = [leftAt EXCEPT ![l] = "recent"] /\ owe(g, "left", l)
    BY <1>1, <2>2 DEF recordLeave
  <2> SUFFICES ASSUME NEW m \in Places PROVE Spent(m)' <= Earned(m)'
    BY DEF EntryIsOpenDeparture, Spent, Earned
  <2>4. Spent(m) <= Earned(m) BY DEF EntryIsOpenDeparture, Spent, Earned
  <2>5. /\ due("left", m)' = due("left", m) + (IF m = l THEN 1 ELSE 0)
        /\ due("rejoined", m)' = due("rejoined", m)
    <3>1. "left" \in Kinds /\ "rejoined" \in Kinds BY DEF Kinds
    <3>2. due("left", m)' = due("left", m) + (IF "left" = "left" /\ m = l THEN 1 ELSE 0)
      BY <2>3, <3>1, OweDue
    <3>3. due("rejoined", m)'
             = due("rejoined", m) + (IF "rejoined" = "left" /\ m = l THEN 1 ELSE 0)
      BY <2>3, <3>1, OweDue
    <3> QED BY <3>2, <3>3, CountTypes
  <2>6. CASE m = l
    <3>1. leftAt'[m] = "recent" BY <2>3, <2>6 DEF TypeOK
    <3> QED BY <2>4, <2>5, <2>6, <3>1, CountTypes DEF Spent, Earned
  <2>7. CASE m # l
    <3>1. leftAt'[m] = leftAt[m] BY <2>3, <2>7 DEF TypeOK
    <3> QED BY <2>4, <2>5, <2>7, <3>1, CountTypes DEF Spent, Earned
  <2> QED BY <2>6, <2>7
<1>2. CASE ~inSession(c)
  BY <1>2, FewerOwed DEF recordLeave
<1> QED BY <1>1, <1>2

\* A return uses up the entry that it found.
LEMMA JoinOwes ==
  ASSUME TypeOK, EntryIsOpenDeparture, NEW c \in Clients, NEW s \in Sessions,
         JoinSession(c, s)
  PROVE  EntryIsOpenDeparture'
<1> DEFINE l == <<s, PlayerOf[c]>>
           kept == gcRecentLeft({s} \X Players)
<1>1. l \in Places BY DEF Places
<1>2. kept \in [Places -> {"none", "recent", "expired"}] BY GcType
<1>3. \A m \in Places : kept[m] # "none" => leftAt[m] # "none" BY GcKeeps
<1>4. UNCHANGED <<lefts, rejoins>> BY DEF JoinSession, join, callbacks
<1>5. CASE leftAt[l] = "recent"
  <2>1. leftAt' = [kept EXCEPT ![l] = "none"] /\ owe(c, "rejoined", l)
    BY <1>5 DEF JoinSession, join
  <2>2. telling[c] = None /\ c \in Goroutines
    BY DEF JoinSession, join, reading, Goroutines
  <2> SUFFICES ASSUME NEW m \in Places PROVE Spent(m)' <= Earned(m)'
    BY DEF EntryIsOpenDeparture, Spent, Earned
  <2>3. Spent(m) <= Earned(m) BY DEF EntryIsOpenDeparture, Spent, Earned
  <2>4. /\ due("left", m)' = due("left", m)
        /\ due("rejoined", m)' = due("rejoined", m) + (IF m = l THEN 1 ELSE 0)
    <3>1. "left" \in Kinds /\ "rejoined" \in Kinds BY DEF Kinds
    <3> HIDE DEF l
    <3>2. due("left", m)'
             = due("left", m) + (IF "left" = "rejoined" /\ m = l THEN 1 ELSE 0)
      BY <1>1, <2>1, <2>2, <3>1, OweDue
    <3>3. due("rejoined", m)'
             = due("rejoined", m) + (IF "rejoined" = "rejoined" /\ m = l THEN 1 ELSE 0)
      BY <1>1, <2>1, <2>2, <3>1, OweDue
    <3> QED BY <3>2, <3>3, CountTypes
  <2>5. CASE m = l
    <3>1. leftAt'[m] = "none" /\ leftAt[m] = "recent" BY <1>1, <1>2, <1>5, <2>1, <2>5
    <3> HIDE DEF l
    <3> QED BY <1>4, <2>3, <2>4, <2>5, <3>1, CountTypes DEF Spent, Earned
  <2>6. CASE m # l
    <3>1. leftAt'[m] = kept[m] BY <1>2, <2>1, <2>6
    <3> HIDE DEF l, kept
    <3> QED BY <1>3, <1>4, <2>3, <2>4, <2>6, <3>1, CountTypes DEF Spent, Earned
  <2> QED BY <2>5, <2>6
<1>6. CASE leftAt[l] # "recent"
  <2>1. leftAt' = kept /\ UNCHANGED telling BY <1>6 DEF JoinSession, join
  <2> HIDE DEF kept
  <2> QED BY <1>3, <1>4, <2>1, FewerOwed
<1> QED BY <1>5, <1>6

\* A callback that is issued counts as it did while it was owed.
LEMMA TellKeeps ==
  ASSUME TypeOK, EntryIsOpenDeparture, NEW g \in Goroutines, telling[g] # None,
         tell(g), UNCHANGED leftAt
  PROVE  EntryIsOpenDeparture'
<1>1. PICK kind \in Kinds, l \in Places : telling[g] = <<kind, l>> BY DEF TypeOK
<1>2. notifyPlayer(kind, l) BY <1>1 DEF tell
<1> SUFFICES ASSUME NEW m \in Places PROVE Spent(m)' <= Earned(m)'
  BY DEF EntryIsOpenDeparture, Spent, Earned
<1>3. Spent(m) <= Earned(m) BY DEF EntryIsOpenDeparture, Spent, Earned
<1>4. /\ due("left", m)' + (IF "left" = kind /\ m = l THEN 1 ELSE 0) = due("left", m)
      /\ due("rejoined", m)' + (IF "rejoined" = kind /\ m = l THEN 1 ELSE 0)
            = due("rejoined", m)
  <2>1. "left" \in Kinds /\ "rejoined" \in Kinds BY DEF Kinds
  <2> QED BY <1>1, <2>1, TellDue
<1>5. /\ lefts'[m] = lefts[m] + (IF "left" = kind /\ m = l THEN 1 ELSE 0)
      /\ rejoins'[m] = rejoins[m] + (IF "rejoined" = kind /\ m = l THEN 1 ELSE 0)
  BY <1>2 DEF notifyPlayer, TypeOK
<1>6. due("left", m)' \in Nat /\ due("rejoined", m)' \in Nat
  <2>1. telling' \in [Goroutines -> (Kinds \X Places) \cup {None}] BY TellType
  <2>2. IsFiniteSet(Goroutines) BY FS_AddElement DEF Goroutines
  <2>3. ASSUME NEW k PROVE due(k, m)' \in Nat
    <3> DEFINE E == {h \in Goroutines : telling'[h] = <<k, m>>}
    <3>1. E \subseteq Goroutines OBVIOUS
    <3> HIDE DEF E
    <3>2. Cardinality(E) \in Nat BY <2>2, <3>1, FS_Subset, FS_CardinalityType
    <3> QED BY <3>2 DEF E, due
  <2> QED BY <2>3
<1> QED BY <1>3, <1>4, <1>5, <1>6, CountTypes DEF Spent, Earned

LEMMA OwedStep ==
  TypeOK /\ LoopTells /\ EntryIsOpenDeparture /\ [Next]_vars => EntryIsOpenDeparture'
<1> SUFFICES ASSUME TypeOK, LoopTells, EntryIsOpenDeparture, [Next]_vars
             PROVE  EntryIsOpenDeparture'
  OBVIOUS
<1>1. ASSUME NEW c \in Clients, NEW s \in Sessions, JoinSession(c, s)
      PROVE  EntryIsOpenDeparture'
  BY <1>1, JoinOwes
<1>2. ASSUME NEW c \in Clients, LeaveSession(c) PROVE EntryIsOpenDeparture'
  <2>1. /\ c \in Goroutines /\ telling[c] = None /\ recordLeave(c, c)
        /\ UNCHANGED <<lefts, rejoins>>
    BY <1>2 DEF LeaveSession, reading, callbacks, Goroutines
  <2> QED BY <2>1, LeaveOwes
<1>3. CASE HandleUnregister
  <2>1. Head(unregisterQ) \in Clients
    BY <1>3, QueueType DEF TypeOK, HandleUnregister
  <2>2. PICK c \in Clients : c = Head(unregisterQ) BY <2>1
  <2>3. /\ "run" \in Goroutines /\ telling["run"] = None
        /\ recordLeave("run", c) /\ UNCHANGED <<lefts, rejoins>>
    BY <1>3, <2>2 DEF HandleUnregister, selecting, LoopTells, callbacks, Goroutines
  <2> QED BY <2>3, LeaveOwes
<1>4. ASSUME NEW c \in Clients, Announce(c) PROVE EntryIsOpenDeparture'
  BY <1>4, TellKeeps DEF Announce, Goroutines
<1>5. CASE Unregistered
  <2>1. CASE telling["run"] # None
    BY <1>5, <2>1, TellKeeps DEF Unregistered, Goroutines
  <2>2. CASE telling["run"] = None
    BY <1>5, <2>2, FewerOwed DEF Unregistered, notes, callbacks
  <2> QED BY <2>1, <2>2
<1>6. CASE GcTick
  <2>1. UNCHANGED <<lefts, rejoins, telling>> /\ leftAt' = gcRecentLeft(Places)
    BY <1>6 DEF GcTick, notes, callbacks
  <2>2. \A l \in Places : leftAt'[l] # "none" => leftAt[l] # "none"
    BY <2>1, GcKeeps
  <2> QED BY <2>1, <2>2, FewerOwed
<1>7. ASSUME NEW l \in Places, Expire(l) PROVE EntryIsOpenDeparture'
  <2>1. /\ UNCHANGED <<lefts, rejoins, telling>> /\ leftAt[l] = "recent"
        /\ leftAt' = [leftAt EXCEPT ![l] = "expired"]
    BY <1>7 DEF Expire, notes, callbacks
  <2>2. \A m \in Places : leftAt'[m] # "none" => leftAt[m] # "none"
    BY <2>1 DEF TypeOK
  <2> QED BY <2>1, <2>2, FewerOwed
<1>8. ASSUME UNCHANGED <<leftAt, lefts, rejoins, telling>> PROVE EntryIsOpenDeparture'
  BY <1>8, FewerOwed
<1>9. ASSUME NEW c \in Clients,
             \/ Register(c) \/ ReadEnds(c) \/ ReadPumpExit(c)
             \/ RevokeClose(c) \/ RevokeUnregister(c)
      PROVE  UNCHANGED <<leftAt, lefts, rejoins, telling>>
  BY <1>9 DEF Register, ReadEnds, ReadPumpExit, RevokeClose, RevokeUnregister, notes,
              callbacks
<1>10. ASSUME \/ HandleRegister \/ LoopExit \/ StopBegins \/ StopWipes
              \/ \E p \in Players : RevokeUser(p)
              \/ \E s \in Sessions : RevokeSession(s)
              \/ \E l \in Places : \E kind \in Kinds : Listen(kind, l)
       PROVE  UNCHANGED <<leftAt, lefts, rejoins, telling>>
  BY <1>10 DEF HandleRegister, LoopExit, StopBegins, StopWipes, RevokeUser,
               RevokeSession, choose, Listen, notes, callbacks
<1>11. CASE UNCHANGED vars BY <1>8, <1>11 DEF vars, notes, callbacks
<1> QED BY <1>1, <1>2, <1>3, <1>4, <1>5, <1>6, <1>7, <1>8, <1>9, <1>10, <1>11
     DEF Next, Loop, Connection

\* At first nothing is owed and nothing has left.
LEMMA NothingOwed == Init => LoopTells /\ EntryIsOpenDeparture
<1> SUFFICES ASSUME Init PROVE LoopTells /\ EntryIsOpenDeparture OBVIOUS
<1>1. ASSUME NEW kind \in Kinds, NEW l \in Places PROVE due(kind, l) = 0
  <2>1. <<kind, l>> # None BY DEF Places
  <2>2. {g \in Goroutines : telling[g] = <<kind, l>>} = {} BY <2>1 DEF Init
  <2> QED BY <2>2, FS_EmptySet DEF due
<1>2. "left" \in Kinds /\ "rejoined" \in Kinds BY DEF Kinds
<1>3. ASSUME NEW l \in Places PROVE due("left", l) = 0 /\ due("rejoined", l) = 0
  BY <1>1, <1>2
<1>4. EntryIsOpenDeparture BY <1>3 DEF Init, EntryIsOpenDeparture
<1>5. LoopTells BY DEF Init, LoopTells, Goroutines
<1> QED BY <1>4, <1>5

\* In every reachable state the returns announced do not outnumber the
\* departures that were announced or that some goroutine is about to announce.
THEOREM ReturnsFollowDepartures == Spec => []RejoinedAfterLeft
<1>1. Init => LoopTells /\ EntryIsOpenDeparture BY NothingOwed
<1>2. TypeOK /\ LoopTells /\ [Next]_vars => LoopTells' BY LoopTellsStep
<1>3. TypeOK /\ LoopTells /\ EntryIsOpenDeparture /\ [Next]_vars => EntryIsOpenDeparture'
  BY OwedStep
<1>4. TypeOK /\ EntryIsOpenDeparture => RejoinedAfterLeft
  <2> SUFFICES ASSUME TypeOK, EntryIsOpenDeparture, NEW l \in Places
               PROVE  rejoins[l] <= lefts[l] + due("left", l)
    BY DEF RejoinedAfterLeft
  <2>1. Spent(l) <= Earned(l) BY DEF EntryIsOpenDeparture, Spent, Earned
  <2> QED BY <2>1, CountTypes DEF Spent, Earned
<1> QED BY <1>1, <1>2, <1>3, <1>4, TypeCorrect, PTL DEF Spec

=============================================================================
