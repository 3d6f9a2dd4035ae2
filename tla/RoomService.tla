---------------------------- MODULE RoomService ----------------------------
(***************************************************************************)
(* The waiting room of package internal/domain/room: one row of table      *)
(* rooms, its rows of room_players, the requests that read and change      *)
(* them, and the game session that a successful start leaves running.      *)
(*                                                                         *)
(* A request is a sequence of SQL statements, one step each.  Joining,     *)
(* leaving and starting run in a transaction that begins with SELECT ...   *)
(* FOR UPDATE on the room, which lock stands for; what they write shows at *)
(* their commit.  Setting ready and selecting a character use no           *)
(* transaction and never ask for the lock: their statements see what is    *)
(* committed (READ COMMITTED).  An UPDATE of the room row waits for the    *)
(* lock.  The rows of room_players hold the character and the ready flag;  *)
(* both have their default value for a user who has no row.  Characters    *)
(* are the playable ones of the room's theme.                              *)
(***************************************************************************)
EXTENDS Naturals, FiniteSets

CONSTANTS Users,
          Characters,  \* playable characters of the theme
          MinPlayers,  \* of the theme
          MaxPlayers,  \* of the theme
          Requests,    \* HTTP requests the server handles at a time
          None

ASSUME NoneAssumption == None \notin Users \cup Characters \cup Requests
ASSUME UsersAssumption == IsFiniteSet(Users)
ASSUME ThemeAssumption == /\ MinPlayers \in Nat \ {0}
                          /\ MaxPlayers \in Nat
                          /\ MinPlayers <= MaxPlayers

VARIABLES status,      \* rooms.status, "none" before the room is created
          host,        \* rooms.host_id
          maxPlayers,  \* rooms.max_players
          players,     \* users with a row in room_players
          character,   \* room_players.character_id
          isReady,     \* room_players.is_ready
          lock,        \* the request that holds the row lock of the room
          call,        \* where each request is
          gate,        \* the characters read by the start that holds the lock
          running,     \* the session of the room runs
          cast         \* the characters of the last session that was started

rows == <<players, character, isReady>>
room == <<status, host, maxPlayers>>
game == <<running, cast>>
vars == <<room, rows, lock, call, gate, game>>

Waiting == {"joinLock", "leaveLock", "startLock", "closeWrite"}
Holding == {"joinRead", "joinWrite", "leaveRead", "leaveWrite",
            "startRead", "startGame", "startCommit"}
Free    == {"readyRoom", "readyPlayers", "readyWrite",
            "pickRoom", "pickPlayers", "pickWrite"}
Steps   == {"idle"} \cup Waiting \cup Holding \cup Free

Picks   == [Users -> Characters \cup {None}]
Nobody  == [u \in Users |-> None]
NoCall  == [at |-> "idle", user |-> None, char |-> None]
Roster(p) == {u \in Users : p[u] # None}

TypeOK ==
  /\ status \in {"none", "WAITING", "PLAYING", "CLOSED"}
  /\ host \in Users \cup {None}
  /\ maxPlayers \in Nat
  /\ players \in SUBSET Users
  /\ character \in Picks
  /\ isReady \in [Users -> BOOLEAN]
  /\ \A u \in Users \ players : character[u] = None /\ ~isReady[u]
  /\ lock \in Requests \cup {None}
  /\ call \in [Requests -> [at : Steps, user : Users \cup {None},
                            char : Characters \cup {None}]]
  /\ gate \in Picks
  /\ running \in BOOLEAN
  /\ cast \in Picks

Init ==
  /\ status = "none"
  /\ host = None
  /\ maxPlayers = 0
  /\ players = {}
  /\ character = Nobody
  /\ isReady = [u \in Users |-> FALSE]
  /\ lock = None
  /\ call = [r \in Requests |-> NoCall]
  /\ gate = Nobody
  /\ running = FALSE
  /\ cast = Nobody

-----------------------------------------------------------------------------
(***************************************************************************)
(* The transaction of CreateRoom inserts the room and the row of its host; *)
(* nobody knows the room before it commits.                                *)
(***************************************************************************)
CreateRoom(u) ==
  /\ status = "none"
  /\ status' = "WAITING"
  /\ host' = u
  /\ maxPlayers' \in MinPlayers .. MaxPlayers
  /\ players' = {u}
  /\ UNCHANGED <<character, isReady, lock, call, gate, game>>

(***************************************************************************)
(* A request arrives, goes on to its next statement, is answered (which    *)
(* ends its transaction, if it has one), or is answered with an error.     *)
(***************************************************************************)
Arrive(r, u) ==
  /\ status # "none" /\ call[r] = NoCall
  /\ \/ \E step \in Waiting \cup {"readyRoom"} :
          call' = [call EXCEPT ![r] = [at |-> step, user |-> u, char |-> None]]
     \/ \E c \in Characters :
          call' = [call EXCEPT ![r] = [at |-> "pickRoom", user |-> u, char |-> c]]
  /\ UNCHANGED <<room, rows, lock, gate, game>>

Goto(r, step) == call' = [call EXCEPT ![r].at = step]

Answer(r) == /\ call' = [call EXCEPT ![r] = NoCall]
             /\ lock' = IF lock = r THEN None ELSE lock
             /\ gate' = IF lock = r THEN Nobody ELSE gate

AnswerHoldingLock(r) == call' = [call EXCEPT ![r] = NoCall] /\ UNCHANGED <<lock, gate>>

Refuse(r) == Answer(r) /\ UNCHANGED <<room, rows, game>>

\* SELECT ... FOR UPDATE, and what is checked of the room it returns.
LockRoom(r, check, next) ==
  /\ lock = None
  /\ \/ check /\ Goto(r, next) /\ lock' = r /\ UNCHANGED <<room, rows, gate, game>>
     \/ ~check /\ Refuse(r)

ReadRoomUnlocked(r, check, next) ==
  \/ check /\ Goto(r, next) /\ UNCHANGED <<room, rows, lock, gate, game>>
  \/ ~check /\ Refuse(r)

IsMember(r) == call[r].user \in players
IsWaiting == status = "WAITING"

-----------------------------------------------------------------------------
\* Mutant: the room is read without FOR UPDATE.
JoinLockUnlocked(r) == /\ call[r].at = "joinLock"
                       /\ ReadRoomUnlocked(r, IsWaiting, "joinRead")

JoinLock(r) == /\ call[r].at = "joinLock"
               /\ LockRoom(r, IsWaiting, "joinRead")

\* Mutant: an early return leaves the transaction open.
JoinReadKeepsLock(r) ==
  /\ call[r].at = "joinRead"
  /\ IF Cardinality(players) < maxPlayers /\ ~IsMember(r)
     THEN Goto(r, "joinWrite") /\ UNCHANGED <<room, rows, lock, gate, game>>
     ELSE AnswerHoldingLock(r) /\ UNCHANGED <<room, rows, game>>

JoinRead(r) ==
  /\ call[r].at = "joinRead"
  /\ IF Cardinality(players) < maxPlayers /\ ~IsMember(r)
     THEN Goto(r, "joinWrite") /\ UNCHANGED <<room, rows, lock, gate, game>>
     ELSE Refuse(r)

JoinWrite(r) == /\ call[r].at = "joinWrite"
                /\ players' = players \cup {call[r].user}
                /\ Answer(r)
                /\ UNCHANGED <<room, character, isReady, game>>

-----------------------------------------------------------------------------
LeaveLock(r) == /\ call[r].at = "leaveLock"
                /\ LockRoom(r, status # "none", "leaveRead")

LeaveRead(r) ==
  /\ call[r].at = "leaveRead"
  /\ IF IsMember(r)
     THEN Goto(r, "leaveWrite") /\ UNCHANGED <<room, rows, lock, gate, game>>
     ELSE Refuse(r)

\* The host's own row stays when the room is closed.
LeaveWrite(r) ==
  /\ call[r].at = "leaveWrite"
  /\ \/ /\ call[r].user = host
        /\ status' = "CLOSED"
        /\ UNCHANGED rows
     \/ /\ call[r].user # host
        /\ players' = players \ {call[r].user}
        /\ character' = [character EXCEPT ![call[r].user] = None]
        /\ isReady' = [isReady EXCEPT ![call[r].user] = FALSE]
        /\ UNCHANGED status
  /\ Answer(r)
  /\ UNCHANGED <<host, maxPlayers, game>>

-----------------------------------------------------------------------------
(***************************************************************************)
(* SetReady: two reads and an UPDATE by key, which finds no row if the     *)
(* user has left meanwhile.                                                *)
(***************************************************************************)
ReadyRoom(r) == /\ call[r].at = "readyRoom"
                /\ ReadRoomUnlocked(r, IsWaiting, "readyPlayers")

ReadyPlayers(r) == /\ call[r].at = "readyPlayers"
                   /\ ReadRoomUnlocked(r, IsMember(r), "readyWrite")

\* Mutant: the flag of a user without a row is written.
ReadyUpsert(r) ==
  /\ call[r].at = "readyWrite"
  /\ \E ready \in BOOLEAN : isReady' = [isReady EXCEPT ![call[r].user] = ready]
  /\ Answer(r)
  /\ UNCHANGED <<room, players, character, game>>

ReadyWrite(r) ==
  /\ call[r].at = "readyWrite"
  /\ \E ready \in BOOLEAN :
       isReady' = [isReady EXCEPT ![call[r].user] = IsMember(r) /\ ready]
  /\ Answer(r)
  /\ UNCHANGED <<room, players, character, game>>

(***************************************************************************)
(* SelectCharacter: two reads and an UPDATE of the row that joins the room *)
(* to require its status, and which the unique index refuses when another  *)
(* row of the room has the character.                                      *)
(***************************************************************************)
IsTaken(r) == \E u \in players \ {call[r].user} : character[u] = call[r].char

PickRoom(r) == /\ call[r].at = "pickRoom"
               /\ ReadRoomUnlocked(r, IsWaiting, "pickPlayers")

PickPlayers(r) == /\ call[r].at = "pickPlayers"
                  /\ ReadRoomUnlocked(r, IsMember(r) /\ ~IsTaken(r), "pickWrite")

\* Mutant: there is no unique index.
PickUnindexed(r) ==
  /\ call[r].at = "pickWrite"
  /\ IF IsWaiting /\ IsMember(r)
     THEN /\ character' = [character EXCEPT ![call[r].user] = call[r].char]
          /\ Answer(r)
          /\ UNCHANGED <<room, players, isReady, game>>
     ELSE Refuse(r)

PickWrite(r) ==
  /\ call[r].at = "pickWrite"
  /\ IF IsWaiting /\ IsMember(r) /\ ~IsTaken(r)
     THEN /\ character' = [character EXCEPT ![call[r].user] = call[r].char]
          /\ Answer(r)
          /\ UNCHANGED <<room, players, isReady, game>>
     ELSE Refuse(r)

-----------------------------------------------------------------------------
(***************************************************************************)
(* StartRoom.  The gate is evaluated on the rows one statement returns;    *)
(* the session is started while the transaction that marks the room as     *)
(* PLAYING is open.                                                        *)
(***************************************************************************)
\* Mutant: the room is read without FOR UPDATE.
StartLockUnlocked(r) ==
  /\ call[r].at = "startLock"
  /\ ReadRoomUnlocked(r, IsWaiting /\ call[r].user = host, "startRead")

StartLock(r) ==
  /\ call[r].at = "startLock"
  /\ LockRoom(r, IsWaiting /\ call[r].user = host, "startRead")

StartRefused(r) == call[r].at \in {"startRead", "startGame"} /\ Refuse(r)

validateStartGate == /\ Cardinality(players) >= MinPlayers
                     /\ \A u \in players : character[u] # None
                     /\ \A u \in players \ {host} : isReady[u]

\* Mutant: the gate leaves the host out.
StartReadHostless(r) ==
  /\ call[r].at = "startRead"
  /\ Cardinality(players) >= MinPlayers
  /\ \A u \in players \ {host} : character[u] # None /\ isReady[u]
  /\ gate' = character
  /\ Goto(r, "startGame")
  /\ UNCHANGED <<room, rows, lock, game>>

StartRead(r) ==
  /\ call[r].at = "startRead" /\ validateStartGate
  /\ gate' = character
  /\ Goto(r, "startGame")
  /\ UNCHANGED <<room, rows, lock, game>>

\* GameStarter.Start; there is at most one session with the id of the room.
StartGame(r) ==
  /\ call[r].at = "startGame" /\ ~running
  /\ running' = TRUE
  /\ cast' = gate
  /\ Goto(r, "startCommit")
  /\ UNCHANGED <<room, rows, lock, gate>>

StartCommit(r) == /\ call[r].at = "startCommit"
                  /\ status' = "PLAYING"
                  /\ Answer(r)
                  /\ UNCHANGED <<host, maxPlayers, rows, game>>

-----------------------------------------------------------------------------
(***************************************************************************)
(* ForceCloseRoom of package admin, with no transaction.                   *)
(***************************************************************************)
\* Mutant: the status is written past the row lock.
CloseWriteAnytime(r) == /\ call[r].at = "closeWrite"
                        /\ status' = "CLOSED"
                        /\ Answer(r)
                        /\ UNCHANGED <<host, maxPlayers, rows, game>>

CloseWrite(r) == /\ call[r].at = "closeWrite" /\ lock = None
                 /\ status' = "CLOSED"
                 /\ Answer(r)
                 /\ UNCHANGED <<host, maxPlayers, rows, game>>

\* A statement, the commit or the start of the session fails.
QueryFails(r) == call[r].at # "idle" /\ Refuse(r)

SessionEnds == /\ running
               /\ running' = FALSE
               /\ UNCHANGED <<room, rows, lock, call, gate, cast>>

\* The server process restarts: transactions are rolled back, sessions gone.
Restart == /\ call' = [r \in Requests |-> NoCall]
           /\ lock' = None
           /\ gate' = Nobody
           /\ running' = FALSE
           /\ UNCHANGED <<room, rows, cast>>

-----------------------------------------------------------------------------
JoinStep(r)  == JoinLock(r) \/ JoinRead(r) \/ JoinWrite(r)
LeaveStep(r) == LeaveLock(r) \/ LeaveRead(r) \/ LeaveWrite(r)
ReadyStep(r) == ReadyRoom(r) \/ ReadyPlayers(r) \/ ReadyWrite(r)
PickStep(r)  == PickRoom(r) \/ PickPlayers(r) \/ PickWrite(r)
StartStep(r) == \/ StartLock(r) \/ StartRead(r) \/ StartGame(r)
                \/ StartCommit(r) \/ StartRefused(r)

RequestStep(r) == \/ JoinStep(r) \/ LeaveStep(r) \/ ReadyStep(r)
                  \/ PickStep(r) \/ StartStep(r) \/ CloseWrite(r)

Next == \/ \E u \in Users : CreateRoom(u)
        \/ \E r \in Requests : \/ \E u \in Users : Arrive(r, u)
                               \/ RequestStep(r)
                               \/ QueryFails(r)
        \/ SessionEnds
        \/ Restart

Spec == Init /\ [][Next]_vars

-----------------------------------------------------------------------------
\* A room never has more players than it was created for, whoever joins at
\* the same time (JoinRoom counts the rows under the row lock).
WithinCapacity == Cardinality(players) <= maxPlayers

\* No two players of a room have the same character, however their requests
\* to select one interleave (SelectCharacter checks rows that it does not lock).
CharactersDistinct ==
  \A u, v \in players : character[u] = character[v] /\ character[u] # None => u = v

\* A session that runs has enough players, the host among them, and each
\* plays a character of their own (validateStartGateRows, and the rows that
\* buildGameStartPlayers hands to the session).
CastIsComplete ==
  running => /\ Cardinality(Roster(cast)) >= MinPlayers
             /\ host \in Roster(cast)
             /\ \A u, v \in Roster(cast) : cast[u] = cast[v] => u = v

\* The players of a room marked as PLAYING are players of the session that
\* was started for it: nobody slips in between the gate and the commit, or
\* later (the row lock of StartRoom and JoinRoom).
NoLateComers == status = "PLAYING" => players \subseteq Roster(cast)

\* A room closed by its host or by an administrator stays closed: no start
\* that was under way reopens it (UpdateRoomStatus waits for the row lock).
ClosedIsFinal == [][status = "CLOSED" => status' = "CLOSED"]_status

\* Whoever holds the row lock of the room is a request in its transaction, and
\* nobody else is in one: each early return gives the lock back and none keeps
\* the others waiting for ever (defer tx.Rollback of JoinRoom, LeaveRoom and
\* StartRoom).
LockIsOwned == \A r \in Requests : call[r].at \in Holding <=> lock = r

-----------------------------------------------------------------------------
\* While the game is on, the characters of the room are the characters of the
\* session: a selection that comes after the start is refused (the case "room
\* starts before final update" of TestSelectCharacterServiceBranches).
SelectionsAreFrozen ==
  status = "PLAYING" /\ running => \A u \in players : character[u] = cast[u]

\* Ready flags change before the game only (SetReady "updates a participant's
\* pre-game ready state").
ReadyIsPregame ==
  [][status = "PLAYING" =>
       \A u \in players \cap players' : isReady'[u] = isReady[u]]_vars

\* The room of a session that was started does not stay WAITING (the case
\* "gate pass calls game starter with roster" of TestStartRoomServiceGateWiring).
StartedIsMarked == running /\ lock = None => status # "WAITING"
=============================================================================
