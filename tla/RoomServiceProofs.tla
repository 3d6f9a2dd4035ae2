------------------------- MODULE RoomServiceProofs -------------------------
(***************************************************************************)
(* Proofs about RoomService, for every number of users, characters and     *)
(* concurrent requests and every theme.                                    *)
(*                                                                         *)
(* The inductive invariant says what the row lock is worth: only its       *)
(* holder is inside a transaction (LockIsOwned), what the holder has read of    *)
(* the room's status and of its players is still so (HeldOK), and what a   *)
(* start has read of the characters makes a complete cast (GateOK).        *)
(***************************************************************************)
EXTENDS RoomService, FiniteSetTheorems, TLAPS

CallOK == \A r \in Requests :
            /\ call[r].at # "idle" => call[r].user \in Users /\ status # "none"
            /\ call[r].at \in {"pickRoom", "pickPlayers", "pickWrite"}
                 => call[r].char \in Characters

HostOK == IF status = "none" THEN players = {} /\ ~running ELSE host \in players

HeldOK == \A r \in Requests :
            /\ call[r].at \in {"joinRead", "joinWrite", "startRead", "startGame",
                               "startCommit"} => status = "WAITING"
            /\ call[r].at = "joinWrite" => Cardinality(players) < maxPlayers

Complete(p) == /\ Cardinality(Roster(p)) >= MinPlayers
               /\ host \in Roster(p)
               /\ \A u, v \in Roster(p) : p[u] = p[v] => u = v

GateOK == \A r \in Requests :
            /\ call[r].at = "startGame" => Complete(gate) /\ players \subseteq Roster(gate)
            /\ call[r].at = "startCommit" => players \subseteq Roster(cast)

Data == /\ HostOK /\ WithinCapacity /\ CharactersDistinct
        /\ CastIsComplete /\ NoLateComers

IInv == TypeOK /\ CallOK /\ LockIsOwned /\ HeldOK /\ GateOK /\ Data

-----------------------------------------------------------------------------
(* Requests: what a step of one does to where all of them are *)

LEMMA NoCallType == NoCall \in [at : Steps, user : Users \cup {None},
                               char : Characters \cup {None}]
BY DEF NoCall, Steps

LEMMA NobodyType == Nobody \in Picks
BY DEF Nobody, Picks

\* An answered request is idle, the others are where they were.
LEMMA AnswerCalls ==
  ASSUME TypeOK, NEW r \in Requests, call' = [call EXCEPT ![r] = NoCall]
  PROVE  /\ call' \in [Requests -> [at : Steps, user : Users \cup {None},
                                   char : Characters \cup {None}]]
         /\ \A q \in Requests : IF q = r THEN call'[q].at = "idle"
                                         ELSE call'[q] = call[q]
<1>1. call' \in [Requests -> [at : Steps, user : Users \cup {None},
                              char : Characters \cup {None}]]
  BY NoCallType DEF TypeOK
<1>2. ASSUME NEW q \in Requests
      PROVE  IF q = r THEN call'[q].at = "idle" ELSE call'[q] = call[q]
  BY DEF TypeOK, NoCall
<1> QED BY <1>1, <1>2

\* A request that goes on keeps its user and its character.
LEMMA GotoCalls ==
  ASSUME TypeOK, NEW r \in Requests, NEW next \in Steps, Goto(r, next)
  PROVE  /\ call' \in [Requests -> [at : Steps, user : Users \cup {None},
                                   char : Characters \cup {None}]]
         /\ \A q \in Requests :
              IF q = r THEN /\ call'[q].at = next /\ call'[q].user = call[q].user
                            /\ call'[q].char = call[q].char
                       ELSE call'[q] = call[q]
<1>1. call' = [call EXCEPT ![r].at = next] BY DEF Goto
<1>2. call[r] \in [at : Steps, user : Users \cup {None}, char : Characters \cup {None}]
  BY DEF TypeOK
<1>3. [call[r] EXCEPT !.at = next] \in [at : Steps, user : Users \cup {None},
                                        char : Characters \cup {None}]
  BY <1>2
<1>4. call' \in [Requests -> [at : Steps, user : Users \cup {None},
                              char : Characters \cup {None}]]
  BY <1>1, <1>3 DEF TypeOK
<1>5. ASSUME NEW q \in Requests
      PROVE  IF q = r THEN /\ call'[q].at = next /\ call'[q].user = call[q].user
                           /\ call'[q].char = call[q].char
                      ELSE call'[q] = call[q]
  BY <1>1, <1>2 DEF TypeOK
<1> QED BY <1>4, <1>5

\* An answer leaves the lock and the gate to the transaction that goes on.
LEMMA AnswerKeeps ==
  ASSUME IInv, NEW r \in Requests, Answer(r)
  PROVE  /\ call' \in [Requests -> [at : Steps, user : Users \cup {None},
                                   char : Characters \cup {None}]]
         /\ lock' \in Requests \cup {None} /\ gate' \in Picks
         /\ LockIsOwned'
         /\ \A q \in Requests : IF q = r THEN call'[q].at = "idle"
                                         ELSE call'[q] = call[q]
         /\ \A q \in Requests : call'[q].at \in Holding =>
              lock = q /\ q # r /\ gate' = gate
<1>1. /\ call' \in [Requests -> [at : Steps, user : Users \cup {None},
                                 char : Characters \cup {None}]]
      /\ \A q \in Requests : IF q = r THEN call'[q].at = "idle"
                                      ELSE call'[q] = call[q]
  BY AnswerCalls DEF IInv, Answer
<1>2. lock' \in Requests \cup {None} /\ gate' \in Picks
  BY NobodyType DEF IInv, TypeOK, Answer
<1>3. "idle" \notin Holding BY DEF Holding
<1>4. LockIsOwned'
  <2> SUFFICES ASSUME NEW q \in Requests PROVE call'[q].at \in Holding <=> lock' = q
    BY DEF LockIsOwned
  <2> QED BY <1>1, <1>3, NoneAssumption DEF IInv, LockIsOwned, Answer
<1>5. \A q \in Requests : call'[q].at \in Holding => lock = q /\ q # r /\ gate' = gate
  BY <1>1, <1>3 DEF IInv, LockIsOwned, Answer
<1> QED BY <1>1, <1>2, <1>4, <1>5

\* What is known of the other requests survives the answer to one, as long as
\* the room is not changed for the holder of the lock.
LEMMA AnswerControl ==
  ASSUME IInv, NEW r \in Requests, Answer(r), status' # "none" \/ UNCHANGED status,
         UNCHANGED maxPlayers, UNCHANGED host, UNCHANGED cast,
         lock = r \/ lock = None \/ (UNCHANGED status /\ UNCHANGED players)
  PROVE  CallOK' /\ LockIsOwned' /\ HeldOK' /\ GateOK'
<1>1. /\ LockIsOwned'
      /\ \A q \in Requests : IF q = r THEN call'[q].at = "idle" ELSE call'[q] = call[q]
      /\ \A q \in Requests : call'[q].at \in Holding => lock = q /\ q # r /\ gate' = gate
  BY AnswerKeeps
<1>2. CallOK'
  <2> SUFFICES ASSUME NEW q \in Requests
               PROVE  /\ call'[q].at # "idle" => call'[q].user \in Users /\ status' # "none"
                      /\ call'[q].at \in {"pickRoom", "pickPlayers", "pickWrite"}
                           => call'[q].char \in Characters
    BY DEF CallOK
  <2> QED BY <1>1 DEF IInv, CallOK
<1>3. ASSUME NEW q \in Requests, call'[q].at \in Holding
      PROVE  call'[q] = call[q] /\ gate' = gate /\ UNCHANGED status /\ UNCHANGED players
  BY <1>1, <1>3, NoneAssumption
<1>4. HeldOK'
  <2> SUFFICES ASSUME NEW q \in Requests
               PROVE  /\ call'[q].at \in {"joinRead", "joinWrite", "startRead",
                           "startGame", "startCommit"} => status' = "WAITING"
                      /\ call'[q].at = "joinWrite" => Cardinality(players') < maxPlayers'
    BY DEF HeldOK
  <2>1. CASE call'[q].at \in Holding
    BY <1>3, <2>1 DEF IInv, HeldOK
  <2>2. CASE call'[q].at \notin Holding
    BY <2>2 DEF Holding
  <2> QED BY <2>1, <2>2
<1>5. GateOK'
  <2> SUFFICES ASSUME NEW q \in Requests
               PROVE  /\ call'[q].at = "startGame" =>
                            Complete(gate') /\ players' \subseteq Roster(gate')
                      /\ call'[q].at = "startCommit" => players' \subseteq Roster(cast')
    BY DEF GateOK, Complete
  <2>1. CASE call'[q].at \in Holding
    <3>1. call'[q] = call[q] /\ gate' = gate /\ UNCHANGED players BY <1>3, <2>1
    <3> QED BY <3>1 DEF IInv, GateOK
  <2>2. CASE call'[q].at \notin Holding
    BY <2>2 DEF Holding
  <2> QED BY <2>1, <2>2
<1> QED BY <1>1, <1>2, <1>4, <1>5

-----------------------------------------------------------------------------
(* Steps that change neither the room nor its players nor the game *)

LEMMA SameData ==
  ASSUME IInv, UNCHANGED <<room, rows, game>>
  PROVE  Data'
BY DEF IInv, Data, room, rows, game, HostOK, WithinCapacity, CharactersDistinct,
       CastIsComplete, NoLateComers, Roster

LEMMA RefuseInv ==
  ASSUME IInv, NEW r \in Requests, Refuse(r)
  PROVE  IInv'
<1>1. Answer(r) /\ UNCHANGED <<room, rows, game>> BY DEF Refuse
<1>2. TypeOK'
  <2>1. /\ call' \in [Requests -> [at : Steps, user : Users \cup {None},
                                   char : Characters \cup {None}]]
        /\ lock' \in Requests \cup {None} /\ gate' \in Picks
    BY <1>1, AnswerKeeps
  <2> QED BY <1>1, <2>1 DEF IInv, TypeOK, room, rows, game
<1>3. CallOK' /\ LockIsOwned' /\ HeldOK' /\ GateOK'
  BY <1>1, AnswerControl DEF room, rows, game
<1>4. Data' BY <1>1, SameData
<1> QED BY <1>2, <1>3, <1>4 DEF IInv

\* A request takes the lock, or goes on without having or getting it.
Acquire(r, next) == /\ next \in {"joinRead", "leaveRead", "startRead"}
                    /\ next # "leaveRead" => status = "WAITING"
                    /\ lock = None /\ lock' = r
                    /\ Goto(r, next)
                    /\ UNCHANGED <<room, rows, gate, game>>

FreeMove(r, next) == /\ call[r].at \in Free /\ next \in Free
                     /\ next \in {"pickPlayers", "pickWrite"} =>
                          call[r].at \in {"pickRoom", "pickPlayers"}
                     /\ next # "pickRoom"
                     /\ Goto(r, next)
                     /\ UNCHANGED <<room, rows, lock, gate, game>>

HeldMove(r, next) == /\ \/ /\ call[r].at = "joinRead" /\ next = "joinWrite"
                           /\ Cardinality(players) < maxPlayers
                        \/ call[r].at = "leaveRead" /\ next = "leaveWrite"
                     /\ Goto(r, next)
                     /\ UNCHANGED <<room, rows, lock, gate, game>>

LEMMA MoveInv ==
  ASSUME IInv, NEW r \in Requests, NEW next \in Steps, call[r].at # "idle",
         Acquire(r, next) \/ FreeMove(r, next) \/ HeldMove(r, next)
  PROVE  IInv'
<1>1. Goto(r, next) /\ UNCHANGED <<room, rows, gate, game>>
  BY DEF Acquire, FreeMove, HeldMove
<1>2. /\ call' \in [Requests -> [at : Steps, user : Users \cup {None},
                                 char : Characters \cup {None}]]
      /\ \A q \in Requests :
           IF q = r THEN /\ call'[q].at = next /\ call'[q].user = call[q].user
                         /\ call'[q].char = call[q].char
                    ELSE call'[q] = call[q]
  BY <1>1, GotoCalls DEF IInv
<1>3. lock' \in Requests \cup {None} BY DEF IInv, TypeOK, Acquire, FreeMove, HeldMove
<1>4. TypeOK' BY <1>1, <1>2, <1>3 DEF IInv, TypeOK, room, rows, game
<1>5. CallOK'
  <2> SUFFICES ASSUME NEW q \in Requests
               PROVE  /\ call'[q].at # "idle" => call'[q].user \in Users /\ status' # "none"
                      /\ call'[q].at \in {"pickRoom", "pickPlayers", "pickWrite"}
                           => call'[q].char \in Characters
    BY DEF CallOK
  <2>1. CASE q # r BY <1>1, <1>2, <2>1 DEF IInv, CallOK, room
  <2>2. CASE q = r
    BY <1>1, <1>2, <2>2 DEF IInv, CallOK, room, Acquire, FreeMove, HeldMove
  <2> QED BY <2>1, <2>2
<1>6. LockIsOwned'
  <2> SUFFICES ASSUME NEW q \in Requests PROVE call'[q].at \in Holding <=> lock' = q
    BY DEF LockIsOwned
  <2>1. CASE Acquire(r, next)
    BY <1>2, <2>1, NoneAssumption DEF IInv, LockIsOwned, Acquire, Holding
  <2>2. CASE FreeMove(r, next)
    BY <1>2, <2>2 DEF IInv, LockIsOwned, FreeMove, Holding, Free
  <2>3. CASE HeldMove(r, next)
    BY <1>2, <2>3 DEF IInv, LockIsOwned, HeldMove, Holding
  <2> QED BY <2>1, <2>2, <2>3
<1>7. HeldOK'
  <2> SUFFICES ASSUME NEW q \in Requests
               PROVE  /\ call'[q].at \in {"joinRead", "joinWrite", "startRead",
                           "startGame", "startCommit"} => status' = "WAITING"
                      /\ call'[q].at = "joinWrite" => Cardinality(players') < maxPlayers'
    BY DEF HeldOK
  <2>1. CASE q # r BY <1>1, <1>2, <2>1 DEF IInv, HeldOK, room, rows
  <2>2. CASE q = r
    BY <1>1, <1>2, <2>2 DEF IInv, HeldOK, room, rows, Acquire, FreeMove, HeldMove, Free
  <2> QED BY <2>1, <2>2
<1>8. GateOK'
  <2> SUFFICES ASSUME NEW q \in Requests
               PROVE  /\ call'[q].at = "startGame" =>
                            Complete(gate)' /\ players' \subseteq Roster(gate')
                      /\ call'[q].at = "startCommit" => players' \subseteq Roster(cast')
    BY DEF GateOK
  <2>1. CASE q # r BY <1>1, <1>2, <2>1 DEF IInv, GateOK, room, rows, game, Complete, Roster
  <2>2. CASE q = r BY <1>2, <2>2 DEF Acquire, FreeMove, HeldMove, Free
  <2> QED BY <2>1, <2>2
<1>9. Data' BY <1>1, SameData
<1> QED BY <1>4, <1>5, <1>6, <1>7, <1>8, <1>9 DEF IInv

LEMMA ArriveInv ==
  ASSUME IInv, NEW r \in Requests, NEW u \in Users, Arrive(r, u)
  PROVE  IInv'
<1> DEFINE New == [at : Waiting \cup {"readyRoom", "pickRoom"}, user : Users,
                   char : Characters \cup {None}]
<1>1. PICK new \in New : /\ call' = [call EXCEPT ![r] = new]
                         /\ new.at = "pickRoom" => new.char \in Characters
  <2>1. ASSUME NEW step \in Waiting \cup {"readyRoom"},
               call' = [call EXCEPT ![r] = [at |-> step, user |-> u, char |-> None]]
        PROVE  \E new \in New : /\ call' = [call EXCEPT ![r] = new]
                                /\ new.at = "pickRoom" => new.char \in Characters
    <3>1. [at |-> step, user |-> u, char |-> None] \in New OBVIOUS
    <3>2. step # "pickRoom" BY DEF Waiting
    <3> QED BY <2>1, <3>1, <3>2
  <2>2. ASSUME NEW c \in Characters,
               call' = [call EXCEPT ![r] = [at |-> "pickRoom", user |-> u, char |-> c]]
        PROVE  \E new \in New : /\ call' = [call EXCEPT ![r] = new]
                                /\ new.at = "pickRoom" => new.char \in Characters
    <3>1. [at |-> "pickRoom", user |-> u, char |-> c] \in New OBVIOUS
    <3> QED BY <2>2, <3>1
  <2> QED BY <2>1, <2>2 DEF Arrive
<1>2. status # "none" /\ call[r].at = "idle" /\ UNCHANGED <<room, rows, lock, gate, game>>
  BY DEF Arrive, NoCall
<1>3. new \in [at : Steps, user : Users \cup {None}, char : Characters \cup {None}]
  BY <1>1 DEF Steps, Free
<1>4. /\ call' \in [Requests -> [at : Steps, user : Users \cup {None},
                                 char : Characters \cup {None}]]
      /\ \A q \in Requests : IF q = r THEN call'[q] = new ELSE call'[q] = call[q]
  BY <1>1, <1>3 DEF IInv, TypeOK
<1>5. new.at \notin Holding /\ new.at \notin {"pickPlayers", "pickWrite"}
  BY <1>1 DEF Holding, Waiting
<1>6. TypeOK' BY <1>2, <1>4 DEF IInv, TypeOK, room, rows, game
<1>7. CallOK'
  BY <1>1, <1>2, <1>4, <1>5 DEF IInv, CallOK, room
<1>8. LockIsOwned'
  BY <1>2, <1>4, <1>5 DEF IInv, LockIsOwned, Holding
<1>9. HeldOK'
  BY <1>2, <1>4, <1>5 DEF IInv, HeldOK, room, rows, Holding
<1>10. GateOK'
  <2> SUFFICES ASSUME NEW q \in Requests
               PROVE  /\ call'[q].at = "startGame" =>
                            Complete(gate)' /\ players' \subseteq Roster(gate')
                      /\ call'[q].at = "startCommit" => players' \subseteq Roster(cast')
    BY DEF GateOK
  <2>1. CASE q # r BY <1>2, <1>4, <2>1 DEF IInv, GateOK, room, rows, game, Complete, Roster
  <2>2. CASE q = r BY <1>4, <1>5, <2>2 DEF Holding
  <2> QED BY <2>1, <2>2
<1>11. Data' BY <1>2, SameData
<1> QED BY <1>6, <1>7, <1>8, <1>9, <1>10, <1>11 DEF IInv

-----------------------------------------------------------------------------
(* Steps that change the room, its players or the game *)

LEMMA CreateInv ==
  ASSUME IInv, NEW u \in Users, CreateRoom(u)
  PROVE  IInv'
<1>1. TypeOK'
  <2>1. maxPlayers' \in Nat BY ThemeAssumption DEF CreateRoom
  <2>2. players = {} BY DEF IInv, Data, HostOK, CreateRoom
  <2> QED BY <2>1, <2>2 DEF IInv, TypeOK, CreateRoom, game
<1>2. \A q \in Requests : call[q].at = "idle" BY DEF IInv, CallOK, CreateRoom
<1>3. CallOK' BY <1>2 DEF CallOK, CreateRoom
<1>4. LockIsOwned' BY DEF IInv, LockIsOwned, CreateRoom
<1>5. HeldOK' BY <1>2 DEF HeldOK, CreateRoom
<1>6. GateOK' BY <1>2 DEF GateOK, CreateRoom
<1>7. Data'
  <2>1. HostOK' BY DEF HostOK, CreateRoom
  <2>2. WithinCapacity'
    <3>1. Cardinality({u}) = 1 BY FS_Singleton
    <3> QED BY <3>1, ThemeAssumption DEF WithinCapacity, CreateRoom
  <2>3. CharactersDistinct' BY DEF CharactersDistinct, CreateRoom
  <2>4. CastIsComplete' BY DEF IInv, Data, HostOK, CastIsComplete, CreateRoom, game
  <2>5. NoLateComers' BY DEF NoLateComers, CreateRoom
  <2> QED BY <2>1, <2>2, <2>3, <2>4, <2>5 DEF Data
<1> QED BY <1>1, <1>3, <1>4, <1>5, <1>6, <1>7 DEF IInv

LEMMA JoinInv ==
  ASSUME IInv, NEW r \in Requests, JoinWrite(r)
  PROVE  IInv'
<1> DEFINE u == call[r].user
<1>1. /\ Answer(r) /\ players' = players \cup {u}
      /\ UNCHANGED <<room, character, isReady, game>>
  BY DEF JoinWrite
<1>2. u \in Users /\ lock = r /\ status = "WAITING" /\ Cardinality(players) < maxPlayers
  BY DEF IInv, CallOK, LockIsOwned, HeldOK, JoinWrite, Holding
<1> HIDE DEF u
<1>3. TypeOK' BY <1>1, <1>2, AnswerKeeps DEF IInv, TypeOK, room, game
<1>4. CallOK' /\ LockIsOwned' /\ HeldOK' /\ GateOK'
  BY <1>1, <1>2, AnswerControl DEF room, game
<1>5. Data'
  <2>1. HostOK' BY <1>1, <1>2 DEF IInv, Data, HostOK, room, game
  <2>2. WithinCapacity'
    <3>1. IsFiniteSet(players) BY UsersAssumption, FS_Subset DEF IInv, TypeOK
    <3>2. /\ Cardinality(players) \in Nat
          /\ Cardinality(players') \in {Cardinality(players), Cardinality(players) + 1}
      <4>1. Cardinality(players) \in Nat BY <3>1, FS_CardinalityType
      <4>2. Cardinality(players \cup {u}) =
              IF u \in players THEN Cardinality(players) ELSE Cardinality(players) + 1
        BY <3>1, FS_AddElement
      <4> QED BY <1>1, <4>1, <4>2
    <3> QED BY <1>1, <1>2, <3>2 DEF IInv, TypeOK, WithinCapacity, room
  <2>3. CharactersDistinct'
    BY <1>1, <1>2 DEF IInv, TypeOK, Data, CharactersDistinct
  <2>4. CastIsComplete' BY <1>1 DEF IInv, Data, CastIsComplete, Roster, room, game
  <2>5. NoLateComers' BY <1>1, <1>2 DEF NoLateComers, room
  <2> QED BY <2>1, <2>2, <2>3, <2>4, <2>5 DEF Data
<1> QED BY <1>3, <1>4, <1>5 DEF IInv

LEMMA LeaveInv ==
  ASSUME IInv, NEW r \in Requests, LeaveWrite(r)
  PROVE  IInv'
<1> DEFINE u == call[r].user
<1>1. u \in Users /\ lock = r /\ status # "none" /\ Answer(r)
  BY DEF IInv, CallOK, LockIsOwned, LeaveWrite, Holding
<1>2. UNCHANGED <<host, maxPlayers, running, cast>> BY DEF LeaveWrite, game
<1>3. \/ status' = "CLOSED" /\ UNCHANGED rows
      \/ /\ u # host /\ players' = players \ {u} /\ UNCHANGED status
         /\ character' = [character EXCEPT ![u] = None]
         /\ isReady' = [isReady EXCEPT ![u] = FALSE]
  BY DEF LeaveWrite
<1> HIDE DEF u
<1>4. TypeOK'
  <2>1. players' \in SUBSET Users /\ character' \in Picks /\ isReady' \in [Users -> BOOLEAN]
    BY <1>1, <1>3 DEF IInv, TypeOK, Picks, rows
  <2>2. \A v \in Users \ players' : character'[v] = None /\ ~isReady'[v]
    BY <1>1, <1>3 DEF IInv, TypeOK, Picks, rows
  <2> QED BY <1>1, <1>2, <1>3, <2>1, <2>2, AnswerKeeps DEF IInv, TypeOK
<1>5. CallOK' /\ LockIsOwned' /\ HeldOK' /\ GateOK'
  BY <1>1, <1>2, <1>3, AnswerControl
<1>6. players' \subseteq players /\ status' \in {status, "CLOSED"} BY <1>3 DEF rows
<1>7. Data'
  <2>1. HostOK' BY <1>1, <1>2, <1>3 DEF IInv, Data, HostOK, rows
  <2>2. WithinCapacity'
    <3>1. IsFiniteSet(players) BY UsersAssumption, FS_Subset DEF IInv, TypeOK
    <3>2. /\ Cardinality(players) \in Nat /\ Cardinality(players') \in Nat
          /\ Cardinality(players') <= Cardinality(players)
      BY <1>6, <3>1, FS_CardinalityType, FS_Subset
    <3> QED BY <1>2, <3>2 DEF IInv, TypeOK, Data, WithinCapacity
  <2>3. CharactersDistinct'
    <3>1. \A v \in players' : character'[v] = character[v]
      BY <1>1, <1>3 DEF IInv, TypeOK, Picks, rows
    <3> QED BY <1>6, <3>1 DEF IInv, Data, CharactersDistinct
  <2>4. CastIsComplete' BY <1>2 DEF IInv, Data, CastIsComplete, Roster
  <2>5. NoLateComers' BY <1>2, <1>6 DEF IInv, Data, NoLateComers, Roster
  <2> QED BY <2>1, <2>2, <2>3, <2>4, <2>5 DEF Data
<1> QED BY <1>4, <1>5, <1>7 DEF IInv

LEMMA ReadyInv ==
  ASSUME IInv, NEW r \in Requests, ReadyWrite(r)
  PROVE  IInv'
<1> DEFINE u == call[r].user
<1>1. PICK ready \in BOOLEAN : isReady' = [isReady EXCEPT ![u] = u \in players /\ ready]
  BY DEF ReadyWrite, IsMember
<1>2. Answer(r) /\ UNCHANGED <<room, players, character, game>> BY DEF ReadyWrite
<1> HIDE DEF u
<1>3. TypeOK'
  <2>1. isReady' \in [Users -> BOOLEAN] /\ \A v \in Users \ players : ~isReady'[v]
    BY <1>1 DEF IInv, TypeOK
  <2> QED BY <1>2, <2>1, AnswerKeeps DEF IInv, TypeOK, room, game
<1>4. CallOK' /\ LockIsOwned' /\ HeldOK' /\ GateOK'
  BY <1>2, AnswerControl DEF room, game
<1>5. Data'
  BY <1>2 DEF IInv, Data, room, game, HostOK, WithinCapacity, CharactersDistinct,
              CastIsComplete, NoLateComers, Roster
<1> QED BY <1>3, <1>4, <1>5 DEF IInv

LEMMA PickInv ==
  ASSUME IInv, NEW r \in Requests, PickWrite(r), ~Refuse(r)
  PROVE  IInv'
<1> DEFINE u == call[r].user
           c == call[r].char
<1>1. /\ IsWaiting /\ IsMember(r) /\ ~IsTaken(r)
      /\ character' = [character EXCEPT ![u] = c]
      /\ Answer(r)
      /\ UNCHANGED <<room, players, isReady, game>>
  BY DEF PickWrite
<1>2. u \in players /\ c \in Characters
  BY <1>1 DEF IInv, CallOK, PickWrite, IsMember
<1>3. \A v \in players : v # u => character[v] # c
  BY <1>1 DEF IsTaken
<1> HIDE DEF u, c
<1>4. TypeOK'
  <2>1. character' \in Picks /\ \A v \in Users \ players : character'[v] = None
    BY <1>1, <1>2 DEF IInv, TypeOK, Picks
  <2> QED BY <1>1, <2>1, AnswerKeeps DEF IInv, TypeOK, room, game
<1>5. CallOK' /\ LockIsOwned' /\ HeldOK' /\ GateOK'
  BY <1>1, AnswerControl DEF room, game
<1>6. Data'
  <2>1. CharactersDistinct'
    <3> SUFFICES ASSUME NEW v \in players', NEW w \in players',
                        character'[v] = character'[w], character'[v] # None
                 PROVE  v = w
      BY DEF CharactersDistinct
    <3>1. \A x \in players : character'[x] = IF x = u THEN c ELSE character[x]
      BY <1>1 DEF IInv, TypeOK, Picks
    <3> QED BY <1>1, <1>3, <3>1 DEF IInv, Data, CharactersDistinct
  <2> QED BY <1>1, <2>1 DEF IInv, Data, room, game, HostOK, WithinCapacity,
                         CastIsComplete, NoLateComers, Roster
<1> QED BY <1>4, <1>5, <1>6 DEF IInv

LEMMA StartReadInv ==
  ASSUME IInv, NEW r \in Requests, StartRead(r)
  PROVE  IInv'
<1>1. /\ Goto(r, "startGame") /\ gate' = character /\ validateStartGate
      /\ UNCHANGED <<room, rows, lock, game>>
  BY DEF StartRead
<1>2. /\ call' \in [Requests -> [at : Steps, user : Users \cup {None},
                                 char : Characters \cup {None}]]
      /\ \A q \in Requests :
           IF q = r THEN /\ call'[q].at = "startGame" /\ call'[q].user = call[q].user
                         /\ call'[q].char = call[q].char
                    ELSE call'[q] = call[q]
  <2>1. "startGame" \in Steps BY DEF Steps, Holding
  <2> QED BY <1>1, <2>1, GotoCalls DEF IInv
<1>3. lock = r /\ status = "WAITING" /\ call[r].at = "startRead"
  BY DEF IInv, LockIsOwned, HeldOK, StartRead, Holding
<1>4. TypeOK' BY <1>1, <1>2 DEF IInv, TypeOK, room, rows, game
<1>5. CallOK'
  <2> SUFFICES ASSUME NEW q \in Requests
               PROVE  /\ call'[q].at # "idle" => call'[q].user \in Users /\ status' # "none"
                      /\ call'[q].at \in {"pickRoom", "pickPlayers", "pickWrite"}
                           => call'[q].char \in Characters
    BY DEF CallOK
  <2> QED BY <1>1, <1>2, <1>3 DEF IInv, CallOK, room
<1>6. LockIsOwned' BY <1>1, <1>2, <1>3 DEF IInv, LockIsOwned, Holding
<1>7. HeldOK' BY <1>1, <1>2, <1>3 DEF IInv, HeldOK, room, rows
<1>8. Roster(character) = players
  BY <1>1 DEF IInv, TypeOK, Roster, validateStartGate
<1>9. Complete(character)
  BY <1>1, <1>3, <1>8
     DEF IInv, Data, HostOK, CharactersDistinct, Complete, Roster, validateStartGate
<1>10. GateOK'
  <2> SUFFICES ASSUME NEW q \in Requests
               PROVE  /\ call'[q].at = "startGame" =>
                            Complete(gate)' /\ players' \subseteq Roster(gate')
                      /\ call'[q].at = "startCommit" => players' \subseteq Roster(cast')
    BY DEF GateOK
  <2>1. CASE q # r
    <3>1. call'[q].at \notin Holding
      BY <1>2, <1>3, <2>1 DEF IInv, LockIsOwned
    <3> QED BY <3>1 DEF Holding
  <2>2. CASE q = r
    BY <1>1, <1>2, <1>8, <1>9, <2>2 DEF Complete, Roster, room, rows
  <2> QED BY <2>1, <2>2
<1>11. Data' BY <1>1, SameData
<1> QED BY <1>4, <1>5, <1>6, <1>7, <1>10, <1>11 DEF IInv

LEMMA StartGameInv ==
  ASSUME IInv, NEW r \in Requests, StartGame(r)
  PROVE  IInv'
<1>1. /\ Goto(r, "startCommit") /\ running' = TRUE /\ cast' = gate
      /\ UNCHANGED <<room, rows, lock, gate>>
  BY DEF StartGame
<1>2. /\ call' \in [Requests -> [at : Steps, user : Users \cup {None},
                                 char : Characters \cup {None}]]
      /\ \A q \in Requests :
           IF q = r THEN /\ call'[q].at = "startCommit" /\ call'[q].user = call[q].user
                         /\ call'[q].char = call[q].char
                    ELSE call'[q] = call[q]
  <2>1. "startCommit" \in Steps BY DEF Steps, Holding
  <2> QED BY <1>1, <2>1, GotoCalls DEF IInv
<1>3. /\ lock = r /\ status = "WAITING" /\ call[r].at = "startGame"
      /\ Complete(gate) /\ players \subseteq Roster(gate)
  BY DEF IInv, LockIsOwned, HeldOK, GateOK, StartGame, Holding
<1>4. TypeOK' BY <1>1, <1>2 DEF IInv, TypeOK, room, rows
<1>5. CallOK'
  <2> SUFFICES ASSUME NEW q \in Requests
               PROVE  /\ call'[q].at # "idle" => call'[q].user \in Users /\ status' # "none"
                      /\ call'[q].at \in {"pickRoom", "pickPlayers", "pickWrite"}
                           => call'[q].char \in Characters
    BY DEF CallOK
  <2> QED BY <1>1, <1>2, <1>3 DEF IInv, CallOK, room
<1>6. LockIsOwned' BY <1>1, <1>2, <1>3 DEF IInv, LockIsOwned, Holding
<1>7. HeldOK' BY <1>1, <1>2, <1>3 DEF IInv, HeldOK, room, rows
<1>8. GateOK'
  <2> SUFFICES ASSUME NEW q \in Requests
               PROVE  /\ call'[q].at = "startGame" =>
                            Complete(gate)' /\ players' \subseteq Roster(gate')
                      /\ call'[q].at = "startCommit" => players' \subseteq Roster(cast')
    BY DEF GateOK
  <2>1. CASE q # r
    <3>1. call'[q].at \notin Holding
      BY <1>2, <1>3, <2>1 DEF IInv, LockIsOwned
    <3> QED BY <3>1 DEF Holding
  <2>2. CASE q = r BY <1>1, <1>2, <1>3, <2>2 DEF Roster, rows
  <2> QED BY <2>1, <2>2
<1>9. Data'
  <2>1. HostOK' BY <1>1, <1>3 DEF IInv, Data, HostOK, room, rows
  <2>2. WithinCapacity' /\ CharactersDistinct'
    BY <1>1 DEF IInv, Data, WithinCapacity, CharactersDistinct, room, rows
  <2>3. CastIsComplete' BY <1>1, <1>3 DEF CastIsComplete, Complete, Roster, room
  <2>4. NoLateComers' BY <1>1, <1>3 DEF NoLateComers, room
  <2> QED BY <2>1, <2>2, <2>3, <2>4 DEF Data
<1> QED BY <1>4, <1>5, <1>6, <1>7, <1>8, <1>9 DEF IInv

LEMMA StatusInv ==
  ASSUME IInv, NEW r \in Requests, StartCommit(r) \/ CloseWrite(r)
  PROVE  IInv'
<1>1. /\ Answer(r) /\ UNCHANGED <<host, maxPlayers, rows, game>>
      /\ lock = r \/ lock = None
  BY DEF IInv, LockIsOwned, StartCommit, CloseWrite, Holding
<1>2. /\ status # "none"
      /\ \/ status' = "CLOSED"
         \/ status' = "PLAYING" /\ players \subseteq Roster(cast)
  BY DEF IInv, CallOK, GateOK, StartCommit, CloseWrite
<1>3. TypeOK' BY <1>1, <1>2, AnswerKeeps DEF IInv, TypeOK, rows, game
<1>4. CallOK' /\ LockIsOwned' /\ HeldOK' /\ GateOK'
  BY <1>1, <1>2, AnswerControl DEF game
<1>5. Data'
  BY <1>1, <1>2 DEF IInv, Data, rows, game, HostOK, WithinCapacity,
                    CharactersDistinct, CastIsComplete, NoLateComers, Roster
<1> QED BY <1>3, <1>4, <1>5 DEF IInv

LEMMA EndsInv ==
  ASSUME IInv, SessionEnds
  PROVE  IInv'
BY DEF IInv, SessionEnds, room, rows, TypeOK, CallOK, LockIsOwned, HeldOK, GateOK, Complete,
       Roster, Data, HostOK, WithinCapacity, CharactersDistinct, CastIsComplete,
       NoLateComers

LEMMA RestartInv ==
  ASSUME IInv, Restart
  PROVE  IInv'
<1>1. \A q \in Requests : call'[q].at = "idle" BY DEF Restart, NoCall
<1>2. TypeOK'
  BY NoCallType, NobodyType DEF IInv, TypeOK, Restart, room, rows
<1>3. CallOK' BY <1>1 DEF CallOK
<1>4. LockIsOwned' BY <1>1, NoneAssumption DEF LockIsOwned, Holding, Restart
<1>5. HeldOK' /\ GateOK' BY <1>1 DEF HeldOK, GateOK
<1>6. Data'
  BY DEF IInv, Data, Restart, room, rows, HostOK, WithinCapacity, CharactersDistinct,
         CastIsComplete, NoLateComers, Roster
<1> QED BY <1>2, <1>3, <1>4, <1>5, <1>6 DEF IInv

-----------------------------------------------------------------------------
(* The inductive invariant *)

\* Each statement of a request refuses it, moves it on, or is one of the writes.
LEMMA RequestCases ==
  ASSUME IInv, NEW r \in Requests, RequestStep(r)
  PROVE  /\ call[r].at # "idle"
         /\ \/ Refuse(r)
            \/ \E next \in Steps : Acquire(r, next) \/ FreeMove(r, next) \/ HeldMove(r, next)
            \/ JoinWrite(r) \/ LeaveWrite(r) \/ ReadyWrite(r) \/ PickWrite(r)
            \/ StartRead(r) \/ StartGame(r) \/ StartCommit(r) \/ CloseWrite(r)
<1> DEFINE Goal == \/ Refuse(r)
                   \/ \E next \in Steps :
                        Acquire(r, next) \/ FreeMove(r, next) \/ HeldMove(r, next)
<1>1. call[r].at # "idle"
  BY DEF RequestStep, JoinStep, LeaveStep, ReadyStep, PickStep, StartStep, JoinLock,
         JoinRead, JoinWrite, LeaveLock, LeaveRead, LeaveWrite, ReadyRoom, ReadyPlayers,
         ReadyWrite, PickRoom, PickPlayers, PickWrite, StartLock, StartRead, StartGame,
         StartCommit, StartRefused, CloseWrite
<1>2. /\ {"joinRead", "leaveRead", "startRead", "joinWrite", "leaveWrite"} \subseteq Steps
      /\ {"readyPlayers", "readyWrite", "pickPlayers", "pickWrite"} \subseteq Steps \cap Free
  BY DEF Steps, Holding, Free
<1>3. CASE JoinLock(r) \/ LeaveLock(r) \/ StartLock(r)
  <2>1. Refuse(r) \/ Acquire(r, "joinRead") \/ Acquire(r, "leaveRead")
          \/ Acquire(r, "startRead")
    BY <1>3 DEF JoinLock, LeaveLock, StartLock, LockRoom, Acquire, IsWaiting
  <2> QED BY <1>1, <1>2, <2>1
<1>4. CASE JoinRead(r) \/ LeaveRead(r)
  <2>1. Refuse(r) \/ HeldMove(r, "joinWrite") \/ HeldMove(r, "leaveWrite")
    BY <1>4 DEF JoinRead, LeaveRead, HeldMove
  <2> QED BY <1>1, <1>2, <2>1
<1>5. CASE ReadyRoom(r) \/ ReadyPlayers(r) \/ PickRoom(r) \/ PickPlayers(r)
  <2>1. \/ Refuse(r) \/ FreeMove(r, "readyPlayers") \/ FreeMove(r, "readyWrite")
        \/ FreeMove(r, "pickPlayers") \/ FreeMove(r, "pickWrite")
    BY <1>5, <1>2 DEF ReadyRoom, ReadyPlayers, PickRoom, PickPlayers, ReadRoomUnlocked,
                      FreeMove, Free
  <2> QED BY <1>1, <1>2, <2>1
<1>6. CASE StartRefused(r) BY <1>1, <1>6 DEF StartRefused
<1> QED BY <1>1, <1>3, <1>4, <1>5, <1>6
        DEF RequestStep, JoinStep, LeaveStep, ReadyStep, PickStep, StartStep

LEMMA InitInv == Init => IInv
<1> SUFFICES ASSUME Init PROVE IInv OBVIOUS
<1>1. \A q \in Requests : call[q].at = "idle" BY DEF Init, NoCall
<1>2. TypeOK BY NoCallType, NobodyType DEF Init, TypeOK, Nobody
<1>3. CallOK /\ HeldOK /\ GateOK BY <1>1 DEF CallOK, HeldOK, GateOK
<1>4. LockIsOwned BY <1>1, NoneAssumption DEF LockIsOwned, Holding, Init
<1>5. Cardinality({}) = 0 BY FS_EmptySet
<1>6. Data
  BY <1>5 DEF Init, Data, HostOK, WithinCapacity, CharactersDistinct, CastIsComplete,
              NoLateComers
<1> QED BY <1>2, <1>3, <1>4, <1>6 DEF IInv

LEMMA NextInv == IInv /\ [Next]_vars => IInv'
<1> SUFFICES ASSUME IInv, [Next]_vars PROVE IInv' OBVIOUS
<1>1. ASSUME NEW u \in Users, CreateRoom(u) PROVE IInv' BY <1>1, CreateInv
<1>2. ASSUME NEW r \in Requests, NEW u \in Users, Arrive(r, u) PROVE IInv'
  BY <1>2, ArriveInv
<1>3. ASSUME NEW r \in Requests, RequestStep(r) PROVE IInv'
  <2>1. call[r].at # "idle" BY <1>3, RequestCases
  <2>2. CASE Refuse(r) BY <2>2, RefuseInv
  <2>3. ASSUME NEW next \in Steps,
               Acquire(r, next) \/ FreeMove(r, next) \/ HeldMove(r, next)
        PROVE  IInv'
    BY <2>1, <2>3, MoveInv
  <2>4. CASE JoinWrite(r) BY <2>4, JoinInv
  <2>5. CASE LeaveWrite(r) BY <2>5, LeaveInv
  <2>6. CASE ReadyWrite(r) BY <2>6, ReadyInv
  <2>7. CASE PickWrite(r) BY <2>2, <2>7, PickInv
  <2>8. CASE StartRead(r) BY <2>8, StartReadInv
  <2>9. CASE StartGame(r) BY <2>9, StartGameInv
  <2>10. CASE StartCommit(r) \/ CloseWrite(r) BY <2>10, StatusInv
  <2> QED BY <1>3, <2>2, <2>3, <2>4, <2>5, <2>6, <2>7, <2>8, <2>9, <2>10, RequestCases
<1>4. ASSUME NEW r \in Requests, QueryFails(r) PROVE IInv'
  BY <1>4, RefuseInv DEF QueryFails
<1>5. CASE SessionEnds BY <1>5, EndsInv
<1>6. CASE Restart BY <1>6, RestartInv
<1>7. CASE UNCHANGED vars
  BY <1>7 DEF IInv, vars, room, rows, game, TypeOK, CallOK, LockIsOwned, HeldOK, GateOK,
              Complete, Roster, Data, HostOK, WithinCapacity, CharactersDistinct,
              CastIsComplete, NoLateComers
<1> QED BY <1>1, <1>2, <1>3, <1>4, <1>5, <1>6, <1>7 DEF Next

LEMMA Invariance == Spec => []IInv
BY InitInv, NextInv, PTL DEF Spec

-----------------------------------------------------------------------------
(* Theorems *)

\* The rows have their types, and a user who left has left nothing behind.
THEOREM TypeCorrect == Spec => []TypeOK
<1>1. IInv => TypeOK BY DEF IInv
<1> QED BY Invariance, <1>1, PTL

\* The row lock is held by the one request that is in a transaction.
THEOREM LockIsGivenBack == Spec => []LockIsOwned
<1>1. IInv => LockIsOwned BY DEF IInv
<1> QED BY Invariance, <1>1, PTL

\* However many users join at a time, the room is never overfull (JoinRoom).
THEOREM RoomIsNeverOverfull == Spec => []WithinCapacity
<1>1. IInv => WithinCapacity BY DEF IInv, Data
<1> QED BY Invariance, <1>1, PTL

\* However selections interleave, no character is played twice (SelectCharacter).
THEOREM NoCharacterTwice == Spec => []CharactersDistinct
<1>1. IInv => CharactersDistinct BY DEF IInv, Data
<1> QED BY Invariance, <1>1, PTL

\* Every session has a complete cast (StartRoom).
THEOREM SessionsAreComplete == Spec => []CastIsComplete
<1>1. IInv => CastIsComplete BY DEF IInv, Data
<1> QED BY Invariance, <1>1, PTL

\* The players of a room that plays are in its session (StartRoom, JoinRoom).
THEOREM NobodySlipsIn == Spec => []NoLateComers
<1>1. IInv => NoLateComers BY DEF IInv, Data
<1> QED BY Invariance, <1>1, PTL

\* A closed room stays closed, whatever start was under way (UpdateRoomStatus).
THEOREM ClosedForGood == Spec => ClosedIsFinal
<1>1. ASSUME IInv, [Next]_vars, status = "CLOSED" PROVE status' = "CLOSED"
  <2>1. CASE UNCHANGED status BY <1>1, <2>1
  <2>2. ASSUME NEW u \in Users, CreateRoom(u) PROVE FALSE BY <1>1, <2>2 DEF CreateRoom
  <2>3. ASSUME NEW r \in Requests, NEW u \in Users, Arrive(r, u) PROVE UNCHANGED status
    BY <2>3 DEF Arrive, room
  <2>4. ASSUME NEW r \in Requests, QueryFails(r) PROVE UNCHANGED status
    BY <2>4 DEF QueryFails, Refuse, room
  <2>5. CASE SessionEnds \/ Restart BY <1>1, <2>5 DEF SessionEnds, Restart, room
  <2>6. ASSUME NEW r \in Requests, RequestStep(r) PROVE status' = "CLOSED"
    <3>1. CASE StartCommit(r)
      BY <1>1, <3>1 DEF IInv, HeldOK, StartCommit
    <3>2. CASE LeaveWrite(r) \/ CloseWrite(r)
      BY <1>1, <3>2 DEF LeaveWrite, CloseWrite
    <3>3. CASE \/ Refuse(r) \/ JoinWrite(r) \/ ReadyWrite(r) \/ PickWrite(r)
               \/ StartRead(r) \/ StartGame(r)
      BY <1>1, <3>3 DEF Refuse, JoinWrite, ReadyWrite, PickWrite, StartRead, StartGame, room
    <3>4. ASSUME NEW next \in Steps,
                 Acquire(r, next) \/ FreeMove(r, next) \/ HeldMove(r, next)
          PROVE  status' = "CLOSED"
      BY <1>1, <3>4 DEF Acquire, FreeMove, HeldMove, room
    <3> QED BY <1>1, <2>6, <3>1, <3>2, <3>3, <3>4, RequestCases
  <2> QED BY <1>1, <2>1, <2>2, <2>3, <2>4, <2>5, <2>6 DEF Next, vars, room
<1>2. IInv /\ [Next]_vars => [status = "CLOSED" => status' = "CLOSED"]_status
  BY <1>1
<1> QED BY Invariance, <1>2, PTL DEF Spec, ClosedIsFinal
=============================================================================
