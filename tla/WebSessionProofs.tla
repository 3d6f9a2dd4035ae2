-------------------------- MODULE WebSessionProofs --------------------------
(***************************************************************************)
(* Theorems about WebSession and the WsClient it extends: for every number *)
(* of clients, attempts, requests and pairs of tokens.                     *)
(*                                                                         *)
(* Every step of WebSession changes the clients as one of WsClient's       *)
(* operations does, or not at all, so that what holds of the clients is    *)
(* proved of those operations once.                                        *)
(***************************************************************************)
EXTENDS WebSession, TLAPS

-----------------------------------------------------------------------------
(* The clients.                                                            *)

(* What close() was called on has no handler.                              *)
ClosingIsDeaf ==
  \A c \in Clients : client[c] # None /\ client[c].socket = "closing" => ~client[c].heard

(* A client that was turned away neither waits for an attempt nor may      *)
(* schedule one.                                                           *)
ToldIsMute == \A c \in Clients : client[c] # None /\ client[c].told
                                   => ~client[c].enabled /\ ~client[c].timer

WsInv == WsTypeOK /\ ClosingIsDeaf /\ ToldIsMute /\ OneConnection

(* The operations of the clients, and the reload of the page.              *)
Unload == /\ client' = [c \in Clients |-> IF client[c] = None THEN None
                                          ELSE [client[c] EXCEPT !.socket = "none", !.timer = FALSE,
                                                                 !.state = "DISCONNECTED"]]
          /\ current' = None /\ shown' = "IDLE"

(* An event of a socket or of a timer.                                     *)
Event == \E c \in Clients : Opened(c) \/ Closed(c) \/ Retry(c) \/ Told(c)

WsNext == \/ Event
          \/ \E token \in Nat : ConnectGame(token)
          \/ DisconnectGame
          \/ Unload
          \/ UNCHANGED ws

(* A client that is updated is one still.                                  *)
LEMMA Objective ==
  ASSUME NEW r \in Objects
  PROVE  r # None
<1>1. QED  BY NullAssumption

LEMMA Numbered ==
  ASSUME NEW c \in Clients
  PROVE  c # None
<1>1. QED  BY NullAssumption DEF Clients

LEMMA DisconnectedObject ==
  ASSUME NEW r \in Objects
  PROVE  /\ Disconnected(r) \in Objects
         /\ Disconnected(r).socket \in {"none", "closing"}
         /\ ~Disconnected(r).timer /\ ~Disconnected(r).heard
         /\ Disconnected(r).told = r.told /\ Disconnected(r).enabled = r.enabled
         /\ Disconnected(r).token = r.token
<1>1. QED  BY DEF Disconnected, Objects, Sockets, States

LEMMA NewObject ==
  ASSUME NEW token \in Nat
  PROVE  /\ New(token) \in Objects
         /\ New(token).socket = "connecting" /\ New(token).state = "CONNECTING"
         /\ ~New(token).timer /\ ~New(token).told /\ New(token).token = token
<1> DEFINE idle == [state |-> "IDLE", socket |-> "none", heard |-> FALSE, timer |-> FALSE,
                    attempt |-> 0, enabled |-> TRUE, token |-> token, told |-> FALSE]
<1>1. 0 \in 0 .. MaxAttempts  BY ClientAssumption
<1>2. "IDLE" \in States /\ "none" \in Sockets  BY DEF States, Sockets
<1>3. idle \in Objects /\ ~idle.timer /\ ~idle.told /\ idle.token = token
  BY <1>1, <1>2 DEF Objects
<1>4. New(token) = Connecting(idle)  BY DEF New
<1> HIDE DEF idle
<1>5. QED  BY <1>3, <1>4 DEF Connecting, Objects, States, Sockets

LEMMA WsStarts == WsInit => WsInv
<1>1. QED  BY NullAssumption DEF WsInit, WsInv, WsTypeOK, ClosingIsDeaf, ToldIsMute,
              OneConnection, Active, Live, Clients, States

(* The event of one client: of the current one where it is heard of, and   *)
(* no other client changes.                                                *)
LEMMA OneClient ==
  ASSUME WsInv, NEW c \in Clients, NEW r \in Objects, client[c] # None,
         client' = [client EXCEPT ![c] = r], UNCHANGED current,
         r.told => ~r.enabled /\ ~r.timer,
         r.socket = "closing" => ~r.heard,
         ~(r.socket \in {"connecting", "open"} /\ r.timer),
         shown' \in States,
         \/ /\ c = current /\ shown' = r.state
         \/ /\ r.socket \notin {"connecting", "open"} /\ ~r.timer
            /\ UNCHANGED shown /\ r.state = client[c].state
  PROVE  WsInv'
<1> USE DEF WsInv
<1>1. r # None  BY Objective
<1>2. /\ client'[c] = r
      /\ \A d \in Clients : d # c => client'[d] = client[d]
  BY DEF WsTypeOK
<1>3. WsTypeOK'  BY <1>1, <1>2 DEF WsTypeOK
<1>4. ClosingIsDeaf' /\ ToldIsMute'  BY <1>1, <1>2 DEF ClosingIsDeaf, ToldIsMute
<1>5. OneConnection'
  <2>1. current # None => shown' = client'[current].state
    BY <1>2 DEF OneConnection, WsTypeOK
  <2>2. \A d \in Clients : Active(d)' => d = current
    BY <1>2 DEF OneConnection, Active, Live
  <2>3. \A d \in Clients : client'[d] # None => ~(Live(d)' /\ client'[d].timer)
    BY <1>2 DEF OneConnection, Active, Live
  <2>4. current = None => shown' \in {"IDLE", "DISCONNECTED"}
    <3>1. c # None  BY Numbered
    <3>2. QED  BY <3>1 DEF OneConnection
  <2>5. QED  BY <2>1, <2>2, <2>3, <2>4 DEF OneConnection
<1>6. QED  BY <1>3, <1>4, <1>5

(* What the steps of a client do to it.                                    *)
LEMMA OpenedKeeps ==
  ASSUME WsInv, NEW c \in Clients, Opened(c)
  PROVE  WsInv' /\ Active(c)
<1> DEFINE r == [client[c] EXCEPT !.socket = "open", !.state = "CONNECTED", !.attempt = 0,
                                  !.timer = FALSE]
<1>1. client[c] \in Objects /\ client[c].socket = "connecting"  BY DEF WsInv, WsTypeOK, Opened
<1>2. Active(c) /\ c = current  BY <1>1 DEF Opened, Active, Live, WsInv, OneConnection
<1>3. 0 \in 0 .. MaxAttempts  BY ClientAssumption
<1>4. /\ r \in Objects /\ r.socket = "open" /\ r.state = "CONNECTED" /\ ~r.timer
      /\ r.told = client[c].told /\ r.enabled = client[c].enabled
  BY <1>1, <1>3 DEF Objects, Sockets, States
<1>5. client' = [client EXCEPT ![c] = r]  BY DEF Opened
<1>6. shown' = r.state  BY <1>2, <1>4, Numbered DEF Opened, Tell, WsInv, OneConnection
<1>7. r.told => ~r.enabled  BY <1>1, <1>4 DEF Opened, WsInv, ToldIsMute
<1>8. shown' \in States  BY <1>6, <1>4 DEF States
<1>9. client[c] # None /\ UNCHANGED current  BY DEF Opened
<1> HIDE DEF r
<1>10. WsInv'  BY <1>2, <1>4, <1>5, <1>6, <1>7, <1>8, <1>9, OneClient
<1>11. QED  BY <1>2, <1>10

LEMMA ClosedKeeps ==
  ASSUME WsInv, NEW c \in Clients, Closed(c)
  PROVE  WsInv' /\ (Active(c) \/ ~Active(c)')
<1> DEFINE n == [client[c] EXCEPT !.socket = "none"]
           r == [client[c] EXCEPT !.socket = "none", !.state = "RECONNECTING", !.timer = TRUE,
                                  !.attempt = @ + 1]
           g == [client[c] EXCEPT !.socket = "none", !.state = "DISCONNECTED"]
<1>1. /\ client[c] \in Objects /\ client[c] # None /\ client[c].socket # "none"
      /\ UNCHANGED current
  BY DEF WsInv, WsTypeOK, Closed
<1>2. client[c].told => ~client[c].enabled /\ ~client[c].timer
  BY <1>1 DEF WsInv, ToldIsMute
<1>3. CASE ~client[c].heard
  <2>1. client' = [client EXCEPT ![c] = n] /\ UNCHANGED shown  BY <1>3 DEF Closed
  <2>2. /\ n \in Objects /\ n.socket = "none" /\ n.state = client[c].state
        /\ n.told = client[c].told /\ n.enabled = client[c].enabled
        /\ n.timer = client[c].timer
    BY <1>1 DEF Objects, Sockets
  <2>3. shown' \in States  BY <2>1 DEF WsInv, WsTypeOK
  <2>4. CASE client[c].timer
    <3>1. c = current  BY <2>4, <1>1 DEF Active, WsInv, OneConnection
    <3>2. shown' = n.state  BY <3>1, <2>1, <2>2, <1>1, Numbered DEF WsInv, OneConnection
    <3> HIDE DEF n
    <3>3. WsInv'  BY <1>1, <1>2, <2>1, <2>2, <2>3, <3>1, <3>2, OneClient
    <3>4. QED  BY <3>3, <2>4, <1>1 DEF Active
  <2>5. CASE ~client[c].timer
    <3> HIDE DEF n
    <3>1. WsInv'  BY <1>1, <1>2, <2>1, <2>2, <2>3, <2>5, OneClient
    <3>2. client'[c] = n  BY <2>1 DEF WsInv, WsTypeOK
    <3>3. ~Active(c)'  BY <3>2, <2>2, <2>5 DEF Active, Live
    <3>4. QED  BY <3>1, <3>3
  <2>6. QED  BY <2>4, <2>5
<1>4. CASE client[c].heard
  <2>1. client[c].socket \in {"connecting", "open"}
    BY <1>1, <1>4 DEF WsInv, ClosingIsDeaf, Objects, Sockets
  <2>2. Active(c) /\ c = current /\ shown = client[c].state /\ ~client[c].timer
    BY <2>1, <1>1, Numbered DEF Active, Live, WsInv, OneConnection
  <2>3. CASE CanRetry(c)
    <3>1. client' = [client EXCEPT ![c] = r] /\ Tell(c, "RECONNECTING")
      BY <1>4, <2>3 DEF Closed
    <3>2. ~client[c].told  BY <1>2, <2>3 DEF CanRetry
    <3>3. client[c].attempt + 1 \in 0 .. MaxAttempts
      <4>1. client[c].attempt \in 0 .. MaxAttempts  BY <1>1 DEF Objects
      <4>2. QED  BY <4>1, <2>3, ClientAssumption DEF CanRetry
    <3>4. /\ r \in Objects /\ r.socket = "none" /\ r.state = "RECONNECTING" /\ r.timer
          /\ r.told = client[c].told
      BY <1>1, <3>3 DEF Objects, Sockets, States
    <3>5. shown' = r.state  BY <3>1, <3>4, <2>2 DEF Tell
    <3>6. shown' \in States  BY <3>5, <3>4 DEF States
    <3> HIDE DEF r
    <3>7. WsInv'  BY <1>1, <2>2, <3>1, <3>2, <3>4, <3>5, <3>6, OneClient
    <3>8. QED  BY <3>7, <2>2
  <2>4. CASE ~CanRetry(c)
    <3>1. client' = [client EXCEPT ![c] = g] /\ Tell(c, "DISCONNECTED")
      BY <1>4, <2>4 DEF Closed
    <3>2. /\ g \in Objects /\ g.socket = "none" /\ g.state = "DISCONNECTED"
          /\ g.told = client[c].told /\ g.enabled = client[c].enabled
          /\ g.timer = client[c].timer
      BY <1>1 DEF Objects, Sockets, States
    <3>3. shown' = g.state  BY <3>1, <3>2, <2>2 DEF Tell
    <3>4. shown' \in States  BY <3>3, <3>2 DEF States
    <3> HIDE DEF g
    <3>5. WsInv'  BY <1>1, <1>2, <2>2, <3>1, <3>2, <3>3, <3>4, OneClient
    <3>6. QED  BY <3>5, <2>2
  <2>5. QED  BY <2>3, <2>4
<1>5. QED  BY <1>3, <1>4

LEMMA RetryKeeps ==
  ASSUME WsInv, NEW c \in Clients, Retry(c)
  PROVE  WsInv' /\ Active(c)
<1> DEFINE k == [client[c] EXCEPT !.timer = FALSE]
           r == [Connecting(client[c]) EXCEPT !.timer = FALSE]
<1>1. /\ client[c] \in Objects /\ client[c] # None /\ client[c].timer
      /\ UNCHANGED current
  BY DEF WsInv, WsTypeOK, Retry
<1>2. Active(c) /\ c = current /\ ~Live(c) /\ shown = client[c].state /\ ~client[c].told
  BY <1>1, Numbered DEF Active, WsInv, OneConnection, ToldIsMute
<1>3. CASE client[c].state \in {"CONNECTED", "CONNECTING"}
  <2>1. client' = [client EXCEPT ![c] = k] /\ UNCHANGED shown  BY <1>3 DEF Retry
  <2>2. /\ k \in Objects /\ k.socket = client[c].socket /\ k.state = client[c].state
        /\ ~k.timer /\ k.told = client[c].told /\ k.heard = client[c].heard
    BY <1>1 DEF Objects
  <2>3. k.socket = "closing" => ~k.heard  BY <2>2, <1>1 DEF WsInv, ClosingIsDeaf
  <2>4. shown' \in States  BY <2>1 DEF WsInv, WsTypeOK
  <2> HIDE DEF k
  <2>5. WsInv'  BY <1>1, <1>2, <2>1, <2>2, <2>3, <2>4, OneClient
  <2>6. QED  BY <2>5, <1>2
<1>4. CASE client[c].state \notin {"CONNECTED", "CONNECTING"}
  <2>1. client' = [client EXCEPT ![c] = r] /\ Tell(c, "CONNECTING")
    BY <1>4 DEF Retry
  <2>2. /\ r \in Objects /\ r.socket = "connecting" /\ r.state = "CONNECTING"
        /\ ~r.timer /\ r.told = client[c].told
    BY <1>1 DEF Connecting, Objects, Sockets, States
  <2>3. shown' = r.state  BY <2>1, <2>2, <1>2 DEF Tell
  <2>4. shown' \in States  BY <2>2, <2>3 DEF States
  <2> HIDE DEF r
  <2>5. WsInv'  BY <1>1, <1>2, <2>1, <2>2, <2>3, <2>4, OneClient
  <2>6. QED  BY <2>5, <1>2
<1>5. QED  BY <1>3, <1>4

LEMMA ToldKeeps ==
  ASSUME WsInv, NEW c \in Clients, Told(c)
  PROVE  WsInv' /\ Active(c)
<1> DEFINE r == [client[c] EXCEPT !.told = TRUE, !.enabled = FALSE, !.timer = FALSE]
<1>1. /\ client[c] \in Objects /\ client[c] # None /\ client[c].socket = "open"
      /\ UNCHANGED <<current, shown>> /\ client' = [client EXCEPT ![c] = r]
  BY DEF WsInv, WsTypeOK, Told
<1>2. Active(c) /\ c = current /\ shown = client[c].state
  BY <1>1, Numbered DEF Active, Live, WsInv, OneConnection
<1>3. /\ r \in Objects /\ r.socket = "open" /\ r.state = client[c].state
      /\ ~r.timer /\ ~r.enabled
  BY <1>1 DEF Objects
<1>4. shown' \in States  BY <1>1 DEF WsInv, WsTypeOK
<1> HIDE DEF r
<1>5. WsInv'  BY <1>1, <1>2, <1>3, <1>4, OneClient
<1>6. QED  BY <1>5, <1>2

(* The calls of the store.                                                 *)
LEMMA ConnectGameKeeps ==
  ASSUME WsInv, NEW token \in Nat, ConnectGame(token)
  PROVE  WsInv' /\ current' # None /\ client'[current'].token = token
<1>1. PICK c \in Unused :
        /\ client' = [d \in Clients |-> IF d = c THEN New(token)
                                        ELSE IF d = current THEN Disconnected(client[d])
                                        ELSE client[d]]
        /\ current' = c /\ shown' = "CONNECTING"
  BY DEF ConnectGame
<1>2. c \in Clients /\ c # None /\ c # current
  BY Numbered DEF Unused, WsInv, WsTypeOK
<1>3. /\ New(token) \in Objects /\ New(token) # None
      /\ New(token).socket = "connecting" /\ New(token).state = "CONNECTING"
      /\ ~New(token).timer /\ ~New(token).told /\ New(token).token = token
  BY NewObject, Objective
<1>4. ASSUME current # None
      PROVE  /\ current \in Clients /\ client[current] \in Objects
             /\ Disconnected(client[current]) \in Objects
             /\ Disconnected(client[current]) # None
             /\ Disconnected(client[current]).socket \in {"none", "closing"}
             /\ ~Disconnected(client[current]).timer /\ ~Disconnected(client[current]).heard
             /\ Disconnected(client[current]).told => ~Disconnected(client[current]).enabled
  <2>1. current \in Clients /\ client[current] \in Objects /\ client[current] # None
    BY <1>4 DEF WsInv, WsTypeOK
  <2>2. client[current].told => ~client[current].enabled
    BY <2>1 DEF WsInv, ToldIsMute
  <2>3. QED  BY <2>1, <2>2, DisconnectedObject, Objective
<1>5. /\ client'[c] = New(token)
      /\ \A d \in Clients : /\ d # c /\ d = current => client'[d] = Disconnected(client[d])
                            /\ d # c /\ d # current => client'[d] = client[d]
  BY <1>1, <1>2
<1>6. WsTypeOK'
  <2>1. \A d \in Clients : client'[d] \in Objects \cup {None}
    BY <1>2, <1>3, <1>4, <1>5, Numbered DEF WsInv, WsTypeOK
  <2>2. client' \in [Clients -> Objects \cup {None}]  BY <1>1, <2>1
  <2>3. QED  BY <1>1, <1>2, <1>3, <1>5, <2>2 DEF WsTypeOK, States
<1>7. ClosingIsDeaf' /\ ToldIsMute'
  BY <1>2, <1>3, <1>4, <1>5, Numbered DEF WsInv, ClosingIsDeaf, ToldIsMute
<1>8. OneConnection'
  <2>1. \A d \in Clients : d # c => ~Active(d)'
    BY <1>2, <1>4, <1>5, Numbered DEF Active, Live, WsInv, OneConnection
  <2>2. client'[c] # None /\ ~client'[c].timer /\ client'[c].state = "CONNECTING"
    BY <1>3, <1>5
  <2>3. \A d \in Clients : client'[d] # None => ~(Live(d)' /\ client'[d].timer)
    BY <2>1, <2>2 DEF Active
  <2>4. QED  BY <1>1, <1>2, <2>1, <2>2, <2>3 DEF OneConnection
<1>9. QED  BY <1>1, <1>2, <1>3, <1>5, <1>6, <1>7, <1>8 DEF WsInv

(* Nothing is active where all clients are disconnected.                   *)
LEMMA DisconnectGameKeeps ==
  ASSUME WsInv, DisconnectGame
  PROVE  WsInv' /\ current' = None /\ \A c \in Clients : ~Active(c)'
<1>1. current' = None /\ shown' = "DISCONNECTED"  BY DEF DisconnectGame
<1>2. CASE current = None
  <2>1. client' = client  BY <1>2 DEF DisconnectGame
  <2>2. \A c \in Clients : ~Active(c)'
    BY <1>2, <2>1, Numbered DEF Active, Live, WsInv, OneConnection
  <2>3. WsInv'
    BY <1>1, <2>1, <2>2
    DEF WsInv, WsTypeOK, ClosingIsDeaf, ToldIsMute, OneConnection, States, Active, Live
  <2>4. QED  BY <1>1, <2>2, <2>3
<1>3. CASE current # None
  <2>1. client' = [client EXCEPT ![current] = Disconnected(@)]  BY <1>3 DEF DisconnectGame
  <2>2. current \in Clients /\ client[current] \in Objects /\ client[current] # None
    BY <1>3 DEF WsInv, WsTypeOK
  <2>3. client[current].told => ~client[current].enabled  BY <2>2 DEF WsInv, ToldIsMute
  <2> DEFINE r == Disconnected(client[current])
  <2>4. /\ r \in Objects /\ r # None /\ r.socket \in {"none", "closing"} /\ ~r.timer
        /\ ~r.heard /\ r.told = client[current].told /\ r.enabled = client[current].enabled
    BY <2>2, DisconnectedObject, Objective
  <2>5. /\ client'[current] = r
        /\ \A d \in Clients : d # current => client'[d] = client[d]
    BY <2>1, <2>2 DEF WsInv, WsTypeOK
  <2>6. WsTypeOK'  BY <1>1, <2>1, <2>4 DEF WsInv, WsTypeOK, States
  <2> HIDE DEF r
  <2>7. \A c \in Clients : ~Active(c)'
    BY <2>4, <2>5 DEF Active, Live, WsInv, OneConnection
  <2>8. ClosingIsDeaf' /\ ToldIsMute'
    BY <2>3, <2>4, <2>5 DEF WsInv, ClosingIsDeaf, ToldIsMute
  <2>9. OneConnection'  BY <1>1, <2>7 DEF OneConnection, Active
  <2>10. QED  BY <1>1, <2>6, <2>7, <2>8, <2>9 DEF WsInv
<1>4. QED  BY <1>2, <1>3

LEMMA UnloadKeeps ==
  ASSUME WsInv, Unload
  PROVE  WsInv' /\ current' = None /\ \A c \in Clients : ~Active(c)'
<1> DEFINE r(c) == [client[c] EXCEPT !.socket = "none", !.timer = FALSE, !.state = "DISCONNECTED"]
<1>1. current' = None /\ shown' = "IDLE"  BY DEF Unload
<1>2. \A c \in Clients : client'[c] = IF client[c] = None THEN None ELSE r(c)  BY DEF Unload
<1>3. ASSUME NEW c \in Clients, client[c] # None
      PROVE  /\ r(c) \in Objects /\ r(c).socket = "none" /\ ~r(c).timer
             /\ r(c).told = client[c].told /\ r(c).enabled = client[c].enabled
  <2>1. client[c] \in Objects  BY <1>3 DEF WsInv, WsTypeOK
  <2>2. QED  BY <2>1 DEF Objects, Sockets, States
<1> HIDE DEF r
<1>4. WsTypeOK'
  <2>1. \A c \in Clients : client'[c] \in Objects \cup {None}  BY <1>2, <1>3
  <2>2. client' \in [Clients -> Objects \cup {None}]  BY <2>1 DEF Unload
  <2>3. QED  BY <1>1, <2>2 DEF WsTypeOK, States
<1>5. \A c \in Clients : ~Active(c)'  BY <1>2, <1>3 DEF Active, Live
<1>6. ClosingIsDeaf' /\ ToldIsMute'
  BY <1>2, <1>3 DEF WsInv, ClosingIsDeaf, ToldIsMute
<1>7. OneConnection'  BY <1>1, <1>5 DEF OneConnection, Active
<1>8. QED  BY <1>1, <1>4, <1>5, <1>6, <1>7 DEF WsInv

(* No event starts a connection where none was active, and none gives a    *)
(* client another token.                                                   *)
LEMMA EventKeeps ==
  ASSUME WsInv, Event
  PROVE  /\ WsInv' /\ UNCHANGED current
         /\ (\A c \in Clients : ~Active(c)) => \A c \in Clients : ~Active(c)'
         /\ current # None => client'[current].token = client[current].token
<1>1. PICK c \in Clients : Opened(c) \/ Closed(c) \/ Retry(c) \/ Told(c)  BY DEF Event
<1>2. WsInv' /\ (Active(c) \/ ~Active(c)')
  BY <1>1, OpenedKeeps, ClosedKeeps, RetryKeeps, ToldKeeps
<1>3. UNCHANGED current  BY <1>1 DEF Opened, Closed, Retry, Told
<1>4. client[c] \in Objects  BY <1>1 DEF Opened, Closed, Retry, Told, WsInv, WsTypeOK
<1>5. \A d \in Clients : d # c => client'[d] = client[d]
  BY <1>1 DEF Opened, Closed, Retry, Told, WsInv, WsTypeOK
<1>6. client'[c].token = client[c].token
  <2>1. CASE Opened(c)  BY <1>4, <2>1 DEF Opened, WsInv, WsTypeOK, Objects
  <2>2. CASE Closed(c)  BY <1>4, <2>2 DEF Closed, WsInv, WsTypeOK, Objects
  <2>3. CASE Retry(c)  BY <1>4, <2>3 DEF Retry, Connecting, WsInv, WsTypeOK, Objects
  <2>4. CASE Told(c)  BY <1>4, <2>4 DEF Told, WsInv, WsTypeOK, Objects
  <2>5. QED  BY <1>1, <2>1, <2>2, <2>3, <2>4
<1>7. (\A d \in Clients : ~Active(d)) => \A d \in Clients : ~Active(d)'
  BY <1>2, <1>5 DEF Active, Live
<1>8. current # None => client'[current].token = client[current].token
  BY <1>5, <1>6 DEF WsInv, WsTypeOK
<1>9. QED  BY <1>2, <1>3, <1>7, <1>8

LEMMA WsStep ==
  ASSUME WsInv, WsNext
  PROVE  WsInv'
<1>1. CASE UNCHANGED ws
  BY <1>1 DEF ws, WsInv, WsTypeOK, ClosingIsDeaf, ToldIsMute, OneConnection, Active, Live
<1>2. QED
  BY <1>1, EventKeeps, ConnectGameKeeps, DisconnectGameKeeps, UnloadKeeps DEF WsNext

-----------------------------------------------------------------------------
(* The types.  What an exchange sends and brings has been issued: that is  *)
(* what makes them inductive.                                              *)

Known == 0 .. issued

AuthOK    == auth \in [access : Known \cup {None}, refresh : Known \cup {None},
                       user : BOOLEAN, loading : BOOLEAN]
HeldOK    == stored \in Known \cup {None} /\ hooked \in Known \cup {None}
TrafficOK == /\ {flight, boot, login} \subseteq Exchanges \cup {None}
             /\ \A x \in {flight, boot, login} \ {None} :
                  x.token \in Known \cup {None} /\ x.pair \in Known \cup {None}
RequestOK == request \in [Slots -> Calls \cup {None}]
ServerOK  == /\ issued \in Pairs
             /\ {valid, expired, orphans, spent} \subseteq SUBSET Known
RestOK    == /\ playing \in BOOLEAN
             /\ left \in [{"calls", "expiries", "faults", "reloads", "turns"} -> Nat]
             /\ {twice, cut, ended} \subseteq BOOLEAN

Types == AuthOK /\ HeldOK /\ TrafficOK /\ RequestOK /\ ServerOK /\ RestOK

LEMMA TypesSuffice == WsInv /\ Types => TypeOK
<1>1. QED
  BY DEF WsInv, Types, TypeOK, AuthOK, HeldOK, TrafficOK, RequestOK, ServerOK, RestOK, Known

(* A token is a number, and null is none, nor an exchange or a call.       *)
LEMMA Sorts ==
  ASSUME Types
  PROVE  /\ issued \in Nat /\ Known \subseteq Pairs /\ Known \subseteq Nat
         /\ None \notin Known /\ None \notin Pairs
         /\ None \notin Exchanges /\ None \notin Calls
         /\ auth.access \in Known \cup {None} /\ auth.refresh \in Known \cup {None}
         /\ SignedOut \in [access : Known \cup {None}, refresh : Known \cup {None},
                           user : BOOLEAN, loading : BOOLEAN]
<1>1. issued \in Nat /\ Known \subseteq Pairs /\ Known \subseteq Nat /\ Pairs \subseteq Nat
  BY SessionAssumption DEF Types, ServerOK, Known, Pairs
<1>2. None \notin Nat /\ None \notin Exchanges /\ None \notin Calls
  BY NullAssumption, AbsentAssumption
<1>3. auth.access \in Known \cup {None} /\ auth.refresh \in Known \cup {None}
  BY DEF Types, AuthOK
<1>4. QED  BY <1>1, <1>2, <1>3 DEF SignedOut

LEMMA ExchangeType ==
  ASSUME Types, NEW token \in Known \cup {None}
  PROVE  /\ Exchange(token) \in Exchanges /\ Exchange(token) # None
         /\ Exchange(token).token = token /\ Exchange(token).at = "sent"
         /\ Exchange(token).pair = None
<1>1. token \in Pairs \cup {None}  BY Sorts
<1>2. Exchange(token) \in Exchanges  BY <1>1 DEF Exchange, Exchanges
<1>3. QED  BY <1>2, Sorts DEF Exchange

LEMMA AnsweredType ==
  ASSUME Types, NEW x \in Exchanges, NEW pair \in Pairs \cup {None}
  PROVE  /\ Answered(x, pair) \in Exchanges /\ Answered(x, pair) # None
         /\ Answered(x, pair).token = x.token /\ Answered(x, pair).at = "done"
         /\ Answered(x, pair).pair = pair
<1>1. Answered(x, pair) \in Exchanges  BY DEF Answered, Exchanges
<1>2. QED  BY <1>1, Sorts DEF Answered, Exchanges

(* The server's answer: a pair nobody has seen, or none.                   *)
LEMMA RotateType ==
  ASSUME Types, NEW token \in Known \cup {None}, NEW pair \in Pairs \cup {None},
         Rotate(token, pair)
  PROVE  /\ issued' \in Pairs /\ Known \subseteq Known'
         /\ valid' \subseteq Known' /\ pair \in Known' \cup {None} /\ pair \notin Known
         /\ None \notin Known'
<1>1. issued \in Nat /\ issued \in Pairs /\ valid \subseteq 0 .. issued
  BY Sorts DEF Types, ServerOK, Known
<1>2. None \notin Nat  BY NullAssumption
<1>3. CASE token # None /\ token \notin valid
  BY <1>1, <1>2, <1>3 DEF Rotate, Known
<1>4. CASE ~(token # None /\ token \notin valid)
  <2>1. /\ issued < MaxPairs /\ pair = issued + 1 /\ issued' = pair
        /\ valid' = (valid \ {token}) \cup {pair}
    BY <1>4 DEF Rotate
  <2>2. QED  BY <1>1, <1>2, <2>1, SessionAssumption DEF Known, Pairs
<1>5. QED  BY <1>3, <1>4

LEMMA MayType ==
  ASSUME Types, NEW act \in {"calls", "expiries", "faults", "reloads", "turns"}, May(act)
  PROVE  left' \in [{"calls", "expiries", "faults", "reloads", "turns"} -> Nat]
<1>1. left[act] \in Nat /\ left[act] - 1 \in Nat  BY DEF May, Types, RestOK
<1>2. QED  BY <1>1 DEF May, Types, RestOK

LEMMA SentType ==
  ASSUME Types, auth'.access \in Pairs \cup {None}, NEW again \in BOOLEAN
  PROVE  Sent(again) \in Calls /\ Sent(again) # None
<1>1. Sent(again) \in Calls  BY DEF Sent, Calls
<1>2. QED  BY <1>1, Sorts

LEMMA RequestAt ==
  ASSUME Types, NEW q \in Slots, request[q] # None,
         NEW at \in {"sent", "accepted", "denied", "failed", "waiting"},
         request' = [request EXCEPT ![q].at = at]
  PROVE  RequestOK'
<1>1. request[q] \in Calls  BY DEF Types, RequestOK
<1>2. [request[q] EXCEPT !.at = at] \in Calls  BY <1>1 DEF Calls
<1>3. QED  BY <1>2 DEF Types, RequestOK

LEMMA ClearedType ==
  ASSUME Types, ClearTokens, UNCHANGED issued
  PROVE  AuthOK' /\ stored' \in Known' \cup {None}
<1>1. Known' = Known  BY DEF Known
<1>2. QED  BY <1>1, Sorts DEF ClearTokens, AuthOK

LEMMA SetType ==
  ASSUME Types, NEW n \in Known, SetTokens(n), UNCHANGED issued
  PROVE  AuthOK' /\ stored' \in Known' \cup {None} /\ auth'.access = n
<1>1. Known' = Known  BY DEF Known
<1>2. QED  BY <1>1 DEF SetTokens, AuthOK, Types

(* The user's steps.                                                       *)
LEMMA CallTypes ==
  ASSUME Types, NEW q \in Requests \cup {"logout"}, Call(q)
  PROVE  Types'
<1>1. q \in Slots /\ UNCHANGED issued /\ Known' = Known  BY DEF Slots, Call, server, Known
<1>2. auth' = auth  BY DEF Call, tokens
<1>3. auth'.access \in Pairs \cup {None}  BY <1>2, Sorts
<1>4. Sent(FALSE) \in Calls  BY <1>3, SentType
<1>5. RequestOK'  BY <1>1, <1>4 DEF Call, Types, RequestOK
<1>6. RestOK'  BY MayType DEF Call, Types, RestOK
<1>7. QED
  BY <1>1, <1>5, <1>6 DEF Call, tokens, server, Types, AuthOK, HeldOK, TrafficOK, ServerOK

LEMMA LoginTypes ==
  ASSUME Types, Login
  PROVE  Types'
<1>1. UNCHANGED issued /\ Known' = Known  BY DEF Login, server, Known
<1>2. login' \in Exchanges /\ login'.token = None /\ login'.pair = None
  BY ExchangeType DEF Login
<1>3. TrafficOK'
  BY <1>1, <1>2 DEF Login, Types, TrafficOK
<1>4. RestOK'  BY MayType DEF Login, Types, RestOK
<1>5. QED
  BY <1>1, <1>3, <1>4 DEF Login, tokens, server, Types, AuthOK, HeldOK, RequestOK, ServerOK

LEMMA MistypeTypes ==
  ASSUME Types, Mistype
  PROVE  Types'
<1>1. UNCHANGED issued /\ Known' = Known  BY DEF Mistype, server, Known
<1>2. auth' = auth  BY DEF Mistype, tokens
<1>3. auth'.access \in Pairs \cup {None}  BY <1>2, Sorts
<1>4. Sent(FALSE) \in Calls  BY <1>3, SentType
<1>5. RequestOK'  BY <1>4 DEF Mistype, Types, RequestOK, Slots
<1>6. RestOK'  BY MayType DEF Mistype, Types, RestOK
<1>7. QED
  BY <1>1, <1>5, <1>6 DEF Mistype, tokens, server, Types, AuthOK, HeldOK, TrafficOK, ServerOK

LEMMA TurnTypes ==
  ASSUME Types, Turn
  PROVE  Types'
<1>1. Known' = Known  BY DEF Turn, server, Known
<1>2. RestOK'  BY MayType DEF Turn, history, Types, RestOK
<1>3. QED
  BY <1>1, <1>2
  DEF Turn, tokens, traffic, server, history, Types, AuthOK, HeldOK, TrafficOK, RequestOK, ServerOK

LEMMA ReloadTypes ==
  ASSUME Types, Reload
  PROVE  Types'
<1>1. issued' = issued /\ Known' = Known /\ stored' = stored  BY DEF Reload, Known
<1>2. stored \in Known \cup {None}  BY DEF Types, HeldOK
<1>3. AuthOK'
  <2>1. Loaded(stored) \in [access : Known \cup {None}, refresh : Known \cup {None},
                            user : BOOLEAN, loading : BOOLEAN]
    BY <1>2, Sorts DEF Loaded
  <2>2. QED  BY <1>1, <2>1 DEF Reload, AuthOK
<1>4. TrafficOK'
  <2>1. boot' = IF stored = None THEN None ELSE Exchange(stored)  BY DEF Reload, Booting
  <2>2. boot' # None => boot' \in Exchanges /\ boot'.token = stored /\ boot'.pair = None
    BY <1>2, <2>1, ExchangeType
  <2>3. flight' = None /\ login' = None  BY DEF Reload
  <2>4. QED  BY <1>1, <1>2, <2>2, <2>3 DEF TrafficOK
<1>5. RequestOK'  BY DEF Reload, RequestOK
<1>6. ServerOK'
  <2>1. orphans' \subseteq Known  BY DEF Reload, Types, TrafficOK, ServerOK
  <2>2. spent' \subseteq Known  BY <1>2 DEF Reload, Spend, Types, ServerOK
  <2>3. QED  BY <1>1, <2>1, <2>2 DEF Reload, Types, ServerOK
<1>7. RestOK'
  <2>1. twice' \in BOOLEAN /\ cut' \in BOOLEAN /\ ended' \in BOOLEAN
    BY DEF Reload, Spend, Types, RestOK
  <2>2. QED  BY <2>1, MayType DEF Reload, Types, RestOK
<1>8. HeldOK'  BY <1>1, <1>2 DEF Reload, HeldOK
<1>9. QED  BY <1>3, <1>4, <1>5, <1>6, <1>7, <1>8 DEF Types

(* The server's.                                                           *)
LEMMA ServeExchangeTypes ==
  ASSUME Types, ServeExchange
  PROVE  Types'
<1>1. PICK pair \in Pairs \cup {None} :
       \/ /\ flight # None /\ flight.at = "sent" /\ Rotate(flight.token, pair)
          /\ flight' = Answered(flight, pair) /\ UNCHANGED <<boot, login, orphans>>
       \/ /\ boot # None /\ boot.at = "sent" /\ Rotate(boot.token, pair)
          /\ boot' = Answered(boot, pair) /\ UNCHANGED <<flight, login, orphans>>
       \/ /\ login # None /\ login.at = "sent" /\ Rotate(None, pair)
          /\ login' = Answered(login, pair) /\ UNCHANGED <<flight, boot, orphans>>
       \/ \E t \in orphans : /\ Rotate(t, pair) /\ orphans' = orphans \ {t}
                             /\ UNCHANGED <<flight, boot, login>>
  BY DEF ServeExchange
<1>2. /\ UNCHANGED <<auth, stored, hooked, request, playing, expired, left, spent, twice, cut, ended>>
  BY DEF ServeExchange, tokens, history
<1>3. PICK token \in Known \cup {None} : Rotate(token, pair)
  BY <1>1 DEF Types, TrafficOK, ServerOK
<1>4. /\ issued' \in Pairs /\ Known \subseteq Known' /\ valid' \subseteq Known'
      /\ pair \in Known' \cup {None}
  BY <1>3, RotateType
<1>5. orphans' \subseteq orphans  BY <1>1
<1>6. ServerOK'  BY <1>2, <1>4, <1>5 DEF Types, ServerOK
<1>7. TrafficOK'
  <2>1. \A x \in {flight, boot, login} \ {None} :
          /\ Answered(x, pair) \in Exchanges /\ Answered(x, pair).token = x.token
          /\ Answered(x, pair).pair = pair
    BY AnsweredType DEF Types, TrafficOK
  <2>2. \A x \in {flight', boot', login'} \ {None} :
          /\ x \in Exchanges /\ x.token \in Known' \cup {None} /\ x.pair \in Known' \cup {None}
    BY <1>1, <1>4, <2>1 DEF Types, TrafficOK
  <2>3. QED  BY <2>2 DEF TrafficOK
<1>8. AuthOK' /\ HeldOK' /\ RequestOK' /\ RestOK'
  <2>1. AuthOK'  BY <1>2, <1>4 DEF Types, AuthOK
  <2>2. QED  BY <1>2, <1>4, <2>1 DEF Types, HeldOK, RequestOK, RestOK
<1>9. QED  BY <1>6, <1>7, <1>8 DEF Types

LEMMA ServeRequestTypes ==
  ASSUME Types, NEW q \in Slots, ServeRequest(q)
  PROVE  Types'
<1>1. Known' = Known  BY DEF ServeRequest, Known
<1>2. RequestOK'  BY RequestAt DEF ServeRequest
<1>3. ServerOK'  BY <1>1 DEF ServeRequest, history, Types, ServerOK
<1>4. QED
  BY <1>1, <1>2, <1>3
  DEF ServeRequest, tokens, history, Types, AuthOK, HeldOK, TrafficOK, RestOK

LEMMA ExpireTypes ==
  ASSUME Types, Expire
  PROVE  Types'
<1>1. Known' = Known  BY DEF Expire, Known
<1>2. ServerOK'  BY <1>1 DEF Expire, history, Types, ServerOK, Known
<1>3. RestOK'  BY MayType DEF Expire, history, Types, RestOK
<1>4. QED
  BY <1>1, <1>2, <1>3
  DEF Expire, tokens, traffic, Types, AuthOK, HeldOK, TrafficOK, RequestOK

LEMMA FaultTypes ==
  ASSUME Types, Fault
  PROVE  Types'
<1>1. UNCHANGED issued /\ Known' = Known  BY DEF Fault, server, Known
<1>2. RestOK'  BY MayType DEF Fault, Types, RestOK
<1>3. TrafficOK'
  <2>1. \A x \in {flight, boot, login} \ {None} :
          /\ Answered(x, None) \in Exchanges /\ Answered(x, None).token = x.token
          /\ Answered(x, None).pair = None
    BY AnsweredType DEF Types, TrafficOK
  <2>2. QED  BY <1>1, <2>1 DEF Fault, Types, TrafficOK
<1>4. RequestOK'
  <2>1. CASE UNCHANGED request  BY <2>1 DEF Types, RequestOK
  <2>2. CASE ~UNCHANGED request  BY <2>2, RequestAt DEF Fault
  <2>3. QED  BY <2>1, <2>2
<1>5. QED
  BY <1>1, <1>2, <1>3, <1>4 DEF Fault, tokens, server, Types, AuthOK, HeldOK, ServerOK

(* The answers.                                                            *)
LEMMA SettleTypes ==
  ASSUME Types, NEW q \in Slots, NEW ok \in BOOLEAN, Settle(q, ok), UNCHANGED issued
  PROVE  AuthOK' /\ stored' \in Known' \cup {None} /\ RequestOK'
<1>1. RequestOK'  BY DEF Settle, Types, RequestOK
<1>2. Known' = Known  BY DEF Known
<1>3. UNCHANGED auth => AuthOK'  BY <1>2 DEF Types, AuthOK
<1>4. UNCHANGED stored => stored' \in Known' \cup {None}  BY <1>2 DEF Types, HeldOK
<1>5. CASE q \in {"boot", "login"} /\ ok
  <2>1. /\ auth' = [auth EXCEPT !.user = TRUE, !.loading = @ /\ q = "login"]
        /\ UNCHANGED stored
    BY <1>5 DEF Settle
  <2>2. AuthOK'  BY <1>2, <2>1 DEF Types, AuthOK
  <2>3. QED  BY <1>1, <1>4, <2>1, <2>2
<1>6. CASE ~(q \in {"boot", "login"} /\ ok)
  <2>1. ClearTokens \/ UNCHANGED tokens  BY <1>6 DEF Settle
  <2>2. QED  BY <1>1, <1>3, <1>4, <2>1, ClearedType DEF tokens
<1>7. QED  BY <1>5, <1>6

LEMMA RefusedTypes ==
  ASSUME Types, NEW q \in Slots, request[q] # None, Refused(q), UNCHANGED <<issued, boot, login>>
  PROVE  /\ AuthOK' /\ stored' \in Known' \cup {None} /\ RequestOK' /\ TrafficOK'
         /\ spent' \subseteq Known' /\ twice' \in BOOLEAN /\ ended' \in BOOLEAN
<1>1. Known' = Known  BY DEF Known
<1>2. UNCHANGED auth => AuthOK'  BY <1>1 DEF Types, AuthOK
<1>3. UNCHANGED stored => stored' \in Known' \cup {None}  BY <1>1 DEF Types, HeldOK
<1>4. UNCHANGED flight => TrafficOK'  BY <1>1 DEF Types, TrafficOK
<1>5. RequestOK'
  <2>1. CASE request' = [request EXCEPT ![q].at = "waiting"]  BY <2>1, RequestAt
  <2>2. CASE request' = [request EXCEPT ![q] = None]  BY <2>2 DEF Types, RequestOK
  <2>3. QED  BY <2>1, <2>2 DEF Refused
<1>6. ended' \in BOOLEAN  BY DEF Refused, Types, RestOK
<1>7. CASE UNCHANGED <<flight, spent, twice>>
  <2>1. spent' \subseteq Known' /\ twice' \in BOOLEAN  BY <1>1, <1>7 DEF Types, ServerOK, RestOK
  <2>2. UNCHANGED tokens \/ ClearTokens  BY DEF Refused
  <2>3. QED  BY <1>2, <1>3, <1>4, <1>5, <1>6, <1>7, <2>1, <2>2, ClearedType DEF tokens
<1>8. CASE /\ auth.refresh # None /\ flight' = Exchange(auth.refresh)
           /\ Spend({auth.refresh}) /\ UNCHANGED tokens
  <2>1. auth.refresh \in Known  BY <1>8, Sorts
  <2>2. flight' \in Exchanges /\ flight'.token \in Known /\ flight'.pair = None
    BY <1>8, <2>1, ExchangeType
  <2>3. TrafficOK'  BY <1>1, <2>2 DEF Types, TrafficOK
  <2>4. spent' \subseteq Known' /\ twice' \in BOOLEAN
    BY <1>1, <1>8, <2>1 DEF Spend, Types, ServerOK, RestOK
  <2>5. QED  BY <1>2, <1>3, <1>5, <1>6, <1>8, <2>3, <2>4 DEF tokens
<1>9. QED  BY <1>7, <1>8 DEF Refused

LEMMA AnswerTypes ==
  ASSUME Types, NEW q \in Slots, Answer(q)
  PROVE  Types'
<1>1. /\ UNCHANGED <<boot, login, hooked, playing, issued, valid, expired, orphans, left, cut>>
      /\ request[q] # None
  BY DEF Answer, server
<1>2. Known' = Known  BY <1>1 DEF Known
<1>3. CASE Refused(q)
  <2>1. /\ AuthOK' /\ stored' \in Known' \cup {None} /\ RequestOK' /\ TrafficOK'
        /\ spent' \subseteq Known' /\ twice' \in BOOLEAN /\ ended' \in BOOLEAN
    BY <1>1, <1>3, RefusedTypes
  <2>2. QED  BY <1>1, <1>2, <2>1 DEF Types, HeldOK, ServerOK, RestOK
<1>4. CASE (\E ok \in BOOLEAN : Settle(q, ok)) /\ UNCHANGED <<flight, spent, twice, ended>>
  <2>1. AuthOK' /\ stored' \in Known' \cup {None} /\ RequestOK'  BY <1>1, <1>4, SettleTypes
  <2>2. TrafficOK'  BY <1>1, <1>2, <1>4 DEF Types, TrafficOK
  <2>3. QED  BY <1>1, <1>2, <1>4, <2>1, <2>2 DEF Types, HeldOK, ServerOK, RestOK
<1>5. QED  BY <1>3, <1>4 DEF Answer

LEMMA FlightReturnsTypes ==
  ASSUME Types, FlightReturns
  PROVE  Types'
<1>1. /\ UNCHANGED <<boot, login, hooked, playing, issued, valid, expired, orphans, left,
                     spent, twice, cut, ended>>
      /\ flight # None /\ flight' = None
  BY DEF FlightReturns, server, history
<1>2. Known' = Known  BY <1>1 DEF Known
<1>3. TrafficOK'  BY <1>1, <1>2 DEF Types, TrafficOK
<1>4. AuthOK' /\ stored' \in Known' \cup {None} /\ RequestOK'
  <2>1. CASE flight.pair # None
    <3>1. flight.pair \in Known  BY <1>1, <2>1 DEF Types, TrafficOK
    <3>2. /\ SetTokens(flight.pair)
          /\ request' = [q \in Slots |-> IF q \in Waiting THEN Sent(TRUE) ELSE request[q]]
      BY <2>1 DEF FlightReturns
    <3>3. AuthOK' /\ stored' \in Known' \cup {None} /\ auth'.access = flight.pair
      BY <1>1, <3>1, <3>2, SetType
    <3>4. auth'.access \in Pairs \cup {None}  BY <3>1, <3>3, Sorts
    <3>5. Sent(TRUE) \in Calls  BY <3>4, SentType
    <3>6. RequestOK'  BY <3>2, <3>5 DEF Types, RequestOK
    <3>7. QED  BY <3>3, <3>6
  <2>2. CASE flight.pair = None
    <3>1. /\ ClearTokens
          /\ request' = [q \in Slots |-> IF q \in Waiting THEN None ELSE request[q]]
      BY <2>2 DEF FlightReturns
    <3>2. RequestOK'  BY <3>1 DEF Types, RequestOK
    <3>3. QED  BY <1>1, <3>1, <3>2, ClearedType
  <2>3. QED  BY <2>1, <2>2
<1>5. QED  BY <1>1, <1>2, <1>3, <1>4 DEF Types, HeldOK, ServerOK, RestOK

LEMMA BootReturnsTypes ==
  ASSUME Types, BootReturns
  PROVE  Types'
<1>1. /\ UNCHANGED <<flight, login, hooked, playing, issued, valid, expired, orphans, left,
                     spent, twice, cut, ended>>
      /\ boot # None /\ boot' = None
  BY DEF BootReturns, server, history
<1>2. Known' = Known  BY <1>1 DEF Known
<1>3. TrafficOK'  BY <1>1, <1>2 DEF Types, TrafficOK
<1>4. AuthOK' /\ stored' \in Known' \cup {None} /\ RequestOK'
  <2>1. CASE boot.pair # None
    <3>1. boot.pair \in Known  BY <1>1, <2>1 DEF Types, TrafficOK
    <3>2. SetTokens(boot.pair) /\ request' = [request EXCEPT !["boot"] = Sent(FALSE)]
      BY <2>1 DEF BootReturns
    <3>3. AuthOK' /\ stored' \in Known' \cup {None} /\ auth'.access = boot.pair
      BY <1>1, <3>1, <3>2, SetType
    <3>4. auth'.access \in Pairs \cup {None}  BY <3>1, <3>3, Sorts
    <3>5. Sent(FALSE) \in Calls  BY <3>4, SentType
    <3>6. RequestOK'  BY <3>2, <3>5 DEF Types, RequestOK
    <3>7. QED  BY <3>3, <3>6
  <2>2. CASE boot.pair = None
    <3>1. ClearTokens /\ UNCHANGED request  BY <2>2 DEF BootReturns
    <3>2. RequestOK'  BY <3>1 DEF Types, RequestOK
    <3>3. QED  BY <1>1, <3>1, <3>2, ClearedType
  <2>3. QED  BY <2>1, <2>2
<1>5. QED  BY <1>1, <1>2, <1>3, <1>4 DEF Types, HeldOK, ServerOK, RestOK

LEMMA LoginReturnsTypes ==
  ASSUME Types, LoginReturns
  PROVE  Types'
<1>1. /\ UNCHANGED <<flight, boot, hooked, playing, issued, valid, expired, orphans, left,
                     spent, twice, cut, ended>>
      /\ login # None /\ login' = None
  BY DEF LoginReturns, server, history
<1>2. Known' = Known  BY <1>1 DEF Known
<1>3. TrafficOK'  BY <1>1, <1>2 DEF Types, TrafficOK
<1>4. AuthOK' /\ stored' \in Known' \cup {None} /\ RequestOK'
  <2>1. CASE login.pair # None
    <3>1. login.pair \in Known  BY <1>1, <2>1 DEF Types, TrafficOK
    <3>2. SetTokens(login.pair) /\ request' = [request EXCEPT !["login"] = Sent(FALSE)]
      BY <2>1 DEF LoginReturns
    <3>3. AuthOK' /\ stored' \in Known' \cup {None} /\ auth'.access = login.pair
      BY <1>1, <3>1, <3>2, SetType
    <3>4. auth'.access \in Pairs \cup {None}  BY <3>1, <3>3, Sorts
    <3>5. Sent(FALSE) \in Calls  BY <3>4, SentType
    <3>6. RequestOK'  BY <3>2, <3>5 DEF Types, RequestOK
    <3>7. QED  BY <3>3, <3>6
  <2>2. CASE login.pair = None
    <3>1. UNCHANGED <<auth, stored, request>>  BY <2>2 DEF LoginReturns, tokens
    <3>2. AuthOK'  BY <1>2, <3>1 DEF Types, AuthOK
    <3>3. QED  BY <1>2, <3>1, <3>2 DEF Types, HeldOK, RequestOK
  <2>3. QED  BY <2>1, <2>2
<1>5. QED  BY <1>1, <1>2, <1>3, <1>4 DEF Types, HeldOK, ServerOK, RestOK

LEMMA EffectTypes ==
  ASSUME Types, Effect
  PROVE  Types' /\ Wanted \in Known \cup {None}
<1>1. UNCHANGED <<tokens, traffic, playing, server, left, history>> /\ hooked' = Wanted
  BY DEF Effect
<1>2. Known' = Known /\ Wanted \in Known \cup {None}
  BY <1>1, Sorts DEF server, Known, Wanted
<1>3. QED
  BY <1>1, <1>2
  DEF tokens, traffic, server, history, Types, AuthOK, HeldOK, TrafficOK, RequestOK, ServerOK, RestOK

(* What the session leaves alone.                                          *)
rest == <<tokens, traffic, hooked, playing, server, left, history>>

LEMMA RestTypes ==
  ASSUME Types, UNCHANGED rest
  PROVE  Types'
<1>1. Known' = Known  BY DEF rest, server, Known
<1>2. QED
  BY <1>1
  DEF rest, tokens, traffic, server, history, Types, AuthOK, HeldOK, TrafficOK, RequestOK, ServerOK,
      RestOK

LEMMA TypesStep ==
  ASSUME Types, [Next]_vars
  PROVE  Types'
<1>1. CASE UNCHANGED vars  BY <1>1, RestTypes DEF vars, rest
<1>2. CASE \E c \in Clients : Open(c) \/ Close(c) \/ Tick(c) \/ Revoke(c)
  <2>1. UNCHANGED rest  BY <1>2 DEF Open, Close, Tick, Revoke, rest
  <2>2. QED  BY <2>1, RestTypes
<1>3. QED
  BY <1>1, <1>2, CallTypes, LoginTypes, MistypeTypes, TurnTypes, ReloadTypes,
     ServeExchangeTypes, ServeRequestTypes, ExpireTypes, FaultTypes, AnswerTypes,
     FlightReturnsTypes, BootReturnsTypes, LoginReturnsTypes, EffectTypes
  DEF Next

(* A step of the session is one of the clients', or leaves them alone.     *)
LEMMA AnswerWs ==
  ASSUME NEW q \in Slots, Answer(q)
  PROVE  UNCHANGED ws \/ DisconnectGame
<1>1. QED  BY DEF Answer, Settle, Refused

LEMMA SessionActsOnWs ==
  ASSUME Types, [Next]_vars
  PROVE  WsNext
<1>1. CASE UNCHANGED vars  BY <1>1 DEF vars, WsNext
<1>2. CASE \E c \in Clients : Open(c) \/ Close(c) \/ Tick(c) \/ Revoke(c)
  BY <1>2 DEF Open, Close, Tick, Revoke, WsNext, Event
<1>3. CASE Effect
  <2>1. Wanted # None => Wanted \in Nat  BY <1>3, EffectTypes, Sorts
  <2>2. QED  BY <1>3, <2>1 DEF Effect, WsNext
<1>4. CASE Reload  BY <1>4 DEF Reload, WsNext, Unload
<1>5. CASE \E q \in Slots : Answer(q)  BY <1>5, AnswerWs DEF WsNext
<1>6. CASE FlightReturns  BY <1>6 DEF FlightReturns, WsNext
<1>7. CASE \/ \E q \in Requests \cup {"logout"} : Call(q)
           \/ Login \/ Mistype \/ Turn
  BY <1>7 DEF Call, Login, Mistype, Turn, WsNext
<1>8. CASE \/ ServeExchange \/ Expire \/ Fault \/ BootReturns \/ LoginReturns
           \/ \E q \in Slots : ServeRequest(q)
  BY <1>8 DEF ServeExchange, Expire, Fault, BootReturns, LoginReturns, ServeRequest, WsNext
<1>9. QED  BY <1>1, <1>2, <1>3, <1>4, <1>5, <1>6, <1>7, <1>8 DEF Next

LEMMA TypesStart == Init => Types
<1> SUFFICES ASSUME Init  PROVE Types  OBVIOUS
<1>1. issued = 0 /\ 0 \in Pairs /\ Known = {0} /\ None # 0
  BY SessionAssumption, NullAssumption DEF Init, Known, Pairs
<1>2. AuthOK  BY <1>1 DEF Init, AuthOK, Loaded, SignedOut
<1>3. boot \in Exchanges /\ boot.token = 0 /\ boot.pair = None
  BY <1>1 DEF Init, Booting, Exchange, Exchanges
<1>4. TrafficOK  BY <1>1, <1>3 DEF Init, TrafficOK
<1>5. HeldOK /\ RequestOK /\ ServerOK  BY <1>1 DEF Init, HeldOK, RequestOK, ServerOK
<1>6. RestOK  BY SessionAssumption DEF Init, RestOK
<1>7. QED  BY <1>2, <1>4, <1>5, <1>6 DEF Types

(* Every state's variables have the values declared for them, those of the *)
(* clients and of the session; a token is never one that the server has    *)
(* not issued.                                                             *)
THEOREM TypesHold == Spec => []TypeOK
<1>1. Init => WsInv /\ Types  BY WsStarts, TypesStart DEF Init
<1>2. WsInv /\ Types /\ [Next]_vars => WsInv' /\ Types'
  BY SessionActsOnWs, WsStep, TypesStep
<1>3. WsInv /\ Types => TypeOK  BY TypesSuffice
<1>4. QED  BY <1>1, <1>2, <1>3, PTL DEF Spec

(* Of all the clients a tab ever made at most one has a live socket or a   *)
(* timer, it is the store's, and the pages show its state.                 *)
THEOREM OnlyOneConnects == Spec => []OneConnection
<1>1. Init => WsInv /\ Types  BY WsStarts, TypesStart DEF Init
<1>2. WsInv /\ Types /\ [Next]_vars => WsInv' /\ Types'
  BY SessionActsOnWs, WsStep, TypesStep
<1>3. WsInv => OneConnection  BY DEF WsInv
<1>4. QED  BY <1>1, <1>2, <1>3, PTL DEF Spec

(* A client that the server turned away has no timer and schedules none:   *)
(* no operation connects it again.                                         *)
THEOREM ToldStaysAway == Spec => ToldIsFinal
<1> DEFINE A == \A c \in Clients : client[c] # None /\ client[c].told /\ ~Attempts(c) => ~Attempts(c)'
<1>1. Init => WsInv /\ Types  BY WsStarts, TypesStart DEF Init
<1>2. WsInv /\ Types /\ [Next]_vars => WsInv' /\ Types'
  BY SessionActsOnWs, WsStep, TypesStep
<1>3. ASSUME WsInv, Types, [Next]_vars
      PROVE  [A]_ws
  <2> SUFFICES ASSUME NEW c \in Clients, client[c] # None, client[c].told, ~Attempts(c)
               PROVE  ~Attempts(c)'
    OBVIOUS
  <2>0. WsNext  BY <1>3, SessionActsOnWs
  <2>1. client[c] \in Objects /\ ~client[c].timer /\ client[c].socket # "connecting"
    BY <1>3 DEF WsInv, WsTypeOK, ToldIsMute, Attempts
  <2>2. CASE UNCHANGED ws  BY <2>2, <2>1 DEF ws, Attempts
  <2>3. CASE Unload  BY <2>3, <2>1 DEF Unload, Attempts, Objects
  <2>4. CASE DisconnectGame
    BY <2>4, <2>1, <1>3, DisconnectedObject DEF DisconnectGame, Attempts, WsInv, WsTypeOK
  <2>5. ASSUME NEW token \in Nat, ConnectGame(token)  PROVE ~Attempts(c)'
    <3>1. PICK d \in Unused :
            client' = [e \in Clients |-> IF e = d THEN New(token)
                                         ELSE IF e = current THEN Disconnected(client[e])
                                         ELSE client[e]]
      BY <2>5 DEF ConnectGame
    <3>2. c # d  BY <3>1 DEF Unused
    <3>3. client'[c] = IF c = current THEN Disconnected(client[c]) ELSE client[c]
      BY <3>1, <3>2
    <3>4. QED  BY <3>3, <2>1, DisconnectedObject DEF Attempts
  <2>6. CASE Event
    <3>1. PICK d \in Clients : Opened(d) \/ Closed(d) \/ Retry(d) \/ Told(d)  BY <2>6 DEF Event
    <3>2. d # c => client'[c] = client[c]
      BY <3>1, <1>3 DEF Opened, Closed, Retry, Told, WsInv, WsTypeOK
    <3>3. d = c => client'[c].socket # "connecting"
      BY <3>1, <2>1, <1>3 DEF Opened, Closed, Retry, Told, WsInv, WsTypeOK, Objects
    <3>4. QED  BY <3>2, <3>3, <2>1 DEF Attempts
  <2>7. QED  BY <2>0, <2>2, <2>3, <2>4, <2>5, <2>6 DEF WsNext
<1>4. QED  BY <1>1, <1>2, <1>3, PTL DEF Spec, ToldIsFinal

-----------------------------------------------------------------------------
(* The pairs of tokens.                                                    *)

PairOf(x) == IF x = None THEN None ELSE x.pair

(* A pair that an exchange brings is nowhere yet: it has not been sent, is *)
(* not the session's or the connection's, and no other exchange brings it. *)
ArrivalsAreNew ==
  /\ \A n \in {PairOf(flight), PairOf(boot), PairOf(login)} :
       n # None => n \notin spent \cup {auth.access, auth.refresh, hooked}
  /\ PairOf(flight) # None => PairOf(flight) \notin {PairOf(boot), PairOf(login)}
  /\ PairOf(boot) # None => PairOf(boot) # PairOf(login)

(* localStorage holds what the store does.                                 *)
StoredAgrees == stored = auth.refresh

(* The session's refresh token, if it has been sent, is under way; and the *)
(* page that sends it while loading makes no request that could be refused *)
(* and send it again.                                                      *)
SpentIsUnderWay ==
  /\ auth.refresh # None /\ auth.refresh \in spent =>
       \/ flight # None /\ flight.token = auth.refresh
       \/ boot # None /\ boot.token = auth.refresh
  /\ boot # None => boot.token \in spent
  /\ ~cut /\ boot # None /\ boot.token = auth.refresh =>
       ~auth.user /\ \A q \in Slots : request[q] = None

TokenInv == ArrivalsAreNew /\ StoredAgrees /\ SpentIsUnderWay /\ TokensAreUsedOnce

LEMMA ArrivalsKnown ==
  ASSUME Types
  PROVE  {PairOf(flight), PairOf(boot), PairOf(login)} \subseteq Known \cup {None}
<1>1. QED  BY DEF Types, TrafficOK, PairOf

(* Nothing new arrives, and nothing is used that the session has not.      *)
LEMMA ArrivalsKept ==
  ASSUME ArrivalsAreNew,
         PairOf(flight') \in {None, PairOf(flight)},
         PairOf(boot') \in {None, PairOf(boot)},
         PairOf(login') \in {None, PairOf(login)},
         spent' \subseteq spent \cup {auth.refresh},
         {auth'.access, auth'.refresh} \subseteq {None, auth.access, auth.refresh},
         hooked' \in {None, hooked, auth.access}
  PROVE  ArrivalsAreNew'
<1>1. ArrivalsAreNew' <=>
        /\ \A n \in {PairOf(flight'), PairOf(boot'), PairOf(login')} :
             n # None => n \notin spent' \cup {auth'.access, auth'.refresh, hooked'}
        /\ PairOf(flight') # None => PairOf(flight') \notin {PairOf(boot'), PairOf(login')}
        /\ PairOf(boot') # None => PairOf(boot') # PairOf(login')
  BY DEF ArrivalsAreNew, PairOf
<1> USE DEF ArrivalsAreNew
<1>2. QED  BY <1>1

(* One that returns becomes the session's.                                 *)
LEMMA ArrivalsTaken ==
  ASSUME ArrivalsAreNew, NEW n \in {PairOf(flight), PairOf(boot), PairOf(login)}, n # None,
         PairOf(flight') \in {None, PairOf(flight)} \ {n},
         PairOf(boot') \in {None, PairOf(boot)} \ {n},
         PairOf(login') \in {None, PairOf(login)} \ {n},
         UNCHANGED <<spent, hooked>>,
         auth'.access = n, auth'.refresh = n
  PROVE  ArrivalsAreNew'
<1>1. ArrivalsAreNew' <=>
        /\ \A m \in {PairOf(flight'), PairOf(boot'), PairOf(login')} :
             m # None => m \notin spent' \cup {auth'.access, auth'.refresh, hooked'}
        /\ PairOf(flight') # None => PairOf(flight') \notin {PairOf(boot'), PairOf(login')}
        /\ PairOf(boot') # None => PairOf(boot') # PairOf(login')
  BY DEF ArrivalsAreNew, PairOf
<1> USE DEF ArrivalsAreNew
<1>2. QED  BY <1>1

(* A step that leaves the tokens and what has been sent alone, and makes   *)
(* a request only where there is a user or another request.                *)
LEMMA TokensKept ==
  ASSUME TokenInv, UNCHANGED <<auth, stored, flight, boot, login, spent, twice, cut>>,
         hooked' \in {None, hooked, auth.access},
         \/ UNCHANGED request
         \/ auth.user
         \/ \E q \in Slots : request[q] # None
         \/ boot = None
  PROVE  TokenInv'
<1> USE DEF TokenInv
<1>1. ArrivalsAreNew'  BY ArrivalsKept
<1>2. StoredAgrees' /\ TokensAreUsedOnce'  BY DEF StoredAgrees, TokensAreUsedOnce
<1>3. SpentIsUnderWay'  BY DEF SpentIsUnderWay
<1>4. QED  BY <1>1, <1>2, <1>3

LEMMA ReloadTokens ==
  ASSUME Types, TokenInv, Reload
  PROVE  TokenInv'
<1> USE DEF TokenInv
<1>1. /\ auth' = Loaded(stored) /\ stored' = stored /\ flight' = None /\ login' = None
      /\ boot' = Booting(stored) /\ hooked' = None
      /\ spent' = spent \cup ({stored} \ {None})
      /\ twice' = (twice \/ spent \cap ({stored} \ {None}) # {})
      /\ request' = [q \in Slots |-> None]
  BY DEF Reload, Spend
<1>2. /\ auth'.refresh = stored /\ auth'.access = None /\ auth'.user = FALSE
      /\ stored \in Known \cup {None} /\ stored = auth.refresh
  BY <1>1 DEF Loaded, SignedOut, Types, HeldOK, StoredAgrees
<1>3. stored = None => boot' = None  BY <1>1 DEF Booting
<1>4. stored # None => boot' # None /\ boot'.token = stored /\ boot'.pair = None
  BY <1>1, <1>2, ExchangeType DEF Booting
<1>5. PairOf(boot') = None /\ PairOf(flight') = None /\ PairOf(login') = None
  BY <1>1, <1>3, <1>4 DEF PairOf
<1>6. ArrivalsAreNew'  BY <1>1, <1>2, <1>5, ArrivalsKept
<1>7. StoredAgrees'  BY <1>1, <1>2 DEF StoredAgrees
<1>8. SpentIsUnderWay'
  BY <1>1, <1>2, <1>3, <1>4 DEF SpentIsUnderWay
<1>9. TokensAreUsedOnce'
  <2>1. cut' = (cut \/ {x \in {flight, boot, login} : x # None} # {})  BY DEF Reload
  <2>2. CASE stored # None /\ stored \in spent
    <3>1. flight # None \/ boot # None  BY <1>2, <2>2 DEF SpentIsUnderWay
    <3>2. QED  BY <2>1, <3>1 DEF TokensAreUsedOnce
  <2>3. CASE ~(stored # None /\ stored \in spent)
    <3>1. twice' = twice  BY <1>1, <2>3, <1>1 DEF Types, RestOK
    <3>2. QED  BY <2>1, <3>1 DEF TokensAreUsedOnce
  <2>4. QED  BY <2>2, <2>3
<1>10. QED  BY <1>6, <1>7, <1>8, <1>9

LEMMA ServeExchangeTokens ==
  ASSUME Types, TokenInv, ServeExchange
  PROVE  TokenInv'
<1> USE DEF TokenInv
<1>1. PICK pair \in Pairs \cup {None} :
       \/ /\ flight # None /\ flight.at = "sent" /\ Rotate(flight.token, pair)
          /\ flight' = Answered(flight, pair) /\ UNCHANGED <<boot, login, orphans>>
       \/ /\ boot # None /\ boot.at = "sent" /\ Rotate(boot.token, pair)
          /\ boot' = Answered(boot, pair) /\ UNCHANGED <<flight, login, orphans>>
       \/ /\ login # None /\ login.at = "sent" /\ Rotate(None, pair)
          /\ login' = Answered(login, pair) /\ UNCHANGED <<flight, boot, orphans>>
       \/ \E t \in orphans : /\ Rotate(t, pair) /\ orphans' = orphans \ {t}
                             /\ UNCHANGED <<flight, boot, login>>
  BY DEF ServeExchange
<1>2. UNCHANGED <<auth, stored, hooked, request, spent, twice, cut>>
  BY DEF ServeExchange, tokens, history
<1>3. PICK token \in Known \cup {None} : Rotate(token, pair)
  BY <1>1 DEF Types, TrafficOK, ServerOK
<1>4. pair \notin Known  BY <1>3, RotateType
<1>5. pair \notin spent \cup ({auth.access, auth.refresh, hooked} \ {None})
  BY <1>4, Sorts DEF Types, HeldOK, ServerOK
<1>6. pair = None \/ pair \notin {PairOf(flight), PairOf(boot), PairOf(login)}
  BY <1>4, ArrivalsKnown
<1>7. \A x \in {flight, boot, login} \ {None} :
        /\ Answered(x, pair) # None /\ Answered(x, pair).token = x.token
        /\ PairOf(Answered(x, pair)) = pair
  BY AnsweredType DEF Types, TrafficOK, PairOf
<1>8. /\ flight # None <=> flight' # None
      /\ flight # None => flight'.token = flight.token
      /\ boot # None <=> boot' # None
      /\ boot # None => boot'.token = boot.token
  BY <1>1, <1>7
<1>9. \/ PairOf(flight') = pair /\ UNCHANGED <<boot, login>>
      \/ PairOf(boot') = pair /\ UNCHANGED <<flight, login>>
      \/ PairOf(login') = pair /\ UNCHANGED <<flight, boot>>
      \/ UNCHANGED <<flight, boot, login>>
  BY <1>1, <1>7
<1>10. ArrivalsAreNew'
  <2>1. ArrivalsAreNew' <=>
        /\ \A n \in {PairOf(flight'), PairOf(boot'), PairOf(login')} :
             n # None => n \notin spent \cup {auth.access, auth.refresh, hooked}
        /\ PairOf(flight') # None => PairOf(flight') \notin {PairOf(boot'), PairOf(login')}
        /\ PairOf(boot') # None => PairOf(boot') # PairOf(login')
    BY <1>2 DEF ArrivalsAreNew, PairOf
  <2>2. QED  BY <2>1, <1>5, <1>6, <1>9 DEF ArrivalsAreNew
<1>11. SpentIsUnderWay'  BY <1>2, <1>8 DEF SpentIsUnderWay
<1>12. QED  BY <1>2, <1>10, <1>11 DEF StoredAgrees, TokensAreUsedOnce

LEMMA FaultTokens ==
  ASSUME Types, TokenInv, Fault
  PROVE  TokenInv'
<1> USE DEF TokenInv
<1>1. UNCHANGED <<auth, stored, hooked, spent, twice, cut>>  BY DEF Fault, tokens
<1>2. \A x \in {flight, boot, login} \ {None} :
        /\ Answered(x, None) # None /\ Answered(x, None).token = x.token
        /\ PairOf(Answered(x, None)) = None
  BY AnsweredType DEF Types, TrafficOK, PairOf
<1>3. /\ flight # None <=> flight' # None
      /\ flight # None => flight'.token = flight.token
      /\ boot # None <=> boot' # None
      /\ boot # None => boot'.token = boot.token
      /\ PairOf(flight') \in {None, PairOf(flight)}
      /\ PairOf(boot') \in {None, PairOf(boot)}
      /\ PairOf(login') \in {None, PairOf(login)}
  BY <1>2 DEF Fault
<1>4. UNCHANGED request \/ \E q \in Slots : request[q] # None  BY DEF Fault
<1>5. ArrivalsAreNew'  BY <1>1, <1>3, ArrivalsKept
<1>6. SpentIsUnderWay'  BY <1>1, <1>3, <1>4 DEF SpentIsUnderWay
<1>7. QED  BY <1>1, <1>5, <1>6 DEF StoredAgrees, TokensAreUsedOnce

LEMMA MistypeTokens ==
  ASSUME Types, TokenInv, Mistype
  PROVE  TokenInv'
<1> USE DEF TokenInv
<1>1. UNCHANGED <<auth, stored, hooked, flight, boot, login, spent, twice>>
      /\ cut' = (cut \/ boot # None)
  BY DEF Mistype, tokens
<1>2. ArrivalsAreNew'  BY <1>1, ArrivalsKept
<1>3. SpentIsUnderWay'  BY <1>1 DEF SpentIsUnderWay
<1>4. QED  BY <1>1, <1>2, <1>3 DEF StoredAgrees, TokensAreUsedOnce

LEMMA LoginTokens ==
  ASSUME Types, TokenInv, Login
  PROVE  TokenInv'
<1> USE DEF TokenInv
<1>1. /\ UNCHANGED <<auth, stored, hooked, flight, boot, request, spent, twice, cut>>
      /\ login' = Exchange(None)
  BY DEF Login, tokens
<1>2. PairOf(login') = None  BY <1>1, ExchangeType DEF PairOf
<1>3. ArrivalsAreNew'  BY <1>1, <1>2, ArrivalsKept
<1>4. SpentIsUnderWay'  BY <1>1 DEF SpentIsUnderWay
<1>5. QED  BY <1>1, <1>3, <1>4 DEF StoredAgrees, TokensAreUsedOnce

(* A session that is cleared has no token at all.                          *)
LEMMA ClearedTokens ==
  ASSUME Types, TokenInv, ClearTokens, UNCHANGED <<login, hooked, spent, twice, cut>>,
         flight' \in {None, flight}, boot' \in {None, boot}
  PROVE  TokenInv'
<1> USE DEF TokenInv
<1>1. auth'.refresh = None /\ auth'.access = None /\ stored' = None
  BY DEF ClearTokens, SignedOut
<1>2. /\ PairOf(flight') \in {None, PairOf(flight)} /\ PairOf(boot') \in {None, PairOf(boot)}
      /\ PairOf(login') = PairOf(login)
  BY DEF PairOf
<1>3. ArrivalsAreNew'  BY <1>1, <1>2, ArrivalsKept
<1>4. boot' # None => boot'.token \in spent /\ boot'.token # None
  BY Sorts DEF SpentIsUnderWay, Types, ServerOK
<1>5. SpentIsUnderWay'  BY <1>1, <1>4 DEF SpentIsUnderWay
<1>6. QED  BY <1>1, <1>3, <1>5 DEF StoredAgrees, TokensAreUsedOnce

(* One that gets a new pair has one that was never sent.                   *)
LEMMA RenewedTokens ==
  ASSUME Types, TokenInv, NEW n \in {PairOf(flight), PairOf(boot), PairOf(login)}, n # None,
         SetTokens(n), UNCHANGED <<hooked, spent, twice, cut>>,
         PairOf(flight') \in {None, PairOf(flight)} \ {n},
         PairOf(boot') \in {None, PairOf(boot)} \ {n},
         PairOf(login') \in {None, PairOf(login)} \ {n},
         boot' \in {None, boot}
  PROVE  TokenInv'
<1> USE DEF TokenInv
<1>1. auth'.access = n /\ auth'.refresh = n /\ stored' = n
  BY DEF SetTokens, Types, AuthOK
<1>2. ArrivalsAreNew'  BY <1>1, ArrivalsTaken
<1>3. n \notin spent  BY DEF ArrivalsAreNew
<1>4. SpentIsUnderWay'  BY <1>1, <1>3 DEF SpentIsUnderWay
<1>5. QED  BY <1>1, <1>2, <1>4 DEF StoredAgrees, TokensAreUsedOnce

LEMMA SettleTokens ==
  ASSUME Types, TokenInv, NEW q \in Slots, NEW ok \in BOOLEAN, request[q] # None, Settle(q, ok),
         UNCHANGED <<flight, boot, login, hooked, spent, twice, cut>>
  PROVE  TokenInv'
<1>1. CASE q \in {"boot", "login"} /\ ok
  <2>1. auth' = [auth EXCEPT !.user = TRUE, !.loading = @ /\ q = "login"] /\ UNCHANGED stored
    BY <1>1 DEF Settle
  <2>2. auth'.access = auth.access /\ auth'.refresh = auth.refresh
    BY <2>1 DEF Types, AuthOK
  <2> USE DEF TokenInv
  <2>3. ArrivalsAreNew'  BY <2>2, ArrivalsKept
  <2>4. SpentIsUnderWay'  BY <2>2 DEF SpentIsUnderWay
  <2>5. QED  BY <2>1, <2>2, <2>3, <2>4 DEF StoredAgrees, TokensAreUsedOnce
<1>2. CASE ClearTokens  BY <1>2, ClearedTokens
<1>3. CASE UNCHANGED tokens  BY <1>3, TokensKept DEF tokens
<1>4. QED  BY <1>1, <1>2, <1>3 DEF Settle

(* A refused request sends the refresh token only where nobody has: if the *)
(* page that is loading has, no request of it can have been refused.       *)
LEMMA RefusedTokens ==
  ASSUME Types, TokenInv, NEW q \in Slots, request[q] # None, Refused(q),
         UNCHANGED <<boot, login, hooked, cut>>
  PROVE  TokenInv'
<1>1. CASE UNCHANGED <<tokens, flight, spent, twice>>  BY <1>1, TokensKept DEF tokens
<1>2. CASE ClearTokens /\ UNCHANGED <<flight, spent, twice>>  BY <1>2, ClearedTokens
<1>3. CASE /\ flight = None /\ auth.refresh # None /\ flight' = Exchange(auth.refresh)
           /\ Spend({auth.refresh}) /\ UNCHANGED tokens
  <2> USE DEF TokenInv
  <2>1. UNCHANGED <<auth, stored>>  BY <1>3 DEF tokens
  <2>2. flight' # None /\ flight'.token = auth.refresh /\ flight'.pair = None
    BY <1>3, ExchangeType, Sorts
  <2>3. PairOf(flight') = None  BY <2>2 DEF PairOf
  <2>4. spent' = spent \cup {auth.refresh} /\ twice' = (twice \/ spent \cap {auth.refresh} # {})
    BY <1>3 DEF Spend
  <2>5. ArrivalsAreNew'  BY <2>1, <2>3, <2>4, ArrivalsKept
  <2>6. SpentIsUnderWay'  BY <2>1, <2>2, <2>4 DEF SpentIsUnderWay
  <2>7. TokensAreUsedOnce'
    <3>1. CASE auth.refresh \in spent
      <4>1. boot # None /\ boot.token = auth.refresh  BY <1>3, <3>1 DEF SpentIsUnderWay
      <4>2. cut  BY <4>1 DEF SpentIsUnderWay, Types, RestOK
      <4>3. QED  BY <4>2 DEF TokensAreUsedOnce
    <3>2. CASE auth.refresh \notin spent
      <4>1. twice' = twice  BY <2>4, <3>2 DEF Types, RestOK
      <4>2. QED  BY <4>1 DEF TokensAreUsedOnce
    <3>3. QED  BY <3>1, <3>2
  <2>8. QED  BY <2>1, <2>5, <2>6, <2>7 DEF StoredAgrees
<1>4. QED  BY <1>1, <1>2, <1>3 DEF Refused

LEMMA AnswerTokens ==
  ASSUME Types, TokenInv, NEW q \in Slots, Answer(q)
  PROVE  TokenInv'
<1>1. UNCHANGED <<boot, login, hooked, cut>> /\ request[q] # None  BY DEF Answer
<1>2. CASE Refused(q)  BY <1>1, <1>2, RefusedTokens
<1>3. CASE (\E ok \in BOOLEAN : Settle(q, ok)) /\ UNCHANGED <<flight, spent, twice, ended>>
  BY <1>1, <1>3, SettleTokens
<1>4. QED  BY <1>2, <1>3 DEF Answer

LEMMA ReturnsTokens ==
  ASSUME Types, TokenInv, FlightReturns \/ BootReturns \/ LoginReturns
  PROVE  TokenInv'
<1>1. UNCHANGED <<hooked, spent, twice, cut>>
  BY DEF FlightReturns, BootReturns, LoginReturns, history
<1>2. PairOf(None) = None  BY DEF PairOf
<1>3. CASE FlightReturns
  <2>1. UNCHANGED <<boot, login>> /\ flight # None /\ flight' = None /\ PairOf(flight) = flight.pair
    BY <1>3 DEF FlightReturns, PairOf
  <2>2. CASE flight.pair # None
    <3>1. SetTokens(flight.pair)  BY <1>3, <2>2 DEF FlightReturns
    <3>2. /\ PairOf(boot') \in {None, PairOf(boot)} \ {flight.pair}
          /\ PairOf(login') \in {None, PairOf(login)} \ {flight.pair}
          /\ PairOf(flight') \in {None, PairOf(flight)} \ {flight.pair}
      BY <1>2, <2>1, <2>2 DEF TokenInv, ArrivalsAreNew
    <3>3. QED  BY <1>1, <2>1, <2>2, <3>1, <3>2, RenewedTokens
  <2>3. CASE flight.pair = None
    <3>1. ClearTokens  BY <1>3, <2>3 DEF FlightReturns
    <3>2. QED  BY <1>1, <2>1, <3>1, ClearedTokens
  <2>4. QED  BY <2>2, <2>3
<1>4. CASE BootReturns
  <2>1. UNCHANGED <<flight, login>> /\ boot # None /\ boot' = None /\ PairOf(boot) = boot.pair
    BY <1>4 DEF BootReturns, PairOf
  <2>2. CASE boot.pair # None
    <3>1. SetTokens(boot.pair)  BY <1>4, <2>2 DEF BootReturns
    <3>2. /\ PairOf(boot') \in {None, PairOf(boot)} \ {boot.pair}
          /\ PairOf(login') \in {None, PairOf(login)} \ {boot.pair}
          /\ PairOf(flight') \in {None, PairOf(flight)} \ {boot.pair}
      BY <1>2, <2>1, <2>2 DEF TokenInv, ArrivalsAreNew
    <3>3. QED  BY <1>1, <2>1, <2>2, <3>1, <3>2, RenewedTokens
  <2>3. CASE boot.pair = None
    <3>1. ClearTokens  BY <1>4, <2>3 DEF BootReturns
    <3>2. QED  BY <1>1, <2>1, <3>1, ClearedTokens
  <2>4. QED  BY <2>2, <2>3
<1>5. CASE LoginReturns
  <2>1. UNCHANGED <<flight, boot>> /\ login # None /\ login' = None /\ PairOf(login) = login.pair
    BY <1>5 DEF LoginReturns, PairOf
  <2>2. CASE login.pair # None
    <3>1. SetTokens(login.pair)  BY <1>5, <2>2 DEF LoginReturns
    <3>2. /\ PairOf(boot') \in {None, PairOf(boot)} \ {login.pair}
          /\ PairOf(login') \in {None, PairOf(login)} \ {login.pair}
          /\ PairOf(flight') \in {None, PairOf(flight)} \ {login.pair}
      BY <1>2, <2>1, <2>2 DEF TokenInv, ArrivalsAreNew
    <3>3. QED  BY <1>1, <2>1, <2>2, <3>1, <3>2, RenewedTokens
  <2>3. CASE login.pair = None
    <3>1. UNCHANGED <<auth, stored, request>>  BY <1>5, <2>3 DEF LoginReturns, tokens
    <3> USE DEF TokenInv
    <3>2. PairOf(login') = None
      BY <1>2, <2>1 DEF PairOf
    <3>3. PairOf(flight') = PairOf(flight) /\ PairOf(boot') = PairOf(boot)
      BY <2>1 DEF PairOf
    <3>4. ArrivalsAreNew'  BY <1>1, <3>1, <3>2, <3>3, ArrivalsKept
    <3>5. SpentIsUnderWay'  BY <1>1, <2>1, <3>1 DEF SpentIsUnderWay
    <3>6. QED  BY <1>1, <3>1, <3>4, <3>5 DEF StoredAgrees, TokensAreUsedOnce
  <2>4. QED  BY <2>2, <2>3
<1>6. QED  BY <1>3, <1>4, <1>5

LEMMA TokensStep ==
  ASSUME Types, TokenInv, [Next]_vars
  PROVE  TokenInv'
<1>1. CASE UNCHANGED vars
  BY <1>1, TokensKept DEF vars, tokens, traffic, history
<1>2. CASE \E c \in Clients : Open(c) \/ Close(c) \/ Tick(c) \/ Revoke(c)
  BY <1>2, TokensKept DEF Open, Close, Tick, Revoke, tokens, traffic, history
<1>3. CASE Effect
  BY <1>3, TokensKept DEF Effect, Wanted, tokens, traffic, history
<1>4. CASE \E q \in Requests \cup {"logout"} : Call(q)
  BY <1>4, TokensKept DEF Call, tokens
<1>5. CASE Turn \/ Expire \/ \E q \in Slots : ServeRequest(q)
  BY <1>5, TokensKept DEF Turn, Expire, ServeRequest, tokens, traffic, history
<1>6. QED
  BY <1>1, <1>2, <1>3, <1>4, <1>5, MistypeTokens, LoginTokens, ReloadTokens,
     ServeExchangeTokens, FaultTokens, AnswerTokens, ReturnsTokens
  DEF Next

LEMMA TokensStart == Init => TokenInv
<1> SUFFICES ASSUME Init  PROVE TokenInv  OBVIOUS
<1>1. Types /\ None # 0  BY TypesStart, NullAssumption
<1>2. auth.refresh = 0 /\ stored = 0 /\ auth.user = FALSE  BY DEF Init, Loaded, SignedOut
<1>3. boot = Exchange(0) /\ 0 \in Known  BY <1>1 DEF Init, Booting, Known
<1>4. boot # None /\ boot.token = 0 /\ boot.pair = None  BY <1>1, <1>3, ExchangeType
<1>5. PairOf(flight) = None /\ PairOf(boot) = None /\ PairOf(login) = None
  BY <1>4 DEF Init, PairOf
<1>6. ArrivalsAreNew  BY <1>5 DEF ArrivalsAreNew
<1>7. SpentIsUnderWay  BY <1>2, <1>4 DEF Init, SpentIsUnderWay
<1>8. QED  BY <1>2, <1>6, <1>7 DEF Init, TokenInv, StoredAgrees, TokensAreUsedOnce

(* No refresh token is sent twice, unless the page was left during an      *)
(* exchange of tokens or a password mistyped while it was loading.         *)
THEOREM NoTokenTwice == Spec => []TokensAreUsedOnce
<1>1. Init => Types /\ TokenInv  BY TypesStart, TokensStart
<1>2. Types /\ TokenInv /\ [Next]_vars => Types' /\ TokenInv'  BY TypesStep, TokensStep
<1>3. TokenInv => TokensAreUsedOnce  BY DEF TokenInv
<1>4. QED  BY <1>1, <1>2, <1>3, PTL DEF Spec

-----------------------------------------------------------------------------
(* The connection.                                                         *)

(* Without a token of the effect nothing is connected; while it has the    *)
(* session's token so has the store's client.                              *)
HookedAgrees ==
  /\ hooked = None => \A c \in Clients : ~Active(c)
  /\ hooked # None /\ auth.access = hooked => current # None /\ client[current].token = hooked

(* A step that does not touch the effect: the token of the session is the  *)
(* same, a new one or none, and a client that is disconnected goes with    *)
(* the session.                                                            *)
LEMMA HookKept ==
  ASSUME WsInv, HookedAgrees, UNCHANGED hooked,
         auth'.access \in {None, auth.access} \/ auth'.access # hooked,
         UNCHANGED ws \/ Event \/ (DisconnectGame /\ auth'.access = None)
  PROVE  HookedAgrees'
<1>1. HookedAgrees' <=>
        /\ hooked' = None => \A c \in Clients : ~Active(c)'
        /\ hooked' # None /\ auth'.access = hooked' => current' # None /\ client'[current'].token = hooked'
  BY DEF HookedAgrees, Active, Live
<1>2. CASE UNCHANGED ws
  <2>1. UNCHANGED <<client, current>> /\ \A c \in Clients : Active(c)' <=> Active(c)
    BY <1>2 DEF ws, Active, Live
  <2>2. QED  BY <1>1, <2>1 DEF HookedAgrees
<1>3. CASE Event
  <2>1. /\ UNCHANGED current
        /\ (\A c \in Clients : ~Active(c)) => \A c \in Clients : ~Active(c)'
        /\ current # None => client'[current].token = client[current].token
    BY <1>3, EventKeeps
  <2>2. QED  BY <1>1, <2>1 DEF HookedAgrees
<1>4. CASE DisconnectGame /\ auth'.access = None
  BY <1>1, <1>4, DisconnectGameKeeps
<1>5. QED  BY <1>2, <1>3, <1>4

LEMMA AnswerAccess ==
  ASSUME Types, NEW q \in Slots, Answer(q)
  PROVE  /\ auth'.access \in {None, auth.access}
         /\ UNCHANGED ws \/ (DisconnectGame /\ auth'.access = None)
<1>1. ClearTokens => auth'.access = None  BY DEF ClearTokens, SignedOut
<1>2. [auth EXCEPT !.user = TRUE, !.loading = @ /\ q = "login"].access = auth.access
  BY DEF Types, AuthOK
<1>3. UNCHANGED tokens => auth'.access = auth.access  BY DEF tokens
<1>4. ASSUME NEW ok \in BOOLEAN, Settle(q, ok)
      PROVE  /\ auth'.access \in {None, auth.access}
             /\ UNCHANGED ws \/ (DisconnectGame /\ auth'.access = None)
  BY <1>1, <1>2, <1>3, <1>4 DEF Settle
<1>5. ASSUME Refused(q)
      PROVE  /\ auth'.access \in {None, auth.access}
             /\ UNCHANGED ws \/ (DisconnectGame /\ auth'.access = None)
  BY <1>1, <1>3, <1>5 DEF Refused
<1>6. QED  BY <1>4, <1>5 DEF Answer

LEMMA ReturnsAccess ==
  ASSUME Types, TokenInv, FlightReturns \/ BootReturns \/ LoginReturns
  PROVE  /\ auth'.access \in {None, auth.access} \/ auth'.access # hooked
         /\ UNCHANGED ws \/ (DisconnectGame /\ auth'.access = None)
<1>1. ClearTokens => auth'.access = None  BY DEF ClearTokens, SignedOut
<1>2. ASSUME NEW n \in {PairOf(flight), PairOf(boot), PairOf(login)}, n # None, SetTokens(n)
      PROVE  auth'.access # hooked
  <2>1. auth'.access = n  BY <1>2 DEF SetTokens, Types, AuthOK
  <2>2. n # hooked  BY <1>2 DEF TokenInv, ArrivalsAreNew
  <2>3. QED  BY <2>1, <2>2
<1>3. CASE FlightReturns  BY <1>1, <1>2, <1>3 DEF FlightReturns, PairOf
<1>4. CASE BootReturns  BY <1>1, <1>2, <1>4 DEF BootReturns, PairOf
<1>5. CASE LoginReturns  BY <1>1, <1>2, <1>5 DEF LoginReturns, PairOf, tokens
<1>6. QED  BY <1>3, <1>4, <1>5

LEMMA HookedStep ==
  ASSUME WsInv, Types, TokenInv, HookedAgrees, [Next]_vars
  PROVE  HookedAgrees'
<1>1. CASE UNCHANGED vars  BY <1>1, HookKept DEF vars, tokens
<1>2. CASE \E c \in Clients : Open(c) \/ Close(c) \/ Tick(c) \/ Revoke(c)
  <2>1. Event /\ UNCHANGED <<auth, hooked>>
    BY <1>2 DEF Open, Close, Tick, Revoke, Event, tokens
  <2>2. QED  BY <2>1, HookKept
<1>3. CASE Effect
  <2>1. hooked' = Wanted /\ UNCHANGED auth  BY <1>3 DEF Effect, tokens
  <2>2. CASE Wanted = None
    <3>1. \A c \in Clients : ~Active(c)'  BY <1>3, <2>2, DisconnectGameKeeps DEF Effect
    <3>2. QED  BY <2>1, <2>2, <3>1 DEF HookedAgrees
  <2>3. CASE Wanted # None
    <3>1. Wanted \in Nat  BY <1>3, <2>3, EffectTypes, Sorts
    <3>2. current' # None /\ client'[current'].token = Wanted
      BY <1>3, <2>3, <3>1, ConnectGameKeeps DEF Effect
    <3>3. QED  BY <2>1, <2>3, <3>2 DEF HookedAgrees
  <2>4. QED  BY <2>2, <2>3
<1>4. CASE Reload
  <2>1. Unload /\ hooked' = None  BY <1>4 DEF Reload, Unload
  <2>2. QED  BY <2>1, UnloadKeeps DEF HookedAgrees
<1>5. CASE \E q \in Slots : Answer(q)
  <2>1. UNCHANGED hooked  BY <1>5 DEF Answer
  <2>2. QED  BY <1>5, <2>1, AnswerAccess, HookKept
<1>6. CASE FlightReturns \/ BootReturns \/ LoginReturns
  <2>1. UNCHANGED hooked  BY <1>6 DEF FlightReturns, BootReturns, LoginReturns
  <2>2. QED  BY <1>6, <2>1, ReturnsAccess, HookKept
<1>7. CASE \/ \E q \in Requests \cup {"logout"} : Call(q)
           \/ Login \/ Mistype \/ Turn
           \/ ServeExchange \/ Expire \/ Fault
           \/ \E q \in Slots : ServeRequest(q)
  <2>1. UNCHANGED <<ws, auth, hooked>>
    BY <1>7 DEF Call, Login, Mistype, Turn, ServeExchange, Expire, Fault, ServeRequest, tokens
  <2>2. QED  BY <2>1, HookKept
<1>8. QED  BY <1>1, <1>2, <1>3, <1>4, <1>5, <1>6, <1>7 DEF Next

(* When the effect has run, the store's client has the session's access    *)
(* token, and without a session no client has a socket or a timer.         *)
THEOREM ConnectionIsTheSessions == Spec => []ConnectionFollowsSession
<1> DEFINE Inv == WsInv /\ Types /\ TokenInv /\ HookedAgrees
<1>1. Init => Inv
  <2> SUFFICES ASSUME Init  PROVE Inv  OBVIOUS
  <2>1. WsInv /\ Types /\ TokenInv  BY WsStarts, TypesStart, TokensStart DEF Init
  <2>2. hooked = None /\ \A c \in Clients : ~Active(c)  BY DEF Init, WsInit, Active, Live
  <2>3. QED  BY <2>1, <2>2 DEF HookedAgrees
<1>2. Inv /\ [Next]_vars => Inv'
  BY SessionActsOnWs, WsStep, TypesStep, TokensStep, HookedStep
<1>3. Inv => ConnectionFollowsSession
  BY Sorts DEF HookedAgrees, ConnectionFollowsSession, Wanted
<1>4. QED  BY <1>1, <1>2, <1>3, PTL DEF Spec

-----------------------------------------------------------------------------
(* The session.                                                            *)

(* An exchange sends the session's refresh token, the one that the server  *)
(* takes, or brings the one that the server takes from now on.             *)
Outcome(x) == IF x.at = "sent" THEN x.token = auth.refresh /\ valid = {auth.refresh}
              ELSE x.pair # None /\ valid = {x.pair}

(* As long as nothing that may end the session has happened, the server    *)
(* takes one refresh token, the session's or the one under way to it; a    *)
(* page that loads makes no other request before its refresh is answered,  *)
(* and its /auth/me has a token that does not expire under it.             *)
NothingElse == /\ login = None /\ orphans = {}
               /\ request["login"] = None /\ request["logout"] = None
               /\ auth.refresh # None
Loading     == boot # None => /\ flight = None /\ ~auth.user /\ auth.loading
                              /\ boot.pair \notin expired
                              /\ \A q \in Slots : request[q] = None
                              /\ Outcome(boot)
Refreshing  == /\ flight # None => Outcome(flight)
               /\ boot = None /\ flight = None => valid = {auth.refresh}
Identifying == /\ request["boot"] # None => /\ auth.loading
                                            /\ request["boot"].at \in {"sent", "accepted"}
                                            /\ request["boot"].token \notin expired \cup {None}
               /\ auth.user \/ boot # None \/ request["boot"] # None

Unbroken    == NothingElse /\ Loading /\ Refreshing /\ Identifying
SurvivalInv == ~ended => Unbroken

LEMMA SlotsApart ==
  /\ {"boot", "login", "logout", "mistyped"} \subseteq Slots
  /\ Requests \subseteq Slots
  /\ \A q \in Requests : q \notin {"boot", "login", "logout", "mistyped"}
<1>1. QED  BY SessionAssumption DEF Slots

(* A step of a request that is neither the loading page's, the login's nor *)
(* the logout's.                                                           *)
LEMMA UnbrokenKept ==
  ASSUME Unbroken, UNCHANGED <<auth, flight, boot, login, valid, expired, orphans>>,
         boot = None \/ UNCHANGED request,
         \A q \in {"boot", "login", "logout"} : request'[q] = request[q]
  PROVE  Unbroken'
<1>1. NothingElse' /\ Identifying'  BY DEF Unbroken, NothingElse, Identifying
<1>2. Loading' /\ Refreshing'  BY DEF Unbroken, Loading, Refreshing, Outcome
<1>3. QED  BY <1>1, <1>2 DEF Unbroken

LEMMA CallSurvives ==
  ASSUME Types, Unbroken, NEW q \in Requests \cup {"logout"}, Call(q), ~ended'
  PROVE  Unbroken'
<1>1. /\ q \in Requests /\ auth.user /\ request' = [request EXCEPT ![q] = Sent(FALSE)]
      /\ UNCHANGED <<auth, flight, boot, login, valid, expired, orphans>>
  BY DEF Call, tokens, server
<1>2. boot = None  BY <1>1 DEF Unbroken, Loading
<1>3. \A p \in {"boot", "login", "logout"} : request'[p] = request[p]
  BY <1>1, SlotsApart DEF Types, RequestOK
<1>4. QED  BY <1>1, <1>2, <1>3, UnbrokenKept

LEMMA MistypeSurvives ==
  ASSUME Types, Unbroken, Mistype, ~ended'
  PROVE  Unbroken'
<1>1. /\ boot = None /\ request' = [request EXCEPT !["mistyped"] = Sent(FALSE)]
      /\ UNCHANGED <<auth, flight, boot, login, valid, expired, orphans>>
  BY DEF Mistype, tokens, server
<1>2. \A p \in {"boot", "login", "logout"} : request'[p] = request[p]
  BY <1>1, SlotsApart DEF Types, RequestOK
<1>3. QED  BY <1>1, <1>2, UnbrokenKept

LEMMA ReloadSurvives ==
  ASSUME Types, StoredAgrees, Unbroken, Reload, ~ended'
  PROVE  Unbroken'
<1>1. flight = None /\ boot = None /\ login = None
  <2>1. {x \in {flight, boot, login} : x # None} = {}  BY DEF Reload
  <2>2. QED  BY <2>1
<1>2. valid = {stored} /\ stored # None /\ stored \in Known /\ orphans = {}
  BY <1>1 DEF Unbroken, Refreshing, NothingElse, StoredAgrees, Types, HeldOK
<1>3. /\ auth' = Loaded(stored) /\ boot' = Booting(stored) /\ flight' = None /\ login' = None
      /\ request' = [q \in Slots |-> None] /\ UNCHANGED <<valid, expired>>
  BY DEF Reload
<1>4. orphans' = {}
  <2>1. orphans' = orphans \cup {x.token : x \in {y \in {z \in {flight, boot, login} : z # None} :
                                                    y.at = "sent" /\ y.token # None}}
    BY DEF Reload
  <2>2. {z \in {flight, boot, login} : z # None} = {}  BY <1>1
  <2>3. QED  BY <2>1, <2>2, <1>2
<1>5. auth'.refresh = stored /\ auth'.user = FALSE /\ auth'.loading = TRUE
  BY <1>2, <1>3 DEF Loaded, SignedOut
<1>6. boot' # None /\ boot'.at = "sent" /\ boot'.token = stored /\ boot'.pair = None
  BY <1>2, <1>3, ExchangeType DEF Booting
<1>7. None \notin expired  BY Sorts DEF Types, ServerOK
<1>8. NothingElse' /\ Refreshing' /\ Identifying'
  BY <1>2, <1>3, <1>4, <1>5, <1>6, SlotsApart DEF NothingElse, Refreshing, Identifying
<1>9. Loading'
  BY <1>2, <1>3, <1>5, <1>6, <1>7, SlotsApart DEF Loading, Outcome
<1>10. QED  BY <1>8, <1>9 DEF Unbroken

(* The exchange of the one token that is valid leaves the one it brings.   *)
LEMMA RotateValid ==
  ASSUME Types, NEW token \in Known, NEW pair \in Pairs \cup {None}, Rotate(token, pair),
         valid = {token}
  PROVE  pair # None /\ valid' = {pair}
<1>1. pair = issued + 1 /\ valid' = (valid \ {token}) \cup {pair} /\ issued + 1 \in Nat
  BY Sorts DEF Rotate
<1>2. QED  BY <1>1, NullAssumption

LEMMA ServeExchangeSurvives ==
  ASSUME Types, Unbroken, ServeExchange
  PROVE  Unbroken'
<1>1. PICK pair \in Pairs \cup {None} :
       \/ /\ flight # None /\ flight.at = "sent" /\ Rotate(flight.token, pair)
          /\ flight' = Answered(flight, pair) /\ UNCHANGED <<boot, login, orphans>>
       \/ /\ boot # None /\ boot.at = "sent" /\ Rotate(boot.token, pair)
          /\ boot' = Answered(boot, pair) /\ UNCHANGED <<flight, login, orphans>>
       \/ /\ login # None /\ login.at = "sent" /\ Rotate(None, pair)
          /\ login' = Answered(login, pair) /\ UNCHANGED <<flight, boot, orphans>>
       \/ \E t \in orphans : /\ Rotate(t, pair) /\ orphans' = orphans \ {t}
                             /\ UNCHANGED <<flight, boot, login>>
  BY DEF ServeExchange
<1>2. UNCHANGED <<auth, request, expired>>  BY DEF ServeExchange, tokens
<1>3. login = None /\ orphans = {} /\ auth.refresh \in Known
  BY Sorts DEF Unbroken, NothingElse
<1>4. \A x \in {flight, boot, login} \ {None} :
        /\ Answered(x, pair) # None /\ Answered(x, pair).at = "done"
        /\ Answered(x, pair).pair = pair
  BY AnsweredType DEF Types, TrafficOK
<1>5. CASE /\ flight # None /\ flight.at = "sent" /\ Rotate(flight.token, pair)
           /\ flight' = Answered(flight, pair) /\ UNCHANGED <<boot, login, orphans>>
  <2>1. flight.token = auth.refresh /\ valid = {auth.refresh} /\ boot = None
    BY <1>5 DEF Unbroken, Refreshing, Loading, Outcome
  <2>2. pair # None /\ valid' = {pair}  BY <1>3, <1>5, <2>1, RotateValid
  <2>3. flight' # None /\ flight'.at = "done" /\ flight'.pair = pair  BY <1>4, <1>5
  <2>4. NothingElse' /\ Identifying'
    BY <1>2, <1>5 DEF Unbroken, NothingElse, Identifying
  <2>5. Loading'  BY <1>5, <2>1 DEF Loading
  <2>6. Refreshing'  BY <2>2, <2>3 DEF Refreshing, Outcome
  <2>7. QED  BY <2>4, <2>5, <2>6 DEF Unbroken
<1>6. CASE /\ boot # None /\ boot.at = "sent" /\ Rotate(boot.token, pair)
           /\ boot' = Answered(boot, pair) /\ UNCHANGED <<flight, login, orphans>>
  <2>1. boot.token = auth.refresh /\ valid = {auth.refresh} /\ flight = None
    BY <1>6 DEF Unbroken, Loading, Outcome
  <2>2. pair # None /\ valid' = {pair}  BY <1>3, <1>6, <2>1, RotateValid
  <2>3. boot' # None /\ boot'.at = "done" /\ boot'.pair = pair  BY <1>4, <1>6
  <2>4. NothingElse' /\ Identifying'
    BY <1>2, <1>6, <2>3 DEF Unbroken, NothingElse, Identifying
  <2>5. pair \notin expired
    <3>1. pair \notin Known  BY <1>3, <1>6, <2>1, RotateType
    <3>2. QED  BY <3>1 DEF Types, ServerOK
  <2>6. Loading'  BY <1>2, <1>6, <2>2, <2>3, <2>5 DEF Unbroken, Loading, Outcome
  <2>7. Refreshing'  BY <1>6, <2>1, <2>3 DEF Refreshing
  <2>8. QED  BY <2>4, <2>6, <2>7 DEF Unbroken
<1>7. QED  BY <1>1, <1>3, <1>5, <1>6

LEMMA ExpireSurvives ==
  ASSUME Types, Unbroken, Expire
  PROVE  Unbroken'
<1>1. /\ ~auth.loading
      /\ UNCHANGED <<auth, flight, boot, login, request, valid, orphans>>
  BY DEF Expire, tokens, traffic
<1>2. boot = None /\ request["boot"] = None  BY <1>1 DEF Unbroken, Loading, Identifying
<1>3. QED
  BY <1>1, <1>2 DEF Unbroken, NothingElse, Loading, Refreshing, Identifying, Outcome

LEMMA ServeRequestSurvives ==
  ASSUME Types, Unbroken, NEW q \in Slots, ServeRequest(q)
  PROVE  Unbroken'
<1>1. request[q] # None /\ UNCHANGED <<auth, flight, boot, login, expired, orphans>>
  BY DEF ServeRequest, tokens
<1>2. boot = None /\ q \notin {"login", "logout"}
  BY <1>1 DEF Unbroken, NothingElse, Loading
<1>3. valid' = valid  BY <1>2 DEF ServeRequest
<1>4. CASE q # "boot"
  <2>1. \A p \in {"boot", "login", "logout"} : request'[p] = request[p]
    BY <1>2, <1>4, SlotsApart DEF ServeRequest, Types, RequestOK
  <2>2. QED  BY <1>1, <1>2, <1>3, <2>1, UnbrokenKept
<1>5. CASE q = "boot"
  <2>1. /\ request["boot"].token \notin expired \cup {None}
        /\ request["boot"] \in Calls /\ auth.loading
    BY <1>1, <1>5 DEF Unbroken, Identifying, Types, RequestOK
  <2>2. request' = [request EXCEPT !["boot"].at = "accepted"]
    BY <1>5, <2>1 DEF ServeRequest
  <2>3. /\ request'["boot"].at = "accepted" /\ request'["boot"].token = request["boot"].token
        /\ request'["login"] = request["login"] /\ request'["logout"] = request["logout"]
    BY <2>1, <2>2, SlotsApart DEF Types, RequestOK, Calls
  <2>4. request'["boot"] # None
    <3>1. [request["boot"] EXCEPT !.at = "accepted"] \in Calls  BY <2>1 DEF Calls
    <3>2. QED  BY <2>2, <3>1, SlotsApart, Sorts DEF Types, RequestOK
  <2>5. NothingElse' /\ Identifying'
    BY <1>1, <2>1, <2>3, <2>4 DEF Unbroken, NothingElse, Identifying
  <2>6. Loading' /\ Refreshing'
    BY <1>1, <1>2, <1>3 DEF Unbroken, Loading, Refreshing, Outcome
  <2>7. QED  BY <2>5, <2>6 DEF Unbroken
<1>6. QED  BY <1>4, <1>5

LEMMA AnswerSurvives ==
  ASSUME Types, Unbroken, NEW q \in Slots, Answer(q)
  PROVE  Unbroken'
<1>1. request[q] # None /\ UNCHANGED <<boot, login, valid, expired, orphans>>
  BY DEF Answer, server
<1>2. boot = None /\ q \notin {"login", "logout"}
  BY <1>1 DEF Unbroken, NothingElse, Loading
<1>3. CASE q = "boot"
  <2>1. request["boot"].at \in {"sent", "accepted"}
    BY <1>1, <1>3 DEF Unbroken, Identifying
  <2>2. Settle("boot", TRUE) /\ UNCHANGED flight  BY <1>3, <2>1 DEF Answer
  <2>3. /\ request' = [request EXCEPT !["boot"] = None]
        /\ auth' = [auth EXCEPT !.user = TRUE, !.loading = @ /\ "boot" = "login"]
    BY <2>2 DEF Settle
  <2>4. auth'.user = TRUE /\ auth'.refresh = auth.refresh  BY <2>3 DEF Types, AuthOK
  <2>5. /\ request'["boot"] = None /\ request'["login"] = request["login"]
        /\ request'["logout"] = request["logout"]
    BY <2>3, SlotsApart DEF Types, RequestOK
  <2>6. NothingElse' /\ Identifying'
    BY <1>1, <2>4, <2>5 DEF Unbroken, NothingElse, Identifying
  <2>7. Loading' /\ Refreshing'
    BY <1>1, <1>2, <2>2, <2>4 DEF Unbroken, Loading, Refreshing, Outcome
  <2>8. QED  BY <2>6, <2>7 DEF Unbroken
<1>4. CASE q # "boot"
  <2>1. \A p \in {"boot", "login", "logout"} :
          /\ [request EXCEPT ![q] = None][p] = request[p]
          /\ [request EXCEPT ![q].at = "waiting"][p] = request[p]
    BY <1>2, <1>4, SlotsApart DEF Types, RequestOK
  <2>2. ASSUME NEW ok \in BOOLEAN, Settle(q, ok), UNCHANGED flight
        PROVE  Unbroken'
    <3>1. UNCHANGED auth /\ request' = [request EXCEPT ![q] = None]
      BY <1>2, <1>4, <2>2 DEF Settle, tokens
    <3>2. QED  BY <1>1, <1>2, <2>1, <2>2, <3>1, UnbrokenKept
  <2>3. ASSUME Refused(q)  PROVE Unbroken'
    <3>1. /\ auth.refresh # None /\ UNCHANGED auth
          /\ request' = [request EXCEPT ![q].at = "waiting"]
      BY <2>3 DEF Unbroken, NothingElse, Refused, tokens
    <3>2. CASE UNCHANGED flight  BY <1>1, <1>2, <2>1, <3>1, <3>2, UnbrokenKept
    <3>3. CASE flight = None /\ flight' = Exchange(auth.refresh)
      <4>1. valid = {auth.refresh}  BY <1>2, <3>3 DEF Unbroken, Refreshing
      <4>2. flight' # None /\ flight'.at = "sent" /\ flight'.token = auth.refresh
        BY <3>3, ExchangeType, Sorts
      <4>3. NothingElse' /\ Identifying'
        BY <1>1, <2>1, <3>1 DEF Unbroken, NothingElse, Identifying
      <4>4. Loading' /\ Refreshing'
        BY <1>1, <1>2, <3>1, <4>1, <4>2 DEF Loading, Refreshing, Outcome
      <4>5. QED  BY <4>3, <4>4 DEF Unbroken
    <3>4. QED  BY <2>3, <3>1, <3>2, <3>3 DEF Refused
  <2>4. QED  BY <2>2, <2>3 DEF Answer
<1>5. QED  BY <1>3, <1>4

LEMMA FlightReturnsSurvives ==
  ASSUME Types, Unbroken, FlightReturns
  PROVE  Unbroken'
<1>1. /\ flight # None /\ flight.at = "done" /\ flight' = None
      /\ UNCHANGED <<boot, login, valid, expired, orphans>>
  BY DEF FlightReturns, server
<1>2. boot = None /\ flight.pair # None /\ valid = {flight.pair}
  BY <1>1 DEF Unbroken, Loading, Refreshing, Outcome
<1>3. /\ SetTokens(flight.pair)
      /\ request' = [q \in Slots |-> IF q \in Waiting THEN Sent(TRUE) ELSE request[q]]
  BY <1>2 DEF FlightReturns
<1>4. /\ auth'.refresh = flight.pair /\ auth'.user = auth.user /\ auth'.loading = auth.loading
  BY <1>3 DEF SetTokens, Types, AuthOK
<1>5. {"boot", "login", "logout"} \cap Waiting = {}
  BY DEF Unbroken, NothingElse, Identifying, Waiting
<1>6. \A p \in {"boot", "login", "logout"} : request'[p] = request[p]
  BY <1>3, <1>5, SlotsApart
<1>7. NothingElse' /\ Identifying'
  BY <1>1, <1>2, <1>4, <1>6 DEF Unbroken, NothingElse, Identifying
<1>8. Loading' /\ Refreshing'  BY <1>1, <1>2, <1>4 DEF Loading, Refreshing
<1>9. QED  BY <1>7, <1>8 DEF Unbroken

LEMMA BootReturnsSurvives ==
  ASSUME Types, Unbroken, BootReturns
  PROVE  Unbroken'
<1>1. /\ boot # None /\ boot.at = "done" /\ boot' = None
      /\ UNCHANGED <<flight, login, valid, expired, orphans>>
  BY DEF BootReturns, server
<1>2. /\ flight = None /\ auth.loading /\ boot.pair \notin expired
      /\ boot.pair # None /\ valid = {boot.pair}
  BY <1>1 DEF Unbroken, Loading, Outcome
<1>3. SetTokens(boot.pair) /\ request' = [request EXCEPT !["boot"] = Sent(FALSE)]
  BY <1>2 DEF BootReturns
<1>4. auth'.refresh = boot.pair /\ auth'.access = boot.pair /\ auth'.loading = auth.loading
  BY <1>3 DEF SetTokens, Types, AuthOK
<1>5. boot.pair \in Pairs  BY <1>1, <1>2, Sorts DEF Types, TrafficOK
<1>6. Sent(FALSE) # None /\ Sent(FALSE).at = "sent" /\ Sent(FALSE).token = boot.pair
  BY <1>4, <1>5, SentType DEF Sent
<1>7. /\ request'["boot"] = Sent(FALSE) /\ request'["login"] = request["login"]
      /\ request'["logout"] = request["logout"]
  BY <1>3, SlotsApart DEF Types, RequestOK
<1>8. NothingElse' /\ Identifying'
  BY <1>1, <1>2, <1>4, <1>6, <1>7 DEF Unbroken, NothingElse, Identifying
<1>9. Loading' /\ Refreshing'  BY <1>1, <1>2, <1>4 DEF Loading, Refreshing
<1>10. QED  BY <1>8, <1>9 DEF Unbroken

LEMMA SurvivalStep ==
  ASSUME Types, TokenInv, SurvivalInv, [Next]_vars
  PROVE  SurvivalInv'
<1> SUFFICES ASSUME ~ended'  PROVE Unbroken'  BY DEF SurvivalInv
<1>1. ~ended
  BY DEF Next, vars, history, Call, Login, Mistype, Turn, Reload, ServeExchange, Expire, Fault,
         ServeRequest, Answer, Refused, FlightReturns, BootReturns, LoginReturns, Effect,
         Open, Close, Tick, Revoke
<1>2. Unbroken  BY <1>1 DEF SurvivalInv
<1>3. CASE UNCHANGED <<auth, flight, boot, login, request, valid, expired, orphans>>
  BY <1>2, <1>3, UnbrokenKept
<1>4. CASE \/ UNCHANGED vars \/ Turn \/ Effect
           \/ \E c \in Clients : Open(c) \/ Close(c) \/ Tick(c) \/ Revoke(c)
  BY <1>3, <1>4 DEF vars, Turn, Effect, Open, Close, Tick, Revoke, tokens, traffic, server
<1>5. CASE LoginReturns  BY <1>2, <1>5 DEF LoginReturns, Unbroken, NothingElse
<1>6. CASE Login \/ Fault  BY <1>6 DEF Login, Fault
<1>7. CASE Reload  BY <1>2, <1>7, ReloadSurvives DEF TokenInv
<1>8. QED
  BY <1>2, <1>4, <1>5, <1>6, <1>7, CallSurvives, MistypeSurvives, ServeExchangeSurvives,
     ExpireSurvives, ServeRequestSurvives, AnswerSurvives, FlightReturnsSurvives,
     BootReturnsSurvives
  DEF Next

LEMMA SurvivalStarts == Init => SurvivalInv
<1> SUFFICES ASSUME Init  PROVE Unbroken  BY DEF SurvivalInv
<1>1. Types /\ None # 0  BY TypesStart, NullAssumption
<1>2. /\ auth.refresh = 0 /\ auth.user = FALSE /\ auth.loading = TRUE
  BY <1>1 DEF Init, Loaded, SignedOut
<1>3. boot = Exchange(0) /\ 0 \in Known  BY <1>1 DEF Init, Booting, Known
<1>4. boot # None /\ boot.at = "sent" /\ boot.token = 0 /\ boot.pair = None
  BY <1>1, <1>3, ExchangeType
<1>5. NothingElse /\ Identifying
  BY <1>1, <1>2, <1>4, SlotsApart DEF Init, NothingElse, Identifying
<1>6. Loading /\ Refreshing
  BY <1>2, <1>4 DEF Init, Loading, Refreshing, Outcome
<1>7. QED  BY <1>5, <1>6 DEF Unbroken

(* Whatever expires and is refused, until the user logs out or a request   *)
(* is lost: when nothing is under way the user is signed in, and the       *)
(* session's refresh token, in the store and in localStorage, is the one   *)
(* that the server takes.                                                  *)
THEOREM NothingElseEndsIt == Spec => []SessionSurvives
<1> DEFINE Inv == Types /\ TokenInv /\ SurvivalInv
<1>1. Init => Inv  BY TypesStart, TokensStart, SurvivalStarts
<1>2. Inv /\ [Next]_vars => Inv'  BY TypesStep, TokensStep, SurvivalStep
<1>3. Inv => SessionSurvives
  BY SlotsApart
  DEF TokenInv, StoredAgrees, SurvivalInv, Unbroken, NothingElse, Refreshing, Identifying,
      SessionSurvives, Quiet
<1>4. QED  BY <1>1, <1>2, <1>3, PTL DEF Spec
=============================================================================
