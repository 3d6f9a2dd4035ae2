------------------------------ MODULE WsClient ------------------------------
(***************************************************************************)
(* The WebSocket clients of the browser: WsClient and ReconnectManager     *)
(* (packages/ws-client) and the slot that connectionStore (apps/web) keeps *)
(* for the game's client.                                                  *)
(*                                                                         *)
(* Each call of connectGame makes a new client; the numbers of clients are *)
(* used up in order.  A client has one socket at a time: it is connecting, *)
(* open or, after close(), closing, when the browser delivers no event of  *)
(* it but `close', and that only where the handler is still set.           *)
(***************************************************************************)
EXTENDS Naturals

CONSTANTS MaxClients,   \* clients made in a run
          MaxAttempts,  \* ReconnectOptions.maxAttempts
          None

ASSUME ClientAssumption == MaxClients \in Nat /\ MaxAttempts \in Nat

(* A client is null or an object.                                          *)
States  == {"IDLE", "CONNECTING", "CONNECTED", "RECONNECTING", "DISCONNECTED"}
Sockets == {"none", "connecting", "open", "closing"}
Objects == [state : States, socket : Sockets, heard : BOOLEAN, timer : BOOLEAN,
            attempt : 0 .. MaxAttempts, enabled : BOOLEAN, token : Nat, told : BOOLEAN]

ASSUME NullAssumption == None \notin Nat \cup Objects

VARIABLES client,   \* the clients made so far
          current,  \* gameClient
          shown     \* gameState

ws == <<client, current, shown>>

Clients == 1 .. MaxClients

Live(c)   == client[c] # None /\ client[c].socket \in {"connecting", "open"}
Active(c) == client[c] # None /\ (Live(c) \/ client[c].timer)
Unused    == {c \in Clients : client[c] = None}

WsInit == /\ client = [c \in Clients |-> None]
          /\ current = None
          /\ shown = "IDLE"

(* setState(): the store hears of a change, whichever client it is.        *)
Tell(c, state) == shown' = IF client[c].state = state THEN shown ELSE state

(* connect(), of a client that is neither connected nor connecting.        *)
Connecting(r) == [r EXCEPT !.state = "CONNECTING", !.socket = "connecting", !.heard = TRUE]

(* Mutant: the timer of the reconnection runs on.                          *)
DisconnectedTicking(r) == [r EXCEPT !.state = "DISCONNECTED", !.heard = FALSE,
                                    !.socket = IF @ = "none" THEN @ ELSE "closing"]

(* disconnect().                                                           *)
Disconnected(r) == [r EXCEPT !.state = "DISCONNECTED", !.timer = FALSE, !.heard = FALSE,
                             !.socket = IF @ = "none" THEN @ ELSE "closing"]

New(token) == Connecting([state |-> "IDLE", socket |-> "none", heard |-> FALSE, timer |-> FALSE,
                          attempt |-> 0, enabled |-> TRUE, token |-> token, told |-> FALSE])

(* connectGame(): the old client is disconnected, a new one connects.      *)
ConnectGame(token) ==
  \E c \in Unused :
    /\ \A d \in Unused : c <= d
    /\ client' = [d \in Clients |-> IF d = c THEN New(token)
                                    ELSE IF d = current THEN Disconnected(client[d])
                                    ELSE client[d]]
    /\ current' = c
    /\ shown' = "CONNECTING"

(* disconnectGame().                                                       *)
DisconnectGame ==
  /\ client' = IF current = None THEN client ELSE [client EXCEPT ![current] = Disconnected(@)]
  /\ current' = None
  /\ shown' = "DISCONNECTED"

-----------------------------------------------------------------------------
(* The events of a client's socket and its timer.                          *)

(* handleOpen().                                                           *)
Opened(c) == /\ client[c] # None /\ client[c].socket = "connecting"
             /\ client' = [client EXCEPT ![c].socket = "open", ![c].state = "CONNECTED",
                                         ![c].attempt = 0, ![c].timer = FALSE]
             /\ Tell(c, "CONNECTED")
             /\ UNCHANGED current

(* canRetry of the reconnect manager.                                      *)
CanRetry(c) == client[c].enabled /\ client[c].attempt < MaxAttempts

(* Mutant: the attempts are not counted.                                   *)
ClosedUncounted(c) ==
  /\ client[c] # None /\ client[c].socket # "none"
  /\ IF ~client[c].heard
     THEN client' = [client EXCEPT ![c].socket = "none"] /\ UNCHANGED shown
     ELSE IF CanRetry(c)
     THEN /\ client' = [client EXCEPT ![c].socket = "none", ![c].state = "RECONNECTING",
                                      ![c].timer = TRUE]
          /\ Tell(c, "RECONNECTING")
     ELSE /\ client' = [client EXCEPT ![c].socket = "none", ![c].state = "DISCONNECTED"]
          /\ Tell(c, "DISCONNECTED")
  /\ UNCHANGED current

(* handleClose(), where it is still set, schedules the next attempt.       *)
Closed(c) ==
  /\ client[c] # None /\ client[c].socket # "none"
  /\ IF ~client[c].heard
     THEN client' = [client EXCEPT ![c].socket = "none"] /\ UNCHANGED shown
     ELSE IF CanRetry(c)
     THEN /\ client' = [client EXCEPT ![c].socket = "none", ![c].state = "RECONNECTING",
                                      ![c].timer = TRUE, ![c].attempt = @ + 1]
          /\ Tell(c, "RECONNECTING")
     ELSE /\ client' = [client EXCEPT ![c].socket = "none", ![c].state = "DISCONNECTED"]
          /\ Tell(c, "DISCONNECTED")
  /\ UNCHANGED current

(* The callback of the reconnect timer: connect().                         *)
Retry(c) == /\ client[c] # None /\ client[c].timer
            /\ IF client[c].state \in {"CONNECTED", "CONNECTING"}
               THEN client' = [client EXCEPT ![c].timer = FALSE] /\ UNCHANGED shown
               ELSE /\ client' = [client EXCEPT ![c] = [Connecting(@) EXCEPT !.timer = FALSE]]
                    /\ Tell(c, "CONNECTING")
            /\ UNCHANGED current

(* Mutant: the frame is shown and reconnection goes on.                    *)
ToldRetrying(c) == /\ client[c] # None /\ client[c].socket = "open"
                   /\ client' = [client EXCEPT ![c].told = TRUE]
                   /\ UNCHANGED <<current, shown>>

(* auth.revoked, auth.invalid_session that is not resumable and a fatal    *)
(* error: no reconnection from now on.  The server closes the socket next. *)
Told(c) == /\ client[c] # None /\ client[c].socket = "open"
           /\ client' = [client EXCEPT ![c].told = TRUE, ![c].enabled = FALSE,
                                       ![c].timer = FALSE]
           /\ UNCHANGED <<current, shown>>

-----------------------------------------------------------------------------
WsTypeOK == /\ client \in [Clients -> Objects \cup {None}]
            /\ current # None => current \in Clients /\ client[current] # None
            /\ shown \in States

(* However calls, events and timers are interleaved, only the client in    *)
(* the store's slot has a live socket or a timer, never both, and the      *)
(* state that the pages show is that client's: no event of an abandoned    *)
(* client reaches them.                                                    *)
OneConnection ==
  /\ \A c \in Clients : Active(c) => c = current
  /\ \A c \in Clients : client[c] # None => ~(Live(c) /\ client[c].timer)
  /\ current # None => shown = client[current].state
  /\ current = None => shown \in {"IDLE", "DISCONNECTED"}

(* A client that the server has turned away makes no further attempt.      *)
Attempts(c) == client[c] # None /\ client[c].socket = "connecting"
ToldIsFinal ==
  [][\A c \in Clients : client[c] # None /\ client[c].told /\ ~Attempts(c) => ~Attempts(c)']_ws
=============================================================================
