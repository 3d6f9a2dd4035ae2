----------------------------- MODULE WebSession -----------------------------
(***************************************************************************)
(* One tab of the web application and the session it keeps with the        *)
(* server: authStore and the refresh token in localStorage, the API        *)
(* client, which refreshes the tokens once for all requests that were      *)
(* refused, the refresh when the page is loaded, login and logout, and the *)
(* hook useWsClient of the game page, which connects and disconnects       *)
(* WsClient's client as the access token comes and goes.                   *)
(*                                                                         *)
(* Tokens are numbered: pair n is access token n and refresh token n.  The *)
(* server takes a refresh token once; when one comes again it revokes all  *)
(* of the user's (service.go of the auth domain).                          *)
(***************************************************************************)
EXTENDS WsClient

CONSTANTS Requests,    \* API requests of the pages that can be under way
          MaxPairs,    \* pairs the server issues after the first
          Budgets      \* how often the user and the world may act in a run:
                       \* calls (requests, logins, logouts), expiries of access
                       \* tokens, faults (messages lost), reloads of the page,
                       \* turns (the game page is entered or left)

ASSUME SessionAssumption ==
  /\ MaxPairs \in Nat
  /\ Budgets \subseteq [{"calls", "expiries", "faults", "reloads", "turns"} -> Nat]
  /\ Requests \cap {"boot", "login", "logout", "mistyped"} = {}

Pairs     == 0 .. MaxPairs
Slots     == Requests \cup {"boot", "login", "logout", "mistyped"}  \* "boot" and "login": their /auth/me
Exchanges == [token : Pairs \cup {None}, at : {"sent", "done"}, pair : Pairs \cup {None}]
Calls     == [at : {"sent", "accepted", "denied", "failed", "waiting"},
              token : Pairs \cup {None}, again : BOOLEAN]

ASSUME AbsentAssumption == None \notin Exchanges \cup Calls

VARIABLES auth,     \* authStore
          stored,   \* the refresh token in localStorage
          flight,   \* refreshPromise and its request
          boot,     \* the refresh of useAppInitialize
          login,    \* the request of useLoginSubmit
          request,  \* the other requests
          hooked,   \* the token of useWsClient's effect
          playing,  \* the game page is open
          issued, valid, expired,  \* the server's pairs
          orphans,  \* refreshes under way when the page was left
          left,     \* of the budget
          spent, twice, \* history: refresh tokens sent, and sent again
          cut,      \* history: the page was left during an exchange of tokens,
                    \* or a password was mistyped while it was loading
          ended     \* history: something that may end the session has happened

tokens  == <<auth, stored>>
traffic == <<flight, boot, login, request>>
server  == <<issued, valid, expired, orphans>>
history == <<spent, twice, cut, ended>>
vars    == <<ws, tokens, traffic, hooked, playing, server, left, history>>

SignedOut == [access |-> None, refresh |-> None, user |-> FALSE, loading |-> FALSE]

Exchange(token) == [token |-> token, at |-> "sent", pair |-> None]
Sent(again)     == [at |-> "sent", token |-> auth'.access, again |-> again]

May(act) == left[act] > 0 /\ left' = [left EXCEPT ![act] = @ - 1]

(* A refresh token goes out. *)
Spend(set) == spent' = spent \cup set /\ twice' = (twice \/ spent \cap set # {})

(* useAppInitialize, in a page that has just been loaded.                  *)
Loaded(token) == [SignedOut EXCEPT !.refresh = token, !.loading = token # None]
Booting(token) == IF token = None THEN None ELSE Exchange(token)

Init == /\ WsInit
        /\ stored = 0 /\ auth = Loaded(0) /\ boot = Booting(0)
        /\ flight = None /\ login = None
        /\ request = [q \in Slots |-> None]
        /\ hooked = None /\ playing = FALSE
        /\ issued = 0 /\ valid = {0} /\ expired = {} /\ orphans = {}
        /\ left \in Budgets
        /\ spent = {0} /\ twice = FALSE /\ cut = FALSE /\ ended = FALSE

-----------------------------------------------------------------------------
(* authStore.                                                              *)

SetTokens(n) == /\ auth' = [auth EXCEPT !.access = n, !.refresh = n]
                /\ stored' = n

(* logout(), clear().                                                      *)
ClearTokens == auth' = SignedOut /\ stored' = None

-----------------------------------------------------------------------------
(* The user.                                                               *)

Call(q) == /\ auth.user /\ request[q] = None /\ May("calls")
           /\ UNCHANGED tokens
           /\ request' = [request EXCEPT ![q] = Sent(FALSE)]
           /\ ended' = (ended \/ q = "logout")
           /\ UNCHANGED <<ws, flight, boot, login, hooked, playing, server, spent, twice, cut>>

(* The login page is open to a visitor, also while the page still boots.   *)
Visitor == ~auth.user /\ login = None /\ request["login"] = None /\ request["mistyped"] = None

Login == /\ Visitor /\ May("calls")
         /\ login' = Exchange(None)
         /\ ended' = TRUE
         /\ UNCHANGED <<ws, tokens, flight, boot, request, hooked, playing, server, spent, twice, cut>>

(* A login with a wrong password: its 401 is taken for an expired token.   *)
Mistype == /\ Visitor /\ May("calls")
           /\ UNCHANGED tokens
           /\ request' = [request EXCEPT !["mistyped"] = Sent(FALSE)]
           /\ cut' = (cut \/ boot # None)
           /\ ended' = (ended \/ boot # None)
           /\ UNCHANGED <<ws, flight, boot, login, hooked, playing, server, spent, twice>>

Turn == /\ May("turns")
        /\ playing' = ~playing
        /\ UNCHANGED <<ws, tokens, traffic, hooked, server, history>>

(* The page is loaded again: nothing but localStorage is left of it.       *)
Reload ==
  LET under == {x \in {flight, boot, login} : x # None}
  IN  /\ May("reloads")
      /\ auth' = Loaded(stored) /\ UNCHANGED stored
      /\ boot' = Booting(stored)
      /\ flight' = None /\ login' = None
      /\ request' = [q \in Slots |-> None]
      /\ orphans' = orphans \cup {x.token : x \in {y \in under : y.at = "sent" /\ y.token # None}}
      /\ client' = [c \in Clients |-> IF client[c] = None THEN None
                                      ELSE [client[c] EXCEPT !.socket = "none", !.timer = FALSE,
                                                             !.state = "DISCONNECTED"]]
      /\ current' = None /\ shown' = "IDLE"
      /\ hooked' = None
      /\ Spend({stored} \ {None})
      /\ cut' = (cut \/ under # {})
      /\ ended' = (ended \/ under # {})
      /\ UNCHANGED <<playing, issued, valid, expired>>

-----------------------------------------------------------------------------
(* The server.                                                             *)

(* RefreshToken, or Login where there is no token: the outcome is the new  *)
(* pair, or None.                                                          *)
Rotate(token, pair) ==
  IF token # None /\ token \notin valid
  THEN pair = None /\ valid' = {} /\ UNCHANGED issued
  ELSE /\ issued < MaxPairs
       /\ pair = issued + 1 /\ issued' = pair
       /\ valid' = (valid \ {token}) \cup {pair}

Answered(x, pair) == [x EXCEPT !.at = "done", !.pair = pair]

ServeExchange ==
  /\ \E pair \in Pairs \cup {None} :
       \/ /\ flight # None /\ flight.at = "sent" /\ Rotate(flight.token, pair)
          /\ flight' = Answered(flight, pair) /\ UNCHANGED <<boot, login, orphans>>
       \/ /\ boot # None /\ boot.at = "sent" /\ Rotate(boot.token, pair)
          /\ boot' = Answered(boot, pair) /\ UNCHANGED <<flight, login, orphans>>
       \/ /\ login # None /\ login.at = "sent" /\ Rotate(None, pair)
          /\ login' = Answered(login, pair) /\ UNCHANGED <<flight, boot, orphans>>
       \/ \E t \in orphans : /\ Rotate(t, pair) /\ orphans' = orphans \ {t}
                             /\ UNCHANGED <<flight, boot, login>>
  /\ UNCHANGED <<ws, tokens, request, hooked, playing, expired, left, history>>

(* A request is accepted with a token that has not expired; logout revokes *)
(* the refresh tokens.                                                     *)
ServeRequest(q) ==
  LET good == q # "mistyped" /\ request[q].token # None /\ request[q].token \notin expired
  IN  /\ request[q] # None /\ request[q].at = "sent"
      /\ request' = [request EXCEPT ![q].at = IF good THEN "accepted" ELSE "denied"]
      /\ valid' = IF q = "logout" /\ good THEN {} ELSE valid
      /\ UNCHANGED <<ws, tokens, flight, boot, login, hooked, playing, issued, expired, orphans,
                     left, history>>

(* An access token expires, which takes longer than to load the page.      *)
Expire == /\ ~auth.loading
          /\ May("expiries")
          /\ \E n \in 0 .. issued : n \notin expired /\ expired' = expired \cup {n}
          /\ UNCHANGED <<ws, tokens, traffic, hooked, playing, issued, valid, orphans, history>>

(* A request or its answer is lost. *)
Fault ==
  /\ May("faults")
  /\ \/ flight # None /\ flight' = Answered(flight, None) /\ UNCHANGED <<boot, login, request>>
     \/ boot # None /\ boot' = Answered(boot, None) /\ UNCHANGED <<flight, login, request>>
     \/ login # None /\ login' = Answered(login, None) /\ UNCHANGED <<flight, boot, request>>
     \/ \E q \in Slots : /\ request[q] # None /\ request[q].at \in {"sent", "accepted"}
                         /\ request' = [request EXCEPT ![q].at = "failed"]
                         /\ UNCHANGED <<flight, boot, login>>
  /\ ended' = TRUE
  /\ UNCHANGED <<ws, tokens, hooked, playing, server, spent, twice, cut>>

-----------------------------------------------------------------------------
(* The answers.                                                            *)

(* The end of a request: a page's own, /auth/me after a boot or a login,   *)
(* and the logout, which clears the session whatever the answer is.        *)
Settle(q, ok) ==
  /\ request' = [request EXCEPT ![q] = None]
  /\ CASE q \in {"boot", "login"} /\ ok ->
              /\ auth' = [auth EXCEPT !.user = TRUE, !.loading = @ /\ q = "login"]
              /\ UNCHANGED <<ws, stored>>
       [] q = "boot" /\ ~ok -> ClearTokens /\ UNCHANGED ws
       [] q = "logout" -> ClearTokens /\ DisconnectGame
       [] OTHER -> UNCHANGED <<ws, tokens>>

(* Mutant: every refused request refreshes the tokens.                     *)
RefusedAlone(q) ==
  /\ request' = [request EXCEPT ![q].at = "waiting"]
  /\ flight' = Exchange(auth.refresh)
  /\ Spend({auth.refresh})
  /\ UNCHANGED <<ws, tokens, ended>>

(* rawFetch after a 401, with tryRefresh(): all that is refused meanwhile  *)
(* waits for one refresh.  Without a refresh token the session is over.    *)
Refused(q) ==
  \/ /\ flight # None
     /\ request' = [request EXCEPT ![q].at = "waiting"]
     /\ UNCHANGED <<ws, tokens, flight, spent, twice, ended>>
  \/ /\ flight = None /\ auth.refresh # None
     /\ request' = [request EXCEPT ![q].at = "waiting"]
     /\ flight' = Exchange(auth.refresh)
     /\ Spend({auth.refresh})
     /\ UNCHANGED <<ws, tokens, ended>>
  \/ /\ flight = None /\ auth.refresh = None
     /\ ClearTokens
     /\ request' = [request EXCEPT ![q] = None]
     /\ IF q = "logout" THEN DisconnectGame ELSE UNCHANGED ws
     /\ UNCHANGED <<flight, spent, twice, ended>>

Answer(q) ==
  /\ request[q] # None
  /\ \/ request[q].at = "accepted" /\ Settle(q, TRUE) /\ UNCHANGED <<flight, spent, twice, ended>>
     \/ request[q].at = "failed" /\ Settle(q, FALSE) /\ UNCHANGED <<flight, spent, twice, ended>>
     \/ /\ request[q].at = "denied" /\ request[q].again
        /\ Settle(q, FALSE) /\ UNCHANGED <<flight, spent, twice, ended>>
     \/ request[q].at = "denied" /\ ~request[q].again /\ Refused(q)
  /\ UNCHANGED <<boot, login, hooked, playing, server, left, cut>>

Waiting == {q \in Slots : request[q] # None /\ request[q].at = "waiting"}

(* Mutant: a refresh that fails leaves those who wait for it.              *)
FlightReturnsMute ==
  /\ flight # None /\ flight.at = "done"
  /\ flight' = None
  /\ IF flight.pair # None
     THEN /\ SetTokens(flight.pair)
          /\ request' = [q \in Slots |-> IF q \in Waiting THEN Sent(TRUE) ELSE request[q]]
     ELSE ClearTokens /\ UNCHANGED request
  /\ UNCHANGED <<ws, boot, login, hooked, playing, server, left, history>>

(* The refresh is answered: those who waited for it try once more, or fail.*)
FlightReturns ==
  /\ flight # None /\ flight.at = "done"
  /\ flight' = None
  /\ IF flight.pair # None
     THEN /\ SetTokens(flight.pair)
          /\ request' = [q \in Slots |-> IF q \in Waiting THEN Sent(TRUE) ELSE request[q]]
          /\ UNCHANGED ws
     ELSE /\ ClearTokens
          /\ request' = [q \in Slots |-> IF q \in Waiting THEN None ELSE request[q]]
          /\ IF "logout" \in Waiting THEN DisconnectGame ELSE UNCHANGED ws
  /\ UNCHANGED <<boot, login, hooked, playing, server, left, history>>

(* useAppInitialize goes on to /auth/me, or clears the session.            *)
BootReturns ==
  /\ boot # None /\ boot.at = "done"
  /\ boot' = None
  /\ IF boot.pair # None
     THEN SetTokens(boot.pair) /\ request' = [request EXCEPT !["boot"] = Sent(FALSE)]
     ELSE ClearTokens /\ UNCHANGED request
  /\ UNCHANGED <<ws, flight, login, hooked, playing, server, left, history>>

LoginReturns ==
  /\ login # None /\ login.at = "done"
  /\ login' = None
  /\ IF login.pair # None
     THEN SetTokens(login.pair) /\ request' = [request EXCEPT !["login"] = Sent(FALSE)]
     ELSE UNCHANGED <<tokens, request>>
  /\ UNCHANGED <<ws, flight, boot, hooked, playing, server, left, history>>

-----------------------------------------------------------------------------
(* useWsClient in the game page, which ProtectedRoute shows to a user.     *)
Wanted == IF playing /\ auth.user /\ ~auth.loading THEN auth.access ELSE None

(* Mutant: the effect has no cleanup.                                      *)
EffectUncleaned == /\ hooked # Wanted
                   /\ hooked' = Wanted
                   /\ IF Wanted = None THEN UNCHANGED ws ELSE ConnectGame(Wanted)
                   /\ UNCHANGED <<tokens, traffic, playing, server, left, history>>

(* The effect and its cleanup, some time after the store has changed.      *)
Effect == /\ hooked # Wanted
          /\ hooked' = Wanted
          /\ IF Wanted = None THEN DisconnectGame ELSE ConnectGame(Wanted)
          /\ UNCHANGED <<tokens, traffic, playing, server, left, history>>

(* The upgrade checks the token; the network may refuse or end anything.   *)
Open(c)  == /\ Opened(c) /\ client[c].token \notin expired
            /\ UNCHANGED <<tokens, traffic, hooked, playing, server, left, history>>
Close(c) == Closed(c) /\ UNCHANGED <<tokens, traffic, hooked, playing, server, left, history>>
Tick(c)  == Retry(c) /\ UNCHANGED <<tokens, traffic, hooked, playing, server, left, history>>
Connects(c) == client[c] # None /\ client[c].socket = "connecting" /\ (Open(c) \/ Close(c))
Revoke(c) == Told(c) /\ UNCHANGED <<tokens, traffic, hooked, playing, server, left, history>>

-----------------------------------------------------------------------------
Next == \/ \E q \in Requests \cup {"logout"} : Call(q)
        \/ Login \/ Mistype \/ Turn \/ Reload
        \/ ServeExchange \/ Expire \/ Fault
        \/ \E q \in Slots : ServeRequest(q) \/ Answer(q)
        \/ FlightReturns \/ BootReturns \/ LoginReturns
        \/ Effect
        \/ \E c \in Clients : Open(c) \/ Close(c) \/ Tick(c) \/ Revoke(c)

Fairness == /\ WF_vars(ServeExchange) /\ WF_vars(FlightReturns)
            /\ \A q \in Slots : WF_vars(ServeRequest(q) \/ Answer(q))
            /\ \A c \in Clients : WF_vars(Tick(c)) /\ WF_vars(Connects(c))

Spec == Init /\ [][Next]_vars /\ Fairness
-----------------------------------------------------------------------------
(* What the server has not issued is nowhere.                              *)
TypeOK ==
  LET Known == 0 .. issued
  IN  /\ WsTypeOK
      /\ auth \in [access : Known \cup {None}, refresh : Known \cup {None},
                   user : BOOLEAN, loading : BOOLEAN]
      /\ stored \in Known \cup {None} /\ hooked \in Known \cup {None}
      /\ {flight, boot, login} \subseteq Exchanges \cup {None}
      /\ request \in [Slots -> Calls \cup {None}]
      /\ playing \in BOOLEAN
      /\ issued \in Pairs
      /\ {valid, expired, orphans, spent} \subseteq SUBSET Known
      /\ left \in [{"calls", "expiries", "faults", "reloads", "turns"} -> Nat]
      /\ {twice, cut, ended} \subseteq BOOLEAN

Quiet == /\ flight = None /\ boot = None /\ login = None /\ hooked = Wanted
         /\ \A q \in Slots : request[q] = None

(* However many requests are refused at once, and whatever the order of    *)
(* the answers, no refresh token is sent twice, unless the page was left   *)
(* during an exchange or a password mistyped while it was loading: the     *)
(* server never takes the tab for a thief.                                 *)
TokensAreUsedOnce == twice => cut

(* Expired tokens and refused requests never end a session: until the user *)
(* logs out or a request is lost the page keeps the one refresh token that *)
(* the server takes, in the store and in localStorage.                     *)
SessionSurvives ==
  ~ended /\ Quiet => /\ auth.user /\ stored = auth.refresh
                     /\ valid = {auth.refresh}

(* When the effect has run, the game page's client has the session's       *)
(* access token, and without a session there is none.                      *)
ConnectionFollowsSession ==
  hooked = Wanted => IF Wanted = None THEN \A c \in Clients : ~Active(c)
                     ELSE current # None /\ client[current].token = auth.access

(* Every request of a page is settled: nobody waits for a refresh that has *)
(* been answered.                                                          *)
CallsReturn == \A q \in Slots : request[q] # None ~> request[q] = None

(* A client whose attempts fail, for whatever time, does not try for ever: *)
(* it is connected, or gives up and says so.                               *)
AttemptsEnd == shown \in {"CONNECTING", "RECONNECTING"}
                 ~> shown \notin {"CONNECTING", "RECONNECTING"}

(* Once a session has been cleared, nothing but a login brings it back.    *)
LogoutStays == [][stored = None /\ login = None => stored' = None]_vars

(* No refresh token is sent twice, also when the page is loaded again.     *)
NothingIsSpentTwice == ~twice
=============================================================================
