----------------------------- MODULE BgmManager -----------------------------
(***************************************************************************)
(* The file player of the web client's background music                    *)
(* (apps/web/src/features/audio/BgmManager.ts): two slots that cross-fade. *)
(* A track starts in the inactive slot; when the fade is over a cleanup    *)
(* timer empties the active slot and swaps the two.                        *)
(*                                                                         *)
(* The operators are the effect of each method on the manager's variables; *)
(* GameAudio makes steps of them.  Gains and urls are left out.  A command *)
(* number stands for what is new in each call of play(): the time its fade *)
(* ends, its cleanup timer.  The fade and stop timers of one command are   *)
(* not compared with those of another, so that any of them can fire first. *)
(***************************************************************************)
EXTENDS Naturals, FiniteSets

CONSTANTS Tracks,  \* media ids of music
          Calls,   \* numbers of the commands a client receives
          None

ASSUME NoneAssumption == None \notin Tracks \cup Calls

VARIABLES slots,     \* the track of each slot, and whether pause() holds it
          active,    \* activeIdx
          current,   \* currentTrackId
          fadeEnd,   \* pendingFadeEnd: the command whose fade is under way
          timers,    \* the cleanup timers that will fire, with their fadeEndAt
          handle,    \* cleanupTimer: the one that clearTimeout would stop
          stopping   \* stopTimer and stopResolver

deck == <<slots, active, current, fadeEnd, timers, handle, stopping>>

Slots   == {0, 1}
Other(i) == 1 - i
Empty   == [track |-> None, held |-> FALSE]
NoStop  == [idx |-> 0, call |-> None, on |-> FALSE]

DeckInit == /\ slots = [i \in Slots |-> Empty]
            /\ active = 0
            /\ current = None
            /\ fadeEnd = None
            /\ timers = {}
            /\ handle = None
            /\ stopping = NoStop

DeckTypeOK ==
  /\ slots \in [Slots -> [track : Tracks \cup {None}, held : BOOLEAN]]
  /\ active \in Slots
  /\ current \in Tracks \cup {None}
  /\ fadeEnd \in Calls \cup {None}
  /\ timers \subseteq [id : Calls, at : Calls \cup {None}]
  /\ handle \in Calls \cup {None}
  /\ stopping \in [idx : Slots, call : Calls \cup {None}, on : BOOLEAN]

-----------------------------------------------------------------------------

(* The call whose stop() is settled when its timer is cleared or fires. *)
Stopped == IF stopping.on THEN stopping.call ELSE None

(* The resolver is cleared with the timer, its promise settled. *)
ClearTimers == /\ timers' = {t \in timers : t.id # handle}
               /\ handle' = None
               /\ stopping' = NoStop

(* A fade under way is brought to its end before anything else is begun. *)
SettledSlots  == IF fadeEnd = None THEN slots ELSE [slots EXCEPT ![active] = Empty]
SettledActive == IF fadeEnd = None THEN active ELSE Other(active)

(* play() of another track than the current one, up to the await. *)
PlayTrack(n, id) ==
  /\ slots' = [SettledSlots EXCEPT
                 ![Other(SettledActive)] = [track |-> id, held |-> FALSE]]
  /\ active' = SettledActive
  /\ fadeEnd' = n
  /\ current' = id
  /\ ClearTimers

(* The rest of play(), when audio.play() has resolved or has been rejected. *)
ArmCleanup(n) ==
  /\ timers' = timers \cup {[id |-> n, at |-> fadeEnd]}
  /\ handle' = n
  /\ UNCHANGED <<slots, active, current, fadeEnd, stopping>>

(* A cleanup timer forgets the handle, also one that belongs to another. *)
CleanupFires(t, disposed) ==
  /\ t \in timers
  /\ timers' = timers \ {t}
  /\ handle' = None
  /\ IF disposed \/ fadeEnd # t.at
     THEN UNCHANGED <<slots, active, fadeEnd>>
     ELSE /\ slots' = [slots EXCEPT ![active] = Empty]
          /\ active' = Other(active)
          /\ fadeEnd' = None
  /\ UNCHANGED <<current, stopping>>

(* stop() has nothing to do. *)
NothingToStop == current = None /\ fadeEnd = None

(* Only the fade's end is forgotten, not the slot that it was to empty. *)
StopTrackUnsettled(n) ==
  /\ fadeEnd' = None
  /\ current' = None
  /\ timers' = {t \in timers : t.id # handle}
  /\ handle' = None
  /\ stopping' = [idx |-> active, call |-> n, on |-> TRUE]
  /\ UNCHANGED <<slots, active>>

(* stop() up to the await; the call n, if any, waits for it. *)
StopTrack(n) ==
  /\ slots' = SettledSlots
  /\ active' = SettledActive
  /\ fadeEnd' = None
  /\ current' = None
  /\ timers' = {t \in timers : t.id # handle}
  /\ handle' = None
  /\ stopping' = [idx |-> SettledActive, call |-> n, on |-> TRUE]

StopFires ==
  /\ stopping.on
  /\ stopping' = NoStop
  /\ slots' = IF current = None /\ active = stopping.idx
              THEN [slots EXCEPT ![active] = Empty] ELSE slots
  /\ UNCHANGED <<active, current, fadeEnd, timers, handle>>

(* pause() and resume() reach every slot that has a track. *)
HoldSlots(b) == [i \in Slots |-> IF slots[i].track = None THEN slots[i]
                                 ELSE [slots[i] EXCEPT !.held = b]]

DisposeDeck == /\ slots' = [i \in Slots |-> Empty]
               /\ current' = None
               /\ fadeEnd' = None
               /\ ClearTimers
               /\ UNCHANGED active
=============================================================================
