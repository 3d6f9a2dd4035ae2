----------------------------- MODULE GameAudio -----------------------------
(***************************************************************************)
(* The audio of the web client in a game (apps/web/src/features/audio and  *)
(* features/media): AudioOrchestrator over the file player of BgmManager,  *)
(* over hidden YouTube players (one for each command that asks for one)    *)
(* and over the queue of VoiceManager, and VideoOrchestrator, whose        *)
(* cutscenes pause, keep or stop the music.                                *)
(*                                                                         *)
(* JavaScript runs a handler up to its next await; an action is such a     *)
(* stretch.  Commands come from the game's websocket at any time, so that  *)
(* one can arrive while an earlier one waits: for the fade of stop(), for  *)
(* audio.play(), for YouTube's script or for a player to be ready.  The    *)
(* browser and YouTube answer those waits when they like, or never.        *)
(*                                                                         *)
(* Left out: gains and urls, sound effects, and the end of a piece of      *)
(* music (a looped one starts again, no state of the code changes).        *)
(***************************************************************************)
EXTENDS BgmManager, Sequences

CONSTANTS Videos,   \* media ids of music on YouTube
          Cuts,     \* cutscenes, in the order in which they are asked for
          Clips,    \* ids of voice clips
          Budgets   \* how many commands, cutscenes, clips and mutes a run has

Modes     == {"loop", "once"}
Behaviors == {"pause", "keep", "stop"}
Kinds     == {"file", "youtube"}

ASSUME CallsAssumption == Calls \subseteq Nat /\ Cuts \subseteq Nat
ASSUME VideosAssumption ==
  None \notin Videos \cup Clips /\ None \notin Cuts /\ None \notin Kinds \cup Behaviors
ASSUME BudgetsAssumption ==
  Budgets \subseteq [bgm : Nat, cut : Nat, clip : Nat, mute : Nat]

VARIABLES call,        \* each command to set the music, and where it waits
          kind,        \* activeBgmKind
          mediaId,     \* activeBgmMediaId
          mode,        \* activeBgmMode
          player,      \* activeYouTubePlayer: the command that made it
          yt,          \* what each command's YouTube player does
          volume,      \* whether each of those is audible (TRUE) or mute
          muted,
          apiReady,    \* window.YT is there
          behavior,    \* lastCutsceneBehavior
          kindAtStart, \* cutsceneBgmKindAtStart
          disposed,
          cutscene,    \* VideoOrchestrator.currentPlayer
          endedHandled,
          show,        \* what each cutscene's player does
          voice,       \* VoiceManager.currentVoiceId
          queue,       \* VoiceManager.queue
          refused,     \* rejections of audio.play() under way, for each clip
          tally,       \* clips asked for, reported as ended, and dropped
          serial,      \* no command has met another one that waits
          left         \* of the budget

music  == <<call, kind, mediaId, mode, player, yt, volume>>
cuts   == <<behavior, kindAtStart, cutscene, endedHandled, show>>
voices == <<voice, queue, refused, tally>>
vars   == <<deck, music, muted, apiReady, cuts, voices, disposed, serial, left>>

Commands  == [at : {"unused", "playing", "stopping", "stopped", "video", "done"},
              id : Tracks \cup Videos \cup {None}, mode : Modes]
NoCall    == [at |-> "unused", id |-> None, mode |-> "loop"]

Init == /\ DeckInit
        /\ call = [n \in Calls |-> NoCall]
        /\ kind = None /\ mediaId = None /\ mode = "loop" /\ player = None
        /\ yt = [n \in Calls |-> "none"]
        /\ volume = [n \in Calls |-> TRUE]
        /\ muted \in BOOLEAN
        /\ apiReady \in BOOLEAN
        /\ behavior = None /\ kindAtStart = None /\ disposed = FALSE
        /\ cutscene = None /\ endedHandled = FALSE
        /\ show = [c \in Cuts |-> "none"]
        /\ voice = None /\ queue = <<>>
        /\ refused = [v \in Clips |-> 0]
        /\ tally = [v \in Clips |-> [asked |-> 0, ended |-> 0, dropped |-> 0]]
        /\ serial = TRUE
        /\ left \in Budgets

Spend(f) == left[f] > 0 /\ left' = [left EXCEPT ![f] = @ - 1]

-----------------------------------------------------------------------------
(* The single slot for music: a file or a YouTube player. *)

InFlight == {n \in Calls : call[n].at \notin {"unused", "done"}}
Fresh(n) == /\ call[n].at = "unused"
            /\ \A m \in Calls : m < n => call[m].at # "unused"

(* A command that changes the music meets one that has not finished. *)
Meets == serial' = (serial /\ InFlight = {})

(* A player whose iframe does not exist yet is not affected by destroy(). *)
Destroyed(p) == IF p # None /\ yt[p] \in {"building", "playing", "paused"}
                THEN [yt EXCEPT ![p] = "dead"] ELSE yt

(* The stretch from ytFactory() to the next await. *)
CreatePlayer(n, players) ==
  /\ player' = n
  /\ yt' = [players EXCEPT ![n] = IF apiReady THEN "building" ELSE "loading"]

(* The promise of a stop() that has been settled lets its command go on. *)
Resolve(calls) == [n \in Calls |-> IF n = Stopped THEN [calls[n] EXCEPT !.at = "stopped"]
                                   ELSE calls[n]]

(* clearTimers resolves the promise of the stop() whose timer it clears. *)
WakeNobody(calls) == calls
Wake(calls) == Resolve(calls)

IsSet(id, m) == mediaId = id /\ mode = m

SetBgmFile(n, id, m) ==
  /\ ~disposed /\ Fresh(n) /\ Spend("bgm") /\ ~IsSet(id, m)
  /\ IF kind = "youtube" THEN yt' = Destroyed(player) /\ player' = None
                         ELSE UNCHANGED <<yt, player>>
  /\ IF current = id
     THEN /\ call' = [call EXCEPT ![n].at = "done"]
          /\ kind' = "file" /\ mediaId' = id /\ mode' = m
          /\ UNCHANGED deck
     ELSE /\ call' = Wake([call EXCEPT ![n] = [at |-> "playing", id |-> id, mode |-> m]])
          /\ PlayTrack(n, id)
          /\ UNCHANGED <<kind, mediaId, mode>>
  /\ Meets
  /\ UNCHANGED <<volume, muted, apiReady, cuts, voices, disposed>>

(* audio.play() has resolved or has been rejected. *)
FilePlays(n) ==
  /\ call[n].at = "playing"
  /\ call' = [call EXCEPT ![n] = [NoCall EXCEPT !.at = "done"]]
  /\ ArmCleanup(n)
  /\ kind' = "file" /\ mediaId' = call[n].id /\ mode' = call[n].mode
  /\ UNCHANGED <<player, yt, volume, muted, apiReady, cuts, voices, disposed, serial, left>>

(* The file is left playing when a video takes its place. *)
SetBgmVideoOver(n, id, m) ==
  /\ ~disposed /\ Fresh(n) /\ Spend("bgm") /\ ~IsSet(id, m)
  /\ call' = [call EXCEPT ![n] = [at |-> "video", id |-> id, mode |-> m]]
  /\ CreatePlayer(n, IF kind = "youtube" THEN Destroyed(player) ELSE yt)
  /\ Meets
  /\ UNCHANGED <<deck, kind, mediaId, mode, volume, muted, apiReady, cuts, voices, disposed>>

SetBgmVideo(n, id, m) ==
  /\ ~disposed /\ Fresh(n) /\ Spend("bgm") /\ ~IsSet(id, m)
  /\ IF kind = "file" /\ ~NothingToStop
     THEN /\ call' = Wake([call EXCEPT ![n] = [at |-> "stopping", id |-> id, mode |-> m]])
          /\ StopTrack(n)
          /\ UNCHANGED <<player, yt>>
     ELSE /\ call' = [call EXCEPT ![n] = [at |-> "video", id |-> id, mode |-> m]]
          /\ CreatePlayer(n, IF kind = "youtube" THEN Destroyed(player) ELSE yt)
          /\ UNCHANGED deck
  /\ Meets
  /\ UNCHANGED <<kind, mediaId, mode, volume, muted, apiReady, cuts, voices, disposed>>

StopReturned(n) ==
  /\ call[n].at = "stopped"
  /\ call' = [call EXCEPT ![n].at = "video"]
  /\ CreatePlayer(n, yt)
  /\ UNCHANGED <<deck, kind, mediaId, mode, volume, muted, apiReady, cuts, voices,
                 disposed, serial, left>>

(* YouTube's script has run: every load() that waits for it goes on. *)
ApiReady ==
  /\ ~apiReady
  /\ apiReady' = TRUE
  /\ yt' = [n \in Calls |-> IF yt[n] = "loading" THEN "building" ELSE yt[n]]
  /\ UNCHANGED <<deck, call, kind, mediaId, mode, player, volume, muted, cuts, voices,
                 disposed, serial, left>>

VideoReady(n) ==
  /\ call[n].at = "video" /\ yt[n] = "building"
  /\ yt' = [yt EXCEPT ![n] = "playing"]
  /\ volume' = [volume EXCEPT ![n] = ~muted]
  /\ call' = [call EXCEPT ![n] = [NoCall EXCEPT !.at = "done"]]
  /\ kind' = "youtube" /\ mediaId' = call[n].id /\ mode' = call[n].mode
  /\ UNCHANGED <<deck, player, muted, apiReady, cuts, voices, disposed, serial, left>>

(* onError before onReady: the catch destroys the active player, which may *)
(* be that of another command.                                             *)
VideoFails(n) ==
  /\ call[n].at = "video" /\ yt[n] = "building"
  /\ yt' = [Destroyed(player) EXCEPT ![n] = "dead"]
  /\ player' = None
  /\ call' = [call EXCEPT ![n] = [NoCall EXCEPT !.at = "done"]]
  /\ kind' = None /\ mediaId' = None
  /\ UNCHANGED <<deck, mode, volume, muted, apiReady, cuts, voices, disposed, serial, left>>

(* Both ways in which all music ends: handleStopAll and a cutscene's "stop". *)
StopMusic ==
  /\ IF kind = "file" /\ ~NothingToStop
     THEN call' = Wake(call) /\ StopTrack(None)
     ELSE UNCHANGED <<call, deck>>
  /\ IF kind = "youtube" THEN yt' = Destroyed(player) /\ player' = None
                         ELSE UNCHANGED <<yt, player>>
  /\ kind' = None /\ mediaId' = None
  /\ Meets
  /\ UNCHANGED <<mode, volume>>

(* The master channel is set to 0 or to a volume (setChannelVolume). *)
ToggleMute ==
  /\ Spend("mute")
  /\ muted' = ~muted
  /\ volume' = IF /\ kind = "youtube" /\ player # None
                  /\ yt[player] \in {"building", "playing", "paused"}
               THEN [volume EXCEPT ![player] = muted] ELSE volume
  /\ UNCHANGED <<deck, call, kind, mediaId, mode, player, yt, apiReady, cuts, voices,
                 disposed, serial>>

CleanupTimer == /\ \E t \in timers : CleanupFires(t, disposed)
                /\ UNCHANGED <<music, muted, apiReady, cuts, voices, disposed, serial, left>>

StopTimer == /\ StopFires
             /\ call' = Resolve(call)
             /\ UNCHANGED <<kind, mediaId, mode, player, yt, volume, muted, apiReady, cuts,
                            voices, disposed, serial, left>>

-----------------------------------------------------------------------------
(* Cutscenes. *)

Paused(p, players) == IF p # None /\ players[p] = "playing"
                      THEN [players EXCEPT ![p] = "paused"] ELSE players
Resumed(p, players) == IF p # None /\ players[p] = "paused"
                       THEN [players EXCEPT ![p] = "playing"] ELSE players

(* handleCutsceneStart *)
CutsceneStart(b) ==
  IF disposed THEN UNCHANGED <<deck, music, behavior, kindAtStart, serial>>
  ELSE /\ behavior' = b
       /\ kindAtStart' = kind
       /\ CASE b = "stop"  -> StopMusic
            [] b = "keep"  -> UNCHANGED <<deck, music, serial>>
            [] b = "pause" ->
                 /\ slots' = IF kind = "file" THEN HoldSlots(TRUE) ELSE slots
                 /\ yt' = IF kind = "youtube" THEN Paused(player, yt) ELSE yt
                 /\ UNCHANGED <<active, current, fadeEnd, timers, handle, stopping, call,
                                kind, mediaId, mode, player, volume, serial>>

(* What the start with b held of the kind k of music is let go. *)
LetGo(b, k) ==
  /\ slots' = IF b = "pause" /\ k = "file" THEN HoldSlots(FALSE) ELSE slots
  /\ yt' = IF b = "pause" /\ k = "youtube" THEN Resumed(player, yt) ELSE yt
  /\ behavior' = None
  /\ kindAtStart' = None
  /\ UNCHANGED <<active, current, fadeEnd, timers, handle, stopping, call, kind, mediaId,
                 mode, player, volume, serial>>

(* It looks at the kind of music that plays now. *)
CutsceneEndNow ==
  IF disposed THEN UNCHANGED <<deck, music, behavior, kindAtStart, serial>>
  ELSE LetGo(behavior, kind)

(* handleCutsceneEnd *)
CutsceneEnd ==
  IF disposed THEN UNCHANGED <<deck, music, behavior, kindAtStart, serial>>
  ELSE LetGo(behavior, kindAtStart)

NextCut(c) == show[c] = "none" /\ \A d \in Cuts : d < c => show[d] # "none"

(* playCutscene of a video; it is ignored while another one is current. *)
PlayCutscene(c, b) ==
  /\ NextCut(c) /\ Spend("cut")
  /\ cutscene = None
  /\ CutsceneStart(b)
  /\ cutscene' = c
  /\ endedHandled' = FALSE
  /\ show' = [show EXCEPT ![c] = "loading"]
  /\ UNCHANGED <<muted, apiReady, voices, disposed>>

(* A file: its player cannot be made.  The music is let go as soon as it is *)
(* held; when it is to stop, it has stopped.                                *)
PlayFileCutscene(c, b) ==
  /\ NextCut(c) /\ Spend("cut")
  /\ cutscene = None
  /\ show' = [show EXCEPT ![c] = "over"]
  /\ IF disposed THEN UNCHANGED <<deck, music, behavior, kindAtStart, serial>>
     ELSE IF b = "stop" THEN StopMusic /\ behavior' = None /\ kindAtStart' = None
     ELSE LetGo(b, kind)
  /\ UNCHANGED <<muted, apiReady, cutscene, endedHandled, voices, disposed>>

(* handleVideoEnded.  destroy() of a player that still loads only makes it *)
(* deaf: it goes on loading and reports nothing.                           *)
HandleVideoEnded ==
  IF endedHandled THEN UNCHANGED <<deck, music, cuts, serial>>
  ELSE /\ CutsceneEnd
       /\ endedHandled' = TRUE
       /\ show' = IF cutscene = None THEN show
                  ELSE [show EXCEPT ![cutscene] = IF @ = "loading" THEN "deaf" ELSE "over"]
       /\ cutscene' = None

CutsceneReady(c) ==
  /\ show[c] \in {"loading", "deaf"}
  /\ show' = [show EXCEPT ![c] = IF @ = "loading" THEN "playing" ELSE "stray"]
  /\ UNCHANGED <<deck, music, muted, apiReady, behavior, kindAtStart, cutscene,
                 endedHandled, voices, disposed, serial, left>>

(* The catch of playCutscene clears whatever cutscene is current. *)
CutsceneFails(c) ==
  /\ show[c] \in {"loading", "deaf"}
  /\ show' = [show EXCEPT ![c] = "over"]
  /\ CutsceneEnd
  /\ cutscene' = None
  /\ UNCHANGED <<muted, apiReady, endedHandled, voices, disposed, left>>

CutsceneEnds(c) ==
  /\ show[c] = "playing"
  /\ HandleVideoEnded
  /\ UNCHANGED <<muted, apiReady, voices, disposed, left>>

SkipCutscene ==
  /\ cutscene # None
  /\ HandleVideoEnded
  /\ UNCHANGED <<muted, apiReady, voices, disposed, left>>

-----------------------------------------------------------------------------
(* Voice clips: one element, one queue. *)

Count(v) == Cardinality({i \in 1..Len(queue) : queue[i] = v})

(* A rejection is not compared with the clip that plays. *)
FinishAny(v) ==
  IF disposed THEN UNCHANGED <<voice, queue, tally>>
  ELSE /\ tally' = [tally EXCEPT ![v].ended = @ + 1]
       /\ IF queue = <<>> THEN voice' = None /\ UNCHANGED queue
                          ELSE voice' = Head(queue) /\ queue' = Tail(queue)

(* handleClipFinished: the clip is reported and the next one starts. *)
Finish(v) ==
  IF disposed \/ voice # v THEN UNCHANGED <<voice, queue, tally>>
  ELSE /\ tally' = [tally EXCEPT ![v].ended = @ + 1]
       /\ IF queue = <<>> THEN voice' = None /\ UNCHANGED queue
                          ELSE voice' = Head(queue) /\ queue' = Tail(queue)

(* enqueue *)
ClipArrives(v) ==
  /\ ~disposed /\ Spend("clip")
  /\ tally' = [tally EXCEPT ![v].asked = @ + 1]
  /\ IF voice = None THEN voice' = v /\ UNCHANGED queue
                     ELSE queue' = Append(queue, v) /\ UNCHANGED voice
  /\ UNCHANGED <<deck, music, muted, apiReady, cuts, refused, disposed, serial>>

(* The element ends, or reports an error; when it could not load the clip, *)
(* the promise of play() will be rejected as well.                         *)
ClipOver(rejects) ==
  /\ voice # None /\ ~disposed
  /\ Finish(voice)
  /\ refused' = [refused EXCEPT ![voice] = IF rejects THEN @ + 1 ELSE @]
  /\ UNCHANGED <<deck, music, muted, apiReady, cuts, disposed, serial, left>>

ClipRejected(v) ==
  /\ refused[v] > 0
  /\ refused' = [refused EXCEPT ![v] = @ - 1]
  /\ Finish(v)
  /\ UNCHANGED <<deck, music, muted, apiReady, cuts, disposed, serial, left>>

(* stopAll: a clip that was still loading will be rejected. *)
StopVoice(rejects) ==
  /\ tally' = [v \in Clips |-> [tally[v] EXCEPT
                 !.dropped = @ + Count(v) + IF voice = v THEN 1 ELSE 0]]
  /\ queue' = <<>>
  /\ voice' = None
  /\ refused' = IF voice = None \/ ~rejects THEN refused
                ELSE [refused EXCEPT ![voice] = @ + 1]

-----------------------------------------------------------------------------

StopAll(rejects) ==
  /\ ~disposed /\ Spend("bgm")
  /\ StopVoice(rejects)
  /\ StopMusic
  /\ UNCHANGED <<muted, apiReady, cuts, disposed>>

(* The provider of the audio stack is unmounted. *)
Dispose(rejects) ==
  /\ ~disposed
  /\ disposed' = TRUE
  /\ StopVoice(rejects)
  /\ DisposeDeck
  /\ call' = Wake(call)
  /\ yt' = Destroyed(player)
  /\ player' = None
  /\ kind' = None /\ mediaId' = None
  /\ behavior' = None /\ kindAtStart' = None
  /\ Meets
  /\ UNCHANGED <<mode, volume, muted, apiReady, cutscene, endedHandled, show, left>>

Requests == \/ \E n \in Calls, m \in Modes :
                 \/ \E id \in Tracks : SetBgmFile(n, id, m)
                 \/ \E id \in Videos : SetBgmVideo(n, id, m)
            \/ ToggleMute
            \/ \E c \in Cuts, b \in Behaviors : PlayFileCutscene(c, b) \/ PlayCutscene(c, b)
            \/ SkipCutscene
            \/ \E v \in Clips : ClipArrives(v)
            \/ \E r \in BOOLEAN : StopAll(r) \/ Dispose(r)
Answers  == \/ \E n \in Calls : \/ FilePlays(n) \/ StopReturned(n)
                                \/ VideoReady(n) \/ VideoFails(n)
            \/ ApiReady
            \/ CleanupTimer
            \/ StopTimer
            \/ \E c \in Cuts : CutsceneReady(c) \/ CutsceneFails(c) \/ CutsceneEnds(c)
            \/ \E r \in BOOLEAN : ClipOver(r)
            \/ \E v \in Clips : ClipRejected(v)

Next == Requests \/ Answers

(* Timers fire; a clip ends or fails.  The network promises nothing else. *)
Fairness == /\ WF_vars(StopTimer)
            /\ WF_vars(\E r \in BOOLEAN : ClipOver(r))

Spec == Init /\ [][Next]_vars /\ Fairness

-----------------------------------------------------------------------------

MusicTypeOK ==
  /\ call \in [Calls -> Commands]
  /\ kind \in Kinds \cup {None}
  /\ mediaId \in Tracks \cup Videos \cup {None}
  /\ mode \in Modes
  /\ player \in Calls \cup {None}
  /\ yt \in [Calls -> {"none", "loading", "building", "playing", "paused", "dead"}]
  /\ volume \in [Calls -> BOOLEAN]

CutTypeOK ==
  /\ behavior \in Behaviors \cup {None}
  /\ kindAtStart \in Kinds \cup {None}
  /\ cutscene \in Cuts \cup {None}
  /\ endedHandled \in BOOLEAN
  /\ show \in [Cuts -> {"none", "loading", "deaf", "playing", "stray", "over"}]

VoiceTypeOK ==
  /\ voice \in Clips \cup {None}
  /\ queue \in Seq(Clips)
  /\ refused \in [Clips -> Nat]
  /\ tally \in [Clips -> [asked : Nat, ended : Nat, dropped : Nat]]

TypeOK ==
  /\ DeckTypeOK
  /\ MusicTypeOK
  /\ CutTypeOK
  /\ VoiceTypeOK
  /\ muted \in BOOLEAN /\ apiReady \in BOOLEAN /\ disposed \in BOOLEAN
  /\ serial \in BOOLEAN
  /\ left \in [bgm : Nat, cut : Nat, clip : Nat, mute : Nat]

(* Both slots hold a track only while a fade is under way (settleInFlightFade *)
(* and the cleanup timer: no third track is ever left sounding).             *)
TwoTracksOnlyWhileFading ==
  (\A i \in Slots : slots[i].track # None) => fadeEnd # None

Sounding == {n \in Calls : yt[n] \in {"loading", "building", "playing", "paused"}}

(* The single active slot, "tears down on switch", of AudioOrchestrator.    *)
SingleSource ==
  /\ kind = "file" => /\ Sounding = {} /\ current = mediaId
                      /\ \E i \in Slots : slots[i].track = mediaId
  /\ kind = "youtube" => Sounding = {player} /\ current = None
  /\ kind = None => Sounding = {} /\ current = None /\ mediaId = None

(* "If a newer play() preempted us, this stale timer is irrelevant."        *)
CurrentTrackKeepsItsSlot ==
  current # None => \E i \in Slots : slots[i].track = current

(* As long as no command has met one that waits, the slot holds what was    *)
(* asked for last: the other source has been torn down, on every switch.    *)
OneSourceWhenSerial == serial /\ InFlight = {} => SingleSource

(* The same of every pause between commands, serial or not.                 *)
OneSourceAtRest == InFlight = {} => SingleSource

(* Music that a cutscene holds belongs to one that is current, so that its  *)
(* end, its failure or a skip lets the music go.                            *)
HeldOnlyDuringCutscene ==
  (\E i \in Slots : slots[i].held) =>
    /\ behavior = "pause" /\ kindAtStart = "file"
    /\ cutscene # None

(* Every clip that was asked for is reported once, dropped once, or still   *)
(* to come: the reading on the server advances by these reports.            *)
VoiceAccounted ==
  \A v \in Clips : tally[v].asked = tally[v].ended + tally[v].dropped + Count(v)
                                      + IF voice = v THEN 1 ELSE 0

(* A command that waits for the fade of stop() goes on, whatever cancels it. *)
StopCallReturns ==
  \A n \in Calls : call[n].at = "stopping" ~> call[n].at # "stopping"
=============================================================================
