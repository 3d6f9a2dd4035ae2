-------------------------- MODULE GameAudioProofs --------------------------
(***************************************************************************)
(* Proofs about GameAudio, for every set of tracks, videos, clips,         *)
(* commands and cutscenes: its types; that two tracks sound only while a   *)
(* fade is under way; that music is held only for a cutscene that is       *)
(* current; that commands that do not overlap leave a single source; and   *)
(* that every voice clip is accounted for.                                 *)
(***************************************************************************)
EXTENDS GameAudio, FiniteSetTheorems, TLAPS

USE NoneAssumption, CallsAssumption, VideosAssumption, BudgetsAssumption

-----------------------------------------------------------------------------
(* Types: the deck *)

\* A fade that is settled leaves slots and an index.
LEMMA SettledType ==
  ASSUME DeckTypeOK
  PROVE  /\ SettledSlots \in [Slots -> [track : Tracks \cup {None}, held : BOOLEAN]]
         /\ SettledActive \in Slots /\ Other(SettledActive) \in Slots
BY DEF DeckTypeOK, SettledSlots, SettledActive, Slots, Other, Empty

LEMMA PlayTrackType ==
  ASSUME DeckTypeOK, NEW n \in Calls, NEW id \in Tracks, PlayTrack(n, id)
  PROVE  DeckTypeOK'
<1>1. slots' \in [Slots -> [track : Tracks \cup {None}, held : BOOLEAN]]
  BY SettledType DEF PlayTrack
<1> QED BY <1>1, SettledType DEF DeckTypeOK, PlayTrack, ClearTimers, NoStop, Slots

LEMMA StopTrackType ==
  ASSUME DeckTypeOK, NEW n \in Calls \cup {None}, StopTrack(n)
  PROVE  DeckTypeOK'
BY SettledType DEF DeckTypeOK, StopTrack

LEMMA HoldType ==
  ASSUME DeckTypeOK, NEW b \in BOOLEAN
  PROVE  HoldSlots(b) \in [Slots -> [track : Tracks \cup {None}, held : BOOLEAN]]
BY DEF DeckTypeOK, HoldSlots

LEMMA DeckStepType ==
  ASSUME DeckTypeOK,
         \/ \E n \in Calls : ArmCleanup(n)
         \/ \E t \in timers : CleanupFires(t, disposed)
         \/ StopFires
         \/ DisposeDeck
         \/ UNCHANGED deck
  PROVE  DeckTypeOK'
<1>1. ASSUME NEW n \in Calls, ArmCleanup(n) PROVE DeckTypeOK'
  BY <1>1 DEF DeckTypeOK, ArmCleanup
<1>2. ASSUME NEW t \in timers, CleanupFires(t, disposed) PROVE DeckTypeOK'
  <2>1. slots' \in [Slots -> [track : Tracks \cup {None}, held : BOOLEAN]]
    <3>1. Empty \in [track : Tracks \cup {None}, held : BOOLEAN] BY DEF Empty
    <3>2. slots' = slots \/ slots' = [slots EXCEPT ![active] = Empty]
      BY <1>2 DEF CleanupFires
    <3> QED BY <3>1, <3>2 DEF DeckTypeOK
  <2>2. active' \in Slots /\ fadeEnd' \in Calls \cup {None}
    BY <1>2 DEF DeckTypeOK, CleanupFires, Slots, Other
  <2> QED BY <1>2, <2>1, <2>2 DEF DeckTypeOK, CleanupFires
<1>3. ASSUME StopFires PROVE DeckTypeOK'
  BY <1>3 DEF DeckTypeOK, StopFires, NoStop, Empty, Slots
<1>4. ASSUME DisposeDeck PROVE DeckTypeOK'
  BY <1>4 DEF DeckTypeOK, DisposeDeck, ClearTimers, NoStop, Empty, Slots
<1>5. ASSUME UNCHANGED deck PROVE DeckTypeOK'
  BY <1>5 DEF DeckTypeOK, deck
<1> QED BY <1>1, <1>2, <1>3, <1>4, <1>5

(* Types: the music *)

LEMMA ResolveType ==
  ASSUME NEW calls \in [Calls -> Commands]
  PROVE  Resolve(calls) \in [Calls -> Commands] /\ Wake(calls) \in [Calls -> Commands]
<1>1. \A r \in Commands : [r EXCEPT !.at = "stopped"] \in Commands BY DEF Commands
<1> QED BY <1>1 DEF Resolve, Wake

LEMMA DestroyedType ==
  ASSUME MusicTypeOK, NEW p \in Calls \cup {None}
  PROVE  Destroyed(p) \in [Calls -> {"none", "loading", "building", "playing",
                                     "paused", "dead"}]
BY DEF MusicTypeOK, Destroyed

LEMMA CreateType ==
  ASSUME MusicTypeOK, NEW n \in Calls,
         NEW players \in [Calls -> {"none", "loading", "building", "playing",
                                    "paused", "dead"}],
         CreatePlayer(n, players)
  PROVE  /\ yt' \in [Calls -> {"none", "loading", "building", "playing", "paused", "dead"}]
         /\ player' \in Calls
BY DEF CreatePlayer

\* A command takes its next place.
LEMMA CallType ==
  ASSUME MusicTypeOK, NEW n \in Calls, NEW id \in Tracks \cup Videos \cup {None},
         NEW m \in Modes,
         NEW at \in {"unused", "playing", "stopping", "stopped", "video", "done"}
  PROVE  /\ [call EXCEPT ![n] = [at |-> at, id |-> id, mode |-> m]] \in [Calls -> Commands]
         /\ [call EXCEPT ![n].at = at] \in [Calls -> Commands]
         /\ [call EXCEPT ![n] = [NoCall EXCEPT !.at = "done"]] \in [Calls -> Commands]
         /\ call[n].id \in Tracks \cup Videos \cup {None} /\ call[n].mode \in Modes
<1>1. /\ [at |-> at, id |-> id, mode |-> m] \in Commands
      /\ [NoCall EXCEPT !.at = "done"] \in Commands
      /\ \A r \in Commands : /\ [r EXCEPT !.at = at] \in Commands
                           /\ r.id \in Tracks \cup Videos \cup {None} /\ r.mode \in Modes
  BY DEF Commands, NoCall, Modes
<1> QED BY <1>1 DEF MusicTypeOK

LEMMA StopMusicType ==
  ASSUME TypeOK, StopMusic
  PROVE  DeckTypeOK' /\ MusicTypeOK' /\ serial' \in BOOLEAN
<1>1. DeckTypeOK' /\ call' \in [Calls -> Commands]
  <2>1. CASE kind = "file" /\ ~NothingToStop
    <3>1. call' = Wake(call) /\ StopTrack(None) BY <2>1 DEF StopMusic
    <3>2. DeckTypeOK' BY <3>1, StopTrackType DEF TypeOK
    <3> QED BY <3>1, <3>2, ResolveType DEF TypeOK, MusicTypeOK
  <2>2. CASE ~(kind = "file" /\ ~NothingToStop)
    BY <2>2, DeckStepType DEF StopMusic, TypeOK, MusicTypeOK
  <2> QED BY <2>1, <2>2
<1>2. yt' \in [Calls -> {"none", "loading", "building", "playing", "paused", "dead"}]
      /\ player' \in Calls \cup {None}
  BY DestroyedType DEF StopMusic, TypeOK, MusicTypeOK
<1>3. serial' \in BOOLEAN BY DEF StopMusic, Meets, TypeOK
<1> QED BY <1>1, <1>2, <1>3 DEF StopMusic, TypeOK, MusicTypeOK

\* Cutscenes change the music and what is remembered of it within the types.
LEMMA PausedType ==
  ASSUME MusicTypeOK, NEW p \in Calls \cup {None},
         NEW players \in [Calls -> {"none", "loading", "building", "playing", "paused", "dead"}]
  PROVE  /\ Paused(p, players) \in [Calls -> {"none", "loading", "building", "playing",
                                              "paused", "dead"}]
         /\ Resumed(p, players) \in [Calls -> {"none", "loading", "building", "playing",
                                               "paused", "dead"}]
BY DEF Paused, Resumed

MemoryOK == /\ behavior \in Behaviors \cup {None}
            /\ kindAtStart \in Kinds \cup {None}

LEMMA LetGoType ==
  ASSUME TypeOK, NEW b, NEW k, LetGo(b, k)
  PROVE  DeckTypeOK' /\ MusicTypeOK' /\ MemoryOK' /\ serial' \in BOOLEAN
<1>1. slots' \in [Slots -> [track : Tracks \cup {None}, held : BOOLEAN]]
  BY HoldType DEF LetGo, TypeOK, DeckTypeOK
<1>2. yt' \in [Calls -> {"none", "loading", "building", "playing", "paused", "dead"}]
  BY PausedType DEF LetGo, TypeOK, MusicTypeOK
<1>3. DeckTypeOK' BY <1>1 DEF LetGo, TypeOK, DeckTypeOK
<1>4. MusicTypeOK' BY <1>2 DEF LetGo, TypeOK, MusicTypeOK
<1> QED BY <1>3, <1>4 DEF LetGo, TypeOK, MemoryOK

LEMMA CutsceneEndType ==
  ASSUME TypeOK, CutsceneEnd
  PROVE  DeckTypeOK' /\ MusicTypeOK' /\ MemoryOK' /\ serial' \in BOOLEAN
<1>1. CASE disposed
  BY <1>1, DeckStepType DEF CutsceneEnd, TypeOK, MusicTypeOK, MemoryOK, CutTypeOK, music
<1>2. CASE ~disposed BY <1>2, LetGoType DEF CutsceneEnd
<1> QED BY <1>1, <1>2

LEMMA CutsceneStartType ==
  ASSUME TypeOK, NEW b \in Behaviors, CutsceneStart(b)
  PROVE  DeckTypeOK' /\ MusicTypeOK' /\ MemoryOK' /\ serial' \in BOOLEAN
<1>1. CASE disposed
  BY <1>1, DeckStepType DEF CutsceneStart, TypeOK, MusicTypeOK, MemoryOK, CutTypeOK, music
<1>2. CASE ~disposed
  <2>1. MemoryOK' BY <1>2 DEF CutsceneStart, TypeOK, MusicTypeOK, MemoryOK
  <2>2. CASE b = "stop"
    <3>1. StopMusic BY <1>2, <2>2 DEF CutsceneStart
    <3> QED BY <2>1, <3>1, StopMusicType
  <2>3. CASE b = "keep"
    BY <1>2, <2>1, <2>3, DeckStepType DEF CutsceneStart, TypeOK, MusicTypeOK, music
  <2>4. CASE b = "pause"
    <3>1. slots' \in [Slots -> [track : Tracks \cup {None}, held : BOOLEAN]]
      BY <1>2, <2>4, HoldType DEF CutsceneStart, TypeOK, DeckTypeOK
    <3>2. yt' \in [Calls -> {"none", "loading", "building", "playing", "paused", "dead"}]
      BY <1>2, <2>4, PausedType DEF CutsceneStart, TypeOK, MusicTypeOK
    <3>3. UNCHANGED <<active, current, fadeEnd, timers, handle, stopping, call,
                      kind, mediaId, mode, player, volume, serial>>
      BY <1>2, <2>4 DEF CutsceneStart
    <3>4. DeckTypeOK' BY <3>1, <3>3 DEF TypeOK, DeckTypeOK
    <3>5. MusicTypeOK' BY <3>2, <3>3 DEF TypeOK, MusicTypeOK
    <3> QED BY <2>1, <3>3, <3>4, <3>5 DEF TypeOK
  <2> QED BY <2>2, <2>3, <2>4 DEF Behaviors
<1> QED BY <1>1, <1>2

-----------------------------------------------------------------------------
(* Types: voice clips *)

\* A clip is in the queue a natural number of times.
LEMMA CountType ==
  ASSUME NEW v \in Clips, queue \in Seq(Clips)
  PROVE  Count(v) \in Nat
<1>1. IsFiniteSet(1..Len(queue)) BY FS_Interval
<1>2. IsFiniteSet({i \in 1..Len(queue) : queue[i] = v}) BY <1>1, FS_Subset
<1> QED BY <1>2, FS_CardinalityType DEF Count

LEMMA HeadType ==
  ASSUME NEW q \in Seq(Clips), q # <<>>
  PROVE  Head(q) \in Clips /\ Tail(q) \in Seq(Clips)
OBVIOUS

LEMMA FinishType ==
  ASSUME VoiceTypeOK, NEW v \in Clips, Finish(v)
  PROVE  /\ voice' \in Clips \cup {None} /\ queue' \in Seq(Clips)
         /\ tally' \in [Clips -> [asked : Nat, ended : Nat, dropped : Nat]]
<1>1. CASE disposed \/ voice # v BY <1>1 DEF Finish, VoiceTypeOK
<1>2. CASE ~(disposed \/ voice # v)
  <2>1. [tally EXCEPT ![v].ended = @ + 1] \in [Clips -> [asked : Nat, ended : Nat, dropped : Nat]]
    <3>1. \A r \in [asked : Nat, ended : Nat, dropped : Nat] :
            [r EXCEPT !.ended = @ + 1] \in [asked : Nat, ended : Nat, dropped : Nat]
      OBVIOUS
    <3> QED BY <3>1 DEF VoiceTypeOK
  <2>2. queue # <<>> => Head(queue) \in Clips /\ Tail(queue) \in Seq(Clips)
    <3>1. queue \in Seq(Clips) BY DEF VoiceTypeOK
    <3> QED BY <3>1, HeadType
  <2> QED BY <1>2, <2>1, <2>2 DEF Finish, VoiceTypeOK
<1> QED BY <1>1, <1>2

LEMMA StopVoiceType ==
  ASSUME VoiceTypeOK, NEW r \in BOOLEAN, StopVoice(r)
  PROVE  VoiceTypeOK'
<1>1. ASSUME NEW v \in Clips
      PROVE  [tally[v] EXCEPT !.dropped = @ + Count(v) + IF voice = v THEN 1 ELSE 0]
               \in [asked : Nat, ended : Nat, dropped : Nat]
  <2>1. Count(v) \in Nat BY CountType DEF VoiceTypeOK
  <2>2. tally[v] \in [asked : Nat, ended : Nat, dropped : Nat] BY DEF VoiceTypeOK
  <2> HIDE DEF Count
  <2> QED BY <2>1, <2>2
<1>2. tally' \in [Clips -> [asked : Nat, ended : Nat, dropped : Nat]]
  BY <1>1 DEF StopVoice
<1>3. refused' \in [Clips -> Nat] BY DEF StopVoice, VoiceTypeOK
<1> QED BY <1>2, <1>3 DEF StopVoice, VoiceTypeOK

-----------------------------------------------------------------------------
(* Type correctness, one step per action *)

LEMMA SpendType ==
  ASSUME TypeOK, NEW f \in {"bgm", "cut", "clip", "mute"}, Spend(f)
  PROVE  left' \in [bgm : Nat, cut : Nat, clip : Nat, mute : Nat]
BY DEF TypeOK, Spend

LEMMA InitType == Init => TypeOK
<1> SUFFICES ASSUME Init PROVE TypeOK OBVIOUS
<1>1. DeckTypeOK BY DEF Init, DeckInit, DeckTypeOK, Slots, Empty, NoStop
<1>2. MusicTypeOK BY DEF Init, MusicTypeOK, Commands, NoCall, Modes
<1>3. CutTypeOK BY DEF Init, CutTypeOK
<1>4. VoiceTypeOK BY DEF Init, VoiceTypeOK
<1> QED BY <1>1, <1>2, <1>3, <1>4 DEF Init, TypeOK

LEMMA MusicStepType ==
  ASSUME TypeOK,
         \/ \E n \in Calls, m \in Modes :
              \/ \E id \in Tracks : SetBgmFile(n, id, m)
              \/ \E id \in Videos : SetBgmVideo(n, id, m)
         \/ \E n \in Calls : \/ FilePlays(n) \/ StopReturned(n)
                             \/ VideoReady(n) \/ VideoFails(n)
         \/ ApiReady \/ ToggleMute \/ CleanupTimer \/ StopTimer
  PROVE  TypeOK'
<1> USE DEF TypeOK
<1>1. ASSUME NEW n \in Calls, NEW m \in Modes, NEW id \in Tracks, SetBgmFile(n, id, m)
      PROVE  TypeOK'
  <2>1. left' \in [bgm : Nat, cut : Nat, clip : Nat, mute : Nat]
        /\ serial' \in BOOLEAN
    BY <1>1, SpendType DEF SetBgmFile, Meets
  <2>2. yt' \in [Calls -> {"none", "loading", "building", "playing", "paused", "dead"}]
        /\ player' \in Calls \cup {None}
    BY <1>1, DestroyedType DEF SetBgmFile, MusicTypeOK
  <2>3. DeckTypeOK' BY <1>1, PlayTrackType, DeckStepType DEF SetBgmFile
  <2>4. call' \in [Calls -> Commands]
    <3>1. CASE current = id
      <4>1. [call EXCEPT ![n].at = "done"] \in [Calls -> Commands] BY CallType
      <4> QED BY <1>1, <3>1, <4>1 DEF SetBgmFile
    <3>2. CASE current # id
      <4> DEFINE next == [call EXCEPT ![n] = [at |-> "playing", id |-> id, mode |-> m]]
      <4>1. next \in [Calls -> Commands]
        BY CallType
      <4>2. call' = Wake(next) BY <1>1, <3>2 DEF SetBgmFile
      <4> HIDE DEF next
      <4> QED BY <4>1, <4>2, ResolveType
    <3> QED BY <3>1, <3>2
  <2>5. MusicTypeOK' BY <1>1, <2>2, <2>4 DEF SetBgmFile, MusicTypeOK, Kinds
  <2> QED BY <1>1, <2>1, <2>3, <2>5 DEF SetBgmFile, CutTypeOK, VoiceTypeOK, cuts, voices
<1>2. ASSUME NEW n \in Calls, NEW m \in Modes, NEW id \in Videos, SetBgmVideo(n, id, m)
      PROVE  TypeOK'
  <2>1. left' \in [bgm : Nat, cut : Nat, clip : Nat, mute : Nat]
        /\ serial' \in BOOLEAN
    BY <1>2, SpendType DEF SetBgmVideo, Meets
  <2>2. yt' \in [Calls -> {"none", "loading", "building", "playing", "paused", "dead"}]
        /\ player' \in Calls \cup {None}
    BY <1>2, DestroyedType, CreateType DEF SetBgmVideo, MusicTypeOK
  <2>3. DeckTypeOK' BY <1>2, StopTrackType, DeckStepType DEF SetBgmVideo
  <2>4. call' \in [Calls -> Commands]
    <3>1. CASE ~(kind = "file" /\ ~NothingToStop)
      <4>1. [call EXCEPT ![n] = [at |-> "video", id |-> id, mode |-> m]] \in [Calls -> Commands]
        BY CallType
      <4> QED BY <1>2, <3>1, <4>1 DEF SetBgmVideo
    <3>2. CASE kind = "file" /\ ~NothingToStop
      <4> DEFINE next == [call EXCEPT ![n] = [at |-> "stopping", id |-> id, mode |-> m]]
      <4>1. next \in [Calls -> Commands]
        BY CallType
      <4>2. call' = Wake(next) BY <1>2, <3>2 DEF SetBgmVideo
      <4> HIDE DEF next
      <4> QED BY <4>1, <4>2, ResolveType
    <3> QED BY <3>1, <3>2
  <2>5. MusicTypeOK' BY <1>2, <2>2, <2>4 DEF SetBgmVideo, MusicTypeOK, Kinds
  <2> QED BY <1>2, <2>1, <2>3, <2>5 DEF SetBgmVideo, CutTypeOK, VoiceTypeOK, cuts, voices
<1>3. ASSUME NEW n \in Calls, FilePlays(n) PROVE TypeOK'
  <2>1. DeckTypeOK' BY <1>3, DeckStepType DEF FilePlays
  <2>2. MusicTypeOK' BY <1>3, CallType DEF FilePlays, MusicTypeOK, Kinds, Modes
  <2> QED BY <1>3, <2>1, <2>2 DEF FilePlays, CutTypeOK, VoiceTypeOK, cuts, voices
<1>4. ASSUME NEW n \in Calls, StopReturned(n) PROVE TypeOK'
  <2>1. DeckTypeOK' BY <1>4, DeckStepType DEF StopReturned
  <2>2. MusicTypeOK' BY <1>4, CallType, CreateType DEF StopReturned, MusicTypeOK, Modes
  <2> QED BY <1>4, <2>1, <2>2 DEF StopReturned, CutTypeOK, VoiceTypeOK, cuts, voices
<1>5. ASSUME NEW n \in Calls, VideoReady(n) PROVE TypeOK'
  <2>1. DeckTypeOK' BY <1>5, DeckStepType DEF VideoReady
  <2>2. MusicTypeOK' BY <1>5, CallType DEF VideoReady, MusicTypeOK, Kinds, Modes
  <2> QED BY <1>5, <2>1, <2>2 DEF VideoReady, CutTypeOK, VoiceTypeOK, cuts, voices
<1>6. ASSUME NEW n \in Calls, VideoFails(n) PROVE TypeOK'
  <2>1. DeckTypeOK' BY <1>6, DeckStepType DEF VideoFails
  <2>2. MusicTypeOK' BY <1>6, CallType, DestroyedType DEF VideoFails, MusicTypeOK, Modes
  <2> QED BY <1>6, <2>1, <2>2 DEF VideoFails, CutTypeOK, VoiceTypeOK, cuts, voices
<1>7. ASSUME ApiReady PROVE TypeOK'
  <2>1. DeckTypeOK' BY <1>7, DeckStepType DEF ApiReady
  <2>2. MusicTypeOK' BY <1>7 DEF ApiReady, MusicTypeOK
  <2> QED BY <1>7, <2>1, <2>2 DEF ApiReady, CutTypeOK, VoiceTypeOK, cuts, voices
<1>8. ASSUME ToggleMute PROVE TypeOK'
  <2>1. DeckTypeOK' BY <1>8, DeckStepType DEF ToggleMute
  <2>2. MusicTypeOK' BY <1>8 DEF ToggleMute, MusicTypeOK
  <2> QED BY <1>8, <2>1, <2>2, SpendType DEF ToggleMute, CutTypeOK, VoiceTypeOK, cuts, voices
<1>9. ASSUME CleanupTimer PROVE TypeOK'
  <2>1. DeckTypeOK' BY <1>9, DeckStepType DEF CleanupTimer
  <2> QED BY <1>9, <2>1 DEF CleanupTimer, MusicTypeOK, CutTypeOK, VoiceTypeOK, music, cuts, voices
<1>10. ASSUME StopTimer PROVE TypeOK'
  <2>1. DeckTypeOK' BY <1>10, DeckStepType DEF StopTimer
  <2>2. MusicTypeOK' BY <1>10, ResolveType DEF StopTimer, MusicTypeOK
  <2> QED BY <1>10, <2>1, <2>2 DEF StopTimer, CutTypeOK, VoiceTypeOK, cuts, voices
<1> QED BY <1>1, <1>2, <1>3, <1>4, <1>5, <1>6, <1>7, <1>8, <1>9, <1>10

LEMMA CutStepType ==
  ASSUME TypeOK,
         \/ \E c \in Cuts, b \in Behaviors : PlayFileCutscene(c, b) \/ PlayCutscene(c, b)
         \/ SkipCutscene
         \/ \E c \in Cuts : CutsceneReady(c) \/ CutsceneFails(c) \/ CutsceneEnds(c)
  PROVE  TypeOK'
<1> USE DEF TypeOK
<1>1. ASSUME NEW c \in Cuts, NEW b \in Behaviors, PlayFileCutscene(c, b) PROVE TypeOK'
  <2>1. DeckTypeOK' /\ MusicTypeOK' /\ MemoryOK' /\ serial' \in BOOLEAN
    <3>1. CASE disposed
      BY <1>1, <3>1, DeckStepType DEF PlayFileCutscene, MusicTypeOK, MemoryOK, CutTypeOK, music
    <3>2. CASE ~disposed /\ b = "stop"
      <4>1. MemoryOK' BY <1>1, <3>2 DEF PlayFileCutscene, MemoryOK
      <4> QED BY <1>1, <3>2, <4>1, StopMusicType DEF PlayFileCutscene
    <3>3. CASE ~disposed /\ b # "stop"
      BY <1>1, <3>3, LetGoType DEF PlayFileCutscene
    <3> QED BY <3>1, <3>2, <3>3
  <2>2. CutTypeOK' BY <1>1, <2>1 DEF PlayFileCutscene, CutTypeOK, MemoryOK
  <2> QED BY <1>1, <2>1, <2>2, SpendType DEF PlayFileCutscene, VoiceTypeOK, voices
<1>2. ASSUME NEW c \in Cuts, NEW b \in Behaviors, PlayCutscene(c, b) PROVE TypeOK'
  <2>1. DeckTypeOK' /\ MusicTypeOK' /\ MemoryOK' /\ serial' \in BOOLEAN
    BY <1>2, CutsceneStartType DEF PlayCutscene
  <2>2. CutTypeOK' BY <1>2, <2>1 DEF PlayCutscene, CutTypeOK, MemoryOK
  <2> QED BY <1>2, <2>1, <2>2, SpendType DEF PlayCutscene, VoiceTypeOK, voices
<1>3. ASSUME HandleVideoEnded, UNCHANGED <<muted, apiReady, voices, disposed, left>>
      PROVE  TypeOK'
  <2>1. CASE endedHandled
    BY <1>3, <2>1, DeckStepType DEF HandleVideoEnded, MusicTypeOK, CutTypeOK, VoiceTypeOK,
                                    music, cuts, voices
  <2>2. CASE ~endedHandled
    <3>1. DeckTypeOK' /\ MusicTypeOK' /\ MemoryOK' /\ serial' \in BOOLEAN
      BY <1>3, <2>2, CutsceneEndType DEF HandleVideoEnded
    <3>2. show' \in [Cuts -> {"none", "loading", "deaf", "playing", "stray", "over"}]
      BY <1>3, <2>2 DEF HandleVideoEnded, CutTypeOK
    <3>3. CutTypeOK' BY <1>3, <2>2, <3>1, <3>2 DEF HandleVideoEnded, CutTypeOK, MemoryOK
    <3> QED BY <1>3, <3>1, <3>3 DEF VoiceTypeOK, voices
  <2> QED BY <2>1, <2>2
<1>4. ASSUME SkipCutscene PROVE TypeOK' BY <1>3, <1>4 DEF SkipCutscene
<1>5. ASSUME NEW c \in Cuts, CutsceneEnds(c) PROVE TypeOK' BY <1>3, <1>5 DEF CutsceneEnds
<1>6. ASSUME NEW c \in Cuts, CutsceneReady(c) PROVE TypeOK'
  <2>1. DeckTypeOK' BY <1>6, DeckStepType DEF CutsceneReady
  <2>2. CutTypeOK' BY <1>6 DEF CutsceneReady, CutTypeOK
  <2> QED BY <1>6, <2>1, <2>2 DEF CutsceneReady, MusicTypeOK, VoiceTypeOK, music, voices
<1>7. ASSUME NEW c \in Cuts, CutsceneFails(c) PROVE TypeOK'
  <2>1. DeckTypeOK' /\ MusicTypeOK' /\ MemoryOK' /\ serial' \in BOOLEAN
    BY <1>7, CutsceneEndType DEF CutsceneFails
  <2>2. CutTypeOK' BY <1>7, <2>1 DEF CutsceneFails, CutTypeOK, MemoryOK
  <2> QED BY <1>7, <2>1, <2>2 DEF CutsceneFails, VoiceTypeOK, voices
<1> QED BY <1>1, <1>2, <1>4, <1>5, <1>6, <1>7

LEMMA ClipStepType ==
  ASSUME TypeOK,
         \/ \E v \in Clips : ClipArrives(v) \/ ClipRejected(v)
         \/ \E r \in BOOLEAN : StopAll(r) \/ Dispose(r) \/ ClipOver(r)
  PROVE  TypeOK'
<1> USE DEF TypeOK
<1>1. ASSUME NEW v \in Clips, ClipArrives(v) PROVE TypeOK'
  <2>1. DeckTypeOK' BY <1>1, DeckStepType DEF ClipArrives
  <2>2. tally' \in [Clips -> [asked : Nat, ended : Nat, dropped : Nat]]
    <3>1. \A r \in [asked : Nat, ended : Nat, dropped : Nat] :
            [r EXCEPT !.asked = @ + 1] \in [asked : Nat, ended : Nat, dropped : Nat]
      OBVIOUS
    <3> QED BY <1>1, <3>1 DEF ClipArrives, VoiceTypeOK
  <2>3. queue' \in Seq(Clips)
    <3>1. queue \in Seq(Clips) BY DEF VoiceTypeOK
    <3>2. Append(queue, v) \in Seq(Clips) BY <3>1
    <3> QED BY <1>1, <3>1, <3>2 DEF ClipArrives
  <2>4. VoiceTypeOK' BY <1>1, <2>2, <2>3 DEF ClipArrives, VoiceTypeOK
  <2> QED BY <1>1, <2>1, <2>4, SpendType DEF ClipArrives, MusicTypeOK, CutTypeOK, music, cuts
<1>2. ASSUME NEW v \in Clips, ClipRejected(v) PROVE TypeOK'
  <2>1. DeckTypeOK' BY <1>2, DeckStepType DEF ClipRejected
  <2>2. refused' \in [Clips -> Nat] BY <1>2 DEF ClipRejected, VoiceTypeOK
  <2>3. VoiceTypeOK' BY <1>2, <2>2, FinishType DEF ClipRejected, VoiceTypeOK
  <2> QED BY <1>2, <2>1, <2>3 DEF ClipRejected, MusicTypeOK, CutTypeOK, music, cuts
<1>3. ASSUME NEW r \in BOOLEAN, ClipOver(r) PROVE TypeOK'
  <2>1. DeckTypeOK' BY <1>3, DeckStepType DEF ClipOver
  <2>2. voice \in Clips BY <1>3 DEF ClipOver, VoiceTypeOK
  <2>3. refused' \in [Clips -> Nat] BY <1>3, <2>2 DEF ClipOver, VoiceTypeOK
  <2>4. Finish(voice) BY <1>3 DEF ClipOver
  <2>5. VoiceTypeOK' BY <2>2, <2>3, <2>4, FinishType DEF VoiceTypeOK
  <2> QED BY <1>3, <2>1, <2>5 DEF ClipOver, MusicTypeOK, CutTypeOK, music, cuts
<1>4. ASSUME NEW r \in BOOLEAN, StopAll(r) PROVE TypeOK'
  <2>1. DeckTypeOK' /\ MusicTypeOK' /\ serial' \in BOOLEAN
    BY <1>4, StopMusicType DEF StopAll
  <2>2. VoiceTypeOK' BY <1>4, StopVoiceType DEF StopAll
  <2> QED BY <1>4, <2>1, <2>2, SpendType DEF StopAll, CutTypeOK, cuts
<1>5. ASSUME NEW r \in BOOLEAN, Dispose(r) PROVE TypeOK'
  <2>1. DeckTypeOK' BY <1>5, DeckStepType DEF Dispose
  <2>2. VoiceTypeOK' BY <1>5, StopVoiceType DEF Dispose
  <2>3. call' \in [Calls -> Commands] /\ yt' \in [Calls -> {"none", "loading", "building",
                                                        "playing", "paused", "dead"}]
    BY <1>5, ResolveType, DestroyedType DEF Dispose, MusicTypeOK
  <2>4. MusicTypeOK' BY <1>5, <2>3 DEF Dispose, MusicTypeOK
  <2>5. CutTypeOK' BY <1>5 DEF Dispose, CutTypeOK
  <2>6. serial' \in BOOLEAN BY <1>5 DEF Dispose, Meets
  <2> QED BY <1>5, <2>1, <2>2, <2>4, <2>5, <2>6 DEF Dispose
<1> QED BY <1>1, <1>2, <1>3, <1>4, <1>5

LEMMA StepType == TypeOK /\ [Next]_vars => TypeOK'
<1> SUFFICES ASSUME TypeOK, [Next]_vars PROVE TypeOK' OBVIOUS
<1>1. CASE UNCHANGED vars
  BY <1>1, DeckStepType DEF vars, TypeOK, MusicTypeOK, CutTypeOK, VoiceTypeOK, music, cuts, voices
<1>2. CASE Requests
  BY <1>2, MusicStepType, CutStepType, ClipStepType DEF Requests
<1>3. CASE Answers
  BY <1>3, MusicStepType, CutStepType, ClipStepType DEF Answers
<1> QED BY <1>1, <1>2, <1>3 DEF Next

\* The variables keep the types that the deck, the music, the cutscenes and
\* the clips were declared with.
THEOREM TypeCorrect == Spec => []TypeOK
<1>1. TypeOK /\ [Next]_vars => TypeOK' BY StepType
<1> QED BY <1>1, InitType, PTL DEF Spec

-----------------------------------------------------------------------------
(* Two tracks sound only while a fade is under way *)

\* Settling a fade empties one of the slots.
LEMMA SettledOne ==
  ASSUME TypeOK, TwoTracksOnlyWhileFading
  PROVE  /\ \E i \in Slots : SettledSlots[i].track = None
         /\ fadeEnd # None => SettledSlots[active].track = None
BY DEF TypeOK, DeckTypeOK, TwoTracksOnlyWhileFading, SettledSlots, Slots, Empty

LEMMA StopTrackFades ==
  ASSUME TypeOK, TwoTracksOnlyWhileFading, NEW n \in Calls \cup {None}, StopTrack(n)
  PROVE  TwoTracksOnlyWhileFading'
BY SettledOne DEF StopTrack, TwoTracksOnlyWhileFading

LEMMA HoldFades ==
  ASSUME TypeOK, TwoTracksOnlyWhileFading, NEW b \in BOOLEAN,
         slots' = HoldSlots(b) \/ slots' = slots, fadeEnd' = fadeEnd
  PROVE  TwoTracksOnlyWhileFading'
<1>1. \A i \in Slots : slots'[i].track = slots[i].track
  BY DEF HoldSlots, TypeOK, DeckTypeOK
<1> QED BY <1>1 DEF TwoTracksOnlyWhileFading

LEMMA CutsceneFades ==
  ASSUME TypeOK, TwoTracksOnlyWhileFading,
         \/ \E b \in Behaviors : CutsceneStart(b)
         \/ CutsceneEnd
         \/ StopMusic
         \/ \E b \in Behaviors, k \in Kinds \cup {None} : LetGo(b, k)
         \/ UNCHANGED deck
  PROVE  TwoTracksOnlyWhileFading'
<1>1. ASSUME UNCHANGED deck PROVE TwoTracksOnlyWhileFading'
  BY <1>1 DEF deck, TwoTracksOnlyWhileFading
<1>2. ASSUME StopMusic PROVE TwoTracksOnlyWhileFading'
  BY <1>1, <1>2, StopTrackFades DEF StopMusic
<1>3. ASSUME NEW b, NEW k, LetGo(b, k) PROVE TwoTracksOnlyWhileFading'
  BY <1>3, HoldFades DEF LetGo
<1>4. ASSUME CutsceneEnd PROVE TwoTracksOnlyWhileFading'
  BY <1>1, <1>3, <1>4 DEF CutsceneEnd
<1>5. ASSUME NEW b \in Behaviors, CutsceneStart(b) PROVE TwoTracksOnlyWhileFading'
  BY <1>1, <1>2, <1>5, HoldFades DEF CutsceneStart, Behaviors
<1> QED BY <1>1, <1>2, <1>3, <1>4, <1>5

LEMMA FadeStep ==
  ASSUME TypeOK, TwoTracksOnlyWhileFading, [Next]_vars
  PROVE  TwoTracksOnlyWhileFading'
<1>1. ASSUME NEW n \in Calls, NEW m \in Modes, NEW id \in Tracks, SetBgmFile(n, id, m)
      PROVE  TwoTracksOnlyWhileFading'
  BY <1>1, CutsceneFades DEF SetBgmFile, PlayTrack, TwoTracksOnlyWhileFading
<1>2. ASSUME NEW n \in Calls, NEW m \in Modes, NEW id \in Videos, SetBgmVideo(n, id, m)
      PROVE  TwoTracksOnlyWhileFading'
  BY <1>2, CutsceneFades, StopTrackFades DEF SetBgmVideo
<1>3. ASSUME NEW n \in Calls, FilePlays(n) PROVE TwoTracksOnlyWhileFading'
  BY <1>3 DEF FilePlays, ArmCleanup, TwoTracksOnlyWhileFading
<1>4. ASSUME CleanupTimer PROVE TwoTracksOnlyWhileFading'
  <2>1. PICK t \in timers : CleanupFires(t, disposed) BY <1>4 DEF CleanupTimer
  <2>2. CASE disposed \/ fadeEnd # t.at
    BY <2>1, <2>2 DEF CleanupFires, TwoTracksOnlyWhileFading
  <2>3. CASE ~(disposed \/ fadeEnd # t.at)
    <3>1. slots' = [slots EXCEPT ![active] = Empty] BY <2>1, <2>3 DEF CleanupFires
    <3> QED BY <3>1 DEF TwoTracksOnlyWhileFading, TypeOK, DeckTypeOK, Empty
  <2> QED BY <2>2, <2>3
<1>5. ASSUME StopTimer PROVE TwoTracksOnlyWhileFading'
  <2>1. slots' = slots \/ slots' = [slots EXCEPT ![active] = Empty]
    BY <1>5 DEF StopTimer, StopFires
  <2>2. fadeEnd' = fadeEnd BY <1>5 DEF StopTimer, StopFires
  <2> QED BY <2>1, <2>2 DEF TwoTracksOnlyWhileFading, TypeOK, DeckTypeOK, Empty
<1>6. ASSUME NEW r \in BOOLEAN, Dispose(r) PROVE TwoTracksOnlyWhileFading'
  BY <1>6 DEF Dispose, DisposeDeck, TwoTracksOnlyWhileFading, Slots, Empty
<1>7. ASSUME NEW c \in Cuts, NEW b \in Behaviors, PlayFileCutscene(c, b) \/ PlayCutscene(c, b)
      PROVE  TwoTracksOnlyWhileFading'
  BY <1>7, CutsceneFades DEF PlayFileCutscene, PlayCutscene, TypeOK, MusicTypeOK
<1>8. ASSUME HandleVideoEnded PROVE TwoTracksOnlyWhileFading'
  BY <1>8, CutsceneFades DEF HandleVideoEnded
<1>9. ASSUME NEW c \in Cuts, CutsceneReady(c) \/ CutsceneFails(c) \/ CutsceneEnds(c)
      PROVE  TwoTracksOnlyWhileFading'
  BY <1>8, <1>9, CutsceneFades DEF CutsceneReady, CutsceneFails, CutsceneEnds
<1>10. ASSUME NEW r \in BOOLEAN, StopAll(r) PROVE TwoTracksOnlyWhileFading'
  BY <1>10, CutsceneFades DEF StopAll
<1>11. ASSUME \/ \E n \in Calls : StopReturned(n) \/ VideoReady(n) \/ VideoFails(n)
              \/ ApiReady \/ ToggleMute
              \/ \E v \in Clips : ClipArrives(v) \/ ClipRejected(v)
              \/ \E r \in BOOLEAN : ClipOver(r)
              \/ UNCHANGED vars
       PROVE  TwoTracksOnlyWhileFading'
  <2>1. UNCHANGED deck
    BY <1>11 DEF StopReturned, VideoReady, VideoFails, ApiReady, ToggleMute, ClipArrives,
                 ClipRejected, ClipOver, vars
  <2> QED BY <2>1, CutsceneFades
<1> QED
  BY <1>1, <1>2, <1>3, <1>4, <1>5, <1>6, <1>7, <1>8, <1>9, <1>10, <1>11
  DEF Next, Requests, Answers, SkipCutscene

\* The two slots both hold a track only while a fade between them is under way.
THEOREM FadeSafety == Spec => []TwoTracksOnlyWhileFading
<1>1. Init => TwoTracksOnlyWhileFading
  BY DEF Init, DeckInit, TwoTracksOnlyWhileFading, Empty, Slots
<1>2. TypeOK /\ TwoTracksOnlyWhileFading /\ [Next]_vars => TwoTracksOnlyWhileFading'
  BY FadeStep
<1> QED BY <1>1, <1>2, TypeCorrect, PTL DEF Spec

-----------------------------------------------------------------------------
(* Music is held only for a cutscene that is current *)

Held == \E i \in Slots : slots[i].held

\* What is held has a track, so that resume() reaches it; a behavior is
\* remembered only for a current cutscene, and no longer after dispose().
HeldInv ==
  /\ \A i \in Slots : slots[i].held => slots[i].track # None
  /\ Held => behavior = "pause" /\ kindAtStart = "file"
  /\ behavior # None => cutscene # None
  /\ disposed => behavior = None

\* Slots that hold no more than before, with everything else unchanged.
LEMMA HeldLess ==
  ASSUME HeldInv, UNCHANGED <<behavior, kindAtStart, cutscene, disposed>>,
         \A i \in Slots : slots'[i].held => slots[i].held /\ slots'[i].track = slots[i].track
  PROVE  HeldInv'
BY DEF HeldInv, Held

\* Starting and stopping a track hold nothing that was not held.
LEMMA DeckHeld ==
  ASSUME TypeOK,
         \/ \E n \in Calls, id \in Tracks : PlayTrack(n, id)
         \/ \E n \in Calls \cup {None} : StopTrack(n)
         \/ \E n \in Calls : ArmCleanup(n)
         \/ \E t \in timers : CleanupFires(t, disposed)
         \/ StopFires
         \/ UNCHANGED deck
  PROVE  \A i \in Slots : slots'[i].held => slots[i].held /\ slots'[i].track = slots[i].track
<1>1. \A i \in Slots : SettledSlots[i].held =>
        slots[i].held /\ SettledSlots[i].track = slots[i].track
  BY DEF TypeOK, DeckTypeOK, SettledSlots, Empty
<1>2. ASSUME NEW n \in Calls, NEW id \in Tracks, PlayTrack(n, id)
      PROVE  \A i \in Slots : slots'[i].held => slots[i].held /\ slots'[i].track = slots[i].track
  <2>1. SettledSlots \in [Slots -> [track : Tracks \cup {None}, held : BOOLEAN]]
    BY SettledType DEF TypeOK
  <2> QED BY <1>1, <1>2, <2>1 DEF PlayTrack
<1>3. ASSUME \/ slots' = slots
             \/ slots' = SettledSlots
             \/ slots' = [slots EXCEPT ![active] = Empty]
      PROVE  \A i \in Slots : slots'[i].held => slots[i].held /\ slots'[i].track = slots[i].track
  BY <1>1, <1>3 DEF TypeOK, DeckTypeOK, Empty
<1> QED BY <1>2, <1>3 DEF StopTrack, ArmCleanup, CleanupFires, StopFires, deck

LEMMA LetGoHeld ==
  ASSUME TypeOK, HeldInv, NEW k,
         LetGo(behavior, k), behavior = "pause" => k = kindAtStart,
         disposed' = disposed
  PROVE  HeldInv'
<1>1. ~Held'
  <2>1. CASE behavior = "pause" /\ k = "file"
    <3>1. slots' = HoldSlots(FALSE) BY <2>1 DEF LetGo
    <3> QED BY <3>1 DEF HoldSlots, Held, HeldInv, TypeOK, DeckTypeOK
  <2>2. CASE ~(behavior = "pause" /\ k = "file")
    <3>1. slots' = slots BY <2>2 DEF LetGo
    <3> QED BY <2>2, <3>1 DEF HeldInv, Held
  <2> QED BY <2>1, <2>2
<1> QED BY <1>1 DEF LetGo, HeldInv, Held

LEMMA EndHeld ==
  ASSUME TypeOK, HeldInv, CutsceneEnd, disposed' = disposed
  PROVE  HeldInv' /\ behavior' = None
<1>1. CASE disposed
  <2>1. behavior' = None /\ slots' = slots /\ disposed' BY <1>1 DEF CutsceneEnd, HeldInv, deck
  <2> QED BY <1>1, <2>1 DEF HeldInv, Held, Behaviors
<1>2. CASE ~disposed BY <1>2, LetGoHeld DEF CutsceneEnd, LetGo
<1> QED BY <1>1, <1>2

LEMMA StopMusicHeld ==
  ASSUME TypeOK, StopMusic
  PROVE  \A i \in Slots : slots'[i].held => slots[i].held /\ slots'[i].track = slots[i].track
BY DeckHeld DEF StopMusic

LEMMA HeldStep ==
  ASSUME TypeOK, HeldInv, [Next]_vars
  PROVE  HeldInv'
<1>1. ASSUME UNCHANGED <<behavior, kindAtStart, cutscene, disposed>>,
             \/ \E n \in Calls, id \in Tracks : PlayTrack(n, id)
             \/ \E n \in Calls \cup {None} : StopTrack(n)
             \/ \E n \in Calls : ArmCleanup(n)
             \/ \E t \in timers : CleanupFires(t, disposed)
             \/ StopFires
             \/ UNCHANGED deck
      PROVE  HeldInv'
  BY <1>1, DeckHeld, HeldLess
<1>2. ASSUME NEW n \in Calls, NEW m \in Modes, NEW id \in Tracks, SetBgmFile(n, id, m)
      PROVE  HeldInv'
  BY <1>1, <1>2 DEF SetBgmFile, cuts
<1>3. ASSUME NEW n \in Calls, NEW m \in Modes, NEW id \in Videos, SetBgmVideo(n, id, m)
      PROVE  HeldInv'
  BY <1>1, <1>3 DEF SetBgmVideo, cuts
<1>4. ASSUME \/ \E n \in Calls : \/ FilePlays(n) \/ StopReturned(n)
                                 \/ VideoReady(n) \/ VideoFails(n)
             \/ ApiReady \/ ToggleMute \/ CleanupTimer \/ StopTimer
             \/ \E v \in Clips : ClipArrives(v) \/ ClipRejected(v)
             \/ \E r \in BOOLEAN : ClipOver(r)
             \/ UNCHANGED vars
      PROVE  HeldInv'
  BY <1>1, <1>4 DEF FilePlays, StopReturned, VideoReady, VideoFails, ApiReady, ToggleMute,
     CleanupTimer, StopTimer, ClipArrives, ClipRejected, ClipOver, vars, cuts
<1>5. ASSUME NEW c \in Cuts, NEW b \in Behaviors, PlayFileCutscene(c, b) PROVE HeldInv'
  <2>1. behavior = None /\ ~Held BY <1>5 DEF PlayFileCutscene, HeldInv, Behaviors
  <2>2. \A i \in Slots : ~slots'[i].held
    <3>1. CASE disposed BY <1>5, <2>1, <3>1 DEF PlayFileCutscene, Held, deck
    <3>2. CASE ~disposed /\ b = "stop"
      BY <1>5, <2>1, <3>2, StopMusicHeld DEF PlayFileCutscene, Held
    <3>3. CASE ~disposed /\ b # "stop"
      <4>1. slots' = slots \/ slots' = HoldSlots(FALSE) BY <1>5, <3>3 DEF PlayFileCutscene, LetGo
      <4> QED BY <2>1, <4>1 DEF Held, HoldSlots, TypeOK, DeckTypeOK
    <3> QED BY <3>1, <3>2, <3>3
  <2>3. behavior' = None BY <1>5, <2>1 DEF PlayFileCutscene, LetGo
  <2> QED BY <2>2, <2>3 DEF HeldInv, Held
<1>6. ASSUME NEW c \in Cuts, NEW b \in Behaviors, PlayCutscene(c, b) PROVE HeldInv'
  <2>1. behavior = None /\ ~Held BY <1>6 DEF PlayCutscene, HeldInv, Behaviors
  <2>2. cutscene' # None /\ disposed' = disposed BY <1>6 DEF PlayCutscene
  <2>3. CASE disposed
    BY <1>6, <2>1, <2>2, <2>3 DEF PlayCutscene, CutsceneStart, HeldInv, Held, deck
  <2>4. CASE ~disposed /\ b = "stop"
    BY <1>6, <2>1, <2>2, <2>4, StopMusicHeld DEF PlayCutscene, CutsceneStart, HeldInv, Held
  <2>5. CASE ~disposed /\ b = "keep"
    BY <1>6, <2>1, <2>2, <2>5 DEF PlayCutscene, CutsceneStart, HeldInv, Held, deck
  <2>6. CASE ~disposed /\ b = "pause"
    <3>1. /\ behavior' = "pause" /\ kindAtStart' = kind
          /\ slots' = IF kind = "file" THEN HoldSlots(TRUE) ELSE slots
      BY <1>6, <2>6 DEF PlayCutscene, CutsceneStart
    <3>2. \A i \in Slots : HoldSlots(TRUE)[i].held => HoldSlots(TRUE)[i].track # None
      BY <2>1 DEF HoldSlots, TypeOK, DeckTypeOK, Held
    <3> QED BY <2>1, <2>2, <2>6, <3>1, <3>2 DEF HeldInv, Held
  <2> QED BY <2>3, <2>4, <2>5, <2>6 DEF Behaviors
<1>7. ASSUME HandleVideoEnded, disposed' = disposed PROVE HeldInv'
  <2>1. CASE endedHandled
    BY <1>1, <1>7, <2>1 DEF HandleVideoEnded, cuts
  <2>2. CASE ~endedHandled
    BY <1>7, <2>2, EndHeld DEF HandleVideoEnded, HeldInv
  <2> QED BY <2>1, <2>2
<1>8. ASSUME NEW c \in Cuts, CutsceneReady(c) \/ CutsceneFails(c) \/ CutsceneEnds(c)
      PROVE  HeldInv'
  <2>1. CASE CutsceneReady(c) BY <1>1, <2>1 DEF CutsceneReady
  <2>2. CASE CutsceneFails(c)
    <3>1. HeldInv' /\ behavior' = None BY <2>2, EndHeld DEF CutsceneFails
    <3> QED BY <3>1 DEF HeldInv
  <2>3. CASE CutsceneEnds(c) BY <1>7, <2>3 DEF CutsceneEnds
  <2> QED BY <1>8, <2>1, <2>2, <2>3
<1>9. ASSUME SkipCutscene PROVE HeldInv' BY <1>7, <1>9 DEF SkipCutscene
<1>10. ASSUME NEW r \in BOOLEAN, StopAll(r) PROVE HeldInv'
  BY <1>10, StopMusicHeld, HeldLess DEF StopAll, cuts
<1>11. ASSUME NEW r \in BOOLEAN, Dispose(r) PROVE HeldInv'
  BY <1>11 DEF Dispose, DisposeDeck, HeldInv, Held, Empty
<1> QED
  BY <1>2, <1>3, <1>4, <1>5, <1>6, <1>8, <1>9, <1>10, <1>11 DEF Next, Requests, Answers

\* Music that a cutscene holds belongs to one that is current, so that its
\* end, its failure or a skip lets the music go.
THEOREM HeldSafety == Spec => []HeldOnlyDuringCutscene
<1>1. Init => HeldInv BY DEF Init, DeckInit, HeldInv, Held, Empty
<1>2. TypeOK /\ HeldInv /\ [Next]_vars => HeldInv' BY HeldStep
<1>3. HeldInv => HeldOnlyDuringCutscene
  BY DEF HeldInv, Held, HeldOnlyDuringCutscene, Behaviors
<1> QED BY <1>1, <1>2, <1>3, TypeCorrect, PTL DEF Spec

-----------------------------------------------------------------------------
(* Commands that do not overlap leave one source *)

\* The promise of stop() that is open belongs to a command that waits for it.
StopOwned == stopping.on /\ stopping.call # None => call[stopping.call].at = "stopping"

OneInFlight   == \A m, n \in InFlight : m = n
OneTimer      == \A t \in timers : /\ t.id = handle /\ t.at # None
                                   /\ \A u \in timers : u = t
CurrentInSlot == current # None =>
                   slots[IF fadeEnd = None THEN active ELSE Other(active)].track = current

\* What is known while the command n is where it is.
Stage(n) ==
  /\ call[n].at = "unused" => yt[n] = "none"
  /\ call[n].at = "playing" => /\ current = call[n].id /\ current # None
                              /\ fadeEnd = n /\ timers = {} /\ Sounding = {}
  /\ call[n].at \in {"stopping", "stopped"} => current = None /\ Sounding = {}
  /\ call[n].at = "video" => current = None /\ player = n /\ Sounding = {n}

AtRest ==
  /\ kind = "file" => Sounding = {} /\ current = mediaId /\ mediaId # None
  /\ kind = "youtube" => /\ Sounding = {player} /\ current = None
                        /\ player \in Calls /\ yt[player] \in {"playing", "paused"}
  /\ kind = None => Sounding = {} /\ current = None /\ mediaId = None

SerialInv == /\ OneInFlight /\ OneTimer /\ CurrentInSlot
             /\ \A n \in Calls : Stage(n)
             /\ InFlight = {} => AtRest

\* At rest a file that plays has a slot, so that there is a single source.
LEMMA RestIsSingle ==
  ASSUME TypeOK, SerialInv, InFlight = {}
  PROVE  SingleSource
<1>1. active \in Slots /\ Other(active) \in Slots BY DEF TypeOK, DeckTypeOK, Slots, Other
<1>2. kind = "file" => \E i \in Slots : slots[i].track = mediaId
  BY <1>1 DEF SerialInv, AtRest, CurrentInSlot
<1> QED BY <1>2 DEF SerialInv, AtRest, SingleSource

LEMMA StopOwnedStep ==
  ASSUME TypeOK, StopOwned, [Next]_vars
  PROVE  StopOwned'
<1>1. ASSUME stopping' = stopping, \A n \in Calls : call[n].at = "stopping" => call'[n] = call[n]
      PROVE  StopOwned'
  BY <1>1 DEF StopOwned, TypeOK, DeckTypeOK
<1>2. ASSUME UNCHANGED <<deck, call>> PROVE StopOwned' BY <1>2 DEF StopOwned, deck
<1>3. ASSUME stopping' = NoStop PROVE StopOwned' BY <1>3 DEF StopOwned, NoStop
<1>4. ASSUME StopMusic PROVE StopOwned'
  BY <1>2, <1>4 DEF StopMusic, StopTrack, StopOwned
<1>5. ASSUME NEW b, NEW k, LetGo(b, k) PROVE StopOwned' BY <1>1, <1>5 DEF LetGo
<1>6. ASSUME CutsceneEnd PROVE StopOwned' BY <1>2, <1>5, <1>6 DEF CutsceneEnd, music
<1>7. ASSUME NEW b \in Behaviors, CutsceneStart(b) PROVE StopOwned'
  BY <1>1, <1>2, <1>4, <1>7 DEF CutsceneStart, Behaviors, music
<1>8. ASSUME HandleVideoEnded PROVE StopOwned' BY <1>2, <1>6, <1>8 DEF HandleVideoEnded, music
<1>9. ASSUME NEW n \in Calls, NEW m \in Modes, NEW id \in Tracks, SetBgmFile(n, id, m)
      PROVE  StopOwned'
  <2>1. CASE current = id
    BY <1>1, <1>9, <2>1 DEF SetBgmFile, Fresh, deck, TypeOK, MusicTypeOK
  <2>2. CASE current # id BY <1>3, <1>9, <2>2 DEF SetBgmFile, PlayTrack, ClearTimers
  <2> QED BY <2>1, <2>2
<1>10. ASSUME NEW n \in Calls, NEW m \in Modes, NEW id \in Videos, SetBgmVideo(n, id, m)
       PROVE  StopOwned'
  <2>1. CASE kind = "file" /\ ~NothingToStop
    <3>1. stopping' = [idx |-> SettledActive, call |-> n, on |-> TRUE]
      BY <1>10, <2>1 DEF SetBgmVideo, StopTrack
    <3>2. n # Stopped
      BY <1>10 DEF SetBgmVideo, Fresh, Stopped, StopOwned
    <3>3. call' = Wake([call EXCEPT ![n] = [at |-> "stopping", id |-> id, mode |-> m]])
      BY <1>10, <2>1 DEF SetBgmVideo
    <3>4. call'[n].at = "stopping" BY <3>2, <3>3 DEF Wake, Resolve, TypeOK, MusicTypeOK
    <3> QED BY <3>1, <3>4 DEF StopOwned
  <2>2. CASE ~(kind = "file" /\ ~NothingToStop)
    BY <1>1, <1>10, <2>2 DEF SetBgmVideo, Fresh, deck, TypeOK, MusicTypeOK
  <2> QED BY <2>1, <2>2
<1>11. ASSUME NEW n \in Calls, FilePlays(n) \/ StopReturned(n) \/ VideoReady(n) \/ VideoFails(n)
       PROVE  StopOwned'
  <2>1. stopping' = stopping
    BY <1>11 DEF FilePlays, ArmCleanup, StopReturned, VideoReady, VideoFails, deck
  <2>2. \A k \in Calls : k # n => call'[k] = call[k]
    BY <1>11 DEF FilePlays, StopReturned, VideoReady, VideoFails, TypeOK, MusicTypeOK
  <2>3. call[n].at # "stopping"
    BY <1>11 DEF FilePlays, StopReturned, VideoReady, VideoFails
  <2> QED BY <1>1, <2>1, <2>2, <2>3
<1>12. ASSUME StopTimer PROVE StopOwned' BY <1>3, <1>12 DEF StopTimer, StopFires
<1>13. ASSUME CleanupTimer PROVE StopOwned'
  BY <1>1, <1>13 DEF CleanupTimer, CleanupFires, music
<1>14. ASSUME NEW r \in BOOLEAN, StopAll(r) \/ Dispose(r) PROVE StopOwned'
  BY <1>3, <1>4, <1>14 DEF StopAll, Dispose, DisposeDeck, ClearTimers
<1>15. ASSUME NEW c \in Cuts, NEW b \in Behaviors, PlayFileCutscene(c, b) \/ PlayCutscene(c, b)
       PROVE  StopOwned'
  BY <1>2, <1>4, <1>5, <1>7, <1>15 DEF PlayFileCutscene, PlayCutscene, music
<1>16. ASSUME NEW c \in Cuts, CutsceneReady(c) \/ CutsceneFails(c) \/ CutsceneEnds(c)
       PROVE  StopOwned'
  BY <1>2, <1>6, <1>8, <1>16 DEF CutsceneReady, CutsceneFails, CutsceneEnds, music
<1>17. ASSUME \/ ApiReady \/ ToggleMute \/ UNCHANGED vars
              \/ \E v \in Clips : ClipArrives(v) \/ ClipRejected(v)
              \/ \E r \in BOOLEAN : ClipOver(r)
       PROVE  StopOwned'
  BY <1>2, <1>17 DEF ApiReady, ToggleMute, ClipArrives, ClipRejected, ClipOver, vars, music
<1> QED
  BY <1>8, <1>9, <1>10, <1>11, <1>12, <1>13, <1>14, <1>15, <1>16, <1>17
  DEF Next, Requests, Answers, SkipCutscene

\* At rest no command waits for a fade, and none goes on when a timer is cleared.
LEMMA RestStopped ==
  ASSUME TypeOK, StopOwned, InFlight = {}
  PROVE  Stopped \notin Calls
<1>1. \A m \in Calls : call[m].at # "stopping" BY DEF InFlight
<1> QED BY <1>1 DEF Stopped, StopOwned, TypeOK, DeckTypeOK

LEMMA RestResolve ==
  ASSUME TypeOK, StopOwned, InFlight = {}
  PROVE  Wake(call) = call
BY RestStopped DEF Wake, Resolve, TypeOK, MusicTypeOK

\* At rest every YouTube player but the active one is silent for good.
LEMMA RestDestroyed ==
  ASSUME TypeOK, SerialInv, InFlight = {}
  PROVE  /\ kind = "youtube" => \A n \in Calls :
               Destroyed(player)[n] \notin {"loading", "building", "playing", "paused"}
         /\ kind # "youtube" => \A n \in Calls :
               yt[n] \notin {"loading", "building", "playing", "paused"}
         /\ \A n \in Calls : yt[n] = "none" => Destroyed(player)[n] = "none"
BY DEF SerialInv, AtRest, Sounding, Destroyed, TypeOK, MusicTypeOK, Kinds

\* Only the timer that the handle names is set, so that clearing it leaves none.
LEMMA ClearedTimers ==
  ASSUME OneTimer
  PROVE  {t \in timers : t.id # handle} = {}
BY DEF OneTimer

LEMMA FileSerial ==
  ASSUME TypeOK, StopOwned, SerialInv, InFlight = {},
         NEW n \in Calls, NEW m \in Modes, NEW id \in Tracks, SetBgmFile(n, id, m)
  PROVE  SerialInv'
<1>1. call[n].at = "unused" /\ yt[n] = "none" BY DEF SetBgmFile, Fresh, SerialInv, Stage
<1>2. id # None OBVIOUS
<1>3. Sounding' = {}
  BY RestDestroyed DEF SetBgmFile, Sounding
<1>4. \A k \in Calls : yt[k] = "none" => yt'[k] = "none"
  BY RestDestroyed DEF SetBgmFile
<1>5. CASE current = id
  <2>1. kind = "file" BY <1>2, <1>5 DEF SerialInv, AtRest, TypeOK, MusicTypeOK, Kinds
  <2>2. call' = [call EXCEPT ![n].at = "done"] /\ UNCHANGED deck /\ kind' = "file" /\ mediaId' = id
    BY <1>5 DEF SetBgmFile
  <2>3. call'[n].at = "done" /\ \A k \in Calls : k # n => call'[k] = call[k]
    BY <2>2 DEF TypeOK, MusicTypeOK
  <2>4. InFlight' = {} BY <2>3 DEF InFlight
  <2>5. OneInFlight' BY <2>4 DEF OneInFlight
  <2>6. OneTimer' /\ CurrentInSlot'
    BY <2>2 DEF OneTimer, CurrentInSlot, SerialInv, deck
  <2>7. ASSUME NEW k \in Calls PROVE Stage(k)'
    <3>1. call'[k].at \in {"unused", "done"} BY <2>4 DEF InFlight
    <3>2. call'[k].at = "unused" => yt[k] = "none" BY <2>3 DEF SerialInv, Stage
    <3> QED BY <1>4, <3>1, <3>2 DEF Stage
  <2>8. AtRest' BY <1>2, <1>3, <1>5, <2>2 DEF AtRest, deck, Kinds
  <2> QED BY <2>5, <2>6, <2>7, <2>8 DEF SerialInv
<1>6. CASE current # id
  <2> DEFINE next == [call EXCEPT ![n] = [at |-> "playing", id |-> id, mode |-> m]]
  <2>1. /\ next \in [Calls -> Commands]
        /\ \A k \in Calls : k # n => next[k] = call[k]
        /\ next[n] = [at |-> "playing", id |-> id, mode |-> m]
    BY CallType DEF TypeOK, MusicTypeOK
  <2>2. call' = Wake(next) /\ PlayTrack(n, id) BY <1>6 DEF SetBgmFile
  <2> HIDE DEF next
  <2>3. call' = next
    <3>1. Wake(next) = next BY <2>1, RestStopped DEF Wake, Resolve
    <3> QED BY <2>2, <3>1
  <2>4. InFlight' = {n}
    <3>1. call'[n].at \notin {"unused", "done"} BY <2>1, <2>3
    <3>2. \A k \in Calls : k # n => call'[k].at \in {"unused", "done"}
      BY <2>1, <2>3 DEF InFlight
    <3> QED BY <3>1, <3>2 DEF InFlight
  <2>5. OneInFlight' BY <2>4 DEF OneInFlight
  <2>6. timers' = {} BY <2>2, ClearedTimers DEF PlayTrack, ClearTimers, SerialInv
  <2>7. CurrentInSlot'
    <3>1. SettledSlots \in [Slots -> [track : Tracks \cup {None}, held : BOOLEAN]]
          /\ Other(SettledActive) \in Slots
      BY SettledType DEF TypeOK
    <3>2. fadeEnd' # None /\ current' = id /\ active' = SettledActive
          /\ slots' = [SettledSlots EXCEPT ![Other(SettledActive)] = [track |-> id, held |-> FALSE]]
      BY <2>2 DEF PlayTrack
    <3>3. Other(active') = Other(SettledActive) BY <3>2
    <3>4. slots'[Other(active')].track = id BY <3>1, <3>2, <3>3
    <3> QED BY <3>2, <3>4 DEF CurrentInSlot, Other
  <2>8. ASSUME NEW k \in Calls PROVE Stage(k)'
    <3>1. CASE k = n
      <4>1. call'[k] = [at |-> "playing", id |-> id, mode |-> m] BY <2>1, <2>3, <3>1
      <4>2. fadeEnd' = n /\ current' = id BY <2>2 DEF PlayTrack
      <4> QED BY <1>2, <1>3, <2>6, <3>1, <4>1, <4>2 DEF Stage
    <3>2. CASE k # n
      <4>1. call'[k] = call[k] /\ call[k].at \in {"unused", "done"}
        BY <2>1, <2>3, <3>2 DEF InFlight
      <4>2. call[k].at = "unused" => yt[k] = "none" BY DEF SerialInv, Stage
      <4> QED BY <1>4, <4>1, <4>2 DEF Stage
    <3> QED BY <3>1, <3>2
  <2>9. OneTimer' BY <2>6 DEF OneTimer
  <2> QED BY <2>4, <2>5, <2>7, <2>8, <2>9 DEF SerialInv
<1> QED BY <1>5, <1>6

LEMMA VideoSerial ==
  ASSUME TypeOK, StopOwned, SerialInv, InFlight = {},
         NEW n \in Calls, NEW m \in Modes, NEW id \in Videos, SetBgmVideo(n, id, m)
  PROVE  SerialInv'
<1>1. call[n].at = "unused" /\ yt[n] = "none" BY DEF SetBgmVideo, Fresh, SerialInv, Stage
<1>2. CASE kind = "file" /\ ~NothingToStop
  <2> DEFINE next == [call EXCEPT ![n] = [at |-> "stopping", id |-> id, mode |-> m]]
  <2>1. /\ next \in [Calls -> Commands]
        /\ \A k \in Calls : k # n => next[k] = call[k]
        /\ next[n] = [at |-> "stopping", id |-> id, mode |-> m]
    BY CallType DEF TypeOK, MusicTypeOK
  <2>2. call' = Wake(next) /\ StopTrack(n) /\ yt' = yt BY <1>2 DEF SetBgmVideo
  <2> HIDE DEF next
  <2>3. call' = next
    <3>1. Wake(next) = next BY <2>1, RestStopped DEF Wake, Resolve
    <3> QED BY <2>2, <3>1
  <2>4. InFlight' = {n}
    <3>1. call'[n].at \notin {"unused", "done"} BY <2>1, <2>3
    <3>2. \A k \in Calls : k # n => call'[k].at \in {"unused", "done"}
      BY <2>1, <2>3 DEF InFlight
    <3> QED BY <3>1, <3>2 DEF InFlight
  <2>5. timers' = {} BY <2>2, ClearedTimers DEF StopTrack, SerialInv
  <2>6. current' = None BY <2>2 DEF StopTrack
  <2>7. Sounding' = {} BY <1>2, <2>2 DEF SerialInv, AtRest, Sounding
  <2>8. ASSUME NEW k \in Calls PROVE Stage(k)'
    <3>1. CASE k = n BY <2>1, <2>3, <2>6, <2>7, <3>1 DEF Stage
    <3>2. CASE k # n
      <4>1. call'[k] = call[k] /\ call[k].at \in {"unused", "done"}
        BY <2>1, <2>3, <3>2 DEF InFlight
      <4>2. call[k].at = "unused" => yt[k] = "none" BY DEF SerialInv, Stage
      <4> QED BY <2>2, <4>1, <4>2 DEF Stage
    <3> QED BY <3>1, <3>2
  <2> QED BY <2>4, <2>5, <2>6, <2>8 DEF SerialInv, OneInFlight, OneTimer, CurrentInSlot
<1>3. CASE ~(kind = "file" /\ ~NothingToStop)
  <2> DEFINE players == IF kind = "youtube" THEN Destroyed(player) ELSE yt
  <2>1. /\ call' = [call EXCEPT ![n] = [at |-> "video", id |-> id, mode |-> m]]
        /\ UNCHANGED deck /\ CreatePlayer(n, players)
    BY <1>3 DEF SetBgmVideo
  <2>2. current = None
    BY <1>3 DEF SerialInv, AtRest, NothingToStop, TypeOK, MusicTypeOK, Kinds
  <2>3. /\ \A k \in Calls : players[k] \notin {"loading", "building", "playing", "paused"}
        /\ \A k \in Calls : yt[k] = "none" => players[k] = "none"
        /\ players \in [Calls -> {"none", "loading", "building", "playing", "paused", "dead"}]
    BY RestDestroyed, DestroyedType DEF TypeOK, MusicTypeOK
  <2> HIDE DEF players
  <2>4. /\ player' = n /\ yt' \in [Calls -> {"none", "loading", "building", "playing", "paused", "dead"}]
        /\ yt'[n] \in {"loading", "building"} /\ \A k \in Calls : k # n => yt'[k] = players[k]
    BY <2>1, <2>3 DEF CreatePlayer
  <2>5. Sounding' = {n} BY <2>3, <2>4 DEF Sounding
  <2>6. /\ call'[n] = [at |-> "video", id |-> id, mode |-> m]
        /\ \A k \in Calls : k # n => call'[k] = call[k]
    BY <2>1 DEF TypeOK, MusicTypeOK
  <2>7. InFlight' = {n}
    <3>1. \A k \in Calls : k # n => call'[k].at \in {"unused", "done"}
      BY <2>6 DEF InFlight
    <3>2. call'[n].at = "video" BY <2>6
    <3> QED BY <3>1, <3>2 DEF InFlight
  <2>8. ASSUME NEW k \in Calls PROVE Stage(k)'
    <3>1. CASE k = n BY <2>1, <2>2, <2>4, <2>5, <2>6, <3>1 DEF Stage, deck
    <3>2. CASE k # n
      <4>1. call'[k] = call[k] /\ call[k].at \in {"unused", "done"}
        BY <2>6, <3>2 DEF InFlight
      <4>2. call[k].at = "unused" => yt[k] = "none" BY DEF SerialInv, Stage
      <4>3. call[k].at = "unused" => yt'[k] = "none" BY <2>3, <2>4, <3>2, <4>2
      <4> QED BY <4>1, <4>3 DEF Stage
    <3> QED BY <3>1, <3>2
  <2>9. OneTimer' /\ CurrentInSlot'
    BY <2>1 DEF OneTimer, CurrentInSlot, SerialInv, deck
  <2> QED BY <2>7, <2>8, <2>9 DEF SerialInv, OneInFlight
<1> QED BY <1>2, <1>3

LEMMA StopMusicSerial ==
  ASSUME TypeOK, StopOwned, SerialInv, InFlight = {}, StopMusic
  PROVE  SerialInv'
<1>1. call' = call /\ current' = None /\ (timers' = {} \/ (timers' = timers /\ handle' = handle))
  <2>1. CASE kind = "file" /\ ~NothingToStop
    <3>1. OneTimer BY DEF SerialInv
    <3>2. call' = Wake(call) /\ StopTrack(None) BY <2>1 DEF StopMusic
    <3>3. {t \in timers : t.id # handle} = {} BY <3>1, ClearedTimers
    <3>4. timers' = {} /\ current' = None BY <3>2, <3>3 DEF StopTrack
    <3>5. Wake(call) = call BY RestResolve
    <3>6. call' = call BY <3>2, <3>5
    <3> QED BY <3>4, <3>6
  <2>2. CASE ~(kind = "file" /\ ~NothingToStop)
    <3>1. current = None
      BY <2>2 DEF NothingToStop, SerialInv, AtRest, TypeOK, MusicTypeOK, Kinds
    <3> QED BY <2>2, <3>1 DEF StopMusic, deck
  <2> QED BY <2>1, <2>2
<1>2. Sounding' = {} BY RestDestroyed DEF StopMusic, Sounding
<1>3. InFlight' = {} BY <1>1 DEF InFlight
<1>4. ASSUME NEW k \in Calls PROVE Stage(k)'
  <2>1. call[k].at \in {"unused", "done"} BY DEF InFlight
  <2>2. yt[k] = "none" => yt'[k] = "none" BY RestDestroyed DEF StopMusic
  <2> QED BY <1>1, <2>1, <2>2 DEF SerialInv, Stage
<1>5. AtRest' BY <1>1, <1>2 DEF StopMusic, AtRest, Kinds
<1>6. OneTimer' BY <1>1 DEF OneTimer, SerialInv
<1> QED BY <1>1, <1>3, <1>4, <1>5, <1>6 DEF SerialInv, OneInFlight, CurrentInSlot

LEMMA DisposeSerial ==
  ASSUME TypeOK, StopOwned, SerialInv, InFlight = {}, NEW r \in BOOLEAN, Dispose(r)
  PROVE  SerialInv'
<1>1. call' = call /\ current' = None /\ timers' = {}
  BY RestResolve, ClearedTimers DEF Dispose, DisposeDeck, ClearTimers, SerialInv
<1>2. yt' = Destroyed(player) /\ kind' = None /\ mediaId' = None BY DEF Dispose
<1>3. Sounding' = {}
  <2>1. CASE kind = "youtube" BY <1>2, <2>1, RestDestroyed DEF Sounding
  <2>2. CASE kind # "youtube"
    BY <1>2, <2>2, RestDestroyed DEF Sounding, Destroyed, TypeOK, MusicTypeOK
  <2> QED BY <2>1, <2>2
<1>4. InFlight' = {} BY <1>1 DEF InFlight
<1>5. ASSUME NEW k \in Calls PROVE Stage(k)'
  <2>1. call[k].at \in {"unused", "done"} BY DEF InFlight
  <2>2. yt[k] = "none" => yt'[k] = "none" BY <1>2, RestDestroyed
  <2> QED BY <1>1, <2>1, <2>2 DEF SerialInv, Stage
<1>6. AtRest' BY <1>1, <1>2, <1>3 DEF AtRest, Kinds
<1> QED BY <1>1, <1>4, <1>5, <1>6 DEF SerialInv, OneInFlight, OneTimer, CurrentInSlot

\* What only pauses, resumes or prepares a player keeps the invariant.
LEMMA SameSerial ==
  ASSUME TypeOK, TypeOK', SerialInv,
         UNCHANGED <<active, current, fadeEnd, timers, handle, call, kind, mediaId, player>>,
         \A i \in Slots : slots'[i].track = slots[i].track,
         \A n \in Calls : \/ yt'[n] = yt[n]
                          \/ yt[n] \in {"playing", "paused"} /\ yt'[n] \in {"playing", "paused"}
                          \/ yt[n] = "loading" /\ yt'[n] = "building"
  PROVE  SerialInv'
<1>1. Sounding' = Sounding BY DEF Sounding
<1>2. InFlight' = InFlight BY DEF InFlight
<1>3. \A k \in Calls : Stage(k)' BY <1>1 DEF SerialInv, Stage
<1>4. AtRest => AtRest' BY <1>1 DEF AtRest
<1>5. CurrentInSlot' 
  <2>1. active \in Slots /\ Other(active) \in Slots /\ Other(active)' = Other(active)
    BY DEF TypeOK, DeckTypeOK, Slots, Other
  <2> QED BY <2>1 DEF SerialInv, CurrentInSlot
<1> QED BY <1>2, <1>3, <1>4, <1>5 DEF SerialInv, OneInFlight, OneTimer

LEMMA DeckSame ==
  ASSUME TypeOK, TypeOK', SerialInv, UNCHANGED <<deck, call, kind, mediaId, player, yt>>
  PROVE  SerialInv'
BY SameSerial DEF deck

LEMMA AnswerSerial ==
  ASSUME TypeOK, TypeOK', SerialInv, NEW n \in Calls,
         FilePlays(n) \/ StopReturned(n) \/ VideoReady(n) \/ VideoFails(n)
  PROVE  SerialInv'
<1>1. n \in InFlight
  BY DEF FilePlays, StopReturned, VideoReady, VideoFails, InFlight
<1>2. \A k \in Calls : k # n => call[k].at \in {"unused", "done"}
  BY <1>1 DEF SerialInv, OneInFlight, InFlight
<1>3. \A k \in Calls : k # n => call'[k] = call[k]
  BY DEF FilePlays, StopReturned, VideoReady, VideoFails, TypeOK, MusicTypeOK
<1>4. InFlight' \subseteq {n} BY <1>2, <1>3 DEF InFlight
<1>5. Stage(n) BY DEF SerialInv
<1>6. ASSUME NEW k \in Calls, k # n PROVE Stage(k)'
  <2>1. call[k].at = "unused" => yt[k] = "none" BY DEF SerialInv, Stage
  <2>2. yt[k] = "none" => yt'[k] = "none"
    BY <1>6 DEF FilePlays, StopReturned, VideoReady, VideoFails, CreatePlayer, Destroyed,
                TypeOK, MusicTypeOK
  <2> QED BY <1>2, <1>3, <1>6, <2>1, <2>2 DEF Stage
<1>7. ASSUME FilePlays(n) PROVE SerialInv'
  <2>1. call'[n].at = "done" BY <1>7 DEF FilePlays, NoCall, TypeOK, MusicTypeOK
  <2>2. /\ timers' = {[id |-> n, at |-> n]} /\ handle' = n
        /\ UNCHANGED <<slots, active, current, fadeEnd, yt, player>>
        /\ kind' = "file" /\ mediaId' = current /\ current # None /\ Sounding = {}
    BY <1>5, <1>7 DEF FilePlays, ArmCleanup, Stage
  <2>3. InFlight' = {} BY <1>4, <2>1 DEF InFlight
  <2>4. OneTimer' BY <2>2 DEF OneTimer
  <2>5. CurrentInSlot' BY <2>2 DEF SerialInv, CurrentInSlot, Other
  <2>6. Stage(n)' BY <2>1 DEF Stage
  <2>7. AtRest'
    <3>1. Sounding' = {} BY <2>2 DEF Sounding
    <3> QED BY <2>2, <3>1 DEF AtRest, Kinds
  <2>8. \A k \in Calls : Stage(k)' BY <1>6, <2>6
  <2> QED BY <2>3, <2>4, <2>5, <2>7, <2>8 DEF SerialInv, OneInFlight
<1>8. ASSUME StopReturned(n) PROVE SerialInv'
  <2>1. call'[n].at = "video" BY <1>8 DEF StopReturned, TypeOK, MusicTypeOK
  <2>2. UNCHANGED deck /\ CreatePlayer(n, yt) BY <1>8 DEF StopReturned
  <2>3. current = None /\ Sounding = {} BY <1>5, <1>8 DEF StopReturned, Stage
  <2>4. player' = n /\ Sounding' = {n}
    BY <2>2, <2>3 DEF CreatePlayer, Sounding, TypeOK, MusicTypeOK
  <2>5. Stage(n)' BY <2>1, <2>2, <2>3, <2>4 DEF Stage, deck
  <2>6. OneTimer' /\ CurrentInSlot' BY <2>2 DEF OneTimer, CurrentInSlot, SerialInv, deck
  <2>7. InFlight' = {n} BY <1>4, <2>1 DEF InFlight
  <2>8. \A k \in Calls : Stage(k)' BY <1>6, <2>5
  <2> QED BY <2>6, <2>7, <2>8 DEF SerialInv, OneInFlight
<1>9. ASSUME VideoReady(n) PROVE SerialInv'
  <2>1. call'[n].at = "done" BY <1>9 DEF VideoReady, NoCall, TypeOK, MusicTypeOK
  <2>2. current = None /\ Sounding = {n} /\ player = n BY <1>5, <1>9 DEF VideoReady, Stage
  <2>3. UNCHANGED deck /\ player' = player /\ kind' = "youtube" /\ yt' = [yt EXCEPT ![n] = "playing"]
    BY <1>9 DEF VideoReady
  <2>4. Sounding' = {n} /\ yt'[n] = "playing"
    BY <2>2, <2>3 DEF Sounding, TypeOK, MusicTypeOK
  <2>5. AtRest' BY <2>2, <2>3, <2>4 DEF AtRest, deck, Kinds
  <2>6. Stage(n)' BY <2>1 DEF Stage
  <2>7. InFlight' = {} BY <1>4, <2>1 DEF InFlight
  <2>8. OneTimer' /\ CurrentInSlot' BY <2>3 DEF OneTimer, CurrentInSlot, SerialInv, deck
  <2>9. \A k \in Calls : Stage(k)' BY <1>6, <2>6
  <2> QED BY <2>5, <2>7, <2>8, <2>9 DEF SerialInv, OneInFlight
<1>10. ASSUME VideoFails(n) PROVE SerialInv'
  <2>1. call'[n].at = "done" BY <1>10 DEF VideoFails, NoCall, TypeOK, MusicTypeOK
  <2>2. current = None /\ Sounding = {n} BY <1>5, <1>10 DEF VideoFails, Stage
  <2>3. UNCHANGED deck /\ kind' = None /\ mediaId' = None
        /\ yt' = [Destroyed(player) EXCEPT ![n] = "dead"]
    BY <1>10 DEF VideoFails
  <2>4. Sounding' = {} BY <2>2, <2>3 DEF Sounding, Destroyed, TypeOK, MusicTypeOK
  <2>5. AtRest' BY <2>2, <2>3, <2>4 DEF AtRest, deck, Kinds
  <2>6. Stage(n)' BY <2>1 DEF Stage
  <2>7. InFlight' = {} BY <1>4, <2>1 DEF InFlight
  <2>8. OneTimer' /\ CurrentInSlot' BY <2>3 DEF OneTimer, CurrentInSlot, SerialInv, deck
  <2>9. \A k \in Calls : Stage(k)' BY <1>6, <2>6
  <2> QED BY <2>5, <2>7, <2>8, <2>9 DEF SerialInv, OneInFlight
<1> QED BY <1>7, <1>8, <1>9, <1>10

LEMMA TimerSerial ==
  ASSUME TypeOK, TypeOK', StopOwned, SerialInv, CleanupTimer \/ StopTimer
  PROVE  SerialInv'
<1>1. ASSUME CleanupTimer PROVE SerialInv'
  <2>1. PICK t \in timers : CleanupFires(t, disposed) BY <1>1 DEF CleanupTimer
  <2>2. timers' = {} BY <2>1 DEF CleanupFires, SerialInv, OneTimer
  <2>3. UNCHANGED <<call, kind, mediaId, player, yt, current>>
    BY <1>1, <2>1 DEF CleanupTimer, CleanupFires, music
  <2>4. CurrentInSlot'
    <3>1. CASE disposed \/ fadeEnd # t.at
      BY <2>1, <3>1 DEF CleanupFires, SerialInv, CurrentInSlot, Other
    <3>2. CASE ~(disposed \/ fadeEnd # t.at)
      <4>1. fadeEnd # None BY <3>2 DEF SerialInv, OneTimer
      <4>2. /\ slots' = [slots EXCEPT ![active] = Empty] /\ active' = Other(active)
            /\ fadeEnd' = None
        BY <2>1, <3>2 DEF CleanupFires
      <4>3. active \in Slots /\ Other(active) \in Slots /\ active # Other(active)
        BY DEF TypeOK, DeckTypeOK, Slots, Other
      <4>4. slots'[Other(active)] = slots[Other(active)]
        BY <4>2, <4>3 DEF TypeOK, DeckTypeOK
      <4> QED BY <2>3, <4>1, <4>2, <4>4 DEF SerialInv, CurrentInSlot
    <3> QED BY <3>1, <3>2
  <2>5. \A k \in Calls : Stage(k)'
    <3>1. Sounding' = Sounding BY <2>3 DEF Sounding
    <3>2. \A k \in Calls : call[k].at # "playing" BY <2>1 DEF SerialInv, Stage
    <3> QED BY <2>3, <3>1, <3>2 DEF SerialInv, Stage
  <2>6. InFlight' = InFlight /\ (AtRest => AtRest') BY <2>3 DEF InFlight, AtRest, Sounding
  <2> QED BY <2>2, <2>4, <2>5, <2>6 DEF SerialInv, OneTimer, OneInFlight
<1>2. ASSUME StopTimer PROVE SerialInv'
  <2>1. /\ UNCHANGED <<active, current, fadeEnd, timers, handle, kind, mediaId, player, yt>>
        /\ current # None => slots' = slots
    BY <1>2 DEF StopTimer, StopFires
  <2>2. ASSUME NEW k \in Calls
        PROVE  \/ call'[k] = call[k]
               \/ call[k].at = "stopping" /\ call'[k].at = "stopped"
    BY <1>2 DEF StopTimer, Resolve, Stopped, StopOwned, TypeOK, MusicTypeOK
  <2>3. InFlight' = InFlight BY <2>2 DEF InFlight
  <2>4. Sounding' = Sounding BY <2>1 DEF Sounding
  <2>5. \A k \in Calls : Stage(k)' BY <2>1, <2>2, <2>4 DEF SerialInv, Stage
  <2>6. AtRest => AtRest' BY <2>1, <2>4 DEF AtRest
  <2>7. OneTimer' BY <2>1 DEF OneTimer, SerialInv
  <2>8. CurrentInSlot' BY <2>1 DEF CurrentInSlot, SerialInv, Other
  <2> QED BY <2>3, <2>5, <2>6, <2>7, <2>8 DEF SerialInv, OneInFlight
<1> QED BY <1>1, <1>2

LEMMA CutSerial ==
  ASSUME TypeOK, TypeOK', StopOwned, SerialInv,
         \/ \E b \in Behaviors : CutsceneStart(b) /\ (b = "stop" /\ ~disposed => InFlight = {})
         \/ CutsceneEnd
         \/ HandleVideoEnded
         \/ \E b \in Behaviors : LetGo(b, kind)
  PROVE  SerialInv'
<1>1. \A n \in Calls :
        /\ \/ Paused(player, yt)[n] = yt[n]
           \/ yt[n] = "playing" /\ Paused(player, yt)[n] = "paused"
        /\ \/ Resumed(player, yt)[n] = yt[n]
           \/ yt[n] = "paused" /\ Resumed(player, yt)[n] = "playing"
  <2>1. yt \in [Calls -> {"none", "loading", "building", "playing", "paused", "dead"}]
    BY DEF TypeOK, MusicTypeOK
  <2>2. player # None => player \in Calls BY DEF TypeOK, MusicTypeOK
  <2>3. Paused(player, yt) = yt \/ (yt[player] = "playing" /\ player \in Calls
                                  /\ Paused(player, yt) = [yt EXCEPT ![player] = "paused"])
    BY <2>2 DEF Paused
  <2>4. Resumed(player, yt) = yt \/ (yt[player] = "paused" /\ player \in Calls
                                   /\ Resumed(player, yt) = [yt EXCEPT ![player] = "playing"])
    BY <2>2 DEF Resumed
  <2>5. ASSUME NEW n \in Calls
        PROVE  \/ Paused(player, yt)[n] = yt[n]
               \/ yt[n] = "playing" /\ Paused(player, yt)[n] = "paused"
    BY <2>1, <2>3
  <2>6. ASSUME NEW n \in Calls
        PROVE  \/ Resumed(player, yt)[n] = yt[n]
               \/ yt[n] = "paused" /\ Resumed(player, yt)[n] = "playing"
    BY <2>1, <2>4
  <2> QED BY <2>5, <2>6
<1>2. \A b \in BOOLEAN, i \in Slots : HoldSlots(b)[i].track = slots[i].track
  BY DEF HoldSlots, TypeOK, DeckTypeOK
<1>3. ASSUME NEW b, NEW k, LetGo(b, k) PROVE SerialInv'
  <2>1. slots' = slots \/ slots' = HoldSlots(FALSE) BY <1>3 DEF LetGo
  <2>2. yt' = yt \/ yt' = Resumed(player, yt) BY <1>3 DEF LetGo
  <2>3. UNCHANGED <<active, current, fadeEnd, timers, handle, call, kind, mediaId, player>>
    BY <1>3 DEF LetGo
  <2>4. \A i \in Slots : slots'[i].track = slots[i].track BY <1>2, <2>1
  <2>5. \A n \in Calls : \/ yt'[n] = yt[n]
                         \/ yt[n] \in {"playing", "paused"} /\ yt'[n] \in {"playing", "paused"}
    BY <1>1, <2>2
  <2> QED BY <2>3, <2>4, <2>5, SameSerial
<1>4. ASSUME CutsceneEnd PROVE SerialInv'
  BY <1>3, <1>4, DeckSame DEF CutsceneEnd, music
<1>5. ASSUME HandleVideoEnded PROVE SerialInv'
  BY <1>4, <1>5, DeckSame DEF HandleVideoEnded, music
<1>6. ASSUME NEW b \in Behaviors, CutsceneStart(b), b = "stop" /\ ~disposed => InFlight = {}
      PROVE  SerialInv'
  <2>1. CASE disposed \/ b = "keep"
    BY <1>6, <2>1, DeckSame DEF CutsceneStart, music
  <2>2. CASE ~disposed /\ b = "stop"
    BY <1>6, <2>2, StopMusicSerial DEF CutsceneStart
  <2>3. CASE ~disposed /\ b = "pause"
    <3>1. slots' = slots \/ slots' = HoldSlots(TRUE) BY <1>6, <2>3 DEF CutsceneStart
    <3>2. yt' = yt \/ yt' = Paused(player, yt) BY <1>6, <2>3 DEF CutsceneStart
    <3>3. UNCHANGED <<active, current, fadeEnd, timers, handle, call, kind, mediaId, player>>
      BY <1>6, <2>3 DEF CutsceneStart
    <3>4. \A i \in Slots : slots'[i].track = slots[i].track BY <1>2, <3>1
    <3>5. \A n \in Calls : \/ yt'[n] = yt[n]
                           \/ yt[n] \in {"playing", "paused"} /\ yt'[n] \in {"playing", "paused"}
      BY <1>1, <3>2
    <3> QED BY <3>3, <3>4, <3>5, SameSerial
  <2> QED BY <2>1, <2>2, <2>3 DEF Behaviors
<1> QED BY <1>3, <1>4, <1>5, <1>6

\* A step that keeps executions serial keeps what is known of them.
LEMMA SerialStep ==
  ASSUME TypeOK, TypeOK', StopOwned, serial => SerialInv, [Next]_vars, serial'
  PROVE  SerialInv'
<1>1. ASSUME NEW n \in Calls, NEW m \in Modes, NEW id \in Tracks, SetBgmFile(n, id, m)
      PROVE  SerialInv'
  BY <1>1, FileSerial DEF SetBgmFile, Meets
<1>2. ASSUME NEW n \in Calls, NEW m \in Modes, NEW id \in Videos, SetBgmVideo(n, id, m)
      PROVE  SerialInv'
  BY <1>2, VideoSerial DEF SetBgmVideo, Meets
<1>3. ASSUME NEW n \in Calls, FilePlays(n) \/ StopReturned(n) \/ VideoReady(n) \/ VideoFails(n)
      PROVE  SerialInv'
  <2>1. serial BY <1>3 DEF FilePlays, StopReturned, VideoReady, VideoFails
  <2> QED BY <1>3, <2>1, AnswerSerial
<1>4. ASSUME CleanupTimer \/ StopTimer PROVE SerialInv'
  BY <1>4, TimerSerial DEF CleanupTimer, StopTimer
<1>5. ASSUME ApiReady PROVE SerialInv'
  <2>1. serial /\ UNCHANGED <<deck, call, kind, mediaId, player>> BY <1>5 DEF ApiReady
  <2>2. \A n \in Calls : yt'[n] = yt[n] \/ (yt[n] = "loading" /\ yt'[n] = "building")
    BY <1>5 DEF ApiReady
  <2> QED BY <2>1, <2>2, SameSerial DEF deck
<1>6. ASSUME NEW r \in BOOLEAN, StopAll(r) PROVE SerialInv'
  BY <1>6, StopMusicSerial DEF StopAll, StopMusic, Meets
<1>7. ASSUME NEW r \in BOOLEAN, Dispose(r) PROVE SerialInv'
  BY <1>7, DisposeSerial DEF Dispose, Meets
<1>8. ASSUME CutsceneEnd PROVE SerialInv'
  BY <1>8, CutSerial DEF CutsceneEnd, LetGo
<1>9. ASSUME HandleVideoEnded PROVE SerialInv'
  BY <1>9, CutSerial DEF HandleVideoEnded, CutsceneEnd, LetGo
<1>10. ASSUME NEW c \in Cuts, NEW b \in Behaviors, PlayCutscene(c, b) PROVE SerialInv'
  <2>1. CutsceneStart(b) BY <1>10 DEF PlayCutscene
  <2>2. serial /\ (b = "stop" /\ ~disposed => InFlight = {})
    BY <2>1 DEF CutsceneStart, StopMusic, Meets, Behaviors
  <2> QED BY <2>1, <2>2, CutSerial
<1>11. ASSUME NEW c \in Cuts, NEW b \in Behaviors, PlayFileCutscene(c, b) PROVE SerialInv'
  <2>1. CASE disposed
    BY <1>11, <2>1, DeckSame DEF PlayFileCutscene, music
  <2>2. CASE ~disposed /\ b = "stop"
    BY <1>11, <2>2, StopMusicSerial DEF PlayFileCutscene, StopMusic, Meets
  <2>3. CASE ~disposed /\ b # "stop"
    <3>1. LetGo(b, kind) BY <1>11, <2>3 DEF PlayFileCutscene
    <3>2. serial BY <3>1 DEF LetGo
    <3> QED BY <3>1, <3>2, CutSerial
  <2> QED BY <2>1, <2>2, <2>3
<1>12. ASSUME NEW c \in Cuts, CutsceneReady(c) \/ CutsceneFails(c) \/ CutsceneEnds(c)
       PROVE  SerialInv'
  BY <1>8, <1>9, <1>12, DeckSame DEF CutsceneReady, CutsceneFails, CutsceneEnds, music
<1>13. ASSUME \/ ToggleMute \/ UNCHANGED vars
              \/ \E v \in Clips : ClipArrives(v) \/ ClipRejected(v)
              \/ \E r \in BOOLEAN : ClipOver(r)
       PROVE  SerialInv'
  <2>1. serial' = serial /\ UNCHANGED <<deck, call, kind, mediaId, player, yt>>
    BY <1>13 DEF ToggleMute, ClipArrives, ClipRejected, ClipOver, vars, music
  <2> QED BY <2>1, DeckSame
<1> QED
  BY <1>1, <1>2, <1>3, <1>4, <1>5, <1>6, <1>7, <1>9, <1>10, <1>11, <1>12, <1>13
  DEF Next, Requests, Answers, SkipCutscene

LEMMA SerialInit == Init => SerialInv /\ StopOwned
<1> SUFFICES ASSUME Init PROVE SerialInv /\ StopOwned OBVIOUS
<1>1. InFlight = {} /\ Sounding = {} BY DEF Init, InFlight, Sounding, NoCall
<1>2. \A n \in Calls : Stage(n) BY DEF Init, Stage, NoCall
<1> QED BY <1>1, <1>2 DEF Init, DeckInit, SerialInv, StopOwned, NoStop, OneInFlight, OneTimer,
           CurrentInSlot, AtRest, Kinds

\* As long as no command meets one that waits, the slot for music holds what
\* was asked for last and nothing else sounds.
THEOREM SerialSafety == Spec => []OneSourceWhenSerial
<1> DEFINE Inv == TypeOK /\ StopOwned /\ (serial => SerialInv)
<1>1. Init => Inv BY InitType, SerialInit
<1>2. Inv /\ [Next]_vars => Inv' BY StepType, StopOwnedStep, SerialStep
<1>3. Inv => OneSourceWhenSerial BY RestIsSingle DEF OneSourceWhenSerial
<1> QED BY <1>1, <1>2, <1>3, PTL DEF Spec

-----------------------------------------------------------------------------
(* Every voice clip is accounted for *)

\* How often a clip waits in a queue, and where.
At(q, v)      == {i \in 1..Len(q) : q[i] = v}
CountIn(q, v) == Cardinality(At(q, v))

LEMMA CountFinite ==
  ASSUME NEW q \in Seq(Clips), NEW v
  PROVE  IsFiniteSet(At(q, v)) /\ CountIn(q, v) \in Nat
<1>1. IsFiniteSet(1..Len(q)) BY FS_Interval
<1>2. At(q, v) \subseteq 1..Len(q) BY DEF At
<1>3. IsFiniteSet(At(q, v)) BY <1>1, <1>2, FS_Subset
<1> QED BY <1>3, FS_CardinalityType DEF CountIn

LEMMA CountEmpty == ASSUME NEW v PROVE CountIn(<<>>, v) = 0
<1>1. At(<<>>, v) = {} BY DEF At
<1> QED BY <1>1, FS_EmptySet DEF CountIn

LEMMA CountAppend ==
  ASSUME NEW q \in Seq(Clips), NEW w \in Clips, NEW v \in Clips
  PROVE  CountIn(Append(q, w), v) = CountIn(q, v) + (IF v = w THEN 1 ELSE 0)
<1> DEFINE n == Len(q) + 1
<1>1. Len(Append(q, w)) = n /\ Append(q, w)[n] = w
  /\ \A i \in 1..Len(q) : Append(q, w)[i] = q[i]
  OBVIOUS
<1>2. n \notin At(q, v) BY DEF At
<1>3. CASE v = w
  <2>1. At(Append(q, w), v) = At(q, v) \cup {n} BY <1>1, <1>3 DEF At
  <2> QED BY <1>2, <1>3, <2>1, CountFinite, FS_AddElement DEF CountIn
<1>4. CASE v # w
  <2>1. At(Append(q, w), v) = At(q, v) BY <1>1, <1>4 DEF At
  <2> QED BY <1>4, <2>1, CountFinite DEF CountIn
<1> QED BY <1>3, <1>4

LEMMA CountTail ==
  ASSUME NEW q \in Seq(Clips), q # <<>>, NEW v \in Clips
  PROVE  CountIn(q, v) = CountIn(Tail(q), v) + (IF v = Head(q) THEN 1 ELSE 0)
<1> DEFINE S == At(Tail(q), v)
           T == At(q, v) \ {1}
<1>1. Len(q) \in Nat \ {0} /\ Len(Tail(q)) = Len(q) - 1 /\ Tail(q) \in Seq(Clips)
      /\ Head(q) = q[1]
      /\ \A i \in 1..Len(Tail(q)) : Tail(q)[i] = q[i + 1]
  OBVIOUS
<1>2. ExistsBijection(S, T)
  <2> DEFINE f == [i \in S |-> i + 1]
  <2>1. \A i \in S : i + 1 \in T BY <1>1 DEF At
  <2>2. \A i, j \in S : i + 1 = j + 1 => i = j BY DEF At
  <2>3. \A j \in T : j - 1 \in S /\ j = (j - 1) + 1 BY <1>1 DEF At
  <2>4. f \in Bijection(S, T)
    BY <2>1, <2>2, <2>3 DEF Bijection, Injection, Surjection, IsInjective
  <2> QED BY <2>4 DEF ExistsBijection
<1>3. Cardinality(T) = Cardinality(S) BY <1>1, <1>2, CountFinite, FS_Bijection
<1>4. 1 \in At(q, v) <=> v = Head(q) BY <1>1 DEF At
<1>5. /\ Cardinality(T) = IF 1 \in At(q, v) THEN Cardinality(At(q, v)) - 1
                                             ELSE Cardinality(At(q, v))
      /\ Cardinality(At(q, v)) \in Nat /\ Cardinality(S) \in Nat
  BY <1>1, CountFinite, FS_RemoveElement DEF CountIn
<1> QED BY <1>3, <1>4, <1>5 DEF CountIn

\* The account of one clip, with the queue as an argument.
Account(v) == tally[v].asked = tally[v].ended + tally[v].dropped + CountIn(queue, v)
                                 + (IF voice = v THEN 1 ELSE 0)

LEMMA AccountIs == VoiceAccounted <=> \A v \in Clips : Account(v)
BY DEF VoiceAccounted, Account, Count, CountIn, At

LEMMA FinishAccount ==
  ASSUME TypeOK, VoiceAccounted, NEW w \in Clips, Finish(w)
  PROVE  VoiceAccounted'
<1>1. ASSUME NEW v \in Clips PROVE Account(v)'
  <2>1. Account(v) /\ CountIn(queue, v) \in Nat /\ None \notin Clips
    BY AccountIs, CountFinite DEF TypeOK, VoiceTypeOK
  <2>2. CASE disposed \/ voice # w
    BY <2>1, <2>2 DEF Finish, Account
  <2>3. CASE ~disposed /\ voice = w /\ queue = <<>>
    <3>1. /\ tally' = [tally EXCEPT ![w].ended = @ + 1]
          /\ voice' = None /\ queue' = queue
      BY <2>3 DEF Finish
    <3> QED BY <2>1, <2>3, <3>1 DEF Account, TypeOK, VoiceTypeOK
  <2>4. CASE ~disposed /\ voice = w /\ queue # <<>>
    <3>1. /\ tally' = [tally EXCEPT ![w].ended = @ + 1]
          /\ voice' = Head(queue) /\ queue' = Tail(queue)
      BY <2>4 DEF Finish
    <3>2. CountIn(queue, v) = CountIn(queue', v) + (IF v = voice' THEN 1 ELSE 0)
      BY <2>4, <3>1, CountTail DEF TypeOK, VoiceTypeOK
    <3>3. CountIn(queue', v) \in Nat
      <4>1. queue \in Seq(Clips) BY DEF TypeOK, VoiceTypeOK
      <4>2. queue' \in Seq(Clips) BY <2>4, <3>1, <4>1
      <4> QED BY <4>2, CountFinite
    <3>4. /\ tally'[v].asked = tally[v].asked /\ tally'[v].dropped = tally[v].dropped
          /\ tally'[v].ended = tally[v].ended + (IF voice = v THEN 1 ELSE 0)
          /\ tally[v].ended \in Nat /\ tally[v].dropped \in Nat
      <4>1. tally \in [Clips -> [asked : Nat, ended : Nat, dropped : Nat]]
        BY DEF TypeOK, VoiceTypeOK
      <4>2. CASE v = w BY <2>4, <3>1, <4>1, <4>2
      <4>3. CASE v # w BY <2>4, <3>1, <4>1, <4>3
      <4> QED BY <4>2, <4>3
    <3> QED
      BY <2>1, <3>2, <3>3, <3>4 DEF Account
  <2> QED BY <2>2, <2>3, <2>4
<1> QED BY <1>1, AccountIs DEF VoiceAccounted, Account, Count, CountIn, At

LEMMA ArriveAccount ==
  ASSUME TypeOK, VoiceAccounted, NEW w \in Clips, ClipArrives(w)
  PROVE  VoiceAccounted'
<1>1. ASSUME NEW v \in Clips PROVE Account(v)'
  <2>1. Account(v) /\ CountIn(queue, v) \in Nat /\ None \notin Clips
    BY AccountIs, CountFinite DEF TypeOK, VoiceTypeOK
  <2>2. tally' = [tally EXCEPT ![w].asked = @ + 1] BY DEF ClipArrives
  <2>3. CASE voice = None
    <3>1. voice' = w /\ queue' = queue BY <2>3 DEF ClipArrives
    <3> QED BY <2>1, <2>2, <2>3, <3>1 DEF Account, TypeOK, VoiceTypeOK
  <2>4. CASE voice # None
    <3>1. voice' = voice /\ queue' = Append(queue, w) BY <2>4 DEF ClipArrives
    <3>2. CountIn(queue', v) = CountIn(queue, v) + (IF v = w THEN 1 ELSE 0)
      BY <3>1, CountAppend DEF TypeOK, VoiceTypeOK
    <3>3. /\ tally'[v].ended = tally[v].ended /\ tally'[v].dropped = tally[v].dropped
          /\ tally'[v].asked = tally[v].asked + (IF v = w THEN 1 ELSE 0)
          /\ tally[v].ended \in Nat /\ tally[v].dropped \in Nat
      BY <2>2 DEF TypeOK, VoiceTypeOK
    <3> QED BY <2>1, <3>1, <3>2, <3>3 DEF Account
  <2> QED BY <2>3, <2>4
<1> QED BY <1>1 DEF VoiceAccounted, Account, Count, CountIn, At

LEMMA DropAccount ==
  ASSUME TypeOK, VoiceAccounted, NEW r \in BOOLEAN, StopVoice(r)
  PROVE  VoiceAccounted'
<1>1. ASSUME NEW v \in Clips PROVE Account(v)'
  <2>1. Account(v) /\ CountIn(queue, v) \in Nat /\ None \notin Clips
    BY AccountIs, CountFinite DEF TypeOK, VoiceTypeOK
  <2>2. /\ tally'[v].asked = tally[v].asked /\ tally'[v].ended = tally[v].ended
        /\ tally'[v].dropped = tally[v].dropped + CountIn(queue, v)
                                 + (IF voice = v THEN 1 ELSE 0)
        /\ queue' = <<>> /\ voice' = None
    BY DEF StopVoice, Count, CountIn, At, TypeOK, VoiceTypeOK
  <2>3. CountIn(queue', v) = 0 BY <2>2, CountEmpty
  <2> QED BY <2>1, <2>2, <2>3 DEF Account, TypeOK, VoiceTypeOK
<1> QED BY <1>1 DEF VoiceAccounted, Account, Count, CountIn, At

LEMMA SameAccount ==
  ASSUME VoiceAccounted, UNCHANGED voices PROVE VoiceAccounted'
BY DEF VoiceAccounted, Count, voices

LEMMA AccountStep ==
  ASSUME TypeOK, VoiceAccounted, [Next]_vars
  PROVE  VoiceAccounted'
<1>1. ASSUME NEW v \in Clips, ClipArrives(v) PROVE VoiceAccounted'
  BY <1>1, ArriveAccount
<1>2. ASSUME NEW r \in BOOLEAN, ClipOver(r) PROVE VoiceAccounted'
  BY <1>2, FinishAccount DEF ClipOver, TypeOK, VoiceTypeOK
<1>3. ASSUME NEW v \in Clips, ClipRejected(v) PROVE VoiceAccounted'
  BY <1>3, FinishAccount DEF ClipRejected
<1>4. ASSUME NEW r \in BOOLEAN, StopAll(r) \/ Dispose(r) PROVE VoiceAccounted'
  BY <1>4, DropAccount, SameAccount DEF StopAll, Dispose
<1>5. ASSUME UNCHANGED vars PROVE VoiceAccounted'
  BY <1>5, SameAccount DEF vars
<1>6. ASSUME NEW n \in Calls, NEW m \in Modes,
             \/ \E id \in Tracks : SetBgmFile(n, id, m)
             \/ \E id \in Videos : SetBgmVideo(n, id, m)
      PROVE  VoiceAccounted'
  BY <1>6, SameAccount DEF SetBgmFile, SetBgmVideo
<1>7. ASSUME NEW n \in Calls, FilePlays(n) \/ StopReturned(n) \/ VideoReady(n) \/ VideoFails(n)
      PROVE  VoiceAccounted'
  BY <1>7, SameAccount DEF FilePlays, StopReturned, VideoReady, VideoFails
<1>8. ASSUME ToggleMute \/ ApiReady \/ CleanupTimer \/ StopTimer PROVE VoiceAccounted'
  BY <1>8, SameAccount DEF ToggleMute, ApiReady, CleanupTimer, StopTimer
<1>9. ASSUME \/ SkipCutscene
             \/ \E c \in Cuts, b \in Behaviors : PlayFileCutscene(c, b) \/ PlayCutscene(c, b)
             \/ \E c \in Cuts : CutsceneReady(c) \/ CutsceneFails(c) \/ CutsceneEnds(c)
      PROVE  VoiceAccounted'
  BY <1>9, SameAccount
  DEF SkipCutscene, PlayFileCutscene, PlayCutscene, CutsceneReady, CutsceneFails, CutsceneEnds
<1> QED BY <1>1, <1>2, <1>3, <1>4, <1>5, <1>6, <1>7, <1>8, <1>9 DEF Next, Requests, Answers

\* Whatever ends, fails, is rejected late or is dropped, and in whatever
\* order: every clip asked for is reported once, dropped once, or to come.
THEOREM VoiceSafety == Spec => []VoiceAccounted
<1>1. Init => VoiceAccounted
  <2> SUFFICES ASSUME Init PROVE VoiceAccounted OBVIOUS
  <2>1. ASSUME NEW v \in Clips PROVE Account(v)
    <3>1. CountIn(queue, v) = 0 BY CountEmpty DEF Init
    <3> QED BY <3>1 DEF Init, Account
  <2> QED BY <2>1, AccountIs
<1>2. TypeOK /\ VoiceAccounted /\ [Next]_vars => VoiceAccounted' BY AccountStep
<1> QED BY <1>1, <1>2, TypeCorrect, PTL DEF Spec

=============================================================================
