# A formal model of the murder mystery platform

TLA+ specifications of the game server (`apps/server`, Go) and of the parts of
the web client that keep state of their own (`apps/web`, `packages/ws-client`,
TypeScript), the TLC configurations that check them on small instances, and
TLAPS proofs for every value of the constants. Paths of Go files are relative to
`apps/server/internal/`, those of TypeScript files to `apps/web/src/`, unless
they say otherwise. `PROJECT.json` holds the same information for tools:
components, runs, mutants, the map from definitions to source lines, hazards and
theorems.

    cd tla
    tlc -workers 2 -config SessionLifecycle_one.cfg MCSessionLifecycle
    tlc -workers 2 -config FlowEditor_safe.cfg FlowEditor
    tlapm RoomServiceProofs.tla

A configuration `<Module>_<name>.cfg` belongs to `MC<Module>.tla`, or to
`<Module>.tla` itself where there is no such module.


## 1. The system and its parts

Players meet in a **room** (a row of PostgreSQL). When its host starts it, the
room service calls the **session starter**, which builds a **session**: one
goroutine (the actor) with an inbox, which owns a **phase engine** with its
**game modules**. Players are connected by WebSocket to the **hub**, which
knows who is in which session, tells the sessions who left and came back, and
carries the messages of the modules to the players. The actor writes
**snapshots** of what each player may see to Redis. Coins, payments, creator
earnings, authentication and auditing surround the game.

    HTTP ─ room service ─ StartRoom ─▶ starter ──▶ SessionManager.sessions
                (row lock)               │ KindEngineStart       │ Get/Send/Stop
    WebSocket ─ Hub ── OnPlayerLeft ─────┴──▶ inbox ─▶ actor ─▶ PhaseEngine ─▶ modules
                 ▲   OnPlayerRejoined                  │  ▲          ▲            │
                 └──── BroadcastToSession ◀── relay ◀──┘  └─ Redis   └─ SkipToPhase

In the browser the **session** is a pair of tokens in a store and in
localStorage, which the API client renews when a request is refused; while a
game page is open a hook keeps one **WebSocket client** that reconnects by
itself. Commands from the socket drive the **audio**: music that cross-fades,
cutscenes that hold it, a queue of voice clips. Creators write their theme in
the **editor**, whose forms and canvas save themselves after a pause and show
what they saved before the server has it.

    authStore ◀── api.ts (one refresh for all) ──▶ /auth/refresh     forms ─ debounce ─▶ PATCH (version)
        │ access token                                                canvas ─ autoSave ─▶ PUT  ┐
    useWsClient ─▶ connectionStore ─▶ WsClient ─ socket ─▶ Hub        panel ─ debounce ─▶ PATCH ┴▶ flow service
                                         └─▶ AudioOrchestrator ─▶ BgmManager, YouTube, VoiceManager

| Component | State | Operations | Interacts by | What is hard | What makes it correct |
|---|---|---|---|---|---|
| Session manager, actor (`session`) | map of sessions; per session inbox, done channel, status, panic count | Start, startModularGame, Stop, Get/Send, Run, stop, onPanic | channels, one mutex, callback onAbort, request context | four goroutines around one object, stop is check-then-close, select is random | a start is all or nothing; stopping ends; the engine starts before its first command |
| Session starter (`session`) | none of its own | Start: build, queue, insert, run, wait, undo | calls the manager and the engine | failure and cancellation at every step | success means a started engine; failure leaves nothing |
| Snapshots (`session`) | dirty flag, time of last write, one Redis blob per player | markDirty, flush, ticker, delete, SendSnapshot | inbox, Redis | partial write failures, debounce, deletion racing with writes, restarts | nothing marked is lost; a transition by a message of the host is flushed at once, a trigger's is in the blobs with the next write |
| Game hub (`ws`) | lobby, players, sessions, recentLeftAt, two channels | Register, Unregister, JoinSession, LeaveSession, Revoke*, Stop, gc | channels, one RWMutex, a goroutine per callback | connections replaced before the old one is unregistered, callbacks issued after the lock is released, channels full at shutdown | an entry is of a connection in that session; no more returns are announced than departures were or are about to be; nobody blocks for ever |
| Pumps, upgrade (`ws`) | closed flag | ReadPump, WritePump, Close | the hub | either side may end first | both end |
| Reconnect buffer (`ws`) | ring of envelopes per session | Push, Since, evict | the hub | wrap-around, expiry | equals the last entries within the window |
| Social hub, WS auth, router, pub/sub (`ws`) | connection maps, token state | as the hub; identify/resume/refresh | hub, auth service | as the hub | as the hub |
| Phase engine (`engine`) | current phase, round, visit counts, started/stopped | Start, AdvancePhase, AdvanceScene, SkipToPhase, HandleMessage, DispatchAction, Stop | synchronous hooks of the modules | a hook or action fails after others succeeded | a failed move is undone; a course of phases |
| Event progression (`module/progression`) | copy of the current and visited phases, trigger counts and reservations | HandleMessage (trigger or move), OnPhaseEnter, OnPhaseExit | re-enters the engine through the scene controller | state checked before and written after the call back | a trigger counts only when its target was entered; no return |
| Other modules (`module/*`) | votes, clues, trades, readings, missions | messages, phase hooks | event bus, engine | timeouts, two proposals at once | one result per vote, no clue twice |
| Room service (`domain/room`) | rooms, room_players | Create, Join, Leave, SetReady, SelectCharacter, StartRoom | SQL, session starter | transactions with and without the row lock | capacity, distinct characters, complete casts |
| Admin (`domain/admin`) | the same rows | ForceCloseRoom, reviews, roles | SQL | past the room service | closed stays closed |
| Coin, payment, creator (`domain/*`), event bus | balances, payments, earnings, settlements | purchase, refund, confirm, settle | SQL, Redis lock, synchronous events | a commit and the publication after it | money is conserved |
| Auth (`domain/auth`) and the browser's session (`stores/authStore.ts`, `services/api.ts`, `hooks/`) | refresh tokens; the pair in the store, the one in localStorage, the refresh under way | login, refresh, revoke; boot, logout, reload | HTTP, Redis, SQL | many requests refused at once, logout and boot overtaking a refresh | each refresh token is used once; a session survives expiry |
| WebSocket client (`packages/ws-client`, `stores/connectionStore.ts`, `hooks/useWsClient.ts`) | socket, reconnect count and timer, the store's slot | connect, disconnect, events of the socket, frames that end it | the hook's effect, the hub | events of a socket that is no longer wanted, timers that outlive a client | one connection, of the session's token; attempts end |
| Audio and video (`features/audio`, `features/media`) | two slots and their timers, YouTube players, cutscene, voice queue | setBgm, playCutscene, enqueue, mute, stopAll, dispose | promises and timers of the browser | commands that arrive while an earlier one waits | one source, nothing held for ever, each clip reported once |
| Self-saving forms (`features/editor/hooks/useAutosavedDraft.ts`) | draft, baseline, pending save, toast, query value | edit, undo, timer, answer, refusal, retry, reload | query cache, PATCH with a version | answers and refetches that overtake edits | edits survive, others' writes stay, the last text is kept |
| Settings document (`features/editor/hooks/useCharacterConfigDebounce.ts`) | mirror in the cache, snapshot, pending document | edit, flush, conflict and second try, rollback | query cache, PUT of the document | one document of many settings | a window's edits are saved or taken back as a whole |
| Flow editor (`features/editor/hooks/useFlowData.ts`, `domain/flow`) | screen, timer, selected scene and its pending body, query value, stored graph | gestures, autoSave, creations, deletions, patches, refetches | query cache, five endpoints | two debounces and optimistic writes over one graph | the screen is saved, saving ends, the stored graph is sound |
| Audit log (`auditlog`), lock and cache (`infra`) | bounded queue; keys with a lease | Append, flush, Stop; Acquire, Release | one goroutine; Redis | drain racing with Append; lease outlived | accepted means written |
| Social, profile, sound, storage, telemetry, generated code, game logic, shared types, pages | rows, files; one store or query each | validated reads and writes, rendering, conversion | SQL, object storage, HTTP | versions checked on write | outside what several actors share |

`PROJECT.json` lists 42 components with their files and why each is modelled or
not, and 40 hazards, each at its line.


## 2. The modules

| Module | Models | Implements / uses | Checked by | Proofs |
|---|---|---|---|---|
| `Session` | the inbox, `done`, goroutine and context that the next two share | | with them | with them |
| `SessionLifecycle` | `session/session.go`, `manager.go`, `starter.go`, `panic_guard.go` | EXTENDS `Session` | `lifecycle_one` | `SessionProofs` |
| `SessionSnapshot` | `session/snapshot*.go` and what of `session.go`, `manager.go` drives them | EXTENDS `Session` | `snapshot_safe` | `SessionProofs` |
| `Hub` | `ws/hub*.go`, the ends of `ws/client.go` and `ws/upgrade.go` | | `hub_safe`, `hub_live` | `HubProofs` |
| `PhaseCourse` | nothing: what the engine promises | abstract | | |
| `PhaseEngine` | `engine/phase_engine.go`, `phase_actions.go`, `scene_transitions.go` | implements `PhaseCourse` | `engine_graph` | `EngineProofs` |
| `EventProgression` | `module/progression/event_progression.go` | EXTENDS `PhaseEngine`, implements `PhaseCourse` | `event_safe` | `EngineProofs` |
| `RoomService` | `domain/room/service.go` and its queries, `domain/admin` ForceCloseRoom | | `room_safe` | `RoomServiceProofs` |
| `BgmManager` | `features/audio/BgmManager.ts` | | with `GameAudio` | with `GameAudio` |
| `GameAudio` | `AudioOrchestrator.ts`, `VoiceManager.ts`, `VideoOrchestrator.ts`, the YouTube player | EXTENDS `BgmManager` | `audio_safe` | `GameAudioProofs` |
| `Autosave` | what the next two share: one pending payload, saves, a refetch | | with them | with them |
| `AutosavedDraft` | `useAutosavedDraft.ts`, `useDebouncedMutation.ts`, the reading and story forms, their PATCH on the server | EXTENDS `Autosave` | `draft_safe` | `AutosaveProofs` |
| `CharacterConfig` | `useCharacterConfigDebounce.ts`, `api/content.ts`, the server's UpdateConfigJson | EXTENDS `Autosave` | `config_safe` | `AutosaveProofs` |
| `FlowEditor` | `useFlowData.ts`, `flowApi.ts`, the scene's panel, `connectionValidation.ts`, `domain/flow/service.go`, `validate.go` | | `flow_safe` | `FlowEditorProofs` |
| `WsClient` | `packages/ws-client/src/client.ts`, `reconnect.ts`, the store's slot | | with `WebSession` | with `WebSession` |
| `WebSession` | `authStore.ts`, `api.ts`, `App.tsx`, the login form, `useWsClient.ts`, the rotation of `domain/auth` | EXTENDS `WsClient` | `session_safe` | `WebSessionProofs` |

Definitions marked "Mutant:", or that stand just before the action they change
with a comment that says what is wrong in them, are not part of any
specification. Each is a plausible mistake; with the action's body
replaced by it, TLC must refute a property of the run (`mutants` in
`PROJECT.json`), which shows that the property depends on the code.

`Session` and `Autosave` declare the constants and variables that two modules
have in common, and nothing else, so that one module of proofs can speak of both.
The two models are not composed: each has its own next-state relation, and
`SessionSnapshot` and `CharacterConfig` name theirs `SnapshotNext` and
`ConfigNext`.

### SessionLifecycle
One element of `Sessions` is an object made by `newSession`. Several, one after
the other, may belong to one room. Each has a `starter` (the call of
`startModularGame` or `SessionManager.Start`), an `actor` (the goroutine of
`Run`) and a `stopper` (the `SessionManager.Stop` that took it out of the map);
`Clients` get a session from the map and send to it in the steps of
`Session.Send`. Each variable with a program counter names the point between two
steps of the code where another goroutine may run: mutex sections are one step,
`Session.stop` is two (the select on `done`, then the close), which is why three
callers can be inside. The action before `Go` fills the inbox (`PreQueue`)
before the map insertion (`Insert`), as the code does since the fix for commands
overtaking the start. A configuration refused before `newSession` leaves no
trace and is left out. What the engine does is an outcome (`ok`, error or
panic).

### SessionSnapshot
One running session. The engine's state is a version number, a blob is the
version it was built from. One action per message kind (`HandleAdvance`,
`HandleCritical`, `HandleSnapshotFor`, ...), `Tick` is `maybeSnapshot`, and
`persistSnapshot` writes any subset of the players' keys: `BuildStateFor` or the
write may fail for each. A command may carry a trigger of the event progression, which
moves the phase (`HandleEngineCommand`); that neither flushes nor marks.
`marked`, `entered`, `flushed`, `unsaved`, `lost`, `wiped` record history: the
version at the last marked change, at the last phase transition, at the last one
by `KindAdvance` or `KindGMOverride`, whether a trigger has moved the phase since
the last write, whose last write failed, and whether the blobs were deleted. No
action's guard reads them. Time is counted in ticks of one second up to the
debounce interval.

### Hub
One element of `Clients` is a connection. `pump` is its reading goroutine,
`closed` and `sid` its fields, `registerQ` and `unregisterQ` the two bounded
channels, `lobby`, `players`, `sessions` the maps, `leftAt` the memory of who
left a session (`recent` inside the reconnect window, `expired` outside), and
`notices` the goroutines that `notifyPlayerLeft` and `notifyPlayerRejoined`
start. The event loop takes any ready channel; `JoinSession` and `LeaveSession`
run on the goroutine of the connection. Each of these changes the maps in one
step, under the lock, and issues its callback in another, after the unlock
(`Announce`, and `Unregistered` for the loop, which also closes `removing`);
`telling` is the callback a goroutine owes in between, while others may take the
lock. `recorded` is the order in which the lock saw departures and returns,
`heard` that in which the listener did. Revocation chooses its connections under
the lock and then closes and unregisters each in steps. In this commit only
tests call `JoinSession` and `LeaveSession`; the module takes them to be called
by a message handler, as their comments say, which runs on the connection's
reading goroutine, so a connection makes one such call at a time.

### PhaseEngine, PhaseCourse, EventProgression
The engine is called by the actor only, so one action is one call. What matters
is failure: a move calls the exit hooks of the modules in order, then the enter
hooks, and any of them or a configured action may fail or panic after `n`
modules took it (`ExitHooks`, `EnterHooks`, `MoveFails`). `PhaseCourse` is the
promise to the players: not begun, in a phase, or over, with round, visits and
the phase shown taken together, and failed operations that do not move.
The refinement maps `at` to `current` once started, and `shown` to the last
`phase:entered` event. `EventProgression` puts one module inside the engine: its
triggers re-enter the engine through `SkipToPhase`; its copy of the current
phase and of the visited ones is what the engine's hooks told it.

### RoomService
One room. A request is a sequence of SQL statements, one step each, in a
transaction that starts with `SELECT ... FOR UPDATE` (`lock`) for join, leave
and start, and in none for ready, character selection and the force close. READ
COMMITTED is modelled by what each statement sees: committed rows, and for an
`UPDATE` of the room row, a wait for the lock. The unique index on the
characters of a room is part of `PickWrite`. A failing statement, a crash and
restart of the server, and the end of the session are actions of their own.

### The web client
JavaScript runs a handler up to its next `await`; an action is such a stretch.
Timers, answers of requests, promises of the browser and the user may come
between any two of them. React commits a render and runs its effects before the
next event, so an event and the effects it causes are one action.

**BgmManager, GameAudio.** `slots`, `active`, `fadeEnd`, `timers`, `handle`,
`stopping` are the fields of `BgmManager` (a timer that was overwritten still
fires: `timers` are those that will, `handle` the one that can be cleared).
`call[n]` is the n-th command and where it waits; `yt[n]` the player it made,
`show[c]` that of a cutscene; both load as long as they like, or fail. Two
timers may fire in any order and a waiting command may go on late: no delays are
compared. Video files have no player in this commit: their cutscenes end at
once. No component of the application mounts the cutscene modal yet; the module
models what the orchestrator does when it is.

**AutosavedDraft.** `draft`, `baseline`, `latest` and `pending` are the hook's
state and refs, `cached` and `fetch` the query, `saves` the requests. A value
counts the edit that wrote it and the changes of another tab that it contains
(`over`). The submitted draft is compared as the body up to its version, as the
hook does. `carries` tells the two forms apart. The toast has one identity per
entity, so a retry is that of the last message; it sends its body as it was, the
old version included. The server's PATCH compares versions and answers with the
next one (`Stored`).

**CharacterConfig.** The document gives each setting the edit it was written by;
`Carried` says which settings an edit's caller rebuilds. The first try takes the
version from the theme it reads, a conflict reads again and tries once more. The
server compares the version of the row it read with the row it writes, not with
the request's; another tab that overwrites is the policy the design documents
(`docs/plans/2026-04-15-editor-ux-bugfix/design.md:77–90`).

**FlowEditor.** A graph is whether it has its start, the gesture that wrote each
scene's text, and the scene that follows each. `screen` is `nodesRef` and
`edgesRef`; `timer` the graph that autoSave closed over; `patch` what the panel
has pending, with the scene it was typed in (`home`, which the code does not
keep). `behind` and `fresh` tell whether a read of the query differs from the
last one by its rows' timestamps, which is when React Query gives the canvas a
new value although the graphs are equal. GetFlow reads scenes and lines in two
statements (`FetchNodes`, `FetchEdges`). A lost request, or a lost answer, uses
up one of the user's gestures.

**WsClient, WebSession.** Each `connectGame` makes a new client, numbered; a
socket is none, connecting, open or closing (after `close()` the browser still
delivers `close`, and nothing else). Token pairs are numbered, too; `flight` is
`refreshPromise`, `boot` and `login` the two other exchanges, `orphans` the
refreshes whose page was left. The server takes a refresh token once and revokes
all of the user's when it sees one again. An access token is assumed to live
longer than a page takes to load; there is one tab.


## 3. The runs and what they show

| Run | Instance | Distinct states | Question |
|---|---|---|---|
| `lifecycle_one` | 1 session, 1 client, inbox 2, abort at 3 panics, 4 sends, fair | 168,237 | Does every goroutine around a session come to an end, and does a failed start leave nothing? |
| `snapshot_safe` | 2 players, inbox 2, debounce 2 ticks, 4 versions, 3 sends, fair | 579,324 | Is every marked change written, and what do the blobs have of a transition? |
| `hub_safe` | 2 connections of a player, 2 sessions, channels of 1, 3 joins, 1 revocation, symmetry | 1,296,648 | Do the maps and the callbacks agree under replacement, switching and revocation? |
| `hub_live` | same with 1 session and 1 join, fair | 61,536 | Is anybody stuck in Unregister when the hub stops? |
| `engine_graph` | 2 modules, 3 phases, 4 edges with a cycle, a conditional and a shadowed edge, 2 visits | 7,775 | Is the engine, with every failure, a course of phases? |
| `event_safe` | the same size, list of phases, 4 triggers, legacy graph with a way back, 2 dispatches | 493,019 | Do triggers, re-entry and failure keep the promises? |
| `room_safe` | 3 users, 2 characters, 2 requests, 2 to 3 players, symmetry | 642,633 | Do capacity, characters, casts and closing survive every interleaving of statements? |
| `audio_safe` | 3 commands, 2 tracks, 2 videos, 2 cutscenes, 2 clips asked for 4 times, in four mixes, fair | 353,565 | Is there one source of music, and is everything let go that was held? |
| `draft_safe` | 2 edits, another tab's write, a fault, a click, 2 saves at a time, both forms, fair | 837,561 | Do edits, other tabs' writes and the last text survive every order of answers? |
| `config_safe` | 2 settings, 3 edits, 1 of another tab, a fault, a reopening, 2 saves at a time | 4,179,891 | Is a window of edits saved, or taken back, as a whole? |
| `flow_safe` | 2 scenes, 3 gestures or faults, 2 requests at a time, fair | 2,188,889 | Is the open canvas saved when all is quiet, does saving end, is the stored flow sound? |
| `session_safe` | 2 requests, 6 pairs, 4 clients, 2 attempts, six mixes of calls, expiries, faults, reloads and visits, fair | 332,771 | Does a session survive expiry, and does the connection follow it? |

**Properties.** Each has a comment in its module that says what it means.
*Lifecycle*: `FailedStartLeavesNothing`; live: `StoppedActorExits`,
`StopCallReturns`, `CancelledStartReturns`. *Snapshot*: `TransitionIsSaved`,
`CleanIsSaved`; live: `DirtyIsWritten`. *Hub*: `EntryMatchesClient`,
`RejoinedAfterLeft`; live: `UnregisterReturns`. *Engine*: `AnnouncedIsCurrent`,
`ImplementsCourse`. *Event progression*: `AppliedMeansEntered`, `NoReturn`.
*Room*: `WithinCapacity`, `CharactersDistinct`, `CastIsComplete`,
`NoLateComers`, `ClosedIsFinal`. *Audio*: `TwoTracksOnlyWhileFading`,
`OneSourceWhenSerial`, `HeldOnlyDuringCutscene`, `VoiceAccounted`; live:
`StopCallReturns`. *Forms*: `EditsSurvive`, `ForeignWritesStay`,
`LastTextIsKept`; live: `DirtyIsSettled`. *Settings*: `EditsAreSaved`,
`RollbackIsWhole`. *Flow*: `ScreenIsSaved`, `StoredFlowIsSound`; live:
`SavingEnds`. *Session*: `TokensAreUsedOnce`, `SessionSurvives`,
`ConnectionFollowsSession`, `OneConnection`, `ToldIsFinal`; live: `CallsReturn`,
`AttemptsEnd`.

Invariants that a proof settles for every value and no run needs to repeat stay
in the modules and in the proofs (`TypeOK`, `EngineStartFirst`, `AbortIsFinal`,
`StartedHasEngine`, `ExitClosesDone`, `EntryIsOpenDeparture`, `VisitsAreHeard`,
`CallsWithinLife`, `QuietAfterStop`, `LockIsOwned`, `ReservedOnlyWhenOver`).

Two of them say less than one might wish, because the code does less.
`TransitionIsSaved`: a blob whose last write succeeded, and which was not
deleted, is as new as the last phase transition, except when that one was made by
a trigger and nothing was written since; then it is as new as the last transition
that flushes. A crash in that gap sends the players back a phase (`PhaseIsSaved`,
section 4). `RejoinedAfterLeft` counts the departures that a goroutine has
recorded under the lock and not announced yet: a return may be announced before
the departure it stands for (`ReturnIsSecond`, section 4), but never without one.

**Bounds and why they are enough.** The proofs remove the bounds for what they
cover (section 5). Of the rest: one session object shows every race of starter,
stopper, actor and client. A panic threshold of 3 lets panics mix with other
messages. An inbox or channel of 1 or 2 is both full and empty in the run. Two
connections of one player are the replacement; two sessions the switch. Three
joins are join, switch and leave. Three phases with a cycle, a conditional edge
and a phase without successors have every kind of move; two modules are the one
in front of the failing module and the failing one. Two room requests are every
pair of statements that race, and three users are one more than a room of two
holds. Three commands of music are one that waits, one that overtakes it and one
that meets what both left; a clip needs a second that waits for it. Two edits
are the one that is being saved and the one typed meanwhile, two saves at a time
the older and the newer; a third edit of a document opens a second window. Two
scenes have a line, a circle and a scene that goes while the other stays, and a
new flow still has an id to give; three gestures are the one under way, the one
that overtakes it and one that meets the outcome. Two requests refused together
share one refresh, a second expiry begins another; four clients are enough for
the game page to be entered, left and entered again around a new token.
`MaxSends`, `MaxVersion`, `MaxJoins`, `MaxRevokes`, `MaxVisits`, `MaxDispatch`,
`MaxEdits`, `MaxForeign`, `MaxFaults`, `MaxClicks`, `MaxOpens`, `MaxEvents`,
`MaxRequests`, `MaxPairs`, `MaxClients` and `Budgets` bound counters and calls
and are guards in the actions; `MaxAttempts` is the client's own option.
Symmetry is used in `room_safe` and in `hub_safe` (two connections of one player,
two sessions), which have no liveness, and in configurations of section 4.

**Deadlock.** TLC looks for it in the room run, where requests can always
arrive. The other configurations say `CHECK_DEADLOCK FALSE`: a process that has
crashed, sessions that have all ended, a hub that has stopped, an engine at its
bound, and a page whose user has done all a run lets him do, really stop.

**Fairness.** The goroutines of the server are scheduled by Go: each that can
take a step does so in the end (`WF` of `Starter`, `Stopper`, `Actor`,
`SendSnapshot`, `RevokeClose`, `Announce`, `Unregistered`, `Listen`, `LoopExit`), and time passes (`Pass`).
In the hub, `SF` is assumed of the two receiving cases of the loop, because
`select` picks among ready cases at random and so does not pass one over for
ever, and of goroutines that wait to send, because a Go channel serves its
waiters in order. A closed connection makes its next read fail. In the browser
timers fire; a request is answered or, by `Fault`, fails, if only
because the browser gives up; a socket that is connecting opens or closes. Each of
these is weak fairness of its own, but for `FlowEditor`, where weak fairness of
*some* step of the system is enough. The audio assumes it of the stop timer and
the clips only: YouTube may never answer. What users, clocks of requests and the
network do (starting, stopping, cancelling, sending, connecting, joining,
expiring, losing) is never fair. No liveness is claimed of the engine, of event
progression and of rooms: each call ends when its callees do. `SavingEnds`
excepts a user who goes on selecting scenes for ever, for each selection starts
the timer.


## 4. Where the code and its documentation disagree

While the modules were written, some statements of comments, documents and
headers turned out not to hold. Each is a property of its own, with the
statement it comes from above it in its module or in the table, and each has a
place in a `_claims` configuration (or the configuration named). None is part of a run of section 3;
they are kept as regression checks: `tlc -continue -config X.cfg M` reports
every one of them as violated, and one that is no longer reported has been
repaired. The last column is the number of states of a shortest trace, or, for liveness, of
the one TLC shows.

| Configuration | Property | What the code does | Trace |
|---|---|---|---|
| `SessionLifecycle_claims` | `StopIsIdempotent` | two callers pass the guard of `stop`; the second closes a closed channel | 10 |
| | `ExitedIsStopped` | `Run` stores Running over the Stopped of an earlier stop | 8 |
| | `StopWaitsForRun` | `SessionManager.Stop` waits for `done`, not for the end of `Run` | 7 |
| | `EngineIsExclusive` | a failing start cleans the engine up while the actor handles a message | 10 |
| | `AbortEndsRun` | the actor handles more messages after it has aborted | 15 |
| `SessionLifecycle_owned` | `ActiveIsOwned` | `removeSession` deletes by id: a late abort or failed start deletes the entry of the session that replaced it, which can then be neither found nor stopped | 11 |
| | `RefusedOnlyWhenRunning` | a session whose request context ended stays in the map and refuses its successor | 11 |
| `SessionLifecycle_startreply` | `StartCallReturns` | a panic of the start handler sends no reply (liveness) | 15 |
| `SessionSnapshot_claims` | `WipedStaysWiped` | after KindStop has deleted the blobs and closed `done`, a queued message or the ticker may still be served and writes them again | 5 |
| | `ChangeIsMarked` | commands change the engine without marking the session | 3 |
| | `PhaseIsSaved` | a trigger moves the phase inside `KindEngineCommand`, which neither flushes nor marks: until something else is written, a crash restores the phase before ("Phase transition is a critical event — flush snapshot immediately", `session/session.go:240`) | 3 |
| `SessionSnapshot_rejoin` | `RejoinGetsState` | a rejoin request left in the inbox of a stopped session is never answered (liveness) | 9 |
| `Hub_claims` | `BroadcastReaches` | a player that reconnects and joins before the old connection is unregistered loses the new entry to `removeClientLocked` | 8 |
| | `CleanedUp` | an unregistration handled before its registration leaves a dead connection in the maps | 7 |
| | `LobbyIsOutside` | a registration handled after JoinSession puts a member of a session in the lobby | 4 |
| | `LastNoticeWins` | departure and return callbacks overtake each other | 12 |
| | `ReturnIsSecond` | both are issued after the unlock: another connection joins in between and its return is announced before the departure ("disconnected from this session", `ws/hub_lifecycle.go:57–58`) | 9 |
| | `IndexedIfLive` | the index misses a live connection, so a revocation does not reach it | 7 |
| | `StopClosesAll` | a connection registered while the hub stops is not closed | 5 |
| `PhaseEngine_claims` | `RoundIsZeroWhenOver` | the round is not 0 after the last phase | 5 |
| | `MovesAnswer` | a move after the last phase reads past the list | 6 |
| | `FailedStartIsReleased` | modules initialised by a start that failed are never cleaned up | 3 |
| | `ModulesFollow` | modules stay in the phase of a move that was undone | 3 |
| `EventProgression_claims` | `EngineIsSourceOfTruth` | the module's phase differs from the engine's after a failed move | 3 |
| | `ActionsOnce` | the actions of a trigger are dispatched again when its move failed | 4 |
| `RoomService_claims` | `SelectionsAreFrozen` | `SelectCharacter` takes no lock and sees the room as WAITING while it starts: the room shows another character than the game | 27 |
| | `StartedIsMarked` | a commit that fails leaves a WAITING room with a running session | 23 |
| | `ReadyIsPregame` | a ready flag changes in a PLAYING room | 27 |
| `GameAudio_claims` | `CurrentTrackKeepsItsSlot` | two tracks set before the first has started: the stale timer, "irrelevant" to the comment, empties the slot that plays (`BgmManager.ts:195`) | 7 |
| | `OneSourceAtRest` | commands that overlap leave a YouTube player that no variable names sounding next to the single active slot of the header | 4 |
| `AutosavedDraft_claims` | `ReloadIsTaken` | after the banner's reload the hook keeps the version it had, so the next save is refused again (`EditorSaveConflictBanner.tsx:26–27, 47`) | 9 |
| | `UndoneIsNotSaved` | an edit that is taken back to the stored text while an older one is being saved is saved all the same | 5 |
| `CharacterConfig_claims` | `WindowKeepsEdits` | an edit built from a document older than the pending one drops the settings of the window (`useCharacterConfigDebounce.ts:87–89`) | 7 |
| | `FailureShowsStored` | a rollback while another save is under way shows what is not stored (its comment, 42–46) | 12 |
| `WebSession_claims` | `NothingIsSpentTwice` | a page left while it refreshes is loaded again and sends the same token; so does a password mistyped while the page boots, for the login's own 401 is taken for an expired token (`/v1/auth/login` is not among the paths that skip the refresh). The server answers a second use by revoking everything | 2 |
| | `LogoutStays` | an exchange that was under way when the session was cleared writes it back when it is answered | 8 |
| `FlowEditor_claims` | `TemplateSparesExisting` | a save renews no cache: a flow reopened within 30 s of being created is taken for empty, and a fresh template is PUT over the stored one (`useFlowData.ts:73–80`; "기존 테마(이미 flow 있는)에는 영향 없음", `docs/plans/2026-04-14-editor-ux-fixes/refs/scope-and-decisions.md:53`) | 5 |
| | `ReopenShowsSaved` | for the same reason a reopened canvas shows an older flow than was saved ("local state is authoritative", `flowApi.ts:41–42`) | 5 |
| | `LinesAreTheUsers` | a read that comes between two statements of a save, or an old answer, brings lines back the user has removed | 6 |
| | `CloseSaves` | closing the page clears the canvas timer and what it would have sent | 4 |
| | `PatchesOwnScene` | the panel is not keyed by its scene: what was typed for one is sent for the scene selected next | 6 |
| | `PutsAreValid` | the panel connects scenes without the check the canvas makes, and a created scene can be put twice: the server refuses the whole flow | 6 |

Of `NothingIsSpentTwice` and `BroadcastReaches` the run's invariants bound the
damage: `SessionSurvives` says in which cases a session does survive, and
`EntryMatchesClient` that what entries there are, are right.


## 5. The proofs

TLAPS checks them for every value of the constants under the named assumptions
of the modules: capacities, thresholds and numbers of phases are positive,
bounds are natural numbers, `None` (no value, JavaScript's null) is none of the
values it is mixed with,
minima do not exceed maxima, the sets of users and of connections are finite, edges, triggers and
owners have their types. No other assumption is made.

* **`SessionProofs`**, of `SessionLifecycle`: `TypeCorrect`, `StartIsFirst`, `AbortFrees`,
  `SuccessIsReal`, `FailureIsClean`, `ExitIsVisible`. The invariant `IInv` says
  what each group of goroutines relies on: a session in the map belongs to its
  room and has a starter past the insertion (`RegistryInv`); before the insertion
  nobody but the starter knows the session, the actor is not born and the inbox
  is untouched (`BirthInv`, `ClientInv`); until the engine starts its start
  message is the head of the inbox or in hand, and it is the only one
  (`QueueInv`); the points that promise a closed channel have one (`DoneInv`).
  `EngineStartFirst` alone is not inductive: it rests on `QueueInv`, which rests
  on the secrecy of `BirthInv`. `Session.stop` is dealt with once, by lemmas that
  say what each of its outcomes leaves (`StopFacts`, `KindStopFacts`).
* **`SessionProofs`**, of `SessionSnapshot`: `SnapshotTypes`, `TransitionsAreSaved`,
  `CleanMeansSaved`. Both properties compare a blob with history variables; they
  become inductive with `MarksInv`: none of `marked`, `entered` and `flushed` is
  ahead of the version, so a write that succeeds catches up with all of them and
  ends `unsaved`, and without `unsaved` the last transition was flushed or
  written since. A blob that is behind belongs to a player in `lost`.
* **`HubProofs`**: `TypeCorrect`, `SessionEntries`, `ReturnsFollowDepartures`.
  `RejoinedAfterLeft` is strengthened to `EntryIsOpenDeparture`: an entry of
  `recentLeftAt`, and a return that a goroutine owes, each stand for a departure
  of their own, issued or owed. A join that clears an entry moves it to what is
  owed, and issuing a callback moves it from owed to issued; the lemmas say what
  owing and telling do to the number of goroutines that owe (`due`).
  `LoopTells` says that the loop owes a callback only before it closes the
  connection it has removed.
* **`EngineProofs`**, of the engine: `TypeCorrect`, `PlayersKnowThePhase`,
  `VisitsAreComplete`, `CallsAreProtected`, `StoppedIsQuiet` and
  `EngineImplementsCourse`, the refinement. The invariant adds that modules of a
  running engine are initialised and that only a started engine is stopped
  (`LifeInv`); the refinement shows every successful operation to be a step of
  `PhaseCourse` and every failed one a stutter. It needs
  `AnnouncedIsCurrent`: without it a failed move could leave `shown` behind.
* **`EngineProofs`**, of event progression: `EventImplementsCourse`, `ConsumedMeansEntered`,
  `FailureReleases`, `TriggersNeverReturn`. Every step of the module in the
  engine is a step of the engine or leaves it alone (`EngineSteps`), so the
  engine's invariant and its refinement carry over as they are. A trigger is
  applied only when the move has counted a visit; that the visits a module knows
  are those the engine counts is `VisitsAreHeard` of the engine, and that makes
  `NoReturn` hold of the module's copy. `FailureReleases` is about a reservation
  that stays: in a game that has left its last phase every move panics on the
  phase's index, past the code that gives the trigger back. That this is the only
  way rests on two facts: a hook that panics is recovered and answered as a failed
  move, and a game past its last phase enters no other (`OverStays`).
* **`RoomServiceProofs`**: `TypeCorrect`, `LockIsGivenBack`,
  `RoomIsNeverOverfull`, `NoCharacterTwice`, `SessionsAreComplete`,
  `NobodySlipsIn`, `ClosedForGood`. `LockIsOwned` makes the request at a step of a
  transaction the only one there; `HeldOK` says what that request has read and
  nobody can have changed since; `GateOK` that the characters it read cover the
  players; the rest (`Data`) are the properties themselves. The argument is that
  of the code: everything checked under the row lock is still true when it is
  written under the row lock, and what is written without it (ready flags,
  characters) is protected by the statement that writes it.
* **`GameAudioProofs`**: `TypeCorrect`, `FadeSafety`, `HeldSafety`,
  `SerialSafety`, `VoiceSafety`. For the fade the types suffice: settling a fade
  empties a slot. `HeldInv` adds that what is held has a track, so that `resume`
  reaches it, and that a behavior is remembered only for a current cutscene.
  `SerialInv` describes the deck and the players at each place where the one
  command in flight may wait; `StopOwned` gives the promise of `stop()` to the
  command that waits for it. `VoiceSafety` counts a clip in the queue, with
  lemmas on what appending and taking the head do to the count.
* **`AutosaveProofs`**, of the forms: `TypeCorrect`, `EditsStay`, `OthersStay`,
  `TextKept`. `OthersStay` says what the compare of versions is for: it rests on
  `VersionInv`, by which every value that can be sent and has the row's version
  has all that other tabs wrote (`Known`), be it pending, under way, in a toast
  whose form is long closed, or what a draft would become; and a refetch about
  to arrive is never behind the form. `TextKept` rests on both and on `TextInv`:
  no copy has a text newer than the last one typed, and that one is pending,
  under way with a save not yet answered, or stored (`Accounted`), unless it was
  refused or taken back. The proof made the model
  more precise: a retried save of a closed form has the version it was built
  with, where the model used to give it the newest.
* **`AutosaveProofs`**, of the settings: `ConfigTypes`, `NoEditIsLost`,
  `RollbackToStored`. Neither property is inductive: both speak of a quiet page.
  `OneAtATime` says that without an edit while something is under way there is a
  window of edits, or a save, or a refetch, never two of them; `WindowInv` that
  the document of that window or save has the last edit of every setting and
  differs from what its rollback restores just where an edit is not settled
  (`Changes`), so that storing it settles all and refusing it names them all;
  `BackInv` that every rollback and refetch that can come shows the row.
  `Numbers` keeps an edit's number apart from all that is in a document.
* **`FlowEditorProofs`**: `TypeCorrect` and `FlowSafety`, for any number of
  gestures, requests and faults. The server checks each PUT as a whole and
  deletes the lines of a scene with it; the proof is that every way a stored
  graph comes about keeps lines between stored scenes and without a circle,
  whatever the screen has made of torn reads.
* **`FlowEditorProofs`**, of the screen: `ScreenSafety`. `ScreenIsSaved` speaks
  of a quiet page and becomes inductive as an account of every other one: while
  nothing has gone wrong, the screen is what the timer will put, or the last
  save under way, or what the server has; or a refetch is under way or must
  still come, whose answer replaces it (`Account`). The lemmas say what appending
  a request and taking one away leave of "the last save".
* **`WebSessionProofs`**, of the connection: `OnlyOneConnects`, `ToldStaysAway`,
  `ConnectionIsTheSessions`. A client that is not the store's is closed and has
  no timer, one that the server turned away neither (`ClosingIsDeaf`,
  `ToldIsMute`); every operation of the session is one of the clients' or leaves
  them alone. `HookedAgrees` ties the client to the token the effect ran with.
* **`WebSessionProofs`**, of the tokens: `TypesHold`, `NoTokenTwice`,
  `NothingElseEndsIt`. Only answers bring new tokens, each at most once
  (`ArrivalsAreNew`); a token that was sent is the session's only while its
  exchange is under way (`SpentIsUnderWay`), and `StoredAgrees` keeps the store
  and localStorage together. `SurvivalInv` describes a session that nothing has
  ended: loading, refreshing or identifying itself, each with the one token the
  server takes.

**Only model-checked.** Liveness, for the prover has neither fairness nor
ENABLED; and what a fold or a recursive function computes for every input, for
lack of induction over operators. No module declares a RECURSIVE operator.


## 6. What is not modelled, and why

* **Inside the modelled components of the server**: the wording of messages and
  errors, JSON, ids and access codes, logging and metrics; timing of pings and
  deadlines; the hooks a starter runs besides the engine's; the listing of
  rooms, their chat and invitations. Sending on a connection and its full buffer
  belong to the reconnect buffer's module. Time-outs appear as choices that need
  no clock, except the debounce of snapshots. The rotation of refresh tokens is
  one step in `WebSession`; two rotations of one token that overlap inside the
  server (`domain/auth/service.go:259`) are not.
* **A second node**: `cmd/server` constructs the pub/sub between nodes as a
  no-op, and a `RedisLocker` that nothing acquires (the settlement takes a Redis
  key of its own).
* **The rest of the server**: the social hub, the audit log, coins, payments,
  creators, the reconnect buffer and the other game modules are planned
  (section 7). Their hazards are known (two refunds that each count two recent
  ones, `coin/service.go:324`; a payment confirmed by the provider and not by
  the database, `payment/service.go:185`; two settlement runs,
  `settlement.go:142`; the queue of the audit log at its limit,
  `auditlog/logger.go:127`; a resume past the ring, `ws/buffer.go:103`), but
  `hazards` lists those of modelled parts.
* **Inside the modelled parts of the client.** *Session*: the social endpoint,
  which runs the same code; the greeting and the bookkeeping for resume, behind
  the `authProtocol` flag that the application leaves off; heartbeat; several
  tabs; the OAuth callback; React's `StrictMode`, which in development only runs
  the effect of `useAppInitialize` twice and so sends the loading page's token
  twice. Two comments do not describe the code and are no
  properties: `authRevoked` is "Cleared on disconnect"
  (`connectionStore.ts:28–30`), which `disconnectGame` does not do, and a
  reconnect keeps the token in the address it was made with. *Flow*: positions
  and drags, presets, branches and endings, the start's own line, conditions of
  lines, the retry of a toast, a refetch that fails, a template reduced to one
  scene, the requests for single lines (`CreateEdge`, `UpdateEdge`), which the page does not send and
  which the server does not check for circles; that the rollback of a
  failed request closes the panel of a scene it takes away, and that an empty
  answer lays a template on a canvas that was opened with another graph. The answer to a PUT
  coincides with its arrival. *Forms and settings*: what the texts are,
  deletion, and the other panels that save the document (modules, locations,
  endings, the JSON tab). *Audio*: sound effects, the graph of audio nodes, how
  long fades take.
* **The larger part of the TypeScript**, about 96 lines in 100, are pages and
  panels that render a store or a query, forms with a single update, conversions
  between the shapes of the editor's document (`configShape.ts` and the
  adapters), clients of single REST calls, and types generated from the server's
  catalog. They keep no state that several actors share; their correctness is a
  matter of values, which a test reaches and a model would only write out again.
  What does have state over time in the client (the session and its socket, the
  audio stack, the three ways the editor saves by itself) is modelled.
* Profile, sound, storage, telemetry, generated code, migrations: validated
  reads and writes, or pure input and output.


## 7. The plan

Done: lifecycle, snapshots, hub, engine with its abstract course, event
progression, rooms, audio, the editor's forms, settings and flow, and the
session of the browser; a theorem for every safety property that a run checks.
What is left, in order:

1. **Money** (`Coin`, `Payment`, `Creator`, `Settlement`): an abstract ledger
   (balances, purchases, earnings: nothing is paid out twice and nothing
   disappears) implemented by transactions and the events published after them.
   Worth proving: the ledger's conservation and the refinement where it holds.
2. **Reconnect buffer**: the ring of `ws/buffer.go` as an implementation of a
   bounded, expiring window, with the resume of `packages/ws-client`.
3. **Composition** of `Hub`, `SessionLifecycle`, `SessionSnapshot` and
   `WebSession` around one player's reconnect, with the promise that the player
   is shown the current phase; and of revocation with the hub.
4. **Clue placement**: the editor's document of clues, decks and locations, its
   conversions, and the server's validation and clean-up, as functions checked
   against a reference definition.
5. **Game modules**: voting and accusation (one result per round), trades (a
   clue has one owner), reading and consensus, over a common frame of phase
   hooks and messages.
6. **Audit log and lock**: the queue with its drain, the lease with its token.
