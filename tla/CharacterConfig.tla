--------------------------- MODULE CharacterConfig ---------------------------
(***************************************************************************)
(* The character settings of the theme editor, which are saved as one      *)
(* document: useCharacterConfigDebounce with its optimistic mirror in the  *)
(* query cache, useDebouncedMutation's timer and rollback,                 *)
(* useUpdateConfigJson's second try after a version conflict, the refetch  *)
(* of the theme (apps/web/src), and the server's UpdateConfigJson.         *)
(*                                                                         *)
(* The document gives each setting the number of the edit it was written   *)
(* by.  An edit sends the settings its caller built the update from: the   *)
(* missions alone, or the whole document as it is shown (Carried).         *)
(* TanStack Query calls the callbacks that are given to mutate() for the   *)
(* newest call only, and only while the component is mounted; those of the *)
(* hook (the invalidation) always.                                         *)
(***************************************************************************)
EXTENDS Autosave

CONSTANTS Settings, Carried,
          MaxOpens     \* times the panel is opened again

ASSUME CarriedAssumption ==
  /\ Carried \in [Settings -> SUBSET Settings]
  /\ \A s \in Settings : s \in Carried[s]
ASSUME ConfigBounds ==
  /\ {MaxEdits, MaxForeign, MaxFaults, MaxOpens} \subseteq Nat
  /\ SaveIds \subseteq Nat

VARIABLES row,      \* the theme on the server: config_json and version
          cache,    \* the theme in the query cache, as it is shown
          snapshot, \* pendingSnapshotRef
          newest,   \* the mutation whose callbacks are called
          opens,
          typed,    \* history: the last edit of each setting
          overlap,  \* history: an edit was made while a save or a refetch was under way
          left,     \* history: the panel was closed before its edits were saved
          lost      \* history: a save was stored and its answer lost

panel      == <<mounted, snapshot, pending, newest>>
counters   == <<edits, foreign, faults, opens>>
record     == <<typed, refused, overlap, left, lost>>
configVars == <<row, cache, fetch, panel, saves, counters, record>>

Configs   == [Settings -> 0 .. (MaxEdits + MaxForeign)]
Blank     == [s \in Settings |-> 0]
NoFetch   == [state |-> "idle", value |-> Blank]
Mutations == [body : Configs, undo : Configs \cup {None}, base : Nat, try : {1, 2},
              at : {"sent", "read", "stored", "conflict", "failed"}]

ASSUME DocumentAssumption == None \notin Configs \cup Mutations

ConfigInit == /\ row = [config |-> Blank, version |-> 0]
              /\ cache = Blank
              /\ fetch = NoFetch
              /\ mounted = TRUE /\ snapshot = None /\ pending = None /\ newest = None
              /\ saves = [i \in SaveIds |-> None]
              /\ edits = 0 /\ foreign = 0 /\ faults = 0 /\ opens = 0
              /\ typed = Blank /\ refused = {} /\ overlap = FALSE /\ left = FALSE /\ lost = FALSE

Quiet    == fetch.state = "idle" /\ \A i \in SaveIds : saves[i] = None
AllSaved == Quiet /\ pending = None

-----------------------------------------------------------------------------
(* The panel.                                                              *)

(* Mutant: the snapshot is taken after the mirror. *)
EditMirroredFirst(s) ==
  LET shown == [cache EXCEPT ![s] = edits + 1]
      basis == IF pending = None THEN shown ELSE pending
  IN  /\ mounted /\ edits < MaxEdits
      /\ edits' = edits + 1
      /\ snapshot' = IF snapshot = None THEN shown ELSE snapshot
      /\ cache' = shown
      /\ pending' = [t \in Settings |-> IF t \in Carried[s] THEN shown[t] ELSE basis[t]]
      /\ typed' = [typed EXCEPT ![s] = edits + 1]
      /\ overlap' = (overlap \/ ~Quiet)
      /\ UNCHANGED <<row, fetch, mounted, newest, saves, foreign, faults, opens, refused,
                     left, lost>>

(* saveConfig(): the snapshot before the first edit of a window, the       *)
(* mirror, and the pending document with the update on top.                *)
EditSetting(s) ==
  LET shown == [cache EXCEPT ![s] = edits + 1]
      basis == IF pending = None THEN shown ELSE pending
  IN  /\ mounted /\ edits < MaxEdits
      /\ edits' = edits + 1
      /\ snapshot' = IF snapshot = None THEN cache ELSE snapshot
      /\ cache' = shown
      /\ pending' = [t \in Settings |-> IF t \in Carried[s] THEN shown[t] ELSE basis[t]]
      /\ typed' = [typed EXCEPT ![s] = edits + 1]
      /\ overlap' = (overlap \/ ~Quiet)
      /\ UNCHANGED <<row, fetch, mounted, newest, saves, foreign, faults, opens, refused,
                     left, lost>>

(* flushPending(): the rollback is what the snapshot is now; mutate().     *)
Start(i) == /\ saves[i] = None
            /\ \A j \in SaveIds : j < i => saves[j] # None
            /\ saves' = [saves EXCEPT ![i] = [body |-> pending, undo |-> snapshot, base |-> 0,
                                              try |-> 1, at |-> "sent"]]
            /\ pending' = None

(* The timer, or the blur of a field, or the choice of another character.  *)
Flush == /\ mounted /\ pending # None
         /\ \E i \in SaveIds : Start(i) /\ newest' = i
         /\ UNCHANGED <<row, cache, fetch, mounted, snapshot, counters, record>>

(* Mutant: closing the panel drops what is pending. *)
ClosePanelUnsent == /\ mounted
                    /\ mounted' = FALSE
                    /\ pending' = None /\ snapshot' = None /\ newest' = None
                    /\ left' = (left \/ ~AllSaved)
                    /\ UNCHANGED <<row, cache, fetch, saves, counters, typed, refused, overlap, lost>>

(* The panel is closed: what is pending is sent, no callback comes back.   *)
ClosePanel == /\ mounted
              /\ mounted' = FALSE
              /\ IF pending = None THEN UNCHANGED <<saves, pending>> ELSE \E i \in SaveIds : Start(i)
              /\ snapshot' = None /\ newest' = None
              /\ left' = (left \/ ~AllSaved)
              /\ UNCHANGED <<row, cache, fetch, counters, typed, refused, overlap, lost>>

OpenPanel == /\ ~mounted /\ opens < MaxOpens
             /\ opens' = opens + 1
             /\ mounted' = TRUE
             /\ UNCHANGED <<row, cache, fetch, snapshot, pending, newest, saves, edits, foreign, faults,
                            record>>

-----------------------------------------------------------------------------
(* The server.  UpdateConfigJson compares the version that it read itself: *)
(* the one in the request is not looked at.                                *)

At(i, place) == saves[i] # None /\ saves[i].at = place

ReadTheme(i) == /\ At(i, "sent")
                /\ saves' = [saves EXCEPT ![i].at = "read", ![i].base = row.version]
                /\ UNCHANGED <<row, cache, fetch, panel, counters, record>>

StoreConfig(i) == /\ At(i, "read") /\ saves[i].base = row.version
                  /\ row' = [config |-> saves[i].body, version |-> row.version + 1]
                  /\ saves' = [saves EXCEPT ![i].at = "stored"]
                  /\ UNCHANGED <<cache, fetch, panel, counters, record>>

Conflict(i) == /\ At(i, "read") /\ saves[i].base # row.version
               /\ saves' = [saves EXCEPT ![i].at = "conflict"]
               /\ UNCHANGED <<row, cache, fetch, panel, counters, record>>

(* Another tab changes one setting on top of the row.                      *)
ForeignEdit(s) == /\ foreign < MaxForeign
                  /\ foreign' = foreign + 1
                  /\ row' = [config |-> [row.config EXCEPT ![s] = MaxEdits + foreign + 1],
                             version |-> row.version + 1]
                  /\ UNCHANGED <<cache, fetch, panel, saves, edits, faults, opens, record>>

LoseSave(i) == /\ faults < MaxFaults
               /\ At(i, "sent") \/ At(i, "read") \/ At(i, "stored")
               /\ faults' = faults + 1
               /\ saves' = [saves EXCEPT ![i].at = "failed"]
               /\ lost' = (lost \/ At(i, "stored"))
               /\ UNCHANGED <<row, cache, fetch, panel, edits, foreign, opens, typed, refused, overlap,
                              left>>

-----------------------------------------------------------------------------
(* The answers.                                                            *)

(* A conflict is tried once more with the same document; the second one    *)
(* fails the mutation.                                                     *)
TryAgain(i) == /\ At(i, "conflict")
               /\ saves' = [saves EXCEPT ![i] = IF @.try = 1 THEN [@ EXCEPT !.try = 2, !.at = "sent"]
                                                ELSE [@ EXCEPT !.at = "failed"]]
               /\ UNCHANGED <<row, cache, fetch, panel, counters, record>>

Succeed(i) == /\ At(i, "stored")
              /\ saves' = [saves EXCEPT ![i] = None]
              /\ fetch' = [NoFetch EXCEPT !.state = "asked"]
              /\ snapshot' = IF newest = i THEN None ELSE snapshot
              /\ newest' = IF newest = i THEN None ELSE newest
              /\ UNCHANGED <<row, cache, mounted, pending, counters, record>>

(* The settings the user changed in the window that save i was for.        *)
Window(i) == {s \in Settings : saves[i].undo = None \/ saves[i].body[s] # saves[i].undo[s]}

(* The rollback, the message, and the end of the window.                   *)
Fail(i) ==
  LET called == newest = i
  IN  /\ At(i, "failed")
      /\ saves' = [saves EXCEPT ![i] = None]
      /\ cache' = IF called /\ saves[i].undo # None THEN saves[i].undo ELSE cache
      /\ snapshot' = IF called THEN None ELSE snapshot
      /\ newest' = IF called THEN None ELSE newest
      /\ refused' = refused \cup {saves[i].body[s] : s \in Window(i)}
      /\ UNCHANGED <<row, fetch, mounted, pending, counters, typed, overlap, left, lost>>

ThemeReads == /\ fetch.state = "asked"
              /\ fetch' = [state |-> "read", value |-> row.config]
              /\ UNCHANGED <<row, cache, panel, saves, counters, record>>

(* The answer replaces the cache, mirrored edits included.                 *)
ThemeArrives == /\ fetch.state = "read"
                /\ fetch' = NoFetch
                /\ cache' = fetch.value
                /\ UNCHANGED <<row, panel, saves, counters, record>>

-----------------------------------------------------------------------------
ConfigNext == \/ \E s \in Settings : EditSetting(s) \/ ForeignEdit(s)
              \/ Flush \/ ClosePanel \/ OpenPanel
              \/ \E i \in SaveIds : \/ ReadTheme(i) \/ StoreConfig(i) \/ Conflict(i) \/ LoseSave(i)
                                    \/ TryAgain(i) \/ Succeed(i) \/ Fail(i)
              \/ ThemeReads \/ ThemeArrives

ConfigFairness == /\ WF_configVars(Flush) /\ WF_configVars(ThemeReads) /\ WF_configVars(ThemeArrives)
                  /\ \A i \in SaveIds :
                       /\ WF_configVars(ReadTheme(i)) /\ WF_configVars(StoreConfig(i) \/ Conflict(i))
                       /\ WF_configVars(TryAgain(i)) /\ WF_configVars(Succeed(i) \/ Fail(i))

ConfigSpec == ConfigInit /\ [][ConfigNext]_configVars /\ ConfigFairness

-----------------------------------------------------------------------------
ConfigTypeOK ==
  /\ row \in [config : Configs, version : Nat]
  /\ cache \in Configs /\ typed \in Configs
  /\ fetch \in [state : {"idle", "asked", "read"}, value : Configs]
  /\ snapshot \in Configs \cup {None} /\ pending \in Configs \cup {None}
  /\ newest \in SaveIds \cup {None}
  /\ saves \in [SaveIds -> Mutations \cup {None}]
  /\ edits \in 0 .. MaxEdits /\ foreign \in 0 .. MaxForeign
  /\ mounted \in BOOLEAN /\ overlap \in BOOLEAN /\ left \in BOOLEAN /\ lost \in BOOLEAN

(* What another tab has written, where it came last.                       *)
Elsewhere(s) == row.config[s] > MaxEdits

(* As long as no edit is made while a save or a refetch is under way, each *)
(* edit is on the server when all is quiet, or its save was refused with a *)
(* message: windows, conflicts tried again, rollbacks, closing the panel   *)
(* and opening it lose none.                                               *)
EditsAreSaved == AllSaved /\ ~overlap =>
  \A s \in Settings : typed[s] \in refused \/ row.config[s] = typed[s] \/ Elsewhere(s)

(* Then, and unless the panel was closed or an answer lost, the settings   *)
(* that are shown are the ones that are stored: a refused save takes back  *)
(* every edit of its window and no other.                                  *)
RollbackIsWhole == AllSaved /\ ~overlap /\ ~left /\ ~lost =>
  \A s \in Settings : cache[s] = row.config[s] \/ Elsewhere(s)

(* "Prevents loss of earlier edits made within the same debounce window on *)
(* different keys": an edit leaves the others of its window pending.       *)
WindowKeepsEdits ==
  [][pending # None /\ pending' # None =>
       \A s \in Settings : pending'[s] = pending[s] \/ typed'[s] # typed[s]]_configVars

(* "The correct rollback target on mutation failure": whatever edits were  *)
(* made while it was under way, a failed save leaves what is stored.       *)
FailureShowsStored == AllSaved /\ ~left /\ ~lost =>
  \A s \in Settings : cache[s] = row.config[s] \/ Elsewhere(s)

=============================================================================
