------------------------------ MODULE Autosave ------------------------------
(***************************************************************************)
(* What AutosavedDraft and CharacterConfig have in common: both are an     *)
(* editor over useDebouncedMutation (apps/web/src) and one query, with one *)
(* pending payload, some saves under way and a refetch after each save.    *)
(* What a payload, a save and a refetch are, each module says itself.      *)
(***************************************************************************)
EXTENDS Naturals, FiniteSets

CONSTANTS MaxEdits,    \* edits of the user
          MaxForeign,  \* writes of another tab
          MaxFaults,   \* requests that fail, answers that are lost
          SaveIds,     \* saves that can be under way at a time
          None

VARIABLES mounted,
          pending,  \* pendingRef: its timer runs while there is one
          saves,    \* the requests under way
          fetch,    \* the query's refetch
          edits, foreign, faults,
          refused   \* history: the edits whose save failed with a message
=============================================================================
