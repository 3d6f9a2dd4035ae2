--------------------------- MODULE AutosavedDraft ---------------------------
(***************************************************************************)
(* An editor form that saves itself: the hooks useAutosavedDraft and       *)
(* useDebouncedMutation (apps/web/src) around one entity of the theme      *)
(* editor, the two forms that use them, the list query that refetches      *)
(* after a save, and the server's PATCH, which compares versions.          *)
(*                                                                         *)
(* The two forms differ in where the version is kept.  A reading section   *)
(* takes it from the last server value when the save is scheduled; a story *)
(* info carries it in its draft and merges each answer into the draft.     *)
(*                                                                         *)
(* A value is the number of the edit that wrote it, the number of changes  *)
(* by another tab that it contains, whether its blocks are complete, and   *)
(* its version.  React commits a render and runs its effects before the    *)
(* next event, so that an event and the effects it causes are one step.    *)
(***************************************************************************)
EXTENDS Autosave

CONSTANT MaxClicks     \* retries from the toast, reloads, openings

ASSUME BoundsAssumption == /\ MaxEdits \in Nat
                           /\ MaxForeign \in Nat
                           /\ MaxFaults \in Nat
                           /\ MaxClicks \in Nat
                           /\ SaveIds \subseteq Nat

VARIABLES carries,  \* the draft carries the version (story info)
          server,   \* the row
          cached,   \* the query's value, the form's serverValue
          draft, baseline,
          latest,   \* latestServerValueRef
          toast,    \* the message under the form's toast id
          clicks,
          undone    \* history: the texts the user took back, or left incomplete

form   == <<mounted, draft, baseline, latest, pending>>
query  == <<cached, fetch>>
bounds == <<edits, foreign, faults, clicks>>
history == <<refused, undone>>
vars   == <<carries, server, query, form, saves, toast, bounds, history>>

Values   == [text : Nat, over : Nat, ok : BOOLEAN, version : Nat]
Payloads == [body : Values, live : BOOLEAN]
Outcomes == {"sent", "saved", "conflict", "failed"}
Saves    == [body : Values, live : BOOLEAN, out : Outcomes]
Messages == {"none", "loading", "saved", "failed"}

ASSUME NoneAssumption == None \notin Payloads \cup Saves

First == [text |-> 0, over |-> 0, ok |-> TRUE, version |-> 0]

Idle == [state |-> "idle", value |-> First, reload |-> FALSE]
Asked(reload) == [state |-> "asked", value |-> First, reload |-> reload]

(* toDraft: a reading section's draft has no version. *)
ToDraft(v) == IF carries THEN v ELSE [v EXCEPT !.version = 0]

(* isEqual: the version is no editable field. *)
Same(l, r) == [l EXCEPT !.version = 0] = [r EXCEPT !.version = 0]

(* buildSaveBody, where it returns a body. *)
Body(d, l) == IF carries THEN d ELSE [d EXCEPT !.version = l.version]

Dirty == ~Same(draft, baseline)

Init == /\ carries \in BOOLEAN
        /\ server = First
        /\ cached = First
        /\ fetch = Idle
        /\ mounted = TRUE
        /\ draft = First
        /\ baseline = First
        /\ latest = First
        /\ pending = None
        /\ saves = [i \in SaveIds |-> None]
        /\ toast = [message |-> "none", retry |-> None]
        /\ edits = 0 /\ foreign = 0 /\ faults = 0 /\ clicks = 0
        /\ refused = {} /\ undone = {}

-----------------------------------------------------------------------------
(* The debounced mutation.                                                 *)

(* schedule(): the newest draft replaces the pending one; a draft that     *)
(* cannot be saved cancels it.                                             *)
Schedule(d, l) ==
  pending' = IF d.ok THEN [body |-> Body(d, l), live |-> TRUE]
                     ELSE None

(* The effect on [draft, isDirty, buildSaveBody], for a draft d over a     *)
(* baseline b, when one of them has changed.                               *)
AutosaveEffect(d, b, l, changed) ==
  IF changed /\ ~Same(d, b) THEN Schedule(d, l) ELSE UNCHANGED pending

Free(i) == /\ saves[i] = None
           /\ \A j \in SaveIds : j < i => saves[j] # None

(* save(): a request with the payload, and the toast says so. *)
Send(p) == \E i \in SaveIds :
  /\ Free(i)
  /\ saves' = [saves EXCEPT ![i] = [body |-> p.body, live |-> p.live, out |-> "sent"]]
  /\ toast' = [message |-> "loading", retry |-> None]

(* flushPending(), called by the timer. *)
TimerFires == /\ mounted /\ pending # None
              /\ Send(pending)
              /\ pending' = None
              /\ UNCHANGED <<carries, server, query, mounted, draft, baseline, latest, bounds, history>>

-----------------------------------------------------------------------------
(* The user.                                                               *)

(* setDraft with a new text, complete or not, or with the text of the      *)
(* baseline: the edit is undone.  Undoing it leaves the timer running.     *)
Edit(ok) ==
  LET d == [draft EXCEPT !.text = edits + 1, !.ok = ok]
  IN  /\ mounted /\ edits < MaxEdits
      /\ ok \/ ~carries
      /\ draft' = d
      /\ edits' = edits + 1
      /\ undone' = IF ok THEN undone ELSE undone \cup {edits + 1}
      /\ AutosaveEffect(d, baseline, latest, TRUE)
      /\ UNCHANGED <<carries, server, query, mounted, baseline, latest, saves, toast,
                     foreign, faults, clicks, refused>>

Undo ==
  LET d == [draft EXCEPT !.text = baseline.text, !.ok = baseline.ok]
  IN  /\ mounted /\ Dirty /\ clicks < MaxClicks
      /\ clicks' = clicks + 1
      /\ draft' = d
      /\ undone' = undone \cup {draft.text}
      /\ AutosaveEffect(d, baseline, latest, TRUE)
      /\ UNCHANGED <<carries, server, query, mounted, baseline, latest, saves, toast,
                     edits, foreign, faults, refused>>

(* Mutant: closing the form drops what is pending.                         *)
CloseUnsent == /\ mounted
               /\ mounted' = FALSE
               /\ pending' = None
               /\ draft' = First /\ baseline' = First /\ latest' = First
               /\ UNCHANGED <<carries, server, query, saves, toast, bounds, history>>

(* The form is closed: what is pending is sent, and no answer finds it.    *)
Close ==
  /\ mounted
  /\ mounted' = FALSE
  /\ pending' = None
  /\ LET old == [i \in SaveIds |-> IF saves[i] = None THEN None
                                   ELSE [saves[i] EXCEPT !.live = FALSE]]
         retry == IF toast.retry = None THEN None ELSE [toast.retry EXCEPT !.live = FALSE]
     IN  IF pending = None
         THEN saves' = old /\ toast' = [toast EXCEPT !.retry = retry]
         ELSE \E i \in SaveIds :
                /\ Free(i)
                /\ saves' = [old EXCEPT ![i] = [body |-> pending.body, live |-> FALSE,
                                               out |-> "sent"]]
                /\ toast' = [message |-> "loading", retry |-> None]
  /\ draft' = First /\ baseline' = First /\ latest' = First
  /\ UNCHANGED <<carries, server, query, bounds, history>>

(* The form is opened again, on the value the list has.                    *)
Open == /\ ~mounted /\ clicks < MaxClicks
        /\ clicks' = clicks + 1
        /\ mounted' = TRUE
        /\ draft' = ToDraft(cached)
        /\ baseline' = ToDraft(cached)
        /\ latest' = cached
        /\ UNCHANGED <<carries, server, query, pending, saves, toast, edits, foreign, faults, history>>

(* The toast's retry button: retrySave() sends the same body again.        *)
Retry == /\ toast.retry # None /\ clicks < MaxClicks
         /\ clicks' = clicks + 1
         /\ Send(toast.retry)
         /\ UNCHANGED <<carries, server, query, form, edits, foreign, faults, history>>

(* The conflict banner's reload button invalidates the list.               *)
Reload == /\ mounted /\ ~carries /\ Dirty /\ clicks < MaxClicks
          /\ toast.message = "failed"
          /\ clicks' = clicks + 1
          /\ fetch' = Asked(TRUE)
          /\ UNCHANGED <<carries, server, cached, form, saves, toast, edits, foreign, faults, history>>

(* The list renders for another reason: it builds its characters anew, and *)
(* with them a reading section's buildSaveBody.                            *)
ListRenders == /\ mounted /\ ~carries
               /\ AutosaveEffect(draft, baseline, latest, TRUE)
               /\ UNCHANGED <<carries, server, query, mounted, draft, baseline, latest, saves,
                              toast, bounds, history>>

-----------------------------------------------------------------------------
(* The server.                                                             *)

(* The row that a PATCH stores and answers with.                           *)
Stored(i) == [saves[i].body EXCEPT !.version = @ + 1]

(* PATCH: the row is updated where its version is the request's.           *)
Patch(i) ==
  /\ saves[i] # None /\ saves[i].out = "sent"
  /\ IF saves[i].body.version = server.version
     THEN /\ server' = Stored(i)
          /\ saves' = [saves EXCEPT ![i].out = "saved"]
     ELSE /\ saves' = [saves EXCEPT ![i].out = "conflict"]
          /\ UNCHANGED server
  /\ UNCHANGED <<carries, query, form, toast, bounds, history>>

(* Another tab saves a change of its own on top of the row.                *)
ForeignPatch == /\ foreign < MaxForeign
                /\ foreign' = foreign + 1
                /\ server' = [server EXCEPT !.over = @ + 1, !.version = @ + 1]
                /\ UNCHANGED <<carries, query, form, saves, toast, edits, faults, clicks, history>>

(* A request that does not arrive, or an answer that is lost.              *)
Fault(i) == /\ faults < MaxFaults
            /\ saves[i] # None /\ saves[i].out \in {"sent", "saved"}
            /\ faults' = faults + 1
            /\ saves' = [saves EXCEPT ![i].out = "failed"]
            /\ UNCHANGED <<carries, server, query, form, toast, edits, foreign, clicks, history>>

-----------------------------------------------------------------------------
(* The answers.                                                            *)

(* Mutant: the answer replaces whatever the draft is by now.               *)
AcceptAll(saved) == /\ latest' = saved
                    /\ baseline' = ToDraft(saved)
                    /\ draft' = ToDraft(saved)
                    /\ UNCHANGED pending

(* Mutant: an answer does not schedule what has become dirty by it.        *)
AcceptQuietly(saved) ==
  /\ latest' = saved
  /\ baseline' = ToDraft(saved)
  /\ draft' = IF Same(draft, saved) THEN ToDraft(saved) ELSE draft
  /\ UNCHANGED pending

(* acceptSavedValue() with the default merge or a story info's own, which  *)
(* gives the draft a new identity; then the autosave effect.               *)
Accept(saved) ==
  LET b    == ToDraft(saved)
      kept == ~Same(draft, saved)
      d    == IF ~kept THEN b
              ELSE IF carries THEN [draft EXCEPT !.version = saved.version] ELSE draft
  IN  /\ latest' = saved
      /\ baseline' = b
      /\ draft' = d
      /\ AutosaveEffect(d, b, saved, carries \/ ~Dirty)

(* The mutation's onSuccess invalidates the list, whether or not the form  *)
(* is still there.                                                         *)
Answer(i) ==
  /\ saves[i] # None /\ saves[i].out = "saved"
  /\ IF saves[i].live THEN Accept(Stored(i))
                      ELSE UNCHANGED <<draft, baseline, latest, pending>>
  /\ fetch' = Asked(FALSE)
  /\ saves' = [saves EXCEPT ![i] = None]
  /\ toast' = [message |-> "saved", retry |-> None]
  /\ UNCHANGED <<carries, server, cached, mounted, bounds, history>>

(* onFailure, and the retry's own catch: the toast offers the same payload. *)
Refusal(i) ==
  /\ saves[i] # None /\ saves[i].out \in {"conflict", "failed"}
  /\ saves' = [saves EXCEPT ![i] = None]
  /\ toast' = [message |-> "failed",
               retry |-> [body |-> saves[i].body, live |-> saves[i].live]]
  /\ refused' = refused \cup {saves[i].body.text}
  /\ UNCHANGED <<carries, server, query, form, bounds, undone>>

(* The list query's request reads the row. *)
FetchReads == /\ fetch.state = "asked"
              /\ fetch' = [fetch EXCEPT !.state = "read", !.value = server]
              /\ UNCHANGED <<carries, server, cached, form, saves, toast, bounds, history>>

(* Mutant: also a dirty form goes on from the newest server value.         *)
AdoptLatest(v) == /\ latest' = v
                  /\ draft' = IF Dirty THEN [draft EXCEPT !.version = ToDraft(v).version]
                              ELSE ToDraft(v)
                  /\ baseline' = IF Dirty THEN baseline ELSE ToDraft(v)
                  /\ AutosaveEffect(draft', baseline', v, Dirty)

(* A new server value is adopted unless the draft is dirty; it also gives a *)
(* reading section a new buildSaveBody.                                    *)
Adopt(v) == IF Dirty
            THEN /\ UNCHANGED <<draft, baseline, latest>>
                 /\ AutosaveEffect(draft, baseline, latest, ~carries)
            ELSE /\ latest' = v
                 /\ draft' = ToDraft(v)
                 /\ baseline' = ToDraft(v)
                 /\ UNCHANGED pending

FetchArrives == /\ fetch.state = "read"
                /\ fetch' = Idle
                /\ cached' = fetch.value
                /\ IF mounted /\ cached' # cached THEN Adopt(cached')
                   ELSE UNCHANGED <<draft, baseline, latest, pending>>
                /\ UNCHANGED <<carries, server, mounted, saves, toast, bounds, history>>

-----------------------------------------------------------------------------
Next == \/ \E ok \in BOOLEAN : Edit(ok)
        \/ Undo \/ Close \/ Open \/ Retry \/ Reload \/ ListRenders
        \/ TimerFires
        \/ \E i \in SaveIds : Patch(i) \/ Fault(i) \/ Answer(i) \/ Refusal(i)
        \/ ForeignPatch
        \/ FetchReads \/ FetchArrives

Fairness == /\ WF_vars(TimerFires)
            /\ WF_vars(FetchReads) /\ WF_vars(FetchArrives)
            /\ \A i \in SaveIds : WF_vars(Patch(i)) /\ WF_vars(Answer(i) \/ Refusal(i))

Spec == Init /\ [][Next]_vars /\ Fairness

-----------------------------------------------------------------------------
TypeOK ==
  /\ carries \in BOOLEAN /\ mounted \in BOOLEAN
  /\ {server, cached, draft, baseline, latest} \subseteq Values
  /\ fetch \in [state : {"idle", "asked", "read"}, value : Values, reload : BOOLEAN]
  /\ pending \in Payloads \cup {None}
  /\ saves \in [SaveIds -> Saves \cup {None}]
  /\ toast \in [message : Messages, retry : Payloads \cup {None}]
  /\ {edits, foreign, faults, clicks} \subseteq Nat
  /\ refused \subseteq Nat /\ undone \subseteq Nat

AtRest == /\ pending = None
          /\ fetch.state = "idle"
          /\ \A i \in SaveIds : saves[i] = None

(* What the user has typed and not saved changes under no answer and no    *)
(* refetch, in whatever order they arrive (acceptSavedValue's merge, the   *)
(* server-value effect).                                                   *)
EditsSurvive ==
  [][mounted /\ mounted' /\ Dirty /\ edits' = edits /\ clicks' = clicks => Same(draft', draft)]_vars

(* No save, no retry and no merged draft ever writes over a change of      *)
(* another tab that this form has not shown: the version that goes with a  *)
(* draft never runs ahead of what the draft contains.                      *)
ForeignWritesStay == [][server'.over >= server.over]_vars

(* When all is quiet the newest text is on the server, whether the form is *)
(* open, closed or open again, unless its save was refused with a message  *)
(* or the user took it back: an older save never replaces it.              *)
LastTextIsKept == AtRest /\ edits \notin refused \cup undone => server.text = edits

(* A dirty form is not left so: it is saved, edited further or closed, or  *)
(* the user is told, also where answers and refetches change the draft,    *)
(* its baseline and its version while a save is pending.                   *)
Unsaved(t) == mounted /\ Dirty /\ draft.ok /\ draft.text = t
DirtyIsSettled == \A t \in 1 .. MaxEdits : Unsaved(t) ~> (~Unsaved(t) \/ t \in refused)

(* The conflict banner's button "reload the latest state" gives the form   *)
(* the latest state.                                                       *)
ReloadIsTaken ==
  [][mounted /\ fetch.reload /\ fetch.state = "read" /\ fetch'.state = "idle" => latest' = cached']_vars

(* What the user took back is not saved.                                   *)
UndoneIsNotSaved == [][server'.text # server.text => server'.text \notin undone]_vars
=============================================================================
