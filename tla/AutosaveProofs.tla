-------------------------- MODULE AutosaveProofs --------------------------
(***************************************************************************)
(* Proofs about the two editors that save themselves, for any number of    *)
(* edits, writes of other tabs, faults and saves under way.  First         *)
(* AutosavedDraft: typing is never undone by an answer, other tabs' writes *)
(* stay, and the newest text is not lost; three invariants, each for the   *)
(* next: the types, the versions, the texts.  Then CharacterConfig: no     *)
(* edit is lost, and a rollback is whole; ConfigInv is its invariant.  The *)
(* two share the variables of Autosave, and no theorem assumes both.       *)
(***************************************************************************)
EXTENDS AutosavedDraft, CharacterConfig, TLAPS

USE NoneAssumption

\* What the autosave effect leaves pending.
LEMMA EffectCases ==
  ASSUME NEW d, NEW b, NEW l, NEW c, AutosaveEffect(d, b, l, c)
  PROVE  \/ pending' = pending
         \/ ~Same(d, b) /\ ~d.ok /\ pending' = None
         \/ ~Same(d, b) /\ d.ok /\ pending' = [body |-> Body(d, l), live |-> TRUE]
BY DEF AutosaveEffect, Schedule

\* Drafts and bodies are values, with the text of the draft.
LEMMA ValueTypes ==
  /\ First \in Values
  /\ \A v \in Values : /\ ToDraft(v) \in Values
                       /\ ToDraft(v).text = v.text
                       /\ ToDraft(v).over = v.over
                       /\ ToDraft(v).ok = v.ok
                       /\ carries => ToDraft(v) = v
  /\ \A d, l \in Values : /\ Body(d, l) \in Values
                          /\ Body(d, l).text = d.text
                          /\ Body(d, l).over = d.over
                          /\ Body(d, l).ok = d.ok
                          /\ Body(d, l).version = IF carries THEN d.version ELSE l.version
BY DEF Values, First, ToDraft, Body

\* A value with another text.
LEMMA Retyped ==
  ASSUME NEW v \in Values, NEW t \in Nat, NEW o \in BOOLEAN
  PROVE  LET d == [v EXCEPT !.text = t, !.ok = o]
         IN  d \in Values /\ d.over = v.over /\ d.version = v.version /\ d.text = t /\ d.ok = o
BY DEF Values

\* Two values are the same when they differ in the version at most.
LEMMA SameFields ==
  ASSUME NEW v \in Values, NEW w \in Values
  PROVE  Same(v, w) <=> v.text = w.text /\ v.over = w.over /\ v.ok = w.ok
<1>1. v = [text |-> v.text, over |-> v.over, ok |-> v.ok, version |-> v.version]
  BY DEF Values
<1>2. w = [text |-> w.text, over |-> w.over, ok |-> w.ok, version |-> w.version]
  BY DEF Values
<1>3. [v EXCEPT !.version = 0] = [text |-> v.text, over |-> v.over, ok |-> v.ok, version |-> 0]
  BY <1>1
<1>4. [w EXCEPT !.version = 0] = [text |-> w.text, over |-> w.over, ok |-> w.ok, version |-> 0]
  BY <1>2
<1>5. QED  BY <1>3, <1>4 DEF Same

\* A save stores its body, with the next version.
LEMMA StoredType ==
  ASSUME TypeOK, NEW i \in SaveIds, saves[i] # None
  PROVE  /\ saves[i] \in Saves /\ Stored(i) \in Values
         /\ Stored(i).text = saves[i].body.text /\ Stored(i).over = saves[i].body.over
         /\ Stored(i).ok = saves[i].body.ok /\ Stored(i).version = saves[i].body.version + 1
<1>1. saves[i] \in Saves  BY DEF TypeOK
<1>2. saves[i].body \in Values  BY <1>1 DEF Saves
<1>3. QED  BY <1>1, <1>2 DEF Stored, Values

\* A request that is sent takes a free place.
LEMMA SendCases ==
  ASSUME TypeOK, NEW p \in Payloads, Send(p)
  PROVE  /\ \E i \in SaveIds : /\ saves[i] = None
                               /\ saves' = [saves EXCEPT ![i] = [body |-> p.body, live |-> p.live,
                                                                 out |-> "sent"]]
                               /\ [body |-> p.body, live |-> p.live, out |-> "sent"] \in Saves
         /\ toast' = [message |-> "loading", retry |-> None]
         /\ saves' \in [SaveIds -> Saves \cup {None}]
         /\ toast' \in [message : Messages, retry : Payloads \cup {None}]
<1>1. PICK i \in SaveIds : /\ saves[i] = None
                           /\ saves' = [saves EXCEPT ![i] = [body |-> p.body, live |-> p.live,
                                                             out |-> "sent"]]
                           /\ toast' = [message |-> "loading", retry |-> None]
  BY DEF Send, Free
<1>2. [body |-> p.body, live |-> p.live, out |-> "sent"] \in Saves
  BY DEF Payloads, Saves, Outcomes
<1>3. QED  BY <1>1, <1>2 DEF TypeOK, Messages

\* What the autosave effect and an answer leave in the form has the types of it.
LEMMA EffectType ==
  ASSUME TypeOK, NEW d \in Values, NEW b, NEW l \in Values, NEW c, AutosaveEffect(d, b, l, c)
  PROVE  pending' \in Payloads \cup {None}
<1>1. [body |-> Body(d, l), live |-> TRUE] \in Payloads  BY ValueTypes DEF Payloads
<1>2. QED  BY <1>1, EffectCases DEF TypeOK

LEMMA AcceptType ==
  ASSUME TypeOK, NEW v \in Values, Accept(v)
  PROVE  /\ {latest', baseline', draft'} \subseteq Values /\ pending' \in Payloads \cup {None}
<1> DEFINE d == IF Same(draft, v) THEN ToDraft(v)
                ELSE IF carries THEN [draft EXCEPT !.version = v.version] ELSE draft
<1>1. draft' = d /\ latest' = v /\ baseline' = ToDraft(v)  BY DEF Accept
<1>2. d \in Values
  <2>1. [draft EXCEPT !.version = v.version] \in Values  BY DEF TypeOK, Values
  <2>2. QED  BY <2>1, ValueTypes DEF TypeOK
<1>3. AutosaveEffect(d, ToDraft(v), v, carries \/ ~Dirty)  BY DEF Accept
<1>4. pending' \in Payloads \cup {None}  BY <1>2, <1>3, EffectType
<1>5. QED  BY <1>1, <1>2, <1>4, ValueTypes

\* No step leaves the types.
LEMMA TypeStep == TypeOK /\ [Next]_vars => TypeOK'
<1> SUFFICES ASSUME TypeOK, [Next]_vars PROVE TypeOK'
  OBVIOUS
<1> USE DEF form, query, bounds, history
<1>1. ASSUME NEW ok \in BOOLEAN, Edit(ok) PROVE TypeOK'
  <2> DEFINE d == [draft EXCEPT !.text = edits + 1, !.ok = ok]
  <2>1. d \in Values
    <3>1. draft \in Values /\ edits + 1 \in Nat  BY DEF TypeOK
    <3>2. QED  BY <3>1, Retyped
  <2>2. AutosaveEffect(d, baseline, latest, TRUE)  BY <1>1 DEF Edit
  <2>3. pending' \in Payloads \cup {None}  BY <2>1, <2>2, EffectType DEF TypeOK
  <2>4. QED  BY <1>1, <2>1, <2>3 DEF Edit, TypeOK
<1>2. CASE Undo
  <2> DEFINE d == [draft EXCEPT !.text = baseline.text, !.ok = baseline.ok]
  <2>1. d \in Values /\ draft.text \in Nat  BY DEF TypeOK, Values
  <2>2. AutosaveEffect(d, baseline, latest, TRUE)  BY <1>2 DEF Undo
  <2>3. pending' \in Payloads \cup {None}  BY <2>1, <2>2, EffectType DEF TypeOK
  <2>4. QED  BY <1>2, <2>1, <2>3 DEF Undo, TypeOK
<1>3. CASE Close
  <2>1. \A i \in SaveIds : saves[i] # None => [saves[i] EXCEPT !.live = FALSE] \in Saves
    BY DEF TypeOK, Saves
  <2>2. toast.retry # None => [toast.retry EXCEPT !.live = FALSE] \in Payloads
    BY DEF TypeOK, Payloads
  <2>3. pending # None => [body |-> pending.body, live |-> FALSE, out |-> "sent"] \in Saves
    BY DEF TypeOK, Payloads, Saves, Outcomes
  <2> DEFINE old == [i \in SaveIds |-> IF saves[i] = None THEN None
                                       ELSE [saves[i] EXCEPT !.live = FALSE]]
  <2>4. old \in [SaveIds -> Saves \cup {None}]  BY <2>1 DEF TypeOK
  <2>5. saves' \in [SaveIds -> Saves \cup {None}]
    <3>1. CASE pending = None  BY <1>3, <2>4, <3>1 DEF Close
    <3>2. CASE pending # None
      <4>1. PICK i \in SaveIds : saves' = [old EXCEPT ![i] = [body |-> pending.body, live |-> FALSE,
                                                              out |-> "sent"]]
        BY <1>3, <3>2 DEF Close
      <4>2. QED  BY <4>1, <2>3, <2>4, <3>2
    <3>3. QED  BY <3>1, <3>2
  <2>6. toast' \in [message : Messages, retry : Payloads \cup {None}]
    <3>1. CASE pending # None  BY <1>3, <3>1 DEF Close, Messages
    <3>2. CASE pending = None
      <4>1. toast' = [toast EXCEPT !.retry = IF toast.retry = None THEN None
                                             ELSE [toast.retry EXCEPT !.live = FALSE]]
        BY <1>3, <3>2 DEF Close
      <4>2. QED  BY <4>1, <2>2 DEF TypeOK
    <3>3. QED  BY <3>1, <3>2
  <2>7. /\ draft' = First /\ baseline' = First /\ latest' = First /\ First \in Values
        /\ mounted' = FALSE /\ pending' = None
        /\ UNCHANGED <<carries, server, query, bounds, history>>
    BY <1>3, ValueTypes DEF Close
  <2>8. QED  BY <2>5, <2>6, <2>7 DEF TypeOK, query, bounds, history
<1>4. CASE Open
  <2>1. cached \in Values /\ draft' = ToDraft(cached) /\ baseline' = draft' /\ latest' = cached
    BY <1>4 DEF Open, TypeOK
  <2>2. draft' \in Values /\ baseline' \in Values /\ latest' \in Values
    BY <2>1, ValueTypes
  <2>3. clicks' \in Nat /\ mounted' = TRUE
    BY <1>4 DEF Open, TypeOK
  <2>4. QED  BY <1>4, <2>2, <2>3 DEF Open, TypeOK, history
<1>5. CASE Retry
  <2>1. toast.retry \in Payloads /\ Send(toast.retry)  BY <1>5 DEF Retry, TypeOK
  <2>2. /\ saves' \in [SaveIds -> Saves \cup {None}]
        /\ toast' \in [message : Messages, retry : Payloads \cup {None}]
    BY <2>1, SendCases
  <2>3. QED  BY <1>5, <2>2 DEF Retry, TypeOK
<1>6. CASE Reload  BY <1>6, ValueTypes DEF Reload, TypeOK, Asked
<1>7. CASE ListRenders
  <2>1. pending' \in Payloads \cup {None}  BY <1>7, EffectType DEF ListRenders, TypeOK
  <2>2. QED  BY <1>7, <2>1 DEF ListRenders, TypeOK
<1>8. CASE TimerFires
  <2>1. pending \in Payloads /\ Send(pending)  BY <1>8 DEF TimerFires, TypeOK
  <2>2. QED  BY <1>8, <2>1, SendCases DEF TimerFires, TypeOK
<1>9. ASSUME NEW i \in SaveIds, Patch(i) PROVE TypeOK'
  <2>1. saves[i] \in Saves /\ Stored(i) \in Values  BY <1>9, StoredType DEF Patch
  <2>2. \A o \in Outcomes : [saves[i] EXCEPT !.out = o] \in Saves  BY <2>1 DEF Saves
  <2>3. QED  BY <1>9, <2>1, <2>2 DEF Patch, TypeOK, Outcomes
<1>10. ASSUME NEW i \in SaveIds, Fault(i) PROVE TypeOK'
  <2>1. [saves[i] EXCEPT !.out = "failed"] \in Saves
    BY <1>10 DEF Fault, TypeOK, Saves, Outcomes
  <2>2. QED  BY <1>10, <2>1 DEF Fault, TypeOK
<1>11. ASSUME NEW i \in SaveIds, Answer(i) PROVE TypeOK'
  <2>1. Stored(i) \in Values  BY <1>11, StoredType DEF Answer
  <2>2. {latest', baseline', draft'} \subseteq Values /\ pending' \in Payloads \cup {None}
    <3>1. CASE saves[i].live  BY <1>11, <3>1, <2>1, AcceptType DEF Answer
    <3>2. CASE ~saves[i].live  BY <1>11, <3>2 DEF Answer, TypeOK
    <3>3. QED  BY <3>1, <3>2
  <2>3. fetch' \in [state : {"idle", "asked", "read"}, value : Values, reload : BOOLEAN]
    BY <1>11, ValueTypes DEF Answer, Asked
  <2>4. /\ saves' \in [SaveIds -> Saves \cup {None}]
        /\ toast' \in [message : Messages, retry : Payloads \cup {None}]
    BY <1>11 DEF Answer, TypeOK, Messages
  <2>5. QED  BY <1>11, <2>2, <2>3, <2>4 DEF Answer, TypeOK
<1>12. ASSUME NEW i \in SaveIds, Refusal(i) PROVE TypeOK'
  <2>1. saves[i] \in Saves  BY <1>12 DEF Refusal, TypeOK
  <2>2. [body |-> saves[i].body, live |-> saves[i].live] \in Payloads /\ saves[i].body.text \in Nat
    BY <2>1 DEF Saves, Payloads, Values
  <2>3. QED  BY <1>12, <2>1, <2>2 DEF Refusal, TypeOK, Messages
<1>13. CASE ForeignPatch
  <2>1. server' = [server EXCEPT !.over = @ + 1, !.version = @ + 1] /\ server \in Values
    BY <1>13 DEF ForeignPatch, TypeOK
  <2>2. server.over + 1 \in Nat /\ server.version + 1 \in Nat  BY <2>1 DEF Values
  <2>3. server' \in Values  BY <2>1, <2>2 DEF Values
  <2>4. QED  BY <1>13, <2>3 DEF ForeignPatch, TypeOK
<1>14. CASE FetchReads  BY <1>14 DEF FetchReads, TypeOK
<1>15. CASE FetchArrives
  <2>1. fetch.value \in Values /\ cached' = fetch.value  BY <1>15 DEF FetchArrives, TypeOK
  <2>2. {latest', baseline', draft'} \subseteq Values /\ pending' \in Payloads \cup {None}
    <3>1. CASE Dirty /\ Adopt(cached')  BY <3>1, <2>1, EffectType DEF Adopt, TypeOK
    <3>2. CASE ~Dirty /\ Adopt(cached')  BY <3>2, <2>1, ValueTypes DEF Adopt, TypeOK
    <3>3. CASE UNCHANGED <<draft, baseline, latest, pending>>  BY <3>3 DEF TypeOK
    <3>4. QED  BY <3>1, <3>2, <3>3, <1>15 DEF FetchArrives
  <2>3. Idle \in [state : {"idle", "asked", "read"}, value : Values, reload : BOOLEAN]
    BY ValueTypes DEF Idle
  <2>4. QED  BY <1>15, <2>1, <2>2, <2>3 DEF FetchArrives, TypeOK
<1>16. CASE UNCHANGED vars  BY <1>16 DEF vars, TypeOK
<1>17. QED
  BY <1>1, <1>2, <1>3, <1>4, <1>5, <1>6, <1>7, <1>8, <1>9, <1>10, <1>11, <1>12, <1>13,
     <1>14, <1>15, <1>16
  DEF Next

-----------------------------------------------------------------------------
(***************************************************************************)
(* Versions.  Whoever has the row's version has all that other tabs wrote: *)
(* a PATCH with it overwrites nothing unseen.                              *)
(***************************************************************************)
Known(v) == /\ v.over <= server.over /\ v.version <= server.version
            /\ v.version = server.version => v.over = server.over

\* A payload that a form still waits for has nothing that its draft has not.
Fits(p) == Known(p.body) /\ (p.live => mounted /\ p.body.over <= draft.over)

SavesFit == \A i \in SaveIds : saves[i] # None =>
              Fits(saves[i]) /\ (saves[i].out = "saved" => Known(Stored(i)))
PendingFits == pending # None => pending.live /\ Fits(pending)
RetryFits == toast.retry # None => Fits(toast.retry)
\* The query's value and the last server value are known; a refetch that is
\* about to arrive brings nothing older than what the form shows.
CopiesKnown == /\ Known(cached)
               /\ mounted => Known(latest)
               /\ fetch.state = "read" => /\ Known(fetch.value) /\ cached.over <= fetch.value.over
                                          /\ mounted => draft.over <= fetch.value.over
DraftKnown == mounted => /\ draft.over <= server.over /\ latest.over <= draft.over
                         /\ carries => Known(draft)

VersionInv == SavesFit /\ PendingFits /\ RetryFits /\ CopiesKnown /\ DraftKnown

\* What the autosave would send fits.
LEMMA BodyKnown ==
  ASSUME TypeOK, VersionInv, mounted,
         NEW d \in Values, d.over = draft.over, d.version = draft.version
  PROVE  Known(Body(d, latest))
<1>1. /\ draft.over <= server.over
      /\ latest.over <= draft.over
      /\ Known(latest)
      /\ (carries => Known(draft))
  BY DEF VersionInv, DraftKnown, CopiesKnown
<1>2. CASE carries  BY <1>1, <1>2 DEF Body, Known
<1>3. CASE ~carries
  <2>1. Body(d, latest).over = d.over /\ Body(d, latest).version = latest.version
    BY <1>3, ValueTypes DEF TypeOK
  <2>2. QED  BY <1>1, <2>1 DEF Known, TypeOK, Values
<1>4. QED  BY <1>2, <1>3

\* The autosave schedules what fits.
LEMMA EffectFits ==
  ASSUME NEW d \in Values, NEW b, NEW l \in Values, NEW c, AutosaveEffect(d, b, l, c),
         UNCHANGED <<carries, server>>, mounted, mounted', draft' = d, PendingFits,
         draft.over \in Nat, d.over = draft.over, Known(Body(d, l))
  PROVE  PendingFits'
<1>1. CASE pending' = pending  BY <1>1 DEF PendingFits, Fits, Known
<1>2. CASE pending' = None  BY <1>2 DEF PendingFits
<1>3. CASE pending' = [body |-> Body(d, l), live |-> TRUE]
  <2>1. pending'.body = Body(d, l) /\ pending'.live = TRUE /\ Body(d, l).over = d.over
    BY <1>3, ValueTypes
  <2>2. Known(Body(d, l))'  BY DEF Known, Body
  <2>3. QED  BY <2>1, <2>2 DEF PendingFits, Fits, Known, Body
<1>4. QED  BY <1>1, <1>2, <1>3, EffectCases

\* A request that fits is sent and fits.
LEMMA SendFits ==
  ASSUME TypeOK, SavesFit, NEW p \in Payloads, Send(p), Fits(p),
         UNCHANGED <<server, mounted, draft>>
  PROVE  SavesFit' /\ RetryFits'
<1>1. PICK i \in SaveIds : saves' = [saves EXCEPT ![i] = [body |-> p.body, live |-> p.live,
                                                          out |-> "sent"]]
  BY SendCases
<1>2. toast' = [message |-> "loading", retry |-> None]  BY SendCases
<1>3. SUFFICES ASSUME NEW j \in SaveIds, saves'[j] # None
               PROVE  Fits(saves[j])' /\ (saves'[j].out = "saved" => Known(Stored(j))')
  BY <1>2 DEF SavesFit, RetryFits
<1>4. CASE j = i  BY <1>1, <1>4 DEF TypeOK, Fits, Known
<1>5. CASE j # i
  <2>1. saves'[j] = saves[j]  BY <1>1, <1>5 DEF TypeOK
  <2>2. QED  BY <2>1, <1>3 DEF SavesFit, Fits, Known, Stored
<1>6. QED  BY <1>4, <1>5

\* No step breaks what is known of the versions.
LEMMA VersionStep == TypeOK /\ VersionInv /\ [Next]_vars => VersionInv'
<1> SUFFICES ASSUME TypeOK, VersionInv, [Next]_vars PROVE VersionInv'
  OBVIOUS
<1> USE DEF form, query, bounds, history
<1>1. ASSUME NEW ok \in BOOLEAN, Edit(ok) PROVE VersionInv'
  <2> DEFINE d == [draft EXCEPT !.text = edits + 1, !.ok = ok]
  <2>1. d \in Values /\ d.over = draft.over /\ d.version = draft.version
    <3>1. draft \in Values /\ edits + 1 \in Nat  BY DEF TypeOK
    <3>2. d \in Values  BY <3>1, Retyped
    <3>3. d.over = draft.over /\ d.version = draft.version  BY <3>1 DEF Values
    <3>4. QED  BY <3>2, <3>3
  <2>2. AutosaveEffect(d, baseline, latest, TRUE) /\ draft' = d  BY <1>1 DEF Edit
  <2>3. SavesFit' /\ RetryFits'
    BY <1>1, <2>1, <2>2 DEF Edit, VersionInv, SavesFit, RetryFits, Fits, Known, Stored
  <2>4. CopiesKnown' /\ DraftKnown'
    BY <1>1, <2>1, <2>2 DEF Edit, VersionInv, CopiesKnown, DraftKnown, Known
  <2>5. PendingFits'
    <3>1. latest \in Values  BY DEF TypeOK
    <3>2. mounted /\ mounted' /\ UNCHANGED <<carries, server>> /\ PendingFits
      BY <1>1 DEF Edit, VersionInv
    <3>3. Known(Body(d, latest))  BY <2>1, <3>2, BodyKnown
    <3>4. QED  BY <2>1, <2>2, <3>1, <3>2, <3>3, EffectFits DEF TypeOK, Values
  <2>6. QED  BY <2>3, <2>4, <2>5 DEF VersionInv
<1>2. CASE Undo
  <2> DEFINE d == [draft EXCEPT !.text = baseline.text, !.ok = baseline.ok]
  <2>1. d \in Values /\ d.over = draft.over /\ d.version = draft.version
    BY DEF TypeOK, Values
  <2>2. AutosaveEffect(d, baseline, latest, TRUE) /\ draft' = d  BY <1>2 DEF Undo
  <2>3. SavesFit' /\ RetryFits'
    BY <1>2, <2>1, <2>2 DEF Undo, VersionInv, SavesFit, RetryFits, Fits, Known, Stored
  <2>4. CopiesKnown' /\ DraftKnown'
    BY <1>2, <2>1, <2>2 DEF Undo, VersionInv, CopiesKnown, DraftKnown, Known
  <2>5. PendingFits'
    <3>1. latest \in Values  BY DEF TypeOK
    <3>2. mounted /\ mounted' /\ UNCHANGED <<carries, server>> /\ PendingFits
      BY <1>2 DEF Undo, VersionInv
    <3>3. Known(Body(d, latest))  BY <2>1, <3>2, BodyKnown
    <3>4. QED  BY <2>1, <2>2, <3>1, <3>2, <3>3, EffectFits DEF TypeOK, Values
  <2>6. QED  BY <2>3, <2>4, <2>5 DEF VersionInv
<1>3. CASE Close
  <2> DEFINE old == [i \in SaveIds |-> IF saves[i] = None THEN None
                                       ELSE [saves[i] EXCEPT !.live = FALSE]]
  <2>1. \A i \in SaveIds : saves[i] # None =>
          LET s == [saves[i] EXCEPT !.live = FALSE]
          IN  s \in Saves /\ s.body = saves[i].body /\ s.out = saves[i].out /\ s.live = FALSE
    BY DEF TypeOK, Saves
  <2>2. toast.retry # None => LET r == [toast.retry EXCEPT !.live = FALSE]
                              IN  r.body = toast.retry.body /\ r.live = FALSE
    BY DEF TypeOK, Payloads
  <2>3. RetryFits'
    <3>1. CASE pending # None  BY <1>3, <3>1 DEF Close, RetryFits
    <3>2. CASE pending = None
      <4>1. toast'.retry = IF toast.retry = None THEN None ELSE [toast.retry EXCEPT !.live = FALSE]
        BY <1>3, <3>2 DEF Close, TypeOK
      <4>2. UNCHANGED server  BY <1>3 DEF Close
      <4>3. QED  BY <4>1, <4>2, <2>2 DEF VersionInv, RetryFits, Fits, Known
    <3>3. QED  BY <3>1, <3>2
  <2>4. SavesFit'
    <3>1. CASE pending = None
      <4>1. saves' = old  BY <1>3, <3>1 DEF Close
      <4>2. QED  BY <1>3, <4>1, <2>1 DEF Close, VersionInv, SavesFit, Fits, Known, Stored
    <3>2. CASE pending # None
      <4>1. PICK i \in SaveIds : saves' = [old EXCEPT ![i] = [body |-> pending.body, live |-> FALSE,
                                                              out |-> "sent"]]
        BY <1>3, <3>2 DEF Close
      <4>2. SUFFICES ASSUME NEW j \in SaveIds, saves'[j] # None
                     PROVE  Fits(saves[j])' /\ (saves'[j].out = "saved" => Known(Stored(j))')
        BY DEF SavesFit
      <4>3. CASE j = i
        BY <1>3, <3>2, <4>1, <4>3 DEF Close, VersionInv, PendingFits, Fits, Known
      <4>4. CASE j # i
        <5>1. saves'[j] = old[j]  BY <4>1, <4>4
        <5>2. QED
          BY <1>3, <5>1, <4>2, <2>1 DEF Close, VersionInv, SavesFit, Fits, Known, Stored
      <4>5. QED  BY <4>3, <4>4
    <3>3. QED  BY <3>1, <3>2
  <2>5. PendingFits' /\ CopiesKnown' /\ DraftKnown'
    BY <1>3 DEF Close, VersionInv, PendingFits, CopiesKnown, DraftKnown, Known
  <2>6. QED  BY <2>3, <2>4, <2>5 DEF VersionInv
<1>4. CASE Open
  <2>1. SavesFit' /\ RetryFits'
    BY <1>4 DEF Open, VersionInv, SavesFit, RetryFits, Fits, Known, Stored
  <2>2. PendingFits'
    BY <1>4 DEF Open, VersionInv, PendingFits, Fits
  <2>3. CopiesKnown' /\ DraftKnown'
    BY <1>4, ValueTypes DEF Open, VersionInv, CopiesKnown, DraftKnown, Known, TypeOK, Values
  <2>4. QED  BY <2>1, <2>2, <2>3 DEF VersionInv
<1>5. CASE Retry
  <2>1. toast.retry \in Payloads /\ Send(toast.retry) /\ Fits(toast.retry)
    BY <1>5 DEF Retry, TypeOK, VersionInv, RetryFits
  <2>2. SavesFit'
    BY <1>5, <2>1, SendFits DEF Retry, VersionInv
  <2>3. RetryFits'  BY <1>5, <2>1, SendFits DEF Retry, VersionInv
  <2>4. PendingFits' /\ CopiesKnown' /\ DraftKnown'
    BY <1>5 DEF Retry, VersionInv, PendingFits, CopiesKnown, DraftKnown, Fits, Known
  <2>5. QED  BY <2>2, <2>3, <2>4 DEF VersionInv
<1>6. CASE Reload
  BY <1>6
  DEF Reload, Asked, VersionInv, SavesFit, PendingFits, RetryFits, CopiesKnown, DraftKnown,
      Fits, Known, Stored
<1>7. CASE ListRenders
  <2>1. SavesFit' /\ RetryFits' /\ CopiesKnown' /\ DraftKnown'
    BY <1>7
    DEF ListRenders, VersionInv, SavesFit, RetryFits, CopiesKnown, DraftKnown, Fits, Known,
        Stored
  <2>2. PendingFits'
    <3>1. draft \in Values /\ latest \in Values /\ draft.over \in Nat  BY DEF TypeOK, Values
    <3>2. /\ mounted /\ mounted' /\ UNCHANGED <<carries, server, draft>> /\ PendingFits
          /\ AutosaveEffect(draft, baseline, latest, TRUE)
      BY <1>7 DEF ListRenders, VersionInv
    <3>3. Known(Body(draft, latest))  BY <3>1, <3>2, BodyKnown
    <3>4. QED  BY <3>1, <3>2, <3>3, EffectFits
  <2>3. QED  BY <2>1, <2>2 DEF VersionInv
<1>8. CASE TimerFires
  <2>1. pending \in Payloads /\ Send(pending) /\ Fits(pending)
    BY <1>8 DEF TimerFires, TypeOK, VersionInv, PendingFits
  <2>2. SavesFit'
    BY <1>8, <2>1, SendFits DEF TimerFires, VersionInv
  <2>3. RetryFits' /\ PendingFits'
    BY <1>8, <2>1, SendFits DEF TimerFires, PendingFits, VersionInv
  <2>4. CopiesKnown' /\ DraftKnown'
    BY <1>8 DEF TimerFires, VersionInv, CopiesKnown, DraftKnown, Known
  <2>5. QED  BY <2>2, <2>3, <2>4 DEF VersionInv
<1>9. ASSUME NEW i \in SaveIds, Patch(i) PROVE VersionInv'
  <2>1. /\ saves[i] \in Saves /\ Stored(i) \in Values
        /\ Stored(i).over = saves[i].body.over /\ Stored(i).version = saves[i].body.version + 1
    BY <1>9, StoredType DEF Patch
  <2>2. CASE saves[i].body.version # server.version
    <3>1. saves' = [saves EXCEPT ![i].out = "conflict"] /\ server' = server
      BY <1>9, <2>2 DEF Patch
    <3>2. SavesFit'
      BY <1>9, <3>1, <2>1
      DEF Patch, VersionInv, SavesFit, Fits, Known, Stored, TypeOK, Saves
    <3>3. PendingFits' /\ RetryFits' /\ CopiesKnown' /\ DraftKnown'
      BY <1>9, <3>1
      DEF Patch, VersionInv, PendingFits, RetryFits, CopiesKnown, DraftKnown, Fits, Known
    <3>4. QED  BY <3>2, <3>3 DEF VersionInv
  <2>3. CASE saves[i].body.version = server.version
    <3>1. saves' = [saves EXCEPT ![i].out = "saved"] /\ server' = Stored(i)
      BY <1>9, <2>3 DEF Patch
    <3>2. /\ server'.over = server.over
          /\ server'.version = server.version + 1
          /\ server.version \in Nat
          /\ server.over \in Nat
      BY <1>9, <2>1, <2>3, <3>1 DEF Patch, VersionInv, SavesFit, Fits, Known, TypeOK, Values
    <3>3. ASSUME NEW v \in Values, Known(v)
          PROVE  /\ v.over <= server'.over
                 /\ v.version <= server'.version
                 /\ v.version # server'.version
      BY <3>2, <3>3 DEF Known, Values
    <3>4. SavesFit'
      <4>1. SUFFICES ASSUME NEW j \in SaveIds, saves'[j] # None
                     PROVE  Fits(saves[j])' /\ (saves'[j].out = "saved" => Known(Stored(j))')
        BY DEF SavesFit
      <4>2. saves[j] # None /\ saves[j] \in Saves /\ Stored(j) \in Values
        BY <3>1, <4>1, <2>1, <1>9, StoredType DEF TypeOK, Patch
      <4>3. saves'[j].body = saves[j].body /\ saves'[j].live = saves[j].live
        BY <3>1, <4>2 DEF TypeOK, Saves
      <4>4. Fits(saves[j])'
        BY <1>9, <3>3, <4>2, <4>3 DEF Patch, VersionInv, SavesFit, Fits, Known, Saves
      <4>5. Stored(j)' = Stored(j)  BY <4>3 DEF Stored
      <4>6. CASE j = i
        BY <4>4, <4>5, <4>6, <3>1, <2>1 DEF Known, Values
      <4>7. CASE j # i
        <5>1. saves'[j] = saves[j]  BY <3>1, <4>7 DEF TypeOK
        <5>2. saves'[j].out = "saved" => Known(Stored(j))
          BY <5>1, <4>2 DEF VersionInv, SavesFit
        <5>3. QED  BY <4>4, <4>5, <5>2, <4>2, <3>3 DEF Known
      <4>8. QED  BY <4>6, <4>7
    <3>5. PendingFits' /\ RetryFits'
      BY <1>9, <3>3
      DEF Patch, VersionInv, PendingFits, RetryFits, Fits, Known, TypeOK, Payloads
    <3>6. CopiesKnown'
      BY <1>9, <3>3 DEF Patch, VersionInv, CopiesKnown, Known, TypeOK
    <3>7. DraftKnown'
      BY <1>9, <3>2, <3>3 DEF Patch, VersionInv, DraftKnown, Known, TypeOK
    <3>8. QED  BY <3>4, <3>5, <3>6, <3>7 DEF VersionInv
  <2>4. QED  BY <2>2, <2>3
<1>10. ASSUME NEW i \in SaveIds, Fault(i) PROVE VersionInv'
  <2>1. SavesFit'
    BY <1>10 DEF Fault, VersionInv, SavesFit, Fits, Known, Stored, TypeOK
  <2>2. RetryFits' /\ PendingFits' /\ CopiesKnown' /\ DraftKnown'
    BY <1>10
    DEF Fault, VersionInv, RetryFits, PendingFits, CopiesKnown, DraftKnown, Fits, Known
  <2>3. QED  BY <2>1, <2>2 DEF VersionInv
<1>11. ASSUME NEW i \in SaveIds, Answer(i) PROVE VersionInv'
  <2>1. /\ RetryFits'
        /\ saves' = [saves EXCEPT ![i] = None]
        /\ UNCHANGED <<server, cached, carries, mounted>>
    BY <1>11 DEF Answer, RetryFits
  <2>2. CASE ~saves[i].live
    <3>1. SavesFit' /\ PendingFits' /\ CopiesKnown' /\ DraftKnown'
      BY <1>11, <2>1, <2>2
      DEF Answer, VersionInv, SavesFit, PendingFits, CopiesKnown, DraftKnown, Fits, Known,
          Stored, Asked, TypeOK
    <3>2. QED  BY <2>1, <3>1 DEF VersionInv
  <2>3. CASE saves[i].live
    <3> DEFINE v == Stored(i)
    <3>1. /\ Accept(v) /\ v \in Values /\ Known(v) /\ v.over <= draft.over /\ mounted
          /\ draft \in Values /\ draft.over \in Nat /\ v.over \in Nat
      BY <1>11, <2>3, StoredType DEF Answer, VersionInv, SavesFit, Fits, TypeOK, Values
    <3>2. /\ draft' \in Values /\ draft'.over = draft.over /\ latest' = v
          /\ carries => draft'.version = v.version
      <4>1. CASE Same(draft, v)  BY <3>1, <4>1, ValueTypes, SameFields DEF Accept
      <4>2. CASE ~Same(draft, v)
        <5>1. draft' = IF carries THEN [draft EXCEPT !.version = v.version] ELSE draft
          BY <3>1, <4>2 DEF Accept
        <5>2. QED  BY <3>1, <5>1 DEF Values, Accept
      <4>3. QED  BY <4>1, <4>2
    <3>3. DraftKnown'
      BY <2>1, <3>1, <3>2 DEF VersionInv, DraftKnown, Known, TypeOK, Values
    <3>4. CopiesKnown'
      BY <1>11, <2>1, <3>1, <3>2 DEF Answer, VersionInv, CopiesKnown, Known, Asked
    <3>5. SavesFit'
      BY <2>1, <3>1, <3>2 DEF VersionInv, SavesFit, Fits, Known, Stored, TypeOK
    <3>6. PendingFits'
      <4>1. AutosaveEffect(draft', baseline', v, carries \/ ~Dirty)  BY <3>1 DEF Accept
      <4>2. Known(Body(draft', v))
        <5>1. draft'.over <= server.over  BY <3>1, <3>2 DEF VersionInv, DraftKnown
        <5>2. CASE carries  BY <3>1, <3>2, <5>1, <5>2 DEF Body, Known, TypeOK, Values
        <5>3. CASE ~carries
          <6>1. Body(draft', v).over = draft'.over /\ Body(draft', v).version = v.version
            BY <3>1, <3>2, <5>3, ValueTypes
          <6>2. QED  BY <3>1, <3>2, <5>1, <6>1 DEF Known, TypeOK, Values
        <5>4. QED  BY <5>2, <5>3
      <4>3. PendingFits  BY DEF VersionInv
      <4>4. QED  BY <2>1, <3>1, <3>2, <4>1, <4>2, <4>3, EffectFits
    <3>7. QED  BY <2>1, <3>3, <3>4, <3>5, <3>6 DEF VersionInv
  <2>4. QED  BY <2>2, <2>3
<1>12. ASSUME NEW i \in SaveIds, Refusal(i) PROVE VersionInv'
  <2>1. SavesFit'
    BY <1>12 DEF Refusal, VersionInv, SavesFit, Fits, Known, Stored, TypeOK
  <2>2. RetryFits'
    BY <1>12 DEF Refusal, VersionInv, SavesFit, RetryFits, Fits, Known
  <2>3. PendingFits' /\ CopiesKnown' /\ DraftKnown'
    BY <1>12 DEF Refusal, VersionInv, PendingFits, CopiesKnown, DraftKnown, Fits, Known
  <2>4. QED  BY <2>1, <2>2, <2>3 DEF VersionInv
<1>13. CASE ForeignPatch
  <2>1. /\ server'.over = server.over + 1
        /\ server'.version = server.version + 1
        /\ server.over \in Nat
        /\ server.version \in Nat
    BY <1>13 DEF ForeignPatch, TypeOK, Values
  <2>2. ASSUME NEW v \in Values, Known(v)
        PROVE  v.over <= server'.over /\ v.version <= server'.version /\ v.version # server'.version
    BY <2>1, <2>2 DEF Known, Values
  <2>3. SavesFit'
    <3> SUFFICES ASSUME NEW i \in SaveIds, saves'[i] # None
                 PROVE  Fits(saves[i])' /\ (saves'[i].out = "saved" => Known(Stored(i))')
      BY DEF SavesFit
    <3>1. saves' = saves /\ mounted' = mounted /\ draft' = draft
      BY <1>13 DEF ForeignPatch, form
    <3>2. saves[i] # None /\ saves[i].body \in Values /\ Stored(i) \in Values
      BY <3>1, StoredType DEF TypeOK, Saves
    <3>3. Fits(saves[i]) /\ (saves[i].out = "saved" => Known(Stored(i)))
      BY <3>2 DEF VersionInv, SavesFit
    <3>4. Fits(saves[i])'
      BY <2>2, <3>1, <3>2, <3>3 DEF Fits, Known
    <3>5. Stored(i)' = Stored(i)
      BY <3>1 DEF Stored
    <3>6. saves'[i].out = "saved" => Known(Stored(i))'
      BY <2>2, <3>1, <3>2, <3>3, <3>5 DEF Known
    <3> QED
      BY <3>4, <3>6
  <2>4. PendingFits' /\ RetryFits'
    BY <1>13, <2>2
    DEF ForeignPatch, VersionInv, PendingFits, RetryFits, Fits, Known, TypeOK, Payloads
  <2>5. CopiesKnown'
    BY <1>13, <2>2 DEF ForeignPatch, VersionInv, CopiesKnown, Known, TypeOK
  <2>6. DraftKnown'
    BY <1>13, <2>1, <2>2 DEF ForeignPatch, VersionInv, DraftKnown, Known, TypeOK, Values
  <2>7. QED  BY <2>3, <2>4, <2>5, <2>6 DEF VersionInv
<1>14. CASE FetchReads
  <2>1. CopiesKnown'
    <3>1. fetch'.value = server /\ server.over \in Nat /\ server.version \in Nat
      BY <1>14 DEF FetchReads, TypeOK, Values
    <3>2. QED  BY <1>14, <3>1 DEF FetchReads, VersionInv, CopiesKnown, DraftKnown, Known
  <2>2. SavesFit' /\ RetryFits' /\ PendingFits' /\ DraftKnown'
    BY <1>14
    DEF FetchReads, VersionInv, SavesFit, RetryFits, PendingFits, DraftKnown, Fits, Known,
        Stored
  <2>3. QED  BY <2>1, <2>2 DEF VersionInv
<1>15. CASE FetchArrives
  <2>1. /\ fetch.value \in Values
        /\ cached' = fetch.value
        /\ fetch'.state = "idle"
        /\ Known(fetch.value)
    BY <1>15 DEF FetchArrives, Idle, TypeOK, VersionInv, CopiesKnown
  <2>2. SavesFit' /\ RetryFits' /\ PendingFits' /\ CopiesKnown' /\ DraftKnown'
    <3>1. CASE UNCHANGED <<draft, baseline, latest, pending>>
      BY <1>15, <2>1, <3>1
      DEF FetchArrives, VersionInv, SavesFit, RetryFits, PendingFits, CopiesKnown,
          DraftKnown, Fits, Known, Stored
    <3>2. CASE mounted /\ Dirty /\ Adopt(cached')
      <4>1. /\ UNCHANGED <<draft, baseline, latest>>
            /\ AutosaveEffect(draft, baseline, latest, ~carries)
        BY <3>2 DEF Adopt
      <4>2. SavesFit' /\ RetryFits' /\ CopiesKnown' /\ DraftKnown'
        BY <1>15, <2>1, <4>1
        DEF FetchArrives, VersionInv, SavesFit, RetryFits, CopiesKnown, DraftKnown, Fits,
            Known, Stored
      <4>3. PendingFits'
        <5>1. draft \in Values /\ latest \in Values /\ draft.over \in Nat
          BY DEF TypeOK, Values
        <5>2. mounted /\ mounted' /\ UNCHANGED <<carries, server>> /\ PendingFits
          BY <1>15, <3>2 DEF FetchArrives, VersionInv
        <5>3. Known(Body(draft, latest))  BY <5>1, <5>2, BodyKnown
        <5>4. QED  BY <4>1, <5>1, <5>2, <5>3, EffectFits
      <4>4. QED  BY <4>2, <4>3
    <3>3. CASE mounted /\ ~Dirty /\ Adopt(cached')
      <4>1. latest' = fetch.value /\ draft' = ToDraft(fetch.value) /\ UNCHANGED pending
        BY <3>3, <2>1 DEF Adopt
      <4>2. /\ draft.over <= draft'.over
            /\ draft'.over = fetch.value.over
            /\ (carries => draft' = fetch.value)
        BY <1>15, <3>3, <4>1, <2>1, ValueTypes DEF FetchArrives, VersionInv, CopiesKnown
      <4>3. CopiesKnown' /\ DraftKnown'
        BY <1>15, <2>1, <4>1, <4>2
        DEF FetchArrives, VersionInv, CopiesKnown, DraftKnown, Known, Values
      <4>4. ASSUME NEW p \in Payloads \cup Saves, Fits(p)
            PROVE  p.body.over <= draft'.over \/ ~p.live
        BY <3>3, <4>2, <4>4, <2>1 DEF Fits, Payloads, Saves, Values, TypeOK
      <4>5. SavesFit' /\ RetryFits' /\ PendingFits'
        BY <1>15, <4>1, <4>4
        DEF FetchArrives, VersionInv, SavesFit, RetryFits, PendingFits, Fits, Known,
            Stored, TypeOK
      <4>6. QED  BY <4>3, <4>5
    <3>4. QED  BY <1>15, <3>1, <3>2, <3>3 DEF FetchArrives
  <2>3. QED  BY <2>2 DEF VersionInv
<1>16. CASE UNCHANGED vars
  BY <1>16
  DEF vars, VersionInv, SavesFit, PendingFits, RetryFits, CopiesKnown, DraftKnown, Fits,
      Known, Stored
<1>17. QED
  BY <1>1, <1>2, <1>3, <1>4, <1>5, <1>6, <1>7, <1>8, <1>9, <1>10, <1>11, <1>12, <1>13,
     <1>14, <1>15, <1>16
  DEF Next

-----------------------------------------------------------------------------
(***************************************************************************)
(* Texts.  The newest text is wanted unless its save was refused or the    *)
(* user took it back.                                                      *)
(***************************************************************************)
Wanted == edits \notin refused \cup undone

\* A copy of the row: it has the newest text only if the row has it.
Copy(v) == /\ v.text <= edits /\ v.ok
           /\ Wanted /\ v.text = edits => server.text = edits

\* A body to be sent: it replaces the newest text in the row by itself only.
Sendable(b) == /\ b.text <= edits /\ b.ok
               /\ Wanted /\ server.text = edits /\ b.version = server.version => b.text = edits

\* What is under way, pending, offered by the toast, copied and shown.
SavesText == \A i \in SaveIds : saves[i] # None =>
               Sendable(saves[i].body) /\ (saves[i].out = "saved" => Copy(Stored(i)))
PendingText == pending # None => Sendable(pending.body) /\ (Wanted => pending.body.text = edits)
RetryText == toast.retry # None => Sendable(toast.retry.body)
CopiesText == /\ Copy(server) /\ Copy(cached) /\ Copy(baseline)
              /\ fetch.state = "read" =>
                   /\ Copy(fetch.value)
                   /\ Wanted /\ (baseline.text = edits \/ cached.text = edits) => fetch.value.text = edits
DraftText == /\ mounted => draft.text <= edits /\ (draft.ok \/ draft.text \in undone)
             /\ \A t \in refused \cup undone : t <= edits
\* A save of the newest text that the row does not have yet.
Waits(i) == saves[i] # None /\ saves[i].out # "saved" /\ saves[i].body.text = edits
\* The newest text is pending, under way or stored.
Accounted == Wanted => pending # None \/ (\E i \in SaveIds : Waits(i)) \/ server.text = edits
\* The form shows what the list gave it, and nothing can change it but the list.
Untouched == /\ ~Dirty /\ pending = None
             /\ \A i \in SaveIds : saves[i] # None => ~saves[i].live
             /\ toast.retry # None => ~toast.retry.live
\* An open form shows the newest text, or nobody typed into it yet.
Shown == Wanted /\ mounted => draft.text = edits \/ Untouched

TextInv == SavesText /\ PendingText /\ RetryText /\ CopiesText /\ DraftText /\ Accounted /\ Shown

\* Numbers and values.
LEMMA NatFacts ==
  ASSUME TypeOK
  PROVE  /\ edits \in Nat
         /\ \A v \in Values : v.text \in Nat /\ v.version \in Nat /\ v.over \in Nat /\ v.ok \in BOOLEAN
         /\ {server, cached, draft, baseline, latest, fetch.value} \subseteq Values
BY DEF TypeOK, Values

\* What holds of a value stays true while nothing is typed and the newest
\* text, once stored, stays.
LEMMA CopyKept ==
  ASSUME edits' = edits, Wanted' => Wanted, Wanted' /\ server.text = edits => server'.text = edits,
         NEW v, Copy(v)
  PROVE  Copy(v)'
BY DEF Copy

\* The autosave schedules nothing but the newest text, and cancels only a text
\* that the user left incomplete.
LEMMA EffectText ==
  ASSUME TypeOK, NEW d \in Values, NEW b, NEW l \in Values, NEW c, AutosaveEffect(d, b, l, c),
         edits' = edits, Wanted' => Wanted, server' = server, carries' = carries,
         d.text <= edits, d.ok \/ d.text \in undone, undone' = undone,
         ~Same(d, b) /\ Wanted => d.text = edits,
         PendingText, Accounted,
         UNCHANGED saves \/ \A i \in SaveIds : Waits(i) => Waits(i)'
  PROVE  PendingText' /\ Accounted'
<1>1. CASE pending' = pending
  <2>1. PendingText'  BY <1>1 DEF PendingText, Sendable
  <2>2. Accounted'  BY <1>1 DEF Accounted, Waits
  <2>3. QED  BY <2>1, <2>2
<1>2. CASE ~Same(d, b) /\ ~d.ok /\ pending' = None
  <2>1. ~Wanted'  BY <1>2 DEF Wanted
  <2>2. QED  BY <1>2, <2>1 DEF PendingText, Accounted
<1>3. CASE ~Same(d, b) /\ d.ok /\ pending' = [body |-> Body(d, l), live |-> TRUE]
  <2>1. pending' # None
    <3>1. [body |-> Body(d, l), live |-> TRUE] \in Payloads  BY ValueTypes DEF Payloads
    <3>2. QED  BY <1>3, <3>1
  <2>2. pending'.body.text = d.text /\ pending'.body.ok  BY <1>3, ValueTypes
  <2>3. PendingText'  BY <1>3, <2>2 DEF PendingText, Sendable
  <2>4. QED  BY <2>1, <2>3 DEF Accounted
<1>4. QED  BY <1>1, <1>2, <1>3, EffectCases

\* A request with a sendable body keeps the saves sendable and awaited.
LEMMA SendText ==
  ASSUME TypeOK, SavesText, NEW p \in Payloads, Send(p), Sendable(p.body),
         UNCHANGED <<server, edits>>, Wanted' = Wanted
  PROVE  SavesText' /\ RetryText' /\ (\A j \in SaveIds : Waits(j) => Waits(j)')
<1>1. PICK i \in SaveIds : /\ saves[i] = None
                           /\ saves' = [saves EXCEPT ![i] = [body |-> p.body, live |-> p.live,
                                                             out |-> "sent"]]
  BY SendCases
<1>2. toast' = [message |-> "loading", retry |-> None]  BY SendCases
<1>3. \A j \in SaveIds : j # i => saves'[j] = saves[j]  BY <1>1 DEF TypeOK
<1>4. saves'[i].body = p.body /\ saves'[i].out = "sent"  BY <1>1 DEF TypeOK
<1>5. SavesText'
  <2>1. SUFFICES ASSUME NEW j \in SaveIds, saves'[j] # None
                 PROVE  Sendable(saves[j].body)' /\ (saves'[j].out = "saved" => Copy(Stored(j))')
    BY DEF SavesText
  <2>2. CASE j = i  BY <1>4, <2>2 DEF Sendable
  <2>3. CASE j # i
    <3>1. saves'[j] = saves[j]  BY <1>3, <2>3
    <3>2. QED  BY <2>1, <3>1 DEF SavesText, Sendable, Copy, Stored
  <2>4. QED  BY <2>2, <2>3
<1>6. \A j \in SaveIds : Waits(j) => Waits(j)'  BY <1>1, <1>3 DEF Waits
<1>7. QED  BY <1>2, <1>5, <1>6 DEF RetryText

\* No step loses the newest text.
LEMMA TextStep == TypeOK /\ VersionInv /\ TextInv /\ [Next]_vars => TextInv'
<1> SUFFICES ASSUME TypeOK, VersionInv, TextInv, [Next]_vars PROVE TextInv'
  OBVIOUS
<1> USE DEF form, query, bounds, history
<1>1. ASSUME NEW ok \in BOOLEAN, Edit(ok) PROVE TextInv'
  <2> DEFINE d == [draft EXCEPT !.text = edits + 1, !.ok = ok]
  <2>1. d \in Values /\ d.text = edits + 1 /\ d.ok = ok /\ draft' = d
    <3>1. draft \in Values /\ edits + 1 \in Nat  BY DEF TypeOK
    <3>2. d \in Values  BY <3>1, Retyped
    <3>3. d.text = edits + 1 /\ d.ok = ok  BY <3>1 DEF Values
    <3>4. QED  BY <1>1, <3>2, <3>3 DEF Edit
  <2>2. /\ edits' = edits + 1 /\ edits \in Nat /\ mounted
        /\ UNCHANGED <<server, cached, fetch, baseline, saves, toast, carries, refused, mounted>>
        /\ undone' = IF ok THEN undone ELSE undone \cup {edits + 1}
    BY <1>1, NatFacts DEF Edit
  <2>3. \A v \in Values : v.text <= edits => v.text <= edits' /\ v.text # edits'
    BY <2>2 DEF Values
  <2>4. ASSUME NEW v \in Values, Copy(v) PROVE Copy(v)'
    BY <2>3, <2>4 DEF Copy
  <2>5. server.text # edits'  BY <2>3, NatFacts DEF TextInv, CopiesText, Copy
  <2>6. ASSUME NEW v \in Values, Sendable(v) PROVE Sendable(v)'
    BY <2>2, <2>3, <2>5, <2>6 DEF Sendable
  <2>7. SavesText'
    <3>1. SUFFICES ASSUME NEW i \in SaveIds, saves[i] # None
                   PROVE  Sendable(saves[i].body)' /\ (saves[i].out = "saved" => Copy(Stored(i))')
      BY <2>2 DEF SavesText, Stored
    <3>2. saves[i].body \in Values /\ Stored(i) \in Values  BY <3>1, StoredType DEF Saves
    <3>3. Sendable(saves[i].body) /\ (saves[i].out = "saved" => Copy(Stored(i)))
      BY <3>1 DEF TextInv, SavesText
    <3>4. Stored(i)' = Stored(i)  BY <2>2 DEF Stored
    <3>5. QED  BY <2>2, <2>4, <2>6, <3>2, <3>3, <3>4
  <2>8. RetryText'
    BY <2>2, <2>6 DEF TextInv, RetryText, TypeOK, Payloads
  <2>9. CopiesText'
    <3>1. /\ Copy(server)'
          /\ Copy(cached)'
          /\ Copy(baseline)'
          /\ (fetch.state = "read" => Copy(fetch.value)')
      BY <2>2, <2>4, NatFacts DEF TextInv, CopiesText
    <3>2. baseline.text # edits' /\ cached.text # edits'
      BY <2>3, NatFacts DEF TextInv, CopiesText, Copy
    <3>3. QED  BY <2>2, <3>1, <3>2 DEF CopiesText
  <2>10. DraftText'
    BY <2>1, <2>2 DEF TextInv, DraftText, TypeOK
  <2>11. Shown'  BY <2>1, <2>2 DEF Shown
  <2>12. ~Same(d, baseline)
    BY <2>1, <2>2, <2>3, SameFields, NatFacts DEF TextInv, CopiesText, Copy
  <2>13. pending' = IF ok THEN [body |-> Body(d, latest), live |-> TRUE] ELSE None
    BY <1>1, <2>1, <2>12 DEF Edit, AutosaveEffect, Schedule
  <2>14. PendingText' /\ Accounted'
    <3>1. CASE ok
      <4>1. /\ [body |-> Body(d, latest), live |-> TRUE] \in Payloads
            /\ Body(d, latest).text = edits' /\ Body(d, latest).ok = TRUE
        <5>1. d \in Values /\ latest \in Values /\ d.text = edits' /\ d.ok = TRUE
          BY <2>1, <2>2, <3>1, NatFacts
        <5>2. /\ Body(d, latest) \in Values
              /\ Body(d, latest).text = d.text /\ Body(d, latest).ok = d.ok
          BY <5>1, ValueTypes
        <5>3. QED  BY <5>1, <5>2 DEF Payloads
      <4>2. pending' # None /\ pending'.body = Body(d, latest)  BY <2>13, <3>1, <4>1
      <4>3. QED  BY <4>1, <4>2, <2>2 DEF PendingText, Accounted, Sendable
    <3>2. CASE ~ok
      <4>1. ~Wanted'  BY <2>2, <3>2 DEF Wanted
      <4>2. QED  BY <2>13, <3>2, <4>1 DEF PendingText, Accounted
    <3>3. QED  BY <3>1, <3>2
  <2>15. QED  BY <2>7, <2>8, <2>9, <2>10, <2>11, <2>14 DEF TextInv
<1>2. CASE Undo
  <2> DEFINE d == [draft EXCEPT !.text = baseline.text, !.ok = baseline.ok]
  <2>1. d \in Values /\ d.text = baseline.text /\ d.ok = baseline.ok /\ draft' = d
    <3>1. draft \in Values /\ baseline.text \in Nat /\ baseline.ok \in BOOLEAN  BY NatFacts
    <3>2. d \in Values  BY <3>1, Retyped
    <3>3. d.text = baseline.text /\ d.ok = baseline.ok  BY <3>1 DEF Values
    <3>4. QED  BY <1>2, <3>2, <3>3 DEF Undo
  <2>2. /\ mounted /\ Dirty /\ undone' = undone \cup {draft.text}
        /\ UNCHANGED <<server, cached, fetch, baseline, saves, toast, carries, refused, mounted,
                       edits>>
    BY <1>2 DEF Undo
  <2>3. ~Wanted'
    BY <2>2 DEF TextInv, Shown, Untouched, Wanted
  <2>4. SavesText' /\ RetryText' /\ CopiesText'
    BY <2>2, <2>3 DEF TextInv, SavesText, RetryText, CopiesText, Copy, Sendable, Stored
  <2>5. DraftText'
    BY <2>1, <2>2 DEF TextInv, DraftText, CopiesText, Copy
  <2>6. PendingText'
    <3>1. AutosaveEffect(d, baseline, latest, TRUE)  BY <1>2 DEF Undo
    <3>2. pending' = pending \/ pending' = None \/ (d.ok /\ pending' = [body |-> Body(d, latest),
                                                                        live |-> TRUE])
      BY <3>1, EffectCases
    <3>3. Body(d, latest).text = baseline.text /\ Body(d, latest).ok = baseline.ok
      BY <2>1, ValueTypes, NatFacts
    <3>4. CASE pending' = pending  BY <2>2, <2>3, <3>4 DEF TextInv, PendingText, Sendable
    <3>5. CASE pending' = None  BY <3>5 DEF PendingText
    <3>6. CASE d.ok /\ pending' = [body |-> Body(d, latest), live |-> TRUE]
      <4>1. pending'.body = Body(d, latest)  BY <3>6
      <4>2. baseline.text <= edits /\ baseline.ok  BY DEF TextInv, CopiesText, Copy
      <4>3. QED  BY <2>2, <2>3, <3>3, <4>1, <4>2 DEF PendingText, Sendable
    <3>7. QED  BY <3>2, <3>4, <3>5, <3>6
  <2>7. QED  BY <2>3, <2>4, <2>5, <2>6 DEF TextInv, Accounted, Shown
<1>3. CASE Close
  <2> DEFINE old == [i \in SaveIds |-> IF saves[i] = None THEN None
                                       ELSE [saves[i] EXCEPT !.live = FALSE]]
  <2>1. \A i \in SaveIds : saves[i] # None =>
          LET s == [saves[i] EXCEPT !.live = FALSE]
          IN  s \in Saves /\ s.body = saves[i].body /\ s.out = saves[i].out
    BY DEF TypeOK, Saves
  <2>2. /\ UNCHANGED <<server, cached, fetch, carries, edits, refused, undone>>
        /\ mounted' = FALSE
        /\ pending' = None
    BY <1>3 DEF Close
  <2>3. Wanted' = Wanted  BY <2>2 DEF Wanted
  <2>4. old \in [SaveIds -> Saves \cup {None}] /\ \A i \in SaveIds : old[i] # None <=> saves[i] # None
    BY <2>1 DEF TypeOK
  <2>5. pending # None =>
          \E i \in SaveIds : /\ saves[i] = None
                             /\ saves' = [old EXCEPT ![i] = [body |-> pending.body, live |-> FALSE,
                                                             out |-> "sent"]]
                             /\ [body |-> pending.body, live |-> FALSE, out |-> "sent"] \in Saves
    BY <1>3 DEF Close, Free, TypeOK, Payloads, Saves, Outcomes
  <2>6. SavesText' /\ Accounted'
    <3>1. CASE pending = None
      <4>1. saves' = old  BY <1>3, <3>1 DEF Close
      <4>2. \A i \in SaveIds : saves'[i] # None => /\ saves[i] # None /\ saves'[i].body = saves[i].body
                                                   /\ saves'[i].out = saves[i].out
                                                   /\ Stored(i)' = Stored(i)
        BY <4>1, <2>1 DEF Stored
      <4>3. SavesText'  BY <4>2, <2>2, <2>3 DEF TextInv, SavesText, Sendable, Copy
      <4>4. \A i \in SaveIds : Waits(i) => Waits(i)'  BY <4>1, <2>1, <2>2 DEF Waits
      <4>5. Accounted'  BY <3>1, <4>4, <2>2, <2>3 DEF TextInv, Accounted
      <4>6. QED  BY <4>3, <4>5
    <3>2. CASE pending # None
      <4>1. PICK i \in SaveIds :
              /\ saves[i] = None
              /\ saves' = [old EXCEPT ![i] = [body |-> pending.body, live |-> FALSE,
                                              out |-> "sent"]]
              /\ [body |-> pending.body, live |-> FALSE, out |-> "sent"] \in Saves
        BY <3>2, <2>5
      <4>2. \A j \in SaveIds \ {i} : saves'[j] # None =>
              /\ saves[j] # None /\ saves'[j].body = saves[j].body
              /\ saves'[j].out = saves[j].out /\ Stored(j)' = Stored(j)
        BY <4>1, <2>1 DEF Stored
      <4>3. PICK b : b = pending.body  OBVIOUS
      <4>4. saves'[i].body = b /\ saves'[i].out = "sent" /\ saves'[i] # None
        BY <4>1, <4>3
      <4>5. Sendable(b) /\ (Wanted => b.text = edits)
        BY <3>2, <4>3 DEF TextInv, PendingText
      <4>6. Sendable(b)'  BY <4>5, <2>2, <2>3 DEF Sendable
      <4>7. SavesText'
        <5>1. SUFFICES ASSUME NEW j \in SaveIds, saves'[j] # None
                       PROVE  /\ Sendable(saves[j].body)'
                              /\ (saves'[j].out = "saved" => Copy(Stored(j))')
          BY DEF SavesText
        <5>2. CASE j = i  BY <4>4, <4>6, <5>2 DEF Sendable
        <5>3. CASE j # i
          <6>1. j \in SaveIds \ {i}  BY <5>3
          <6>2. /\ saves[j] # None /\ saves'[j].body = saves[j].body
                /\ saves'[j].out = saves[j].out /\ Stored(j)' = Stored(j)
            BY <4>2, <5>1, <6>1
          <6>3. QED  BY <6>2, <2>2, <2>3 DEF TextInv, SavesText, Sendable, Copy
        <5>4. QED  BY <5>2, <5>3
      <4>8. Wanted' => Waits(i)'
        BY <4>4, <4>5, <2>2, <2>3 DEF Waits
      <4>9. QED  BY <4>7, <4>8 DEF Accounted
    <3>3. QED  BY <3>1, <3>2
  <2>7. RetryText'
    <3>1. CASE pending # None  BY <1>3, <3>1 DEF Close, RetryText
    <3>2. CASE pending = None
      <4>1. toast'.retry = IF toast.retry = None THEN None ELSE [toast.retry EXCEPT !.live = FALSE]
        BY <1>3, <3>2 DEF Close, TypeOK
      <4>2. toast.retry # None => [toast.retry EXCEPT !.live = FALSE].body = toast.retry.body
        BY DEF TypeOK, Payloads
      <4>3. QED  BY <4>1, <4>2, <2>2, <2>3 DEF TextInv, RetryText, Sendable
    <3>3. QED  BY <3>1, <3>2
  <2>8. CopiesText'
    <3>1. baseline' = First /\ First.text = 0 /\ First.ok  BY <1>3 DEF Close, First
    <3>2. 0 <= edits /\ server.text \in Nat /\ fetch.value.text \in Nat /\ edits \in Nat
      BY NatFacts
    <3>3. server.text <= edits /\ (fetch.state = "read" => fetch.value.text <= edits)
      BY DEF TextInv, CopiesText, Copy
    <3>4. Copy(baseline)'  BY <2>2, <3>1, <3>2, <3>3 DEF Copy
    <3>5. QED  BY <2>2, <2>3, <3>1, <3>2, <3>3, <3>4 DEF TextInv, CopiesText, Copy
  <2>9. DraftText' /\ Shown' /\ PendingText'
    BY <2>2 DEF TextInv, DraftText, Shown, PendingText
  <2>10. QED  BY <2>6, <2>7, <2>8, <2>9 DEF TextInv
<1>4. CASE Open
  <2>1. /\ ~mounted
        /\ UNCHANGED <<server, cached, fetch, pending, saves, toast, carries, refused, undone,
                       edits>>
        /\ draft' = ToDraft(cached) /\ baseline' = ToDraft(cached)
    BY <1>4 DEF Open
  <2>2. Wanted' = Wanted  BY <2>1 DEF Wanted
  <2>3. ToDraft(cached).text = cached.text /\ ToDraft(cached).ok = cached.ok
    BY ValueTypes, NatFacts
  <2>4. SavesText' /\ PendingText' /\ RetryText' /\ Accounted'
    BY <2>1, <2>2
    DEF TextInv, SavesText, PendingText, RetryText, Accounted, Sendable, Copy, Stored,
        Waits
  <2>5. CopiesText' /\ DraftText'
    BY <2>1, <2>2, <2>3 DEF TextInv, CopiesText, DraftText, Copy
  <2>6. Untouched'
    BY <2>1 DEF VersionInv, SavesFit, PendingFits, RetryFits, Fits, Untouched, Dirty, Same
  <2>7. QED  BY <2>4, <2>5, <2>6 DEF TextInv, Shown
<1>5. CASE Retry
  <2>1. /\ toast.retry \in Payloads /\ Send(toast.retry) /\ toast.retry # None
        /\ UNCHANGED <<server, cached, fetch, draft, baseline, pending, carries, refused, undone,
                       edits, mounted>>
    BY <1>5 DEF Retry, TypeOK
  <2>2. Wanted' = Wanted  BY <2>1 DEF Wanted
  <2>3. Sendable(toast.retry.body)  BY <2>1 DEF TextInv, RetryText
  <2>4. SavesText' /\ RetryText' /\ (\A j \in SaveIds : Waits(j) => Waits(j)')
    BY <2>1, <2>2, <2>3, SendText DEF TextInv
  <2>5. CopiesText' /\ DraftText' /\ PendingText' /\ Accounted'
    BY <2>1, <2>2, <2>4
    DEF TextInv, CopiesText, DraftText, PendingText, Accounted, Sendable, Copy
  <2>6. Shown'
    <3>1. PICK i \in SaveIds : saves' = [saves EXCEPT ![i] = [body |-> toast.retry.body,
                                                              live |-> toast.retry.live, out |-> "sent"]]
      BY <2>1, SendCases
    <3>2. toast' = [message |-> "loading", retry |-> None]  BY <2>1, SendCases
    <3>3. ASSUME Untouched PROVE Untouched'
      <4>1. \A j \in SaveIds : saves'[j] # None => ~saves'[j].live
        BY <2>1, <3>1, <3>3 DEF Untouched, TypeOK
      <4>2. toast'.retry = None  BY <3>2
      <4>3. QED  BY <2>1, <3>3, <4>1, <4>2 DEF Untouched, Dirty, Same
    <3>4. QED  BY <2>1, <2>2, <3>3 DEF TextInv, Shown
  <2>7. QED  BY <2>4, <2>5, <2>6 DEF TextInv
<1>6. CASE Reload
  <2>1. /\ UNCHANGED <<server, cached, form, saves, toast, carries, refused, undone, edits>>
        /\ fetch'.state = "asked"
    BY <1>6 DEF Reload, Asked
  <2>2. QED
    BY <2>1
    DEF TextInv, SavesText, PendingText, RetryText, CopiesText, DraftText, Accounted,
        Shown, Untouched,
                Dirty, Sendable, Copy, Stored, Waits, Wanted, Same
<1>7. CASE ListRenders
  <2>1. /\ UNCHANGED <<server, cached, fetch, draft, baseline, saves, toast, carries, refused,
                       undone, edits, mounted>>
        /\ mounted /\ AutosaveEffect(draft, baseline, latest, TRUE)
    BY <1>7 DEF ListRenders
  <2>2. Wanted' = Wanted  BY <2>1 DEF Wanted
  <2>3. SavesText' /\ RetryText' /\ CopiesText' /\ DraftText'
    BY <2>1, <2>2
    DEF TextInv, SavesText, RetryText, CopiesText, DraftText, Sendable, Copy, Stored
  <2>4. PendingText' /\ Accounted'
    <3>1. draft.text <= edits /\ (draft.ok \/ draft.text \in undone)
      BY <2>1 DEF TextInv, DraftText
    <3>2. ~Same(draft, baseline) /\ Wanted => draft.text = edits
      BY <2>1 DEF TextInv, Shown, Untouched, Dirty
    <3>3. PendingText /\ Accounted  BY DEF TextInv
    <3>4. QED  BY <2>1, <2>2, <3>1, <3>2, <3>3, EffectText, NatFacts
  <2>5. Shown'
    <3>1. Same(draft, baseline) => pending' = pending  BY <2>1, EffectCases
    <3>2. QED  BY <2>1, <2>2, <3>1 DEF TextInv, Shown, Untouched, Dirty, Same
  <2>6. QED  BY <2>3, <2>4, <2>5 DEF TextInv
<1>8. CASE TimerFires
  <2>1. /\ pending \in Payloads /\ Send(pending) /\ pending # None /\ pending' = None
        /\ UNCHANGED <<server, cached, fetch, draft, baseline, carries, refused, undone, edits,
                       mounted>>
    BY <1>8 DEF TimerFires, TypeOK
  <2>2. Wanted' = Wanted  BY <2>1 DEF Wanted
  <2>3. Sendable(pending.body) /\ (Wanted => pending.body.text = edits)
    BY <2>1 DEF TextInv, PendingText
  <2>4. SavesText' /\ RetryText'
    BY <2>1, <2>2, <2>3, SendText DEF TextInv
  <2>5. Accounted'
    <3>1. PICK i \in SaveIds : saves' = [saves EXCEPT ![i] = [body |-> pending.body,
                                                              live |-> pending.live, out |-> "sent"]]
                               /\ [body |-> pending.body, live |-> pending.live,
                                   out |-> "sent"] \in Saves
      BY <2>1, SendCases
    <3>2. Wanted => Waits(i)'  BY <2>1, <2>3, <3>1 DEF Waits, TypeOK
    <3>3. QED  BY <2>2, <3>2 DEF Accounted
  <2>6. Shown'  BY <2>1, <2>2 DEF TextInv, Shown, Untouched
  <2>7. CopiesText' /\ DraftText' /\ PendingText'
    BY <2>1, <2>2 DEF TextInv, CopiesText, DraftText, PendingText, Copy
  <2>8. QED  BY <2>4, <2>5, <2>6, <2>7 DEF TextInv
<1>9. ASSUME NEW i \in SaveIds, Patch(i) PROVE TextInv'
  <2>1. /\ saves[i] # None /\ saves[i] \in Saves /\ Stored(i) \in Values /\ saves[i].out = "sent"
        /\ Stored(i).text = saves[i].body.text /\ Stored(i).ok = saves[i].body.ok
        /\ Stored(i).version = saves[i].body.version + 1
        /\ UNCHANGED <<cached, fetch, draft, baseline, pending, toast, carries, refused, undone,
                       edits, mounted>>
    BY <1>9, StoredType DEF Patch
  <2>2. Wanted' = Wanted  BY <2>1 DEF Wanted
  <2>3. \E o \in {"saved", "conflict"} : saves' = [saves EXCEPT ![i].out = o]
    BY <1>9 DEF Patch
  <2>4. /\ \A j \in SaveIds : /\ saves'[j] # None <=> saves[j] # None
                              /\ saves[j] # None => /\ saves'[j].body = saves[j].body
                                                     /\ saves'[j].live = saves[j].live
                              /\ j # i => saves'[j] = saves[j]
                              /\ saves[j] # None => Stored(j)' = Stored(j)
    <3>1. PICK o \in {"saved", "conflict"} : saves' = [saves EXCEPT ![i].out = o]  BY <2>3
    <3>2. \A j \in SaveIds : j # i => saves'[j] = saves[j]  BY <3>1 DEF TypeOK
    <3>3. saves'[i] = [saves[i] EXCEPT !.out = o]  BY <3>1 DEF TypeOK
    <3>4. /\ saves'[i] \in Saves /\ saves'[i].body = saves[i].body /\ saves'[i].live = saves[i].live
      BY <2>1, <3>3 DEF Saves, Outcomes
    <3>5. QED  BY <2>1, <3>2, <3>4 DEF Stored
  <2>5. Sendable(saves[i].body)  BY <2>1 DEF TextInv, SavesText
  <2>6. PendingText' /\ DraftText' /\ Shown'
    <3>1. PendingText' /\ RetryText'
      <4>1. ASSUME NEW p \in Payloads, Known(p.body), Sendable(p.body) PROVE Sendable(p.body)'
        BY <1>9, <4>1, <2>1, <2>2, <2>5, NatFacts DEF Patch, Sendable, Known, Payloads
      <4>2. QED
        BY <2>1, <2>2, <4>1
        DEF TextInv, VersionInv, PendingText, RetryText, PendingFits, RetryFits, Fits,
            TypeOK
    <3>2. DraftText' /\ Shown'
      BY <2>1, <2>2, <2>4 DEF TextInv, DraftText, Shown, Untouched, Dirty, Same
    <3>3. QED  BY <3>1, <3>2
  <2>7. CASE saves[i].body.version # server.version
    <3>1. server' = server /\ saves' = [saves EXCEPT ![i].out = "conflict"]
      BY <1>9, <2>7 DEF Patch
    <3>2. SavesText'
      BY <2>1, <2>2, <2>4, <3>1 DEF TextInv, SavesText, Sendable, Copy, TypeOK, Saves
    <3>3. \A j \in SaveIds : Waits(j) => Waits(j)'
      BY <2>1, <2>4, <3>1 DEF Waits, TypeOK, Saves
    <3>4. Accounted' /\ CopiesText' /\ RetryText'
      BY <2>1, <2>2, <3>1, <3>3
      DEF TextInv, Accounted, CopiesText, Copy, RetryText, Sendable
    <3>5. QED  BY <2>6, <3>2, <3>4 DEF TextInv
  <2>8. CASE saves[i].body.version = server.version
    <3>1. server' = Stored(i) /\ saves' = [saves EXCEPT ![i].out = "saved"]
      BY <1>9, <2>8 DEF Patch
    <3>2. Wanted /\ server.text = edits => server'.text = edits
      BY <2>1, <2>5, <2>8, <3>1 DEF Sendable
    <3>3. server'.version = server.version + 1 /\ server.version \in Nat
      BY <2>1, <2>8, <3>1, NatFacts
    <3>4. ASSUME NEW b \in Values, Known(b), Sendable(b) PROVE Sendable(b)'
      BY <2>1, <2>2, <3>3, <3>4 DEF Sendable, Known, Values
    <3>5. ASSUME NEW v, Copy(v) PROVE Copy(v)'  BY <2>1, <2>2, <3>2, <3>5 DEF Copy
    <3>6. Copy(server)'  BY <2>1, <2>5, <3>1 DEF Copy, Sendable
    <3>7. SavesText'
      <4>1. SUFFICES ASSUME NEW j \in SaveIds, saves[j] # None
                     PROVE  /\ Sendable(saves[j].body)'
                            /\ (saves'[j].out = "saved" => Copy(Stored(j))')
        BY <2>4 DEF SavesText
      <4>2. PICK b, v : b = saves[j].body /\ v = Stored(j)  OBVIOUS
      <4>3. saves'[j].body = b /\ Stored(j)' = v /\ b \in Values
        BY <2>4, <4>1, <4>2, StoredType DEF Saves
      <4>4. Sendable(b)'
        BY <3>4, <4>1, <4>2, <4>3 DEF TextInv, VersionInv, SavesText, SavesFit, Fits
      <4>5. saves'[j].out = "saved" => Copy(v)'
        <5>1. CASE j = i  BY <3>1, <3>6, <4>2, <5>1 DEF Copy, Stored
        <5>2. CASE j # i  BY <2>4, <3>5, <4>1, <4>2, <5>2 DEF TextInv, SavesText
        <5>3. QED  BY <5>1, <5>2
      <4>6. QED  BY <4>3, <4>4, <4>5 DEF Sendable, Copy
    <3>8. CopiesText'
      BY <2>1, <2>2, <3>5, <3>6 DEF TextInv, CopiesText, Copy
    <3>9. Accounted'
      <4>1. CASE Waits(i)
        BY <2>1, <3>1, <4>1 DEF Accounted, Waits
      <4>2. CASE ~Waits(i)
        <5>1. \A j \in SaveIds : Waits(j) => Waits(j)'  BY <2>1, <2>4, <4>2 DEF Waits
        <5>2. QED  BY <2>1, <2>2, <3>2, <5>1 DEF TextInv, Accounted
      <4>3. QED  BY <4>1, <4>2
    <3>10. RetryText'
      <4>1. ASSUME toast.retry # None PROVE Sendable(toast.retry.body)'
        <5>1. PICK b \in Values : b = toast.retry.body  BY <4>1 DEF TypeOK, Payloads
        <5>2. Sendable(b)'
          BY <3>4, <4>1, <5>1 DEF TextInv, VersionInv, RetryText, RetryFits, Fits
        <5>3. QED  BY <2>1, <5>1, <5>2 DEF Sendable
      <4>2. QED  BY <2>1, <4>1 DEF RetryText
    <3>11. QED  BY <2>6, <3>7, <3>8, <3>9, <3>10 DEF TextInv
  <2>9. QED  BY <2>7, <2>8
<1>10. ASSUME NEW i \in SaveIds, Fault(i) PROVE TextInv'
  <2>1. /\ saves' = [saves EXCEPT ![i].out = "failed"] /\ saves[i] # None /\ saves[i] \in Saves
        /\ UNCHANGED <<server, cached, fetch, draft, baseline, pending, toast, carries, refused,
                       undone, edits, mounted>>
    BY <1>10 DEF Fault, TypeOK
  <2>2. Wanted' = Wanted  BY <2>1 DEF Wanted
  <2>3. \A j \in SaveIds : j # i => saves'[j] = saves[j]  BY <2>1 DEF TypeOK
  <2>4. /\ saves'[i] \in Saves /\ saves'[i].body = saves[i].body /\ saves'[i].live = saves[i].live
        /\ saves'[i].out = "failed"
    <3>1. saves'[i] = [saves[i] EXCEPT !.out = "failed"]  BY <2>1 DEF TypeOK
    <3>2. QED  BY <2>1, <3>1 DEF Saves, Outcomes
  <2>5. SavesText'
    BY <2>1, <2>2, <2>3, <2>4 DEF TextInv, SavesText, Sendable, Copy, Stored
  <2>6. \A j \in SaveIds : Waits(j) => Waits(j)'  BY <2>1, <2>3, <2>4 DEF Waits
  <2>7. Shown'
    <3>1. Untouched => Untouched'  BY <2>1, <2>3, <2>4 DEF Untouched, Dirty, Same
    <3>2. QED  BY <2>1, <2>2, <3>1 DEF TextInv, Shown
  <2>8. PendingText' /\ RetryText' /\ CopiesText' /\ DraftText' /\ Accounted'
    BY <2>1, <2>2, <2>6
    DEF TextInv, PendingText, RetryText, CopiesText, DraftText, Accounted, Sendable, Copy
  <2>9. QED  BY <2>5, <2>7, <2>8 DEF TextInv
<1>11. ASSUME NEW i \in SaveIds, Answer(i) PROVE TextInv'
  <2> DEFINE v == Stored(i)
  <2>1. /\ saves' = [saves EXCEPT ![i] = None] /\ saves[i] # None /\ saves[i].out = "saved"
        /\ toast' = [message |-> "saved", retry |-> None] /\ fetch'.state = "asked"
        /\ UNCHANGED <<server, cached, carries, undone, refused, edits, mounted>>
    BY <1>11 DEF Answer, Asked
  <2>2. Wanted' = Wanted  BY <2>1 DEF Wanted
  <2>3. \A j \in SaveIds : saves'[j] # None => j # i /\ saves'[j] = saves[j]
    BY <2>1 DEF TypeOK
  <2>4. v \in Values /\ Copy(v)  BY <2>1, StoredType DEF TextInv, SavesText
  <2>5. toast'.retry = None  BY <2>1
  <2>6. SavesText' /\ RetryText'
    BY <2>1, <2>2, <2>3, <2>5 DEF TextInv, SavesText, RetryText, Sendable, Copy, Stored
  <2>7. \A j \in SaveIds : Waits(j) => Waits(j)'  BY <2>1 DEF Waits, TypeOK
  <2>8. CASE ~saves[i].live
    <3>1. UNCHANGED <<draft, baseline, pending>>  BY <1>11, <2>8 DEF Answer
    <3>2. Untouched => Untouched'  BY <2>1, <2>3, <2>5, <3>1 DEF Untouched, Dirty, Same
    <3>3. PendingText' /\ CopiesText' /\ DraftText' /\ Accounted' /\ Shown'
      BY <2>1, <2>2, <2>7, <3>1, <3>2
      DEF TextInv, PendingText, CopiesText, DraftText, Accounted, Shown, Sendable, Copy
    <3>4. QED  BY <2>6, <3>3 DEF TextInv
  <2>9. CASE saves[i].live
    <3>1. Accept(v) /\ mounted  BY <1>11, <2>1, <2>9 DEF Answer, VersionInv, SavesFit, Fits
    <3>2. draft' \in Values /\ draft'.text = draft.text /\ draft'.ok = draft.ok
      <4>1. CASE Same(draft, v)
        BY <2>4, <3>1, <4>1, ValueTypes, SameFields, NatFacts DEF Accept
      <4>2. CASE ~Same(draft, v)
        <5>1. draft' = IF carries THEN [draft EXCEPT !.version = v.version] ELSE draft
          BY <3>1, <4>2 DEF Accept
        <5>2. draft \in Values /\ v.version \in Nat  BY <2>4, NatFacts
        <5>3. QED  BY <5>1, <5>2 DEF Values
      <4>3. QED  BY <4>1, <4>2
    <3>3. baseline' = ToDraft(v) /\ ToDraft(v).text = v.text /\ ToDraft(v).ok = v.ok
      BY <2>4, <3>1, ValueTypes DEF Accept
    <3>4. Wanted => draft.text = edits
      BY <2>1, <2>9, <3>1 DEF TextInv, Shown, Untouched
    <3>5. CopiesText'
      BY <2>1, <2>2, <2>4, <3>3 DEF TextInv, CopiesText, Copy
    <3>6. DraftText' /\ Shown'
      BY <2>1, <2>2, <3>2, <3>4 DEF TextInv, DraftText, Shown
    <3>7. PendingText' /\ Accounted'
      <4>1. AutosaveEffect(draft', baseline', v, carries \/ ~Dirty)  BY <3>1 DEF Accept
      <4>2. draft'.text <= edits /\ (draft'.ok \/ draft'.text \in undone)
        BY <3>1, <3>2 DEF TextInv, DraftText
      <4>3. PendingText /\ Accounted  BY DEF TextInv
      <4>4. QED  BY <2>1, <2>2, <2>4, <2>7, <3>2, <3>4, <4>1, <4>2, <4>3, EffectText
    <3>8. QED  BY <2>6, <3>5, <3>6, <3>7 DEF TextInv
  <2>10. QED  BY <2>8, <2>9
<1>12. ASSUME NEW i \in SaveIds, Refusal(i) PROVE TextInv'
  <2>1. /\ saves' = [saves EXCEPT ![i] = None] /\ saves[i] # None /\ saves[i] \in Saves
        /\ refused' = refused \cup {saves[i].body.text}
        /\ toast' = [message |-> "failed", retry |-> [body |-> saves[i].body,
                                                      live |-> saves[i].live]]
        /\ UNCHANGED <<server, cached, fetch, draft, baseline, pending, carries, undone, edits,
                       mounted>>
    BY <1>12 DEF Refusal, TypeOK
  <2>2. (Wanted' => Wanted) /\ (Wanted' => saves[i].body.text # edits)  BY <2>1 DEF Wanted
  <2>3. \A j \in SaveIds : saves'[j] # None => j # i /\ saves'[j] = saves[j]
    BY <2>1 DEF TypeOK
  <2>4. toast'.retry.body = saves[i].body /\ toast'.retry.live = saves[i].live  BY <2>1
  <2>5. SavesText'
    BY <2>1, <2>2, <2>3 DEF TextInv, SavesText, Sendable, Copy, Stored
  <2>6. RetryText'
    BY <2>1, <2>2, <2>4 DEF TextInv, SavesText, RetryText, Sendable
  <2>7. Accounted'
    <3>1. \A j \in SaveIds : Waits(j) /\ Wanted' => Waits(j)'
      BY <2>1, <2>2 DEF Waits, TypeOK
    <3>2. QED  BY <2>1, <2>2, <3>1 DEF TextInv, Accounted
  <2>8. Shown'
    <3>1. Untouched => Untouched'  BY <2>1, <2>3, <2>4 DEF Untouched, Dirty, Same
    <3>2. QED  BY <2>1, <2>2, <3>1 DEF TextInv, Shown
  <2>9. PendingText' /\ CopiesText' /\ DraftText'
    <3>1. saves[i].body.text <= edits  BY <2>1 DEF TextInv, SavesText, Sendable
    <3>2. QED
      BY <2>1, <2>2, <3>1 DEF TextInv, PendingText, CopiesText, DraftText, Sendable, Copy
  <2>10. QED  BY <2>5, <2>6, <2>7, <2>8, <2>9 DEF TextInv
<1>13. CASE ForeignPatch
  <2>1. /\ server' = [server EXCEPT !.over = @ + 1, !.version = @ + 1] /\ server \in Values
        /\ UNCHANGED <<cached, fetch, draft, baseline, pending, saves, toast, carries, refused,
                       undone, edits, mounted>>
    BY <1>13 DEF ForeignPatch, TypeOK
  <2>2. Wanted' = Wanted  BY <2>1 DEF Wanted
  <2>3. server'.text = server.text /\ server'.ok = server.ok /\ server'.version = server.version + 1
    BY <2>1 DEF Values
  <2>4. ASSUME NEW b \in Values, Known(b), Sendable(b) PROVE Sendable(b)'
    BY <2>1, <2>2, <2>3, <2>4 DEF Sendable, Known, Values
  <2>5. SavesText'
    <3>1. SUFFICES ASSUME NEW j \in SaveIds, saves[j] # None
                   PROVE  Sendable(saves[j].body)' /\ (saves[j].out = "saved" => Copy(Stored(j))')
      BY <2>1 DEF SavesText
    <3>2. PICK b \in Values : b = saves[j].body  BY <3>1 DEF TypeOK, Saves
    <3>3. Sendable(b)'
      BY <2>4, <3>1, <3>2 DEF TextInv, VersionInv, SavesText, SavesFit, Fits
    <3>4. saves[j].out = "saved" => Copy(Stored(j))'
      BY <2>1, <2>2, <2>3, <3>1 DEF TextInv, SavesText, Copy, Stored
    <3>5. QED  BY <2>1, <3>2, <3>3, <3>4 DEF Sendable
  <2>6. PendingText'
    <3>1. SUFFICES ASSUME pending # None
                   PROVE  Sendable(pending.body)' /\ (Wanted => pending.body.text = edits)
      BY <2>1, <2>2 DEF PendingText
    <3>2. PICK b \in Values : b = pending.body  BY <3>1 DEF TypeOK, Payloads
    <3>3. Sendable(b)'
      BY <2>4, <3>1, <3>2 DEF TextInv, VersionInv, PendingText, PendingFits, Fits
    <3>4. QED  BY <2>1, <3>1, <3>2, <3>3 DEF Sendable, TextInv, PendingText
  <2>7. RetryText'
    <3>1. SUFFICES ASSUME toast.retry # None PROVE Sendable(toast.retry.body)'
      BY <2>1 DEF RetryText
    <3>2. PICK b \in Values : b = toast.retry.body  BY <3>1 DEF TypeOK, Payloads
    <3>3. Sendable(b)'
      BY <2>4, <3>1, <3>2 DEF TextInv, VersionInv, RetryText, RetryFits, Fits
    <3>4. QED  BY <2>1, <3>2, <3>3 DEF Sendable
  <2>8. CopiesText' /\ DraftText' /\ Accounted' /\ Shown'
    BY <2>1, <2>2, <2>3
    DEF TextInv, CopiesText, DraftText, Accounted, Shown, Untouched, Copy, Dirty, Same,
        Waits
  <2>9. QED  BY <2>5, <2>6, <2>7, <2>8 DEF TextInv
<1>14. CASE FetchReads
  <2>1. /\ fetch' = [fetch EXCEPT !.state = "read", !.value = server]
        /\ UNCHANGED <<server, cached, draft, baseline, pending, saves, toast, carries, refused,
                       undone, edits, mounted>>
    BY <1>14 DEF FetchReads
  <2>2. Wanted' = Wanted  BY <2>1 DEF Wanted
  <2>3. fetch'.value = server  BY <2>1 DEF TypeOK
  <2>4. CopiesText'
    BY <2>1, <2>2, <2>3 DEF TextInv, CopiesText, Copy
  <2>5. QED
    BY <2>1, <2>2, <2>4
    DEF TextInv, SavesText, PendingText, RetryText, DraftText, Accounted, Shown, Untouched,
                            Sendable, Copy, Stored, Dirty, Same, Waits
<1>15. CASE FetchArrives
  <2>1. /\ cached' = fetch.value
        /\ fetch.value \in Values
        /\ fetch'.state = "idle"
        /\ Copy(fetch.value)
        /\ Wanted /\ (baseline.text = edits \/ cached.text = edits) => fetch.value.text = edits
        /\ UNCHANGED <<server, saves, toast, carries, undone, refused, edits, mounted>>
    BY <1>15, NatFacts DEF FetchArrives, Idle, TextInv, CopiesText
  <2>2. Wanted' = Wanted  BY <2>1 DEF Wanted
  <2>3. SavesText' /\ RetryText'
    BY <2>1, <2>2 DEF TextInv, SavesText, RetryText, Sendable, Copy, Stored
  <2>4. CASE UNCHANGED <<draft, baseline, pending>>
    BY <2>1, <2>2, <2>3, <2>4
    DEF TextInv, PendingText, CopiesText, DraftText, Accounted, Shown, Untouched,
                                  Sendable, Copy, Dirty, Same, Waits
  <2>5. CASE mounted /\ Dirty /\ Adopt(cached')
    <3>1. UNCHANGED <<draft, baseline>> /\ AutosaveEffect(draft, baseline, latest, ~carries)
      BY <2>5 DEF Adopt
    <3>2. CopiesText' /\ DraftText'
      BY <2>1, <2>2, <3>1 DEF TextInv, CopiesText, DraftText, Copy
    <3>3. Wanted => draft.text = edits  BY <2>5 DEF TextInv, Shown, Untouched
    <3>4. Shown'  BY <2>1, <2>2, <3>1, <3>3 DEF Shown
    <3>5. PendingText' /\ Accounted'
      <4>1. draft.text <= edits /\ (draft.ok \/ draft.text \in undone)
        BY <2>5 DEF TextInv, DraftText
      <4>2. PendingText /\ Accounted  BY DEF TextInv
      <4>3. QED  BY <2>1, <2>2, <3>1, <3>3, <4>1, <4>2, EffectText, NatFacts
    <3>6. QED  BY <2>3, <3>2, <3>4, <3>5 DEF TextInv
  <2>6. CASE mounted /\ ~Dirty /\ Adopt(cached')
    <3>1. draft' = ToDraft(fetch.value) /\ baseline' = ToDraft(fetch.value) /\ pending' = pending
      BY <2>1, <2>6 DEF Adopt
    <3>2. ToDraft(fetch.value).text = fetch.value.text /\ ToDraft(fetch.value).ok = fetch.value.ok
      BY <2>1, ValueTypes
    <3>3. CopiesText' /\ DraftText'
      BY <2>1, <2>2, <3>1, <3>2 DEF TextInv, CopiesText, DraftText, Copy
    <3>4. draft.text = baseline.text
      BY <2>6, SameFields, NatFacts DEF Dirty
    <3>5. Untouched => Untouched'
      BY <2>1, <3>1 DEF Untouched, Dirty, Same
    <3>6. Shown'
      BY <2>1, <2>2, <2>6, <3>1, <3>2, <3>4, <3>5 DEF TextInv, Shown
    <3>7. PendingText' /\ Accounted'
      BY <2>1, <2>2, <3>1 DEF TextInv, PendingText, Accounted, Sendable, Waits
    <3>8. QED  BY <2>3, <3>3, <3>6, <3>7 DEF TextInv
  <2>7. QED  BY <1>15, <2>4, <2>5, <2>6 DEF FetchArrives
<1>16. CASE UNCHANGED vars
  <2>1. Wanted' = Wanted  BY <1>16 DEF vars, Wanted
  <2>2. QED
    BY <1>16, <2>1
    DEF vars, TextInv, SavesText, PendingText, RetryText, CopiesText, DraftText, Accounted,
        Shown,
                       Untouched, Sendable, Copy, Stored, Dirty, Same, Waits
<1>17. QED
  BY <1>1, <1>2, <1>3, <1>4, <1>5, <1>6, <1>7, <1>8, <1>9, <1>10, <1>11, <1>12, <1>13,
     <1>14, <1>15, <1>16
  DEF Next

\* A form that was opened on the first row.
LEMMA InitInv == Init => TypeOK /\ VersionInv /\ TextInv
<1> SUFFICES ASSUME Init PROVE TypeOK /\ VersionInv /\ TextInv
  OBVIOUS
<1>1. TypeOK  BY ValueTypes DEF Init, TypeOK, Idle, Messages
<1>2. /\ First.text = 0 /\ First.over = 0 /\ First.version = 0 /\ First.ok = TRUE
      /\ \A i \in SaveIds : saves[i] = None
      /\ toast.retry = None /\ pending = None /\ fetch.state = "idle"
  BY DEF Init, First, Idle
<1>3. VersionInv
  BY <1>2
  DEF Init, VersionInv, SavesFit, PendingFits, RetryFits, CopiesKnown, DraftKnown, Known
<1>4. TextInv
  BY <1>2
  DEF Init, TextInv, SavesText, PendingText, RetryText, CopiesText, DraftText, Accounted,
      Shown, Copy, Wanted
<1>5. QED  BY <1>1, <1>3, <1>4

-----------------------------------------------------------------------------
\* The form, its saves and the row keep their types.
THEOREM TypeCorrect == Spec => []TypeOK
BY InitInv, TypeStep, PTL DEF Spec

\* Only the user changes what an open form shows of a dirty draft: no answer
\* and no refetch does.
THEOREM EditsStay == Spec => EditsSurvive
<1> DEFINE A == mounted /\ mounted' /\ Dirty /\ edits' = edits /\ clicks' = clicks
                  => Same(draft', draft)
<1>1. TypeOK /\ [Next]_vars => [A]_vars
  <2> SUFFICES ASSUME TypeOK, Next, mounted, mounted', Dirty, edits' = edits, clicks' = clicks
               PROVE  Same(draft', draft)
    OBVIOUS
  <2> USE DEF form, query, bounds, history
  <2>1. draft' = draft => Same(draft', draft)  BY DEF Same
  <2>2. edits \in Nat /\ clicks \in Nat  BY DEF TypeOK
  <2>3. ASSUME NEW ok \in BOOLEAN, Edit(ok) PROVE FALSE  BY <2>2, <2>3 DEF Edit
  <2>4. CASE Undo \/ Open  BY <2>2, <2>4 DEF Undo, Open
  <2>5. CASE Close  BY <2>5 DEF Close
  <2>6. CASE Retry \/ Reload \/ ListRenders \/ TimerFires \/ ForeignPatch \/ FetchReads
    BY <2>1, <2>6 DEF Retry, Reload, ListRenders, TimerFires, ForeignPatch, FetchReads
  <2>7. CASE \E i \in SaveIds : Patch(i) \/ Fault(i) \/ Refusal(i)
    BY <2>1, <2>7 DEF Patch, Fault, Refusal
  <2>8. ASSUME NEW i \in SaveIds, Answer(i) PROVE Same(draft', draft)
    <3>1. CASE ~saves[i].live  BY <2>1, <2>8, <3>1 DEF Answer
    <3>2. CASE saves[i].live
      <4>1. Accept(Stored(i)) /\ Stored(i) \in Values  BY <2>8, <3>2, StoredType DEF Answer
      <4>2. CASE Same(draft, Stored(i))
        <5>1. draft' = ToDraft(Stored(i))  BY <4>1, <4>2 DEF Accept
        <5>2. QED  BY <4>1, <4>2, <5>1, ValueTypes, SameFields DEF TypeOK
      <4>3. CASE ~Same(draft, Stored(i))
        <5>1. draft' = draft \/ draft' = [draft EXCEPT !.version = Stored(i).version]
          BY <4>1, <4>3 DEF Accept
        <5>2. draft \in Values /\ Stored(i).version \in Nat  BY <4>1 DEF TypeOK, Values
        <5>3. [draft EXCEPT !.version = Stored(i).version] \in Values  BY <5>2 DEF Values
        <5>4. QED  BY <2>1, <5>1, <5>2, <5>3, SameFields DEF Values
      <4>4. QED  BY <4>2, <4>3
    <3>3. QED  BY <3>1, <3>2
  <2>9. CASE FetchArrives  BY <2>1, <2>9 DEF FetchArrives, Adopt
  <2>10. QED  BY <2>3, <2>4, <2>5, <2>6, <2>7, <2>8, <2>9 DEF Next
<1>2. QED  BY <1>1, InitInv, TypeStep, PTL DEF Spec, EditsSurvive

\* Whatever is answered late, refused, lost, retried or refetched, and however
\* often the form is closed and opened, the newest text is stored when all is
\* at rest, unless its save was refused with a message or the user took it
\* back.
THEOREM TextKept == Spec => []LastTextIsKept
<1>1. TextInv => LastTextIsKept
  BY DEF TextInv, Accounted, Waits, LastTextIsKept, AtRest, Wanted
<1>2. QED  BY <1>1, InitInv, TypeStep, VersionStep, TextStep, PTL DEF Spec

\* No save of this tab removes from the row what another tab wrote.
THEOREM OthersStay == Spec => ForeignWritesStay
<1>1. TypeOK /\ VersionInv /\ [Next]_vars => [server'.over >= server.over]_vars
  <2> SUFFICES ASSUME TypeOK, VersionInv, Next PROVE server'.over >= server.over
    OBVIOUS
  <2>1. server.over \in Nat /\ server \in Values  BY NatFacts
  <2>2. ASSUME NEW i \in SaveIds, Patch(i) PROVE server'.over >= server.over
    <3>1. saves[i] # None  BY <2>2 DEF Patch
    <3>2. Known(saves[i].body) /\ Stored(i).over = saves[i].body.over
      BY <3>1, StoredType DEF VersionInv, SavesFit, Fits
    <3>3. QED  BY <2>1, <2>2, <3>2 DEF Patch, Known
  <2>3. CASE ForeignPatch
    <3>1. server' = [server EXCEPT !.over = @ + 1, !.version = @ + 1]
      BY <2>3 DEF ForeignPatch
    <3>2. server'.over = server.over + 1  BY <2>1, <3>1 DEF Values
    <3>3. QED  BY <2>1, <3>2
  <2>4. CASE UNCHANGED server  BY <2>1, <2>4
  <2>5. QED
    BY <2>2, <2>3, <2>4
    DEF Next, Edit, Undo, Close, Open, Retry, Reload, ListRenders, TimerFires, Fault,
        Answer, Refusal,
        FetchReads, FetchArrives
<1>2. QED  BY <1>1, InitInv, TypeStep, VersionStep, PTL DEF Spec, ForeignWritesStay

-----------------------------------------------------------------------------
(***************************************************************************)
(* CharacterConfig.                                                        *)
(***************************************************************************)

USE CarriedAssumption, ConfigBounds, DocumentAssumption

\* A save is under way.
Under(i) == saves[i] # None

(* Every number in a document is that of an edit, here or in another tab.  *)
Written(c) == \A s \in Settings : c[s] <= edits \/ c[s] > MaxEdits

Numbers == /\ Written(row.config) /\ Written(cache) /\ Written(fetch.value)
           /\ pending # None => Written(pending)
           /\ snapshot # None => Written(snapshot)
           /\ \A i \in SaveIds :
                Under(i) => /\ Written(saves[i].body)
                            /\ saves[i].undo # None => Written(saves[i].undo)

(* What EditsAreSaved says of one setting.                                 *)
Settled(s) == typed[s] \in refused \/ row.config[s] = typed[s] \/ Elsewhere(s)

(* A document with the last edit of each setting.                          *)
Current(c) ==
  \A s \in Settings : c[s] = typed[s] \/ c[s] > MaxEdits \/ typed[s] \in refused

(* A document differs from the one that its rollback restores just where   *)
(* an edit is not settled.                                                 *)
Changes(d, u) == \A s \in Settings : \/ d[s] = typed[s] /\ d[s] # u[s]
                                     \/ d[s] = u[s] /\ Settled(s)

(* Without an edit while something is under way, one thing is: a window, a *)
(* save or a refetch.                                                      *)
OneAtATime ==
  /\ \A i, j \in SaveIds : Under(i) /\ Under(j) => i = j
  /\ \A i \in SaveIds : Under(i) => pending = None /\ fetch.state = "idle"
  /\ pending # None => fetch.state = "idle"
  /\ snapshot # None => /\ pending # None \/ \E i \in SaveIds : Under(i)
                        /\ \A i \in SaveIds : Under(i) => newest = i

(* Then all that is not stored or refused is what the window or the save   *)
(* will bring, and its rollback takes back no other edit.                  *)
WindowInv ==
  /\ Current(cache)
  /\ fetch.state = "read" => Current(fetch.value)
  /\ pending # None => pending = cache /\ snapshot # None /\ Changes(pending, snapshot)
  /\ \A i \in SaveIds : Under(i) =>
       /\ saves[i].undo # None
       /\ Current(saves[i].body)
       /\ Changes(saves[i].body, saves[i].undo)
       /\ saves[i].at = "stored" => \A s \in Settings : Settled(s)
  /\ AllSaved \/ (fetch.state # "idle") => \A s \in Settings : Settled(s)

(* A document that shows what is stored, or what another tab has hidden.   *)
ShowsRow(c) == \A s \in Settings : c[s] = row.config[s] \/ Elsewhere(s)

(* Every rollback that can come, and every refetch, shows what is stored.  *)
BackInv == /\ pending # None => ShowsRow(snapshot)
           /\ \A i \in SaveIds :
                Under(i) => /\ newest = i
                            /\ saves[i].at # "stored" => ShowsRow(saves[i].undo)
           /\ fetch.state = "read" => ShowsRow(fetch.value)
           /\ AllSaved => ShowsRow(cache)

ConfigInv == /\ ConfigTypeOK
             /\ Numbers
             /\ ~overlap => OneAtATime /\ WindowInv
             /\ ~overlap /\ ~left /\ ~lost => BackInv

-----------------------------------------------------------------------------
LEMMA ConfigNats ==
  /\ MaxEdits \in Nat /\ MaxForeign \in Nat /\ MaxFaults \in Nat /\ MaxOpens \in Nat
  /\ \A n \in 0 .. (MaxEdits + MaxForeign) : n \in Nat
BY DEF ConfigBounds

LEMMA BlankDoc == Blank \in Configs
BY ConfigNats DEF Blank, Configs

\* What a save is, and what its parts are.
LEMMA MutationParts ==
  ASSUME ConfigTypeOK, NEW i \in SaveIds, Under(i)
  PROVE  /\ saves[i] \in Mutations
         /\ saves[i].body \in Configs
         /\ saves[i].undo \in Configs \cup {None}
         /\ saves[i].base \in Nat
         /\ saves[i].try \in {1, 2}
         /\ saves[i].at \in {"sent", "read", "stored", "conflict", "failed"}
BY DEF ConfigTypeOK, Under, Mutations

\* A save is one wherever it is moved to.
LEMMA MovedSave ==
  ASSUME ConfigTypeOK, NEW i \in SaveIds, Under(i)
  PROVE  /\ [saves[i] EXCEPT !.at = "read", !.base = row.version] \in Mutations
         /\ [saves[i] EXCEPT !.at = "stored"] \in Mutations
         /\ [saves[i] EXCEPT !.at = "conflict"] \in Mutations
         /\ [saves[i] EXCEPT !.at = "failed"] \in Mutations
         /\ [saves[i] EXCEPT !.try = 2, !.at = "sent"] \in Mutations
<1>1. saves[i] \in Mutations
  BY MutationParts
<1>2. row.version \in Nat
  BY DEF ConfigTypeOK
<1>3. [saves[i] EXCEPT !.at = "read", !.base = row.version] \in Mutations
  BY <1>1, <1>2 DEF Mutations
<1>4. /\ [saves[i] EXCEPT !.at = "stored"] \in Mutations
      /\ [saves[i] EXCEPT !.at = "conflict"] \in Mutations
      /\ [saves[i] EXCEPT !.at = "failed"] \in Mutations
  BY <1>1 DEF Mutations
<1>5. [saves[i] EXCEPT !.try = 2, !.at = "sent"] \in Mutations
  BY <1>1 DEF Mutations
<1> QED
  BY <1>3, <1>4, <1>5

\* An edit writes the settings it carries, which are those of the document shown.
LEMMA EditedDoc ==
  ASSUME ConfigTypeOK, NEW s \in Settings, EditSetting(s)
  PROVE  /\ cache' = [cache EXCEPT ![s] = edits + 1] /\ cache' \in Configs
         /\ pending' \in Configs /\ typed' \in Configs
         /\ edits' \in 0 .. MaxEdits /\ edits' = edits + 1
<1>1. edits + 1 \in 0 .. (MaxEdits + MaxForeign) /\ edits + 1 \in 0 .. MaxEdits
  BY ConfigNats DEF ConfigTypeOK, EditSetting
<1>2. cache' = [cache EXCEPT ![s] = edits + 1] /\ cache' \in Configs
  BY <1>1 DEF ConfigTypeOK, EditSetting, Configs
<1>3. typed' \in Configs
  BY <1>1 DEF ConfigTypeOK, EditSetting, Configs
<1>4. pending' \in Configs
  <2> DEFINE basis == IF pending = None THEN cache' ELSE pending
  <2>1. basis \in Configs
    BY <1>2 DEF ConfigTypeOK
  <2>2. pending' = [t \in Settings |-> IF t \in Carried[s] THEN cache'[t] ELSE basis[t]]
    BY <1>2 DEF EditSetting
  <2> HIDE DEF basis
  <2> QED
    BY <1>2, <2>1, <2>2 DEF Configs
<1> QED
  BY <1>1, <1>2, <1>3, <1>4 DEF EditSetting

LEMMA ConfigTypeInit == ConfigInit => ConfigTypeOK
<1> SUFFICES ASSUME ConfigInit PROVE ConfigTypeOK
  OBVIOUS
<1>1. edits \in 0 .. MaxEdits /\ foreign \in 0 .. MaxForeign
  BY ConfigNats DEF ConfigInit
<1>2. row \in [config : Configs, version : Nat]
  BY BlankDoc DEF ConfigInit
<1>3. fetch \in [state : {"idle", "asked", "read"}, value : Configs]
  BY BlankDoc DEF ConfigInit, NoFetch
<1> QED
  BY <1>1, <1>2, <1>3, BlankDoc DEF ConfigInit, ConfigTypeOK

LEMMA ConfigTypeStep == ConfigTypeOK /\ [ConfigNext]_configVars => ConfigTypeOK'
<1> SUFFICES ASSUME ConfigTypeOK, [ConfigNext]_configVars PROVE ConfigTypeOK'
  OBVIOUS
<1> USE DEF ConfigTypeOK
<1>1. ASSUME NEW s \in Settings, EditSetting(s) PROVE ConfigTypeOK'
  BY <1>1, EditedDoc DEF EditSetting, Quiet
<1>2. ASSUME NEW s \in Settings, ForeignEdit(s) PROVE ConfigTypeOK'
  <2>1. MaxEdits + foreign + 1 \in 0 .. (MaxEdits + MaxForeign) /\ foreign' \in 0 .. MaxForeign
    BY <1>2, ConfigNats DEF ForeignEdit
  <2>2. [row.config EXCEPT ![s] = MaxEdits + foreign + 1] \in Configs
    BY <2>1 DEF Configs
  <2>3. row' \in [config : Configs, version : Nat]
    BY <1>2, <2>2 DEF ForeignEdit
  <2> QED
    BY <1>2, <2>1, <2>3 DEF ForeignEdit, panel, record
<1>3. ASSUME NEW i \in SaveIds, pending # None, Start(i)
      PROVE  saves' \in [SaveIds -> Mutations \cup {None}] /\ pending' = None
  <2>1. [body |-> pending, undo |-> snapshot, base |-> 0, try |-> 1, at |-> "sent"] \in Mutations
    BY <1>3 DEF Mutations
  <2> QED
    BY <1>3, <2>1 DEF Start
<1>4. CASE Flush
  BY <1>3, <1>4 DEF Flush, counters, record
<1>5. CASE ClosePanel
  <2>1. saves' \in [SaveIds -> Mutations \cup {None}] /\ pending' \in Configs \cup {None}
    BY <1>3, <1>5 DEF ClosePanel
  <2> QED
    BY <1>5, <2>1 DEF ClosePanel, counters, AllSaved, Quiet
<1>6. CASE OpenPanel
  BY <1>6 DEF OpenPanel, record
<1>7. ASSUME NEW i \in SaveIds, ReadTheme(i) PROVE ConfigTypeOK'
  <2>1. [saves[i] EXCEPT !.at = "read", !.base = row.version] \in Mutations
    BY <1>7, MovedSave DEF ReadTheme, At, Under
  <2> QED
    BY <1>7, <2>1 DEF ReadTheme, At, panel, counters, record
<1>8. ASSUME NEW i \in SaveIds, StoreConfig(i) PROVE ConfigTypeOK'
  <2>1. [saves[i] EXCEPT !.at = "stored"] \in Mutations /\ saves[i].body \in Configs
    BY <1>8, MovedSave, MutationParts DEF StoreConfig, At, Under
  <2> QED
    BY <1>8, <2>1 DEF StoreConfig, At, panel, counters, record
<1>9. ASSUME NEW i \in SaveIds, Conflict(i) PROVE ConfigTypeOK'
  <2>1. [saves[i] EXCEPT !.at = "conflict"] \in Mutations
    BY <1>9, MovedSave DEF Conflict, At, Under
  <2> QED
    BY <1>9, <2>1 DEF Conflict, At, panel, counters, record
<1>10. ASSUME NEW i \in SaveIds, LoseSave(i) PROVE ConfigTypeOK'
  <2>1. [saves[i] EXCEPT !.at = "failed"] \in Mutations
    BY <1>10, MovedSave DEF LoseSave, At, Under
  <2> QED
    BY <1>10, <2>1 DEF LoseSave, At, panel
<1>11. ASSUME NEW i \in SaveIds, TryAgain(i) PROVE ConfigTypeOK'
  <2>1. /\ [saves[i] EXCEPT !.try = 2, !.at = "sent"] \in Mutations
        /\ [saves[i] EXCEPT !.at = "failed"] \in Mutations
    BY <1>11, MovedSave DEF TryAgain, At, Under
  <2> QED
    BY <1>11, <2>1 DEF TryAgain, At, panel, counters, record
<1>12. ASSUME NEW i \in SaveIds, Succeed(i) PROVE ConfigTypeOK'
  BY <1>12, BlankDoc DEF Succeed, NoFetch, counters, record
<1>13. ASSUME NEW i \in SaveIds, Fail(i) PROVE ConfigTypeOK'
  <2>1. saves[i].undo # None => saves[i].undo \in Configs
    BY <1>13 DEF Fail, At, Mutations
  <2> QED
    BY <1>13, <2>1 DEF Fail, counters
<1>14. CASE ThemeReads
  BY <1>14 DEF ThemeReads, panel, counters, record
<1>15. CASE ThemeArrives
  BY <1>15, BlankDoc DEF ThemeArrives, NoFetch, panel, counters, record
<1>16. CASE UNCHANGED configVars
  BY <1>16 DEF configVars, panel, counters, record
<1> QED
  BY <1>1, <1>2, <1>4, <1>5, <1>6, <1>7, <1>8, <1>9, <1>10, <1>11, <1>12, <1>13, <1>14,
     <1>15,
     <1>16
  DEF ConfigNext

-----------------------------------------------------------------------------
(* The numbers.                                                            *)

LEMMA ConfigNumbersInit == ConfigInit => Numbers
BY DEF ConfigInit, Numbers, Written, Blank, NoFetch, Under

LEMMA NumbersStep == ConfigTypeOK /\ Numbers /\ [ConfigNext]_configVars => Numbers'
<1> SUFFICES ASSUME ConfigTypeOK, Numbers, [ConfigNext]_configVars PROVE Numbers'
  OBVIOUS
<1> USE DEF Numbers, Under
<1>1. ASSUME NEW s \in Settings, EditSetting(s) PROVE Numbers'
  <2>1. cache' = [cache EXCEPT ![s] = edits + 1] /\ edits' = edits + 1 /\ edits \in Nat
    BY <1>1, EditedDoc DEF EditSetting, ConfigTypeOK
  <2>2. ASSUME NEW c \in Configs, \A t \in Settings : c[t] <= edits \/ c[t] > MaxEdits
        PROVE  \A t \in Settings : c[t] <= edits' \/ c[t] > MaxEdits
    BY <2>1, <2>2, ConfigNats DEF Configs
  <2>3. /\ row \in [config : Configs, version : Nat] /\ cache \in Configs
        /\ fetch.value \in Configs /\ row.config \in Configs
    BY DEF ConfigTypeOK
  <2>4. Written(cache)'
    BY <2>1, <2>2, <2>3 DEF Written, Configs
  <2>5. Written(pending)'
    <3> DEFINE basis == IF pending = None THEN cache' ELSE pending
    <3>1. pending' = [t \in Settings |-> IF t \in Carried[s] THEN cache'[t] ELSE basis[t]]
      BY <2>1, <1>1 DEF EditSetting
    <3>2. \A t \in Settings : basis[t] <= edits' \/ basis[t] > MaxEdits
      BY <2>2, <2>4 DEF ConfigTypeOK, Written
    <3> HIDE DEF basis
    <3> QED
      BY <2>4, <3>1, <3>2 DEF Written
  <2>6. snapshot' # None => Written(snapshot)'
    BY <1>1, <2>2, <2>3 DEF EditSetting, ConfigTypeOK, Written
  <2>7. ASSUME NEW i \in SaveIds, saves'[i] # None
        PROVE  /\ Written(saves[i].body)'
               /\ saves'[i].undo # None => Written(saves[i].undo)'
    <3>1. saves' = saves
      BY <1>1 DEF EditSetting
    <3>2. saves[i].body \in Configs /\ saves[i].undo \in Configs \cup {None}
      BY <2>7, <3>1, MutationParts
    <3> QED
      BY <2>2, <2>7, <3>1, <3>2 DEF Written
  <2>8. Written(row.config)' /\ Written(fetch.value)'
    BY <1>1, <2>2, <2>3 DEF EditSetting, Written
  <2> QED
    BY <2>4, <2>5, <2>6, <2>7, <2>8
<1>2. ASSUME NEW s \in Settings, ForeignEdit(s) PROVE Numbers'
  <2>1. MaxEdits + foreign + 1 > MaxEdits
    BY ConfigNats DEF ConfigTypeOK
  <2>2. row'.config = [row.config EXCEPT ![s] = MaxEdits + foreign + 1]
    BY <1>2 DEF ForeignEdit
  <2>3. Written(row.config)'
    BY <1>2, <2>1, <2>2 DEF ForeignEdit, Written, ConfigTypeOK, Configs
  <2> QED
    BY <1>2, <2>3 DEF ForeignEdit, Written, panel, record
<1> USE DEF Written, ConfigTypeOK
<1>3. ASSUME NEW i \in SaveIds, pending # None, Start(i), edits' = edits
      PROVE  /\ pending' = None
             /\ \A j \in SaveIds : saves'[j] # None =>
                  /\ Written(saves[j].body)'
                  /\ saves'[j].undo # None => Written(saves[j].undo)'
  BY <1>3 DEF Start
<1>4. CASE Flush
  BY <1>3, <1>4 DEF Flush, counters, record
<1>5. CASE ClosePanel
  BY <1>3, <1>5 DEF ClosePanel, counters
<1>6. CASE OpenPanel
  BY <1>6 DEF OpenPanel, record
<1>7. ASSUME NEW i \in SaveIds, ReadTheme(i) PROVE Numbers'
  BY <1>7 DEF ReadTheme, At, panel, counters, record, Mutations
<1>8. ASSUME NEW i \in SaveIds, StoreConfig(i) PROVE Numbers'
  BY <1>8 DEF StoreConfig, At, panel, counters, record, Mutations
<1>9. ASSUME NEW i \in SaveIds, Conflict(i) PROVE Numbers'
  BY <1>9 DEF Conflict, At, panel, counters, record, Mutations
<1>10. ASSUME NEW i \in SaveIds, LoseSave(i) PROVE Numbers'
  BY <1>10 DEF LoseSave, At, panel, Mutations
<1>11. ASSUME NEW i \in SaveIds, TryAgain(i) PROVE Numbers'
  BY <1>11 DEF TryAgain, At, panel, counters, record, Mutations
<1>12. ASSUME NEW i \in SaveIds, Succeed(i) PROVE Numbers'
  BY <1>12 DEF Succeed, NoFetch, Blank, counters, record
<1>13. ASSUME NEW i \in SaveIds, Fail(i) PROVE Numbers'
  BY <1>13 DEF Fail, At, counters
<1>14. CASE ThemeReads
  BY <1>14 DEF ThemeReads, panel, counters, record
<1>15. CASE ThemeArrives
  BY <1>15 DEF ThemeArrives, NoFetch, Blank, panel, counters, record
<1>16. CASE UNCHANGED configVars
  BY <1>16 DEF configVars, panel, counters, record
<1> QED
  BY <1>1, <1>2, <1>4, <1>5, <1>6, <1>7, <1>8, <1>9, <1>10, <1>11, <1>12, <1>13, <1>14,
     <1>15,
     <1>16
  DEF ConfigNext

-----------------------------------------------------------------------------
(* The window.                                                             *)

LEMMA WindowInit == ConfigInit => OneAtATime /\ WindowInv /\ BackInv
BY DEF ConfigInit, OneAtATime, WindowInv, BackInv, Current, Changes, Settled, ShowsRow,
       Under,
       NoFetch, Blank, AllSaved, Quiet

\* An edit with nothing under way makes the document shown the pending one.
LEMMA EditsWindow ==
  ASSUME ConfigTypeOK, Numbers, OneAtATime, WindowInv, Quiet, NEW s \in Settings, EditSetting(s)
  PROVE  /\ OneAtATime' /\ WindowInv'
         /\ pending' = cache' /\ snapshot' = (IF snapshot = None THEN cache ELSE snapshot)
         /\ snapshot = None => AllSaved
<1>1. /\ cache' = [cache EXCEPT ![s] = edits + 1] /\ cache' \in Configs /\ pending' \in Configs
      /\ edits' = edits + 1 /\ edits' \in 0 .. MaxEdits /\ typed' \in Configs
  BY EditedDoc
<1>2. /\ \A i \in SaveIds : ~Under(i) /\ ~Under(i)'
      /\ fetch.state = "idle" /\ fetch' = fetch
      /\ saves' = saves /\ refused' = refused /\ row' = row
      /\ typed' = [typed EXCEPT ![s] = edits + 1]
      /\ snapshot' = (IF snapshot = None THEN cache ELSE snapshot)
  BY DEF Quiet, EditSetting, Under
<1>3. pending' = cache'
  <2> DEFINE basis == IF pending = None THEN cache' ELSE pending
  <2>1. pending' = [t \in Settings |-> IF t \in Carried[s] THEN cache'[t] ELSE basis[t]]
    BY <1>1 DEF EditSetting
  <2>2. \A t \in Settings \ {s} : basis[t] = cache'[t]
    BY <1>1 DEF WindowInv, ConfigTypeOK, Configs
  <2>3. s \in Carried[s]
    BY DEF CarriedAssumption
  <2> HIDE DEF basis
  <2> QED
    <3>1. pending' = [t \in Settings |-> cache'[t]]
      BY <2>1, <2>2, <2>3
    <3>2. cache' = [t \in Settings |-> cache'[t]]
      BY <1>1 DEF Configs
    <3> QED
      BY <3>1, <3>2
<1>4. snapshot = None => AllSaved
  BY <1>2 DEF WindowInv, AllSaved, Quiet, Under
<1>5. pending' # None /\ snapshot' # None
  BY <1>1, <1>2 DEF ConfigTypeOK
<1>6. OneAtATime'
  BY <1>2, <1>5 DEF OneAtATime
<1>7. Current(cache)'
  BY <1>1, <1>2 DEF Current, WindowInv, ConfigTypeOK, Configs
<1>8. Changes(pending, snapshot)'
  <2>1. snapshot' \in Configs /\ Written(snapshot')
    BY <1>2 DEF ConfigTypeOK, Numbers
  <2>2. snapshot'[s] # edits + 1
    BY <1>1, <2>1, ConfigNats DEF Written, ConfigTypeOK, Configs
  <2>3. \A t \in Settings \ {s} : Settled(t) => Settled(t)'
    BY <1>2 DEF Settled, Elsewhere, ConfigTypeOK, Configs
  <2>4. cache'[s] = typed'[s] /\ typed'[s] = edits + 1
    BY <1>1, <1>2 DEF ConfigTypeOK, Configs
  <2>5. \A t \in Settings \ {s} : cache'[t] = cache[t] /\ typed'[t] = typed[t]
    BY <1>1, <1>2 DEF ConfigTypeOK, Configs
  <2>6. \A t \in Settings \ {s} : \/ cache[t] = typed[t] /\ cache[t] # snapshot'[t]
                                  \/ cache[t] = snapshot'[t] /\ Settled(t)
    <3>1. CASE snapshot = None
      BY <1>2, <1>4, <3>1 DEF WindowInv
    <3>2. CASE snapshot # None
      <4>1. pending = cache /\ Changes(pending, snapshot)
        BY <1>2, <3>2 DEF OneAtATime, WindowInv
      <4>2. snapshot' = snapshot
        BY <1>2, <3>2
      <4>3. \A t \in Settings : \/ cache[t] = typed[t] /\ cache[t] # snapshot[t]
                                \/ cache[t] = snapshot[t] /\ Settled(t)
        BY <4>1 DEF Changes
      <4> QED
        BY <4>2, <4>3
    <3> QED
      BY <3>1, <3>2
  <2> QED
    BY <1>3, <2>2, <2>3, <2>4, <2>5, <2>6 DEF Changes
<1>9. WindowInv'
  BY <1>2, <1>3, <1>5, <1>7, <1>8 DEF WindowInv, AllSaved
<1> QED
  BY <1>2, <1>3, <1>4, <1>6, <1>9

\* The start of a save makes it the one thing under way.
LEMMA StartsAlone ==
  ASSUME ConfigTypeOK, OneAtATime, WindowInv, NEW i \in SaveIds, pending # None, Start(i),
         UNCHANGED <<row, cache, fetch, typed, refused>>,
         (snapshot' = snapshot /\ newest' = i) \/ snapshot' = None
  PROVE  OneAtATime' /\ WindowInv' /\ \A j \in SaveIds : saves'[j] # None => j = i
<1>1. /\ \A j \in SaveIds : ~Under(j)
      /\ fetch.state = "idle" /\ pending = cache /\ snapshot # None
      /\ Current(pending) /\ Changes(pending, snapshot)
  BY DEF OneAtATime, WindowInv
<1>2. /\ pending' = None
      /\ saves' = [saves EXCEPT ![i] = [body |-> pending, undo |-> snapshot, base |-> 0, try |-> 1,
                                       at |-> "sent"]]
  BY DEF Start
<1>3. \A j \in SaveIds : saves'[j] # None =>
        /\ j = i /\ saves'[j].body = pending /\ saves'[j].undo = snapshot /\ saves'[j].at = "sent"
  BY <1>1, <1>2 DEF ConfigTypeOK, Under
<1>4. saves'[i] # None
  <2>1. [body |-> pending, undo |-> snapshot, base |-> 0, try |-> 1, at |-> "sent"] \in Mutations
    BY DEF Mutations, ConfigTypeOK
  <2> QED
    BY <1>2, <2>1 DEF ConfigTypeOK
<1>5. OneAtATime'
  BY <1>1, <1>2, <1>3, <1>4 DEF OneAtATime, Under
<1>6. \A s \in Settings : Settled(s)' <=> Settled(s)
  BY DEF Settled, Elsewhere
<1>7. WindowInv'
  BY <1>1, <1>2, <1>3, <1>4, <1>6 DEF WindowInv, Under, Current, Changes, AllSaved, Quiet
<1> QED
  BY <1>3, <1>5, <1>7

\* A step of a save on its way to the row or back to the page.
LEMMA SaveMoves ==
  ASSUME ConfigTypeOK, OneAtATime, WindowInv, NEW i \in SaveIds, Under(i), NEW m \in Mutations,
         saves' = [saves EXCEPT ![i] = m],
         m.body = saves[i].body, m.undo = saves[i].undo, m.at # "stored",
         UNCHANGED <<row, cache, fetch, panel, typed, refused>>
  PROVE  OneAtATime' /\ WindowInv'
<1>1. /\ saves'[i] = m /\ m # None /\ \A j \in SaveIds : Under(j)' <=> Under(j)
      /\ \A j \in SaveIds \ {i} : ~Under(j)
  BY DEF ConfigTypeOK, OneAtATime, Under
<1>2. \A s \in Settings : Settled(s)' <=> Settled(s)
  BY DEF Settled, Elsewhere
<1>3. OneAtATime'
  BY <1>1 DEF OneAtATime, panel
<1>4. ~AllSaved /\ ~AllSaved' /\ fetch.state = "idle" /\ pending = None /\ pending' = None
  BY <1>1 DEF AllSaved, Quiet, OneAtATime, Under, panel
<1>5. /\ Current(cache) /\ Current(saves[i].body) /\ saves[i].undo # None
      /\ Changes(saves[i].body, saves[i].undo)
  BY DEF WindowInv
<1>6. Current(cache)'
  BY <1>5 DEF Current
<1>7. saves'[i].body = saves[i].body /\ saves'[i].undo = saves[i].undo /\ saves'[i].at # "stored"
  BY <1>1
<1>8. Current(saves[i].body)'
  BY <1>5, <1>7 DEF Current
<1>9. Changes(saves[i].body, saves[i].undo)'
  BY <1>2, <1>5, <1>7 DEF Changes
<1> QED
  BY <1>1, <1>3, <1>4, <1>5, <1>6, <1>7, <1>8, <1>9 DEF WindowInv, Under

LEMMA WindowStep ==
  ASSUME ConfigTypeOK, Numbers, OneAtATime, WindowInv, [ConfigNext]_configVars, ~overlap'
  PROVE  OneAtATime' /\ WindowInv'
<1> DEFINE Goal == OneAtATime' /\ WindowInv'
<1>1. ASSUME NEW s \in Settings, EditSetting(s) PROVE Goal
  <2>1. Quiet
    BY <1>1 DEF EditSetting
  <2> QED
    BY <1>1, <2>1, EditsWindow
<1>2. ASSUME NEW s \in Settings, ForeignEdit(s) PROVE Goal
  <2>1. row'.config = [row.config EXCEPT ![s] = MaxEdits + foreign + 1]
    BY <1>2 DEF ForeignEdit
  <2>2. \A t \in Settings : Settled(t) => Settled(t)'
    BY <1>2, <2>1, ConfigNats
    DEF ForeignEdit, record, Settled, Elsewhere, ConfigTypeOK, Configs
  <2>3. UNCHANGED <<cache, fetch, pending, snapshot, newest, saves, typed, refused>>
    BY <1>2 DEF ForeignEdit, panel, record
  <2>4. OneAtATime'
    BY <2>3 DEF OneAtATime, Under
  <2>5. WindowInv'
    BY <2>2, <2>3 DEF WindowInv, Under, Current, Changes, AllSaved, Quiet
  <2> QED
    BY <2>4, <2>5
<1>3. CASE Flush
  <2>1. PICK i \in SaveIds : Start(i) /\ newest' = i
    BY <1>3 DEF Flush
  <2> QED
    BY <1>3, <2>1, StartsAlone DEF Flush, record
<1>4. CASE ClosePanel
  <2>1. UNCHANGED <<row, cache, fetch, typed, refused>> /\ snapshot' = None /\ newest' = None
    BY <1>4 DEF ClosePanel
  <2>2. CASE pending = None
    <3>1. UNCHANGED <<saves, pending>>
      BY <1>4, <2>2 DEF ClosePanel
    <3>2. \A s \in Settings : Settled(s)' <=> Settled(s)
      BY <2>1 DEF Settled, Elsewhere
    <3> QED
      BY <2>1, <2>2, <3>1, <3>2
      DEF OneAtATime, WindowInv, Under, Current, Changes, AllSaved, Quiet
  <2>3. CASE pending # None
    <3>1. PICK i \in SaveIds : Start(i)
      BY <1>4, <2>3 DEF ClosePanel
    <3> QED
      BY <2>1, <2>3, <3>1, StartsAlone
  <2> QED
    BY <2>2, <2>3
<1>5. CASE UNCHANGED <<row, cache, fetch, pending, snapshot, newest, saves, typed, refused>>
  <2>1. \A s \in Settings : Settled(s)' <=> Settled(s)
    BY <1>5 DEF Settled, Elsewhere
  <2> QED
    BY <1>5, <2>1 DEF OneAtATime, WindowInv, Under, Current, Changes, AllSaved, Quiet
<1>6. ASSUME NEW i \in SaveIds, ReadTheme(i) PROVE Goal
  <2>1. Under(i) /\ [saves[i] EXCEPT !.at = "read", !.base = row.version] \in Mutations
    BY <1>6, MovedSave DEF ReadTheme, At, Under
  <2> DEFINE m == [saves[i] EXCEPT !.at = "read", !.base = row.version]
  <2>2. m.body = saves[i].body /\ m.undo = saves[i].undo /\ m.at # "stored"
    BY <2>1, MutationParts DEF Mutations
  <2>3. /\ saves' = [saves EXCEPT ![i] = m]
        /\ UNCHANGED <<row, cache, fetch, panel, typed, refused>>
    BY <1>6 DEF ReadTheme, record
  <2> HIDE DEF m
  <2> QED
    BY <2>1, <2>2, <2>3, SaveMoves DEF m
<1>7. ASSUME NEW i \in SaveIds, Conflict(i) PROVE Goal
  <2>1. Under(i) /\ [saves[i] EXCEPT !.at = "conflict"] \in Mutations
    BY <1>7, MovedSave DEF Conflict, At, Under
  <2> DEFINE m == [saves[i] EXCEPT !.at = "conflict"]
  <2>2. m.body = saves[i].body /\ m.undo = saves[i].undo /\ m.at # "stored"
    BY <2>1, MutationParts DEF Mutations
  <2>3. /\ saves' = [saves EXCEPT ![i] = m]
        /\ UNCHANGED <<row, cache, fetch, panel, typed, refused>>
    BY <1>7 DEF Conflict, record
  <2> HIDE DEF m
  <2> QED
    BY <2>1, <2>2, <2>3, SaveMoves DEF m
<1>8. ASSUME NEW i \in SaveIds, LoseSave(i) PROVE Goal
  <2>1. Under(i) /\ [saves[i] EXCEPT !.at = "failed"] \in Mutations
    BY <1>8, MovedSave DEF LoseSave, At, Under
  <2> DEFINE m == [saves[i] EXCEPT !.at = "failed"]
  <2>2. m.body = saves[i].body /\ m.undo = saves[i].undo /\ m.at # "stored"
    BY <2>1, MutationParts DEF Mutations
  <2>3. /\ saves' = [saves EXCEPT ![i] = m]
        /\ UNCHANGED <<row, cache, fetch, panel, typed, refused>>
    BY <1>8 DEF LoseSave
  <2> HIDE DEF m
  <2> QED
    BY <2>1, <2>2, <2>3, SaveMoves DEF m
<1>9. ASSUME NEW i \in SaveIds, TryAgain(i) PROVE Goal
  <2> DEFINE m == IF saves[i].try = 1 THEN [saves[i] EXCEPT !.try = 2, !.at = "sent"]
                                      ELSE [saves[i] EXCEPT !.at = "failed"]
  <2>1. Under(i) /\ m \in Mutations
    BY <1>9, MovedSave DEF TryAgain, At, Under
  <2>2. m.body = saves[i].body /\ m.undo = saves[i].undo /\ m.at # "stored"
    BY <2>1, MutationParts DEF Mutations
  <2>3. /\ saves' = [saves EXCEPT ![i] = m]
        /\ UNCHANGED <<row, cache, fetch, panel, typed, refused>>
    BY <1>9 DEF TryAgain, record
  <2> HIDE DEF m
  <2> QED
    BY <2>1, <2>2, <2>3, SaveMoves
<1>10. ASSUME NEW i \in SaveIds, StoreConfig(i) PROVE Goal
  <2>1. Under(i) /\ saves[i] \in Mutations
    BY <1>10 DEF StoreConfig, At, Under, ConfigTypeOK
  <2>2. /\ UNCHANGED <<cache, fetch, pending, snapshot, newest, typed, refused>>
        /\ row'.config = saves[i].body
        /\ saves' = [saves EXCEPT ![i].at = "stored"]
    BY <1>10 DEF StoreConfig, panel, record
  <2>3. /\ saves'[i] # None /\ saves'[i].body = saves[i].body /\ saves'[i].undo = saves[i].undo
        /\ \A j \in SaveIds : Under(j)' <=> Under(j)
        /\ \A j \in SaveIds \ {i} : ~Under(j)
        /\ fetch.state = "idle" /\ pending = None
    <3>1. [saves[i] EXCEPT !.at = "stored"] \in Mutations
      BY <2>1 DEF Mutations
    <3> QED
      BY <2>1, <2>2, <3>1 DEF ConfigTypeOK, Mutations, Under, OneAtATime
  <2>4. \A s \in Settings : Settled(s)'
    BY <2>1, <2>2 DEF Settled, Elsewhere, WindowInv, Current
  <2>5. OneAtATime'
    BY <2>2, <2>3 DEF OneAtATime
  <2>6. Current(saves[i].body)' /\ Current(cache)'
    BY <2>1, <2>2, <2>3 DEF WindowInv, Current
  <2>7. Changes(saves[i].body, saves[i].undo)'
    BY <2>1, <2>2, <2>3, <2>4 DEF WindowInv, Changes
  <2>8. saves'[i].undo # None
    BY <2>1, <2>3 DEF WindowInv
  <2> QED
    BY <2>2, <2>3, <2>4, <2>5, <2>6, <2>7, <2>8 DEF WindowInv, Under
<1>11. ASSUME NEW i \in SaveIds, Succeed(i) PROVE Goal
  <2>1. Under(i) /\ saves[i].at = "stored"
    BY <1>11 DEF Succeed, At, Under
  <2>2. /\ saves' = [saves EXCEPT ![i] = None] /\ fetch'.state = "asked"
        /\ snapshot' = (IF newest = i THEN None ELSE snapshot)
        /\ UNCHANGED <<row, cache, pending, typed, refused>>
    BY <1>11 DEF Succeed, NoFetch, record
  <2>3. pending = None /\ snapshot' = None /\ \A j \in SaveIds : ~Under(j)'
    BY <2>1, <2>2 DEF OneAtATime, Under, ConfigTypeOK
  <2>4. \A s \in Settings : Settled(s)'
    BY <2>1, <2>2 DEF WindowInv, Settled, Elsewhere
  <2> QED
    BY <2>2, <2>3, <2>4 DEF OneAtATime, WindowInv, Current
<1>12. ASSUME NEW i \in SaveIds, Fail(i) PROVE Goal
  <2>1. Under(i) /\ saves[i].undo # None
    BY <1>12 DEF Fail, At, Under, WindowInv
  <2>2. /\ saves' = [saves EXCEPT ![i] = None]
        /\ cache' = (IF newest = i THEN saves[i].undo ELSE cache)
        /\ snapshot' = (IF newest = i THEN None ELSE snapshot)
        /\ refused' = refused \cup {saves[i].body[s] : s \in Window(i)}
        /\ UNCHANGED <<row, fetch, pending, typed>>
    BY <1>12, <2>1 DEF Fail
  <2>3. /\ pending = None /\ fetch.state = "idle" /\ snapshot' = None
        /\ \A j \in SaveIds : ~Under(j)'
    BY <2>1, <2>2 DEF OneAtATime, Under, ConfigTypeOK
  <2>4. Changes(saves[i].body, saves[i].undo) /\ Current(saves[i].body) /\ Current(cache)
    BY <2>1 DEF WindowInv
  <2>5. ASSUME NEW s \in Settings
        PROVE  \/ saves[i].body[s] = typed[s] /\ typed'[s] \in refused'
               \/ saves[i].body[s] = saves[i].undo[s] /\ Settled(s)
    <3>1. CASE saves[i].body[s] = typed[s] /\ saves[i].body[s] # saves[i].undo[s]
      BY <2>2, <3>1 DEF Window
    <3> QED
      BY <2>4, <3>1 DEF Changes
  <2>6. \A s \in Settings : Settled(s)'
    BY <2>2, <2>5 DEF Settled, Elsewhere
  <2>7. Current(cache)'
    BY <2>2, <2>4, <2>5 DEF Current
  <2> QED
    BY <2>2, <2>3, <2>6, <2>7 DEF OneAtATime, WindowInv
<1>13. CASE ThemeReads
  <2>1. /\ fetch.state = "asked" /\ fetch' = [state |-> "read", value |-> row.config]
        /\ UNCHANGED <<row, cache, pending, snapshot, newest, saves, typed, refused>>
    BY <1>13 DEF ThemeReads, panel, record
  <2>2. pending = None /\ \A i \in SaveIds : ~Under(i) /\ ~Under(i)'
    BY <2>1 DEF OneAtATime, Under
  <2>3. \A s \in Settings : Settled(s)'
    BY <2>1 DEF WindowInv, Settled, Elsewhere
  <2>4. Current(fetch.value)' /\ Current(cache)'
    BY <2>1, <2>3 DEF Current, Settled, Elsewhere, WindowInv
  <2> QED
    BY <2>1, <2>2, <2>3, <2>4 DEF OneAtATime, WindowInv
<1>14. CASE ThemeArrives
  <2>1. /\ fetch.state = "read" /\ fetch'.state = "idle" /\ cache' = fetch.value
        /\ UNCHANGED <<row, pending, snapshot, newest, saves, typed, refused>>
    BY <1>14 DEF ThemeArrives, NoFetch, panel, record
  <2>2. pending = None /\ \A i \in SaveIds : ~Under(i) /\ ~Under(i)'
    BY <2>1 DEF OneAtATime, Under
  <2>3. \A s \in Settings : Settled(s)'
    BY <2>1 DEF WindowInv, Settled, Elsewhere
  <2>4. Current(cache)'
    BY <2>1 DEF Current, WindowInv
  <2> QED
    BY <2>1, <2>2, <2>3, <2>4 DEF OneAtATime, WindowInv
<1>15. CASE OpenPanel
  BY <1>5, <1>15 DEF OpenPanel, record
<1>16. CASE UNCHANGED configVars
  BY <1>5, <1>16 DEF configVars, panel, record
<1> QED
  BY <1>1, <1>2, <1>3, <1>4, <1>6, <1>7, <1>8, <1>9, <1>10, <1>11, <1>12, <1>13, <1>14,
     <1>15,
     <1>16
  DEF ConfigNext

-----------------------------------------------------------------------------
(* The rollback.                                                           *)

LEMMA BackStep ==
  ASSUME ConfigTypeOK, Numbers, OneAtATime, WindowInv, BackInv, [ConfigNext]_configVars,
         ~overlap', ~left', ~lost'
  PROVE  BackInv'
<1>1. ASSUME NEW s \in Settings, EditSetting(s) PROVE BackInv'
  <2>1. Quiet
    BY <1>1 DEF EditSetting
  <2>2. /\ snapshot' = (IF snapshot = None THEN cache ELSE snapshot)
        /\ snapshot = None => AllSaved
        /\ pending' # None
    BY <1>1, <2>1, EditsWindow, EditedDoc
  <2>3. UNCHANGED <<row, fetch, saves>>
    BY <1>1 DEF EditSetting
  <2>4. ShowsRow(snapshot)'
    <3>1. CASE snapshot = None
      BY <2>2, <2>3, <3>1 DEF BackInv, ShowsRow, Elsewhere
    <3>2. CASE snapshot # None
      <4>1. ShowsRow(snapshot)
        BY <2>1, <3>2 DEF BackInv, OneAtATime, Quiet, Under
      <4> QED
        BY <2>2, <2>3, <3>2, <4>1 DEF ShowsRow, Elsewhere
    <3> QED
      BY <3>1, <3>2
  <2> QED
    BY <2>1, <2>2, <2>3, <2>4 DEF BackInv, AllSaved, Quiet, Under
<1>2. ASSUME NEW s \in Settings, ForeignEdit(s) PROVE BackInv'
  <2>1. row'.config = [row.config EXCEPT ![s] = MaxEdits + foreign + 1]
    BY <1>2 DEF ForeignEdit
  <2>2. UNCHANGED <<cache, fetch, pending, snapshot, newest, saves>>
    BY <1>2 DEF ForeignEdit, panel
  <2>3. ASSUME NEW c, \A t \in Settings : c[t] = row.config[t] \/ row.config[t] > MaxEdits
        PROVE  \A t \in Settings : c[t] = row'.config[t] \/ row'.config[t] > MaxEdits
    BY <2>1, <2>3, ConfigNats DEF ConfigTypeOK, Configs
  <2> QED
    BY <2>2, <2>3 DEF BackInv, ShowsRow, Elsewhere, Under, AllSaved, Quiet
<1>3. ASSUME NEW i \in SaveIds, pending # None, Start(i), newest' = i, snapshot' = snapshot,
             UNCHANGED <<row, cache, fetch, typed, refused>>
      PROVE  BackInv'
  <2>1. /\ \A j \in SaveIds : saves'[j] # None => j = i
        /\ pending' = None /\ fetch.state = "idle"
    BY <1>3, StartsAlone DEF Start, OneAtATime
  <2>2. saves'[i] # None /\ saves'[i].undo = snapshot
    <3>1. [body |-> pending, undo |-> snapshot, base |-> 0, try |-> 1, at |-> "sent"] \in Mutations
      BY <1>3 DEF Mutations, ConfigTypeOK
    <3> QED
      BY <1>3, <3>1 DEF Start, ConfigTypeOK
  <2>3. ShowsRow(snapshot)
    BY <1>3 DEF BackInv
  <2> QED
    BY <1>3, <2>1, <2>2, <2>3 DEF BackInv, ShowsRow, Elsewhere, Under, AllSaved, Quiet
<1>4. CASE Flush
  <2>1. PICK i \in SaveIds : Start(i) /\ newest' = i
    BY <1>4 DEF Flush
  <2> QED
    BY <1>3, <1>4, <2>1 DEF Flush, record
<1>5. CASE ClosePanel
  <2>1. AllSaved
    BY <1>5 DEF ClosePanel
  <2>2. UNCHANGED <<row, cache, fetch, saves, pending>>
    BY <1>5, <2>1 DEF ClosePanel, AllSaved
  <2> QED
    BY <2>1, <2>2 DEF BackInv, ShowsRow, Elsewhere, Under, AllSaved, Quiet
<1>6. CASE UNCHANGED <<row, cache, fetch, pending, snapshot, newest, saves>>
  BY <1>6 DEF BackInv, ShowsRow, Elsewhere, Under, AllSaved, Quiet
<1>7. ASSUME NEW i \in SaveIds, Under(i), NEW m \in Mutations,
             saves' = [saves EXCEPT ![i] = m], m.undo = saves[i].undo,
             m.at # "stored" => saves[i].at # "stored",
             UNCHANGED <<row, cache, fetch, pending, snapshot, newest>>
      PROVE  BackInv'
  <2>1. /\ saves'[i] = m /\ m # None /\ \A j \in SaveIds : Under(j)' <=> Under(j)
        /\ \A j \in SaveIds \ {i} : ~Under(j)
    BY <1>7 DEF ConfigTypeOK, OneAtATime, Under
  <2>2. newest = i /\ (saves[i].at # "stored" => ShowsRow(saves[i].undo))
    BY <1>7 DEF BackInv
  <2>3. saves'[i].at # "stored" => ShowsRow(saves[i].undo)'
    BY <1>7, <2>1, <2>2 DEF ShowsRow, Elsewhere
  <2>4. pending = None /\ fetch.state = "idle" /\ ~AllSaved'
    BY <1>7, <2>1 DEF OneAtATime, AllSaved, Quiet, Under
  <2> QED
    BY <1>7, <2>1, <2>2, <2>3, <2>4 DEF BackInv, Under
<1>8. ASSUME NEW i \in SaveIds, ReadTheme(i) PROVE BackInv'
  <2> DEFINE m == [saves[i] EXCEPT !.at = "read", !.base = row.version]
  <2>1. Under(i) /\ saves[i].at = "sent" /\ m \in Mutations
    BY <1>8, MovedSave DEF ReadTheme, At, Under
  <2>2. m.undo = saves[i].undo
    BY <2>1, MutationParts DEF Mutations
  <2>3. saves' = [saves EXCEPT ![i] = m]
    BY <1>8 DEF ReadTheme
  <2> HIDE DEF m
  <2> QED
    BY <1>7, <1>8, <2>1, <2>2, <2>3 DEF ReadTheme, panel
<1>9. ASSUME NEW i \in SaveIds, StoreConfig(i) PROVE BackInv'
  <2>1. Under(i) /\ saves[i] \in Mutations
    BY <1>9 DEF StoreConfig, At, Under, ConfigTypeOK
  <2>2. [saves[i] EXCEPT !.at = "stored"] \in Mutations
    BY <2>1 DEF Mutations
  <2>3. /\ saves'[i] # None /\ saves'[i].at = "stored"
        /\ \A j \in SaveIds \ {i} : ~Under(j)'
        /\ pending = None /\ fetch.state = "idle" /\ newest = i
    BY <1>9, <2>1, <2>2 DEF StoreConfig, ConfigTypeOK, Mutations, Under, OneAtATime, BackInv
  <2> QED
    BY <1>9, <2>3 DEF StoreConfig, panel, BackInv, Under, AllSaved, Quiet
<1>10. ASSUME NEW i \in SaveIds, Conflict(i) PROVE BackInv'
  <2> DEFINE m == [saves[i] EXCEPT !.at = "conflict"]
  <2>1. Under(i) /\ saves[i].at = "read" /\ m \in Mutations
    BY <1>10, MovedSave DEF Conflict, At, Under
  <2>2. m.undo = saves[i].undo
    BY <2>1, MutationParts DEF Mutations
  <2>3. saves' = [saves EXCEPT ![i] = m]
    BY <1>10 DEF Conflict
  <2> HIDE DEF m
  <2> QED
    BY <1>7, <1>10, <2>1, <2>2, <2>3 DEF Conflict, panel
<1>11. ASSUME NEW i \in SaveIds, LoseSave(i) PROVE BackInv'
  <2> DEFINE m == [saves[i] EXCEPT !.at = "failed"]
  <2>1. Under(i) /\ saves[i].at # "stored" /\ m \in Mutations
    BY <1>11, MovedSave DEF LoseSave, At, Under
  <2>2. m.undo = saves[i].undo
    BY <2>1, MutationParts DEF Mutations
  <2>3. saves' = [saves EXCEPT ![i] = m]
    BY <1>11 DEF LoseSave
  <2> HIDE DEF m
  <2> QED
    BY <1>7, <1>11, <2>1, <2>2, <2>3 DEF LoseSave, panel
<1>12. ASSUME NEW i \in SaveIds, TryAgain(i) PROVE BackInv'
  <2> DEFINE m == IF saves[i].try = 1 THEN [saves[i] EXCEPT !.try = 2, !.at = "sent"]
                                      ELSE [saves[i] EXCEPT !.at = "failed"]
  <2>1. Under(i) /\ saves[i].at = "conflict" /\ m \in Mutations
    BY <1>12, MovedSave DEF TryAgain, At, Under
  <2>2. m.undo = saves[i].undo
    BY <2>1, MutationParts DEF Mutations
  <2>3. saves' = [saves EXCEPT ![i] = m]
    BY <1>12 DEF TryAgain
  <2> HIDE DEF m
  <2> QED
    BY <1>7, <1>12, <2>1, <2>2, <2>3 DEF TryAgain, panel
<1>13. ASSUME NEW i \in SaveIds, Succeed(i) PROVE BackInv'
  <2>1. /\ Under(i) /\ saves' = [saves EXCEPT ![i] = None] /\ fetch'.state = "asked"
        /\ pending' = pending
    BY <1>13 DEF Succeed, At, Under, NoFetch
  <2>2. pending = None /\ \A j \in SaveIds : ~Under(j)'
    BY <2>1 DEF OneAtATime, Under, ConfigTypeOK
  <2> QED
    BY <2>1, <2>2 DEF BackInv, AllSaved, Quiet
<1>14. ASSUME NEW i \in SaveIds, Fail(i) PROVE BackInv'
  <2>1. Under(i) /\ saves[i].at = "failed" /\ saves[i].undo # None
    BY <1>14 DEF Fail, At, Under, WindowInv
  <2>2. newest = i /\ ShowsRow(saves[i].undo)
    BY <2>1 DEF BackInv
  <2>3. /\ saves' = [saves EXCEPT ![i] = None] /\ cache' = saves[i].undo
        /\ UNCHANGED <<row, fetch, pending>>
    BY <1>14, <2>1, <2>2 DEF Fail
  <2>4. pending = None /\ fetch.state = "idle" /\ \A j \in SaveIds : ~Under(j)'
    BY <2>1, <2>3 DEF OneAtATime, Under, ConfigTypeOK
  <2>5. ShowsRow(cache)'
    BY <2>2, <2>3 DEF ShowsRow, Elsewhere
  <2> QED
    BY <2>3, <2>4, <2>5 DEF BackInv
<1>15. CASE ThemeReads
  <2>1. /\ fetch.state = "asked" /\ fetch' = [state |-> "read", value |-> row.config]
        /\ UNCHANGED <<row, pending, saves>>
    BY <1>15 DEF ThemeReads, panel
  <2>2. pending = None /\ \A i \in SaveIds : ~Under(i)'
    BY <2>1 DEF OneAtATime, Under
  <2> QED
    BY <2>1, <2>2 DEF BackInv, ShowsRow, AllSaved, Quiet
<1>16. CASE ThemeArrives
  <2>1. /\ fetch.state = "read" /\ fetch'.state = "idle" /\ cache' = fetch.value
        /\ UNCHANGED <<row, pending, saves>>
    BY <1>16 DEF ThemeArrives, NoFetch, panel
  <2>2. pending = None /\ (\A i \in SaveIds : ~Under(i)') /\ ShowsRow(fetch.value)
    BY <2>1 DEF OneAtATime, BackInv, Under
  <2>3. ShowsRow(cache)'
    BY <2>1, <2>2 DEF ShowsRow, Elsewhere
  <2> QED
    BY <2>1, <2>2, <2>3 DEF BackInv
<1>17. CASE OpenPanel
  BY <1>6, <1>17 DEF OpenPanel
<1>18. CASE UNCHANGED configVars
  BY <1>6, <1>18 DEF configVars, panel
<1> QED
  BY <1>1, <1>2, <1>4, <1>5, <1>8, <1>9, <1>10, <1>11, <1>12, <1>13, <1>14, <1>15, <1>16,
     <1>17,
     <1>18
  DEF ConfigNext

-----------------------------------------------------------------------------
\* The history flags are never taken back.
LEMMA FlagsStay == [ConfigNext]_configVars => /\ overlap => overlap'
                                              /\ left => left'
                                              /\ lost => lost'
<1> SUFFICES ASSUME [ConfigNext]_configVars
             PROVE  (overlap => overlap') /\ (left => left') /\ (lost => lost')
  OBVIOUS
<1>1. ASSUME NEW s \in Settings, EditSetting(s)
      PROVE  (overlap => overlap') /\ left' = left /\ lost' = lost
  BY <1>1 DEF EditSetting
<1>2. CASE ClosePanel
  BY <1>2 DEF ClosePanel
<1>3. ASSUME NEW i \in SaveIds, LoseSave(i)
      PROVE  (lost => lost') /\ left' = left /\ overlap' = overlap
  BY <1>3 DEF LoseSave
<1>4. CASE UNCHANGED <<overlap, left, lost>>
  BY <1>4
<1>5. ASSUME NEW i \in SaveIds,
             ReadTheme(i) \/ StoreConfig(i) \/ Conflict(i) \/ TryAgain(i) \/ Succeed(i) \/ Fail(i)
      PROVE  UNCHANGED <<overlap, left, lost>>
  BY <1>5 DEF ReadTheme, StoreConfig, Conflict, TryAgain, Succeed, Fail, record
<1>6. ASSUME NEW s \in Settings, ForeignEdit(s) PROVE UNCHANGED <<overlap, left, lost>>
  BY <1>6 DEF ForeignEdit, record
<1>7. ASSUME Flush \/ OpenPanel \/ ThemeReads \/ ThemeArrives \/ UNCHANGED configVars
      PROVE  UNCHANGED <<overlap, left, lost>>
  BY <1>7 DEF Flush, OpenPanel, ThemeReads, ThemeArrives, configVars, record
<1> QED
  BY <1>1, <1>2, <1>3, <1>4, <1>5, <1>6, <1>7 DEF ConfigNext

LEMMA ConfigInvStep == ConfigInv /\ [ConfigNext]_configVars => ConfigInv'
BY ConfigTypeStep, NumbersStep, WindowStep, BackStep, FlagsStay DEF ConfigInv

LEMMA ConfigInvAlways == ConfigSpec => []ConfigInv
<1>1. ConfigInit => ConfigInv
  BY ConfigTypeInit, ConfigNumbersInit, WindowInit DEF ConfigInv
<1> QED
  BY <1>1, ConfigInvStep, PTL DEF ConfigSpec

(* The types of the document, of its copies and of the saves.              *)
THEOREM ConfigTypes == ConfigSpec => []ConfigTypeOK
<1>1. ConfigInv => ConfigTypeOK
  BY DEF ConfigInv
<1> QED
  BY <1>1, ConfigInvAlways, PTL

(* No edit is lost: when all is quiet, one that was made with nothing      *)
(* under way is on the server or was refused with a message.               *)
THEOREM NoEditIsLost == ConfigSpec => []EditsAreSaved
<1>1. ConfigInv => EditsAreSaved
  BY DEF ConfigInv, WindowInv, Settled, EditsAreSaved
<1> QED
  BY <1>1, ConfigInvAlways, PTL

(* A refused save takes back the edits of its window and no other.         *)
THEOREM RollbackToStored == ConfigSpec => []RollbackIsWhole
<1>1. ConfigInv => RollbackIsWhole
  BY DEF ConfigInv, BackInv, ShowsRow, RollbackIsWhole
<1> QED
  BY <1>1, ConfigInvAlways, PTL
=============================================================================
