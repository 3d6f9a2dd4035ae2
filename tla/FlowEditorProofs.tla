-------------------------- MODULE FlowEditorProofs --------------------------
(***************************************************************************)
(* Proofs about FlowEditor, for every set of scenes and every bound: its    *)
(* types, and that the stored flow joins stored scenes without a circle.    *)
(***************************************************************************)
EXTENDS FlowEditor, TLAPS

USE ScenesAssumption, BoundsAssumption

-----------------------------------------------------------------------------
(* Graphs                                                                  *)

LEMMA EmptyType == Empty \in Graphs
BY DEF Empty, Graphs, Texts

LEMMA GraphOfType == ASSUME NEW ns PROVE GraphOf(ns) \in Graphs
<1>1. [n \in Scenes |-> IF n \in ns THEN 0 ELSE None] \in [Scenes -> Texts \cup {None}]
  BY DEF Texts
<1> QED BY <1>1, EmptyType DEF GraphOf, Graphs

LEMMA WithTextType ==
  ASSUME NEW g \in Graphs, NEW n, NEW t \in Texts
  PROVE  WithText(g, n, t) \in Graphs
BY DEF WithText, Has, Graphs

LEMMA WithoutType ==
  ASSUME NEW g \in Graphs, NEW n
  PROVE  Without(g, n) \in Graphs
<1> DEFINE text == [g.text EXCEPT ![n] = None]
           next == [m \in Scenes |-> IF m = n \/ g.next[m] = n THEN None ELSE g.next[m]]
           twice == IF g.twice = n THEN None ELSE g.twice
<1>1. text \in [Scenes -> Texts \cup {None}] BY DEF Graphs
<1>2. next \in [Scenes -> Scenes \cup {None}] BY DEF Graphs
<1>3. twice \in Scenes \cup {None} BY DEF Graphs
<1>4. Without(g, n) = [g EXCEPT !.text = text, !.next = next, !.twice = twice]
  BY DEF Without, Graphs
<1> HIDE DEF text, next, twice
<1> QED BY <1>1, <1>2, <1>3, <1>4 DEF Graphs

\* A scene that is connected anew.
LEMMA LineType ==
  ASSUME NEW g \in Graphs, NEW m \in Scenes, NEW n \in Scenes \cup {None}
  PROVE  [g EXCEPT !.next[m] = n] \in Graphs
BY DEF Graphs

LEMMA SceneType ==
  ASSUME NEW g \in Graphs, NEW n \in Scenes, NEW t \in Texts
  PROVE  [g EXCEPT !.text[n] = t] \in Graphs /\ [g EXCEPT !.twice = n] \in Graphs
BY DEF Graphs

LEMMA FetchTypes == Idle \in Fetches /\ Asked \in Fetches
BY EmptyType DEF Idle, Asked, Fetches

-----------------------------------------------------------------------------
(* Requests                                                                *)

LEMMA PutType == ASSUME NEW g \in Graphs PROVE Put(g) \in Requests
BY DEF Put, Requests

LEMMA PostType == ASSUME NEW n \in Scenes, NEW t \in Texts PROVE Post(n, t) \in Requests
BY DEF Post, Requests, Outcomes

LEMMA DeleteType == ASSUME NEW n \in Scenes PROVE Delete(n) \in Requests
BY DEF Delete, Requests, Outcomes

LEMMA PatchType ==
  ASSUME NEW n \in Scenes, NEW b \in Bodies, NEW g \in Graphs
  PROVE  Patch(n, b, g) \in Requests
BY DEF Patch, Requests, Outcomes, Bodies

LEMMA UnheardType ==
  ASSUME NEW r \in Requests
  PROVE  [r EXCEPT !.live = FALSE] \in Requests
BY DEF Requests

LEMMA RepliedType ==
  ASSUME NEW r \in Requests, r.kind # "put", NEW out \in Outcomes
  PROVE  [r EXCEPT !.out = out] \in Requests
BY DEF Requests

LEMMA DeafType ==
  ASSUME NEW s \in Seq(Requests), NEW kinds
  PROVE  Deaf(s, kinds) \in Seq(Requests)
<1>1. \A i \in 1 .. Len(s) : s[i] \in Requests
  OBVIOUS
<1>2. DOMAIN s = 1 .. Len(s) /\ Len(s) \in Nat
  OBVIOUS
<1>3. Deaf(s, kinds) \in [1 .. Len(s) -> Requests]
  BY <1>1, <1>2, UnheardType DEF Deaf
<1> QED BY <1>2, <1>3

LEMMA RemoveAtType ==
  ASSUME NEW s \in Seq(Requests), NEW i \in DOMAIN s
  PROVE  RemoveAt(s, i) \in Seq(Requests)
<1>1. i \in 1 .. Len(s) /\ Len(s) \in Nat
  OBVIOUS
<1>2. SubSeq(s, 1, i - 1) \in Seq(Requests)
  BY <1>1
<1>3. SubSeq(s, i + 1, Len(s)) \in Seq(Requests)
  BY <1>1
<1> QED BY <1>2, <1>3 DEF RemoveAt

LEMMA SendType ==
  ASSUME NEW s \in Seq(Requests), NEW r \in Requests, Send(s, r)
  PROVE  net' \in Seq(Requests)
BY DeafType DEF Send

-----------------------------------------------------------------------------
(* The steps keep the types                                                *)

LEMMA InitType == Init => TypeOK
<1> SUFFICES ASSUME Init PROVE TypeOK OBVIOUS
<1>1. server \in Graphs BY EmptyType, GraphOfType DEF Init
<1>2. cached \in Graphs /\ screen \in Graphs BY <1>1, EmptyType DEF Init
<1>3. used \subseteq Scenes BY DEF Init
<1>4. fetch \in Fetches BY FetchTypes DEF Init
<1>5. net \in Seq(Requests) BY DEF Init
<1>6. events \in 0 .. MaxEvents BY DEF Init
<1>7. behind \in BOOLEAN /\ mounted \in BOOLEAN /\ unmeasured \in BOOLEAN /\ mishap \in BOOLEAN
  BY DEF Init
<1>8. timer = None /\ selected = None /\ patch = None BY DEF Init
<1> QED BY <1>1, <1>2, <1>3, <1>4, <1>5, <1>6, <1>7, <1>8 DEF TypeOK

LEMMA ShownType ==
  ASSUME TypeOK, NEW g \in Graphs, Adopt(g)
  PROVE  screen' \in Graphs /\ unmeasured' \in BOOLEAN /\ mounted' \in BOOLEAN
BY DEF Adopt, TypeOK

LEMMA SetDataType ==
  ASSUME TypeOK, NEW g \in Graphs, SetData(g)
  PROVE  /\ cached' \in Graphs /\ screen' \in Graphs
         /\ unmeasured' \in BOOLEAN /\ mounted' \in BOOLEAN
<1>1. CASE mounted /\ g # cached BY <1>1, ShownType DEF SetData
<1>2. CASE ~(mounted /\ g # cached) BY <1>2 DEF SetData, TypeOK
<1> QED BY <1>1, <1>2

LEMMA PendingType ==
  ASSUME TypeOK, patch # None
  PROVE  /\ selected \in Scenes /\ patch \in Bodies /\ patch.text \in Texts
         /\ Patch(selected, patch, cached) \in Requests
         /\ WithText(cached, selected, patch.text) \in Graphs
<1>1. selected \in Scenes /\ patch \in Bodies BY DEF TypeOK
<1>2. patch.text \in Texts /\ cached \in Graphs BY <1>1 DEF Bodies, TypeOK
<1> QED BY <1>1, <1>2, PatchType, WithTextType

\* The panel's gone: its request is the last one and deaf.
LEMMA LeftType ==
  ASSUME TypeOK, patch # None, NEW kinds, NEW s \in Seq(Requests), NEW g \in Graphs
  PROVE  Deaf(Append(s, Patch(selected, patch, g)), kinds) \in Seq(Requests)
<1>1. Patch(selected, patch, g) \in Requests BY PatchType DEF TypeOK
<1>2. Append(s, Patch(selected, patch, g)) \in Seq(Requests) BY <1>1
<1> QED BY <1>2, DeafType

LEMMA OpenType == ASSUME TypeOK, Open PROVE TypeOK'
<1>1. net \in Seq(Requests) BY DEF TypeOK
<1>2. /\ screen' \in Graphs /\ net' \in Seq(Requests) /\ used' \subseteq Scenes
  <2>1. CASE cached # Empty BY <2>1 DEF Open, TypeOK
  <2>2. CASE cached = Empty
    <3>1. PICK n \in Scenes \ used : /\ screen' = Template(n)
                                     /\ used' = used \cup {n}
                                     /\ Send(net, Put(Template(n)))
      BY <2>2 DEF Open
    <3>2. Template(n) \in Graphs BY GraphOfType DEF Template
    <3> QED BY <1>1, <3>1, <3>2, PutType, SendType DEF TypeOK
  <2> QED BY <2>1, <2>2
<1>3. fetch' \in Fetches BY FetchTypes DEF Open, TypeOK
<1>4. events' \in 0 .. MaxEvents BY DEF Open, TypeOK
<1> QED BY <1>2, <1>3, <1>4 DEF Open, TypeOK, panel

LEMMA CloseType == ASSUME TypeOK, Close PROVE TypeOK'
<1>1. net \in Seq(Requests) /\ cached \in Graphs BY DEF TypeOK
<1>2. net' \in Seq(Requests) /\ cached' \in Graphs
  <2>1. CASE patch = None BY <1>1, <2>1, DeafType DEF Close
  <2>2. CASE patch # None BY <1>1, <2>2, LeftType, PendingType DEF Close
  <2> QED BY <2>1, <2>2
<1> QED BY <1>2, EmptyType DEF Close, TypeOK

LEMMA ClosePanelType ==
  ASSUME TypeOK, ClosePanel
  PROVE  /\ net' \in Seq(Requests) /\ cached' \in Graphs /\ screen' \in Graphs
         /\ unmeasured' \in BOOLEAN /\ mounted' \in BOOLEAN /\ patch' = None
<1>1. net \in Seq(Requests) /\ cached \in Graphs BY DEF TypeOK
<1>2. CASE patch = None BY <1>1, <1>2, DeafType DEF ClosePanel, TypeOK
<1>3. CASE patch # None BY <1>1, <1>3, LeftType, PendingType, SetDataType DEF ClosePanel
<1> QED BY <1>2, <1>3

LEMMA SelectionType == ASSUME TypeOK, SelectScene \/ Deselect PROVE TypeOK'
<1>1. CASE SelectScene BY <1>1 DEF SelectScene, TypeOK, AutoSave, query
<1>2. CASE Deselect
  <2>1. timer' \in Graphs BY <1>2 DEF Deselect, AutoSave, TypeOK
  <2> QED BY <1>2, <2>1, ClosePanelType DEF Deselect, TypeOK
<1> QED BY <1>1, <1>2

LEMMA DrawType ==
  ASSUME TypeOK, NEW g \in Graphs, Draw(g)
  PROVE  /\ screen' \in Graphs /\ timer' \in Graphs
         /\ unmeasured' \in BOOLEAN /\ mounted' \in BOOLEAN
BY DEF Draw, AutoSave, TypeOK

LEMMA GestureType == ASSUME TypeOK, Gesture PROVE events' \in 0 .. MaxEvents
BY DEF Gesture, TypeOK

LEMMA EditType == ASSUME TypeOK, NEW complete \in BOOLEAN, Edit(complete) PROVE TypeOK'
<1> DEFINE t == events + 1
<1>1. t \in Texts BY DEF Edit, Gesture, TypeOK, Texts
<1>2. WithText(screen, selected, t) \in Graphs BY <1>1, WithTextType DEF TypeOK
<1>3. Draw(WithText(screen, selected, t)) BY DEF Edit
<1>4. patch' = None \/ (patch' \in Bodies /\ selected' # None)
  BY <1>1 DEF Edit, TypeOK, Bodies
<1> HIDE DEF t
<1> QED BY <1>2, <1>3, <1>4, DrawType, GestureType DEF Edit, TypeOK, query

LEMMA LinesType ==
  ASSUME TypeOK, NEW m \in Scenes, NEW n \in Scenes, Connect(m, n) \/ Cut(m)
  PROVE  TypeOK'
<1>1. /\ [screen EXCEPT !.next[m] = n] \in Graphs
      /\ [screen EXCEPT !.next[m] = None] \in Graphs
  BY LineType DEF TypeOK
<1>2. /\ screen' \in Graphs /\ timer' \in Graphs
      /\ unmeasured' \in BOOLEAN /\ mounted' \in BOOLEAN
  BY <1>1, DrawType DEF Connect, Cut
<1> QED BY <1>2, GestureType DEF Connect, Cut, TypeOK, query, panel

LEMMA AskedType ==
  ASSUME TypeOK, SaveNow \/ AddScene \/ DeleteScene
  PROVE  TypeOK'
<1>1. net \in Seq(Requests) BY DEF TypeOK
<1>2. net' \in Seq(Requests) /\ used' \subseteq Scenes
  <2>1. CASE SaveNow BY <1>1, <2>1, PutType, SendType DEF SaveNow, TypeOK
  <2>2. CASE AddScene
    <3>1. PICK n \in Scenes \ used, t \in {0} \cup {screen.text[m] : m \in Shown(screen)} :
               used' = used \cup {n} /\ Send(net, Post(n, t))
      BY <2>2 DEF AddScene
    <3>2. t \in Texts BY <3>1 DEF Shown, Has, TypeOK, Graphs, Texts
    <3> QED BY <1>1, <3>1, <3>2, PostType, SendType DEF TypeOK
  <2>3. CASE DeleteScene BY <1>1, <2>3, DeleteType, SendType DEF DeleteScene, TypeOK
  <2> QED BY <2>1, <2>2, <2>3
<1> QED BY <1>2, GestureType DEF SaveNow, AddScene, DeleteScene, TypeOK, query, canvas, panel

LEMMA TimersType ==
  ASSUME TypeOK, Measure \/ TimerFires \/ PatchFires
  PROVE  TypeOK'
<1>1. net \in Seq(Requests) BY DEF TypeOK
<1>2. CASE Measure BY <1>2 DEF Measure, AutoSave, TypeOK, query, panel
<1>3. CASE TimerFires
  <2>1. net' \in Seq(Requests) BY <1>1, <1>3, PutType, SendType DEF TimerFires, TypeOK
  <2> QED BY <1>3, <2>1 DEF TimerFires, TypeOK, query, panel
<1>4. CASE PatchFires
  <2>1. net' \in Seq(Requests) BY <1>1, <1>4, PendingType, SendType DEF PatchFires, Flush
  <2>2. SetData(WithText(cached, selected, patch.text)) /\ patch # None
    BY <1>4 DEF PatchFires, Flush
  <2>3. /\ cached' \in Graphs /\ screen' \in Graphs
        /\ unmeasured' \in BOOLEAN /\ mounted' \in BOOLEAN
    BY <2>2, PendingType, SetDataType
  <2> QED BY <1>4, <2>1, <2>3 DEF PatchFires, Flush, TypeOK
<1> QED BY <1>2, <1>3, <1>4

LEMMA RequestAt ==
  ASSUME TypeOK, NEW i \in DOMAIN net
  PROVE  net[i] \in Requests /\ net \in Seq(Requests) /\ RemoveAt(net, i) \in Seq(Requests)
<1>1. net \in Seq(Requests) BY DEF TypeOK
<1>2. net[i] \in Requests BY <1>1
<1> QED BY <1>1, <1>2, RemoveAtType

LEMMA ReplyType ==
  ASSUME TypeOK, NEW i \in DOMAIN net, NEW out \in Outcomes, net[i].kind # "put", Reply(i, out)
  PROVE  net' \in Seq(Requests)
<1>1. net[i] \in Requests /\ net \in Seq(Requests) BY RequestAt
<1>2. [net[i] EXCEPT !.out = out] \in Requests BY <1>1, RepliedType
<1>3. net' = [net EXCEPT ![i] = [net[i] EXCEPT !.out = out]] BY <1>1 DEF Reply
<1> QED BY <1>1, <1>2, <1>3

\* What a request carries.
LEMMA Carried ==
  ASSUME NEW r \in Requests
  PROVE  /\ r.kind = "put" => r.graph \in Graphs
         /\ r.kind # "put" => r.node \in Scenes
         /\ r.kind \in {"post", "patch"} => r.text \in Texts
         /\ r.kind = "patch" => r.prev \in Graphs
BY DEF Requests

LEMMA ArrivesType == ASSUME TypeOK, Arrives PROVE TypeOK'
<1> PICK i \in DOMAIN net : PutArrives(i) \/ PostArrives(i) \/ ChangeArrives(i) \/ NotFound(i)
  BY DEF Arrives
<1>1. net[i] \in Requests /\ RemoveAt(net, i) \in Seq(Requests) BY RequestAt
<1>2. server \in Graphs BY DEF TypeOK
<1>3. /\ server' \in Graphs /\ net' \in Seq(Requests) /\ behind' \in BOOLEAN
      /\ fetch' \in Fetches /\ mishap' \in BOOLEAN
  <2>1. CASE PutArrives(i)
    BY <1>1, <1>2, <2>1, Carried DEF PutArrives, Write, AfterSave, TypeOK
  <2>2. CASE PostArrives(i)
    BY <1>1, <1>2, <2>2, Carried, SceneType, ReplyType DEF PostArrives, Write, TypeOK, Outcomes
  <2>3. CASE ChangeArrives(i)
    <3>1. /\ net[i].kind = "patch" => WithText(server, net[i].node, net[i].text) \in Graphs
          /\ Without(server, net[i].node) \in Graphs
      BY <1>1, <1>2, Carried, WithTextType, WithoutType
    <3> QED BY <2>3, <3>1, ReplyType DEF ChangeArrives, Write, TypeOK, Outcomes
  <2>4. CASE NotFound(i) BY <1>2, <2>4, ReplyType DEF NotFound, TypeOK, Outcomes
  <2> QED BY <2>1, <2>2, <2>3, <2>4
<1> QED BY <1>3 DEF Arrives, TypeOK, canvas, panel

LEMMA LostType == ASSUME TypeOK, Lost PROVE TypeOK'
<1> PICK i \in DOMAIN net : Fault(i) BY DEF Lost
<1>1. net' \in Seq(Requests) BY RequestAt, ReplyType DEF Fault, Outcomes
<1>2. events' \in 0 .. MaxEvents BY DEF Fault, TypeOK
<1> QED BY <1>1, <1>2 DEF Fault, TypeOK, query, canvas, panel

LEMMA FetchReadsType == ASSUME TypeOK, FetchNodes \/ FetchEdges PROVE TypeOK'
<1>1. CASE FetchNodes
  <2>1. fetch' \in Fetches BY <1>1 DEF FetchNodes, TypeOK, Fetches
  <2> QED BY <1>1, <2>1 DEF FetchNodes, TypeOK, canvas, panel
<1>2. CASE FetchEdges
  <2>1. [fetch.value EXCEPT !.next = server.next] \in Graphs BY DEF TypeOK, Fetches, Graphs
  <2>2. fetch' \in Fetches BY <1>2, <2>1 DEF FetchEdges, TypeOK, Fetches
  <2> QED BY <1>2, <2>2 DEF FetchEdges, TypeOK, canvas, panel
<1> QED BY <1>1, <1>2

LEMMA FetchArrivesType == ASSUME TypeOK, FetchArrives PROVE TypeOK'
<1>1. fetch.value \in Graphs /\ net \in Seq(Requests) BY DEF TypeOK, Fetches
<1>2. /\ screen' \in Graphs /\ unmeasured' \in BOOLEAN /\ mounted' \in BOOLEAN
  BY <1>1, ShownType DEF FetchArrives, TypeOK
<1>3. /\ net' \in Seq(Requests) /\ selected' \in Scenes \cup {None}
      /\ patch' = None \/ (patch' \in Bodies /\ selected' # None)
  BY <1>1, LeftType, DeafType DEF FetchArrives, TypeOK, panel
<1>4. cached' \in Graphs /\ fetch' \in Fetches BY <1>1, FetchTypes DEF FetchArrives
<1> QED BY <1>2, <1>3, <1>4 DEF FetchArrives, TypeOK

LEMMA CreatedType ==
  ASSUME TypeOK, NEW i \in DOMAIN net, Created(i)
  PROVE  /\ screen' \in Graphs /\ (timer' = None \/ timer' \in Graphs)
         /\ unmeasured' \in BOOLEAN /\ mounted' \in BOOLEAN
<1> DEFINE n == net[i].node
           t == net[i].text
           drawn == IF Has(screen, n) THEN [screen EXCEPT !.twice = n]
                    ELSE [screen EXCEPT !.text[n] = t]
<1>1. net[i] \in Requests /\ net[i].kind = "post" BY RequestAt DEF Created, Answered
<1>2. n \in Scenes /\ t \in Texts BY <1>1, Carried
<1> HIDE DEF n, t
<1>3. drawn \in Graphs BY <1>2, SceneType DEF TypeOK
<1>4. CASE net[i].live
  <2>1. Draw(drawn) BY <1>4 DEF Created, n, t
  <2> HIDE DEF drawn
  <2> QED BY <1>3, <2>1, DrawType
<1>5. CASE ~net[i].live BY <1>5 DEF Created, canvas, TypeOK
<1> QED BY <1>4, <1>5

LEMMA DeletedType == 
  ASSUME TypeOK, NEW i \in DOMAIN net, Deleted(i)
  PROVE  /\ net' \in Seq(Requests) /\ cached' \in Graphs /\ screen' \in Graphs
         /\ timer' = None \/ timer' \in Graphs
         /\ unmeasured' \in BOOLEAN /\ mounted' \in BOOLEAN
         /\ selected' \in Scenes \cup {None}
         /\ patch' = None \/ (patch' \in Bodies /\ selected' # None)
<1> DEFINE n == net[i].node
           kept == WithText(cached, n, patch.text)
           left == Without(screen, n)
<1>1. net[i] \in Requests /\ net \in Seq(Requests) /\ RemoveAt(net, i) \in Seq(Requests)
  BY RequestAt
<1>2. left \in Graphs BY WithoutType DEF TypeOK
<1>3. CASE net[i].live /\ selected = n /\ patch # None
  <2>1. kept \in Graphs BY <1>3, PendingType
  <2>2. /\ net' = Deaf(Append(RemoveAt(net, i), Patch(selected, patch, cached)), {"patch"})
        /\ cached' = kept /\ timer' = left
        /\ screen' = IF kept # cached THEN kept ELSE left
        /\ unmeasured' = (unmeasured \/ kept # cached) /\ mounted' = mounted
        /\ selected' = None /\ patch' = None
    BY <1>3 DEF Deleted, AutoSave
  <2>3. net' \in Seq(Requests) BY <1>1, <1>3, <2>2, LeftType DEF TypeOK
  <2> HIDE DEF n, kept, left
  <2> QED BY <1>2, <2>1, <2>2, <2>3 DEF TypeOK
<1>4. CASE ~(net[i].live /\ selected = n /\ patch # None)
  <2>1. net' \in Seq(Requests) BY <1>1, <1>4, DeafType DEF Deleted
  <2>2. cached' = cached BY <1>4 DEF Deleted
  <2>3. /\ screen' \in Graphs /\ (timer' = None \/ timer' \in Graphs)
        /\ unmeasured' \in BOOLEAN /\ mounted' \in BOOLEAN
    <3>1. CASE net[i].live
      <4>1. Draw(left) BY <1>4, <3>1 DEF Deleted
      <4> HIDE DEF left
      <4> QED BY <1>2, <4>1, DrawType
    <3>2. CASE ~net[i].live BY <1>4, <3>2 DEF Deleted, TypeOK, canvas
    <3> QED BY <3>1, <3>2
  <2>4. /\ selected' \in Scenes \cup {None}
        /\ patch' = None \/ (patch' \in Bodies /\ selected' # None)
    BY <1>4 DEF Deleted, TypeOK, panel
  <2> QED BY <2>1, <2>2, <2>3, <2>4 DEF TypeOK
<1> QED BY <1>3, <1>4

LEMMA AnswerType == ASSUME TypeOK, AnswerComes PROVE TypeOK'
<1> PICK i \in DOMAIN net : Created(i) \/ Deleted(i) \/ Patched(i) \/ Refused(i)
  BY DEF AnswerComes
<1>1. net[i] \in Requests /\ RemoveAt(net, i) \in Seq(Requests) BY RequestAt
<1>2. Refetch => fetch' \in Fetches /\ behind' \in BOOLEAN
  BY FetchTypes DEF Refetch, TypeOK, Fetches
<1> USE DEF AnswerComes
<1>3. CASE Created(i)
  BY <1>1, <1>2, <1>3, CreatedType DEF Created, TypeOK, panel
<1>4. CASE Deleted(i)
  <2>1. Refetch BY <1>4 DEF Deleted
  <2> QED BY <1>2, <1>4, <2>1, DeletedType DEF TypeOK
<1>5. CASE Patched(i)
  BY <1>1, <1>2, <1>5 DEF Patched, TypeOK, canvas, panel
<1>6. CASE Refused(i)
  <2>1. /\ cached' \in Graphs /\ screen' \in Graphs
        /\ unmeasured' \in BOOLEAN /\ mounted' \in BOOLEAN
    <3>1. CASE net[i].kind = "patch" /\ net[i].live
      BY <1>1, <1>6, <3>1, Carried, SetDataType DEF Refused
    <3>2. CASE ~(net[i].kind = "patch" /\ net[i].live) BY <1>6, <3>2 DEF Refused, TypeOK
    <3> QED BY <3>1, <3>2
  <2> QED BY <1>1, <1>6, <2>1 DEF Refused, TypeOK, panel
<1> QED BY <1>3, <1>4, <1>5, <1>6

LEMMA StepType == ASSUME TypeOK, [Next]_vars PROVE TypeOK'
<1>1. CASE User
  BY <1>1, OpenType, CloseType, SelectionType, EditType, LinesType, AskedType DEF User
<1>2. CASE System
  BY <1>2, TimersType, ArrivesType, FetchReadsType, AnswerType, FetchArrivesType DEF System
<1>3. CASE Lost BY <1>3, LostType
<1>4. CASE UNCHANGED vars BY <1>4 DEF vars, query, canvas, panel, TypeOK
<1> QED BY <1>1, <1>2, <1>3, <1>4 DEF Next

\* The types of the page, of the requests and of the server hold in every
\* state, whatever is sent, answered, lost or read in between.
THEOREM TypeCorrect == Spec => []TypeOK
<1> QED BY InitType, StepType, PTL DEF Spec

-----------------------------------------------------------------------------
(* The stored flow is sound                                                *)

LEMMA EmptySound ==
  ASSUME NEW next, next = [n \in Scenes |-> None]
  PROVE  Acyclic(next) /\ \A m \in Scenes : next[m] = None
<1>1. \A m \in Scenes : next[m] = None OBVIOUS
<1>2. Acyclic(next)
  <2> SUFFICES ASSUME NEW S \in SUBSET Scenes, S # {} PROVE \E m \in S : next[m] \notin S
    BY DEF Acyclic
  <2>1. PICK m \in S : TRUE OBVIOUS
  <2>2. m \in Scenes /\ None \notin S OBVIOUS
  <2> QED BY <1>1, <2>1, <2>2
<1> QED BY <1>1, <1>2

\* Leaving a scene out with its lines keeps the rest sound.
LEMMA WithoutSound ==
  ASSUME NEW g \in Graphs, NEW n \in Scenes, Acyclic(g.next),
         \A m \in Scenes : g.next[m] # None => Has(g, m) /\ Has(g, g.next[m])
  PROVE  LET h == Without(g, n)
         IN  /\ Acyclic(h.next)
             /\ \A m \in Scenes : h.next[m] # None => Has(h, m) /\ Has(h, h.next[m])
<1> DEFINE h == Without(g, n)
<1>1. h \in Graphs BY WithoutType
<1>2. /\ \A m \in Scenes : h.next[m] = IF m = n \/ g.next[m] = n THEN None ELSE g.next[m]
      /\ \A m \in Scenes : h.text[m] = IF m = n THEN None ELSE g.text[m]
  BY DEF Without, Graphs
<1>3. g.next \in [Scenes -> Scenes \cup {None}] BY DEF Graphs
<1> HIDE DEF h
<1>4. Acyclic(h.next)
  <2> SUFFICES ASSUME NEW S \in SUBSET Scenes, S # {} PROVE \E m \in S : h.next[m] \notin S
    BY DEF Acyclic
  <2>1. PICK m \in S : g.next[m] \notin S BY DEF Acyclic
  <2> QED BY <1>2, <2>1
<1>5. \A m \in Scenes : h.next[m] # None => Has(h, m) /\ Has(h, h.next[m])
  BY <1>2, <1>3 DEF Has
<1> QED BY <1>4, <1>5 DEF h

LEMMA SoundStep ==
  ASSUME TypeOK, StoredFlowIsSound, [Next]_vars
  PROVE  StoredFlowIsSound'
<1>1. CASE UNCHANGED server BY <1>1 DEF StoredFlowIsSound
<1>2. CASE Arrives
  <2> PICK i \in DOMAIN net : PutArrives(i) \/ PostArrives(i) \/ ChangeArrives(i) \/ NotFound(i)
    BY <1>2 DEF Arrives
  <2>1. net[i] \in Requests /\ server \in Graphs BY RequestAt DEF TypeOK
  <2>2. CASE PutArrives(i)
    BY <2>1, <2>2, <1>1 DEF PutArrives, Write, Valid, StoredFlowIsSound
  <2>3. CASE PostArrives(i)
    <3>1. net[i].node \in Scenes /\ net[i].text \in Texts BY <2>1, <2>3, Carried DEF PostArrives
    <3>2. /\ server'.next = server.next
          /\ \A m \in Scenes : Has(server, m) => Has(server', m)
      BY <2>1, <2>3, <3>1 DEF PostArrives, Write, Has, Graphs, Texts
    <3> QED BY <2>1, <3>2 DEF StoredFlowIsSound, Graphs
  <2>4. CASE ChangeArrives(i)
    <3>1. net[i].node \in Scenes BY <2>1, <2>4, Carried DEF ChangeArrives
    <3>2. CASE net[i].kind = "patch"
      <4>1. net[i].text \in Texts BY <2>1, <3>2, Carried
      <4>2. /\ server'.next = server.next
            /\ \A m \in Scenes : Has(server, m) => Has(server', m)
        BY <2>1, <2>4, <3>1, <3>2, <4>1 DEF ChangeArrives, Write, WithText, Has, Graphs, Texts
      <4> QED BY <2>1, <4>2 DEF StoredFlowIsSound, Graphs
    <3>3. CASE net[i].kind = "delete"
      <4>1. server' = Without(server, net[i].node) BY <2>4, <3>3 DEF ChangeArrives, Write
      <4> QED BY <2>1, <3>1, <4>1, WithoutSound DEF StoredFlowIsSound
    <3> QED BY <2>4, <3>2, <3>3 DEF ChangeArrives
  <2>5. CASE NotFound(i) BY <1>1, <2>5 DEF NotFound
  <2> QED BY <2>2, <2>3, <2>4, <2>5
<1>3. Arrives \/ UNCHANGED server
  BY DEF Next, User, System, Open, Close, SelectScene, Deselect, Edit, Cut, Connect, SaveNow,
         AddScene, DeleteScene, Measure, TimerFires, PatchFires, FetchNodes, FetchEdges,
         AnswerComes, FetchArrives, Lost, Fault, vars
<1> QED BY <1>1, <1>2, <1>3

\* However saves, creations, patches and deletions are interleaved, lost or
\* built on stale and torn reads, the stored lines join stored scenes and
\* make no circle: SaveFlow validates, DeleteNode takes its lines along.
THEOREM FlowSafety == Spec => []StoredFlowIsSound
<1>1. Init => StoredFlowIsSound
  <2> SUFFICES ASSUME Init PROVE StoredFlowIsSound OBVIOUS
  <2>1. Empty.next = [n \in Scenes |-> None] BY DEF Empty
  <2>2. GraphOf(Initial).next = [n \in Scenes |-> None] BY DEF GraphOf, Empty
  <2>3. server.next = [n \in Scenes |-> None] BY <2>1, <2>2 DEF Init
  <2> QED BY <2>3, EmptySound DEF StoredFlowIsSound
<1> QED BY <1>1, SoundStep, TypeCorrect, PTL DEF Spec

-----------------------------------------------------------------------------
(* The screen is saved                                                     *)

\* What the requests under way say of saves, and of answers still to come.
NoPut(requests) == \A i \in DOMAIN requests : requests[i].kind # "put"

LastPutIs(requests, g) ==
  \E i \in DOMAIN requests : /\ requests[i].kind = "put" /\ requests[i].graph = g
                             /\ \A j \in DOMAIN requests : j > i => requests[j].kind # "put"

SomeDone(requests) ==
  \E i \in DOMAIN requests : requests[i].kind # "put" /\ requests[i].out = "done"

\* A write that the screen does not have is going to be fetched, and adopted:
\* its answer is still to come, or the refetch it brought about is under way.
RefetchComes ==
  \/ SomeDone(net) /\ behind
  \/ fetch.state = "asked" /\ behind
  \/ fetch.state \in {"nodes", "read"} /\ fetch.fresh /\ fetch.value.start

\* The screen is what the timer will put, or else the last save under way, or
\* else what the server has, unless the refetch comes that will replace it.
Account ==
  /\ timer # None => timer = screen
  /\ timer = None /\ ~NoPut(net) => LastPutIs(net, screen)
  /\ timer = None /\ NoPut(net) => server.start /\ (server = screen \/ RefetchComes)

\* What is not measured yet will be put when it is.
SaveInv == mounted /\ ~mishap /\ ~unmeasured => Account

\* The requests after a step say what those before it said.
Follows(s, t) == /\ NoPut(s) <=> NoPut(t)
                 /\ \A g \in Graphs : LastPutIs(s, g) => LastPutIs(t, g)
                 /\ SomeDone(s) => SomeDone(t)

LEMMA DeafFollows ==
  ASSUME NEW s \in Seq(Requests), NEW kinds
  PROVE  Follows(s, Deaf(s, kinds)) /\ Deaf(s, kinds) \in Seq(Requests)
<1>1. DOMAIN Deaf(s, kinds) = DOMAIN s BY DEF Deaf
<1>2. ASSUME NEW i \in DOMAIN s
      PROVE  /\ Deaf(s, kinds)[i].kind = s[i].kind
             /\ s[i].kind = "put" => Deaf(s, kinds)[i].graph = s[i].graph
             /\ s[i].kind # "put" => Deaf(s, kinds)[i].out = s[i].out
  <2>1. s[i] \in Requests OBVIOUS
  <2>2. Deaf(s, kinds)[i] \in {s[i], [s[i] EXCEPT !.live = FALSE]} BY DEF Deaf
  <2> QED BY <2>1, <2>2 DEF Requests
<1> QED BY <1>1, <1>2, DeafType DEF Follows, NoPut, LastPutIs, SomeDone

LEMMA AppendFollows ==
  ASSUME NEW s \in Seq(Requests), NEW r \in Requests
  PROVE  /\ Append(s, r) \in Seq(Requests)
         /\ r.kind # "put" => Follows(s, Append(s, r))
         /\ r.kind = "put" => ~NoPut(Append(s, r)) /\ LastPutIs(Append(s, r), r.graph)
<1> DEFINE t == Append(s, r)
<1>1. /\ t \in Seq(Requests) /\ Len(s) \in Nat
      /\ DOMAIN s = 1 .. Len(s) /\ DOMAIN t = 1 .. Len(s) + 1
      /\ \A i \in 1 .. Len(s) : t[i] = s[i]
      /\ t[Len(s) + 1] = r
  OBVIOUS
<1> HIDE DEF t
<1>2. CASE r.kind # "put"
  <2>1. NoPut(s) <=> NoPut(t) BY <1>1, <1>2 DEF NoPut
  <2>2. \A g \in Graphs : LastPutIs(s, g) => LastPutIs(t, g) BY <1>1, <1>2 DEF LastPutIs
  <2>3. SomeDone(s) => SomeDone(t) BY <1>1 DEF SomeDone
  <2> QED BY <1>1, <1>2, <2>1, <2>2, <2>3 DEF Follows, t
<1>3. CASE r.kind = "put"
  <2>1. ~NoPut(t) /\ LastPutIs(t, r.graph) BY <1>1, <1>3 DEF NoPut, LastPutIs
  <2> QED BY <1>1, <1>3, <2>1 DEF t
<1> QED BY <1>2, <1>3

LEMMA FollowsOn ==
  ASSUME NEW s, NEW t, NEW u, Follows(s, t), Follows(t, u)
  PROVE  Follows(s, u)
BY DEF Follows

LEMMA SendFollows ==
  ASSUME TypeOK, NEW r \in Requests, Send(net, r)
  PROVE  /\ r.kind # "put" => Follows(net, net')
         /\ r.kind = "put" => ~NoPut(net') /\ LastPutIs(net', r.graph)
<1>1. net \in Seq(Requests) /\ net' = Append(Deaf(net, {r.kind}), r) BY DEF TypeOK, Send
<1>2. Follows(net, Deaf(net, {r.kind})) /\ Deaf(net, {r.kind}) \in Seq(Requests)
  BY <1>1, DeafFollows
<1> QED BY <1>1, <1>2, AppendFollows, FollowsOn

\* The panel's last request.
LEMMA LeftFollows ==
  ASSUME NEW s \in Seq(Requests), NEW r \in Requests, r.kind # "put", NEW kinds
  PROVE  Follows(s, Deaf(Append(s, r), kinds))
<1>1. Follows(s, Append(s, r)) /\ Append(s, r) \in Seq(Requests) BY AppendFollows
<1> QED BY <1>1, DeafFollows, FollowsOn

LEMMA RemoveAtIs ==
  ASSUME NEW s \in Seq(Requests), NEW i \in DOMAIN s
  PROVE  /\ RemoveAt(s, i) \in Seq(Requests)
         /\ DOMAIN s = 1 .. Len(s) /\ Len(s) \in Nat \ {0}
         /\ DOMAIN RemoveAt(s, i) = 1 .. Len(s) - 1
         /\ \A j \in 1 .. Len(s) - 1 : RemoveAt(s, i)[j] = IF j < i THEN s[j] ELSE s[j + 1]
<1>1. i \in 1 .. Len(s) /\ Len(s) \in Nat OBVIOUS
<1> DEFINE a == SubSeq(s, 1, i - 1)
           b == SubSeq(s, i + 1, Len(s))
<1>2. /\ a \in Seq(Requests) /\ Len(a) = i - 1
      /\ \A j \in 1 .. i - 1 : a[j] = s[j]
  BY <1>1
<1>3. /\ b \in Seq(Requests) /\ Len(b) = Len(s) - i
      /\ \A j \in 1 .. Len(s) - i : b[j] = s[i + j]
  BY <1>1
<1>4. RemoveAt(s, i) = a \o b BY DEF RemoveAt
<1> HIDE DEF a, b
<1>5. /\ Len(a \o b) = Len(s) - 1 /\ a \o b \in Seq(Requests)
      /\ \A j \in 1 .. Len(s) - 1 : (a \o b)[j] = IF j < i THEN s[j] ELSE s[j + 1]
  BY <1>1, <1>2, <1>3
<1> QED BY <1>1, <1>4, <1>5

\* A request that is answered, and is not a save, leaves the saves as they are.
LEMMA AnsweredFollows ==
  ASSUME NEW s \in Seq(Requests), NEW i \in DOMAIN s, s[i].kind # "put"
  PROVE  LET t == RemoveAt(s, i)
         IN  /\ NoPut(s) <=> NoPut(t)
             /\ \A g \in Graphs : LastPutIs(s, g) => LastPutIs(t, g)
             /\ s[i].out # "done" => Follows(s, t)
<1> DEFINE t == RemoveAt(s, i)
<1>1. /\ DOMAIN s = 1 .. Len(s) /\ Len(s) \in Nat \ {0} /\ DOMAIN t = 1 .. Len(s) - 1
      /\ \A j \in 1 .. Len(s) - 1 : t[j] = IF j < i THEN s[j] ELSE s[j + 1]
  BY RemoveAtIs
<1> HIDE DEF t
<1>2. /\ i \in 1 .. Len(s)
      /\ \A j \in 1 .. Len(s) : j < i => j \in 1 .. Len(s) - 1 /\ t[j] = s[j]
      /\ \A j \in 1 .. Len(s) : j > i => j - 1 \in 1 .. Len(s) - 1 /\ t[j - 1] = s[j]
  BY <1>1
<1>3. NoPut(s) => NoPut(t) BY <1>1, <1>2 DEF NoPut
<1>4. NoPut(t) => NoPut(s)
  <2> SUFFICES ASSUME NoPut(t), NEW j \in 1 .. Len(s) PROVE s[j].kind # "put"
    BY <1>1 DEF NoPut
  <2>1. CASE j < i BY <1>1, <1>2, <2>1 DEF NoPut
  <2>2. CASE j > i BY <1>1, <1>2, <2>2 DEF NoPut
  <2> QED BY <1>2, <2>1, <2>2
<1>5. ASSUME NEW g \in Graphs, LastPutIs(s, g) PROVE LastPutIs(t, g)
  <2>1. PICK k \in 1 .. Len(s) : /\ s[k].kind = "put" /\ s[k].graph = g
                                 /\ \A j \in 1 .. Len(s) : j > k => s[j].kind # "put"
    BY <1>1, <1>5 DEF LastPutIs
  <2> DEFINE l == IF k < i THEN k ELSE k - 1
  <2>2. k # i /\ l \in 1 .. Len(s) - 1 /\ t[l] = s[k] BY <1>2, <2>1
  <2>3. ASSUME NEW j \in 1 .. Len(s) - 1, j > l PROVE t[j].kind # "put"
    <3>1. CASE j < i BY <1>1, <1>2, <2>1, <2>3, <3>1
    <3>2. CASE ~(j < i)
      <4>1. j + 1 \in 1 .. Len(s) /\ t[j] = s[j + 1] /\ j + 1 > k
        BY <1>1, <1>2, <2>1, <2>2, <2>3, <3>2
      <4> QED BY <2>1, <4>1
    <3> QED BY <3>1, <3>2
  <2> HIDE DEF l
  <2> QED BY <1>1, <2>1, <2>2, <2>3 DEF LastPutIs
<1>6. ASSUME s[i].out # "done", SomeDone(s) PROVE SomeDone(t)
  <2>1. PICK k \in 1 .. Len(s) : s[k].kind # "put" /\ s[k].out = "done"
    BY <1>1, <1>6 DEF SomeDone
  <2>2. k < i \/ k > i BY <1>2, <1>6, <2>1
  <2> QED BY <1>1, <1>2, <2>1, <2>2 DEF SomeDone
<1> QED BY <1>3, <1>4, <1>5, <1>6 DEF Follows, t

\* The first of the saves arrives: it was the last one, too, or that is still
\* to come.
LEMMA SavedFollows ==
  ASSUME NEW s \in Seq(Requests), NEW i \in DOMAIN s, s[i].kind = "put",
         \A j \in 1 .. i - 1 : s[j].kind # "put", NEW g, LastPutIs(s, g)
  PROVE  LET t == RemoveAt(s, i)
         IN  \/ NoPut(t) /\ s[i].graph = g
             \/ ~NoPut(t) /\ LastPutIs(t, g)
<1> DEFINE t == RemoveAt(s, i)
<1>1. /\ DOMAIN s = 1 .. Len(s) /\ Len(s) \in Nat \ {0} /\ DOMAIN t = 1 .. Len(s) - 1
      /\ \A j \in 1 .. Len(s) - 1 : t[j] = IF j < i THEN s[j] ELSE s[j + 1]
  BY RemoveAtIs
<1> HIDE DEF t
<1>2. PICK k \in 1 .. Len(s) : /\ s[k].kind = "put" /\ s[k].graph = g
                               /\ \A j \in 1 .. Len(s) : j > k => s[j].kind # "put"
  BY <1>1 DEF LastPutIs
<1>3. CASE k = i
  <2>1. \A j \in 1 .. Len(s) : j # i => s[j].kind # "put" BY <1>1, <1>2, <1>3
  <2>2. NoPut(t) BY <1>1, <2>1 DEF NoPut
  <2> QED BY <1>2, <1>3, <2>2 DEF t
<1>4. CASE k > i
  <2>1. k - 1 \in 1 .. Len(s) - 1 /\ t[k - 1] = s[k] BY <1>1, <1>4
  <2>2. \A j \in 1 .. Len(s) - 1 : j > k - 1 => t[j].kind # "put" BY <1>1, <1>2, <1>4
  <2> QED BY <1>1, <1>2, <2>1, <2>2 DEF NoPut, LastPutIs, t
<1>5. k \in Nat /\ i \in Nat /\ ~(k < i) BY <1>1, <1>2
<1> QED BY <1>3, <1>4, <1>5

\* A step that leaves what the account speaks of.
LEMMA AccountKept ==
  ASSUME TypeOK, Account, UNCHANGED <<screen, timer, server, behind, fetch>>, Follows(net, net')
  PROVE  Account'
<1>1. screen \in Graphs BY DEF TypeOK
<1> QED BY <1>1 DEF Account, Follows, RefetchComes

\* A step that draws, or measures what was drawn.
LEMMA AccountDrawn ==
  ASSUME timer' = screen', screen' \in Graphs
  PROVE  Account'
BY GraphAssumption DEF Account

LEMMA SetDataScreen ==
  ASSUME TypeOK, NEW g, SetData(g)
  PROVE  UNCHANGED mounted /\ (unmeasured' = TRUE \/ UNCHANGED <<screen, unmeasured>>)
BY DEF SetData, Adopt, TypeOK

\* A mutation other than a save is answered, and the graph is refetched.
LEMMA AccountRefetched ==
  ASSUME TypeOK, Account, Refetch, UNCHANGED <<screen, timer, server>>,
         NEW i \in DOMAIN net, net[i].kind # "put", net' = RemoveAt(net, i)
  PROVE  Account'
<1>1. net \in Seq(Requests) /\ screen \in Graphs BY DEF TypeOK
<1>2. /\ NoPut(net) <=> NoPut(net')
      /\ LastPutIs(net, screen) => LastPutIs(net', screen)
  BY <1>1, AnsweredFollows
<1>3. RefetchComes => RefetchComes'
  <2>1. fetch' = Asked /\ Asked.state = "asked" /\ behind' = (behind \/ fetch.fresh)
    BY DEF Refetch, Asked, Idle
  <2> QED BY <2>1 DEF RefetchComes
<1> QED BY <1>1, <1>2, <1>3 DEF Account

\* The panel closes.
LEMMA ClosedPanelFollows ==
  ASSUME TypeOK, ClosePanel
  PROVE  /\ Follows(net, net')
         /\ UNCHANGED mounted /\ (unmeasured' = TRUE \/ UNCHANGED <<screen, unmeasured>>)
<1>1. net \in Seq(Requests) BY DEF TypeOK
<1>2. CASE patch = None BY <1>1, <1>2, DeafFollows DEF ClosePanel
<1>3. CASE patch # None
  <2>1. Patch(selected, patch, cached) \in Requests BY <1>3, PendingType
  <2>2. Patch(selected, patch, cached).kind # "put" BY DEF Patch
  <2>3. net' = Deaf(Append(net, Patch(selected, patch, cached)), {"patch"})
    BY <1>3 DEF ClosePanel
  <2>4. Follows(net, net') BY <1>1, <2>1, <2>2, <2>3, LeftFollows
  <2> QED BY <1>3, <2>4, SetDataScreen DEF ClosePanel
<1> QED BY <1>2, <1>3

\* The user's steps.
LEMMA UserSaves ==
  ASSUME TypeOK, TypeOK', SaveInv, User
  PROVE  SaveInv'
<1> SUFFICES ASSUME mounted', ~mishap', ~unmeasured' PROVE Account' BY DEF SaveInv
<1>0. screen' \in Graphs /\ net \in Seq(Requests) BY DEF TypeOK
<1>1. CASE Open \/ Close BY <1>1 DEF Open, Close
<1>2. CASE SelectScene BY <1>0, <1>2, AccountDrawn DEF SelectScene, AutoSave
<1>3. CASE Deselect
  <2>1. timer' = screen /\ screen' = screen
    BY <1>3, ClosedPanelFollows DEF Deselect, AutoSave
  <2> QED BY <1>0, <2>1, AccountDrawn
<1>4. CASE \/ \E complete \in BOOLEAN : Edit(complete)
           \/ \E m \in Scenes : Cut(m)
           \/ \E m, n \in Scenes : Connect(m, n)
  <2>1. PICK g : Draw(g) BY <1>4 DEF Edit, Cut, Connect
  <2>2. timer' = screen' BY <2>1 DEF Draw, AutoSave
  <2> QED BY <1>0, <2>2, AccountDrawn
<1>5. CASE SaveNow
  <2>1. Account /\ UNCHANGED <<screen, timer>> BY <1>5 DEF SaveNow, SaveInv, canvas
  <2>2. Put(screen) \in Requests /\ Put(screen).kind = "put" /\ Put(screen).graph = screen
    BY PutType DEF TypeOK, Put
  <2>3. ~NoPut(net') /\ LastPutIs(net', screen) BY <1>5, <2>2, SendFollows DEF SaveNow
  <2> QED BY <2>1, <2>3 DEF Account
<1>6. CASE AddScene \/ DeleteScene
  <2>1. Account /\ UNCHANGED <<screen, timer, server, behind, fetch>>
    BY <1>6 DEF AddScene, DeleteScene, SaveInv, canvas, query
  <2>2. Follows(net, net')
    <3>1. CASE AddScene
      <4>1. PICK n \in Scenes \ used, t \in {0} \cup {screen.text[m] : m \in Shown(screen)} :
                 used' = used \cup {n} /\ Send(net, Post(n, t))
        BY <3>1 DEF AddScene
      <4>2. t \in Texts BY <4>1 DEF Shown, Has, TypeOK, Graphs, Texts
      <4>3. Post(n, t) \in Requests /\ Post(n, t).kind # "put" BY <4>2, PostType DEF Post
      <4> QED BY <4>1, <4>3, SendFollows
    <3>2. CASE DeleteScene
      <4>1. Delete(selected) \in Requests /\ Delete(selected).kind # "put"
        BY <3>2, DeleteType DEF DeleteScene, TypeOK, Delete
      <4> QED BY <3>2, <4>1, SendFollows DEF DeleteScene
    <3> QED BY <1>6, <3>1, <3>2
  <2> QED BY <2>1, <2>2, AccountKept
<1> QED BY <1>1, <1>2, <1>3, <1>4, <1>5, <1>6 DEF User

\* The timers.
LEMMA TimersSave ==
  ASSUME TypeOK, TypeOK', SaveInv, Measure \/ TimerFires \/ PatchFires
  PROVE  SaveInv'
<1> SUFFICES ASSUME mounted', ~mishap', ~unmeasured' PROVE Account' BY DEF SaveInv
<1>0. screen' \in Graphs /\ net \in Seq(Requests) BY DEF TypeOK
<1>1. CASE Measure BY <1>0, <1>1, AccountDrawn DEF Measure, AutoSave
<1>2. CASE TimerFires
  <2>1. timer = screen /\ timer \in Graphs BY <1>2 DEF TimerFires, SaveInv, Account, TypeOK
  <2>2. Put(timer) \in Requests /\ Put(timer).kind = "put" /\ Put(timer).graph = timer
    BY <2>1, PutType DEF Put
  <2>3. ~NoPut(net') /\ LastPutIs(net', timer) BY <1>2, <2>2, SendFollows DEF TimerFires
  <2> QED BY <1>2, <2>1, <2>3 DEF TimerFires, Account
<1>3. CASE PatchFires
  <2>1. /\ patch # None /\ Send(net, Patch(selected, patch, cached))
        /\ SetData(WithText(cached, selected, patch.text))
        /\ UNCHANGED <<server, behind, fetch, timer, mishap>>
    BY <1>3 DEF PatchFires, Flush
  <2>2. UNCHANGED <<mounted, screen, unmeasured>> BY <2>1, SetDataScreen
  <2>3. Patch(selected, patch, cached) \in Requests /\ Patch(selected, patch, cached).kind # "put"
    BY <2>1, PendingType DEF Patch
  <2>4. Follows(net, net') BY <2>1, <2>3, SendFollows
  <2>5. Account BY <2>1, <2>2 DEF SaveInv
  <2> QED BY <2>1, <2>2, <2>4, <2>5, AccountKept
<1> QED BY <1>1, <1>2, <1>3

\* A reply changes no save, and says that a write is done.
LEMMA ReplyFollows ==
  ASSUME TypeOK, NEW i \in DOMAIN net, net[i].kind # "put", Reply(i, "done")
  PROVE  Follows(net, net') /\ SomeDone(net')
<1>1. net \in Seq(Requests) /\ net[i] \in Requests BY RequestAt
<1>2. /\ DOMAIN net' = DOMAIN net
      /\ \A j \in DOMAIN net : j # i => net'[j] = net[j]
      /\ net'[i].kind = net[i].kind /\ net'[i].out = "done"
  BY <1>1 DEF Reply, Requests
<1> QED BY <1>2 DEF Follows, NoPut, LastPutIs, SomeDone

LEMMA ArrivesSaves ==
  ASSUME TypeOK, SaveInv, Arrives
  PROVE  SaveInv'
<1> SUFFICES ASSUME mounted', ~mishap', ~unmeasured' PROVE Account' BY DEF SaveInv
<1>0. net \in Seq(Requests) /\ screen \in Graphs /\ server \in Graphs BY DEF TypeOK
<1>1. PICK i \in DOMAIN net : PutArrives(i) \/ PostArrives(i) \/ ChangeArrives(i) \/ NotFound(i)
  BY DEF Arrives
<1>2. UNCHANGED <<mounted, screen, unmeasured, timer>> BY DEF Arrives, canvas
<1>3. CASE PutArrives(i)
  <2>1. /\ net[i].kind = "put" /\ net' = RemoveAt(net, i) /\ Valid(net[i].graph)
        /\ server' = net[i].graph
        /\ \A j \in 1 .. i - 1 : net[j].kind # "put"
    BY <1>3 DEF PutArrives, Write
  <2>2. Account BY <1>2, <1>3 DEF SaveInv, PutArrives
  <2>3. CASE timer = None
    <3>1. LastPutIs(net, screen) BY <2>1, <2>2, <2>3 DEF Account, NoPut
    <3>2. \/ NoPut(net') /\ net[i].graph = screen
          \/ ~NoPut(net') /\ LastPutIs(net', screen)
      BY <1>0, <2>1, <3>1, SavedFollows
    <3> QED BY <1>2, <2>1, <2>3, <3>2 DEF Account, Valid
  <2>4. CASE timer # None BY <1>2, <2>2, <2>4 DEF Account
  <2> QED BY <2>3, <2>4
<1>4. CASE PostArrives(i) \/ ChangeArrives(i)
  <2>1. /\ net[i].kind # "put" /\ Reply(i, "done") /\ behind' = TRUE /\ UNCHANGED <<fetch, mishap>>
    BY <1>4 DEF PostArrives, ChangeArrives, Write
  <2>2. server'.start = server.start
    BY <1>0, <1>4 DEF PostArrives, ChangeArrives, Write, WithText, Without, Graphs
  <2>3. Account BY <1>2, <2>1 DEF SaveInv
  <2>4. Follows(net, net') /\ SomeDone(net') BY <2>1, ReplyFollows
  <2>5. RefetchComes' BY <2>1, <2>4 DEF RefetchComes
  <2> QED BY <1>0, <1>2, <2>2, <2>3, <2>4, <2>5 DEF Account, Follows
<1>5. CASE NotFound(i) BY <1>5 DEF NotFound
<1> QED BY <1>1, <1>3, <1>4, <1>5

LEMMA FetchSaves ==
  ASSUME TypeOK, SaveInv, FetchNodes \/ FetchEdges \/ FetchArrives
  PROVE  SaveInv'
<1> SUFFICES ASSUME mounted', ~mishap', ~unmeasured' PROVE Account' BY DEF SaveInv
<1>0. /\ net \in Seq(Requests) /\ screen \in Graphs /\ server \in Graphs
      /\ fetch \in Fetches
  BY DEF TypeOK
<1>1. CASE FetchNodes \/ FetchEdges
  <2>1. UNCHANGED <<mounted, screen, unmeasured, timer, net, server, mishap>>
    BY <1>1 DEF FetchNodes, FetchEdges, canvas
  <2>2. Account BY <2>1 DEF SaveInv
  <2>3. server.start /\ RefetchComes => RefetchComes'
    <3>1. CASE FetchNodes BY <1>0, <3>1 DEF FetchNodes, RefetchComes
    <3>2. CASE FetchEdges
      <4>1. /\ fetch'.state = "read" /\ fetch'.value.start = fetch.value.start
            /\ fetch.fresh => fetch'.fresh
        BY <1>0, <3>2 DEF FetchEdges, Fetches, Graphs
      <4> QED BY <3>2, <4>1, <2>1 DEF FetchEdges, RefetchComes
    <3> QED BY <1>1, <3>1, <3>2
  <2> QED BY <2>1, <2>2, <2>3 DEF Account
<1>2. CASE FetchArrives
  <2>1. /\ fetch.state = "read" /\ fetch' = Idle /\ UNCHANGED <<server, behind, timer, mishap>>
    BY <1>2 DEF FetchArrives
  <2>2. fetch.value \in Graphs /\ fetch.fresh \in BOOLEAN BY <1>0 DEF Fetches
  <2>3. UNCHANGED <<mounted, screen, unmeasured>>
    BY <1>2 DEF FetchArrives, Adopt, TypeOK
  <2>4. ~(fetch.fresh /\ fetch.value.start)
    <3>1. fetch.fresh => fetch.value = Empty BY <1>2, <2>3 DEF FetchArrives, Adopt
    <3> QED BY <3>1 DEF Empty
  <2>5. Follows(net, net')
    <3>1. Follows(net, net) BY DEF Follows
    <3>2. ASSUME patch # None
          PROVE  Follows(net, Deaf(Append(net, Patch(selected, patch, fetch.value)), {"patch"}))
      <4>1. /\ Patch(selected, patch, fetch.value) \in Requests
            /\ Patch(selected, patch, fetch.value).kind # "put"
        BY <2>2, <3>2, PatchType DEF TypeOK, Patch
      <4> QED BY <1>0, <4>1, LeftFollows
    <3>3. Follows(net, Deaf(net, {"patch"})) BY <1>0, DeafFollows
    <3> QED BY <1>2, <3>1, <3>2, <3>3 DEF FetchArrives
  <2>6. Account BY <2>1, <2>3 DEF SaveInv
  <2>7. RefetchComes => RefetchComes'
    BY <2>1, <2>4, <2>5 DEF RefetchComes, Follows
  <2> QED BY <1>0, <2>1, <2>3, <2>5, <2>6, <2>7 DEF Account, Follows
<1> QED BY <1>1, <1>2

LEMMA AnswerSaves ==
  ASSUME TypeOK, TypeOK', SaveInv, AnswerComes
  PROVE  SaveInv'
<1> SUFFICES ASSUME mounted', ~mishap', ~unmeasured' PROVE Account' BY DEF SaveInv
<1>0. net \in Seq(Requests) /\ screen \in Graphs /\ screen' \in Graphs BY DEF TypeOK
<1>1. PICK i \in DOMAIN net : Created(i) \/ Deleted(i) \/ Patched(i) \/ Refused(i)
  BY DEF AnswerComes
<1>2. UNCHANGED <<server, mishap>> BY DEF AnswerComes
<1>3. CASE net[i].live /\ (Created(i) \/ Deleted(i))
  <2>1. timer' = screen'
    <3>1. CASE Created(i) BY <1>3, <3>1 DEF Created, Draw, AutoSave
    <3>2. CASE Deleted(i) BY <1>3, <3>2 DEF Deleted, Draw, AutoSave
    <3> QED BY <1>3, <3>1, <3>2
  <2> QED BY <1>0, <2>1, AccountDrawn
<1>4. CASE Patched(i) \/ (~net[i].live /\ (Created(i) \/ Deleted(i)))
  <2>1. /\ net[i].kind # "put" /\ net' = RemoveAt(net, i) /\ Refetch
        /\ UNCHANGED <<mounted, screen, unmeasured, timer>>
    BY <1>4 DEF Patched, Created, Deleted, Answered, canvas
  <2>2. Account BY <1>2, <2>1 DEF SaveInv
  <2> QED BY <1>2, <2>1, <2>2, AccountRefetched
<1>5. CASE Refused(i)
  <2>1. /\ net[i].kind # "put" /\ net[i].out # "done" /\ net' = RemoveAt(net, i)
        /\ UNCHANGED <<behind, fetch, timer>>
    BY <1>5 DEF Refused
  <2>2. UNCHANGED <<mounted, screen, unmeasured>> BY <1>5, SetDataScreen DEF Refused
  <2>3. Follows(net, net') BY <1>0, <2>1, AnsweredFollows
  <2>4. Account BY <1>2, <2>2 DEF SaveInv
  <2> QED BY <1>2, <2>1, <2>2, <2>3, <2>4, AccountKept
<1> QED BY <1>1, <1>3, <1>4, <1>5

LEMMA SaveStep ==
  ASSUME TypeOK, TypeOK', SaveInv, [Next]_vars
  PROVE  SaveInv'
<1>1. CASE UNCHANGED vars
  BY <1>1 DEF vars, query, canvas, SaveInv, Account, RefetchComes
<1>2. CASE Lost BY <1>2 DEF Lost, Fault, SaveInv
<1>3. CASE System
  BY <1>3, TimersSave, ArrivesSaves, FetchSaves, AnswerSaves DEF System
<1> QED BY <1>1, <1>2, <1>3, UserSaves DEF Next

\* When all is quiet the server has what the open canvas shows: whatever
\* replaces the screen, or was drawn on it, is measured, put by the timer or
\* already under way as the last save, and every other write to the server is
\* fetched and adopted.
THEOREM ScreenSafety == Spec => []ScreenIsSaved
<1>1. Init => SaveInv BY DEF Init, SaveInv
<1>2. TypeOK /\ SaveInv => ScreenIsSaved
  <2> SUFFICES ASSUME SaveInv, AtRest, mounted, ~mishap PROVE screen = server
    BY DEF ScreenIsSaved
  <2>1. NoPut(net) /\ ~SomeDone(net) BY DEF AtRest, NoPut, SomeDone
  <2> QED BY <2>1 DEF SaveInv, AtRest, Account, RefetchComes
<1>3. TypeOK /\ TypeOK' /\ SaveInv /\ [Next]_vars => SaveInv' BY SaveStep
<1> QED BY <1>1, <1>2, <1>3, TypeCorrect, PTL DEF Spec
=============================================================================
