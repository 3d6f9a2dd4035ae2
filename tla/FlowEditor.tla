----------------------------- MODULE FlowEditor -----------------------------
(***************************************************************************)
(* The editor of a theme's flow of scenes: the hook useFlowData behind the *)
(* canvas, the panel of the selected scene, the query they share           *)
(* (apps/web/src), and the server's flow service                           *)
(* (apps/server/internal/domain/flow).                                     *)
(*                                                                         *)
(* A gesture on the canvas changes the screen and starts a timer, and the  *)
(* timer puts the whole graph.  The panel also patches the one scene, and  *)
(* shows its patch in the query's cache.  Creating, deleting and patching  *)
(* a scene refetch the graph, putting it does not.  Every new value of the *)
(* query replaces the screen.                                              *)
(*                                                                         *)
(* A graph says whether it has its start, the text of each scene in it,    *)
(* the scene that follows each, and which scene occurs twice.  A text is   *)
(* the number of the gesture that typed it.                                *)
(***************************************************************************)
EXTENDS Naturals, SequencesExt

CONSTANTS Scenes,       \* the ids of scenes
          Initial,      \* the scenes of a theme that has a flow
          MaxEvents,    \* gestures of the user, and requests lost
          MaxRequests,  \* requests under way at a time, the refetch included
          None

ASSUME ScenesAssumption == Initial \subseteq Scenes /\ None \notin Scenes \cup Nat
ASSUME BoundsAssumption == MaxEvents \in Nat /\ MaxRequests \in Nat

VARIABLES server,
          cached,      \* the query's value
          behind,      \* the rows were written since they were last read
          fetch,       \* the query's refetch
          mounted,     \* the canvas is open
          screen,      \* nodesRef and edgesRef
          unmeasured,  \* React Flow has not measured the scenes on the screen
          timer,       \* the graph that the timer of autoSave will put
          selected,    \* selectedNode, whose panel is open
          patch,       \* the panel's pending body
          net,         \* requests and their answers, in the order sent
          used,        \* ids that have been given
          events,
          mishap       \* history: a request failed, or was overtaken by a later one

query  == <<cached, behind, fetch>>
canvas == <<mounted, screen, unmeasured, timer>>
panel  == <<selected, patch>>
vars   == <<server, query, canvas, panel, net, used, events, mishap>>

Texts   == 0 .. MaxEvents
Graphs  == [start : BOOLEAN, text : [Scenes -> Texts \cup {None}],
            next : [Scenes -> Scenes \cup {None}], twice : Scenes \cup {None}]
Bodies  == [home : Scenes, text : Texts]
Fetches == [state : {"idle", "asked", "nodes", "read"}, value : Graphs,
            fresh : BOOLEAN]

ASSUME GraphAssumption == None \notin Graphs

Empty == [start |-> FALSE, text |-> [n \in Scenes |-> None],
          next |-> [n \in Scenes |-> None], twice |-> None]

GraphOf(ns) == [Empty EXCEPT !.start = TRUE,
                             !.text = [n \in Scenes |-> IF n \in ns THEN 0 ELSE None]]

Has(g, n) == n # None /\ g.text[n] # None
Shown(g)  == {n \in Scenes : Has(g, n)}

WithText(g, n, t) == IF Has(g, n) THEN [g EXCEPT !.text[n] = t] ELSE g

\* Mutant: the edges of the scene stay.
WithoutScene(g, n) == [g EXCEPT !.text[n] = None, !.twice = IF @ = n THEN None ELSE @]

\* Filtering a scene and the edges that touch it.
Without(g, n) == [g EXCEPT !.text[n] = None,
                           !.next = [m \in Scenes |-> IF m = n \/ g.next[m] = n THEN None
                                                      ELSE g.next[m]],
                           !.twice = IF @ = n THEN None ELSE @]

Acyclic(next) == \A S \in (SUBSET Scenes) \ {{}} : \E m \in S : next[m] \notin S

Idle  == [state |-> "idle", value |-> Empty, fresh |-> FALSE]
Asked == [Idle EXCEPT !.state = "asked"]

Init == /\ server \in {Empty, GraphOf(Initial)}
        /\ cached = server
        /\ behind = FALSE
        /\ fetch = Idle
        /\ mounted = FALSE
        /\ screen = Empty
        /\ unmeasured = FALSE
        /\ timer = None
        /\ selected = None
        /\ patch = None
        /\ net = <<>>
        /\ used = IF server = Empty THEN {} ELSE Initial
        /\ events = 0
        /\ mishap = FALSE

-----------------------------------------------------------------------------
(* Requests.  A mutation's own callbacks run only for its newest call, and *)
(* only while the component that made it is there.                         *)

Kinds == {"put", "post", "delete", "patch"}

Put(g)           == [kind |-> "put", graph |-> g, live |-> TRUE]
Post(n, t)       == [kind |-> "post", node |-> n, text |-> t, live |-> TRUE, out |-> "sent"]
Delete(n)        == [kind |-> "delete", node |-> n, live |-> TRUE, out |-> "sent"]
Patch(n, b, old) == [kind |-> "patch", node |-> n, home |-> b.home, text |-> b.text,
                     prev |-> old, live |-> TRUE, out |-> "sent"]

Outcomes == {"sent", "done", "failed"}
Requests == [kind : {"put"}, graph : Graphs, live : BOOLEAN]
  \cup [kind : {"post"}, node : Scenes, text : Texts, live : BOOLEAN, out : Outcomes]
  \cup [kind : {"delete"}, node : Scenes, live : BOOLEAN, out : Outcomes]
  \cup [kind : {"patch"}, node : Scenes, home : Scenes, text : Texts, prev : Graphs,
        live : BOOLEAN, out : Outcomes]

Deaf(requests, kinds) ==
  [i \in DOMAIN requests |-> IF requests[i].kind \in kinds
                             THEN [requests[i] EXCEPT !.live = FALSE] ELSE requests[i]]

UnderWay == Len(net) + (IF fetch = Idle THEN 0 ELSE 1)

Send(requests, r) == /\ UnderWay < MaxRequests
                     /\ net' = Append(Deaf(requests, {r.kind}), r)

Gesture == mounted /\ events < MaxEvents /\ events' = events + 1

-----------------------------------------------------------------------------
(* The screen.                                                             *)

\* Mutant: the timer is started once and keeps the graph it was given first.
KeepFirst(g) == timer' = IF timer = None THEN g ELSE timer

\* autoSave: the timer is started anew with this graph.
AutoSave(g) == timer' = g

\* A gesture on the canvas.
Draw(g) == /\ screen' = g
           /\ AutoSave(g)
           /\ UNCHANGED <<mounted, unmeasured>>

\* The effect on [data]: the new value replaces the screen, and the panel is
\* closed if its scene is gone.  An empty graph leaves the template there.
Adopt(g) == /\ screen' = (IF g = Empty THEN screen ELSE g)
            /\ unmeasured' = (unmeasured \/ g # Empty)
            /\ UNCHANGED mounted

\* The query's value becomes g, which differs from the cached one or not.
SetData(g) == /\ cached' = g
              /\ IF mounted /\ g # cached THEN Adopt(g)
                 ELSE UNCHANGED <<mounted, screen, unmeasured>>

\* React Flow measures the scenes it has been given and reports their
\* dimensions to handleNodesChange.
Measure == /\ mounted /\ unmeasured
           /\ unmeasured' = FALSE
           /\ AutoSave(screen)
           /\ UNCHANGED <<server, query, mounted, screen, panel, net, used, events, mishap>>

\* The timer of autoSave.
TimerFires == /\ timer # None
              /\ Send(net, Put(timer))
              /\ timer' = None
              /\ UNCHANGED <<server, query, mounted, screen, unmeasured, panel, used, events,
                             mishap>>

-----------------------------------------------------------------------------
(* The panel's debounced mutation.                                         *)

\* flushPending: the scene whose panel is shown now is patched, in the cache
\* at once.
Flush == /\ Send(net, Patch(selected, patch, cached))
         /\ patch' = None
         /\ SetData(WithText(cached, selected, patch.text))

\* The timer of the panel, or a field that loses the focus.
PatchFires == /\ patch # None
              /\ Flush
              /\ UNCHANGED <<server, behind, fetch, timer, selected, used, events, mishap>>

\* The panel is closed: its pending body is sent, and it hears of no answer.
ClosePanel == IF patch = None
              THEN /\ net' = Deaf(net, {"patch"})
                   /\ UNCHANGED <<cached, mounted, screen, unmeasured, patch>>
              ELSE /\ UnderWay < MaxRequests
                   /\ net' = Deaf(Append(net, Patch(selected, patch, cached)), {"patch"})
                   /\ patch' = None
                   /\ SetData(WithText(cached, selected, patch.text))

\* Another scene is selected: the same panel goes on with it, and with what
\* is pending.  React Flow reports a selection to handleNodesChange, too.
SelectScene == /\ mounted
               /\ \E n \in Scenes \ {selected} : Has(screen, n) /\ selected' = n
               /\ AutoSave(screen)
               /\ UNCHANGED <<server, query, mounted, screen, unmeasured, patch, net, used, events, mishap>>

\* No scene, or the start, is selected.
Deselect == /\ selected # None
            /\ selected' = None
            /\ AutoSave(screen)
            /\ ClosePanel
            /\ UNCHANGED <<server, behind, fetch, used, events, mishap>>

-----------------------------------------------------------------------------
(* The user.                                                               *)

\* The template of an empty theme: fresh ids on every call.
Template(n) == GraphOf({n})

\* The canvas is opened on what the cache has; when that is more than half a
\* minute old it is fetched again.  An empty flow gets the template.
Open == /\ ~mounted /\ events < MaxEvents
        /\ events' = events + 1
        /\ mounted' = TRUE
        /\ unmeasured' = TRUE
        /\ \/ UNCHANGED fetch
           \/ fetch = Idle /\ UnderWay + 1 < MaxRequests /\ fetch' = Asked
        /\ IF cached # Empty
           THEN screen' = cached /\ UNCHANGED <<net, used>>
           ELSE \E n \in Scenes \ used : /\ screen' = Template(n)
                                         /\ used' = used \cup {n}
                                         /\ Send(net, Put(Template(n)))
        /\ UNCHANGED <<server, cached, behind, timer, panel, mishap>>

\* The canvas is closed: its timer is cleared, the panel's body is sent.
Close == /\ mounted
         /\ mounted' = FALSE /\ screen' = Empty /\ unmeasured' = FALSE /\ timer' = None
         /\ selected' = None /\ patch' = None
         /\ IF patch = None
            THEN net' = Deaf(net, Kinds) /\ UNCHANGED cached
            ELSE /\ UnderWay < MaxRequests
                 /\ net' = Deaf(Append(net, Patch(selected, patch, cached)),
                                Kinds)
                 /\ cached' = WithText(cached, selected, patch.text)
         /\ UNCHANGED <<server, behind, fetch, used, events, mishap>>

\* A field of the panel: updateNodeData, and schedule with the merged body
\* unless an action of the scene is incomplete.
Edit(complete) ==
  LET t == events + 1
  IN  /\ Gesture /\ selected # None
      /\ Draw(WithText(screen, selected, t))
      /\ patch' = IF complete THEN [home |-> IF patch = None THEN selected ELSE patch.home,
                                    text |-> t]
                  ELSE patch
      /\ UNCHANGED <<server, query, selected, net, used, mishap>>

\* isValidConnection, for a line drawn on the canvas.
Reaches(next, n, m) == \A S \in SUBSET Scenes :
                         n \in S /\ (\A x \in S : next[x] \in S \cup {None}) => m \in S

IsValidConnection(m, n) == m # n /\ ~Reaches(screen.next, n, m)

\* onConnect and connectNodes: the panel only asks that the line is new.
Connect(m, n) == /\ Gesture /\ Has(screen, m) /\ Has(screen, n)
                 /\ \/ IsValidConnection(m, n)
                    \/ selected = m /\ n # m /\ screen.next[m] # n
                 /\ Draw([screen EXCEPT !.next[m] = n])
                 /\ UNCHANGED <<server, query, panel, net, used, mishap>>

\* deleteEdge and the removals of handleEdgesChange.
Cut(m) == /\ Gesture /\ screen.next[m] # None
          /\ Draw([screen EXCEPT !.next[m] = None])
          /\ UNCHANGED <<server, query, panel, net, used, mishap>>

\* The save button, which is off while the newest save is under way.
SaveNow == /\ Gesture
           /\ ~\E i \in DOMAIN net : net[i].kind = "put" /\ net[i].live
           /\ Send(net, Put(screen))
           /\ UNCHANGED <<server, query, canvas, panel, used, mishap>>

\* addNode and duplicateNode.
AddScene == /\ Gesture
            /\ \E n \in Scenes \ used : \E t \in {0} \cup {screen.text[m] : m \in Shown(screen)} :
                 /\ used' = used \cup {n}
                 /\ Send(net, Post(n, t))
            /\ UNCHANGED <<server, query, canvas, panel, mishap>>

\* deleteNode, from the panel.
DeleteScene == /\ Gesture /\ selected # None
               /\ Send(net, Delete(selected))
               /\ UNCHANGED <<server, query, canvas, panel, used, mishap>>

-----------------------------------------------------------------------------
(* The server.                                                             *)

\* validateSaveRequest and ValidateDAG.
Valid(g) == /\ g.start /\ g.twice = None
            /\ \A m \in Scenes : g.next[m] # None => Has(g, m) /\ Has(g, g.next[m])
            /\ Acyclic(g.next)

Write(g) == server' = g /\ behind' = TRUE

Reply(i, out) == net' = [net EXCEPT ![i].out = out]

\* Mutant: a save refetches, as the other mutations do.
RefetchAfterSave == fetch' = Asked

\* onSuccess of a save: nothing is refetched, nor is the cache written.
AfterSave == UNCHANGED fetch

\* SaveFlow: the graph replaces the rows, if it is valid.
PutArrives(i) ==
  /\ net[i].kind = "put"
  /\ net' = RemoveAt(net, i)
  /\ IF Valid(net[i].graph) THEN Write(net[i].graph) /\ AfterSave
     ELSE UNCHANGED <<server, behind, fetch>>
  /\ mishap' = \/ mishap
               \/ ~Valid(net[i].graph)
               \/ \E j \in 1 .. i - 1 : net[j].kind = "put"

\* CreateNode.
PostArrives(i) == /\ net[i].kind = "post" /\ net[i].out = "sent"
                  /\ Write([server EXCEPT !.text[net[i].node] = net[i].text])
                  /\ Reply(i, "done")
                  /\ UNCHANGED <<fetch, mishap>>

\* UpdateNode and DeleteNode of a scene that is there, with its edges.
ChangeArrives(i) ==
  /\ net[i].kind \in {"patch", "delete"} /\ net[i].out = "sent"
  /\ Has(server, net[i].node)
  /\ Write(IF net[i].kind = "patch" THEN WithText(server, net[i].node, net[i].text)
           ELSE Without(server, net[i].node))
  /\ Reply(i, "done")
  /\ UNCHANGED <<fetch, mishap>>

\* ... and of one that is not.
NotFound(i) == /\ net[i].kind \in {"patch", "delete"} /\ net[i].out = "sent"
               /\ ~Has(server, net[i].node)
               /\ Reply(i, "failed")
               /\ mishap' = TRUE
               /\ UNCHANGED <<server, behind, fetch>>

\* A request that does not arrive, or an answer that is lost.
Fault(i) == /\ events < MaxEvents
            /\ events' = events + 1
            /\ mishap' = TRUE
            /\ \/ net[i].kind = "put" /\ net' = RemoveAt(net, i)
               \/ net[i].kind # "put" /\ net[i].out # "failed" /\ Reply(i, "failed")
            /\ UNCHANGED <<server, query, canvas, panel, used>>

Lost == \E i \in DOMAIN net : Fault(i)

Arrives == /\ \E i \in DOMAIN net : \/ PutArrives(i) \/ PostArrives(i) \/ ChangeArrives(i)
                                    \/ NotFound(i)
           /\ UNCHANGED <<cached, canvas, panel, used, events>>

\* GetFlow reads the scenes and then the edges, in two statements.
FetchNodes == /\ fetch.state = "asked"
              /\ fetch' = [state |-> "nodes", value |-> server, fresh |-> behind]
              /\ behind' = FALSE
              /\ UNCHANGED <<server, cached, canvas, panel, net, used, events, mishap>>

FetchEdges == /\ fetch.state = "nodes"
              /\ fetch' = [fetch EXCEPT !.state = "read", !.value.next = server.next,
                                        !.fresh = @ \/ behind]
              /\ UNCHANGED <<server, cached, behind, canvas, panel, net, used, events, mishap>>

-----------------------------------------------------------------------------
(* The answers.                                                            *)

\* invalidateGraph: a refetch under way is given up and begun anew.
Refetch == fetch' = Asked /\ behind' = (behind \/ fetch.fresh)

Answered(i, kind) == net[i].kind = kind /\ net[i].out = "done"

\* onSuccess of a creation: the hook refetches; its newest call adds the
\* scene to the screen.
Created(i) ==
  /\ Answered(i, "post")
  /\ net' = RemoveAt(net, i)
  /\ Refetch
  /\ IF net[i].live
     THEN Draw(IF Has(screen, net[i].node) THEN [screen EXCEPT !.twice = net[i].node]
               ELSE [screen EXCEPT !.text[net[i].node] = net[i].text])
     ELSE UNCHANGED canvas
  /\ UNCHANGED <<cached, panel>>

\* onSuccess of a deletion: the scene leaves the screen, and its panel closes.
Deleted(i) ==
  LET n == net[i].node
  IN  /\ Answered(i, "delete")
      /\ Refetch
      /\ IF net[i].live /\ selected = n /\ patch # None
         THEN LET kept == WithText(cached, n, patch.text)
              IN  /\ UnderWay < MaxRequests \/ fetch # Idle
                  /\ net' = Deaf(Append(RemoveAt(net, i), Patch(n, patch, cached)), {"patch"})
                  /\ cached' = kept
                  /\ AutoSave(Without(screen, n))
                  /\ screen' = IF kept # cached THEN kept ELSE Without(screen, n)
                  /\ unmeasured' = (unmeasured \/ kept # cached)
                  /\ UNCHANGED mounted
         ELSE /\ net' = IF selected = n /\ net[i].live THEN Deaf(RemoveAt(net, i), {"patch"})
                        ELSE RemoveAt(net, i)
              /\ IF net[i].live THEN Draw(Without(screen, n)) ELSE UNCHANGED canvas
              /\ UNCHANGED cached
      /\ IF net[i].live /\ selected = n THEN selected' = None /\ patch' = None
         ELSE UNCHANGED panel

\* onSuccess of a patch.
Patched(i) == /\ Answered(i, "patch")
              /\ net' = RemoveAt(net, i)
              /\ Refetch
              /\ UNCHANGED <<cached, canvas, panel>>

\* onError: the newest patch of an open panel puts the cache back.
Refused(i) ==
  /\ net[i].kind # "put" /\ net[i].out = "failed"
  /\ net' = RemoveAt(net, i)
  /\ IF net[i].kind = "patch" /\ net[i].live THEN SetData(net[i].prev)
     ELSE UNCHANGED <<cached, mounted, screen, unmeasured>>
  /\ UNCHANGED <<behind, fetch, timer, panel>>

AnswerComes == /\ \E i \in DOMAIN net : Created(i) \/ Deleted(i) \/ Patched(i) \/ Refused(i)
               /\ UNCHANGED <<server, used, events, mishap>>

\* The refetched graph.  A panel whose scene is gone closes.
FetchArrives ==
  /\ fetch.state = "read"
  /\ fetch' = Idle
  /\ cached' = fetch.value
  /\ IF mounted /\ (fetch.fresh \/ fetch.value # cached)
     THEN /\ Adopt(fetch.value)
          /\ IF selected # None /\ ~Has(fetch.value, selected)
             THEN /\ selected' = None /\ patch' = None
                  /\ IF patch = None THEN net' = Deaf(net, {"patch"})
                     ELSE net' = Deaf(Append(net, Patch(selected, patch, fetch.value)), {"patch"})
             ELSE UNCHANGED <<panel, net>>
     ELSE UNCHANGED <<mounted, screen, unmeasured, panel, net>>
  /\ UNCHANGED <<server, behind, timer, used, events, mishap>>

-----------------------------------------------------------------------------
User == \/ Open \/ Close \/ SelectScene \/ Deselect
        \/ \E complete \in BOOLEAN : Edit(complete)
        \/ \E m \in Scenes : Cut(m)
        \/ \E m, n \in Scenes : Connect(m, n)
        \/ SaveNow \/ AddScene \/ DeleteScene

\* Timers fire, requests are served and answered, reads end.
System == \/ Measure \/ TimerFires \/ PatchFires
          \/ Arrives \/ FetchNodes \/ FetchEdges \/ AnswerComes \/ FetchArrives

Next == User \/ System \/ Lost

\* One of the steps that the system can take is taken, in any order.
Spec == Init /\ [][Next]_vars /\ WF_vars(System)

-----------------------------------------------------------------------------
TypeOK ==
  /\ {server, cached, screen} \subseteq Graphs
  /\ fetch \in Fetches
  /\ {behind, mounted, unmeasured, mishap} \subseteq BOOLEAN
  /\ timer = None \/ timer \in Graphs
  /\ selected \in Scenes \cup {None}
  /\ patch = None \/ (patch \in Bodies /\ selected # None)
  /\ net \in Seq(Requests)
  /\ used \subseteq Scenes
  /\ events \in 0 .. MaxEvents

AtRest == /\ net = <<>> /\ timer = None /\ patch = None
          /\ fetch.state = "idle" /\ ~unmeasured

\* When all is quiet the server has what the open canvas shows, in whatever
\* order the two timers, the answers, the refetches and the optimistic writes
\* came, unless a request was refused, of which the user was told, or an older
\* save overtook a newer one.
ScreenIsSaved == AtRest /\ mounted /\ ~mishap => screen = server

\* Saving comes to an end by itself, unless the user goes on selecting: no
\* save brings about a refetch whose graph is measured and saved again (the
\* comment in useSaveFlow).
SavingEnds == []<><<SelectScene \/ Deselect>>_vars \/ <>[]AtRest

\* Whatever is put, posted, patched and deleted in whatever order, the edges
\* of the stored flow join stored scenes and make no circle.
StoredFlowIsSound == /\ \A m \in Scenes : server.next[m] # None =>
                                            Has(server, m) /\ Has(server, server.next[m])
                     /\ Acyclic(server.next)

-----------------------------------------------------------------------------
(* What the code's documents and comments lead one to expect, and the code  *)
(* does not do.                                                             *)

\* The template is given to a theme that has no flow, never over a stored
\* one (the scope of the editor fixes): but the query's value is not renewed
\* by a save, and a canvas reopened on the empty one puts a new template.
TemplateSparesExisting == [][~mounted /\ mounted' /\ cached = Empty => server = Empty]_vars

\* An opened canvas shows what was saved, when nothing is under way.
ReopenShowsSaved ==
  [][~mounted /\ mounted' /\ net = <<>> /\ fetch' = Idle /\ server # Empty => screen' = server]_vars

\* "local state is authoritative": only a gesture changes a line on the screen.
LinesAreTheUsers ==
  [][screen'.next # screen.next => ~mounted \/ ~mounted' \/ events' # events]_vars

\* A patch typed into one scene is not sent to another.
PatchesOwnScene == \A i \in DOMAIN net : net[i].kind = "patch" => net[i].node = net[i].home

\* Closing the canvas loses no gesture that was to be saved.
CloseSaves == [][mounted /\ ~mounted' => timer = None]_vars

\* What the canvas puts is a graph the server takes.
PutsAreValid == \A i \in DOMAIN net : net[i].kind = "put" => Valid(net[i].graph)
=============================================================================
