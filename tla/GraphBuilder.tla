---------------------------- MODULE GraphBuilder ----------------------------
(***************************************************************************)
(* The page of one knowledge graph in agent-studio: the chat with the      *)
(* kg-architect agent, whose tools add nodes to the graph, and the drawing *)
(* of the graph beside it, which reads the nodes through the query cache.  *)
(*                                                                         *)
(* The chat runs as the tenant "platform-system"; the nodes its tools add  *)
(* belong to that tenant, and kg-service lists the nodes of the tenant who *)
(* asks.                                                                   *)
(***************************************************************************)
EXTENDS Naturals, Sequences

CONSTANTS
  Nodes,         (* nodes that may be added                                *)
  BuilderTenants,
  PlatformTenant,
  MaxChats,      (* bound: messages sent to the architect                  *)
  MaxTools       (* bound: tools one message makes it use                  *)

NoOwner == "nobody"
NoNode  == "no node"
Chats   == 1..MaxChats

ASSUME GraphBuilderAssumption ==
  /\ PlatformTenant \in BuilderTenants /\ NoOwner \notin BuilderTenants
  /\ MaxChats \in Nat /\ MaxTools \in Nat

VARIABLES
  reader,        (* the tenant of the page                                 *)
  graph,         (* Nodes -> the tenant the node belongs to in kg-service  *)
  executor,      (* what runs the architect: the direct one or a workflow  *)
  architect,     (* Chats -> the session the message started               *)
  events,        (* Chats -> events of its stream yet to be read           *)
  chat,          (* sent: messages so far; reading: chats whose stream is  *)
                 (* read; waits: the one the panel waits for (loading), or *)
                 (* 0; due (history): the nodes listed when the last       *)
                 (* tool_call was read                                     *)
  preview,       (* the query ["kg-nodes", graphId]                        *)
  drawing        (* the tab, what its filter lets through, what is drawn   *)

builderVars == <<reader, graph, executor, architect, events, chat, preview, drawing>>

(* asked: a fetch is on its way; read: kg-service has answered it.         *)
BuilderTypeOK ==
  /\ reader \in BuilderTenants
  /\ graph \in [Nodes -> BuilderTenants \union {NoOwner}]
  /\ executor \in {"direct", "workflow"}
  /\ architect \in [Chats -> [at : {"none", "thinking", "tool", "ended"},
                              used : 0..MaxTools, tool : Nodes \union {NoNode},
                              told : BOOLEAN, ran : BOOLEAN]]
  /\ events \in [Chats -> Seq({"tool_call", "end"})]
  /\ chat \in [sent : 0..MaxChats, reading : SUBSET Chats, waits : 0..MaxChats,
               due : SUBSET Nodes]
  /\ preview \in [data : SUBSET Nodes, loaded : BOOLEAN, fresh : BOOLEAN, asked : BOOLEAN,
                  read : BOOLEAN, answer : SUBSET Nodes]
  /\ drawing \in [tab : {"builder", "explore"}, matches : SUBSET Nodes, drawn : SUBSET Nodes]

Listing == {n \in Nodes : graph[n] = reader}

(* The page has mounted: its query is fetched, nothing is filtered out.    *)
BuilderInit ==
  /\ reader \in BuilderTenants
  /\ graph = [n \in Nodes |-> NoOwner]
  /\ executor \in {"direct", "workflow"}
  /\ architect = [c \in Chats |-> [at |-> "none", used |-> 0, tool |-> NoNode,
                                   told |-> FALSE, ran |-> FALSE]]
  /\ events = [c \in Chats |-> <<>>]
  /\ chat = [sent |-> 0, reading |-> {}, waits |-> 0, due |-> {}]
  /\ preview = [data |-> {}, loaded |-> FALSE, fresh |-> FALSE, asked |-> TRUE, read |-> FALSE,
                answer |-> {}]
  /\ drawing = [tab |-> "builder", matches |-> Nodes, drawn |-> {}]

----------------------------------------------------------------------------
(* The sessions of the architect. *)
ChooseTool(c, n) ==
  /\ architect[c].at = "thinking"
  /\ architect[c].used < MaxTools
  /\ graph[n] = NoOwner
  /\ architect' = [architect EXCEPT ![c].at = "tool", ![c].tool = n, ![c].used = @ + 1]
  /\ UNCHANGED <<reader, graph, executor, events, chat, preview, drawing>>

Emit(c, e) == events' = IF c \in chat.reading THEN [events EXCEPT ![c] = Append(@, e)] ELSE events

(* The direct executor reports a tool before it runs it; the workflow      *)
(* reports the tools of a step after they ran.                             *)
TellTool(c) ==
  /\ architect[c].at = "tool"
  /\ ~architect[c].told
  /\ executor = "workflow" => architect[c].ran
  /\ architect' = [architect EXCEPT ![c].told = TRUE]
  /\ Emit(c, "tool_call")
  /\ UNCHANGED <<reader, graph, executor, chat, preview, drawing>>

(* kg-add-node, for the tenant of the session; it may be refused.          *)
RunTool(c) ==
  /\ architect[c].at = "tool"
  /\ ~architect[c].ran
  /\ executor = "direct" => architect[c].told
  /\ architect' = [architect EXCEPT ![c].ran = TRUE]
  /\ \/ graph' = [graph EXCEPT ![architect[c].tool] =
                    IF @ = NoOwner THEN PlatformTenant ELSE @]
     \/ UNCHANGED graph
  /\ UNCHANGED <<reader, executor, events, chat, preview, drawing>>

ThinkOn(c) ==
  /\ architect[c].told /\ architect[c].ran
  /\ architect' = [architect EXCEPT ![c] = [@ EXCEPT !.at = "thinking", !.tool = NoNode,
                                                     !.told = FALSE, !.ran = FALSE]]
  /\ UNCHANGED <<reader, graph, executor, events, chat, preview, drawing>>

EndSession(c) ==
  /\ architect[c].at = "thinking"
  /\ architect' = [architect EXCEPT ![c].at = "ended", ![c].used = 0]
  /\ Emit(c, "end")
  /\ UNCHANGED <<reader, graph, executor, chat, preview, drawing>>

(* Another agent of the page's tenant adds to the graph. *)
AddElsewhere(n) ==
  /\ graph[n] = NoOwner
  /\ graph' = [graph EXCEPT ![n] = reader]
  /\ UNCHANGED <<reader, executor, architect, events, chat, preview, drawing>>

----------------------------------------------------------------------------
(* The chat panel: handleSendMessage, which is offered unless loading. *)
SendToArchitect ==
  /\ drawing.tab = "builder"
  /\ chat.waits = 0
  /\ chat.sent < MaxChats
  /\ LET c == chat.sent + 1 IN
     /\ chat' = [chat EXCEPT !.sent = c, !.reading = @ \union {c}, !.waits = c]
     /\ architect' = [architect EXCEPT ![c].at = "thinking"]
  /\ UNCHANGED <<reader, graph, executor, events, preview, drawing>>

(* invalidateQueries cancels a fetch on its way and asks again; but the    *)
(* first fetch, without which there is no data, is left to finish.         *)
InvalidateNodes ==
  preview' = IF preview.asked /\ ~preview.loaded THEN preview
             ELSE [preview EXCEPT !.fresh = FALSE, !.asked = TRUE, !.read = FALSE, !.answer = {}]

StopReading(c) ==
  chat' = [chat EXCEPT !.reading = @ \ {c}, !.waits = IF @ = c THEN 0 ELSE @]

(* A mutant of ReadEvent that invalidates at the end of the chat instead.  *)
ReadEventLate(c) ==
  /\ events[c] # <<>>
  /\ events' = [events EXCEPT ![c] = Tail(@)]
  /\ \/ Head(events[c]) = "end" /\ StopReading(c) /\ InvalidateNodes
     \/ /\ Head(events[c]) = "tool_call"
        /\ chat' = [chat EXCEPT !.due = IF preview.loaded THEN Listing ELSE @]
        /\ UNCHANGED preview
  /\ UNCHANGED <<reader, graph, executor, architect, drawing>>

(* The loop over the stream, which outlives the panel. *)
ReadEvent(c) ==
  /\ events[c] # <<>>
  /\ events' = [events EXCEPT ![c] = Tail(@)]
  /\ \/ Head(events[c]) = "end" /\ StopReading(c) /\ UNCHANGED preview
     \/ /\ Head(events[c]) = "tool_call"
        /\ chat' = [chat EXCEPT !.due = IF preview.loaded THEN Listing ELSE @]
        /\ InvalidateNodes
  /\ UNCHANGED <<reader, graph, executor, architect, drawing>>

(* The catch: the request or the stream failed; the session goes on.       *)
BreakStream(c) ==
  /\ c \in chat.reading
  /\ StopReading(c)
  /\ events' = [events EXCEPT ![c] = <<>>]
  /\ UNCHANGED <<reader, graph, executor, architect, preview, drawing>>

----------------------------------------------------------------------------
(* The drawing: layout leaves the drawing alone when nothing matches.      *)
Drawn(data, d) == IF data \intersect d.matches = {} THEN d.drawn
                  ELSE data \intersect d.matches

(* kg-service reads the nodes. *)
ServeNodes ==
  /\ preview.asked /\ ~preview.read
  /\ preview' = [preview EXCEPT !.read = TRUE, !.answer = Listing]
  /\ UNCHANGED <<reader, graph, executor, architect, events, chat, drawing>>

(* The answer arrives, and is laid out if it is not what the page has; or  *)
(* the fetch and its retry have failed.                                    *)
NodesArrive ==
  /\ preview.read
  /\ \/ /\ preview' = [preview EXCEPT !.data = preview.answer, !.loaded = TRUE, !.fresh = TRUE,
                                      !.asked = FALSE, !.read = FALSE, !.answer = {}]
        /\ drawing' = [drawing EXCEPT !.drawn =
             IF preview.answer = preview.data THEN @ ELSE Drawn(preview.answer, drawing)]
     \/ /\ preview' = [preview EXCEPT !.asked = FALSE, !.read = FALSE, !.answer = {}]
        /\ UNCHANGED drawing
  /\ UNCHANGED <<reader, graph, executor, architect, events, chat>>

(* The data has become stale and the page comes into view again. *)
RefetchNodes ==
  /\ ~preview.asked
  /\ preview' = [preview EXCEPT !.fresh = FALSE, !.asked = TRUE]
  /\ UNCHANGED <<reader, graph, executor, architect, events, chat, drawing>>

(* The search and the type filter. *)
Filter(m) ==
  /\ drawing.tab = "explore"
  /\ m # drawing.matches
  /\ LET d == [drawing EXCEPT !.matches = m]
     IN drawing' = [d EXCEPT !.drawn = Drawn(preview.data, d)]
  /\ UNCHANGED <<reader, graph, executor, architect, events, chat, preview>>

(* Relayout, or edges that have arrived changed. *)
Relayout ==
  /\ drawing' = [drawing EXCEPT !.drawn = Drawn(preview.data, drawing)]
  /\ UNCHANGED <<reader, graph, executor, architect, events, chat, preview>>

(* Backspace takes the selected node out of the drawing, not of the graph: *)
(* React Flow deletes it through onNodesChange.                            *)
HideNode(n) ==
  /\ n \in drawing.drawn
  /\ drawing' = [drawing EXCEPT !.drawn = @ \ {n}]
  /\ UNCHANGED <<reader, graph, executor, architect, events, chat, preview>>

(* The other tab: its panels start afresh, and nothing is being loaded.    *)
ChangeTab ==
  /\ drawing' = [tab |-> IF drawing.tab = "builder" THEN "explore" ELSE "builder",
                 matches |-> Nodes, drawn |-> preview.data]
  /\ chat' = [chat EXCEPT !.waits = 0]
  /\ preview' = [preview EXCEPT !.asked = @ \/ ~preview.fresh]
  /\ UNCHANGED <<reader, graph, executor, architect, events>>

SessionStep(c) == TellTool(c) \/ RunTool(c) \/ ThinkOn(c) \/ EndSession(c)
                  \/ ReadEvent(c) \/ BreakStream(c) \/ \E n \in Nodes : ChooseTool(c, n)

BuilderNext ==
  \/ SendToArchitect \/ ChangeTab \/ ServeNodes \/ NodesArrive \/ RefetchNodes \/ Relayout
  \/ \E n \in Nodes : AddElsewhere(n) \/ HideNode(n)
  \/ \E m \in SUBSET Nodes : Filter(m)
  \/ \E c \in Chats : SessionStep(c)

BuilderSpec == BuilderInit /\ [][BuilderNext]_builderVars

----------------------------------------------------------------------------
(* However events, answers and failures interleave, a preview that is      *)
(* fresh lacks no node that was listed when the last tool_call was read,   *)
(* unless its very first answer was still on its way then.                 *)
PreviewHoldsWhatWasDue == preview.fresh => chat.due \subseteq preview.data
=============================================================================
