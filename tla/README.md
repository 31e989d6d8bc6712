# TLA+ models of the A1 Agent Engine

This directory models the parts of the engine in which several processes,
stores and timers have to agree: the approval gate around mutating tools, the
durable agent session, the chat streams that follow a session, the executor
that keeps sessions in memory, and the pages of the two consoles with the
registries, stores and caches they act on. `PROJECT.json` maps every definition to
the lines it models and lists the runs, mutants, findings, hazards and theorems.

## The system

| component | state | operations | talks to |
|---|---|---|---|
| agent-workers: `AgentWorkflow` (`workflows.py`) | event log, decision slot, message history, grant, loop counter (durable in Temporal) | set-up activities, reasoning loop, approval pause, `hitl_response` signal, `get_events` query | its activities, workflow-initiator (signals, queries) |
| agent-workers: activities (`anthropic_agent*.py`, `pydantic_ai_agent.py`, `platform_tool_bridge.py`) | one attempt's copy of the history | call the model, post tools to the dispatcher, store approval requests | skill-dispatcher, workflow-initiator, the model |
| agent-workers: `HybridWorkflow` | step results, pending decisions by step | task, agent, hitl and parallel steps, retries, `on_failure` | the same |
| agent-workers: direct executor (`direct_*.py`) | sessions table, event lists, cleanup task | execute, stream events, cleanup, eviction | workflow-initiator, the model |
| workflow-initiator | approvals `sync.Map`, manifest cache | start, status, events, poll, terminate, store/approve/deny | Temporal, direct executor, registry |
| skill-dispatcher and hook engine | registered hooks | invoke tool, invoke skill (tool chain), pre and post hooks | tool registry, sandbox, kg-service, mcp-registry |
| api-gateway | idempotency keys, sockets | trigger, terminate, SSE and websocket chat, manifest assistant | workflow-initiator |
| workflow-service | definitions, runs, trigger subscriptions | register, trigger, cron, webhook, event dispatch | workflow-initiator |
| tool-, agent-, sub-agent-registry, skill-catalog | versioned records with a lifecycle state | register, update, transition, list | their stores |
| kg-service, mcp-registry, mcp-server, sandbox-manager | graphs; servers and tool lists; containers | CRUD, discovery, execution | postgres, docker |
| admin-api | model routes and the LiteLLM file, cookbooks, system records, tenants | CRUD, import, generation of the file | postgres, the registries |
| agent-studio: chat page, approvals page | sockets, requests and timers of a message; a module-level cache of conversations; polls | send, fall back, stop, leave and return; approve, deny | api-gateway, workflow-initiator |
| agent-studio: tenant context and query cache | tenant shown, sent and stored; cached queries | switch, mount, fetch, invalidate | every service |
| agent-studio: agents, tools, skills, graphs, cookbooks, manifest assistant | sheets, forms and mutations over cached rows | create, edit, transition, delete, import, draft and apply | registries, kg-service, admin-api, api-gateway |
| admin-console: model routes, cookbooks, system records, tenants | lists, forms, editors and mutations | create, edit, delete, import | admin-api |

What is hard here is in the seams. A request for approval is stored by an
activity, decided by an HTTP handler and answered by a signal, three processes
with no transaction between them. Activities time out and are run again while
the abandoned attempt still acts. Event logs are polled and merged by clients
that also read a status. Idempotency keys, caches and lifecycle states are
tested in one step and used in another. In the browser a handler sees the state
of the render it was made in, outlives its page, and meets whatever the user
has opened meanwhile.

For each component, what makes it correct:

- approval store: a decision is final, unambiguous, and about the request asked;
- agent session: a mutating tool runs only under a grant of its own, not more
  often than attempts were made; the event log tells what happened; it ends;
- event stream: every event exactly once and in order, the end after the last;
- triggers: one run per idempotency key; each session id one workflow;
- hybrid workflow: a step runs after those it depends on, failures are handled,
  decisions reach their step;
- direct executor: a session's final event exists once and is delivered;
- registries and their pages: only the transitions of the lifecycle; nobody's
  change is undone by somebody who had seen it; what is shown as fresh is so;
- chat page: one press of Send is one message, the input comes back, and the
  cache holds what the page shows;
- other pages: data is of the tenant shown; a text reaches the record it was
  written for; an answer is taken for the question it belongs to;
- workflow runs: a run leaves `pending`, and its status follows its execution.

## Modules

| module | models |
|---|---|
| `ApprovalStore` | `hitl.go`: the store, and approve/deny handlers as steps between their reads and writes |
| `HitlAgent` | one session of the anthropic-agents framework: `AgentWorkflow.run`, its activity with retries, the tool bridge and the gate of the dispatcher, on top of `ApprovalStore` |
| `ApprovalGate` | abstract: pauses, grants and tool runs of a session, seen from outside |
| `HitlAgentGate` | the refinement mapping from `HitlAgent` to `ApprovalGate` |
| `TemporalRuns` | the runs of one agent on the Temporal server: ids, statuses, event logs |
| `ChatStream` | the gateway's chat streams over the initiator's poll, on top of `TemporalRuns` |
| `EventFeed` | abstract: what a client that follows a session is sent |
| `ChatStreamFeed` | the refinement mapping from one stream of `ChatStream` to `EventFeed` |
| `DirectSession` | the direct executor: table, handlers, agent threads, streams, and the chats on it |
| `ChatPage` | the chat page of agent-studio: a message over a socket and its SSE fallbacks, Stop, New Chat, leaving, the cache of conversations |
| `ApprovalReview` | the approvals page and the approval block of the chat |
| `TenantScope` | the tenant shown, the one requests carry, and the query cache |
| `AgentPages` | the list and the detail page of agents over agent-registry |
| `RegistryPages` | the tool and skill pages, in several tabs, over their registries |
| `GraphBuilder` | the chat with kg-architect beside the drawing of the graph |
| `ManifestAssistant` | the assistant panel, the draft read from its answer, the form it is applied to |
| `ModelRoutes` | the model routes page, admin-api's table and the LiteLLM file |
| `CookbookPages`, `CookbookFiles` | importing a cookbook, and editing its files |
| `SystemRecords` | the system agents, tools and skills pages |
| `TenantAdmin` | the tenants page and the page of one tenant, over the rows of `tenant_settings` |
| `MCStudio`, `MCPages` | the pages together, one at work in each behaviour |
| `MC*` | symmetry sets for TLC |
| `ApprovalStoreProofs`, `HitlAgentProofs`, `ChatStreamProofs`, `DirectSessionProofs` | the theorems about the module they are named after |
| `ChatAndApprovalProofs` | the theorems about `ChatPage` and `ApprovalReview` |
| `StudioPagesProofs` | those about `TenantScope`, `ManifestAssistant`, `GraphBuilder` |
| `LifecycleProofs` | those about `AgentPages` and `RegistryPages` |
| `ConsolePagesProofs` | those about `CookbookFiles`, `CookbookPages`, `ModelRoutes`, `SystemRecords` |

### ApprovalStore

A request is an id with a status and the tool it is about; ids are handed out
in order (the code draws random uuids, which never repeat). A reviewer is one
HTTP request in flight: idle, about to write, between the two words of the
write, about to signal. A Go string is a pointer and a length, and nothing
locks the record, so the write of `Status` is two steps; `"torn"` stands for
what a reader sees when the two words come from different decisions (the race
is undefined behaviour in Go, and this is what the built program does).
`decided` is history: the decisions handlers recorded, in order.

### HitlAgent

`pc` follows `AgentWorkflow.run`: set-up, scheduling the activity, the running
activity, the pause, the two ways to be closed. A workflow task of Temporal is
atomic: the code between two awaits runs without interleaving, so one action
covers everything from the activity's result to the next await
(`ProcessDecision`) and from the end of the wait to the next (`Reviewed`). A
signal sets the decision slot at any time the workflow is open (`Signal`).

The message history is abstracted to the `tool_use` blocks the model asked for
and whether each has a `tool_result`: that is all the resume path and the API's
pairing rule look at. An attempt of the activity works on its own copy of the
history, which reaches the workflow only with its result. Temporal abandons an
attempt after its timeout and starts another from the same arguments; the
abandoned one goes on acting in a slot of its own (one at a time: the model
forgets an attempt abandoned earlier when another one is). `runs`, `grants`
and `signalled` are history.

Each tool call of this framework is posted as mutating, so the dispatcher's
gate answers 202 to every call without an approval id and runs every call with
one, whatever id it is. The `hitl-approver` session the dispatcher also starts
on a 202 is a session of its own with no tools and is left out.

Faults (`faults`) are a failing set-up activity, an attempt timing out, an
agent that cannot be built, a store call that fails or whose reply is lost, a
dispatcher call that fails, a lost signal and a restart of workflow-initiator.
Model errors and turns without an answer are ordinary outcomes, not faults.

### ApprovalGate

The promise of the gate in four actions: a session pauses about one request it
was never granted, the pause ends in one grant or the end of the session, and
a tool runs only under a grant given for it. `HitlAgentGate` maps `waiting` to
`paused` and reads the request from the store's record of `waitFor`.

### TemporalRuns and ChatStream

`TemporalRuns` is the part of the Temporal server the streams see; it is
modelled from how the services use it. Session ids are minted from the clock
in milliseconds, so an id is the millisecond that minted it, and two chats
with one agent in the same millisecond get the same workflow: `ExecuteWorkflow`
on an id in use returns the run that has it. A run emits numbered events, and
the last workflow task emits two and completes in one step, as in
`AgentWorkflow.run`.

A stream is the local state of one handler: `HandleChatStream`,
`HandleChatWS` and `HandleManifestAssistantChat` run the same loop and differ
only in how a broken connection ends it (`Leave`, `WriteFails`). `at` follows
one poll: `poll`, `describe` (the query "get_events" was answered), `fallback`
(it failed, and the session is taken for a direct one), `reply`. The two
questions of `HandlePollSession` are two actions because the run goes on
between them. The gateway keeps nothing of a session but the handler's locals;
its stop handler passes the client's request on by id (`AskStop`,
`Terminate`), and `stop` records one such request. Faults (`faults`, by kind): the
reply to the start is lost, the query or the describe fails, the poll is lost.

`EventFeed` promises every event once, in order, from where the client joined,
and nothing after the end. It does not promise that the feed is complete when
it ends, because the code does not keep that (see `stream_final_answer`).

### DirectSession

`table` is the key set of `executor.sessions` and `session` the objects, which
threads still hold after they left the table. A session is named after the
request that creates it, and a user message after the request that brings it.
Python switches threads anywhere, so each access to shared state that others
can come between is an action: the test of the limit (`Begin`), the choice of
the oldest session (`ChooseOldest`), its removal (`Evict`), the insertion
(`Insert`). `older` is the order of `last_activity`. `req` holds the
handler and, after the answer, the chat of the request: the initiator's poll
sees its session or nothing (`PollChat`). `attempt` is the task in the pool:
it copies the history when it starts (`StartAttempt`) and puts the copy back
at the end (`EndLoop`). `watch` is one `stream_events`: it counts (`Count`),
sends (`Slice`) and tests `finished` (`Check`) in three steps. `peak` is
history.

What the model takes from the code around it: an error result has a text; no
tool of a direct session answers with the marker that makes an agent ask for
approval, so the outer loop of `execute_iteration` runs once; an agent's
`max_iterations` is positive; there is one tenant. A chat whose initiator gave
up never polls. Fetching the system tools also uses the pool, for a moment and
before the session is looked up, and is left out. `start_cleanup` needs a
running event loop, and a Flask handler has none: sessions are only ever
removed by a full table, and there is no action for the cleanup.

### ChatPage

`page` is the mounted component with its three refs, `view` and `cache` the
conversation as the page and the module-level cache hold it, `chan` the socket
and the two SSE requests a message can make, `session` what each of them
started behind the gateway. The handlers of a socket close over the message
they were made for: one that runs after the page was left or another message
was sent still makes its request, and no longer changes the page. A browser
reports an error on a socket that is closed while it connects. React applies
what one handler sets together, so that a handler is one action, the effects of
its render included. Text, thinking and tool events only change what a message
shows and are left out.

### ApprovalReview

A poll is asked, answered and applied in three steps and never cancelled, so
that two of them cross. A decision remembers the list of the render it was
clicked on, as the code's closure does, and filters that one. A handler of the
store tests the status (`CheckDecision`) and writes it (`TakeDecision`) in two
steps with nothing that locks between them, so that two handlers can both take
their decision and answer 200; the two words of one write are left to
`ApprovalStore`. `RestartStore` empties the store, whose records are in memory
only. `taken` is history: the decisions the store took.

### The other pages

All of them use TanStack Query, which is modelled from how the pages use it:
a query is fetched when a page mounts and its data is not fresh; invalidating
one takes its freshness away and fetches it again if it is mounted, in place of
a fetch on its way, whose answer is dropped. A fetch on its way is kept where
nothing has been shown yet, and where the page was left; its answer is taken as
fresh, however old. Where that matters a fetch is asked for, read by the
service and taken over, or has failed, in separate steps.
`SystemRecords` and `CookbookFiles` read their data in one step: their
properties are about what saves write and say nothing of freshness, and between
a reading and its arrival there can only be additions to a list, which might as
well have come after it, and saves.
A mutation is a sequence of requests; its button is disabled while it is
pending; its handlers run on the page as it is then, or nowhere if it was left.
A request can be refused, or its answer lost after the service has written.

- `TenantScope`: query keys do not name a tenant. The mount effect of the
  context runs after those of the pages below it (`SyncRuntimeTenant`), so that
  the first fetches go out for the default tenant.
- `AgentPages`: deploy and delete are several transitions; each is read and
  validated (`Accept`) and written (`Write`) in two steps, because the Postgres
  store does not make the status a condition of its update. An edit writes back
  the status the handler read. Deleting a paused agent asks for `staged`, which
  the registry refuses every time. `missed` marks a reading after which a
  mutation ended that did not have it fetched again.
- `RegistryPages`: an edit sends the status of the row it was opened from, and
  the store takes it. `base` says after which change a status was read. The
  Register sheet can be used while the list is still loading.
- `GraphBuilder`: the architect creates nodes as the platform tenant while the
  page lists those of the tenant it shows (`reader`, `Listing`); its events
  reach the panel before the tool has run when the direct executor is at work,
  and after it in a workflow. The drawing is laid out anew when the data, the
  filter or (Relayout) the user says so, and only if something is left to
  draw; React Flow takes a selected node out of it on Backspace (`HideNode`).
- `ManifestAssistant`: an answer is a sequence of sections. `Extract` keeps
  what the two expressions find: the skills need a heading after them, because
  `\Z` is the letter z in this language. A stream that breaks puts an error in
  the place of the answer (`failed`) and leaves the draft on offer. An update
  replaces the whole record, so that every save erases the tools, which the form
  does not carry (`Erased`).
- `ModelRoutes`: the page copies its query into a list of its own and changes
  that by the answers. The list has places, because the answer of a create is
  appended, also beside a row that a fetch has brought by then. An empty table
  is answered with `null`, which the page passes over: its rows stay. No rows are
  offered while the first answer is awaited (`RowsShown`). admin-api generates the
  whole file after each change, from a reading of its own (`ReadTable`,
  `WriteConfig`).
- `CookbookPages`: graphs and agents of an import are created one after the
  other, anew each time. `CookbookFiles`: one editor and one mutation for all
  files of a cookbook.
- `SystemRecords`: the three pages have one design. The list has the newest
  record first, and what is not chosen by hand is the first. A modal covers the
  list, so that nothing is chosen under it; the list may be fetched under it.
  A database takes a name and version once (`named`).
- `TenantAdmin`: one administrator works on one page at a time, with the mouse:
  a dialog covers what is under it. What a page asked for goes on when it is
  left (`heard`), and so does what was given up for lost; the page of a tenant
  opens its quota form empty, because the answer has the settings one level
  below where the form looks. A deletion is one transaction: a statement that
  fails spoils it, and its commit then undoes it.

These modules share no state, because their pages are bound to different
records. `MCPages` puts one of them to work in each behaviour (`scene`) and
lets TLC tell states apart by that module's variables only (`SceneView`). The
view also identifies states that differ in which tab is which, and those that
differ in the text of a complete answer from which the same draft is read:
nothing that can follow tells them apart. `MCStudio` composes the chat and the
approvals in the same way and needs no view.

## What the runs show

| run | shows |
|---|---|
| `agent` | two tools, two blocks, any two faults, under fairness: every tool run is under a grant for its tool; a block runs once plus once per abandoned attempt; the session ends; a grant given with an iteration to spare is used |
| `agent_reviewers` | two reviewers, three requests, one fault: a request one handler decided settles on its decision and decisions never outnumber the handlers; a grant was approved unless its request was decided twice or orphaned; the event log matches the session; the session refines `ApprovalGate` |
| `stream` | two chats, which may share a run: a stream that ends with a status has that of its run, but for the COMPLETED of a failed query; each stream refines `EventFeed` |
| `stream_liveness` | under fairness a stream of a closed run ends, and what a run emitted reaches every stream still open |
| `direct_table` | three requests on a table of one session and a pool of one thread: the table outgrows its limit only by requests that insert together; a chat that is shown anything is shown the end; a message misses its agent only through another request on the session |
| `direct_stream` | two requests and a stream: no gap in what is sent; every request is answered, also when abandoned tasks fill the pool; the stream of a finished session ends, also when the session has left the table |
| `studio` | one press of Send starts two sessions at most; the input comes back unless a socket is closed in silence; page and cache agree; a decision that is shown was taken; the approvals page catches up with the store |
| `pages` | fifteen properties of the other pages, listed below (3.3 million states, 3 minutes on two cores) |

`pages`, property by property:

- `OnlyLateDataIsForeign`: data of another tenant is served as fresh only if
  its request, or its page, was under way across a switch.
- `FreshCopyIsCurrent`, `FreshRowIsCurrent`: what a page shows as fresh is what
  the registry holds, but for writes it is not told of, and for a reading
  taken before an invalidation that could not cancel its fetch.
- `LifecycleLeftByRacesOnly`, `UndoneByOlderReadingsOnly`: a status changes
  against the lifecycle only if two mutations overlap, or if the author of the
  change had not seen the one before.
- `PreviewHoldsWhatWasDue`: the preview lacks no node that was there when the
  last tool event was read.
- `ConfigIsTheTable`, `ListIsTheTable`: at rest the LiteLLM file and the page's
  list are the table, each route once, unless generations overlapped, and
  unless an answer met another form, a row already shown, another list or no
  page. An emptied table is no exception: the page may keep the rows it had only
  where it was opened on an older reading or missed an answer.
- `ResultIsNews`, `OneImportPerSheet`: a sheet shows no result from before it
  was opened, and makes no second import after one that was answered.
- `FilesKeepTheirText`: no order of edits and saves writes the text of one file
  over another.
- `DraftIsOfTheAnswer`, `SaveUndoesTheUnreadOnly`: the draft on offer was
  read from what was received for the last question, also when an error has
  taken the place of that answer; a save changes a field the form carries only
  to a draft, to what was typed, or to what it was when the page last read it.
- `ForeignTextSlidIn`: a system record takes the text of another one only if it
  is newer and nothing had been chosen by hand.
- `TenantsAreAsAskedLast`: with nothing on its way a tenant's status and quotas
  are what the administrator asked for last, unless that failed, or was asked
  while an order of a page left before, or one given up for lost, was still on
  its way.

Four runs check a statement of the repository that the code does not keep; the
findings in `PROJECT.json` quote the statements.

- `agent_timeout`: a decision that comes before the workflow waits is erased,
  and the session ends as "not reviewed within 5 minutes".
- `stream_final_answer`: the run completes between the two questions of a
  poll, and the stream ends without the final answer.
- `stream_ends_with_run`: one failed query ends the stream of a running
  session as COMPLETED.
- `direct_shows_the_end`: a direct session is `finished` before its error event
  is there, and a stream that looks in between ends with nothing to show.

Seen in the models, without a run of their own, because the repository says
nothing to the contrary in so many words. `DecisionsOverlap`,
`AnswersReachTheirRequest`, `RunsAreGranted` and `GrantIsUsed` say how far the
approval cases can go:

- two overlapping handlers both process a request;
- a late or repeated decision on one request resumes the wait for another;
- a block nobody reviewed runs under an older grant of the same tool;
- a restart of workflow-initiator loses the request a workflow waits for;
- of two handlers that both take a decision, each page shows its own as made;
- an approval in the last iteration is thanked for and runs nothing;
- two chats of the same millisecond share one run, and either can stop it;
- a stop that comes after the end of the run is answered with a 500.

And of the pages, each an exception its property names:

- a socket that is slow or fails after it has carried the message makes the
  page send it again, and a second session runs;
- a socket the peer closes without an error leaves the input disabled;
- the page of one tenant shows the data of another until it is stale;
- pausing an agent leaves the list as it was; a deploy that fails half way
  leaves the agent staged;
- an edit takes back an approval given since the row was read;
- the answer to a first fetch that was read before a mutation is taken as fresh
  after it;
- a stream that breaks after its end event leaves the draft of an answer that
  is no longer shown;
- every save of the agent form erases the tools of the agent;
- a route whose row a fetch has brought is shown twice when its create is
  answered, and the rows of an emptied table stay;
- an order of a tenants page that was left overtakes a newer one;
- the result of one import is shown in the sheet of another cookbook;
- a new system record takes the text of the one that was first before it.

Bounds. Approvals: two reviewers are the fewest with a race, and three requests
let a decision reach an earlier or a later one. Three iterations allow ask,
resume and one more turn; two attempts is the code's own limit; turns of two
blocks have a dropped block. Two faults allow a timeout and a lost reply
together. Streams: two chats and two milliseconds let them share a run or not;
three events (`MaxLog` and the last two) let a poll find none, some or all;
one fault at a time, since a stream meets each fault in a poll of its own and
starts the next poll afresh. Direct sessions: with a table of one, two requests
race for the same place and a third finds the table full or resumes a session;
with a pool of one, an abandoned task blocks the next; a request adds up to
four events to its session, enough for a slice to be longer than its count.
Pages: two messages let a handler of the first meet the second, and two stimuli
a departure and a return or a lost connection; two polls, tenants, tabs,
requests or records are the fewest that can cross or be taken for each other;
two mutations in flight overlap; two sections make an answer whose skills are
followed by something, and two switches or changes lead back to where a
reading was made. `MaxInFlight` and `MaxCalls` count fetches
with the mutations, so that a fetch and a mutation cross, or two mutations do;
a fetch that is made again by an invalidation is not held back by the bound.
One edit by hand is enough to be undone by a save. One tenant and two orders
are enough for an order to be overtaken. In `ApprovalReview` no request is asked
for after a restart of the store, which is a bound too. One save of a file is
enough to ask which file it reaches, and its theorem is for any number. The
liveness runs use no symmetry, nor do the stream runs, which watch one stream.
Elsewhere reviewers, tools, requests and watchers are interchangeable: no
definition tells them apart.

Fairness. `WF(Workflow)`: Temporal keeps a workflow's tasks and timers going.
`WF(AttemptStep("current"))`: a worker serves the running attempt, or its
timeout is an action of the fault budget. `WF(StreamStep(i))`: the loop polls
every 50 ms for as long as its client is there, and each call it makes
returns or times out. `WF(HandlerStep(r))`: a request's thread runs, and its
wait for the pool has a timer; `WF(WatchStep(w))`: a stream's thread runs.
In `studio` a browser settles every connection (`Settles`), the gateway serves
a request and ends its stream (`Delivers`, `Finishes`; the run `stream_liveness`
shows that it does), the interval of the approvals page keeps polling
(`PollStep`), and a decision is served and answered (`DecisionStep`).
Nothing is assumed of reviewers, users, clients, the initiator, abandoned attempts,
the runs a stream follows, the agents in the pool, or clocks. Deadlock is
checked except where a system really stops: when every chat has closed and the
clock has run out, when every request of the bounded set is answered, and on the
pages, which are idle when nobody clicks.

## What is proved

Every safety invariant and every action property the runs check, but for
`TenantsAreAsAskedLast`, is a theorem of its module's specification, for every
value of the constants, and so are the type invariants of these modules, which the
runs do not carry. `tlapm` checks every step; nothing is assumed but what the
modules state of their constants. For the approvals: finitely many reviewers,
`NoTool` is not a tool, at least one iteration and attempt, and no more blocks
than approval ids (each block is asked about at most once, so that the bound on
ids never cuts a session short). For the streams: the bounds are natural numbers.
For direct sessions: finitely many requests, room for at least one session and one
task. For the pages: the bounds are natural numbers, the marks for "nothing"
(`NoFile`, `NoRoute`, `NoOwner`, ...) are not among the values, there is a file to
edit and an approval to decide, the idle time of a cached chat is not zero, the
default and the platform tenant are tenants, and no record is also the number of a
save (names typed in a save are told from those of records by that).

Each proof has the same shape: an inductive invariant in named parts, one step
per action, and lemmas where several actions disturb a part in one way. What
the invariants say, and why they are needed:

- `ApprovalStoreProofs`: `[]StoreTypeOK`, `[]SettledStatus`, `NeverReopened`
  (which no run checks: it is proved) and `[]DecisionsOverlap`. `SettledStatus`
  speaks of a request only after its one decision; `StoreIInv` adds what holds
  before it: the pointer word belongs to a handler between its two writes, the
  length word of a decided request is not `pending`, and ids not yet handed out
  are untouched. `DecisionsOverlap` is inductive beside it, by counting: a
  handler starts to write only while nothing is decided, and one that
  finishes trades its place for one decision (`WritersCount`).
- `HitlAgentProofs`: `[]TypeOK`, `[]RunsAreGranted` and `ImplementsGate`. `IInv`
  adds to the first two that the loop and each attempt's cursor stay in range,
  that a request below `nextId` is about a real tool, that only a running activity
  has a live attempt and what it asks about was never granted, that every
  grant an attempt carries was given, and that an approving decision not yet
  used is counted in `signalled` on top of the grants. The refinement needs the
  last but one: a pause is about a request outside `grants` because ids are
  handed out once. Beside `IInv`:
  - `SessionUsesStore`: a session is a behaviour of `ApprovalStore`, so that the
    store's theorems hold within a session (`SessionDecisionsHold`).
  - `[]EventsTellTheSession`: `EventsSoFar` says that the log has begun once the
    loop runs, that it is not closed early, and that the request waited for is
    not yet granted, so that the next grant is one more.
  - `[]RunsBounded`: a block has one chance to run while the session's own line of
    histories does not answer it, and one more while an abandoned attempt is about
    to resume with it (`Chances`); runs and chances together never exceed
    one more than the timeouts (`RunsLeft`). Blocks are numbered once in
    every copy of the history (`DistinctUses`).
  - `[]AnswersReachTheirRequest`: while the session is orderly no attempt is
    late, every request handed out is granted, asked or waited for
    (`EveryRequest`), and each signal on its way is the only one of its
    request. That is what makes a signal answer the request it was sent for.
- `ChatStreamProofs`: `[]TypeOK`, `[]ClosedByStatus` and `FollowsTheFeed`. `IInv`
  has one named part per argument: a run not yet started has no log and is not
  over (`Fresh`); what a stream has sent is the log up to its cursor, and the
  events of its poll come next (`Reads`, through `Follows`), which is what makes
  a repeated poll harmless; a status under way, and the one a stream ended with,
  is the run's for good or comes from a failed query (`Told`, through `Knows`).
  They are kept because logs only grow and a run that is over does not change
  (`Grows`).
- `DirectSessionProofs`: `[]TypeOK`, `[]ChatSeesItsEnd`, `[]StreamHasNoGaps`,
  `[]MessageReachesItsAgent` and `[]TableBounded`. `IInv` says where a request
  has a session (`Placed`); that an answered request, or one whose agent has
  come to its end, has an end in its session (`Concluded`); that a queued
  request's message is in the history or was dropped by another's copy, and
  that a running agent's copy has it (`Heard`); and that a stream has sent one
  stretch which reaches at least to its count (`Sent`): the slice may be
  longer than the count, so the next one overlaps and never skips. All four
  rest on events only being added. `TableBounded` is inductive beside it: a
  step that lets a request insert finds room, so the sum of sessions and
  inserting requests is at most one less than the limit plus the peak, or it
  frees a place for each that it admits.
- `ChatAndApprovalProofs`: of the chat page `[]TypeOK`, `[]AtMostTwoSessions`,
  `[]WaitsForAConnection` and `[]PageMatchesCache`. `SocketInv` says for each
  message what its three connections say of each other (`Sockets`): there is no
  request while the socket may still succeed, a socket that fails before it
  opened has carried nothing, and a second request is made only if the timeout
  and the error handler both ran, and then the socket carried nothing. `WaitInv`
  says that a connection that may still report belongs to the page while it
  streams. Page and cache are written together or the page has been left. Of the
  approvals `[]ReviewTypeOK` and `[]ShownDecisionWasTaken`: the decision of a
  click that was answered "ok" is recorded, in the store or as one of the two it
  took (`TakenClicks`): a later decision that differs makes it two, and one that
  is the same changes nothing. Of a request that is undecided none was taken
  (`UndecidedUntaken`).
- `StudioPagesProofs`:
  - `[]ScopeTypeOK`, `[]OnlyLateDataIsForeign`: the runtime tenant is the one shown
    once the mount effect has run, and a fetch on its way for another tenant is
    marked as late, since its answer will be (`ScopeInv`).
  - `[]ManifestTypeOK`, `[]DraftIsOfTheAnswer`, `SaveUndoesTheUnreadOnly`: while
    an answer is on its way no draft is on offer (`PanelOk`), and where the
    form or a save differs from the reading it was made on, it holds a draft or
    what was typed (`FormOk`, `SaveOk`).
  - `[]BuilderTypeOK`, `[]PreviewHoldsWhatWasDue`: what was due is still listed
    (nodes are never taken away), is in every answer read since, and in the data
    while that is fresh (`DueInv`).
- `LifecycleProofs`:
  - `[]RegistryTypeOK`, `UndoneByOlderReadingsOnly`, `[]FreshRowIsCurrent`: what
    was read after the last change still fits the record: a row shows its
    status, an edit on its way carries it, a validated transition is a step of
    the lifecycle from it (`RowFits`, `CallFits`). A change makes every
    earlier reading older, which keeps the others true. What was read for a fresh
    row, or for an answer on its way, and missed nothing is the record, or the
    tab has an answer outstanding that will have it read anew; and a fresh row
    has no fetch on its way (`FreshRowsFit`).
  - `[]AgentTypeOK`, `[]FreshCopyIsCurrent`, `LifecycleLeftByRacesOnly`: an
    accepted transition is a valid step from the status that was read
    (`JobFits`), so that it leaves the lifecycle only if the status has been
    replaced since; a reading that missed nothing, arrived or on its way, is
    current, or a mutation that has written is still to invalidate it
    (`CopyFits`).
- `ConsolePagesProofs`:
  - `[]CookbookFilesTypeOK`, `[]FilesKeepTheirText`: the text in the editor, the
    one a save carries and the one the page has read are of the file they are
    for; the argument is that path and text are always set together.
  - `[]ResultIsNews`, `[]OneImportPerSheet`: an open sheet's own imports are of its
    cookbook, and of those of one opening of the list's sheet at most one is on
    its way or was answered, since its button is off while the mutation is
    pending and gone once there is a result (`OneAtATime`).
  - `[]RoutesTypeOK`, `[]ConfigIsTheTable`, `[]ListIsTheTable`. `GenerationInv`: as
    long as no two generations overlapped, the one at work has read the table,
    or the file is the table, unless a committed change still owes a
    generation. `ListInv`: each route of the table has one place in the
    list, with its row, or the committed change that puts it right has not been
    answered; what is gone from the table is shown until then at most. The first
    holds once the page has had rows or is about to learn of none (`Steady`).
    They need that nobody has heard of the id of a route still to be created
    (`NewIdInv`), that a deleted route stays deleted (`MutationInv`), that
    a query which met no change has read the table (`CachedInv`), and that
    the place of a request is empty until it is answered (`PlacesInv`).
  - `[]RecordsTypeOK`, `[]ForeignTextSlidIn`: the list on the page is the older end
    of the catalogue (`OlderEnd`), so that a record which slid into a place is
    newer than the one that had it, and stays so; forms and saves carry that
    (`FormInv`, `EditInv`).

Only model-checked are `TenantsAreAsAskedLast` and the eight liveness properties:
`SessionCloses`, `GrantIsUsed`, `StreamCloses`, `EventsArrive`, `RequestAnswered`,
`StreamEnds`, `InputComesBack` and `PanelCatchesUp`. The latter rest on fairness,
which with `ENABLED` is outside the prover. So is induction over data; no module
here needs it.


## Not modelled

What is left is listed under "components" in `PROJECT.json`. In the order of
what it would be worth:

1. Idempotent triggers of api-gateway: two triggers with one key both find it
   unset, and both start a session.
2. `HybridWorkflow`: its dependency order, retries and `on_failure`. A decision
   on a hitl step that comes before the step is thrown away, the step waits
   without a timeout, and a failing task step is repeated without limit.
3. workflow-service: run rows, their dispatch and the triggers that create
   them. Its dispatcher posts to `/api/v1/workflows/{id}/start`, a route
   workflow-initiator does not have, a failed dispatch leaves the run pending,
   and nothing writes the status of a run afterwards.
4. The in-memory registries, whose `GetByID` takes the read lock and releases
   the write lock, and sub-agent-registry.
5. Hook engine, tool chains and the manifest cache: a chain that fails leaves
   the effects of the tools before it; a cached manifest outlives the agent.
6. kg-service beyond nodes: edges that dangle after a deletion, and the bounded
   traversal, against a reference definition.
7. The tool cache of mcp-registry, which never forgets a tool, and
   sandbox-manager, whose container stays when the request is cancelled.
8. Algorithms: merging tool results, the expression evaluator, manifest
   validation, the freshness window of webhooks.
9. The pydantic-ai branch of the approval pause.

Of the modelled parts these behaviours are left out, or are in the model
without a property: the terminate request of the chat page, which may stop the
session of another message (`ChatPage.StopChannels`); a tool result the chat
never joins with its call; the schemas and hooks an edit of a registry entry
erases; the quota form, which always opens empty; the edges of the visualizer,
whose default is a new list at every render, so that the drawing would be laid
out in every render until edges have arrived; the delete of a paused agent, which
is always refused; the tenant of the graph builder's nodes; the query key
`["knowledge-graphs"]` an import invalidates and no page reads; the navigation
after an import in admin-console; a Cancel during a save, whose answer closes the
next modal; a cleared field, which admin-api leaves as it was; the error answer of
the direct executor, which becomes a session named `<nil>`; and the cleanup of its
sessions, which never starts.

Lists that only read (executions, audit, cost, workflows), forms with one write
(model settings), the MCP page, whose token calls no service answers,
widgets, SQL text, HTTP encodings, container images and the generators of
documents keep no state the models could say more of.
