# TLA+ models of openwork-python-deepagent

The repository is a multi-user agent workbench: a FastAPI server (`server/app`)
that runs LangGraph agents in Daytona sandboxes, a MySQL database, and a React
client (`web/src`). This directory holds TLA+ modules of its concurrent parts,
TLC configurations that check them on small instances, and TLAPS proofs that
establish the main results for every value of the constants. `PROJECT.json`
lists the runs, the mutants that show each property can fail, the source lines
behind every definition, the findings, the hazards and the theorems.

    tlc -workers 2 -config SkillOverlap.cfg MCSkillMaterialization
    tlapm ThreadConversationProofs.tla

## 1. The system

| component | state it keeps | operations | hard behaviour |
|---|---|---|---|
| skill bindings and materialization state (`skills_service.py`) | tables `skills`, `skill_files`, `thread_skill_bindings`, `thread_skill_materialization_state` | sync bindings, claim, build payload, upload, three finalizers, runtime root | overlapping MySQL snapshot transactions, an upload outside any transaction, statuses decided on a row read earlier |
| skill and thread requests (`api/skills.py`, `api/threads.py`) | the rows above and `threads`, the sandbox | create, edit and delete skills; create and delete threads with compensation | one transaction per request, minutes long when a sandbox is provisioned |
| materialization worker (`skill_materialization_worker.py`) | its claim | one loop per server process | two workers on one thread, crash, busy loop |
| agent streams (`api/agent.py`) | registry thread -> task per process, one generator per request | stream, interrupt (resume), cancel | replacement, cancellation at any await, back-pressure, late clean-up, model fallback |
| browser transport (`window-api-transport.ts`, `window-api.ts`) | mailbox between fetch callback and generator, tracked tool calls | SSE reading, conversion, yield, abort | lost wake-ups, reordering, end of stream by four routes, approvals whose call is found by its name |
| agent runtime and MCP (`deep_agent_runtime.py`, `mcp_service.py`, `api/mcps.py`) | `mcp_servers`, bindings, per-thread runtime state, a gateway process per server in the sandbox | load tools, cooldown, edit and sync, test a connection | a load in flight while the configuration is edited; port collisions; partial failure |
| thread lifecycle and sandboxes (`api/threads.py`, `daytona_backend.py`, `audit_orphan_sandboxes.py`) | `threads.thread_values` JSON, sandboxes | create, patch, delete, audit | orphans after a crash, read-modify-write of one JSON column |
| checkpointer (`checkpointer_mysql.py`) | `checkpoints`, `checkpoint_writes` | put, put_writes, get, clear a channel, delete a thread | clearing racing a running agent |
| thread state of the client (`thread-context.tsx`, `ChatContainer.tsx`, `MessageBubble.tsx`, `ToolCallRenderer.tsx`) | messages, pending approval, subagents, model, open files; one stream per thread that outlives its chat | load history, stream events, submit, approve, stop | history loaded while a stream runs, messages shown from two sources, a decision while the stream is open |
| thread list (`store.ts`, `App.tsx`, `ThreadSidebar.tsx`, `KanbanView.tsx`) | list, current thread, view, creation and deletion under way | load, create, delete, rename, generate a title, select | answers that overtake one another, a creation that takes minutes and may be undone |
| file tabs and viewer (`FileViewer.tsx`, `TabbedPanel.tsx`, `TabBar.tsx`) | tabs per thread, contents read, the viewer that is mounted | open, close, select | a viewer kept across threads, late contents |
| file tree (`RightPanel.tsx`, `WorkspacePicker.tsx`, `api/workspace.py`) | list per thread, refs of loaded and loading directories | root load, expand, refresh, stream events | refs shared by the threads, three loaders of one list |
| panel layout (`RightPanel.tsx`) | open sections and their heights | toggle, drag, window resize | drags that compute with an older render |
| model and keys (`ModelSwitcher.tsx`, `ApiKeyDialog.tsx`, `api/models.py`) | the thread's model, the lists of providers and models, the dialog | choose, save and remove a key | read-modify-write of the metadata, chains of loads |
| skills page and MCP page (`SkillsPage.tsx`, `McpManager.tsx`) | list, selection, files or form, test result | create, save, enable, delete, test | loads that decide by the selection of an older render |
| workspace paths, catalogue, auth, configuration, admin, start-up | none shared, or single rows | read, list, merge | pure or single-step |

How they meet: a skill edit is a *request* that rewrites the bindings and the
desired hash of every thread of the user in one transaction; the *worker*
polls the state table, uploads to the thread's *sandbox* and records the root;
an *agent stream* asks `get_runtime_skill_paths` for that root and loads MCP
tools when it starts, runs the agent on the *checkpointer*, and sends server
events; the *browser transport* turns them into what the *client state* shows.
Skills and MCP servers are rows of the user; nothing else is shared between
threads. The pages of the client share the calls of `window.api` and little
else: each loads what it shows when it is mounted, changes it by calls that may
be refused or lost, and puts the answers together in the order in which they
come back.

## 2. Modules

| module | models |
|---|---|
| `SkillStore` | the rows, the desired hash, and the functions that decide a new status (`skills_service.py`) |
| `SkillRequests` | the handlers of `api/skills.py` and create/delete of `api/threads.py` as transactions with snapshots |
| `SkillMaterialization` | the worker on top of the requests: the whole skill delivery system and its properties |
| `SkillMaterializationInvariants` | the inductive strengthenings |
| `MCSkillMaterialization` | model values and symmetry for five configurations |
| `SkillMaterializationProofs` | typing and the served root; statuses and hashes |
| `AgentStreams`, `MCAgentStreams`, `AgentStreamsProofs` | `api/agent.py` and proofs about it |
| `StreamTransport`, `StreamTransportProofs` | the browser's generator and proofs about it |
| `McpRuntime`, `MCMcpRuntime`, `McpRuntimeProofs` | edits, loads and gateways of MCP servers and proofs about them |
| `ApprovalProtocol` | abstract: what human-in-the-loop approval promises |
| `ThreadConversation`, `MCThreadConversation`, `ThreadConversationProofs` | one thread's messages, stream, history loads and approvals; implements `ApprovalProtocol`, with the proof |
| `FileTabs`, `WorkspaceTree`, `PanelLayout`, `MCClientPanels`, `ClientPanelsProofs` | tabs with the viewer; the file tree; the heights of the right panel; proofs about the three |
| `SeqFilter`, `SeqFilterProofs` | `Array.filter` of messages and threads (`Keeping`), and what it keeps, with facts about sequences and counting |
| `ClientCalls` | calls to the server under way, and answers on their way back |
| `ThreadList`, `ModelChoice`, `SkillEditor`, `McpEditor`, `MCAppShell`, `AppShellProofs` | sidebar and store; model and API keys; skills page; MCP page, each against the server's rows; proofs about all four |

### Skills

*State.* `skill`, `thread`, `bound`, `mat` are table rows; `order` is the order
of the `updated_at` column (a relation, so that no clock is needed); `sandbox`
says whether the thread's sandbox exists, `files` what lies in it; `req` holds
the open request of each slot with the snapshot it reads from; `worker` the job
of each process. `materialized_hash` and `materialized_root` change together
and are one field, `have`.

*Hash.* `_build_desired_hash` digests skill ids, contents and positions; the
digest is represented by the set it is a digest of, rows `<<skill, version,
"new"|"old">>`; no row is `None`. "old" marks a binding row another transaction
has deleted since the snapshot.

*Transactions.* The engine is MySQL/InnoDB at its default REPEATABLE READ. A
request's snapshot is fixed by the first SELECT (`get_current_user`). DELETE and
UPDATE work on current rows, later SELECTs see the snapshot plus the session's
own writes, so a binding row that another transaction deleted is still read.
SQLAlchemy writes only columns whose value differs from the loaded one
(`Column`, `MergeState`). So two sessions can leave in a row a status that neither
of them decided: `lost` is a ghost with the threads of such rows, until a
transaction decides on the row as it is. `orphans` are those whose worker crashed
while they were `syncing`. Foreign keys make a commit fail when a referenced row
is gone or a child row is unknown to the session (`NotDeletedMeanwhile`,
`ChildrenKnown`). These four facts are about external software; the definitions
that state them name the code that relies on them.

*Actions.* Opening and committing a request are separate steps, because
everything in between is private to the session; provisioning and removing a
sandbox take effect outside the transaction and are steps of their own. The
worker has one step per transaction (claim, build, the read and the write of a
finalizer) and one for the upload, which may fail after any subset of the files.

### Agent streams

One event loop per process: what lies between two awaits is one step, and the
registry's lock is never held across one. `pc` says at which await a stream is
suspended. A cancellation is delivered at the next resumption: inside an attempt
(`except asyncio.CancelledError: return`), or in the server's send, outside the
generator; the generator is then closed later by the event loop, in another
task, which is why `_unregister` may be called by someone else than the owner.
`_agent_stream` and `_agent_interrupt` have the same control flow and share the
model. `StartFails` is the lookup of the default model raising before any event.

### Browser transport

JavaScript runs to completion, so while `gen = "head"` nothing else moves. An
event is known by its place in `arrived`, which makes order and loss visible.
`handed` is the argument `resolveNext` was called with until the generator
resumes. `conn` is the fetch; `Abort` is the listener of the abort signal, which
is attached only when the fetch starts.

### MCP runtime

`server`, `bound` and `state` are the tables `mcp_servers`,
`thread_mcp_bindings` and `thread_mcp_runtime_state`; a server's settings are a
version. `state` counts the ticks since `updated_at` up to the cooldown, and
carries two ghost fields: the configuration a failure belongs to (`config`) and
whether an edit met the load that failed (`raced`). Neither is read by an action
that models code. `gateway` says what runs on each port of a sandbox, and as a
ghost (`by`) the process whose run killed or started it last.

An edit is a transaction as in section 2 (`OpenEdit` fixes its snapshot,
`CommitEdit` is `sync_user_mcp_bindings` with the commit); edits are made one at
a time here. SQLAlchemy writes a status only when it differs from the one the
session has loaded, so an edit whose snapshot already says `dirty` does not
clear a failure recorded meanwhile (`Refreshed`). A load never awaits between
reading the servers and the first `get_tools`, so `read` and `building` block
their process (`Blocked`), but neither other processes nor edits, which run in
a thread pool. Starting a gateway kills the supergateway on the server's port
and starts its own; it can fail before, between or after the two. A cancelled
load leaves `connecting` behind, as the code does: `CancelledError` is not an
`Exception`. The connection test uses settings read before its handler runs and
may replace a gateway in use, and so may a run of another process.

### Conversation

`saved` and `asks` are the latest checkpoint, `run`, `writing` and `decision` the
agent, `wire` the events on their way. The client shows `local` (the thread's own
messages) followed by what only `streamed` (the stream's) has. An event, an
answer or a click is one action, together with React's renders and the effects
they cause: the code sets state in one synchronous segment. `loads` are the runs
of `loadThreadHistory`, each of which may read the checkpoint and come back at
any time later. The chat may be unmounted (`Leave`) while its stream goes on in
the stream holder. A history may restore an approval from the checkpoint's
interrupt; the code gives it a random call id (`Unmatched`), which no call on the
screen has, so it comes in place of a former approval and has no buttons itself.
Whether LangGraph leaves the interrupt among the channel values the code looks at
is left open (`HistoryAnswer` restores it or does not).

External and taken from how the code uses them: `useStream` merges messages by
id, replaces them by a `values` event and queues a submission made while its
stream is open; LangGraph saves a checkpoint after each node and gives calls that were left without a result one
when the next run begins. `doubt` is a ghost: the aspects which a stop, an error,
a reload, a late history or a restored approval may have left behind the server.
The properties except exactly those.

`ApprovalIsKept` is `ApprovalProtocol!Spec` under a refinement mapping: `asks` is
itself, `offered` is `pendingApproval` unless it is a restored one (`Offered`), the answer on its way is the queued
decision or the one the run was resumed with.

### Panels

`FileTabs`, `WorkspaceTree` and `PanelLayout` share only the thread on the
screen, so `MCClientPanels` explores them side by side. A `FileViewer` lives as
long as React finds the same key at its place; `carried` marks one that came from
another thread with the same path. `late` are contents that came after their tab
was closed. `WorkspaceTree` has the panel, the picker and the history as loaders
of one list; `failed` and `overtaken` are ghosts named in
`PanelTellsTheTruth`. `PanelLayout` computes in pixels, as the code does;
`drag.stale` and `outdated` are ghosts that mark heights computed for another
layout.

### Calls, thread list, model, skills page, MCP page

`asked` is a bag of requests the server has not dealt with, so that it may take
them in any order; `answers` keeps the order in which it did, and the client may
receive any of them next, with or without success. A creation of a thread is
answered in two steps: its row is there long before its sandbox. An answer is
`overtaken` when a later one of its kind came back before it, or when one of the
two belongs to a change: then the page may show either. `behind`, `unsure`,
`outdated` and `behindList` are ghosts that remember this, or a failed call,
until the next load that sets it right; `vanished`, `moved`, `mixed` and
`strayed` name the interleavings in which the code does go wrong (section 3).

A handler's steps between two awaits are one action with the effects they cause.
The closures matter: `loadSkills` and `loadMcps` decide by the selection and the
key of the render in which they were called, so a request carries both
(`SelectedAfter`, `Renewed`). The order of the server's lists of skills and MCP
servers, by `updated_at`, is left open.

## 3. Runs

| run | question | instance |
|---|---|---|
| `skill_overlap` | is the served directory always a complete upload, and do statuses tell the truth of every row no update was lost in? | 2 skills, 2 threads, 2 request slots, 3 requests, 1 worker, 1 crash, transactions overlap |
| `skill_one_editor` | with one request at a time, do hash and bindings agree, is a claim given up only when outdated, is the old root kept; is a syncing thread in a worker's hands unless it crashed? | the same with 1 slot, 2 requests and 2 workers that overlap with it |
| `skill_liveness` | if transactions do not overlap, is a pending skill delivered although the other thread's uploads always fail? | 1 skill, 2 threads, 2 workers, no crash |
| `skill_none_enabled` | (violated) does disabling everything end in `ready`? | 1 skill, 1 thread, 1 worker |
| `skill_two_editors` | (violated) does "Desired hash changed" mean it changed? | 1 thread, 2 overlapping requests |
| `agent_streams` | is the live stream the registered one, is an answer one answer, does a stopped stream fall silent and drain? | 1 process, 1 thread, 2 streams, 2 events, 2 cancels |
| `stream_transport` | order, completeness, no lost wake-up, the generator ends | 7 events |
| `stream_transport_error` | (violated) is a final error shown? | 3 events suffice |
| `mcp_runtime` | is a cooldown earned by the present settings, does a run keep its own gateways unless a test or its own other server takes the port, are settings tried in the end? | 2 servers in the sandbox on one port, 1 thread, 1 process, 2 loads, 1 edit, 1 test, cooldown of 2 ticks |
| `conversation` | is the chat the agent's conversation, is a waiting agent seen to, does the client implement the approval protocol? | 4 messages of user and agent with up to 2 calls each, 2 events on the wire, 2 moves (stop, leave, return, reload) |
| `client_panels` | do tabs, viewer, tree and heights agree with what they stand for? | 2 threads, 2 paths, 2 reads; 2 directories and a file, 3 loads, 2 moves; 2 panel heights, 3 distances, 3 drags |
| `app_shell` | once nothing is under way, is what is shown the server's, and does an edit reach only what it was meant for (with the exceptions named below)? | 3 calls under way, 2 clicks (4 in the thread list); 2 threads, 2 models of one provider, 2 skills with SKILL.md and one more file, 2 MCP servers |

*Why the bounds suffice.* Three requests allow an edit, a second that overlaps
it and a deletion; two versions allow contents to return to an earlier value,
which matters because the hash then does too. One worker next to two overlapping
requests, and two workers next to one, cover every pair of racing actors. Two
streams are enough for a replacement with late clean-up by the first; a third
only adds a replacement of the same kind (the run was repeated once with three
streams and its safety properties). Seven events leave room for two queued
events, a handed one and a terminal one twice over. Two loads and an edit are
the actors that can overtake one another in the MCP runtime: one load may begin
before the edit and fail behind it, the other sees the result; a cooldown of two
ticks has an inside and a boundary. The run was repeated once with two edits
without the liveness property, and once with two processes (4.5 million states):
two loads in two processes on one port are what can replace a gateway under a run,
the other process and the run's own other server. `SettingsAreTried` is checked in
one process: there a new question ends the thread's older answer, while with two
processes two unending answers would take up both loads of the instance. The theorems of section 5
remove the bounds for the safety properties proved there.

Four messages are a question, an answer with calls, the next question and its
answer: a history read before the second question can come behind it, and an
approval can be asked twice (4.8 million states). Two moves allow leaving and returning, or a stop and
a reload. In the panels, three loads are the panel's root load, another load and
one that overtakes it; three drags reach a layout made by a drag over a section
that opened meanwhile. In the shell three calls under way are a change, a load
that began before it and one that began after; a click on another skill alone
sends two. The parts were also run alone with more: the thread list with 2 calls
and any number of clicks (3.5 million states), the model with 3 and any number
(6.4 million), two models of two providers (3.9 million), the skills page with each set of skills to begin with (5.2
million), the MCP page with 3 clicks (2.5 million). `SYMMETRY` exchanges skills
and MCP servers of the pages, and in `skill_overlap` request slots and workers,
which no definition tells apart.

*Deadlock* is not checked: requests, cancels and events are bounded, and a
system without work may stop.

*Violations* are behaviours of the code that contradict its tests or messages;
each has a finding in `PROJECT.json`:

1. Disabling all skills during an upload leaves the thread `dirty` without a
   desired hash, and the agent keeps the disabled skills
   (`skills_service.py:391-399`).
2. Two overlapping edits store a desired hash no build can reproduce; the worker
   then claims the thread again and again without a pause.
3. An error that arrives while an earlier event is queued is never shown
   (`window-api-transport.ts:238`).

Two more behaviours of the code are known to the skill properties by ghosts. When
a transaction writes by columns over a row that has changed since it read it,
`ReadyMeansServed`, `SyncingIsHeld` and `StatusInv` do not speak of that row
(`lost`) until the next decision on it that comes out as meant. After a crash
`SyncingIsHeld` does not speak of the thread the worker had (`orphans`), as nothing
claims a `syncing` row again. Of all other rows they hold with any overlap and any
crashes. Four properties need more: `DesiredDescribesBindings`,
`RootKeptUntilReplaced` and `OutdatedMeansChanged` one request at a time, beside
workers that overlap with it; with two overlapping requests each fails, the last in
run `skill_two_editors`. `SkillsDelivered` needs transactions that do not overlap
and workers that do not crash.

The client's modules name more behaviour that a user may not expect, and which no
document or test excludes; the properties state exactly where it begins.
A history that was asked for before the latest question hides it until the next
load; a stop, an error or a restored approval takes an approval's buttons away
until the next message (`doubt`): a restored one has a random call id, so no call of
the chat gets its buttons (`thread-context.tsx:703`, `MessageBubble.tsx:127-130`),
and the agent waits for a decision the user cannot give. A viewer carried to another thread with the same path shows the former
thread's bytes until its effect has run (`carried`). A thread list read during a
creation shows the thread twice, or a thread the server has given up
(`behind`, `vanished`). Two quick choices of a model may be saved in the other
order (`unsure`). On the skills page, files of a skill that was selected before
are shown under the present one, and Save writes them there (`moved`, `mixed`);
on the MCP page the result of a test is shown under whatever is selected when it
comes (`strayed`).

Windows that are resized, and drags over sections that opened or closed
meanwhile, leave heights that do not fit (`outdated` in `PanelLayout`).

`RunsOwnGateways` names what the code does not exclude: a run in another process
is not stopped and restarts the gateway under the first (`by`), a connection test
does so too, and `_derive_daytona_mcp_port` is a hash modulo a span, so that two
servers of one run may have one port (`SharesPort`). `CooldownIsEarned` excepts
failures of loads that met an edit: those may outlive it by one cooldown.

## 4. Fairness

- *Skills.* A request ends (its thread either commits or raises). The worker
  loop goes on for as long as the process lives: strong fairness, because
  without overlap its transaction may have to wait for others again and again.
  An upload to a sandbox in `Reachable` does not fail every time; other
  sandboxes may always fail. Nobody has to make a request.
- *Agent streams.* The event loop delivers a pending cancellation and closes
  abandoned generators. A model may be silent for ever, and nothing is assumed
  of the client.
- *MCP runtime.* Time passes, an edit ends, the steps of a load are carried out
  (`get_tools` has a timeout, the rest does not wait for anybody), and the user
  keeps asking in every thread. An answer need not end; the next question
  replaces it. Nobody has to edit or to test.
- *Conversation, panels, shell.* Nothing is assumed; they have safety properties
  only, most of them about the states in which nothing is under way.
- *Transport.* The user interface keeps calling `next()`, and the browser
  settles an aborted fetch. The server need not answer.

## 5. Proofs

All theorems hold for every value of the constants under the named assumptions.

*Skills.* `TypeCorrect` types every reachable state. `ServedRootCorrect` needs
`UploadInv`: the property alone speaks of what is recorded, and is not inductive
because a finalizer records what it was told long before; the invariant follows
the payload from the hash it was built for, through the upload, into the
finalizer. It holds with any overlap and any number of crashes. So do
`ReadyCorrect` and `HeldCorrect`, which rest on `StatusInv`: a row that is not
`lost` was decided as it is, so it is claimed only when something is pending, and
is left in `syncing` only by the worker that has it or when that crashed. Nothing is
assumed of transactions, requests, workers or crashes; the exceptions are states the
code reaches, named by `lost` and `orphans`.
`DesiredCorrect`, `RootKept` and `OutdatedCorrect` (requests do not overlap one
another; workers may overlap with everything) rest on `EditorInv`: a request's
snapshot is current except in the workers' columns, which is what makes its
desired hash describe the rows at commit.

*Agent streams.* The invariant is `TypeOK /\ LiveIsReachable /\ StreamInv`. Every
step preserves `LiveIsReachable` because a registry entry is only replaced by a
step that cancels its owner and only removed by its owner or when that is done
(`EntriesAreOpen` supplies that an entry names a started stream). `OneAnswer`
follows from `SentByThisAttempt` and `TerminalIsLast`; `StoppedStaysSilent` is an
action property from `StoppedIsCancelled`.

*Transport.* `BacklogFollows` says that what arrived is what was yielded, then
what is handed over, then the queue; `YieldedInOrder` and `NoLostWakeup` are
preserved together with it. `ErrorIsKept` is needed since the code skips a
queued error when `hasError` is false. `DoneComplete` needs `DoneInv` on top: a
`done` is never yielded, only an error comes behind it, and `isDone` has one of
three reasons (a `done`, an error, a stop).

*MCP runtime.* `CooldownEarned` needs that a load which met no edit has read the
present settings (`LoadsAreCurrent`) and that an open edit has seen every failure
it must clear (`FailuresAreSeen`). `OwnGateways` rests on `OthersAreStopped`: while
a run builds, all others of its thread in its process are stopped, which holds
because `_register_active_stream_task` and building exclude each other on the
event loop; so only another process, a test or the run itself can have touched its
port last. Neither assumes a number of processes or anything of the ports. Both need
`LoadsAreClosed`, as does typing: a gateway is started with
the one version the load has read.

The strengthenings the runs check (`UploadInv`, `StatusInv`, `StreamInv`,
`MailboxInv`, `McpInv`) are theorems of their own, so a reader may use them, and
so is `EditorInv`, which TLC checked once in the run `skill_one_editor`.

*Conversation.* `ApprovalKept` is the refinement of `ApprovalProtocol`: the
mapping is the identity on `asks`, `queued` and `decision`, takes a restored
approval for none (`Offered`), and every step of `ThreadConversation` is a step of
the protocol or leaves the four alone.
The steps that could break it are the ones in which the page learns of a call
long after the agent asked: an interrupt read off the wire, a call tracked
earlier, a history load that answers late. They need `ProtocolInv` (theorem
`ProtocolHolds`): an approval on the screen, or a decision that waits, is of a
run that has ended and leaves no interrupt behind (`OneQuestion`); a run streams
one answer (`OneAnswer`); and when an interrupt is read, the call tracked by
then, or by an event still before it on the wire, is the one that is asked for
(`InterruptIsTracked`). That an answer has a last call rests on the
well-foundedness of the naturals (`LeastNumber`). `QuestionReachesApproval` adds
that the end of a stream comes last and that an open question is always
somewhere on its way (`QuestionIsSomewhere`): on the wire, on the screen,
answered, or about to be given up by a new run.

Three more theorems are about the messages. `ConversationTyped` needs that a
message is what its id says wherever it is kept (`Agreement`, over the
checkpoint, what is being written, both lists of the client and the wire), and
that a `values` event carries a beginning of what is saved (`EventTyped`).
`QuestionIsOffered` adds `AskedInv`: nothing but its end follows an interrupt, the
last `values` event on the wire is the present checkpoint, and when an approval is
on the screen every message of the agent in the checkpoint is with the stream
(`AskedIsStreamed`), so that the call with the buttons is displayed.

`DisplayIsTheConversation` is the theorem about what the user reads. Its property
speaks of a state in which nothing is in doubt; the invariant has to say why that
stays so while events are on the wire and a history is late. `FlowInv` is about
the stream: everywhere messages stand in the order in which they were written
(`Ordered`); a message on the wire is newer than all the client has by then
(`Newest`); a `values` event loses nothing (`Covered`); no message is skipped
between the ones the stream has and the ones to come (`NoGap`, `NoHole`). This holds
for the turn since the user's last message only (`Since`), as a stream may begin
after messages it never sends. `DisplayFollows` is about the thread's own list: with
a message it has all of the agent's before it (`Closed`), it has the user's
messages exactly, and what it lacks of the agent's the stream has or is about to
have. Then the list, the stream, and one appended to the other are all kept up
(`JoinedIsKept`, `DisplayIsKept`), a history may replace the list when what was
saved since is with the stream (`HistoryIsKept`), and a list that is kept up shows a
beginning of the conversation (`KeptIsSeen`, which rests on `BeginningOf`: of two
rising sequences, one with all that comes before its entries in the other is a
beginning of it). `SubagentInv` says that a subagent which has its result is shown
as completed, or a `values` event that completes it is on the wire
(`NoneForgotten`), also for a task that is still to be started (`StartsAreOld`).

The lemmas behind these: what `appendMessage` and `AppendAll` make of two lists whose
messages agree (`AppendAllJoins`), what the wire keeps when an event is added or
taken (`WireFlows`, `EventFlows`), and what `Keeping` keeps (`KeepingKeeps`).
Assumed of the constants are that plans are sequences of tools, that null is
neither a decision nor the id of a call, and that the bounds are natural numbers.
TLC checked the conjunction of all these invariants on the instance of the run
`conversation` (4.8 million states).

*Panels.* Three invariants, each inductive by itself. `TabsInv`: the active tab
is a tab, no file has two, and the viewer agrees with its live read
(`ViewerIsFresh`), of which there is at most one. `TreeInv`: the panel's own live
and fresh requests ask for the thread on the screen and for each directory once
(`TrueOf`); without the uniqueness an answer could clear the mark of another
request, so `PanelTellsTheTruth` alone is not inductive. `LayoutInv`: the heights
on the screen are those computed for the panel, and a drag over which nothing has
opened or closed computes with the sections that are there, has left the third
section alone, and starts from heights that fit (`DragIsUpToDate`);
`ResizedKeepsTheSum` then shows that `Resized` gives one section what it takes
from the other whenever both start at their minimum or above. `TabsStayConsistent`,
`ViewerShows`, `PanelIsTruthful` and `SectionsFit` are about the three
specifications each on its own, `PanelsAreTyped` about the three side by side.
`SectionsFit` assumes of the sizes that they are natural numbers, and that the
panel starts at its greatest height.

*Skills page and MCP page.* `EditorsKeep` has one invariant for each page, of the
behaviours that exercise it (`EditorsInv`). That a page at rest shows what the
server has is proved by looking ahead along the answers still to come. A list
*leads* to the server's rows when a change that makes the page load it again is
among the answers behind it, or when it has the rows' ids and each row that it
does not have as it is comes with the answer of an update (`Leads`). Every list
on its way that nothing has overtaken leads there, and so does the one on the
screen unless another is under way (`SkillsCatchUp`, `McpCatchesUp`). That
answers may be exchanged only if none of the two is of a change is what keeps
this true when one comes back (`CameBack`). In the same way files that came for a
skill are the server's, or the answer of a later change of files is on its way
(`FilesCatchUp`); for the screen this needs that calls about files are about the
selected skill unless `moved` (`ScreenIsOwn`). Texts stay with their skill because
whatever is being written, read or shown without `mixed` is the skill's own
(`TextsAreOwn`). On the MCP page there is at most one change, with the load behind
it, and at most one test under way (`Alone`), from which it follows that the
buttons are disabled exactly then (`McpButtons`); the form is of the selected
server (`McpFormOwn`), and a test asked for with this selection is of it
(`McpTestOwn`). Assumed are that null is no server's id and that the skills that
exist when the page is opened are among `SkillIds`. A run of the skills page
checked `SkillInv` as well, to its end at the bounds of section 3 (2.8 million
states).

*Model switcher.* `SwitcherShows` has the invariant `ModelInv`. A change of a
provider's keys makes the page load providers and models again, and a choice of
a model makes it save the metadata; each is a chain of calls, one sent when the
one before it comes back (`ChainOf`). A list that nothing overtook either tells
the server's keys, or the answer of a change is behind it, or a load is under
way (`KeysLead`, `KeysCatchUp`, `ModelsFollow`). There is at most one chain that
saves and one that removes a key, from which the dialog's two buttons follow
(`ModelButtons`). Unless `unsure`, at most one chain is about the thread's model,
and at its end screen and metadata agree (`ModelFollows`). Assumed is that null
is neither a model nor a provider. TLC checked `ModelInv` with this part alone,
three calls under way and four clicks (11.1 million states).

*Thread list.* `SidebarShows` has the invariant `ThreadInv`. A list of threads,
on its way or on the screen, *leads* to the server's when every difference
between the two is told by an answer behind it: a thread that is missing is the
subject of a creation's answer, one that is too many of a deletion's, another
title of a renaming's (`ThreadsLead`, `ListsFollow`, `ScreenFollows`). A thread
whose creation is still to be answered is in no list that came before that
answer, and the page does not know it unless a list overtook it (`CreationsOK`);
a thread that is listed or selected exists or its end is known or on its way
(`Accounted`). Only an answer that was overtaken may break this, and leaves the
list behind (`Doubtful`). At most one creation and one deletion are under way,
which gives the buttons (`ThreadButtons`). To count each thread once the proof
needs that two lists without repetitions and with the same entries have the same
length (`SameEntriesSameLength`, from the library's facts about cardinality).
Assumed is that null is no thread's id. `ShellTyped` types all four parts, each
under its own invariant. TLC checked `ThreadInv` with the bounds of the run
`app_shell`.

*Sequences and filters.* The provers know nothing of `SelectSeq`, whose argument is
an operator, nor of the community modules' folds. Where a proof needs a
filter or a fold the model uses a recursive function instead (`Keeping` with the set of
what it keeps, `AppendAll`), about which induction over the length of the
sequence can be carried out inside a proof: a set of numbers that has 0 and with
each number its successor has them all (`Upwards`, from the least number of a
non-empty set, `LeastNumber`).

*Not proved.* Liveness and everything that needs ENABLED is out of the prover's
reach and stays with TLC: `SkillsDelivered`, `StopDrains`, `StreamEnds`,
`SettingsAreTried`. `EveryEventYielded`, `NoSkillsIsReady` and
`OutdatedMeansChanged` with two editors are violated, see section 3. Every
invariant and every other action property of a passing run is a theorem. No module
with a theorem reaches a RECURSIVE operator.

## 6. Not modelled

Contents of files, events and messages; `last_error` and logging; the position
column as such (it is a function of creation order); `MaterializationState`
rows of other users (a request only touches its own user's rows). The unused
`update_materialization_state_for_skill`. The loss of a registry with its
process. In the MCP runtime: the choice of the model, threads created or deleted
during a load, overlapping edits, a gateway that dies by itself, the clearing of
`mcp_tools_metadata` in the checkpoints. In the transport: `generator.return()` by
the SDK. In the client: what is in messages, files and todos; errors, notices,
token counts and drafts; the subagents' own messages; which thread's title is
being edited in the sidebar (a save that returns late closes the field of another
thread); names and descriptions on the skills page and the MCP page, whose
unsaved drafts each reload of the list discards; a page that is left and mounted
again; several browser windows.
Components with status `not_modelled` in `PROJECT.json` give their reasons:
pure functions, single-row operations, user interface, scripts run by hand.

## 7. Plan

Done: skills, agent streams, the transport, the MCP runtime; the client's
conversation with the approval protocol, its panels, its two editor pages, the
model switcher and the thread list; the proofs of their safety properties.
Next, in this order:

1. `ThreadLifecycle`: creation, patch, deletion, `thread_values`, crash points,
   orphans and the audit; theorem: a recorded sandbox is the thread's own.
2. `SkillMetadataCache`: the checkpointer's channel clearing composed with
   `SkillMaterialization` and running agents.
3. Abstract specifications: `SkillDelivery` (wanted, served, in flight), refined
   by `SkillMaterialization` without overlap; one run per thread, refined by
   `AgentStreams`.
