# Verification of OpenStateGraph

TLA+ models of the concurrent parts of OpenStateGraph, the TLC instances that
check them, and TLAPS proofs about each of them. `backend/` below is
`src/backend/openstategraph/`, `editor/` is `src/src/`.

Most of the repository is sequential: a document becomes a graph, a graph's
events become frames, a store reads and writes files. What is hard to get right,
and hard to test, is where threads of a pool, one event loop, background
coroutines, browser tabs and agents in other processes share state. The project is about those places.

## 1. Inventory

The backend is one process: a FastAPI application whose request handlers run on
a thread pool, one asyncio loop for the streaming connections, and a private
loop per "desk" for children started by a model. The editor is a browser
program that polls and listens to the backend. State that outlives the process
is files (packages), SQLite or Postgres (checkpoints, kanban, memory).

| component | state it keeps | operations | talks to | what is hard | what makes it correct |
|---|---|---|---|---|---|
| **Live workflow holder** `backend/live.py` | slug -> compiled entry with a lease count and a retired flag; a lock per slug; one checkpointer and store | `use`, `invalidate`, `close` | disk, compiler, memory; called by services, MCP server and hosts | packages change during a compile; an entry leaves the map by three ways while runs hold it | no lease on a closed graph; each entry closed once, and closed in the end; a lease is as new as the last save; one compile per slug |
| **Async subagent desk** `backend/async_tasks.py`, `abc/async_task_middleware.py` | task records, their turns and queued turns, futures, launchers; rows in the conversation's state | start, follow up, cancel, check, shutdown, rebind; one driver coroutine per task | tool calls on threads; children on a loop of its own; checkpointer | critical sections with gaps between them; an await between reading and writing a status; a recompile or a restart in between | one driver per task; a success covers every accepted turn; cancelled stays quiet; running means driven |
| **Event fan-out** `backend/api/broadcast.py` | set of subscribers; per subscriber a bounded backlog, two flags, an `asyncio.Event` | publish, attach, events, detach | published to by stores, watchers and patrol; consumed by the stream route | publishers are threads, consumers are coroutines; a full backlog | nothing lost silently; order; no lost wakeup; a dropped connection ends |
| **Workflow file watcher** `backend/api/workflow_events.py` | watch counts, last digests, the poll task | attach, detach, poll, sweep | disk, executor, fan-out | the poll is cancelled while its sweep runs on a thread | polled exactly while watched; a change reaches every client |
| **Live event stream** `backend/api/routes/system.py`, `api/live_stream.py` | none of its own: an exit stack per connection | `GET /api/events` | fan-out, watchers, kanban watcher, patrol | the order in which four sources are attached and detached | a connection leaves nothing registered |
| **Package store** `backend/api/workflow_store.py` | `workflow.json` and the files beside it | save with expected digest, create, publish flag, delete | disk, catalogue, editor | compare-then-write by several savers; read-modify-write of the publish flag; a receipt read after the write | a save that quotes a version overwrites nothing its author has not seen |
| **Editor autosave and watch** `editor/app/diskAutosave.ts`, `workflowFileWatch.ts`, `editor/view/workflow/` | the last document written (the baseline), the known digest, a debounce timer, a stood-down flag, one pending question | edit, autosave, Save, poll, refresh, ask, keep, take, defer, reopen, reload | package store, event stream | four pieces of state that every gesture moves in another order, each a request apart; answers that arrive late or out of order | the user's edits survive, or the user is asked; in the end canvas and file agree or the user knows |
| **Kanban store** `backend/abc/kanban_store.py`, `kanban_sqlite.py`, `kanban_postgres.py` | cards with stage, actor, evidence, heartbeat, answer | file, set stage, release, answer | agents in other processes, people at the board, kanban watcher | every operation reads on one connection and writes on another | a card has one holder and one decision; its evidence fits its stage; the stage advances |
| **Kanban watcher** `backend/api/kanban_events.py` | as the workflow watcher, per board | as above | kanban store | its poll can die on a store error | as above |
| **MCP session pool** `backend/mcp_sessions.py` | per server and credential source: a session and its stack, the newest credential, a stale mark, an `asyncio.Lock` | call, open, retry once, drop, adopt a credential | third-party MCP servers; callers on any thread | several calls on one session when it breaks; a rotation from another thread between two statements | no session left open and forgotten; no call on a credential replaced before it; every call ends; one break is survived |
| **Patrol registry** `backend/api/patrol_registry.py` | one running job | try_start, finished, failed | patrol route, fan-out | a job that ends while another starts | one job at a time |
| **Run stream** `backend/run_stream.py`, `api/streaming.py`, `run_journal.py` | three nested generators: the pull and its race with the disconnect, the frames owed and the open lanes, the fold and its row | pull, frame, end, raise, stop, finalise | compiled graph, client, journal | a disconnect during a frame; an exception while lanes are open; contexts that differ from pull to pull | one ending, the last frame; every lane closed before it; the row agrees with what the client was told; a stop stops |
| Catalogue and loader, workflow compiler, memory, run sinks, threads and review, services and routes, agent types, step budget, MCP server and CLI, providers and tools, knowledge and evaluation, editor model and canvas | see `PROJECT.json` | | | sequential, or the state is a third party's | functions of their input, tested as such |

How they meet, in one save: a browser tab saves a document through the package
store; the watcher's next sweep finds another digest and publishes a frame; the
fan-out banks it for every open connection and wakes them; each editor re-reads
the document. The next run calls `use()`, which finds the stamp of its compiled
entry out of date, compiles again, and retires the old entry, whose last
lease closes it. A tool call inside a run may start a child at the desk, which
outlives the run, and the recompile rebinds the desk's launchers under it.

The hazards, each at its line and with the property that would catch it, are
listed in `PROJECT.json`, those that no property covers yet included.

## 2. Modules and how they correspond to the code

| module | models |
|---|---|
| `LiveWorkflows` | `live.py`: the whole of `LiveWorkflows` |
| `WorkflowHolder` | no code: the contract `live.py`'s docstrings give to callers; `LiveWorkflows` implements it |
| `LiveWorkflows_proofs` | theorems about `LiveWorkflows` |
| `TaskDesk` | `async_tasks.py` and the tools of `async_task_middleware.py` |
| `TaskDesk_proofs` | theorems about `TaskDesk` |
| `Broadcast` | `broadcast.py` |
| `Broadcast_proofs` | theorems about `Broadcast` |
| `WorkflowWatch` | `workflow_events.py` with the connections of the stream route and the client's refetch |
| `WorkflowWatch_proofs` | theorems about `WorkflowWatch` |
| `KanbanCard` | `abc/kanban_store.py` over the statements of `kanban_sqlite.py`: one card |
| `WorkCard` | no code of its own: the contract of `abc/kanban_store.py`, each call one step; `KanbanCard` implements it |
| `KanbanCard_proofs` | theorems about `KanbanCard` |
| `SaveProtocol` | one `workflow.json` and its writers: `workflow_store.py` behind `routes/workflows.py`, and the editor tabs that have it open |
| `SaveProtocol_proofs` | theorems about `SaveProtocol` |
| `McpSessions` | `mcp_sessions.py`: one `McpSessionProxy` and the calls that share it |
| `McpSessions_proofs` | theorems about `McpSessions` |
| `RunStream` | `api/streaming.py`: `stop_when_client_leaves`, `_stream_run` and the control of `_run_frames`, with `RunTurn.record` of `run_journal.py` |
| `RunStream_proofs` | theorems about `RunStream` |
| `MC*` | constants for TLC |

One rule fixes the grain everywhere: what runs under one lock, or between two
awaits on the loop, is one action; what runs between two such sections is a
program counter (`pc`, `calling`, `publisher`, `reader`, `poll`) with another
actor's steps free to come in. `PROJECT.json` "map" names the lines of every
definition.

### LiveWorkflows

A thread goes through `use()` as `ask -> (wait -> stamp -> resolve -> open ->
take -> read -> mounts -> install -> supersede) -> leased -> drain -> idle`.
`LookHit`/`LookMiss` are the first look of `_entry` under `_map_lock`,
`GatedRetry`/`GatedHit`/`GatedMiss` the second look behind the slug's gate,
`StampOwn`, `ReadOwn`, `ReadMount`, `StampMounts` the reads of the disk in their
order around the compile, `Install` and `CloseSuperseded` the replacement,
`Release` and `CloseDrained` the end of the `with` block, `Invalidate`,
`HostCloses`, `ShutSaver` and `ForgetSaver` the calls of the host. `Edit` is
anybody writing to the directory.

Abstractions:
- a package's bytes are a version; two equal versions are two equal digests;
- an entry is the number of the `use()` that compiled it, so that a
  property can speak of it after it left the map;
- taking the gate and the second look are one action: the look reads nothing
  the gate protects, and `OneCompile` is about what follows it;
- `_current` compares all the digests in one action. The map lock does not stop
  the disk, so in the code an edit may land between two of its reads; the
  outcome is that of an edit before or after;
- the store is resolved and closed next to the checkpointer, by the same code:
  one variable stands for both. A checkpointer supplied by the caller is not
  modelled (`close()` leaves it alone);
- one host thread calls `invalidate` and `close`; a stamp or a `close()` that
  raises is not modelled.

### TaskDesk

`Start`, `Submit`, `Assign` are the three parts of `start()`: the record, the
`run_coroutine_threadsafe`, and the assignment of the future in a later lock
section. `FollowUp` with `Submit` and `LauncherGone` is `follow_up()`. `Cancel` and
`Kill` are `cancel()`. `CheckStatus`, `CheckResult`, `CheckAnswer` are the tool's
`status()` and then `result()`, which reads outside the lock. `NextTurn`,
`DriverQuits`, `TurnAnswers`, `TurnRaises`, `TurnCancelled` are `_drive`.
`ShutdownMarks`, `ShutdownCancels`, `ShutdownStops` are `shutdown()`, `Rebind` is
`desk_for`, `Restart` the death of the process.

Abstractions: turns are counted, and an answer is the number of turns it was given
after, which is all that "was my message read" needs. "unknown" is an id the desk
does not hold. A driver on a stopped loop or in a dead process is "lost". The
launcher lookup and the submit are one action, since only the lookup can fail.
List and announce read statuses only. The rows keep the ids they name and not
the status copied into them. `accepted`, `owner` and `silenced` are history variables; `silenced` holds the tasks that
were cancelled and have not been given a later turn, whatever became of their status.

### Broadcast

Per publisher: the snapshot (`Publish`), one offer to each target (`OfferRefused`,
`OfferOverflows`, `OfferBanked`), the posted wakeup (`Wake`), and the removal of
who refused (`PublishReturns`). Per connection: `ClearWakeup`, `Drain`, `Yield`,
`Pause`, `Resume`, `StreamEnds`, in the order of `events()`. Posting the wakeup to
the loop and the loop setting it (`SetWakeup`) are two steps. The keepalive
timeout also wakes the consumer: it is left out, so that no property rests on it.

### WorkflowWatch

`Open` and `Close` are `_enter` and `_leave`; they run on the loop and are one action
each. `PollWakes` hands a sweep to the executor, `SweepStarts`, `SweepReads`,
`SweepCompares` and `SweepEnds` are the sweep on its thread, and `PollPublishes` is
what the poll does with the result. A cancelled poll leaves its running sweep
behind; a queued one is cancelled with it. `Refetch` is the client: `react()` of
`editor/view/workflow/useExternalWorkflowChange.ts`, on a frame, and once after it has connected. The route
(`routes/system.py:161`) asks for a refetch on open; the editor's stream has no open listener
(`LiveEventStream.ts:180`), and what stands in for it is the next row of the five-second poll
(`useWorkflowFileWatch.ts:111`). A client with neither is not promised anything. `Edit` is anybody who writes the file. The compare and the write of one digest are one action, and so
are the read of a baseline and its write. `Overlap` says whether a connection may
open while a cancelled sweep still runs, `MayRevert` whether a write may put earlier
bytes back.

### KanbanCard

The lock here is the database's: one statement is one action, and each of the
three operations is two of them. `Ask` is `set_stage` up to the write, with `InOrder`
the order of stages and `Gate` what the evidence becomes; `Advance` and `AdvanceLost` are
the conditional `UPDATE` that matched or did not. `Release` is the staleness check of
`release_card`, `Reset` its write. `Decide` is `answer_card` up to its write,
`RecordAnswer` and `AnswerLost` the write. `File` is both kinds of filing.

Abstractions:
- a call that its first read refuses changes nothing, and is left out;
- `evidence.test` stands for the test id and the red reason, which are written together;
  `evidence.commit` for the commit and the closing reason. `evidence.green` is the test that the green call
  named: the code keeps a boolean, and the model more, so that `EvidenceGate` can say of which
  test it is;
- the heartbeat is `old` or not: set to now by every advance, cleared by a reset. `GrowOld` is an hour
  without a word;
- a card is one row. Cards share no column, and `blocked_by` is resolved once, at filing;
- `holders` and `deciders` are history variables: who was told "ok";
- `Asked` is the set of stages callers ask for. The command line offers three and has `attend`
  for the fourth; the MCP tool takes any name of a stage.

### SaveProtocol

The server side of a save is `Check` (exists? moved?), `Write` (`_write`, which leaves the file alone when only the
clock would change) and `Receipt` (`_digest_now`, a second read). `AgentWrites` (the MCP server's `save_draft`, or an agent's own
editor: any document made from one that was read earlier, also over a deleted package),
`PublishReads`/`PublishWrites` and `Delete` are the writers that quote nothing, and between any two reads or writes any of them may come.

A tab keeps `screen` (the model), `base` (`lastWritten`, absent = disarmed), `known` (`knownDigest`), `timer`, `down`
(`standingDown`), `offer` (the pending choice), `draft` with its `baseDigest`, and `open`. `Type` starts the timer;
`FireQuietly`/`FireSave` are the timer's `writeOpenWorkflowToDisk`, `AutosaveLands`, `AutosaveRefused`, `SaveFails` its
three answers; `PressSave`, `ButtonLands`, `ButtonRow` the Save button with the summary it reads afterwards. `Hear` is
a row of the five-second poll or a frame of the stream leaving the server, and `Abandon`, `Ignore` or `React` what
`useWorkflowFileWatch` and `useExternalWorkflowChange` do with it; `Imported` and `RowArrives`, or `Offered`, finish the
reaction. `Keep`, `Take`, `Defer` are the dialog, `OpenAgain` the load after a conflict, `Reload` with `Fetched` and
`RowDecides` a reload with its draft (`ensureDiskBaseline`).

Abstractions:
- a document is the set of edits in it. A file is its document and a stamp for `savedAt`; a file is its own digest.
  Stamps that nobody remembers are used again: digests are only ever compared;
- tabs are in browsers of their own, so drafts and `BroadcastChannel` are shared with nobody. A second tab is, to the
  first, one more writer that quotes digests; the instance has one tab and the other writers;
- a tab loads one document at a time; a summary's request and its answer are one action; a draft is used by a reload
  only;
- dialogs are in front of the document: nobody types behind one;
- an answer with an unreadable receipt, a load that loses links, a mount opened in place, and another slug opened in
  the same tab are left out.

`late` is a history variable. The protocol has windows that no digest guards: between the comparison and the write,
between the write and the receipt, between a document and the summary that names its digest; and a tab may cross a save
of its own. `late[t]` records that somebody wrote in one of them (`"others"`) or that the tab crossed itself
(`"itself"`), and the properties say what holds outside of them.

### McpSessions

`Begin`, then `Reuse` or `Renew`, is `_ensure`; `StaleClosed`, `Enter`, `Opened`, `OpenFails` are the awaits inside it while
the lock is held; `Answer` and `PipeFails` the request; `Drop` and `Dropped` are `_drop`, which closes after its lock;
`Rebind` and `Mark` the two assignments of `adopt()`, on a thread that may come between any two of these. `Break` is
external, `Cancel` the `wait_for` of `_discover_tools`.

Abstractions: sessions and values of the credential are numbered in the order they appear. `lost` holds the sessions
whose `initialize` failed: `_open` keeps the stack in a local, and nobody closes it. The lock admits any waiter, not the
first: more orders than asyncio has. A cancellation that arrives while a session is being closed is swallowed by
`_close`. A rotation closes a session with calls in flight; they fail as a broken pipe and are sent a second time, as in
the code.

### RunStream

`step` is the task of `stop_when_client_leaves`: `Pull` starts it and it runs what is owed or into the next await
(`Seeded`, `Chunk`, `Finish`, `Snapshot`, `Unpublished`, `Exhaust`, `Fail` end the await), `Deliver`, `Over` or `HangUp` look at it, the
disconnect first. `HangUp` cancels a task that is waiting and so unwinds the generators; a task that has its frame cannot be
cancelled, and `Finalise` is the event loop closing the generator later. `Announces` and `Closes` are
`SpawnWatcher.inspect` and `settled`, `Ending` the sweep before an ending, `Recorded` the one row of `RunTurn.record`.
`Snapshot` reads the checkpoint, writes the row and then builds the ending, with no await in between; `Unpublished` is the
same with an exception in the building: the row of a finished turn stays, and the handler sends `error`. `Memory` names the
set that remembers an id: delegations and background children share one (`_tool_calls`), so that of two children with one
tool call id the first has the lane. An update may start several children, also of one id or without any.

Abstractions: `owed` holds the frames to be built before the next await: inspecting an update and settling it are one
action, since no await is between them. A frame is its kind, its lane and whether it was built with the clock bound
(`dated`): token, reasoning, tool, progress and `invoked` frames and what frames say are left out. A stop of the server, and a `send` that raises, are left out.

## 3. What the runs check

| run | asks | instance | result |
|---|---|---|---|
| `live_leases` | is a graph ever closed under a run, twice, or never? is the holder's contract kept? one compile per slug? | one slug, 2 threads, 3 uses, 2 edits (earlier bytes may come back), 1 host call | holds |
| `live_fresh` | is a lease as new as the call? does every call get an answer? | parent mounting a child that may not exist yet, 2 threads, 2 uses, 2 edits | holds |
| `desk_turns` | one driver, whole successes, no turn dropped, silence from a cancel to the next accepted turn | one task, 2 callers, 5 tool calls, a rebind, a shutdown and a restart | holds |
| `desk_ends` | does a running task end, and is it driven? are conversations apart? | 2 task ids, 3 callers in 2 conversations, 4 calls | holds |
| `feed_broadcast` | loss, order, work that nobody wakes for, ends of dropped connections | one connection, 2 publishers, backlog 2, 4 events | holds |
| `feed_watch` | is a client with an older document told, and does it catch up? | 2 packages, 2 tabs, 3 connections, 2 edits, each to a new version; no connection opens beside a left-over sweep | holds |
| `kanban_card` | one holder? one decision? does evidence fit the stage, does the stage advance, are the calls as good as single steps, across any race of two-part calls? | 3 callers, 2 tests, 11 calls, the four stages that are offered | holds |
| `save_tabs` | can a guarded save lose an edit its tab never showed, or a refresh one that was never saved? do tab and file settle? | one tab, 2 saves under way, 2 edits, 1 answer, 1 of the rare events | holds |
| `mcp_calls` | is a session ever left open and forgotten? a call sent on an old credential? does every call end? | 3 calls, 1 rotation, 1 break, 1 fault (failed handshake or cancelled caller) | holds |
| `run_stream` | one ending? lanes closed? does the row agree with what the client was told? does a stop stop? | 6 children of four kinds: two workers of one id, a delegation and a background child of one id, a delegation without; 2 updates | holds |
| `save_kept` | is the save that "Keep my edits" promises written? | one tab, 3 edits, 1 answer, 1 rare event | **violated** |
| `mcp_break` | is one broken session survived by every call? | 2 calls, 1 break, nothing else goes wrong | **violated** |

Why these bounds are enough to be of interest. `live_leases`: the three ways out of
the map (superseded, invalidated, closed) each need one edit or call, and a third
use lets an entry be superseded by one that is itself invalidated while two runs
are inside. `live_fresh`: a parent and a child are the least with which a
mount is stamped apart from the package. `desk_turns`: five calls reach start, a
follow-up during a turn, a follow-up after it, a cancel and a check at once.
`feed_broadcast`: four events over a backlog of two overflow it, with a batch drained
before. One connection is enough there: connections share nothing but the publisher
that walks over them, whose targets are independent. `feed_watch`: a third connection reopens after the last
one left, with the two others on one or two packages. `kanban_card`: a filing, an answer and
four reports resolve a card; five more calls let it be released and claimed again on the way, while another caller holds a
call it began before the release. `save_tabs`: two edits and one rare event (an agent's write, a publish, a delete, a press of
Save, an overlapping autosave, a lost request or a reload) are the least with which a tab is dirty while the file
moves; any one of the rare events may be it, and one answer reaches every branch of the dialog. Two rare events, with one save at a time and no answers
to dialogs, were explored once, 1.4 million states: every property held, also where a deleted package is written again. `mcp_calls`: a third call is what lets two of them
race for what the first one dropped, and six sessions are one per try. `run_stream`: any set of the children may start in
one update, so two updates let children start, together or one after the other under one id, end before the run does, or be
open when it ends, is left or dies.

`CHECK_DEADLOCK FALSE` is in every configuration: calls, edits and events are bounded,
and with the bound used up the system rests.

Symmetry is used over threads or callers that run the same code, and only in runs
without liveness properties.

### Fairness

Weak fairness only, per actor. `LiveWorkflows`: a scheduled thread runs on, and leaves its
`with` block (a run ends: it has a step budget), and a host call goes on. `TaskDesk`: a begun tool
call and the loop's coroutines run on, and a child's turn ends, by an answer or an
error, since its model client has a timeout. `Broadcast`: publishers return and the
loop runs what is ready; a client reads or its disconnect is noticed.
`WorkflowWatch`: the loop and the executor run, and a client that was told to
refetch does. `KanbanCard` claims safety only, and assumes none.
`SaveProtocol`: requests are served and answered (or lost), the timer of a debounce fires, polls go on; nobody has to type, press or
answer. `McpSessions`: the loop runs what can run, a handshake has a timeout, a request is answered or its pipe breaks. `RunStream`: the
loop runs what is ready; nothing at all is asked of the graph, which may never answer. Nobody is obliged to call, edit, save, connect or restart.

### What the violated runs show

1. `save_kept`. A tab with unsaved edits learns that the file changed, and asks. The user keeps the edits and is told
   that "the next change writes them over" the file (`restoredDraftChoiceCopy.ts:86`). The choice never recorded the
   file's digest: the next save quotes the old one, is refused as a conflict with the very version the user chose to
   overwrite, and autosave stands down.
2. `mcp_break`. `_drop` takes whatever session the proxy holds. Of two calls on a broken session the slower one closes
   the session the faster one has just opened, and the retry of that one, its last, fails.

### Defined and violated, without a run of their own

Each of these states what a docstring says (`ErrorIsNoTurn`: what a reader of the journal may expect) and the code does not
do. The configuration that shows it is named.

| property | what happens | shown by |
|---|---|---|
| `FreshMounts` | `live.py:138` says the stamp is taken before the compile; a mounted package is stamped at :405, after it was read, and a save in between is stamped as included | `LiveFresh.cfg`, as an invariant |
| `LeaseKeepsCheckpointer` | `close()` says it is no licence to break a run still going (`live.py:350`), and closes the checkpointer it writes to | `LiveLeases.cfg` |
| `OneCheckpointer` | two compiles of two slugs build one checkpointer each, which `live.py:272` forbids | `LiveLeases.cfg` with two slugs |
| `RunningIsDriven` | `follow_up` marks a task running before it looks up the launcher a recompile has removed: it polls as running for ever | `DeskEnds.cfg` with `MaxRebinds = 1` |
| `RowsAreOwn` | a tool call id reused after a restart puts another conversation's task under an old row | `DeskEnds.cfg` with `MaxRestarts = 1` |
| `QueuedIsRead` | "It will read this as its next turn" (`async_task_middleware.py:447`) does not hold of a turn that raises | `DeskTurns.cfg` |
| `CancelledIsFinal` | a launcher that raises after `cancel()` or `shutdown()` marked the task and before the cancellation reaches it has `_drive` write `ERROR` over `CANCELLED` (`async_tasks.py:541`), one of the statuses "that will never change again" (:127). From there `follow_up`, which refuses a cancelled task, accepts a turn: the task that was stopped begins a turn and may publish an answer. `CancelledIsQuiet` is what is left of the promise: silence until such a turn is accepted | `DeskTurns.cfg`, as an invariant |
| `CancelReaches` | a cancel between a resubmission and the assignment of its future reaches the old driver | `DeskTurns.cfg` |
| `NothingMissed` | a sweep that outlives its cancelled poll takes the news a new connection was to hear; a file changed and changed back is not seen | `FeedWatch.cfg` with `Overlap = TRUE`, or `MayRevert = TRUE` |
| `OnlyAdvances` | the stage before the first is index -1, the last: a finished card that is asked for "unattended" is reopened with its evidence and its actor on it | `KanbanCard.cfg` with `Asked <- Stages` |
| `ReleasedWasStale` | a report between the staleness check of a release and its write is emptied | `KanbanCard.cfg` |
| `HolderAdvances` | "only the holder calls these" (`abc/kanban_store.py:492`) is nowhere compared | `KanbanCard.cfg` |
| `FramesAreDated` | the `error` frame is built after the frames before it were yielded, in another task's context, and carries no `seq` (`streaming.py:1207` says every frame does) | `RunStream.cfg` |
| `StoppedIsARow` | a stop during an `aget_state`, before the graph's stream or after it, leaves no row (`run_journal.py:67`) | `RunStream.cfg` |
| `CloseIsTheChilds` | two orchestrators whose plans both say `task-1`: the second child has no lane, and its result closes the lane of the first | `RunStream.cfg` |
| `ErrorIsNoTurn` | the row of a finished turn is written (`streaming.py:2682`) before the ending is built; a pause whose payload is no mapping (:2709), or a drawing that raises (:2881), sends `error` beside it | `RunStream.cfg` |
| `StopStartsNothing` | a client that leaves while a frame is being sent: one more pull runs before the disconnect is looked at, and may start a superstep (`streaming.py:799`) | `RunStream.cfg` |

Smaller disagreements met on the way, which the models carry: a run that raises anything but an exhausted budget leaves no
row. Of two autosaves of one tab that are answered out of order, the last answer's document becomes the baseline and
its digest the known one, whichever was written last (`diskAutosave.ts:640`). A refresh decides that the canvas is
clean, then awaits the document: what is typed meanwhile is imported over (`useExternalWorkflowChange.ts:114`; `EditsSurvive`
excuses exactly that). An acknowledged autosave that arrives after a stand-down arms the writer again. The receipt
"is the digest of the bytes this save wrote" (`saveWorkflow.ts:282`) but is read from the file afterwards. A publish is
said to change no byte but the flag (`workflow_store.py:710`), and writes back the document it read.

## 4. What is proved

One `*_proofs` module per model. Each theorem holds for every value of the constants that the named
`ASSUME`s of the model allow: any sets of threads, tabs, connections or ids and any bounds. An invariant is first
checked by TLC on a run or a scratch instance, then proved inductive, with one lemma per action, or per group of
actions that leave its part of the state alone.

### LiveWorkflows

| theorem | says | supposes |
|---|---|---|
| `Inductive` | `Spec => []IInv` | |
| `TypeCorrect` | every variable keeps its type | |
| `LeaseNeverClosed` | a workflow is not closed while a thread is in its block | |
| `AtMostOneClose` | no entry is closed twice | |
| `NoHandleLeaks` | a retired entry without leases is closed, or somebody is on the way to close it | |
| `OneCompileAtATime` | two threads never compile one slug at once | |
| `ImplementsHolder` | `Spec => HolderSpec`: it implements `WorkflowHolder` | |
| `LeasesAreFresh` | a lease is as new as the call that took it | no write restores earlier bytes |

Assumptions: the bounds are naturals, the threads are finite, mounts are slugs, there is a
slug, the first disk holds versions (`SizesAreNaturals`, `ThreadsAreFinite`, `MountsAreSlugs`,
`SomeSlug`, `FirstDiskOfVersions`).

None of the safety properties is inductive. That a close does not hit a lease depends on
the counter being the number of runs inside (`LeasesCounted`), which depends on no two compiles
installing the same entry (`TicketsAreFresh`, `LeasedIsInstalled`, `InstalledIsOld`); that it
happens once depends on the claims to close being exclusive although they are taken in one
critical section and acted on after it (`ClaimsAreExclusive`, `HostIsDone`), on a held entry not
being retired (`HeldIsLive`), and on closed entries being retired and unleased for good
(`ClosedIsUnleased`). `IInv` is the conjunction. It does not need `OneCompile`: leases are safe even if two threads
compiled one slug at once; the gate is for the work it saves and not for the safety of what is handed out.

`OneCompile` comes from `GateInv`: a thread past the gate has its slug in `gates`, and two such threads have two
slugs. The refinement maps an entry to what its users may expect of it; a step that changes neither the entries nor who
is in a block stutters (`QuietStutters`), `Use` and the end of a block move a user (`UsersMove`), and each of the
others has a lemma that names the contract's step. `FreshInv` follows the bytes from the disk to the lease: no
version asked for is ahead of the disk, a stamp taken before the compile is not ahead of what the compile read (`Sound`),
and so an entry whose stamp equals the disk's was built from what is there. A digest cannot tell a file that was changed
and changed back from one that was not, hence the hypothesis.

### TaskDesk

| theorem | says | until |
|---|---|---|
| `DeskInvariant` | `Spec => []DeskInv` | |
| `DeskTypes` | every variable keeps its type | |
| `TaskHasOneDriver` | no two coroutines run turns of one task | |
| `SuccessAnswersEverything` | a success has an empty queue and an answer that was given with every turn read | |
| `NoTurnIsLost` | an accepted turn is in the conversation or in the queue, until a cancel | |
| `ToldTheWholeAnswer` | a check that tells of a success tells the answer to what was accepted when it began | |
| `CancelSilences` | after a cancel no turn begins and no answer is published, also if the child fails; a later turn is accepted only after it failed or was forgotten | a later turn is accepted |
| `RowsAreOwnUntilRestart` | a row names a task of its own conversation | a restart |
| `RunningIsDrivenUntilRebind` | a running task has its driver, or is being given one | a rebind or a shutdown |

Assumptions: `CallersHaveConversations`, `BoundsAreNaturals`, `SomeOfEach` (an id, a conversation and an agent exist,
without which a record of the model has no value to start from). The core is `OneDriver` with two facts about begun calls: every
driver and every submission under way is a tool call spent (`DriversAreCalls`), and a task that is driven, or about to be, reads as running or
cancelled, so that one that ended may be given a new driver (`DrivenIsLive`). With one driver, only that driver ends a turn, and `TurnIsWhole` ties what it has read to
what the task has been given. `ToldIsWhole` needs `CheckIsWhole`: between `status()` and `result()` of one check the lock
is free, and what the check carries from the first to the second stays true. That nothing breaks the silence of a cancel
follows from `SilencedInv`: a silenced task reads as cancelled, as an error or as forgotten, in which no driver begins a
turn (`DrivenIsLive`) and a late answer is dropped. The last two theorems end where the code's
guarantee does, and section 3 names the runs that show it: a restart lets a tool call id be used again, a rebind
removes a launcher that a follow-up is about to look up.

### Broadcast

| theorem | says |
|---|---|
| `FeedInvariant` | `Spec => []FeedInv` |
| `FeedTypes` | every variable keeps its type; no backlog exceeds its limit |
| `NothingIsLostSilently` | what was published to a registered connection is read, on its way, or the connection was dropped |
| `StreamsAreInOrder` | nothing is read twice, and one publisher's events are read in their order |

Assumptions: `LimitIsPositive`, `MaxEventsIsNatural`, `SomePublisher`. `InOrder` is about what was read, and is preserved
only if it also holds of what the connection has drained and what is banked: `Stream(s)`, the three in a row. `OffersAreAhead` says that the event a
publisher has still to offer to a connection is not in that stream, and that the publisher's own events in it are older; `PublisherIsAuthor` and
`AllWereSent` tie events to publishers, `BatchIsRead` says where a batch stands.

### WorkflowWatch

| theorem | says | supposes |
|---|---|---|
| `WatchInvariant` | `Spec => []WatchInv` | |
| `WatchTypes` | every variable keeps its type | |
| `NoChangeIsMissed` | a client with a stale document is about to be told | sweeps do not overlap, bytes do not revert |

Assumptions: `BoundsAreNaturals`, `SwitchesAreBoolean`. `WatchInv` counts: the watch count of a package is the number of
its connections (`Counted`, over cardinalities), one poll runs exactly while there is one (`OnePoll`). `TellInv`
adds that a digest in hand is not newer than the file (`ReadsArePast`) and that no sweep is left over
beside a running poll (`NoOrphanBeside`), which is what the two switches buy; with either on, TLC finds
`NothingMissed` violated (section 3).

### KanbanCard

| theorem | says | supposes |
|---|---|---|
| `Recorded` | `Spec => []RecordInv` | |
| `TypeCorrect` | every variable keeps its type | |
| `FirstCallerWins` | one caller at most is told that it has the card | |
| `OneAnswerIsAccepted`, `AnswersStand`, `AnswersAreWaitedFor` | one decision, kept, made while the card was waiting for it | |
| `EvidenceFits` | `Spec => []EvidenceInv` | nobody asks for "unattended" |
| `NothingIsAsserted`, `NothingBleeds` | evidence fits the stage; a free card has none | the same |
| `StageAdvances` | a stage is left for the next one or by a release | the same |
| `CallsAreSingleSteps` | `Spec => CardSpec`: it implements `WorkCard` | the same |

Assumptions: `Nobody` is no caller, `NoTest` no test, stages asked for are stages, the bound is a
natural. What a begun call is about to write is the point of both invariants. `RecordInv` needs
only that a call past its read has read a filed card (`CallsReadACard`) and that an unfiled one is blank:
holder and decision then follow from the conditions of the writes. `EvidenceInv` says of
the row and of every value in flight that it fits the stage it is for (`SoundAt`): a write that comes after a
release and a second claim puts back old evidence, but evidence that fits the stage its condition matched. The
hypothesis is needed: with every stage asked for, `OnlyAdvances`, `EvidenceGate` and `CardSpec` fail (section 3).
`EvidenceInv` is also what the refinement rests on: a call's first half stutters, its second is the whole call in `WorkCard`, and
only because what it carries is evidence of the stage it reaches (`SoundIsShown`). The contract says as little as the code
keeps: a report may come from anybody and may bring back the tests of an earlier holder, and a release may hit a card that has moved on.

### SaveProtocol

| theorem | says |
|---|---|
| `SaveInvariant` | `Spec => []SaveInv` |
| `SaveTypes` | every variable keeps its type, and there is always a stamp that nobody remembers |
| `QuotedSavesAreGuarded` | a save that quotes a digest overwrites no edit that its tab has not shown or announced |
| `RefreshKeepsEdits` | a refresh takes away nothing but what reached the file or was typed while it waited |

Assumptions: `BoundsAreNaturals`, and `FewTabs`: tabs and saves under way are finite, so that only
finitely many stamps are remembered and a write finds a fresh one (`StampIsFresh`, by counting). The run has one tab; the
theorems hold of any number. `SaveInv` has two parts for every tab. `LandedOf(t)`: the baseline, the offer, the document
being loaded and the documents of acknowledged saves all reached the file, and while a refresh is pending the canvas holds only what
landed or was typed since; this gives `EditsSurvive`. `GuardOf(t)`: every
digest the tab knows, keeps in its draft, quotes or is being handed names a document whose edits
it has shown or announced, unless somebody wrote in one of its windows (`late`); a save between its
comparison and its write has been compared with the file as it is, or has a witness in `late`. This gives
`SavesAreGuarded`. Each action of a tab is shown to be a `TabStep`, which spares the other tabs, and everything that writes the
file goes through the lemmas about `PutChanges`, where the other tabs' windows open.

### McpSessions

| theorem | says |
|---|---|
| `ProxyInvariant` | `Spec => []ProxyInv` |
| `ProxyTypes` | every variable keeps its type; a call asks for a session twice at most |
| `NewestOnTheWire` | no call is sent on a credential older than the one adopted before it asked for a session |
| `NoSessionLeaks` | a session that is not closed is the proxy's, or is being opened or closed, unless its handshake failed |

Assumption: `ProxyAssumption` (sessions are positive numbers, `NoCall` is no call, the bounds are naturals). Neither
safety property is inductive. `NewestCredential` is about a call that is sent; what makes it so is that a session in
hand which is older than the adopted credential carries the mark (`Marked`), also between the two assignments of
`adopt()` and also while a session is being opened with the value read before the rotation. `SessionsAreHeld` needs
that the lock belongs to exactly the call that is opening or closing a stale session, and that nobody holds a session
then (`LockGuards`), and that what a call opens or sends over has been opened (`InUse`): without the lock, the second
opening overwrites `session` and the first one is left up and unheld.

### RunStream

| theorem | says |
|---|---|
| `StreamInvariant` | `Spec => []StreamInv` |
| `StreamTypes` | every variable keeps its type |
| `StreamEndsOnce` | a stream has one ending, its last frame |
| `EveryLaneIsAccounted` | a lane is announced once, closed after that and at most once, and before the ending |
| `RowAgreesWithStream` | an answer or a pause is told only with the row of a finished turn; a stopped row means that the client left without an ending, an exhausted one that it was told no answer; a stream unwound under the graph has a stopped row |

Assumption: `StreamAssumption`; the children are finite, since a sweep enumerates the open lanes. The invariant speaks of the stream
as it will be, `Stream == wire \o owed`: a frame is built long before it is sent, and what a property says of the wire has to
be true of the frames owed already. `Opened` and `Ended` say when the stream begins and that its terminal frame is the
last of `owed`, and only in phase "spent"; `Lanes` relates the lanes the code holds open to the frames of the stream; `Written` the row
to its ending and to the phase it was written in: an error says nothing of the row but that it is no stopped one; `Doors` says what `step`, `closed` and `left` allow of `phase` and `owed`.

### Only model-checked

- Liveness (`EveryUseAnswered`, `EveryTaskEnds`, `BankedIsRead`, `DroppedIsTold`, `ClientCatchesUp`, `TabsSettle`, `EveryCallEnds`,
  `StopIsHonoured`): fairness and `ENABLED` are beyond the prover.
- The two violated runs, and the properties of section 3 that the code does not have.

Every invariant and every safety action property of the passing runs is stated by a theorem, under the hypotheses named above.

## 5. Plan

What is left, in order:

1. `EditorFeed`, the client's half of the stream: what a reconnect of `LiveEventStream` loses, and the order in
   which list answers are applied.
2. The watcher of a board and the patrol registry, which reuse the shape of `WorkflowWatch`.
3. `SaveProtocol` with two tabs of one browser: the shared draft and `BroadcastChannel`.
4. For `TaskDesk`, what remains of `RunningIsDriven` after a rebind: a task without a driver lost its launcher.

### Not modelled

The compiler, loader, providers, knowledge and evaluation pipelines, the scaffold and the canvas: sequential
functions of their input or adapters of third-party services, most of the repository by lines. A model of them would restate
them. What the graph does with its nodes is LangGraph's scheduling. The sinks of the journal append and format. Schema
migrations of the stores run once, alone.

## 6. Running

    tlc -config LiveLeases.cfg MCLiveWorkflows.tla     (likewise the other cfg files)
    tlapm LiveWorkflows_proofs.tla                     (likewise TaskDesk_proofs, Broadcast_proofs, WorkflowWatch_proofs,
                                                        KanbanCard_proofs, SaveProtocol_proofs, McpSessions_proofs, RunStream_proofs)

`PROJECT.json` pairs each configuration with its module and lists, for each property, a change of
the model (a plausible slip in the code) under which TLC finds it violated. Those changed
definitions stand before the originals, marked "Mutant".
