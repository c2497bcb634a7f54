# TLA+ verification of JasusiCLI

JasusiCLI is an agent runtime in Rust (an earlier Python implementation is kept
beside it). Its control plane accepts prompts as durable jobs over gRPC, admits
them under quotas, drains on shutdown and keeps an audit log; its agent runtime
turns prompts into model calls and tool calls, some of them to MCP servers it
spawns. This directory holds TLA+ modules of the stateful parts, the TLC
configurations that check them on small instances, and TLAPS proofs of their
safety properties for every value of their constants. Paths below are
relative to `rust/crates/` unless they start with another directory of the
repository.

    cd tla
    tlc -workers 2 -config JobQueue_submit.cfg MC_JobQueue.tla
    tlapm JobQueueProofs.tla
    tlapm TerminalProofs.tla

`PROJECT.json` lists the runs, the mutants that show each property can fail, the
source lines behind every definition, the hazards of the code and the theorems.

## 1. Inventory

### What is modelled

| part | state | operations | who calls it |
|---|---|---|---|
| job queue, `jasusi-service/src/queue.rs` | SQLite tables `jobs`, `job_events`; in memory the drain flag, the cancellation tokens, the event channels, a semaphore per `run_worker` | `open`, `submit`, `find_by_idempotency`, `get`, `cancel`, `active_count`, `set_drain`, `subscribe`, `run_worker` | control service; attached workers |
| quotas, `jasusi-service/src/quota.rs` | per scope key: concurrency, three windows, token sums, all behind one mutex | `check`, `try_admit`, `admit`, `release` | control service |
| control service, `jasusi-core/src/rpc/server.rs` with `jasusi-service/src/drain.rs` | reservations of job ids, the drain state and its deadline | `submit_job`, `get_job_status`, `cancel_job`, `stream_job_events`, `drain`, `check_quota`, `health`; the shutdown loop of `start_server` | gRPC clients, ctrl-c |
| audit log, `jasusi-service/src/audit.rs` | an append-only file, a buffered writer, the last number and hash | `open`, `append`, `verify` | health and export procedures of `docs/operations/phase8.md` |
| MCP manager, `runtime/src/mcp_stdio.rs` with `mcp.rs`, `mcp_client.rs` | per server: process, pipes, `initialized`; the tool index and the request counter | `discover_tools`, `discover_tools_best_effort`, `call_tool`, `list_resources`, `read_resource`, `shutdown` | the terminal program; the MCP tool bridge |
| turn loop, `runtime/src/conversation.rs`, with session files and compaction, `session.rs`, `compact.rs`, driven by `jasusi-core/src/main.rs` | the session in memory, a turn's copy, the JSONL file and its rotated ones | `run_turn`, auto-compaction, `/compact`, save, load, `/resume` | the terminal program |
| one tool call, `runtime/src/conversation.rs` with `hooks.rs`, `permissions.rs` | the abort flag of a turn, the process of a hook, what the hooks have said so far | hooks before, policy, prompt, the tool, hooks after; ctrl-c | the turn loop |
| worker boot, `runtime/src/worker_boot.rs` | workers in memory | create, observe a screen, resolve trust, send a prompt, restart, terminate, observe a completion | the worker tools |
| plan mode and settings, `tools/src/lib.rs` | two files of a worktree | `EnterPlanMode`, `ExitPlanMode`, `Config` | agents of all sessions in the worktree |
| agents, `tools/src/lib.rs` | a manifest and an output file per agent, a thread | `Agent`, `run_agent_job`, `persist_agent_terminal_state` | agents |
| patches, `runtime/src/transactional_patch.rs` | the target, its staging files | `validate_and_apply_patch`, `rollback_transaction` | users of the library; no tool yet |
| plugins, `plugins/src/lib.rs`, `commands/src/lib.rs` | directories, the registry file, the settings file | install, update, uninstall, enable, disable, sync, discovery | `/plugin`, every start of a runtime |
| terminal program, `jasusi-core/src/main.rs` | the runtime it holds and the one a turn has built, the handle of the session, the session files | turns, `/model`, `/permissions`, `/compact`, `/clear`, `/session fork`, `/resume`, `/plugin`, exit | the user |
| model streams, `api/src/providers/`, `api/src/sse.rs` and the clients in `main.rs` and `tools/src/lib.rs` | a request's attempts, the stream, the tool inputs gathered | retry, stream, fall back to a request without a stream | the turn loop of program and agents |
| settings, `runtime/src/config.rs` | five JSON files: two of the user, two of the project, one local | `load` | every start of a session, `login` |
| login, `runtime/src/oauth.rs`, `api/src/providers/anthropic.rs`, `jasusi-core/src/main.rs` | `credentials.json` and its staging file; the server's tokens | `login`, `logout`, the refresh when a session starts | programs of one user |

How they interact. A client's `submit_job` looks its idempotency key up in the
queue, admits against the quotas, checks the drain manager, inserts into the
queue and records a reservation; `get_job_status` and `cancel_job` read the job
and give the reservation back when it is terminal. A worker claims rows of the
queue, spawns one task per job, forwards the processor's events into
`job_events` and the subscription channels, and writes the outcome. `drain` and
ctrl-c set the queue's flag and start the drain manager's deadline; the shutdown
loop polls the number of active jobs. The components share no lock: each
mutex is released between the steps above, so all of them interleave. In the
repository, `start_server` attaches no worker and the audit log has no caller
outside its tests; the models treat both as what the crate offers, a worker
attached to the queue and a caller of the log.

The terminal program holds a runtime: a session, a model client, an executor of
tools, plugins that are initialised and MCP servers. A turn builds a second one
with a copy of the session, asks the client for answers, runs the tools they ask
for (each behind hooks, policy and prompt), and puts the second runtime in the
place of the first. Agents run turns of their own in threads of the same
program. Settings, plugins and worktrees are files that all sessions share.

What is hard, and what makes each part correct:

* **queue** - every method releases the database mutex between its statements,
  and callers, workers, tasks and a crash run there. Correct means: bounded,
  idempotent, never executes a job twice, keeps every permit, tells the truth
  in its terminal event, ends what it accepts and says so where an event can hold
  it, hides nothing from a subscriber.
* **quotas** - overlapping scopes, admission in one step after evaluation, a
  clock that moves between the two, back as well as on. Correct means: no cap is exceeded in any
  fixed window, and concurrency is exactly what is held.
* **control service** - three components updated in turn by handlers that a
  disconnect may drop at any await. Correct means: what is admitted is counted
  until it ends, no capacity is lost, and the server closes.
* **audit log** - a failed or partial write, a kill between a long line and its
  newline, and verification through a file offset that it shares with others.
  Correct means: numbers rise, what was acknowledged is on disk and stays readable
  but for what a cut-off line spoils, and `verify` tells the truth.
* **MCP manager** - child processes that answer late, wrongly or not at all.
  Correct means: an answer belongs to its request, a call is made at most once,
  no process is forgotten, routes lead to initialised servers, operations end.
* **turn loop and session file** - a failure or a kill between any two messages,
  a save in two steps, compactions of compactions. Correct means: file and memory
  agree, nothing saved is lost, every message stays counted and loses its line only
  to a second compaction, every request to the model pairs tool uses with their
  results.
* **one tool call** - hooks replace input and decision one after another, and
  ctrl-c lands between any two steps. Correct means: what is executed is what
  was cleared, a result says no less than what went wrong, ctrl-c is obeyed.
* **worker boot** - screens are stale, repeated, misleading. Correct means: no
  prompt is in flight twice, or replayed twice.
* **plan mode, agents, patches, plugins** - several files that are changed one
  after another, each in two steps, by calls that may be cut off anywhere, while
  another session does the same. Correct means: nothing is lost beyond what the
  cut itself destroys, the next call repairs it, and success is only said of
  what is done.
* **terminal program** - two runtimes at a time, errors that end the program
  anywhere. Correct means: a runtime that is dropped leaves neither servers nor
  plugins behind, and a session's file holds that session.
* **model streams** - they break off anywhere and are asked for again. Correct
  means: the stored answer is one response, and the user has seen it but for the
  tail of a block that was cut off.
* **settings** - the files disagree at every depth, or cannot be loaded. Correct
  means: what is said last holds, for no more and no less than it says, and merging
  brings no error to light that no file has alone, but for one that is named.
* **login** - a save reads, writes and renames beside other programs, after a wait
  for a server that replaces tokens. Correct means: the file is whole, and a command
  that no other program crossed left what it reports.

### Planned

| part | state | operations | hard behaviour | correct means |
|---|---|---|---|---|
| recovery and policy, `runtime/src/recovery_recipes.rs`, `policy_engine.rs`, `lane_events.rs`, `stale_branch.rs`, `green_contract.rs` | attempts per scenario | attempt, evaluate | a bound on attempts | escalation after the bound, never before |

Planned for when they are wired: `runtime/src/mcp_tool_bridge.rs` (its manager is
set in tests only), `runtime/src/mcp_lifecycle_hardened.rs` (a phase table that
only tests drive), and in `jasusi-core` `memory/`, `audit/` and `actors/`, whose
sources begin with the words `NOT-YET-WIRED SUBSYSTEM`.

### Not modelled

The prompt cache (a lookup by hash; the worst its unlocked read can meet is a
miss); bash validation and the enforcer's table (pure decisions on one request);
sandboxes, firewall, sanitizer (kernel interfaces and pattern matching); the
other file and shell tools (one file or one process per call); the LSP registry
(a map of records that talks to no server); the registries of tasks, teams and
crons (`runtime/src/task_registry.rs`, `team_cron_registry.rs`: only the session's
own thread calls them, so that nothing interleaves, and no task is executed); the
values of settings, PKCE and URLs, prompt assembly; arguments, help, reports, the line editor and rendering of the
terminal program, and its `run_internal_prompt_text`, which nothing calls;
`plugins/src/hooks.rs`, which runs hooks without an abort flag for tests; health,
metrics and telemetry (values no other component reads); test services; the
Python program under `src/jasusi_cli/` and `app.py`, an earlier single-user
implementation of parts listed above. `PROJECT.json` repeats this list file by
file.

## 2. Modules

| module | models | composed of |
|---|---|---|
| `JobLifecycle` | what the queue promises: a job appears once, starts at most once, ends at most once | - |
| `JobQueue` | `submit`, `cancel`, `set_drain`, `run_worker`, its tasks and forwarders, events, crash and reopen | refines `JobLifecycle` |
| `JobQueueProofs` | theorems about `JobQueue` | extends `JobQueue` |
| `JobEvents` | `emit` and `subscribe` of the queue, in detail | - |
| `Quota` | the quota manager | - |
| `ControlService` | handlers, reservations, drain manager, shutdown loop | actions of `JobLifecycle` stand for the queue |
| `ControlServiceProofs` | theorems about `ControlService` | extends `ControlService` |
| `AuditLog` | the hash-chained file | - |
| `McpManager` | discovery, calls, resources, retries, resets, shutdown, and the server processes | - |
| `McpManagerProofs` | theorems about `McpManager` | extends `McpManager` |
| `ServiceStores` | what `jasusi-service` keeps beside the queue | composes `JobEvents`, `Quota`, `AuditLog` |
| `ServiceStoresProofs` | theorems about the three parts of `ServiceStores` | extends `ServiceStores` |
| `SessionHistory` | what a session promises: a history that only grows, and that a resume has whole | - |
| `Conversation` | turn loop, session file, rotation, compaction, end and resume of the program | refines `SessionHistory` |
| `ConversationProofs` | theorems about `Conversation` | extends `Conversation` |
| `ToolHooks` | one tool call after another: hooks and their processes, policy, prompt, tool, ctrl-c | - |
| `WorkerBoot` | a worker of the registry under any screens | - |
| `PlanMode` | plan mode and settings of a worktree, by several sessions | - |
| `AgentJobs` | an agent's files, its thread, the recording of how it ended | - |
| `TransactionalPatch` | patches and rollbacks of one file by calls of several processes | - |
| `AgentTools` | what the tools of an agent keep | composes the five above |
| `AgentToolsProofs` | theorems about the five parts of `AgentTools` | extends `AgentTools` |
| `PluginManager` | directories, registry and settings of plugins, by several sessions | - |
| `LiveCli` | the terminal program: its runtimes, session handles and files | - |
| `ModelStream` | a request to a model: retries, stream, fallback | - |
| `Credentials` | the file of the login, by several programs, and the server's tokens | - |
| `ConfigLoader` | loading and merging the settings files | - |
| `Terminal` | what the terminal program keeps | composes the five above |
| `TerminalProofs` | theorems about four parts of `Terminal` | extends `Terminal` |
| `SettingsProofs` | theorems about the fifth, its settings | extends `Terminal` |
| `MC_*` | constants for TLC: key sets, scopes, symmetry, views | their module |

A definition whose name ends in `_Something` and is marked `mutated` is a bug
put beside the definition it changes; `PROJECT.json` says which property finds
it. They are no part of the specifications.

`ServiceStores`, `AgentTools` and `Terminal` instantiate modules whose parts share
no variable. Interleaving such parts shows nothing that each alone does not show,
so a behaviour of a composition exercises one of them, named by the variable
`family`; the others stay in their initial state. A component states what it
assumes of its constants as `<Module>Assumption`, which its composition turns into
an `ASSUME`. No module declares a recursive operator, so that theorems can be
stated about all of them.

### JobQueue

An action is a stretch of code between two points where another thread may run:
the release of the SQLite mutex, an await, the hand-over to a spawned task.

* `SubmitCheck`, `SubmitAnswered | SubmitInsert` (one IMMEDIATE transaction: key
  lookup, capacity, insert), `SubmitEmit`; a database error may end each.
  `Abandon` drops a caller's future at an await.
* `CancelLookup`, `CancelToken`, `CancelUpdate`, `CancelEmit`: read the job,
  set its token, update the row, append `cancelled` - whatever the update did.
* `WorkerAcquire`, `ClaimTransaction`, `DropPermit`, `ClaimGet`, `WorkerSpawn`,
  `WorkerStop`: a loop of `run_worker`. The loop waits for a permit or for
  the shutdown signal; a worker that claimed a job spawns it.
* `TaskProgress`, `ForwardEvent`, `TaskReturn`, `TaskDrained`, `SetTerminal`,
  `RemoveToken`, `EmitTerminal`, `TaskPanic`: the processor emits into a bounded
  channel, the forwarder stores, the task awaits the forwarder, then updates
  the row if it is still RUNNING, removes its token and appends its terminal
  event if it won.
* `Persist` stores an event, loses it to a database error, or refuses it: an event
  longer than `max_event_bytes` is an error that `emit` ignores (queue.rs:588). The
  length of a terminal event is that of the processor's message, which nothing
  bounds; `message` is the row's `terminal_message` as far as this goes.
* `Crash` keeps the five database variables and resets the rest, as `open` does;
  RUNNING rows stay RUNNING because `open` does not touch them.

Data that is abstracted: a prompt is oversized or not, an event is its kind and
whether it fits, a worker's `terminal` event is the state it carries, jobs are numbered by insertion,
which is the order of `created_at_ms` while the clock does not step back.

### JobEvents

A job's event is inserted, then sent to the channel that is registered at that
moment. `Subscribe` registers a channel, displacing the one before; `Replay`
feeds it the rows stored so far; `Receive` delivers in order; a broadcast
receiver that fell behind by more than its `Capacity` is told so
(`StreamEnd`). What the loop of `stream_job_events` receives it puts in a channel of
`Outbox` messages to the response, and when that is full it waits, with one message
in its hands (`Blocked`), until the client reads (`ClientRead`) or disconnects.
A read may fail.

### Quota

`Lock` takes the mutex, `Evaluate` looks at one applicable scope with the
clock of that moment, `Admit` counts in every scope with the clock of its own,
`Release` decrements. `Tick` may fall between any two of them, because the code
asks the wall clock anew, and it may set the clock back: a stored window that is not
the clock's is cleared then too, later as it is (quota.rs:455). Windows are the
calendar buckets of the code (`floor(now / length)`), not sliding. `stamps` is a
history variable: the moments of the admissions since the clock was last set back.

### ControlService

Handlers are split at each component they call: `SubmitFind`, `SubmitAdmit`,
`SubmitFlag`, `SubmitInsert`, `SubmitReload`, `SubmitRecord`; `StatusRead` or
`CancelRead`, `CancelUpdate`, then `ReleaseReservation`; `DrainCall`,
`DrainCount`, `DrainComplete`. `Disconnect` drops a handler between two of them.
The queue is its promise, `JobLifecycle`: `SubmitInsert` takes its `Accept`,
`WorkerStep` its `Start` and `Finish`, and so on. `JobQueueProofs` proves that
`JobQueue` implements it, so this composition stands on what is proved.
`CtrlC`, `DeadlinePasses` and `ShutdownPoll` are the shutdown loop. Its end is not
the end of the server: `serve_with_incoming_shutdown` takes no more calls then
(`closing`) and returns when the calls and the streams that are open have ended
(`ServerStops`). A stream of `stream_job_events` (`StreamOpen`) does not end with
its job, because the queue keeps the sender of its channel (queue.rs:478); it ends when
the client closes it or another subscription displaces it (`StreamClose`).

### AuditLog

`file` is the lines on disk, `torn` what follows or is missing after the last of
them, `buffer` what the writer still holds. The writer is a `BufWriter` of 8 KiB:
a short line and its newline are written together by the flush, a line of 8 KiB or more goes to the
file at once and its newline with the flush, so that a kill may leave a whole line
without its newline (`bare`). What is written next continues a line that was cut off,
and either becomes unreadable (`spoiled`); `Sound` says where the writer itself
goes on with what it still holds, and nothing is spoiled. An append succeeds
(`AppendOk`), fails in its flush (`AppendFails`), fails while an earlier buffer makes room for it
(`AppendDropped`: the line is lost and its number not used again), or fails within a
long line (`AppendCut`). The process dies between two appends (`Crash`) or within one
(`CrashInAppend`). `Open` refuses a line that does not parse and accepts a last line
without its newline (audit.rs:171-182), to which the next append is joined. Left out
is a failed flush that only the newline triggers, of a buffer the line has filled to
the last byte. A verification reads half a line at a time
(`VerifyReadHalf`, `VerifyReadLine`: an 8 KiB block may end anywhere) through
`offset`, the offset of the file description, which `append` and every other
verification also move.

### McpManager

An operation goes through its servers in the order of their names; for each it
checks the process, spawns and initialises when needed, sends a request and
reads one answer with a timeout, and resets and retries as the error demands
(`Check`, `Send`, `Accept`, `Refuse`, `EndOfFile`, `Timeout`, `Fail`,
`TryAgain`, `GiveUp`). A process is a queue of requests and a queue of answers:
it may `Serve`, late or never, write `Junk` or `Exit`. Every answer carries the
id of its request and the code refuses another; the model needs no ids, because
`CleanPipe` says that a request meets a pipe with nothing of another one in it.

### Conversation

A turn works on a copy (`work`) of the program's session (`mem`), as
`prepare_turn_runtime` does. `BeginTurn`, `Answer` and `ToolResult` are the three
places where `run_turn` pushes a message, to the copy and as a line to the
file (`Push`); each may fail and leave nothing, a part of a line, or a line
without its newline (`PushFails`). `Finish` compacts or not and hands the copy
over; `Command` is `/compact` and the commands that only save. A save renames a
large file first (`Rotate`) and then replaces it in one step (`Save`).
`run_repl` returns the first error of a turn or a command, so an error and a kill
of the process are the same `End`; `Resume` loads the file and saves it,
`ResumeRotated` finds the session under the name of its rotated file if a
program ended between the two steps of a save. Hooks, permissions and
tools are left to `ToolHooks`: whatever they decide, a tool use gets one result. Texts are
left out: a message is its role, the number of tools it asks for, and for a
summary how many messages it counts and for how many it has a line in its key timeline.
A first summary has a line for each message it replaces. A summary that takes in
an earlier one keeps of it the highlights, counts included, and drops its timeline,
and an empty line in a message cuts the new timeline short (compact.rs:238-271, 488-);
which lines go is left open (`Timelines`). As `SessionHistory` sees it, a message is
`Record`ed when it is in memory and in the file, an `End` is a `Stop`, a compaction keeps the
count and the last messages and may lose lines of a summary that is replaced, and a
save makes the disk tell what memory tells.

### ToolHooks

The stages of a call are those of the loop in `run_turn` (conversation.rs:370-469):
`BeginCall`, the hooks before it, `Judge` (the policy, on the input and decision the
hooks left), `Prompt`, `Run`, the hooks after it, `Answer`. A hook is a process:
`Spawn`, `Fed` (its payload is written), `HookExits`, `Poll` (every 20 ms; the flag
is looked at before the exit), `PipesClose`, `Collect`; `HookFails` is a hook that
cannot be started or fed. `Merge` says that a later hook replaces what an earlier
one said, so that a later "allow" overrides an earlier "deny" of the permission,
and every hook sees the input the model asked for, not the one the hook before it
put in its place. `Interrupt` sets the flag, which nothing but a hook looks at: if
no hooks are configured, the tools of an answer are run to the last.

### WorkerBoot

An action is a call, since each holds the registry's lock. A screen is the set of
phrases detected on it, and any screen may come at any time. `Observe` takes the four
looks of the code in their order. A ready cue after `Terminate` does revive the
worker (worker_boot.rs:319), and the model takes that step.

### PlanMode

A call reads the settings, reads the state, and then truncates and writes one file
after the other (`SaveState`, `Truncate`, `Write`, `ClearState`); `Stop` cuts it off
anywhere. `own` is what the user chose last, `claimed` that this is a "plan" chosen
while a state file was there, `behind` marks calls under which another one has
changed a file, `spoiled` that such a call wrote, or one stopped half way.

### AgentJobs

`WriteTask`, `Register` and `Spawn` are the tool, `Turn`, `AppendSection` and
`RewriteManifest` the thread. Every one may fail, and a failure while "completed" is
recorded leads to "failed" (`PersistFails`). `ProgramEnds` takes the thread along: its
manifest says "running" for good.

### TransactionalPatch

Names and files are apart, as in a file system: `Create` opens the file of the
staging name and truncates it, `Rename` gives the target's name to it whoever
has it open. The staging name has the process in it and not the call, so
two calls of one process that have it open mix their texts; `shared` records this.
A patch computed from a text that another process has replaced since is applied
all the same: `PatchError::ConcurrentModification` is never produced.

### PluginManager

The steps of an operation are its changes of the file system: `Remove`, `Copy` and
`Copied` of a directory, `Store` and `Fill` of the registry, `Settings` and `Write`
of the settings, with `Sync` (bundled plugins), `Discover` (pruning of records) and
`Known` (plugins that are there and do not load are an error) in between. `Stop` and
`StopEmpty` end a session anywhere, with a file empty or torn. A directory has as
much as a manifest and what it names. Sessions have no lock; `met` marks those
whose files another one has changed.

### LiveCli

A runtime is its session, the path it appends to, the flags `plugins_active` and
`mcp_active`, and what was done to it: how often each plugin was shut down, how often
that failed, how often its servers were told to stop. `ShutPlugins` goes through the
plugins in reverse and stops at the first that fails, `StopServers` tells the servers,
`Drop` does both and ignores their errors; the runtimes a step has dropped are
`gone`. `Build` may fail before or after it has started plugins or servers. `Swap` is
`replace_runtime` with the assignment of the handle after it, `Close` the drop of
what the program holds when an error or the user ends it, `Killed` a kill. `main` is
`#[tokio::main] async` (main.rs:111-149) and runs its actions in place, so that the
`block_on` of another runtime (main.rs:4604 and 907, anthropic.rs:648) should, by
reading, panic there; for safety such a panic is one of the failures and ends the
models have anyway. A turn (`BeginTurn`, `Say`, `EndTurn`, `TurnFails`) is seen only in the
number of messages.

### ModelStream

A response is a sequence of blocks that come in parts. `Frame` and `MessageStop`
are an Anthropic stream, `Chunk` and `FinishReason` one of an OpenAI kind, whose
client ends the blocks itself. `EndOfStream` is a connection that closes, at any
point, `Breaks` one that fails. `Conclude` is what the clients make of it: content
is taken as an answer whether or not the end was told; without content
the request is made again, not streamed (`Whole`). Each of the two requests is tried
`MaxRetries + 1` times (`Retry`). A part is its response, block and number, so
that a property can tell whether parts were mixed, doubled or lost. Text is shown by
the terminal program's client only, which asks an Anthropic server: `Push` prints what
has arrived up to the last blank line or closed fence, which may be after any part, and
keeps the rest (`unshown`) for the next part or for the `Flush` at the end of a block
or of the message (main.rs:4649-4687, render.rs:606-623). `EndOfStream` flushes
nothing. A pending text of white space alone, which the code drops, counts as shown.

### ConfigLoader

One action per file and outcome: `Skip` (absent, or an old file name whose
content is something else), `Merge` (validate the hooks, collect the MCP servers,
merge the object), `Fail`, and `Finish`, which parses the merged object. A JSON value
is a function on the paths of keys that lead somewhere in it, to an object or to a
leaf; a value is closed under what is above a path (`IsValue`). `DeepMerge` is then
one comprehension instead of the recursion of `deep_merge_objects` (config.rs:1057):
the source decides every path it has, and erases what the target has below a leaf of
the source. That the two are the same is a theorem (`MergesKeyByKey`, section 5).
`Stamped` marks each leaf with its file, so that the property can say where a value
comes from. A leaf is what its key asks for (`right`), a string that names nothing its
key may have (`wrong`), or anything else (`other`, null too), and `SectionsParse` says
what every section needs: which paths are objects (`Sections`), which fields have
their kind (`Fields`), which an `oauth` needs (`Required`). `ModeParse` is the exception:
`permissions.defaultMode` is looked at only while there is no string at `permissionMode`.
Of an MCP server the type is the inferred one; an explicit `type` and the optional
fields, which are parsed in the server's own file and never merged, are left out.
`SettingsByPrecedence` does not merge: it looks, for each path of keys, for the last file
that says anything of it.

### Credentials

`Load`, `Open`, `Write`, `Rename` are the read, the two halves of `fs::write` on the
staging file, and the rename; `Start` and `Refresh`, `Login`, `Logout` come before them.
As in `TransactionalPatch`, an open file keeps its content when its name is taken
(`opened`), so that two programs that share the staging file write into one
another's text, or into `credentials.json` itself. The server may replace a refresh
token when it is used; the old one is then spent. Tokens are numbered as they are
issued, and any may have expired when a session starts (`Start`). `met` marks a program under which
another one has changed something, `crossed` that two had the staging file at once.

## 3. Runs

| run | asks | instance | distinct states |
|---|---|---|---|
| `queue_submit` | does the queue follow `JobLifecycle` (with its bound) through races, drain, undrain and a crash; idempotent, `RetryNeverRefused` | 2 callers, 1 worker, 2 keys, capacity 1, 2 jobs, 1 crash | 40,704 |
| `queue_workers` | permits, single execution, terminal events | 1 caller, 2 workers, 2 permits, 2 jobs, 1 fault | 2,820,584 |
| `queue_live` | queued jobs end, also through drain and undrain, and ends whose message fits are reported | 1 caller, 1 worker, drain, undrain and shutdown | 448,424 |
| `service_stores` | streams without gaps; caps in overlapping scopes and windows; the audit chain and its verdicts | 2 events, 2 subscribers, channel of 2, outbox of 1, 1 fault; 2 callers, user and user-tool scopes, 4 instants of a clock that goes on and back; 3 events, 2 verifiers, 1 failure, 2 restarts or kills | 390,755 |
| `control` | admitted is counted, reservations last, the server closes and, its streams closed, stops | 2 clients with shared keys, 2 jobs, cap 1, 1 watcher, 1 fault | 500,252 |
| `mcp` | pipes, retries, processes, routes, handshakes, termination | 2 servers that share a qualified name, 1 page, 1 junk, 1 fault | 650,546 |
| `conversation` | does the file follow the session, does it keep a history that only grows, are requests well formed | 4 messages kept, 2 tools per answer, 12 messages, 2 ends of the program | 2,353,306 |
| `agent_tools` | is only what was cleared executed; are prompts, settings, agents' records and patched files whole | 2 inputs, 6 settings of hooks, rules and modes, 2 calls, ctrl-c; 1 worker, 2 prompts, 3 sendings; 2 sessions, 3 modes; 3 faults; 3 patches by 2 processes | 969,564 |
| `terminal` | are dropped runtimes closed, session files and plugins right, answers one response, settings by precedence, the login kept | 2 plugins, 3 sessions, 2 messages, 2 starts; 2 sessions on one install root, 1 of them with commands, 2 versions; 6 shapes of answers in 2 parts, 2 retries; 5 files that are absent or one of 8 texts; 2 programs, 3 answers of the server | 2,005,962 |
| `queue_cancel_event` | does a log hold both a terminal event and `cancelled`? it does | 2 callers, 1 worker, 1 job | violated |
| `control_leak` | is all quota back when everything has ended? it is not | 2 clients, 1 key, 1 job | violated |
| `audit_false_alarm` | does `verify` report only broken files? it does not | 1 verifier, 2 events, no failure | violated |

### What the violations show

* `cancel` (queue.rs:385) appends `cancelled` without looking at the row count of
  its update. If the worker finished between cancel's first read and the update,
  a COMPLETED job's log ends in `cancelled`, which the comment at
  queue.rs:562-564 rules out.
* `submit_job` (server.rs:318) of two concurrent retries of one key admits
  twice, gets one job, and keeps one reservation: one unit of concurrency is
  never released.
* `verify` (audit.rs:264) clones the descriptor, and a clone shares its offset.
  An append between two blocks moves the offset to the end of the file; the
  half line already read is parsed alone and an intact log is reported broken.

### Bounds, and why they are enough

*Queue.* The races are between two callers, a caller and a worker, or two
workers; each pair appears in a run. Two jobs are what a claim needs to choose,
a capacity of one or two what a count needs to be at its limit, a channel of one
what a forwarder needs to lag. One fault or one crash may hit any step, and the
following ones run to the end. `MaxLog` limits the events of a processor, the
others name themselves. `VIEW` drops `reply`, which no action reads; in
`queue_submit`, where no processor emits, it drops the log and the messages too, which
then no action and none of its properties reads. Symmetry and the views are used in
`queue_submit` and `queue_workers`, which have no liveness property. What the theorems of section 5
state holds without these bounds, here and in the other runs.

*Events.* Two events are what order and a gap need; two subscribers what
displacement needs; the channel's capacity equals the number of events, so both
lagging (replayed rows and live events together) and not lagging happen. An outbox of
one message is full, with a second in the loop's hands, when a client has read neither.

*Quota.* Scopes `user` and `user-tool` overlap, caps differ, a minute, an hour
and a day have lengths of one, two and four instants of a clock of four: minutes and
hours end between evaluation and count, the day outlasts them. Each cap refuses
something the others let pass: one request a minute, two a day, one an hour of the
pair, two tokens an hour, one at a time of the pair. The clock may be set to any other
instant at any step, any number of times.

*Control.* Two clients submit keys of which one is shared, the cap is one, and
the queue holds two: admission fails, a retry finds a job, and a job is inserted
by one handler while another is between two steps. One client may have a stream
open. The violation instance has no drain, no fault, no disconnect, no stream, so none
of them is its cause.

*Audit.* Three events, one failure and two ends of the process: a line that is cut off
by a failure or by a kill, one that is joined to it, and a reopening after it; what
several cuts do together is in the theorem. Two verifiers share the offset.

*MCP.* Two servers make the order of discovery and an index entry that
one displaces for the other; one page beyond the first, one unsolicited message
and one failure of the machine (a reset that cannot kill its process) suffice for
every branch of the error paths, and each operation may follow any other. The code has
no bound on pages: a server that sends cursors for ever keeps it in the loop.

*Conversation.* Four messages are kept, as by default, and twelve are what a
session needs to be compacted, to grow and to be compacted again; two tools make
an answer that is cut, or left open, between its results. Two ends of the
program: one during a turn and one during the resume after it.

*Agent tools.* Two inputs are one that the model asked for and one that a hook put
in its place, which rules of each kind tell apart; up to two hooks of an event are
what order needs; two calls what a flag that outlasts its call needs. Three
sendings of a prompt allow a misdelivery of a replay. Two sessions are what a lost
update needs, three modes tell the user's, the tool's and none apart. Three
faults are a failed success, a failed failure and one before. Three patches
in two processes have both pairs: of one process and of two.

*Terminal.* Two plugins are a first and a last, so that one of them is up when
another fails. Three sessions and two starts: a fork or clear, a switch back, and a
start after an end. Two sessions on the plugins, of which one has commands and the
other starts and syncs: every operation meets a sync at any of its steps, and is cut
off by an end. A response has up to three blocks of two parts, so that a stream
breaks off before, within and between blocks. Each of the five settings files
is absent or any of eight texts: no JSON, refused hooks or servers, and objects whose
hooks, servers, model, plugins, sandbox and OAuth sections meet as object on object,
object on value and value on object; a mode that hides a bad default mode, and a null
that brings it to light, are among them. Three answers of the server are a login and two refreshes that
race, or a login that meets a refresh; the two programs are interchangeable
(`EitherProgram`).

### Fairness

* *Queue:* weak fairness of each caller's, worker's and task's steps, since tokio
  runs every ready future, which includes that a processor returns. Nothing is
  assumed of operators, of new calls, of progress events or panics. That
  jobs end is conditional on `[]~shutdown`, and the instance has no fault and no
  crash: a job whose claim is committed and whose process then
  dies stays RUNNING, and no code recovers it.
* *Events:* the emitters' and the receiving loops' steps. Nothing is assumed of
  clients: one may leave its response unread for ever, and its loop waits then;
  `DisplacedStreamEnds` is conditional on `[]<>~Blocked`.
* *Hooks:* the runner's own steps (start, look every 20 ms, collect). Nothing is
  assumed of a hook, of the user or of the tool. `InterruptEnds` leaves out
  two ways in which the runner blocks in the code: a hook that does not read its
  payload (hooks.rs:692), and a descendant that keeps its pipes (hooks.rs:698).
* *Streams, plugins, program, settings, login:* none, and no liveness is claimed: nothing limits
  how long a stream may stall.
* *Control:* handlers run, the deadline's timer expires, the poll of 50 ms
  (server.rs:463) repeats, the server returns when it can. `ShutdownCompletes` does not
  assume that jobs end; it assumes that calls of `drain` do not come for ever, because
  each restarts the deadline. Nothing makes a client close its stream: that the server
  closes does not depend on it, that it stops does.
* *MCP:* weak fairness of the manager's next step only (tokio runs the operation
  and its timers). Nothing is assumed of the servers.
* *Conversation:* none, and no liveness is claimed: `run_turn` has no bound on its
  requests (`max_iterations` is `usize::MAX`), so the
  model decides when a turn ends.

Every run sets `CHECK_DEADLOCK FALSE` where the bounded system may stop: the
jobs of the instance are used up, or a server has shut down. In `McpManager` it
may not, and deadlock is checked.

## 4. Properties, by the hazard they are about

Types are proved as a part of the inductive invariants of section 5 and are no
property of a run. The parts of an inductive
invariant follow the property they explain, under a comment that begins with "Why".
Where several sentences are one concern they are one property made of named parts.

* *Two callers:* `OneJobPerKey`, `RetryNeverRefused` (a stored key is answered
  before the capacity is looked at); the bound is part of `ImplementsLifecycle`.
* *Callers, workers, tasks:* `ImplementsLifecycle`, `SingleExecution`,
  `TerminalEventTrue` (and no progress after it), `PermitsAccounted`;
  `ConsistencyInv` is the inductive strengthening of two of them (section 5).
* *Progress of the queue:* `JobsEndAndTell` (queued jobs finish, also when drains
  come and go, and each end is reported whose message fits in an event).
* *Streams:* `StreamGapless` (no gap, and no end that hides a hole),
  `DisplacedStreamEnds` (unless its client leaves the loop waiting for ever).
* *Quota:* `FixedWindowCap` (no counter above its cap, and recounted from the stamps
  of the admissions, however the clock jumps), `ConcurrencyIsHeld`.
* *Composition:* `QuotaNotUndercounted` (with the unit a failed reload costs),
  `ReservationUntilTerminal`, `ShutdownCompletes` (it closes, and stops if its clients
  close their streams).
* *Audit:* `LogKept` (what was acknowledged is on disk; at most one such line for every
  line cut off by a failed write or a kill can no longer be read; nothing else breaks
  the chain; numbers rise), `UndisturbedVerdict`.
* *MCP:* `CleanPipe`, `RetriesBounded` (a call is made once, anything else at most
  twice), `ProcessesReaped`, `RoutesCurrent`, `HandshakeFirst`, `OperationsEnd`.
* *Conversation:* `FileTracksMemory`, `SavedIsOnDisk`, `ImplementsHistory`,
  `RequestPaired`. The last says what the code does, not what one might wish: a
  compaction that keeps the last four messages may cut an answer from its results
  (compact.rs:111), which then directly follow the summary, and a turn that
  failed leaves its uses open in the session that is resumed.
* *One tool call:* `ClearedBeforeExecuted` relates what runs to everything the hooks
  said, the rules and the user's yes; `ResultHonest`; `InterruptEnds` (a hook ends,
  and at most the one tool that was cleared is still run).
* *What tools keep:* `PromptAccounted`, `UserSettingsKept`, `AgentRecordTrue`,
  `PatchIsAtomic`. Each names in its comment the one case it leaves out.
* *Terminal program:* `RuntimesClosed` counts what was done to each runtime that is
  dropped: servers told to stop once, each plugin shut down once, and where not, which
  failed shutdown is the reason. `SessionFileOwned`.
* *Plugins:* `SyncRepairs`, `SuccessTrue`, both for an operation no other session has
  crossed, whatever earlier ones have left.
* *Answers:* `AnswerHonest` relates what the server sent, what is stored and what the
  user has seen; the one part that is stored and never shown is named.
* *Settings:* `SettingsByPrecedence` compares the merge with a definition that does not
  merge, and refuses an error that no file has alone, but for the one that
  `permissionMode` hides (`Hides`, `Unhides`).
* *Login:* `CredentialsKept`.

## 5. What is proved

Every safety property of the passing runs is a theorem
of its specification, for every value of the constants the assumptions admit: any
number of callers, workers, servers, sessions, programs, patches, plugins and
messages, and any bound. Invariants are proved through an inductive invariant, which TLC
has checked first; the last step of each proof is temporal and combines that the
invariant holds initially, that each step keeps it and that it implies the property.

### The queue

The assumption is `QueueAssumption`: finitely many workers, natural numbers, a
positive number of permits.

| theorem of `JobQueueProofs` | states |
|---|---|
| `TypeCorrect` | `Spec => []TypeOK` |
| `JobsConsistent` | `SingleExecution` and `TerminalEventTrue`, from `Spec => []ConsistencyInv` |
| `QueueImplementsLifecycle` | `Spec => JobLifecycle!Spec` |
| `Bounded` | `Spec => []BoundedQueue` |
| `Idempotent` | `Spec => []OneJobPerKey` |
| `PermitsKept` | `Spec => []PermitsAccounted` |
| `RetriesAnswered` | `Spec => RetryNeverRefused` |

The three properties of a job are not inductive: that a terminal
event is true after the event is appended needs that the row held the outcome
when the task won, that no progress follows it needs that the channel was
empty, that a claimed job has never finished needs that a PENDING job has no
task, no worker and no terminal event. `JobConsistent` is the conjunction of
these facts for one job; `TypeOK /\ ConsistencyInv` is inductive. Lemmas by
group of actions (`ConsistentClient`, `ConsistentWorker`, `ConsistentTask`) rest
on three about `Persist` (`PersistOther`, `PersistPlain`, `PersistTerminal`):
what an appended event leaves true of other jobs, of its own job when it is no
terminal event, and when it is. `LifecycleStep` maps each step to a step of the
abstract specification or a stutter; the insert needs `ActiveFinite`.
`BoundedStep` needs only that the insert saw the count in its own transaction;
`KeyNext` that it saw the keys; `PermitNext` that each permit moves between the
three places that hold one (`PermitMoves`), which `FiniteSetTheorems` turns
into the sum. `RetryNext` shows a refusal to be a step of a caller whose key no job has.

### Streams, quotas and the audit log

| theorem of `ServiceStoresProofs` | states | inductive invariant |
|---|---|---|
| `StreamGaplessInv` | `Spec => []StreamGapless` | `StreamInv` |
| `ConcurrencyInv` | `Spec => []ConcurrencyIsHeld` | `ConcurrencyIsHeld` with types |
| `FixedWindowInv` | `NoOverflow => (Spec => []FixedWindowCap)` | `CapInv` |
| `LogKeptInv` | `Spec => []LogKept` | `AuditInv` |
| `VerdictStep` | `Spec => UndisturbedVerdict` | `AuditInv` |

`StreamInv` adds to the property that an event is sent only after its insert was
tried: a channel that is registered later is fed it by the replay, an earlier one
by the send. `CapInv` needs that a counter has at least what was admitted in its
window and that no admission lies in a later one (`CountsCover`), and that what a
caller's evaluation has found for a scope is still true when it counts
(`RoomIsLeft`), which is so because it holds the mutex and the clock, on or back, can
only empty counters. As long as the clock only goes on, a counter *is* what was
admitted in its window. Once it was set back this is false: a key whose window is
later than the clock keeps its count until it is next looked at, and if the clock
comes forward to that window first, the count is still in force, for admissions of
before. So the invariant has "at least", and the claim is about the admissions since
the clock was last set back: those of before were made by another clock, and the code
(quota.rs:456) does admit as many again. The hypothesis that remains is needed: a
token sum that wraps (quota.rs:422) passes the evaluation; `NoOverflow` asks that no
cap be so near to the end of `u64` that one request crosses it. The run has no such
cap.
`AuditInv` extends the rise of the numbers to the lines still in the buffer
(`NumbersRise`), says what is so until the first line is cut off (`ChainContinues`),
that every acknowledged line that is spoiled, and the open end that may spoil the next
line, has a cut of its own to show for it, while a line that is buffered or lacks its
newline was never acknowledged (`CutsExplain`), and that a verifier whose offset nobody else has moved has examined exactly the lines
before it (`VerifiersProgress`); the theorem about verdicts is an action property
whose premise is the state of `AuditInv` at the end of the file.

### The control service

| theorem of `ControlServiceProofs` | states |
|---|---|
| `QuotaInv` | `Spec => []QuotaNotUndercounted` |
| `ReservationKept` | `Spec => ReservationUntilTerminal` |

`ReservationInv` is inductive. Its core is `UnitsSuffice`: reservations, calls
that were admitted, and unfinished jobs nobody stands for are together covered by
the counter and the database errors so far. The jobs nobody stands for are those of
dropped calls; without them the sum is not kept by `Disconnect`. The proofs use the
queue only through `JobLifecycle` (`QueueMoves`), which `JobQueueProofs` shows
`JobQueue` to implement. A step moves at most one unit, which `SameUnits` and
`UnitGivenUp` say of finite sets.

### The MCP manager

| theorem of `McpManagerProofs` | states |
|---|---|
| `CleanPipeInv` | `Spec => []CleanPipe` |
| `HandshakeStep` | `Spec => HandshakeFirst` |
| `RetriesInv` | `Spec => []RetriesBounded` |
| `ReapedInv` | `Spec => []ProcessesReaped` |
| `RoutesInv` | `Spec => []RoutesCurrent` |

`ManagerInv` is inductive. A request in hand is unread or has its one answer
(`PipesSettled`), which gives `CleanPipe` only with the fact that every other way to
end a request replaces the process. `Handshaken` follows an answer to an
`initialize` through the pipe. `TriesCounted` counts attempts of the
operation and of the initialize inside it; without it the bound on processes is not inductive.
`MarkedAppend` and `MarkedTail` say what a write and a read do to the answers that
are open in a pipe.

### The turn loop

The assumption is `ConversationAssumption` (natural numbers).

| theorem of `ConversationProofs` | states |
|---|---|
| `TypeCorrect` | `Spec => []TypeOK` |
| `FileTracks` | `Spec => []FileTracksMemory` |
| `SavedKept` | `Spec => []SavedIsOnDisk` |
| `ConversationImplementsHistory` | `Spec => SessionHistory!Spec` |
| `PairedInRequests` | `Spec => []RequestPaired` |

The first three
invariants are inductive given the types; an append keeps a prefix a prefix
(`PrefixAppend`, from the element-wise `PrefixElements`). `HistoryNext` maps each step to a
step of `SessionHistory` or a stutter, through what a session tells (`Tells`: messages
in all, with a line, in full):
a turn's needs `FileTracksMemory`, and a save may take place there only because
what is to be saved accounts for what the file does (`SaveLosesNothing`), which is so after
a turn because the lines were appended, and after a resume because it was loaded.
`CompactResult` says what a compaction yields, for any
session; `CompactTells` and `CompactSummary` follow from it. `RequestPaired` speaks
of the moment of a request; `SessionsPaired` says what is so at every other: a session
whose last answer still waits for results, and the files of one that was left so.
That the session in a request has one summary, in front, needs the same of the session,
the file and the rotated file (`AllSummariesFirst`), from which it may be resumed.
`AppendPairs` says what an appended message leaves of each pair, `CompactPairs`
what a compaction that cuts anywhere leaves.

### The tools

`AgentToolsAssumption` is the conjunction of the parts' assumptions.

| theorem of `AgentToolsProofs` | states | inductive invariant |
|---|---|---|
| `Cleared` | `Spec => []ClearedBeforeExecuted` | `HookInv` |
| `ResultsHonest` | `Spec => []ResultHonest` | `HookInv` |
| `OneToolAfterInterrupt` | `Spec => []OneAfterInterrupt` | `AfterInv` |
| `PromptsAccounted` | `Spec => []PromptAccounted` | `WorkerInv` |
| `SettingsKept` | `Spec => []UserSettingsKept` | `PlanInv` |
| `AgentsRecorded` | `Spec => []AgentRecordTrue` | `JobInv` |
| `PatchesAtomic` | `Spec => PatchIsAtomic` | `PatchInv` |

`HookInv` relates what is merged to the votes that were cast (`Heard`: the last hook that
says anything of an item decides it) and what is prompted for or run to the judgement of the
policy (`Judged`). `OneAfterInterrupt` is the safety half of `InterruptEnds`: a call that
begins after ctrl-c does not come past its hooks. `PlanInv` looks ahead: unless
the one writer has been overtaken, what it is about to write will keep the settings
(`WillKeep`), by the call and the phase it is in. For a "plan" of the user's this needs
that no state file is beside it (`ModeKept`), or else `claimed`. `PatchInv` says that while no two
calls have shared a staging file each has a file of its own, and what is in it.
`JobInv` says where each outcome may be recorded, by the step of the tool or its thread.

### The terminal program

`TerminalAssumption` is the conjunction of the parts' assumptions.

| theorem of `TerminalProofs` | states | inductive invariant |
|---|---|---|
| `RuntimesAreClosed` | `Spec => []RuntimesClosed` | `CliInv` |
| `SessionFilesOwned` | `Spec => []SessionFileOwned` | `CliInv` |
| `SyncsRepair` | `Spec => []SyncRepairs` | `PluginInv` |
| `SuccessIsTrue` | `Spec => []SuccessTrue` | `PluginInv` |
| `AnswersAreHonest` | `Spec => []AnswerHonest` | `StreamInv` |
| `LoginIsKept` | `Spec => []CredentialsKept` | `CredentialInv` |

| theorem of `SettingsProofs` | states | inductive invariant |
|---|---|---|
| `SettingsKeepPrecedence` | `Spec => []SettingsByPrecedence` | `ConfigInv` |
| `MergesKeyByKey` | `DeepMerge` satisfies the recursion of `deep_merge_objects` | - |

`CliInv` says of either runtime that its servers run until it is dropped and what a
shutdown that failed has left (`Sound`), and of each place of the program which file is about to be written and that it is that of the session held
(`AboutTo`). `PluginInv` states, for an operation nobody has crossed, what of it is done
at each of its steps, whatever earlier ones left (`Ready`). `StreamInv` follows each part of a block
from the connection to the pending inputs, the events and what is printed or waits to
be (`ShownSoFar`); what waits is of the one block that has not ended, and comes after all that was
printed (`WaitingSoFar`). `CredentialInv` says of an
uncrossed command that the file is as it was read (`Undisturbed`) and that its
token is one the server honours (`TokensHonoured`).

`ConfigInv` says that at every file the settings so far are what the files before it
amount to by the definition that does not merge (`MergedBefore`, `ServersBefore`).
Its step rests on who speaks last: the next file, where it says anything of a path,
and otherwise who spoke last before (`SayerNext`), from which `MergeDecides` gets
that merging is deciding; `ServersDecided` is the same for servers. An error is shown
to be the fault of a file by `ParsedTogether`: files whose hooks and sections each
parse alone have some that parse when merged, because what is an object in every file
is one in all and none of its fields is lost; where they do not, the mode is the only
field whose parse depends on another path, and the last files to speak of the two paths are the two that
the property names. All of it holds for any texts, that is,
JSON values of any depth and any keys. `MergesKeyByKey` justifies the one operator
that is not written as the code is: for an object in both, the merged object is the
merge of the two objects (the recursive call), for any other key of the source it is
the source's value, for the others the target's.

### What the proofs changed in the models

* The actions of `PluginManager` had a `CASE` with guards that overlap, of which TLC takes
  the first and the logic any: the proof of `SyncRepairs` failed for the other. They
  are `IF ... ELSE` now, in the order of the code.
* JSON values in `ConfigLoader` were trees with a recursive merge, about which nothing can
  be proved here. As functions on paths they are sets of facts, the merge needs no
  recursion, the assumption on the files is one formula (`IsValue`), and the run has
  the same number of states as before.
* The keys of objects are a constant, `Names`. `STRING` would do for TLC, but that a
  literal is a string is a fact the installed provers do not know; the only key the
  proof needs to be one of them is `mcpServers`.
* `Quota` had a constant that switched the steps back of the clock off, and its invariant
  the exact count. Without it the exact count is false, as the section on quotas says.
  The last answer of a call, which no property read, is gone.
* Order in `ModelStream` is a quantified definition (`InOrder`), the chain of the audit log a
  predicate on one line (`Follows`), a pipe's lines a set of positions (`Lines`): the
  library's recursive operators they replaced compute the same and cannot be reasoned about.

### What is only model-checked

* The liveness properties `JobsEndAndTell`, `DisplacedStreamEnds`, `ShutdownCompletes`,
  `OperationsEnd` and `InterruptEnds`: fairness and ENABLED are out of the proof
  system's reach.
* The three expected violations, which are counterexamples.

## 6. Disagreements of code and documentation without a run

* A second `subscribe` displaces the first (queue.rs:478); its doc (467-468)
  promises every subscriber the events.
* A history longer than the channel's 256 entries ends the stream of a late
  subscriber at once (queue.rs:474). `StreamGapless` shows it is told.
* quota.rs:121 speaks of sliding windows; the code (455) has fixed buckets, so
  two windows' worth may be admitted around a boundary. `FixedWindowCap` states
  what the code does.
* The token sum (quota.rs:422) is an unchecked u64 addition.
* A failed reload after a committed insert (queue.rs:309, server.rs:309) gives
  the quota back for a job that exists; `QuotaNotUndercounted` allows for it.
* `drain` with `enable = false` on an idle server marks the drain Complete
  (server.rs:398), so a later ctrl-c stops the server at its first poll
  (drain.rs:39, server.rs:458-464).
* Every call of `drain` restarts the deadline (drain.rs:42).
* `append` (audit.rs:256) leaves a number used, the line buffered and the old
  hash in place when a flush fails. The next append writes both lines with the
  same previous hash: the chain is broken for good, while
  `docs/operations/phase8.md:56-57` asks that `verify()` pass during health
  diagnostics. `LogKept` allows it to a failed write and to a kill within an append,
  and to nothing else.
* `docs/testing/baseline_report.md:246` calls the transcript atomic. A message is
  appended with `writeln!` (session.rs:423), which writes the text and the
  newline apart: an append that fails halfway leaves a line that keeps the file
  from being loaded (`Resume` needs `torn # "part"`). What was saved is in it
  (`SavedIsOnDisk`).
* Two concurrent calls of `verify` share the offset (audit.rs:264) and disturb
  each other as an append does.

### What the models show where nothing is promised

A reader of the code should know the following; no sentence of the repository
contradicts it, so that no run is expected to fail.

* *Hooks.* The last hook that speaks of the permission wins, "allow" after "deny"
  included (hooks.rs:524). Without hooks, ctrl-c does not stop the tools of
  an answer.
* *Workers.* A ready cue after `terminate` makes a finished worker ready again
  (worker_boot.rs:319).
* *Queue.* A job whose terminal event is longer than `max_event_bytes` ends without
  one (queue.rs:588): its outcome is in its row only, and no subscriber is told.
* *Streams and shutdown.* A client that does not read its response keeps the loop of
  `stream_job_events` waiting (server.rs:378), displaced or not. A stream that its
  client leaves open keeps the server from returning after ctrl-c, whatever the
  drain's deadline (server.rs:453-467).
* *Audit log.* A kill between a line of 8 KiB or more and its newline leaves a line that
  `open` accepts and the next append joins: that next event is acknowledged and the
  log cannot be opened any more (audit.rs:171-182, 254).
* *Compaction.* A second compaction drops the timeline of the first, and an empty
  line in a message ends the new one (compact.rs:238-271).
* *Plan mode.* Another session's change between a call's read and its write is
  lost; a cut between a truncation and its write loses the file. A "plan" the
  user chooses while plan mode is on, or while an `EnterPlanMode` that was cut off has
  left its state file (tools/src/lib.rs:4209-4215), is taken for the tool's, and taken
  back (4272-4285).
* *Agents.* A manifest says "running" for good when the program ends or when
  recording a failure fails (tools/src/lib.rs:3113): nothing looks for such agents.
* *Patches.* `a.rs` and `a.toml` share a staging file in one process, because the
  staging name replaces the extension (transactional_patch.rs:142).
* *Plugins.* A torn registry makes every operation and every start fail until it
  is mended by hand; an emptied one silently loses all records, an emptied settings
  file all settings. A copy that is cut off and whose manifest does not load
  makes every start fail (`into_registry`). An update removes before it copies: cut
  off there, it loses the plugin, whose record is pruned while its setting
  stays. An install cut off before its record is listed, and cannot be uninstalled.
* *Terminal program.* The new runtime's plugins are initialised before the old one's
  are shut down (main.rs:2251), and two sets of MCP servers run during a turn. A
  failed shutdown is repeated from the first plugin on when the runtime is dropped.
  A build that fails after it has started plugins or servers leaves them.
* *Model streams.* A text that breaks off without an end is taken as the whole answer
  (main.rs:4699), and what of it came after its last blank line or closed fence is
  stored but not printed. A tool's input that breaks off is dropped (Anthropic) or handed
  over cut and refused by the parser of the executor (OpenAI kind). A connection that
  fails after the end of the message fails the turn the user has already seen.
* *Settings.* Precedence is by key, not by meaning: a `permissionMode` of the user's file
  is preferred to a later file's `permissions.defaultMode` (config.rs:724), and
  `plugins.enabled` to a later `enabledPlugins` (config.rs:704). A bad
  `permissions.defaultMode` is accepted beside a `permissionMode`, until a later file
  puts null or the like at `permissionMode` (config.rs:726-737). A file that
  cannot be loaded ends the load although a later one would have replaced its faulty part.
* *Login.* All programs write `credentials.json.tmp` (oauth.rs:387) without a lock: two
  at once may tear or empty the file, its other entries included. A refresh that
  ends after a logout restores the login; one that ends after a newer login
  replaces its tokens (anthropic.rs:638). A program that is cut off between the
  server's answer and the save loses a refresh token that was replaced, and the next
  start is refused until the user logs in.

## 7. Plan

Done in this order, the most important first: queue with its abstract
specification and proofs; streams; quotas; the control service that composes
them; audit log; MCP manager; turn loop with its session file, and proofs; one
tool call with hooks and policy; the tools that keep something; plugins; the
terminal program; model streams; settings and login; proofs of the safety properties
of all of them, and of an abstract specification of the session. Next, in order:

1. Two programs on one session file.
2. A clock that steps back in `JobQueue` (order of claims).
3. A restart of `ControlService`, which begins with no reservation.
4. `RecoveryRecipes`, once a program attempts recoveries.
5. `McpToolBridge`, `SessionStore`, `WormLedger`, `Supervisor`, once they are wired.
