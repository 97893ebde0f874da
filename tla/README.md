# ForgePilot Agent in TLA+

TLA+ models of the parts of ForgePilot Agent in which several requests, timers,
callbacks and processes act on the same state, the TLC runs that check them on
small instances, and TLAPS proofs of their main properties for every instance.
The program has three layers (`docs/project_handbook.md` 4.3,
`docs/engineering_standards.md`), and there are models of each:

- the Python service and engine (`src/forgepilot_api`, `src/forgepilot_sdk`);
- the desktop shell (`.refs/forgepilot-shell`): React pages over a local
  database, and a Node API of its own (`src-api`);
- the TypeScript SDK (`.refs/open-agent-sdk-typescript`) that the Node API runs
  and whose port the Python engine is.

Short names: `useAgent` is `.refs/forgepilot-shell/src/shared/hooks/useAgent.ts`,
"the SDK" the TypeScript one; other shell and SDK files are named without their
directory.

## The system

| component | state | operations | interacts with |
|---|---|---|---|
| query engine (`forgepilot_sdk/engine.py`) | message history, pending tool calls of a turn | turn loop, policy, permission, tool execution | event generator consumed by the agent service; callbacks `on_permission_request`, `wait_for_permission_decision` |
| agent service (`services/agent_service.py`) | `_local_sessions` with an abort event each, `_local_plans` | planning, execution, answers, stop | engine, runtime state store, routes |
| runtime state store (`services/runtime_state_service.py`, `storage/`) | rows `runtime_sessions`, `runtime_permissions`, `runtime_plans` with an expiry | upsert, read, conditional update, delete | SQLite or Redis; every worker of the service |
| agent routes and SSE (`api/agent.py`, `api/utils.py`) | `_task_tool_use_context`, tasks, messages, files | stream events, persist them | agent service, storage |
| sandbox pool (`sandbox/pool.py`) | instances by image with `in_use`, an asyncio lock | acquire, release, stop_all | providers' `init` and `stop`; manager; routes |
| sandbox manager, registry (`sandbox/manager.py`, `registry.py`) | one instance per provider type, one pool per type | select with fallback, lease, stop all | pool, providers |
| preview manager (`services/preview_service.py`) | one Vite process per task, ports, timers | start, stop, status, stop all; watchers | processes; routes; application shutdown |
| session transcripts (`forgepilot_sdk/session.py`) | a JSON file and a lock file per session | save, append, rename, tag, update, load, fork, delete | other processes on the same directory |
| rate limiter (`core/rate_limit.py`) | request times by identity, or a Redis counter | check | middleware |
| MCP client, tools, compaction, retry, file cache, model providers, security middleware, files API, configuration | see `PROJECT.json` | | |
| shell: agent hook (`useAgent`, `background-tasks.ts`, `TaskDetail.tsx`) | the shown task, its messages, phase and running flag; refs of the active task and its abort controller; a map of background tasks | run, approve, reply, stop, load a task, poll | Node API's event streams; database; the task page |
| shell: task page (`TaskDetail.tsx`, `RightSidebar.tsx`, `components/artifacts`) | lists derived from messages and rows, caches of directories, object URLs | show, group, load, preview | agent hook; database; files |
| shell: database and settings (`shared/db`, `settings/tabs`) | tables in SQLite or IndexedDB; settings in memory, local storage and rows | tasks, messages, files; save, hydrate, synchronise | pages; Node API |
| shell: composer (`ChatInput.tsx`, `attachments.ts`) | attachments being read and saved | add, remove, submit, load | agent hook; database |
| Node API: providers (`core/sandbox`, `core/agent`, `shared/provider`) | instances by key, an active provider per category | create, reuse, switch, stop, run | routes; settings page |
| Node API: previews (`services/preview.ts`, hook `useVitePreview.ts`) | one Vite process per task, ports, timers | start, stop, status, health | child processes; the page's hook |
| Node API: agent streams (`api/agent.ts`, `services/agent.ts`, `extensions/agent`) | sessions with an abort controller, `globalPlanStore` | plan, execute, chat, stop | the SDK; the shell's hook |
| SDK: agent and engine (`agent.ts`, `engine.ts`) | the conversation, an engine per query | query, interrupt, clear, close | model; tools; hooks; sessions |
| SDK: stores (`tools/`, `session.ts`, `utils/fileCache.ts`, `skills/`) | module-level maps of tasks, teams, jobs, mail, worktrees, skills; transcripts; a bounded cache | one call of a tool each | all agents of the process |

What is hard in this code is the awaits. The Python runs in asyncio tasks, so a
handler is atomic between two awaits and nothing more: state read before an
await may be stale after it, a cancellation can strike at any await, and with
several workers (or Redis) even one status update is several steps. The
TypeScript has the same rule with promises in place of tasks, and in the shell
one more trap: a callback sees the component's state as it was when the callback
was made, so the hook keeps refs beside its state and compares them after every
await. The hazards are listed in `PROJECT.json`, each at its line.

What makes the components correct:

- approval: no tool that needs permission runs without an approval of that very
  call; a settled call cannot be answered; a wait ends without help; a stop ends
  the run;
- sandbox pool: exclusive leases, a bounded pool, no live provider that
  `stop_all` cannot find, no waiter left behind;
- preview: the limit on previews, no server revived after its cleanup, no server
  lost, no port shared;
- plans: a plan deleted by its execution is never executed again, and every
  execution deletes it;
- event stream: a task whose runs have ended is not left running, and sessions
  count their tasks;
- transcripts: no writer enters while another is inside, nothing written is lost
  and nothing deleted comes back;
- shell's agent hook: a stream writes into the task it belongs to and shows
  itself only there, a run can always be stopped from its task's page, and the
  page's running indicator goes out;
- shell's pages: what is shown is what is stored, with each call's own result,
  and of two loads the later one wins;
- shell's stores: no row of an earlier save comes back, none lives without its
  task, attachments are sent once;
- Node API: one provider per key and one preview per task, within the limit,
  each on its own port; a stream ends with `done` and is forgotten;
- SDK: every request to the model pairs calls with results, tools that change
  things run alone, an interrupted or aborted query loses no earlier one; ids
  keep their meaning; a hook's veto holds.

## Plan

| # | module | composes | state |
|---|---|---|---|
| 1 | `Permission`, abstract `Approval`; `RunProofs` with 6 | | done |
| 2 | `SandboxPool` | | done |
| 3 | `Preview`; `SandboxProofs` for both | | done |
| 4 | `Execution`; `RecordProofs` with 5 | the store's rows, one process | done |
| 5 | `SessionFile` | | done |
| 6 | `ShellAgent` | the hook, its background runs and page | done |
| 7 | `NodeProviders`, `NodePreview`, `PreviewPage`, `NodeAgent`, `NodePlugins`, `NodeBoot`; `NodeProofs` | joined by `MCShell` | done |
| 8 | `ShellStore`, `ShellSettings`, `ShellModels`, `McpConfig`, `ShellComposer`, `ShellArtifacts`, `ShellTranscript`, `ShellPanels`, `ShellFiles`, `ShellSkills`; `ShellProofs`, `PageProofs` | joined by `MCShell` | done |
| 9 | `SdkEngine`, `SdkHooks`, `SdkTools`, `SdkSessions`, `SdkSkills`, `SdkCache`, `SdkWire`, with loops as functions in `Loops`; `SdkProofs` (`SdkHooks` in `NodeProofs`) | joined by `MCShell` | done |
| 10 | `BenchProofs` | what is proved of the parts, of `MCShell` | done |

The turn loop of the Python engine, planned at first as a module of its own, is
modelled where it was ported from, as `SdkEngine`. What the plan leaves is under
"Not modelled".

One abstract specification is stated, `Approval`. (An append-only log for transcripts was considered and dropped: saves,
renames, failed reads and strict mode all break it, so `SessionFile` says what is
kept with the exceptions named.)

## Modules

### Permission

One session and one run with `NumCalls` pending calls, split into turns by
`turnEnd`. `kind` says which calls need permission: what the policy and the
tool's own flag decide is arbitrary, calls denied by the policy never reach the
loop. The control states follow the code between awaits:

| code | actions |
|---|---|
| loop over the pending calls, `engine.py:591-721` | `Pick`, `Register`, `Announce`, `Tool`, `Report`, with `Settle` for an appended result |
| `_wait_for_permission_decision`, `agent_service.py:280-323` | `ReadRow`, `Check`, `GiveUp`, `Delete` |
| `asyncio.wait_for(..., timeout=600)`, `engine.py:640-644` | `Cut`, at any await of the waiter |
| `PERMISSION_DECISION_TIMEOUT_SECONDS` | `DeadlinePasses` sets `late` |
| `respond_to_permission_async`, `agent_service.py:326-341` | `Respond`, `RespondSets` |
| `delete_session_async`, `agent_service.py:215-220` | `StopPops`, `StopStores`, `StopFails` |
| expiry of a row, client gone | `Expire`, `Disconnect` |

`AtomicSet` selects the store: SQLite's conditional `UPDATE`
(`repositories.py:500-510`) is one step, Redis' GET, TTL and SET
(`runtime_state_service.py:285-299`) are three, with everything else between
them. `event` and `rowAborted` are the two halves of a stop: the session object
of this worker and the row that all workers read. `held` remembers whether the
waiter looked the session up before a stop popped it, because the waiter does
not hold the run's session object but looks one up by its id in every round.

Left out: the content of calls and results; hooks; `can_use_tool`, whose two
refusals end a call like a tool's result does; the publication of events, which
only shortens a wait that is anyway polled; policy denials, settled before the
loop. Histories (`stopAt`, `asked`, `cut`) serve the properties only.

`Approval` is what the protocol promises: calls are settled in order and once,
executed only after an approval of that call was recorded, refused only if they
needed permission. `Permission` implements it with `votes` read off the
responders whose update took effect.

### SandboxPool

`queue` is the FIFO of `asyncio.Lock`, its head the holder. A request goes from
`wait` through `evict` and `init`, the two awaits inside the lock, to `use`.
Times of last use become the order `older`. `release` takes no lock and may come
after `stop_all`. Requests can be cancelled while they wait (`CancelWait`),
evict (`CancelEvict`) or initialise (`NotStarted`, which is also an `init` that
raises). The built-in providers do not suspend in `init` and `stop`; a
registered provider may, as those of `tests/unit/test_sandbox_pool_stress.py` do,
and the model assumes no more than that such a call ends. A provider whose `init`
was cancelled half way is not followed further: the pool never sees it.

### Preview

Instances are numbered in the order of their creation, so that the task's next
instance and the old one can be told apart: the code identifies them by the task
alone in `_instances`, in the idle timer and in the health loop. A cleanup is
`Cleanup` up to the await of its process and `CleanupEnds` after it; `cleaning`
holds who is in that await, since a stop, a stop_all, an eviction, a health
failure and a failed startup can all be cleaning one instance. Without a live
process a cleanup has no await and is one step.

| code | actions |
|---|---|
| `start_preview`, 80-120 | `Start` (to the eviction's await), `Create` or `NoPort` |
| `_start_vite_server`, `_start_vite_process`, 166-248 | `Spawn`, `InstallFails`, `Ready`, `NeverReady` |
| `_watch_process_exit`, 287-296 | `Exit` |
| `_health_loop`, 316-331 | `HealthFails` |
| `_idle_timeout`, 338-341, armed by 86, 152, 248 | `Idle`, any time a task is registered: `get_status` arms a timer for whatever is registered, and nothing disarms the one armed during a cleanup |
| `stop_preview`, `stop_all`, 129-161 | `Stop`, `AllBegins`, `AllEnds` |
| `_cleanup_instance`, `_terminate_process`, 343-378 | `Cleanup`, `CleanupEnds` |

Left out: the `npm install` process; the answer of `start_preview`; one
interleaving of three instances, in which a process that had been pushed out
exits just while its own health loop is cleaning up a newer instance of its task
and so cancels that cleanup.

### Execution

A plan's life and what is persisted of its execution. One process over one
database: `rows` are the plans with an unexpired row, `local` is `_local_plans`.
`pc` says where a request is between two awaits, `phase` how far the run behind
its stream is, `event` what is being persisted.

| code | actions |
|---|---|
| `save_plan_async`, `agent_service.py:373-378`, at the end of `run_planning_phase` | `SaveLocal`, `SaveRow` |
| `post_execute` and `get_plan_by_id`, `api/agent.py:283-313`, 389-394 | `Post`, `GateRead`, `GateApply` |
| `run_execution_phase`, 1453-1496 | `PhaseRead`, `PhaseApply`, `Finish`, `Pop`, `Delete` |
| `run_agent`, 1245-1419 | `Yield`, which draws the next event from `Yields` |
| `_persist_agent_event`, `api/agent.py:183-249` | `Lookup`, `Reserve`, `Upsert`, `Record` |
| client gone, persisting fails, request cancelled, process dies | `Abandon`, `DeleteCancelled`, `Crash` |
| `delete_expired_runtime_plans` | `Expire`; that the row is erased later shows nowhere |

What `get_plan_async` reads before its await and writes to `_local_plans` after
it are two steps, so a plan deleted in between comes back in the cache. A run
yields its events in the order that `run_agent` allows: a success that breaks a
semantic rule becomes an error and a failed result, a run may raise after its
result. Left out: the message rows, file artifacts, the text of events (text,
tool and permission events are one "info", yielded at most once in a run, since
they only look the task up and write no status). Plan ids are fresh UUIDs, and
every execution creates its session, so a session is identified with its request.

### SessionFile

One session's transcript, its lock file, and writers, each of which makes one
call in a thread of a process. `strict` is `FORGEPILOT_SESSION_STRICT_PARITY`
(on by default), `legacy` whether the session has a file in the legacy
directory. A message stands for the writer that brought it, `Old` for what a
legacy file holds. Metadata is not part of the model, so an `update` writes back
the messages it loaded.

| code | actions |
|---|---|
| the six calls, `session.py:278-347, 447-522` | `Start` |
| what `rename_session` and `tag_session` read before the lock, 453 and 470 | `Peek` |
| the process's RLock, 163-166 | `GetThread`: one thread of a process at a time from there to `Unlock` |
| the loop on the lock file, 172-188 | `Create`, `CreateFails`, `NoDirectory`, `Exists`, `Look`, `Break` |
| inside, 221-243, 290-347, 489-510 | `Load`, `Write`, `WriteFails` |
| `finally`, 190-201 | `Unlock` |
| `save_session` in strict mode, 285-288 | `Replace`, without the lock |
| `delete_session`, 513-522 | `Scan`, `RemoveFile`, `RemoveLock`, `Removed`, `Unlegacy` |
| clocks, processes that die | `Patience`, `Age`, `ProcessDies` |

`os.replace` makes a write one step; what precedes it, or fails before it, shows
only in the temporary file. `stat` and `unlink` of the lock file are separate
steps, and `unlink` takes whatever file has the name by then, as POSIX does,
also while its creator has it open. `Unlock` and `Break` therefore remove other
writers' locks as well. A lock file may become old at any time: its creator may
just be slow. A crash may strike any call under way; the lock file stays.

The lock excludes others only as long as no lock file becomes old and nobody
deletes the session (`Calm`): two writers that find the same old lock file, or a
writer slower than the limit, end up inside together, and a deletion removes the
lock file under its holder. `AppendsKept` and `SavesKept` say that under `Calm`
what was written is lost in the named ways only: a later save replaces it, a
rename writes back what it read before the lock, an append that cannot parse the
transcript starts it anew, and in strict mode a save runs beside the lock.

Left out: the repair of malformed transcripts on load, which writes back what
is on disk, under the lock; errors that `rmtree` ignores; `list_sessions` and
`fork_session`, which read this session and save another.

### ShellAgent

The hook's state and refs for each mounted page (`view`; `current` is the one on
screen), the registry of background runs (`bg`, with its delayed removals), the
requests with their streams (`run`) and the initialisations of the page
(`loads`). A run belongs to the instance of the hook that started it and outlives
it. Everything between two awaits is one step.

| code | actions |
|---|---|
| the route changes, the page unmounts; `loadTask`, `useAgent` 922-968; 2883-2914 | `Open`, `Leave` |
| `initialize`, `TaskDetail.tsx` 706-794; `loadMessages`, `useAgent` 994-1361 | `LoadFound`, `LoadMissing`, `StaysIdle`, `FindsAborted`, `Restores`, `LoadRows` |
| `runAgent`, `approvePlan`, `continueConversation` up to their request | `Claim`, `ArmFirst`, `ArmExec`, `ArmReply`, and `Approve`, `Reply` for the user |
| the loops over a stream, 1430-1665, 1930-1985, 2066-2216, 2580-2657 | `OnDone`, `OnPermission`, `OnText`, `OnQuestion`, `OnToolResult`, `OnOutcome`, `OnPlan`, `OnPlanText`, `OnAnswer`, `OnChatText`, `StreamEnds`, `ChatEnds`, `QuickEnds` |
| `catch`, `finally`, the reload after an execution | `FirstFails`, `ExecFails`, `ReplyFails`, `AbortSeen`, `Finally`, `Reload` |
| `stopAgent`, `rejectPlan`, `respondToPermission` | `StopBegins`, `StopEnds`, `Reject`, `AnswerPermission` |
| the poll of a restored run, 1062-1180; `background-tasks.ts` | `PollTick`, `PollSees`, `PollGivesUp`, `RemoveLater` |

`calm` is a history: it stays true while the user waits for what is under way
before acting again and no poll or stop calls a view idle whose run goes on.
`RunsStayInReach` and `IndicatorSettles` hold under it only, and the model shows
why: a task opened again while its first request is on the way loses that
request's controller; a page whose first prompt ends takes its task back
(`TaskDetail.tsx` 783-784); the poll of a restored run never sees a stored tool
call that it can match (`useAgent` 1643 stores no id) and gives up after 300 s
whether the run goes on or not. Left out: the text of messages, the progress of
single plan steps, which is the one thing a stream shows without asking whether
its task is active (1595-1623), titles and attachments (`ShellComposer`).

### The bench of shell, Node API and SDK components

`MCShell` holds twenty-three further modules. Each is a specification of its own and
has a scene of its own in the bench, in which the others stand still: the
components are small, and one run checks them all. They meet in the code only
through what is an arbitrary input of each here.

| module | code | what its state is, and what is abstracted |
|---|---|---|
| `NodeProviders` | `core/sandbox/registry.ts`, `core/agent/registry.ts`, `shared/provider/manager.ts`, `app/api/sandbox.ts`, `providers.ts` | instances by key, the manager's current one, what the settings page shows; each await a step. The plugins' tables are in `NodePlugins` |
| `NodePreview` | `services/preview.ts`, `api/preview.ts` | as `Preview`, with npm's and Vite's processes, the ports taken, health checks (the look at the status and the answer are two steps), idle timers; which running preview makes room is not told apart |
| `PreviewPage` | `useVitePreview.ts`, `TaskDetail.tsx` | the hook's status, its interval and its calls; the manager is a status per task |
| `NodeAgent` | `api/agent.ts`, `services/agent.ts`, `extensions/agent`, `core/agent/base.ts` | streams as nested generators, sessions, `globalPlanStore`, calls and texts already sent |
| `NodePlugins` | `shared/provider/loader.ts`, `registry.ts`, `core/sandbox/pool.ts` | plugin files, the watcher's events and timers, loads; the registry's instances and calls; the pool's sandboxes. The loader, the registry and the pool are exported and nothing else in the program uses them |
| `NodeBoot` | `index.ts`, `config/loader.ts`, `providers.ts` `/settings/sync`, `skills/loader.ts` | the phases of a start, where each kind of provider is configured, syncs between awaits, the copies of built-in skills, cleanups of signals |
| `ShellStore` | `shared/db/database.ts`, `library.ts`, the lists of tasks | tables in SQLite and IndexedDB, what calls read and will write back |
| `ShellSettings` | `shared/db/settings.ts`, `SettingsModal.tsx` | memory, local storage, rows, the backend's copy, the open window's copy |
| `ShellModels` | `ModelSettings.tsx`, `getModelConfig` | providers, keys, default, the connection test |
| `McpConfig` | `MCPSettings.tsx`, `api/mcp.ts`, `mcp/loader.ts` | the page's list and the file, each with the servers that have a command or URL; requests under way |
| `ShellComposer` | `ChatInput.tsx`, `attachments.ts`, `useAgent` | files being read, sent messages, files and rows being written, loads |
| `ShellArtifacts` | `components/artifacts` | one viewer, its effect, object URLs; a presentation's pictures are one URL |
| `ShellTranscript` | `TaskDetail.tsx` `MessageList` | the messages of a run and what the page makes of them |
| `ShellPanels` | `RightSidebar.tsx` | the working directory's files and cache, the list that waits to be rendered, loads of clicked files |
| `ShellFiles` | `useAgent`, `TaskDetail.tsx` 390-545 | file rows, lists being read, the sidebar's opening |
| `ShellSkills` | `SkillsSettings.tsx`, `api/files.ts` | the skills on disk, imports with their clones, the page's visits and the list it shows |
| `SdkEngine` | `agent.ts`, `engine.ts`, `utils/compact.ts`, `mcp/client.ts` | the conversation, an engine per query, turns, tools, compaction, interrupts, close; one query at a time per agent, retries folded into an answer's outcome |
| `SdkHooks` | `engine.ts` `executeSingleTool`, `hooks.ts` | calls that run side by side, the hooks each was asked, matchers that throw |
| `SdkTools` | `tools/` with module-level stores | tasks, teams, jobs, to-dos, mailboxes, worktrees |
| `SdkSessions` | `session.ts` | transcripts read and written as a whole |
| `SdkSkills` | `skills/registry.ts`, `skill-tool.ts` | names, aliases |
| `SdkCache` | `utils/fileCache.ts` | entries in order of use, bytes |
| `SdkWire` | `providers/openai.ts`, `utils/messages.ts`, `utils/retry.ts` | a conversation and its form on the wire; the tries of one call |
| `Loops` | loops over arrays, `filter` | none: functions that the modules above use where something is computed over a whole sequence and proved about |

Most properties of the bench carry an `unless`, a history variable that says
which overlap or failure breaks them in the code. These are real behaviours:

- `NodeProviders`: the manager shuts down providers behind the registry's back; a
  request without configuration shuts the configured provider down.
- `NodePreview`: a second start while the first one starts makes a second
  instance of the task; a startup that failed releases its port but keeps its entry;
  a health check that fails after its server was stopped and the task started anew
  takes the new server's port and entry (`preview.ts:582-595`).
- `NodeAgent`: `globalPlanStore` keeps executed plans, so that they can be
  executed again; texts are told apart by their first 100 characters.
- `NodeBoot`: a SIGTERM before the server is up starts no cleanup that closes it;
  the manager never reads the configuration file, and only it translates the old
  name `codeany`; a skill whose copy was cut short after its `SKILL.md` stays torn,
  and one whose copy is newer than the new build is not replaced.
- `NodePlugins`: a plugin removed while it is loaded is registered again; the
  pool, without a lock, leases a sandbox that is being evicted.
- `ShellSkills`: when git fails, the temporary directory of a clone stays.
- `ShellStore`: IndexedDB updates lose each other; a generated title of one task
  can be shown on the page of another.
- `ShellSettings`: a crash in a save leaves a mixture of rows; cleared settings
  come back from local storage.
- `ShellModels`: deleting the default provider with no other enabled leaves the
  default dangling. `McpConfig`: a file that cannot be read is overwritten by the
  next save; `env` is dropped on a save; a server listed without a command or URL
  reaches no run; the page shows nothing of a file in the direct form, and of some
  servers not what a run would use (`ReadOtherwise`).
- `ShellComposer`: files added while a submit reads others are cleared unsent;
  two presses of Enter send twice.
- `ShellTranscript`: results are paired by number, so all shift after a call
  without result; equal consecutive answers are shown once. `ShellPanels`: a
  cached directory does not see new artifacts: the effect runs when they change, as the
  comment at `RightSidebar.tsx:1073` promises, and then answers from a cache that knows
  the directory and the version only (1087-1096). `FilesAreTheDirs` says that this is
  the only way. The list that was read is rendered some time after the load is over.
- `SdkHooks`: a matcher that is no regular expression throws out of the loop over
  the hooks, and the engine takes that for no answers: an earlier block is lost and
  the tool runs (`hooks.ts:152`, `engine.ts:179`).
- `SdkEngine`: a reply cut off at the token limit goes on without results for its
  calls (360-372); the last turn allowed reports `error_max_turns` even if it
  ended by itself (428-432); a prompt too long with a failing compaction is
  retried without bound (299-313).
- `SdkSessions`: overlapping changes lose each other, and an append to a torn file
  is dropped. `SdkTools`: removing a worktree deletes a branch that was there before.

## Runs

| run | instance | question | result |
|---|---|---|---|
| `permission_sqlite` | 2 calls, 2 responders (symmetric), SQLite | safety, refinement | holds, 799,356 states |
| `permission_redis` | 2 calls, 1 responder, Redis | does a wait end at its deadline, a stopped run end? | holds, 812,248 states |
| `permission_stop` | as above, SQLite, 1 responder | does a further call of the turn start after the stop was answered? | yes |
| `permission_ack` | as above | is an answer acknowledged after its call was settled? | yes |
| `sandbox_pool` | 3 requests, 2 images, size 2, 4 acquires, one stop_all | safety, no waiter left behind | holds, 305,162 states |
| `preview` | 2 tasks, limit 1, 2 ports, 3 instances | safety | holds, 1,919,726 states |
| `preview_stopall` | as above | does stop_all stop every server? | no |
| `execution` | 1 plan, 2 requests, 1 task | safety, deletion | holds, about 466,000 states |
| `execution_once` | as `execution` | is a plan executed by one request only? | no |
| `session_file` | 3 writers in 2 processes: an append; a save, rename or deletion; an append or update | safety, every call returns | holds, 563,674 states |
| `shell_agent` | 2 tasks, 2 runs, 3 openings, 2 mounts, in three scenes | safety, reach of runs, the indicator goes out | holds, 237,408 states |
| `shell` | one scene for each of the bench's modules | their types and properties | holds, 1,187,959 states |

Why these bounds suffice. Two calls give a call before and after every event and
both a turn's inner and last call; two responders give every race of two answers
to one call or to two. Three requests on a pool of two exceed its size, and four
acquires let one of them come back after an eviction. Three instances of two
tasks are an old instance, its successor and a stranger that takes its port;
with a limit of one every start next to a live preview evicts. For `execution`
a replay needs two requests of one plan, and so do a stale copy and a task that
two streams create; plans do not touch each other. Three writers in two processes
give a thread and a process to compete with, two appends that could lose each
other, and each other call beside an append; a lock broken twice needs three.

`shell_agent` bounds what the user and the streams do, in three scenes, and never
what the program does next: `tour` goes from one task to another and back in one
page, with runs that plan and execute; `return` leaves the page and comes back;
`talk` has a run of any kind with permissions, questions and stops. Two tasks
are one on screen and one behind, three openings an old load that answers after
a newer one. The bench's bounds are the smallest at which each hazard occurs: two
overlapping calls of everything that can overlap, one more change or turn than
the limit, two tasks, files or names where they can be confused. Some scenes leave
out what only mirrors another behaviour or multiplies it (definitions of `MCShell`):
of two streams the first plans and the second does not (`Streaming`), the first
request and the first call are of one caller (`FirstCaller`, `FirstStoreCaller`),
previews and artifacts are begun in their order, one preview's health is asked for at
a time, and a third preview comes as far as npm (`FirstTasks`, `FirstArtifact`), the first directory and the first file
clicked are the first, and after the second click the files are not read a third time
(`FirstPanel`), of two calls side by side one leaves the permission check first and the
other keeps its input and does not fail (`SideBySide`), only the first server is one of
Claude's or one that the page drops (`McpStart`), the
third call of the store comes only where the home store was not passed by (`AtHome`),
files given are of different kinds (`KindsDiffer`), two imports are not both of a
later visit (`NotTwice`), a second query comes only without MCP servers and asks
the model once (`SecondQuery`), one life calls tools of one kind (`OneToolKind`),
skills are installed while nothing else happens (`Installing`), and a start that is
looked at for its configuration is not cut short (`Booting`). The bench's
limit of two previews lets a task be started again while its server starts; three
starts are a server, its successor and a stranger. All the bench's properties are proved, and no proof uses these restrictions.

Deadlock checking is off in all of them because each system stops: the run is
over, the requests are done, the writers' calls have returned, the bound on
instances is reached, the user's openings, clicks and calls are used up.

Bounds that cut behaviour: `MaxAcquires` (acquires in all), `MaxInstances`
(instances in all), one life per request of `Execution`, one
call per writer of `SessionFile` and which one (`OpsOf`), one answer per responder, one stop_all of the pool, one
cleanup of an instance by each kind of cleaner at a time, two counted ends of an
instance's cleanup.

Fairness. `permission_redis` assumes weak fairness of `Engine`, the steps that
the event loop gives the run's own task; nothing of the users, the timers, the
stop or the 600 s limit. `sandbox_pool` assumes it of `Progress`, the lock's
holder and the providers' `init` and `stop`; nothing of the requests, one of
which may keep its lease for ever. `execution` assumes it of `Serve(r)`, the
server's own steps for a request, which the event loop runs; nothing of clients,
the planner, expiry, cancellation and crashes. `session_file` assumes it of each
writer's own steps, since threads and processes are scheduled, and of the clock
that ends its patience; nothing of `Age` or `ProcessDies`, and no call need be made. The
try for the lock file is not assumed to succeed: a waiter that always finds it
taken leaves with the TimeoutError. `shell_agent` assumes it of the loads, of a
run's own steps outside its stream, and of stops and polls: database calls and
timers come back. It assumes strong fairness of `PollGivesUp` with no live run,
since a poll that finds nothing new is made again every two seconds until its
300 s are over. It assumes nothing of the service's streams or of the user. The
bench has no liveness property and no fairness.

### Findings

- `permission_stop`: `POST /agent/stop` answers `stopped`, and the remaining
  calls of the turn that need no prompt still start: the abort is looked at
  between events, not between calls. `Tool` is the whole of a call, so the property
  excuses the call at which the stop came and is about those behind it. What does hold is `StopEndsWithTurn` and
  `NoPromptAfterStop`.
- `permission_ack`: the engine's 600 s limit leaves the row pending, so a later
  answer is acknowledged for a call that was refused. `SettledCallHasNoRow`
  says that this is the only way with SQLite.
- `preview_stopall`: a cleanup unregisters its task after an await and not its
  instance; a server restarted in between runs on unregistered, and `stop_all`
  does not stop it. `OrphanOnlyByRestart` says that this is the only way.

- `execution_once`: the interview guide says that a plan is deleted after its
  execution so that it is not consumed twice (`docs/interview_deep_dive_guide.md:420`).
  A run looks the plan up without claiming it, so two overlapping requests both
  execute it. `NoReplay` says that only overlapping ones can.

Each property has a mutant in `PROJECT.json`: a plausible mistake in the code it
is about (the operators commented as variants in the modules) that makes the
run fail.

## Proofs

All theorems hold for every value of the constants that satisfies the named
assumptions.

`RunProofs`, on approvals: from `PermissionAssumption`, `PermissionTyping`, `ApprovalSafety`,
`RowsCleared` (for the atomic store) and `Refinement`. `OnlyApprovedCallsRun` is
not inductive: between the waiter's reading an approval and the tool there are
several steps in which the row disappears. The invariant therefore follows the
approval through the row and the verdict to the outcome, and for Redis adds that
a status update on its way writes only what its responder says.
`RowsCleared` needs that nobody but the engine makes a row appear.
`StopsWithinTurn` (every tool that runs after a stop was stored belongs to the
turn of that moment) rests on `SameTurn`, which says that no turn has ended since;
`NoLatePrompt` on where the engine can be once it saw its session stopped.

`SandboxProofs`, on the pool: from `PoolAssumption`, `PoolTyping`, `LeaseSafety`,
`PoolBound`, `NothingOrphaned`, `LeasesRun`. The invariant says who holds the
lock in which state, that a lease is a busy instance, that the victim of an
eviction is idle and listed while the lock is held, and that room made by an
eviction is still there when the provider starts.

`SandboxProofs`, on previews: from `PreviewAssumption`, `PreviewTyping`, `PreviewBound`,
`CleanedStaysDead`, `OrphansExplained`, `PortsKeptApart`. Every step but the
creation of an instance is shown to be `Tidy(F)`: it takes things away, ends the
cleanups of the instances `F` and starts no process but one whose startup was
under way. What the invariant's parts need is derived once from that, and the
creation is treated by itself. `AtMostMax` needs `Space`: whoever holds the lock
has room, or awaits the end of a victim without which there is room.

`RecordProofs`, on plans and tasks: from `ExecutionAssumption`, `ExecutionTyping`, `NoPlanReplay`,
`CopiesExplained`, `TasksSettle`, `CountsFollow`. The inductive
invariant for the plans says that a spent plan has no row and is offered for ever,
that a late request finds nothing, and, from the moment on when a deletion is
under way, who may still hold a cached copy. The one for the tasks adds who wrote
a task's status last, and that what `phase` says of a run is on its task already
or is on its way there (`OnItsWay`).

`RunProofs`, on the shell's agent hook: from `ShellAgentAssumption`, `Typing`, `StreamsKeep` and `RunsReachable`, for
any numbers of tasks, runs, openings and mounts. A step of a stream changes its
own view and its own run only; that this leaves the view alone needs that a view
which is not on screen consists of its refs (`OnlyRefsLeft`), because a
`setState` of an unmounted page does nothing, and that requests and loads are
about tasks (`AboutTasks`), because a run without a task would count as active in
a view without one. `TypedStep` says once what every step but `Leave` does to
these. For `RunsReachable` the invariant adds in what order views, loads and runs
begin (`Ordered`), and, while the history is calm, how the view on screen, the
registry and the rows share the live runs (`AtHand`). Most steps only end things:
they are shown to be `Ebbs` (no run, load or entry begins, and the holder of a live
run keeps it), and that `Ebbs` leaves both as they are is proved once; the steps
that begin something are treated one by one.

`NodeProofs`, on the SDK's hooks: from `HooksAssumption`, `HooksTyping`,
`HooksAsked` (a tool ran only after every hook registered when its call began, and
matching it, was asked and none had blocked; where a matcher threw, the hooks before
it were asked, and their blocks are lost), `OneResult`. The invariant says for
each call which hooks it has been asked, whether one blocked, and what it has told.
Since calls run side by side, `OthersStay` is what one call's step leaves of
another's.

`NodeProofs`, on the Node API: one theorem for each of its modules, that their
types and all their safety properties hold.

| theorem | from | what the invariant adds |
|---|---|---|
| `StartsFollowed` | `PageAssumption` | the calls under way, with the click they come from |
| `StreamsEndAsPromised` | | per stream: where its generators are, what it may still send, and that its session is on file exactly while they run (`StreamInv`) |
| `ApiBoots` | `BootAssumption` | a signal that came in time has a cleanup under way (`LifeInv`), what a sync has told so far (`ConfInv`), which part of a skill's copy is there (`SkillInv`) |
| `ProvidersAgree` | `ProvidersAssumption` | for every call where it is between two awaits and what it may have done to its type's entries (`Stages`, `Alone`), and what the manager, the loader and the page each know of a switch |
| `PreviewsHold` | `PreviewAssumption` | who starts or runs is in the table or was pushed out by a named overlap; ports are taken by who has them; a health check under way belongs to an instance whose start is over (`ChecksAreOver`) |
| `PluginsHold` | `PluginsAssumption` | slots hold instances of their type (`SlotsFit`), a type not crossed has one call (`OneCall`), pooled sandboxes fit the leases, and until something overlaps the pool is no larger than its limit or the leases (`PoolCalm`) |
| `LoaderFollows` | `PluginsAssumption` | a change of a file is still to be told, timed or loaded (`WasTold`), and what a load found out is what the module cache has (`Promises`); for the loader alone, since the registry's own calls register types without files |

`ShellProofs`, on the right sidebar: from `PanelAssumption`, `PanelTyping`,
`FilesShown`, `LastClick`, `ItemsShow`. The invariant for the clicks says that of
all loads of contents only the last click's is not aborted and that an item of the
tree has one load at most; the one for the directory that only the last effect's
read can still answer, that it is about the current directory and version, what
the cache holds, and that a list waiting to be rendered, with no read under way, has
every file the page was told of (`QueuedOf`).

`ShellProofs`, on the settings: `ModelsHold` (from `ModelsAssumption`), `McpHolds`
(`McpAssumption`) and `SettingsHold` (`SettingsAssumption`). `ModelsInv` adds that a
provider's id is never used again and which dialog a connection test belongs to.
`McpInv` says that of the page's requests the newest carries the list shown, with the
servers a run can use, and only the oldest writes. `SettingsInv` says, until a failure or an overlap muddles them,
that memory, rows and local storage have what the user asked for or a save under way
will write it, row by row (`SavedOrSaving`), and the same of the backend and its
syncs (`ToldOrTelling`).

`ShellProofs`, on the task store: `StoreHolds`, from `StoreAssumption`, of all four
properties of `ShellStore`. `BornInv` says that what is listed, stored or worked on
has been created; `WritesInv` adds to `WritesStay` that the copy an IndexedDB update
is about to write back is the row, unless another call wrote it (`CopyIsRow`);
`RowsInv` that rows without a task wait for a call that deletes them. For the list,
`ListShown` names the call that will mend each difference from the store (`TaskFits`:
a list still to be loaded, a deletion or a new value still to be shown), and
`CallsTell` says that what such a call holds is what the store has.

`PageProofs`, on the shell's pages: one theorem for each module, that its types and
all its safety properties hold.

| theorem | from | what the invariant adds |
|---|---|---|
| `FilesListed` | `FilesAssumption` | what a run found is saved before it is over; of the lists being read the last begun is about what the page shows (`FitsPage`), or none is and the list is complete (`FileListInv`) |
| `ArtifactsShown` | `ArtifactsAssumption` | an effect has one load; a load belongs to the effect there is and to the artifact chosen, or outlived its effect and was counted among those (`LoadFits`) |
| `SkillsPageHolds` | `SkillsPageAssumption` | what imports made is there and no other's (`MadeInv`), a button waits for a request of this visit, and each folder an import was told to have made is in the list, or in what the load under way has read or has left to read (`PageWillShow`) |
| `ComposerHolds` | `ComposerAssumption` | the input, the files being read for it, the submit on its way and the messages sent are apart from each other (`InputApart`, `SubmitApart`, `MessagesApart`), nothing is lost between them (`AllKept`), a written row has a reference to each file |
| `TranscriptHolds` | `TranscriptAssumption` | calls are numbered as they are made, and while every run before got all its results, so are the results (`NumbersCalls`, `NumbersResults`) |

`TranscriptHolds` is about what the page computes from the messages at every
render, and most of its proof is an induction over the messages kept: what the
groups made of the first `k` show is what the page is to show of the first `k`
(`GroupedTo`), text by text and call by call, with the text last shown
(`TextSoFar`) and the number of calls so far, by which the page finds a result.
That the result found is the call's own needs what the invariant adds, since in the
code nothing but the order relates the two.

`SdkProofs`, on the rest of the SDK: one theorem for each module, that its types and
all its safety properties hold.

| theorem | from | what the invariant adds |
|---|---|---|
| `ConversationsHold` | `EngineAssumption` | a conversation is made of prompts, replies and their results in turn, and what `normalizeMessagesForAPI` makes of one is paired whatever was cut off it (`PairsOf`, `EndsOpen`, `Grouped`); what runs belongs to the reply at the end; a query's prompt, or the summary that took its place, stays in what the engine and the agent hold (`Stays`, `Keeps`) |
| `ToolStoresHold` | `ToolsAssumption` | every remembered id is at most its store's counter (`BookInv`), a mailbox and what was read of it are in the order of the calls (`MailInv`), who is in a worktree has it on file (`TreeInv`) |
| `SessionCallsAdd` | `JobsAssumption` | where no two calls overlapped, the file, the copy a call loaded and what the call is to make of it agree (`WrittenInv`) |
| `SkillsAlwaysFound` | `SkillsAssumption`, `NoSkillAssumption` | all aliases of an uncontested skill lead to it and no other alias does (`OwnAliases`) |
| `CacheKeptInLimits` | `CacheAssumption` | paths are distinct and the bytes are the total of the entries |
| `WireAlwaysPaired` | `RetryAssumption` | after every message but a last reply the results come at once (`PairedAt`) |

What is computed over a whole conversation or cache is a loop there (`Loops`), and the
invariants say what one more message or one entry less makes of it. `PageProofs` begins
with the facts that this needs: a loop over `Append(s, e)` is one step more, a loop that
adds up may leave out an element, and what the elements picked from a sequence are.
They rest on induction as a fact about sets of numbers (`AllNats`, from the library's
well-foundedness of `<`), which needs no operator as a parameter.
The proof of `SkillsAlwaysFound` found a mistake of the model: `SkillsAreFound` excuses
skills that share an alias, and did not count a skill registered with an alias that
another one still lists when a third has already taken it out of the alias map. It
takes five calls to see this, and the run makes three.

`BenchProofs`: `SettingsAreKept`, `ApiIsKept`, `SdkIsKept` and `ShellIsKept` say of the whole bench
what is proved of its parts. A step of `MCShell` is shown to be a step of each part or
to leave its variables alone (`ProviderStep`, `PluginStep`, ...), so each part's
invariant is one of the bench, and `SettingsKept` and `ApiKeeps` follow from their
conjunction; for the SDK and the other components of the shell, the bench is shown to
implement each part's specification (`EngineRuns`, `StoreRuns`, ...).

`RecordProofs`, on transcripts: from `SessionAssumption`, `SessionTyping`,
`MutualExclusion`, `NoAppendLost`, `NoSaveLost`, `NothingComesBack`. `Held` says
that under `Calm` whoever is inside owns the lock file; it needs `Phases`, which
ties the place of a call to its kind and says that only an old lock file is
broken. For what is kept, the invariant adds what a writer about to write has
loaded (`Based`) and that a migration finds no transcript to overwrite (`Fresh`);
an excuse, once there, stays (`ExcusedStays`). For what is deleted, `Buried` says
where its messages can still be: in the file while it is listed for removal,
and nowhere, a reader's copy included, once the deletion has returned; `Tokens`
says that a message exists only after its writer wrote it.

Model-checked only: the liveness properties (`DeadlineSettles`, `StopEndsRun`,
`AcquireReturns`, `StopReturns`, `ExecutedPlanIsDeleted`, `CallReturns`,
`IndicatorSettles`), which TLAPS cannot prove, and the four properties that the code
violates. Every other property of the runs is stated by a theorem.

## Not modelled

`PROJECT.json` lists every component with the reason. In short:

- Python: the sandbox manager and registry (the Node API's originals are in
  `NodeProviders`), the sandbox and model providers, the rate limiter, the npm
  process of a preview and the hand-out of its URL, the files that `POST /agent`
  records, the one-shot routes, metrics and settings. The engine's loop,
  compaction, retries and file cache are modelled where they were ported from
  (`SdkEngine`, `SdkWire`, `SdkCache`).
- Shell: the pages that only render and call (home, library, left sidebar, about
  and general settings), a document viewer's modes, and three components that
  nothing uses (`VirtualComputer`, `layout/right-sidebar`, `AgentMessages`).
- Node API: how a plan is read out of a text beyond what `NodeAgent` needs,
  one-shot chat, the sandbox server, the file routes but for those of the skills.
- SDK: the tools that do I/O of one call (grep, language server, context).

Most of the lines that no module maps are JSX, styles, texts for people and models,
and type declarations. No property is stated of a status that is answered late and shown for another task
(`useVitePreview.ts:106`), which `PreviewPage` has and nothing in the code prevents.
Two hazards have no property: what `stop_all_providers` does
to a request that waits for a pool's lock (`sandbox/manager.py:222`), because the
manager is not modelled, and two streams of one task that share
`_task_tool_use_context` (`api/agent.py:204`), because `Execution` abstracts tool
events to one.
