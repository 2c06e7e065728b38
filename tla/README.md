# EAgentBase in TLA+

Specifications, model-checking runs and proofs for the agent backend in `src/`: a FastAPI service
that runs LLM agents over sessions kept in Redis. All modules are in this directory; `PROJECT.json`
lists the components, runs, mutants, hazards and theorems, and maps each definition to the source
lines it stands for.

    tlc -workers 2 -config LockTimely.cfg MCRunLock.tla     # a run
    tlapm RunLockProofs.tla                                 # the proofs of a module

The service is one asyncio event loop per process; several processes may share one Redis. So code
between two awaits is atomic, every await is a point where other tasks, other processes, a
cancellation or a failure come in, and a Redis command or Lua script is atomic in Redis while its
reply may come late, or never. The modules take their step size from that.

## 1. Inventory

Paths are relative to `src/app`.

| component | code | state | operations | module |
|---|---|---|---|---|
| session run lock | `services/chat_run_lock.py`, `infra/store/redis_lock_store.py` | one Redis key per session with a TTL; per scope an owner task, a heartbeat task, `_heartbeat_error` | enter, leave, extend, release, fallbacks without Lua | `RunLock`, `SessionLease` |
| chat service | `services/chat_service.py`, `services/chat_event_processor.py` | `_active_cancel_events`, the frame of `stream_chat`, the chain of background writes | `stream_chat`, `cancel_run`, listener start and stop | `ChatRun` |
| chat route | `interfaces/http/routes/chat.py` | the monitor task, the cancel event | stream, disconnect, close | `ChatRun` |
| agent loop | `core/loop/agent_loop.py`, `core/runtime/agent_runtime.py`, `core/hooks/` | turn counter, conversation, tool tasks, cancel event | stream and retry, prepare, gather, report, hooks | `AgentLoop`, `LoopContract` |
| child runs | `infra/tools/task_tool.py`, `services/child_agent_runner.py` | a lock per child, child context, child summary, run record | Task call: new child or resume | `ChildRun` |
| context window | `core/runtime/context_builder.py`, `context_summary_planner.py`, `context_history_view.py`, `redis_session_store.py` | message list, summary state with cached offsets, dirty flag | read, repair, prune, summarize, append | `ContextWindow`, `MessageRepair` |
| plan tools | `services/task_service.py`, `infra/tools/plan_*_tool.py`, `redis_task_store.py` | hash of tasks, counter | create, update, delete, get, list | `TaskBoard` |
| session store, run records, session service | `redis_session_store.py`, `redis_run_store.py`, `redis_store_transaction.py`, `core/models/run.py`, `services/session_service.py` | the hash of a session, messages and marks per context, three indices, a hash per run with a TTL | create, read, append, terminal updates, lapse | `SessionStore`; statuses in `ChatRun`, `ChildRun` |
| cancel bus, run control | `redis_run_cancel_bus.py`, `services/run_control_service.py`, `routes/runs.py` | a Redis channel, a listener task, a pubsub object, a pool of two connections | read the record, cancel, publish, listen, shut down | `CancelBus`; `CancelRun` in `ChatRun` |
| MCP client manager | `infra/tools/mcp_client_manager.py`, `mcp_adapter.py` | a thread with its own loop, a lifecycle task, contexts of each connection, tools | start, discover, call, close | `McpManager` |
| bootstrap | `bootstrap/container.py`, `bootstrap/factory.py`, `main.py` | which parts are started, two Redis clients | create, startup, close | `Container` |
| session deletion, tool results | `services/session_cleanup_service.py`, `redis_tool_result_store.py`, `core/hooks/persist_large_tool_result_hook.py`, `infra/tools/query_tool_result_tool.py` | the place in the cascade with what was listed; bodies and index of results | delete, persist, query | `SessionStore` |
| profiles, skills, scripts, model adapter, ports | remaining directories | read at start, or none | load, run, wrap a library | not modelled |

How they interact. The route starts `stream_chat` and consumes its generator; a monitor task sets
the run's cancel event when the client is gone. `stream_chat` enters the lock scope, creates the run
record, writes the user message and consumes `AgentLoop.run`, handing each event to the event
processor, which appends messages in a background chain of tasks. The lock's heartbeat cancels the
owner task when it loses the key. The loop calls the model through `AgentRuntime` and runs the tools
of a turn with `asyncio.gather`: parallel plan tools share the session's task hash, parallel Task
tools share child contexts. `ContextBuilder` reads the history at the start of a run and may write a
summary before the user message. A cancel reaches a run through the in-process event, or through the
bus when the run lives in another process. The container makes all parts; making it blocks the
process until the MCP manager has started or failed, and closing it closes listener, manager and
Redis clients, one behind the other. All of them meet in the keys of a session: every part writes its
own, each found through an index, and `delete_session_cascade` reads the indices and deletes what
they list, without the lock.

What is hard, and what each part has to guarantee:

* **lock**: time. The promise is mutual exclusion among runs of a session, kept by a heartbeat that
  can be late, fail or be cancelled together with its owner. Correct: timely runs never overlap,
  only the owner or the TTL frees a key, no heartbeat outlives its scope, a loss is noticed.
* **chat run**: six ways to end (answer, failure, cancel, disconnect, lost lease, and a server that
  cancels the task) race over one record, one history and one stream. Correct: those three agree, the
  record is written once, the terminal event comes last and after the release, nothing is written
  without the lease. What the last two ways leave open is stated in the properties and in section 5.
* **agent loop**: failures inside a turn. Correct: every call is answered exactly once before the
  model is asked again, history and conversation are the same, a cancelled run starts nothing new.
* **child runs**: parallel calls on one child. Correct: whole runs follow one another in its
  history, a listed child can be resumed with its type, what the master hears is what is stored.
* **context window**: two readers of one window (cached offsets, full scan) and a history that
  interrupted runs tore. Correct: both agree, nothing that was said is forgotten by
  compression but what pruning and repair take out, each request is well formed, only old rounds are
  summarized.
* **session store, deletion**: some thirty commands of several actors on keys of which some lapse and
  some do not. Correct: each key can be found by a deletion, a deleted session holds nothing it had
  but its plan, every record lapses, a preview leads to its result; and exactly which keys are exempt
  when a deletion meets a run.
* **plan tools**: read-modify-write of whole tasks over several commands. Correct: mirrored
  dependency lists, fresh ids, a deletion that lasts. Only part of it holds in parallel.
* **MCP manager**: two threads, two event loops, and contexts that only the task that entered them
  may leave. Correct: contexts are left in reverse order, whatever raises; a start has an outcome if
  the servers answer or are under a limit; a close ends; a stopped loop leaves no task waiting.
* **cancel bus**: publication without memory. Correct: while the listener listens, a published
  cancel reaches its run, and no listener survives or follows the shutdown.
* **container**: parts that start and close behind one another. Correct: a close without an
  exception has given back everything, and no client is closed under a part that uses it.

The `hazards` of `PROJECT.json` name the line where each of these bites and the properties aimed at
it. A hazard without a property has a note with the reason.

## 2. Modules

| module | what it is | uses |
|---|---|---|
| `SessionLease` | abstract: a lease per session that at most one run holds | |
| `RunLock` | the lock scope, its heartbeat, Redis and time | implements `SessionLease` |
| `RunLockProofs` | theorems about `RunLock` | extends `RunLock` |
| `ChatRun` | `stream_chat` with processor, route and stores, over the abstract lease | `SessionLease` |
| `ChatRunProofs` | theorems about `ChatRun` | extends `ChatRun` |
| `LoopContract` | abstract: what consumers of a run's events rely on | |
| `AgentLoop` | the loop with model call, hooks and parallel tools | implements `LoopContract` |
| `AgentLoopProofs` | theorems about `AgentLoop`, and the refinement | extends `AgentLoop` |
| `ChildRun` | Task calls and the child runner; its child loop ends as `LoopContract` allows | |
| `ChildRunProofs` | theorems about `ChildRun` | extends `ChildRun` |
| `MessageRepair` | pure: how a history becomes a request, what is pruned | |
| `ContextWindow` | the history, its summaries and the runs that read and write them | extends `MessageRepair` |
| `ContextWindowProofs` | theorems about `ContextWindow` and `MessageRepair` | extends `ContextWindow` |
| `TaskBoard` | plan tools over the task hash | |
| `TaskBoardProofs` | theorems about `TaskBoard` | extends `TaskBoard` |
| `SessionStore` | the keys of a session, their writers, TTLs and the deletion | |
| `SessionStoreProofs` | theorems about `SessionStore` | extends `SessionStore` |
| `McpManager` | the MCP manager, its loop thread and lifecycle task, tool calls | |
| `CancelBus` | cancel requests, the Redis channel, the listener and its shutdown | |
| `Container` | create, startup and close of a process | extends `McpManager` and `CancelBus` |
| `ContainerProofs` | theorems about `Container` and the two modules in it | extends `Container` |
| `MC*` | constants of the runs | |

### RunLock

`owner[r]` is the place of the owner task in `__aenter__`, the body and `__aexit__`; `hb[r]` that of
`_heartbeat_loop`; `release[r]` that of `_release_lock`. Redis applies a command in one step and the
caller sees the reply in a later one, so `Acquire` and `Enter`, or `HbExtend` and `HbGoesOn`, are
two actions, and a cancel may fall between them (`AcquireInterrupted` leaves a key behind without an
owner). `Tick` advances `age` and `timer`; an owner that was granted the lock and a heartbeat
stay in a place at most `Patience` ticks, the due time and `MaxLate`. Whether the TTL covers that
lateness is a matter of the constants: in `LockTimely` it does, in `LockLive` it does not. The
Lua scripts are one step; with `"script"` they raise, applied or not, and the GET/DEL or GET/EXPIRE
fallback runs as two. `cancelReq` is a `Task.cancel()` that is not yet delivered; `shielded` and
`cleanupCancelled` are the loops around `asyncio.shield` in `__aexit__`, which absorb a cancel and
re-raise it at the end.

### ChatRun

`run[r]` is the frame of the generator: its place `pc`, whether the store call it waits for has
taken effect, the pending cancel, the outcome found so far, the queued background messages. A store
call is two steps, the effect and the return; `"store"` lets it raise in either. `ChainStep` is the
write buffer, `BeatFails` the heartbeat that cancels the owner, `LockLapses` the TTL under a stalled
process, `Disconnect` and `MonitorSees` the client and the route, `CancelRun` a cancel from inside
or through the bus. `TaskCancelled` is the server that cancels the task of the request (`"kill"`,
`routes/chat.py:75`), once per run at most (`killed`): it has the cancel event unset, so that no
handler stops it and `stream_chat` writes no terminal state on its way out. If it hits a yield, the
route closes the generator; the write chain is then not awaited, and what it stores behind the
release of the lock is `Stray`. `AcquireFails` is an acquisition that raises or is cut, with or
without the key being set. The lock is the `SessionLease` that `RunLock` is shown to implement, with a
lease that lapses in one tick: when it may lapse is the question of `RunLock`, what then happens the
question of `ChatRun`. A lock that its run could not give back lapses behind it whatever the faults
(`LeftLockLapses`). Text deltas change no state and are part of the step that yields next.

### AgentLoop and LoopContract

A step goes from one await of the generator to the next. A tool call is one of four kinds (arguments
that are no JSON, unknown tool, refused by a hook, to be run), a tool that runs ends in one of five
ways, among them the `CancelledError` that `gather(return_exceptions=True)` hands over as a result.
`talk` is the conversation the model sees, `events` what was yielded; `Stored` says what
`ChatEventProcessor` writes for them. `SetCancel` sets the event at any time, `Kill` cancels the
consuming task, `KillGather` does so during the gather, whose tools then end one by one.
A chunk may also come when the event is set, since what the text guard holds back is passed on
without a look at it. `LoopContract` gives the consumers' view: one start, calls that are announced
and then answered once each, one end. It sees every event with the calls it names (`heard`) and works
out from them alone which calls are owed a result, so an event that is missing, doubled or out of
place violates `Permitted`, and none is a stutter. `AgentLoop` implements it with its own events
(`Heard`, each with its `Signal`). The contract has a `Raise`, which the docstring of `run` denies
(section 5). A turn that asks for
tools asks for one at least (`ToolTurnsAssumption`), and a turn has one attempt at least
(`BoundsAssumption`; the retry count of the settings is not negative).

### ChildRun

`call[c]` is the frame of `TaskTool.execute` and `ChildAgentRunner.run`, `holder` the in-process
lock of each child, `record`, `context` and `summary` what is in Redis. The agent loop of the child
is reduced to its end and the messages it leads to. A store call (`Store`) returns, or raises
with or without its effect; a ValueError is told apart because the code lets it pass its handlers.
`ResultIsStored` speaks of the last message that a call has in the context of its child: with a
success it is the answer.

### ContextWindow and MessageRepair

A message is known by its position. `covers` of a summary message are the positions it is made of:
`older_history_records` (`Older`), what repair and pruning leave before the border, and no more. What
may be in no summary is `Expendable`: the hidden message of a skill and the results of
`query_tool_result`, which pruning removes, and a message of calls without a text, which is dropped
with them or by repair. Everything else has to be in the window or in a summary.
`RangedWindow` is the read from cached offsets, `FullWindow` the scan by ids. `Records` is
`_normalize_tagged_messages_with_repair_meta`, message by message along the window, `Pruned` the
planner's view of the old part; what a filter leaves is given by the places it keeps (`Only`). The actions of a run are its Redis commands: read the summary state, read the
window, `llen`, push and save a summary, mark dirty, push user message, calls, results, attached
skill message and answer. A run can end after each of them. The histories a context may start with (`Seeds`) are those that
runs one after the other write without a summary: each result answers a call before it, no call has
two, and no round starts between them (`SeedsAssumption`).

### TaskBoard

A tool call is a sequence of Redis commands with the tasks it read in local variables, written back
whole. `tasks` is the hash: a function on the ids it has. Of a task only the dependency lists are
kept. A request names the dependencies it adds, what the task blocks before what blocks it; those the
task has already make no difference and are left out of it. The tasks that name a deleted one are
saved in any order, as HGETALL has none. `seen` remembers overlapping calls, refused
ones and repeated arguments, so that a property can say when it holds.

### SessionStore

The variables are the keys of one session: `session` its hash, `messages` and `marks` (dirty flag,
summary state) of the main and each child context, `record` the hash of each run, `results` the
bodies of results, `runIndex`, `children` and `resultIndex` the indices. `run[r]` is where a chat
request or a child run is and which results it knows, `del` where the deletion is and what it has
read. An action is one Redis command or one MULTI, so `append_child_message` is two
(`Register`, `PushChild`), as are its summary and its dirty mark, the deletion of results three, and a
record with its TTL and index one.
A run may end at every place: by its terminal write, an exception, a cancel, or with its process
(`Crash`). A second request is refused at the lock (`Enter`); the deletion takes no lock. It may be
interrupted anywhere and called again. `Lapse` is a TTL. What runs on the way to a Task call or an
answer is left out: `ChildRun`, `ChatRun` and `AgentLoop` have it. Ghosts: `late` are the keys written
while a deletion goes on or when the session is gone, `early` those of runs cancelled before their
entry: the record of a run that was not created, the hint of a child that was not registered; `torn`
that a deletion has met a run, `missing` that a query failed without that. `plan` says whether the
counter and the hash of the plan are there (`CountTask`, `PlanKeys`); no step of the deletion touches
them (section 5). Left out are three writes that come behind an end, which the other modules have:
that of a cancel behind the completed record of a child, that of a request that has lost its lock, and
that of the write chain of a request that the server has cut.

### McpManager

`mgr` is where the main thread is in `from_settings`, `start` and `aclose`; `life` the place of
`_run_lifecycle` with the server it is at, a pending cancel and whether it will raise; `ctx` the http
client, transport and session of each connection, each not entered, open, or torn by an exit that
raised; `thread` the loop thread. `started` is the future that `start` waits for, `signalled` the
close event. The manager's tasks meet the SDK at their awaits: entering and leaving a context
returns, raises or is cut. A configuration file is a sequence of servers with the limits that decide
something (`startup_timeout_seconds` covers the opening of a stdio server, `timeout_seconds` each
request of a session) and the request at which the server falls silent.

### CancelBus

`listener` is the task of `_listen_cancel_messages`, `pubsub` the object of the bus with its
connection and subscription, `channel` what was delivered and not yet read. The module follows one
process; a request that arrives away only publishes. Of a run it keeps what cancelling looks at: the
registered event and the status in the record. A run looks after the listener before it asks for the
lock (`RunArrives`) and registers its event behind it (`RunEnters`), so the listener may have ended
in between. `leaked` counts connections of pubsub objects that
nobody closed, since they are missing in the pool of two.

### Container

Composes the two along `create`, `startup` and `close`. The main event loop, and with it listener,
runs and requests, stands still while the main thread waits for the MCP thread (`Blocked`): `start`
and `stop` are synchronous. The server may begin to close while requests unwind, when its grace
period is over, so runs and requests go on during the close.

## 3. Runs

Each passing run checks properties for which a mutated definition of the same module, listed under
`mutants`, makes TLC find a violation.

| run | asks | bounds |
|---|---|---|
| `LockTimely` | can timely runs overlap or lose a lease, and do they implement the abstract one? | 2 runs, 1 session, TTL 8 ticks, interval 4, lateness 1 (the largest with 4 + 3·1 < 8), failing commands, cancels |
| `LockLive` | is a lost lease always noticed, does every exit end, its heartbeat first? | 1 run, TTL of 4 ticks, interval 2, lateness 2, so a lease can lapse; every fault, fairness |
| `ChatStoreFaults` | do history, record and events agree? | 2 runs of 1 message beside the user's and the last competing, every store call may raise, the server may cancel the task of one of them (`OneCut`) |
| `ChatLive` | does every request end? | 1 run, 3 messages, every fault, one cancel by the server |
| `ChatFailedWithAnswer` | finding, section 5 | 1 run, the heartbeat only |
| `AgentLoop` | conversation, events, cancel, contract | 2 turns, 2 attempts, 2 chunks, 3 shapes of a turn |
| `ChildRun` | children in parallel | 2 calls, one old child, 2 types, 1 message, 1 fault, cancels |
| `ContextWindow` | histories over two runs | 4 seed histories of 2 or 3 rounds, 2 runs, 17 messages |
| `SessionStore` | which keys does no index list, which outlive a session, do records lapse, do previews resolve? | 1 request with 1 Task call, 1 child and 1 result, from earlier runs or new, 2 deletions of a session with a plan (`Planned`); of the sessions that are there already only those with a result (`MCInit`) |
| `TaskCalls` | plan tools in parallel | 2 callers, 2 tasks, 2 edges a call |
| `TaskResurrected` | finding, section 5 | 2 callers, 2 tasks, 1 edge |
| `Container` | is everything given back, do start and close end, do cancels arrive? | 10 configuration files of up to 3 servers, 1 tool call, 1 run, a cancel request here and one away, a pool of 2, 1 fault anywhere |

Why the bounds are enough. Sessions share nothing but code, so one session with two contenders has
all conflicts over a lock, a history, a child or a task; a third contender only repeats the role of
one of them. A run enters a scope once, hence two runs are also "a run and its successor". One
message behind the user's, in `ChatStoreFaults`, can be written at once, late, never, or behind the
release of the lock, beside everything the other run does, which the server lets end (`OneCut`; what
two such requests leave behind is exempt for both); three in `ChatLive` let one be written, one
be under way and one be queued. A second cancel by the server meets a generator that is on its way
out already, where the first has been delivered or not: `RunLock`, whose `TaskCancelled` may come
again, has it for the scope. Two turns have a turn behind a turn, the bound on turns and a cancel
between them; two calls in a turn have a first, a last and a parallel pair. A scope sees of other
runs only that the key is no longer its own, which its TTL alone brings about in `LockLive`.
`ContextWindow` needs a third round to summarize anything and a second run to summarize a summary; its seeds are histories
the code writes (a complete tool turn, one with an attached skill message, one interrupted, plain).
One fault in `ChildRun` falls at each store call in turn, in the first call or the second.
In `SessionStore` one session is all a deletion looks at, and it is indifferent between runs of one
kind: one master and one child run have every kind of key and every order of a write with a listing
and a deletion; the first deletion may be interrupted, the second finds what it left. A second master
run on the same session would be the one that is refused, and one behind the first meets what earlier
runs have left, which `Init` has: children, results and a plan, and the hint of a child that was never
registered. A session without an earlier result gets one from its run, so those that have one stand
for them; one without a plan has two keys less that only the deletion could know of. The theorems of section 4 hold for any number of all of these.
In `Container` two enabled servers are needed for an order, a disabled one between them for a gap; a
file for each request at which the second server can fall silent, with a limit or without, one for
missing and one for equal tool names. The parts share only the blocked loop and the order of the
close, so one run, one call and one fault meet each other in all places; a publication, a leaked
connection and a new subscription exhaust the pool.

The type invariant of `RunLock` is checked by a run and proved; those of the other modules with
theorems are proved as the base of these.

`SYMMETRY` permutes the runs (`LockTimely`, `ChatStoreFaults`) or the callers
(`TaskCalls`), which the modules treat alike; no liveness property is checked under it.
`CHECK_DEADLOCK FALSE` is in every cfg because requests, scopes and calls are one-shot: when all
have ended, or a bound on ids, turns or messages is reached, there is no next step. That they do end
is what `EveryRequestEnds`, `ExitEnds`, `RunEnds`, `CallsReturn`, `StartEnds` and `CloseEnds`
check.

Fairness is weak and only on what the event loop and Redis do by themselves: a ready task gets to
run, a command is answered or raises, the clock goes on (`RunLock`), the client that stays reads its
stream (`ChatRun`), a stream of the model ends (the adapter has a timeout), a tool ends
(`AgentLoop`), a child's loop ends, which is `RunEnds` (`ChildRun`), the exit of a context ends and a thread or task
that can go on does (`Container`). Nothing is assumed about faults,
cancels, disconnects, or that a body of a scope, a request or a silent server ends.

Ghost variables. `failed` in `ChatRun` (a store call of the run raised; `killed` is one too, but for
the bound of one cancel), `seen` in `TaskBoard`,
`ContextWindow` and `ChildRun`, `asked` of `CancelBus`, and `late`, `early`, `torn` and `missing` of
`SessionStore` are read by no action but to keep them; they name the conditions under which a property
is claimed.

## 4. Proofs

Eight modules hold theorems. All are about the same definitions that TLC checks, for every value of
the constants that the named assumptions admit. The invariants they rest on have been checked by TLC
on the instances of the runs first.

`RunLockProofs` proves the following for every set of runs and sessions, every TTL, lateness and
choice of faults; `RunsAssumption`, `TimeAssumption` and `FaultsAssumption` are the assumptions of
`RunLock` about its constants.

| theorem | statement | further assumption |
|---|---|---|
| `Typing` | `Spec => []TypeOK` | |
| `TimelyLeaseKept` | a run that has not begun to leave owns its key | `Timely` |
| `TimelyMutualExclusion` | two runs of a session are never both inside | `Timely` |
| `HeartbeatEnds` | the heartbeat has ended before release and exit | |
| `OwnerFreesOnly` | a key is freed by its owner or its TTL only | `AtomicScripts` |
| `ImplementsLease` | `Spec => LeaseSpec`, the abstract lease | `AtomicScripts` |

`Timely` is `Interval + 3 * MaxLate < Ttl` with atomic scripts; other commands may fail. Three, because the age of a key
includes the reply to the command that set it, the wake-up of the heartbeat and the next command:
each may be late once. `AtomicScripts` says that no Lua call raises.

`LeaseKept` says nothing about how old a key is, so a step of `Tick` could end it: it is not
inductive. `IInv` adds, for each place of owner and heartbeat, how long it has been there and how old
the key can be: with the owner granted, no older than its timer; with the heartbeat waiting, timer
plus one lateness; extending, timer plus interval plus two. A tick keeps these because of the bounds
on the timers, and drops no key because their sum stays under the TTL. That no other run writes the
key is SET NX and the owner checks, which need `NoFallback`. `MutualExclusion` follows: two runs
inside own the same key. For `HeartbeatEnds` the strengthening `HbInv` is about places only, and so
holds under all faults. The refinement maps places to phases and shows each action to be a step of
the lease or to leave it unchanged; a renewal needs that the heartbeat's owner is still inside, which
is `HbInv` again.

`SessionStoreProofs` proves the following for all disjoint sets of masters and child runs, all
children, results and numbers of deletions (`NamesAssumption`, `BoundAssumption`).

| theorem | statement |
|---|---|
| `Typing` | `Spec => []TypeOK` |
| `OnlyLateOrphans` | a key that no index leads to is late, or a record or hint that is early |
| `NothingIsLeft` | when the hash is gone, every key that is left is late or early, or one of the plan |
| `RecordsAreBounded` | a record without a TTL is partial, and stands where one lapsed, was deleted, or never was |
| `PreviewsAreKept` | until a deletion meets a run, previews and queries find their results |

The first three need to know what a deletion has read and what a run may rely on. `IInv` says for the
runs: one behind its record is in the index, and a child run behind a registration, be it for its
summary, its dirty mark or its input, has a listed child. For the orphans: while the session is not
deleted, the messages of a child without an entry are early and it has no marks, and a record or
result without an entry is early (a result: or late).
For the deletion, stage by stage: what it has read covers all but excused keys, and what it has
passed is gone but for excused keys. A step of a run only adds to the indices and names the keys it
writes (`Grows`), each of which is late if a deletion goes on; `DeletionKept`, `OrphansKept` and
`RunsKept` use nothing else, and `RunStep` puts them together for all actions of runs. A stage of the
deletion clears what it read and spares the other keys, which `KeysDiffer` tells apart. For
`PreviewsAreKept`, `PInv` adds that messages and frames name held results only, that a context
without an entry names none, and that a deletion that has met no run has passed no context that still
names one; so when it comes to the results, nobody names them.

`ChatRunProofs`, for all runs, sessions, numbers of messages and choices of faults (`RunsAssumption`,
`StepsAssumption`, `FaultsAssumption`):

| theorem | statement | further assumption |
|---|---|---|
| `Typing` | `Spec => []Typed`: types, and frames that a run can have | |
| `CompletedAreWhole` | the history of a completed run has every message of its loop | |
| `RunsEndTerminal` | a created run that is over has a terminal record, unless a store call raised or the server cancelled its task | `Steady` |
| `EventsAreSettled` | a terminal event is backed by the record, and the lock is free, unless a store call raised | `Steady` |
| `RecordsAreFinal` | no step rewrites a terminal record | `Steady` |
| `WritersHoldTheLock` | only the holder of the lock writes to the history, but for strays | `Steady` |
| `HistoryIsSerial` | the messages of a run stand together, but for strays | `Steady` |

`Steady` is that the lock keeps its promise: no heartbeat fails over a lock that nobody has taken
(`"beat"`) and no TTL runs out under a run (`"lapse"`). Store calls, clients, cancels and the server
may fail and come as they like; a stray is a tool message of a run that the server cut (`Stray`). Without it three of the statements are false, as section 5 says of the
heartbeat; that timely runs have it is what `RunLockProofs` shows. `SteadyInv` has a part for each piece of
state the frame of a run must agree with: its lock scope (`PhaseInv`, `HoldInv`: inside, it holds the
lock), its record (`RecordInv`), what is on its way out (`ExitInv`: an exception, or a terminal
status), the write chain (`ChainInv`: empty but in the loop, behind a close, or behind a kill), what was emitted
(`EmitInv`) and the history (`LogInv`: a run that may still write has the last message or none).
`RecordsAreFinal` needs that the late persist of the `finally` runs only where nothing terminal is
stored, which is `Bare` in `RecordInv`; `HistoryIsSerial` that a message is appended behind one of
its own run, which is `LogInv`. `CompletedAreWhole` is free of `Steady`: `StepsInv` counts the messages
that are stored and queued against those produced, in every place and under every fault, and what
loses one sets `bufErr` or leaves the way to `completed`.

`TaskBoardProofs`, for all callers, ids and lengths of a request (`BoundsAssumption`):

| theorem | statement |
|---|---|
| `Typing` | the hash and the copies in the calls are tasks over ids that were given out |
| `FreshIds` | no two creations have one id, and none overwrites a task |
| `AsymmetryStaysLocal` | calls one at a time, none refused and no repetition: only the task of the call under way may disagree with another |
| `SerialDeletesStay` | while calls come one at a time, only `create_task` adds to the hash |

`FreshInv` says that everything stored, or held by a call that may save it, is below the counter.
`CalmInv` holds while `seen` is empty: the dependencies mirror each other but for those of one task,
and the copies of the call under way differ from the hash by exactly the edges it has still to write
(`CopyInv`, `TargetInv`, `SweepInv`). `SerialDeletesStay` is the counterpart of `TaskResurrected`:
with overlap it is false.

`ChildRunProofs`, for all calls, types, numbers of messages and faults (`BoundsAssumption`,
`OldAssumption`):

| theorem | statement |
|---|---|
| `Typing` | types; a held lock is held by a call under way on that child |
| `ChildrenAreSerial` | the runs on a child follow one another in its context |
| `ListedCanBeResumed` | a listed child has a context, all of the listed type |
| `ResultsAreStored` | a success that the master hears of is stored, record and answer |
| `DoneAreClosed` | a call that is over has closed its record, unless its exception passed the handlers |

`IInv` adds to them who holds which lock (`LockInv`), that behind a message of the call with the lock
there are only messages of that call (`MessageInv`), that the messages of a child are of one type
(`TypeInv`), and, place by place, what a call has stored (in `Typed`).

`AgentLoopProofs`, for all numbers of turns, attempts and chunks and all turns of calls
(`BoundsAssumption`, `ToolTurnsAssumption`):

| theorem | statement |
|---|---|
| `Typing` | types; the tasks of a turn are its calls that are to be run, in their order |
| `CallsGetAnswers` | when the model is called, each call it asked for has its one result, before it spoke again |
| `StoredIsTalk` | what is stored for the events is what the model was told, and the answer the text streamed |
| `CancelStopsWork` | once cancelled, no turn begins and no tool is run |
| `ImplementsContract` | `Spec => Contract!Spec`: the events keep `LoopContract`, initially and step by step |

`TaskInv` relates tasks to calls while a turn is prepared, gathered and reported; `FlowInv` the events
to the conversation: what `ChatEventProcessor` would store for them is `talk`, and as many deltas
were passed on as the answer has chunks; `AnswerInv` says which calls of the turn are answered, in the
conversation and in the events alike. For the refinement `HeardInv` relates what the contract works
out from the events to the turn: the calls it is owed are those of the turn that `AnswerInv` has
unanswered, before a turn asks for tools its calls have not been named, and no call is started before
its preparation. A step that emits is
then a `Say`, event by event, and a step that does not is a stutter or the `Raise`.

`ContainerProofs`, for all configuration files, calls, runs, requests, sizes of the pool and numbers
of faults (`FilesAssumption`, `RequestsAssumption`, `PoolAssumption`):

| theorem | statement |
|---|---|
| `LifecycleTyped` | the lifecycle, connections and contexts stay in their types |
| `NestingHolds` | contexts are left in the reverse of the order they were entered in, whatever raises |
| `LoopIsEmpty` | a closed loop leaves no lifecycle and no call behind |
| `EverythingReleased` | a close without an exception has given everything back, and closes nothing that is in use |

`ContextsNest` compares connections pairwise and so does not say which of them are open. `OrderInv`
and `AtInv` do: the connections of the manager are a first part of the enabled servers in their order,
and the place of the lifecycle tells how long it is. `NestInv` says that the servers in front of that
place are whole and those behind it have no session; an exit that raises ends the task with a front
part still open, which is nested. `FreshInv` adds that without an exception nothing is left behind the
place, so that the end has left nothing at all; `ThreadInv` that the manager counts as closed only
behind such an end; `AppInv` that the container closes a client only when the parts that use it are
closed, and that the listener does not come back once the service is closed.

`ContextWindowProofs`, for all histories a context may start with, all numbers of runs, overlapping
or not, all tool turns and lengths of the list (`BoundsAssumption`, `TurnsAssumption`,
`SeedsAssumption`):

| theorem | statement |
|---|---|
| `Typing` | types; what the summary state and the frames refer to is in the list |
| `CheapReadIsExact` | the read from cached offsets agrees with the scan by ids whenever its checks pass |
| `NothingIsForgotten` | each message is in the window, or a known summary was made of it at some remove, or it may be left out (`Expendable`) |
| `RecentRoundsStay` | without a mishap a summary leaves two rounds of at least three |
| `RequestsAreWellFormed` | requests are well-formed and lose only calls without a text; while runs do not overlap, pruning and summarizing keep them so |

The window first. Both reads give the same sequence, the summary and then everything from its start
but the summary (`Compressed`); so `StatesInv`, that each state a run may use points at a summary and
a start in front of it, gives `CheapReadIsExact`, overlap or not. `ReachInv` says that whatever lies
before the start of a window may be left out or has a later summary that is made of it (`Stands`), and
that a run with a window has read, or has such a summary of, all that is not newer than what it has
read. That what a run summarizes is all but what may be left out is a fact about repair and pruning
(`OlderIs`). `NothingForgotten` follows because of the messages that nobody would know
the last one cannot exist: the summary that is made of it is later, no such message itself, and so
known. `RecentRoundsKept` needs
`RoundsInv`: the border of a run has a round behind it and another one behind that, and a third comes
with the user message of the run before the next one plans.

Then repair. `Sound` is what is true of records that repair has made: the calls of a record are
followed by their results, which stand nowhere else. One message of the pass keeps it (`ScanKeeps`),
and what the pass drops are calls without a text; hence `NormalizeRepairs`, for every list whose
results answer calls (`AnswerInv`). What is pruned or cut at a border leaves sound records if no result
is parted from its message there (`Straight`). That the border of a run is straight while runs do not
overlap is `SerialInv`: one run is at work, its window is that of the list, and nothing comes between a
message of calls and its results. A second run breaks it, and then the property promises less.

The next server of a file is the least of a set, repair is a recursive function, and the library
operators `RemoveFirst` and `FlattenSeq` are recursive too. What the proofs need of them is proved with
the least number of a set (`LeastNat`, from the well-foundedness of finite sets): the first place where
two definitions differ, where a scan is not defined or its records are not sound, cannot exist. What
`Only` selects is found by counting: each place that is kept has a rank, and the ranks are the places
of the result (`PlacesOf`, `OnlyIs`).

Only model-checked: all liveness properties, since fairness and `ENABLED` are out of the prover's
reach (`LossIsNoticed`, `ExitEnds`, `EveryRequestEnds`, `RunEnds`, `CallsReturn`, `StartEnds`,
`CloseEnds`, `CancelArrives`). The two violated properties of section 5 are TLC's.

## 5. What disagrees with its documentation

Two disagreements have a run that finds the trace:

* `ChatFailedWithAnswer`: the heartbeat fails while the COMPLETED record is being written. The write
  takes effect, the cancel interrupts its await, and `stream_chat` stores FAILED over it; answer
  and output stay. `chat_service.py:74` says a failed run writes no answer, and `run.py:145` rejects
  such a record when it is read.
* `TaskResurrected`: of two plan tools of a turn, an update that read a task before the other
  deleted it saves it back (`task_service.py:165`), against "permanently" in
  `plan_update_tool.py:39`.

Met on the way, without a run of their own:

* a run stores a summary and ends before its user message. The window is then the summary and two
  rounds, of which the planner keeps from the first message, which is the summary stored last, so
  the next run over the threshold summarizes both rounds, against
  `context_summary_planner.py:85` ("最近两轮（含 reasoning_content）"). `RecentRoundsKept` says what
  is kept in all other cases;
* a heartbeat loss that hits while an event is being sent closes the generator, and the record stays
  RUNNING (`chat_service.py:353`; the test at `test_chat_service.py:927` covers the loss at an await
  of the loop). `DoneIsTerminal` is therefore checked without heartbeat faults;
* the fallback without Lua is GET then DEL: the key can change hands in between and another run's
  lock is deleted (`redis_lock_store.py:119`), although line 19 says only the holder can release.
  The theorems about ownership assume atomic scripts for that reason;
* with a TTL of one second, which `config.py:64` accepts, the interval equals the TTL and leaves no
  margin;
* a terminal event is emitted although its write has failed; the properties exempt such runs through
  `failed`;
* a server that cancels the task of a request (`routes/chat.py:75` names it a race that leaves the run
  RUNNING, and shields the closing of the stream against it) does leave it RUNNING when it hits an
  await of the run: the cancel event is unset, so `chat_service.py:463` raises it on and no handler
  writes a terminal state. If it hits a yield instead, the generator is closed and the write chain is
  not awaited: a tool message can reach the history when another request holds the lock.
  `DoneIsTerminal`, and for the strays `LogSerial` and `WritesUnderLease`, exempt these runs;
* `agent_loop.py:96-98` says that `run` never throws an exception ("承诺不向外抛出任何异常"), but a
  cancel of its task without the cancel event is raised on (421-431). `LoopContract` allows it
  (`Raise`), and both consumers handle it;
* a summary is made of what repair and pruning leave of the old rounds: of an old skill message, of
  the result of a `query_tool_result`, and of a call that has no text, nothing may be left;
* a request cancelled while its context is built writes a CANCELLED record and a hint for a run that
  was never created, as `event.py:168` intends;
* an update that names a missing task raises behind the saves of earlier targets
  (`task_service.py:138`) and leaves a dependency with one side; a call that names a dependency
  twice stores it twice;
* a tool refused by a before_tool hook has a completed event without a started one; a tool that ends
  with a CancelledError is not an `Exception` to `agent_loop.py:383`, the access to its content
  raises AttributeError, the run fails and the results behind it are dropped; an attempt that failed
  after texts leaves them in the output, so that the answer holds them twice;
* while a run is live its attached skill message stands between the results of a turn, so a reader
  of that history repairs the second call with a message of its own and marks the context dirty;
  under overlap the summary of another run can split a call from its result (the condition in
  `RequestsWellFormed`);
* a ValueError passes the handlers of `child_agent_runner.py:188` and leaves the child run RUNNING,
  and so does an error of the call that creates the record, if it took effect (`DoneIsClosed` names
  both); a hint that fails to be written turns CANCELLED into FAILED; a child cancelled before its
  input has a hint in a context that no summary lists; the message a skill attaches is not stored
  for a child;
* `PersistLargeToolResultHook` drops the meta of a result; `routes/chat.py:95` uses `json` without
  importing it, so the fallback event of a failing encoding is not sent;
* closing the MCP connections stops behind the first whose exit raises (`_async_close` at 570),
  against "逆序释放所有已打开连接" at 427; a failed start cancels the lifecycle task while it closes what
  it has opened; an http client whose transport cannot be entered is left open (125); the startup
  limit does not cover the listing of tools, so a server that answers `initialize` and then nothing
  blocks the process without `timeout_seconds`, and one that always names a next page in any case;
* `Container.close` says it releases all resources (`container.py:635`), but an exception of one
  part skips the others; a start that fails in the warm-up or at equal tool names closes nothing;
* a cancel from another process is lost, although the caller was told `cancelled`, when the listener
  has not subscribed yet, has lost its connection, or has died, until the next chat request starts
  it again; `psubscribe` stands before the `try`, so a subscription that raises or is cancelled
  keeps a connection of the pool of two until the client is closed;
* `session_cleanup_service.py:29` says the cascade deletes all known keys of a session ("全部已知相关
  key"), but it leaves the counter and the tasks of the plan (`redis_task_store.py:24-28`), which no
  TTL ends: `NothingOutlivesSession` names them (`PlanKeys`), and every clean deletion of the run
  `SessionStore` leaves them behind. It also takes no lock: what a run writes behind the listing
  stays, and after the hash is gone nothing leads to it (`late`);
* a run cancelled before its record exists leaves a record without index and TTL, and a child
  cancelled before it is registered a hint in a context that no index lists (`early`); such a record, and one whose
  run outlived the TTL, has no `created_at`, so that `get_run` raises KeyError
  (`redis_run_store.py:88`) instead of saying that there is none;
* a result stored between the SMEMBERS and the DEL of its index (`redis_tool_result_store.py:94`)
  loses its entry and keeps its body.

## 6. Abstractions

Text, tokens, prompts, times and usage are left out; that a context is over the threshold is a free
choice. A run is cancelled through its event at most once, as the event never resets. At most one
client per run. Text deltas are part of the step that yields next. Closing the `AgentLoop` generator
at a yield is not modelled; `ChatRun` models the close of the generator above it. The parsing of MCP
configurations is not modelled: `McpManager` takes its outcome, and the JSONC comment stripper before
it is a pure function of one file at start. Agent profiles and skills are read from files at start;
the script tool, the model adapter and the logging wrap what is outside the service.
Resuming a child from another master run is the seed `Old` of `ChildRun`; two processes cannot share
a child while the session lock holds. The library code (redis, asyncio, litellm) appears as what the
code relies on: atomic commands, cancellation delivered at an await, `gather` and `shield`.

## 7. Plan

In the order of writing; all eleven are done.

1. `RunLock` with `SessionLease` and `RunLockProofs`: everything else relies on the lock.
2. `ChatRun` over the abstract lease.
3. `TaskBoard`.
4. `MessageRepair` and `ContextWindow`.
5. `LoopContract` and `AgentLoop`.
6. `ChildRun`, which uses what `AgentLoop` ensures.
7. `McpManager`.
8. `CancelBus` and `Container`, which composes it with `McpManager`.
9. `SessionStore` and `SessionStoreProofs`: the deletion against runs under way, results and TTLs.
10. Proofs about `ChatRun`, `TaskBoard`, `ChildRun`, `AgentLoop` with its refinement, and `Container`.
11. Proofs about `ContextWindow` and `MessageRepair`: windows, repair and pruning for every history.

What is left: the container's parts that only read at start, agent profiles and the script tool among
them, if they come to keep state; the messages behind the end of a run, which `SessionStore` leaves to
`ChatRun` and `ChildRun`, in one composition.
