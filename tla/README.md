# Phaneris in TLA+

A verification development of Phaneris (`packages/`, `apps/`), a local-first
workspace for agents. It models the parts whose correctness rests on the order
of events: what is durable, what may be lost or late, what runs concurrently.

## 1. The system

| Component | Code | State | Operations | What is hard | What makes it correct |
| --- | --- | --- | --- | --- | --- |
| Durable kernel | `server-core/src/durable-runtime/coordinator.ts`, `store.ts` | SQLite tables: `operations` (runs), `tool_operations`, `runtime_events`, `usage_ledger` | accept, prepare and commit a model attempt or a tool (T1, T2), settle, reconcile, restart pass | late and repeated outcomes, parallel tools, crashes between T1 and T2, awaits inside a reconciliation | an unknown effect is never forgotten, repeated or answered twice; a run ends once |
| Tool boundary and receipt journal | `durable-runtime/api/runtime.ts`, `receipt-journal.ts`, `shared/src/agent/pi-agent.ts` (host side), `pi-agent-server/src/index.ts` (T1 and T2 requests) | pending requests, known results, receipt files, a retry timer, draining and closed flags | request and answer T1 and T2, run a proxied tool, cancel, defer an outcome on a storage failure, flush, retry, drain, close | timeouts racing late answers, a stop between result and report, two processes writing receipts, storage that fails | an observed outcome is committed or still retained; records say what happened; a closed run lacks nothing |
| Runtime host | `durable-runtime/execution/host.ts` | per session: generation, driver, active run, queue, stop timer | begin, accept, drive, stop, finish, enqueue, steer, release | a driver that ignores a stop, observers that re-enter, inputs delivered while the run ends | one foreground run per session; a stale driver cannot settle its successor |
| Projections | `durable-runtime/projection-runner.ts`, `projection.ts` | snapshot and cursor | run once, run to the end, rebuild, prune | pruning by a worker, deleted evidence | a snapshot is the reduction of the log up to its cursor |
| Storage recovery | `coordinator.ts` 123-267, `database-maintenance.ts`, `daily-backups.ts` | database file, backups, recovery marker | open, check, recover, back up, restore | a crash between two renames | some complete database is always reachable |
| Tool scheduler | `pi-agent-server/src/tool-execution-scheduler.ts`, `index.ts` (`wrapSingleTool`) | queue, running calls, abort signals | queue a call, ask for permission, drain, T1, execute, T2, stop | permissions, ends and stops in any order, a drain that re-enters, scripts that make calls | no conflicting calls at once, first come first served, no execution before approval, no circular wait |
| Pi subprocess | the rest of `pi-agent-server/src` | ephemeral queries, pending model requests | model T1 and T2, ephemeral queries, steering | replies to queries of an earlier turn | a query is answered once and its model is disposed of |
| Task runner | `server-core/src/tasks/TaskRunner.ts` | node states of a graph, counters, run status | dispatch, complete, fail, retry, verify, repair, pause, stop | completions after a stop, verdicts racing repairs | dependencies before dependents, budgets kept, the run settles once |
| Transport | `server-core/src/transport/server.ts`, `client.ts` | per client: sequence, replay buffer, acknowledgement | push, acknowledge, reconnect, evict | reconnects while pushing, evicted buffers | each push once and in order, or an explicit stale signal |
| Session persistence | `shared/src/sessions/persistence-queue.ts` | pending and running writes per session | enqueue, flush, cancel, update metadata | debounce timers, failed writes, external edits | the last accepted snapshot reaches the disk |
| Session manager | `server-core/src/sessions/SessionManager.ts` | sessions and their messages | product operations over the host | queueing during a turn, source activation retries | each input is executed or reported |
| Automations, resident assistant, messaging, plugins, sources, session tools, artifacts, user interfaces | the remaining packages | files and connections | mostly sequential I/O | external services | out of scope, see `PROJECT.json` |

How they interact: a client sends a message over the transport; the session
manager admits it and the host begins a generation and accepts a run in the
kernel; the host drives the Pi subprocess, which asks the kernel for T1 before
every provider request and every tool and reports T2 after it, both through
the runtime API; the host settles the run when the driver ends. Projections
read the kernel's events to build the next model context. Everything in the
server process runs on one JavaScript thread, so code interleaves only where it
awaits; the subprocess, the maintenance worker and crashes are the other actors.

`PROJECT.json` lists the hazards, each at its line, with the property that covers
it or the reason none does.

## 2. Modules

| Module | What it is |
| --- | --- |
| `DurableLedger` | the tables of one workspace as variables, and the reads and the append every handler is built from |
| `DurableKernel` | one action per handler of the coordinator and per step of the restart pass; seeded faults; properties |
| `EffectLedger` | the abstract promise: effects are dispatched and answered at most once |
| `MCDurableKernel` | the constants of the runs |
| `DurableKernelProofs` | the inductive invariant, the theorems that follow from it, and the proof that the kernel implements `EffectLedger` |
| `ToolScheduler` | one action per step of a tool call in the subprocess up to its next await; the drain as the set of calls it starts |
| `DrainLoop` | the drain as the code's loop, iteration by iteration, the reference for that set |
| `MCToolScheduler` | the constants of the scheduler's run |
| `ToolSchedulerProofs` | the scheduler's inductive invariant and theorems, and the proof that the loop starts that set |
| `ToolBoundary` | T1 and T2 from the subprocess to the ledger: one action per handler of either process, two pipes, receipt files and storage that fails |
| `MCToolBoundary` | the constants of its run |
| `ToolBoundaryProofs` | the boundary's inductive invariant and theorems |
| `RuntimeHost` | the foreground of one session: one action per event of the host and of the callers in the session manager that admit, run, stop, retry and delete |
| `RuntimeHostProofs` | the invariants of its slot and the theorems that follow |
| `RuntimeHostInputs` | the invariants of its admissions, its retries and the ends of its turns, where an input is, and how many turns there can be |
| `PushChannel` | the abstract promise to one window: each event once and in order, or a word to reload |
| `PushTransport` | server and client of the WebSocket transport: one action per message, connection, loss and restart |
| `PushTransportProofs` | its inductive invariants, a client's one home, and the proof that the transport implements `PushChannel` |
| `TaskRun` | one run of a task graph: one action per await of a dispatch and per event of a child, the orchestrator, the user or the other run |
| `MCTaskRun` | the graph of its runs |
| `TaskRunProofs` | its inductive invariant and theorems |
| `SessionPersistence` | the write queue of one session and its callers: one action per step of a write, edit, flush and sweep |
| `SessionPersistenceProofs` | its inductive invariant and theorems |

### State and code

- `run[r]` is the row of `operations` for run `r`, reduced to what handlers read:
  the phase, `currentModel` (`model`), `unsettledToolOperationIds`
  (`unsettled`) and `modelVisible` (`visible`). No row is `NoRow`.
- `tool[t]` is the row of `tool_operations`; a tool name and its canonical
  argument hash are one `Action`, and `Safe` is the set whose recovery mode is
  `safe_replay`.
- `events` is the set of event ids of `runtime_events`. `appendEvent` throws on an
  id that is there with other contents, and `createdAt` is part of the contents,
  so in the model an id that is present disables a new append. Two calls in the
  same millisecond, which the code would merge, are not modelled.
- `reply` and `shown` are the payload of an attempt's outcome event and whether its
  assistant message is model-visible.
- `queried` holds the reconciliations that await an adapter, `todo` and `host` the
  progress of the restart pass. A crash (`Restart`) empties them and keeps the
  tables.

A handler has no await between its reads and its commit, and a commit is one
SQLite transaction, so a handler is one action and a handler that throws is a
disabled action. `queryAndReconcileTool` awaits its adapter and is two actions.
The restart pass is one action per run, because each is a transaction and a
crash can fall between two. `recoverInterruptedModel` is two commits with nothing
between them but a crash, and the state that leaves is the one `ReconcileModel`
leaves. The kernel's callers are not modelled: any handler may be called at any
time with any arguments, which covers duplicated, late and reordered messages.

Scheduler:

- `waiting` and `running` are the two collections of `ToolExecutionScheduler`, and
  `arrival` the position of a call in the queue. `stage[c]` is where the wrapper
  of a call awaits: `waiting` in the queue, `direct` (no resources, the preflight
  only), `starting` (the microtask after `start`), `intent` (T1 sent), `effect`
  (the implementation runs), `outcome` (T2 sent), `settled`. `preflight[c]` is the
  permission check that runs beside it.
- `aborted` holds the turns whose signal is aborted, `adrift` the interrupted
  calls whose effect may still be going on.
- A tool is a kind and a path. The kinds are the cases of
  `toolExecutionResources` that differ in domain or access, a path is a sequence
  of names, and the empty path stands for no path. All sources share one
  domain: they only ever read, and reads do not conflict. Symbolic links are
  taken as resolved (`physicalPath`).
- Every handler ends with a drain, so the drain is part of the action and not an
  action. `Drain` says in one set which calls it starts; the loop of the code,
  which splices its queue while iterating and re-enters when it meets a
  cancelled call, is `Drained`: `Iterate` is one iteration, `outer` the loop variables
  of the calls of `drain` that wait for the innermost to return, and a function of the
  number of iterations takes the place of recursion. No queue of `n` calls takes more
  than `MaxIterations(n)`. `DrainStartsStartable` compares loop and set from
  every queue that occurs.
- The host's answers (permission, T1, T2) and the implementations are the
  environment: each may be given, refused or missing in the ways the wrapper
  handles. `handleAbort` blocks every pending permission; a signal alone does not.

Boundary:

- `child[c]` is where the wrapper of a call awaits in the subprocess: `asked` (T1
  sent), `granted`, `running`, `viewing` (the view of the result is prepared),
  `told` (T2 sent), `left`. `obs[c]` is the outcome it would report. A call is
  asked for once, so the answer `created: false` does not occur.
- An outcome is one of three contents that differ to the ledger: `absent` (not
  dispatched), `view` (the result or error as the subprocess reports it) and
  `raw` (the result as the host commits it on its own).
- `toHost` and `toChild` are the JSONL pipes. A message names its call and type,
  each is sent once, and messages of different calls commute, so a pipe is a set;
  the one order that matters within a call, `tool_execute_request` before its
  cancellation, is a guard of `Cancel`. `link` is the host's test
  `this.subprocess === child`: what a subprocess it gave up still sends is dropped,
  while that subprocess may live on (`alive`) and write receipts.
- `work` and `known` are `pendingHostToolRequests` and `knownHostToolOutcomes`.
  A call for which a prompt is answered by the user (`ask_user`) is not modelled.
- `ledger[c]` is what the kernel says of the tool: no T1, `pending`, or its outcome. It
  is `DurableKernel` reduced to one run: `Fits` is the test of `commitToolOutcome`,
  whose other guards the kernel's module has. `receipt[c]` is the content of the
  file, whose name is the identity of the operation. `disk` is `ledger_down` when
  SQLite fails and files work, which is the case the API defers for.
- A stop (`Stop`), an abort of the host (`Abort`) and the end of either process may come
  at any time. `lost` and `invoked` are history variables: the calls whose receipt
  could not be written, which nothing can repair, and those that were invoked.

Runtime host:

- One session. `processing`, `stop` (`stopRequested`), `advance`
  (`advanceQueueOnStop`), `activeRun`, `settled` (`settledResult`), `timer`
  (`stopTimer`) and `driving` are fields of the slot; `gen` is its generation, which
  also names turns and their runs. A driver that lost its slot at the deadline is
  `detached`: its promise no longer counts, its events may still end.
- `queue` is the slot's queue, an entry being its set of inputs, and `scheduled` its
  immediate. `chain` is the chain of admissions: the head is in progress at its
  `stage` (`waiting` for its predecessor, the driver and what must be loaded;
  `saving`, `steering`, `flushing`, `telling` are its awaits), and `wake` is the
  continuation that `resumeQueue` leaves at an admission it finds in progress.
- `turn[g]` is where `runSessionTurn` stands, `retry[g]` where the authentication
  retry of that turn stands (`attemptAuthRetry` and `settleForReplacement`), and
  `retrying`, `tried` are `authRetryInProgress` and `authRetryAttempted`.
- An action is what runs from one event to the next await that is not yet settled.
  `finish` has no await, so it and the resumption of the queue are part of the action
  that calls it (`Finish`, `ResumeIf`). Its commit may succeed, park or fail.
- Which of a queue's entries were merged is a product decision: `Dispatch` takes any
  prefix.

Push transport:

- One window. `cli` is the `WsRpcClient` (`ws` its connection, `id` its identity,
  `lastSeen` the last sequence number it saw), `entry[id]` the `ClientConnection` the
  server keeps for an identity, `clients` the connected ones and `retained` the map
  `disconnectedClients`. `down` and `acking` are what travels on a connection, `link`
  whether it still does; a server may hold a connection that is cut for as long as
  it likes (half open).
- A connection is a `Socket`, used once; the server names a client it does not know by
  the connection it came with, which stands for the random identity.
- `pushed`, `seen` and `told` are the variables of `PushChannel`, so the refinement
  needs no substitution. `expired` stands for the age limit of a buffer: the events
  up to it may be evicted. The byte limit of the code is a smaller count limit.
- Left out: requests and responses, credentials, and a window that moves to another
  workspace, whose identity then no longer matches and is served as a new client.

Task run:

- `run` is the `ActiveRun`: `st`, `att`, `sess` per node, `inFlight`, `recov`
  (`recoveringNodes`), the counters, `judge` (what the verdict waits for), `sending` (a
  message to the orchestrator may still be refused), `held` the leases of `file-scopes.ts`
  and `wake` their pending notification. The listener for the verdict is attached before
  the message is sent, so `OrchestratorReplies` asks nothing of `sending`: an earlier turn
  of the orchestrator may be taken for the verdict. `disp` has a record per dispatch under way, with
  the await it stands at (`pc`) and what it read before.
- `log` is what `hydrate` makes of the lines of the run's log. A crash keeps it and the
  child sessions; leases and dispatches are in the process and are gone.
- `given[c]` is a history variable: the replies that the last prompt of child `c` was built
  from, which the dispatch read when `buildPrompt` returned (`got`). `overtaken` is
  history too: the nodes that were done before a dispatch of theirs was through, or after
  it was dropped; so is `adopted`: the nodes whose last dispatch took over the child of an
  older attempt without a prompt, its old reply or the turn it was in.
- Left out: token and no-progress budgets (a breach pauses or fails the run as the
  user or a verdict does), runs without an orchestrator, a scope path that changes
  under a run, a cancellation that fails (the node keeps its scopes on purpose), and
  a crash between two lines of one synchronous step.

Session persistence:

- `mem` is the session in memory, `disk` its `session.jsonl`, `queue` the persistence
  queue (`pending` its debounced entry, `chain` the writes of the session one behind
  the other, `write` what the first is writing and at which await, `failed` the
  kept rejection, `sig` the signature by which the watcher knows the program's own
  writes), `event` a change on its way to the watcher, `sweep` the idle sweep,
  `flushes` the calls that wait.
- A transcript only grows and is known by its length; the metadata fields of
  the header that several programs edit are one value. `saved`, `editors`, `edits`
  and `faults` are history.
- A snapshot is taken when the write starts (`Perform`), not when it is enqueued, as
  in the code. Left out: creation and deletion, other sessions, and an external
  program that rewrites messages beside the header.

## 3. Runs

| Run | Instance | States | Shows |
| --- | --- | --- | --- |
| `kernel_one_run` | 1 run, an ordinary and an auxiliary attempt, 2 tools, 2 actions, 2 payloads | 713,000 | row and table agree, a parked run can be decided, refinement of `EffectLedger` |
| `kernel_two_runs` | 2 runs of one session, 1 attempt, 2 tools | 695,778 | no unsafe repetition, no orphaned effect, hidden replies |
| `scheduler` | a script with a nested write, a read of the directory, a shell command of the next turn; fairness | 25,000 | exclusion, justified waiting, no overtaking, the drain loop, stopped calls settle, no circular wait |
| `boundary_tools` | a proxied and a native call; fairness | 539,430 | records are true, observed outcomes are kept, closed runs are complete, a watched receipt settles |
| `host_turns` | one session, 2 inputs, 2 retries; fairness | 473,434 | one run in the foreground, one driver at a time, inputs begin and are given once, stops end, the queue is served or held for a named reason, no session stays busy |
| `push_transport` | one window, 3 events, 2 faults, a buffer of 2, 1 retained client; fairness | 896,398 | one home per client, refinement of `PushChannel`, the window catches up |
| `task_run` | 3 nodes and a competing run, 1 repair, 1 event from outside; fairness | 765,150 | slots and leases are those of the work under way, verdicts see replies that fit together, with two exceptions by name, the run gets on |
| `session_persistence` | 2 more messages, 2 edits, 3 writes, 1 fault; fairness | 1,246,428 | what a flush vouched for stays, what is not saved is known, memory and disk come to agree |
| `kernel_startup`, `host_replacement`, `task_retry`, `session_eviction` | small | violated | the findings of section 6 |

Bounds.

- Kernel: the sets of runs, attempts and tools are the only bounds. An effect is used
  once, so every behaviour is finite up to repetition, and nothing else is capped.
  Two tools are the least for parallel effects and for a partial reconciliation; two
  attempts for one that is replaced and for one that is auxiliary; two runs for a
  repeated action and a hidden neighbour; two payloads for a conflicting answer.
  `kernel_one_run` takes its tools as interchangeable: no constant distinguishes them.
- Scheduler: no bound but the calls, each of which is made once. The four have a
  conflict of each sort (two paths nested, a barrier, a call inside a call), and a
  stop of one turn with the other's call behind it. A fifth call does not finish in
  reasonable time.
- Boundary: one call of each kind; calls meet only in the flush, in the gate of
  `completeRun` and in the cancellation of all, for which two are enough. Timeouts
  are not clocks: a request may be given up at any time.
- Host: two inputs are the least for a queue behind a turn, a steer and a merge,
  `Retries = 2` for a turn whose replacement is replaced or overtaken. `Retries` is
  the only cap: the code allows one retry of each message.
- Push: `MaxPush = 3` is one event more than the buffer holds, so that a gap must be
  reported; two faults lose a connection while its predecessor is not yet noticed,
  or restart the server between two reconnects; `RetainedMax = 1` evicts a client.
- Task run: a node that two others depend on is the least for a repair of one branch
  and a reply that became obsolete. `MaxParallel = 2` lets siblings run together,
  `MaxRepairs = 1` brings each node at most one more round, `MaxEvents = 1` allows
  one pause, crash, turn of the user or lease of the other run. `MaxAttempt = 4`
  covers the attempts that follow, and one over: a retry, a repair, and a restart that
  schedules anew what was pending. That it is enough is `TaskTypeOK`, proved. `MaxReAsks = 0` where
  the code has 2 (`MAX_UNPARSED_REASKS`): a re-ask repeats the question from a state the run
  was in before, but for its counter, and the theorems hold for any number.
  `LateFailures = FALSE` excludes the failure of a dispatch that no longer owns its
  node, a known divergence (section 6).
- Persistence: two messages and two edits let every write carry something older or
  newer than another, three writes put one behind another behind a third, one fault
  is one failed write or crash. `Hurried = FALSE` excludes edits of the metadata
  during the idle sweep, which is finding 4, where it is `TRUE`.

What holds for larger instances is what section 5 proves.

Fairness.

- Scheduler: `FairSpec` asks that each call takes the steps the process takes on its
  own: microtasks, T1 and T2 (bounded by a timeout of 15 seconds each), and the end
  of an implementation, which is an assumption about tools. It asks nothing of
  arrivals, stops and the host's answer to a permission; `AnsweredCallsSettle` has
  the latter as its premise.
- Boundary: a timer that is set fires, which a JavaScript timer does while the process
  lives; that storage works in the end, and that the host is not shut down for good,
  are premises of `WatchedReceiptSettles`.
- Host: the event loop goes on: a timer that is set fires, an immediate runs, an answer
  that is bounded by a timeout comes. It asks nothing of drivers, users and errors:
  `StoppedTurnsEnd` holds for a driver that never ends, and `QueuesAreServed` has as
  its premise that drivers end.
- Push: the window goes on, and so does the server. The window reconnects by itself
  (`autoReconnect`, with no last attempt), takes what arrives on a connection that holds
  and hears of a lost one by its socket; the server answers handshakes and hears of lost
  connections by its heartbeat. Each asks only that one of its steps is taken
  while it has any: every connection is served and closed once. Faults are finite, so
  in the end a connection holds.
- Task run: awaited calls return, turns end, outcomes are classified, microtasks run
  and the other run ends. The creation of a child is strongly fair: a node that is
  tried again and again (finding 3) is created in the end. The user and the clock owe
  nothing, so a run may stay paused, which is what `RunGetsOn` allows.
- Persistence: timers fire and awaited calls of the file system return.

Deadlock is checked where nothing is finite: `Restart` keeps the kernel live, a stop the
scheduler, and a change of storage the boundary. In the other runs inputs, faults
and writes are bounded, so the model stops when they have come.

Each property of a passing run has a seeded fault in its module, named in
`PROJECT.json` under `mutants`, that makes TLC find it violated.

## 4. Reading the properties

Kernel: `UnknownEffectKeepsRun`, `AggregateMatches`, `ParkedIsDecidable` and
`NoUnsafeTwins` are invariants, `HiddenReplyNeedsLostRow` is an action property and
`ImplementsEffectLedger` the refinement. `HiddenReplyNeedsLostRow` states what the
code gives, which is less than a reader may expect: the marker that hides a utility
run is on its row only, so a reply that arrives when the row is gone, or was replaced
by parking on tools, is committed as model-visible.

Scheduler: `ConflictsAreExclusive` speaks of the interval from T1 to T2 and excepts
interrupted calls, whose resources the code releases although their effect is
unknown. `WaitsForACause` is what makes a lost wake-up impossible: after every
handler there is nothing left to start. `NoOvertaking` holds even for earlier calls
whose permission is still open, which is also why an unanswered permission
holds up later conflicting calls of every turn. `StoppedCallsSettle` and
`AnsweredCallsSettle` are liveness; the second would fail if a script held a
resource.

Boundary: `RecordsAreTrue` relates the records to what happened in the other process,
for every message that is late; believing the answer to a T1 that was given up
violates it. `ObservedIsKept` is what deferral, retention, the host's own commits and
the journal are for, and excepts only receipts that could not be written.
`ClosedRunIsComplete` covers the timer, `close` and other runs, which flush after a run
was closed. `WatchedReceiptSettles` speaks of receipts whose entry is still open.

Runtime host: `ForegroundOwnsItsRun` is where the end of an old turn, the recovery at
each admission, a deadline and a deletion could close a run under its turn.
`DriversDoNotOverlap` excepts turns that are replaced, because the code does: the late
`s.driving = undefined` of `settleForReplacement` (host.ts:365) may clear the driver
of a turn that began meanwhile, so a second replacement does not wait for it.
`AdmittedInputsBegin` is what lets `begin` throw in no reachable state.
`QueuesAreServed` excepts what the code lets hold a queue (`Held`): a stop after which
the user is to answer, a turn that is being replaced or could not be, and a replay
that was refused, after which the other entries wait for the end of a later turn.
`BusyHasAnOwner` excepts a retry that overtakes the retry of an older turn, since
`runSessionTurn` does not reset `authRetryInProgress` for a retry.

Push transport: `OneHome` is about the late close of an old connection, a reconnect
that arrives before it, and the eviction of a retained client: none of them takes a
client off its new connection. `ImplementsPushChannel` says what the window makes of
all this: no event twice, none missed without a word to reload, and a reload
accounts for what was pushed when it was answered. `CatchesUp` is its liveness: the
window is not left behind for good.

Task run: `SlotsAreTrue` is what the limit on parallel nodes and the end of the run rest
on; completions, cancellations, retries and repairs each give back a slot, in any
order. That order includes no failure of a dispatch that no longer owns its node
(`LateFailures = FALSE`): of that hazard the property says nothing.
`LeaseHasWorker` says that no file scope stays taken for nothing, except by a node
that was `Abandoned`: the refusal of an earlier question ended the run while the node ran.
`VerdictSeesFreshReplies` says what a verdict may judge: replies to prompts built from the
very replies their upstream nodes now stand for, whichever attempt gave them. The code
does not keep this after every repair. Excepted are nodes that were `overtaken` and nodes
that were `adopted`: in both cases an old reply stands for a repaired node, and
section 6 says how either comes about. A node sheds `adopted` at its next dispatch, and
`overtaken` never.
`RunGetsOn` is liveness and excepts a dispatch that a pause dropped (`Dropped`).

Session persistence: `SavedStaysSaved` says that a transcript that a flush vouched for is
never replaced by a shorter one, by any later writer. `UnsavedIsKnown` says that
messages exist in memory alone only while something is to save them or a kept
rejection tells the next flush. `SnapshotsArrive` is liveness. It speaks of runs
without a fault that have not used up `MaxWrites`, and of the metadata only where this
program makes all edits, since external edits may be overwritten (section 6).

## 5. Proofs

Forty-four theorems are listed in `PROJECT.json`. Some state properties that no run
checks because others say as much on a small instance and these are what a reader may
want to rely on: a run ends once (`TerminatesOnce`), its history closes
(`HistoryCloses`), parking is recorded (`ParkingIsRecorded`), a run waits for an
unanswered attempt (`AwaitedIsUnanswered`), dispatch follows approval
(`DispatchNeedsApproval`), stops have deadlines (`StopsHaveDeadlines`).

`DurableKernelProofs` proves, for all values of the constants that satisfy
`KernelAssumption` (an effect belongs to one run, a run recovers from itself,
attempts and tools are different, `None` is none of them):

    IInv == TypeOK /\ LedgerInv

inductive, and from it every safety property of the passing runs. `LedgerInv` is
the conjunction of what the properties need to be inductive:

- `RunHistory`: a row exists only after acceptance and never with a terminal event;
  events of a run's effects exist only after its acceptance.
- `ToolEffects`: `UnknownEffectKeepsRun`, `AggregateMatches`, `NoUnsafeTwins`, and the
  agreement of a tool's status with its events. The first is what makes the other
  two inductive: an effect could be forgotten only by deleting its run's row.
- `ModelEffects`: outcomes and decisions follow dispatches, and the current attempt
  of a row was dispatched by that run and is unanswered and not given up.
- `ParkedHasCause` and `ParkedIsRecorded`: why a parked run is parked, in the row
  and in the log.
- `MarkerIsKept`: a hidden run's row says so unless parking replaced it.

There is one lemma per action and part of the invariant that the action can
disturb; the theorems at the end combine them. `NoUnsafeTwins` needs the
assumption that a run is in its own lineage: the guard of `prepareTool` looks at
the caller's session first.

The second half proves `Spec => ImplementsEffectLedger`: each action maps
to the abstract action it performs (accept to `OpenRun`, T1 to `Dispatch`, T2 and a
reconciliation to `Settle`, settlement to `CloseRun`) or to a stutter, using
`UnknownEffectKeepsRun` for `CloseRun` and `RunHistory` for `OpenRun`.

`ToolSchedulerProofs` proves every safety property of `scheduler` for any calls, turns and
tools (`SchedulerAssumption`: their types, and `None` is no call), from

    IInv == /\ TypeOK /\ Ordered /\ RoutedByResources
            /\ RunsExclusively /\ WaitsForACause /\ ApprovedInTime

`RunsExclusively` is exclusion for all that run, not only from T1 on;
`ApprovedInTime` says that a call past the queue was approved and that a stopped
one is not in it; `Ordered` that positions in the queue differ;
`RoutedByResources` that only calls without resources go past the queue.

The lemmas follow the code: `DrainAgrees`, `DrainExcludes` and `DrainLeavesCauses` say
what a drain establishes from what its handler leaves; `DrainStep`, `StageStep`,
`SettleStep` and `DepartureStep` say that a handler of that shape keeps the
invariant; each action is then one of these shapes.

The last part is about the loop (`LoopStartsStartable`). `IterateCases` says what one
iteration does, and `LoopInv` what holds after each: only calls of `Startable` have
started, only stopped ones were cancelled, and every call the loop has passed, or that
is before one it started, is to stay. The calls that wait outside need not be
remembered: when a loop is over, every call in the queue is to stay, so the
loop it returns to finds nothing to do, wherever it goes on. That the drain
ends is the measure `Work`, which every iteration makes smaller; it is at most
`MaxIterations` at the start. `InOrderLists` shows that the queue can be listed at all:
the rank of a call is a bijection onto `1 .. Cardinality(waiting)`.

`ToolBoundaryProofs` proves the safety properties of `boundary_tools` for any calls
(`BoundaryAssumption`: proxied calls are calls, and `None` is no outcome), from

    IInv == TypeOK /\ Settled /\ \A c \in Call : CallInv(c)

`CallInv` speaks of one call: `Progress` says what has happened to it from where its
wrapper stands, `Pipes` what each message presupposes (a T1 request that is still
unread has no T1 in the ledger and excludes its own answer; an acknowledgement has
an outcome), `Works` what the host knows, `Origin` that a record has its cause, and
`Evidence` that an acknowledged outcome is on record. `Pipes` is what makes the rest
inductive: a handler acts on a message that may be older than the state it meets.
`Settled` is the part of `ClosedRunIsComplete` that does not follow from the calls.

`RuntimeHostProofs` and `RuntimeHostInputs` prove every safety property of the host,
for any finite set of inputs and any number of retries
(`HostAssumption`). `ForegroundOwnsItsRun` and `StopHasDeadline` follow from

    IInv == SlotType /\ Owned /\ Unsettled /\ StopHasDeadline

`Owned` says that the open run is the one of the slot and of the current generation;
it is why the recovery at an admission finds nothing to close under a turn.
`Unsettled` says that nothing has finished a turn that is in the foreground; without
it a stop of a turn that is finished already could not be told from one that runs,
and the release of a session could leave a run open. `FinishEffect` is the lemma the
rest uses: whatever the ledger answers, `finish` gives the slot up or leaves it.
`DriversDoNotOverlap` is inductive by itself with the types of `turn` and `retry`.

`AdmittedInputsBegin` and `BusyHasAnOwner` follow from

    HInv == IInv /\ BusyInv /\ ChainOk /\ Contents /\ AdmittedInputsBegin

`ChainOk` says that only the head of the admissions is in progress and what a retry in
it belongs to; `BusyInv` that the driver the slot waits for is the one of the turn in
the foreground (`DriverIsCurrent`), that a retry waits for that driver and has
finished its turn before it goes on (`RetriesFollowTurns`), and that a retry in
progress is some turn's (`RetryingIsOwned`). `InputsAreGivenOnce` follows from

    InputsInv == /\ OnePlace /\ GivenToTurns /\ SteeredForward
                 /\ RetriesComeLate /\ InputsAreGivenOnce

together with `HInv`. `OnePlace` says that an input is in at most one of the queue's
entries, the admissions and the turns whose inputs were not sent again;
`GivenToTurns` that the turns it was given to before were all sent again. `Relocated`
is the lemma: an action under which inputs change places together keeps both, and
each action is shown to be of that kind.

`TypeOK` follows with a third invariant, `TurnsInv`: turns are numbered without a gap, no
entry, admission or turn is without inputs, and no more turns were retried than `Retries`.
`RoomForTurn` is the count behind it. A turn that begins brings an input that, by
`OnePlace`, no turn has but those that were sent again; choosing an input for each of
the others is an injection, so turns are never more than inputs and retries together.

`PushTransportProofs` proves `OneHome` for any bounds (`TransportAssumption`) from

    IInv == HomeType /\ NewIsUnknown /\ OneHome

`NewIsUnknown` says that a connection not yet served is known as nobody's identity.
`RemoveAtEffect` is the lemma on taking a client out of the retained ones, which the
reconnection and the eviction share.

The type invariant and `ImplementsPushChannel` follow from a second invariant:

    WInv == IInv /\ Tables /\ Window

`Tables` says that the buffer of a client the server knows is numbered without a gap up to
the last event pushed to it. `Window` relates the window to what is on its way: the
events on its connection continue what it accounts for (`LineOk`), and the number it
names when it comes back stands for what it accounts for, or for a client that is gone
(`PositionOk`), so a replay of all later numbers is neither short nor double. Each
action of the server is shown to leave the line of a window it does not serve
(`ServerStep`); `PushedServes`, `AnswerEffect` and `EvictEffect` say what a push, the answer to
a reconnection and an eviction put on it. What a replay or an eviction leaves of a buffer is
a tail of it (`RestEffect`, `EvictEffect`), which needs no induction over sequences.

`TaskRunProofs` proves the safety properties of `task_run` for any graph, any file scopes and
any limits (`TaskAssumption`), under the assumption `~LateFailures`, from

    IInv == Inv(run, child, checking, given, events),   Inv == Core /\ Leases /\ Answers

It speaks of a run as a record and not of the variables: the synchronous operations of the
code (`scheduleReady`, `markNodeDone`, `failNode`, `repairForVerdict`) are operators on that
record, so what each of them keeps is one lemma (`ScheduleKeeps`, `CompletionKeeps`,
`RepairKeeps`, `VerdictKeeps`) and an action is a frame around it. `Core` has these parts:

- `Slots`: the slots taken are the running nodes, and a verdict has none.
- `Stages` and `Logged`: how status, verdict and process go together, and where the log
  agrees with memory.
- `Bounded`: each attempt was paid for by a retry, a repair or an event from outside
  (`MayRestart` is the one that may still be charged), which bounds them.
- `Children` and `Dispatches`: a session of a node is that of an attempt it has had, an output
  has a child that was prompted, and what a dispatch presupposes at each of its awaits.
- `Freshness`: while a node has begun, its dependencies are done, and what its child or a
  dispatch of it was given are the replies they now stand for, unless it was overtaken.

`Leases` says that a holder is at work or was abandoned. `Answers` carries what a verdict
judges through restarts: `Freshness` speaks of the newest attempt alone, so of a node that
goes on in the session of an older one `Answered` says that this session was given
the present replies, or that the prompt with them is on its way to it. An adopted node may be without either,
hence the exception. The loop of `scheduleReady` is a recursive function
over the positions of `Order`; what it keeps is proved by induction as a fact about sets of
numbers (`NatSet`), which needs no theorem with an operator as a parameter. With
`LateFailures` the invariant is false (section 6).

`SessionPersistenceProofs` proves `TypeOK`, `SavedStaysSaved` and `UnsavedIsKnown` for any
numbers of messages, edits, writes and failures, under the assumption `~Hurried`, from

    IInv == /\ Types /\ QueueOk /\ WriteTrue /\ ColdIsSaved /\ SweepIsAlone
            /\ WaitersAreServed /\ MemoryIsKnown /\ SavedStaysSaved

The key notion is `Promised`: why a transcript of some length will be on disk, or a
failure told, when a given write is through. `WaitersAreServed` promises every flush what
was in memory at its call, `MemoryIsKnown` promises memory itself; `WriteTrue` says that
the write under way carries no less than the disk has, `ColdIsSaved` that
what an evicted session has lost from memory is on disk, and `SweepIsAlone` what holds
while the sweep waits. Without `~Hurried`, `ColdIsSaved` and `SweepIsAlone` are false
(finding 4).

Every safety property of a passing run is the statement of a theorem. Liveness
(`StoppedCallsSettle`, `AnsweredCallsSettle`, `WatchedReceiptSettles`, `StoppedTurnsEnd`,
`QueuesAreServed`, `CatchesUp`, `RunGetsOn`, `SnapshotsArrive`) is only model-checked, since
fairness and `ENABLED` are beyond the prover.

## 6. Findings

1. A second restart may fail to reduce a workspace (`kernel_startup`): the event a
   restart parks a run with has a fixed id, so parking the same run at a later
   restart throws and ends the pass, at that restart and at every later one.
2. An authentication retry can lose its input (`host_replacement`). Replacing the driver
   finishes the turn first and then waits up to five seconds for the driver to be
   disposed of, with the foreground free. If a message begins meanwhile, the retry
   finds its handle stale and returns: nothing is sent again and nothing reported.
3. A node that fails before its child is found is tried again without bound
   (`task_retry`). After a restart or a resume a node goes on with its attempt, and the
   mark that says so is taken off only once the child is there; a dispatch that throws
   earlier is retried with the attempt uncounted, and retried again.
4. The idle sweep can empty a session's file (`session_eviction`). While it awaits the
   disposal of a runtime, two quick edits of the metadata leave a write waiting behind
   another; the sweep asks for debounced entries only, drops the messages, and the
   waiting write takes its snapshot after that.

Known divergences without a run, read off the code or met in earlier versions of the
models:

- `coordinator.ts:1131`: a late T2, a new T1 or a model outcome leaves
  `recovery_parked` without a reconciliation decision, where
  `docs/architecture/durable-agent-runtime.md:131` has only the decision leave it.
- `api/runtime.ts:22`: when the subprocess gives up T1 before the host reads the request,
  its receipt that nothing was dispatched is dropped by the flush that precedes that
  very T1, and a call that was never invoked becomes an unknown effect.
- `pi-agent.ts:3734`: a stop while the subprocess prepares the view of a proxied result
  makes the host commit its own form; the subprocess's form is refused, retained, and
  refused at every retry, and the run answers `parked` for as long as the file is
  there. No outcome is lost (`ObservedIsKept`).
- `TaskRunner.ts:666`: the late failure of a dispatch fails a node that it no longer owns
  (with `LateFailures = TRUE`, `SlotsAreTrue` is violated).
- `TaskRunner.ts:599`: a pause while a prompt is built drops the dispatch; the node stays
  running without a child (the comment at 367 has children in flight keep running),
  and `resume` dispatches cancelled nodes only.
- `TaskRunner.ts:638` and `:731`: a node that runs again keeps its old session until its new child
  is there. A turn that the user starts in the old child and that ends meanwhile settles the
  node with its old child's text, where the header (lines 12 and 13) has an obsolete child
  settle nothing; the verdict judges a reply to what the repair replaced. If the dispatch
  of a recovering node is dropped then (599), or was by a pause, the mark of recovery stays:
  a later repair runs the node again on the same, uncounted attempt and finds the old
  reply once more. This is what `overtaken` excepts: without it, in the bounds of
  `task_run`, TLC finds `VerdictSeesFreshReplies` violated after 28 steps.
- `TaskRunner.ts:644`: one restart is enough for the same. A repair schedules a node on a new
  attempt and the process dies before its child exists. `hydrate` (391-436) keeps the
  session of the old attempt and marks the node as recovering; `findTaskNodeSession`
  (`SessionManager.ts:6806-6814`) prefers that session to the dispatch's own and returns its
  old final text, and line 644 takes it for the answer. The verdict judges a reply to
  what the repair replaced, where the comment at 1012-1016 has a renewed node force all that
  consumes its output to run again. This is what `adopted` excepts: without it, in
  the bounds of `task_run`, TLC finds `VerdictSeesFreshReplies` violated after 29 steps.
- `TaskRunner.ts:893` and `:945`: the listener for the verdict is attached before the message is
  sent, and takes the next end of a turn of the orchestrator for the verdict, also of a turn
  that began earlier. If the message is refused after that, `finish('failed')` ends a run
  that is repairing or has completed, where the docstring at 936 fails a run rather
  than have it hang in `verifying`. Nodes that run again are left running: the run is
  no longer subscribed, nothing gives their file scopes back. This is what
  `Abandoned` excepts: without it TLC finds `LeaseHasWorker` violated after 22 steps.
- `TaskRunner.ts`: a stop during the move on the board (line 643) still sends the prompt,
  where the header (line 12) has a stopped step stay cancelled. A refusal of the orchestrator
  overrides a stop (line 945).
- `persistence-queue.ts:149`: a header that another program edits between the read and the
  rename is overwritten, where line 153 says queue writes should never clobber it.
- `SessionManager.ts:1835`: an external edit that a write merged is taken for the
  program's own, so memory is not told and the next write reverts it; a
  header deferred during a turn (1847) is applied at its end over newer edits.
- `SessionManager.ts:6561`: `shareToViewer` persists after its upload without asking whether
  the session still exists.
- `coordinator.ts:253`: a crash between the two renames of a restore leaves no database, and
  the next start opens an empty store; a marker that cannot be written (172) loses
  the facts of the store that replaced a broken one.

## 7. Not modelled

- Projections: a read model that can be rebuilt from the log at any time, whose steps are
  synchronous and that nothing waits for.
- Storage recovery and maintenance: sequential code over the file system and SQLite; the
  crash points are those of section 6.
- In the modelled components: what the notes in `PROJECT.json` name, above all model
  requests and their receipts, requests and responses of the transport, budgets of
  tasks, shutdown and restored queues of the host, and the product policy of the
  session manager.
- The other components (automations, resident assistant, decisions, privileged broker,
  messaging, plugins, sources, session tools, artifacts, handlers, clients, libraries):
  sequential code over files and services, glue around third-party code, and user
  interface, which is most of the repository. The models cover the parts where
  actors meet.

What remains worth doing, in this order: the boundary of model requests
(`durable-model-stream.ts`), whose receipts also carry the inputs they consumed; the
cursor of projections against pruning; and the crash points of storage recovery.
