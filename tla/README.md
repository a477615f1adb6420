# Verification of git-agent

git-agent reacts to repository Events (pushes, pull requests, manual scans)
with security-review agents. A **hub** (Go, `src/backend`) receives webhooks,
journals them in PostgreSQL and publishes them through a transactional outbox
to RabbitMQ. A fleet of **runners** (Python, `src/agent`) consumes the queue,
raises *Agent Instances* (one per build and repository, one checkpoint thread
each) into slots, and runs a *turn* of the agent for every Event, for the
operator's chat and for the operator's console. Each instance works in an
OpenSandbox container; a turn may delegate to subagents. A tunnel relay and a
React frontend complete the system.

This directory holds TLA+ models of the parts that carry the coordination,
TLC configurations for small instances, and TLAPS proofs for all instances.

## 1. Inventory

| Component | State | Operations | Interacts with | Hard behaviour | Correct when |
|---|---|---|---|---|---|
| Runner service (`core/runner/service.py`) | slot semaphore `_free`, `_raise_lock`, `_instances`, per-instance `lock`, `term_lock`, `turn_task`, `last_activity` | `handle_event`, `raise_instance`, `chat`, `terminal`, `stop_instance`, `reap_idle`, `start`, `shutdown` | store rows, other runners (forward), hub, executor | coroutines interleave at every await; cancellation; stale snapshots | slots are conserved, one turn per instance, Events are deduplicated, nobody waits for ever |
| Shared rows (`hub_store.py`, `instances.sql`, `runners.sql`) | `agent_instances.status/runner_id`, `instance_events.processed_at`, `runners.last_heartbeat_at` | claim (CAS), peek, release (CAS), begin_event, mark_processed, RequeueStale, SetInstanceRunning/Down | runners, hub | writers on both sides, unconditional updates | the holder in the row is the runner that has the instance |
| Event delivery (`store.go` Ingest, `outbox.go`, `heartbeat.go`, `rabbit.py`) | `events`, `instance_events`, `outbox`, the durable queue | Ingest, drain, MarkPublished, consume (auto-ack), RequeueStale, Resume | webhook, broker, runners | crash between publish and mark, lost confirms, auto-ack, re-publication | nothing ingested is lost; it is processed in the end |
| Hub instance control (`app/instance.go`) | hub rows, HTTP calls in flight | Raise, Stop, Resume, RaiseForRepository, Chat, Terminal | runners | answers that arrive after the row moved on | rows describe what runners hold |
| Sandbox lifecycle (`app/sandbox.go`, `infra/sandbox/`) | sandbox rows, OpenSandbox containers | Create, Ensure, link, Kill, connect, mark dead | provider, turns | concurrent Ensure, an answer lost after the creation, orphaned containers | a running container can be found and killed |
| Turn executor and thread repair (`executor.py`, `history.py`) | checkpoint thread (messages) | process_event, chat_stream, repair | checkpointer, model | cancelled turns leave tool calls unanswered | every turn starts from a well-formed thread |
| Activity feed (`activity.py`) | frames of the live turn, subscribers | begin, emit, stream, close | turn, SSE readers | replay meets live frames | each reader sees every frame once and in order |
| Subagent delegation (`subagents/`) | capacity slots, waiting queue | acquire with timeout, run, release, terminal status | turn | bounded queue, timeout against grant | capacity is conserved, a task ends once |
| Agent middleware | per-turn counters | loop detection, token budget, subagent limit, terminal response | model calls | limits at their boundary | a turn ends |
| Tool receipts (`subagents/receipts.py`) | stamps on the child's tool results, the rendered ledger | stamp, render within a budget, harvest, verify citations | subagent runs, the lead | a ledger that is cut to its budget, a run that ends early | a resolved citation is a call that was executed and shown |
| Findings and reports (`security/tools`, `executor.py`) | `hub.findings`, `hub.reports`, the shallow clone, blame caches | prepare the clone, fetch the range, report_finding, write_report | turn, sandbox, store | parallel tools, fetches that deepen a shallow history | the agent reads its Event's commit, origins are right, reports are complete |
| Authentication (`app/auth.go`) | tokens of an identity | CallWithToken, refresh, login | OAuth provider | refreshes and logins at the same time, an answer lost after the rotation | no write puts a spent refresh token into the row |
| Trigger and subscriptions (`repository.go`, `subscription.go`, `event.go`) | builds, subscriptions | match, dedup key, Trigger | Ingest, sandboxes | provisioning before deduplication | an Event reaches exactly the matching builds |
| Tunnel relay (`tunnel/cmd/relay`) | none shared | forward a request, answer | webhooks | | not modelled, section 7 |
| Connections, HTTP API, provider clients, tracing, evaluation, frontend | single rows, or none | CRUD, decoding, I/O | | none of coordination | not modelled, section 7 |

`PROJECT.json` lists all of them with their sources, and under `hazards` the
places where this code is hard to test.

## 2. Modules

| Module | Models |
|---|---|
| `RunnerService` | the runner processes over the shared rows, await by await |
| `Delivery` | an Event from the webhook to a processed row, runners coarse |
| `AgentTurn` | the lead's turns on the checkpoint thread of one instance: repair, model, middleware, tools |
| `Delegation` | parallel calls of the task tool against the subagent semaphore |
| `AdmissionPool` | what `SubagentCapacity` promises, abstractly; `Delegation` implements it |
| `SubagentRun` | one run of a subagent: graph, receipts, step capture, usage, verdict on citations |
| `ActivityFeed` | the frames of turns, their journal and the readers that follow them |
| `TurnResults` | the clone, findings, blame and reports of an instance's turns |
| `Provisioning` | triggers and chats before the turn: token refresh and login, sandboxes and their links, publication |
| `MC*` | instances for TLC: symmetry, dedup keys, shapes of replies, commits and Events |
| `RunnerServiceProofs`, `AgentTurnProofs`, `DeliveryProofs`, `DelegationProofs`, `SubagentRunProofs`, `ActivityFeedProofs`, `TurnResultsProofs`, `ProvisioningProofs` | the theorems about the module they are named after (section 5) |

How they fit together: `Provisioning` ends where an Event is published or an
instance raised; `Delivery` carries the Event to a runner; `RunnerService`
turns its arrival into a turn under the instance's lock, which is one await
there. Three modules open that await: `AgentTurn` (the lead's thread),
`TurnResults` (the clone and the rows it writes) and `ActivityFeed` (what is
shown of it), all relying on `TurnsSerialized` of `RunnerService`.
`Delegation` opens the tool step of `AgentTurn`, and `SubagentRun` the running
state of `Delegation`.

### RunnerService

A runner is a single asyncio process, so a coroutine is interrupted only where
an `await` really suspends. An action is the stretch between two such awaits
and the coroutine's `pc` names the await it is parked on:

| `pc` | await |
|---|---|
| `peek` | `store.peek_holder` |
| `forward` | `hub.forward_event`; the request is in flight to runner `run` |
| `slot` | `_free.acquire()` |
| `raise` | `async with _raise_lock` (a permit is already owned) |
| `claim`, `refused` | the UPDATE of `claim_instance`, then its second SELECT |
| `begin` | `store.begin_event` |
| `lock` | `async with instance.lock` |
| `context` | `store.load_context` |
| `turn`, `cancel` | `await exec_task`, or the chat stream; `cancel` after `turn_task.cancel()` |
| `mark` | `store.mark_processed` |
| `termwait`, `term` | `term_lock`, the console command |
| `stoplock`, `release` | `stop_instance`: the lock, `release_instance` |

Every store call is one SQL statement and so one atomic step; `claim_instance`
is two statements and two steps. asyncio's `Semaphore` and `Lock` are modelled
with their FIFO queues: a newcomer does not overtake a waiter. `LocalInstance`
objects have identities, because a popped object outlives its entry in
`_instances`: its lock, its waiters and its `last_activity` go on mattering.
`reap_idle` keeps the snapshot of its `list(...)` (`sweep`) across the awaits
of its own stops.

The environment is switched by `Env`: explicit stops (`stop`), chats, consoles
and raises (`operator`), the hub's updates (`hub`), store errors (`fault`),
process crashes (`crash`), loss of heartbeat while running (`partition`), turns
longer than the idle timeout (`longturn`). Events always arrive: the broker,
re-publication and forwards together may bring any Event to any live runner at
any time. The client of a chat or of the console may go away at every await
(`ClientGone`), and a store call may raise (`StoreError`); of either, the
UPDATE under way may have been applied all the same.

`hubCalls` holds what the hub is about to do to the rows: `Stop` reads the
holder, calls it, then sets the row down whoever holds it; an answered raise
sets the row running.

Abstractions: what a turn computes; the time on clocks (`idle` is "older than
the timeout"); the order among waiters of `term_lock` (any waiter may be next,
FIFO included); a missing `load_context` row is the failed turn it becomes.
Graceful shutdown is a sequence of `stop_instance` calls and then the end of
the process, which `ApiStop` and `Crash` contain; tasks of `consume_events`
are not cancelled by it. A deleted instance row is not modelled.

### Delivery

`Ingest` is one transaction: the Event, an `instance_events` row per matched
instance unless its dedup key is taken, and an outbox row per matched instance
in any case. The outbox worker polls a batch, publishes, waits for the confirm
and marks row by row; it can fail or be restarted at each of these points, with
the message sent or not. Consumption is auto-ack, so a message is only in the
runner's memory from then on. `Admit` stands for slot, claim and
`begin_event`; `RunnerService` has their inner steps. `RequeueStale` and
`RequeueInstance` insert copies of outbox rows of unprocessed Events.

`KeyOf` maps a delivery to its dedup key: a push and a pull request on one
commit share it, a full scan has its own (`MCKeyOf`).

### AgentTurn

`RunnerService` treats a turn as one await; this module looks inside. `thread`
is the list of messages in the checkpoint, which outlives turns and processes;
the graph and its middleware are built anew for every turn (`_graph`), so their
counters start from nothing. `pc` is the next node: the repair that
`_repaired_thread` makes first, the input, then model calls, the `after_model`
hooks in LangChain's order (the reverse of the list in `features.py`: terminal
response, token budget, loop detection, subagent limit), and the tools. Each
node ends in a checkpoint, so `Interrupt` (a stop, a client that goes away, an
exception) and `Crash` may cut a turn off between any two of them. Of parallel
tool calls the checkpoint then holds those that had returned, with a result or
with an error (`Saved`, the pending writes of LangGraph). The repair after an interrupted turn is
best-effort and may do nothing; after a crash there is none.

A message is a record that keeps what the code reads: its calls, whether it has
text, truncated calls or usage, and for a result the call it answers and
whether it carries `subagent_status`. A call is a delegation (`task`) or
another tool. Abstractions: a reply costs one unit of the budget and the
provider reports it; the calls of one reply share their salient arguments;
content is a string; the hidden warnings, which are added to one request and
not to the thread, have no effect here; `Compact` is LangChain's summarization
as the code configures it (external): a prefix becomes one message, never with
a cut between calls and results.

### Delegation and AdmissionPool

`SubagentCapacity` is an `asyncio.Semaphore` behind a counter of waiters. A
coroutine suspended in `acquire()` owns a future; that the future is granted or
cancelled and that the coroutine runs again are different moments, and between
them a release, a timeout or the end of the turn may come. `pc` says where a
call of the task tool is, `future` what happened to its waiter, `cut` why it
will be interrupted at its next step. `Grant` and `Release` are
`_wake_up_next` and `release` of asyncio (external); they include the wake-up
that a waiter passes on when it was granted a permit and cancelled in the same
turn of the event loop. `TurnCancelled` interrupts all calls at once.
The unknown-type branch of the task tool does nothing to shared state and is
left out.

`AdmissionPool` is what the module's docstring promises: a bounded number of
holders, a bounded line, first come first served. It knows no futures: the
refinement mapping takes as holders the calls that run or have been granted a
permit they have not picked up yet, and as the line the waiters whose future is
pending. The order of the line is a relation there (`ahead`), so that a waiter
leaves it from any place without renumbering. A timeout against a grant is then either a waiter that gives up or a
holder that leaves while the head of the line moves up.

### SubagentRun

One child graph from its first model call to the message the lead gets:
`ModelReplies`, `ToolsReturn` (any of the parallel results may lose its stamp
or be an error), and the four ends: it finishes, is capped by the recursion
limit, fails, or is abandoned by the timeout or a cancellation outside. The
ledger shown to a reply (`messages[i].ledger`) is rendered from the stamped
results in order and cut to the newest lines that fit the budget. At the end
`_harvest` takes the receipts that the citing reply had been shown, and the
task tool checks the citations of its text against them. Text is reduced to
its length class and its citations, a receipt to its number, call, tool and
status, a ledger line to its length. A ledger is the set of its receipts: they
are in the order of their numbers. `RunAssumption` has it that a ledger of one
line fits the budget, as it does in the code (about 330 characters of header,
46 for the omission line and some 130 for a line, against 2000,
`receipts.py:16`).

### ActivityFeed

The turns of one instance, in order. A chunk of the graph's stream becomes
frames (`ActivityCollector`), each of which is persisted and then published to
the buffer and the queues of subscribers: two steps, between which a reader
may subscribe or the turn may be stopped. An insert that fails is logged and the
frame published all the same. A reader is the coroutine behind an SSE
connection: it follows a live turn (copied buffer, then queue) or reads rows of
a finished one, and may leave at any time. Chats write frames without an Event.
A chat's client may go away before the `try` that would close the turn
(`ChatGoneEarly`); the end of the process is not part of this module.

### TurnResults

`repo` is the clone in the sandbox: commits it has, where its shallow history
is cut, `HEAD`. It outlives turns, so `Clones`, `ChecksOut`, `EnsureCommits`
and `FindsMergeBase` start from what earlier turns, possibly cut off, left.
Then the lead and its subagents call `report_finding` (blame the lines, trace
the origin against the range, record, store the row) and `write_report`
(snapshot, then store) concurrently, one await per action, sharing the blame
and ancestry caches; `AgentDeepens` is a fetch the agent itself runs. Git is
external and modelled by what these commands do on a forest of commits:
ancestry is answered only as far as the history is there, and blame stops at
the shallow boundary. Nobody moves `HEAD` in mid-turn in this module: a
`git checkout` by the agent's shell, or by the operator's console, which runs
beside a turn on the same `/repo` (`service.py:374-377` accepts that), would
change what the turn reads from then on, and `ReadsEventCommit` says nothing of
a turn after one.

### Provisioning

Requests of the hub run in goroutines that share no lock; an action is one call
to the database, the provider or OpenSandbox, at the moment it takes effect.
`Triggers` and `Chats` go through `CallWithToken` (call, refresh on 401, write
the pair, retry), then `Ensure` for each instance (read, create, insert the
row, link), then publish; `Kills` deletes the container and then buries the
row. Beside them a user logs in again (`LogsIn`, which writes the same token
columns) and links an instance to any sandbox without a look at what it had
(`Relinks`, `POST /api/instances/{id}/sandbox`). Containers die by themselves,
and a runner that cannot connect marks the row dead.

A request may end in an error at any point (`Fails`), and the hub's process with
all its requests (`HubRestarts`). A call whose answer is lost, late, without an
id or undecodable is the action that takes effect followed by `Fails`: a client
that times out before OpenSandbox has created the container is `Creates`, then
`Fails`. What the request held and had not written is gone with it, and booked
in the history variables `lost` (spent tokens) and `spilt` (containers).

Tokens are numbered as the provider issues them. Of the provider it is assumed
that it honours a refresh token once and answers with the successor, and that a
login leaves other tokens valid; a provider that revokes those would make the
row stale without any write of the hub. Other requests that use
`CallWithToken` do to the tokens what a trigger does.

## 3. Runs

| Run | Checks | Shows |
|---|---|---|
| `one_slot` | `TypeOK`, `SingleTurn`, `RaisedIsHeld`, `TurnHasSlot` | two one-slot runners, two instances, chats, consoles, store errors, long turns, crashes and restarts: an instance runs one turn in the whole system, never outside a slot, and what a runner has raised it holds in the row, through forwards, refused claims and `RequeueStale` |
| `full` | `SlotAccounting`, `TurnsSerialized`, `ReapsOnlyIdle` | a two-slot runner with everything the environment can do: no permit is lost or doubled, one coroutine is inside an instance's lock, and an idle pass unloads nothing of its snapshot that became busy while it waited |
| `settles` | `EventSettles` | with one slot for two instances every Event, chat, console command, raise and stop ends |
| `delivery_safety` | `Resumable` | with two runners and every failure, an unprocessed Event keeps the outbox row that re-publication copies, also when its dedup key was taken by another delivery |
| `delivery_live` | `InMotion`, `EventuallyProcessed` | failed publishes, lost confirms, failed marks and hub restarts never strand an Event, and it is processed in the end |
| `turn` | `ModelSeesAnswered`, `StartsClean`, `RepairOnlyAdds`, `TotalLimit`, `BudgetStops`, `NeverEmptyAnswer` | turns cut off anywhere, repaired or not: no request has an unanswered tool call or one answered twice, a turn starts on a thread that needs no further repair, repairs drop and reorder nothing, and delegations, budget and the retry of an empty answer keep their limits |
| `subagent` | `IdsStable`, `ResolvedIsExecuted`, `ResolvedWasShown`, `StepsOnce`, `WorkAccounted` | a receipt number means one call although the ledger is cut; a citation resolves only to a successful call whose number the child had been shown; every message is captured once; usage and findings of a run that ended are all reported |
| `delegation` | `PermitsConserved`, `OneTerminal`, `LeadNeverQueues`, `ImplementsPool`, `DelegationEnds` | timeouts, grants and cancellations in every order: permits are conserved, `AdmissionPool` is implemented, a delegation ends with one terminal event that agrees with the lead's message, and with the configured limits the lead's calls never queue at all |
| `activity` | `LiveExact`, `LiveInJournal`, `ConcludedOnce`, `TaskStory`, `StreamsEnd` | whenever a reader joins it sees every frame of its turn once and in order; the journal agrees with what was live; an Event's turn says once how it ended; streams end |
| `results` | `ReadsEventCommit`, `VerdictSound`, `ReportKnowsConfirmed`, `AttachedIsStored` | turns over a clone that earlier turns left anywhere: the agent reads its Event's commit, a finding marked older than the Event is, and a report attaches what was confirmed before it was asked for |
| `provisioning` | `TokenKept`, `Reclaimable` | two requests refresh a token, log in, provision, link and kill two sandboxes while requests, the hub and containers end between any two calls: no write puts a spent refresh token into the row, and a running container is lost only by the request that had not yet written its row, or by a runner that gave it up |
| `two_slots_single_turn` | `SingleTurn` violated | section 4 |

Eleven more configurations are kept to reproduce the counterexamples of section
4; they are no runs of `PROJECT.json`, and TLC ends each of them with a
violation:

| Configuration | Module | Violates |
|---|---|---|
| `SingleTurnPartition.cfg`, `SingleTurnHubStop.cfg` | `MCRunnerService` | `SingleTurn` |
| `ProcessedTwice.cfg` | `MCRunnerService` | `ProcessedOnce` |
| `SlotlessTurn.cfg` | `MCRunnerService` | `TurnHasSlot` |
| `UnloadsFresh.cfg` | `MCRunnerService` | `UnloadsIdle` |
| `LostSlot.cfg` | `MCRunnerService` | `SlotsReturn` |
| `FailedTurn.cfg`, `LostMessage.cfg` | `MCDelivery` | `EventuallyProcessed` |
| `LostFindings.cfg` | `MCSubagentRun` | `ResultKeepsFindings` |
| `EndlessStream.cfg` | `MCActivityFeed` | `EveryStreamEnds` |
| `WrongOrigin.cfg` | `MCTurnResults` | `OwnIsInRange` |

Of the type invariants that of `RunnerService` is checked by a run; that of
`AgentTurn` is proved (`TurnTypes`), and those of `Delivery`, `Delegation` and
`Provisioning` are conjuncts of the invariants that section 5 proves.

### Bounds and why they are enough

* `Tasks` = 3 coroutines with `MaxArrivals` = 3: a queue of waiters behind an
  owner, for the slot or for a lock, plus a stop or an idle pass. The bound on
  arrivals is never the bound on coroutines, so an idle pass finds one.
* Two instances and one or two slots: contention for a slot and contention
  for one instance both happen. Two runners where rows are contended
  (`one_slot`), one where the questions are about a runner's own memory.
* `Objects` = 5: a popped object, its successor and those that coroutines
  still refer to, so a claim always finds an unused one.
* `Keys` = 2 with one in `Skipped` covers Events without a code target.
* `Delivery`: two deliveries that share a key (`delivery_safety`) or not
  (`delivery_live`), two instances, a batch of two, one or two failures.
* `AgentTurn`: three replies in two turns. A turn of three replies reaches the
  budget, repeats a call set, delegates, is cut short by the total limit and
  returns an empty answer twice after a tool; two turns let one repair what the
  other left. A reply has up to three delegations, one more than run at once.
* `SubagentRun`: `MaxTurns` = 6 supersteps are three replies and three rounds
  of tools: a report after two rounds, and a run that is capped after its tools
  (an even limit, like the default 50; under an odd one it is capped before
  them). Two tools with ledger lines of different length and a budget that two
  short lines fill: the ledger is complete or cut, and empty before the first
  stamped result. `CitedIds` = 1..3
  includes numbers that are shown, cut, not made yet and never made.
* `Delegation`: four calls, `max_running` 1, 2 and 4 with a queue of two, so
  calls run at once, wait, are refused, and a waiter stands behind a waiter.
* `ActivityFeed`: one Event and chats, one delegation, one reader: readers
  share nothing but the turn. `MaxWork` = 5 allows two turns or one turn of
  three chunks; one failing insert.
* `TurnResults`: main line 1-2-3-4 and a branch 5 off 2; a push of one and of
  two commits, a first manual run, a pull request, a full scan and a chat. Two
  turns, so one may leave the clone to the other, two agents, two findings, one
  report, one fault.
* `Provisioning`: two requests, an instance, two sandboxes, three tokens, one
  fault: two `Ensure` create a sandbox each, two refreshes present one token, a
  refresh meets a login, and any of them ends half-way. A trigger of several
  instances was checked with two instances and one token.
* The configurations that violate a property are as small as its
  counterexample allows, with the one kind of `Env` or `Faults` it needs.

`full` is too small for the exception named in `ReapsOnlyIdle` to occur;
`UnloadsFresh.cfg` is where it does. `Delegation` was also checked with other
limits (`max_running` 1 to 3, queue of one).

Runs stop when arrivals, replies or turns are used up, so `CHECK_DEADLOCK FALSE`; that the
system does not stop earlier is what `settles` and `delivery_live` check.
Coroutines, handlers and runners are interchangeable (`Symmetry`, safety runs
only); `LocalInstance` identities are not, since `NewObject` chooses one.

### Fairness

`RunnerService!Fairness`: every await returns (PostgreSQL, the model and the
sandbox answer or time out, asyncio schedules ready coroutines); `idle_loop`
runs for ever under `_supervised`; an instance that is left alone reaches its
timeout. It does not assume that anyone stops an instance.

`Delivery!Fairness`: the worker polls every second; the consumer drains the
queue; idle instances are unloaded; the hub scans heartbeats. `Handle` is
strongly fair: a slot becomes free again and again, and the FIFO semaphore
grants it to every waiter in turn, which is what `settles` checks in
`RunnerService`. Not assumed: that a user presses Resume, that a dead runner
comes back.

`Delegation!FairSpec`: the event loop runs every ready coroutine and fires
every timer. That a subagent returns is not assumed: the timeout is what ends
it. `ActivityFeed!FairSpec`: inserts return, the turn's work comes to an end
(`settles` and the limits of `AgentTurn`), and a connected reader keeps reading.
That an orphaned turn is closed by somebody is not assumed.

## 4. Findings and observations

The first of these is a run, the others are the configurations listed in section
3. Each states what a document or a comment says of the code as a property, and
TLC finds a behaviour of the code that violates it.

* *Two slots* (`two_slots_single_turn`). `stop_instance` pops the instance
  before `release_instance`. An Event that arrives in between claims the row
  again (the claim accepts the own id) into a second slot, with a second lock;
  two turns run on one checkpoint thread. `CONTEXT.md:33` allows one.
* *No fence* (`SingleTurnPartition.cfg`, `SingleTurnHubStop.cfg`).
  `RequeueStale` gives the rows of a runner with an old heartbeat to others, and
  the hub's `Stop` sets a row down whatever the runner answered (`app/instance.go:187`). The
  turn of the first runner goes on, and a second one starts elsewhere, again
  against `CONTEXT.md:33`.
* *Processed twice* (`ProcessedTwice.cfg`). `begin_event` is asked before the
  instance lock, so a second copy that passed it waits for the lock and runs
  after the first copy is processed, against the single processing of
  `openspec/specs/runner/spec.md:34`.
* *A turn in no slot* (`SlotlessTurn.cfg`). An Event that awaits `begin_event` is
  seen by no stop: the stop gives the slot back, and the turn runs after it on
  the popped object, although `CONTEXT.md:37` has instances execute in slots.
  `one_slot` therefore excludes `stop`, `hub` and `partition`.
* *A fresh instance unloaded* (`UnloadsFresh.cfg`). An idle pass examines the
  object of its snapshot and then stops whatever the id maps to, be it idle
  (`service.py:407`) or not. `ReapsOnlyIdle` is about objects of the snapshot.
* *A slot lost* (`LostSlot.cfg`). A `release_instance` that raises skips
  `_free.release()`, and the popped instance cannot be stopped again;
  `openspec/specs/runner/spec.md:62` has the slot freed. `SlotAccounting` counts
  these permits (`leaked`).
* *Re-publication* (`FailedTurn.cfg`, `LostMessage.cfg`). The consumer logs that
  the hub will re-publish a failed Event (`rabbit.py:60`); on a live runner
  nothing does until a user resumes it. A message taken with auto-ack by a runner that dies before
  its claim is in nobody's hands, since `RequeueStale` looks for rows the dead
  runner holds. `Resumable` says that a Resume can still bring either back;
  `delivery_live` has no such faults.
* *Findings of an abandoned run* (`LostFindings.cfg`). On a timeout or a
  cancellation the task tool reports a result of its own, which has none of the
  findings the subagent had reported, which `contract.py:78` promises. Their rows
  in `hub.findings` stay.
* *An endless stream* (`EndlessStream.cfg`). A client that leaves between `begin`
  and the `try` (`service.py:321`) leaves a turn nobody closes; its readers wait
  until they leave themselves (`Orphaned` in `StreamsEnd`), not until the end of
  the turn (`activity.py:281`).
* *A wrong origin* (`WrongOrigin.cfg`). Blame at the shallow boundary attributes
  older lines to the boundary commit, so for a range of several commits
  `this_event`, "in the range of the Event" by `blame.py:1`, may be said of lines
  no commit of the range wrote; `VerdictSound` states it for ranges of one.

What the models made visible besides, where the properties are stated so that
they hold and say what is excepted:

* *Journal replay mixes chats.* Rows of chats have no Event, so a reader that
  asks for the latest finished turn (`service.py:359`, `runner_api.py:196`)
  reads the rows of all chats. `LiveExact` is about live readers.
* *Citations of a capped run.* `_harvest` is documented as fail-closed to
  `None` when no reply carries a ledger, but `try_set_terminal` ignores a `None`
  and keeps the receipts the stream had stored. A capped run whose replies were
  shown no ledger (its earlier stamps failed) may therefore have a citation
  resolved that was written before the call it names ran; `ResolvedWasShown`
  names this exception. An empty answer becomes "No response generated", which
  the verdict reads as a claim without citations.
* *Report counts.* The reply of `write_report` names the count of findings at
  its end, the row holds the earlier snapshot.
* *Sandboxes and tokens.* A container whose creator ended before the row was
  written (a lost answer of OpenSandbox, a failed INSERT, the end of the hub) is
  in no list of the hub; a live one that a runner could not reach is marked dead
  (`sandboxes.py:35`), which no operation of the hub kills (`spilt`). A request
  that ends between the provider's rotation and the write leaves a spent token
  in the row (`lost`), and the user has to log in again. Two concurrent `Ensure`
  may create two sandboxes; the second link wins, and the first stays in the
  user's list.

`AgentTurn` shows how far "run" reaches in the limits that are named per run
(`max_total_per_run`; `token_budget.py:1` «Per-run бюджет токенов»). Both count
over the messages of the thread, with fresh middleware each turn: what earlier
turns delegated or spent counts against later ones, and after the total is used
up every later turn of the instance loses its delegations until summarization
drops the old results. `TotalLimit` and `BudgetStops` are stated so that they
hold either way. Truncated tool calls are taken out by the repair before a
turn, so within a turn the next request still carries them.

## 5. Proofs

The theorems hold for every value of the constants: any number of runners,
instances, coroutines, slots, calls, readers, requests, turns and faults, any
commit history, any budget. They assume the named `ASSUME` of their component's
module only (sizes are natural numbers, sets that are counted are finite,
`None` is not an element, and the few facts named below), which TLC evaluates
in every run. Each proof module states an inductive invariant, which
TLC also finds to hold under the component's own configuration.

### RunnerService

**`TypeCorrect`: `Spec => []TypeOK`.** `TypeOK` alone is not inductive: an
action writes `holder[ins]` into `task[t].run`, and pops `local` with the
coroutine's `run` as an index, so the proof needs to know that these are
proper values where they are used. `TypeInv` adds that a running row has a
holder (`HeldRows`) and that a coroutine has the runner, the instance, the key
and the object its `pc` and kind need (`WellFormed`). One lemma per shared
piece (`BecomeOK`, `TakeLockOK`, `AttachOK`, `EnterRaiseOK`, `HandleEventOK`,
`StopInstanceOK`, `UnloadNextOK`), then one step per action.

**`SlotsAccounted`: `Spec => []SlotAccounting`.** The equation
`free + owners + raised + leaked = Slots` is preserved only because a claim
never registers an instance that is already registered (it would overwrite an
object and lose its permit). That is the job of `_raise_lock` and of the second
look under it, stated as `ClaimInv`: a coroutine between that look and the
registration owns `_raise_lock`, and its instance is not registered.
`SlotInv` is `TypeInv`, `ClaimInv` and `SlotAccounting`. The counting argument
is made once: two finite sets that agree except at one element differ by one in
cardinality (`OneElement`), and a step that moves one coroutine and one
instance across the ledger keeps the sum (`Balance`); every action is then
neutral, a settlement, or a move. `leaked` is a history variable counting
the permits a failed release loses, without which the equation is false.

**`Serialized`, `ReapsIdle`**: the property `TurnsSerialized` and the action
property `ReapsOnlyIdle`, in every environment. A crash drops all locks of a runner's
objects, and an idle pass goes by objects, so `TurnInv` adds to `TypeInv` that
a `LocalInstance` belongs to one runner and one instance for life (`OneOwner`),
that a snapshot has one object per instance (`SweepOnce`), and which coroutines
have an object or a key at all (`Plain`). Every action is then one of a few
kinds of step (a coroutine that stays outside the locks, one that enters,
leaves or hands over), each with one lemma.

**`HoldsItsRow`, `TurnInSlot`, `OneTurn`**: `RaisedIsHeld`,
`TurnHasSlot` and `SingleTurn` under `OneSlot`: `Slots = 1`, and `Env` without
`stop`, `hub` and `partition` (crashes, failing calls, chats, consoles and long
turns stay in). The hypothesis is what the code needs: `two_slots_single_turn`
violates `SingleTurn` with two slots and nothing else, and section 4 tells what
a stop from outside, the hub and a partition do. `Alone` adds to `SlotInv` and
`TurnInv`:

* `Rows`: the row of an instance names the runner that raised it until the stop
  of its object has the lock. With one permit the release of one instance
  cannot meet another that is raised (`OneTenant`, from `SlotAccounting`), and
  `RequeueStale` frees rows of runners that are down, which keep nothing
  (`Alive`).
* `Queued`: a lock's queue holds exactly the coroutines that wait for it, each
  once, and a stop stands last. So a stop that gets the lock leaves no turn
  behind it that would run without a slot.
* `Seats`: nobody joins that queue after the stop, because an Event between
  `_raise` and the lock has made its object not idle, and an idle pass pops only
  what is idle.

`SingleTurn` follows: two turns of an instance are on one runner by `Rows`, use
one object by `OneTenant`, and that object's lock admits one of them.

### AgentTurn

`TurnInv` has one part per theorem or two. What a repair does to a whole thread
is the work; filters are written with `FlattenSeq` (`Only`), because the prover
cannot expand the definition local to `SelectSeq`. `FlattenSeq` is a recursive
function: that it exists and takes an element at a time is proved by induction
over sets of numbers, as for `Lengths` below.

**`HistoryAnswered`, `CleanStart`** from `ThreadInv`. A thread is always
`Ordered`: a result stands behind the reply that asked for it, with only results
in between, and a call has one result. It is `Answered` up to its last reply
while the turn runs, and all of it when the model is called. A turn may be cut
off with some parallel results saved, and a repair may fail, so between turns
`Answered` says nothing. `Layout` gives every message of a thread its place
after a repair, with the results it was owed behind it; from it follow that a
repair keeps `Ordered`, answers every call (`RepairFacts`), and changes nothing
when all are answered (`RepairTwice`). A new reply has a new number (`Numbered`),
and a summary cuts a thread that is answered, never between a reply and its
results.

**`RepairsAdd`** is an action property: a repaired thread without the results
for calls that had none is the thread (`RepairAdds`, by induction along it).

**`WithinBudget`** from `BudgetInv`: the replies of this turn that no budget
counted (`Free`) are at most the one that `TerminalResponseMiddleware` took
back, and the counted ones are below the budget when tools run.
**`WithinTotal`** from `LimitInv`, which adds to `TotalLimit` the delegations
that are asked for while tools run, before the thread remembers them.
**`AnswersAfterTools`** from `AnswerInv`: past the terminal hook a reply has
calls or text, and every hook that takes calls away leaves a note.

### Delivery

**`ResumableThm`**: `Base` says that outbox rows are numbered without a gap
(`Ledger`), that the worker marks rows that exist (`Marks`), and that every
`instance_events` row refers to an Event with that dedup key and an outbox row
for that instance (`Grounded`), also when the key was taken by another
delivery. **`InMotionThm`** has the hypothesis `Calm`: among the faults are no
failed turn, no stop and no crash of a runner. Those do drop a message that was
acknowledged on delivery, as section 4 says, and TLC finds the counterexamples;
failed publishes, lost confirms, failed marks and restarts of the hub are all
allowed. `Moving` adds that a row about to be marked has been handed on.

### Delegation

**`PermitsThm`, `OneTerminalThm`, `LeadNeverQueuesThm`.** `Inv` relates
`pc`, future and interruption of a call (`Line`), its events and its reply
(`Tells`), and bounds the lead's delegations (`Lead`). The loops of `Grant`
give to waiters in front only: `MoveUp`'s condition on `ahead`.
**`ImplementsPoolThm`**: `Spec => Pool!Spec`. Every step is a step of
`AdmissionPool` or a stutter: a grant inside a release is the same `MoveUp` as
the release, and a coroutine that picks up its grant changes nothing. The
abstract line is a set with a relation, so what a removal from `waiters` does
is said once (`RemoveAtLemma`).

### SubagentRun

**`IdsStableThm`, `ResolvedIsExecutedThm`, `ResolvedWasShownThm`,
`StepsOnceThm`, `WorkAccountedThm`.** `WellFormed`: a result stands where its
call puts it, so a call has one result, and what any reply was shown is part of
the one numbering of the run (`ReceiptsKept`: what is appended numbers nothing
anew). The holder is a function of the messages and the usage until the run is
over (`Running`). For `ResolvedWasShown` a reply without calls must have been
shown a ledger if there was anything to show (`Asked`, `Shown`), and the proof
attempt showed what that needs: a ledger of one line fits the budget. Otherwise
a *finished* run could be shown nothing, `_harvest` would answer `None`, and
`try_set_terminal` would keep every receipt. `Lengths`, the sum of the lengths
of lines, is a recursive function: that it satisfies its equation is proved
(`LengthsDef`) by an induction over sets of numbers (`Least`, `SetInduction`),
since the library's induction theorems cannot be instantiated here.

### ActivityFeed

**`LiveExactThm`, `ConcludedOnceThm`** from `Inv`: only the last turn is open
(`Turning`); what it has said and is about to say has no conclusion before
closing and ends with one then (`Concluding`), which a stop in the middle of an
emit must not spoil; what a reader got and what waits for it are the turn's
frames, followed by the end mark once it is done (`Reading`).
**`TaskStoryThm`** from `Stories`: the frames published and pending are
together in order and agree with the collector's `tasks`. A stop that drops a
pending frame keeps the order because no later stage follows it.
**`LiveInJournalThm`** from `Journaled`: before a turn is cut off the buffer is
the numbered frames one to one (`Whole`), after it at most one is missing
(`Buffered`).

### TurnResults

**`ReadsEventCommitThm`, `ReportKnowsConfirmedThm`, `AttachedIsStoredThm`.**
`Prepared` follows the checkout to the graph on every path; `Remembered`: a
finding is recorded before its insert is awaited; `Tracked` and `Reported`: what
was recorded has its row, failed or is on its way. `ResultsAssumption` has that
a chat has no commit of its own, as in `chat_stream`.

**`VerdictSoundThm`** for every forest of commits. Lemmas about the walk along
the parents come first, by an induction from a commit's parent to the commit
(`CommitInduction`, over sets of commits): the recursive function of `Visible`
exists (`Walks`), what the clone shows is history (`ShownIsHistory`), and what
it hides lies behind the end of what it shows (`HiddenIsOlder`), so the commit
that blame names is the line's own or a later one, and never the checked out
commit for an older line (`LineBlamed`). The last part needs the commit's
parent in the clone, and the invariant `Cloned` says that `fetch --depth 2` put
it there: past the checkout the Event's commit is not an end of the history.
`Verdicts` adds what a call has found so far (`Asks`: blame gave some of its
lines to a commit below the Event's) and that both caches answer rightly for
the turn's range (`Cached`); deepening in mid-turn shows more and changes no
answer already given.

### Provisioning

**`TokenKeptThm`, `ReclaimableThm`.** `RequestOK`: what a request has at each
of its places; a successor it has yet to write was issued, honoured and is not
in the row. `Apart`: no two requests hold the same successor or insert the same
sandbox, and none spends a token that another has yet to write; so a refresh
never spends what a login or another refresh is about to store. `Rows`: links
and connections name sandboxes that have a row. With the numbering of tokens
(`Tokens`) and the two properties themselves this is inductive (`Inv`); a step
that writes neither tokens nor sandboxes needs one lemma (`Quiet`), and
`DropsOK` has what requests that end take with them.

### Only model-checked

Every invariant and action property that a passing run checks is stated by a
theorem, and so is the refinement of `AdmissionPool`. What stays with TLC is
liveness (`EventSettles`, `EventuallyProcessed`, `DelegationEnds`,
`StreamsEnd`), which needs `ENABLED` and is outside this prover's reach.

## 6. Plan

What is left is to shorten the longer proofs, whose lemmas about sequences
(`Least`, `SetInduction`, the lemmas on `FlattenSeq`) could be stated once for
all modules, and, where the code grows, to model it: a budget that is named
per run but counted per thread (section 4) becomes a property once it is
decided what a run is.

## 7. Not modelled

Connections, builds and defaults (single-row CRUD without a protocol), HTTP
decoding and status codes, clients of external services (modelled where used,
by what they answer), the first sign-up and sessions, `RaiseForRepository` and
the proxying of streams, the console's command wrapper, signature checks and
the matching of patterns (pure string functions with their own tests), prompts,
skills, search tools and report texts, the LangGraph checkpointer and memory
presets (third-party state), tracing and logging, the offline evaluation, the
tunnel relay (a development aid) and the frontend. These keep no state that a
second actor changes between two of their steps. State that they do share is modelled
elsewhere: a login writes the token columns that `CallWithToken` writes, and the
HTTP handler of `POST /api/instances/{id}/sandbox` the link that `Ensure`
writes, both in `Provisioning`; commands of the console and of the agent's shell
change the clone in the sandbox, of which `TurnResults` has only the deepening
(section 2).
