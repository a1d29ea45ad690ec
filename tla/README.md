# Verification of cutex

Cutex runs Codex agents as durable sessions, lets them talk over an Agent Bus, keeps their
assignments in a Task Service and their roster in Agent Management. This directory holds TLA+
models of the parts in which several processes, crashes and retries meet, the TLC
configurations that check them, and TLAPS proofs of the main results.

* `PROJECT.json` lists the components, the runs, a mutant for every checked property, the
  source lines behind every definition, the hazards and the theorems.
* To check a run: `tlc -workers 2 -config <cfg> <MC module>`; to check proofs:
  `tlapm <module>_proofs.tla`.

All source paths below are relative to `src/src/`.

## 1. The system

### Components, their state and how they interact

| Part | State | Operations | Talks to |
| --- | --- | --- | --- |
| Task Service provider, `task_service/provider.rs` | workflows, task revisions, assignments, attempts, send attempts, two notification outboxes, receipts, prepared Worker actions, all in one JSON state | publish, assign, retry, Worker actions (prepare, refresh, execute), reviews, cancel, retry authorization, closure, communication and delivery facts | called by the Agent Bus handlers and the drain; persists through its journal |
| Provider journal, same file | append-only hash-chained journal, snapshot file, lock file | mutate, recover, query, watch | file system |
| Notification delivery, `task_delivery/provider_adapter.rs`, `agent_bus/server.rs`, `agent_bus/queue.rs`, `app_server/bus_bridge.rs` | flags of the drain, in-memory queues and send records, each bridge's batch and pending acknowledgements | drain pass, register, heartbeat, unregister, prune, poll, submit, record, acknowledge | reads the provider's outbox and the seats, writes facts back, submits to native threads |
| Agent Management, `agent_management/*` | project authority, managed agents, Operator grants, one durable record per action | create, replace, close, rotate, grant, revoke, online, offline, restart, query | seat store, session store, runtimes, native bootstrap, bus messages |
| Director seats, `seat/mod.rs` | occupancy and epoch per seat, transfer receipts, one active transfer | bind, transfer, finish | Agent Management, Release rotation, drain |
| Release rotation, `rotation/*`, `cli_app/rotation.rs` | one durable record per rotation with a boundary and a pending step, the release template | request, retry by root, correct, configure, query | seats, session store, runtimes |
| Stage-1 task repository, `task_service/store.rs`, `journal.rs`, `persist.rs` | its own journal, snapshot, recovery intent, subscriptions | transition, load, page, subscribe | file system |
| Task watchdog, `task_service/watchdog.rs` | episodes and reminders per attempt | scan, record delivery fact, prune | provider snapshot, activity projections, bus |
| Ordinary bus messages, `agent_bus/*`, `management/v2/agent_bus_state.rs` | roster, queues, send records, durable message ledger | send, poll, acknowledge, fail, redrive | bridges, federation |
| App-server runtime, `app_server/*` | connection generation, pending requests, activity projection, participants | connect, request, event, stop | native app-server, management |
| Management v2, `management/v2/*` | event log, native requests, archive, usage | append, page, answer, archive | app-server events, HTTP clients |
| Sessions and runtimes, `session/*`, `runtime/*`, `cli_app/*` | session store, archive state, current runtime, launch claims | create, online, offline, close, retire, reconcile | processes, app-server |
| Role revision, `role_revision/*` | one file: who holds a role seat, its revisions, one record per rotation with evidence and unknown outcomes, a table of answered requests | initialize, prepare, candidate, adoption, delivery, acknowledgement, transfer, completion, end, record and resolve unknown | nobody at run time yet |
| Profiles, configuration, catalog, launching, terminal front end, notifications, platform | settings files, terminal state | sequential reads, writes and rendering | user |

`PROJECT.json` "components" has the same list with the modelling status of each.

### What is hard here

* **Crashes between file operations.** The provider appends, syncs, renames a snapshot and
  syncs a directory; the seat transfer, the project commit and the end of the fence of a
  rotation are three commits in two stores.
* **Retries of what may have happened.** Every mutation has an action id that its caller
  repeats after a lost answer; the bridge repeats a message after a lost acknowledgement; a
  bootstrap may be repeated once.
* **Decisions on old reads.** A Worker's prepared action, a Director's read-then-act, a drain
  pass over one snapshot, and a query that releases its locks between two captures.
* **Volatile state next to durable state.** Bus queues, send records and drain flags disappear
  on a restart or with a registration; the outbox does not.
* **Something must eventually happen.** A committed notification reaches its thread, its message
  leaves the queue, a rotation's fence ends, a pending message settles, a reminder arrives, a
  caller that waits for the store gets in.
* **Sagas over other people's state.** A release rotation stops, retires, creates, starts and
  binds sessions between its own commits; each effect may have happened without being reported.

The hazards, each at its line, are in `PROJECT.json`.

### What makes each part correct

* Provider: at most one live attempt; closures agree with how attempts ended and are final;
  what is recorded matches the receipts; a decision applies to the state its caller read;
  every completion is announced exactly once; legacy work stops at the V3 fence.
* Journal: a confirmed action survives everything; an action is applied once; recovery never
  refuses and never starts from anything but the journal; queries are fresh and monotone;
  watches have no gaps.
* Notifications: one recorded as delivered is in some native context; facts about it are
  consistent; nothing committed is forgotten; an acknowledged message was delivered; it arrives.
* Ordinary messages: an answered send is durable; ledger and events never claim what did not
  happen; a pending message settles.
* Agent Management: one native thread per action; the two Director surfaces (seat and project
  authority) disagree only inside a fenced rotation; no two agents with the same specification;
  a `no_write` answer means nothing was touched; fences finish.
* Release rotation: seat, vacancy, fence and record tell one story; a boundary the record claims
  was passed in the world; a rotation that has emptied the seat fills it.
* Stage-1 repository: the next load accepts whatever a stop left; a lost line is recorded once;
  subscribers have no gaps; it implements the same durable log.
* Watchdog: a reminder is earned; its delivery fact finds it; a cancelled one leaves the bus; it
  arrives.
* Role seats: every plan passes the store's own validator; the history is exact; what was
  committed stays true; a rotation can always be finished or given up.

## 2. The models

### `TaskProvider` (with `AssignmentLifecycle`)

State: one variable per table of `TaskServiceSnapshot`, as total functions whose default records
mean "absent", plus `views`, what each seat's occupant last read. A call of the provider runs
under the process and store locks and commits everything in one record, so it is one action; a
refused call is a stutter. Names follow the source: `AssignAndDispatch`, `RetryDelivery`,
`PrepareWorkerAction`, `Start` ... `AbortAttempt` (the arms of `execute_worker_action`),
`AcceptResult`, `RequestChanges`, `FailResult`, `TerminalCancel` (`execute_terminal_action`),
`CancelAssignment`, `AuthorizeAttemptRetry`, `CloseAssignment` and the three `Record...` facts.
`Commit` is `mutate`: the receipt probe, the conflict with a prepared id, and the receipt.
Digests are represented by the values they cover; texts, timestamps and contract bytes are left
out. Replay with the same digest returns the stored receipt and changes nothing: a stutter.

A Director reads and then acts in two calls. `SeatedQuery` is the read; the actions use the
context in `views`, which may be arbitrarily old.

`AssignmentLifecycle` is the promise about one assignment: awaiting acknowledgement, active with
one live attempt, waiting for a retry, closed with a reason. It has no callers, revisions or
receipts. `TaskProvider` implements it through the mapping `LifeMap`, `TriesMap`.

### `ProviderJournal` (with `DurableLog`)

A provider state is the sequence of actions it has applied, which is what the hash chain
authenticates. Each mutating process walks through lock, capture, checkpoint recovery or full
recovery, truncation, append, sync, snapshot rename, directory sync and answer; it can die or
meet an I/O error between any two, leaving a torn line behind. A power loss keeps any prefix of
the unsynced lines, possibly a torn one, and an older or the newer snapshot. Readers run
`query_cancellable` (two captures with the locks released in between) and `watch`; as in the
code they read without a lock while the lock file does not exist. `DurableLog` is an append-only
log with a confirmed set; the journal files implement it.

### `NotificationOutbox`

Composes four parts through which one notification travels: the provider's outbox (facts
guarded by a revision), the drain of the bus process (request, backoff, probe and scheduled flags,
one worker, one pass over one snapshot), the bus (registrations survive a restart, queues and
send records do not), and a bridge per runtime. A completion goes to whoever occupies the
coordinator seat when a pass looks, a follow-up to the assignee. `Mishaps` (restart, crash, leave,
rebind, lost ack, refused submission, unrelated commit) come out of a budget. `Starts` has, for the
start of the bus, what the durable outbox holds, which runtimes the registry file names and are live,
and that budget. Expiry of a send record is unbounded. The native thread is external: it accepts or
refuses a submission and persists accepted ones later, which is all the bridge sees of it.

### `AgentBusMessages`

Ordinary messages from the request to the native context. A send handler reserves an id for its
dedupe key, appends the `messageQueued` event, writes the ledger, queues the message and leaves a
send record, each a step of its own; a redrive pass at start-up or registration queues again what
the ledger has as pending; the bridge polls, submits, settles, records the delivery (event, then
ledger) and acknowledges. The ledger is a file shared by several processes. Bus restarts, runtime
crashes, departures, lost acks, refused and garbled messages and failing ledger writes are mishaps.
The clock moves freely up to `MaxClock` and `Window` is the life of a send record. The receiving
session has one live runtime at a time.

### `TaskWatchdog`

One attempt under the stale-task watchdog. `run_task_watchdog_once` is a pass of four steps (read,
scan, withdraw, queue), interleaved with the Worker, the clock, the bridge, bus restarts and reads
that fail. A reminder is the watermark of its episode and a stage, which is what its ids digest. The
stage also says whom it is for, and each of the two targets has a runtime, a queue and a bridge. A
sweep settles what its native thread has persisted in the order of the queue (`First`); when the store
has dropped a reminder, `record_delivery_fact` fails and the sweep ends there (`SweepFails`). The
poll interval (60 s) exceeds the life of a send record (30 s), so records have expired between two
passes.

### `AgentManagement`

One project with its authority, agents, grants and actions; the Director seat; and the durable
sessions with their runtimes. `execute` holds an in-process and a cross-process lock from its
first read to its answer, so one call runs at a time; within it every durable phase and every
external effect is a step, so a crash may fall between any two, after which the caller sends the
exact request again (`AskAgain`). The administrative bind of a seat takes only the seat store's
lock and interleaves with a running call; `BindAuthority` and `HumanOperator` wait for the lock.
What the code learns when it reconciles an interrupted bootstrap is assumed truthful or
unavailable.

### `ReleaseRotation`

The record of a rotation moves over the eight boundaries of `ReleaseRotationBoundary`. Each call of
the management API runs in a thread, a *frame*, that holds a copy of the record it last read; every
locked access of the seat store and every external step is a step of its frame, so another frame
(a second copy of the request, a retry by root), an administrative bind, a template change, the
death of a runtime or of the process may come between any two. `Reported` lets an external step take
effect without its caller knowing. `RetryRoot`, `Interrupted`, `CleanStart` and `Correct` are the
paths of `retry_root`; `Restart` classifies interrupted records as `open_default` does.

### `TaskRepository`

The stage-1 journal, snapshot and recovery intent with every file operation of a load, a recovery
and a transition as a step of the lock holder. A process stops or meets an error anywhere; a partial
append leaves a tail that a later load turns into intent, truncation, loss record, snapshot and
removal, each of which can be interrupted. A power failure keeps any prefix of the unsynced lines and
what the directory on the medium names. Each process has its own subscribers with a bounded queue.
`DurableLog` is implemented through `Transitions`, the lines without the recovery records.

### `RoleSeatCore` and `RoleSeat`

`RoleSeatCore` has the records, the plan of each of the eleven operations and the validator as
operators over a store. `RoleSeat` is the repository: load, idempotency table, revision check, plan,
validation, rename, directory sync; callers that were not answered and ask again; power failures; a
clock that may step back. A caller offers valid evidence and forged or mismatching ones.

## 3. Runs

| Run | Configuration | What it shows |
| --- | --- | --- |
| `provider_lifecycle` | 1 assignment, task, seat, Worker; 7 actions; 2 attempts; 2 prepared | evidence, outbox and retries match the receipts, decisions are on what was read, refinement of `AssignmentLifecycle` (193 K states) |
| `provider_fence` | 2 assignments, tasks, workflows; legacy and one project; 5 actions | the store's own `validate_state`, legacy work frozen after V3 (74 K) |
| `journal_faults` | 2 processes, 1 reader, 2 actions, 2 records, 1 power loss, fair | what readers see, refinement of `DurableLog`; a call that meets no further fault gets through and releases the lock |
| `outbox` | a completion or a follow-up, 2 sessions with a runtime each, any 2 of 7 mishaps; or both and a rebind; fair | true and consistent facts, exact queues, nothing forgotten, acknowledged after delivery, they arrive, their messages leave the queues (499 K) |
| `agents_admin` | 2 actions out of 17 requests, 3 sessions, 1 fault, 1 administrative step | authorization, answers, no-write, reservations, the two Director surfaces and the fence (1.3 M) |
| `agents_progress` | 2 actions out of both modes of rotation, a close of the successor and a revoke of the predecessor; 2 faults, 1 administrative step, fair | the fence finishes, one native thread per action (656 K) |
| `agents_closed` | violation | a rotation that closes its predecessor can leave its fence for ever |
| `release_rotation` | 1 rotation, 2 frames, 3 sessions; 1 fault, 1 restart, 1 administrative step, fair | one story, true boundaries, the rotation finishes (130 K) |
| `bus_messages` | 2 sends of one text, 2 runtimes of one session, 2 ids, 1 of 7 mishaps, fair | answered is durable, the book is true, every message settles |
| `task_repository` | 2 processes, 4 requests, 1 subscriber with queue 1, 2 faults, 1 power loss | loads accept what stops leave, losses recorded once, gapless watches, refinement of `DurableLog` (865 K) |
| `task_watchdog` | 1 attempt, clock to 3, thresholds 1, 2 events, retention 1, fair | reminders earned, facts find them, cancelled ones leave the bus, they arrive (288 K) |
| `role_seat` | 2 rotations, 3 session references, numbers to 17, 1 fault | plans validate, exact history, committed answers stay true, the seat is freed (39 K) |

### Bounds

* *Provider.* Seven actions reach publish, assign, start, submit, rejection, retry authorization
  and the start of a second attempt, or any shorter history with races in its place. The revision
  ceiling is six, so that the checks at the ceiling happen as well. Two prepared actions make one
  preparation overtake another and the limit bite. `MCTaskProvider` uses action ids in the order of
  their first use, as ids are opaque. The theorems of section 4 have none of these bounds, nor of
  the ones below.
* *Journal.* Two processes, so that one recovers what the other left; two records, so that a
  snapshot can be behind, level or ahead; one power loss at any point, besides any number of
  crashes and I/O errors. No symmetry, as the run has a liveness property.
* *Outbox.* The run has two starts, both with a live coordinator and a Worker that registers later. From
  an empty outbox one transition commits, so each behaviour is about the completion or about the
  follow-up; two mishaps of any kind in any order give the double deliveries. From an outbox with both a
  rebind may come at any point; with the Worker registering only after the first pass, the completion then is ahead of the follow-up in the
  Worker's queue and contradicted. An empty outbox, no live runtime, both commits and a rebind (6.8 M states) keep the
  three invariants and the action property as well; that instance is too large for liveness.
* *Agents.* Two actions suffice for every pair of requests to collide; three sessions allow two
  successions. Longer chains of rotations are not explored. In `agents_progress` the requests and the
  administrative step are the ones that can change what a replay looks for while the fence is up:
  the successor's standing, the predecessor's grant, the authority. Creates, which may be reopened,
  are in `agents_admin`, and `OneNative` is proved for every request.
* *Release rotation.* Two frames are a request and its copy, or a request and a retry. Two
  rotations in a row are not explored; the fence admits one at a time.
* *Bus messages.* Two sends of the same text share a reservation or draw two ids; a window of
  zero and a clock of two readings let every record be fresh or expired.
* *Repository.* Two faults allow a stop inside the recovery from a stop; three also pass
  (5.4 M states). Four requests race for a revision and for a receipt id.
* *Watchdog.* Thresholds of one and three units of time reach both stages and a second episode;
  retention of one makes pruning happen. Two events are the progress that ends an episode
  and the failure of the pass that should withdraw its two reminders; the retention drops one of them
  and the next episode's reminder for the same target is queued behind it.
* *Role seats.* Callers number attempts one after the other; an unknown outcome and its resolution may
  also carry the largest number, after which a rotation cannot be given up. A full rotation takes seven
  revisions, so fifteen allow two. The roots 15 and 17 put the revision and epoch ceilings within reach. With eight revisions, two faults also pass (224 K).

Deadlock checking is off where the system may stop: when every action id or record is used up
(provider, role seats), when every send is used up and settled (bus messages), when every request
is answered and the budget spent (agents, release rotation).

### Fairness

* `ProviderJournal`: weak fairness of each process's steps. A holder runs on, or dies, which
  releases the lock.
* `NotificationOutbox`: weak fairness of the drain thread, the handlers that request a drain,
  the end of a backoff, and the bridges; every request to the bus and each poll tries to schedule
  a due drain. Strong fairness of `Refresh`: the bridge loop checks on each turn whether 30 seconds
  have passed and registers again, between sweeps. The native thread persists what it accepted.
* `AgentBusMessages`: the same for handlers, redrive passes, bridges, registrations and the
  native thread.
* `TaskWatchdog`: the polling thread keeps making passes, the bridge of each target keeps sweeping,
  and its runtime comes back. Events are bounded.
* `ReleaseRotation`: a thread runs until it answers. The rest is the operator: keeps continuing a
  blocked rotation, repairs sessions when asked to, restarts a process that left a running record
  with no thread behind it. Without an operator the code promises no progress after a failure.
* `AgentManagement`: weak fairness of the running call; strong fairness of `Begin`, since a waiter
  on a mutex or file lock gets it in the end; a caller repeats a request that was not answered;
  the Owner restarts sessions that are not retired. Faults are bounded.

### Where the code does not get there

A liveness or safety property that the code keeps except in one situation names the situation as
a definition of its own, next to the property. Each of them is reachable; without it TLC shows a
behaviour that ends there.

* `Orphaned` (`AgentManagement`). A rotation that closes its predecessor retires the only caller
  entitled to replay it; after a stop between the seat transfer and the end of the fence nobody can
  finish it. `agents_closed` checks what `docs/agent-management-provider.md` says of exact replays
  and finds this; it is the entry in "findings". A predecessor that its successor closes is
  orphaned as well.
* `Displaced` (`AgentManagement`). A replay finishes the fence only if it finds what it looks for. After
  the commit that is the authority it wrote, the predecessor's grant and no grant of the successor
  (`provider.rs:2859`): a revoke of the predecessor between the stop and the replay makes every replay
  a conflict. Before the commit it is the predecessor's authority and an active successor without
  a grant. Taking the change back lets the next replay finish.
* `Overlooked` (`NotificationOutbox`). Registration and heartbeat ask for a drain only if the last
  pass found an unavailable target, so a message lost with its queue waits for an unrelated commit
  or a restart, although the start-up comment expects registration or heartbeat to trigger the
  next attempt (`cli_app/agent_bus_server.rs:675`).
* `Contradicted`, `Stuck` (`NotificationOutbox`). A completion delivered to two occupants of a seat gets
  two different delivered actions under one id; the second bridge fails on it on every poll, before
  acknowledging (`bus_bridge.rs:802`), and the messages behind it stay in the queue, in the native
  context and without their delivered fact.
* `Shadowed` (`AgentBusMessages`). While a send record for the same text and runtime lives, redrive
  takes a pending message for queued; it compares with the time the message was sent, so only a later
  send lets that record expire.
* `Wedged`, `Misseated` (`ReleaseRotation`). A second copy of the request that fails on its own blocks
  the record at `SuccessorRuntimeOnline`; the bind then refuses a record that is not running, and no
  retry sets it running. An administrator may also have seated a session that does not exist, or
  the successor as Director.
* `lostBet` (`TaskRepository`). A load syncs what it writes, not what it finds; power lost after such
  a load may leave a snapshot ahead of the journal.
* `forgotten`, `pruned`, `Blocked` (`TaskWatchdog`). A pass that fails between the scan and the
  withdrawal never withdraws what the scan cancelled; a delivery fact that comes after the retention
  dropped its reminder finds nothing, which ends the sweep on every poll, and the reminders behind it
  in that queue stay undelivered to the store until the bus or the runtime restarts.
* `bets`, `Behind`, `NoAttemptLeft` and an unknown outcome of the transfer (`RoleSeat`). A repeated request may be
  answered before the directory is synced; a clock that stepped back blocks every next store until
  it has caught up; an unknown transfer can never be resolved and keeps the rotation open; after an unknown outcome that was
  recorded under the largest attempt number a rotation can go on but not be given up.

Similarly, recovery of the provider's journal accepts a complete line without syncing it and a replay
is answered from it; if its writer died before `sync_all`, a power loss takes it back. What *is*
durable is proved: the action of a committing call that returned `Ok`.

The models also show things no property claims. In the retaining modes `complete_rotation` does not
look at `retired_at`, so a Director that closes itself while the replay of its own rotation waits
for the lock is listed as an Operator after it was retired; `project_management_role` refuses to
use such a grant. Two sends that share a reservation can both write the ledger, and the second
write puts a delivered message back to pending; a redrive then finds it persisted and settles it
again. Both stages of a reminder can be created in one scan, although the text of the second says
that the attempt "remains inactive after the Worker reminder".

## 4. Proofs

TLAPS proves the following for every value of the constants that satisfies the named assumptions.
They say that ceilings, budgets, clocks, windows and thresholds are naturals, that `None` is not an
identifier, and how the constants of a module fit together: `BoundsAssumption` and `NoneAssumption`
of `TaskProvider`; `JournalAssumption`; `OutboxAssumption`, `AgentAssumption`, `StartAssumption`
and `NoneAssumption` of `NotificationOutbox` (the outbox lists each notification once, a runtime
belongs to a session); `RequestsAssumption`, `SizeAssumption` and `NoneAssumption` of
`AgentManagement` (requests have the shapes `AgentManagementRequest` admits); `RepositoryAssumption`,
`RequestsAssumption` and `NoneAssumption` of `TaskRepository` (requests are transition envelopes, a
queue holds at least one line); `SessionsAssumption`
and `BoundsAssumption` of `ReleaseRotation`; `BusAssumption` and `BusNames`; `WatchdogAssumption`
(both thresholds are positive). No theorem is about a bounded number
of actions, sessions, runtimes, faults, restarts or readings of a clock.

* `TaskProvider_proofs`: `TypeCorrect`, types and resolvable references (`Linked`). References are
  part of the induction because a Director's action goes from an assignment to its task revision and
  workflow, and the types of what it writes depend on what it finds there. The inductive invariant
  is then `IInv == TypeOK /\ Linked /\ OneLiveAttempt /\ ClosureAgrees`: each operation is shown
  to be a lifecycle step or a stutter (`NextLifeStep`), and each lifecycle step to keep an assignment
  sound (`SoundStep`). From these follow `LiveAttempts`, `Closures`, `Refinement`
  (`Spec => ImplementsLifecycle`) and `ClosedFinal`.
  The second half of the module shows that the tables agree with each other and with the
  receipts. The fourteen operations on an assignment are all of the form `Acts(id, op, a, b)`, which
  says table by table what such a commit does; the other steps are of ten kinds (`StepKinds`).
  Records only grow (`Grows`): a receipt stays, a prepared action keeps what it was prepared on, a
  revision never falls. So a fact recorded earlier stays true and only what the step records has to
  be checked. The inductive invariant `RInv` adds to `IInv` what a prepared action and a Director's
  view may still claim (`PreparedTrue`, `ViewsTrue`, `PreparedFew`), what a record implies for the
  records it refers to (`AssignmentFacts`, `AttemptFacts`, `SendsTrue`, `ProjectsAgree`), and which
  receipt each notification, follow-up, attempt and retry rests on (`NotesTrue`, `FollowupsTrue`,
  `ReceiptsBound`, `AttemptsEvidenced`, `RetriesCounted`). The old reads need it most: a prepared
  action or a view is bound to a revision, and `PreparedTrue` and `ViewsTrue` say that while that
  revision is the current one the attempt still is what was read, and that it is never ahead
  of the attempt. Theorems: `TablesAgree`, `DecidedOnWhatWasRead`,
  `AlwaysValid` (the store's own validator never refuses what an operation wrote), `ExactEvidence`,
  `OutboxExact`, `LegacyFrozen`.
* `ProviderJournal_proofs`: the inductive invariant `FullInv` says that journal line `i` is the
  history of length `i` and extends the line before it (`Nested`); that a process past recovery
  holds the state of the last line and knows whether it is torn and synced (`Knows`); that every
  line a power loss can fall back to contains everything confirmed (`Kept`); that no
  history repeats an action (`AppliedOnce`); and that what a reader has seen is a beginning of the
  journal containing what was confirmed when it asked (`Informed`). `ConfirmedSurvive` alone is not
  inductive: it needs `Kept`, and `Kept` needs to know that the process about to confirm has
  synced. From it follow the listed theorems, types included, among them the refinement of `DurableLog`.
* `TaskRepository_proofs`: the refinement of `DurableLog`, `AlwaysLoadable`, `TornAppendsAreRecorded`
  and `SubscribersMissNothing`, for any number of processes, faults and power failures. `Core` has the
  types and, in `CallInv`, what each file operation finds when its turn comes: for example that the tail
  is gone and the intent still fits when the loss is recorded. On it rest four inductive invariants, one for each question.
  `JournalInv`: the journal replays, and what is confirmed is a line on the medium (`Kept`); an append
  replays because it was planned on the store of exactly these lines.
  `LoadInv`: `Loadable` speaks of the files as they are, but a power failure shows those on the
  medium and may cut the journal anywhere above what is synced. So the snapshot and intent
  must fit every such journal (`Firm`), and that holds only for a call that found everything
  on the medium and has synced what it wrote since, up to its last line (`Clean`); where a load took
  unsynced files for durable, only `Fits` remains.
  `LossInv` counts recovery records and what still waits for one; it needs to know that a tail without
  an intent is a torn transition, so that a torn record is not counted again.
  `WatchInv`, with `HubInv` for the process in the middle of a transition: each subscriber has all it is
  owed up to what its process has observed, which is never ahead of the journal.
  The store and `Transitions` are recursive functions over the journal. That they exist, and what an
  append or a cut does to them, is proved from the least position at which it would fail
  (`LeastNat`, `FoldExists`).
* `NotificationOutbox_proofs`: `FactsOneStory`, `QueueExact`, `NothingForgotten` and the action
  property `AckedAfter`. They are proved together, since each rests on the others: the drain works on
  a snapshot that is only behind (`SnapshotIsOld`), sends what that snapshot has undelivered to a
  runtime of the right session (`SendsPending`), and has settled everything behind it, while what
  was committed since still has a request of its own (`PassIsThorough`); facts are true
  because a bridge records a delivery of what its thread persisted and acknowledges, or acknowledges
  again, only what is recorded (`BridgesAreHonest`). Removing
  from a queue is the recursive function `Without`; what it keeps and drops is proved from the least
  length at which it would fail.
* `AgentBusMessages_proofs`: `AnsweredDurable` and `BookTrue`. The induction follows a message along
  its way: a handler has written what its position says (`Handlers`), a send record names a recorded
  message and a reservation some id (`Sends`), only messages that the ledger has are queued, polled or
  redriven (`Queues`), and a bridge that is about to record a delivery has seen it persisted
  (`Settling`). The clause about queues is what lets a delivery be recorded at all: the entry is there
  whichever handler or redrive pass put the message into the queue.
* `ReleaseRotation_proofs`: `SeatTellsOneStory`, `ClaimedBoundariesPassed` and `RecordsMoveOn`, for
  any number of rotations, frames and sessions. A frame decides on the copy of the record it last
  read; `Calls` says that a copy is only older than the record, never contradicts it, and which
  external effects its holder may still report, and that these have happened. `RecordsAgree`
  relates the fields of a record, `Heirs` says that a successor that has become a predecessor has its
  thread, and `Dead` that a retired session stays down: without them a late report of an old
  thread start could make a later boundary untrue.
* `AgentManagement_proofs`: `Invariant`, `NamesStayApart`, `NoWriteClean`, `SurfacesAlike`,
  `OneNative`, `AnsweredAgree` and `EffectsAuthorized`. One call runs at a time, but it may stop after
  any step and be repeated, so the invariant relates the durable phase of an action to the stores
  (`Records`, with `Fits` for each kind of request), to the running call (`CallFollows`), to the
  sessions (`SessionsExist`) and to the authority its caller had (`Authorized`). The two Director
  surfaces agree because the seat receipt of an unfinished rotation is fenced (`FencedReceipts`).
  Agents stay apart because unresolved actions do (`NamesApart`) and because the name of one that
  passed the collision check stays free until its agent is registered (`NamesFree`).
* `TaskWatchdog_proofs`: `Earned`, `FactsFind` and `CancelledLeave`. The difficulty is the scan on an
  old view: `Informed` and `Past` say that a watermark is never behind what an earlier scan saw and
  that retired reminders are of earlier episodes than any reminder to come, so ids do not come back;
  `Aged` and `Anchored` tie reminders to their episode; `OnTheWay` follows a cancelled one to the bus.

Only model-checked: `PlansValidate`, `HistoryIsExact`, `ConfirmedStaysTrue` and `SeatIsFreed` of
`RoleSeat`, the only safety properties of a run that no theorem states; and every liveness property
(`CallsGetThrough`, `EveryNotificationArrives`, `SettledMessagesLeave`, `FencesFinish`,
`RotationsFinish`, `EveryMessageSettles`, `RemindersArrive`), since TLAPS does not reason about
fairness and ENABLED. The first and last of `RoleSeat`'s properties quantify over everything a caller may ask of a
store and would need the validator proved against each of the eleven plans.
`OneLiveAttempt`, `ClosureAgrees`, `ClosedIsFinal` and the invariants of the journal
that `DurableLog` implies are proved and no longer listed in a run of their own.

## 5. What is not modelled

* Notifications and Agent Management: the branch of the drain taken when the bus state itself is
  unavailable, and the quarantine of an envelope that does not validate;
  `import_legacy_director_ownership`, `reconcile_agent_reservation`, the retry after an offline
  continuation, the audit events, several projects at once, the Owner's restoration of a retired
  session, and failures of its own store's file.
* Release rotation: the assignment check and the execution fence of the bus process, which lets go
  after the five-second timeout of its HTTP client while the rotation runs on; the contents of the
  template and of the starting message.
* Bus messages: groups, other hosts, the audit log, the migration of the first ledger format, the
  comparison of payload digests.
* Files: temporary files left behind, digests, permission checks. Readers of the role-seat store that
  do not take its lock.
* Whole parts: see the components with status `not_modelled`. Terminal front end, argument parsing,
  profile and configuration files, HTTP plumbing and platform calls are input and output around
  the stores and stay out; they are more than half of the source. The others are in the plan.

## 6. Plan

Done: the modules of section 2 and the proofs of section 4. In this order:

1. Proofs about `RoleSeat`: `ConfirmedStaysTrue` first (every store in `disk` was validated and the
   table of answered requests only grows along it), then `HistoryIsExact`.
2. `AssignmentDelivery`: the dispatch of an assignment or a retry, with `BusQueued` and
   `ContextInserted` facts from two processes against `TaskProvider`'s send attempts.
3. `SessionLifecycle`: session store, runtime claims, stop, duplicate resume, archive.
4. `AppServerRuntime`, `ServerRequests`, `ManagementEvents`: connection generations, a request
   answered once, cursors and retention.
5. `TaskActionStore`: the bus-side ledger of Worker actions.
