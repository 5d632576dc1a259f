# Core Hub: a verification development

Core Hub is a self-hosted server, one Node process with one SQLite database, that runs AI
agents for people: it keeps their conversations, drives the agents' turns, fires schedules
and workflows, and keeps boards of tasks, rooms of agents, devices and jobs. This directory
holds TLA+ models of the parts whose order of steps matters, the TLC configurations that
check them, and proofs checked by TLAPS. All the paths below are under
`src/packages/server/src/modules/` unless they begin otherwise.

How to run it: `tlc -config RunEngine.cfg RunEngine` (the module and the configuration of
each run are in the table of section 4), `tlapm RunEngineProofs.tla`.

## 1. Inventory

**What one step is.** The process has one thread. Code between two `await`s (with every
database call in it: the driver is synchronous) runs alone; at an `await` any other request,
timer or adapter frame may be served. So in every module one action is one stretch of code
between two awaits. What is in SQLite survives a restart, what is in maps and promises does
not, and a restart may fall at any await.

| Component | State | Operations | Meets | What is hard | What makes it correct |
|---|---|---|---|---|---|
| **Run engine** `sessions/engine.ts`, `run-reducer.ts` | `chains` (a promise per session), `active` (a reducer state per run); rows of runs, approvals, jobs | `kick`, `drain`, `execute`, `finalise`, `requestInterrupt`, `resolveApproval`, `expire`, `exclusive` | adapters (a stream of events), the service, the audit module's jobs | every request may fall between the four awaits of `execute`; the row says `queued` until the third | turns of a session are serial; a run is started once; every run ends and is said to have ended; a stopped run never succeeds |
| **Sessions service** `sessions/service.ts`, `store.ts` | sessions, messages, runs | `createRun`, `cancelRun`, `respondApproval`, `compress`, `remove`, `recoverStaleRuns` | the engine; tasks, schedules, rooms and workflows start turns through `startTurn` | lists of runs read before awaits | no live run without a driver; rows follow the reducer |
| **Realtime journal** `sessions/journal.ts`, `realtime.ts` | a ring of events per session, sequence numbers | append, replay, forget | clients that resume | a restart begins the numbers again | a client is never told it is up to date when it is not |
| **Scheduler** `schedules/scheduler.ts`, `schedule-runs.ts`, `service.ts` | `next_run_at`, `repeat_count`, the history; the follow-ups in memory | look, claim, fire, hold, release, stop, settle, settle at boot, run now, edit | the sessions module (a turn per firing), the workflow engine | rows read at the start of a look; runs that end during a stop; lines left open by a restart | a time is claimed once; a line ends once; no time waits for nobody; the limit holds |
| **Workflow engine** `schedules/workflow-engine.ts`, `service.ts` | rows of runs and steps, approvals, the place written at a gate; a walk per run in memory | start, a step's work and its end, pause at a gate, answer, cancel, delete, fail what a restart cut | sessions (an agent's turn), approvals, the trigger desk | the walk awaits while people cancel, delete, answer; gates outlive restarts | a step works once; one end, told once; who waits is asked; the budget outlives a gate |
| **Triggers** `schedules/trigger-desk.ts` | the log of deliveries, the keys seen | receive, link, settle, reconcile | the workflow engine | the same event twice; a run that ends unheard | an event starts one run while it is remembered; the log is true |
| **Tasks** `tasks/service.ts`, `runs.ts`, `index.ts` | rows of tasks and of what they wait for; the runs followed, the runs the hub started, the pass in memory | start, settle, move, stop, reassign, archive, delete, the auto-start pass, restart | sessions (a run per start) | rows read before awaits; a move while the run ends | a stopped run has no task; an end moves its task; the places hold |
| **Rooms** `rooms/conductor.ts`, `context.ts` | chains and messages in rows; the turns followed in memory | post, start, end, hand off, continue, stop, remove, restart | sessions (a session per seat) | a chain continued while its older turns go on; a seat that leaves under a turn | no chain is active with nobody at work; handoffs are bounded; no reply streams for ever |
| **Webhook queue** `notify/webhook-queue.ts`, `index.ts` | webhooks and deliveries in rows; one timer and the attempts in memory | dispatch, test, redeliver, tick, attempt, retry, switch off, delete, stop, boot | outside HTTP | a row written from what was read before the request; a stop during an attempt | the timer is set while anything waits; tries are bounded; counts match; every delivery ends |
| **Jobs** `audit/jobs.ts`, `service.ts`, `index.ts` | job rows; the runner's promises and `cancelling` in memory | start, finish, cancel; the sessions write the jobs of their runs themselves | every long operation | a cancellation against the end of the work; one row, several writers | a row is open while its work goes on; a function asked to stop is no success; a run's job says how the run ended |
| **Auth** `auth/setup.ts`, `pairing.ts`, `lockouts.ts`, `step-up.ts` | codes, windows, counters | claim, pair, fail, unlock | clients | deadlines, repeated attempts | a code is used once |
| **Device requests** `devices/requests.ts`, `index.ts` | rows of requests; waiters, timers and early ends in memory | ask, answer, expire, cancel, unlink | phones and desktops; the jobs | answer, deadline, reader and cancellation end one row; timers die with the process | a request ends once, and its job with it and alike; nobody waits in vain |
| **Push, relay, linked hubs** `devices/push.ts`, `relay.ts`, `peers.ts` | tokens; rows of other hubs, invites | push; invite, request, approve, call, unlink | the push relay, other hubs | lost and late calls between hubs | both sides agreed to a link |
| **Models and gateway, agents, knowledge, updates, plugins, terminal** | configuration, files, child processes | requests translated, packages installed, files stored | providers, the file system | little ordering of their own | about data |
| **Push relay, clients, CLI, contracts, site** | none, or a view of the server's | | | | outside the models |

How they interact: every way to make an agent work (a chat message, a task, a schedule, a
workflow step, a room's seat) ends in `SessionsService.createRun`, so the run engine is the
core, and what other modules rely on is that a run they started ends (`done`), once.

The hazards, each at the line where it bites, are the `hazards` of `PROJECT.json`, with the
properties that cover them. What follows is known besides, and no property denies it:

- `tasks/index.ts:633`: the auto-start pass goes on with the rows it read before its awaits.
  Whatever people did meanwhile, a stale start loses no run, brings no task back and takes no
  place too many (`KeepsBoard`, `PlacesHold`); but a task that a person stopped or switched
  off meanwhile is started by the hub, though `tasks/service.ts:800` says that it does not
  start again by itself.
- `sessions/engine.ts:313`: the deadline of an approval calls `void this.expire(...)`; when
  the approval was deleted with its session, the promise rejects in a timer and nobody
  catches it (`Expire` keeps the step, so that every property is checked across it).
- `sessions/store.ts:613`: a restart fails the runs it cut and leaves their jobs `running`, and
  so it leaves every other open job, a device request's with it: no code does what
  `src/docs/domain/README.md:294` says of stale heartbeats (`cut` in `JobRunner` is this set).
  It cancels the approvals that are pending only when it found a run to fail, so one that an
  ended run had left (engine_approval) may outlive it. `EveryLiveRunIsDriven` speaks of the
  runs and of neither.
- `audit/jobs.ts:121`: the job of a session's run that is still queued is written `cancelled`
  when somebody cancels it, though the run goes on; the run's own end is written over it. So
  a terminal job may change, which `src/docs/domain/README.md:293` denies, and until the run
  ends its job may say what is not so: `JobFollowsWork` speaks of runs that have ended.
- `audit/jobs.ts:88`: a function that does all its work after somebody asked it to stop is
  written `cancelled` and its result is not stored: the runner looks at its set and not at whether
  the work took notice. `src/docs/domain/README.md:306` has the arrow
  `cancelling --> succeeded : finished before cancel took effect`, which no function's job
  takes; only the job of a session's run does, whose end is written over whatever its row
  says. `JobFollowsWork` (`EndTellsIfAsked`) and `Settlement` say what the code does.
- `devices/requests.ts:405`: a job is asked to stop and the device fulfils before the next
  poll: the request is `fulfilled`, its job `cancelled` (`JobFollowsRequest` allows it),
  against the comment at `requests.ts:6`.
- `devices/peers.ts:486`: the limit of linked hubs is asked before the other hub is called and
  not after: two requests at once may pass it. `peers.ts:386` says that a hub which was not
  told of an end "learns on its next call"; it is refused, and its row stays linked.
- `schedules/service.ts:290`: an edit computes the next time from now; a time that is due and
  not yet claimed is passed over. `schedules/scheduler.ts:132`: a schedule paused while
  `stop` awaits fires once more.
- `schedules/schedule-runs.ts:235` against `service.ts:734`: a schedule limited to N
  successes that holds a time back runs it after the Nth, one run too many.
- `schedules/trigger-desk.ts:305`: a run that ends before its delivery is linked leaves a
  line that says `run_started` until the log is read.
- `tasks/service.ts:688`: archiving many tasks leaves the run of each going, while archiving
  one stops it. Deleting what a task waits for, or archiving it with many others, starts no
  pass: the task waits for the next one. `src/docs/domain/tasks.md:26` speaks of paused
  projects, which no code holds.
- `rooms/conductor.ts:621`: `stopSeat` looks at the turns it follows, and a turn whose start
  is awaited is not among them yet, so it goes on. `conductor.ts:164`: the number of the last
  message a seat saw may go back, and messages are shown to it again.
- The webhook routes call a test "one try, no retries", but a test cut short by a crash is
  found in the queue at the next start and is tried like any other; the docs call
  `failure_count` consecutive and the cause of switching a webhook off, the code does
  neither; a redelivery makes a new row.

## 2. Plan

Done, in this order: the run engine with its abstract specification and proofs; the
scheduler with its proofs; the workflow engine and the trigger; the tasks; the webhook
queue; the rooms; the proofs of each; that the run engine implements `RunLifecycle`; the jobs
and, on top of them, the device requests, with their proofs; an abstract specification of
every other component, and the proof that the component implements it.

Left, in this order: `LinkedHubs` (two hubs that link over calls that may be lost or late);
`ResumeJournal` (sequence numbers and windows across a restart); `Pairing` with `Lockouts`
(one use, deadlines); the composition of tasks, rooms and workflows with `RunLifecycle` by
INSTANCE in place of the small machine of a run each of them carries.

## 3. The modules

Each component's module stands alone, but for `DeviceRequests`, which extends the jobs' module: what it needs of the sessions module is that a run it
asked for starts or is refused, ends once in one of three ways, and ends `failed` when the
hub stops, which the run engine's properties show of the engine.

| Module | What it is |
|---|---|
| `RunEngine`, `RunLifecycle` | the run engine; the lifecycle it promises |
| `RunEngineInv`, `RunEngineProofs`, `RunEngineKeeps` | its inductive invariant; its types and its safety, and its refinement, proved |
| `ScheduleRuns`, `ScheduleHistory` | the scheduler; what its history promises a reader |
| `ScheduleRunsInv`, `ScheduleRunsProofs` | its invariants; its proofs |
| `WorkflowRun`, `WorkflowLife` | workflow runs and the trigger; what the runs promise |
| `MCWorkflowRun`, `WorkflowRunProofs` | a drawing to check them on; their proofs |
| `TaskRuns`, `TaskBoard` | a board and its runs; what the board promises of both |
| `MCTaskRuns`, `TaskRunsProofs` | symmetry; their proofs |
| `WebhookQueue`, `Outbox`, `WebhookQueueProofs` | the webhook queue; what it promises of a delivery; its proofs |
| `RoomTurns`, `Handoffs` | the turns of a room; what it promises of the turns that are passed on |
| `MCRoomTurns`, `RoomTurnsProofs` | symmetry; their proofs |
| `JobRunner` | the rows of long work and who writes them |
| `DeviceRequests`, `Settlement`, `DeviceRequestsProofs` | device requests with the jobs that wait for them; what asking promises; the proofs of both |

### RunEngine

State: the database (`session`, `home`, `row`, `ahead`, `job`, `ask`), the process (`pc`,
`link`, `mem`, `stop`, `memAsk`, `chain`, `done`, `sweep`) and what the world has seen
(`starts`, `ended`).

- A run's `pc` is where `createRun` or `execute` stands: `finding` (the agent is looked up),
  `tracking` (the folder is recorded), `starting` (`runner.start`), `live` (the events are
  read), `finalising`. `lost` is a run whose `execute` threw outside its `try` with the run
  still in `active`.
- `chain[s]` is the promise chain: `kick` and `exclusive` append a link; link `done[s] + 1`
  runs. A drain link takes the oldest queued row again and again.
- `ahead` is the order of `createdAt` within a session: `when: next` overtakes the queue,
  and the time it is given (the earliest queued time less one millisecond) may even fall
  before the run in hand.
- `mem`, `stop`, `memAsk` are the reducer's `RunState`: status, interruptRequested,
  approvals.
- `sweep[s]` is `remove` in progress: the runs it read at the start and the one whose
  interrupt it awaits.

Choices that a reader should know of: `createRun`'s await of the agent comes before
anything is stored, so one action at the time of storing is exact; archiving a session stops
its runs by `CancelQueued` and `CancelActive`; a second deletion of a session during the
first is left out; the contents of a turn are left out (frames only liven); a job is
cancelled with its run here, and through the jobs' own route in `JobRunner`. `finalise` awaits
file work before its one stretch of writes; the row of timings it writes first has no
status.

### RunLifecycle

What the engine promises: each run moves along the arrows of the documented machine
(`src/docs/domain/README.md`, section "run"), one turn at a time in a session, a session
deleted with its runs. `RunEngine` shows it with a refinement mapping (`statusBar`,
`closingBar`) under which a run that `execute` holds is seen as its reducer sees it.

### The other abstract specifications

Each says what somebody outside may rely on, in the states that this person can see; the
component's module maps its own state to them in an `INSTANCE` at its end. They are safety
specifications: that a thing happens at all is a liveness property of the component.

| Specification | Mapped from | What it promises | What it hides |
|---|---|---|---|
| `ScheduleHistory` (`KeepsHistory`) | the lines, as `Shown` | lines come in order, the schedule's own for ever later times and none past the limit; a line ends once; a time is held only behind an open run and opened only when none is open | looks, claims, stops, starts and their awaits, the clock, edits, the counter |
| `WorkflowLife` (`KeepsLife`) | the run's status, its walk, what was told and worked, the pending gates | a step works once, one at a time asks; a run ends once and says so once; a restart cuts what worked and nothing else | the drawing, the place, the budget, the trigger and its log |
| `TaskBoard` (`KeepsBoard`) | columns, `WorksOn`, the runs and who follows them | a task comes on a run of its own that nobody stopped and leaves it for a cause; the end of a run that is followed moves the task that works on it where the end says | dependencies, switches, the pass, its places; the run a task keeps outside `running` |
| `Outbox` (`KeepsOutbox`) | the rows, as `Seen`, and what the endpoint saw | an accepted delivery is posted until one arrives or it is given up; a try is counted at most once; what is over stays; rows go with their webhook | the timer, leases, batches, what an attempt read, the process, edits |
| `Handoffs` (`KeepsHandoffs`) | replies, who passed a turn to whom, chains | a reply opens and closes once; a turn is passed by a complete reply, on an active chain, the way it was not passed before, no oftener than the depth; a chain ends for a cause; a person lets a stopped one go on once | the awaits of a start, what `held` follows, the guard's row (`depth`, `visited`), who sits where |
| `Settlement` (`KeepsSettlement`) | the request rows, the jobs, as `Told` | a request ends once, by an answer in time, its deadline or a cancellation that was asked for; whoever waits learns that end, once | waiters, timers, early ends, readers, `cancelling`, promises |

In `TaskBoard`, `Outbox`, `Settlement` and `WorkflowLife` one step may move several things at
once, because a tick, a deletion or a restart does; each of them moves in one of the ways
named. `Handoffs` and `ScheduleHistory` have at most one turn, or line, that comes in a step.

### ScheduleRuns

One schedule with a prompt target. `line` is the history (`schedule_runs`), `turn` what the
sessions module says of the run of each line, `look` the locals of `HubScheduler.look`
(with the row as it was read), `pc` the firing of each line (`starting`: `ports.start` is
awaited; `following`: its `done` is). The unit of time is the period: the schedule is due at
every value of the clock, and `nextFor` answers the next value. `Look` and `Claim` are
apart because the schedules before this one in the same look await. `tick = None` is an
instant at which no time is due (nearly every press of "Run now"). Awaits that cannot change
anything are merged; a target that is refused at once is `StartFails` without a pause before
it. Not here: workflow targets, the deletion of the schedule, a changed repeat limit, cron
and time zones, Hermes's schedules.

### WorkflowRun

A run (`run[r]`) is its rows (`status`, `place`: what `pauseAtGate` writes, `step`, `gate`),
its walk in memory (`walk`, with the flag of `cancel`) and what the world has seen (`worked`,
`paid`, `told`). The engine's loop between two awaits is a function of that record:
`WalksOn` goes to the next step's work, a gate or an end; `Finished` is what follows a step,
`Resumed` what follows an answer. `line` is the log of the trigger, `seen` the keys it
remembers, and every end that is announced settles the lines of its run (`Becomes`).

A row `gone` is deleted; its walk goes on until it writes a step's row, which throws. The
status `interrupted` is the code's `failed` with the message of a restart, kept apart because
it is the one end nobody announces. `RemoveOwner` is here because an answer is carried out
as the run's owner: without that user nothing takes it. Left out: what a step sends and
remembers, retries within a step, refused signatures and rate limits, the trimming of the
log, alerts, a failure to raise an approval (the step fails as any other), the schedule's
line of a run (only `told`), edits of the drawing under a run (a run keeps its copy). A
condition settles in microtasks; the model lets others in, which is more than happens.
`src/docs/domain/README.md:263-290` describes steps that are interrupted, timed out and
paused in a way the code does not have; the model follows the code.

### TaskRuns

`task` is a row (column, current run, switch, agent, stamp), `waits` its dependencies, `run`
a run from the start's first await (`asked`) to its end and to what `settle` makes of it
(`follow`), `auto` and `pass` the hub's own starts: the runs it counts against its places
and the rows the pass still has to come to. A pass starts what it read ready, one after the
other, each start awaiting; `looks` is the pass that waits behind. The statuses that differ
in no guard are one (triage with `todo`, scheduled with `review`), the order in which a
pass takes its tasks is left open, opening a session and writing the run is one stretch, and
a run whose session is deleted counts as failed. Left out: Hermes's cards, the dispatch job,
worktree rows, the watchdog, moves between projects. A person may drag a task to `running`
while its run has ended: it stays there until the hub restarts.

### WebhookQueue

`hook` and `row` are the tables, `sending` what an attempt read before its request, `timer`
the one timer, `phase` the process (`closing`: `stop` was called and waits for the attempts).
A time is what remains of it, so that time passes without a clock; the lease is the time an
attempt pushes its row by before it posts. `posts` and `lost` observe the endpoint. The
filters by profile, subscription and owner are a choice of webhook; an event for several
webhooks is several dispatches; a tick takes any due rows up to `Batch`, where the code takes
the oldest; no code sets `archivedAt`.

### RoomTurns

`turn` is a turn from the await of its start (`asked`) to `finish`, with its reply; `chain` a
row of handoffs with its depth and the pairs it visited; `held` the turns this process
follows. The guard of `context.ts` is `Judge`: the pairs seen and the cap. A post is one turn: one for several seats is several posts. The runs that `stopSeat`
and `stopRoom` cancel may end in any way at any time, as any run may. Left out: what a seat
is shown (prompts, summaries, `seenSeq`, tokens), the seat's status, the deletion of the
room, the pruning of old chains. When the bound on turns is used up a reply mentions nobody.

### JobRunner

A job is a function the runner follows (`Functions`) or a session's run (`Streamed`). `work[j]`
is the function's promise: while its continuation is due (`done`, `failed`) nothing else is
served (`Calm`), because it is a microtask; `cancelling` is the runner's set, `asked` the rows
with `cancel_requested_at`. Of a session's run only what its job shows is kept: queued,
driven, over. `Cancel` is the route, which asks for a status and not for a kind. `cut`
observes: the jobs that were open when a restart fell. The module has the operations and
what they promise; the whole system of jobs is `DeviceRequests`'s `Next`, where jobs of any
kind run beside the requests'. Left out: progress, messages, the order of events.

### DeviceRequests

A request and its job have one name. `req` is the row, `due` the rows whose `expires_at` has
come, `waiter`, `early` and `timer` the maps of the service. `Close` is `finish` with `settle`:
the conditional update, the timer, the waiter's promise. `Find` is what any reader of one
request does, the device that answers too late included: `Respond` reads first. `Pair` makes
the same row of the device good again. Left out: results and their checks, scopes, pages,
what is pushed to wake the device. Deadlines are not compared with each other: any
request's time may come first.

## 4. The runs

| Run | Module, configuration | Bounds | What it shows |
|---|---|---|---|
| engine | RunEngine, RunEngine.cfg | 1 session, 2 runs, 1 approval, 1 compression, 1 restart | serial turns, no double start, rows follow the reducer, every end is told, nothing live without a driver, a stopped run never succeeds; the engine implements RunLifecycle; every run ends |
| schedule_history | ScheduleRunsInv, ScheduleRuns.cfg | 3 lines, clock to 3, 1 run now, 1 restart, limit 1 | the history of a schedule with `wait`, `replace`, `parallel`; the named parts of its invariant |
| schedule_apart | ScheduleRuns, ScheduleRuns_apart.cfg | 3 lines, clock to 2, 1 run now, 1 restart, no limit | `skip` and `wait` keep runs apart; every line ends, every due time is taken |
| workflow | MCWorkflowRun, WorkflowRun.cfg | a drawing of 4 steps with loops, 2 runs, 3 steps, cost 2, 1 key, 2 deliveries, memory 0, clock to 1, 1 restart | steps, gates, ends, budget, the trigger and its log |
| tasks | MCTaskRuns, TaskRuns.cfg | 2 tasks, 2 runs, 1 place, 3 edits, 1 restart | a board and its runs |
| webhooks | WebhookQueue, WebhookQueue.cfg | 1 webhook, 2 deliveries, batch 1, 2 retries, lease and back-off 1, 2 edits, 2 restarts | the queue, and that every delivery ends |
| rooms | MCRoomTurns, RoomTurns.cfg | 3 seats, 5 turns, 2 posts, 1 chain, cap 2 or none, 1 edit, 1 restart | turns, handoffs and the guard |
| device_requests | DeviceRequests, DeviceRequests.cfg | 2 requests, 1 other job, 1 session's job, 1 restart | jobs and requests end once and alike, and all end |

Why the bounds are enough. What goes wrong in the engine takes two runs of one session (one
in hand, one queued) and one foreign step at an await; sessions share nothing in the model
but the restart. Approvals are independent of each other but for "nothing else is pending",
which the reducer's own operator states. In the scheduler, a run going, one held back and a
third due are three lines; a clock of 2 or 3 passes both graces (0 and 1 periods), so that on
time, late and too late all happen. In the workflow, the drawing has each kind of step, a
gate before and after work, an arrow back to a step that ran and a limit of steps below what
it could do; a second run competes for the trigger's key; a memory of 0 and a clock of 1 make
a key be forgotten. Two tasks compete for the one place, and a task meets its older run with
the second. In the queue a batch of one leaves a due row behind, and a lease of one lets the
row come due while it is sent. Three seats make a chain that turns back, and five turns are a
chain of three beside two posts. Two requests are closed at once by a list, and their jobs
then end one after the other; each writer of a job's row has one job of its own. Moreover the safety properties of all of them are proved for
any bounds (section 5), and the runs fire every action. The type invariants (`TypeOK` of each
module) are among what is proved; the runs leave them to the proofs.

Every passing run checks also that its component implements its abstract specification
(section 3), but for schedule_apart: its questions are those of the options that keep runs
apart, and schedule_history asks this one.

Runs expected to find a violation; each is a disagreement between the code and what its
comments or documents say, detailed under `findings` in `PROJECT.json`:

| Run | What it shows |
|---|---|
| engine_terminal | a run cancelled while `execute` had picked it starts all the same: its row leaves `cancelled` |
| engine_approval | the approval of a run that ended stays `pending` in the database |
| engine_timeout | a frame after an approval's request starts the silence clock, which then fails a run that waits for a person |
| schedule_stop | `replace` does not stop a run that is still starting |

Besides these and the list at the end of section 1: "Run now" in the very millisecond of a
due time makes every later claim of that time fail, so the schedule does not move on until
it is edited (`Claim`; `EveryTimeIsTaken` is stated for the times this spares).

**Fairness.** Engine: a promise that can settle settles (the lookups, the start, the
interrupt, the file work), and a turn ends unless a person is expected, because an adapter
that falls silent is timed out. Frames alone do not end a turn, so weak fairness is on the
ends. Nothing is assumed of people. A process that ended is started again (the service
manager's restart); a restart on purpose is never assumed. Scheduler: its timer goes on
looking, its awaits settle, and a session's run ends, which is what the engine's run shows,
a run that asks a person being answered. Webhooks: time passes, a timer that is due fires, a
request ends (it has a deadline of its own), a hub that was told to stop stops once its
attempts are over, and one that is down is started. Device requests: time passes, a timer that
is due fires, a waiting job's interval polls, a settled promise is continued; of people and
devices nothing is assumed. The workflow, the tasks and the rooms
have no liveness property: a person may always keep them waiting, and what must not happen,
that something is left going with nothing behind it, is a state (`RunningIsWalked`,
`ActiveIsCarried`, `OpenReplyIsHeld`).

**Deadlock.** The configurations turn the check off: with runs, edits, the clock and
restarts bounded, each system may come to rest.

## 5. The proofs

Every safety property of the passing runs, state and action alike, the types of every
module, and that every component implements its abstract specification are proved, for any
values of the constants that the named assumptions allow. In each module the theorems follow from one inductive invariant, with
one lemma per action. TLC checked the invariants first, on the instances above, while
they were being found; the engine's `Faithful` with two runs whole and with three to a depth
of 23 steps.

**The engine.** `RunEngineProofs` proves, for any sets of sessions, runs and approvals and any bounds:

- `TypeCorrect`: `Spec => []TypeOK`;
- `SerialTurns`: `Spec => []OneTurnAtATime`;
- `NeverStartedTwice`: `Spec => []StartedOnce`;
- `NoRunLeftBehind`: `Spec => []EveryLiveRunIsDriven`;
- `Invariance`: `Spec => []IInv`, from which the others follow.

Assumptions: `None` is no session, the bounds are natural numbers.

None of the properties is inductive alone. That two links never drive two turns needs to
know that a run in hand belongs to the link `done + 1` (`HeldByTheLinkInHand`) and that a
link holds one run (`OneHeld`). That a run is started once needs `pc` to say that a run
before `runner.start` was not started (`NotStartedBefore`) and that a row that says `queued`
belongs to a run that is early, so that it cannot be picked twice (`QueuedIsEarly`). That no
live run is left behind needs the row of a run in its turn to fit `pc` (`TurnFits`), a
deletion to sweep its own session only (`SweepsItsOwn`) and rows to go with their session
(`RowsGoWithSession`). `IInv` (module `RunEngineInv`) is their conjunction. The
proof has one lemma per action, each split by conjunct; what a `kick` does to "some link has still to drain" is a lemma of its own (`KickServes`), and the
types come first (`TypeStep`).

`RunEngineKeeps` proves what the engine shows of its turns:

- `FaithfulInvariance`: `Spec => [](IInv /\ Faithful)` (`Faithful` is in `RunEngineInv`);
- `RowsAreTheReducers`, `EndsAreTold`: `Spec => []RowsFollowReducer`, `[]EveryEndIsTold`;
- `StoppedIsNoSuccess`: `Spec => StoppedNeverSucceeds`;
- `EngineKeepsLifecycle`: `Spec => KeepsLifecycle`, that is `RunLifecycle`'s own
  specification under the refinement mapping.

That the row and the reducer agree needs three things: nothing is asked before the events of
a run are read (`AsksFit`); a deletion writes `cancelled` only over runs that are not being
read, because it goes on past the run whose interrupt it awaits, in an order without loops
(`OrderIsStrict`, `SweepGoesOn`, `PickedIsEarly`); and a run that `execute` lost has no row
(`LostIsDeleted`). `EndFits` says that the row of a turn being finalised already says its
end, unless a deletion wrote over it. The refinement is then that every run moves along one
arrow (`Moves`), and that a session has one turn after the step as before it, by
`OneTurnAtATime`.

**The scheduler.** `ScheduleRunsProofs` proves, for any options, limits, graces and bounds:

- `ScheduleInvariance`: `Spec => []IInv` (module `ScheduleRunsInv`), and from it
- `ScheduleTypes`, `HeldOnlyForAnother`, `OpenFollowed`, `LimitHolds`: `TypeOK`,
  `HeldForAnother`, `OpenLineIsFollowed`, `LimitEndsSchedule`;
- `HistoryFinal`: `Spec => HistoryIsFinal`;
- `Apart`: if `Overlaps` holds only `skip` and `wait`, `Spec => []RunsApart`;
- `HistoryInvariance`: `Spec => [](IInv /\ HistoryInv)`, and from it
- `ScheduleKeepsHistory`: `Spec => KeepsHistory`.

Assumptions: the named ones of `ScheduleRuns` (the options are among those of the code, the
limit is none or positive, graces and bounds are natural numbers). The argument: settling a
line either leaves another line open or takes the time held back, so nothing waits for
nobody (`ReleaseEffect`, `SettleStep`); that needs a held line to be unfired
(`HeldIsNotFired`) and the line for whose sake others are stopped to stay open and untouched
while the look awaits them (`ClaimIsOpen`): a run that ends meanwhile finds it open and
releases nothing. `ApartInv` adds that what works is open, which is true only as long as no
line is ever stopped, hence the assumption of `Apart`: with `replace` it is false, as
schedule_stop shows. At a restart every open line ends, so the line released is the only one
(`BootStep`); that a line with a run id has a run (`FiringFits`) is what makes its outcome
an end.

`IInv` speaks of what works and waits now; the history also speaks of times. `HistoryInv`
adds that the schedule's own times are past and before the next one, whatever was edited
(`OwnTimes`): the next time only moves forward from a clock that is not before them, so each
claim writes a later time than every line has. A look writes what it read some time ago,
so what it read is bounded too (`LookTimes`). Lines are dense (`LinesInOrder`), the runs
that a look has still to stop were open when it read them (`StopsTheOpen`), so what it
stops ends and is not passed over, and the counter is the number of successes
(`CountIsWinners`), which makes the limit a fact of the history.

**Workflow runs.** `WorkflowRunProofs`, for any drawing, limits, keys and bounds:
`WorkflowInvariance`; `WorkflowTypes`, `StepsWorkOnce`, `RunningHasWalk`, `EndsToldOnce`,
`GatesMatch`, `LogTellsTheTruth`, `EventsStartOnce`, `OverStays`, `BudgetKept`. Assumptions:
arrows and starts lead to steps, gates are no conditions, `None` is none of the rest. Since
a stretch of the engine is a function of a run's record, the argument is about records:
`Fits` says what is always true of one (the walk, the place, the gate, the end), `Free` what
is between two steps, and the lemmas go from `EndedAs` and `WorksOn` up to `Finished` and
`Resumed`. `Follows` is what any stretch may change; the two action properties are parts of
it. A step works once because the place knows every step that worked (`At`), which survives
a gate because it is the place that is written down; likewise what was used of the budget.
`LogFits` keeps the log gapless and each key at least as young as its lines, from which a
second run of an event comes later than the memory.
`RunsKeepLife`: `Spec => KeepsLife`. A stretch is a function of one record, so it is shown of
the records what the loop leaves of a run (`Leaves`), and from it that each action turns a run
in one of the ways of `WorkflowLife` (`Turned`). A deletion is the case that takes thought: the
row may go first and the end be told when the walk finds it gone (`ToldLate`), and `Fits` is
what says that a walk which goes on without its row has told nothing yet.

**Tasks.** `TaskRunsProofs`, for any tasks (finitely many), runs and columns:
`TaskInvariance`; `TaskTypes`, `StoppedIsLeft`, `PlacesAreHeld`, `EndingsAreKept`,
`TasksKeepBoard`. The
invariant adds that a run belongs to the task that is on it, that a run asked to stop is on
none, and that the places counted, with the one being taken, are within the limit: a start
by the pass is the only one in flight, so at most one place is added between a count and a
write. `TasksKeepBoard` (`Spec => KeepsBoard`) needs the first two: that the run whose start is
answered has no other task (`OnItsRun`), and that a task dragged back to `running` comes back on
a run nobody stopped (`StoppedIsOff`). What an action does to the one task and the one run
it is about is a lemma (`BoardMoves`, `BoardRuns`, `BoardRests`).

**Webhooks.** `WebhookQueueProofs`, for any webhooks, deliveries (finitely many), times and
limits: `QueueInvariance`; `QueueTypes`, `NothingSleeps`, `PostsBounded`,
`CountsAreRows`, `OverIsKept`, `QueueKeepsOutbox`. Per delivery, `Fits`: what is being sent waits in its row as it
was read, and the requests made are no more than the tries written, those lost and the one
under way. Over all of them (`TimerIsSet`, by the
lemma `Scheduled`), the timer comes no later than what waits; and the
counts of a webhook are cardinalities of sets of its rows, which a step changes by one.
`QueueKeepsOutbox` (`Spec => KeepsOutbox`) rests on `Fits`: an attempt writes its end from what
it read before its request, and since the row still waits as it was read, the try it counts is
the next one and a delivery that is over is never written again. It adds to the invariant that
what is being sent was posted and that a row which is kept has a webhook which is there
(`Outbound`), and uses that rows go with their webhook (`GoneTogether`).

**Rooms.** `RoomTurnsProofs`, for any seats, caps and bounds: `RoomInvariance`; `RoomTypes`,
`NoChainIsOrphaned`, `NoReplyStreamsForEver`, `TheGuardHolds`, `RoomKeepsHandoffs`. The invariant says that what a
chain's row knows (`depth`, `visited`) is exactly the turns it made (`RowKnowsPasses`), which
is what makes the guard of a row a bound on turns. `RoomKeepsHandoffs` (`Spec => KeepsHandoffs`)
uses it once more: `Judge` asks a row, `Handoffs` speaks of the turns that were passed, and the
two are the same only by `RowKnowsPasses`. `EndsKnown` says that a reply is open exactly while
its turn is live or has an end nobody dealt with, so that no reply is closed twice; the lemmas
`Resting` and `Coming` put the steps in which no turn comes, and one does, in `Handoffs`' terms.

**Jobs and device requests.** `DeviceRequestsProofs`, for any functions, requests, sessions'
jobs and any number of restarts: `RequestInvariance`; `RequestTypes`, `JobsFollowWork`,
`NobodyWaitsInVain`, `JobsFollowRequests`, `RequestsEndOnce`, `LateIsRefused`,
`RequestsKeepSettlement`. Assumptions:
requests are functions, functions and sessions' jobs are apart, the bound is a natural
number. The invariant speaks of one job (`JobFits`), one request (`RequestFits`) and one
session's job (`RunFits`). That a job ends as its request did needs to know, between the two
ends, what a settled promise says of the row (`work` against `req`), and that a request
cancelled was cancelled by a job still in `cancelling`: the set is emptied only when the job
is finished. `RequestsKeepSettlement` (`Spec => KeepsSettlement`) turns this round: what a job
learns when its promise is continued is what became of its request, since `RequestFits` ties the
promise to the row and the row, once ended, is left alone.

`OverIsKept`, `OverStays`, `HistoryFinal`, `EndingsAreKept`, `RequestsEndOnce` and
`LateIsRefused` are the oldest action properties (`OverIsOver` of two modules,
`HistoryIsFinal`, `NoEndingIsLost`, `EndsOnce`, `LateAnswerIsRefused`). They are proved still; the runs check in their
place the abstract specifications, which speak of the same steps, and of the rest.

Only model-checked: the liveness properties `EveryRunEnds`, `EveryLineEnds`,
`EveryTimeIsTaken`, `EveryDeliveryEnds` and `EveryJobEnds` (liveness under fairness and `ENABLED` are out of
the prover's reach).

## 6. Not modelled

What section 1 lists and section 2 has not reached; the contents of turns, formatting,
translation between providers, files, processes and clients, whose correctness is about
data; SQLite itself (a stretch between two awaits is atomic and durable); two hub processes
on one database, which only the scheduler's claim is written for. Most of the repository's
lines are of these kinds (the clients alone are several hundred files); the modules cover
the parts in which the order of steps decides.
