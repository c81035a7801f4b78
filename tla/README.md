# Mission Control: TLA+ models and proofs

Mission Control is a FastAPI backend (`src/backend/app`) over PostgreSQL and
Redis that coordinates software agents: humans and agents create and move tasks
on boards, ask for approvals, plan sprints, and an external gateway runs the
agents. This directory models the parts whose correctness depends on the order
in which concurrent requests, workers, retries and crashes take effect.

All paths below are relative to `src/backend/app` unless they begin with `src/`.

## 1. The system

| Component | State | Operations | Talks to |
|---|---|---|---|
| Approvals (`api/approvals.py`, `services/approval_task_links.py`) | `approvals`, `approval_task_links` | create, decide, re-open; task deletion edits them | tasks (row locks), done gate |
| Tasks of a board (`api/tasks.py`, `services/task_dependencies.py`) | `tasks`, `task_dependencies` | create, PATCH by lead / agent / admin, delete | approvals (gate), sprints (completion check), agents (wake) |
| Sprints (`services/sprint_lifecycle.py`, `services/sprint_reviews.py`, `api/sprints.py`) | `sprints`, `sprint_tickets`, `sprint_reviews` | plan, start, completion check, verdict, complete, cancel, delete | tasks, gateway (reviewers), worker pulse |
| Agent lifecycle (`services/openclaw/lifecycle_*.py`, `provisioning_db.py`) | `agents` row: status, generation, wake attempts, deadline | provision / wake, heartbeat, reconcile | queue, gateway RPC |
| Work recovery (`services/board_agent_work_recovery.py`) | agents' wake columns | periodic nudge | tasks, gateway |
| Organization agent reconcile (`services/openclaw/org_agent_*.py`) | Redis in-flight key, agents | self-re-enqueuing sweep | queue, gateway |
| Work queue (`services/queue.py`, `queue_worker.py`) | a Redis list and a sorted set | enqueue, drain, pop, retry | every background job |
| Webhooks (`api/board_webhooks.py`, `services/webhooks/*`) | `board_webhook_payloads` | ingest, dispatch | queue, gateway |
| Channels and threads (`services/channel_*.py`, `api/threads.py`) | `channels`, `threads`, `thread_messages` | subscribe, route, raise a task | tasks, agents |
| Organizations (`services/organizations.py`) | members, invites, access | invite, accept, remove | boards |
| Plans (`api/plans.py`, `services/openclaw/planning_service.py`) | `plans` | chat, lock, promote to a task | tasks, gateway |
| Gateway RPC (`services/openclaw/gateway_rpc.py`, `internal/retry.py`) | none | call with retry | external gateway |
| Live board page (`src/frontend/src/app/boards/[boardId]/page.tsx`) | the task list of an open page, its stream connection | snapshot, stream, move, edit, create, delete | tasks API, `GET /tasks/stream` |
| Channels page (`src/frontend/src/components/channels/*.tsx`) | selected channel, its threads, open thread, its messages and composer | select, create, resolve, pin, raise a task, poll, send | channels API |
| The rest | see `PROJECT.json` | CRUD, queries, streams, UI | |

### How the parts interact

Requests are coroutines, each with one database session. They run in parallel
(several connections, several processes) and interleave at every `await`: the
database's isolation level is READ COMMITTED and, but for the approvals, rows
are read without locks. The ORM session keeps what it has loaded
(`expire_on_commit=False`, `db/session.py`), and a flush writes only the columns
that the request changed, over whatever the row holds by then. Rows that a
transaction has written stay locked until it commits, also across calls to the
gateway. Work that must not hold up a request is a JSON envelope in Redis,
consumed by one worker process that also runs periodic pulses.

### What is hard

* a check on a row that another request changes before the commit (every gate
  and every "allowed from status X");
* two transactions for what a user sees as one step (verdict, then completion;
  task, then its dependants), with a crash in between;
* a queue that takes the envelope out of Redis before its handler has run, and
  a drain of several Redis commands;
* a page whose list is written by a snapshot, a stream, polls, optimistic moves
  and late answers, none of which is compared with what the list holds by then;
* events that are missed and must be found again by a periodic check.

`PROJECT.json` lists these per source line under `hazards`.

### What makes each part correct

* Approvals: one pending approval per task; an approval's primary task is one of
  its links; requests that lock several tasks never wait in a circle.
* Tasks: done only through the gates the board has switched on; a blocked task
  is neither assigned nor started; dependencies form a DAG; a re-opened
  dependency takes its dependants back to the inbox.
* Sprints: one active sprint per board; closed stays closed; the review gate
  closes a sprint with all approvals and not without; finished sprints reach it.
* Agent lifecycle: an unanswered wake is always followed up until the agent
  checks in or is given up; the follow-ups of one wake do not multiply and stop
  at the cap.
* Work queue: what was queued is run, retried or reported as given up; an attempt
  is not run twice, unless a drain is cut or meets another one.
* Organization reconcile, usage poll: a job that enqueues its own next run has one
  of them, and does not end unless something failed.
* Webhooks: a payload is dispatched at least once and marked so.
* Live board: a page at rest shows the rows of the tables, whatever the stream,
  answers and roll-backs did in between; a roll-back leaves no trace.
* Channels page: list, open thread and selected channel agree; a typed message is
  neither lost nor doubled; an open thread ends up showing its messages.
* Organizations: an invite is used once; an organization keeps an owner.
* Plans: a plan is promoted to one task and then stays as it is.

## 2. The modules

| Module | Models | Kind |
|---|---|---|
| `ApprovalBook` | what the approvals of a board promise: whole operations that check and write at once | abstract specification |
| `Approvals` | the approval requests and the task deletion, with PostgreSQL row locks and foreign keys | detailed, implements `ApprovalBook` |
| `ApprovalsProofs` | types, the one-pending invariant, link consistency, no circle of lockers, refinement | proofs |
| `Lists` | the elements of a list and the orders of a set of members | shared definitions |
| `WorkQueue` | Redis list and sorted set, worker loop, retries, crashes | detailed |
| `WorkQueueProofs` | types, nothing vanishes, no early give-up, no attempt twice | proofs |
| `PollChains` | the two jobs that enqueue their own next run, and their in-flight keys | detailed |
| `PollChainsProofs` | types, one next run, a job ends by a fault or a purge only | proofs |
| `TaskRules` | the board's rules as operators: who may write which row, gates, dependency checks | shared definitions |
| `AtomicBoard` | task requests that each take effect in one step | abstract specification |
| `TaskBoard` | task requests as read, check, flush, commit and second transaction | detailed, implements `AtomicBoard` |
| `TaskBoardProofs` | types, acyclic dependencies, no work on blocked tasks, refinement | proofs |
| `LiveBoard` | an open board page with its stream and its requests, and the rows and events behind them | detailed, server and page composed |
| `LiveBoardProofs` | types, a page at rest is current, moves leave no trace | proofs |
| `ThreadCalls` | what the two parts of the channels page share: threads, and calls in flight | shared definitions |
| `ChannelsLayout` | the channels page: channel, threads, open thread, and the thread endpoints | detailed, server and page composed |
| `MessageThread` | the panel of the open thread: messages, composer, polls | detailed, server and panel composed |
| `ChannelsPageProofs` | of both: types, coherence of a page whose calls did not overlap, no text lost or doubled | proofs |
| `Sprints` | one board's sprints, tickets and review gate, under concurrent requests | detailed |
| `SprintsProofs` | types, one active sprint, tickets of existing sprints; closed, gate and approvals for one request at a time | proofs |
| `AgentLifecycle` | one agent's wakes, the reconcile queue, heartbeats, sweep, under the row lock | detailed |
| `AgentLifecycleProofs` | types with the ownership of the row's lock, one reconcile per generation, watched wakes, the bound of the escalation | proofs |
| `MC*` | small instances: model values, symmetry | model checking |

Definitions whose name has the form `Action_Something` are faults: the action as
it would be with a plausible bug. No specification uses them. Each one makes
the property named in `PROJECT.json` (`mutants`) fail, which shows that the
property depends on that line of the code.

### Approvals

`status`, `board`, `primary` and `links` are the committed rows. A request is a
record in `req` and walks `idle -> lock -> write -> idle`:

* `CreateApproval` / `UpdateApproval` read and decide; `LockTask` is one `SELECT
  ... FOR UPDATE` of `lock_tasks_for_approval`, in ascending order;
  `CheckConflicts` / `RejectConflict` evaluate the conflict query;
  `ShareTask` and `ForeignKeyError` are the key-share locks of inserted links;
  `CommitCreate` / `CommitUpdate` make the writes visible.
* `BeginDelete` is everything `delete_task_and_related_records` reads and
  writes before the commit, `CommitDelete` its commit, `DeleteRefused` the
  foreign key error when a late reference to the task has appeared.
* `DeadlockAbort` is PostgreSQL's deadlock detector, `RequestFails` a request
  that ends without a commit.

`ApprovalBook` is what the callers rely on: `Create`, `Decide`, `Reopen` and
`DeleteTask`, each one atomic step that re-evaluates its condition. The
refinement mapping takes the committed rows as they are (`Book == INSTANCE
ApprovalBook WITH ...`), and every locking step is a stutter.

### WorkQueue

Each Redis command is one step: `ReadDue` (ZRANGEBYSCORE), `PushDue` (LPUSH),
`RemoveDue` (ZREM), `PopTask` (BRPOP). A handler ends in `HandlerReturns`,
`HandlerFails` (requeue with one attempt more, or give up) or, if the requeue
itself fails, `RequeueRaises`. `Crash` loses what the worker had popped.
`DequeueRaises` is any command of the drain, or the BRPOP, that raises: `flush_queue`
catches it and calls `dequeue_task` again (`services/queue_worker.py:145`), so that the
same worker, which has not crashed, reads what it has pushed and not removed a
second time.

So an attempt may run twice: when a drain is cut between LPUSH and ZREM, by a crash or by
a failing ZREM, and when two drains are under way with one entry. `redrained`
collects the tasks to which either happened; `EachAttemptRunsOnce` says that nothing else
doubles an attempt. A failing command is one that Redis has not applied. An LPUSH or
a ZREM that is applied and whose answer is lost needs no step of its own: it leaves
what a failure of the command after it leaves. A BRPOP, a producer's LPUSH or
a requeue's ZADD that is applied although it raises is not modelled.

### PollChains

The reconcile of all organizations' agents and the usage poll are tasks of the
work queue that enqueue their own next run with a delay; the API enqueues a
first one when it starts (`SeedTakesKey`, then `SeedPush`). One Redis key per
job (`key`, SET NX EX) names the task that stands for the job, so that two
seeds, or a seed and a renewal, do not make two of it. The worker's handler is
a walk through `at` along `Route`: the reconcile clears its key (`Look`,
`Delete`: GET and DEL are two commands), works and renews; the usage poll checks
whether the key is its own (`Check`), works, clears and renews (`Renew`, `Push`), or, when
it is stale, purges the other polls (`PurgeList`, `PurgeScheduled`).
`SeedWithoutKey`, `SeedLost`, `RedisFails`, `WorkRaises` and `Crash` are the
faults the handlers catch, or do not. Here the drain and the pop are one step, since
`WorkQueue` has their interleavings, and an id is the lowest unused number.

Time is abstract: a delay is over at some time after the ZADD, and a key expires
at some time after the delay of its task (`Expire`), as its time to live is the
delay and a minute. That minute is not counted: a task may wait longer than that in a busy list.
A seeding process and a renewal are taken to push within it.

### TaskRules, AtomicBoard, TaskBoard

`TaskRules` has the rules of the three PATCH paths and of creation as sets of
rows a request may leave (`LeadRows`, `AgentRows`, `UserRows`, `NewRows`), the
gates (`Gates`) and the checks of dependencies (`MayEdit`, `ValidDeps`). Both
specifications use them, on different states: `AtomicBoard` on the tables as
they are when the request takes effect, `TaskBoard` on what the request has read.

A request of `TaskBoard` is `Read` (the row, without a lock), `Check` (rules and
queries), `Flush` (the first write takes the row's lock; then the gates are
read), `Commit` (the columns that differ from what was read, the dependency rows
that were seen replaced by the new ones). A request of anybody but the lead that has
read a done task then goes through a second transaction, which puts the
dependents back if the task is open: `Refresh` reads the task again, `List` the ids
of its dependents, `Load` their rows, all without a lock, and `Record` commits the
columns that `Load` found to differ; `RecordLost` is its failure. `Delete`,
`ApprovalChanges` and the sprints are what else writes the tables; a sprint decides
on the tickets it has read (`SprintReads`) and writes at its commit (`SprintMoves`).

Nothing in the code detects that a request was overtaken. `lapped` records it (a
thing the transaction has read was changed before its commit), and the promise is
stated relative to it: an overtaken request may leave anything on its own task
(`Overtaken`), the others take effect in one step. An overtaken second
transaction (`late`) puts back what it had found (`ResetLate`): a dependent that was
closed between the SELECT and the commit goes to the inbox and has to be done again,
one that has been moved meanwhile keeps the columns that were not to be changed, and
a task that is done again still has its dependents put back. `excused` keeps the named
reasons for which work may go on under an open dependency.

### LiveBoard

`row`, `events`, `clock` and `req` are the server: a PATCH by a user commits the
row and then its event (`CommitRow`, `StampEvent`, `CommitEvent`), the lead's path
both at once (`StampBoth`, `CommitBoth`), sprints and deletions no event. An event
takes its time before its commit, so events may be committed out of order.
`Poll` is one round of the SSE generator with `since`, `last_seen` and
`seen_ids`. `shown` is the page's list (several entries of one task are possible),
`own` what the page keeps of a request it sent, such as the list before an
optimistic move. A time stamp has a part the page drops (`Floor`: JavaScript dates
have milliseconds, the server's microseconds).

### ChannelsLayout and MessageThread

Both compose a React component with the endpoints it calls. A call is a record
that the page issues, the server answers (`answer`) and a handler consumes;
answers arrive in any order, and every handler runs whatever is selected by then.
`crossed` and `late` record that a list or thread on display comes from a call
that overlapped another; without that the page must be coherent, and the first
load that met no other call ends it. `MessageThread` leaves open which thread is
selected (its `mounted` may change at any time), and numbers the texts that are typed
to follow each of them. Its names differ from those of `ChannelsLayout` (`fetches` for
`loads`, `PanelInit` for `Init`), so that `ChannelsPageProofs` can extend both.

### Sprints

`sprint`, `ticket`, `task`, `review`, `created` are the rows (`none` and
`deleted` stand for rows not yet inserted and gone; `open` for inbox,
in_progress and review). `newer` is the order of `updated_at` among live
sprints, the only thing the code uses it for. A request reads in one step
(`StartSprint`, `Cancel`, `Complete`, `DeleteSprint`, `QueueSprint`) and writes
in a later one (`CommitStart`, ...), whatever the row holds by then. Several
commits of one request are several steps: `AutoFromBacklog`, then `TryStart` or
`MaybeStart`, then `CommitStart`; `Verdict`, then `PassGate`, `CommitComplete`,
`Advance`, `CommitStart`.

`begin_sprint_review` writes the sprint first and then sends prompts to three
reviewers, so it holds the row's lock for as long as the gateway takes:
`LockReview` takes it (`writer`), `CommitReview` gives it back, and every other
update of that sprint waits (`Free`). Review rows that
`check_sprint_completion` has loaded are not read again.

A pending review is sent again after `sprint_review_pending_retry_minutes`.
Time may pass between any two steps, so `ReviewAgain` allows it at any time.
The legacy flag `is_backlog` is not kept: `AutoFromBacklog` may take any task
that has no ticket, which is more than the code does.

### AgentLifecycle

`agent` is the committed row (the columns that wake, heartbeat and reconcile
write), `holder` its row lock, `keys` the dedup keys and `queue` the reconcile
messages in Redis. A run is `StartRun` (what the session loads first), then
`LockAgent` (`FOR UPDATE`, the increments and the flush), `ApplySucceeds` or
`ApplyFails` (the gateway's answer and the commit), then `Enqueue`. SQLAlchemy
does not refresh loaded columns when it locks a row (no `populate_existing`),
so `LockAgent` counts from the row as it was loaded, and `Write` is what an
UPDATE of the changed columns leaves.

`ReconcileSkips`, `Reconcile` and `GiveUp` are
`process_lifecycle_queue_task`: drop, defer, or wake again through the same run,
or give up. `ReconcileTimesOut` is its `wait_for`, `Crash` the end of a
process. `StartBeat` / `CommitBeat` are the heartbeat and the touch of any
authenticated request, `StartWorkWake` / `CommitWorkWake` the wakes for assigned
work, which queue no reconcile, `Sweep` / `SweepEnqueues` the periodic sweep.

Time is abstract: `clock` numbers the wakes, a deadline is none, ahead or
passed, a message is due or not, `recent` says whether the last check-in is
within `OFFLINE_AFTER`. Two relations between durations are kept, and named at
the actions that use them: no request outlives the check-in deadline (240 s and
10 minutes), and `OFFLINE_AFTER` is not shorter than that deadline (both 10 minutes).
A dedup key lives 30 minutes from the enqueue, whatever is retried or deferred after
that (`lifecycle_queue.py:18`). Minutes are not counted: `KeyExpires` lets a key go
when its message is gone, as it does in the end, `KeyExpiresEarly` at any moment before.

Redis may fail each call. `EnqueueFails` and `SweepFails` are a failed
enqueue: a SET that raises lets the push go on without a key, a failed push releases the
slot, returns False, and neither caller looks at that. `DeferFails` is
a failed deferral: `lifecycle_reconcile.py:107` raises, so that the message is retried
with one attempt more, and lost if that push fails or no attempt is left. `RetryFails`
is the failed push of a reconcile that timed out.

What the code promises about a wake has four exceptions, stated in `Excused`:
a process that dies between the commit and the enqueue (or with the message in
hand); a push that fails and is not retried (`dropped`); more time-outs and failed
deferrals than a message has retries; and runs that overlap. The last is a consequence
of the stale counting above: with three runs
of one agent, the second of which has loaded the row before the first commits,
the generation may be counted twice or turned back, and the reconcile of the
latest wake is then dropped as stale. `overlap` records that it has happened.
That a generation has one reconcile has an exception of its own: `unguarded` are
the generations whose key went while a message of theirs was queued or in hand. The
sweep then queues a second message: the one that is handled later finds the generation
over and is dropped, or is one more attempt if the first one timed out.

## 3. The runs

| Run | Configuration | Bounds | What it shows |
|---|---|---|---|
| `approvals` | `MCApprovals.cfg` | 2 tasks, 2 approvals, 1 board, 2 requests | `OnePendingPerTask`, `PrimaryIsLinked`, no deadlock among lockers, refinement of `ApprovalBook` |
| `queue` | `MCWorkQueue.cfg` | 3 tasks (one with an unread answer, one without handler), 2 workers, 1 retry, 1 crash, 1 failing command | a queued task never vanishes, is given up only after its last retry, and is settled in the end; an attempt runs at most once but for the drains in `redrained` |
| `sprints` | `MCSprints.cfg` | 2 sprints, 1 task, 1 role, 2 requests | one active sprint; tickets of existing sprints |
| `sprints_one_request` | `MCSprintsOne.cfg` | 2 sprints, 2 roles, 1 request at a time, no failure | closed stays closed; a sprint in review closes with all approvals and only then; approvals stand |
| `sprints_worker` | `MCSprintsWorker.cfg` | 1 sprint, 2 tasks, 1 request and the worker, 1 failure | a finished sprint is taken into review |
| `sprint_gate_bypassed` | `MCSprintsGateRace.cfg` | 2 requests | violation: completed from review without approvals |
| `lifecycle` | `MCAgentLifecycle.cfg` | 1 client slot and the worker; any two of: a client's run, a request of the agent, a work wake, a sweep of an agent without session, a time-out, a crash, a failing call of Redis, a key that goes before its message; 2 wakes, 1 retry | one reconcile per generation; an unanswered wake is watched and settled; escalation stops at the cap; a never-seen agent is tried again |
| `task_board` | `MCTaskBoard.cfg` | 2 tasks, 2 request slots, 3 requests, 1 other change; symmetric in tasks and slots | refinement of `AtomicBoard`; no work under an open dependency; acyclic dependencies |
| `live_board` | `MCLiveBoard.cfg` | 1 task, 1 request of others and 1 of the page at a time, 2 changes, 1 cut, 1 failure | a page at rest is current; moves leave no trace; events reach the page |
| `channels_layout` | `MCChannelsLayout.cfg` | 2 channels, 2 threads, 2 calls in flight, 1 failure, 1 completed task | list, open thread and channel agree |
| `message_thread` | `MCMessageThread.cfg` | 2 threads, 2 loads in flight, 2 texts, 1 message of others, 1 failure | a text is in one place; an open thread ends up showing its messages |
| `poll_chains` | `MCPollChains.cfg` | 2 jobs, 2 live tasks of a job before the API seeds no more, 4 ids, 1 retry, 1 fault | one next run per job; a job ends by a fault or a purge only; it works or can be revived |

The violation is a disagreement between the code and a message of its own;
`PROJECT.json` (`findings`) quotes both. Six more were found while modelling and
need a configuration or a property of their own to be seen again: a request that ends between the last approval and the completion
leaves a sprint in review for ever (`Sprints`, `MaxFailures = 1`,
`ApprovedSprintCloses`; `services/sprint_reviews.py:420`); a finished sprint is
hidden behind a second live one (`Sprints`, two sprints, `FinishedSprintIsReviewed`;
`services/sprint_lifecycle.py:515`); a template sync after a wake disarms its
deadline and outdates its reconcile (`AgentLifecycle`;
`services/openclaw/lifecycle_orchestrator.py:257`); a task without handler, such as
`agent_webhook_delivery`, is popped and dropped (`WorkQueue`, `Handled`;
`services/queue_worker.py:155`); the list the channels page loads never holds a
resolved thread, so that its tab for them is empty, though `src/docs/channels.md:122`
offers it (`ChannelsLayout`, `Listed`; `api/threads.py:89`); and a stale usage poll purges all others,
while `services/telemetry/usage_poll_queue.py:88` says "that are not the lock owner":
`purge_stale_usage_poll_tasks` is given the id of the stale task, not of the owner, so the poll that
the key names goes and none is left until the API starts again (`PollChains`,
the exception in `ChainEndsOnlyByFault`).

Why the bounds are enough: the races are between two requests over one row (or
one row and the row it refers to), so two requests, two approvals or sprints and
one or two tasks contain them; a third request adds only another loser of the
same race. The queue has two workers, so that drains overlap (the deployment has one
worker; nothing keeps a second one out), and one retry, to tell the last attempt from the one before;
more of each are covered by the proofs. In the lifecycle the worker's own
steps and the sweep of never-seen agents are not bounded, only the events from outside:
two of them are a race with what the worker does about a wake, or with each other.

## 4. Fairness

* `WorkQueue!FairSpec`: weak fairness of each worker's loop (`run_worker`
  restarts after every exception, and the container is `unless-stopped`) and of
  time passing for a scheduled retry.
* `LiveBoard!FairSpec`: weak fairness of the server's work on each request, of its
  answers, and of the page's reconnect, poll and delivery (timers).
* `MessageThread!FairPanelSpec`: weak fairness of the poll timer of a mounted panel and of
  the answers; a call is answered in the end, if only by an error.
* `Sprints!FairSpec`: strong fairness of a request that has begun (row locks
  are granted in turn) and weak fairness of the worker's periodic check. No
  fairness of requests arriving or of reviewers answering.
* `AgentLifecycle!FairSpec`: weak fairness of a request that has begun, of the
  worker's loop, of time (deadlines, delays, key expiry) and of the sweep, which the
  organization reconcile runs periodically (`PollChains` shows by what that job may
  end). The agent need not answer, and nobody need ask for anything; failures of Redis,
  time-outs, crashes and keys that go early have no fairness.
* `PollChains!FairSpec`: weak fairness of the worker's loop, of time (a delay ends,
  a key expires) and of an API process that has set a key. None of the API starting,
  which nothing guarantees, and none of the faults.

## 5. What is proved

TLAPS checks these for every value of the constants that satisfies the modules'
named assumptions.

* `ApprovalsProofs`: `TypeCorrect`, `OnePendingApproval`, `PrimaryStaysLinked`,
  `LockersNeverDeadlock`, `Implementation`. None of the invariants is inductive: that no two pending
  approvals share a task holds because a request that is past its conflict check
  still holds the locks under which it found no conflict. `IndInv` adds
  that (`GuardInv`), together with what a request in flight knows of the row it
  creates (`CreateInv`), updates (`UpdateInv`) or deletes (`DeleteInv`), and of
  its key-share locks (`ShareInv`). One lemma per action shows that the step
  preserves `IndInv`; refinement follows step by step from `IndInv`.
  For the deadlock, `OrderInv` says that a locking request holds only rows smaller
  than those it still wants and no key-share lock: in a circle, the
  locker whose awaited row is the largest holds a larger one (`NoEndlessClimb`).
* `SprintsProofs`: `TypeCorrect`, `OneActive`, `TicketsKept`, and for one request at
  a time (`Alone`) `ClosedForGood`, `GateHolds`, `ApprovalsLast`. With
  the type invariant each of the two is inductive; the first rests on the unique index
  alone (`CommitStart`'s guard), not on the check that `start_sprint` makes. The last three
  rest on `AllUpToDate`: what a request has read is still so when it
  commits. The steps outside of requests keep that, and so does a failure; a second
  request breaks it, which is what the run `sprint_gate_bypassed` shows.
* `AgentLifecycleProofs`: `TypeCorrect`, `OneReconcile`, `EscalationEnds`,
  `NoWakeForgotten`. That retries, deferrals
  and sweeps never multiply a generation's reconcile rests on the dedup keys:
  `KeyInv` says that the key of every message, queued or in the worker's hands, is
  still set or its generation is in `unguarded`, and that otherwise the message in the
  worker's hands has no double in the queue, so that a retry puts back the only one. For the other two, lemmas sum up
  what each kind of step does to the numbers (`WatchStep`, with `EveryStep`), and the
  invariants are proved from the summary. The escalation
  stops because of `WakesCounted`: a work wake that has read the row before a wake of the
  worker writes its attempts back, but it can hide one attempt only, and only while it is
  under way, when that wake's deadline is still ahead. That a wake is watched rests on
  `WatchInv`: without overlap the generations come in order (`GenOK`), a reconcile of the
  present one has no more attempts behind it than there were time-outs and failed deferrals (`TriesOK`), and whoever
  acts on a deadline that has passed finds no request from before the wake (`PassedOK`).
* `WorkQueueProofs`: `QueueTypes`, `NothingVanishes`, `NoEarlyGiveUp`,
  `NoAttemptTwice`, for any number of workers, crashes and failing commands. That ZREM of a drained batch loses nothing is not inductive: another
  worker may have popped the pushed copy, run it and scheduled its retry, which a
  third worker is about to remove too. `RemovedWasPushed` says of every entry that a
  worker is about to remove that its task is settled, or held in the list or by a
  handler with at least as many attempts, or scheduled with more; the entry with
  the most attempts of the batch (`MostAttempts`) shows that a removal leaves a
  copy. `EarlierAttemptsRan` says that whatever exists was preceded by its earlier
  attempts. `NoAttemptTwice` rests on `OnceInv`: of a task outside `redrained` one envelope
  at most is still ahead, one drain at most is under way with it, and the list and the
  sorted set share only what that drain has pushed and not yet removed.
* `PollChainsProofs`: `TypeCorrect`, `OneNextRunAlways`, `ChainsEndByFaultOnly`, for any number
  of tasks. The first of the two needs that ids are used once (`IdsOnce`: a next
  run shares its id with no other task) and counts the next runs that
  the key does not name: a failed command may leave one, hence at most as many
  as outages (`UnkeyedAreOutages`); one more is the one the key names. The second
  rests on `OwnedInv`: as long as nothing failed, a key names a task that waits, runs or is being
  pushed, and a run that is about to renew is no longer that task. Only a purge breaks it,
  for the usage poll, and no poll that is past its check then relies on it.
* `TaskBoardProofs`: `BoardTypeOK`, `CyclesNeedOvertaking`, `BoardRunsAtomically`,
  `NoWorkOnBlockedTasks`. A request that nobody overtook knows that what it read is
  still so (part of the invariant), hence its commit is `AtomicBoard!Update`; the
  other steps map to the abstract step of the same name or to a stutter. So does a
  second transaction: what it found to put back is still what there is to put back
  (`FollowsWell`), and to write the columns that differ is to write them all
  (`PutBackSame`), hence its commit is `AtomicBoard!Reset`; an overtaken one is `ResetLate`.
  `NoWorkOnBlockedTasks` needs the same invariant: the rules let a task be started
  only when its dependencies, as read, are done.
* `ChannelsPageProofs`: `TypeCorrect`, `CoherentWithoutOverlap`, for any number of
  channels, threads and calls, and `PanelTypes`, `NoTextLost`, for any number of threads,
  texts and calls of a panel. A call that is not late is the only one in flight, and
  what was selected when the page made it still is (`LoadAlone`, `CreateAlone`,
  `UpdateAlone`); its answer then fits what the page shows. That a created
  thread is not listed twice needs more: the page lists only threads that exist.
  For the texts, `SendingOK` says that while a send of the mounted panel is in flight the
  composer is empty and no other is: otherwise the text of a failed send would overwrite another
  one. Each step then leaves a text where it is (`SamePlaces`) or moves it from one place to
  another (`MovedPlace`, `MovedPlaces`).
* `LiveBoardProofs`: `TypeCorrect`, `PageCatchesUp`, `MovesLeaveNoTrace`, for any number of
  tasks, requests and connections. One lemma per action puts its step under one of
  the kinds of `BoardStep`: the server's, the stream's, the page's; each part of `IInv` is then
  proved to survive a `BoardStep`. `CurrentOK` is why a page at rest is current: of every task that is
  not an exception, either the first entry has the row's version, or a request has still to
  write the event of the last change, or the page has not merged it. `BatchOK` says the same of what
  a batch is about to deliver, for a batch is read before it is merged and may be older than
  the row by then. That an answer or a
  roll-back which does not turn the entry back keeps this follows from the
  versions: what the page shows is never newer than the row (`RowsOK`, `ShownOK`), so an
  entry that is not older than one that was current is current too. `LastOK` says how the stream got
  where it stands; an event it will not fetch any more is therefore `PassedOver`.
  The status of a move is shown only for the task of a move under way, and no list kept for a
  roll-back has it (`MovesOK`): a move's list was taken when no other move was under way, or else both
  tasks are exceptions. `Poll` needs a fact about its order: the events
  it reads, sorted by time and id, are all of `Fetchable` and none twice.

Every invariant that a run checks is thereby a theorem. Only model-checked are the liveness
properties (fairness and ENABLED are outside the prover's reach): `QueuedTaskIsSettled`, `ApprovedSprintCloses`,
`FinishedSprintIsReviewed`, `MissedWakeIsSettled`, `LostProvisioningIsRetried`, `EventReachesPage`,
`PanelConverges`, `WorksOrCanBeSeeded`.

## 6. What is not modelled

`PROJECT.json` (`components`) has the reason for each part. In the modelled
components: wording, activity log entries, streams and notifications (they
change no modelled row); authorization (a request that is refused changes
nothing); several boards sharing one pulse of the worker (listed as hazards);
the position of sprints changed by hand; the re-registration of a forgotten
reviewer in the middle of a dispatch; creation, deletion and token rotation of
agents; a Redis command that is applied although it raises, where that differs from
a failure of the next one (see `WorkQueue`); edits and deletions of thread messages; a
second task raised for a thread between the check and the commit of the first (one
step in `ChannelsLayout!ServeUpdate`; the two calls overlap and are `crossed` already);
two seeds of one job in flight at once (`PollChains`; their steps commute); a client whose task ids belong to another board (the conflict query sees one
board at a time, so a task of two boards' approvals may be pending twice); comments,
tags, custom fields and time tracking of tasks; the panels and the other streams of
the board page; the sidebar of the channels page. The largest files of the frontend
(`src/frontend/src/api/generated`) are a client generated from the API's schema, and
most other pages are forms and tables without state of their own.

## 7. What could come next

1. Abstract specifications of `WorkQueue` (at-least-once execution) and of the channels
   page, and proofs that the modules implement them.
2. `WebhookDelivery`: payload rows, dispatch and `WorkQueue`'s retries composed.
3. `WorkRecovery`: the pulse over several agents and tasks, composed with
   `AgentLifecycle`'s work wakes.
4. `Invites`, `Plans`, the rate limiter's window, the other streams of the board
   page (approvals, agents, chat), the sidebar of the channels page.
