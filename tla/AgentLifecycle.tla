---------------------------- MODULE AgentLifecycle ----------------------------
(***************************************************************************)
(* Waking one agent and watching for its check-in                          *)
(* (services/openclaw/lifecycle_orchestrator.py, lifecycle_queue.py,       *)
(* lifecycle_reconcile.py, the heartbeat of provisioning_db.py, the sweep  *)
(* of org_agent_reconciler.py).                                            *)
(*                                                                         *)
(* A lifecycle run locks the agent's row while it talks to the gateway,    *)
(* commits a wake with a check-in deadline and queues a reconcile message  *)
(* for it.  The worker's reconcile wakes the agent again or, at the cap,   *)
(* declares it offline.  The lock does not refresh what the session has    *)
(* loaded before, and a commit writes the columns that differ from it.     *)
(***************************************************************************)
EXTENDS Naturals, FiniteSets

CONSTANTS
    Clients,      \* request slots of the API and of the periodic jobs
    Worker,       \* the queue worker
    None,
    MaxWake,      \* settings.agent_max_wake_attempts
    MaxRetries,   \* settings.rq_dispatch_max_retries
    Standalone,   \* agent_type is standalone
    MaxEvents     \* bound: how many events of the kinds below happen

ASSUME SlotsAreDistinct == Worker \notin Clients /\ None \notin Clients \cup {Worker}
ASSUME CapIsPositive == MaxWake \in Nat \ {0} /\ MaxRetries \in Nat
\* Runs that clients ask for, requests of the agent, wakes for board work,
\* sweeps of a board's agent, reconciles that time out, processes that die, calls
\* that Redis fails, messages that outlast their key.
Events == {"runs", "beats", "wakes", "sweeps", "timeouts", "crashes", "outages", "expiries"}

ASSUME BoundIsNatural == MaxEvents \in Nat
ASSUME StandaloneAssumption == Standalone \in BOOLEAN

VARIABLES
    agent,     \* the committed row
    recent,    \* last_seen_at is younger than OFFLINE_AFTER
    holder,    \* who has the row locked
    clock,     \* the time: one more than the wakes begun so far
    keys,      \* generations whose dedup key is set in Redis
    queue,     \* reconcile messages
    pc, req,   \* what each slot does next, and what it has loaded
    escalated, \* ghost: reconcile wakes since the last check-in or client's run
    watch,     \* ghost: the last wake that a lifecycle run committed
    overlap,   \* ghost: a run has counted from a generation that was over
    unguarded, \* ghost: generations with a message in the queue but no key
    dropped,   \* ghost: a message was lost because its push failed
    spent      \* how often each bounded event has happened

losses == <<unguarded, dropped>>
ghosts == <<escalated, watch, overlap, losses>>
vars == <<agent, recent, holder, clock, keys, queue, pc, req, ghosts, spent>>

------------------------------------------------------------------------------
Slots  == Clients \cup {Worker}
Status == {"provisioning", "updating", "online", "offline"}

\* lastWake and seenAt are times, 0 for never; a wake begins a new time.
Row == [status : Status, gen : Nat, attempts : Nat,
        deadline : {"none", "ahead", "passed"}, lastWake : Nat, seenAt : Nat]

\* A message waits for the deadline of a wake, 0 if it is due.  The short delay of
\* a retry is no more than the time that the worker may take anyway.
Message == [gen : Nat, tries : 0..MaxRetries, wake : Nat, due : BOOLEAN]
NoMessage == [gen |-> 0, tries |-> 0, wake |-> 0, due |-> FALSE]

Fresh == [status |-> "provisioning", gen |-> 0, attempts |-> 0,
          deadline |-> "none", lastWake |-> 0, seenAt |-> 0]

\* One request: the row it has loaded (then the row it will commit), the message
\* it serves, the time it took, whether it wakes and whether the gateway failed.
Request == [row : Row, msg : Message, at : Nat, wake : BOOLEAN, failed : BOOLEAN]
Idle    == [row |-> Fresh, msg |-> NoMessage, at |-> 0, wake |-> FALSE, failed |-> FALSE]

\* One more event of a kind, within the bound.
Spend(kind) ==
    /\ spent["runs"] + spent["beats"] + spent["wakes"] + spent["sweeps"] + spent["timeouts"]
          + spent["crashes"] + spent["outages"] + spent["expiries"] < MaxEvents
    /\ spent' = [spent EXCEPT ![kind] = @ + 1]

Init ==
    /\ agent = Fresh /\ recent = FALSE
    /\ holder = None
    /\ clock = 1
    /\ keys = {} /\ queue = {}
    /\ pc = [r \in Slots |-> "idle"]
    /\ req = [r \in Slots |-> Idle]
    /\ escalated = 0 /\ watch = 0 /\ overlap = FALSE
    /\ unguarded = {} /\ dropped = FALSE
    /\ spent = [k \in Events |-> 0]

Goto(r, step, info) ==
    pc' = [pc EXCEPT ![r] = step] /\ req' = [req EXCEPT ![r] = info]
Finish(r) == Goto(r, "idle", Idle)

\* What a commit leaves in a column: unchanged values are not written.
Write(new, loaded, current) == IF new # loaded THEN new ELSE current

\* _has_checked_in_since_wake
CheckedIn(row) == row.seenAt # 0 /\ recent /\ row.seenAt >= row.lastWake

------------------------------------------------------------------------------
(***************************************************************************)
(* run_lifecycle                                                           *)
(***************************************************************************)

\* An API request, a template sync (no wake) or a repair of the runtime.
StartRun(r, action, wake) ==
    /\ pc[r] = "idle"
    /\ Spend("runs")
    /\ Goto(r, action, [Idle EXCEPT !.row = agent, !.wake = wake])
    /\ UNCHANGED <<agent, recent, holder, clock, keys, queue, ghosts>>

Preparing == {"provisioning", "updating"}

\* _lock_agent, mark_provision_requested and the flush: FOR UPDATE finds the row
\* in the session and keeps the values loaded before.
LockAgent(r) ==
    LET q == req[r]  old == req[r].row IN
    /\ pc[r] \in Preparing /\ holder = None
    /\ holder' = r
    /\ clock' = IF q.wake THEN clock + 1 ELSE clock
    /\ Goto(r, "apply", [q EXCEPT !.row =
         [agent EXCEPT !.status = Write(pc[r], old.status, @),
                       !.gen = old.gen + 1,
                       !.attempts = IF q.wake THEN old.attempts + 1 ELSE @,
                       !.deadline = IF q.wake THEN "ahead" ELSE Write("none", old.deadline, @),
                       !.lastWake = IF q.wake THEN clock + 1 ELSE @]])
    /\ overlap' = (overlap \/ old.gen # agent.gen)
    /\ UNCHANGED <<agent, recent, keys, queue, escalated, watch, losses, spent>>

\* The commit after the gateway's answer.
CommitRun(r, row, failed) ==
    /\ agent' = row
    /\ holder' = None
    /\ escalated' = IF r = Worker THEN escalated + 1 ELSE 0
    /\ watch' = IF req[r].wake THEN row.lastWake ELSE watch
    /\ IF req[r].wake
       THEN Goto(r, "enqueue", [req[r] EXCEPT !.row = row, !.failed = failed])
       ELSE Finish(r)
    /\ UNCHANGED <<recent, clock, keys, queue, overlap, losses, spent>>

ApplySucceeds(r) ==
    /\ pc[r] = "apply"
    /\ CommitRun(r, [req[r].row EXCEPT !.status = "online"], FALSE)

ApplyFails(r) ==
    /\ pc[r] = "apply"
    /\ CommitRun(r, req[r].row, TRUE)

\* requeue_if_failed
Retried(m) == IF m.tries < MaxRetries
              THEN {[m EXCEPT !.tries = @ + 1, !.wake = 0, !.due = TRUE]} ELSE {}

ReconcileOf(row) == [gen |-> row.gen, tries |-> 0, wake |-> row.lastWake, due |-> FALSE]
SweepOf(row)     == [gen |-> row.gen, tries |-> 0, wake |-> 0, due |-> TRUE]

\* A message of the generation is queued or in the worker's hands.
Waiting(g) == \/ \E m \in queue : m.gen = g
              \/ pc[Worker] # "idle" /\ req[Worker].msg.gen = g

\* enqueue_lifecycle_reconcile, suppressed while the generation's key is set, next
\* to the message that is retried.
Queue(m, retry) ==
    /\ keys' = keys \cup {m.gen}
    /\ queue' = queue \cup (IF m.gen \in keys THEN {} ELSE {m}) \cup retry
    /\ UNCHANGED <<ghosts, spent>>

\* Fault: the sweep does not look at the key.
Queue_NoKey(m, retry) ==
    /\ keys' = keys \cup {m.gen}
    /\ queue' = queue \cup {m} \cup retry
    /\ UNCHANGED <<ghosts, spent>>

\* The same with commands that fail: a SET that raises lets the push go on without
\* a key, a push that fails is answered with the release of the slot, which may
\* fail as well, or takes the key of an earlier message.
QueueFails(m, retry) ==
    /\ Spend("outages")
    /\ \/ /\ keys' = keys
          /\ queue' = queue \cup {m} \cup retry
          /\ unguarded' = unguarded \cup {m.gen}
          /\ UNCHANGED dropped
       \/ /\ keys' \in {keys \cup {m.gen}, keys \ {m.gen}}
          /\ queue' = queue \cup retry
          /\ unguarded' = unguarded \cup {g \in keys \ keys' : Waiting(g)}
          /\ dropped' = TRUE
    /\ UNCHANGED <<escalated, watch, overlap>>

\* A reconcile whose gateway call failed raises and is retried itself.
RetryOf(r) == IF r = Worker /\ req[r].failed THEN Retried(req[r].msg) ELSE {}

\* Fault: a failed gateway call queues no reconcile.
Enqueue_OnSuccess(r) ==
    LET m == ReconcileOf(req[r].row) IN
    /\ pc[r] = "enqueue"
    /\ keys' = keys \cup {m.gen}
    /\ queue' = queue \cup (IF m.gen \in keys \/ req[r].failed THEN {} ELSE {m}) \cup RetryOf(r)
    /\ Finish(r)
    /\ UNCHANGED <<agent, recent, holder, clock, ghosts, spent>>

Enqueue(r) ==
    /\ pc[r] = "enqueue"
    /\ Queue(ReconcileOf(req[r].row), RetryOf(r))
    /\ Finish(r)
    /\ UNCHANGED <<agent, recent, holder, clock>>

\* The push of the retry may fail, too.
EnqueueFails(r) ==
    /\ pc[r] = "enqueue"
    /\ \E retry \in {RetryOf(r), {}} : QueueFails(ReconcileOf(req[r].row), retry)
    /\ Finish(r)
    /\ UNCHANGED <<agent, recent, holder, clock>>

\* Fault: the cancelled run's transaction is left open.
ReconcileTimesOut_KeepsLock ==
    /\ pc[Worker] \in Preparing \cup {"apply"}
    /\ Spend("timeouts")
    /\ queue' = queue \cup Retried(req[Worker].msg)
    /\ Finish(Worker)
    /\ UNCHANGED <<agent, recent, holder, clock, keys, ghosts>>

\* wait_for: the run is cancelled and rolled back, the message retried.  After the
\* commit this is a Crash, since the message's generation is over.
ReconcileTimesOut ==
    /\ pc[Worker] \in Preparing \cup {"apply"}
    /\ Spend("timeouts")
    /\ holder' = IF holder = Worker THEN None ELSE holder
    /\ queue' = queue \cup Retried(req[Worker].msg)
    /\ Finish(Worker)
    /\ UNCHANGED <<agent, recent, clock, keys, ghosts>>

\* A request ends without a commit or a message; a popped message is lost.
Abandon(r) ==
    /\ holder' = IF holder = r THEN None ELSE holder
    /\ Finish(r)
    /\ UNCHANGED <<agent, recent, clock, keys, queue, escalated, watch, overlap, unguarded>>

\* The process dies.
Crash(r) == pc[r] # "idle" /\ Spend("crashes") /\ Abandon(r) /\ UNCHANGED dropped

\* The reconcile times out and the push of its retry fails.
RetryFails ==
    /\ pc[Worker] \in Preparing \cup {"apply"}
    /\ Spend("outages") /\ Abandon(Worker) /\ dropped' = TRUE

------------------------------------------------------------------------------
(***************************************************************************)
(* process_lifecycle_queue_task                                            *)
(***************************************************************************)
MayRetryAtCap == Standalone

Dropped(m)  == m.gen # agent.gen \/ CheckedIn(agent)
Deferred(m) == ~Dropped(m) /\ agent.deadline = "ahead"

Later(m) == [m EXCEPT !.wake = agent.lastWake, !.due = FALSE]

\* Fault: a message that comes before the deadline is dropped.
ReconcileSkips_NoDefer(m) ==
    /\ pc[Worker] = "idle"
    /\ m \in queue /\ m.due
    /\ Dropped(m) \/ Deferred(m)
    /\ queue' = queue \ {m}
    /\ UNCHANGED <<agent, recent, holder, clock, keys, pc, req, ghosts, spent>>

ReconcileSkips(m) ==
    /\ pc[Worker] = "idle"
    /\ m \in queue /\ m.due
    /\ Dropped(m) \/ Deferred(m)
    /\ queue' = (queue \ {m}) \cup
                (IF Deferred(m) THEN {Later(m)} ELSE {})
    /\ UNCHANGED <<agent, recent, holder, clock, keys, pc, req, ghosts, spent>>

\* A push that fails raises: the message is retried, if that push does not fail.
DeferFails(m) ==
    /\ pc[Worker] = "idle"
    /\ m \in queue /\ m.due /\ Deferred(m)
    /\ Spend("outages")
    /\ \/ queue' = (queue \ {m}) \cup Retried(m) /\ UNCHANGED dropped
       \/ queue' = queue \ {m} /\ dropped' = TRUE
    /\ UNCHANGED <<agent, recent, holder, clock, keys, pc, req, escalated, watch, overlap,
                   unguarded>>

\* Fault: no cap.
Reconcile_Uncapped(m) ==
    /\ pc[Worker] = "idle"
    /\ m \in queue /\ m.due
    /\ ~Dropped(m) /\ ~Deferred(m)
    /\ queue' = queue \ {m}
    /\ Goto(Worker, "updating", [Idle EXCEPT !.row = agent, !.msg = m, !.wake = TRUE])
    /\ UNCHANGED <<agent, recent, holder, clock, keys, ghosts, spent>>

\* The row is read without a lock: at the cap the agent is given up, before it
\* the run that follows wakes it again.
Reconcile(m) ==
    /\ pc[Worker] = "idle"
    /\ m \in queue /\ m.due
    /\ ~Dropped(m) /\ ~Deferred(m)
    /\ queue' = queue \ {m}
    /\ Goto(Worker,
            IF agent.attempts >= MaxWake /\ ~MayRetryAtCap THEN "give up" ELSE "updating",
            [Idle EXCEPT !.row = agent, !.msg = m, !.wake = TRUE])
    /\ UNCHANGED <<agent, recent, holder, clock, keys, ghosts, spent>>

GiveUp ==
    LET old == req[Worker].row IN
    /\ pc[Worker] = "give up" /\ holder = None
    /\ agent' = [agent EXCEPT !.status = Write("offline", old.status, @),
                              !.deadline = Write("none", old.deadline, @)]
    /\ Finish(Worker)
    /\ UNCHANGED <<recent, holder, clock, keys, queue, ghosts, spent>>

------------------------------------------------------------------------------
(***************************************************************************)
(* The agent's requests, wakes for board work, and the sweep               *)
(***************************************************************************)
StartBeat(r, step) ==
    /\ pc[r] = "idle"
    /\ clock > 1
    /\ Spend("beats")
    /\ Goto(r, step, [Idle EXCEPT !.row = agent, !.at = clock])
    /\ UNCHANGED <<agent, recent, holder, clock, keys, queue, ghosts>>

\* A heartbeat may leave the status out, and an agent that is not being provisioned
\* then keeps the one it has.
Reported(step, old) ==
    {"online"} \cup (IF step = "beat" THEN {old.status} \ Preparing ELSE {})

\* _touch_agent_presence ("touch"), and after it commit_heartbeat ("beat").
CommitBeat(r) ==
    LET q == req[r]  old == req[r].row IN
    \E status \in Reported(pc[r], old) :
    /\ pc[r] \in {"touch", "beat"} /\ holder = None
    /\ agent' = [agent EXCEPT
         !.status   = Write(status, old.status, @),
         !.seenAt   = q.at,
         !.attempts = IF pc[r] = "beat" THEN Write(0, old.attempts, @) ELSE @,
         !.deadline = IF pc[r] = "beat" THEN Write("none", old.deadline, @) ELSE @]
    /\ recent' = TRUE
    /\ escalated' = 0
    /\ Finish(r)
    /\ UNCHANGED <<holder, clock, keys, queue, watch, overlap, losses, spent>>

\* A message to the session: for a task that was assigned, or, by the recovery of
\* active work, if _agent_needs_work_wake.
StartWorkWake(r, step) ==
    /\ pc[r] = "idle"
    /\ step = "recover" => \/ agent.deadline = "passed"
                           \/ agent.deadline = "none" /\ (agent.status # "online" \/ ~recent)
    /\ Spend("wakes")
    /\ Goto(r, step, [Idle EXCEPT !.row = agent])
    /\ UNCHANGED <<agent, recent, holder, clock, keys, queue, ghosts>>

\* _wake_agent_online_for_task ("assign") and _mark_work_wake_sent ("recover"):
\* wakes that queue no reconcile.
CommitWorkWake(r) ==
    LET old == req[r].row IN
    /\ pc[r] \in {"assign", "recover"} /\ holder = None
    /\ clock' = clock + 1
    /\ agent' = [agent EXCEPT
         !.status = IF pc[r] = "recover" THEN Write("online", old.status, @) ELSE @,
         !.attempts = old.attempts + 1,
         !.deadline = "ahead",
         !.lastWake = clock + 1]
    /\ Finish(r)
    /\ UNCHANGED <<recent, holder, keys, queue, ghosts, spent>>

\* sweep_stuck_provisioning_agents: long after the last change of the row, and
\* under the cap of wakes.
StartSweep(r) ==
    /\ pc[r] = "idle"
    /\ agent.deadline # "ahead"
    /\ agent.attempts < MaxWake
    /\ Goto(r, "sweep", [Idle EXCEPT !.row = agent])
    /\ UNCHANGED <<agent, recent, holder, clock, keys, queue, ghosts>>

\* Fault: only agents that were woken before are swept.
Sweep_AfterWake(r) ==
    /\ agent.status = "provisioning" /\ agent.seenAt = 0
    /\ agent.deadline = "passed"
    /\ StartSweep(r)
    /\ UNCHANGED spent

\* Any agent that is still provisioning and was never seen ...
Sweep(r) ==
    /\ agent.status = "provisioning" /\ agent.seenAt = 0
    /\ StartSweep(r)
    /\ UNCHANGED spent

\* ... and in other states only a board's agent that has no session.  Whether this
\* one is such an agent is left open.
SweepSessionless(r) ==
    LET silent == agent.seenAt = 0 \/ ~recent IN
    /\ \/ agent.status = "online" /\ silent
       \/ agent.status = "updating" /\ (silent \/ agent.seenAt < agent.lastWake)
       \/ agent.status = "offline"
    /\ Spend("sweeps")
    /\ StartSweep(r)

\* Fault: the sweep does not look at the key.
SweepEnqueues_NoKey(r) ==
    /\ pc[r] = "sweep"
    /\ Queue_NoKey(SweepOf(req[r].row), {})
    /\ Finish(r)
    /\ UNCHANGED <<agent, recent, holder, clock>>

SweepEnqueues(r) ==
    /\ pc[r] = "sweep"
    /\ Queue(SweepOf(req[r].row), {})
    /\ Finish(r)
    /\ UNCHANGED <<agent, recent, holder, clock>>

SweepFails(r) ==
    /\ pc[r] = "sweep"
    /\ QueueFails(SweepOf(req[r].row), {})
    /\ Finish(r)
    /\ UNCHANGED <<agent, recent, holder, clock>>

------------------------------------------------------------------------------
(***************************************************************************)
(* Time                                                                    *)
(***************************************************************************)

\* Requests are shorter than the check-in deadline: none that read the row before
\* a wake is left when its deadline passes.
Long(wake) == \A r \in Slots : pc[r] # "idle" => req[r].row.lastWake >= wake

MessageDue(m) ==
    /\ m \in queue /\ ~m.due
    /\ Long(m.wake)
    /\ queue' = (queue \ {m}) \cup {[m EXCEPT !.due = TRUE]}
    /\ UNCHANGED <<agent, recent, holder, clock, keys, pc, req, ghosts, spent>>

DeadlinePasses ==
    /\ agent.deadline = "ahead"
    /\ Long(agent.lastWake)
    /\ agent' = [agent EXCEPT !.deadline = "passed"]
    /\ UNCHANGED <<recent, holder, clock, keys, queue, pc, req, ghosts, spent>>

\* OFFLINE_AFTER is not shorter than the check-in deadline.
GoesStale ==
    /\ recent
    /\ agent.deadline = "ahead" => agent.seenAt < agent.lastWake
    /\ recent' = FALSE
    /\ UNCHANGED <<agent, holder, clock, keys, queue, pc, req, ghosts, spent>>

\* A key has 30 minutes from the enqueue.  That of another generation makes no
\* difference until the row has that generation.
KeyExpires ==
    /\ agent.gen \in keys /\ ~Waiting(agent.gen)
    /\ keys' = keys \ {agent.gen}
    /\ UNCHANGED <<agent, recent, holder, clock, queue, pc, req, ghosts, spent>>

\* A retry or a deferral does not extend the time, and a few of them last longer.
\* Minutes are not counted: the key of a message may go at any moment.
KeyExpiresEarly ==
    /\ agent.gen \in keys /\ Waiting(agent.gen)
    /\ Spend("expiries")
    /\ keys' = keys \ {agent.gen}
    /\ unguarded' = unguarded \cup {agent.gen}
    /\ UNCHANGED <<agent, recent, holder, clock, queue, pc, req, escalated, watch, overlap,
                   dropped>>

------------------------------------------------------------------------------
Progress(r) ==
    \/ LockAgent(r) \/ ApplySucceeds(r) \/ ApplyFails(r) \/ Enqueue(r)
    \/ CommitBeat(r) \/ CommitWorkWake(r) \/ SweepEnqueues(r)

WorkerStep ==
    \/ Progress(Worker) \/ GiveUp
    \/ \E m \in queue : ReconcileSkips(m) \/ Reconcile(m)

Next ==
    \/ \E r \in Clients :
          \/ \E a \in Preparing, wake \in BOOLEAN : StartRun(r, a, wake)
          \/ \E step \in {"touch", "beat"} : StartBeat(r, step)
          \/ \E step \in {"assign", "recover"} : StartWorkWake(r, step)
          \/ Sweep(r) \/ SweepSessionless(r) \/ SweepFails(r) \/ Progress(r)
    \/ WorkerStep \/ ReconcileTimesOut \/ RetryFails
    \/ \E r \in Slots : Crash(r) \/ EnqueueFails(r)
    \/ \E m \in queue : MessageDue(m) \/ DeferFails(m)
    \/ DeadlinePasses \/ GoesStale \/ KeyExpires \/ KeyExpiresEarly

Spec == Init /\ [][Next]_vars

\* The loops run for ever, lock queues and timers are served.
FairSpec ==
    /\ Spec
    /\ \A r \in Clients : WF_vars(Progress(r) \/ Sweep(r))
    /\ WF_vars(WorkerStep)
    /\ WF_vars(DeadlinePasses \/ KeyExpires)
    /\ WF_vars(\E m \in queue : MessageDue(m))

------------------------------------------------------------------------------
(***************************************************************************)
(* Properties                                                              *)
(***************************************************************************)

\* The row, the messages and the requests keep their types, and only the slot
\* that talks to the gateway holds the row.
TypeOK ==
    /\ agent \in Row /\ recent \in BOOLEAN
    /\ holder \in Slots \cup {None}
    /\ \A r \in Slots : (holder = r) <=> (pc[r] = "apply")
    /\ clock \in Nat /\ keys \subseteq Nat /\ queue \subseteq Message
    /\ pc \in [Slots -> {"idle", "apply", "enqueue", "give up", "touch", "beat",
                        "assign", "recover", "sweep"} \cup Preparing]
    /\ req \in [Slots -> Request]
    /\ escalated \in Nat /\ watch \in Nat /\ overlap \in BOOLEAN
    /\ unguarded \subseteq Nat /\ dropped \in BOOLEAN
    /\ spent \in [Events -> Nat]

\* A generation has one reconcile at a time, queued or in the worker's hands:
\* retries, deferrals and sweeps do not multiply it.  The exception are generations
\* whose key went while a message needed it: it expired, since a message waited or
\* was put back for more than 30 minutes, or Redis failed a call.
OneReconcilePerGeneration ==
    /\ \A m, n \in queue : m.gen = n.gen /\ m.gen \notin unguarded => m = n
    /\ \A m \in queue : /\ pc[Worker] \in Preparing \cup {"apply", "give up"}
                        /\ m.gen = req[Worker].msg.gen
                        => m.gen \in unguarded

\* Step 2 and 5 of the guide: as long as a wake is unanswered and its deadline is
\* set, a reconcile of the row's generation is queued, about to be queued or
\* being handled, whatever errors, retries, deferrals and heartbeats come between.
Watched ==
    \/ \E m \in queue : m.gen = agent.gen
    \/ \E r \in Slots : pc[r] = "enqueue" /\ req[r].row.gen = agent.gen
    \/ pc[Worker] # "idle" /\ req[Worker].msg.gen = agent.gen

\* What ends the watch: a process that dies, a push that fails and is not retried
\* (that of a new message or of a retry), more time-outs and failed deferrals than
\* a message has retries, and two runs that overlap, which may count the same
\* generation or turn it back, so that a queued reconcile is not the row's.
Excused == \/ overlap \/ dropped \/ spent["crashes"] > 0
           \/ spent["timeouts"] + spent["outages"] > MaxRetries

Unanswered == watch # 0 /\ agent.lastWake = watch /\ agent.seenAt < watch

WakeIsWatched ==
    ~Excused /\ Unanswered /\ agent.deadline # "none" => Watched

\* Escalation stops: between check-ins and runs that someone asked for, the
\* worker wakes the agent at most MaxWake times.
EscalationStops == ~Standalone => escalated <= MaxWake

\* Wakes of lifecycle runs do not stay unanswered: the agent checks in or is given
\* up, unless its deadline is cancelled.
MissedWakeIsSettled ==
    (Unanswered /\ agent.deadline # "none")
        ~> (~Unanswered \/ agent.deadline = "none" \/ Excused)

\* "lifecycle queue task was lost": an agent that stays in provisioning and was
\* never seen is tried again, whatever dies.
LostProvisioningIsRetried ==
    LET stuck == /\ agent.status = "provisioning" /\ agent.seenAt = 0
                 /\ agent.deadline # "ahead" /\ agent.attempts < MaxWake
    IN stuck ~> ~stuck
==============================================================================
