------------------------------ MODULE PollChains ------------------------------
(***************************************************************************)
(* The two background jobs that keep themselves going through the work     *)
(* queue: the reconcile of all organizations' agents                       *)
(* (services/openclaw/org_agent_reconcile_*.py) and the usage poll         *)
(* (services/telemetry/usage_poll_*.py).  Each run enqueues the next one   *)
(* with a delay, the API enqueues a first one when it starts, and a Redis  *)
(* key per job, set with NX and a time to live, names the task that stands *)
(* for the job, so that there is one.                                      *)
(*                                                                         *)
(* Every Redis command is a step, except that the worker's drain and pop,  *)
(* whose own interleavings are those of WorkQueue, are one.  Time is not   *)
(* counted: a delay is over at some time, and a key expires at some time   *)
(* after its task is due (its time to live is the delay and a minute).     *)
(***************************************************************************)
EXTENDS Naturals, Sequences, FiniteSets, Lists

CONSTANTS
    Ids,         \* uuid4: the lowest number that is referred to nowhere is new
    MaxRetries,  \* settings.rq_dispatch_max_retries
    MaxLive,     \* bound: tasks of one job, above which nothing is seeded
    MaxFaults,   \* bound: deaths of a process, and commands that Redis or the
                 \* database fails
    None

ASSUME IdsAssumption == Ids \subseteq Nat /\ IsFiniteSet(Ids)
ASSUME BoundsAssumption == {MaxRetries, MaxLive, MaxFaults} \subseteq Nat

VARIABLES
    key,       \* the job's in-flight key: the id of a task
    ready,     \* the list
    later,     \* the sorted set: tasks whose score has not come ...
    due,       \* ... and those whose score has passed
    seeding,   \* id an API process has put into the key and not yet pushed
    task,      \* what the worker has popped
    at,        \* the step of the handler it is about to take
    next,      \* id of the next run, between its key and its ZADD
    crashes, outages

redis  == <<key, ready, later, due>>
worker == <<task, at, next>>
bounds == <<crashes, outages>>
vars   == <<redis, seeding, worker, bounds>>

------------------------------------------------------------------------------
Chains == {"reconcile", "usage"}

Task == [chain : Chains, id : Ids, attempts : 0..MaxRetries]

ASSUME NoneAssumption == None \notin Ids \cup Task

Steps == {"check", "purge", "sweep", "work", "look", "delete", "renew", "push"}

\* Fault: the reconcile leaves its key to the time to live.
Route_NoClear ==
    [reconcile |-> [pop |-> "work",  clear |-> "work",  work |-> "renew"],
     usage     |-> [pop |-> "check", clear |-> "renew", work |-> "look"]]

\* The order of each handler: the reconcile clears its key first and works
\* then; the usage poll checks its key, works, and clears the key last.
Route ==
    [reconcile |-> [pop |-> "look",  clear |-> "work",  work |-> "renew"],
     usage     |-> [pop |-> "check", clear |-> "renew", work |-> "look"]]

Of(c, S) == {t \in S : t.chain = c}

Waiting(c) == Of(c, Elements(ready) \cup later \cup due)
Running(c) == at # "idle" /\ task.chain = c

\* A task of the job waits, runs, or is about to be pushed by the API.
Alive(c) == Waiting(c) # {} \/ Running(c) \/ seeding[c] # None

\* The job's next runs, whose delay is not over.
Planned(c) == {t \in Of(c, later) : t.attempts = 0}

\* The ids of a job's tasks, of one that is about to be pushed included.
LiveIds(c) == {t.id : t \in Waiting(c)} \cup ({seeding[c]} \ {None})
              \cup IF Running(c) THEN {task.id, next} \ {None} ELSE {}

\* Ids has to hold MaxLive + 2 ids, so that there is always a new one.
New(c, i) ==
    LET unused == Ids \ (LiveIds(c) \cup {key[c]})
    IN  i \in unused /\ \A j \in unused : i <= j

Init ==
    /\ key = [c \in Chains |-> None]
    /\ ready = <<>> /\ later = {} /\ due = {}
    /\ seeding = [c \in Chains |-> None]
    /\ task = None /\ at = "idle" /\ next = None
    /\ crashes = 0 /\ outages = 0

First(c, i) == [chain |-> c, id |-> i, attempts |-> 0]

------------------------------------------------------------------------------
(***************************************************************************)
(* Time                                                                    *)
(***************************************************************************)
BecomeDue(t) ==
    /\ t \in later
    /\ later' = later \ {t}
    /\ due' = due \cup {t}
    /\ UNCHANGED <<key, ready, seeding, worker, bounds>>

\* Fault: the key is set without EX.
Expire_Never(c) ==
    /\ key[c] = None
    /\ UNCHANGED vars

\* Fault: the time to live does not count the delay.
Expire_TooEarly(c) ==
    /\ key[c] \notin {None, seeding[c], next}
    /\ key' = [key EXCEPT ![c] = None]
    /\ UNCHANGED <<ready, later, due, seeding, worker, bounds>>

\* The time to live, max(60, delay + 60), outlasts the delay of the task it
\* was set for; not the wait in a busy list, nor a retry.
Expire(c) ==
    /\ key[c] # None
    /\ First(c, key[c]) \notin later
    /\ seeding[c] # key[c]
    /\ ~(at = "push" /\ task.chain = c /\ next = key[c])
    /\ key' = [key EXCEPT ![c] = None]
    /\ UNCHANGED <<ready, later, due, seeding, worker, bounds>>

------------------------------------------------------------------------------
(***************************************************************************)
(* The API's enqueue without delay: when it starts, and for the reconcile  *)
(* after an organization or a gateway was created.  A key that is taken    *)
(* ends it.                                                                *)
(***************************************************************************)
CanSeed(c) == seeding[c] = None /\ Cardinality(LiveIds(c)) < MaxLive

SeedTakesKey(c) ==
    /\ CanSeed(c)
    /\ key[c] = None
    /\ \E i \in Ids :
          /\ New(c, i)
          /\ key' = [key EXCEPT ![c] = i]
          /\ seeding' = [seeding EXCEPT ![c] = i]
    /\ UNCHANGED <<ready, later, due, worker, bounds>>

\* The SET raises: the task is pushed without a key.
SeedWithoutKey(c) ==
    /\ CanSeed(c)
    /\ crashes + outages < MaxFaults
    /\ outages' = outages + 1
    /\ \E i \in Ids : New(c, i) /\ seeding' = [seeding EXCEPT ![c] = i]
    /\ UNCHANGED <<redis, worker, crashes>>

SeedPush(c) ==
    /\ seeding[c] # None
    /\ ready' = Append(ready, First(c, seeding[c]))
    /\ seeding' = [seeding EXCEPT ![c] = None]
    /\ UNCHANGED <<key, later, due, worker, bounds>>

\* The LPUSH raises (the answer FALSE is only logged) or the process dies:
\* the key stands for a task that is nowhere.
SeedLost(c) ==
    /\ seeding[c] # None
    /\ seeding' = [seeding EXCEPT ![c] = None]
    /\ crashes + outages < MaxFaults
    /\ \/ outages' = outages + 1 /\ UNCHANGED crashes
       \/ crashes' = crashes + 1 /\ UNCHANGED outages
    /\ UNCHANGED <<redis, worker>>

------------------------------------------------------------------------------
(***************************************************************************)
(* The worker                                                              *)
(***************************************************************************)
Goto(step) == at' = step /\ UNCHANGED <<task, next>>
Finish     == at' = "idle" /\ task' = None /\ next' = None

PopTask ==
    /\ at = "idle"
    /\ \E s \in Orders(due) :
          LET q == ready \o s IN
          /\ q # <<>>
          /\ task' = Head(q)
          /\ ready' = Tail(q)
          /\ at' = Route[Head(q).chain].pop
    /\ due' = {}
    /\ UNCHANGED <<key, later, seeding, next, bounds>>

\* is_current_usage_poll_task: without a key every task is current.
Check ==
    /\ at = "check"
    /\ Goto(IF key["usage"] \in {None, task.id} THEN "work" ELSE "purge")
    /\ UNCHANGED <<redis, seeding, bounds>>

\* purge_stale_usage_poll_tasks is called with the id of the stale task that
\* runs: every other usage poll goes, the one the key names included.
Kept(t) == t.chain # "usage" \/ t.id = task.id

PurgeList ==
    /\ at = "purge"
    /\ LET kept == {i \in DOMAIN ready : Kept(ready[i])} IN
          \E f \in Orders(kept) :
             /\ \A i, j \in DOMAIN f : i < j => f[i] < f[j]
             /\ ready' = [i \in DOMAIN f |-> ready[f[i]]]
    /\ Goto("sweep")
    /\ UNCHANGED <<key, later, due, seeding, bounds>>

PurgeScheduled ==
    /\ at = "sweep"
    /\ later' = {t \in later : Kept(t)}
    /\ due' = {t \in due : Kept(t)}
    /\ Finish
    /\ UNCHANGED <<key, ready, seeding, bounds>>

\* The reconcile's three parts, each with a handler of its own, or the poll of
\* all gateways.
Work ==
    /\ at = "work"
    /\ Goto(Route[task.chain].work)
    /\ UNCHANGED <<redis, seeding, bounds>>

\* Fault: the key goes, whoever owns it.
Look_Anyones ==
    /\ at = "look"
    /\ Goto(IF key[task.chain] # None THEN "delete" ELSE Route[task.chain].clear)
    /\ UNCHANGED <<redis, seeding, bounds>>

\* clear_..._lock: GET, and if the key names this task, DEL of whatever it
\* holds by then.
Look ==
    /\ at = "look"
    /\ Goto(IF key[task.chain] = task.id THEN "delete" ELSE Route[task.chain].clear)
    /\ UNCHANGED <<redis, seeding, bounds>>

Delete ==
    /\ at = "delete"
    /\ key' = [key EXCEPT ![task.chain] = None]
    /\ Goto(Route[task.chain].clear)
    /\ UNCHANGED <<ready, later, due, seeding, bounds>>

\* The next run's SET NX; "already pending" ends the run without one.
Renew ==
    LET c == task.chain IN
    /\ at = "renew"
    /\ \/ /\ key[c] = None
          /\ at' = "push"
          /\ \E i \in Ids : New(c, i) /\ key' = [key EXCEPT ![c] = i] /\ next' = i
          /\ UNCHANGED task
       \/ key[c] # None /\ Finish /\ UNCHANGED key
    /\ UNCHANGED <<ready, later, due, seeding, bounds>>

Push ==
    /\ at = "push"
    /\ later' = later \cup {First(task.chain, next)}
    /\ Finish
    /\ UNCHANGED <<key, ready, due, seeding, bounds>>

\* A command fails.  Redis: the check takes the task for current, the purge
\* and the clearing are given up, the renewal goes on without a key, and a
\* run that was not pushed is only logged.
RedisFails ==
    /\ crashes + outages < MaxFaults
    /\ outages' = outages + 1
    /\ \/ at = "check" /\ Goto("work")
       \/ at \in {"purge", "sweep", "push"} /\ Finish
       \/ at \in {"look", "delete"} /\ Goto(Route[task.chain].clear)
       \/ /\ at = "renew" /\ at' = "push"
          /\ \E i \in Ids : New(task.chain, i) /\ next' = i
          /\ UNCHANGED task
    /\ UNCHANGED <<redis, seeding, crashes>>

\* The database fails the usage poll, and the worker retries it with its id.
WorkRaises ==
    /\ at = "work" /\ task.chain = "usage"
    /\ crashes + outages < MaxFaults
    /\ outages' = outages + 1
    /\ later' = IF task.attempts + 1 > MaxRetries THEN later
                ELSE later \cup {[task EXCEPT !.attempts = @ + 1]}
    /\ Finish
    /\ UNCHANGED <<key, ready, due, seeding, crashes>>

\* The worker dies and is restarted; what it had popped is lost.
Crash ==
    /\ at # "idle"
    /\ crashes + outages < MaxFaults
    /\ crashes' = crashes + 1
    /\ Finish
    /\ UNCHANGED <<redis, seeding, outages>>

WorkerStep ==
    \/ PopTask \/ Check \/ PurgeList \/ PurgeScheduled
    \/ Work \/ Look \/ Delete \/ Renew \/ Push

Next ==
    \/ \E t \in later : BecomeDue(t)
    \/ \E c \in Chains : Expire(c) \/ SeedTakesKey(c) \/ SeedWithoutKey(c)
                         \/ SeedPush(c) \/ SeedLost(c)
    \/ WorkerStep \/ RedisFails \/ WorkRaises \/ Crash

Spec == Init /\ [][Next]_vars

\* Time passes, the worker loop runs for ever, and an API process that set a
\* key goes on to push.  Nothing makes the API start again.
FairSpec ==
    /\ Spec
    /\ \A c \in Chains :
          /\ WF_vars(\E t \in Of(c, later) : BecomeDue(t))
          /\ WF_vars(Expire(c)) /\ WF_vars(SeedPush(c))
    /\ WF_vars(WorkerStep)

------------------------------------------------------------------------------
(***************************************************************************)
(* Properties                                                              *)
(***************************************************************************)
TypeOK ==
    /\ key \in [Chains -> Ids \cup {None}]
    /\ ready \in Seq(Task)
    /\ later \subseteq Task /\ due \subseteq Task
    /\ seeding \in [Chains -> Ids \cup {None}]
    /\ at \in Steps \cup {"idle"}
    /\ IF at = "idle" THEN task = None ELSE task \in Task
    /\ IF at = "push" THEN next \in Ids ELSE next = None
    /\ crashes \in Nat /\ outages \in Nat /\ crashes + outages <= MaxFaults

\* However seeds, old duplicates and late runs meet, a job has one next run
\* scheduled (org_agent_reconcile_queue.py:16: without the key "the sweep ends
\* up firing every ~1-2 min instead of every 5 min"); each failed Redis command
\* may add one.
OneNextRun ==
    \A c \in Chains :
        Cardinality(Planned(c)) <= 1 + outages

\* As long as nothing has failed, a job that is alive stays alive: the run
\* that finds the key taken and enqueues nothing leaves another task behind.
\* The exception is a stale usage poll, which removes the task it is stale for.
ChainEndsOnlyByFault ==
    [][\A c \in Chains : Alive(c) /\ ~Alive(c)' =>
          \/ crashes' + outages' > 0
          \/ c = "usage" /\ at = "sweep"]_vars

\* Again and again, whatever has failed, a job works, or the API is seeding it,
\* or it is dead with its key free, so that the next start of the API revives
\* it.
WorksOrCanBeSeeded ==
    \A c \in Chains :
        []<>(\/ at = "work" /\ task.chain = c
             \/ seeding[c] # None
             \/ ~Alive(c) /\ key[c] = None)
==============================================================================
