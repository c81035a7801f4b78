------------------------------ MODULE WorkQueue ------------------------------
(***************************************************************************)
(* The background work queue: a Redis list with a sorted set of scheduled  *)
(* retries (services/queue.py), consumed by the worker loop of             *)
(* services/queue_worker.py.                                               *)
(*                                                                         *)
(* Each Redis command is one step, so that a second worker, a producer or  *)
(* a crash may come between any two commands of the drain.  A task is its  *)
(* JSON envelope; two envelopes are the same JSON exactly when they have   *)
(* the same task and the same attempts, so the sorted set is a set.        *)
(***************************************************************************)
EXTENDS Naturals, Sequences, FiniteSets, Lists

CONSTANTS
    Tasks,       \* tasks that producers may ever enqueue
    Handled,     \* those whose task_type has an entry in _TASK_HANDLERS
    Wrapped,     \* those enqueued through enqueue_webhook_delivery
    Workers,
    MaxRetries,  \* settings.rq_dispatch_max_retries
    MaxDrain,    \* _DRY_RUN_BATCH_SIZE: scheduled entries moved per drain
    MaxCrashes,  \* bound: worker crashes
    MaxOutages,  \* bound: Redis commands that fail
    NoTask

ASSUME TasksAssumption == IsFiniteSet(Tasks)
ASSUME WorkersAssumption == IsFiniteSet(Workers)
ASSUME RetriesAssumption == MaxRetries \in Nat
ASSUME DrainAssumption == MaxDrain \in Nat \ {0}
ASSUME BoundsAssumption == MaxCrashes \in Nat /\ MaxOutages \in Nat
ASSUME KindsAssumption == Handled \subseteq Tasks /\ Wrapped \subseteq Tasks
ASSUME NoTaskAssumption == NoTask \notin [task : Tasks, attempts : 0..MaxRetries]

VARIABLES
    ready,      \* the list: LPUSH appends, BRPOP takes the head
    scheduled,  \* the sorted set
    due,        \* its members whose score has passed
    pc,         \* what each worker does next
    batch,      \* the due entries its drain has read
    current,    \* the envelope it has popped
    answer,     \* what the producer's enqueue call returned
    runs,       \* how often an envelope was handed to its handler: 0, 1 or more (2)
    ended,      \* tasks that are settled, and how
    redrained,  \* tasks with an entry that a cut or overlapped drain may push twice
    crashes, outages

redis  == <<ready, scheduled, due>>
worker == <<pc, batch, current>>
ghosts == <<answer, runs, ended, redrained>>
bounds == <<crashes, outages>>
vars   == <<redis, worker, ghosts, bounds>>

------------------------------------------------------------------------------
Envelope == [task : Tasks, attempts : 0..MaxRetries]

Init ==
    /\ ready = <<>> /\ scheduled = {} /\ due = {}
    /\ pc = [w \in Workers |-> "drain"]
    /\ batch = [w \in Workers |-> {}]
    /\ current = [w \in Workers |-> NoTask]
    /\ answer = [t \in Tasks |-> "none"]
    /\ runs = [e \in Envelope |-> 0]
    /\ ended = [t \in Tasks |-> {}]
    /\ redrained = {}
    /\ crashes = 0 /\ outages = 0

------------------------------------------------------------------------------
(***************************************************************************)
(* Producers                                                               *)
(***************************************************************************)

\* enqueue_task by an API request: the LPUSH succeeds ...
EnqueueTask(t) ==
    /\ answer[t] = "none"
    /\ ready' = Append(ready, [task |-> t, attempts |-> 0])
    /\ answer' = [answer EXCEPT ![t] = "queued"]
    /\ UNCHANGED <<scheduled, due, worker, runs, ended, redrained, bounds>>

\* ... or Redis is away and it returns False; enqueue_webhook_delivery does
\* not look at that value and returns True.
EnqueueFails(t) ==
    /\ answer[t] = "none"
    /\ outages < MaxOutages
    /\ outages' = outages + 1
    /\ answer' = [answer EXCEPT ![t] = IF t \in Wrapped THEN "queued" ELSE "refused"]
    /\ UNCHANGED <<redis, worker, runs, ended, redrained, crashes>>

------------------------------------------------------------------------------
(***************************************************************************)
(* dequeue_task with block=True                                            *)
(***************************************************************************)

\* Time reaches the score of a scheduled entry.
BecomeDue(e) ==
    /\ e \in scheduled \ due
    /\ due' = due \cup {e}
    /\ UNCHANGED <<ready, scheduled, worker, ghosts, bounds>>

TasksOf(B) == {e.task : e \in B}

\* Ghost: another drain is under way with the entry, too.
ReadByAnother(w, e) == \E v \in Workers \ {w} : e \in batch[v]

\* Fault: reading takes the entries out of the sorted set, as ZPOPMIN would.
ReadDue_TakesThem(w) ==
    /\ pc[w] = "drain"
    /\ \E S \in SUBSET due :
          /\ Cardinality(S) = IF Cardinality(due) < MaxDrain THEN Cardinality(due) ELSE MaxDrain
          /\ batch' = [batch EXCEPT ![w] = S]
          /\ scheduled' = scheduled \ S
          /\ due' = due \ S
          /\ pc' = [pc EXCEPT ![w] = IF S = {} THEN "pop" ELSE "push"]
          /\ redrained' = redrained \cup TasksOf({e \in S : ReadByAnother(w, e)})
    /\ UNCHANGED <<ready, current, answer, runs, ended, bounds>>

\* ZRANGEBYSCORE -inf now LIMIT 0 MaxDrain
ReadDue(w) ==
    /\ pc[w] = "drain"
    /\ \E S \in SUBSET due :
          /\ Cardinality(S) = IF Cardinality(due) < MaxDrain THEN Cardinality(due) ELSE MaxDrain
          /\ batch' = [batch EXCEPT ![w] = S]
          /\ pc' = [pc EXCEPT ![w] = IF S = {} THEN "pop" ELSE "push"]
          /\ redrained' = redrained \cup TasksOf({e \in S : ReadByAnother(w, e)})
    /\ UNCHANGED <<redis, current, answer, runs, ended, bounds>>

\* LPUSH of what was read, whether or not it is still scheduled.
PushDue(w) ==
    /\ pc[w] = "push"
    /\ \E s \in Orders(batch[w]) : ready' = ready \o s
    /\ pc' = [pc EXCEPT ![w] = "remove"]
    /\ UNCHANGED <<scheduled, due, batch, current, ghosts, bounds>>

\* Fault: the drained entries are left in the sorted set.
RemoveDue_Forgotten(w) ==
    /\ pc[w] = "remove"
    /\ batch' = [batch EXCEPT ![w] = {}]
    /\ pc' = [pc EXCEPT ![w] = "pop"]
    /\ UNCHANGED <<redis, current, ghosts, bounds>>

\* ZREM of the same members: of a retry rescheduled in between, too.
RemoveDue(w) ==
    /\ pc[w] = "remove"
    /\ scheduled' = scheduled \ batch[w]
    /\ due' = due \ batch[w]
    /\ batch' = [batch EXCEPT ![w] = {}]
    /\ pc' = [pc EXCEPT ![w] = "pop"]
    /\ UNCHANGED <<ready, current, ghosts, bounds>>

\* BRPOP, and flush_queue's choice of handler: an envelope whose task_type has
\* none is logged and dropped.
PopTask(w) ==
    /\ pc[w] = "pop"
    /\ ready # <<>>
    /\ LET e == Head(ready) IN
         /\ ready' = Tail(ready)
         /\ IF e.task \in Handled
            THEN /\ pc' = [pc EXCEPT ![w] = "run"]
                 /\ current' = [current EXCEPT ![w] = e]
                 /\ runs' = [runs EXCEPT ![e] = IF @ < 2 THEN @ + 1 ELSE 2]
                 /\ UNCHANGED ended
            ELSE /\ pc' = [pc EXCEPT ![w] = "drain"]
                 /\ ended' = [ended EXCEPT ![e.task] = @ \cup {"unhandled"}]
                 /\ UNCHANGED <<current, runs>>
    /\ UNCHANGED <<scheduled, due, batch, answer, redrained, bounds>>

\* BRPOP times out; the worker drains once more, returns and starts over.
PopTimesOut(w) ==
    /\ pc[w] = "pop"
    /\ ready = <<>>
    /\ pc' = [pc EXCEPT ![w] = "drain"]
    /\ UNCHANGED <<redis, batch, current, ghosts, bounds>>

\* The drain ends here; of an entry it has pushed and not yet removed there
\* are two copies, and the next drain pushes the second one.
AbandonDrain(w) ==
    /\ batch' = [batch EXCEPT ![w] = {}]
    /\ redrained' = redrained \cup IF pc[w] = "remove" THEN TasksOf(batch[w]) ELSE {}

\* A command of the drain or the BRPOP raises: flush_queue logs it, and the
\* same worker starts dequeue_task over.
DequeueRaises(w) ==
    /\ pc[w] # "run"
    /\ outages < MaxOutages
    /\ outages' = outages + 1
    /\ AbandonDrain(w)
    /\ pc' = [pc EXCEPT ![w] = "drain"]
    /\ UNCHANGED <<redis, current, answer, runs, ended, crashes>>

------------------------------------------------------------------------------
(***************************************************************************)
(* flush_queue: the handler and its retry                                  *)
(***************************************************************************)
Release(w) ==
    /\ pc' = [pc EXCEPT ![w] = "drain"]
    /\ current' = [current EXCEPT ![w] = NoTask]

HandlerReturns(w) ==
    /\ pc[w] = "run"
    /\ Release(w)
    /\ ended' = [ended EXCEPT ![current[w].task] = @ \cup {"done"}]
    /\ UNCHANGED <<redis, batch, answer, runs, redrained, bounds>>

\* Fault: the retried envelope keeps its attempt number.
HandlerFails_SameAttempt(w) ==
    /\ pc[w] = "run"
    /\ Release(w)
    /\ scheduled' = scheduled \cup {current[w]}
    /\ due' = due \ {current[w]}
    /\ UNCHANGED <<ready, batch, ghosts, bounds>>

\* Fault: the cap refuses the last retry.
HandlerFails_OffByOne(w) ==
    LET e == current[w] IN
    /\ pc[w] = "run"
    /\ Release(w)
    /\ IF e.attempts + 1 >= MaxRetries
       THEN /\ ended' = [ended EXCEPT ![e.task] = @ \cup {"exhausted"}]
            /\ UNCHANGED <<scheduled, due>>
       ELSE LET again == [e EXCEPT !.attempts = @ + 1] IN
            /\ scheduled' = scheduled \cup {again}
            /\ due' = due \ {again}
            /\ UNCHANGED ended
    /\ UNCHANGED <<ready, batch, answer, runs, redrained, bounds>>

\* Fault: no cap.
HandlerFails_Uncapped(w) ==
    LET again == [current[w] EXCEPT !.attempts = @ + 1] IN
    /\ pc[w] = "run"
    /\ Release(w)
    /\ scheduled' = scheduled \cup {again}
    /\ due' = due \ {again}
    /\ UNCHANGED <<ready, batch, ghosts, bounds>>

\* requeue_if_failed: one more attempt, scheduled for later, or given up.
HandlerFails(w) ==
    LET e == current[w] IN
    /\ pc[w] = "run"
    /\ Release(w)
    /\ IF e.attempts + 1 > MaxRetries
       THEN /\ ended' = [ended EXCEPT ![e.task] = @ \cup {"exhausted"}]
            /\ UNCHANGED <<scheduled, due>>
       ELSE LET again == [e EXCEPT !.attempts = @ + 1] IN
            /\ scheduled' = scheduled \cup {again}
            /\ due' = due \ {again}
            /\ UNCHANGED ended
    /\ UNCHANGED <<ready, batch, answer, runs, redrained, bounds>>

\* The ZADD raises: the exception leaves flush_queue, the loop starts over.
RequeueRaises(w) ==
    LET e == current[w] IN
    /\ pc[w] = "run"
    /\ e.attempts + 1 <= MaxRetries
    /\ outages < MaxOutages
    /\ outages' = outages + 1
    /\ Release(w)
    /\ ended' = [ended EXCEPT ![e.task] = @ \cup {"lost"}]
    /\ UNCHANGED <<redis, batch, answer, runs, redrained, crashes>>

\* The process dies and is restarted: what it had popped is nowhere else.
Crash(w) ==
    /\ crashes < MaxCrashes
    /\ crashes' = crashes + 1
    /\ Release(w)
    /\ AbandonDrain(w)
    /\ ended' = IF pc[w] = "run"
                THEN [ended EXCEPT ![current[w].task] = @ \cup {"lost"}] ELSE ended
    /\ UNCHANGED <<redis, answer, runs, outages>>

------------------------------------------------------------------------------
WorkerStep(w) ==
    \/ ReadDue(w) \/ PushDue(w) \/ RemoveDue(w)
    \/ PopTask(w) \/ PopTimesOut(w)
    \/ HandlerReturns(w) \/ HandlerFails(w)

Next ==
    \/ \E t \in Tasks : EnqueueTask(t) \/ EnqueueFails(t)
    \/ \E e \in Envelope : BecomeDue(e)
    \/ \E w \in Workers : WorkerStep(w) \/ DequeueRaises(w) \/ RequeueRaises(w) \/ Crash(w)

Spec == Init /\ [][Next]_vars

\* Time passes, and the worker loop runs for ever (restart: unless-stopped).
FairSpec ==
    /\ Spec
    /\ \A e \in Envelope : WF_vars(BecomeDue(e))
    /\ \A w \in Workers : WF_vars(WorkerStep(w))

------------------------------------------------------------------------------
(***************************************************************************)
(* Properties                                                              *)
(***************************************************************************)

\* The list and the sorted set hold envelopes that never exceed the cap.
TypeOK ==
    /\ ready \in Seq(Envelope)
    /\ scheduled \subseteq Envelope /\ due \subseteq scheduled
    /\ pc \in [Workers -> {"drain", "push", "remove", "pop", "run"}]
    /\ batch \in [Workers -> SUBSET Envelope]
    /\ current \in [Workers -> Envelope \cup {NoTask}]
    /\ \A w \in Workers : (current[w] = NoTask) <=> (pc[w] # "run")
    /\ answer \in [Tasks -> {"none", "queued", "refused"}]
    /\ runs \in [Envelope -> 0..2]
    /\ ended \in [Tasks -> SUBSET {"done", "exhausted", "unhandled", "lost"}]
    /\ redrained \subseteq Tasks
    /\ crashes \in 0..MaxCrashes /\ outages \in 0..MaxOutages

\* Where a copy of a task's envelope is now.
InRedis(t)   == \E e \in Elements(ready) \cup scheduled : e.task = t
Running(t)   == \E w \in Workers : current[w] # NoTask /\ current[w].task = t

\* The order of the drain's commands: a task that was queued is in Redis, in
\* a worker's hands or settled, whatever commands a crash separates.
QueuedTaskNeverVanishes ==
    \A t \in Tasks \ Wrapped :
        answer[t] = "queued" => InRedis(t) \/ Running(t) \/ ended[t] # {}

\* However the workers interleave, fail and crash, an attempt is handed to its
\* handler once: unless the drain that pushed its task's entry was cut before it
\* removed it, or two drains were under way with the entry at once.
EachAttemptRunsOnce ==
    \A e \in Envelope : e.task \in redrained \/ runs[e] <= 1

\* A task is given up only after its last allowed attempt was made.
GivenUpOnlyAfterLastRetry ==
    \A t \in Tasks : "exhausted" \in ended[t] =>
        \A n \in 0..MaxRetries : runs[[task |-> t, attempts |-> n]] > 0

\* Every task that was queued is settled: scheduled retries are picked up
\* however busy the list is, and retries end.
QueuedTaskIsSettled ==
    \A t \in Tasks \ Wrapped : answer[t] = "queued" ~> ended[t] # {}
==============================================================================
