------------------------ MODULE AgentLifecycleProofs ------------------------
(***************************************************************************)
(* Proofs about AgentLifecycle for any number of client slots, any caps    *)
(* and any bounds on the events.                                           *)
(***************************************************************************)
EXTENDS AgentLifecycle, TLAPS

Steps == {"idle", "apply", "enqueue", "give up", "touch", "beat",
          "assign", "recover", "sweep"} \cup Preparing

\* TypeOK, in the parts that different steps disturb.
RowOK     == agent \in Row /\ recent \in BOOLEAN
LockOK    == /\ holder \in Slots \cup {None}
             /\ \A r \in Slots : (holder = r) <=> (pc[r] = "apply")
RedisOK   == keys \subseteq Nat /\ queue \subseteq Message
ControlOK == pc \in [Slots -> Steps] /\ req \in [Slots -> Request]
CountOK   == clock \in Nat /\ escalated \in Nat /\ watch \in Nat /\ overlap \in BOOLEAN
LossOK    == unguarded \subseteq Nat /\ dropped \in BOOLEAN
SpentOK   == spent \in [Events -> Nat]

Parts == RowOK /\ LockOK /\ RedisOK /\ ControlOK /\ CountOK /\ LossOK /\ SpentOK

LEMMA TypeParts == TypeOK <=> Parts
  BY DEF TypeOK, Parts, RowOK, LockOK, RedisOK, ControlOK, CountOK, LossOK, SpentOK, Steps

LEMMA TypePartsPrime == TypeOK' <=> Parts'
  BY DEF TypeOK, Parts, RowOK, LockOK, RedisOK, ControlOK, CountOK, LossOK, SpentOK, Steps

\* The worker and the lock's None are nobody else.
LEMMA SlotFacts ==
    Worker \in Slots \ Clients /\ None \notin Slots /\ Clients \subseteq Slots
  BY SlotsAreDistinct DEF Slots

------------------------------------------------------------------------------
(***************************************************************************)
(* What the updates of records return                                      *)
(***************************************************************************)
Deadlines == {"none", "ahead", "passed"}

LEMMA RowFields ==
    ASSUME NEW r \in Row
    PROVE  /\ r.status \in Status /\ r.gen \in Nat /\ r.attempts \in Nat
           /\ r.deadline \in Deadlines /\ r.lastWake \in Nat /\ r.seenAt \in Nat
  BY DEF Row, Deadlines

LEMMA StatusUpdate ==
    ASSUME NEW r \in Row, NEW s \in Status
    PROVE  [r EXCEPT !.status = s] \in Row
  BY DEF Row

LEMMA DeadlineUpdate ==
    ASSUME NEW r \in Row, NEW d \in Deadlines
    PROVE  [r EXCEPT !.deadline = d] \in Row
  BY DEF Row, Deadlines

LEMMA GiveUpUpdate ==
    ASSUME NEW r \in Row, NEW s \in Status, NEW d \in Deadlines
    PROVE  [r EXCEPT !.status = s, !.deadline = d] \in Row
  BY DEF Row, Deadlines

LEMMA RunUpdate ==
    ASSUME NEW r \in Row, NEW s \in Status, NEW g \in Nat, NEW k \in Nat,
           NEW d \in Deadlines, NEW w \in Nat
    PROVE  [r EXCEPT !.status = s, !.gen = g, !.attempts = k, !.deadline = d,
                     !.lastWake = w] \in Row
  BY DEF Row, Deadlines

LEMMA BeatUpdate ==
    ASSUME NEW r \in Row, NEW s \in Status, NEW t \in Nat, NEW k \in Nat,
           NEW d \in Deadlines
    PROVE  [r EXCEPT !.status = s, !.seenAt = t, !.attempts = k, !.deadline = d] \in Row
  BY DEF Row, Deadlines

LEMMA WakeUpdate ==
    ASSUME NEW r \in Row, NEW s \in Status, NEW k \in Nat, NEW d \in Deadlines, NEW w \in Nat
    PROVE  [r EXCEPT !.status = s, !.attempts = k, !.deadline = d, !.lastWake = w] \in Row
  BY DEF Row, Deadlines

LEMMA IdleType == Idle \in Request
  <1>1. Fresh \in Row
    BY DEF Fresh, Row, Status
  <1>2. NoMessage \in Message
    BY CapIsPositive DEF NoMessage, Message
  <1> QED
    BY <1>1, <1>2 DEF Idle, Request

LEMMA RequestFields ==
    ASSUME NEW q \in Request
    PROVE  /\ q.row \in Row /\ q.msg \in Message /\ q.at \in Nat
           /\ q.wake \in BOOLEAN /\ q.failed \in BOOLEAN
  BY DEF Request

\* The requests that the steps start with.
LEMMA StartRequests ==
    ASSUME NEW row \in Row, NEW m \in Message, NEW t \in Nat, NEW wake \in BOOLEAN
    PROVE  /\ [Idle EXCEPT !.row = row] \in Request
           /\ [Idle EXCEPT !.row = row, !.wake = wake] \in Request
           /\ [Idle EXCEPT !.row = row, !.at = t] \in Request
           /\ [Idle EXCEPT !.row = row, !.msg = m, !.wake = wake] \in Request
           /\ [Idle EXCEPT !.row = row, !.msg = m, !.wake = wake].msg = m
  BY IdleType DEF Request

\* A run takes its message along.
LEMMA RequestUpdate ==
    ASSUME NEW q \in Request, NEW row \in Row, NEW b \in BOOLEAN
    PROVE  /\ [q EXCEPT !.row = row] \in Request
           /\ [q EXCEPT !.row = row].msg = q.msg
           /\ [q EXCEPT !.row = row, !.failed = b] \in Request
           /\ [q EXCEPT !.row = row, !.failed = b].msg = q.msg
  BY DEF Request

LEMMA DueUpdate ==
    ASSUME NEW m \in Message, NEW w \in Nat, NEW b \in BOOLEAN
    PROVE  /\ [m EXCEPT !.due = b] \in Message
           /\ [m EXCEPT !.due = b].gen = m.gen
           /\ [m EXCEPT !.wake = w, !.due = b] \in Message
           /\ [m EXCEPT !.wake = w, !.due = b].gen = m.gen
  BY DEF Message

\* A retry is a message of the same generation, at most one.
LEMMA RetriedType ==
    ASSUME NEW m \in Message
    PROVE  /\ Retried(m) \subseteq Message
           /\ \A x \in Retried(m) : x.gen = m.gen
           /\ \A x, y \in Retried(m) : x = y
  <1>1. \A k \in 0..MaxRetries :
          /\ [m EXCEPT !.tries = k, !.wake = 0, !.due = TRUE] \in Message
          /\ [m EXCEPT !.tries = k, !.wake = 0, !.due = TRUE].gen = m.gen
    BY DEF Message
  <1>2. m.tries \in 0..MaxRetries
    BY DEF Message
  <1>3. m.tries < MaxRetries => m.tries + 1 \in 0..MaxRetries
    BY <1>2, CapIsPositive
  <1> QED
    BY <1>1, <1>3 DEF Retried

------------------------------------------------------------------------------
(***************************************************************************)
(* Types                                                                   *)
(***************************************************************************)
LEMMA GotoType ==
    ASSUME ControlOK, NEW r \in Slots, NEW step \in Steps, NEW info \in Request,
           Goto(r, step, info)
    PROVE  /\ ControlOK'
           /\ pc'[r] = step /\ req'[r] = info
           /\ \A x \in Slots : x # r => pc'[x] = pc[x] /\ req'[x] = req[x]
  BY DEF ControlOK, Goto

LEMMA FinishType ==
    ASSUME ControlOK, NEW r \in Slots, Finish(r)
    PROVE  /\ ControlOK'
           /\ pc'[r] = "idle"
           /\ \A x \in Slots : x # r => pc'[x] = pc[x] /\ req'[x] = req[x]
  BY GotoType, IdleType DEF Finish, Steps

\* The row's lock: it stays where it is, is given back, or is taken.
LEMMA LockStays ==
    ASSUME LockOK, NEW r \in Slots, pc[r] # "apply", pc'[r] # "apply",
           \A x \in Slots : x # r => pc'[x] = pc[x], UNCHANGED holder
    PROVE  LockOK'
  BY DEF LockOK

LEMMA LockFreed ==
    ASSUME LockOK, NEW r \in Slots, pc'[r] # "apply",
           \A x \in Slots : x # r => pc'[x] = pc[x],
           holder' = IF holder = r THEN None ELSE holder
    PROVE  LockOK'
  BY SlotFacts DEF LockOK

LEMMA LockTaken ==
    ASSUME LockOK, NEW r \in Slots, pc'[r] = "apply",
           \A x \in Slots : x # r => pc'[x] = pc[x],
           holder = None, holder' = r
    PROVE  LockOK'
  BY SlotFacts DEF LockOK

LEMMA SpendType ==
    ASSUME SpentOK, NEW k \in Events, Spend(k)
    PROVE  SpentOK'
  BY DEF SpentOK, Spend

LEMMA InitType == Init => TypeOK
  <1> SUFFICES ASSUME Init PROVE Parts
    BY TypeParts
  <1>1. RowOK
    BY DEF Init, RowOK, Fresh, Row, Status
  <1>2. LockOK
    BY SlotFacts DEF Init, LockOK
  <1>3. ControlOK
    BY IdleType DEF Init, ControlOK, Steps
  <1>4. RedisOK /\ CountOK /\ LossOK /\ SpentOK
    BY DEF Init, RedisOK, CountOK, LossOK, SpentOK
  <1> QED
    BY <1>1, <1>2, <1>3, <1>4 DEF Parts

\* Requests that only load the row.
LEMMA StartType ==
    ASSUME Parts, NEW r \in Clients,
           \/ \E a \in Preparing, wake \in BOOLEAN : StartRun(r, a, wake)
           \/ \E step \in {"touch", "beat"} : StartBeat(r, step)
           \/ \E step \in {"assign", "recover"} : StartWorkWake(r, step)
           \/ Sweep(r) \/ SweepSessionless(r)
    PROVE  Parts'
  <1>1. r \in Slots /\ agent \in Row /\ clock \in Nat /\ ControlOK /\ LockOK /\ SpentOK
    BY SlotFacts DEF Parts, RowOK, CountOK
  <1>2. UNCHANGED <<agent, recent, holder, clock, keys, queue, ghosts>>
    BY DEF StartRun, StartBeat, StartWorkWake, Sweep, SweepSessionless, StartSweep
  <1>3. SpentOK'
    BY <1>1, SpendType DEF StartRun, StartBeat, StartWorkWake, Sweep, SweepSessionless,
                           Events, SpentOK
  <1>4. \E step \in Steps, info \in Request :
           step # "apply" /\ pc[r] = "idle" /\ Goto(r, step, info)
    <2>0. NoMessage \in Message
      BY IdleType, RequestFields DEF Idle
    <2>1. CASE \E a \in Preparing, wake \in BOOLEAN : StartRun(r, a, wake)
      BY <1>1, <2>0, <2>1, StartRequests DEF StartRun, Steps, Preparing
    <2>2. CASE \E step \in {"touch", "beat"} : StartBeat(r, step)
      BY <1>1, <2>0, <2>2, StartRequests DEF StartBeat, Steps
    <2>3. CASE \E step \in {"assign", "recover"} : StartWorkWake(r, step)
      BY <1>1, <2>0, <2>3, StartRequests DEF StartWorkWake, Steps
    <2>4. CASE Sweep(r) \/ SweepSessionless(r)
      BY <1>1, <2>0, <2>4, StartRequests DEF Sweep, SweepSessionless, StartSweep, Steps
    <2> QED
      BY <2>1, <2>2, <2>3, <2>4
  <1>5. ControlOK' /\ LockOK'
    BY <1>1, <1>2, <1>4, GotoType, LockStays
  <1> QED
    BY <1>2, <1>3, <1>5 DEF Parts, RowOK, RedisOK, CountOK, LossOK, ghosts, losses

LEMMA LockAgentType ==
    ASSUME Parts, NEW r \in Slots, LockAgent(r)
    PROVE  Parts' /\ UNCHANGED <<keys, queue>> /\ req'[r].msg = req[r].msg
  <1> DEFINE q == req[r]
             old == q.row
             s == Write(pc[r], old.status, agent.status)
             g == old.gen + 1
             k == IF q.wake THEN old.attempts + 1 ELSE agent.attempts
             d == IF q.wake THEN "ahead" ELSE Write("none", old.deadline, agent.deadline)
             w == IF q.wake THEN clock + 1 ELSE agent.lastWake
             row == [agent EXCEPT !.status = s, !.gen = g, !.attempts = k,
                                  !.deadline = d, !.lastWake = w]
  <1>1. q \in Request /\ agent \in Row /\ clock \in Nat /\ ControlOK /\ LockOK
    BY DEF Parts, RowOK, CountOK, ControlOK
  <1>2. old \in Row /\ q.wake \in BOOLEAN
    BY <1>1, RequestFields
  <1>3. s \in Status /\ pc[r] \in Preparing
    BY <1>1, <1>2, RowFields DEF LockAgent, Write, Preparing, Status
  <1>4. g \in Nat /\ k \in Nat /\ w \in Nat
    BY <1>1, <1>2, RowFields
  <1>5. d \in Deadlines
    BY <1>1, <1>2, RowFields DEF Write, Deadlines
  <1>6. row \in Row
    <2> HIDE DEF s, g, k, d, w
    <2> QED
      BY <1>1, <1>3, <1>4, <1>5, RunUpdate
  <1>7. Goto(r, "apply", [q EXCEPT !.row = row])
    BY DEF LockAgent
  <1>8. [q EXCEPT !.row = row] \in Request /\ [q EXCEPT !.row = row].msg = q.msg
    <2> HIDE DEF row
    <2> QED
      BY <1>1, <1>6, RequestUpdate
  <1>9. /\ ControlOK' /\ pc'[r] = "apply" /\ req'[r].msg = q.msg
        /\ \A x \in Slots : x # r => pc'[x] = pc[x]
    <2> HIDE DEF row
    <2> QED
      BY <1>1, <1>7, <1>8, GotoType DEF Steps
  <1>10. LockOK'
    BY <1>1, <1>9, LockTaken DEF LockAgent
  <1>11. /\ UNCHANGED <<agent, recent, keys, queue, escalated, watch, losses, spent>>
         /\ clock' \in Nat /\ overlap' \in BOOLEAN
    <2>1. overlap \in BOOLEAN
      BY DEF Parts, CountOK
    <2> QED
      BY <1>1, <2>1 DEF LockAgent
  <1> QED
    BY <1>9, <1>10, <1>11 DEF Parts, RowOK, RedisOK, CountOK, LossOK, SpentOK, losses

LEMMA CommitRunType ==
    ASSUME Parts, NEW r \in Slots, pc[r] = "apply", NEW row \in Row, NEW failed \in BOOLEAN,
           CommitRun(r, row, failed)
    PROVE  /\ Parts' /\ UNCHANGED <<keys, queue>>
           /\ pc'[r] = "idle" \/ req'[r].msg = req[r].msg
  <1>1. req[r] \in Request /\ ControlOK /\ LockOK /\ CountOK
    BY DEF Parts, ControlOK
  <1> DEFINE info == [req[r] EXCEPT !.row = row, !.failed = failed]
  <1>2. info \in Request /\ info.msg = req[r].msg
    BY <1>1, RequestUpdate
  <1>3. Goto(r, "enqueue", info) \/ Finish(r)
    BY DEF CommitRun
  <1>4. /\ ControlOK'
        /\ \A x \in Slots : x # r => pc'[x] = pc[x]
        /\ pc'[r] = "idle" \/ (pc'[r] = "enqueue" /\ req'[r].msg = req[r].msg)
    <2> HIDE DEF info
    <2> QED
      BY <1>1, <1>2, <1>3, GotoType, FinishType DEF Steps
  <1>5. LockOK'
    <2>1. holder = r
      BY <1>1 DEF LockOK
    <2> QED
      BY <1>1, <1>4, <2>1, LockFreed DEF CommitRun
  <1>6. CountOK' /\ RowOK'
    BY <1>1, RowFields DEF CommitRun, CountOK, RowOK, Parts
  <1> QED
    BY <1>4, <1>5, <1>6 DEF CommitRun, Parts, RedisOK, LossOK, SpentOK, losses

LEMMA ApplyType ==
    ASSUME Parts, NEW r \in Slots, ApplySucceeds(r) \/ ApplyFails(r)
    PROVE  /\ Parts' /\ UNCHANGED <<keys, queue>>
           /\ pc[r] = "apply" /\ (pc'[r] = "idle" \/ req'[r].msg = req[r].msg)
  <1>1. req[r].row \in Row
    BY RequestFields DEF Parts, ControlOK
  <1>2. [req[r].row EXCEPT !.status = "online"] \in Row
    BY <1>1, StatusUpdate DEF Status
  <1>3. pc[r] = "apply"
    BY DEF ApplySucceeds, ApplyFails
  <1>4. CASE ApplySucceeds(r)
    BY <1>2, <1>3, <1>4, CommitRunType DEF ApplySucceeds
  <1>5. CASE ApplyFails(r)
    BY <1>1, <1>3, <1>5, CommitRunType DEF ApplyFails
  <1> QED
    BY <1>4, <1>5

\* Steps after which the slot is idle and its lock, if it had it, is free.
LEMMA EndType ==
    ASSUME Parts, NEW r \in Slots, Finish(r),
           \/ UNCHANGED holder /\ pc[r] # "apply"
           \/ holder' = IF holder = r THEN None ELSE holder
    PROVE  ControlOK' /\ LockOK'
  <1>1. ControlOK /\ LockOK
    BY DEF Parts
  <1>2. /\ ControlOK' /\ pc'[r] = "idle"
        /\ \A x \in Slots : x # r => pc'[x] = pc[x]
    BY <1>1, FinishType
  <1> QED
    BY <1>1, <1>2, LockStays, LockFreed

LEMMA NewMessages ==
    ASSUME Parts, NEW r \in Slots
    PROVE  /\ ReconcileOf(req[r].row) \in Message /\ SweepOf(req[r].row) \in Message
           /\ ReconcileOf(req[r].row).gen = req[r].row.gen
           /\ SweepOf(req[r].row).gen = req[r].row.gen
           /\ req[r].row.gen \in Nat
           /\ RetryOf(r) \subseteq Message
           /\ Retried(req[r].msg) \subseteq Message
  <1>1. req[r] \in Request
    BY DEF Parts, ControlOK
  <1>2. Retried(req[r].msg) \subseteq Message
    BY <1>1, RequestFields, RetriedType
  <1>3. RetryOf(r) \subseteq Message
    BY <1>2 DEF RetryOf
  <1> QED
    BY <1>1, <1>2, <1>3, RequestFields, RowFields, CapIsPositive
       DEF Message, ReconcileOf, SweepOf

\* What an enqueue leaves in Redis, if its commands succeed and if not.
LEMMA QueueType ==
    ASSUME RedisOK, LossOK, SpentOK, NEW m \in Message, NEW retry \in SUBSET Message,
           Queue(m, retry) \/ QueueFails(m, retry)
    PROVE  RedisOK' /\ LossOK' /\ SpentOK'
  <1>1. m.gen \in Nat
    BY DEF Message
  <1>2. CASE Queue(m, retry)
    BY <1>1, <1>2 DEF Queue, RedisOK, LossOK, SpentOK, ghosts, losses
  <1>3. CASE QueueFails(m, retry)
    <2>1. SpentOK'
      BY <1>3, SpendType DEF QueueFails, Events
    <2>2. RedisOK'
      BY <1>1, <1>3 DEF QueueFails, RedisOK
    <2>3. LossOK'
      BY <1>1, <1>3 DEF QueueFails, RedisOK, LossOK
    <2> QED
      BY <2>1, <2>2, <2>3
  <1> QED
    BY <1>2, <1>3

LEMMA EnqueueType ==
    ASSUME Parts, NEW r \in Slots,
           Enqueue(r) \/ EnqueueFails(r) \/ SweepEnqueues(r) \/ SweepFails(r)
    PROVE  Parts'
  <1>1. /\ pc[r] # "apply" /\ Finish(r) /\ UNCHANGED <<agent, recent, holder, clock>>
        /\ \E m \in Message, retry \in SUBSET Message :
              Queue(m, retry) \/ QueueFails(m, retry)
    <2>1. {} \in SUBSET Message /\ RetryOf(r) \in SUBSET Message
      BY NewMessages
    <2> QED
      BY <2>1, NewMessages DEF Enqueue, EnqueueFails, SweepEnqueues, SweepFails
  <1>2. RedisOK' /\ LossOK' /\ SpentOK'
    BY <1>1, QueueType DEF Parts
  <1>3. ControlOK' /\ LockOK'
    BY <1>1, EndType
  <1>4. UNCHANGED <<escalated, watch, overlap>>
    BY <1>1 DEF Queue, QueueFails, ghosts
  <1> QED
    BY <1>1, <1>2, <1>3, <1>4 DEF Parts, RowOK, CountOK

LEMMA TimeOutType ==
    ASSUME Parts, ReconcileTimesOut
    PROVE  Parts'
  <1>1. Worker \in Slots /\ req[Worker] \in Request
    BY SlotFacts DEF Parts, ControlOK
  <1>2. Retried(req[Worker].msg) \subseteq Message
    BY <1>1, RequestFields, RetriedType
  <1>3. ControlOK' /\ LockOK'
    BY <1>1, EndType DEF ReconcileTimesOut
  <1>4. SpentOK'
    BY SpendType DEF ReconcileTimesOut, Parts, Events
  <1> QED
    BY <1>2, <1>3, <1>4 DEF ReconcileTimesOut, Parts, RowOK, RedisOK, CountOK, LossOK, ghosts, losses

LEMMA CrashType ==
    ASSUME Parts, NEW r \in Slots, Crash(r) \/ (r = Worker /\ RetryFails)
    PROVE  Parts'
  <1>1. Abandon(r) /\ dropped' \in BOOLEAN
    BY DEF Crash, RetryFails, Parts, LossOK
  <1>2. ControlOK' /\ LockOK'
    BY <1>1, EndType DEF Abandon
  <1>3. SpentOK'
    BY SpendType DEF Crash, RetryFails, Parts, Events
  <1> QED
    BY <1>1, <1>2, <1>3 DEF Abandon, Parts, RowOK, RedisOK, CountOK, LossOK

LEMMA SkipType ==
    ASSUME Parts, NEW m \in queue, ReconcileSkips(m) \/ DeferFails(m)
    PROVE  Parts'
  <1>1. Later(m) \in Message /\ Retried(m) \subseteq Message
    BY DueUpdate, RetriedType, RowFields DEF Parts, RowOK, RedisOK, Later
  <1>2. /\ RedisOK' /\ LossOK'
        /\ UNCHANGED <<agent, recent, holder, clock, pc, req, escalated, watch, overlap>>
    BY <1>1 DEF ReconcileSkips, DeferFails, Parts, RedisOK, LossOK, ghosts, losses
  <1>3. SpentOK'
    BY SpendType DEF ReconcileSkips, DeferFails, Parts, SpentOK, Events
  <1> QED
    BY <1>2, <1>3 DEF Parts, RowOK, LockOK, ControlOK, CountOK

LEMMA ReconcileType ==
    ASSUME Parts, NEW m \in queue, Reconcile(m)
    PROVE  Parts' /\ req'[Worker].msg = m
  <1>1. /\ Worker \in Slots /\ m \in Message /\ agent \in Row
        /\ ControlOK /\ LockOK
    BY SlotFacts DEF Parts, RedisOK, RowOK
  <1> DEFINE info == [Idle EXCEPT !.row = agent, !.msg = m, !.wake = TRUE]
  <1>2. info \in Request /\ info.msg = m
    BY <1>1, StartRequests
  <1>3. Goto(Worker, "give up", info) \/ Goto(Worker, "updating", info)
    BY DEF Reconcile
  <1>4. /\ ControlOK' /\ req'[Worker] = info /\ pc'[Worker] # "apply"
        /\ \A x \in Slots : x # Worker => pc'[x] = pc[x]
    <2> HIDE DEF info
    <2>1. "give up" \in Steps /\ "updating" \in Steps
      BY DEF Steps, Preparing
    <2>2. CASE Goto(Worker, "give up", info)
      BY <1>1, <1>2, <2>1, <2>2, GotoType
    <2>3. CASE Goto(Worker, "updating", info)
      BY <1>1, <1>2, <2>1, <2>3, GotoType
    <2> QED
      BY <1>3, <2>2, <2>3
  <1>5. LockOK'
    BY <1>1, <1>4, LockStays DEF Reconcile
  <1> QED
    BY <1>2, <1>4, <1>5 DEF Reconcile, Parts, RowOK, RedisOK, CountOK, LossOK, SpentOK, ghosts, losses

LEMMA GiveUpType ==
    ASSUME Parts, GiveUp
    PROVE  Parts'
  <1> DEFINE old == req[Worker].row
             s == Write("offline", old.status, agent.status)
             d == Write("none", old.deadline, agent.deadline)
  <1>1. Worker \in Slots /\ old \in Row /\ agent \in Row
    BY SlotFacts, RequestFields DEF Parts, ControlOK, RowOK
  <1>2. s \in Status /\ d \in Deadlines
    BY <1>1, RowFields DEF Write, Status, Deadlines
  <1>3. agent' = [agent EXCEPT !.status = s, !.deadline = d]
    BY DEF GiveUp
  <1>4. agent' \in Row
    <2> HIDE DEF s, d
    <2> QED
      BY <1>1, <1>2, <1>3, GiveUpUpdate
  <1>5. ControlOK' /\ LockOK'
    BY <1>1, EndType DEF GiveUp
  <1> QED
    BY <1>4, <1>5 DEF GiveUp, Parts, RowOK, RedisOK, CountOK, LossOK, SpentOK, ghosts, losses

LEMMA ReportedType ==
    ASSUME NEW old \in Row, NEW step
    PROVE  Reported(step, old) \subseteq Status
  BY RowFields DEF Reported, Status

LEMMA CommitBeatType ==
    ASSUME Parts, NEW r \in Slots, CommitBeat(r)
    PROVE  Parts'
  <1> DEFINE q == req[r]
             old == q.row
             t == q.at
             k == IF pc[r] = "beat" THEN Write(0, old.attempts, agent.attempts)
                  ELSE agent.attempts
             d == IF pc[r] = "beat" THEN Write("none", old.deadline, agent.deadline)
                  ELSE agent.deadline
  <1>1. agent \in Row /\ q \in Request
    BY DEF Parts, RowOK, ControlOK
  <1>2. old \in Row /\ t \in Nat
    BY <1>1, RequestFields
  <1>3. PICK s \in Reported(pc[r], old) :
          agent' = [agent EXCEPT !.status = Write(s, old.status, @), !.seenAt = t,
                                 !.attempts = k, !.deadline = d]
    BY DEF CommitBeat
  <1> DEFINE new == Write(s, old.status, agent.status)
  <1>4. new \in Status /\ k \in Nat /\ d \in Deadlines
    BY <1>1, <1>2, RowFields, ReportedType DEF Write, Deadlines
  <1>5. agent' = [agent EXCEPT !.status = new, !.seenAt = t, !.attempts = k, !.deadline = d]
    BY <1>3
  <1>6. agent' \in Row
    <2> HIDE DEF new, t, k, d
    <2> QED
      BY <1>1, <1>2, <1>4, <1>5, BeatUpdate
  <1>7. /\ pc[r] # "apply" /\ Finish(r) /\ recent' = TRUE /\ escalated' = 0
        /\ UNCHANGED <<holder, clock, keys, queue, watch, overlap, losses, spent>>
    BY DEF CommitBeat
  <1>8. ControlOK' /\ LockOK'
    BY <1>7, EndType
  <1> QED
    BY <1>6, <1>7, <1>8 DEF Parts, RowOK, RedisOK, CountOK, LossOK, SpentOK, losses

LEMMA CommitWorkWakeType ==
    ASSUME Parts, NEW r \in Slots, CommitWorkWake(r)
    PROVE  Parts'
  <1> DEFINE old == req[r].row
             s == IF pc[r] = "recover" THEN Write("online", old.status, agent.status)
                  ELSE agent.status
             k == old.attempts + 1
             d == "ahead"
             w == clock + 1
  <1>1. agent \in Row /\ req[r] \in Request /\ clock \in Nat
    BY DEF Parts, RowOK, ControlOK, CountOK
  <1>2. old \in Row
    BY <1>1, RequestFields
  <1>3. s \in Status /\ k \in Nat /\ d \in Deadlines /\ w \in Nat
    BY <1>1, <1>2, RowFields DEF Write, Status, Deadlines
  <1>4. agent' = [agent EXCEPT !.status = s, !.attempts = k, !.deadline = d, !.lastWake = w]
    BY DEF CommitWorkWake
  <1>5. agent' \in Row
    <2> HIDE DEF s, k, d, w
    <2> QED
      BY <1>1, <1>3, <1>4, WakeUpdate
  <1>6. ControlOK' /\ LockOK'
    BY EndType DEF CommitWorkWake
  <1> QED
    BY <1>1, <1>5, <1>6 DEF CommitWorkWake, Parts, RowOK, RedisOK, CountOK, LossOK, SpentOK, ghosts, losses

LEMMA TimeType ==
    ASSUME Parts,
           \/ \E m \in queue : MessageDue(m)
           \/ DeadlinePasses \/ GoesStale \/ KeyExpires \/ KeyExpiresEarly
    PROVE  Parts' /\ UNCHANGED <<holder, pc, req>>
  <1>1. CASE \E m \in queue : MessageDue(m)
    <2>1. PICK m \in queue : MessageDue(m)
      BY <1>1
    <2>2. [m EXCEPT !.due = TRUE] \in Message
      BY DueUpdate DEF Parts, RedisOK
    <2> QED
      BY <2>1, <2>2 DEF MessageDue, Parts, RowOK, LockOK, RedisOK, ControlOK, CountOK, LossOK,
                        SpentOK, ghosts, losses
  <1>2. CASE DeadlinePasses
    <2>1. [agent EXCEPT !.deadline = "passed"] \in Row
      BY DeadlineUpdate DEF Parts, RowOK, Deadlines
    <2> QED
      BY <1>2, <2>1 DEF DeadlinePasses, Parts, RowOK, LockOK, RedisOK, ControlOK, CountOK, LossOK,
                        SpentOK, ghosts, losses
  <1>3. CASE GoesStale
    BY <1>3 DEF GoesStale, Parts, RowOK, LockOK, RedisOK, ControlOK, CountOK, LossOK, SpentOK, ghosts, losses
  <1>4. CASE KeyExpires
    BY <1>4 DEF KeyExpires, Parts, RowOK, LockOK, RedisOK, ControlOK, CountOK, LossOK, SpentOK,
                ghosts, losses
  <1>5. CASE KeyExpiresEarly
    <2>1. SpentOK'
      BY <1>5, SpendType DEF KeyExpiresEarly, Parts, Events
    <2>2. LossOK'
      BY <1>5 DEF KeyExpiresEarly, Parts, RedisOK, LossOK
    <2> QED
      BY <1>5, <2>1, <2>2 DEF KeyExpiresEarly, Parts, RowOK, LockOK, RedisOK, ControlOK, CountOK
  <1> QED
    BY <1>1, <1>2, <1>3, <1>4, <1>5

LEMMA StutterType ==
    ASSUME Parts, UNCHANGED vars
    PROVE  Parts'
  BY DEF vars, ghosts, losses, Parts, RowOK, LockOK, RedisOK, ControlOK, CountOK, LossOK,
            SpentOK

LEMMA ProgressType ==
    ASSUME Parts, NEW r \in Slots, Progress(r)
    PROVE  Parts'
  BY LockAgentType, ApplyType, EnqueueType, CommitBeatType, CommitWorkWakeType DEF Progress

LEMMA StepType == Parts /\ [Next]_vars => Parts'
  <1> SUFFICES ASSUME Parts, [Next]_vars PROVE Parts'
    OBVIOUS
  <1>1. ASSUME NEW r \in Clients,
               \/ \E a \in Preparing, wake \in BOOLEAN : StartRun(r, a, wake)
               \/ \E step \in {"touch", "beat"} : StartBeat(r, step)
               \/ \E step \in {"assign", "recover"} : StartWorkWake(r, step)
               \/ Sweep(r) \/ SweepSessionless(r) \/ SweepFails(r) \/ Progress(r)
        PROVE  Parts'
    BY <1>1, StartType, EnqueueType, ProgressType, SlotFacts
  <1>2. CASE WorkerStep
    BY <1>2, ProgressType, GiveUpType, SkipType, ReconcileType, SlotFacts DEF WorkerStep
  <1>3. CASE ReconcileTimesOut \/ RetryFails
    BY <1>3, TimeOutType, CrashType, SlotFacts
  <1>4. CASE \E r \in Slots : Crash(r) \/ EnqueueFails(r)
    BY <1>4, CrashType, EnqueueType
  <1>5. CASE \/ \E m \in queue : MessageDue(m)
             \/ DeadlinePasses \/ GoesStale \/ KeyExpires \/ KeyExpiresEarly
    BY <1>5, TimeType
  <1>6. CASE \E m \in queue : DeferFails(m)
    BY <1>6, SkipType
  <1>7. CASE UNCHANGED vars
    BY <1>7, StutterType
  <1> QED
    BY <1>1, <1>2, <1>3, <1>4, <1>5, <1>6, <1>7 DEF Next

\* The row, messages and requests keep their types, and the row's lock belongs to
\* the slot that talks to the gateway: every way out of a run, commit, time-out
\* and crash, gives it back.
THEOREM TypeCorrect == Spec => []TypeOK
  <1>1. Init => Parts
    BY InitType, TypeParts
  <1>2. Parts /\ [Next]_vars => Parts'
    BY StepType
  <1>3. Parts => TypeOK
    BY TypeParts
  <1> QED
    BY <1>1, <1>2, <1>3, PTL DEF Spec

------------------------------------------------------------------------------
(***************************************************************************)
(* One reconcile per generation                                            *)
(***************************************************************************)

\* The keys make it so: a message is queued only under a new key, and a key that
\* goes before its message, or is not set, is on the list.
Handled == pc[Worker] # "idle"
Guarded(g) == g \in keys \cup unguarded
KeyInv ==
    /\ \A m \in queue : Guarded(m.gen)
    /\ \A m, n \in queue : m.gen = n.gen /\ m.gen \notin unguarded => m = n
    /\ Handled => /\ Guarded(req[Worker].msg.gen)
                  /\ \A m \in queue : m.gen = req[Worker].msg.gen => m.gen \in unguarded

LEMMA StartKeys ==
    ASSUME Parts, KeyInv, NEW r \in Clients,
           \/ \E a \in Preparing, wake \in BOOLEAN : StartRun(r, a, wake)
           \/ \E step \in {"touch", "beat"} : StartBeat(r, step)
           \/ \E step \in {"assign", "recover"} : StartWorkWake(r, step)
           \/ Sweep(r) \/ SweepSessionless(r)
    PROVE  KeyInv'
  <1>1. UNCHANGED <<keys, queue, unguarded>>
    BY DEF StartRun, StartBeat, StartWorkWake, Sweep, SweepSessionless, StartSweep, ghosts,
           losses
  <1>2. PICK step, info : Goto(r, step, info)
    BY DEF StartRun, StartBeat, StartWorkWake, Sweep, SweepSessionless, StartSweep
  <1>3. pc'[Worker] = pc[Worker] /\ req'[Worker] = req[Worker]
    BY <1>2, SlotFacts DEF Goto, Parts, ControlOK
  <1> QED
    BY <1>1, <1>3 DEF KeyInv, Guarded, Handled

\* Steps of a run and ends of requests that leave Redis alone.
LEMMA QuietKeys ==
    ASSUME Parts, KeyInv, NEW r \in Slots,
           \/ LockAgent(r) \/ ApplySucceeds(r) \/ ApplyFails(r)
           \/ CommitBeat(r) \/ CommitWorkWake(r) \/ Abandon(r)
    PROVE  KeyInv'
  <1>1. UNCHANGED <<keys, queue, unguarded>>
    BY DEF LockAgent, ApplySucceeds, ApplyFails, CommitRun, CommitBeat, CommitWorkWake,
           Abandon, ghosts, losses
  <1>2. /\ pc'[r] = "idle" \/ (pc[r] # "idle" /\ req'[r].msg = req[r].msg)
        /\ \A x \in Slots : x # r => pc'[x] = pc[x] /\ req'[x] = req[x]
    <2>1. ControlOK
      BY DEF Parts
    <2>2. CASE LockAgent(r)
      <3>1. pc[r] # "idle"
        BY <2>2 DEF LockAgent, Preparing
      <3>2. \A x \in Slots : x # r => pc'[x] = pc[x] /\ req'[x] = req[x]
        BY <2>1, <2>2 DEF LockAgent, Goto, ControlOK
      <3> QED
        BY <2>2, <3>1, <3>2, LockAgentType
    <2>3. CASE ApplySucceeds(r) \/ ApplyFails(r)
      <3>1. \A x \in Slots : x # r => pc'[x] = pc[x] /\ req'[x] = req[x]
        BY <2>1, <2>3 DEF ApplySucceeds, ApplyFails, CommitRun, Finish, Goto, ControlOK
      <3> QED
        BY <2>3, <3>1, ApplyType
    <2>4. CASE CommitBeat(r) \/ CommitWorkWake(r) \/ Abandon(r)
      BY <2>1, <2>4, FinishType DEF CommitBeat, CommitWorkWake, Abandon
    <2> QED
      BY <2>2, <2>3, <2>4
  <1> QED
    BY <1>1, <1>2, SlotFacts DEF KeyInv, Guarded, Handled

\* What an enqueue does to the keys and the queue: the new message is the only one
\* of its generation, or the generation is on the list.
LEMMA QueueKeys ==
    ASSUME NEW m, NEW retry, Queue(m, retry) \/ QueueFails(m, retry)
    PROVE  \E new \in SUBSET {m} :
             /\ queue' = queue \cup new \cup retry
             /\ unguarded \subseteq unguarded'
             /\ \A g : Guarded(g) /\ Waiting(g) => g \in keys' \cup unguarded'
             /\ \A x \in new : /\ m.gen \in keys' \cup unguarded'
                               /\ m.gen \in unguarded' \/ m.gen \notin keys
  <1>1. CASE Queue(m, retry)
    <2> DEFINE new == IF m.gen \in keys THEN {} ELSE {m}
    <2>1. /\ queue' = queue \cup new \cup retry /\ keys' = keys \cup {m.gen}
          /\ unguarded' = unguarded
      BY <1>1 DEF Queue, ghosts, losses
    <2>2. new \in SUBSET {m} /\ \A x \in new : m.gen \notin keys
      OBVIOUS
    <2> HIDE DEF new
    <2> QED
      BY <2>1, <2>2 DEF Guarded
  <1>2. CASE QueueFails(m, retry)
    <2>1. CASE /\ keys' = keys /\ queue' = queue \cup {m} \cup retry
               /\ unguarded' = unguarded \cup {m.gen}
      <3>1. {m} \in SUBSET {m}
        OBVIOUS
      <3> QED
        BY <2>1, <3>1 DEF Guarded
    <2>2. CASE /\ keys' \in {keys \cup {m.gen}, keys \ {m.gen}}
               /\ queue' = queue \cup retry
               /\ unguarded' = unguarded \cup {g \in keys \ keys' : Waiting(g)}
      <3>1. {} \in SUBSET {m} /\ queue' = queue \cup {} \cup retry
        BY <2>2
      <3>2. \A g : Guarded(g) /\ Waiting(g) => g \in keys' \cup unguarded'
        BY <2>2 DEF Guarded
      <3> QED
        BY <2>2, <3>1, <3>2
    <2> QED
      BY <1>2, <2>1, <2>2 DEF QueueFails
  <1> QED
    BY <1>1, <1>2

\* The message that a new key admits, and the retry of the worker's own message,
\* which takes its place.
LEMMA EnqueueKeys ==
    ASSUME Parts, KeyInv, NEW r \in Slots,
           Enqueue(r) \/ EnqueueFails(r) \/ SweepEnqueues(r) \/ SweepFails(r)
    PROVE  KeyInv'
  <1>1. /\ pc[r] # "idle" /\ Finish(r)
        /\ \E m \in Message, again \in SUBSET RetryOf(r) :
              Queue(m, again) \/ QueueFails(m, again)
    <2>1. {} \in SUBSET RetryOf(r) /\ RetryOf(r) \in SUBSET RetryOf(r)
      OBVIOUS
    <2> QED
      BY <2>1, NewMessages DEF Enqueue, EnqueueFails, SweepEnqueues, SweepFails
  <1>2. PICK m \in Message, again \in SUBSET RetryOf(r) :
             Queue(m, again) \/ QueueFails(m, again)
    BY <1>1
  <1>3. PICK new \in SUBSET {m} :
             /\ queue' = queue \cup new \cup again
             /\ unguarded \subseteq unguarded'
             /\ \A g : Guarded(g) /\ Waiting(g) => g \in keys' \cup unguarded'
             /\ \A x \in new : /\ m.gen \in keys' \cup unguarded'
                               /\ m.gen \in unguarded' \/ m.gen \notin keys
    BY <1>2, QueueKeys
  <1>4. /\ pc'[r] = "idle"
        /\ \A x \in Slots : x # r => pc'[x] = pc[x] /\ req'[x] = req[x]
    BY <1>1, FinishType DEF Parts
  <1>5. /\ \A x \in again : r = Worker /\ Handled /\ x.gen = req[Worker].msg.gen
        /\ \A x, y \in again : x = y
    <2>1. req[r].msg \in Message
      BY RequestFields DEF Parts, ControlOK
    <2>2. \A x \in RetryOf(r) : r = Worker /\ x \in Retried(req[r].msg)
      BY DEF RetryOf
    <2> QED
      BY <1>1, <1>2, <2>1, <2>2, RetriedType DEF Handled
  <1>6. Handled' => again = {} /\ Handled /\ req'[Worker] = req[Worker]
    BY <1>4, <1>5, SlotFacts DEF Handled
  <1>7. /\ \A x \in queue : Waiting(x.gen)
        /\ Handled => Waiting(req[Worker].msg.gen)
    BY DEF Waiting, Handled
  <1>8. \A x \in new : x = m
    OBVIOUS
  <1>9. \A x \in queue' : x.gen \in keys' \cup unguarded'
    <2>1. ASSUME NEW x \in queue PROVE Guarded(x.gen) /\ Waiting(x.gen)
      BY <1>7 DEF KeyInv
    <2>2. ASSUME NEW x \in again PROVE Guarded(x.gen) /\ Waiting(x.gen)
      BY <1>5, <1>7 DEF KeyInv
    <2>3. ASSUME NEW x \in queue' PROVE x.gen \in keys' \cup unguarded'
      <3>1. CASE x \in new
        <4>1. x = m
          BY <1>8, <3>1
        <4>2. m.gen \in keys' \cup unguarded'
          BY <1>3, <3>1
        <4> QED
          BY <4>1, <4>2
      <3>2. CASE x \in queue \cup again
        <4>1. Guarded(x.gen) /\ Waiting(x.gen)
          BY <2>1, <2>2, <3>2
        <4> QED
          BY <1>3, <4>1
      <3> QED
        BY <1>3, <3>1, <3>2
    <2> QED
      BY <2>3
  <1>10. \A x, y \in queue' : x.gen = y.gen /\ x.gen \notin unguarded' => x = y
    <2> SUFFICES ASSUME NEW x \in queue', NEW y \in queue', x.gen = y.gen,
                        x.gen \notin unguarded'
                 PROVE  x = y
      OBVIOUS
    <2>1. /\ x \in queue \/ x \in new \/ x \in again
          /\ y \in queue \/ y \in new \/ y \in again
          /\ x.gen \notin unguarded
      BY <1>3
    <2>2. ASSUME NEW z \in new, z.gen \notin unguarded'
          PROVE  z = m /\ z.gen \notin keys \cup unguarded
      BY <1>3, <1>8, <2>2
    <2>3. ASSUME NEW z \in queue \cup again, z.gen \notin unguarded'
          PROVE  z.gen \in keys
      BY <1>3, <1>5, <2>3 DEF KeyInv, Guarded
    <2>4. ASSUME NEW z \in queue, NEW v \in again, z.gen = v.gen
          PROVE  z.gen \in unguarded
      BY <1>5, <2>4 DEF KeyInv
    <2> QED
      BY <1>5, <2>1, <2>2, <2>3, <2>4 DEF KeyInv
  <1>11. Handled' => /\ req'[Worker].msg.gen \in keys' \cup unguarded'
                     /\ \A x \in queue' : x.gen = req'[Worker].msg.gen
                                           => x.gen \in unguarded'
    <2> SUFFICES ASSUME Handled'
                 PROVE  /\ req'[Worker].msg.gen \in keys' \cup unguarded'
                        /\ \A x \in queue' : x.gen = req'[Worker].msg.gen
                                              => x.gen \in unguarded'
      OBVIOUS
    <2>1. again = {} /\ Handled /\ req'[Worker] = req[Worker]
      BY <1>6
    <2>2. Guarded(req[Worker].msg.gen)
      BY <2>1 DEF KeyInv
    <2>3. req'[Worker].msg.gen \in keys' \cup unguarded'
      BY <1>3, <1>7, <2>1, <2>2
    <2>4. ASSUME NEW x \in queue', x.gen = req'[Worker].msg.gen
          PROVE  x.gen \in unguarded'
      <3>1. CASE x \in queue
        BY <1>3, <2>1, <2>4, <3>1 DEF KeyInv
      <3>2. CASE x \in new
        BY <1>3, <1>8, <2>1, <2>2, <2>4, <3>2 DEF Guarded
      <3> QED
        BY <1>3, <2>1, <3>1, <3>2
    <2> QED
      BY <2>3, <2>4
  <1> QED
    BY <1>9, <1>10, <1>11 DEF KeyInv, Guarded, Handled

LEMMA TimeOutKeys ==
    ASSUME Parts, KeyInv, ReconcileTimesOut
    PROVE  KeyInv'
  <1> DEFINE Again == Retried(req[Worker].msg)
  <1>1. Handled /\ queue' = queue \cup Again /\ UNCHANGED <<keys, unguarded>>
    BY DEF ReconcileTimesOut, Handled, Preparing, ghosts, losses
  <1>2. pc'[Worker] = "idle"
    BY SlotFacts, FinishType DEF ReconcileTimesOut, Parts
  <1>3. /\ \A x \in Again : x.gen = req[Worker].msg.gen
        /\ \A x, y \in Again : x = y
    BY SlotFacts, RetriedType, RequestFields DEF Parts, ControlOK
  <1> HIDE DEF Again
  <1> QED
    BY <1>1, <1>2, <1>3 DEF KeyInv, Guarded, Handled

\* A message that is put back, retried or dropped.
LEMMA SkipKeys ==
    ASSUME Parts, KeyInv, NEW m \in queue, ReconcileSkips(m) \/ DeferFails(m)
    PROVE  KeyInv'
  <1>1. /\ Later(m).gen = m.gen
        /\ \A x \in Retried(m) : x.gen = m.gen
        /\ \A x, y \in Retried(m) : x = y
    BY DueUpdate, RetriedType, RowFields DEF Parts, RowOK, RedisOK, Later
  <1>2. \E back \in {{}, {Later(m)}, Retried(m)} : queue' = (queue \ {m}) \cup back
    <2>1. CASE ReconcileSkips(m)
      BY <2>1 DEF ReconcileSkips
    <2>2. CASE queue' = (queue \ {m}) \cup Retried(m)
      BY <2>2
    <2>3. CASE queue' = queue \ {m}
      <3>1. queue' = (queue \ {m}) \cup {}
        BY <2>3
      <3> QED
        BY <3>1
    <2> QED
      BY <2>1, <2>2, <2>3 DEF DeferFails
  <1>3. PICK back \in {{}, {Later(m)}, Retried(m)} : queue' = (queue \ {m}) \cup back
    BY <1>2
  <1>4. (\A x \in back : x.gen = m.gen) /\ \A x, y \in back : x = y
    BY <1>1, <1>3
  <1>5. UNCHANGED <<keys, unguarded, pc, req>>
    BY DEF ReconcileSkips, DeferFails, ghosts, losses
  <1> QED
    BY <1>3, <1>4, <1>5 DEF KeyInv, Guarded, Handled

LEMMA ReconcileKeys ==
    ASSUME Parts, KeyInv, NEW m \in queue, Reconcile(m)
    PROVE  KeyInv'
  <1>1. req'[Worker].msg = m
    BY ReconcileType
  <1>2. queue' = queue \ {m} /\ UNCHANGED <<keys, unguarded>>
    BY DEF Reconcile, ghosts, losses
  <1> QED
    BY <1>1, <1>2 DEF KeyInv, Guarded, Handled

LEMMA GiveUpKeys ==
    ASSUME Parts, KeyInv, GiveUp
    PROVE  KeyInv'
  <1>1. pc'[Worker] = "idle" /\ UNCHANGED <<keys, queue, unguarded>>
    BY SlotFacts, FinishType DEF GiveUp, Parts, ghosts, losses
  <1> QED
    BY <1>1 DEF KeyInv, Guarded, Handled

LEMMA TimeKeys ==
    ASSUME Parts, KeyInv,
           \/ \E m \in queue : MessageDue(m)
           \/ DeadlinePasses \/ GoesStale \/ KeyExpires \/ KeyExpiresEarly
    PROVE  KeyInv'
  <1>1. CASE \E m \in queue : MessageDue(m)
    <2>1. PICK m \in queue : MessageDue(m)
      BY <1>1
    <2> DEFINE ripe == [m EXCEPT !.due = TRUE]
    <2>2. ripe.gen = m.gen
      BY DueUpdate DEF Parts, RedisOK
    <2>3. queue' = (queue \ {m}) \cup {ripe} /\ UNCHANGED <<keys, unguarded, pc, req>>
      BY <2>1 DEF MessageDue, ghosts, losses
    <2> HIDE DEF ripe
    <2> QED
      BY <2>2, <2>3 DEF KeyInv, Guarded, Handled
  <1>2. CASE DeadlinePasses \/ GoesStale
    BY <1>2 DEF DeadlinePasses, GoesStale, KeyInv, Guarded, Handled, ghosts, losses
  <1>3. CASE KeyExpires
    <2>1. /\ UNCHANGED <<queue, pc, req, unguarded>> /\ keys' = keys \ {agent.gen}
          /\ \A m \in queue : m.gen # agent.gen
          /\ Handled => req[Worker].msg.gen # agent.gen
      BY <1>3 DEF KeyExpires, Waiting, Handled, ghosts, losses
    <2> QED
      BY <2>1 DEF KeyInv, Guarded, Handled
  <1>4. CASE KeyExpiresEarly
    <2>1. /\ UNCHANGED <<queue, pc, req>> /\ keys' = keys \ {agent.gen}
          /\ unguarded' = unguarded \cup {agent.gen}
      BY <1>4 DEF KeyExpiresEarly
    <2> QED
      BY <2>1 DEF KeyInv, Guarded, Handled
  <1> QED
    BY <1>1, <1>2, <1>3, <1>4

LEMMA ProgressKeys ==
    ASSUME Parts, KeyInv, NEW r \in Slots, Progress(r)
    PROVE  KeyInv'
  BY QuietKeys, EnqueueKeys DEF Progress

LEMMA StepKeys == Parts /\ KeyInv /\ [Next]_vars => KeyInv'
  <1> SUFFICES ASSUME Parts, KeyInv, [Next]_vars PROVE KeyInv'
    OBVIOUS
  <1>1. ASSUME NEW r \in Clients,
               \/ \E a \in Preparing, wake \in BOOLEAN : StartRun(r, a, wake)
               \/ \E step \in {"touch", "beat"} : StartBeat(r, step)
               \/ \E step \in {"assign", "recover"} : StartWorkWake(r, step)
               \/ Sweep(r) \/ SweepSessionless(r) \/ SweepFails(r) \/ Progress(r)
        PROVE  KeyInv'
    BY <1>1, StartKeys, EnqueueKeys, ProgressKeys, SlotFacts
  <1>2. CASE WorkerStep
    BY <1>2, ProgressKeys, GiveUpKeys, SkipKeys, ReconcileKeys, SlotFacts DEF WorkerStep
  <1>3. CASE ReconcileTimesOut \/ RetryFails
    BY <1>3, TimeOutKeys, QuietKeys, SlotFacts DEF RetryFails
  <1>4. CASE \E r \in Slots : Crash(r) \/ EnqueueFails(r)
    BY <1>4, QuietKeys, EnqueueKeys DEF Crash
  <1>5. CASE \/ \E m \in queue : MessageDue(m)
             \/ DeadlinePasses \/ GoesStale \/ KeyExpires \/ KeyExpiresEarly
    BY <1>5, TimeKeys
  <1>6. CASE \E m \in queue : DeferFails(m)
    BY <1>6, SkipKeys
  <1>7. CASE UNCHANGED vars
    BY <1>7 DEF vars, ghosts, losses, KeyInv, Guarded, Handled
  <1> QED
    BY <1>1, <1>2, <1>3, <1>4, <1>5, <1>6, <1>7 DEF Next

\* Whatever is retried, deferred, swept, timed out or lost, a generation of the
\* agent has at most one reconcile, queued or being handled, unless its key went
\* before the message or was never set.
THEOREM OneReconcile == Spec => []OneReconcilePerGeneration
  <1>1. Init => Parts /\ KeyInv
    BY InitType, TypeParts, SlotFacts DEF Init, KeyInv, Guarded, Handled
  <1>2. Parts /\ KeyInv /\ [Next]_vars => Parts' /\ KeyInv'
    BY StepType, StepKeys
  <1>3. KeyInv => OneReconcilePerGeneration
    BY DEF KeyInv, Handled, OneReconcilePerGeneration, Preparing
  <1> QED
    BY <1>1, <1>2, <1>3, PTL DEF Spec

------------------------------------------------------------------------------
(***************************************************************************)
(* The steps, by what they do to the fields that the next two theorems are *)
(* about                                                                   *)
(***************************************************************************)
Busy(r)  == pc[r] # "idle"
RowOf(r) == req[r].row
MsgOf(r) == req[r].msg

OnlyMoves(r) == \A x \in Slots : x # r => pc'[x] = pc[x] /\ req'[x] = req[x]
Unlocked == \A x \in Slots : pc[x] # "apply"
SameGhosts == UNCHANGED <<escalated, watch, overlap>>
Failures == spent["timeouts"] + spent["outages"]
Died     == spent["crashes"] > 0
EventsGrow == /\ Failures <= Failures'
              /\ Died => Died'
              /\ dropped => dropped'
SameRedis == UNCHANGED <<keys, queue>>

\* A request loads the row.
StartStep(r) ==
    /\ r \in Clients /\ ~Busy(r)
    /\ pc'[r] \in {"provisioning", "updating", "touch", "beat", "assign", "recover", "sweep"}
    /\ req'[r].row = agent
    /\ pc'[r] \in {"touch", "beat"} => req'[r].at = clock
    /\ pc'[r] = "sweep" => agent.deadline # "ahead"
    /\ OnlyMoves(r) /\ SameGhosts /\ EventsGrow /\ SameRedis
    /\ UNCHANGED <<agent, clock>>

\* A run locks the row and counts.
LockStep(r) ==
    LET old == RowOf(r)  new == req'[r].row IN
    /\ pc[r] \in Preparing /\ pc'[r] = "apply" /\ Unlocked
    /\ req'[r].wake = req[r].wake /\ req'[r].msg = MsgOf(r)
    /\ new.gen = old.gen + 1 /\ overlap' = (overlap \/ old.gen # agent.gen)
    /\ req[r].wake => /\ clock' = clock + 1 /\ new.lastWake = clock + 1
                      /\ new.attempts = old.attempts + 1 /\ new.deadline = "ahead"
    /\ ~req[r].wake => /\ clock' = clock /\ new.lastWake = agent.lastWake
                       /\ \/ new.deadline = "none"
                          \/ old.deadline = "none" /\ new.deadline = agent.deadline
    /\ OnlyMoves(r) /\ EventsGrow /\ SameRedis
    /\ UNCHANGED <<agent, escalated, watch>>

\* It commits what it has counted.
CommitStep(r) ==
    LET old == RowOf(r)  new == req'[r].row IN
    /\ pc[r] = "apply" /\ (\A x \in Slots : x # r => pc[x] # "apply")
    /\ agent'.gen = old.gen /\ agent'.attempts = old.attempts
    /\ agent'.deadline = old.deadline /\ agent'.lastWake = old.lastWake
    /\ escalated' = IF r = Worker THEN escalated + 1 ELSE 0
    /\ req[r].wake => /\ watch' = old.lastWake /\ pc'[r] = "enqueue"
                      /\ new.gen = old.gen /\ new.lastWake = old.lastWake
                      /\ req'[r].wake = req[r].wake /\ req'[r].msg = MsgOf(r)
    /\ ~req[r].wake => watch' = watch /\ pc'[r] = "idle"
    /\ OnlyMoves(r) /\ EventsGrow /\ SameRedis
    /\ UNCHANGED <<clock, overlap>>

\* A request ends and leaves the row as it is.
EndStep(r) ==
    /\ Busy(r) /\ pc'[r] = "idle"
    /\ OnlyMoves(r) /\ SameGhosts
    /\ UNCHANGED <<agent, clock>>

\* It has queued a message for its generation under a new key, if the push did not
\* fail; the worker also the message it had in hand.
EnqueueStep(r) ==
    /\ EndStep(r) /\ EventsGrow
    /\ pc[r] \in {"enqueue", "sweep"}
    /\ keys' \subseteq keys \cup {RowOf(r).gen}
    /\ queue \subseteq queue'
    /\ RowOf(r).gen \notin keys => dropped' \/ \E m \in queue' : m.gen = RowOf(r).gen
    /\ \A m \in queue' \ queue :
          \/ m.gen = RowOf(r).gen /\ m.tries = 0
             /\ (pc[r] = "enqueue" => m.wake = RowOf(r).lastWake /\ ~m.due)
          \/ r = Worker /\ m.gen = MsgOf(r).gen

TimeOutStep ==
    /\ EndStep(Worker) /\ UNCHANGED keys
    /\ pc[Worker] \in Preparing \cup {"apply"}
    /\ EventsGrow /\ Failures' = Failures + 1
    /\ queue \subseteq queue'
    /\ MsgOf(Worker).tries < MaxRetries => \E m \in queue' : m.gen = MsgOf(Worker).gen
    /\ \A m \in queue' \ queue :
          m.gen = MsgOf(Worker).gen /\ m.tries = MsgOf(Worker).tries + 1

CrashStep(r) ==
    /\ EndStep(r) /\ SameRedis /\ EventsGrow
    /\ Died' \/ dropped'

\* The worker drops a message, or puts it back as another of its generation.
SkipStep(m) ==
    /\ m \in queue /\ m.due
    /\ \/ /\ m.gen # agent.gen \/ agent.seenAt >= agent.lastWake
          /\ queue' = queue \ {m}
       \/ \E n \in queue' : /\ n.gen = m.gen /\ n.tries = m.tries
                             /\ n.wake = agent.lastWake /\ ~n.due
                             /\ queue' = (queue \ {m}) \cup {n}
    /\ SameGhosts /\ EventsGrow
    /\ UNCHANGED <<agent, clock, keys, pc, req>>

\* The push of a message that is put back fails: it is tried again, or lost.
DeferFailStep(m) ==
    /\ m \in queue /\ m.due
    /\ \/ /\ dropped' \/ m.tries >= MaxRetries
          /\ queue' = queue \ {m}
       \/ \E n \in queue' : /\ n.gen = m.gen /\ n.tries = m.tries + 1
                             /\ queue' = (queue \ {m}) \cup {n}
    /\ Failures' = Failures + 1
    /\ SameGhosts /\ EventsGrow
    /\ UNCHANGED <<agent, clock, keys, pc, req>>

\* A message's time comes.
RipeStep(m) ==
    /\ m \in queue /\ Long(m.wake)
    /\ \E n \in queue' : /\ n.gen = m.gen /\ n.tries = m.tries
                          /\ queue' = (queue \ {m}) \cup {n}
    /\ SameGhosts /\ EventsGrow
    /\ UNCHANGED <<agent, clock, keys, pc, req>>

\* The worker takes a message in hand.
TakeStep(m) ==
    /\ ~Busy(Worker) /\ m \in queue /\ m.due /\ m.gen = agent.gen
    /\ agent.deadline # "ahead"
    /\ pc'[Worker] \in {"updating", "give up"}
    /\ pc'[Worker] = "updating" => agent.attempts < MaxWake \/ Standalone
    /\ req'[Worker].row = agent /\ req'[Worker].msg = m /\ req'[Worker].wake
    /\ queue' = queue \ {m}
    /\ OnlyMoves(Worker) /\ SameGhosts /\ EventsGrow
    /\ UNCHANGED <<agent, clock, keys>>

SameWake == agent'.gen = agent.gen /\ agent'.lastWake = agent.lastWake

GiveUpStep ==
    /\ pc[Worker] = "give up" /\ pc'[Worker] = "idle" /\ Unlocked
    /\ SameWake /\ agent'.seenAt = agent.seenAt /\ agent'.attempts = agent.attempts
    /\ \/ agent'.deadline = "none"
       \/ RowOf(Worker).deadline = "none" /\ agent'.deadline = agent.deadline
    /\ OnlyMoves(Worker) /\ SameGhosts /\ EventsGrow /\ SameRedis
    /\ UNCHANGED clock

BeatStep(r) ==
    /\ pc[r] \in {"touch", "beat"} /\ pc'[r] = "idle" /\ Unlocked
    /\ SameWake /\ agent'.seenAt = req[r].at
    /\ agent'.deadline \in {"none", agent.deadline}
    /\ escalated' = 0
    /\ OnlyMoves(r) /\ EventsGrow /\ SameRedis
    /\ UNCHANGED <<clock, watch, overlap>>

WorkWakeStep(r) ==
    /\ pc[r] \in {"assign", "recover"} /\ pc'[r] = "idle" /\ Unlocked
    /\ clock' = clock + 1 /\ agent'.lastWake = clock + 1 /\ agent'.gen = agent.gen
    /\ agent'.attempts = RowOf(r).attempts + 1 /\ agent'.deadline = "ahead"
    /\ OnlyMoves(r) /\ SameGhosts /\ EventsGrow /\ SameRedis

PassStep ==
    /\ agent.deadline = "ahead" /\ Long(agent.lastWake)
    /\ SameWake /\ agent'.seenAt = agent.seenAt /\ agent'.attempts = agent.attempts
    /\ agent'.deadline = "passed"
    /\ SameGhosts /\ EventsGrow /\ SameRedis
    /\ UNCHANGED <<clock, pc, req>>

ExpireStep ==
    /\ keys' \subseteq keys
    /\ SameGhosts /\ EventsGrow
    /\ UNCHANGED <<agent, clock, queue, pc, req>>

RestStep == SameGhosts /\ EventsGrow /\ SameRedis /\ UNCHANGED <<agent, clock, pc, req>>

WatchStep ==
    \/ \E r \in Slots : \/ StartStep(r) \/ LockStep(r) \/ CommitStep(r) \/ EnqueueStep(r)
                        \/ CrashStep(r) \/ BeatStep(r) \/ WorkWakeStep(r)
    \/ \E m \in queue : SkipStep(m) \/ DeferFailStep(m) \/ RipeStep(m) \/ TakeStep(m)
    \/ TimeOutStep \/ GiveUpStep \/ PassStep \/ ExpireStep \/ RestStep

\* What the steps leave in the fields of a request and of a row.
LEMMA StartFields ==
    ASSUME NEW row \in Row, NEW m \in Message, NEW t \in Nat, NEW wake \in BOOLEAN
    PROVE  /\ [Idle EXCEPT !.row = row].row = row
           /\ [Idle EXCEPT !.row = row, !.wake = wake].row = row
           /\ [Idle EXCEPT !.row = row, !.at = t].row = row
           /\ [Idle EXCEPT !.row = row, !.at = t].at = t
           /\ [Idle EXCEPT !.row = row, !.msg = m, !.wake = TRUE].row = row
           /\ [Idle EXCEPT !.row = row, !.msg = m, !.wake = TRUE].msg = m
           /\ [Idle EXCEPT !.row = row, !.msg = m, !.wake = TRUE].wake = TRUE
  BY DEF Idle

LEMMA KeptFields ==
    ASSUME NEW q \in Request, NEW row \in Row, NEW b \in BOOLEAN
    PROVE  /\ [q EXCEPT !.row = row].row = row
           /\ [q EXCEPT !.row = row].wake = q.wake
           /\ [q EXCEPT !.row = row].msg = q.msg
           /\ [q EXCEPT !.row = row, !.failed = b].row = row
           /\ [q EXCEPT !.row = row, !.failed = b].wake = q.wake
           /\ [q EXCEPT !.row = row, !.failed = b].msg = q.msg
  BY DEF Request

LEMMA MessageFields ==
    ASSUME NEW m \in Message, NEW w \in Nat
    PROVE  /\ [m EXCEPT !.due = TRUE].gen = m.gen /\ [m EXCEPT !.due = TRUE].tries = m.tries
           /\ [m EXCEPT !.wake = w, !.due = FALSE].gen = m.gen
           /\ [m EXCEPT !.wake = w, !.due = FALSE].tries = m.tries
           /\ [m EXCEPT !.wake = w, !.due = FALSE].wake = w
           /\ ~[m EXCEPT !.wake = w, !.due = FALSE].due
  BY DEF Message

LEMMA RetriedFields ==
    ASSUME NEW m \in Message
    PROVE  /\ \A x \in Retried(m) : x.gen = m.gen /\ x.tries = m.tries + 1
           /\ m.tries < MaxRetries => \E x \in Retried(m) : x.gen = m.gen
  <1>1. /\ [m EXCEPT !.tries = @ + 1, !.wake = 0, !.due = TRUE].gen = m.gen
        /\ [m EXCEPT !.tries = @ + 1, !.wake = 0, !.due = TRUE].tries = m.tries + 1
    BY DEF Message
  <1> QED
    BY <1>1 DEF Retried

LEMMA GotoStep ==
    ASSUME ControlOK, NEW r \in Slots, NEW step, NEW info, Goto(r, step, info)
    PROVE  pc'[r] = step /\ req'[r] = info /\ OnlyMoves(r)
  BY DEF ControlOK, Goto, OnlyMoves

LEMMA FinishStep ==
    ASSUME ControlOK, NEW r \in Slots, Finish(r)
    PROVE  pc'[r] = "idle" /\ OnlyMoves(r)
  BY GotoStep DEF Finish

Harms == {"timeouts", "outages", "crashes"}
LEMMA SpendEvents ==
    ASSUME SpentOK, NEW k \in Events, Spend(k)
    PROVE  /\ Failures <= Failures' /\ (Died => Died')
           /\ k \in {"timeouts", "outages"} => Failures' = Failures + 1
           /\ k = "crashes" => Died'
  BY DEF SpentOK, Spend, Events, Failures, Died

\* Steps that count nothing.
LEMMA NothingSpent ==
    ASSUME SpentOK, UNCHANGED <<spent, dropped>>
    PROVE  EventsGrow
  BY DEF SpentOK, EventsGrow, Events, Failures, Died

LEMMA StartIsStep ==
    ASSUME Parts, NEW r \in Clients,
           \/ \E a \in Preparing, wake \in BOOLEAN : StartRun(r, a, wake)
           \/ \E step \in {"touch", "beat"} : StartBeat(r, step)
           \/ \E step \in {"assign", "recover"} : StartWorkWake(r, step)
           \/ Sweep(r) \/ SweepSessionless(r)
    PROVE  StartStep(r)
  <1>1. r \in Slots /\ agent \in Row /\ clock \in Nat /\ ControlOK /\ SpentOK
    BY SlotFacts DEF Parts, RowOK, CountOK
  <1>2. NoMessage \in Message
    BY IdleType, RequestFields DEF Idle
  <1>3. /\ ~Busy(r) /\ SameGhosts /\ SameRedis /\ UNCHANGED <<agent, clock>>
    BY DEF StartRun, StartBeat, StartWorkWake, Sweep, SweepSessionless, StartSweep, Busy,
           SameGhosts, SameRedis, ghosts
  <1>4. EventsGrow
    <2>1. UNCHANGED dropped
      BY DEF StartRun, StartBeat, StartWorkWake, Sweep, SweepSessionless, StartSweep, ghosts,
             losses
    <2>2. CASE \E k \in {"runs", "beats", "wakes", "sweeps"} : Spend(k)
      BY <1>1, <2>1, <2>2, SpendEvents DEF Events, EventsGrow
    <2>3. CASE UNCHANGED spent
      BY <1>1, <2>1, <2>3, NothingSpent
    <2> QED
      BY <2>2, <2>3 DEF StartRun, StartBeat, StartWorkWake, Sweep, SweepSessionless
  <1>5. \E step \in {"provisioning", "updating", "touch", "beat", "assign", "recover", "sweep"} :
           \E info : /\ Goto(r, step, info) /\ info.row = agent
                     /\ step \in {"touch", "beat"} => info.at = clock
                     /\ step = "sweep" => agent.deadline # "ahead"
    <2>1. CASE \E a \in Preparing, wake \in BOOLEAN : StartRun(r, a, wake)
      <3>1. PICK a \in Preparing, wake \in BOOLEAN : StartRun(r, a, wake)
        BY <2>1
      <3>2. Goto(r, a, [Idle EXCEPT !.row = agent, !.wake = wake])
        BY <3>1 DEF StartRun
      <3>3. [Idle EXCEPT !.row = agent, !.wake = wake].row = agent
        BY <1>1, <1>2, StartFields
      <3> QED
        BY <3>2, <3>3 DEF Preparing
    <2>2. CASE \E step \in {"touch", "beat"} : StartBeat(r, step)
      <3>1. PICK step \in {"touch", "beat"} : StartBeat(r, step)
        BY <2>2
      <3>2. Goto(r, step, [Idle EXCEPT !.row = agent, !.at = clock])
        BY <3>1 DEF StartBeat
      <3>3. /\ [Idle EXCEPT !.row = agent, !.at = clock].row = agent
            /\ [Idle EXCEPT !.row = agent, !.at = clock].at = clock
        BY <1>1, <1>2, StartFields
      <3> QED
        BY <3>2, <3>3
    <2>3. CASE \E step \in {"assign", "recover"} : StartWorkWake(r, step)
      <3>1. PICK step \in {"assign", "recover"} : StartWorkWake(r, step)
        BY <2>3
      <3>2. Goto(r, step, [Idle EXCEPT !.row = agent])
        BY <3>1 DEF StartWorkWake
      <3>3. [Idle EXCEPT !.row = agent].row = agent
        BY <1>1, <1>2, StartFields
      <3> QED
        BY <3>2, <3>3
    <2>4. CASE Sweep(r) \/ SweepSessionless(r)
      <3>1. Goto(r, "sweep", [Idle EXCEPT !.row = agent]) /\ agent.deadline # "ahead"
        BY <2>4 DEF Sweep, SweepSessionless, StartSweep
      <3>2. [Idle EXCEPT !.row = agent].row = agent
        BY <1>1, <1>2, StartFields
      <3> QED
        BY <3>1, <3>2
    <2> QED
      BY <2>1, <2>2, <2>3, <2>4
  <1>6. PICK step \in {"provisioning", "updating", "touch", "beat", "assign", "recover", "sweep"} :
           \E info : /\ Goto(r, step, info) /\ info.row = agent
                     /\ step \in {"touch", "beat"} => info.at = clock
                     /\ step = "sweep" => agent.deadline # "ahead"
    BY <1>5
  <1> QED
    BY <1>1, <1>3, <1>4, <1>6, GotoStep DEF StartStep

LEMMA LockIsStep ==
    ASSUME Parts, NEW r \in Slots, LockAgent(r)
    PROVE  LockStep(r)
  <1> DEFINE q == req[r]
             old == q.row
             s == Write(pc[r], old.status, agent.status)
             g == old.gen + 1
             k == IF q.wake THEN old.attempts + 1 ELSE agent.attempts
             d == IF q.wake THEN "ahead" ELSE Write("none", old.deadline, agent.deadline)
             w == IF q.wake THEN clock + 1 ELSE agent.lastWake
             row == [agent EXCEPT !.status = s, !.gen = g, !.attempts = k,
                                  !.deadline = d, !.lastWake = w]
  <1>1. q \in Request /\ agent \in Row /\ clock \in Nat /\ ControlOK /\ LockOK
    BY DEF Parts, RowOK, CountOK, ControlOK
  <1>2. row.gen = g /\ row.attempts = k /\ row.deadline = d /\ row.lastWake = w
    <2> HIDE DEF s, g, k, d, w
    <2> QED
      BY <1>1 DEF Row
  <1>3. Goto(r, "apply", [q EXCEPT !.row = row])
    BY DEF LockAgent
  <1>4. /\ [q EXCEPT !.row = row].row = row /\ [q EXCEPT !.row = row].wake = q.wake
        /\ [q EXCEPT !.row = row].msg = q.msg
    <2> HIDE DEF row
    <2> QED
      BY <1>1 DEF Request
  <1>5. pc'[r] = "apply" /\ req'[r] = [q EXCEPT !.row = row] /\ OnlyMoves(r)
    <2> HIDE DEF row
    <2> QED
      BY <1>1, <1>3, GotoStep
  <1>6. Unlocked
    BY <1>1, SlotFacts DEF LockAgent, LockOK, Unlocked
  <1>7. /\ pc[r] \in Preparing /\ overlap' = (overlap \/ old.gen # agent.gen)
        /\ clock' = IF q.wake THEN clock + 1 ELSE clock
        /\ EventsGrow /\ SameRedis /\ UNCHANGED <<agent, escalated, watch>>
    BY NothingSpent DEF LockAgent, SameRedis, losses, Parts
  <1>8. d = "none" \/ q.wake \/ (old.deadline = "none" /\ d = agent.deadline)
    BY DEF Write
  <1>9. req'[r].row = row /\ req'[r].wake = q.wake /\ req'[r].msg = q.msg
    <2> HIDE DEF row
    <2> QED
      BY <1>4, <1>5
  <1> HIDE DEF row, s
  <1> QED
    BY <1>2, <1>5, <1>6, <1>7, <1>8, <1>9 DEF LockStep, RowOf, MsgOf

LEMMA CommitIsStep ==
    ASSUME Parts, NEW r \in Slots, ApplySucceeds(r) \/ ApplyFails(r)
    PROVE  CommitStep(r)
  <1>1. req[r] \in Request /\ RowOf(r) \in Row /\ ControlOK /\ LockOK /\ pc[r] = "apply"
    BY RequestFields DEF Parts, ControlOK, RowOf, ApplySucceeds, ApplyFails
  <1>2. PICK row \in Row, failed \in BOOLEAN :
           /\ CommitRun(r, row, failed)
           /\ row.gen = RowOf(r).gen /\ row.attempts = RowOf(r).attempts
           /\ row.deadline = RowOf(r).deadline /\ row.lastWake = RowOf(r).lastWake
    <2>1. CASE ApplySucceeds(r)
      <3> DEFINE row == [RowOf(r) EXCEPT !.status = "online"]
      <3>1. row \in Row
        BY <1>1, StatusUpdate DEF Status
      <3>2. /\ row.gen = RowOf(r).gen /\ row.attempts = RowOf(r).attempts
            /\ row.deadline = RowOf(r).deadline /\ row.lastWake = RowOf(r).lastWake
        BY <1>1 DEF Row
      <3>3. CommitRun(r, row, FALSE)
        BY <2>1 DEF ApplySucceeds, RowOf
      <3> QED
        BY <3>1, <3>2, <3>3
    <2>2. CASE ApplyFails(r)
      BY <1>1, <2>2 DEF ApplyFails, RowOf
    <2> QED
      BY <2>1, <2>2
  <1>3. \A x \in Slots : x # r => pc[x] # "apply"
    BY <1>1 DEF LockOK
  <1>4. /\ agent' = row
        /\ escalated' = IF r = Worker THEN escalated + 1 ELSE 0
        /\ watch' = IF req[r].wake THEN row.lastWake ELSE watch
        /\ EventsGrow /\ SameRedis /\ UNCHANGED <<clock, overlap>>
    BY <1>2, NothingSpent DEF CommitRun, SameRedis, losses, Parts
  <1>5. req[r].wake => Goto(r, "enqueue", [req[r] EXCEPT !.row = row, !.failed = failed])
    BY <1>2 DEF CommitRun
  <1>6. ~req[r].wake => Finish(r)
    BY <1>2 DEF CommitRun
  <1>7. CASE req[r].wake
    <2>1. /\ pc'[r] = "enqueue" /\ OnlyMoves(r)
          /\ req'[r] = [req[r] EXCEPT !.row = row, !.failed = failed]
      BY <1>1, <1>5, <1>7, GotoStep
    <2>2. req'[r].row = row /\ req'[r].wake = req[r].wake /\ req'[r].msg = req[r].msg
      BY <1>1, <2>1, KeptFields
    <2> QED
      BY <1>1, <1>2, <1>3, <1>4, <1>7, <2>1, <2>2 DEF CommitStep, MsgOf, RowOf
  <1>8. CASE ~req[r].wake
    <2>1. pc'[r] = "idle" /\ OnlyMoves(r)
      BY <1>1, <1>6, <1>8, FinishStep
    <2> QED
      BY <1>1, <1>2, <1>3, <1>4, <1>8, <2>1 DEF CommitStep, MsgOf, RowOf
  <1> QED
    BY <1>7, <1>8

\* What an enqueue does to Redis, if its commands succeed and if not.
LEMMA QueueStep ==
    ASSUME Parts, NEW m \in Message, NEW retry \in SUBSET Message,
           Queue(m, retry) \/ QueueFails(m, retry)
    PROVE  /\ keys' \subseteq keys \cup {m.gen}
           /\ queue \subseteq queue' /\ queue' \subseteq queue \cup {m} \cup retry
           /\ m.gen \notin keys => dropped' \/ m \in queue'
           /\ SameGhosts /\ EventsGrow
  <1>1. CASE Queue(m, retry)
    BY <1>1, NothingSpent DEF Queue, SameGhosts, ghosts, losses, Parts
  <1>2. CASE QueueFails(m, retry)
    <2>1. EventsGrow
      BY <1>2, SpendEvents DEF QueueFails, Parts, Events, EventsGrow
    <2> QED
      BY <1>2, <2>1 DEF QueueFails, SameGhosts
  <1> QED
    BY <1>1, <1>2

LEMMA EnqueueIsStep ==
    ASSUME Parts, NEW r \in Slots,
           Enqueue(r) \/ EnqueueFails(r) \/ SweepEnqueues(r) \/ SweepFails(r)
    PROVE  EnqueueStep(r)
  <1>1. /\ pc[r] \in {"enqueue", "sweep"} /\ Finish(r) /\ UNCHANGED <<agent, clock>>
        /\ \E m \in Message, again \in SUBSET Message :
              /\ Queue(m, again) \/ QueueFails(m, again)
              /\ m.gen = RowOf(r).gen /\ m.tries = 0
              /\ pc[r] = "enqueue" => m.wake = RowOf(r).lastWake /\ ~m.due
              /\ again \subseteq RetryOf(r)
    <2>1. /\ {} \in SUBSET Message /\ {} \subseteq RetryOf(r)
          /\ RetryOf(r) \in SUBSET Message /\ RetryOf(r) \subseteq RetryOf(r)
      BY NewMessages
    <2> DEFINE m == ReconcileOf(req[r].row)
               k == SweepOf(req[r].row)
    <2>2. /\ m \in Message /\ m.gen = RowOf(r).gen /\ m.tries = 0
          /\ m.wake = RowOf(r).lastWake /\ ~m.due
      BY NewMessages DEF ReconcileOf, RowOf
    <2>3. k \in Message /\ k.gen = RowOf(r).gen /\ k.tries = 0
      BY NewMessages DEF SweepOf, RowOf
    <2>4. CASE Enqueue(r) \/ EnqueueFails(r)
      <3>1. /\ pc[r] = "enqueue" /\ Finish(r) /\ UNCHANGED <<agent, clock>>
            /\ \E again \in {RetryOf(r), {}} : Queue(m, again) \/ QueueFails(m, again)
        BY <2>4 DEF Enqueue, EnqueueFails
      <3> HIDE DEF m
      <3> QED
        BY <2>1, <2>2, <3>1
    <2>5. CASE SweepEnqueues(r) \/ SweepFails(r)
      <3>1. /\ pc[r] = "sweep" /\ Finish(r) /\ UNCHANGED <<agent, clock>>
            /\ Queue(k, {}) \/ QueueFails(k, {})
        BY <2>5 DEF SweepEnqueues, SweepFails
      <3> HIDE DEF k
      <3> QED
        BY <2>1, <2>3, <3>1
    <2> QED
      BY <2>4, <2>5
  <1>2. PICK m \in Message, again \in SUBSET Message :
              /\ Queue(m, again) \/ QueueFails(m, again)
              /\ m.gen = RowOf(r).gen /\ m.tries = 0
              /\ pc[r] = "enqueue" => m.wake = RowOf(r).lastWake /\ ~m.due
              /\ again \subseteq RetryOf(r)
    BY <1>1
  <1>3. /\ keys' \subseteq keys \cup {m.gen}
        /\ queue \subseteq queue' /\ queue' \subseteq queue \cup {m} \cup again
        /\ m.gen \notin keys => dropped' \/ m \in queue'
        /\ SameGhosts /\ EventsGrow
    BY <1>2, QueueStep
  <1>4. pc'[r] = "idle" /\ OnlyMoves(r)
    BY <1>1, FinishStep DEF Parts
  <1>5. \A x \in again : r = Worker /\ x.gen = MsgOf(r).gen
    <2>1. req[r].msg \in Message
      BY RequestFields DEF Parts, ControlOK
    <2>2. \A x \in RetryOf(r) : r = Worker /\ x \in Retried(req[r].msg)
      BY DEF RetryOf
    <2> QED
      BY <1>2, <2>1, <2>2, RetriedFields DEF MsgOf
  <1>6. EndStep(r)
    BY <1>1, <1>3, <1>4 DEF EndStep, Busy
  <1> QED
    BY <1>1, <1>2, <1>3, <1>5, <1>6 DEF EnqueueStep

LEMMA TimeOutIsStep ==
    ASSUME Parts, ReconcileTimesOut
    PROVE  TimeOutStep
  <1>1. Worker \in Slots /\ req[Worker].msg \in Message /\ ControlOK /\ SpentOK
    BY SlotFacts, RequestFields DEF Parts, ControlOK
  <1>2. /\ pc[Worker] \in Preparing \cup {"apply"} /\ UNCHANGED <<agent, clock, keys, dropped>>
        /\ queue' = queue \cup Retried(MsgOf(Worker)) /\ SameGhosts
    BY DEF ReconcileTimesOut, SameGhosts, ghosts, losses, MsgOf
  <1>3. pc'[Worker] = "idle" /\ OnlyMoves(Worker)
    BY <1>1, FinishStep DEF ReconcileTimesOut
  <1>4. EventsGrow /\ Failures' = Failures + 1
    BY <1>1, <1>2, SpendEvents DEF ReconcileTimesOut, Events, EventsGrow
  <1>5. EndStep(Worker)
    BY <1>2, <1>3 DEF EndStep, Busy, Preparing
  <1>6. /\ \A x \in Retried(MsgOf(Worker)) :
             x.gen = MsgOf(Worker).gen /\ x.tries = MsgOf(Worker).tries + 1
        /\ MsgOf(Worker).tries < MaxRetries =>
             \E x \in Retried(MsgOf(Worker)) : x.gen = MsgOf(Worker).gen
    BY <1>1, RetriedFields DEF MsgOf
  <1> QED
    BY <1>2, <1>4, <1>5, <1>6 DEF TimeOutStep

LEMMA CrashIsStep ==
    ASSUME Parts, NEW r \in Slots, Crash(r) \/ (r = Worker /\ RetryFails)
    PROVE  CrashStep(r)
  <1>1. pc[r] # "idle" /\ Abandon(r)
    BY DEF Crash, RetryFails, Preparing
  <1>2. pc'[r] = "idle" /\ OnlyMoves(r)
    BY <1>1, FinishStep DEF Abandon, Parts
  <1>3. EventsGrow /\ (Died' \/ dropped')
    <2>1. CASE Crash(r)
      BY <2>1, SpendEvents DEF Crash, Parts, Events, EventsGrow
    <2>2. CASE RetryFails
      BY <2>2, SpendEvents DEF RetryFails, Parts, Events, EventsGrow
    <2> QED
      BY <2>1, <2>2
  <1> QED
    BY <1>1, <1>2, <1>3 DEF Abandon, CrashStep, EndStep, Busy, SameGhosts, SameRedis

LEMMA SkipIsStep ==
    ASSUME Parts, NEW m \in queue, ReconcileSkips(m)
    PROVE  SkipStep(m)
  <1> DEFINE n == Later(m)
  <1>1. /\ n.gen = m.gen /\ n.tries = m.tries /\ n.wake = agent.lastWake /\ ~n.due
    BY MessageFields, RowFields DEF Parts, RowOK, RedisOK, Later
  <1>2. /\ Dropped(m) \/ Deferred(m)
        /\ queue' = (queue \ {m}) \cup (IF Deferred(m) THEN {n} ELSE {})
        /\ UNCHANGED <<agent, clock, keys, pc, req>> /\ SameGhosts /\ EventsGrow
    BY NothingSpent DEF ReconcileSkips, SameGhosts, ghosts, losses, Parts
  <1>3. ~Deferred(m) => m.gen # agent.gen \/ agent.seenAt >= agent.lastWake
    BY <1>2 DEF Dropped, CheckedIn
  <1>4. m.due
    BY DEF ReconcileSkips
  <1> HIDE DEF n
  <1> QED
    BY <1>1, <1>2, <1>3, <1>4 DEF SkipStep

LEMMA DeferFailIsStep ==
    ASSUME Parts, NEW m \in queue, DeferFails(m)
    PROVE  DeferFailStep(m)
  <1>1. m \in Message
    BY DEF Parts, RedisOK
  <1>2. /\ m.due /\ SameGhosts /\ UNCHANGED <<agent, clock, keys, pc, req>>
        /\ \/ queue' = (queue \ {m}) \cup Retried(m)
           \/ queue' = queue \ {m} /\ dropped'
    BY DEF DeferFails, SameGhosts
  <1>3. EventsGrow /\ Failures' = Failures + 1
    <2>1. SpentOK /\ Spend("outages") /\ "outages" \in Events
      BY DEF DeferFails, Parts, Events
    <2>2. Failures <= Failures' /\ (Died => Died') /\ Failures' = Failures + 1
      BY <2>1, SpendEvents
    <2>3. dropped => dropped'
      BY DEF DeferFails
    <2> QED
      BY <2>2, <2>3 DEF EventsGrow
  <1>4. CASE m.tries < MaxRetries /\ queue' = (queue \ {m}) \cup Retried(m)
    <2>1. PICK n : Retried(m) = {n}
      BY <1>4 DEF Retried
    <2>2. n.gen = m.gen /\ n.tries = m.tries + 1
      BY <1>1, <2>1, RetriedFields
    <2> QED
      BY <1>2, <1>3, <1>4, <2>1, <2>2 DEF DeferFailStep
  <1>5. CASE ~(m.tries < MaxRetries) /\ queue' = (queue \ {m}) \cup Retried(m)
    <2>1. queue' = queue \ {m}
      BY <1>5 DEF Retried
    <2>2. m.tries \in Nat /\ MaxRetries \in Nat
      BY <1>1, CapIsPositive DEF Message
    <2>3. m.tries >= MaxRetries
      BY <1>5, <2>2
    <2> QED
      BY <1>2, <1>3, <2>1, <2>3 DEF DeferFailStep
  <1>6. CASE queue' = queue \ {m} /\ dropped'
    BY <1>2, <1>3, <1>6 DEF DeferFailStep
  <1> QED
    BY <1>2, <1>4, <1>5, <1>6

LEMMA RipeIsStep ==
    ASSUME Parts, NEW m \in queue, MessageDue(m)
    PROVE  RipeStep(m)
  <1> DEFINE n == [m EXCEPT !.due = TRUE]
  <1>1. n.gen = m.gen /\ n.tries = m.tries
    BY DEF Parts, RedisOK, Message
  <1>2. /\ Long(m.wake) /\ queue' = (queue \ {m}) \cup {n}
        /\ UNCHANGED <<agent, clock, keys, pc, req>> /\ SameGhosts /\ EventsGrow
    BY NothingSpent DEF MessageDue, SameGhosts, ghosts, losses, Parts
  <1> HIDE DEF n
  <1> QED
    BY <1>1, <1>2 DEF RipeStep

LEMMA TakeIsStep ==
    ASSUME Parts, NEW m \in queue, Reconcile(m)
    PROVE  TakeStep(m)
  <1> DEFINE info == [Idle EXCEPT !.row = agent, !.msg = m, !.wake = TRUE]
             step == IF agent.attempts >= MaxWake /\ ~MayRetryAtCap THEN "give up"
                     ELSE "updating"
  <1>1. Worker \in Slots /\ ControlOK /\ m \in Message /\ agent \in Row
    BY SlotFacts DEF Parts, RedisOK, RowOK
  <1>2. info.row = agent /\ info.msg = m /\ info.wake
    BY <1>1, StartFields
  <1>3. Goto(Worker, step, info)
    BY DEF Reconcile
  <1>4. pc'[Worker] = step /\ req'[Worker] = info /\ OnlyMoves(Worker)
    <2> HIDE DEF info, step
    <2> QED
      BY <1>1, <1>3, GotoStep
  <1>5. /\ ~Busy(Worker) /\ m.due /\ queue' = queue \ {m}
        /\ UNCHANGED <<agent, clock, keys>> /\ SameGhosts /\ EventsGrow
    BY NothingSpent DEF Reconcile, Busy, SameGhosts, ghosts, losses, Parts
  <1>6. m.gen = agent.gen /\ agent.deadline # "ahead"
    BY DEF Reconcile, Dropped, Deferred
  <1>7. agent.attempts \in Nat /\ MaxWake \in Nat
    BY <1>1, RowFields, CapIsPositive
  <1>8. step \in {"updating", "give up"} /\ (step = "updating" => agent.attempts < MaxWake \/ Standalone)
    BY <1>7 DEF MayRetryAtCap
  <1> HIDE DEF info, step
  <1> QED
    BY <1>2, <1>4, <1>5, <1>6, <1>8 DEF TakeStep

LEMMA GiveUpIsStep ==
    ASSUME Parts, GiveUp
    PROVE  GiveUpStep
  <1> DEFINE old == RowOf(Worker)
             s == Write("offline", old.status, agent.status)
             d == Write("none", old.deadline, agent.deadline)
  <1>1. Worker \in Slots /\ agent \in Row /\ ControlOK /\ LockOK
    BY SlotFacts DEF Parts, RowOK
  <1>2. agent' = [agent EXCEPT !.status = s, !.deadline = d]
    BY DEF GiveUp, RowOf
  <1>3. /\ agent'.gen = agent.gen /\ agent'.lastWake = agent.lastWake
        /\ agent'.seenAt = agent.seenAt /\ agent'.attempts = agent.attempts
        /\ agent'.deadline = d
    <2> HIDE DEF s, d
    <2> QED
      BY <1>1, <1>2 DEF Row
  <1>4. d = "none" \/ (old.deadline = "none" /\ d = agent.deadline)
    BY DEF Write
  <1>5. pc'[Worker] = "idle" /\ OnlyMoves(Worker)
    BY <1>1, FinishStep DEF GiveUp
  <1>6. Unlocked
    BY <1>1, SlotFacts DEF GiveUp, LockOK, Unlocked
  <1>7. /\ pc[Worker] = "give up" /\ SameGhosts /\ EventsGrow /\ SameRedis /\ UNCHANGED clock
    BY NothingSpent DEF GiveUp, SameGhosts, SameRedis, ghosts, losses, Parts
  <1> HIDE DEF d
  <1> QED
    BY <1>3, <1>4, <1>5, <1>6, <1>7 DEF GiveUpStep, SameWake

LEMMA BeatIsStep ==
    ASSUME Parts, NEW r \in Slots, CommitBeat(r)
    PROVE  BeatStep(r)
  <1> DEFINE q == req[r]
             old == q.row
             t == q.at
             k == IF pc[r] = "beat" THEN Write(0, old.attempts, agent.attempts)
                  ELSE agent.attempts
             d == IF pc[r] = "beat" THEN Write("none", old.deadline, agent.deadline)
                  ELSE agent.deadline
  <1>1. agent \in Row /\ ControlOK /\ LockOK
    BY DEF Parts, RowOK
  <1>2. \E s : agent' = [agent EXCEPT !.status = s, !.seenAt = t, !.attempts = k,
                                      !.deadline = d]
    BY DEF CommitBeat
  <1>3. /\ agent'.gen = agent.gen /\ agent'.lastWake = agent.lastWake
        /\ agent'.seenAt = t /\ agent'.deadline = d
    <2> HIDE DEF t, k, d
    <2> QED
      BY <1>1, <1>2 DEF Row
  <1>4. d \in {"none", agent.deadline}
    BY DEF Write
  <1>5. pc'[r] = "idle" /\ OnlyMoves(r)
    BY <1>1, FinishStep DEF CommitBeat
  <1>6. Unlocked
    BY <1>1, SlotFacts DEF CommitBeat, LockOK, Unlocked
  <1>7. /\ pc[r] \in {"touch", "beat"} /\ escalated' = 0 /\ EventsGrow /\ SameRedis
        /\ UNCHANGED <<clock, watch, overlap>>
    BY NothingSpent DEF CommitBeat, SameRedis, losses, Parts
  <1> HIDE DEF d
  <1> QED
    BY <1>3, <1>4, <1>5, <1>6, <1>7 DEF BeatStep, SameWake

LEMMA WorkWakeIsStep ==
    ASSUME Parts, NEW r \in Slots, CommitWorkWake(r)
    PROVE  WorkWakeStep(r)
  <1> DEFINE s == IF pc[r] = "recover" THEN Write("online", RowOf(r).status, agent.status)
                  ELSE agent.status
             k == RowOf(r).attempts + 1
             w == clock + 1
  <1>1. agent \in Row /\ ControlOK /\ LockOK
    BY DEF Parts, RowOK
  <1>2. agent' = [agent EXCEPT !.status = s, !.attempts = k, !.deadline = "ahead",
                               !.lastWake = w]
    BY DEF CommitWorkWake, RowOf
  <1>3. /\ agent'.gen = agent.gen /\ agent'.lastWake = w
        /\ agent'.attempts = k /\ agent'.deadline = "ahead"
    <2> HIDE DEF s, k, w
    <2> QED
      BY <1>1, <1>2 DEF Row
  <1>4. pc'[r] = "idle" /\ OnlyMoves(r)
    BY <1>1, FinishStep DEF CommitWorkWake
  <1>5. Unlocked
    BY <1>1, SlotFacts DEF CommitWorkWake, LockOK, Unlocked
  <1>6. /\ pc[r] \in {"assign", "recover"} /\ clock' = clock + 1
        /\ SameGhosts /\ EventsGrow /\ SameRedis
    BY NothingSpent DEF CommitWorkWake, SameGhosts, SameRedis, ghosts, losses, Parts
  <1> QED
    BY <1>3, <1>4, <1>5, <1>6 DEF WorkWakeStep

LEMMA TimeIsStep ==
    ASSUME Parts, DeadlinePasses \/ GoesStale \/ KeyExpires \/ KeyExpiresEarly \/ UNCHANGED vars
    PROVE  PassStep \/ ExpireStep \/ RestStep
  <1>1. CASE DeadlinePasses
    <2>1. /\ agent'.gen = agent.gen /\ agent'.lastWake = agent.lastWake
          /\ agent'.seenAt = agent.seenAt /\ agent'.attempts = agent.attempts
          /\ agent'.deadline = "passed"
      BY <1>1 DEF DeadlinePasses, Parts, RowOK, Row
    <2> QED
      BY <1>1, <2>1, NothingSpent DEF DeadlinePasses, PassStep, SameWake, SameGhosts,
                                      SameRedis, ghosts, losses, Parts
  <1>2. CASE GoesStale
    BY <1>2, NothingSpent DEF GoesStale, RestStep, SameGhosts, SameRedis, ghosts, losses, Parts
  <1>3. CASE KeyExpires
    BY <1>3, NothingSpent DEF KeyExpires, ExpireStep, SameGhosts, ghosts, losses, Parts
  <1>4. CASE KeyExpiresEarly
    <2>1. EventsGrow
      BY <1>4, SpendEvents DEF KeyExpiresEarly, Parts, Events, EventsGrow
    <2> QED
      BY <1>4, <2>1 DEF KeyExpiresEarly, ExpireStep, SameGhosts
  <1>5. CASE UNCHANGED vars
    BY <1>5, NothingSpent DEF vars, RestStep, SameGhosts, SameRedis, ghosts, losses, Parts
  <1> QED
    BY <1>1, <1>2, <1>3, <1>4, <1>5

LEMMA ProgressIsStep ==
    ASSUME Parts, NEW r \in Slots, Progress(r)
    PROVE  WatchStep
  BY LockIsStep, CommitIsStep, EnqueueIsStep, BeatIsStep, WorkWakeIsStep
  DEF Progress, WatchStep

LEMMA EveryStep == Parts /\ [Next]_vars => WatchStep
  <1> SUFFICES ASSUME Parts, [Next]_vars PROVE WatchStep
    OBVIOUS
  <1>1. ASSUME NEW r \in Clients,
               \/ \E a \in Preparing, wake \in BOOLEAN : StartRun(r, a, wake)
               \/ \E step \in {"touch", "beat"} : StartBeat(r, step)
               \/ \E step \in {"assign", "recover"} : StartWorkWake(r, step)
               \/ Sweep(r) \/ SweepSessionless(r) \/ SweepFails(r) \/ Progress(r)
        PROVE  WatchStep
    BY <1>1, StartIsStep, EnqueueIsStep, ProgressIsStep, SlotFacts DEF WatchStep
  <1>2. CASE WorkerStep
    BY <1>2, ProgressIsStep, GiveUpIsStep, SkipIsStep, TakeIsStep, SlotFacts
    DEF WorkerStep, WatchStep
  <1>3. CASE ReconcileTimesOut \/ RetryFails \/ \E r \in Slots : Crash(r) \/ EnqueueFails(r)
    BY <1>3, TimeOutIsStep, CrashIsStep, EnqueueIsStep, SlotFacts DEF WatchStep
  <1>4. CASE \E m \in queue : MessageDue(m) \/ DeferFails(m)
    BY <1>4, RipeIsStep, DeferFailIsStep DEF WatchStep
  <1>5. CASE DeadlinePasses \/ GoesStale \/ KeyExpires \/ KeyExpiresEarly \/ UNCHANGED vars
    BY <1>5, TimeIsStep DEF WatchStep
  <1> QED
    BY <1>1, <1>2, <1>3, <1>4, <1>5 DEF Next

------------------------------------------------------------------------------
(***************************************************************************)
(* Escalation stops                                                        *)
(***************************************************************************)
Waking(r) == pc[r] = "apply" /\ req[r].wake
Works(r)  == pc[r] \in {"assign", "recover"}

WorkerOK ==
    /\ pc[Worker] \in {"idle", "updating", "give up", "apply", "enqueue"}
    /\ Busy(Worker) => req[Worker].wake

\* Nothing is later than the clock, and a wake that is not committed yet is later
\* than everything else.
TimeOK ==
    /\ agent.lastWake <= clock /\ watch <= clock
    /\ \A r \in Slots : Busy(r) => RowOf(r).lastWake <= clock
    /\ \A r \in Slots : pc[r] \in {"touch", "beat"} => RowOf(r).lastWake <= req[r].at
    /\ \A r \in Slots : Waking(r) =>
          /\ agent.lastWake < clock /\ RowOf(r).lastWake = clock
          /\ RowOf(r).deadline = "ahead"
          /\ \A s \in Slots : s # r /\ Busy(s) => RowOf(s).lastWake < clock
    /\ \A r \in Slots : pc[r] = "apply" /\ ~req[r].wake => RowOf(r).lastWake = agent.lastWake

\* The attempts count every reconcile wake, also after a work wake that has
\* loaded the row before the last of them: the deadline of that one is ahead for
\* as long as the work wake is under way, and no reconcile runs before it passes.
Counted == escalated <= agent.attempts
WakesCounted ==
    \A r \in Slots : Works(r) /\ escalated > RowOf(r).attempts =>
        /\ escalated = RowOf(r).attempts + 1
        /\ pc[Worker] \in {"idle", "enqueue"}
        /\ agent.deadline = "ahead" /\ RowOf(r).lastWake < agent.lastWake
WorkerCounted ==
    /\ pc[Worker] \in {"updating", "give up"} => escalated <= RowOf(Worker).attempts
    /\ pc[Worker] = "apply" => escalated < RowOf(Worker).attempts
UnderCap ==
    ~Standalone =>
        /\ pc[Worker] = "updating" => RowOf(Worker).attempts < MaxWake
        /\ pc[Worker] \in {"updating", "apply"} => escalated < MaxWake
        /\ escalated <= MaxWake

EscalationInv == Counted /\ WakesCounted /\ WorkerCounted /\ UnderCap

------------------------------------------------------------------------------
(***************************************************************************)
(* A wake is watched                                                       *)
(***************************************************************************)
\* The worker's run counts from the generation of the message in hand.
MsgGenOK ==
    /\ pc[Worker] \in {"updating", "give up"} => MsgOf(Worker).gen = RowOf(Worker).gen
    /\ pc[Worker] \in {"apply", "enqueue"} => MsgOf(Worker).gen + 1 = RowOf(Worker).gen

\* Without overlapping runs every run has a generation of its own, the next.
GenOK ==
    ~overlap =>
        /\ \A m \in queue : m.gen <= agent.gen
        /\ \A g \in keys : g <= agent.gen
        /\ \A r \in Slots : pc[r] = "apply" => RowOf(r).gen = agent.gen + 1
        /\ \A r \in Slots : pc[r] \notin {"idle", "apply"} => RowOf(r).gen <= agent.gen

\* Each retry of the row's reconcile was a time-out or a failed deferral.
TriesOK ==
    ~overlap =>
        /\ \A m \in queue : m.gen = agent.gen => m.tries <= Failures
        /\ Busy(Worker) /\ MsgOf(Worker).gen = agent.gen =>
              MsgOf(Worker).tries <= Failures

\* The last wake is that of a lifecycle run and has a deadline.
Expected == ~overlap /\ watch # 0 /\ agent.lastWake = watch /\ agent.deadline # "none"

\* What a run or a give-up takes the deadline for that it will cancel.
DeadlineOK ==
    ~overlap =>
        /\ \A r \in Slots :
              (/\ pc[r] \in Preparing \cup {"give up"}
               /\ RowOf(r).gen = agent.gen /\ RowOf(r).deadline = "none") => ~Expected
        /\ \A r \in Slots : pc[r] = "apply" /\ ~req[r].wake =>
              RowOf(r).deadline = "none" \/ RowOf(r).lastWake # watch \/ watch = 0
        /\ \A r \in Slots : pc[r] = "enqueue" /\ RowOf(r).gen = agent.gen =>
              RowOf(r).lastWake = watch

\* Whoever acts on the passed deadline finds no request left that began before
\* the wake.
Passed == Long(agent.lastWake)
PassedOK ==
    Expected =>
        /\ agent.deadline = "passed" => Passed
        /\ \A m \in queue : m.gen = agent.gen /\ (m.due \/ m.wake # agent.lastWake) => Passed
        /\ Busy(Worker) /\ MsgOf(Worker).gen = agent.gen => Passed
        /\ \A r \in Slots : pc[r] = "sweep" /\ RowOf(r).gen = agent.gen => Passed

\* The wake is unanswered, or a heartbeat from before it may make it so again.
Unsettled == agent.seenAt < watch \/ ~Passed
InHand ==
    \/ \E m \in queue : m.gen = agent.gen
    \/ Busy(Worker) /\ MsgOf(Worker).gen = agent.gen
WatchInv ==
    Expected /\ ~Excused /\ Unsettled =>
        \/ InHand
        \/ /\ agent.gen \notin keys
           /\ \E r \in Slots : pc[r] = "enqueue" /\ RowOf(r).gen = agent.gen

------------------------------------------------------------------------------
NumbersOK ==
    /\ agent.gen \in Nat /\ agent.attempts \in Nat /\ agent.lastWake \in Nat
    /\ agent.seenAt \in Nat /\ agent.deadline \in Deadlines
    /\ clock \in Nat /\ watch \in Nat /\ escalated \in Nat
    /\ \A r \in Slots : /\ RowOf(r).gen \in Nat /\ RowOf(r).attempts \in Nat
                        /\ RowOf(r).lastWake \in Nat /\ req[r].at \in Nat
                        /\ MsgOf(r).gen \in Nat /\ MsgOf(r).tries \in Nat
    /\ \A m \in queue : m.gen \in Nat /\ m.tries \in Nat /\ m.wake \in Nat
    /\ \A g \in keys : g \in Nat
    /\ Failures \in Nat

LEMMA Numbers == Parts => NumbersOK
  <1> SUFFICES ASSUME Parts PROVE NumbersOK
    OBVIOUS
  <1>1. /\ agent.gen \in Nat /\ agent.attempts \in Nat /\ agent.lastWake \in Nat
        /\ agent.seenAt \in Nat /\ agent.deadline \in Deadlines
        /\ clock \in Nat /\ watch \in Nat /\ escalated \in Nat
    BY RowFields DEF Parts, RowOK, CountOK
  <1>2. ASSUME NEW r \in Slots
        PROVE  /\ RowOf(r).gen \in Nat /\ RowOf(r).attempts \in Nat
               /\ RowOf(r).lastWake \in Nat /\ req[r].at \in Nat
               /\ MsgOf(r).gen \in Nat /\ MsgOf(r).tries \in Nat
    <2>1. req[r] \in Request
      BY DEF Parts, ControlOK
    <2>2. req[r].row \in Row /\ req[r].msg \in Message /\ req[r].at \in Nat
      BY <2>1, RequestFields
    <2>3. req[r].msg.gen \in Nat /\ req[r].msg.tries \in Nat
      BY <2>2, CapIsPositive DEF Message
    <2> QED
      BY <2>2, <2>3, RowFields DEF RowOf, MsgOf
  <1>3. /\ \A m \in queue : m.gen \in Nat /\ m.tries \in Nat /\ m.wake \in Nat
        /\ \A g \in keys : g \in Nat
    BY CapIsPositive DEF Parts, RedisOK, Message
  <1>4. Failures \in Nat
    BY DEF Parts, SpentOK, Events, Failures
  <1> QED
    BY <1>1, <1>2, <1>3, <1>4 DEF NumbersOK

LEMMA NumbersNext == Parts' => NumbersOK'
  BY Numbers, PTL

LEMMA WorkerKept ==
    ASSUME NumbersOK, WorkerOK, WatchStep
    PROVE  WorkerOK'
  <1>1. Worker \in Slots /\ Worker \notin Clients
    BY SlotFacts
  <1>2. ASSUME NEW r \in Slots, StartStep(r) \/ LockStep(r) \/ CommitStep(r) \/ EnqueueStep(r)
                              \/ CrashStep(r) \/ BeatStep(r) \/ WorkWakeStep(r)
        PROVE  WorkerOK'
    <2>1. CASE r = Worker
      <3>1. CASE LockStep(r)
        BY <2>1, <3>1 DEF LockStep, WorkerOK, Busy, Preparing
      <3>2. CASE CommitStep(r)
        BY <2>1, <3>2 DEF CommitStep, WorkerOK, Busy
      <3>3. CASE EnqueueStep(r) \/ CrashStep(r) \/ BeatStep(r) \/ WorkWakeStep(r)
        BY <2>1, <3>3 DEF EnqueueStep, CrashStep, BeatStep, WorkWakeStep, EndStep, WorkerOK, Busy
      <3>4. CASE StartStep(r)
        BY <1>1, <2>1, <3>4 DEF StartStep
      <3> QED
        BY <1>2, <3>1, <3>2, <3>3, <3>4
    <2>2. CASE r # Worker
      <3>1. OnlyMoves(r)
        BY <1>2 DEF StartStep, LockStep, CommitStep, EnqueueStep, CrashStep, BeatStep,
                    WorkWakeStep, EndStep
      <3> QED
        BY <1>1, <2>2, <3>1 DEF OnlyMoves, WorkerOK, Busy
    <2> QED
      BY <2>1, <2>2
  <1>3. CASE \E m \in queue : SkipStep(m) \/ DeferFailStep(m) \/ RipeStep(m) \/ TakeStep(m)
    BY <1>3 DEF SkipStep, DeferFailStep, RipeStep, TakeStep, WorkerOK, Busy
  <1>4. CASE TimeOutStep \/ GiveUpStep \/ PassStep \/ ExpireStep \/ RestStep
    BY <1>4 DEF TimeOutStep, EndStep, GiveUpStep, PassStep, ExpireStep, RestStep, WorkerOK, Busy
  <1> QED
    BY <1>2, <1>3, <1>4 DEF WatchStep

\* Requests that end without a word about the wake leave the times as they are.
LEMMA TimeEnds ==
    ASSUME NumbersOK, TimeOK, NEW r \in Slots, pc'[r] = "idle", OnlyMoves(r),
           UNCHANGED <<clock, watch>>, agent'.lastWake = agent.lastWake
    PROVE  TimeOK'
  BY DEF NumbersOK, TimeOK, OnlyMoves, Busy, RowOf, Waking

LEMMA TimeKept ==
    ASSUME NumbersOK, NumbersOK', WorkerOK, TimeOK, WatchStep
    PROVE  TimeOK'
  <1>1. Worker \in Slots
    BY SlotFacts
  <1>2. ASSUME NEW r \in Slots, StartStep(r)
        PROVE  TimeOK'
    <2>1. /\ OnlyMoves(r) /\ RowOf(r)' = agent /\ Busy(r)' /\ ~Waking(r)' /\ pc'[r] # "apply"
          /\ pc'[r] \in {"touch", "beat"} => req'[r].at = clock
          /\ UNCHANGED <<agent, clock, watch>>
      BY <1>2 DEF StartStep, RowOf, Busy, Waking, SameGhosts
    <2> QED
      BY <2>1 DEF NumbersOK, TimeOK, OnlyMoves, Busy, RowOf, Waking
  <1>3. ASSUME NEW r \in Slots, LockStep(r)
        PROVE  TimeOK'
    <2>1. /\ OnlyMoves(r) /\ Busy(r) /\ Busy(r)' /\ pc'[r] = "apply" /\ Unlocked
          /\ UNCHANGED <<agent, watch>> /\ req'[r].wake = req[r].wake
      BY <1>3 DEF LockStep, Busy, Preparing
    <2>2. CASE req[r].wake
      <3>1. /\ clock' = clock + 1 /\ RowOf(r)'.lastWake = clock + 1
            /\ RowOf(r)'.deadline = "ahead"
        BY <1>3, <2>2 DEF LockStep, RowOf
      <3>2. \A x \in Slots : Waking(x)' => x = r
        BY <2>1 DEF OnlyMoves, Unlocked, Waking
      <3>3. \A x \in Slots : x # r => /\ Busy(x)' <=> Busy(x)
                                      /\ RowOf(x)' = RowOf(x) /\ req'[x].at = req[x].at
                                      /\ pc'[x] = pc[x]
        BY <2>1 DEF OnlyMoves, Busy, RowOf
      <3>4. \A x \in Slots : ~(pc'[x] = "apply" /\ ~req'[x].wake)
        BY <2>1, <2>2 DEF OnlyMoves, Unlocked
      <3>5. clock \in Nat /\ agent.lastWake <= clock /\ watch <= clock
            /\ agent.lastWake \in Nat /\ watch \in Nat
        BY DEF TimeOK, NumbersOK
      <3>6. \A x \in Slots : Busy(x) => RowOf(x).lastWake <= clock /\ RowOf(x).lastWake \in Nat
        BY DEF TimeOK, NumbersOK
      <3>7. agent'.lastWake <= clock' /\ watch' <= clock'
        BY <2>1, <3>1, <3>5
      <3>8. \A x \in Slots : Busy(x)' => RowOf(x)'.lastWake <= clock'
        BY <3>1, <3>3, <3>5, <3>6
      <3>9. \A x \in Slots : pc'[x] \in {"touch", "beat"} => RowOf(x)'.lastWake <= req'[x].at
        BY <2>1, <3>3 DEF TimeOK
      <3>10. \A x \in Slots : Waking(x)' =>
               /\ agent'.lastWake < clock' /\ RowOf(x)'.lastWake = clock'
               /\ RowOf(x)'.deadline = "ahead"
               /\ \A s \in Slots : s # x /\ Busy(s)' => RowOf(s)'.lastWake < clock'
        BY <2>1, <3>1, <3>2, <3>3, <3>5, <3>6
      <3> QED
        BY <3>4, <3>7, <3>8, <3>9, <3>10 DEF TimeOK
    <2>3. CASE ~req[r].wake
      <3>1. clock' = clock /\ RowOf(r)'.lastWake = agent.lastWake
        BY <1>3, <2>3 DEF LockStep, RowOf
      <3> QED
        BY <2>1, <2>3, <3>1 DEF NumbersOK, TimeOK, OnlyMoves, Unlocked, Busy, RowOf, Waking
    <2> QED
      BY <2>2, <2>3
  <1>4. ASSUME NEW r \in Slots, CommitStep(r)
        PROVE  TimeOK'
    <2>1. /\ OnlyMoves(r) /\ pc[r] = "apply" /\ clock' = clock
          /\ \A x \in Slots : x # r => pc[x] # "apply"
          /\ agent'.lastWake = RowOf(r).lastWake /\ Busy(r)
      BY <1>4 DEF CommitStep, Busy
    <2>2. CASE req[r].wake
      <3>1. watch' = RowOf(r).lastWake /\ pc'[r] = "enqueue" /\ RowOf(r)'.lastWake = RowOf(r).lastWake
        BY <1>4, <2>2 DEF CommitStep, RowOf
      <3> QED
        BY <2>1, <3>1 DEF NumbersOK, TimeOK, OnlyMoves, Busy, RowOf, Waking
    <2>3. CASE ~req[r].wake
      <3>1. watch' = watch /\ pc'[r] = "idle" /\ agent'.lastWake = agent.lastWake
        BY <1>4, <2>1, <2>3 DEF CommitStep, TimeOK
      <3> QED
        BY <2>1, <3>1, TimeEnds
    <2> QED
      BY <2>2, <2>3
  <1>5. ASSUME NEW r \in Slots, EnqueueStep(r) \/ CrashStep(r) \/ BeatStep(r)
        PROVE  TimeOK'
    BY <1>5, TimeEnds DEF EnqueueStep, CrashStep, BeatStep, EndStep, SameWake, SameGhosts
  <1>6. ASSUME NEW r \in Slots, WorkWakeStep(r)
        PROVE  TimeOK'
    <2>1. /\ OnlyMoves(r) /\ Unlocked /\ pc'[r] = "idle" /\ clock' = clock + 1
          /\ agent'.lastWake = clock + 1 /\ watch' = watch
      BY <1>6 DEF WorkWakeStep, SameGhosts
    <2> QED
      BY <2>1 DEF NumbersOK, TimeOK, OnlyMoves, Unlocked, Busy, RowOf, Waking
  <1>7. ASSUME NEW m \in queue, SkipStep(m) \/ DeferFailStep(m) \/ RipeStep(m)
        PROVE  TimeOK'
    BY <1>7 DEF SkipStep, DeferFailStep, RipeStep, SameGhosts, TimeOK, Busy, RowOf, Waking
  <1>8. ASSUME NEW m \in queue, TakeStep(m)
        PROVE  TimeOK'
    <2>1. /\ OnlyMoves(Worker) /\ RowOf(Worker)' = agent /\ UNCHANGED <<agent, clock, watch>>
          /\ pc'[Worker] \in {"updating", "give up"}
      BY <1>8 DEF TakeStep, RowOf, SameGhosts
    <2>2. Worker \in Slots /\ (\A x \in Slots : Waking(x) => x # Worker)
      BY <1>1, <1>8 DEF TakeStep, Busy, Waking
    <2>3. \A x \in Slots : x # Worker => /\ Busy(x)' <=> Busy(x)
                                         /\ Waking(x)' <=> Waking(x)
                                         /\ RowOf(x)' = RowOf(x) /\ req'[x] = req[x]
                                         /\ pc'[x] = pc[x]
      BY <2>1 DEF OnlyMoves, Busy, RowOf, Waking
    <2>4. /\ agent'.lastWake <= clock' /\ watch' <= clock'
          /\ \A x \in Slots : Busy(x)' => RowOf(x)'.lastWake <= clock'
      BY <2>1, <2>3 DEF TimeOK
    <2>5. /\ \A x \in Slots : pc'[x] \in {"touch", "beat"} => RowOf(x)'.lastWake <= req'[x].at
          /\ \A x \in Slots : pc'[x] = "apply" /\ ~req'[x].wake =>
                RowOf(x)'.lastWake = agent'.lastWake
      BY <2>1, <2>3 DEF TimeOK
    <2>6. \A x \in Slots : Waking(x)' =>
             /\ agent'.lastWake < clock' /\ RowOf(x)'.lastWake = clock'
             /\ RowOf(x)'.deadline = "ahead"
             /\ \A s \in Slots : s # x /\ Busy(s)' => RowOf(s)'.lastWake < clock'
      <3> SUFFICES ASSUME NEW x \in Slots, Waking(x)'
                   PROVE  /\ agent'.lastWake < clock' /\ RowOf(x)'.lastWake = clock'
                          /\ RowOf(x)'.deadline = "ahead"
                          /\ \A s \in Slots : s # x /\ Busy(s)' => RowOf(s)'.lastWake < clock'
        OBVIOUS
      <3>1. x # Worker
        BY <2>1 DEF Waking
      <3>2. Waking(x) /\ RowOf(x)' = RowOf(x)
        BY <2>3, <3>1
      <3> QED
        BY <2>1, <2>2, <2>3, <3>1, <3>2 DEF TimeOK
    <2> QED
      BY <2>4, <2>5, <2>6 DEF TimeOK
  <1>9. CASE TimeOutStep \/ GiveUpStep
    BY <1>1, <1>9, TimeEnds DEF TimeOutStep, EndStep, GiveUpStep, SameWake, SameGhosts
  <1>10. CASE PassStep \/ ExpireStep \/ RestStep
    BY <1>10 DEF PassStep, ExpireStep, RestStep, SameWake, SameGhosts, TimeOK, Busy, RowOf, Waking
  <1> QED
    BY <1>2, <1>3, <1>4, <1>5, <1>6, <1>7, <1>8, <1>9, <1>10 DEF WatchStep

\* A step of a slot that neither wakes nor takes the deadline's wake back.
LEMMA CountQuiet ==
    ASSUME NumbersOK, WorkerOK, EscalationInv, NEW r \in Slots, OnlyMoves(r),
           pc'[r] = "idle" \/ (r # Worker /\ pc'[r] \notin {"assign", "recover"}),
           agent'.attempts = agent.attempts,
           agent'.lastWake = agent.lastWake, agent'.deadline = agent.deadline,
           escalated' = escalated
    PROVE  EscalationInv'
  <1>1. \A x \in Slots : Works(x)' => /\ Works(x) /\ x # r /\ RowOf(x)' = RowOf(x)
    BY DEF OnlyMoves, Works, RowOf
  <1>2. /\ pc'[Worker] = "idle" \/ pc'[Worker] = pc[Worker]
        /\ pc'[Worker] # "idle" => RowOf(Worker)' = RowOf(Worker)
    BY SlotFacts DEF OnlyMoves, RowOf
  <1> QED
    BY <1>1, <1>2 DEF EscalationInv, Counted, WakesCounted, WorkerCounted, UnderCap

\* No wake by the worker since: nothing to count.
LEMMA CountFromZero ==
    ASSUME NumbersOK, NumbersOK', EscalationInv, NEW r \in Slots \ {Worker}, OnlyMoves(r),
           escalated' = 0
    PROVE  EscalationInv'
  <1>1. pc'[Worker] = pc[Worker] /\ RowOf(Worker)' = RowOf(Worker)
    BY SlotFacts DEF OnlyMoves, RowOf
  <1>2. MaxWake \in Nat /\ MaxWake > 0
    BY CapIsPositive
  <1>3. Counted' /\ WakesCounted'
    BY DEF Counted, WakesCounted, NumbersOK
  <1>4. WorkerCounted'
    <2>1. escalated \in Nat /\ RowOf(Worker).attempts \in Nat /\ RowOf(Worker)'.attempts \in Nat
      BY <1>1, SlotFacts DEF NumbersOK
    <2>2. RowOf(Worker)'.attempts = RowOf(Worker).attempts
      BY <1>1
    <2>3. pc[Worker] = "apply" => RowOf(Worker)'.attempts > 0
      BY <2>1, <2>2 DEF WorkerCounted, EscalationInv
    <2>4. /\ escalated' <= RowOf(Worker)'.attempts
          /\ pc[Worker] = "apply" => escalated' < RowOf(Worker)'.attempts
      BY <2>1, <2>3
    <2> QED
      BY <1>1, <2>4 DEF WorkerCounted
  <1>5. UnderCap'
    BY <1>1, <1>2 DEF UnderCap, EscalationInv
  <1> QED
    BY <1>3, <1>4, <1>5 DEF EscalationInv

LEMMA CountKept ==
    ASSUME NumbersOK, NumbersOK', WorkerOK, TimeOK, EscalationInv, WatchStep
    PROVE  EscalationInv'
  <1>1. Worker \in Slots /\ Worker \notin Clients /\ MaxWake \in Nat /\ MaxWake > 0
    BY SlotFacts, CapIsPositive
  <1>2. ASSUME NEW r \in Slots, StartStep(r)
        PROVE  EscalationInv'
    <2>1. /\ OnlyMoves(r) /\ r # Worker /\ RowOf(r)' = agent
          /\ UNCHANGED <<agent, escalated>>
      BY <1>1, <1>2 DEF StartStep, RowOf, SameGhosts
    <2>2. pc'[Worker] = pc[Worker] /\ RowOf(Worker)' = RowOf(Worker)
      BY <1>1, <2>1 DEF OnlyMoves, RowOf
    <2>3. \A x \in Slots : x # r => pc'[x] = pc[x] /\ RowOf(x)' = RowOf(x)
      BY <2>1 DEF OnlyMoves, RowOf
    <2>4. WakesCounted'
      <3>1. escalated \in Nat /\ agent.attempts \in Nat /\ escalated <= agent.attempts
        BY DEF NumbersOK, EscalationInv, Counted
      <3>2. ~(escalated' > RowOf(r)'.attempts)
        BY <2>1, <3>1
      <3> QED
        BY <2>1, <2>2, <2>3, <3>2 DEF WakesCounted, EscalationInv, Works
    <2> QED
      BY <2>1, <2>2, <2>4 DEF EscalationInv, Counted, WorkerCounted, UnderCap
  <1>3. ASSUME NEW r \in Slots, LockStep(r)
        PROVE  EscalationInv'
    <2>1. /\ OnlyMoves(r) /\ pc[r] \in Preparing /\ pc'[r] = "apply"
          /\ UNCHANGED <<agent, escalated>>
          /\ req[r].wake => RowOf(r)'.attempts = RowOf(r).attempts + 1
      BY <1>3 DEF LockStep, RowOf
    <2>2. CASE r # Worker
      BY <2>1, <2>2, CountQuiet
    <2>3. CASE r = Worker
      <3>1. pc[Worker] = "updating" /\ req[Worker].wake
        BY <2>1, <2>3 DEF WorkerOK, Preparing, Busy
      <3>2. \A x \in Slots : Works(x)' => /\ Works(x) /\ RowOf(x)' = RowOf(x)
        BY <2>1, <2>3 DEF OnlyMoves, Works, RowOf
      <3>3. \A x \in Slots : Works(x) => ~(escalated > RowOf(x).attempts)
        BY <3>1 DEF EscalationInv, WakesCounted
      <3>4. escalated \in Nat /\ RowOf(Worker).attempts \in Nat
        BY <1>1 DEF NumbersOK
      <3>5. Counted' /\ WakesCounted'
        BY <2>1, <3>2, <3>3 DEF EscalationInv, Counted, WakesCounted
      <3>6. WorkerCounted'
        <4>1. RowOf(Worker)'.attempts = RowOf(Worker).attempts + 1 /\ escalated' = escalated
          BY <2>1, <2>3, <3>1
        <4>2. escalated <= RowOf(Worker).attempts
          BY <3>1 DEF EscalationInv, WorkerCounted
        <4>3. escalated' < RowOf(Worker)'.attempts
          BY <3>4, <4>1, <4>2
        <4> QED
          BY <2>1, <2>3, <4>3 DEF WorkerCounted
      <3>7. UnderCap'
        BY <2>1, <2>3, <3>1 DEF EscalationInv, UnderCap
      <3> QED
        BY <3>5, <3>6, <3>7 DEF EscalationInv
    <2> QED
      BY <2>2, <2>3
  <1>4. ASSUME NEW r \in Slots, CommitStep(r)
        PROVE  EscalationInv'
    <2>1. /\ OnlyMoves(r) /\ pc[r] = "apply"
          /\ escalated' = IF r = Worker THEN escalated + 1 ELSE 0
          /\ agent'.attempts = RowOf(r).attempts /\ agent'.deadline = RowOf(r).deadline
          /\ agent'.lastWake = RowOf(r).lastWake
      BY <1>4 DEF CommitStep
    <2>2. CASE r # Worker
      BY <2>1, <2>2, CountFromZero
    <2>3. CASE r = Worker
      <3>1. Waking(r) /\ pc'[r] = "enqueue"
        BY <1>4, <2>1, <2>3 DEF WorkerOK, Busy, Waking, CommitStep
      <3>2. /\ RowOf(r).deadline = "ahead" /\ RowOf(r).lastWake = clock
            /\ \A x \in Slots : x # r /\ Busy(x) => RowOf(x).lastWake < clock
        BY <3>1 DEF TimeOK
      <3>3. \A x \in Slots : Works(x)' => Works(x) /\ x # r /\ Busy(x) /\ RowOf(x)' = RowOf(x)
        BY <2>1, <3>1 DEF OnlyMoves, Works, RowOf, Busy
      <3>4. \A x \in Slots : Works(x) => ~(escalated > RowOf(x).attempts)
        BY <2>1, <2>3 DEF EscalationInv, WakesCounted
      <3>5. escalated < RowOf(r).attempts /\ escalated \in Nat /\ RowOf(r).attempts \in Nat
        BY <1>1, <2>1, <2>3 DEF EscalationInv, WorkerCounted, NumbersOK
      <3>6. Counted'
        BY <2>1, <2>3, <3>5 DEF Counted
      <3>7. WakesCounted'
        <4> SUFFICES ASSUME NEW x \in Slots, Works(x)', escalated' > RowOf(x)'.attempts
                     PROVE  /\ escalated' = RowOf(x)'.attempts + 1
                            /\ pc'[Worker] \in {"idle", "enqueue"}
                            /\ agent'.deadline = "ahead"
                            /\ RowOf(x)'.lastWake < agent'.lastWake
          BY DEF WakesCounted
        <4>1. RowOf(x)' = RowOf(x) /\ RowOf(x).attempts \in Nat /\ x # r /\ Busy(x)
              /\ ~(escalated > RowOf(x).attempts)
          BY <3>3, <3>4 DEF NumbersOK
        <4>2. escalated' = escalated + 1
          BY <2>1, <2>3
        <4> QED
          BY <2>1, <2>3, <3>1, <3>2, <3>5, <4>1, <4>2
      <3>8. WorkerCounted'
        BY <2>3, <3>1 DEF WorkerCounted
      <3>9. UnderCap'
        <4>1. ~Standalone => escalated < MaxWake
          BY <2>1, <2>3 DEF UnderCap, EscalationInv
        <4>2. escalated < MaxWake => escalated' <= MaxWake
          BY <1>1, <2>1, <2>3, <3>5
        <4> QED
          BY <2>3, <3>1, <4>1, <4>2 DEF UnderCap
      <3> QED
        BY <3>6, <3>7, <3>8, <3>9 DEF EscalationInv
    <2> QED
      BY <2>2, <2>3
  <1>5. ASSUME NEW r \in Slots, EnqueueStep(r) \/ CrashStep(r)
        PROVE  EscalationInv'
    BY <1>5, CountQuiet DEF EnqueueStep, CrashStep, EndStep, SameGhosts
  <1>6. ASSUME NEW r \in Slots, BeatStep(r)
        PROVE  EscalationInv'
    <2>1. r # Worker
      BY <1>6 DEF BeatStep, WorkerOK
    <2> QED
      BY <1>6, <2>1, CountFromZero DEF BeatStep
  <1>7. ASSUME NEW r \in Slots, WorkWakeStep(r)
        PROVE  EscalationInv'
    <2>1. /\ OnlyMoves(r) /\ pc'[r] = "idle" /\ Works(r) /\ escalated' = escalated
          /\ agent'.lastWake = clock + 1 /\ agent'.deadline = "ahead"
          /\ agent'.attempts = RowOf(r).attempts + 1
      BY <1>7 DEF WorkWakeStep, Works, SameGhosts
    <2>2. r # Worker
      BY <1>7 DEF WorkWakeStep, WorkerOK
    <2>3. pc'[Worker] = pc[Worker] /\ RowOf(Worker)' = RowOf(Worker)
      BY <1>1, <2>1, <2>2 DEF OnlyMoves, RowOf
    <2>4. escalated \in Nat /\ RowOf(r).attempts \in Nat
      BY DEF NumbersOK
    <2>5. Counted'
      BY <2>1, <2>4 DEF Counted, EscalationInv, WakesCounted
    <2>6. \A x \in Slots : Works(x)' => Works(x) /\ RowOf(x)' = RowOf(x)
                                        /\ RowOf(x).lastWake < agent'.lastWake
      <3>1. \A x \in Slots : Works(x) => RowOf(x).lastWake <= clock
        BY DEF TimeOK, Works, Busy
      <3> QED
        BY <2>1, <3>1 DEF OnlyMoves, Works, RowOf, NumbersOK
    <2>7. WakesCounted'
      BY <2>1, <2>3, <2>6 DEF WakesCounted, EscalationInv
    <2> QED
      BY <2>1, <2>3, <2>5, <2>7 DEF EscalationInv, WorkerCounted, UnderCap
  <1>8. ASSUME NEW m \in queue, SkipStep(m) \/ DeferFailStep(m) \/ RipeStep(m)
        PROVE  EscalationInv'
    BY <1>8 DEF SkipStep, DeferFailStep, RipeStep, SameGhosts, EscalationInv, Counted, WakesCounted,
                WorkerCounted, UnderCap, Works, RowOf
  <1>9. ASSUME NEW m \in queue, TakeStep(m)
        PROVE  EscalationInv'
    <2>1. /\ OnlyMoves(Worker) /\ RowOf(Worker)' = agent /\ UNCHANGED <<agent, escalated>>
          /\ pc'[Worker] \in {"updating", "give up"} /\ agent.deadline # "ahead"
          /\ pc'[Worker] = "updating" => agent.attempts < MaxWake \/ Standalone
      BY <1>9 DEF TakeStep, RowOf, SameGhosts
    <2>2. \A x \in Slots : Works(x)' => Works(x) /\ RowOf(x)' = RowOf(x)
      BY <2>1 DEF OnlyMoves, Works, RowOf
    <2>3. \A x \in Slots : Works(x) => ~(escalated > RowOf(x).attempts)
      BY <2>1 DEF EscalationInv, WakesCounted
    <2>4. escalated \in Nat /\ agent.attempts \in Nat /\ escalated <= agent.attempts
      BY DEF NumbersOK, EscalationInv, Counted
    <2>5. Counted' /\ WakesCounted'
      BY <2>1, <2>2, <2>3, <2>4 DEF Counted, WakesCounted
    <2>6. WorkerCounted'
      BY <2>1, <2>4 DEF WorkerCounted
    <2>7. UnderCap'
      <3>0. RowOf(Worker)'.attempts = agent.attempts /\ escalated' = escalated
        BY <2>1
      <3>1. agent.attempts < MaxWake => RowOf(Worker)'.attempts < MaxWake /\ escalated' < MaxWake
        BY <1>1, <2>4, <3>0
      <3>2. ~Standalone => escalated' <= MaxWake
        BY <2>1 DEF UnderCap, EscalationInv
      <3> QED
        BY <2>1, <3>1, <3>2 DEF UnderCap
    <2> QED
      BY <2>5, <2>6, <2>7 DEF EscalationInv
  <1>10. CASE TimeOutStep
    BY <1>1, <1>10, CountQuiet DEF TimeOutStep, EndStep, SameGhosts
  <1>11. CASE GiveUpStep
    <2>1. /\ OnlyMoves(Worker) /\ pc[Worker] = "give up" /\ pc'[Worker] = "idle"
          /\ agent'.attempts = agent.attempts /\ escalated' = escalated
      BY <1>11 DEF GiveUpStep, SameGhosts
    <2>2. \A x \in Slots : Works(x)' => Works(x) /\ RowOf(x)' = RowOf(x)
      BY <2>1 DEF OnlyMoves, Works, RowOf
    <2>3. \A x \in Slots : Works(x) => ~(escalated > RowOf(x).attempts)
      BY <2>1 DEF EscalationInv, WakesCounted
    <2> QED
      BY <2>1, <2>2, <2>3 DEF EscalationInv, Counted, WakesCounted, WorkerCounted, UnderCap
  <1>12. CASE PassStep
    <2>1. /\ UNCHANGED <<pc, req, escalated>> /\ agent'.attempts = agent.attempts
          /\ Long(agent.lastWake)
      BY <1>12 DEF PassStep, SameGhosts
    <2>2. \A x \in Slots : Works(x) => ~(RowOf(x).lastWake < agent.lastWake)
      BY <2>1 DEF Long, Works, RowOf, NumbersOK
    <2>3. \A x \in Slots : Works(x) => ~(escalated > RowOf(x).attempts)
      BY <2>2 DEF EscalationInv, WakesCounted
    <2> QED
      BY <2>1, <2>3 DEF EscalationInv, Counted, WakesCounted, WorkerCounted, UnderCap, Works, RowOf
  <1>13. CASE ExpireStep \/ RestStep
    BY <1>13 DEF ExpireStep, RestStep, SameGhosts, EscalationInv, Counted, WakesCounted,
                 WorkerCounted, UnderCap, Works, RowOf
  <1> QED
    BY <1>2, <1>3, <1>4, <1>5, <1>6, <1>7, <1>8, <1>9, <1>10, <1>11, <1>12, <1>13 DEF WatchStep

\* Slots that a step of another slot leaves alone, or that it does not concern.
LEMMA OthersKept ==
    ASSUME NEW r \in Slots, OnlyMoves(r)
    PROVE  \A x \in Slots : x # r =>
              /\ pc'[x] = pc[x] /\ req'[x] = req[x] /\ RowOf(x)' = RowOf(x) /\ MsgOf(x)' = MsgOf(x)
  BY DEF OnlyMoves, RowOf, MsgOf

LEMMA MsgGenKept ==
    ASSUME NumbersOK, WorkerOK, MsgGenOK, WatchStep
    PROVE  MsgGenOK'
  <1>1. Worker \in Slots /\ Worker \notin Clients
    BY SlotFacts
  <1>2. ASSUME NEW r \in Slots, StartStep(r) \/ LockStep(r) \/ CommitStep(r) \/ EnqueueStep(r)
                              \/ CrashStep(r) \/ BeatStep(r) \/ WorkWakeStep(r)
        PROVE  MsgGenOK'
    <2>1. CASE r # Worker
      <3>1. OnlyMoves(r)
        BY <1>2 DEF StartStep, LockStep, CommitStep, EnqueueStep, CrashStep, BeatStep,
                    WorkWakeStep, EndStep
      <3>2. pc'[Worker] = pc[Worker] /\ RowOf(Worker)' = RowOf(Worker) /\ MsgOf(Worker)' = MsgOf(Worker)
        BY <1>1, <2>1, <3>1, OthersKept
      <3> QED
        BY <3>2 DEF MsgGenOK
    <2>2. CASE r = Worker /\ LockStep(r)
      <3>1. /\ pc[Worker] = "updating" /\ pc'[Worker] = "apply"
            /\ MsgOf(Worker)' = MsgOf(Worker) /\ RowOf(Worker)'.gen = RowOf(Worker).gen + 1
        BY <2>2 DEF LockStep, WorkerOK, Preparing, RowOf, MsgOf
      <3> QED
        BY <3>1 DEF MsgGenOK
    <2>3. CASE r = Worker /\ CommitStep(r)
      <3>1. req[Worker].wake /\ pc[Worker] = "apply"
        BY <2>3 DEF CommitStep, WorkerOK, Busy
      <3>2. /\ pc'[Worker] = "enqueue"
            /\ MsgOf(Worker)' = MsgOf(Worker) /\ RowOf(Worker)'.gen = RowOf(Worker).gen
        BY <2>3, <3>1 DEF CommitStep, RowOf, MsgOf
      <3> QED
        BY <3>1, <3>2 DEF MsgGenOK
    <2>4. CASE r = Worker /\ (EnqueueStep(r) \/ CrashStep(r) \/ BeatStep(r) \/ WorkWakeStep(r))
      BY <2>4 DEF EnqueueStep, CrashStep, BeatStep, WorkWakeStep, EndStep, MsgGenOK
    <2>5. CASE r = Worker /\ StartStep(r)
      BY <1>1, <2>5 DEF StartStep
    <2> QED
      BY <1>2, <2>1, <2>2, <2>3, <2>4, <2>5
  <1>3. ASSUME NEW m \in queue, TakeStep(m)
        PROVE  MsgGenOK'
    BY <1>3 DEF TakeStep, MsgGenOK, RowOf, MsgOf
  <1>4. CASE \E m \in queue : SkipStep(m) \/ DeferFailStep(m) \/ RipeStep(m)
    BY <1>4 DEF SkipStep, DeferFailStep, RipeStep, MsgGenOK, RowOf, MsgOf
  <1>5. CASE TimeOutStep \/ GiveUpStep
    BY <1>5 DEF TimeOutStep, EndStep, GiveUpStep, MsgGenOK
  <1>6. CASE PassStep \/ ExpireStep \/ RestStep
    BY <1>6 DEF PassStep, ExpireStep, RestStep, MsgGenOK, RowOf, MsgOf
  <1> QED
    BY <1>2, <1>3, <1>4, <1>5, <1>6 DEF WatchStep

LEMMA GensOfMessage ==
    ASSUME NumbersOK, WorkerOK, MsgGenOK, GenOK, ~overlap, Busy(Worker)
    PROVE  /\ MsgOf(Worker).gen <= agent.gen
           /\ pc[Worker] = "enqueue" => MsgOf(Worker).gen < agent.gen
           /\ pc[Worker] = "apply" => RowOf(Worker).gen = agent.gen + 1
  <1>1. /\ Worker \in Slots /\ agent.gen \in Nat
        /\ RowOf(Worker).gen \in Nat /\ MsgOf(Worker).gen \in Nat
    BY SlotFacts DEF NumbersOK
  <1>2. CASE pc[Worker] \in {"updating", "give up"}
    BY <1>1, <1>2 DEF MsgGenOK, GenOK
  <1>3. CASE pc[Worker] = "apply"
    BY <1>1, <1>3 DEF MsgGenOK, GenOK
  <1>4. CASE pc[Worker] = "enqueue"
    <2>1. RowOf(Worker).gen <= agent.gen /\ MsgOf(Worker).gen + 1 = RowOf(Worker).gen
      BY <1>1, <1>4 DEF MsgGenOK, GenOK
    <2> QED
      BY <1>1, <1>4, <2>1
  <1> QED
    BY <1>2, <1>3, <1>4 DEF WorkerOK, Busy

LEMMA GenKept ==
    ASSUME NumbersOK, NumbersOK', WorkerOK, MsgGenOK, GenOK, WatchStep
    PROVE  GenOK'
  <1> SUFFICES ASSUME ~overlap' PROVE GenOK'
    BY DEF GenOK
  <1>1. Worker \in Slots
    BY SlotFacts
  <1>2. ~overlap
    BY DEF WatchStep, StartStep, LockStep, CommitStep, EnqueueStep, CrashStep, BeatStep,
           WorkWakeStep, SkipStep, DeferFailStep, RipeStep, TakeStep, TimeOutStep, GiveUpStep, PassStep,
           ExpireStep, RestStep, EndStep, SameGhosts
  <1>3. /\ \A m \in queue : m.gen <= agent.gen
        /\ \A g \in keys : g <= agent.gen
        /\ \A r \in Slots : pc[r] = "apply" => RowOf(r).gen = agent.gen + 1
        /\ \A r \in Slots : pc[r] \notin {"idle", "apply"} => RowOf(r).gen <= agent.gen
    BY <1>2 DEF GenOK
  <1>4. agent.gen \in Nat /\ \A r \in Slots : RowOf(r).gen \in Nat /\ MsgOf(r).gen \in Nat
    BY DEF NumbersOK
  <1>5. ASSUME NEW r \in Slots, StartStep(r)
        PROVE  GenOK'
    <2>1. /\ OnlyMoves(r) /\ RowOf(r)' = agent /\ pc'[r] # "apply"
          /\ UNCHANGED <<agent, keys, queue>>
      BY <1>5 DEF StartStep, RowOf, SameRedis
    <2> QED
      BY <1>3, <1>4, <2>1, OthersKept DEF GenOK
  <1>6. ASSUME NEW r \in Slots, LockStep(r)
        PROVE  GenOK'
    <2>1. /\ OnlyMoves(r) /\ pc'[r] = "apply" /\ UNCHANGED <<agent, keys, queue>>
          /\ RowOf(r)'.gen = RowOf(r).gen + 1 /\ RowOf(r).gen = agent.gen
      BY <1>6 DEF LockStep, RowOf, SameRedis
    <2> QED
      BY <1>3, <1>4, <2>1, OthersKept DEF GenOK
  <1>7. ASSUME NEW r \in Slots, CommitStep(r)
        PROVE  GenOK'
    <2>1. /\ OnlyMoves(r) /\ pc[r] = "apply" /\ UNCHANGED <<keys, queue>>
          /\ agent'.gen = RowOf(r).gen /\ \A x \in Slots : x # r => pc[x] # "apply"
          /\ pc'[r] = "idle" \/ (pc'[r] = "enqueue" /\ RowOf(r)'.gen = RowOf(r).gen)
      BY <1>7 DEF CommitStep, RowOf, SameRedis
    <2>2. agent'.gen = agent.gen + 1
      BY <1>3, <2>1
    <2>3. /\ \A m \in queue : m.gen \in Nat
          /\ \A m \in queue : m.gen <= agent'.gen
      BY <1>3, <1>4, <2>2 DEF NumbersOK
    <2>4. \A g \in keys : g <= agent'.gen
      <3>1. \A g \in keys : g <= agent.gen /\ g \in Nat
        BY <1>3 DEF NumbersOK
      <3> QED
        BY <1>4, <2>2, <3>1
    <2>5. \A x \in Slots : pc'[x] # "apply"
      BY <2>1, OthersKept
    <2>6. \A x \in Slots : pc'[x] \notin {"idle", "apply"} => RowOf(x)'.gen <= agent'.gen
      <3> SUFFICES ASSUME NEW x \in Slots, pc'[x] \notin {"idle", "apply"}
                   PROVE  RowOf(x)'.gen <= agent'.gen
        OBVIOUS
      <3>1. CASE x = r
        BY <1>4, <2>1, <3>1
      <3>2. CASE x # r
        <4>1. RowOf(x)' = RowOf(x) /\ RowOf(x).gen <= agent.gen
          BY <1>3, <2>1, <3>2, OthersKept
        <4> QED
          BY <1>4, <2>2, <4>1
      <3> QED
        BY <3>1, <3>2
    <2> QED
      BY <2>1, <2>3, <2>4, <2>5, <2>6 DEF GenOK
  <1>8. ASSUME NEW r \in Slots, EnqueueStep(r)
        PROVE  GenOK'
    <2>1. /\ OnlyMoves(r) /\ pc'[r] = "idle" /\ UNCHANGED agent
          /\ keys' \subseteq keys \cup {RowOf(r).gen} /\ pc[r] \notin {"idle", "apply"}
      BY <1>8 DEF EnqueueStep, EndStep
    <2>2. \A m \in queue' : m \in queue \/ m.gen = RowOf(r).gen
                            \/ (r = Worker /\ m.gen = MsgOf(Worker).gen)
      BY <1>8 DEF EnqueueStep
    <2>3. r = Worker => MsgOf(Worker).gen <= agent.gen
      BY <1>2, <2>1, GensOfMessage DEF Busy
    <2> QED
      BY <1>3, <2>1, <2>2, <2>3, OthersKept DEF GenOK
  <1>9. CASE TimeOutStep
    <2>1. /\ OnlyMoves(Worker) /\ pc'[Worker] = "idle" /\ UNCHANGED <<agent, keys>>
          /\ \A m \in queue' : m \in queue \/ m.gen = MsgOf(Worker).gen
      BY <1>9 DEF TimeOutStep, EndStep
    <2>2. MsgOf(Worker).gen <= agent.gen
      BY <1>2, <1>9, GensOfMessage DEF TimeOutStep, EndStep
    <2> QED
      BY <1>1, <1>3, <2>1, <2>2, OthersKept DEF GenOK
  <1>10. ASSUME NEW r \in Slots, CrashStep(r) \/ BeatStep(r) \/ WorkWakeStep(r)
         PROVE  GenOK'
    <2>1. /\ OnlyMoves(r) /\ pc'[r] = "idle" /\ UNCHANGED <<keys, queue>>
          /\ agent'.gen = agent.gen
      BY <1>10 DEF CrashStep, BeatStep, WorkWakeStep, EndStep, SameRedis, SameWake
    <2> QED
      BY <1>3, <2>1, OthersKept DEF GenOK
  <1>11. CASE GiveUpStep
    <2>1. /\ OnlyMoves(Worker) /\ pc'[Worker] = "idle" /\ UNCHANGED <<keys, queue>>
          /\ agent'.gen = agent.gen
      BY <1>11 DEF GiveUpStep, SameRedis, SameWake
    <2> QED
      BY <1>1, <1>3, <2>1, OthersKept DEF GenOK
  <1>12. ASSUME NEW m \in queue, SkipStep(m) \/ DeferFailStep(m) \/ RipeStep(m)
         PROVE  GenOK'
    <2>1. UNCHANGED <<agent, keys, pc, req>> /\ \A n \in queue' : \E k \in queue : n.gen = k.gen
      BY <1>12 DEF SkipStep, DeferFailStep, RipeStep
    <2> QED
      BY <1>3, <2>1 DEF GenOK, RowOf
  <1>13. ASSUME NEW m \in queue, TakeStep(m)
         PROVE  GenOK'
    <2>1. /\ OnlyMoves(Worker) /\ RowOf(Worker)' = agent /\ pc'[Worker] # "apply"
          /\ UNCHANGED <<agent, keys>> /\ queue' \subseteq queue
      BY <1>13 DEF TakeStep, RowOf
    <2> QED
      BY <1>1, <1>3, <1>4, <2>1, OthersKept DEF GenOK
  <1>14. CASE PassStep \/ ExpireStep \/ RestStep
    <2>1. /\ UNCHANGED <<queue, pc, req>> /\ keys' \subseteq keys /\ agent'.gen = agent.gen
      BY <1>14 DEF PassStep, ExpireStep, RestStep, SameRedis, SameWake
    <2> QED
      BY <1>3, <2>1 DEF GenOK, RowOf
  <1> QED
    BY <1>5, <1>6, <1>7, <1>8, <1>9, <1>10, <1>11, <1>12, <1>13, <1>14 DEF WatchStep

\* What a step that is not the commit of a wake leaves of the last wake.
LEMMA OverlapStays == WatchStep /\ ~overlap' => ~overlap
  BY DEF WatchStep, StartStep, LockStep, CommitStep, EnqueueStep, CrashStep, BeatStep,
         WorkWakeStep, SkipStep, DeferFailStep, RipeStep, TakeStep, TimeOutStep, GiveUpStep, PassStep,
         ExpireStep, RestStep, EndStep, SameGhosts

WakeCommit(r) == CommitStep(r) /\ req[r].wake

\* A run that does not wake cancels the deadline it has read, or another wake's.
LEMMA QuietCommit ==
    ASSUME NumbersOK, DeadlineOK, NEW r \in Slots, CommitStep(r), ~req[r].wake
    PROVE  ~Expected'
  <1> SUFFICES ASSUME Expected' PROVE FALSE
    OBVIOUS
  <1>1. /\ ~overlap /\ watch' = watch /\ agent'.lastWake = RowOf(r).lastWake
        /\ agent'.deadline = RowOf(r).deadline /\ pc[r] = "apply"
    BY DEF CommitStep, Expected
  <1> QED
    BY <1>1 DEF Expected, DeadlineOK

SameLastWake == /\ Expected /\ watch' = watch
                /\ agent'.gen = agent.gen /\ agent'.lastWake = agent.lastWake
                /\ agent'.deadline = agent.deadline \/ PassStep

LEMMA LastWakeStays ==
    ASSUME NumbersOK, TimeOK, DeadlineOK, WatchStep, Expected',
           \A r \in Slots : ~WakeCommit(r)
    PROVE  SameLastWake /\ \A r \in Slots : ~CommitStep(r) /\ ~WorkWakeStep(r)
  <1>1. ~overlap
    BY OverlapStays DEF Expected
  <1>2. \A r \in Slots : ~CommitStep(r)
    BY QuietCommit DEF WakeCommit
  <1>3. \A r \in Slots : ~WorkWakeStep(r)
    <2> SUFFICES ASSUME NEW r \in Slots, WorkWakeStep(r) PROVE FALSE
      OBVIOUS
    <2>1. agent'.lastWake = clock + 1 /\ watch' = watch
      BY DEF WorkWakeStep, SameGhosts
    <2>2. agent'.lastWake = watch'
      BY DEF Expected
    <2>3. clock \in Nat /\ watch \in Nat /\ watch <= clock
      BY DEF TimeOK, NumbersOK
    <2> QED
      BY <2>1, <2>2, <2>3
  <1>4. ASSUME watch' = watch, agent'.gen = agent.gen, agent'.lastWake = agent.lastWake,
               agent'.deadline = agent.deadline
        PROVE  SameLastWake
    <2>1. watch # 0 /\ agent.lastWake = watch /\ agent.deadline # "none"
      BY <1>4 DEF Expected
    <2> QED
      BY <1>1, <1>4, <2>1 DEF SameLastWake, Expected
  <1>5. ASSUME NEW r \in Slots,
               StartStep(r) \/ LockStep(r) \/ EnqueueStep(r) \/ CrashStep(r) \/ BeatStep(r)
        PROVE  SameLastWake
    <2>1. CASE BeatStep(r)
      <3>1. agent'.deadline = agent.deadline
        BY <2>1 DEF BeatStep, Expected
      <3> QED
        BY <1>4, <2>1, <3>1 DEF BeatStep, SameWake
    <2>2. CASE StartStep(r) \/ LockStep(r) \/ EnqueueStep(r) \/ CrashStep(r)
      <3>1. UNCHANGED <<agent, watch>>
        BY <2>2 DEF StartStep, LockStep, EnqueueStep, CrashStep, EndStep, SameGhosts
      <3> QED
        BY <1>4, <3>1
    <2> QED
      BY <1>5, <2>1, <2>2
  <1>6. ASSUME \/ \E m \in queue : SkipStep(m) \/ DeferFailStep(m) \/ RipeStep(m) \/ TakeStep(m)
               \/ TimeOutStep \/ ExpireStep \/ RestStep
        PROVE  SameLastWake
    <2>1. UNCHANGED <<agent, watch>>
      BY <1>6 DEF SkipStep, DeferFailStep, RipeStep, TakeStep, TimeOutStep, EndStep, ExpireStep, RestStep,
                  SameGhosts
    <2> QED
      BY <1>4, <2>1
  <1>7. ASSUME GiveUpStep PROVE SameLastWake
    <2>1. agent'.deadline = agent.deadline
      BY <1>7 DEF GiveUpStep, Expected
    <2>2. watch' = watch /\ agent'.gen = agent.gen /\ agent'.lastWake = agent.lastWake
      BY <1>7 DEF GiveUpStep, SameWake, SameGhosts
    <2> QED
      BY <1>4, <2>1, <2>2
  <1>8. ASSUME PassStep PROVE SameLastWake
    <2>1. /\ watch' = watch /\ agent'.gen = agent.gen /\ agent'.lastWake = agent.lastWake
          /\ agent.deadline = "ahead"
      BY <1>8 DEF PassStep, SameWake, SameGhosts
    <2>2. watch # 0 /\ agent.lastWake = watch
      BY <2>1 DEF Expected
    <2>3. Expected
      BY <1>1, <2>1, <2>2 DEF Expected
    <2> QED
      BY <1>8, <2>1, <2>3 DEF SameLastWake
  <1> QED
    BY <1>2, <1>3, <1>5, <1>6, <1>7, <1>8 DEF WatchStep

\* No request from before the wake comes back.
LEMMA PassedStays ==
    ASSUME NumbersOK, NumbersOK', WorkerOK, TimeOK, WatchStep, SameLastWake, Passed,
           \A r \in Slots : ~CommitStep(r) /\ ~WorkWakeStep(r)
    PROVE  Passed'
  <1> SUFFICES ASSUME NEW x \in Slots, pc'[x] # "idle"
               PROVE  RowOf(x)'.lastWake >= agent'.lastWake
    BY DEF Passed, Long, RowOf
  <1>1. agent'.lastWake = agent.lastWake /\ agent.lastWake \in Nat
    BY DEF SameLastWake, NumbersOK
  <1>2. pc[x] # "idle" => RowOf(x).lastWake >= agent.lastWake
    BY DEF Passed, Long, RowOf
  <1>3. CASE pc[x] # "idle" /\ RowOf(x)' = RowOf(x)
    BY <1>1, <1>2, <1>3
  <1>4. ASSUME NEW r \in Slots, OnlyMoves(r), x # r
        PROVE  pc[x] # "idle" /\ RowOf(x)' = RowOf(x)
    BY <1>4, OthersKept
  <1>5. ASSUME NEW r \in Slots, StartStep(r)
        PROVE  RowOf(x)'.lastWake >= agent'.lastWake
    <2>1. CASE x = r
      <3>1. RowOf(x)' = agent
        BY <1>5, <2>1 DEF StartStep, RowOf
      <3> QED
        BY <1>1, <3>1
    <2>2. CASE x # r
      BY <1>3, <1>4, <1>5, <2>2 DEF StartStep
    <2> QED
      BY <2>1, <2>2
  <1>6. ASSUME NEW r \in Slots, LockStep(r)
        PROVE  RowOf(x)'.lastWake >= agent'.lastWake
    <2>1. CASE x = r
      <3>1. RowOf(x)'.lastWake = clock + 1 \/ RowOf(x)'.lastWake = agent.lastWake
        BY <1>6, <2>1 DEF LockStep, RowOf
      <3>2. agent.lastWake <= clock /\ clock \in Nat
        BY DEF TimeOK, NumbersOK
      <3> QED
        BY <1>1, <3>1, <3>2
    <2>2. CASE x # r
      BY <1>3, <1>4, <1>6, <2>2 DEF LockStep
    <2> QED
      BY <2>1, <2>2
  <1>7. ASSUME NEW r \in Slots, EnqueueStep(r) \/ CrashStep(r) \/ BeatStep(r)
        PROVE  RowOf(x)'.lastWake >= agent'.lastWake
    BY <1>3, <1>4, <1>7 DEF EnqueueStep, CrashStep, EndStep, BeatStep
  <1>8. ASSUME NEW m \in queue, TakeStep(m)
        PROVE  RowOf(x)'.lastWake >= agent'.lastWake
    <2>1. CASE x = Worker
      <3>1. RowOf(x)' = agent
        BY <1>8, <2>1 DEF TakeStep, RowOf
      <3> QED
        BY <1>1, <3>1
    <2>2. CASE x # Worker
      BY <1>3, <1>4, <1>8, <2>2, SlotFacts DEF TakeStep
    <2> QED
      BY <2>1, <2>2
  <1>9. CASE TimeOutStep \/ GiveUpStep
    BY <1>3, <1>4, <1>9, SlotFacts DEF TimeOutStep, EndStep, GiveUpStep
  <1>10. CASE (\E m \in queue : SkipStep(m) \/ DeferFailStep(m) \/ RipeStep(m)) \/ PassStep \/ ExpireStep \/ RestStep
    <2>1. UNCHANGED <<pc, req>>
      BY <1>10 DEF SkipStep, DeferFailStep, RipeStep, PassStep, ExpireStep, RestStep
    <2> QED
      BY <1>3, <2>1 DEF RowOf
  <1> QED
    BY <1>5, <1>6, <1>7, <1>8, <1>9, <1>10 DEF WatchStep

\* The generation of a wake that is committed is new.
LEMMA WakeCommitIsNew ==
    ASSUME NumbersOK, WorkerOK, TimeOK, MsgGenOK, GenOK, ~overlap, NEW r \in Slots, WakeCommit(r)
    PROVE  /\ agent'.gen = agent.gen + 1 /\ agent'.lastWake = watch' /\ agent'.deadline = "ahead"
           /\ pc'[r] = "enqueue" /\ RowOf(r)'.gen = agent'.gen /\ RowOf(r)'.lastWake = watch'
           /\ \A m \in queue' : m.gen < agent'.gen
           /\ agent'.gen \notin keys'
           /\ \A x \in Slots : x # r /\ pc'[x] # "idle" =>
                 pc'[x] # "apply" /\ RowOf(x)'.gen < agent'.gen
           /\ Busy(Worker)' => MsgOf(Worker)'.gen < agent'.gen
  <1>1. /\ pc[r] = "apply" /\ req[r].wake /\ OnlyMoves(r) /\ UNCHANGED <<keys, queue>>
        /\ agent'.gen = RowOf(r).gen /\ agent'.lastWake = RowOf(r).lastWake
        /\ agent'.deadline = RowOf(r).deadline /\ watch' = RowOf(r).lastWake
        /\ pc'[r] = "enqueue" /\ RowOf(r)'.gen = RowOf(r).gen
        /\ RowOf(r)'.lastWake = RowOf(r).lastWake /\ MsgOf(r)' = MsgOf(r)
        /\ \A x \in Slots : x # r => pc[x] # "apply"
    BY DEF WakeCommit, CommitStep, RowOf, MsgOf, SameRedis
  <1>2. agent'.gen = agent.gen + 1 /\ agent.gen \in Nat
    BY <1>1 DEF GenOK, NumbersOK
  <1>3. RowOf(r).deadline = "ahead"
    BY <1>1 DEF TimeOK, Waking
  <1>4. \A m \in queue' : m.gen < agent'.gen
    <2>1. \A m \in queue : m.gen \in Nat /\ m.gen <= agent.gen
      BY DEF NumbersOK, GenOK
    <2> QED
      BY <1>1, <1>2, <2>1
  <1>5. agent'.gen \notin keys'
    <2>1. \A g \in keys : g \in Nat /\ g <= agent.gen
      BY DEF NumbersOK, GenOK
    <2>2. agent.gen + 1 \notin keys
      BY <1>2, <2>1
    <2> QED
      BY <1>1, <1>2, <2>2
  <1>6. \A x \in Slots : x # r /\ pc'[x] # "idle" =>
           pc'[x] # "apply" /\ RowOf(x)'.gen < agent'.gen
    <2> SUFFICES ASSUME NEW x \in Slots, x # r, pc'[x] # "idle"
                 PROVE  pc'[x] # "apply" /\ RowOf(x)'.gen < agent'.gen
      OBVIOUS
    <2>1. pc'[x] = pc[x] /\ RowOf(x)' = RowOf(x) /\ pc[x] # "apply"
      BY <1>1, OthersKept
    <2>2. RowOf(x).gen <= agent.gen /\ RowOf(x).gen \in Nat
      BY <2>1 DEF GenOK, NumbersOK
    <2> QED
      BY <1>2, <2>1, <2>2
  <1>7. Busy(Worker)' => MsgOf(Worker)'.gen < agent'.gen
    <2> SUFFICES ASSUME Busy(Worker)' PROVE MsgOf(Worker)'.gen < agent'.gen
      OBVIOUS
    <2>1. Busy(Worker) /\ MsgOf(Worker)' = MsgOf(Worker)
      BY <1>1, OthersKept, SlotFacts DEF Busy
    <2>2. MsgOf(Worker).gen <= agent.gen /\ MsgOf(Worker).gen \in Nat
      BY <2>1, GensOfMessage, SlotFacts DEF NumbersOK
    <2> QED
      BY <1>2, <2>1, <2>2
  <1> QED
    BY <1>1, <1>2, <1>3, <1>4, <1>5, <1>6, <1>7

LEMMA TriesKept ==
    ASSUME NumbersOK, NumbersOK', WorkerOK, TimeOK, MsgGenOK, GenOK, TriesOK, WatchStep
    PROVE  TriesOK'
  <1> SUFFICES ASSUME ~overlap' PROVE TriesOK'
    BY DEF TriesOK
  <1>1. ~overlap
    BY OverlapStays
  <1>2. /\ \A m \in queue : m.gen = agent.gen => m.tries <= Failures
        /\ Busy(Worker) /\ MsgOf(Worker).gen = agent.gen =>
              MsgOf(Worker).tries <= Failures
    BY <1>1 DEF TriesOK
  <1>3. Worker \in Slots /\ Worker \notin Clients
    BY SlotFacts
  \* Steps that leave messages, generation and time-outs alone.
  <1>4. ASSUME agent'.gen = agent.gen, queue' = queue, EventsGrow,
               Busy(Worker)' => Busy(Worker) /\ MsgOf(Worker)' = MsgOf(Worker)
        PROVE  TriesOK'
    BY <1>2, <1>3, <1>4 DEF TriesOK, EventsGrow, NumbersOK
  <1>5. ASSUME NEW r \in Slots, OnlyMoves(r), r # Worker \/ pc'[r] = "idle"
        PROVE  Busy(Worker)' => Busy(Worker) /\ MsgOf(Worker)' = MsgOf(Worker)
    BY <1>3, <1>5, OthersKept DEF Busy
  <1>6. ASSUME NEW r \in Slots, StartStep(r)
        PROVE  TriesOK'
    <2>1. r # Worker /\ OnlyMoves(r) /\ agent'.gen = agent.gen /\ queue' = queue /\ EventsGrow
      BY <1>3, <1>6 DEF StartStep, SameRedis
    <2> QED
      BY <1>4, <1>5, <2>1
  <1>7. ASSUME NEW r \in Slots, LockStep(r)
        PROVE  TriesOK'
    <2>1. /\ OnlyMoves(r) /\ agent'.gen = agent.gen /\ queue' = queue /\ EventsGrow
          /\ MsgOf(r)' = MsgOf(r) /\ Busy(r)
      BY <1>7 DEF LockStep, MsgOf, SameRedis, Busy, Preparing
    <2>2. Busy(Worker)' => Busy(Worker) /\ MsgOf(Worker)' = MsgOf(Worker)
      BY <1>5, <2>1
    <2> QED
      BY <1>4, <2>1, <2>2
  <1>8. ASSUME NEW r \in Slots, CommitStep(r)
        PROVE  TriesOK'
    <2>1. /\ OnlyMoves(r) /\ pc[r] = "apply" /\ queue' = queue /\ agent'.gen = RowOf(r).gen
      BY <1>8 DEF CommitStep, SameRedis
    <2>2. agent'.gen = agent.gen + 1 /\ agent.gen \in Nat
      BY <1>1, <2>1 DEF GenOK, NumbersOK
    <2>3. \A m \in queue : m.gen <= agent.gen /\ m.gen \in Nat
      BY <1>1 DEF GenOK, NumbersOK
    <2>4. Busy(Worker)' => Busy(Worker) /\ MsgOf(Worker)' = MsgOf(Worker)
      <3>1. CASE r # Worker
        BY <1>5, <2>1, <3>1
      <3>2. CASE r = Worker
        <4>1. req[Worker].wake
          BY <2>1, <3>2 DEF WorkerOK, Busy
        <4> QED
          BY <1>8, <2>1, <3>2, <4>1 DEF CommitStep, MsgOf, Busy
      <3> QED
        BY <3>1, <3>2
    <2>5. Busy(Worker) => MsgOf(Worker).gen <= agent.gen /\ MsgOf(Worker).gen \in Nat
      BY <1>1, <1>3, GensOfMessage DEF NumbersOK
    <2>6. \A m \in queue' : m.gen # agent'.gen
      BY <2>1, <2>2, <2>3
    <2>7. Busy(Worker)' => MsgOf(Worker)'.gen # agent'.gen
      BY <2>2, <2>4, <2>5
    <2> QED
      BY <2>6, <2>7 DEF TriesOK
  <1>9. ASSUME NEW r \in Slots, EnqueueStep(r)
        PROVE  TriesOK'
    <2>1. /\ OnlyMoves(r) /\ pc'[r] = "idle" /\ Busy(r) /\ agent' = agent /\ EventsGrow
          /\ pc[r] \in {"enqueue", "sweep"}
          /\ \A m \in queue' : m \in queue \/ m.tries = 0
                               \/ (r = Worker /\ m.gen = MsgOf(Worker).gen)
      BY <1>9 DEF EnqueueStep, EndStep
    <2>2. r = Worker => MsgOf(Worker).gen # agent.gen
      <3> SUFFICES ASSUME r = Worker PROVE MsgOf(Worker).gen # agent.gen
        OBVIOUS
      <3>1. pc[Worker] = "enqueue" /\ Busy(Worker)
        BY <2>1 DEF WorkerOK
      <3>2. MsgOf(Worker).gen < agent.gen
        BY <1>1, <3>1, GensOfMessage
      <3> QED
        BY <1>3, <3>2 DEF NumbersOK
    <2>3. Busy(Worker)' => Busy(Worker) /\ MsgOf(Worker)' = MsgOf(Worker)
      BY <1>5, <2>1
    <2>4. 0 <= Failures' /\ \A k \in Nat : k <= Failures => k <= Failures'
      BY <2>1 DEF NumbersOK, EventsGrow
    <2> QED
      BY <1>2, <1>3, <2>1, <2>2, <2>3, <2>4 DEF TriesOK, NumbersOK
  <1>10. ASSUME TimeOutStep
         PROVE  TriesOK'
    <2>1. /\ pc'[Worker] = "idle" /\ Busy(Worker) /\ agent' = agent
          /\ Failures' = Failures + 1
          /\ \A m \in queue' : m \in queue \/ (/\ m.gen = MsgOf(Worker).gen
                                               /\ m.tries = MsgOf(Worker).tries + 1)
      BY <1>10 DEF TimeOutStep, EndStep
    <2>2. /\ Failures \in Nat /\ MsgOf(Worker).tries \in Nat
          /\ \A m \in queue : m.tries \in Nat
      BY <1>3 DEF NumbersOK
    <2>3. \A m \in queue' : m.gen = agent'.gen => m.tries <= Failures'
      <3> SUFFICES ASSUME NEW m \in queue', m.gen = agent.gen
                   PROVE  m.tries <= Failures'
        BY <2>1
      <3>1. CASE m \in queue
        BY <1>2, <2>1, <2>2, <3>1
      <3>2. CASE m.gen = MsgOf(Worker).gen /\ m.tries = MsgOf(Worker).tries + 1
        BY <1>2, <2>1, <2>2, <3>2
      <3> QED
        BY <2>1, <3>1, <3>2
    <2> QED
      BY <2>1, <2>3 DEF TriesOK, Busy
  <1>11. ASSUME NEW r \in Slots, BeatStep(r) \/ WorkWakeStep(r)
         PROVE  TriesOK'
    <2>1. OnlyMoves(r) /\ pc'[r] = "idle" /\ agent'.gen = agent.gen /\ queue' = queue /\ EventsGrow
      BY <1>11 DEF BeatStep, WorkWakeStep, SameWake, SameRedis
    <2> QED
      BY <1>4, <1>5, <2>1
  <1>12. ASSUME NEW r \in Slots, CrashStep(r)
         PROVE  TriesOK'
    <2>1. /\ OnlyMoves(r) /\ pc'[r] = "idle" /\ agent' = agent /\ queue' = queue
          /\ EventsGrow
      BY <1>12 DEF CrashStep, EndStep, SameRedis
    <2>2. Busy(Worker)' => Busy(Worker) /\ MsgOf(Worker)' = MsgOf(Worker)
      BY <1>5, <2>1
    <2> QED
      BY <1>4, <2>1, <2>2
  <1>13. ASSUME GiveUpStep
         PROVE  TriesOK'
    <2>1. /\ OnlyMoves(Worker) /\ pc'[Worker] = "idle" /\ agent'.gen = agent.gen
          /\ queue' = queue /\ EventsGrow
      BY <1>13 DEF GiveUpStep, SameWake, SameRedis
    <2> QED
      BY <1>3, <1>4, <1>5, <2>1
  <1>14. ASSUME NEW m \in queue, SkipStep(m) \/ RipeStep(m)
         PROVE  TriesOK'
    <2>1. /\ UNCHANGED <<agent, pc, req>> /\ EventsGrow
          /\ \A n \in queue' : \E k \in queue : n.gen = k.gen /\ n.tries = k.tries
      BY <1>14 DEF SkipStep, RipeStep
    <2> QED
      BY <1>2, <1>3, <2>1 DEF TriesOK, EventsGrow, Busy, MsgOf, NumbersOK
  <1>15. ASSUME NEW m \in queue, TakeStep(m)
         PROVE  TriesOK'
    <2>1. /\ agent' = agent /\ EventsGrow /\ queue' \subseteq queue /\ MsgOf(Worker)' = m
      BY <1>15 DEF TakeStep, MsgOf
    <2> QED
      BY <1>2, <2>1 DEF TriesOK, EventsGrow, NumbersOK
  <1>16. ASSUME PassStep \/ ExpireStep \/ RestStep
         PROVE  TriesOK'
    <2>1. /\ UNCHANGED <<queue, pc, req>> /\ EventsGrow /\ agent'.gen = agent.gen
      BY <1>16 DEF PassStep, ExpireStep, RestStep, SameRedis, SameWake
    <2> QED
      BY <1>4, <2>1 DEF Busy, MsgOf
  <1>17. ASSUME NEW m \in queue, DeferFailStep(m)
         PROVE  TriesOK'
    <2>1. /\ UNCHANGED <<agent, pc, req>> /\ Failures' = Failures + 1
          /\ \A n \in queue' : n \in queue \/ (n.gen = m.gen /\ n.tries = m.tries + 1)
      BY <1>17 DEF DeferFailStep
    <2>2. Failures \in Nat /\ MsgOf(Worker).tries \in Nat /\ \A k \in queue : k.tries \in Nat
      BY <1>3 DEF NumbersOK
    <2>3. \A n \in queue' : n.gen = agent'.gen => n.tries <= Failures'
      BY <1>2, <2>1, <2>2
    <2>4. Busy(Worker)' /\ MsgOf(Worker)'.gen = agent'.gen => MsgOf(Worker)'.tries <= Failures'
      BY <1>2, <2>1, <2>2 DEF Busy, MsgOf
    <2> QED
      BY <2>3, <2>4 DEF TriesOK
  <1> QED
    BY <1>6, <1>7, <1>8, <1>9, <1>10, <1>11, <1>12, <1>13, <1>14, <1>15, <1>16, <1>17
       DEF WatchStep

\* What the slots hold: those that may cancel a deadline, and those about to queue.
LEMMA DeadlineKept ==
    ASSUME NumbersOK, NumbersOK', WorkerOK, TimeOK, MsgGenOK, GenOK, DeadlineOK, WatchStep
    PROVE  DeadlineOK'
  <1> SUFFICES ASSUME ~overlap', NEW x \in Slots
               PROVE  /\ (/\ pc'[x] \in Preparing \cup {"give up"}
                          /\ RowOf(x)'.gen = agent'.gen /\ RowOf(x)'.deadline = "none") => ~Expected'
                      /\ pc'[x] = "apply" /\ ~req'[x].wake =>
                           RowOf(x)'.deadline = "none" \/ RowOf(x)'.lastWake # watch' \/ watch' = 0
                      /\ pc'[x] = "enqueue" /\ RowOf(x)'.gen = agent'.gen => RowOf(x)'.lastWake = watch'
    BY DEF DeadlineOK
  <1> DEFINE Cancels == /\ pc'[x] \in Preparing \cup {"give up"}
                        /\ RowOf(x)'.gen = agent'.gen /\ RowOf(x)'.deadline = "none"
             Applies == pc'[x] = "apply" /\ ~req'[x].wake =>
                           RowOf(x)'.deadline = "none" \/ RowOf(x)'.lastWake # watch' \/ watch' = 0
             Queues  == pc'[x] = "enqueue" /\ RowOf(x)'.gen = agent'.gen => RowOf(x)'.lastWake = watch'
             Good    == (Cancels => ~Expected') /\ Applies /\ Queues
  <1>1. ~overlap
    BY OverlapStays
  <1>2. /\ (/\ pc[x] \in Preparing \cup {"give up"}
            /\ RowOf(x).gen = agent.gen /\ RowOf(x).deadline = "none") => ~Expected
        /\ pc[x] = "apply" /\ ~req[x].wake =>
             RowOf(x).deadline = "none" \/ RowOf(x).lastWake # watch \/ watch = 0
        /\ pc[x] = "enqueue" /\ RowOf(x).gen = agent.gen => RowOf(x).lastWake = watch
    BY <1>1 DEF DeadlineOK
  \* The last wake stays, and the slot does.
  <1>3. ASSUME watch' = watch, agent'.gen = agent.gen, Expected' => Expected,
               pc'[x] = pc[x], RowOf(x)' = RowOf(x), req'[x].wake = req[x].wake
        PROVE  Good
    BY <1>2, <1>3
  <1>4. ASSUME \A r \in Slots : ~WakeCommit(r)
        PROVE  Expected' => Expected
    BY <1>4, LastWakeStays DEF SameLastWake
  <1>5. CASE \E r \in Slots : CommitStep(r)
    <2>1. PICK r \in Slots : CommitStep(r)
      BY <1>5
    <2>2. /\ OnlyMoves(r) /\ pc[r] = "apply" /\ agent'.gen = RowOf(r).gen
          /\ \A s \in Slots : s # r => pc[s] # "apply"
      BY <2>1 DEF CommitStep
    <2>3. agent'.gen = agent.gen + 1 /\ agent.gen \in Nat
      BY <1>1, <2>2 DEF GenOK, NumbersOK
    <2>4. CASE x = r
      <3>1. CASE req[r].wake
        <4>1. pc'[r] = "enqueue" /\ RowOf(r)'.lastWake = watch'
          BY <2>1, <3>1 DEF CommitStep, RowOf
        <4> QED
          BY <2>4, <4>1 DEF Preparing
      <3>2. CASE ~req[r].wake
        BY <2>1, <2>4, <3>2 DEF CommitStep, Preparing
      <3> QED
        BY <3>1, <3>2
    <2>5. CASE x # r
      <3>1. pc'[x] = pc[x] /\ RowOf(x)' = RowOf(x) /\ pc[x] # "apply"
        BY <2>2, <2>5, OthersKept
      <3>2. pc[x] # "idle" => RowOf(x).gen <= agent.gen /\ RowOf(x).gen \in Nat
        BY <1>1, <3>1 DEF GenOK, NumbersOK
      <3>3. pc'[x] # "idle" => RowOf(x)'.gen # agent'.gen
        BY <2>3, <3>1, <3>2
      <3> QED
        BY <3>1, <3>3 DEF Preparing
    <2> QED
      BY <2>4, <2>5
  <1>6. ASSUME ~\E r \in Slots : CommitStep(r)
        PROVE  Good
    <2>1. Expected' => Expected
      BY <1>4, <1>6 DEF WakeCommit
    <2>2. ASSUME NEW r \in Slots, r # x, OnlyMoves(r), watch' = watch, agent'.gen = agent.gen
          PROVE  Good
      <3>1. pc'[x] = pc[x] /\ req'[x] = req[x] /\ RowOf(x)' = RowOf(x)
        BY <2>2, OthersKept
      <3> QED
        BY <1>3, <2>1, <2>2, <3>1
    <2>3. ASSUME pc'[x] = "idle"
          PROVE  Good
      BY <2>3 DEF Preparing
    <2>4. ASSUME NEW r \in Slots, StartStep(r)
          PROVE  Good
      <3>1. /\ OnlyMoves(r) /\ watch' = watch /\ agent' = agent /\ RowOf(r)' = agent
            /\ pc'[r] \notin {"apply", "enqueue"}
        BY <2>4 DEF StartStep, SameGhosts, RowOf
      <3>2. CASE x = r
        BY <3>1, <3>2 DEF Expected
      <3>3. CASE x # r
        BY <2>2, <3>1, <3>3
      <3> QED
        BY <3>2, <3>3
    <2>5. ASSUME NEW r \in Slots, LockStep(r)
          PROVE  Good
      <3>1. /\ OnlyMoves(r) /\ watch' = watch /\ agent' = agent
            /\ pc[r] \in Preparing /\ pc'[r] = "apply" /\ RowOf(r).gen = agent.gen
            /\ req'[r].wake = req[r].wake
        BY <2>5 DEF LockStep, RowOf
      <3>2. CASE x = r
        <4>1. ~req'[r].wake =>
                RowOf(r)'.deadline = "none" \/ RowOf(r)'.lastWake # watch' \/ watch' = 0
          <5> SUFFICES ASSUME ~req[r].wake, RowOf(r)'.deadline # "none"
                       PROVE  RowOf(r)'.lastWake # watch \/ watch = 0
            BY <3>1
          <5>1. /\ RowOf(r).deadline = "none" /\ RowOf(r)'.deadline = agent.deadline
                /\ RowOf(r)'.lastWake = agent.lastWake
            BY <2>5 DEF LockStep, RowOf
          <5>2. ~Expected
            BY <1>2, <3>1, <3>2, <5>1
          <5> QED
            BY <1>1, <5>1, <5>2 DEF Expected
        <4> QED
          BY <3>1, <3>2, <4>1 DEF Preparing
      <3>3. CASE x # r
        BY <2>2, <3>1, <3>3
      <3> QED
        BY <3>2, <3>3
    <2>6. ASSUME NEW r \in Slots,
                 EnqueueStep(r) \/ CrashStep(r) \/ BeatStep(r) \/ WorkWakeStep(r)
          PROVE  Good
      <3>1. OnlyMoves(r) /\ pc'[r] = "idle" /\ watch' = watch /\ agent'.gen = agent.gen
        BY <2>6 DEF EnqueueStep, CrashStep, BeatStep, WorkWakeStep, EndStep, SameGhosts, SameWake
      <3>2. CASE x = r
        BY <2>3, <3>1, <3>2
      <3>3. CASE x # r
        BY <2>2, <3>1, <3>3
      <3> QED
        BY <3>2, <3>3
    <2>7. ASSUME NEW m \in queue, TakeStep(m)
          PROVE  Good
      <3>1. /\ OnlyMoves(Worker) /\ watch' = watch /\ agent' = agent /\ RowOf(Worker)' = agent
            /\ pc'[Worker] \notin {"apply", "enqueue"} /\ Worker \in Slots
        BY <2>7, SlotFacts DEF TakeStep, SameGhosts, RowOf
      <3>2. CASE x = Worker
        BY <3>1, <3>2 DEF Expected
      <3>3. CASE x # Worker
        BY <2>2, <3>1, <3>3
      <3> QED
        BY <3>2, <3>3
    <2>8. ASSUME TimeOutStep \/ GiveUpStep
          PROVE  Good
      <3>1. /\ OnlyMoves(Worker) /\ pc'[Worker] = "idle" /\ watch' = watch
            /\ agent'.gen = agent.gen /\ Worker \in Slots
        BY <2>8, SlotFacts DEF TimeOutStep, GiveUpStep, EndStep, SameGhosts, SameWake
      <3>2. CASE x = Worker
        BY <2>3, <3>1, <3>2
      <3>3. CASE x # Worker
        BY <2>2, <3>1, <3>3
      <3> QED
        BY <3>2, <3>3
    <2>9. ASSUME \/ \E m \in queue : SkipStep(m) \/ DeferFailStep(m) \/ RipeStep(m)
                 \/ PassStep \/ ExpireStep \/ RestStep
          PROVE  Good
      <3>1. UNCHANGED <<pc, req, watch>> /\ agent'.gen = agent.gen
        BY <2>9 DEF SkipStep, DeferFailStep, RipeStep, PassStep, ExpireStep, RestStep, SameGhosts, SameWake
      <3>2. pc'[x] = pc[x] /\ RowOf(x)' = RowOf(x) /\ req'[x].wake = req[x].wake
        BY <3>1 DEF RowOf
      <3> QED
        BY <1>3, <2>1, <3>1, <3>2
    <2> QED
      BY <1>6, <2>4, <2>5, <2>6, <2>7, <2>8, <2>9 DEF WatchStep
  <1> QED
    BY <1>5, <1>6

\* After the commit of a wake nothing of its generation is under way but the run.
LEMMA PassedNew ==
    ASSUME NumbersOK, NumbersOK', WorkerOK, TimeOK, MsgGenOK, GenOK, ~overlap,
           NEW r \in Slots, WakeCommit(r)
    PROVE  PassedOK'
  <1>1. /\ agent'.deadline = "ahead" /\ agent'.gen \in Nat
        /\ pc'[r] = "enqueue"
        /\ \A m \in queue' : m.gen < agent'.gen /\ m.gen \in Nat
        /\ \A x \in Slots : x # r /\ pc'[x] # "idle" =>
              RowOf(x)'.gen < agent'.gen /\ RowOf(x)'.gen \in Nat
        /\ Busy(Worker)' => MsgOf(Worker)'.gen < agent'.gen /\ MsgOf(Worker)'.gen \in Nat
    BY WakeCommitIsNew, SlotFacts DEF NumbersOK
  <1>2. \A m \in queue' : m.gen # agent'.gen
    BY <1>1
  <1>3. \A x \in Slots : pc'[x] = "sweep" => RowOf(x)'.gen # agent'.gen
    BY <1>1
  <1>4. Busy(Worker)' => MsgOf(Worker)'.gen # agent'.gen
    BY <1>1
  <1> QED
    BY <1>1, <1>2, <1>3, <1>4 DEF PassedOK

LEMMA PassedKept ==
    ASSUME NumbersOK, NumbersOK', WorkerOK, TimeOK, MsgGenOK, GenOK, DeadlineOK, PassedOK,
           WatchStep
    PROVE  PassedOK'
  <1> SUFFICES ASSUME Expected' PROVE PassedOK'
    BY DEF PassedOK
  <1>1. ~overlap
    BY OverlapStays DEF Expected
  <1>2. CASE \E r \in Slots : WakeCommit(r)
    BY <1>1, <1>2, PassedNew
  <1>3. ASSUME \A r \in Slots : ~WakeCommit(r)
        PROVE  PassedOK'
    <2>1. /\ Expected /\ watch' = watch
          /\ agent'.gen = agent.gen /\ agent'.lastWake = agent.lastWake
          /\ agent'.deadline = agent.deadline \/ PassStep
          /\ \A r \in Slots : ~CommitStep(r) /\ ~WorkWakeStep(r)
      BY <1>3, LastWakeStays DEF SameLastWake
    <2>2. Passed => Passed'
      BY <1>3, LastWakeStays, PassedStays
    <2>3. /\ agent.deadline = "passed" => Passed
          /\ \A m \in queue : m.gen = agent.gen /\ (m.due \/ m.wake # agent.lastWake) => Passed
          /\ Busy(Worker) /\ MsgOf(Worker).gen = agent.gen => Passed
          /\ \A r \in Slots : pc[r] = "sweep" /\ RowOf(r).gen = agent.gen => Passed
      BY <2>1 DEF PassedOK
    <2>4. Worker \in Slots /\ Worker \notin Clients
      BY SlotFacts
    <2>5. agent'.deadline = "passed" => Passed'
      <3>1. CASE agent'.deadline = agent.deadline
        BY <2>2, <2>3, <3>1
      <3>2. CASE PassStep
        BY <2>2, <3>2 DEF PassStep, Passed
      <3> QED
        BY <2>1, <3>1, <3>2
    <2>6. ASSUME NEW m \in queue', m.gen = agent.gen, m.due \/ m.wake # agent.lastWake
          PROVE  Passed
      <3>1. CASE m \in queue
        BY <2>3, <2>6, <3>1
      <3>2. ASSUME NEW r \in Slots, EnqueueStep(r), m \notin queue
            PROVE  Passed
        <4>1. \/ m.gen = RowOf(r).gen /\ m.tries = 0
                 /\ (pc[r] = "enqueue" => m.wake = RowOf(r).lastWake /\ ~m.due)
              \/ r = Worker /\ m.gen = MsgOf(r).gen
          BY <2>6, <3>2 DEF EnqueueStep
        <4>2. pc[r] \in {"enqueue", "sweep"} /\ Busy(r)
          BY <3>2 DEF EnqueueStep, EndStep
        <4>3. CASE r = Worker /\ m.gen = MsgOf(r).gen
          BY <2>3, <2>6, <4>2, <4>3
        <4>4. CASE pc[r] = "enqueue" /\ m.gen = RowOf(r).gen
                   /\ m.wake = RowOf(r).lastWake /\ ~m.due
          <5>1. RowOf(r).lastWake = watch
            BY <1>1, <2>6, <4>4 DEF DeadlineOK
          <5> QED
            BY <2>1, <2>6, <4>4, <5>1 DEF Expected
        <4>5. CASE pc[r] = "sweep" /\ m.gen = RowOf(r).gen
          BY <2>3, <2>6, <4>5
        <4> QED
          BY <4>1, <4>2, <4>3, <4>4, <4>5
      <3>3. ASSUME TimeOutStep, m \notin queue
            PROVE  Passed
        <4>1. m.gen = MsgOf(Worker).gen /\ Busy(Worker)
          BY <2>6, <3>3 DEF TimeOutStep, EndStep
        <4> QED
          BY <2>3, <2>6, <4>1
      <3>4. ASSUME NEW k \in queue, SkipStep(k), m \notin queue
            PROVE  Passed
        <4>1. m.wake = agent.lastWake /\ ~m.due
          BY <2>6, <3>4 DEF SkipStep
        <4> QED
          BY <2>6, <4>1
      <3>8. ASSUME NEW k \in queue, DeferFailStep(k), m \notin queue
            PROVE  Passed
        <4>1. m.gen = k.gen /\ k.due
          BY <2>6, <3>8 DEF DeferFailStep
        <4> QED
          BY <2>3, <2>6, <4>1
      <3>5. ASSUME NEW k \in queue, RipeStep(k), m \notin queue
            PROVE  Passed
        <4>1. m.gen = k.gen /\ Long(k.wake)
          BY <2>6, <3>5 DEF RipeStep
        <4>2. CASE k.wake = agent.lastWake
          BY <4>1, <4>2 DEF Passed
        <4>3. CASE k.wake # agent.lastWake
          BY <2>3, <2>6, <3>5, <4>1, <4>3
        <4> QED
          BY <4>2, <4>3
      <3>6. ASSUME \/ \E r \in Slots : StartStep(r) \/ LockStep(r) \/ CrashStep(r) \/ BeatStep(r)
                   \/ \E k \in queue : TakeStep(k)
                   \/ GiveUpStep \/ PassStep \/ ExpireStep \/ RestStep
            PROVE  queue' \subseteq queue
        BY <3>6 DEF StartStep, LockStep, CrashStep, BeatStep, TakeStep, GiveUpStep, PassStep,
                    ExpireStep, RestStep, SameRedis
      <3>7. CASE m \notin queue
        BY <2>1, <2>6, <3>2, <3>3, <3>4, <3>5, <3>6, <3>7, <3>8 DEF WatchStep
      <3> QED
        BY <3>1, <3>7
    <2>7. ASSUME Busy(Worker)', MsgOf(Worker)'.gen = agent.gen
          PROVE  Passed
      <3>1. ASSUME Busy(Worker), MsgOf(Worker)' = MsgOf(Worker)
            PROVE  Passed
        BY <2>3, <2>7, <3>1
      <3>2. ASSUME NEW r \in Slots, OnlyMoves(r), r # Worker \/ pc'[r] = "idle"
            PROVE  Passed
        BY <2>4, <2>7, <3>1, <3>2, OthersKept DEF Busy
      <3>3. ASSUME NEW r \in Slots, StartStep(r) \/ EnqueueStep(r) \/ CrashStep(r) \/ BeatStep(r)
            PROVE  Passed
        BY <2>4, <3>2, <3>3 DEF StartStep, EnqueueStep, CrashStep, EndStep, BeatStep
      <3>4. ASSUME NEW r \in Slots, LockStep(r)
            PROVE  Passed
        <4>1. OnlyMoves(r) /\ Busy(r) /\ MsgOf(r)' = MsgOf(r)
          BY <3>4 DEF LockStep, Busy, Preparing, MsgOf
        <4> QED
          BY <3>1, <3>2, <4>1
      <3>5. ASSUME NEW m \in queue, TakeStep(m)
            PROVE  Passed
        BY <2>3, <3>5 DEF TakeStep
      <3>6. ASSUME TimeOutStep \/ GiveUpStep
            PROVE  Passed
        BY <2>4, <3>2, <3>6 DEF TimeOutStep, EndStep, GiveUpStep
      <3>7. ASSUME \/ \E m \in queue : SkipStep(m) \/ DeferFailStep(m) \/ RipeStep(m)
                   \/ PassStep \/ ExpireStep \/ RestStep
            PROVE  Passed
        <4>1. UNCHANGED <<pc, req>>
          BY <3>7 DEF SkipStep, DeferFailStep, RipeStep, PassStep, ExpireStep, RestStep
        <4>2. Busy(Worker) /\ MsgOf(Worker)' = MsgOf(Worker)
          BY <2>7, <4>1 DEF Busy, MsgOf
        <4> QED
          BY <3>1, <4>2
      <3> QED
        BY <2>1, <3>3, <3>4, <3>5, <3>6, <3>7 DEF WatchStep
    <2>8. ASSUME NEW x \in Slots, pc'[x] = "sweep", RowOf(x)'.gen = agent.gen
          PROVE  Passed
      <3>1. ASSUME pc[x] = "sweep", RowOf(x)' = RowOf(x)
            PROVE  Passed
        BY <2>3, <2>8, <3>1
      <3>2. ASSUME NEW r \in Slots, OnlyMoves(r), r # x \/ pc'[r] # "sweep"
            PROVE  Passed
        BY <2>8, <3>1, <3>2, OthersKept
      <3>3. ASSUME NEW r \in Slots, StartStep(r)
            PROVE  Passed
        <4>1. CASE x = r
          <5>1. agent.deadline # "ahead" /\ agent.deadline # "none"
            BY <2>1, <2>8, <3>3, <4>1 DEF StartStep, Expected
          <5>2. agent.deadline \in {"none", "ahead", "passed"}
            BY DEF NumbersOK, Deadlines
          <5> QED
            BY <2>3, <5>1, <5>2
        <4>2. CASE x # r
          BY <3>2, <3>3, <4>2 DEF StartStep
        <4> QED
          BY <4>1, <4>2
      <3>4. ASSUME NEW r \in Slots,
                   LockStep(r) \/ EnqueueStep(r) \/ CrashStep(r) \/ BeatStep(r)
            PROVE  Passed
        BY <3>2, <3>4 DEF LockStep, EnqueueStep, CrashStep, EndStep, BeatStep
      <3>5. ASSUME TimeOutStep \/ GiveUpStep \/ \E m \in queue : TakeStep(m)
            PROVE  Passed
        BY <2>4, <3>2, <3>5 DEF TimeOutStep, EndStep, GiveUpStep, TakeStep
      <3>6. ASSUME \/ \E m \in queue : SkipStep(m) \/ DeferFailStep(m) \/ RipeStep(m)
                   \/ PassStep \/ ExpireStep \/ RestStep
            PROVE  Passed
        <4>1. UNCHANGED <<pc, req>>
          BY <3>6 DEF SkipStep, DeferFailStep, RipeStep, PassStep, ExpireStep, RestStep
        <4> QED
          BY <2>8, <3>1, <4>1 DEF RowOf
      <3> QED
        BY <2>1, <3>3, <3>4, <3>5, <3>6 DEF WatchStep
    <2>9. \A m \in queue' : m.gen = agent'.gen /\ (m.due \/ m.wake # agent'.lastWake) => Passed'
      BY <2>1, <2>2, <2>6
    <2>10. Busy(Worker)' /\ MsgOf(Worker)'.gen = agent'.gen => Passed'
      BY <2>1, <2>2, <2>7
    <2>11. \A r \in Slots : pc'[r] = "sweep" /\ RowOf(r)'.gen = agent'.gen => Passed'
      BY <2>1, <2>2, <2>8
    <2> QED
      BY <2>5, <2>9, <2>10, <2>11 DEF PassedOK
  <1> QED
    BY <1>2, <1>3

\* The run that has committed a wake, or the reconcile it queued, or the one that
\* the sweep queued before it, is there.
LEMMA WatchKept ==
    ASSUME NumbersOK, NumbersOK', WorkerOK, TimeOK, MsgGenOK, GenOK, TriesOK, DeadlineOK,
           PassedOK, WatchInv, WatchStep
    PROVE  WatchInv'
  <1> SUFFICES ASSUME Expected', ~Excused', Unsettled'
               PROVE  \/ InHand'
                      \/ /\ agent'.gen \notin keys'
                         /\ \E r \in Slots : pc'[r] = "enqueue" /\ RowOf(r)'.gen = agent'.gen
    BY DEF WatchInv
  <1> DEFINE Watched1 ==
               \/ InHand'
               \/ /\ agent'.gen \notin keys'
                  /\ \E r \in Slots : pc'[r] = "enqueue" /\ RowOf(r)'.gen = agent'.gen
  <1>1. ~overlap
    BY OverlapStays DEF Expected
  <1>2. CASE \E r \in Slots : WakeCommit(r)
    BY <1>1, <1>2, WakeCommitIsNew
  <1>3. ASSUME \A r \in Slots : ~WakeCommit(r)
        PROVE  Watched1
    <2>1. /\ Expected /\ watch' = watch
          /\ agent'.gen = agent.gen /\ agent'.lastWake = agent.lastWake
          /\ \A r \in Slots : ~CommitStep(r) /\ ~WorkWakeStep(r)
      BY <1>3, LastWakeStays DEF SameLastWake
    <2>2. Passed => Passed'
      BY <1>3, LastWakeStays, PassedStays
    <2>3. Worker \in Slots /\ Worker \notin Clients
      BY SlotFacts
    <2>4. Unsettled
      <3> SUFFICES ASSUME Passed, agent.seenAt >= watch PROVE FALSE
        BY DEF Unsettled, NumbersOK
      <3>1. agent'.seenAt < watch
        BY <2>1, <2>2 DEF Unsettled
      <3>2. ASSUME agent'.seenAt = agent.seenAt PROVE FALSE
        BY <3>1, <3>2 DEF NumbersOK
      <3>3. ASSUME NEW r \in Slots, BeatStep(r) PROVE FALSE
        <4>1. agent'.seenAt = req[r].at /\ pc[r] \in {"touch", "beat"}
          BY <3>3 DEF BeatStep
        <4>2. RowOf(r).lastWake >= watch
          BY <2>1, <4>1 DEF Passed, Long, Expected, RowOf
        <4>3. RowOf(r).lastWake <= req[r].at
          BY <4>1 DEF TimeOK
        <4>4. watch \in Nat /\ req[r].at \in Nat /\ RowOf(r).lastWake \in Nat
          BY DEF NumbersOK
        <4> QED
          BY <3>1, <4>1, <4>2, <4>3, <4>4
      <3>4. ASSUME ~\E r \in Slots : BeatStep(r) PROVE agent'.seenAt = agent.seenAt
        BY <2>1, <3>4 DEF WatchStep, StartStep, LockStep, EnqueueStep, CrashStep, EndStep,
             SkipStep, DeferFailStep, RipeStep, TakeStep, TimeOutStep, GiveUpStep, PassStep, ExpireStep, RestStep
      <3> QED
        BY <3>2, <3>3, <3>4
    <2>5. ~Excused /\ \A r \in Slots : ~CrashStep(r)
      <3>1. ~overlap' /\ ~Died' /\ ~dropped' /\ ~(Failures' > MaxRetries)
        BY DEF Excused, Died, Failures
      <3>2. \A r \in Slots : ~CrashStep(r)
        BY <3>1 DEF CrashStep
      <3>3. EventsGrow
        BY <2>1, <3>2 DEF WatchStep, StartStep, LockStep, EnqueueStep, BeatStep, SkipStep,
             DeferFailStep, RipeStep, TakeStep, TimeOutStep, GiveUpStep, PassStep, ExpireStep,
             RestStep
      <3>4. ~(Failures > MaxRetries)
        BY <3>1, <3>3, CapIsPositive DEF NumbersOK, EventsGrow
      <3>5. ~Died /\ ~dropped
        BY <3>1, <3>3 DEF EventsGrow
      <3> QED
        BY <1>1, <3>2, <3>4, <3>5 DEF Excused, Died, Failures
    <2>6. \/ InHand
          \/ /\ agent.gen \notin keys
             /\ \E r \in Slots : pc[r] = "enqueue" /\ RowOf(r).gen = agent.gen
      BY <2>1, <2>4, <2>5 DEF WatchInv
    \* Steps that touch no key, no message and no slot that holds the watch.
    <2>7. ASSUME keys' \subseteq keys, InHand => InHand',
                 \A x \in Slots : pc[x] = "enqueue" => pc'[x] = pc[x] /\ RowOf(x)' = RowOf(x)
          PROVE  Watched1
      BY <2>1, <2>6, <2>7
    <2>8. ASSUME queue' = queue,
                 Busy(Worker) => Busy(Worker)' /\ MsgOf(Worker)' = MsgOf(Worker)
          PROVE  InHand => InHand'
      BY <2>1, <2>8 DEF InHand
    <2>9. ASSUME NEW r \in Slots, StartStep(r) \/ LockStep(r) \/ BeatStep(r)
          PROVE  Watched1
      <3>1. OnlyMoves(r) /\ pc[r] # "enqueue" /\ UNCHANGED <<keys, queue>>
        BY <2>9 DEF StartStep, LockStep, BeatStep, Busy, Preparing, SameRedis
      <3>2. Busy(Worker) => Busy(Worker)' /\ MsgOf(Worker)' = MsgOf(Worker)
        <4>1. CASE r # Worker
          BY <2>3, <3>1, <4>1, OthersKept DEF Busy
        <4>2. CASE r = Worker
          BY <2>3, <2>9, <4>2 DEF StartStep, LockStep, BeatStep, WorkerOK, Busy, MsgOf
        <4> QED
          BY <4>1, <4>2
      <3> QED
        BY <2>7, <2>8, <3>1, <3>2, OthersKept
    <2>10. ASSUME NEW r \in Slots, EnqueueStep(r)
           PROVE  Watched1
      <3>0. ~dropped'
        BY DEF Excused
      <3>1. /\ OnlyMoves(r) /\ queue \subseteq queue' /\ keys' \subseteq keys \cup {RowOf(r).gen}
            /\ pc[r] \in {"enqueue", "sweep"}
            /\ RowOf(r).gen \notin keys => \E m \in queue' : m.gen = RowOf(r).gen
        BY <2>10, <3>0 DEF EnqueueStep, EndStep
      <3>2. InHand => InHand'
        <4>1. CASE r # Worker
          <5>1. Busy(Worker) => Busy(Worker)' /\ MsgOf(Worker)' = MsgOf(Worker)
            BY <2>3, <3>1, <4>1, OthersKept DEF Busy
          <5> QED
            BY <2>1, <3>1, <5>1 DEF InHand
        <4>2. CASE r = Worker
          <5>1. pc[Worker] = "enqueue" /\ Busy(Worker)
            BY <3>1, <4>2 DEF WorkerOK, Busy
          <5>2. MsgOf(Worker).gen < agent.gen
            BY <1>1, <5>1, GensOfMessage
          <5>3. MsgOf(Worker).gen # agent.gen
            BY <2>3, <5>2 DEF NumbersOK
          <5> QED
            BY <2>1, <3>1, <5>3 DEF InHand
        <4> QED
          BY <4>1, <4>2
      <3>3. CASE InHand
        BY <3>2, <3>3
      <3>4. CASE agent.gen \notin keys /\ RowOf(r).gen = agent.gen
        BY <2>1, <3>1, <3>4 DEF InHand
      <3>5. CASE ~InHand /\ RowOf(r).gen # agent.gen
        <4>1. agent'.gen \notin keys'
          BY <2>1, <2>6, <3>1, <3>5
        <4>2. PICK x \in Slots : pc[x] = "enqueue" /\ RowOf(x).gen = agent.gen
          BY <2>6, <3>5
        <4>3. pc'[x] = "enqueue" /\ RowOf(x)'.gen = agent'.gen
          BY <2>1, <3>1, <3>5, <4>2, OthersKept
        <4> QED
          BY <4>1, <4>3
      <3> QED
        BY <2>6, <3>3, <3>4, <3>5
    <2>11. ASSUME TimeOutStep
           PROVE  Watched1
      <3>1. /\ OnlyMoves(Worker) /\ keys' = keys /\ queue \subseteq queue' /\ Busy(Worker)
            /\ pc[Worker] # "enqueue"
            /\ Failures' = Failures + 1
            /\ MsgOf(Worker).tries < MaxRetries => \E m \in queue' : m.gen = MsgOf(Worker).gen
        BY <2>11 DEF TimeOutStep, EndStep, Preparing
      <3>2. MsgOf(Worker).gen = agent.gen => MsgOf(Worker).tries < MaxRetries
        <4> SUFFICES ASSUME MsgOf(Worker).gen = agent.gen PROVE MsgOf(Worker).tries < MaxRetries
          OBVIOUS
        <4>1. MsgOf(Worker).tries <= Failures
          BY <1>1, <3>1 DEF TriesOK
        <4>2. ~(Failures' > MaxRetries)
          BY DEF Excused, Failures
        <4>3. Failures \in Nat /\ MsgOf(Worker).tries \in Nat /\ MaxRetries \in Nat
          BY <2>3, CapIsPositive DEF NumbersOK
        <4> QED
          BY <3>1, <4>1, <4>2, <4>3
      <3>3. InHand => InHand'
        BY <2>1, <3>1, <3>2 DEF InHand
      <3>4. \A x \in Slots : pc[x] = "enqueue" => pc'[x] = pc[x] /\ RowOf(x)' = RowOf(x)
        BY <2>3, <3>1, OthersKept
      <3> QED
        BY <2>7, <3>1, <3>3, <3>4
    <2>12. ASSUME NEW m \in queue, SkipStep(m)
           PROVE  Watched1
      <3>1. UNCHANGED <<keys, pc, req>> /\ m.due
        BY <2>12 DEF SkipStep
      <3>2. m.gen = agent.gen => ~(agent.seenAt >= agent.lastWake)
        <4> SUFFICES ASSUME m.gen = agent.gen, agent.seenAt >= agent.lastWake PROVE FALSE
          OBVIOUS
        <4>1. Passed
          BY <2>1, <3>1 DEF PassedOK
        <4>2. agent.seenAt < watch
          BY <2>4, <4>1 DEF Unsettled
        <4> QED
          BY <2>1, <4>2 DEF Expected, NumbersOK
      <3>3. \A k \in queue : k.gen = agent.gen => \E n \in queue' : n.gen = agent.gen
        BY <2>12, <3>2 DEF SkipStep
      <3>4. InHand => InHand'
        BY <2>1, <3>1, <3>3 DEF InHand, Busy, MsgOf
      <3> QED
        BY <2>7, <3>1, <3>4 DEF RowOf
    <2>13. ASSUME NEW m \in queue, RipeStep(m)
           PROVE  Watched1
      <3>1. UNCHANGED <<keys, pc, req>>
        BY <2>13 DEF RipeStep
      <3>2. \A k \in queue : k.gen = agent.gen => \E n \in queue' : n.gen = agent.gen
        BY <2>13 DEF RipeStep
      <3>3. InHand => InHand'
        BY <2>1, <3>1, <3>2 DEF InHand, Busy, MsgOf
      <3> QED
        BY <2>7, <3>1, <3>3 DEF RowOf
    <2>14. ASSUME NEW m \in queue, TakeStep(m)
           PROVE  Watched1
      <3>1. /\ OnlyMoves(Worker) /\ keys' = keys /\ pc[Worker] # "enqueue"
            /\ Busy(Worker)' /\ MsgOf(Worker)' = m /\ m.gen = agent.gen
        BY <2>14 DEF TakeStep, Busy, MsgOf
      <3>2. InHand'
        BY <2>1, <3>1 DEF InHand
      <3>3. \A x \in Slots : pc[x] = "enqueue" => pc'[x] = pc[x] /\ RowOf(x)' = RowOf(x)
        BY <2>3, <3>1, OthersKept
      <3> QED
        BY <2>7, <3>1, <3>2, <3>3
    <2>15. ASSUME GiveUpStep
           PROVE  Watched1
      <3>1. /\ OnlyMoves(Worker) /\ UNCHANGED <<keys, queue>> /\ pc[Worker] = "give up"
            /\ \/ agent'.deadline = "none"
               \/ RowOf(Worker).deadline = "none" /\ agent'.deadline = agent.deadline
        BY <2>15 DEF GiveUpStep, SameRedis
      <3>2. RowOf(Worker).deadline = "none"
        BY <3>1 DEF Expected
      <3>3. RowOf(Worker).gen # agent.gen
        BY <1>1, <2>1, <2>3, <3>1, <3>2 DEF DeadlineOK
      <3>4. MsgOf(Worker).gen # agent.gen
        BY <3>1, <3>3 DEF MsgGenOK
      <3>5. InHand => InHand'
        BY <2>1, <3>1, <3>4 DEF InHand
      <3>6. \A x \in Slots : pc[x] = "enqueue" => pc'[x] = pc[x] /\ RowOf(x)' = RowOf(x)
        BY <2>3, <3>1, OthersKept
      <3> QED
        BY <2>7, <3>1, <3>5, <3>6
    <2>16. ASSUME PassStep \/ RestStep
           PROVE  Watched1
      <3>1. UNCHANGED <<keys, queue, pc, req>>
        BY <2>16 DEF PassStep, RestStep, SameRedis
      <3>2. InHand => InHand'
        BY <2>8, <3>1 DEF Busy, MsgOf
      <3> QED
        BY <2>7, <3>1, <3>2 DEF RowOf
    <2>17. ASSUME ExpireStep
           PROVE  Watched1
      <3>1. keys' \subseteq keys /\ UNCHANGED <<queue, pc, req>>
        BY <2>17 DEF ExpireStep
      <3>2. InHand => InHand'
        BY <2>8, <3>1 DEF Busy, MsgOf
      <3> QED
        BY <2>7, <3>1, <3>2 DEF RowOf
    <2>18. ASSUME NEW m \in queue, DeferFailStep(m)
           PROVE  Watched1
      <3>1. UNCHANGED <<keys, pc, req>> /\ Failures' = Failures + 1
        BY <2>18 DEF DeferFailStep
      <3>2. ~dropped' /\ ~(Failures' > MaxRetries)
        BY DEF Excused, Failures
      <3>3. m.gen = agent.gen => ~(m.tries >= MaxRetries)
        <4>1. Failures \in Nat /\ m.tries \in Nat /\ MaxRetries \in Nat
          BY CapIsPositive DEF NumbersOK
        <4>2. m.gen = agent.gen => m.tries <= Failures
          BY <1>1 DEF TriesOK
        <4> QED
          BY <3>1, <3>2, <4>1, <4>2
      <3>4. \A k \in queue : k.gen = agent.gen => \E n \in queue' : n.gen = agent.gen
        BY <2>18, <3>2, <3>3 DEF DeferFailStep
      <3>5. InHand => InHand'
        BY <2>1, <3>1, <3>4 DEF InHand, Busy, MsgOf
      <3> QED
        BY <2>7, <3>1, <3>5 DEF RowOf
    <2> QED
      BY <2>1, <2>5, <2>9, <2>10, <2>11, <2>12, <2>13, <2>14, <2>15, <2>16, <2>17,
         <2>18 DEF WatchStep
  <1> QED
    BY <1>2, <1>3

------------------------------------------------------------------------------
EscalationIInv == Parts /\ WorkerOK /\ TimeOK /\ EscalationInv
WatchIInv == Parts /\ WorkerOK /\ TimeOK /\ MsgGenOK /\ GenOK /\ TriesOK /\ DeadlineOK
             /\ PassedOK /\ WatchInv

LEMMA InitWatch == Init => EscalationIInv /\ WatchIInv
  <1> SUFFICES ASSUME Init PROVE EscalationIInv /\ WatchIInv
    OBVIOUS
  <1>1. Parts
    BY InitType, TypeParts
  <1>2. /\ agent.lastWake = 0 /\ agent.attempts = 0 /\ clock = 1 /\ watch = 0
        /\ escalated = 0 /\ queue = {} /\ keys = {} /\ ~overlap
        /\ \A r \in Slots : pc[r] = "idle"
    BY DEF Init, Fresh
  <1>3. Worker \in Slots /\ MaxWake \in Nat
    BY SlotFacts, CapIsPositive
  <1>4. WorkerOK /\ TimeOK /\ EscalationInv
    <2>1. WorkerOK
      BY <1>2, <1>3 DEF WorkerOK, Busy
    <2>2. TimeOK
      <3>1. agent.lastWake <= clock /\ watch <= clock
        BY <1>2
      <3> QED
        BY <1>2, <3>1 DEF TimeOK, Busy, Waking
    <2>3. Counted
      BY <1>2 DEF Counted
    <2>4. WakesCounted
      BY <1>2 DEF WakesCounted, Works
    <2>5. WorkerCounted
      BY <1>2, <1>3 DEF WorkerCounted
    <2>6. UnderCap
      <3>1. escalated <= MaxWake
        BY <1>2, <1>3
      <3> QED
        BY <1>2, <1>3, <3>1 DEF UnderCap
    <2> QED
      BY <2>1, <2>2, <2>3, <2>4, <2>5, <2>6 DEF EscalationInv
  <1>5. MsgGenOK /\ GenOK /\ TriesOK /\ DeadlineOK /\ PassedOK /\ WatchInv
    <2>1. ~Expected
      BY <1>2 DEF Expected
    <2> QED
      BY <1>2, <1>3, <2>1 DEF MsgGenOK, GenOK, TriesOK, DeadlineOK, PassedOK, WatchInv, Busy,
                              Preparing
  <1> QED
    BY <1>1, <1>4, <1>5 DEF EscalationIInv, WatchIInv

\* Between two answers of the agent, or runs that someone asked for, the worker
\* wakes an agent at most MaxWake times, however heartbeats, work wakes, retries
\* and time-outs come between.
THEOREM EscalationEnds == Spec => []EscalationStops
  <1>1. EscalationIInv /\ [Next]_vars => EscalationIInv'
    <2> SUFFICES ASSUME EscalationIInv, [Next]_vars PROVE EscalationIInv'
      OBVIOUS
    <2>1. Parts /\ Parts' /\ WatchStep
      BY StepType, EveryStep DEF EscalationIInv
    <2>2. NumbersOK /\ NumbersOK'
      BY <2>1, Numbers, NumbersNext
    <2> QED
      BY <2>1, <2>2, WorkerKept, TimeKept, CountKept DEF EscalationIInv
  <1>2. EscalationIInv => EscalationStops
    BY DEF EscalationIInv, EscalationInv, UnderCap, EscalationStops
  <1> QED
    BY <1>1, <1>2, InitWatch, PTL DEF Spec

\* As long as no runs overlap, no process dies, no push fails for good and time-outs
\* and failed deferrals are not more than the retries of a message, a wake whose
\* answer is due is never forgotten.
THEOREM NoWakeForgotten == Spec => []WakeIsWatched
  <1>1. WatchIInv /\ [Next]_vars => WatchIInv'
    <2> SUFFICES ASSUME WatchIInv, [Next]_vars PROVE WatchIInv'
      OBVIOUS
    <2>1. Parts /\ Parts' /\ WatchStep
      BY StepType, EveryStep DEF WatchIInv
    <2>2. NumbersOK /\ NumbersOK'
      BY <2>1, Numbers, NumbersNext
    <2>3. WorkerOK' /\ TimeOK' /\ MsgGenOK' /\ GenOK'
      BY <2>1, <2>2, WorkerKept, TimeKept, MsgGenKept, GenKept DEF WatchIInv
    <2>4. TriesOK' /\ DeadlineOK' /\ PassedOK' /\ WatchInv'
      BY <2>1, <2>2, TriesKept, DeadlineKept, PassedKept, WatchKept DEF WatchIInv
    <2> QED
      BY <2>1, <2>3, <2>4 DEF WatchIInv
  <1>2. WatchIInv => WakeIsWatched
    <2> SUFFICES ASSUME WatchIInv, ~Excused, Unanswered, agent.deadline # "none" PROVE Watched
      BY DEF WakeIsWatched
    <2>1. Expected /\ Unsettled
      BY DEF Excused, Unanswered, Expected, Unsettled
    <2> QED
      BY <2>1 DEF WatchIInv, WatchInv, InHand, Watched, Busy, RowOf, MsgOf
  <1> QED
    BY <1>1, <1>2, InitWatch, PTL DEF Spec
==============================================================================
