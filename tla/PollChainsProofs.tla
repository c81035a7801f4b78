-------------------------- MODULE PollChainsProofs --------------------------
(***************************************************************************)
(* Proofs about PollChains, for any number of ids, retries, faults and     *)
(* waiting tasks: types, that a job has one next run, and that a job whose *)
(* tasks are alive ends by a fault or by the purge of usage polls only.    *)
(***************************************************************************)
EXTENDS PollChains, FiniteSetTheorems, SequenceTheorems, TLAPS

------------------------------------------------------------------------------
(***************************************************************************)
(* What the operations on a Redis list do to its elements.                 *)
(***************************************************************************)
LEMMA ElementsConcat ==
    ASSUME NEW S, NEW s \in Seq(S), NEW u \in Seq(S)
    PROVE  Elements(s \o u) = Elements(s) \cup Elements(u)
<1>1. /\ s \o u \in Seq(S)
      /\ Len(s \o u) = Len(s) + Len(u)
      /\ \A i \in 1 .. Len(s) + Len(u) :
            (s \o u)[i] = IF i <= Len(s) THEN s[i] ELSE u[i - Len(s)]
  BY ConcatProperties
<1>2. /\ Len(s) \in Nat /\ DOMAIN s = 1 .. Len(s)
      /\ Len(u) \in Nat /\ DOMAIN u = 1 .. Len(u)
      /\ DOMAIN (s \o u) = 1 .. Len(s) + Len(u)
  BY <1>1, LenProperties
<1>3. ASSUME NEW x \in Elements(s \o u) PROVE x \in Elements(s) \cup Elements(u)
  <2>1. PICK i \in 1 .. Len(s) + Len(u) : x = (s \o u)[i]
    BY <1>2 DEF Elements
  <2>2. CASE i <= Len(s)
    BY <2>1, <2>2, <1>1, <1>2 DEF Elements
  <2>3. CASE ~ (i <= Len(s))
    <3>1. i - Len(s) \in 1 .. Len(u) /\ x = u[i - Len(s)]
      BY <2>1, <2>3, <1>1, <1>2
    <3>2. QED
      BY <3>1, <1>2 DEF Elements
  <2>4. QED
    BY <2>2, <2>3
<1>4. ASSUME NEW x \in Elements(s) PROVE x \in Elements(s \o u)
  <2>1. PICK i \in 1 .. Len(s) : x = s[i]
    BY <1>2 DEF Elements
  <2>2. i \in 1 .. Len(s) + Len(u) /\ (s \o u)[i] = x
    BY <2>1, <1>1, <1>2
  <2>3. QED
    BY <2>2, <1>2 DEF Elements
<1>5. ASSUME NEW x \in Elements(u) PROVE x \in Elements(s \o u)
  <2>1. PICK i \in 1 .. Len(u) : x = u[i]
    BY <1>2 DEF Elements
  <2>2. /\ i + Len(s) \in 1 .. Len(s) + Len(u)
        /\ ~ (i + Len(s) <= Len(s)) /\ (i + Len(s)) - Len(s) = i
    BY <2>1, <1>2
  <2>3. (s \o u)[i + Len(s)] = x
    BY <2>1, <2>2, <1>1
  <2>4. QED
    BY <2>2, <2>3, <1>2 DEF Elements
<1>6. QED
  BY <1>3, <1>4, <1>5

LEMMA ElementsAppend ==
    ASSUME NEW S, NEW s \in Seq(S), NEW x \in S
    PROVE  /\ Append(s, x) \in Seq(S)
           /\ Elements(Append(s, x)) = Elements(s) \cup {x}
<1>1. Append(s, x) = s \o <<x>> /\ <<x>> \in Seq(S)
  OBVIOUS
<1>2. Elements(<<x>>) = {x}
  BY DEF Elements
<1>3. Elements(s \o <<x>>) = Elements(s) \cup Elements(<<x>>)
  BY <1>1, ElementsConcat
<1>4. Append(s, x) \in Seq(S)
  OBVIOUS
<1>5. QED
  BY <1>1, <1>2, <1>3, <1>4

LEMMA ElementsPopped ==
    ASSUME NEW S, NEW s \in Seq(S), s # <<>>
    PROVE  /\ Head(s) \in S /\ Tail(s) \in Seq(S)
           /\ Elements(s) = {Head(s)} \cup Elements(Tail(s))
<1> DEFINE h == <<Head(s)>>
           u == Tail(s)
<1>1. Head(s) \in S /\ u \in Seq(S)
  BY HeadTailProperties
<1>2. s = h \o u
  OBVIOUS
<1>3. h \in Seq(S) /\ Elements(h) = {Head(s)}
  BY <1>1 DEF Elements
<1>4. Elements(h \o u) = Elements(h) \cup Elements(u)
  <2> HIDE DEF h, u
  <2>1. QED
    BY <1>1, <1>3, ElementsConcat
<1>5. QED
  BY <1>1, <1>2, <1>3, <1>4

\* An arrangement of a set is a sequence of its elements.
LEMMA OrdersOfSubset ==
    ASSUME NEW S, NEW B \in SUBSET S, IsFiniteSet(B), NEW s \in Orders(B)
    PROVE  s \in Seq(S) /\ Elements(s) = B
<1>1. Cardinality(B) \in Nat
  BY FS_CardinalityType
<1>2. s \in [1..Cardinality(B) -> S] /\ Elements(s) = B
  BY DEF Orders
<1>3. QED
  BY <1>1, <1>2, SeqDef

------------------------------------------------------------------------------
(***************************************************************************)
(* The list                                                                *)
(***************************************************************************)

LEMMA FiniteTasks == IsFiniteSet(Task)
<1> DEFINE Pairs == Ids \X (0..MaxRetries)
           Keys  == Chains \X Pairs
           f == [p \in Keys |-> [chain |-> p[1], id |-> p[2][1], attempts |-> p[2][2]]]
<1>1. IsFiniteSet(0..MaxRetries)
  <2>1. \A a, b \in Int : IsFiniteSet(a .. b)
    BY FS_Interval
  <2>2. 0 \in Int /\ MaxRetries \in Int
    BY BoundsAssumption
  <2>3. QED
    BY <2>1, <2>2
<1>2. IsFiniteSet(Pairs)
  BY <1>1, IdsAssumption, FS_Product
<1>3. IsFiniteSet(Chains)
  <2>1. IsFiniteSet({"reconcile"})
    BY FS_Singleton
  <2>2. IsFiniteSet({"reconcile"} \cup {"usage"})
    BY <2>1, FS_AddElement
  <2>3. Chains = {"reconcile"} \cup {"usage"}
    BY DEF Chains
  <2>4. QED
    BY <2>2, <2>3
<1>4. IsFiniteSet(Keys)
  <2> HIDE DEF Pairs
  <2>1. QED
    BY <1>2, <1>3, FS_Product
<1>5. f \in [Keys -> Task]
  BY DEF Task
<1>6. ASSUME NEW t \in Task PROVE \E p \in Keys : f[p] = t
  <2>1. <<t.chain, <<t.id, t.attempts>>>> \in Keys
    BY DEF Task
  <2>2. f[<<t.chain, <<t.id, t.attempts>>>>] = t
    BY <2>1 DEF Task
  <2>3. QED
    BY <2>1, <2>2
<1>7. f \in Surjection(Keys, Task)
  BY <1>5, <1>6 DEF Surjection
<1>8. QED
  <2> HIDE DEF Keys, f
  <2>1. QED
    BY <1>4, <1>7, FS_Surjection

LEMMA FirstIsTask ==
    ASSUME NEW c \in Chains, NEW i \in Ids
    PROVE  /\ First(c, i) \in Task
           /\ First(c, i).chain = c /\ First(c, i).id = i /\ First(c, i).attempts = 0
  BY BoundsAssumption DEF First, Task

\* A task with attempts 0 is the first one of its job and id.
LEMMA TaskIsFirst ==
    ASSUME NEW t \in Task, t.attempts = 0
    PROVE  t = First(t.chain, t.id)
  BY DEF First, Task

LEMMA SeedPushFacts ==
    ASSUME TypeOK, NEW c \in Chains, SeedPush(c)
    PROVE  /\ seeding[c] \in Ids
           /\ ready' \in Seq(Task)
           /\ Elements(ready') = Elements(ready) \cup {First(c, seeding[c])}
<1>1. seeding[c] \in Ids /\ First(c, seeding[c]) \in Task
  BY FirstIsTask DEF TypeOK, SeedPush
<1>2. QED
  BY <1>1, ElementsAppend DEF TypeOK, SeedPush

\* The drain and the pop: what was in the list or due is in the list, but for
\* the task that the worker takes.
LEMMA PopFacts ==
    ASSUME TypeOK, PopTask
    PROVE  /\ task' \in Task /\ ready' \in Seq(Task) /\ due' = {}
           /\ Elements(ready) \cup due = {task'} \cup Elements(ready')
           /\ at' = Route[task'.chain].pop
<1>1. IsFiniteSet(due) /\ due \in SUBSET Task
  BY FiniteTasks, FS_Subset DEF TypeOK
<1>2. PICK s \in Orders(due) : /\ ready \o s # <<>>
                               /\ task' = Head(ready \o s)
                               /\ ready' = Tail(ready \o s)
                               /\ at' = Route[Head(ready \o s).chain].pop
  BY DEF PopTask
<1>3. s \in Seq(Task) /\ Elements(s) = due
  BY <1>1, OrdersOfSubset
<1>4. ready \o s \in Seq(Task) /\ Elements(ready \o s) = Elements(ready) \cup due
  BY <1>3, ElementsConcat DEF TypeOK
<1>5. /\ Head(ready \o s) \in Task /\ Tail(ready \o s) \in Seq(Task)
      /\ Elements(ready \o s) = {Head(ready \o s)} \cup Elements(Tail(ready \o s))
  BY <1>2, <1>4, ElementsPopped
<1>6. QED
  BY <1>2, <1>4, <1>5 DEF PopTask

\* The purge keeps, of the list, what it is to keep.
LEMMA PurgeFacts ==
    ASSUME TypeOK, PurgeList
    PROVE  /\ ready' \in Seq(Task)
           /\ Elements(ready') = {t \in Elements(ready) : Kept(t)}
<1> DEFINE kept == {i \in DOMAIN ready : Kept(ready[i])}
<1>1. Len(ready) \in Nat /\ DOMAIN ready = 1..Len(ready)
      /\ \A i \in 1..Len(ready) : ready[i] \in Task
  BY LenProperties, ElementOfSeq DEF TypeOK
<1>2. IsFiniteSet(kept)
  <2>1. \A a, b \in Int : IsFiniteSet(a .. b)
    BY FS_Interval
  <2>2. IsFiniteSet(1..Len(ready))
    BY <2>1, <1>1
  <2>3. kept \in SUBSET (1..Len(ready))
    BY <1>1
  <2>4. QED
    BY <2>2, <2>3, FS_Subset
<1>3. PICK f \in Orders(kept) : ready' = [i \in DOMAIN f |-> ready[f[i]]]
  BY DEF PurgeList
<1>4. f \in Seq(kept) /\ Elements(f) = kept
  <2> HIDE DEF kept
  <2>1. QED
    BY <1>2, OrdersOfSubset
<1>5. Len(f) \in Nat /\ DOMAIN f = 1..Len(f) /\ \A i \in 1..Len(f) : f[i] \in kept
  <2> HIDE DEF kept
  <2>1. QED
    BY <1>4, LenProperties, ElementOfSeq
<1>6. ready' \in [1..Len(f) -> Task]
  BY <1>1, <1>3, <1>5
<1>7. ready' \in Seq(Task)
  BY <1>5, <1>6, SeqDef
<1>8. ASSUME NEW t \in Elements(ready') PROVE t \in Elements(ready) /\ Kept(t)
  BY <1>3, <1>5 DEF Elements
<1>9. ASSUME NEW t \in Elements(ready), Kept(t) PROVE t \in Elements(ready')
  <2>1. PICK i \in DOMAIN ready : t = ready[i]
    BY DEF Elements
  <2>2. i \in kept
    BY <2>1, <1>9
  <2>3. PICK j \in DOMAIN f : f[j] = i
    BY <2>2, <1>4 DEF Elements
  <2>4. QED
    BY <2>1, <2>3, <1>3 DEF Elements
<1>10. QED
  BY <1>7, <1>8, <1>9

------------------------------------------------------------------------------
(***************************************************************************)
(* Types                                                                   *)
(***************************************************************************)
LEMMA TypeInit == Init => TypeOK
  BY BoundsAssumption DEF Init, TypeOK, Chains, Elements

LEMMA TypeStep == TypeOK /\ [Next]_vars => TypeOK'
<1> SUFFICES ASSUME TypeOK, [Next]_vars PROVE TypeOK'
  OBVIOUS
<1> USE BoundsAssumption
<1>0. IF at = "idle" THEN task = None ELSE task \in Task
  BY DEF TypeOK
<1>1. ASSUME NEW t \in later, BecomeDue(t) PROVE TypeOK'
  BY <1>1 DEF TypeOK, BecomeDue, worker, bounds
<1>2. ASSUME NEW c \in Chains, Expire(c) PROVE TypeOK'
  BY <1>2 DEF TypeOK, Expire, worker, bounds
<1>3. ASSUME NEW c \in Chains, SeedTakesKey(c) PROVE TypeOK'
  BY <1>3 DEF TypeOK, SeedTakesKey, worker, bounds
<1>4. ASSUME NEW c \in Chains, SeedWithoutKey(c) PROVE TypeOK'
  BY <1>4 DEF TypeOK, SeedWithoutKey, worker, redis
<1>5. ASSUME NEW c \in Chains, SeedPush(c) PROVE TypeOK'
  <2>1. ready' \in Seq(Task)
    BY <1>5, SeedPushFacts
  <2>2. QED
    BY <1>5, <2>1 DEF TypeOK, SeedPush, worker, bounds
<1>6. ASSUME NEW c \in Chains, SeedLost(c) PROVE TypeOK'
  BY <1>6 DEF TypeOK, SeedLost, worker, redis
<1>7. CASE PopTask
  <2>1. task' \in Task /\ ready' \in Seq(Task) /\ due' = {} /\ at' = Route[task'.chain].pop
    BY <1>7, PopFacts
  <2>2. at' \in {"look", "check"}
    BY <2>1 DEF Task, Chains, Route
  <2>3. QED
    BY <1>7, <2>1, <2>2 DEF TypeOK, PopTask, bounds, Steps
<1>8. CASE Check
  BY <1>8 DEF TypeOK, Check, Goto, redis, bounds, Steps
<1>9. CASE PurgeList
  <2>1. ready' \in Seq(Task)
    BY <1>9, PurgeFacts
  <2>2. QED
    BY <1>9, <2>1 DEF TypeOK, PurgeList, Goto, bounds, Steps
<1>10. CASE PurgeScheduled
  BY <1>10 DEF TypeOK, PurgeScheduled, Finish, bounds
<1>11. CASE Work
  <2>1. Route[task.chain].work \in {"renew", "look"}
    BY <1>0, <1>11 DEF Work, Task, Chains, Route
  <2>2. QED
    BY <1>11, <2>1 DEF TypeOK, Work, Goto, redis, bounds, Steps
<1> DEFINE Cleared == Route[task.chain].clear
<1>12. at # "idle" => Cleared \in {"work", "renew"} /\ task.chain \in Chains
  BY <1>0 DEF Task, Chains, Route
<1> HIDE DEF Cleared
<1>13. CASE Look
  BY <1>13, <1>12 DEF TypeOK, Look, Goto, redis, bounds, Steps, Cleared
<1>14. CASE Delete
  BY <1>14, <1>12 DEF TypeOK, Delete, Goto, bounds, Steps, Cleared
<1>15. CASE Renew
  <2>1. CASE key[task.chain] = None
    BY <1>15, <2>1, <1>12 DEF TypeOK, Renew, bounds, Steps, Finish
  <2>2. CASE key[task.chain] # None
    BY <1>15, <2>2 DEF TypeOK, Renew, bounds, Finish
  <2>3. QED
    BY <2>1, <2>2
<1>16. CASE Push
  <2>1. First(task.chain, next) \in Task
    BY <1>16, <1>12, FirstIsTask DEF Push, TypeOK
  <2>2. QED
    BY <1>16, <2>1 DEF TypeOK, Push, Finish, bounds
<1>17. CASE RedisFails
  <2>1. \/ at = "check" /\ Goto("work")
        \/ at \in {"purge", "sweep", "push"} /\ Finish
        \/ at \in {"look", "delete"} /\ Goto(Cleared)
        \/ /\ at = "renew" /\ at' = "push"
           /\ \E i \in Ids : New(task.chain, i) /\ next' = i
           /\ UNCHANGED task
    BY <1>17 DEF RedisFails, Cleared
  <2>2. /\ IF at' = "idle" THEN task' = None ELSE task' \in Task
        /\ IF at' = "push" THEN next' \in Ids ELSE next' = None
        /\ at' \in Steps \cup {"idle"}
    BY <2>1, <1>0, <1>12 DEF Goto, Finish, TypeOK, Steps
  <2>3. QED
    BY <1>17, <2>2 DEF RedisFails, redis, TypeOK
<1>18. CASE WorkRaises
  <2>0. task \in Task /\ task.attempts \in Nat
    BY <1>18, <1>0 DEF WorkRaises, Task
  <2>1. later' \subseteq Task
    <3>1. CASE task.attempts + 1 > MaxRetries
      BY <1>18, <3>1 DEF WorkRaises, TypeOK
    <3>2. CASE ~(task.attempts + 1 > MaxRetries)
      <4>1. later' = later \cup {[task EXCEPT !.attempts = @ + 1]}
        BY <1>18, <3>2 DEF WorkRaises
      <4>2. task.attempts + 1 \in 0..MaxRetries
        BY <2>0, <3>2, BoundsAssumption
      <4>3. [task EXCEPT !.attempts = @ + 1] \in Task
        BY <2>0, <4>2 DEF Task
      <4>4. QED
        BY <4>1, <4>3 DEF TypeOK
    <3>3. QED
      BY <3>1, <3>2
  <2>2. QED
    BY <1>18, <2>1 DEF WorkRaises, Finish, TypeOK
<1>19. CASE Crash
  BY <1>19 DEF TypeOK, Crash, Finish, redis
<1>20. CASE UNCHANGED vars
  BY <1>20 DEF TypeOK, vars, redis, worker, bounds
<1>21. QED
  BY <1>1, <1>2, <1>3, <1>4, <1>5, <1>6, <1>7, <1>8, <1>9, <1>10, <1>11, <1>13, <1>14,
     <1>15, <1>16, <1>17, <1>18, <1>19, <1>20
  DEF Next, WorkerStep

\* The state of the queue and of the worker keeps its shape, whatever fails.
THEOREM TypeCorrect == Spec => []TypeOK
<1>1. Init => TypeOK
  BY TypeInit
<1>2. TypeOK /\ [Next]_vars => TypeOK'
  BY TypeStep
<1>3. QED
  BY <1>1, <1>2, PTL DEF Spec

------------------------------------------------------------------------------
(***************************************************************************)
(* The invariant of OneNextRun.  A next run that the key names is alone,   *)
(* since the key cannot expire before its delay is over; that nobody       *)
(* deletes it either rests on ids being used once.                         *)
(***************************************************************************)

\* The ids of the planned tasks l are not those of the called ones w, of
\* another planned one, of the running one or of one the API is about to push.
Alone(l, w, run, sd) ==
    \A t \in l : t.attempts = 0 =>
        /\ \A u \in w : u.chain = t.chain => u.id # t.id
        /\ \A u \in l : u.chain = t.chain /\ u.id = t.id => u = t
        /\ run # None /\ run.chain = t.chain => run.id # t.id
        /\ sd[t.chain] # t.id

Called == Elements(ready) \cup due

PlannedAlone == Alone(later, Called, task, seeding)

NextIsNew ==
    at = "push" =>
        /\ \A u \in later \cup Called : u.chain = task.chain => u.id # next
        /\ seeding[task.chain] # next

DeleteSpares ==
    at = "delete" =>
        \A t \in later : t.chain = task.chain /\ t.attempts = 0 => t.id # key[task.chain]

IdsOnce == PlannedAlone /\ NextIsNew /\ DeleteSpares

\* What a new id is not.
LEMMA NewFacts ==
    ASSUME TypeOK, NEW c \in Chains, NEW i \in Ids, New(c, i)
    PROVE  /\ \A u \in later \cup Called : u.chain = c => u.id # i
           /\ seeding[c] # i /\ key[c] # i
           /\ at # "idle" /\ task.chain = c => task.id # i
           /\ at = "push" /\ task.chain = c => next # i
<1>1. i \notin LiveIds(c) /\ i # key[c] /\ i # None
  BY NoneAssumption DEF New
<1>2. \A u \in later \cup Called : u.chain = c => u.id \in LiveIds(c)
  BY DEF LiveIds, Waiting, Of, Called
<1>3. seeding[c] # None => seeding[c] \in LiveIds(c)
  BY DEF LiveIds
<1>4. at # "idle" /\ task.chain = c => task.id \in LiveIds(c)
  <2>1. at # "idle" => task.id \in Ids /\ task.id # None
    BY NoneAssumption DEF TypeOK, Task
  <2>2. QED
    BY <2>1 DEF LiveIds, Running
<1>5. at = "push" /\ task.chain = c => next \in LiveIds(c)
  <2>1. at = "push" => next \in Ids /\ next # None
    BY NoneAssumption DEF TypeOK
  <2>2. QED
    BY <2>1 DEF LiveIds, Running
<1>6. QED
  BY <1>1, <1>2, <1>3, <1>4, <1>5

\* With fewer tasks and the same or no running one, ids are still used once.
LEMMA AloneShrinks ==
    ASSUME NEW l, NEW w, NEW run, NEW sd, Alone(l, w, run, sd),
           NEW l2, l2 \subseteq l, NEW w2, w2 \subseteq w,
           NEW run2, run2 \in {run, None}
    PROVE  Alone(l2, w2, run2, sd)
  BY DEF Alone

LEMMA IdsOnceInit == Init => IdsOnce
  BY DEF Init, IdsOnce, PlannedAlone, NextIsNew, DeleteSpares, Alone, Called, Elements

LEMMA SeedKeepsIdsOnce ==
    ASSUME TypeOK, IdsOnce, NEW c \in Chains, NEW i \in Ids, New(c, i),
           seeding' = [seeding EXCEPT ![c] = i],
           key' \in {key, [key EXCEPT ![c] = i]},
           UNCHANGED <<ready, later, due, worker>>
    PROVE  IdsOnce'
<1>1. /\ \A u \in later \cup Called : u.chain = c => u.id # i
      /\ at = "push" /\ task.chain = c => next # i
  BY NewFacts
<1>2. later \subseteq Task /\ at # "idle" => task.chain \in Chains
  BY DEF TypeOK, Task
<1>3. Alone(later, Called, task, seeding')
  BY <1>1 DEF IdsOnce, PlannedAlone, Alone, TypeOK, Task
<1>4. PlannedAlone'
  BY <1>3 DEF PlannedAlone, Called, worker
<1>5. NextIsNew'
  <2>1. at = "push" => task.chain \in Chains
    BY DEF TypeOK, Task
  <2>2. QED
    BY <1>1, <2>1 DEF IdsOnce, NextIsNew, Called, worker, TypeOK
<1>6. DeleteSpares'
  <2>1. at = "delete" => task.chain \in Chains
    BY DEF TypeOK, Task
  <2>2. QED
    BY <1>1, <2>1 DEF IdsOnce, DeleteSpares, Called, worker, TypeOK
<1>7. QED
  BY <1>4, <1>5, <1>6 DEF IdsOnce

\* The end of a run, and steps that only change the handler's place.
LEMMA FinishKeepsIdsOnce ==
    ASSUME TypeOK, IdsOnce, Finish, later' \subseteq later, Called' \subseteq Called,
           UNCHANGED seeding
    PROVE  IdsOnce'
<1>1. Alone(later', Called', task', seeding)
  BY AloneShrinks DEF IdsOnce, PlannedAlone, Finish
<1>2. QED
  BY <1>1 DEF IdsOnce, PlannedAlone, NextIsNew, DeleteSpares, Finish

LEMMA GotoKeepsIdsOnce ==
    ASSUME TypeOK, IdsOnce, NEW step, Goto(step), step \notin {"push", "delete"},
           later' \subseteq later, Called' \subseteq Called, UNCHANGED seeding
    PROVE  IdsOnce'
<1>1. Alone(later', Called', task', seeding)
  BY AloneShrinks DEF IdsOnce, PlannedAlone, Goto
<1>2. QED
  BY <1>1 DEF IdsOnce, PlannedAlone, NextIsNew, DeleteSpares, Goto

LEMMA IdsOnceStep == TypeOK /\ IdsOnce /\ [Next]_vars => IdsOnce'
<1> SUFFICES ASSUME TypeOK, IdsOnce, [Next]_vars PROVE IdsOnce'
  OBVIOUS
<1>0. /\ at # "idle" => task \in Task /\ task # None /\ task.chain \in Chains
      /\ later \subseteq Task
  <2>1. None \notin Task
    BY NoneAssumption DEF Task, Chains
  <2>2. QED
    BY <2>1 DEF TypeOK, Task
<1>1. ASSUME NEW t \in later, BecomeDue(t) PROVE IdsOnce'
  <2>1. later' = later \ {t} /\ Called' = Called \cup {t}
    BY <1>1 DEF BecomeDue, Called
  <2>2. Alone(later', Called', task, seeding)
    BY <2>1 DEF IdsOnce, PlannedAlone, Alone
  <2>3. QED
    BY <1>1, <2>1, <2>2
    DEF IdsOnce, PlannedAlone, NextIsNew, DeleteSpares, BecomeDue, worker
<1>2. ASSUME NEW c \in Chains, Expire(c) PROVE IdsOnce'
  <2>1. \A t \in later : t.id # None
    BY <1>0, NoneAssumption DEF Task
  <2>2. QED
    BY <1>2, <2>1, <1>0
    DEF IdsOnce, PlannedAlone, NextIsNew, DeleteSpares, Called, Expire, worker, TypeOK
<1>3. ASSUME NEW c \in Chains, SeedTakesKey(c) PROVE IdsOnce'
  BY <1>3, SeedKeepsIdsOnce DEF SeedTakesKey
<1>4. ASSUME NEW c \in Chains, SeedWithoutKey(c) PROVE IdsOnce'
  BY <1>4, SeedKeepsIdsOnce DEF SeedWithoutKey, redis
<1>5. ASSUME NEW c \in Chains, SeedPush(c) PROVE IdsOnce'
  <2> DEFINE new == First(c, seeding[c])
  <2>1. /\ Called' = Called \cup {new} /\ later' = later
        /\ seeding' = [seeding EXCEPT ![c] = None]
        /\ UNCHANGED <<key, task, at, next>>
    BY <1>5, SeedPushFacts DEF SeedPush, Called, worker
  <2>2. new.chain = c /\ new.id = seeding[c] /\ seeding[c] \in Ids
    BY <1>5, SeedPushFacts DEF First
  <2> HIDE DEF new
  <2>3. \A t \in later : t.id # None
    BY <1>0, NoneAssumption DEF Task
  <2>4. Alone(later, Called', task, seeding')
    BY <2>1, <2>2, <2>3, <1>0 DEF IdsOnce, PlannedAlone, Alone, TypeOK
  <2>5. NextIsNew'
    <3>1. at = "push" => next # None
      BY NoneAssumption DEF TypeOK
    <3>2. QED
      BY <2>1, <2>2, <3>1, <1>0 DEF IdsOnce, NextIsNew, TypeOK
  <2>6. QED
    BY <2>1, <2>4, <2>5 DEF IdsOnce, PlannedAlone, DeleteSpares
<1>6. ASSUME NEW c \in Chains, SeedLost(c) PROVE IdsOnce'
  <2>1. /\ seeding' = [seeding EXCEPT ![c] = None]
        /\ UNCHANGED <<key, ready, later, due, task, at, next>>
    BY <1>6 DEF SeedLost, redis, worker
  <2>2. \A t \in later : t.id # None
    BY <1>0, NoneAssumption DEF Task
  <2>3. Alone(later, Called, task, seeding')
    BY <2>1, <2>2, <1>0 DEF IdsOnce, PlannedAlone, Alone, TypeOK
  <2>4. NextIsNew'
    <3>1. at = "push" => next # None
      BY NoneAssumption DEF TypeOK
    <3>2. QED
      BY <2>1, <3>1, <1>0 DEF IdsOnce, NextIsNew, TypeOK, Called
  <2>5. QED
    BY <2>1, <2>3, <2>4 DEF IdsOnce, PlannedAlone, DeleteSpares, Called
<1>7. CASE PopTask
  <2>1. /\ task' \in Task /\ Called = {task'} \cup Called'
        /\ at' = Route[task'.chain].pop
    BY <1>7, PopFacts DEF Called
  <2>2. at' \in {"look", "check"}
    BY <2>1 DEF Task, Chains, Route
  <2>3. Alone(later, Called', task', seeding)
    BY <2>1 DEF IdsOnce, PlannedAlone, Alone
  <2>4. QED
    BY <1>7, <2>2, <2>3 DEF IdsOnce, PlannedAlone, NextIsNew, DeleteSpares, PopTask
<1>8. CASE Check
  <2>1. \E step \in {"work", "purge"} : Goto(step)
    BY <1>8 DEF Check
  <2>2. QED
    BY <1>8, <2>1, GotoKeepsIdsOnce DEF Check, redis, Called
<1>9. CASE PurgeList
  <2>1. Called' \subseteq Called
    BY <1>9, PurgeFacts DEF Called, PurgeList
  <2>2. QED
    BY <1>9, <2>1, GotoKeepsIdsOnce DEF PurgeList
<1>10. CASE PurgeScheduled
  <2>1. later' \subseteq later /\ Called' \subseteq Called
    BY <1>10 DEF Called, PurgeScheduled
  <2>2. QED
    BY <1>10, <2>1, FinishKeepsIdsOnce DEF PurgeScheduled
<1>11. CASE Work
  <2>1. Route[task.chain].work \in {"renew", "look"}
    BY <1>0, <1>11 DEF Work, Chains, Route
  <2>2. QED
    BY <1>11, <2>1, GotoKeepsIdsOnce DEF Work, redis, Called
<1>12. at # "idle" => Route[task.chain].clear \in {"work", "renew"}
  BY <1>0 DEF Chains, Route
<1>13. CASE Look
  <2>1. CASE key[task.chain] = task.id
    <3>1. at' = "delete" /\ UNCHANGED <<task, next, key, ready, later, due, seeding>>
      BY <1>13, <2>1 DEF Look, Goto, redis
    <3>2. \A t \in later : t.chain = task.chain /\ t.attempts = 0 => t.id # task.id
      BY <1>0, <1>13 DEF IdsOnce, PlannedAlone, Alone, Look
    <3>3. QED
      BY <3>1, <3>2, <2>1 DEF IdsOnce, PlannedAlone, NextIsNew, DeleteSpares, Called
  <2>2. CASE key[task.chain] # task.id
    <3>1. Goto(Route[task.chain].clear) /\ at # "idle"
      BY <1>13, <2>2 DEF Look
    <3>2. QED
      BY <1>13, <1>12, <3>1, GotoKeepsIdsOnce DEF Look, redis, Called
  <2>3. QED
    BY <2>1, <2>2
<1>14. CASE Delete
  BY <1>14, <1>12, GotoKeepsIdsOnce DEF Delete, Called
<1>15. ASSUME NEW i \in Ids, New(task.chain, i), at = "renew", at' = "push", next' = i,
             UNCHANGED <<task, ready, later, due, seeding>>
       PROVE IdsOnce'
  <2>1. /\ \A u \in later \cup Called : u.chain = task.chain => u.id # i
        /\ seeding[task.chain] # i
    BY <1>15, <1>0, NewFacts
  <2>2. QED
    BY <1>15, <2>1 DEF IdsOnce, PlannedAlone, NextIsNew, DeleteSpares, Called
<1>16. CASE Renew
  <2>1. CASE key[task.chain] = None
    BY <1>15, <1>16, <2>1 DEF Renew
  <2>2. CASE key[task.chain] # None
    BY <1>16, <2>2, FinishKeepsIdsOnce DEF Renew, Called
  <2>3. QED
    BY <2>1, <2>2
<1>17. CASE Push
  <2> DEFINE new == First(task.chain, next)
  <2>1. /\ later' = later \cup {new} /\ task' = None /\ at' = "idle"
        /\ UNCHANGED <<ready, due, seeding>>
    BY <1>17 DEF Push, Finish
  <2>2. new.chain = task.chain /\ new.id = next
    BY DEF First
  <2>3. /\ \A u \in later \cup Called : u.chain = task.chain => u.id # next
        /\ seeding[task.chain] # next
    BY <1>17 DEF IdsOnce, NextIsNew, Push
  <2> HIDE DEF new
  <2>4. Alone(later', Called, None, seeding)
    BY <2>1, <2>2, <2>3 DEF IdsOnce, PlannedAlone, Alone
  <2>5. QED
    BY <2>1, <2>4 DEF IdsOnce, PlannedAlone, NextIsNew, DeleteSpares, Called
<1>18. CASE RedisFails
  <2>1. UNCHANGED <<key, ready, later, due, seeding>>
    BY <1>18 DEF RedisFails, redis
  <2>2. CASE Finish
    BY <2>1, <2>2, FinishKeepsIdsOnce DEF Called
  <2>3. CASE at = "check" /\ Goto("work")
    BY <2>1, <2>3, GotoKeepsIdsOnce DEF Called
  <2>4. CASE at \in {"look", "delete"} /\ Goto(Route[task.chain].clear)
    BY <2>1, <2>4, <1>12, GotoKeepsIdsOnce DEF Called
  <2>5. CASE /\ at = "renew" /\ at' = "push"
             /\ \E i \in Ids : New(task.chain, i) /\ next' = i
             /\ UNCHANGED task
    BY <2>1, <2>5, <1>15
  <2>6. QED
    BY <1>18, <2>2, <2>3, <2>4, <2>5 DEF RedisFails
<1>19. CASE WorkRaises
  <2> DEFINE again == [task EXCEPT !.attempts = @ + 1]
  <2>1. /\ later' \in {later, later \cup {again}} /\ task' = None /\ at' = "idle"
        /\ UNCHANGED <<ready, due, seeding>> /\ at = "work"
    BY <1>19 DEF WorkRaises, Finish
  <2>2. again.chain = task.chain /\ again.id = task.id /\ again.attempts # 0
    BY <1>0, <2>1, BoundsAssumption DEF Task
  <2> HIDE DEF again
  <2>3. Alone(later', Called, None, seeding)
    BY <1>0, <2>1, <2>2 DEF IdsOnce, PlannedAlone, Alone
  <2>4. QED
    BY <2>1, <2>3 DEF IdsOnce, PlannedAlone, NextIsNew, DeleteSpares, Called
<1>20. CASE Crash
  BY <1>20, FinishKeepsIdsOnce DEF Crash, redis, Called
<1>21. CASE UNCHANGED vars
  BY <1>21 DEF vars, redis, worker, IdsOnce, PlannedAlone, NextIsNew, DeleteSpares, Called
<1>22. QED
  BY <1>1, <1>2, <1>3, <1>4, <1>5, <1>6, <1>7, <1>8, <1>9, <1>10, <1>11, <1>13, <1>14,
     <1>16, <1>17, <1>18, <1>19, <1>20, <1>21
  DEF Next, WorkerStep

------------------------------------------------------------------------------
(***************************************************************************)
(* One next run.  A planned run that the key does not name was enqueued    *)
(* while Redis failed.                                                     *)
(***************************************************************************)
Unkeyed(l, c, k) == {t \in l : t.chain = c /\ t.attempts = 0 /\ t.id # k}

\* Whether the run that is about to be pushed has no key.
Coming(step, run, n, c, k) == IF step = "push" /\ run.chain = c /\ n # k THEN 1 ELSE 0

Counted(l, c, k, step, run, n, outs) ==
    Cardinality(Unkeyed(l, c, k)) + Coming(step, run, n, c, k) <= outs

UnkeyedAreOutages ==
    \A c \in Chains : Counted(later, c, key[c], at, task, next, outages)

LEMMA UnkeyedIsFinite ==
    ASSUME NEW l \in SUBSET Task, NEW c, NEW k
    PROVE  IsFiniteSet(Unkeyed(l, c, k)) /\ Cardinality(Unkeyed(l, c, k)) \in Nat
  BY FiniteTasks, FS_Subset, FS_CardinalityType DEF Unkeyed

\* Not more runs without a key, and not fewer outages.
LEMMA CountKept ==
    ASSUME NEW l \in SUBSET Task, NEW c, NEW k, NEW step, NEW run, NEW n, NEW outs \in Nat,
           Counted(l, c, k, step, run, n, outs),
           NEW l2, NEW k2, NEW step2, NEW run2, NEW n2, NEW outs2 \in Nat,
           Unkeyed(l2, c, k2) \subseteq Unkeyed(l, c, k),
           Coming(step2, run2, n2, c, k2) + outs <= Coming(step, run, n, c, k) + outs2
    PROVE  Counted(l2, c, k2, step2, run2, n2, outs2)
<1>1. Cardinality(Unkeyed(l2, c, k2)) \in Nat
      /\ Cardinality(Unkeyed(l, c, k)) \in Nat
      /\ Cardinality(Unkeyed(l2, c, k2)) <= Cardinality(Unkeyed(l, c, k))
  BY UnkeyedIsFinite, FS_Subset, FS_CardinalityType
<1>2. Coming(step2, run2, n2, c, k2) \in {0, 1} /\ Coming(step, run, n, c, k) \in {0, 1}
  BY DEF Coming
<1>3. QED
  BY <1>1, <1>2 DEF Counted

LEMMA CountInit == Init => UnkeyedAreOutages
<1> SUFFICES ASSUME Init, NEW c \in Chains
             PROVE  Counted(later, c, key[c], at, task, next, outages)
  BY DEF UnkeyedAreOutages
<1>1. Unkeyed(later, c, key[c]) = {} /\ Coming(at, task, next, c, key[c]) = 0
  BY DEF Init, Unkeyed, Coming
<1>2. Cardinality(Unkeyed(later, c, key[c])) = 0 /\ outages = 0
  BY <1>1, FS_EmptySet DEF Init
<1>3. QED
  BY <1>1, <1>2 DEF Counted

\* A step that plans nothing and leaves the keys, or frees one whose task is
\* not planned.
LEMMA CountStays ==
    ASSUME TypeOK, TypeOK', UnkeyedAreOutages,
           \A t \in later' : t.attempts = 0 => t \in later,
           \A c \in Chains :
               key'[c] # key[c] =>
                   \A t \in later : t.chain = c /\ t.attempts = 0 => t.id # key[c],
           at' # "push" \/ (at = "push" /\ UNCHANGED <<task, next>>
                            /\ \A c \in Chains : key'[c] # key[c] /\ task.chain = c
                                                 => next # key[c]),
           outages' >= outages
    PROVE  UnkeyedAreOutages'
<1> SUFFICES ASSUME NEW c \in Chains
             PROVE  Counted(later', c, key'[c], at', task', next', outages')
  BY DEF UnkeyedAreOutages
<1>1. /\ later \in SUBSET Task /\ outages \in Nat /\ outages' \in Nat
      /\ Counted(later, c, key[c], at, task, next, outages)
  BY DEF TypeOK, UnkeyedAreOutages
<1>2. Unkeyed(later', c, key'[c]) \subseteq Unkeyed(later, c, key[c])
  BY DEF Unkeyed
<1>3. Coming(at', task', next', c, key'[c]) <= Coming(at, task, next, c, key[c])
      /\ Coming(at', task', next', c, key'[c]) \in {0, 1}
      /\ Coming(at, task, next, c, key[c]) \in {0, 1}
  BY DEF Coming
<1>4. Coming(at', task', next', c, key'[c]) + outages
         <= Coming(at, task, next, c, key[c]) + outages'
  BY <1>1, <1>3
<1>5. QED
  BY <1>1, <1>2, <1>4, CountKept

LEMMA CountStep ==
    TypeOK /\ IdsOnce /\ UnkeyedAreOutages /\ [Next]_vars => UnkeyedAreOutages'
<1> SUFFICES ASSUME TypeOK, IdsOnce, UnkeyedAreOutages, [Next]_vars
             PROVE  UnkeyedAreOutages'
  OBVIOUS
<1>0. /\ TypeOK' /\ outages \in Nat
      /\ at # "idle" => task \in Task /\ task.chain \in Chains
      /\ \A t \in later : t.id \in Ids /\ t.id # None
  BY TypeStep, NoneAssumption DEF TypeOK, Task
<1>1. ASSUME NEW t \in later, BecomeDue(t) PROVE UnkeyedAreOutages'
  BY <1>0, <1>1, CountStays DEF BecomeDue, worker, bounds
<1>2. ASSUME NEW c \in Chains, Expire(c) PROVE UnkeyedAreOutages'
  <2>1. \A t \in later : t.chain = c /\ t.attempts = 0 => t.id # key[c]
    BY <1>2, TaskIsFirst DEF Expire, TypeOK
  <2>2. \A d \in Chains : key'[d] # key[d] => d = c
    BY <1>2 DEF Expire, TypeOK
  <2>3. ~ (at = "push" /\ task.chain = c /\ next = key[c])
        /\ UNCHANGED <<later, at, task, next, outages>>
    BY <1>2 DEF Expire, worker, bounds
  <2>4. QED
    BY <1>0, <2>1, <2>2, <2>3, CountStays
<1>3. ASSUME NEW c \in Chains, SeedTakesKey(c) PROVE UnkeyedAreOutages'
  <2>1. /\ key[c] = None /\ UNCHANGED <<later, at, task, next, outages>>
        /\ \A d \in Chains : key'[d] # key[d] => d = c
    BY <1>3 DEF SeedTakesKey, TypeOK, worker, bounds
  <2>2. at = "push" => next # None
    BY NoneAssumption DEF TypeOK
  <2>3. QED
    BY <1>0, <2>1, <2>2, CountStays
<1>4. ASSUME NEW c \in Chains, SeedWithoutKey(c) PROVE UnkeyedAreOutages'
  BY <1>0, <1>4, CountStays DEF SeedWithoutKey, redis, worker
<1>5. ASSUME NEW c \in Chains, SeedPush(c) \/ SeedLost(c) PROVE UnkeyedAreOutages'
  <2>1. UNCHANGED <<key, later, at, task, next>> /\ outages' >= outages
    BY <1>0, <1>5 DEF SeedPush, SeedLost, redis, worker, bounds
  <2>2. QED
    BY <1>0, <2>1, CountStays
<1>6. CASE PopTask
  <2>1. at' # "push"
    BY <1>6, PopFacts DEF Task, Chains, Route
  <2>2. QED
    BY <1>0, <1>6, <2>1, CountStays DEF PopTask, bounds
<1>7. ASSUME Finish \/ \E step \in Steps \ {"push"} : Goto(step),
             \A t \in later' : t.attempts = 0 => t \in later,
             key' = key, outages' >= outages
      PROVE  UnkeyedAreOutages'
  BY <1>0, <1>7, CountStays DEF Finish, Goto
<1>8. at # "idle" => /\ Route[task.chain].work \in Steps \ {"push"}
                     /\ Route[task.chain].clear \in Steps \ {"push"}
  BY <1>0 DEF Chains, Route, Steps
<1>9. CASE Check \/ PurgeList \/ PurgeScheduled \/ Work
  <2>1. Finish \/ \E step \in Steps \ {"push"} : Goto(step)
    BY <1>8, <1>9 DEF Check, PurgeList, PurgeScheduled, Work, Steps
  <2>2. later' \subseteq later /\ key' = key /\ outages' = outages
    BY <1>9 DEF Check, PurgeList, PurgeScheduled, Work, redis, bounds
  <2>3. QED
    BY <1>0, <1>7, <2>1, <2>2
<1>10. CASE Look
  <2>1. \E step \in Steps \ {"push"} : Goto(step)
    BY <1>8, <1>10 DEF Look, Steps
  <2>2. QED
    BY <1>0, <1>7, <1>10, <2>1 DEF Look, redis, bounds
<1>11. CASE Delete
  <2>1. at' # "push" /\ UNCHANGED <<later, outages>>
    BY <1>8, <1>11 DEF Delete, Goto, bounds, Steps
  <2>2. \A d \in Chains : key'[d] # key[d] => d = task.chain
    BY <1>0, <1>11 DEF Delete, TypeOK
  <2>3. \A t \in later : t.chain = task.chain /\ t.attempts = 0 => t.id # key[task.chain]
    BY <1>11 DEF IdsOnce, DeleteSpares, Delete
  <2>4. QED
    BY <1>0, <2>1, <2>2, <2>3, CountStays
<1>12. CASE Renew
  <2>1. CASE key[task.chain] # None
    <3>1. Finish /\ UNCHANGED <<key, later, outages>>
      BY <1>12, <2>1 DEF Renew, bounds
    <3>2. QED
      BY <1>0, <1>7, <3>1
  <2>2. CASE key[task.chain] = None
    <3>1. PICK i \in Ids : /\ key' = [key EXCEPT ![task.chain] = i] /\ next' = i
      BY <1>12, <2>2 DEF Renew
    <3>2. /\ at' = "push" /\ at = "renew" /\ task' = task /\ later' = later
          /\ outages' = outages
      BY <1>12, <2>2 DEF Renew, bounds
    <3> SUFFICES ASSUME NEW c \in Chains
                 PROVE  Counted(later', c, key'[c], at', task', next', outages')
      BY DEF UnkeyedAreOutages
    <3>3. Counted(later, c, key[c], at, task, next, outages)
      BY DEF UnkeyedAreOutages
    <3>4. CASE c = task.chain
      <4>1. key'[c] = i /\ key[c] = None
        BY <2>2, <3>1, <3>4 DEF TypeOK
      <4>2. Unkeyed(later', c, key'[c]) \subseteq Unkeyed(later, c, key[c])
        BY <1>0, <3>2, <4>1 DEF Unkeyed
      <4>3. Coming(at', task', next', c, key'[c]) = 0 /\ Coming(at, task, next, c, key[c]) = 0
        BY <3>1, <3>2, <4>1 DEF Coming
      <4>4. Coming(at', task', next', c, key'[c]) + outages
               <= Coming(at, task, next, c, key[c]) + outages'
        BY <1>0, <3>2, <4>3
      <4>5. outages' \in Nat /\ later \in SUBSET Task
        BY <1>0, <3>2 DEF TypeOK
      <4>6. QED
        BY <1>0, <3>3, <4>2, <4>4, <4>5, CountKept
    <3>5. CASE c # task.chain
      <4>1. key'[c] = key[c]
        BY <3>1, <3>5 DEF TypeOK
      <4>2. Coming(at', task', next', c, key'[c]) = 0 /\ Coming(at, task, next, c, key[c]) = 0
        BY <3>2, <3>5 DEF Coming
      <4>3. Coming(at', task', next', c, key'[c]) + outages
               <= Coming(at, task, next, c, key[c]) + outages'
        BY <1>0, <3>2, <4>2
      <4>4. outages' \in Nat /\ later \in SUBSET Task
        BY <1>0, <3>2 DEF TypeOK
      <4>5. Unkeyed(later', c, key'[c]) \subseteq Unkeyed(later, c, key[c])
        BY <3>2, <4>1
      <4>6. QED
        BY <1>0, <3>3, <4>3, <4>4, <4>5, CountKept
    <3>6. QED
      BY <3>4, <3>5
  <2>3. QED
    BY <2>1, <2>2
<1>13. CASE Push
  <2> SUFFICES ASSUME NEW c \in Chains
               PROVE  Counted(later', c, key'[c], at', task', next', outages')
    BY DEF UnkeyedAreOutages
  <2> DEFINE new == First(task.chain, next)
  <2>1. /\ later' = later \cup {new} /\ at' = "idle" /\ key' = key /\ outages' = outages
        /\ at = "push"
    BY <1>13 DEF Push, Finish, bounds
  <2>2. new.chain = task.chain /\ new.id = next
    BY DEF First
  <2>3. Counted(later, c, key[c], at, task, next, outages)
    BY DEF UnkeyedAreOutages
  <2> HIDE DEF new
  <2>4. CASE c = task.chain /\ next # key[c]
    <3>1. Coming(at, task, next, c, key[c]) = 1 /\ Coming(at', task', next', c, key'[c]) = 0
      BY <2>1, <2>4 DEF Coming
    <3>2. Unkeyed(later', c, key'[c]) \subseteq Unkeyed(later, c, key[c]) \cup {new}
      BY <2>1 DEF Unkeyed
    <3>3. IsFiniteSet(Unkeyed(later, c, key[c])) /\ Cardinality(Unkeyed(later, c, key[c])) \in Nat
      BY UnkeyedIsFinite DEF TypeOK
    <3>4. /\ IsFiniteSet(Unkeyed(later, c, key[c]) \cup {new})
          /\ Cardinality(Unkeyed(later, c, key[c]) \cup {new})
                <= Cardinality(Unkeyed(later, c, key[c])) + 1
      BY <3>3, FS_AddElement
    <3>5. Cardinality(Unkeyed(later', c, key'[c])) \in Nat
          /\ Cardinality(Unkeyed(later, c, key[c]) \cup {new}) \in Nat
          /\ Cardinality(Unkeyed(later', c, key'[c]))
                <= Cardinality(Unkeyed(later, c, key[c]) \cup {new})
      BY <3>2, <3>4, FS_Subset, FS_CardinalityType
    <3>6. QED
      BY <1>0, <2>1, <2>3, <3>1, <3>3, <3>4, <3>5 DEF Counted
  <2>5. CASE ~ (c = task.chain /\ next # key[c])
    <3>1. Unkeyed(later', c, key'[c]) \subseteq Unkeyed(later, c, key[c])
      BY <2>1, <2>2, <2>5 DEF Unkeyed
    <3>2. Coming(at, task, next, c, key[c]) = 0 /\ Coming(at', task', next', c, key'[c]) = 0
      BY <2>1, <2>5 DEF Coming
    <3>3. Coming(at', task', next', c, key'[c]) + outages
             <= Coming(at, task, next, c, key[c]) + outages'
      BY <1>0, <2>1, <3>2
    <3>4. outages' \in Nat /\ later \in SUBSET Task
      BY <1>0, <2>1 DEF TypeOK
    <3>5. QED
      BY <1>0, <2>3, <3>1, <3>3, <3>4, CountKept
  <2>6. QED
    BY <2>4, <2>5
<1>14. CASE RedisFails
  <2>1. UNCHANGED <<key, later>> /\ outages' = outages + 1
    BY <1>14 DEF RedisFails, redis
  <2>2. CASE Finish \/ \E step \in Steps \ {"push"} : Goto(step)
    BY <1>0, <1>7, <2>1, <2>2
  <2>3. CASE at = "renew" /\ at' = "push"
    <3> SUFFICES ASSUME NEW c \in Chains
                 PROVE  Counted(later', c, key'[c], at', task', next', outages')
      BY DEF UnkeyedAreOutages
    <3>1. Counted(later, c, key[c], at, task, next, outages)
      BY DEF UnkeyedAreOutages
    <3>2. Coming(at, task, next, c, key[c]) = 0 /\ Coming(at', task', next', c, key'[c]) \in {0, 1}
      BY <2>3 DEF Coming
    <3>3. Coming(at', task', next', c, key'[c]) + outages
             <= Coming(at, task, next, c, key[c]) + outages'
      BY <1>0, <2>1, <3>2
    <3>4. QED
      BY <1>0, <2>1, <3>1, <3>3, CountKept DEF TypeOK
  <2>4. QED
    BY <1>8, <1>14, <2>2, <2>3 DEF RedisFails, Steps
<1>15. CASE WorkRaises
  <2>1. /\ Finish /\ key' = key /\ outages' = outages + 1
        /\ later' \in {later, later \cup {[task EXCEPT !.attempts = @ + 1]}}
        /\ task \in Task
    BY <1>0, <1>15 DEF WorkRaises
  <2>2. [task EXCEPT !.attempts = @ + 1].attempts # 0
    BY <2>1, BoundsAssumption DEF Task
  <2>3. \A t \in later' : t.attempts = 0 => t \in later
    BY <2>1, <2>2
  <2>4. outages' >= outages
    BY <1>0, <2>1
  <2>5. QED
    BY <1>7, <2>1, <2>3, <2>4
<1>16. CASE Crash
  BY <1>0, <1>7, <1>16 DEF Crash, redis
<1>17. CASE UNCHANGED vars
  BY <1>17 DEF vars, redis, worker, bounds, UnkeyedAreOutages
<1>18. QED
  BY <1>1, <1>2, <1>3, <1>4, <1>5, <1>6, <1>9, <1>10, <1>11, <1>12, <1>13, <1>14, <1>15,
     <1>16, <1>17
  DEF Next, WorkerStep

LEMMA CountGivesOne == TypeOK /\ UnkeyedAreOutages => OneNextRun
<1> SUFFICES ASSUME TypeOK, UnkeyedAreOutages, NEW c \in Chains
             PROVE  Cardinality(Planned(c)) <= 1 + outages
  BY DEF OneNextRun
<1> DEFINE some == Unkeyed(later, c, key[c])
           keyed == First(c, key[c])
<1>1. IsFiniteSet(some) /\ Cardinality(some) \in Nat
  BY UnkeyedIsFinite DEF TypeOK
<1>2. Cardinality(some) <= outages /\ outages \in Nat
  BY <1>1 DEF UnkeyedAreOutages, Counted, Coming, TypeOK
<1>3. Planned(c) \subseteq some \cup {keyed}
  BY TaskIsFirst DEF Planned, Of, Unkeyed, TypeOK
<1> HIDE DEF some, keyed
<1>4. IsFiniteSet(some \cup {keyed}) /\ Cardinality(some \cup {keyed}) <= Cardinality(some) + 1
  <2>1. /\ IsFiniteSet(some \cup {keyed})
        /\ Cardinality(some \cup {keyed})
              = IF keyed \in some THEN Cardinality(some) ELSE Cardinality(some) + 1
    BY <1>1, FS_AddElement
  <2>2. QED
    BY <1>1, <2>1
<1>5. /\ Cardinality(Planned(c)) \in Nat /\ Cardinality(some \cup {keyed}) \in Nat
      /\ Cardinality(Planned(c)) <= Cardinality(some \cup {keyed})
  BY <1>3, <1>4, FS_Subset, FS_CardinalityType
<1>6. QED
  BY <1>1, <1>2, <1>4, <1>5

\* Whatever seeds, duplicates, expiries and crashes do, a job has one next run,
\* and one more for each command that Redis has failed.
THEOREM OneNextRunAlways == Spec => []OneNextRun
<1> DEFINE IInv == TypeOK /\ IdsOnce /\ UnkeyedAreOutages
<1>1. Init => IInv
  BY TypeInit, IdsOnceInit, CountInit
<1>2. IInv /\ [Next]_vars => IInv'
  BY TypeStep, IdsOnceStep, CountStep
<1>3. IInv => OneNextRun
  BY CountGivesOne
<1>4. QED
  BY <1>1, <1>2, <1>3, PTL DEF Spec

------------------------------------------------------------------------------
(***************************************************************************)
(* A job ends by a fault or a purge.  As long as nothing has failed, a key *)
(* stands for a task that still exists; only a purge of usage polls breaks *)
(* that, and then no poll that is past its check depends on it.            *)
(***************************************************************************)
Calm == crashes + outages = 0

Owned(c) ==
    \/ key[c] = None
    \/ \E u \in later \cup Called : u.chain = c /\ u.id = key[c]
    \/ task # None /\ task.chain = c /\ task.id = key[c]
    \/ seeding[c] = key[c]
    \/ at = "push" /\ task.chain = c /\ next = key[c]

\* Past the check.
InEarnest(c) == at \in {"work", "look", "delete", "renew", "push"} /\ task.chain = c

Purging == at \in {"check", "purge", "sweep"}

KeyCleared ==
    at = "renew" \/ (at = "work" /\ task.chain = "reconcile") => key[task.chain] # task.id

CalmInv ==
    /\ \A c \in Chains : Owned(c) \/ (c = "usage" /\ ~InEarnest(c))
    /\ KeyCleared
    /\ at = "push" => key[task.chain] = next

OwnedInv ==
    /\ Purging => task.chain = "usage"
    /\ Calm => CalmInv

LEMMA OwnedInit == Init => OwnedInv
  BY DEF Init, OwnedInv, Purging, CalmInv, Owned, KeyCleared

\* A clearing that is past its key leaves a key that is not the task's.
LEMMA ClearedGoes ==
    ASSUME TypeOK, OwnedInv, Calm, at \in {"look", "delete"},
           UNCHANGED <<ready, later, due, seeding>>,
           Goto(Route[task.chain].clear),
           \/ key' = key /\ key[task.chain] # task.id
           \/ key' = [key EXCEPT ![task.chain] = None]
    PROVE  CalmInv'
<1>1. task \in Task /\ task.chain \in Chains /\ task.id \in Ids /\ task.id # None
  BY NoneAssumption DEF TypeOK, Task
<1>2. at' \in {"work", "renew"} /\ UNCHANGED <<task, next>>
  BY <1>1 DEF Goto, Chains, Route
<1>3. key'[task.chain] # task.id
  BY <1>1 DEF TypeOK
<1>4. ASSUME NEW c \in Chains, Owned(c) PROVE Owned(c)'
  <2>1. key'[c] \in {None, key[c]}
    BY <1>4 DEF TypeOK
  <2>2. QED
    BY <1>2, <1>4, <2>1 DEF Owned, Called
<1>5. QED
  BY <1>1, <1>2, <1>3, <1>4 DEF OwnedInv, CalmInv, KeyCleared, InEarnest

LEMMA OwnedStep == TypeOK /\ OwnedInv /\ [Next]_vars => OwnedInv'
<1> SUFFICES ASSUME TypeOK, OwnedInv, [Next]_vars PROVE OwnedInv'
  OBVIOUS
<1>0. /\ at # "idle" => /\ task \in Task /\ task # None /\ task.chain \in Chains
                        /\ task.id \in Ids /\ task.id # None
      /\ crashes \in Nat /\ outages \in Nat
      /\ at = "push" => next \in Ids /\ next # None
  BY NoneAssumption DEF TypeOK, Task
<1>1. ASSUME NEW t \in later, BecomeDue(t) PROVE OwnedInv'
  <2>1. later' \cup Called' = later \cup Called
        /\ UNCHANGED <<key, task, at, next, seeding, crashes, outages>>
    BY <1>1 DEF BecomeDue, Called, worker, bounds
  <2>2. \A c \in Chains : Owned(c)' <=> Owned(c)
    BY <2>1 DEF Owned
  <2>3. QED
    BY <2>1, <2>2 DEF OwnedInv, CalmInv, KeyCleared, InEarnest, Purging, Calm
<1>2. ASSUME NEW c \in Chains, Expire(c) PROVE OwnedInv'
  <2>1. /\ key' = [key EXCEPT ![c] = None]
        /\ UNCHANGED <<ready, later, due, task, at, next, seeding, crashes, outages>>
        /\ ~ (at = "push" /\ task.chain = c /\ next = key[c])
    BY <1>2 DEF Expire, worker, bounds
  <2>2. \A d \in Chains : Owned(d) => Owned(d)'
    <3>1. \A d \in Chains : key'[d] = None \/ key'[d] = key[d]
      BY <2>1 DEF TypeOK
    <3>2. QED
      BY <2>1, <3>1 DEF Owned, Called
  <2>3. KeyCleared => KeyCleared'
    BY <1>0, <2>1 DEF KeyCleared, TypeOK
  <2>4. (at = "push" => key[task.chain] = next) => (at' = "push" => key'[task'.chain] = next')
    BY <1>0, <2>1 DEF TypeOK
  <2>5. QED
    BY <2>1, <2>2, <2>3, <2>4 DEF OwnedInv, CalmInv, InEarnest, Purging, Calm
<1>3. ASSUME NEW c \in Chains, SeedTakesKey(c) PROVE OwnedInv'
  <2>1. PICK i \in Ids : /\ New(c, i) /\ key' = [key EXCEPT ![c] = i]
                         /\ seeding' = [seeding EXCEPT ![c] = i]
    BY <1>3 DEF SeedTakesKey
  <2>2. /\ UNCHANGED <<ready, later, due, task, at, next, crashes, outages>>
        /\ key[c] = None /\ seeding[c] = None
    BY <1>3 DEF SeedTakesKey, CanSeed, worker, bounds
  <2>3. Owned(c)'
    BY <2>1 DEF Owned, TypeOK
  <2>4. \A d \in Chains \ {c} : Owned(d) => Owned(d)'
    BY <2>1, <2>2 DEF Owned, Called, TypeOK
  <2>5. KeyCleared => KeyCleared'
    <3>1. at # "idle" /\ task.chain = c => task.id # i
      BY <2>1, NewFacts
    <3>2. QED
      BY <1>0, <2>1, <2>2, <3>1 DEF KeyCleared, TypeOK
  <2>6. (at = "push" => key[task.chain] = next) => (at' = "push" => key'[task'.chain] = next')
    BY <1>0, <2>1, <2>2 DEF TypeOK
  <2>7. QED
    BY <2>2, <2>3, <2>4, <2>5, <2>6 DEF OwnedInv, CalmInv, InEarnest, Purging, Calm
<1>4. ASSUME NEW c \in Chains, SeedWithoutKey(c) \/ SeedLost(c) PROVE OwnedInv'
  <2>1. UNCHANGED <<task, at>> /\ crashes' + outages' # 0
    BY <1>0, <1>4 DEF SeedWithoutKey, SeedLost, worker
  <2>2. QED
    BY <2>1 DEF OwnedInv, Purging, Calm
<1>5. ASSUME NEW c \in Chains, SeedPush(c) PROVE OwnedInv'
  <2>1. /\ Called' = Called \cup {First(c, seeding[c])}
        /\ seeding' = [seeding EXCEPT ![c] = None] /\ seeding[c] # None
        /\ UNCHANGED <<key, later, task, at, next, crashes, outages>>
    BY <1>5, SeedPushFacts DEF SeedPush, Called, worker, bounds
  <2>2. First(c, seeding[c]).chain = c /\ First(c, seeding[c]).id = seeding[c]
    BY DEF First
  <2>3. \A d \in Chains : Owned(d) => Owned(d)'
    BY <2>1, <2>2 DEF Owned, TypeOK
  <2>4. QED
    BY <2>1, <2>3 DEF OwnedInv, CalmInv, KeyCleared, InEarnest, Purging, Calm
<1>6. CASE PopTask
  <2>1. /\ task' \in Task /\ Called = {task'} \cup Called' /\ at' = Route[task'.chain].pop
        /\ at = "idle" /\ task = None
        /\ UNCHANGED <<key, later, next, seeding, crashes, outages>>
    BY <1>6, PopFacts DEF Called, PopTask, bounds, TypeOK
  <2>2. /\ \/ task'.chain = "usage" /\ at' = "check"
           \/ task'.chain = "reconcile" /\ at' = "look"
        /\ task' # None
    BY <2>1, NoneAssumption DEF Task, Chains, Route
  <2>3. \A d \in Chains : Owned(d) => Owned(d)'
    BY <2>1, <2>2 DEF Owned
  <2>4. QED
    BY <2>1, <2>2, <2>3 DEF OwnedInv, CalmInv, KeyCleared, InEarnest, Purging, Calm
<1>7. CASE Check
  <2>1. /\ UNCHANGED <<key, ready, later, due, task, next, seeding, crashes, outages>>
        /\ at = "check" /\ task.chain = "usage"
        /\ \/ at' = "purge"
           \/ at' = "work" /\ key["usage"] \in {None, task.id}
    BY <1>7 DEF Check, Goto, redis, bounds, OwnedInv, Purging
  <2>2. \A d \in Chains : Owned(d) => Owned(d)'
    BY <2>1 DEF Owned, Called
  <2>3. at' = "work" => Owned("usage")'
    BY <1>0, <2>1 DEF Owned
  <2>4. QED
    BY <2>1, <2>2, <2>3 DEF OwnedInv, CalmInv, KeyCleared, InEarnest, Purging, Calm
<1>8. CASE PurgeList
  <2>1. /\ UNCHANGED <<key, later, due, task, next, seeding, crashes, outages>>
        /\ at = "purge" /\ at' = "sweep" /\ task.chain = "usage"
        /\ Elements(ready') = {t \in Elements(ready) : Kept(t)}
    BY <1>8, PurgeFacts DEF PurgeList, Goto, bounds, OwnedInv, Purging
  <2>2. Owned("reconcile") => Owned("reconcile")'
    BY <2>1 DEF Owned, Called, Kept
  <2>3. QED
    BY <2>1, <2>2 DEF OwnedInv, CalmInv, KeyCleared, InEarnest, Purging, Calm, Chains
<1>9. CASE PurgeScheduled
  <2>1. /\ UNCHANGED <<key, ready, seeding, crashes, outages>>
        /\ later' = {t \in later : Kept(t)} /\ due' = {t \in due : Kept(t)}
        /\ at = "sweep" /\ at' = "idle" /\ task' = None /\ task.chain = "usage"
    BY <1>9 DEF PurgeScheduled, Finish, bounds, OwnedInv, Purging
  <2>2. Owned("reconcile") => Owned("reconcile")'
    BY <2>1 DEF Owned, Called, Kept
  <2>3. QED
    BY <2>1, <2>2 DEF OwnedInv, CalmInv, KeyCleared, InEarnest, Purging, Calm, Chains
<1>10. CASE Work
  <2>1. /\ UNCHANGED <<key, ready, later, due, task, next, seeding, crashes, outages>>
        /\ at = "work"
        /\ \/ task.chain = "reconcile" /\ at' = "renew"
           \/ task.chain = "usage" /\ at' = "look"
    BY <1>0, <1>10 DEF Work, Goto, redis, bounds, Chains, Route
  <2>2. \A d \in Chains : Owned(d) => Owned(d)'
    BY <2>1 DEF Owned, Called
  <2>3. QED
    BY <2>1, <2>2 DEF OwnedInv, CalmInv, KeyCleared, InEarnest, Purging, Calm
<1>11. at # "idle" => Route[task.chain].clear \in {"work", "renew"}
  BY <1>0 DEF Chains, Route
<1>12. CASE Look
  <2>1. UNCHANGED <<key, ready, later, due, task, next, seeding, crashes, outages>> /\ at = "look"
    BY <1>12 DEF Look, Goto, redis, bounds
  <2>2. CASE key[task.chain] = task.id
    <3>1. at' = "delete"
      BY <1>12, <2>2 DEF Look, Goto
    <3>2. \A d \in Chains : Owned(d) => Owned(d)'
      BY <2>1 DEF Owned, Called
    <3>3. QED
      BY <2>1, <3>1, <3>2 DEF OwnedInv, CalmInv, KeyCleared, InEarnest, Purging, Calm
  <2>3. CASE key[task.chain] # task.id
    <3>1. Goto(Route[task.chain].clear)
      BY <1>12, <2>3 DEF Look
    <3>2. Calm => CalmInv'
      BY <2>1, <2>3, <3>1, ClearedGoes
    <3>3. QED
      BY <1>11, <2>1, <3>1, <3>2 DEF OwnedInv, Purging, Calm, Goto
  <2>4. QED
    BY <2>2, <2>3
<1>13. CASE Delete
  <2>1. Calm => CalmInv'
    BY <1>13, ClearedGoes DEF Delete
  <2>2. at' \in {"work", "renew"} /\ UNCHANGED <<crashes, outages>>
    BY <1>11, <1>13 DEF Delete, Goto, bounds
  <2>3. QED
    BY <2>1, <2>2 DEF OwnedInv, Purging, Calm
<1>14. CASE Renew
  <2>1. UNCHANGED <<ready, later, due, seeding, crashes, outages>> /\ at = "renew"
    BY <1>14 DEF Renew, bounds
  <2>2. CASE key[task.chain] = None
    <3>1. PICK i \in Ids : /\ key' = [key EXCEPT ![task.chain] = i] /\ next' = i
                           /\ at' = "push" /\ task' = task
      BY <1>14, <2>2 DEF Renew
    <3>2. key'[task.chain] = next'
      BY <1>0, <2>1, <3>1 DEF TypeOK
    <3>3. \A d \in Chains \ {task.chain} : Owned(d) => Owned(d)'
      BY <2>1, <3>1 DEF Owned, Called, TypeOK
    <3>4. Owned(task.chain)'
      BY <1>0, <2>1, <3>1, <3>2 DEF Owned
    <3>5. QED
      BY <1>0, <2>1, <3>1, <3>2, <3>3, <3>4
      DEF OwnedInv, CalmInv, KeyCleared, InEarnest, Purging, Calm
  <2>3. CASE key[task.chain] # None
    <3>1. at' = "idle" /\ task' = None /\ key' = key
      BY <1>14, <2>3 DEF Renew, Finish
    <3>2. ASSUME Calm, NEW d \in Chains, Owned(d) PROVE Owned(d)'
      <4>1. ~ (task # None /\ task.chain = d /\ task.id = key[d])
        BY <2>1, <3>2 DEF OwnedInv, CalmInv, KeyCleared
      <4>2. QED
        BY <2>1, <3>1, <3>2, <4>1 DEF Owned, Called
    <3>3. QED
      BY <2>1, <3>1, <3>2 DEF OwnedInv, CalmInv, KeyCleared, InEarnest, Purging, Calm
  <2>4. QED
    BY <2>2, <2>3
<1>15. CASE Push
  <2>1. /\ UNCHANGED <<key, ready, due, seeding, crashes, outages>>
        /\ later' = later \cup {First(task.chain, next)}
        /\ at = "push" /\ at' = "idle" /\ task' = None
    BY <1>15 DEF Push, Finish, bounds
  <2>2. First(task.chain, next).chain = task.chain /\ First(task.chain, next).id = next
    BY DEF First
  <2>3. ASSUME Calm, NEW d \in Chains, Owned(d) PROVE Owned(d)'
    <3>1. key[task.chain] = next
      BY <2>1, <2>3 DEF OwnedInv, CalmInv
    <3>2. QED
      BY <2>1, <2>2, <2>3, <3>1 DEF Owned, Called
  <2>4. QED
    BY <2>1, <2>3 DEF OwnedInv, CalmInv, KeyCleared, InEarnest, Purging, Calm
<1>16. CASE RedisFails
  <2>1. at' \in {"idle", "work", "renew", "push"}
    BY <1>11, <1>16 DEF RedisFails, Goto, Finish
  <2>2. crashes' + outages' # 0
    BY <1>0, <1>16 DEF RedisFails
  <2>3. QED
    BY <2>1, <2>2 DEF OwnedInv, Purging, Calm
<1>17. CASE WorkRaises \/ Crash
  <2>1. at' = "idle" /\ crashes' + outages' # 0
    BY <1>0, <1>17 DEF WorkRaises, Crash, Finish
  <2>2. QED
    BY <2>1 DEF OwnedInv, Purging, Calm
<1>18. CASE UNCHANGED vars
  <2>1. UNCHANGED <<key, ready, later, due, task, at, next, seeding, crashes, outages>>
    BY <1>18 DEF vars, redis, worker, bounds
  <2>2. \A d \in Chains : Owned(d)' <=> Owned(d)
    BY <2>1 DEF Owned, Called
  <2>3. QED
    BY <2>1, <2>2 DEF OwnedInv, CalmInv, KeyCleared, InEarnest, Purging, Calm
<1>19. QED
  BY <1>1, <1>2, <1>3, <1>4, <1>5, <1>6, <1>7, <1>8, <1>9, <1>10, <1>12, <1>13, <1>14,
     <1>15, <1>16, <1>17, <1>18
  DEF Next, WorkerStep

LEMMA EndsByFault ==
    ASSUME TypeOK, OwnedInv, [Next]_vars, NEW c \in Chains, Alive(c)
    PROVE  \/ Alive(c)'
           \/ crashes' + outages' > 0
           \/ c = "usage" /\ at = "sweep"
<1> SUFFICES ASSUME ~ (crashes' + outages' > 0), ~ (c = "usage" /\ at = "sweep")
             PROVE  Alive(c)'
  OBVIOUS
<1> DEFINE Waits == \E u \in Called \cup later : u.chain = c
<1>1. Waits \/ Running(c) \/ seeding[c] # None
  BY DEF Alive, Waiting, Of, Called
<1>2. Waits' \/ Running(c)' \/ (seeding[c] # None)' => Alive(c)'
  BY DEF Alive, Waiting, Of, Called
<1>3. crashes \in Nat /\ outages \in Nat /\ crashes' + outages' = 0
  BY TypeStep DEF TypeOK
<1>4. (Purging => task.chain = "usage") /\ (at # "idle" => task \in Task /\ task.chain \in Chains)
  BY DEF OwnedInv, TypeOK, Task
<1>5. ASSUME NEW t \in later, BecomeDue(t) PROVE Alive(c)'
  <2>1. /\ Called' \cup later' = Called \cup later
        /\ UNCHANGED <<seeding, at, task>>
    BY <1>5 DEF BecomeDue, Called, worker
  <2>2. QED
    BY <1>1, <1>2, <2>1 DEF Running
<1>6. ASSUME NEW d \in Chains, Expire(d) \/ SeedWithoutKey(d) \/ SeedTakesKey(d) \/ SeedLost(d)
      PROVE  Alive(c)'
  <2>1. CASE SeedWithoutKey(d) \/ SeedLost(d)
    BY <1>3, <2>1 DEF SeedWithoutKey, SeedLost
  <2>2. CASE Expire(d)
    BY <1>1, <1>2, <2>2 DEF Expire, worker, Called, Running
  <2>3. CASE SeedTakesKey(d)
    <3>1. /\ UNCHANGED <<ready, later, due, task, at>>
          /\ \E i \in Ids : seeding' = [seeding EXCEPT ![d] = i]
      BY <2>3 DEF SeedTakesKey, worker
    <3>2. seeding[c] # None => seeding'[c] # None
      BY <3>1, NoneAssumption DEF TypeOK
    <3>3. QED
      BY <1>1, <1>2, <3>1, <3>2 DEF Called, Running
  <2>4. QED
    BY <1>6, <2>1, <2>2, <2>3
<1>7. ASSUME NEW d \in Chains, SeedPush(d) PROVE Alive(c)'
  <2>1. /\ Called' = Called \cup {First(d, seeding[d])}
        /\ seeding' = [seeding EXCEPT ![d] = None]
        /\ UNCHANGED <<later, task, at>>
    BY <1>7, SeedPushFacts DEF SeedPush, Called, worker
  <2>2. First(d, seeding[d]).chain = d
    BY DEF First
  <2>3. QED
    BY <1>1, <1>2, <2>1, <2>2 DEF Running, TypeOK
<1>8. CASE PopTask
  <2>1. /\ task' \in Task /\ Called = {task'} \cup Called'
        /\ at' = Route[task'.chain].pop /\ at = "idle" /\ UNCHANGED <<later, seeding>>
    BY <1>8, PopFacts DEF Called, PopTask, TypeOK
  <2>2. at' # "idle"
    BY <2>1 DEF Task, Chains, Route
  <2>3. QED
    BY <1>1, <1>2, <2>1, <2>2 DEF Running
<1>9. ASSUME at' # "idle", UNCHANGED <<ready, later, due, seeding, task>> PROVE Alive(c)'
  BY <1>1, <1>2, <1>9 DEF Called, Running
<1>10. CASE PurgeList
  <2>1. /\ at = "purge" /\ at' = "sweep" /\ task' = task /\ task.chain = "usage"
        /\ Elements(ready') = {t \in Elements(ready) : Kept(t)}
        /\ UNCHANGED <<later, due, seeding>>
    BY <1>4, <1>10, PurgeFacts DEF PurgeList, Goto, Purging
  <2>2. QED
    BY <1>1, <1>2, <2>1 DEF Running, Called, Kept
<1>11. CASE PurgeScheduled
  <2>1. c # "usage"
    BY <1>11 DEF PurgeScheduled
  <2>2. /\ at = "sweep" /\ task.chain = "usage" /\ UNCHANGED <<ready, seeding>>
        /\ later' = {t \in later : Kept(t)} /\ due' = {t \in due : Kept(t)}
    BY <1>4, <1>11 DEF PurgeScheduled, Purging
  <2>3. QED
    BY <1>1, <1>2, <2>1, <2>2 DEF Running, Called, Kept
<1>12. CASE Check \/ Work \/ Look \/ Delete
  <2>1. /\ \E step \in Steps : Goto(step)
        /\ UNCHANGED <<ready, later, due, seeding>>
    BY <1>4, <1>12 DEF Check, Work, Look, Delete, redis, Steps, Chains, Route
  <2>2. at' # "idle" /\ task' = task
    BY <2>1 DEF Goto, Steps
  <2>3. QED
    BY <1>9, <2>1, <2>2
<1>13. CASE Renew
  <2>1. at = "renew" /\ UNCHANGED <<ready, later, due, seeding, crashes, outages>>
    BY <1>13 DEF Renew, bounds
  <2>2. CASE key[task.chain] = None
    BY <1>9, <1>13, <2>1, <2>2 DEF Renew
  <2>3. CASE key[task.chain] # None
    <3>1. CalmInv
      BY <1>3, <2>1 DEF OwnedInv, Calm
    <3>2. Owned(task.chain) /\ key[task.chain] # task.id
      BY <1>4, <2>1, <3>1 DEF CalmInv, KeyCleared, InEarnest
    <3>3. QED
      BY <1>1, <1>2, <2>1, <2>3, <3>2 DEF Owned, Running, Called
  <2>4. QED
    BY <2>2, <2>3
<1>14. CASE Push
  <2>1. /\ later' = later \cup {First(task.chain, next)} /\ at = "push"
        /\ UNCHANGED <<ready, due, seeding>>
    BY <1>14 DEF Push
  <2>2. First(task.chain, next).chain = task.chain
    BY DEF First
  <2>3. QED
    BY <1>1, <1>2, <2>1, <2>2 DEF Running, Called
<1>15. CASE RedisFails \/ WorkRaises \/ Crash
  BY <1>3, <1>15 DEF RedisFails, WorkRaises, Crash
<1>16. CASE UNCHANGED vars
  BY <1>1, <1>2, <1>16 DEF vars, redis, worker, Running, Called
<1>17. QED
  BY <1>5, <1>6, <1>7, <1>8, <1>10, <1>11, <1>12, <1>13, <1>14, <1>15, <1>16
  DEF Next, WorkerStep

\* A job whose tasks are alive ends by a fault or by a purge only, for any
\* number of tasks and seeds: whenever a run finds the key taken and enqueues
\* nothing (org_agent_reconcile_queue.py:50, usage_poll_queue.py:42), the key
\* stands for another task that is there.
THEOREM ChainsEndByFaultOnly == Spec => ChainEndsOnlyByFault
<1>1. Init => TypeOK /\ OwnedInv
  BY TypeInit, OwnedInit
<1>2. TypeOK /\ OwnedInv /\ [Next]_vars => (TypeOK /\ OwnedInv)'
  BY TypeStep, OwnedStep
<1>3. TypeOK /\ OwnedInv /\ [Next]_vars
      => [\A c \in Chains : Alive(c) /\ ~Alive(c)' =>
            \/ crashes' + outages' > 0
            \/ c = "usage" /\ at = "sweep"]_vars
  BY EndsByFault
<1>4. QED
  BY <1>1, <1>2, <1>3, PTL DEF Spec, ChainEndsOnlyByFault
==============================================================================
