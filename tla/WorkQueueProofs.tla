--------------------------- MODULE WorkQueueProofs ---------------------------
(***************************************************************************)
(* Proofs about WorkQueue, for any number of workers, crashes and retries: *)
(* the queue's types, that a queued task never vanishes, and that one is   *)
(* given up only after its last attempt.                                   *)
(***************************************************************************)
EXTENDS WorkQueue, SequenceTheorems, FiniteSetTheorems, WellFoundedInduction, TLAPS

------------------------------------------------------------------------------
(***************************************************************************)
(* What the operations on a Redis list do to its elements.                 *)
(***************************************************************************)
LEMMA ElementsConcat ==
    ASSUME NEW S, NEW s \in Seq(S), NEW u \in Seq(S)
    PROVE  Elements(s \o u) = Elements(s) \cup Elements(u)
<1>1. /\ s \o u \in Seq(S)
      /\ Len(s \o u) = Len(s) + Len(u)
      /\ \A i \in 1 .. Len(s) + Len(u) :
            (s \o u)[i] = IF i <= Len(s) THEN s[i] ELSE u[i - Len(s)]
  BY ConcatProperties
<1>2. /\ Len(s) \in Nat /\ DOMAIN s = 1 .. Len(s)
      /\ Len(u) \in Nat /\ DOMAIN u = 1 .. Len(u)
      /\ DOMAIN (s \o u) = 1 .. Len(s) + Len(u)
  BY <1>1, LenProperties
<1>3. ASSUME NEW x \in Elements(s \o u) PROVE x \in Elements(s) \cup Elements(u)
  <2>1. PICK i \in 1 .. Len(s) + Len(u) : x = (s \o u)[i]
    BY <1>2 DEF Elements
  <2>2. CASE i <= Len(s)
    BY <2>1, <2>2, <1>1, <1>2 DEF Elements
  <2>3. CASE ~ (i <= Len(s))
    <3>1. i - Len(s) \in 1 .. Len(u) /\ x = u[i - Len(s)]
      BY <2>1, <2>3, <1>1, <1>2
    <3>2. QED
      BY <3>1, <1>2 DEF Elements
  <2>4. QED
    BY <2>2, <2>3
<1>4. ASSUME NEW x \in Elements(s) PROVE x \in Elements(s \o u)
  <2>1. PICK i \in 1 .. Len(s) : x = s[i]
    BY <1>2 DEF Elements
  <2>2. i \in 1 .. Len(s) + Len(u) /\ (s \o u)[i] = x
    BY <2>1, <1>1, <1>2
  <2>3. QED
    BY <2>2, <1>2 DEF Elements
<1>5. ASSUME NEW x \in Elements(u) PROVE x \in Elements(s \o u)
  <2>1. PICK i \in 1 .. Len(u) : x = u[i]
    BY <1>2 DEF Elements
  <2>2. /\ i + Len(s) \in 1 .. Len(s) + Len(u)
        /\ ~ (i + Len(s) <= Len(s)) /\ (i + Len(s)) - Len(s) = i
    BY <2>1, <1>2
  <2>3. (s \o u)[i + Len(s)] = x
    BY <2>1, <2>2, <1>1
  <2>4. QED
    BY <2>2, <2>3, <1>2 DEF Elements
<1>6. QED
  BY <1>3, <1>4, <1>5

LEMMA ElementsAppend ==
    ASSUME NEW S, NEW s \in Seq(S), NEW x \in S
    PROVE  /\ Append(s, x) \in Seq(S)
           /\ Elements(Append(s, x)) = Elements(s) \cup {x}
<1>1. Append(s, x) = s \o <<x>> /\ <<x>> \in Seq(S)
  OBVIOUS
<1>2. Elements(<<x>>) = {x}
  BY DEF Elements
<1>3. Elements(s \o <<x>>) = Elements(s) \cup Elements(<<x>>)
  <2> DEFINE u == <<x>>
  <2>1. u \in Seq(S)
    BY <1>1
  <2> HIDE DEF u
  <2>2. Elements(s \o u) = Elements(s) \cup Elements(u)
    BY <2>1, ElementsConcat
  <2>3. QED
    BY <2>2 DEF u
<1>4. Append(s, x) \in Seq(S)
  OBVIOUS
<1>5. QED
  BY <1>1, <1>2, <1>3, <1>4

LEMMA ElementsPopped ==
    ASSUME NEW S, NEW s \in Seq(S), s # <<>>
    PROVE  /\ Head(s) \in S /\ Tail(s) \in Seq(S)
           /\ Elements(s) = {Head(s)} \cup Elements(Tail(s))
<1> DEFINE h == <<Head(s)>>
           u == Tail(s)
<1>1. Head(s) \in S /\ u \in Seq(S)
  BY HeadTailProperties
<1>2. s = h \o u
  OBVIOUS
<1>3. h \in Seq(S) /\ Elements(h) = {Head(s)}
  BY <1>1 DEF Elements
<1>4. Elements(h \o u) = Elements(h) \cup Elements(u)
  <2> HIDE DEF h, u
  <2>1. QED
    BY <1>1, <1>3, ElementsConcat
<1>5. QED
  BY <1>1, <1>2, <1>3, <1>4

\* An arrangement of a set is a sequence of its elements.
LEMMA OrdersOfSubset ==
    ASSUME NEW S, NEW B \in SUBSET S, IsFiniteSet(B), NEW s \in Orders(B)
    PROVE  s \in Seq(S) /\ Elements(s) = B
<1>1. Cardinality(B) \in Nat
  BY FS_CardinalityType
<1>2. s \in [1..Cardinality(B) -> S] /\ Elements(s) = B
  BY DEF Orders
<1>3. QED
  BY <1>1, <1>2, SeqDef

------------------------------------------------------------------------------
\* An arrangement of a set has each of its elements once.
LEMMA OrdersHaveOneEach ==
    ASSUME NEW B, IsFiniteSet(B), NEW s \in Orders(B)
    PROVE  \A i, j \in DOMAIN s : s[i] = s[j] => i = j
<1> DEFINE n == Cardinality(B)
<1>1. n \in Nat
  BY FS_CardinalityType
<1>2. IsFiniteSet(1..n) /\ Cardinality(1..n) = n
  <2>1. \A a, b \in Int : /\ IsFiniteSet(a .. b)
                          /\ Cardinality(a .. b) = IF a > b THEN 0 ELSE b - a + 1
    BY FS_Interval
  <2>2. QED
    BY <1>1, <2>1
<1>3. s \in [1..n -> B] /\ \A x \in B : \E i \in 1..n : s[i] = x
  BY DEF Orders, Elements
<1> HIDE DEF n
<1>4. s \in Surjection(1..n, B)
  BY <1>3 DEF Surjection
<1>5. s \in Injection(1..n, B)
  <2>1. Cardinality(1..n) = Cardinality(B)
    BY <1>2 DEF n
  <2>2. QED
    BY <1>2, <1>4, <2>1, FS_SurjSameCardinalityImpliesInj
<1>6. QED
  BY <1>3, <1>5 DEF Injection, IsInjective

\* The member e is in the list at most once.
OnceIn(s, e) == \A i, j \in DOMAIN s : s[i] = e /\ s[j] = e => i = j

LEMMA OnceInConcat ==
    ASSUME NEW S, NEW s \in Seq(S), NEW u \in Seq(S), NEW e, OnceIn(s, e), OnceIn(u, e),
           ~ (e \in Elements(s) /\ e \in Elements(u))
    PROVE  OnceIn(s \o u, e)
<1>1. /\ Len(s \o u) = Len(s) + Len(u)
      /\ \A i \in 1 .. Len(s) + Len(u) :
            (s \o u)[i] = IF i <= Len(s) THEN s[i] ELSE u[i - Len(s)]
  BY ConcatProperties
<1>2. /\ Len(s) \in Nat /\ DOMAIN s = 1 .. Len(s)
      /\ Len(u) \in Nat /\ DOMAIN u = 1 .. Len(u)
      /\ s \o u \in Seq(S)
  BY ConcatProperties, LenProperties
<1>3. DOMAIN (s \o u) = 1 .. Len(s) + Len(u)
  BY <1>1, <1>2, LenProperties
<1>4. ASSUME NEW i \in 1 .. Len(s) + Len(u), NEW j \in 1 .. Len(s) + Len(u),
             (s \o u)[i] = e, (s \o u)[j] = e
      PROVE  i = j
  <2>1. \A k \in 1 .. Len(s) + Len(u) : (s \o u)[k] = e =>
           \/ k \in 1 .. Len(s) /\ s[k] = e /\ e \in Elements(s)
           \/ k - Len(s) \in 1 .. Len(u) /\ u[k - Len(s)] = e /\ e \in Elements(u)
    <3>1. /\ \A k \in 1 .. Len(s) : s[k] \in Elements(s)
          /\ \A k \in 1 .. Len(u) : u[k] \in Elements(u)
      BY <1>2 DEF Elements
    <3>2. SUFFICES ASSUME NEW k \in 1 .. Len(s) + Len(u)
                   PROVE  \/ k \in 1 .. Len(s) /\ (s \o u)[k] = s[k]
                          \/ k - Len(s) \in 1 .. Len(u) /\ (s \o u)[k] = u[k - Len(s)]
      BY <3>1
    <3>3. QED
      BY <1>1, <1>2
  <2>2. CASE i \in 1 .. Len(s) /\ j \in 1 .. Len(s) /\ s[i] = e /\ s[j] = e
    BY <1>2, <2>2 DEF OnceIn
  <2>3. CASE /\ i - Len(s) \in 1 .. Len(u) /\ j - Len(s) \in 1 .. Len(u)
             /\ u[i - Len(s)] = e /\ u[j - Len(s)] = e
    <3>1. i - Len(s) = j - Len(s)
      BY <1>2, <2>3 DEF OnceIn
    <3>2. QED
      BY <1>2, <3>1
  <2>4. QED
    BY <1>4, <2>1, <2>2, <2>3
<1>5. QED
  BY <1>3, <1>4 DEF OnceIn

LEMMA OnceInPopped ==
    ASSUME NEW S, NEW s \in Seq(S), s # <<>>, NEW e, OnceIn(s, e)
    PROVE  OnceIn(Tail(s), e) /\ (Head(s) = e => e \notin Elements(Tail(s)))
<1>1. /\ Len(s) \in Nat /\ DOMAIN s = 1 .. Len(s) /\ Len(s) > 0
      /\ Head(s) = s[1] /\ DOMAIN Tail(s) = 1 .. Len(s) - 1
      /\ \A i \in 1 .. Len(s) - 1 : Tail(s)[i] = s[i + 1]
  <2>1. Tail(s) \in Seq(S) /\ Len(Tail(s)) = Len(s) - 1
        /\ \A i \in 1 .. Len(Tail(s)) : Tail(s)[i] = s[i + 1]
    BY HeadTailProperties
  <2>2. QED
    BY <2>1, LenProperties, EmptySeq
<1>2. ASSUME NEW i \in 1 .. Len(s) - 1 PROVE i + 1 \in DOMAIN s /\ i + 1 # 1
  BY <1>1
<1>3. 1 \in DOMAIN s
  BY <1>1
<1>4. Head(s) = e => e \notin Elements(Tail(s))
  BY <1>1, <1>2, <1>3 DEF OnceIn, Elements
<1>5. ASSUME NEW i \in 1 .. Len(s) - 1, NEW j \in 1 .. Len(s) - 1,
             Tail(s)[i] = e, Tail(s)[j] = e
      PROVE  i = j
  <2>1. i + 1 = j + 1
    BY <1>1, <1>2, <1>5 DEF OnceIn
  <2>2. QED
    BY <2>1
<1>6. QED
  BY <1>1, <1>4, <1>5 DEF OnceIn

------------------------------------------------------------------------------
(***************************************************************************)
(* The list                                                                *)
(***************************************************************************)

LEMMA FiniteEnvelopes == IsFiniteSet(Envelope)
<1> DEFINE Pairs == Tasks \X (0..MaxRetries)
           f == [p \in Pairs |-> [task |-> p[1], attempts |-> p[2]]]
<1>1. IsFiniteSet(0..MaxRetries)
  <2>1. \A a, b \in Int : IsFiniteSet(a .. b)
    BY FS_Interval
  <2>2. 0 \in Int /\ MaxRetries \in Int
    BY RetriesAssumption
  <2>3. QED
    BY <2>1, <2>2
<1>2. IsFiniteSet(Pairs)
  BY <1>1, TasksAssumption, FS_Product
<1>3. f \in [Pairs -> Envelope]
  BY DEF Envelope
<1>4. ASSUME NEW e \in Envelope PROVE \E p \in Pairs : f[p] = e
  <2>1. <<e.task, e.attempts>> \in Pairs /\ f[<<e.task, e.attempts>>] = e
    BY DEF Envelope
  <2>2. QED
    BY <2>1
<1>5. f \in Surjection(Pairs, Envelope)
  BY <1>3, <1>4 DEF Surjection
<1>6. QED
  BY <1>2, <1>5, FS_Surjection

\* What the drain pushes is a sequence of what it has read.
LEMMA OrdersAreSequences ==
    ASSUME NEW B \in SUBSET Envelope, NEW s \in Orders(B)
    PROVE  s \in Seq(Envelope) /\ Elements(s) = B
BY FiniteEnvelopes, FS_Subset, OrdersOfSubset

\* The retry of an envelope, when the cap allows one.
LEMMA AgainIsAnEnvelope ==
    ASSUME NEW e \in Envelope, ~ (e.attempts + 1 > MaxRetries)
    PROVE  LET again == [e EXCEPT !.attempts = @ + 1] IN
           /\ again \in Envelope
           /\ again.task = e.task /\ again.attempts = e.attempts + 1
  BY RetriesAssumption DEF Envelope

\* Among envelopes there is one with the most attempts.
LEMMA MostAttempts ==
    ASSUME NEW B \in SUBSET Envelope, B # {}
    PROVE  \E e \in B : \A f \in B : f.attempts <= e.attempts
<1> DEFINE T == {MaxRetries - e.attempts : e \in B}
<1>1. \A e \in B : e.attempts \in 0..MaxRetries
  BY DEF Envelope
<1>2. T \subseteq Nat /\ T # {}
  BY <1>1, RetriesAssumption
<1>3. PICK x \in T : \A y \in T : ~ (<<y, x>> \in OpToRel(<, Nat))
  <2> HIDE DEF T
  <2>1. QED
    BY <1>2, NatLessThanWellFounded, WFMin
<1>4. PICK e \in B : x = MaxRetries - e.attempts
  OBVIOUS
<1>5. ASSUME NEW f \in B PROVE f.attempts <= e.attempts
  <2>1. MaxRetries - f.attempts \in T /\ MaxRetries - f.attempts \in Nat /\ x \in Nat
    BY <1>2
  <2>2. ~ (MaxRetries - f.attempts < x)
    BY <2>1, <1>3 DEF OpToRel
  <2>3. QED
    BY <2>2, <1>1, <1>4, RetriesAssumption
<1>6. QED
  BY <1>5

------------------------------------------------------------------------------
(***************************************************************************)
(* The invariant                                                           *)
(***************************************************************************)

\* An attempt that exists anywhere was preceded by the earlier ones.
Tried(r, e, n) ==
    \A k \in 0..MaxRetries : k < n => r[[task |-> e.task, attempts |-> k]] > 0

EarlierAttemptsRan ==
    /\ \A e \in Elements(ready) \cup scheduled : Tried(runs, e, e.attempts)
    /\ \A w \in Workers : \A e \in batch[w] : Tried(runs, e, e.attempts)
    /\ \A w \in Workers : pc[w] = "run" => Tried(runs, current[w], current[w].attempts + 1)

\* Task t is settled, or ahead in the list or a handler with at least r
\* attempts, or scheduled with at least s.
Held(t, r, s) ==
    \/ ended[t] # {}
    \/ \E e \in Elements(ready) : e.task = t /\ e.attempts >= r
    \/ \E w \in Workers : pc[w] = "run" /\ current[w].task = t /\ current[w].attempts >= r
    \/ \E e \in scheduled : e.task = t /\ e.attempts >= s

\* What a drain is about to remove it has pushed: the copy is in the list or
\* went further since.
RemovedWasPushed ==
    \A w \in Workers : pc[w] = "remove" =>
        \A e \in batch[w] : Held(e.task, e.attempts, e.attempts + 1)

QueuedIsHeld ==
    \A t \in Tasks \ Wrapped : answer[t] = "queued" => Held(t, 0, 0)

QueueInvariant ==
    /\ TypeOK
    /\ EarlierAttemptsRan /\ GivenUpOnlyAfterLastRetry
    /\ RemovedWasPushed /\ QueuedIsHeld

------------------------------------------------------------------------------
(***************************************************************************)
(* The steps that move envelopes                                           *)
(***************************************************************************)

LEMMA EnqueuedFacts ==
    ASSUME TypeOK, NEW t \in Tasks, EnqueueTask(t)
    PROVE  LET e == [task |-> t, attempts |-> 0] IN
           /\ e \in Envelope /\ e.task = t /\ e.attempts = 0
           /\ ready' \in Seq(Envelope) /\ Elements(ready)' = Elements(ready) \cup {e}
<1> DEFINE e == [task |-> t, attempts |-> 0]
<1>1. e \in Envelope /\ e.task = t /\ e.attempts = 0
  BY RetriesAssumption DEF Envelope
<1>2. ready \in Seq(Envelope) /\ ready' = Append(ready, e)
  BY DEF TypeOK, EnqueueTask
<1>3. Append(ready, e) \in Seq(Envelope) /\ Elements(Append(ready, e)) = Elements(ready) \cup {e}
  <2> HIDE DEF e
  <2>1. QED
    BY <1>1, <1>2, ElementsAppend
<1>4. QED
  BY <1>1, <1>2, <1>3 DEF Elements

LEMMA PushedFacts ==
    ASSUME TypeOK, NEW w \in Workers, PushDue(w)
    PROVE  ready' \in Seq(Envelope) /\ Elements(ready)' = Elements(ready) \cup batch[w]
<1>1. PICK s \in Orders(batch[w]) : ready' = ready \o s
  BY DEF PushDue
<1>2. batch[w] \in SUBSET Envelope /\ ready \in Seq(Envelope)
  BY DEF TypeOK
<1>3. s \in Seq(Envelope) /\ Elements(s) = batch[w]
  BY <1>2, OrdersAreSequences
<1>4. ready \o s \in Seq(Envelope) /\ Elements(ready \o s) = Elements(ready) \cup Elements(s)
  BY <1>2, <1>3, ElementsConcat, ConcatProperties
<1>5. QED
  BY <1>1, <1>3, <1>4 DEF Elements

LEMMA PoppedFacts ==
    ASSUME TypeOK, NEW w \in Workers, PopTask(w)
    PROVE  /\ Head(ready) \in Envelope /\ ready' \in Seq(Envelope)
           /\ Elements(ready) = {Head(ready)} \cup Elements(ready)'
<1>1. ready \in Seq(Envelope) /\ ready # <<>> /\ ready' = Tail(ready)
  BY DEF TypeOK, PopTask
<1>2. QED
  BY <1>1, ElementsPopped DEF Elements

LEMMA QueuedAreEnvelopes ==
    ASSUME TypeOK PROVE \A e \in Elements(ready) \cup scheduled : e \in Envelope
<1>1. ready \in Seq(Envelope) /\ scheduled \subseteq Envelope
  BY DEF TypeOK
<1>2. DOMAIN ready = 1 .. Len(ready) /\ \A i \in 1 .. Len(ready) : ready[i] \in Envelope
  BY <1>1, LenProperties, ElementOfSeq
<1>3. QED
  BY <1>1, <1>2 DEF Elements

\* Whose envelope a worker runs, it is one.
LEMMA RunningIsEnvelope ==
    ASSUME TypeOK, NEW w \in Workers, pc[w] = "run"
    PROVE  current[w] \in Envelope /\ current[w].task \in Tasks
           /\ current[w].attempts \in 0..MaxRetries
  BY DEF TypeOK, Envelope

LEMMA NoTaskIsNoEnvelope == NoTask \notin Envelope
  BY NoTaskAssumption DEF Envelope

------------------------------------------------------------------------------
(***************************************************************************)
(* Types                                                                   *)
(***************************************************************************)

LEMMA TypeInit == Init => TypeOK
  BY RetriesAssumption, BoundsAssumption DEF Init, TypeOK, Envelope

\* A handler's end leaves the worker free, and nothing else of it changes.
LEMMA ReleasedTypes ==
    ASSUME TypeOK, NEW w \in Workers, Release(w)
    PROVE  /\ pc' \in [Workers -> {"drain", "push", "remove", "pop", "run"}]
           /\ current' \in [Workers -> Envelope \cup {NoTask}]
           /\ \A v \in Workers : (current'[v] = NoTask) <=> (pc'[v] # "run")
  BY DEF TypeOK, Release

\* A drain that ends, by a crash or a failing command, leaves its types.
LEMMA AbandonedTypes ==
    ASSUME TypeOK, NEW w \in Workers, AbandonDrain(w)
    PROVE  batch' \in [Workers -> SUBSET Envelope] /\ redrained' \subseteq Tasks
  BY DEF TypeOK, AbandonDrain, TasksOf, Envelope

LEMMA TypeStep == TypeOK /\ [Next]_vars => TypeOK'
<1> SUFFICES ASSUME TypeOK, [Next]_vars PROVE TypeOK'
  OBVIOUS
<1> USE NoTaskIsNoEnvelope
<1>1. ASSUME NEW t \in Tasks, EnqueueTask(t) PROVE TypeOK'
  BY <1>1, EnqueuedFacts DEF TypeOK, EnqueueTask, worker, bounds
<1>2. ASSUME NEW t \in Tasks, EnqueueFails(t) PROVE TypeOK'
  BY <1>2, BoundsAssumption DEF TypeOK, EnqueueFails, redis, worker
<1>3. ASSUME NEW e \in Envelope, BecomeDue(e) PROVE TypeOK'
  BY <1>3 DEF TypeOK, BecomeDue, worker, ghosts, bounds
<1>4. ASSUME NEW w \in Workers, ReadDue(w) PROVE TypeOK'
  <2>1. PICK S \in SUBSET due :
           /\ batch' = [batch EXCEPT ![w] = S]
           /\ pc' = [pc EXCEPT ![w] = IF S = {} THEN "pop" ELSE "push"]
           /\ redrained' = redrained \cup TasksOf({e \in S : ReadByAnother(w, e)})
    BY <1>4 DEF ReadDue
  <2>2. redrained' \subseteq Tasks
    BY <2>1 DEF TypeOK, TasksOf, Envelope
  <2>3. QED
    BY <1>4, <2>1, <2>2 DEF TypeOK, ReadDue, redis, bounds
<1>5. ASSUME NEW w \in Workers, PushDue(w) PROVE TypeOK'
  BY <1>5, PushedFacts DEF TypeOK, PushDue, ghosts, bounds
<1>6. ASSUME NEW w \in Workers, RemoveDue(w) PROVE TypeOK'
  BY <1>6 DEF TypeOK, RemoveDue, ghosts, bounds
<1>7. ASSUME NEW w \in Workers, PopTask(w) PROVE TypeOK'
  <2>1. Head(ready) \in Envelope /\ Head(ready).task \in Tasks /\ ready' \in Seq(Envelope)
    BY <1>7, PoppedFacts DEF Envelope
  <2> DEFINE x == Head(ready)
  <2>2. /\ pc[w] = "pop" /\ UNCHANGED <<scheduled, due, batch, answer, redrained, bounds>>
        /\ \/ /\ pc' = [pc EXCEPT ![w] = "run"] /\ current' = [current EXCEPT ![w] = x]
              /\ runs' = [runs EXCEPT ![x] = IF @ < 2 THEN @ + 1 ELSE 2] /\ ended' = ended
           \/ /\ pc' = [pc EXCEPT ![w] = "drain"] /\ current' = current /\ runs' = runs
              /\ ended' = [ended EXCEPT ![x.task] = @ \cup {"unhandled"}]
    BY <1>7 DEF PopTask
  <2> HIDE DEF x
  <2>3. x \in Envelope /\ x.task \in Tasks
    BY <2>1 DEF x
  <2>4. runs' \in [Envelope -> 0..2]
    <3>1. runs \in [Envelope -> 0..2]
      BY DEF TypeOK
    <3>2. (IF runs[x] < 2 THEN runs[x] + 1 ELSE 2) \in 0..2
      BY <2>3, <3>1
    <3>3. QED
      BY <2>2, <3>1, <3>2
  <2>5. ended' \in [Tasks -> SUBSET {"done", "exhausted", "unhandled", "lost"}]
    BY <2>2, <2>3 DEF TypeOK
  <2>6. /\ pc' \in [Workers -> {"drain", "push", "remove", "pop", "run"}]
        /\ current' \in [Workers -> Envelope \cup {NoTask}]
        /\ \A v \in Workers : (current'[v] = NoTask) <=> (pc'[v] # "run")
    <3>1. CASE pc' = [pc EXCEPT ![w] = "run"] /\ current' = [current EXCEPT ![w] = x]
      BY <2>3, <3>1 DEF TypeOK
    <3>2. CASE pc' = [pc EXCEPT ![w] = "drain"] /\ current' = current
      BY <2>2, <3>2 DEF TypeOK
    <3>3. QED
      BY <2>2, <3>1, <3>2
  <2>7. QED
    BY <2>1, <2>2, <2>4, <2>5, <2>6 DEF TypeOK, bounds
<1>8. ASSUME NEW w \in Workers, PopTimesOut(w) PROVE TypeOK'
  BY <1>8 DEF TypeOK, PopTimesOut, redis, ghosts, bounds
<1>9. ASSUME NEW w \in Workers, HandlerReturns(w) PROVE TypeOK'
  <2>1. current[w].task \in Tasks /\ Release(w)
    BY <1>9, RunningIsEnvelope DEF HandlerReturns
  <2>2. QED
    BY <2>1, <1>9, ReleasedTypes DEF TypeOK, HandlerReturns, redis, bounds
<1>10. ASSUME NEW w \in Workers, HandlerFails(w) PROVE TypeOK'
  <2>1. current[w] \in Envelope /\ current[w].task \in Tasks /\ Release(w)
    BY <1>10, RunningIsEnvelope DEF HandlerFails
  <2>2. CASE current[w].attempts + 1 > MaxRetries
    BY <2>1, <2>2, <1>10, ReleasedTypes DEF TypeOK, HandlerFails, bounds
  <2>3. CASE ~ (current[w].attempts + 1 > MaxRetries)
    <3> DEFINE again == [current[w] EXCEPT !.attempts = @ + 1]
    <3>1. again \in Envelope
      BY <2>1, <2>3, AgainIsAnEnvelope
    <3>2. scheduled' = scheduled \cup {again} /\ due' = due \ {again} /\ ended' = ended
      BY <2>3, <1>10 DEF HandlerFails
    <3> HIDE DEF again
    <3>3. QED
      BY <3>1, <3>2, <2>1, <1>10, ReleasedTypes DEF TypeOK, HandlerFails, bounds
  <2>4. QED
    BY <2>2, <2>3
<1>11. ASSUME NEW w \in Workers, RequeueRaises(w) PROVE TypeOK'
  <2>1. current[w].task \in Tasks /\ Release(w)
    BY <1>11, RunningIsEnvelope DEF RequeueRaises
  <2>2. QED
    BY <2>1, <1>11, ReleasedTypes, BoundsAssumption DEF TypeOK, RequeueRaises, redis
<1>12. ASSUME NEW w \in Workers, Crash(w) PROVE TypeOK'
  <2>1. Release(w) /\ (pc[w] = "run" => current[w].task \in Tasks)
    BY <1>12, RunningIsEnvelope DEF Crash
  <2>2. ended' \in [Tasks -> SUBSET {"done", "exhausted", "unhandled", "lost"}]
    BY <2>1, <1>12 DEF TypeOK, Crash
  <2>3. AbandonDrain(w)
    BY <1>12 DEF Crash
  <2>4. QED
    BY <2>1, <2>2, <2>3, <1>12, ReleasedTypes, AbandonedTypes, BoundsAssumption
    DEF TypeOK, Crash, redis
<1>13. ASSUME NEW w \in Workers, DequeueRaises(w) PROVE TypeOK'
  BY <1>13, AbandonedTypes, BoundsAssumption DEF TypeOK, DequeueRaises, redis
<1>14. CASE UNCHANGED vars
  BY <1>14 DEF TypeOK, vars, redis, worker, ghosts, bounds
<1>15. QED
  BY <1>1, <1>2, <1>3, <1>4, <1>5, <1>6, <1>7, <1>8, <1>9, <1>10, <1>11, <1>12, <1>13, <1>14
  DEF Next, WorkerStep

------------------------------------------------------------------------------
(***************************************************************************)
(* Attempts                                                                *)
(***************************************************************************)

\* What has run has run.
LEMMA RunsGrow ==
    ASSUME TypeOK, [Next]_vars
    PROVE  \A e \in Envelope : runs[e] > 0 => runs'[e] > 0
<1>1. ASSUME NEW w \in Workers, PopTask(w) PROVE \A e \in Envelope : runs[e] > 0 => runs'[e] > 0
  <2>1. runs \in [Envelope -> 0..2] /\ Head(ready) \in Envelope
    BY <1>1, PoppedFacts DEF TypeOK
  <2>2. \/ runs' = [runs EXCEPT ![Head(ready)] = IF @ < 2 THEN @ + 1 ELSE 2]
        \/ runs' = runs
    BY <1>1 DEF PopTask
  <2>3. QED
    BY <2>1, <2>2
<1>2. ASSUME NEW w \in Workers, ReadDue(w) \/ PushDue(w) \/ RemoveDue(w) \/ PopTimesOut(w)
      PROVE  runs' = runs
  BY <1>2 DEF ghosts, ReadDue, PushDue, RemoveDue, PopTimesOut
<1>3. ASSUME NEW w \in Workers,
             \/ HandlerReturns(w) \/ HandlerFails(w)
             \/ DequeueRaises(w) \/ RequeueRaises(w) \/ Crash(w)
      PROVE  runs' = runs
  BY <1>3 DEF HandlerReturns, HandlerFails, DequeueRaises, RequeueRaises, Crash
<1>4. ASSUME NEW t \in Tasks, EnqueueTask(t) \/ EnqueueFails(t) PROVE runs' = runs
  BY <1>4 DEF EnqueueTask, EnqueueFails
<1>5. ASSUME NEW e \in Envelope, BecomeDue(e) PROVE runs' = runs
  BY <1>5 DEF BecomeDue, ghosts
<1>6. CASE UNCHANGED vars
  BY <1>6 DEF vars, ghosts
<1>7. QED
  BY <1>1, <1>2, <1>3, <1>4, <1>5, <1>6 DEF Next, WorkerStep

LEMMA TriedStays ==
    ASSUME TypeOK, [Next]_vars, NEW e \in Envelope, NEW n \in Nat, Tried(runs, e, n)
    PROVE  Tried(runs', e, n)
<1>1. ASSUME NEW k \in 0..MaxRetries, k < n
      PROVE  runs'[[task |-> e.task, attempts |-> k]] > 0
  <2>1. [task |-> e.task, attempts |-> k] \in Envelope
    BY DEF Envelope
  <2>2. QED
    BY <1>1, <2>1, RunsGrow DEF Tried
<1>2. QED
  BY <1>1 DEF Tried

\* The envelope that is handed over has run now, too.
LEMMA HandedOver ==
    ASSUME TypeOK, NEW w \in Workers, PopTask(w), NEW e \in Envelope, e = Head(ready),
           e.task \in Handled, Tried(runs, e, e.attempts)
    PROVE  Tried(runs', e, e.attempts + 1)
<1>1. e.attempts \in 0..MaxRetries
  BY DEF Envelope
<1>2. runs' = [runs EXCEPT ![e] = IF @ < 2 THEN @ + 1 ELSE 2] /\ runs \in [Envelope -> 0..2]
  BY DEF PopTask, TypeOK
<1>3. [Next]_vars
  BY DEF Next, WorkerStep
<1>4. ASSUME NEW k \in 0..MaxRetries, k < e.attempts + 1
      PROVE  runs'[[task |-> e.task, attempts |-> k]] > 0
  <2> DEFINE earlier == [task |-> e.task, attempts |-> k]
  <2>1. earlier \in Envelope
    BY DEF Envelope
  <2>2. CASE k = e.attempts
    <3>1. earlier = e
      BY <2>2 DEF Envelope
    <3>2. runs'[e] > 0
      BY <1>2
    <3>3. QED
      BY <3>1, <3>2
  <2>3. CASE k < e.attempts
    <3>1. runs[earlier] > 0
      BY <2>3 DEF Tried
    <3>2. QED
      BY <3>1, <2>1, <1>3, RunsGrow
  <2>4. QED
    BY <2>2, <2>3, <1>4, <1>1, RetriesAssumption
<1>5. QED
  BY <1>4 DEF Tried


\* Every envelope of the next state was there before, or is a new task's, or
\* was just handed over, or is the retry of one that ran.
LEMMA EarlierStep ==
    ASSUME TypeOK, EarlierAttemptsRan, [Next]_vars
    PROVE  EarlierAttemptsRan'
<1> DEFINE OK(e) == Tried(runs', e, e.attempts)
           Kept == /\ \A e \in Elements(ready) \cup scheduled : OK(e)
                   /\ \A v \in Workers : \A e \in batch[v] : OK(e)
                   /\ \A v \in Workers : pc[v] = "run" =>
                         Tried(runs', current[v], current[v].attempts + 1)
           Listed == \A e \in Elements(ready)' : OK(e)
           Waiting == \A e \in scheduled' : OK(e)
           Read == \A v \in Workers : \A e \in batch'[v] : OK(e)
           Handed == \A v \in Workers : pc'[v] = "run" =>
                         Tried(runs', current'[v], current'[v].attempts + 1)
<1>1. Kept
  <2>1. ASSUME NEW e \in Elements(ready) \cup scheduled PROVE OK(e)
    <3>1. e \in Envelope /\ e.attempts \in Nat
      BY QueuedAreEnvelopes, RetriesAssumption DEF Envelope
    <3>2. QED
      BY <3>1, TriedStays DEF EarlierAttemptsRan
  <2>2. ASSUME NEW v \in Workers, NEW e \in batch[v] PROVE OK(e)
    <3>1. e \in Envelope /\ e.attempts \in Nat
      BY RetriesAssumption DEF TypeOK, Envelope
    <3>2. QED
      BY <3>1, TriedStays DEF EarlierAttemptsRan
  <2>3. ASSUME NEW v \in Workers, pc[v] = "run"
        PROVE  Tried(runs', current[v], current[v].attempts + 1)
    <3>1. current[v] \in Envelope /\ current[v].attempts + 1 \in Nat
      BY <2>3, RunningIsEnvelope, RetriesAssumption
    <3>2. QED
      BY <2>3, <3>1, TriedStays DEF EarlierAttemptsRan
  <2>4. QED
    BY <2>1, <2>2, <2>3
<1>2. SUFFICES Listed /\ Waiting /\ Read /\ Handed
  BY DEF EarlierAttemptsRan
<1>3. ASSUME NEW w \in Workers, Release(w) PROVE Handed
  BY <1>1, <1>3 DEF Release, TypeOK
<1>4. ASSUME NEW t \in Tasks, EnqueueTask(t) PROVE Listed /\ Waiting /\ Read /\ Handed
  <2>1. OK([task |-> t, attempts |-> 0])
    BY RetriesAssumption DEF Tried
  <2>2. Listed
    BY <1>1, <1>4, <2>1, EnqueuedFacts
  <2>3. QED
    BY <1>1, <1>4, <2>2 DEF EnqueueTask, worker
<1>5. ASSUME NEW t \in Tasks, EnqueueFails(t) PROVE Listed /\ Waiting /\ Read /\ Handed
  BY <1>1, <1>5 DEF EnqueueFails, redis, worker, Elements
<1>6. ASSUME NEW e \in Envelope, BecomeDue(e) PROVE Listed /\ Waiting /\ Read /\ Handed
  BY <1>1, <1>6 DEF BecomeDue, worker, Elements
<1>7. ASSUME NEW w \in Workers, ReadDue(w) PROVE Listed /\ Waiting /\ Read /\ Handed
  <2>1. PICK S \in SUBSET due : /\ batch' = [batch EXCEPT ![w] = S]
                                /\ pc' = [pc EXCEPT ![w] = IF S = {} THEN "pop" ELSE "push"]
    BY <1>7 DEF ReadDue
  <2>2. S \subseteq scheduled
    BY DEF TypeOK
  <2>3. Read /\ Handed
    BY <1>1, <1>7, <2>1, <2>2 DEF TypeOK, ReadDue
  <2>4. QED
    BY <1>1, <1>7, <2>3 DEF ReadDue, redis, Elements
<1>8. ASSUME NEW w \in Workers, PushDue(w) PROVE Listed /\ Waiting /\ Read /\ Handed
  <2>1. Listed
    BY <1>1, <1>8, PushedFacts
  <2>2. QED
    BY <1>1, <1>8, <2>1 DEF TypeOK, PushDue
<1>9. ASSUME NEW w \in Workers, RemoveDue(w) PROVE Listed /\ Waiting /\ Read /\ Handed
  BY <1>1, <1>9 DEF TypeOK, RemoveDue, Elements
<1>10. ASSUME NEW w \in Workers, PopTask(w) PROVE Listed /\ Waiting /\ Read /\ Handed
  <2>1. Head(ready) \in Envelope /\ Elements(ready) = {Head(ready)} \cup Elements(ready)'
    BY <1>10, PoppedFacts
  <2>2. Tried(runs, Head(ready), Head(ready).attempts)
    BY <2>1 DEF EarlierAttemptsRan
  <2>3. CASE Head(ready).task \in Handled
    <3>1. Tried(runs', Head(ready), Head(ready).attempts + 1)
      BY <1>10, <2>1, <2>2, <2>3, HandedOver
    <3>2. QED
      BY <1>1, <1>10, <2>1, <2>3, <3>1 DEF TypeOK, PopTask
  <2>4. CASE ~ (Head(ready).task \in Handled)
    BY <1>1, <1>10, <2>1, <2>4 DEF TypeOK, PopTask
  <2>5. QED
    BY <2>3, <2>4
<1>11. ASSUME NEW w \in Workers, PopTimesOut(w) PROVE Listed /\ Waiting /\ Read /\ Handed
  BY <1>1, <1>11 DEF TypeOK, PopTimesOut, redis, Elements
<1>12. ASSUME NEW w \in Workers, HandlerReturns(w) PROVE Listed /\ Waiting /\ Read /\ Handed
  BY <1>1, <1>3, <1>12 DEF HandlerReturns, redis, Elements
<1>13. ASSUME NEW w \in Workers, HandlerFails(w) PROVE Listed /\ Waiting /\ Read /\ Handed
  <2>1. current[w] \in Envelope /\ current[w].attempts \in 0..MaxRetries
        /\ Tried(runs', current[w], current[w].attempts + 1)
    BY <1>1, <1>13, RunningIsEnvelope DEF HandlerFails
  <2>2. CASE current[w].attempts + 1 > MaxRetries
    BY <1>1, <1>3, <1>13, <2>2 DEF HandlerFails, Elements
  <2>3. CASE ~ (current[w].attempts + 1 > MaxRetries)
    <3> DEFINE again == [current[w] EXCEPT !.attempts = @ + 1]
    <3>1. again.task = current[w].task /\ again.attempts = current[w].attempts + 1
      BY <2>1, <2>3, AgainIsAnEnvelope
    <3>2. scheduled' = scheduled \cup {again} /\ ready' = ready /\ batch' = batch
      BY <1>13, <2>3 DEF HandlerFails
    <3> HIDE DEF again
    <3>3. OK(again)
      BY <2>1, <3>1 DEF Tried
    <3>4. QED
      BY <1>1, <1>3, <1>13, <3>2, <3>3 DEF HandlerFails, Elements
  <2>4. QED
    BY <2>2, <2>3
<1>14. ASSUME NEW w \in Workers, RequeueRaises(w) PROVE Listed /\ Waiting /\ Read /\ Handed
  BY <1>1, <1>3, <1>14 DEF RequeueRaises, redis, Elements
<1>15. ASSUME NEW w \in Workers, Crash(w) PROVE Listed /\ Waiting /\ Read /\ Handed
  BY <1>1, <1>3, <1>15 DEF TypeOK, Crash, AbandonDrain, redis, Elements
<1>16. ASSUME NEW w \in Workers, DequeueRaises(w) PROVE Listed /\ Waiting /\ Read /\ Handed
  BY <1>1, <1>16 DEF TypeOK, DequeueRaises, AbandonDrain, redis, Elements
<1>17. CASE UNCHANGED vars
  BY <1>1, <1>17 DEF vars, redis, worker, Elements
<1>18. QED
  BY <1>4, <1>5, <1>6, <1>7, <1>8, <1>9, <1>10, <1>11, <1>12, <1>13, <1>14, <1>15, <1>16, <1>17
  DEF Next, WorkerStep

\* A task is given up by a worker that ran its last attempt.
LEMMA GivenUpStep ==
    ASSUME TypeOK, EarlierAttemptsRan, GivenUpOnlyAfterLastRetry, [Next]_vars
    PROVE  GivenUpOnlyAfterLastRetry'
<1> SUFFICES ASSUME NEW t \in Tasks, "exhausted" \in ended'[t], NEW n \in 0..MaxRetries
             PROVE  runs'[[task |-> t, attempts |-> n]] > 0
  BY DEF GivenUpOnlyAfterLastRetry
<1>1. [task |-> t, attempts |-> n] \in Envelope
  BY DEF Envelope
<1>2. CASE "exhausted" \in ended[t]
  BY <1>1, <1>2, RunsGrow DEF GivenUpOnlyAfterLastRetry
<1>3. CASE ~ ("exhausted" \in ended[t])
  <2>1. PICK w \in Workers : HandlerFails(w)
    <3> SUFFICES ASSUME \A w \in Workers : ~ HandlerFails(w) PROVE ~ ("exhausted" \in ended'[t])
      OBVIOUS
    <3>1. ASSUME NEW u \in Tasks, EnqueueTask(u) \/ EnqueueFails(u)
          PROVE  ~ ("exhausted" \in ended'[t])
      BY <1>3, <3>1 DEF EnqueueTask, EnqueueFails
    <3>2. ASSUME NEW e \in Envelope, BecomeDue(e) PROVE ~ ("exhausted" \in ended'[t])
      BY <1>3, <3>2 DEF BecomeDue, ghosts
    <3>3. ASSUME NEW w \in Workers, ReadDue(w) \/ PushDue(w) \/ RemoveDue(w) \/ PopTimesOut(w)
          PROVE  ~ ("exhausted" \in ended'[t])
      BY <1>3, <3>3 DEF ReadDue, PushDue, RemoveDue, PopTimesOut, ghosts
    <3>4. ASSUME NEW w \in Workers, PopTask(w) PROVE ~ ("exhausted" \in ended'[t])
      BY <1>3, <3>4 DEF PopTask, TypeOK
    <3>5. ASSUME NEW w \in Workers,
                 HandlerReturns(w) \/ DequeueRaises(w) \/ RequeueRaises(w) \/ Crash(w)
          PROVE  ~ ("exhausted" \in ended'[t])
      BY <1>3, <3>5 DEF HandlerReturns, DequeueRaises, RequeueRaises, Crash, TypeOK
    <3>6. CASE UNCHANGED vars
      BY <1>3, <3>6 DEF vars, ghosts
    <3>7. QED
      BY <3>1, <3>2, <3>3, <3>4, <3>5, <3>6 DEF Next, WorkerStep
  <2>2. current[w] \in Envelope /\ current[w].attempts \in 0..MaxRetries /\ pc[w] = "run"
    BY <2>1, RunningIsEnvelope DEF HandlerFails
  <2>3. current[w].attempts + 1 > MaxRetries /\ current[w].task = t
    BY <1>3, <2>1, <2>2 DEF HandlerFails, TypeOK
  <2>4. Tried(runs, current[w], current[w].attempts + 1)
    BY <2>2 DEF EarlierAttemptsRan
  <2>5. runs[[task |-> t, attempts |-> n]] > 0
    BY <2>2, <2>3, <2>4, RetriesAssumption DEF Tried
  <2>6. QED
    BY <1>1, <2>5, RunsGrow
<1>4. QED
  BY <1>2, <1>3

------------------------------------------------------------------------------
(***************************************************************************)
(* A queued task stays held                                                *)
(***************************************************************************)

\* What is in none of the entries a worker removes stays; for what is, the
\* copy that was pushed stands in.
LEMMA RemovalLeavesACopy ==
    ASSUME TypeOK, RemovedWasPushed, NEW w \in Workers, RemoveDue(w),
           NEW t \in Tasks, NEW r \in Nat, NEW s \in Nat, r <= s, Held(t, r, s)
    PROVE  Held(t, r, s)'
<1> DEFINE Mine == {e \in batch[w] : e.task = t /\ e.attempts >= s}
<1>1. /\ ready' = ready /\ pc' = [pc EXCEPT ![w] = "pop"] /\ pc[w] = "remove"
      /\ current' = current /\ ended' = ended /\ scheduled' = scheduled \ batch[w]
  BY DEF RemoveDue, ghosts
<1>2. \A v \in Workers : pc[v] = "run" => pc'[v] = "run"
  BY <1>1 DEF TypeOK
<1>3. batch[w] \subseteq Envelope /\ \A e \in batch[w] : e.attempts \in Nat
  BY RetriesAssumption DEF TypeOK, Envelope
<1>4. CASE Mine = {}
  BY <1>1, <1>2, <1>4 DEF Held, Elements
<1>5. CASE Mine # {}
  <2>1. PICK m \in Mine : \A f \in Mine : f.attempts <= m.attempts
    BY <1>3, <1>5, MostAttempts
  <2>2. Held(t, m.attempts, m.attempts + 1) /\ m.attempts \in Nat /\ m.attempts >= s
    BY <1>1, <1>3, <2>1 DEF RemovedWasPushed
  <2>3. CASE ended[t] # {}
    BY <1>1, <2>3 DEF Held
  <2>4. ASSUME NEW e \in Elements(ready), e.task = t, e.attempts >= m.attempts
        PROVE  Held(t, r, s)'
    <3>1. e \in Elements(ready)' /\ e.attempts >= r
      BY <1>1, <2>2, <2>4, QueuedAreEnvelopes, RetriesAssumption DEF Elements, Envelope
    <3>2. QED
      BY <2>4, <3>1 DEF Held
  <2>5. ASSUME NEW v \in Workers, pc[v] = "run", current[v].task = t,
               current[v].attempts >= m.attempts
        PROVE  Held(t, r, s)'
    <3>1. pc'[v] = "run" /\ current'[v].task = t /\ current'[v].attempts >= r
      BY <1>1, <1>2, <2>2, <2>5, RunningIsEnvelope, RetriesAssumption
    <3>2. QED
      BY <3>1 DEF Held
  <2>6. ASSUME NEW e \in scheduled, e.task = t, e.attempts >= m.attempts + 1
        PROVE  Held(t, r, s)'
    <3>1. e.attempts \in Nat
      BY QueuedAreEnvelopes, RetriesAssumption DEF Envelope
    <3>2. e.attempts >= s /\ e \notin batch[w]
      BY <2>1, <2>2, <2>6, <3>1
    <3>3. QED
      BY <1>1, <2>6, <3>2 DEF Held
  <2>7. QED
    BY <2>2, <2>3, <2>4, <2>5, <2>6 DEF Held
<1>6. QED
  BY <1>4, <1>5

\* A worker that ends its run leaves the others' alone.
LEMMA OthersRun ==
    ASSUME TypeOK, NEW w \in Workers, Release(w)
    PROVE  \A v \in Workers \ {w} : pc'[v] = pc[v] /\ current'[v] = current[v]
  BY DEF TypeOK, Release

LEMMA EndedGrows ==
    ASSUME TypeOK, NEW u \in Tasks, NEW how, ended' = [ended EXCEPT ![u] = @ \cup {how}]
    PROVE  /\ ended'[u] # {}
           /\ \A t \in Tasks : ended[t] # {} => ended'[t] # {}
<1>1. DOMAIN ended = Tasks
  BY DEF TypeOK
<1>2. QED
  BY <1>1

LEMMA HeldStays ==
    ASSUME TypeOK, RemovedWasPushed, [Next]_vars,
           NEW t \in Tasks, NEW r \in Nat, NEW s \in Nat, r <= s, s <= r + 1, Held(t, r, s)
    PROVE  Held(t, r, s)'
<1>1. ASSUME NEW u \in Tasks, EnqueueTask(u) PROVE Held(t, r, s)'
  BY <1>1, EnqueuedFacts DEF Held, EnqueueTask, worker
<1>2. ASSUME NEW u \in Tasks, EnqueueFails(u) PROVE Held(t, r, s)'
  BY <1>2 DEF Held, EnqueueFails, worker, redis, Elements
<1>3. ASSUME NEW e \in Envelope, BecomeDue(e) PROVE Held(t, r, s)'
  BY <1>3 DEF Held, BecomeDue, worker, ghosts, Elements
<1>4. ASSUME NEW w \in Workers, ReadDue(w) \/ PopTimesOut(w) \/ DequeueRaises(w)
      PROVE  Held(t, r, s)'
  <2>1. /\ ready' = ready /\ scheduled' = scheduled /\ ended' = ended /\ current' = current
        /\ \A v \in Workers : pc[v] = "run" => pc'[v] = "run"
    BY <1>4 DEF TypeOK, ReadDue, PopTimesOut, DequeueRaises, redis, ghosts
  <2>2. QED
    BY <2>1 DEF Held, Elements
<1>5. ASSUME NEW w \in Workers, PushDue(w) PROVE Held(t, r, s)'
  <2>1. /\ scheduled' = scheduled /\ ended' = ended /\ current' = current
        /\ \A v \in Workers : pc[v] = "run" => pc'[v] = "run"
    BY <1>5 DEF TypeOK, PushDue, ghosts
  <2>2. Elements(ready) \subseteq Elements(ready)'
    BY <1>5, PushedFacts
  <2>3. QED
    BY <2>1, <2>2 DEF Held
<1>6. ASSUME NEW w \in Workers, RemoveDue(w) PROVE Held(t, r, s)'
  BY <1>6, RemovalLeavesACopy
<1>7. ASSUME NEW w \in Workers, PopTask(w) PROVE Held(t, r, s)'
  <2>1. Head(ready) \in Envelope /\ Elements(ready) = {Head(ready)} \cup Elements(ready)'
    BY <1>7, PoppedFacts
  <2>2. scheduled' = scheduled /\ pc[w] = "pop"
    BY <1>7 DEF PopTask
  <2>3. CASE Head(ready).task \in Handled
    <3>1. /\ ended' = ended
          /\ pc' = [pc EXCEPT ![w] = "run"] /\ current' = [current EXCEPT ![w] = Head(ready)]
      BY <1>7, <2>3 DEF PopTask
    <3>2. pc'[w] = "run" /\ current'[w] = Head(ready)
      BY <3>1 DEF TypeOK
    <3>3. \A v \in Workers : pc[v] = "run" => pc'[v] = "run" /\ current'[v] = current[v]
      BY <2>2, <3>1 DEF TypeOK
    <3>4. QED
      BY <2>1, <2>2, <3>1, <3>2, <3>3 DEF Held
  <2>4. CASE ~ (Head(ready).task \in Handled)
    <3>1. ended'[Head(ready).task] # {} /\ (ended[t] # {} => ended'[t] # {})
      <4>1. Head(ready).task \in Tasks
        BY <2>1 DEF Envelope
      <4>2. /\ ended \in [Tasks -> SUBSET {"done", "exhausted", "unhandled", "lost"}]
            /\ ended' = [ended EXCEPT ![Head(ready).task] = @ \cup {"unhandled"}]
        BY <1>7, <2>4 DEF PopTask, TypeOK
      <4>3. QED
        BY <4>1, <4>2
    <3>2. /\ current' = current
          /\ \A v \in Workers : pc[v] = "run" => pc'[v] = "run"
      BY <1>7, <2>2, <2>4 DEF PopTask, TypeOK
    <3>3. QED
      BY <2>1, <2>2, <3>1, <3>2 DEF Held
  <2>5. QED
    BY <2>3, <2>4
<1>8. ASSUME NEW w \in Workers, HandlerReturns(w) \/ RequeueRaises(w) PROVE Held(t, r, s)'
  <2>1. /\ current[w].task \in Tasks /\ Release(w)
        /\ ready' = ready /\ scheduled' = scheduled
    BY <1>8, RunningIsEnvelope DEF HandlerReturns, RequeueRaises, redis
  <2>2. ended'[current[w].task] # {} /\ (ended[t] # {} => ended'[t] # {})
    <3>1. \/ ended' = [ended EXCEPT ![current[w].task] = @ \cup {"done"}]
          \/ ended' = [ended EXCEPT ![current[w].task] = @ \cup {"lost"}]
      BY <1>8 DEF HandlerReturns, RequeueRaises
    <3>2. QED
      BY <2>1, <3>1, EndedGrows
  <2>3. QED
    BY <2>1, <2>2, OthersRun DEF Held, Elements
<1>9. ASSUME NEW w \in Workers, HandlerFails(w) PROVE Held(t, r, s)'
  <2>1. /\ current[w] \in Envelope /\ current[w].task \in Tasks
        /\ current[w].attempts \in Nat /\ Release(w) /\ ready' = ready
    BY <1>9, RunningIsEnvelope, RetriesAssumption DEF HandlerFails
  <2>2. CASE current[w].attempts + 1 > MaxRetries
    <3>1. /\ ended'[current[w].task] # {} /\ (ended[t] # {} => ended'[t] # {})
          /\ scheduled' = scheduled
      <4>1. /\ ended' = [ended EXCEPT ![current[w].task] = @ \cup {"exhausted"}]
            /\ scheduled' = scheduled
        BY <1>9, <2>2 DEF HandlerFails
      <4>2. QED
        BY <2>1, <4>1, EndedGrows
    <3>2. QED
      BY <2>1, <3>1, OthersRun DEF Held, Elements
  <2>3. CASE ~ (current[w].attempts + 1 > MaxRetries)
    <3> DEFINE again == [current[w] EXCEPT !.attempts = @ + 1]
    <3>1. again.task = current[w].task /\ again.attempts = current[w].attempts + 1
      BY <2>1, <2>3, AgainIsAnEnvelope
    <3>2. scheduled' = scheduled \cup {again} /\ ended' = ended
      BY <1>9, <2>3 DEF HandlerFails
    <3> HIDE DEF again
    <3>3. CASE pc[w] = "run" /\ current[w].task = t /\ current[w].attempts >= r
      <4>1. again \in scheduled' /\ again.task = t /\ again.attempts >= s
        BY <2>1, <3>1, <3>2, <3>3
      <4>2. QED
        BY <4>1 DEF Held
    <3>4. CASE ~ (pc[w] = "run" /\ current[w].task = t /\ current[w].attempts >= r)
      BY <2>1, <3>2, <3>4, OthersRun DEF Held, Elements
    <3>5. QED
      BY <3>3, <3>4
  <2>4. QED
    BY <2>2, <2>3
<1>10. ASSUME NEW w \in Workers, Crash(w) PROVE Held(t, r, s)'
  <2>1. Release(w) /\ ready' = ready /\ scheduled' = scheduled
    BY <1>10 DEF Crash, redis
  <2>2. ended[t] # {} => ended'[t] # {}
    BY <1>10 DEF Crash, TypeOK
  <2>3. pc[w] = "run" => ended'[current[w].task] # {}
    BY <1>10, RunningIsEnvelope DEF Crash, TypeOK
  <2>4. QED
    BY <2>1, <2>2, <2>3, OthersRun DEF Held, Elements
<1>11. CASE UNCHANGED vars
  BY <1>11 DEF vars, redis, worker, ghosts, Held, Elements
<1>12. QED
  BY <1>1, <1>2, <1>3, <1>4, <1>5, <1>6, <1>7, <1>8, <1>9, <1>10, <1>11 DEF Next, WorkerStep

------------------------------------------------------------------------------
\* The only step into "remove" is the push of the batch; the others leave a
\* batch that is to be removed alone, or end it.
LEMMA HeldInvariant ==
    ASSUME TypeOK, RemovedWasPushed, QueuedIsHeld, [Next]_vars
    PROVE  RemovedWasPushed' /\ QueuedIsHeld'
<1> DEFINE Covered(v) == \A e \in batch'[v] : Held(e.task, e.attempts, e.attempts + 1)'
           Same(v) == pc'[v] = pc[v] /\ batch'[v] = batch[v]
<1>1. ASSUME NEW v \in Workers, pc[v] = "remove", Same(v) PROVE Covered(v)
  <2>1. \A e \in batch[v] : e.task \in Tasks /\ e.attempts \in Nat /\ e.attempts + 1 \in Nat
    BY RetriesAssumption DEF TypeOK, Envelope
  <2>2. \A e \in batch[v] : Held(e.task, e.attempts, e.attempts + 1)
    BY <1>1 DEF RemovedWasPushed
  <2>3. \A e \in batch[v] : Held(e.task, e.attempts, e.attempts + 1)'
    BY <2>1, <2>2, HeldStays
  <2>4. QED
    BY <1>1, <2>3
<1>2. ASSUME NEW v \in Workers, PushDue(v) PROVE Covered(v)
  <2>1. batch' = batch /\ Elements(ready)' = Elements(ready) \cup batch[v]
    BY <1>2, PushedFacts DEF PushDue
  <2>2. \A e \in batch[v] : e.attempts \in Nat
    BY RetriesAssumption DEF TypeOK, Envelope
  <2>3. QED
    BY <2>1, <2>2 DEF Held
<1>3. ASSUME NEW v \in Workers, pc'[v] = "remove"
      PROVE  (pc[v] = "remove" /\ Same(v)) \/ PushDue(v)
  <2>1. ASSUME NEW t \in Tasks, EnqueueTask(t) \/ EnqueueFails(t) PROVE pc' = pc /\ batch' = batch
    BY <2>1 DEF EnqueueTask, EnqueueFails, worker
  <2>2. ASSUME NEW e \in Envelope, BecomeDue(e) PROVE pc' = pc /\ batch' = batch
    BY <2>2 DEF BecomeDue, worker
  <2>3. CASE UNCHANGED vars
    BY <1>3, <2>3 DEF vars, worker
  <2>4. ASSUME NEW w \in Workers, ReadDue(w) \/ RemoveDue(w) \/ PopTimesOut(w)
        PROVE  pc[v] = "remove" /\ Same(v)
    BY <1>3, <2>4 DEF ReadDue, RemoveDue, PopTimesOut, TypeOK
  <2>5. ASSUME NEW w \in Workers, PopTask(w) PROVE pc[v] = "remove" /\ Same(v)
    BY <1>3, <2>5 DEF PopTask, TypeOK
  <2>6. ASSUME NEW w \in Workers, HandlerReturns(w) \/ HandlerFails(w) \/ RequeueRaises(w)
        PROVE  pc[v] = "remove" /\ Same(v)
    <3>1. pc' = [pc EXCEPT ![w] = "drain"] /\ batch' = batch
      BY <2>6 DEF HandlerReturns, HandlerFails, RequeueRaises, Release
    <3>2. QED
      BY <1>3, <3>1 DEF TypeOK
  <2>7. ASSUME NEW w \in Workers, DequeueRaises(w) \/ Crash(w) PROVE pc[v] = "remove" /\ Same(v)
    BY <1>3, <2>7 DEF DequeueRaises, Crash, Release, AbandonDrain, TypeOK
  <2>8. ASSUME NEW w \in Workers, PushDue(w) PROVE (pc[v] = "remove" /\ Same(v)) \/ PushDue(v)
    BY <1>3, <2>8 DEF PushDue, TypeOK
  <2>9. QED
    BY <1>3, <2>1, <2>2, <2>3, <2>4, <2>5, <2>6, <2>7, <2>8 DEF Next, WorkerStep
<1>4. RemovedWasPushed'
  BY <1>1, <1>2, <1>3 DEF RemovedWasPushed
<1>5. ASSUME NEW t \in Tasks \ Wrapped, answer'[t] = "queued" PROVE Held(t, 0, 0)'
  <2>1. CASE answer[t] = "queued"
    <3>1. Held(t, 0, 0)
      BY <2>1 DEF QueuedIsHeld
    <3>2. QED
      BY <3>1, HeldStays
  <2>2. CASE answer[t] # "queued"
    <3>1. EnqueueTask(t)
      <4>1. ASSUME NEW w \in Workers,
                   WorkerStep(w) \/ DequeueRaises(w) \/ RequeueRaises(w) \/ Crash(w)
            PROVE  answer' = answer
        BY <4>1 DEF WorkerStep, ReadDue, PushDue, RemoveDue, PopTask, PopTimesOut,
             HandlerReturns, HandlerFails, DequeueRaises, RequeueRaises, Crash, ghosts
      <4>2. ASSUME NEW e \in Envelope, BecomeDue(e) PROVE answer' = answer
        BY <4>2 DEF BecomeDue, ghosts
      <4>3. ASSUME NEW u \in Tasks, EnqueueFails(u) PROVE FALSE
        BY <1>5, <2>2, <4>3 DEF EnqueueFails, TypeOK
      <4>4. ASSUME NEW u \in Tasks, EnqueueTask(u) PROVE u = t
        BY <1>5, <2>2, <4>4 DEF EnqueueTask, TypeOK
      <4>5. QED
        BY <1>5, <2>2, <4>1, <4>2, <4>3, <4>4 DEF Next, vars, ghosts
    <3>2. PICK e \in Elements(ready)' : e.task = t /\ e.attempts = 0
      BY <3>1, EnqueuedFacts
    <3>3. QED
      BY <3>2 DEF Held
  <2>3. QED
    BY <2>1, <2>2
<1>6. QED
  BY <1>4, <1>5 DEF QueuedIsHeld

------------------------------------------------------------------------------
(***************************************************************************)
(* Theorems                                                                *)
(***************************************************************************)

LEMMA InvariantInit == Init => QueueInvariant
<1> SUFFICES ASSUME Init PROVE QueueInvariant
  OBVIOUS
<1>1. TypeOK
  BY TypeInit
<1>2. Elements(ready) = {}
  BY DEF Init, Elements
<1>3. EarlierAttemptsRan
  BY <1>2 DEF Init, EarlierAttemptsRan
<1>4. GivenUpOnlyAfterLastRetry /\ RemovedWasPushed /\ QueuedIsHeld
  BY DEF Init, GivenUpOnlyAfterLastRetry, RemovedWasPushed, QueuedIsHeld
<1>5. QED
  BY <1>1, <1>3, <1>4 DEF QueueInvariant

LEMMA InvariantStep == QueueInvariant /\ [Next]_vars => QueueInvariant'
  BY TypeStep, EarlierStep, GivenUpStep, HeldInvariant DEF QueueInvariant

\* What is held is somewhere to be seen.
LEMMA HeldIsVisible == QueueInvariant => QueuedTaskNeverVanishes
<1> SUFFICES ASSUME QueueInvariant, NEW t \in Tasks \ Wrapped, answer[t] = "queued"
             PROVE  InRedis(t) \/ Running(t) \/ ended[t] # {}
  BY DEF QueuedTaskNeverVanishes
<1>1. Held(t, 0, 0) /\ TypeOK
  BY DEF QueueInvariant, QueuedIsHeld
<1>2. \A w \in Workers : pc[w] = "run" => current[w] # NoTask
  BY <1>1 DEF TypeOK
<1>3. QED
  BY <1>1, <1>2 DEF Held, InRedis, Running

\* The list and the sorted set hold envelopes within the retry cap, whatever
\* the workers interleave (services/queue.py, services/queue_worker.py).
THEOREM QueueTypes == Spec => []TypeOK
<1>1. Init => QueueInvariant
  BY InvariantInit
<1>2. QueueInvariant /\ [Next]_vars => QueueInvariant'
  BY InvariantStep
<1>3. QueueInvariant => TypeOK
  BY DEF QueueInvariant
<1>4. QED
  BY <1>1, <1>2, <1>3, PTL DEF Spec

\* A task whose enqueue_task returned True is in Redis, in a worker's hands or
\* settled, for any number of workers whose drains overlap and crash anywhere.
THEOREM NothingVanishes == Spec => []QueuedTaskNeverVanishes
<1>1. Init => QueueInvariant
  BY InvariantInit
<1>2. QueueInvariant /\ [Next]_vars => QueueInvariant'
  BY InvariantStep
<1>3. QueueInvariant => QueuedTaskNeverVanishes
  BY HeldIsVisible
<1>4. QED
  BY <1>1, <1>2, <1>3, PTL DEF Spec

\* requeue_if_failed gives a task up only after all MaxRetries + 1 attempts
\* were handed to its handler.
THEOREM NoEarlyGiveUp == Spec => []GivenUpOnlyAfterLastRetry
<1>1. Init => QueueInvariant
  BY InvariantInit
<1>2. QueueInvariant /\ [Next]_vars => QueueInvariant'
  BY InvariantStep
<1>3. QueueInvariant => GivenUpOnlyAfterLastRetry
  BY DEF QueueInvariant
<1>4. QED
  BY <1>1, <1>2, <1>3, PTL DEF Spec

------------------------------------------------------------------------------
(***************************************************************************)
(* Once.  Of a task whose drains were neither cut nor overlapped, one      *)
(* envelope is live: waiting for a drain, in the list, or in a worker's    *)
(* hands in its first run; no envelope of the task has more attempts.      *)
(***************************************************************************)
Pushed(e)   == \E w \in Workers : pc[w] = "remove" /\ e \in batch[w]
InBatch(e)  == \E w \in Workers : e \in batch[w]
Holds(w, e) == pc[w] = "run" /\ current[w] = e
InHands(e)  == \E w \in Workers : Holds(w, e)
Waits(e)    == e \in scheduled /\ ~ Pushed(e)
InList(e)   == e \in Elements(ready)
Live(e)     == InList(e) \/ Waits(e) \/ InHands(e)
Known(e)    == Live(e) \/ InBatch(e) \/ runs[e] > 0

OneDrain(e) ==
    /\ \A v, w \in Workers : e \in batch[v] /\ e \in batch[w] => v = w
    /\ \A w \in Workers : pc[w] = "push" /\ e \in batch[w] => e \in scheduled

OneCopy(e) ==
    /\ OnceIn(ready, e)
    /\ \A v, w \in Workers : Holds(v, e) /\ Holds(w, e) => v = w
    /\ Waits(e) => ~ InList(e)

OneRun(e) ==
    /\ runs[e] <= 1
    /\ InList(e) \/ Waits(e) => runs[e] = 0
    /\ InHands(e) => runs[e] = 1

Latest(e) ==
    Live(e) => \A f \in Envelope : f.task = e.task /\ Known(f) => f.attempts <= e.attempts

Unknown(e) == answer[e.task] = "none" => ~ Known(e)

Once(e) == OneDrain(e) /\ OneCopy(e) /\ OneRun(e) /\ Latest(e) /\ Unknown(e)

OnceInv ==
    /\ \A w \in Workers : pc[w] \notin {"push", "remove"} => batch[w] = {}
    /\ \A e \in Envelope : e.task \in redrained \/ Once(e)

LEMMA SameEnvelope ==
    ASSUME NEW e \in Envelope, NEW f \in Envelope, e.task = f.task, e.attempts = f.attempts
    PROVE  e = f
  BY DEF Envelope

\* What is the task's latest stays so when its envelopes move, or go.
LEMMA LatestKept ==
    ASSUME NEW e \in Envelope, Latest(e), Unknown(e), Live(e)' => Live(e),
           \A f \in Envelope : f.task = e.task /\ Known(f)' => Known(f),
           answer'[e.task] = "none" => answer[e.task] = "none"
    PROVE  Latest(e)' /\ Unknown(e)'
  BY DEF Latest, Unknown

\* Envelopes that nothing has moved.
LEMMA Unmoved ==
    ASSUME NEW e \in Envelope, Once(e), \A f \in Envelope : f.task = e.task => Once(f),
           UNCHANGED <<ready, scheduled, pc, batch, current, runs>>,
           answer'[e.task] = "none" => answer[e.task] = "none"
    PROVE  Once(e)'
<1>1. \A f : /\ InList(f)' = InList(f) /\ Waits(f)' = Waits(f) /\ InBatch(f)' = InBatch(f)
             /\ \A w \in Workers : Holds(w, f)' = Holds(w, f)
  BY DEF InList, Waits, Pushed, InBatch, Holds, Elements
<1>2. \A f : InHands(f)' = InHands(f)
  BY <1>1 DEF InHands
<1>3. \A f : Live(f)' = Live(f) /\ Known(f)' = Known(f)
  BY <1>1, <1>2 DEF Live, Known
<1>4. Latest(e)' /\ Unknown(e)'
  BY <1>3, LatestKept DEF Once
<1>5. OneDrain(e)'
  BY DEF Once, OneDrain
<1>6. OneCopy(e)' /\ OneRun(e)'
  BY <1>1, <1>2 DEF Once, OneCopy, OneRun
<1>7. QED
  BY <1>4, <1>5, <1>6 DEF Once

\* The drains forget no entry that may be pushed twice.
LEMMA RedrainedGrows ==
    ASSUME [Next]_vars PROVE redrained \subseteq redrained'
<1>1. ASSUME NEW t \in Tasks, EnqueueTask(t) \/ EnqueueFails(t) PROVE redrained' = redrained
  BY <1>1 DEF EnqueueTask, EnqueueFails
<1>2. ASSUME NEW e \in Envelope, BecomeDue(e) PROVE redrained' = redrained
  BY <1>2 DEF BecomeDue, ghosts
<1>3. ASSUME NEW w \in Workers, WorkerStep(w) PROVE redrained \subseteq redrained'
  <2>1. ASSUME ReadDue(w) PROVE redrained \subseteq redrained'
    BY <2>1 DEF ReadDue
  <2>2. ASSUME ~ ReadDue(w) PROVE redrained' = redrained
    BY <1>3, <2>2 DEF WorkerStep, PushDue, RemoveDue, PopTask, PopTimesOut,
                      HandlerReturns, HandlerFails, ghosts
  <2>3. QED
    BY <2>1, <2>2
<1>4. ASSUME NEW w \in Workers, DequeueRaises(w) \/ RequeueRaises(w) \/ Crash(w)
      PROVE  redrained \subseteq redrained'
  BY <1>4 DEF DequeueRaises, RequeueRaises, Crash, AbandonDrain
<1>5. CASE UNCHANGED vars
  BY <1>5 DEF vars, ghosts
<1>6. QED
  BY <1>1, <1>2, <1>3, <1>4, <1>5 DEF Next

\* A producer queues the first envelope of a task that has none.
LEMMA OnceEnqueue ==
    ASSUME TypeOK, OnceInv, NEW t \in Tasks, EnqueueTask(t),
           NEW e \in Envelope, Once(e), \A f \in Envelope : f.task = e.task => Once(f)
    PROVE  Once(e)'
<1> DEFINE x == [task |-> t, attempts |-> 0]
<1>1. /\ x \in Envelope /\ x.task = t /\ x.attempts = 0
      /\ ready' = Append(ready, x) /\ ready \in Seq(Envelope)
      /\ Elements(ready)' = Elements(ready) \cup {x}
      /\ answer[t] = "none" /\ answer' = [answer EXCEPT ![t] = "queued"]
      /\ UNCHANGED <<scheduled, pc, batch, current, runs>>
  BY EnqueuedFacts DEF EnqueueTask, worker, TypeOK
<1> HIDE DEF x
<1>2. \A f : /\ Waits(f)' = Waits(f) /\ InBatch(f)' = InBatch(f)
             /\ \A w \in Workers : Holds(w, f)' = Holds(w, f)
             /\ InList(f)' <=> (InList(f) \/ f = x)
  BY <1>1 DEF InList, Waits, Pushed, InBatch, Holds
<1>3. \A f : InHands(f)' = InHands(f)
  BY <1>2 DEF InHands
<1>4. \A f : /\ Live(f)' => Live(f) \/ f = x
             /\ Known(f)' => Known(f) \/ f = x
  BY <1>1, <1>2, <1>3 DEF Live, Known
<1>5. e.task = t => ~ Known(e) /\ runs[e] = 0
  <2>1. e.task = t => ~ Known(e)
    BY <1>1 DEF Once, Unknown
  <2>2. runs[e] \in 0..2
    BY DEF TypeOK
  <2>3. QED
    BY <2>1, <2>2 DEF Known
<1>6. OneDrain(e)'
  BY <1>1 DEF Once, OneDrain
<1>7. CASE e.task = t
  <2>1. ~ InList(e) /\ ~ Waits(e) /\ ~ InHands(e)
    BY <1>5, <1>7 DEF Known, Live
  <2>2. OnceIn(ready', e)
    <3> DEFINE u == <<x>>
    <3>1. u \in Seq(Envelope) /\ ready' = ready \o u
      BY <1>1
    <3>2. OnceIn(u, e)
      BY DEF OnceIn
    <3> HIDE DEF u
    <3>3. OnceIn(ready \o u, e)
      BY <1>1, <2>1, <3>1, <3>2, OnceInConcat DEF Once, OneCopy, InList
    <3>4. QED
      BY <3>1, <3>3
  <2>3. OneCopy(e)' /\ OneRun(e)'
    BY <1>1, <1>2, <1>3, <1>5, <1>7, <2>1, <2>2 DEF Once, OneCopy, OneRun, InHands
  <2>4. answer'[e.task] # "none"
    BY <1>1, <1>7 DEF TypeOK
  <2>5. Latest(e)'
    <3>1. SUFFICES ASSUME Live(e)', NEW f \in Envelope, f.task = e.task, Known(f)'
                   PROVE  f.attempts <= e.attempts
      BY DEF Latest
    <3>2. e = x
      BY <1>4, <1>5, <1>7, <3>1 DEF Known
    <3>3. ~ Known(f)
      BY <1>1, <1>7, <3>1 DEF Once, Unknown
    <3>4. f = x
      BY <1>4, <3>1, <3>3
    <3>5. QED
      BY <1>1, <3>2, <3>4
  <2>6. QED
    BY <1>6, <2>3, <2>4, <2>5 DEF Once, Unknown
<1>8. CASE e.task # t
  <2>1. \A f : f.task = e.task => f # x
    BY <1>1, <1>8
  <2>2. Live(e)' => Live(e)
    BY <1>4, <2>1
  <2>3. answer'[e.task] = answer[e.task]
    BY <1>1, <1>8 DEF TypeOK, Envelope
  <2>4. Latest(e)' /\ Unknown(e)'
    BY <1>4, <2>1, <2>2, <2>3, LatestKept DEF Once
  <2>5. OnceIn(ready', e)
    <3> DEFINE u == <<x>>
    <3>1. u \in Seq(Envelope) /\ ready' = ready \o u
      BY <1>1
    <3>2. OnceIn(u, e) /\ e \notin Elements(u)
      BY <2>1 DEF OnceIn, Elements
    <3> HIDE DEF u
    <3>3. OnceIn(ready \o u, e)
      BY <1>1, <3>1, <3>2, OnceInConcat DEF Once, OneCopy
    <3>4. QED
      BY <3>1, <3>3
  <2>6. InList(e)' <=> InList(e)
    BY <1>2, <2>1
  <2>7. OneCopy(e)' /\ OneRun(e)'
    BY <1>1, <1>2, <1>3, <2>5, <2>6 DEF Once, OneCopy, OneRun
  <2>8. QED
    BY <1>6, <2>4, <2>7 DEF Once
<1>9. QED
  BY <1>7, <1>8

\* A drain reads an entry, alone.
LEMMA OnceRead ==
    ASSUME TypeOK, OnceInv, NEW w \in Workers, ReadDue(w),
           NEW e \in Envelope, e.task \notin redrained', Once(e),
           \A f \in Envelope : f.task = e.task => Once(f)
    PROVE  Once(e)'
<1>1. PICK S \in SUBSET due :
         /\ batch' = [batch EXCEPT ![w] = S]
         /\ pc' = [pc EXCEPT ![w] = IF S = {} THEN "pop" ELSE "push"]
         /\ redrained' = redrained \cup TasksOf({f \in S : ReadByAnother(w, f)})
  BY DEF ReadDue
<1>2. /\ UNCHANGED <<ready, scheduled, current, runs, answer>>
      /\ pc[w] = "drain" /\ batch[w] = {} /\ S \subseteq scheduled
      /\ batch'[w] = S /\ pc'[w] \in {"pop", "push"}
      /\ \A v \in Workers \ {w} : pc'[v] = pc[v] /\ batch'[v] = batch[v]
  BY <1>1 DEF ReadDue, redis, TypeOK, OnceInv
<1>3. e \in S => \A v \in Workers \ {w} : e \notin batch[v]
  <2>1. e \in S /\ ReadByAnother(w, e) => e.task \in redrained'
    BY <1>1 DEF TasksOf
  <2>2. QED
    BY <2>1 DEF ReadByAnother
<1>4. \A f : /\ Pushed(f)' = Pushed(f) /\ InList(f)' = InList(f)
             /\ \A v \in Workers : Holds(v, f)' = Holds(v, f)
  BY <1>2 DEF Pushed, Holds, InList, Elements
<1>5. \A f : Waits(f)' = Waits(f) /\ InHands(f)' = InHands(f)
  BY <1>2, <1>4 DEF Waits, InHands
<1>6. \A f : Live(f)' = Live(f)
  BY <1>4, <1>5 DEF Live
<1>7. \A f : Known(f)' => Known(f)
  <2>1. \A f : InBatch(f)' => InBatch(f) \/ f \in scheduled
    BY <1>2 DEF InBatch
  <2>2. \A f : f \in scheduled => Waits(f) \/ InBatch(f)
    BY DEF Waits, Pushed, InBatch
  <2>3. QED
    BY <1>2, <1>6, <2>1, <2>2 DEF Known, Live
<1>8. Latest(e)' /\ Unknown(e)'
  BY <1>2, <1>6, <1>7, LatestKept DEF Once
<1>9. OneDrain(e)'
  BY <1>2, <1>3 DEF Once, OneDrain
<1>10. OneCopy(e)' /\ OneRun(e)'
  BY <1>2, <1>4, <1>5 DEF Once, OneCopy, OneRun
<1>11. QED
  BY <1>8, <1>9, <1>10 DEF Once

\* The drain pushes what it alone has read: a copy that waited is in the list.
LEMMA OncePush ==
    ASSUME TypeOK, OnceInv, NEW w \in Workers, PushDue(w), NEW e \in Envelope, Once(e),
           \A f \in Envelope : f.task = e.task => Once(f)
    PROVE  Once(e)'
<1>1. PICK s \in Orders(batch[w]) : ready' = ready \o s
  BY DEF PushDue
<1>2. /\ UNCHANGED <<scheduled, batch, current, runs, answer>>
      /\ pc[w] = "push" /\ pc'[w] = "remove"
      /\ \A v \in Workers \ {w} : pc'[v] = pc[v]
      /\ Elements(ready)' = Elements(ready) \cup batch[w]
  BY PushedFacts DEF PushDue, ghosts, TypeOK
<1>3. \A f \in Envelope : f.task = e.task /\ f \in batch[w] => Waits(f)
  <2>1. SUFFICES ASSUME NEW f \in Envelope, f.task = e.task, f \in batch[w] PROVE Waits(f)
    OBVIOUS
  <2>2. OneDrain(f)
    BY <2>1 DEF Once
  <2>3. f \in scheduled /\ \A v \in Workers : f \in batch[v] => v = w
    BY <1>2, <2>1, <2>2 DEF OneDrain
  <2>4. QED
    BY <1>2, <2>3 DEF Waits, Pushed
<1>4. \A f : /\ InBatch(f)' = InBatch(f)
             /\ \A v \in Workers : Holds(v, f)' = Holds(v, f)
             /\ Pushed(f)' <=> (Pushed(f) \/ f \in batch[w])
             /\ InList(f)' <=> (InList(f) \/ f \in batch[w])
  BY <1>2 DEF InBatch, Holds, Pushed, InList
<1>5. \A f : InHands(f)' = InHands(f) /\ (Waits(f)' <=> Waits(f) /\ f \notin batch[w])
  BY <1>2, <1>4 DEF InHands, Waits
<1>6. \A f \in Envelope : f.task = e.task => (Live(f)' => Live(f)) /\ (Known(f)' => Known(f))
  BY <1>2, <1>3, <1>4, <1>5 DEF Live, Known
<1>7. Latest(e)' /\ Unknown(e)'
  BY <1>2, <1>6, LatestKept DEF Once
<1>8. OneDrain(e)'
  BY <1>2 DEF Once, OneDrain
<1>9. OnceIn(ready', e)
  <2>1. /\ batch[w] \in SUBSET Envelope /\ ready \in Seq(Envelope)
        /\ s \in Seq(Envelope) /\ Elements(s) = batch[w] /\ IsFiniteSet(batch[w])
    BY OrdersAreSequences, FiniteEnvelopes, FS_Subset DEF TypeOK
  <2>2. OnceIn(s, e)
    BY <2>1, OrdersHaveOneEach DEF OnceIn
  <2>3. ~ (e \in Elements(ready) /\ e \in Elements(s))
    BY <1>3, <2>1 DEF Once, OneCopy, InList
  <2>4. OnceIn(ready, e)
    BY DEF Once, OneCopy
  <2>5. OnceIn(ready \o s, e)
    BY <2>1, <2>2, <2>3, <2>4, OnceInConcat
  <2>6. QED
    BY <1>1, <2>5
<1>10. OneCopy(e)'
  BY <1>2, <1>4, <1>5, <1>9 DEF Once, OneCopy
<1>11. OneRun(e)'
  BY <1>2, <1>3, <1>4, <1>5 DEF Once, OneRun
<1>12. QED
  BY <1>7, <1>8, <1>10, <1>11 DEF Once

\* ZREM ends the drain: what it takes out was pushed.
LEMMA OnceRemove ==
    ASSUME TypeOK, OnceInv, NEW w \in Workers, RemoveDue(w), NEW e \in Envelope, Once(e),
           \A f \in Envelope : f.task = e.task => Once(f)
    PROVE  Once(e)'
<1>1. /\ UNCHANGED <<ready, current, runs, answer>>
      /\ pc[w] = "remove" /\ pc'[w] = "pop" /\ batch'[w] = {}
      /\ scheduled' = scheduled \ batch[w]
      /\ \A v \in Workers \ {w} : pc'[v] = pc[v] /\ batch'[v] = batch[v]
  BY DEF RemoveDue, ghosts, TypeOK
<1>2. \A f : /\ InBatch(f)' => InBatch(f)
             /\ \A v \in Workers : Holds(v, f)' <=> Holds(v, f)
             /\ InList(f)' <=> InList(f)
  BY <1>1 DEF InBatch, Holds, InList, Elements
<1>3. \A f : Waits(f)' => Waits(f)
  <2>1. SUFFICES ASSUME NEW f, Waits(f)' PROVE Waits(f)
    OBVIOUS
  <2>2. f \in scheduled /\ f \notin batch[w] /\ ~ Pushed(f)'
    BY <1>1, <2>1 DEF Waits
  <2>3. \A v \in Workers : pc[v] = "remove" /\ f \in batch[v] => v # w
    BY <2>2
  <2>4. ~ Pushed(f)
    BY <1>1, <2>2, <2>3 DEF Pushed
  <2>5. QED
    BY <2>2, <2>4 DEF Waits
<1>4. \A f : InHands(f)' <=> InHands(f)
  BY <1>2 DEF InHands
<1>5. \A f : (Live(f)' => Live(f)) /\ (Known(f)' => Known(f))
  BY <1>1, <1>2, <1>3, <1>4 DEF Live, Known
<1>6. Latest(e)' /\ Unknown(e)'
  BY <1>1, <1>5, LatestKept DEF Once
<1>7. OneDrain(e)'
  <2>1. \A v \in Workers : e \in batch'[v] => e \in batch[v] /\ v # w
    BY <1>1
  <2>2. ASSUME NEW v \in Workers, pc'[v] = "push", e \in batch'[v] PROVE e \in scheduled'
    <3>1. e \in batch[v] /\ v # w /\ pc[v] = "push"
      BY <1>1, <2>1, <2>2
    <3>2. e \notin batch[w] /\ e \in scheduled
      BY <3>1 DEF Once, OneDrain
    <3>3. QED
      BY <1>1, <3>2
  <2>3. QED
    BY <2>1, <2>2 DEF Once, OneDrain
<1>8. OneCopy(e)' /\ OneRun(e)'
  BY <1>1, <1>2, <1>3, <1>4 DEF Once, OneCopy, OneRun
<1>9. QED
  BY <1>6, <1>7, <1>8 DEF Once

\* The worker takes an envelope of the list into its hands, for its first run.
LEMMA OncePop ==
    ASSUME TypeOK, OnceInv, NEW w \in Workers, PopTask(w), NEW e \in Envelope, Once(e),
           \A f \in Envelope : f.task = e.task => Once(f)
    PROVE  Once(e)'
<1> DEFINE x == Head(ready)
<1>1. /\ x \in Envelope /\ Elements(ready) = {x} \cup Elements(ready)'
      /\ ready \in Seq(Envelope) /\ ready # <<>> /\ ready' = Tail(ready)
      /\ pc[w] = "pop" /\ UNCHANGED <<scheduled, batch, answer>>
      /\ \A v \in Workers \ {w} : pc'[v] = pc[v] /\ current'[v] = current[v]
      /\ pc'[w] \in {"run", "drain"}
      /\ pc'[w] = "run" => /\ current'[w] = x
                           /\ runs' = [runs EXCEPT ![x] = IF @ < 2 THEN @ + 1 ELSE 2]
      /\ pc'[w] = "drain" => runs' = runs
  <2>1. x \in Envelope /\ Elements(ready) = {x} \cup Elements(ready)'
    BY PoppedFacts
  <2>2. CASE x.task \in Handled
    BY <2>1, <2>2 DEF PopTask, TypeOK
  <2>3. CASE x.task \notin Handled
    BY <2>1, <2>3 DEF PopTask, TypeOK
  <2>4. QED
    BY <2>2, <2>3
<1>2. OnceIn(ready', e) /\ (x = e => ~ InList(e)')
  <2>1. OnceIn(ready, e)
    BY DEF Once, OneCopy
  <2>2. OnceIn(Tail(ready), e) /\ (Head(ready) = e => e \notin Elements(Tail(ready)))
    BY <1>1, <2>1, OnceInPopped
  <2>3. QED
    BY <1>1, <2>2 DEF InList, Elements
<1>3. InList(x)
  BY <1>1 DEF InList
<1> HIDE DEF x
<1>4. \A f : /\ InBatch(f)' <=> InBatch(f)
             /\ Pushed(f)' <=> Pushed(f)
             /\ Holds(w, f)' => f = x
             /\ \A v \in Workers \ {w} : Holds(v, f)' <=> Holds(v, f)
             /\ InList(f)' => InList(f)
  <2>1. \A f : InBatch(f)' <=> InBatch(f)
    BY <1>1 DEF InBatch
  <2>2. \A v \in Workers : pc'[v] = "remove" <=> pc[v] = "remove"
    BY <1>1
  <2>3. \A f : Pushed(f)' <=> Pushed(f)
    BY <1>1, <2>2 DEF Pushed
  <2>4. QED
    BY <1>1, <2>1, <2>3 DEF Holds, InList
<1>5. \A f : (Waits(f)' <=> Waits(f)) /\ (InHands(f)' => InHands(f) \/ f = x)
  BY <1>1, <1>4 DEF Waits, InHands
<1>6. \A f \in Envelope : runs'[f] > 0 => runs[f] > 0 \/ f = x
  BY <1>1 DEF TypeOK
<1>7. \A f \in Envelope : (Live(f)' => Live(f)) /\ (Known(f)' => Known(f))
  BY <1>3, <1>4, <1>5, <1>6 DEF Live, Known
<1>8. Latest(e)' /\ Unknown(e)'
  BY <1>1, <1>7, LatestKept DEF Once
<1>9. OneDrain(e)'
  <2>1. \A v \in Workers : pc'[v] = "push" => pc[v] = "push"
    BY <1>1
  <2>2. QED
    BY <1>1, <2>1 DEF Once, OneDrain
<1>10. CASE e = x
  <2>1. runs[e] = 0 /\ ~ InHands(e) /\ ~ Waits(e)
    BY <1>3, <1>10 DEF Once, OneRun, OneCopy
  <2>2. \A v \in Workers : Holds(v, e)' => v = w
    BY <1>4, <2>1 DEF InHands
  <2>3. /\ InHands(e)' => runs'[e] = 1
        /\ runs'[e] <= 1
    <3>1. pc'[w] = "run" => runs'[e] = 1
      BY <1>1, <1>10, <2>1 DEF TypeOK
    <3>2. pc'[w] = "drain" => runs'[e] = 0
      BY <1>1, <2>1
    <3>3. InHands(e)' => pc'[w] = "run"
      BY <2>2 DEF InHands, Holds
    <3>4. runs'[e] = 0 \/ runs'[e] = 1
      BY <1>1, <3>1, <3>2
    <3>5. QED
      BY <3>1, <3>3, <3>4
  <2>4. OneCopy(e)' /\ OneRun(e)'
    BY <1>2, <1>5, <1>10, <2>1, <2>2, <2>3 DEF OneCopy, OneRun
  <2>5. QED
    BY <1>8, <1>9, <2>4 DEF Once
<1>11. CASE e # x
  <2>1. runs'[e] = runs[e]
    BY <1>1, <1>11 DEF TypeOK
  <2>2. \A v \in Workers : Holds(v, e)' => Holds(v, e)
    BY <1>4, <1>11
  <2>3. OneCopy(e)' /\ OneRun(e)'
    BY <1>2, <1>4, <1>5, <1>11, <2>1, <2>2 DEF Once, OneCopy, OneRun
  <2>4. QED
    BY <1>8, <1>9, <2>3 DEF Once
<1>12. QED
  BY <1>10, <1>11

\* A worker drops what it holds, or ends its drain: of an entry that it has not
\* pushed the copy waits on.
LEMMA OnceDropped ==
    ASSUME TypeOK, OnceInv, NEW w \in Workers,
           UNCHANGED <<ready, scheduled, runs, answer>>,
           \A v \in Workers \ {w} :
              pc'[v] = pc[v] /\ batch'[v] = batch[v] /\ current'[v] = current[v],
           pc'[w] = "drain",
           NEW e \in Envelope, \A f \in Envelope : f.task = e.task => Once(f),
           batch'[w] = {},
           \A f \in batch[w] : pc[w] = "remove" => f.task # e.task
    PROVE  Once(e)'
<1>1. \A f \in Envelope : f.task = e.task =>
         /\ InBatch(f)' => InBatch(f)
         /\ InList(f)' <=> InList(f)
         /\ Pushed(f) => Pushed(f)'
         /\ \A v \in Workers : Holds(v, f)' => Holds(v, f)
  <2>1. SUFFICES ASSUME NEW f \in Envelope, f.task = e.task
                 PROVE  /\ InBatch(f)' => InBatch(f)
                        /\ InList(f)' <=> InList(f)
                        /\ Pushed(f) => Pushed(f)'
                        /\ \A v \in Workers : Holds(v, f)' => Holds(v, f)
    OBVIOUS
  <2>2. InBatch(f)' => InBatch(f)
    BY DEF InBatch
  <2>3. InList(f)' <=> InList(f)
    BY DEF InList, Elements
  <2>4. \A v \in Workers : Holds(v, f)' => Holds(v, f)
    BY DEF Holds
  <2>5. \A v \in Workers : pc[v] = "remove" /\ f \in batch[v] => v # w
    BY <2>1
  <2>6. Pushed(f) => Pushed(f)'
    BY <2>5 DEF Pushed
  <2>7. QED
    BY <2>2, <2>3, <2>4, <2>6
<1>2. \A f \in Envelope : f.task = e.task =>
         (Waits(f)' => Waits(f)) /\ (InHands(f)' => InHands(f))
  BY <1>1 DEF Waits, InHands
<1>3. \A f \in Envelope : f.task = e.task =>
         (Live(f)' => Live(f)) /\ (Known(f)' => Known(f))
  BY <1>1, <1>2 DEF Live, Known
<1>4. Latest(e)' /\ Unknown(e)'
  BY <1>3, LatestKept DEF Once
<1>5. OneDrain(e)'
  <2>1. \A v \in Workers : e \in batch'[v] => e \in batch[v] /\ pc'[v] = pc[v]
    OBVIOUS
  <2>2. OneDrain(e)
    BY DEF Once
  <2>3. QED
    BY <2>1, <2>2 DEF OneDrain
<1>6. OneCopy(e)' /\ OneRun(e)'
  <2>1. OneCopy(e) /\ OneRun(e)
    BY DEF Once
  <2>2. QED
    BY <1>1, <1>2, <2>1 DEF OneCopy, OneRun
<1>7. QED
  BY <1>4, <1>5, <1>6 DEF Once

\* The worker ends a run and its envelope goes.
LEMMA OnceReleased ==
    ASSUME TypeOK, OnceInv, NEW w \in Workers, pc[w] = "run", Release(w),
           UNCHANGED <<ready, scheduled, batch, runs, answer>>,
           NEW e \in Envelope, \A f \in Envelope : f.task = e.task => Once(f)
    PROVE  Once(e)'
<1>1. /\ pc'[w] = "drain" /\ batch'[w] = {}
      /\ \A v \in Workers \ {w} :
            pc'[v] = pc[v] /\ batch'[v] = batch[v] /\ current'[v] = current[v]
  BY DEF Release, TypeOK, OnceInv
<1>2. QED
  BY <1>1, OnceDropped

\* A failed attempt is followed by the next one, which nothing has known yet.
LEMMA OnceRetried ==
    ASSUME TypeOK, OnceInv, NEW w \in Workers, HandlerFails(w),
           ~ (current[w].attempts + 1 > MaxRetries),
           NEW e \in Envelope, Once(e), \A f \in Envelope : f.task = e.task => Once(f)
    PROVE  Once(e)'
<1>0. PICK c \in Envelope : c = current[w]
  BY RunningIsEnvelope DEF HandlerFails
<1> DEFINE x == [c EXCEPT !.attempts = @ + 1]
<1>1. /\ c = current[w] /\ c.attempts \in Nat
      /\ pc[w] = "run" /\ pc'[w] = "drain"
      /\ \A v \in Workers \ {w} : pc'[v] = pc[v] /\ current'[v] = current[v]
      /\ UNCHANGED <<ready, batch, answer, runs>>
      /\ scheduled' = scheduled \cup {x}
  BY <1>0, RunningIsEnvelope, RetriesAssumption DEF HandlerFails, Release, TypeOK
<1>2. x \in Envelope /\ x.task = c.task /\ x.attempts = c.attempts + 1
  BY <1>1, AgainIsAnEnvelope
<1>3. Holds(w, c) /\ InHands(c)
  BY <1>1 DEF Holds, InHands
<1> HIDE DEF x
<1>4. \A v \in Workers : pc'[v] \in {"push", "remove"} <=> pc[v] \in {"push", "remove"}
  BY <1>1
<1>5. \A f : /\ InBatch(f)' <=> InBatch(f)
             /\ Pushed(f)' <=> Pushed(f)
             /\ InList(f)' <=> InList(f)
             /\ ~ Holds(w, f)'
             /\ \A v \in Workers \ {w} : Holds(v, f)' <=> Holds(v, f)
  <2>1. \A v \in Workers : pc'[v] = "remove" <=> pc[v] = "remove"
    BY <1>1
  <2>2. QED
    BY <1>1, <2>1 DEF InBatch, Pushed, InList, Holds, Elements
<1>6. \A f : InHands(f)' => InHands(f)
  BY <1>5 DEF InHands
<1>7. \A f : Waits(f)' => Waits(f) \/ f = x
  BY <1>1, <1>5 DEF Waits
<1>8. \A f : (Live(f)' => Live(f) \/ f = x) /\ (Known(f)' => Known(f) \/ f = x)
  BY <1>1, <1>5, <1>6, <1>7 DEF Live, Known
<1>9. OneDrain(e)'
  <2>1. \A v \in Workers : pc'[v] = "push" => pc[v] = "push"
    BY <1>1
  <2>2. QED
    BY <1>1, <2>1 DEF Once, OneDrain
<1>10. \A v \in Workers : Holds(v, e)' => Holds(v, e)
  BY <1>5
<1>11. CASE e.task # c.task
  <2>1. \A f \in Envelope : f.task = e.task => f # x
    BY <1>2, <1>11
  <2>2. Latest(e)' /\ Unknown(e)'
    BY <1>1, <1>8, <2>1, LatestKept DEF Once
  <2>3. Waits(e)' => Waits(e)
    BY <1>7, <2>1
  <2>4. OneCopy(e)' /\ OneRun(e)'
    BY <1>1, <1>5, <1>6, <1>10, <2>3 DEF Once, OneCopy, OneRun
  <2>5. QED
    BY <1>9, <2>2, <2>4 DEF Once
<1>12. CASE e.task = c.task
  <2>1. Live(c) /\ Known(c)
    BY <1>3 DEF Live, Known
  <2>2. Once(c)
    BY <1>1, <1>12
  <2>3. \A f \in Envelope : f.task = c.task /\ Known(f) => f.attempts <= c.attempts
    BY <1>1, <2>1, <2>2 DEF Once, Latest
  <2>4. \A f \in Envelope : f.task = c.task /\ Known(f)' => f.attempts <= x.attempts
    <3>1. \A f \in Envelope : f.attempts \in Nat
      BY RetriesAssumption DEF Envelope
    <3>2. QED
      BY <1>1, <1>2, <1>8, <2>3, <3>1
  <2>5. ~ Known(x)
    BY <1>1, <1>2, <2>3
  <2>6. \A f \in Envelope : f.task = c.task /\ Live(f) => f = c
    <3>1. SUFFICES ASSUME NEW f \in Envelope, f.task = c.task, Live(f) PROVE f = c
      OBVIOUS
    <3>2. Once(f) /\ Known(f)
      BY <1>12, <3>1 DEF Known
    <3>3. f.attempts <= c.attempts /\ c.attempts <= f.attempts
      BY <1>1, <2>1, <2>3, <3>1, <3>2 DEF Once, Latest
    <3>4. f.attempts \in Nat
      BY RetriesAssumption DEF Envelope
    <3>5. QED
      BY <1>1, <3>1, <3>3, <3>4, SameEnvelope
  <2>7. ~ Live(c)'
    <3>1. ~ InList(c) /\ ~ Waits(c) /\ c # x
      <4>1. runs[c] = 1
        BY <1>3, <2>2 DEF Once, OneRun
      <4>2. QED
        BY <1>1, <1>2, <2>2, <4>1 DEF Once, OneRun
    <3>2. ~ InHands(c)'
      <4>1. \A v \in Workers : Holds(v, c) => v = w
        BY <1>3, <2>2 DEF Once, OneCopy
      <4>2. \A v \in Workers : ~ Holds(v, c)'
        BY <1>5, <4>1
      <4>3. QED
        BY <4>2 DEF InHands
    <3>3. QED
      BY <1>5, <1>7, <3>1, <3>2 DEF Live
  <2>8. Latest(e)'
    <3>1. SUFFICES ASSUME Live(e)', NEW f \in Envelope, f.task = e.task, Known(f)'
                   PROVE  f.attempts <= e.attempts
      BY DEF Latest
    <3>2. e = x
      BY <1>8, <1>12, <2>6, <2>7, <3>1
    <3>3. QED
      BY <1>12, <2>4, <3>1, <3>2
  <2>9. Unknown(e)'
    <3>1. answer[c.task] # "none"
      BY <1>1, <2>1, <2>2 DEF Once, Unknown
    <3>2. QED
      BY <1>1, <1>12, <3>1 DEF Unknown
  <2>10. OneCopy(e)' /\ OneRun(e)'
    <3>1. CASE e = x
      <4>1. ~ InList(e) /\ ~ InHands(e) /\ ~ (runs[e] > 0)
        BY <2>5, <3>1 DEF Known, Live
      <4>2. runs[e] = 0
        <5>1. runs[e] \in 0..2
          BY DEF TypeOK
        <5>2. QED
          BY <4>1, <5>1
      <4>3. OneCopy(e)'
        BY <1>1, <1>5, <1>10, <4>1 DEF Once, OneCopy
      <4>4. OneRun(e)'
        BY <1>1, <1>6, <4>1, <4>2 DEF OneRun
      <4>5. QED
        BY <4>3, <4>4
    <3>2. CASE e # x
      <4>1. Waits(e)' => Waits(e)
        BY <1>7, <3>2
      <4>2. QED
        BY <1>1, <1>5, <1>6, <1>10, <4>1 DEF Once, OneCopy, OneRun
    <3>3. QED
      BY <3>1, <3>2
  <2>11. QED
    BY <1>9, <2>8, <2>9, <2>10 DEF Once
<1>13. QED
  BY <1>11, <1>12

\* A crash or a failing command cuts a drain: what it had pushed is marked.
LEMMA OnceAbandoned ==
    ASSUME TypeOK, OnceInv, NEW w \in Workers, DequeueRaises(w) \/ Crash(w),
           NEW e \in Envelope, e.task \notin redrained',
           \A f \in Envelope : f.task = e.task => Once(f)
    PROVE  Once(e)'
<1>1. /\ UNCHANGED <<ready, scheduled, runs, answer>>
      /\ AbandonDrain(w) /\ pc' = [pc EXCEPT ![w] = "drain"]
  BY DEF DequeueRaises, Crash, Release, redis
<1>2. \A v \in Workers \ {w} : current'[v] = current[v]
  BY DEF DequeueRaises, Crash, Release, TypeOK
<1>3. /\ pc'[w] = "drain" /\ batch'[w] = {}
      /\ \A v \in Workers \ {w} :
            pc'[v] = pc[v] /\ batch'[v] = batch[v] /\ current'[v] = current[v]
  BY <1>1, <1>2 DEF AbandonDrain, TypeOK
<1>4. \A f \in batch[w] : pc[w] = "remove" => f.task \in redrained'
  BY <1>1 DEF AbandonDrain, TasksOf
<1>5. \A f \in batch[w] : pc[w] = "remove" => f.task # e.task
  BY <1>4
<1>6. QED
  BY <1>1, <1>3, <1>5, OnceDropped

LEMMA OnceStep ==
    ASSUME TypeOK, OnceInv, Next, NEW e \in Envelope, e.task \notin redrained'
    PROVE  Once(e)'
<1>1. \A f \in Envelope : f.task = e.task => Once(f)
  BY RedrainedGrows DEF OnceInv
<1>2. Once(e)
  BY <1>1
<1>3. ASSUME NEW t \in Tasks, EnqueueTask(t) PROVE Once(e)'
  BY <1>1, <1>2, <1>3, OnceEnqueue
<1>4. ASSUME NEW t \in Tasks, EnqueueFails(t) PROVE Once(e)'
  <2>1. /\ UNCHANGED <<ready, scheduled, pc, batch, current, runs>>
        /\ answer'[e.task] = "none" => answer[e.task] = "none"
    BY <1>4 DEF EnqueueFails, redis, worker, TypeOK
  <2>2. QED
    BY <1>1, <1>2, <2>1, Unmoved
<1>5. ASSUME NEW g \in Envelope, BecomeDue(g) PROVE Once(e)'
  <2>1. UNCHANGED <<ready, scheduled, pc, batch, current, runs, answer>>
    BY <1>5 DEF BecomeDue, worker, ghosts
  <2>2. QED
    BY <1>1, <1>2, <2>1, Unmoved
<1>6. ASSUME NEW w \in Workers, ReadDue(w) PROVE Once(e)'
  BY <1>1, <1>2, <1>6, OnceRead
<1>7. ASSUME NEW w \in Workers, PushDue(w) PROVE Once(e)'
  BY <1>1, <1>2, <1>7, OncePush
<1>8. ASSUME NEW w \in Workers, RemoveDue(w) PROVE Once(e)'
  BY <1>1, <1>2, <1>8, OnceRemove
<1>9. ASSUME NEW w \in Workers, PopTask(w) PROVE Once(e)'
  BY <1>1, <1>2, <1>9, OncePop
<1>10. ASSUME NEW w \in Workers, PopTimesOut(w) PROVE Once(e)'
  <2>1. /\ UNCHANGED <<ready, scheduled, runs, answer>>
        /\ pc[w] = "pop" /\ pc'[w] = "drain" /\ batch'[w] = {}
        /\ \A v \in Workers \ {w} :
              pc'[v] = pc[v] /\ batch'[v] = batch[v] /\ current'[v] = current[v]
    BY <1>10 DEF PopTimesOut, redis, ghosts, TypeOK, OnceInv
  <2>2. QED
    BY <1>1, <2>1, OnceDropped
<1>11. ASSUME NEW w \in Workers, HandlerReturns(w) \/ RequeueRaises(w) PROVE Once(e)'
  <2>1. /\ UNCHANGED <<ready, scheduled, batch, runs, answer>>
        /\ pc[w] = "run" /\ Release(w)
    BY <1>11 DEF HandlerReturns, RequeueRaises, redis
  <2>2. QED
    BY <1>1, <2>1, OnceReleased
<1>12. ASSUME NEW w \in Workers, HandlerFails(w) PROVE Once(e)'
  <2>1. CASE current[w].attempts + 1 > MaxRetries
    <3>1. /\ UNCHANGED <<ready, scheduled, batch, runs, answer>>
          /\ pc[w] = "run" /\ Release(w)
      BY <1>12, <2>1 DEF HandlerFails
    <3>2. QED
      BY <1>1, <3>1, OnceReleased
  <2>2. CASE ~ (current[w].attempts + 1 > MaxRetries)
    BY <1>1, <1>2, <1>12, <2>2, OnceRetried
  <2>3. QED
    BY <2>1, <2>2
<1>13. ASSUME NEW w \in Workers, DequeueRaises(w) \/ Crash(w) PROVE Once(e)'
  BY <1>1, <1>13, OnceAbandoned
<1>14. QED
  BY <1>3, <1>4, <1>5, <1>6, <1>7, <1>8, <1>9, <1>10, <1>11, <1>12, <1>13
  DEF Next, WorkerStep

\* A batch is read into the hands of a drain and goes with it.
LEMMA BatchStep ==
    ASSUME TypeOK, OnceInv, Next, NEW v \in Workers, pc'[v] \notin {"push", "remove"}
    PROVE  batch'[v] = {}
<1>1. pc[v] \notin {"push", "remove"} => batch[v] = {}
  BY DEF OnceInv
<1>2. ASSUME NEW t \in Tasks, EnqueueTask(t) \/ EnqueueFails(t) PROVE batch'[v] = {}
  BY <1>1, <1>2 DEF EnqueueTask, EnqueueFails, worker
<1>3. ASSUME NEW e \in Envelope, BecomeDue(e) PROVE batch'[v] = {}
  BY <1>1, <1>3 DEF BecomeDue, worker
<1>4. ASSUME NEW w \in Workers, ReadDue(w) PROVE batch'[v] = {}
  BY <1>1, <1>4 DEF ReadDue, TypeOK
<1>5. ASSUME NEW w \in Workers, PushDue(w) \/ RemoveDue(w) PROVE batch'[v] = {}
  BY <1>1, <1>5 DEF PushDue, RemoveDue, TypeOK
<1>6. ASSUME NEW w \in Workers, PopTask(w) PROVE batch'[v] = {}
  <2>1. batch' = batch /\ (pc[v] \in {"push", "remove"} => pc'[v] = pc[v])
    BY <1>6 DEF PopTask, TypeOK
  <2>2. QED
    BY <1>1, <2>1
<1>7. ASSUME NEW w \in Workers, PopTimesOut(w) PROVE batch'[v] = {}
  BY <1>1, <1>7 DEF PopTimesOut, TypeOK
<1>8. ASSUME NEW w \in Workers, HandlerReturns(w) \/ HandlerFails(w) \/ RequeueRaises(w)
      PROVE  batch'[v] = {}
  BY <1>1, <1>8 DEF HandlerReturns, HandlerFails, RequeueRaises, Release, TypeOK
<1>9. ASSUME NEW w \in Workers, DequeueRaises(w) \/ Crash(w) PROVE batch'[v] = {}
  BY <1>1, <1>9 DEF DequeueRaises, Crash, AbandonDrain, Release, TypeOK
<1>10. QED
  BY <1>2, <1>3, <1>4, <1>5, <1>6, <1>7, <1>8, <1>9 DEF Next, WorkerStep

LEMMA OnceInvStep == TypeOK /\ OnceInv /\ [Next]_vars => OnceInv'
<1> SUFFICES ASSUME TypeOK, OnceInv, [Next]_vars PROVE OnceInv'
  OBVIOUS
<1>1. CASE Next
  <2>1. \A v \in Workers : pc'[v] \notin {"push", "remove"} => batch'[v] = {}
    BY <1>1, BatchStep
  <2>2. \A e \in Envelope : e.task \in redrained' \/ Once(e)'
    BY <1>1, OnceStep
  <2>3. QED
    BY <2>1, <2>2 DEF OnceInv
<1>2. CASE UNCHANGED vars
  <2>1. /\ UNCHANGED <<ready, scheduled, pc, batch, current, runs, answer, redrained>>
    BY <1>2 DEF vars, redis, worker, ghosts
  <2>2. ASSUME NEW e \in Envelope, e.task \notin redrained PROVE Once(e)'
    <3>1. \A f \in Envelope : f.task = e.task => Once(f)
      BY <2>2 DEF OnceInv
    <3>2. QED
      BY <2>1, <3>1, Unmoved
  <2>3. QED
    BY <2>1, <2>2 DEF OnceInv
<1>3. QED
  BY <1>1, <1>2

LEMMA OnceInit == Init => OnceInv
<1> SUFFICES ASSUME Init PROVE OnceInv
  OBVIOUS
<1>1. Elements(ready) = {} /\ DOMAIN ready = {}
  BY DEF Init, Elements
<1>2. ASSUME NEW e \in Envelope PROVE Once(e)
  <2>1. ~ InList(e) /\ ~ Waits(e) /\ ~ InHands(e) /\ ~ InBatch(e) /\ runs[e] = 0
    BY <1>1 DEF Init, InList, Waits, InHands, Holds, InBatch
  <2>2. ~ Live(e) /\ ~ Known(e)
    BY <2>1 DEF Live, Known
  <2>3. OneDrain(e) /\ OneCopy(e)
    BY <1>1, <2>1 DEF Init, OneDrain, OneCopy, OnceIn, InHands, InBatch
  <2>4. OneRun(e)
    BY <2>1 DEF OneRun
  <2>5. QED
    BY <2>2, <2>3, <2>4 DEF Once, Latest, Unknown
<1>3. QED
  BY <1>2 DEF OnceInv, Init

\* An attempt reaches its handler once, for any number of workers, crashes and
\* failing commands, as long as its task's entries were drained by one drain at
\* a time that was not cut between LPUSH and ZREM (services/queue.py:76).
THEOREM NoAttemptTwice == Spec => []EachAttemptRunsOnce
<1>1. Init => TypeOK /\ OnceInv
  BY TypeInit, OnceInit
<1>2. TypeOK /\ OnceInv /\ [Next]_vars => (TypeOK /\ OnceInv)'
  BY TypeStep, OnceInvStep
<1>3. OnceInv => EachAttemptRunsOnce
  BY DEF OnceInv, Once, OneRun, EachAttemptRunsOnce
<1>4. QED
  BY <1>1, <1>2, <1>3, PTL DEF Spec
==============================================================================
