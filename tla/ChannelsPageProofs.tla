-------------------------- MODULE ChannelsPageProofs --------------------------
(***************************************************************************)
(* Proofs about the two parts of the channels page: ChannelsLayout, for    *)
(* any number of channels, threads, calls in flight and failures, and      *)
(* MessageThread, for any number of threads, texts, calls and failures.    *)
(***************************************************************************)
EXTENDS ChannelsLayout, MessageThread, FiniteSetTheorems, SequenceTheorems, TLAPS

------------------------------------------------------------------------------
(***************************************************************************)
(* An arrangement of a set.                                                *)
(***************************************************************************)
\* An arrangement of a set is a sequence of its elements.
LEMMA OrdersOfSubset ==
    ASSUME NEW S, NEW B \in SUBSET S, IsFiniteSet(B), NEW s \in Orders(B)
    PROVE  s \in Seq(S) /\ Elements(s) = B
<1>1. Cardinality(B) \in Nat
  BY FS_CardinalityType
<1>2. s \in [1..Cardinality(B) -> S] /\ Elements(s) = B
  BY DEF Orders
<1>3. QED
  BY <1>1, <1>2, SeqDef

\* No member is in the list twice.
Distinct(s) == \A i, j \in DOMAIN s : s[i] = s[j] => i = j

LEMMA DistinctOrders ==
    ASSUME NEW B, IsFiniteSet(B), NEW s \in Orders(B)
    PROVE  Distinct(s)
<1> DEFINE n == Cardinality(B)
<1>1. n \in Nat
  BY FS_CardinalityType
<1>2. IsFiniteSet(1..n) /\ Cardinality(1..n) = n
  <2>1. \A a, b \in Int : /\ IsFiniteSet(a .. b)
                          /\ Cardinality(a .. b) = IF a > b THEN 0 ELSE b - a + 1
    BY FS_Interval
  <2>2. QED
    BY <1>1, <2>1
<1>3. s \in [1..n -> B] /\ \A x \in B : \E i \in 1..n : s[i] = x
  BY DEF Orders, Elements
<1> HIDE DEF n
<1>4. s \in Surjection(1..n, B)
  BY <1>3 DEF Surjection
<1>5. s \in Injection(1..n, B)
  <2>1. Cardinality(1..n) = Cardinality(B)
    BY <1>2 DEF n
  <2>2. QED
    BY <1>2, <1>4, <2>1, FS_SurjSameCardinalityImpliesInj
<1>6. QED
  BY <1>3, <1>5 DEF Injection, IsInjective, Distinct

------------------------------------------------------------------------------
\* What a call may have been answered with.
Outcome(A) == A \cup {None, Failed}
Answered(r) == r.answer \notin {None, Failed}

LoadCall   == [channel : Channels, late : BOOLEAN, answer : Outcome(Seq(Row))]
CreateCall == [channel : Channels, late : BOOLEAN, answer : Outcome(Row)]
UpdateCall == [thread : Threads, change : Changes, value : BOOLEAN, live : BOOLEAN,
               late : BOOLEAN, answer : Outcome(Row)]

\* Threads are never deleted: the page and the answers hold such that exist.
Exists(t)  == row[t] # None
Known(s)   == \A i \in DOMAIN s : Exists(s[i].id)
Ids(s)     == {s[i].id : i \in DOMAIN s}
Once(s)    == \A i, j \in DOMAIN s : s[i].id = s[j].id => i = j
Of(c, s)   == \A i \in DOMAIN s : Home[s[i].id] = c

RowsOK ==
    /\ row \in [Threads -> Row \cup {None}]
    /\ \A t \in Threads : row[t] # None => row[t].id = t
PageOK ==
    /\ channel \in Channels \cup {None}
    /\ list \in Seq(Row) /\ Known(list)
    /\ open \in Row \cup {None} /\ (open # None => Exists(open.id))
LoadsOK ==
    /\ loads \subseteq LoadCall
    /\ \A r \in loads : Answered(r) =>
          Known(r.answer) /\ Once(r.answer) /\ Of(r.channel, r.answer)
CreatesOK ==
    /\ creates \subseteq CreateCall
    /\ \A r \in creates : Answered(r) => Exists(r.answer.id)
UpdatesOK ==
    /\ updates \subseteq UpdateCall
    /\ \A r \in updates : Exists(r.thread) /\ (Answered(r) => r.answer.id = r.thread)
    /\ open = None => \A r \in updates : ~r.live
CountsOK ==
    /\ others \in 0..MaxOthers /\ failures \in 0..MaxFailures
    /\ crossed \in BOOLEAN

\* A call that is not late is the only one in flight, and what was selected
\* when it was made is selected still.
LoadAlone ==
    \A r \in loads : ~r.late =>
        /\ loads = {r} /\ creates = {} /\ updates = {}
        /\ list = <<>> /\ open = None /\ r.channel = channel
CreateAlone ==
    \A r \in creates : ~r.late =>
        /\ loads = {} /\ creates = {r} /\ updates = {}
        /\ r.channel = channel
        /\ Answered(r) => Home[r.answer.id] = channel /\ r.answer.id \notin Ids(list)
UpdateAlone ==
    \A r \in updates : ~r.late =>
        /\ loads = {} /\ creates = {} /\ updates = {r}
        /\ ~crossed => Home[r.thread] = channel

IInv == RowsOK /\ PageOK /\ LoadsOK /\ CreatesOK /\ UpdatesOK /\ CountsOK
        /\ LoadAlone /\ CreateAlone /\ UpdateAlone /\ PageIsCoherent

LEMMA TypesFollow == IInv => TypeOK
<1> SUFFICES ASSUME IInv PROVE TypeOK
  OBVIOUS
<1>1. /\ \A r \in loads : r.channel \in Channels /\ r.late \in BOOLEAN
      /\ \A r \in creates : r.channel \in Channels /\ r.late \in BOOLEAN
  BY DEF IInv, LoadsOK, CreatesOK, LoadCall, CreateCall
<1>2. \A r \in updates : row[r.thread] # None /\ r.change \in Changes
  BY DEF IInv, UpdatesOK, UpdateCall, Exists
<1>3. QED
  BY <1>1, <1>2 DEF TypeOK, IInv, RowsOK, PageOK, UpdatesOK, CountsOK

------------------------------------------------------------------------------
(***************************************************************************)
(* Calls that are overlapped, left behind or answered                      *)
(***************************************************************************)
LEMMA LateLoads ==
    ASSUME NEW S \in SUBSET LoadCall
    PROVE  /\ Late(S) \subseteq LoadCall
           /\ \A q \in Late(S) : q.late /\ \E r \in S : q.channel = r.channel /\ q.answer = r.answer
<1>1. SUFFICES ASSUME NEW r \in S
               PROVE  LET q == [r EXCEPT !.late = TRUE]
                      IN  q \in LoadCall /\ q.late /\ q.channel = r.channel /\ q.answer = r.answer
  BY DEF Late
<1>2. QED
  BY DEF LoadCall

LEMMA LateCreates ==
    ASSUME NEW S \in SUBSET CreateCall
    PROVE  /\ Late(S) \subseteq CreateCall
           /\ \A q \in Late(S) : q.late /\ \E r \in S : q.channel = r.channel /\ q.answer = r.answer
<1>1. SUFFICES ASSUME NEW r \in S
               PROVE  LET q == [r EXCEPT !.late = TRUE]
                      IN  q \in CreateCall /\ q.late /\ q.channel = r.channel /\ q.answer = r.answer
  BY DEF Late
<1>2. QED
  BY DEF CreateCall

LEMMA LateUpdates ==
    ASSUME NEW S \in SUBSET UpdateCall
    PROVE  /\ Late(S) \subseteq UpdateCall
           /\ \A q \in Late(S) : q.late /\ \E r \in S : q.thread = r.thread /\ q.answer = r.answer
<1>1. SUFFICES ASSUME NEW r \in S
               PROVE  LET q == [r EXCEPT !.late = TRUE]
                      IN  q \in UpdateCall /\ q.late /\ q.thread = r.thread /\ q.answer = r.answer
  BY DEF Late
<1>2. QED
  BY DEF UpdateCall

LEMMA UnmountedUpdates ==
    ASSUME NEW S \in SUBSET UpdateCall
    PROVE  /\ Unmounted(S) \subseteq UpdateCall
           /\ \A q \in Unmounted(S) :
                 /\ ~q.live
                 /\ \E r \in S : /\ q.thread = r.thread /\ q.answer = r.answer /\ q.late = r.late
                                 /\ S = {r} => Unmounted(S) = {q}
<1>1. ASSUME NEW r \in S
      PROVE  LET q == [r EXCEPT !.live = FALSE]
             IN  /\ q \in UpdateCall /\ ~q.live
                 /\ q.thread = r.thread /\ q.answer = r.answer /\ q.late = r.late
  BY DEF UpdateCall
<1>2. ASSUME NEW r \in S, S = {r} PROVE Unmounted(S) = {[r EXCEPT !.live = FALSE]}
  BY <1>2 DEF Unmounted
<1>3. QED
  BY <1>1, <1>2 DEF Unmounted

\* What the server's answer leaves of the calls in flight.
LEMMA WithLoad ==
    ASSUME NEW S \in SUBSET LoadCall, NEW r \in S, NEW a \in Outcome(Seq(Row))
    PROVE  /\ With(S, r, a) \subseteq LoadCall
           /\ \A q \in With(S, r, a) :
                 \/ q \in S \ {r}
                 \/ /\ q.channel = r.channel /\ q.late = r.late /\ q.answer = a
                    /\ S = {r} => With(S, r, a) = {q}
<1> DEFINE q == [r EXCEPT !.answer = a]
<1>1. q \in LoadCall /\ q.channel = r.channel /\ q.late = r.late /\ q.answer = a
  BY DEF LoadCall
<1> HIDE DEF q
<1>2. With(S, r, a) = (S \ {r}) \cup {q}
  BY DEF With, q
<1>3. QED
  BY <1>1, <1>2

LEMMA WithCreate ==
    ASSUME NEW S \in SUBSET CreateCall, NEW r \in S, NEW a \in Outcome(Row)
    PROVE  /\ With(S, r, a) \subseteq CreateCall
           /\ \A q \in With(S, r, a) :
                 \/ q \in S \ {r}
                 \/ /\ q.channel = r.channel /\ q.late = r.late /\ q.answer = a
                    /\ S = {r} => With(S, r, a) = {q}
<1> DEFINE q == [r EXCEPT !.answer = a]
<1>1. q \in CreateCall /\ q.channel = r.channel /\ q.late = r.late /\ q.answer = a
  BY DEF CreateCall
<1> HIDE DEF q
<1>2. With(S, r, a) = (S \ {r}) \cup {q}
  BY DEF With, q
<1>3. QED
  BY <1>1, <1>2

LEMMA WithUpdate ==
    ASSUME NEW S \in SUBSET UpdateCall, NEW r \in S, NEW a \in Outcome(Row)
    PROVE  /\ With(S, r, a) \subseteq UpdateCall
           /\ \A q \in With(S, r, a) :
                 \/ q \in S \ {r}
                 \/ /\ q.thread = r.thread /\ q.late = r.late /\ q.live = r.live /\ q.answer = a
                    /\ S = {r} => With(S, r, a) = {q}
<1> DEFINE q == [r EXCEPT !.answer = a]
<1>1. /\ q \in UpdateCall /\ q.thread = r.thread /\ q.late = r.late /\ q.live = r.live
      /\ q.answer = a
  BY DEF UpdateCall
<1> HIDE DEF q
<1>2. With(S, r, a) = (S \ {r}) \cup {q}
  BY DEF With, q
<1>3. QED
  BY <1>1, <1>2

LEMMA NothingCalled ==
    /\ Late({}) = {}
    /\ Unmounted({}) = {}
  BY DEF Late, Unmounted

------------------------------------------------------------------------------
(***************************************************************************)
(* The user's steps                                                        *)
(***************************************************************************)
LEMMA NoRowIsNone == \A x \in Row : x # None
  BY NoneIsNoRow

\* A load empties the page; it overlaps whatever is in flight.
LEMMA LoadThreadsKeeps ==
    ASSUME IInv, NEW c \in Channels, LoadThreads(c), channel' = c,
           UNCHANGED <<row, others, failures, crossed>>
    PROVE  IInv'
<1> DEFINE new == [channel |-> c, late |-> ~Quiet, answer |-> None]
<1>1. new \in LoadCall /\ new.channel = c /\ new.answer = None /\ (new.late <=> ~Quiet)
  BY DEF LoadCall, Outcome
<1>2. /\ loads' = Late(loads) \cup {new} /\ creates' = Late(creates)
      /\ updates' = Unmounted(Late(updates)) /\ list' = <<>> /\ open' = None
  BY DEF LoadThreads
<1> HIDE DEF new
<1>3. /\ Late(loads) \subseteq LoadCall
      /\ \A q \in Late(loads) : q.late /\ \E r \in loads : q.channel = r.channel /\ q.answer = r.answer
  BY LateLoads DEF IInv, LoadsOK
<1>4. /\ creates' \subseteq CreateCall
      /\ \A q \in creates' : q.late /\ \E r \in creates : q.channel = r.channel /\ q.answer = r.answer
  BY <1>2, LateCreates DEF IInv, CreatesOK
<1>5. /\ updates' \subseteq UpdateCall
      /\ \A q \in updates' : /\ q.late /\ ~q.live
                             /\ \E r \in updates : q.thread = r.thread /\ q.answer = r.answer
  BY <1>2, LateUpdates, UnmountedUpdates DEF IInv, UpdatesOK
<1>6. RowsOK' /\ PageOK' /\ CountsOK'
  BY <1>2 DEF IInv, RowsOK, PageOK, CountsOK, Known
<1>7. LoadsOK'
  BY <1>1, <1>2, <1>3 DEF IInv, LoadsOK, Answered, Known, Exists, Once, Of
<1>8. CreatesOK'
  BY <1>4 DEF IInv, CreatesOK, Answered, Exists
<1>9. UpdatesOK'
  BY <1>5 DEF IInv, UpdatesOK, Answered, Exists
<1>10. LoadAlone'
  BY <1>1, <1>2, <1>3, NothingCalled DEF LoadAlone, Quiet
<1>11. CreateAlone' /\ UpdateAlone'
  BY <1>4, <1>5 DEF CreateAlone, UpdateAlone
<1>12. PageIsCoherent'
  BY <1>2 DEF PageIsCoherent
<1>13. QED
  BY <1>6, <1>7, <1>8, <1>9, <1>10, <1>11, <1>12 DEF IInv

\* Leaving the open thread: its calls are left behind.
LEMMA LeaveKeeps ==
    ASSUME IInv, open' = None, updates' = Unmounted(updates),
           UNCHANGED <<row, channel, list, loads, creates, others, failures, crossed>>
    PROVE  IInv'
<1>1. /\ updates' \subseteq UpdateCall
      /\ \A q \in updates' :
            /\ ~q.live
            /\ \E r \in updates : /\ q.thread = r.thread /\ q.answer = r.answer /\ q.late = r.late
                                  /\ updates = {r} => updates' = {q}
  BY UnmountedUpdates DEF IInv, UpdatesOK
<1>2. updates = {} => updates' = {}
  BY NothingCalled
<1>3. RowsOK' /\ PageOK' /\ CountsOK' /\ LoadsOK' /\ CreatesOK'
  BY DEF IInv, RowsOK, PageOK, CountsOK, LoadsOK, CreatesOK, Known, Exists
<1>4. UpdatesOK'
  BY <1>1 DEF IInv, UpdatesOK, Answered, Exists
<1>5. LoadAlone' /\ CreateAlone'
  BY <1>2 DEF IInv, LoadAlone, CreateAlone
<1>6. UpdateAlone'
  BY <1>1 DEF IInv, UpdateAlone
<1>7. PageIsCoherent'
  BY DEF IInv, PageIsCoherent, IsOpen
<1>8. QED
  BY <1>3, <1>4, <1>5, <1>6, <1>7 DEF IInv

LEMMA SelectChannelKeeps ==
    ASSUME IInv, NEW c \in Channels, SelectChannel(c)
    PROVE  IInv'
<1>1. CASE LoadThreads(c)
  BY <1>1, LoadThreadsKeeps DEF SelectChannel
<1>2. CASE ~LoadThreads(c)
  BY <1>2, LeaveKeeps DEF SelectChannel
<1>3. QED
  BY <1>1, <1>2

LEMMA ChannelUpdatedKeeps ==
    ASSUME IInv, ChannelUpdated
    PROVE  IInv'
<1>1. channel \in Channels
  BY DEF ChannelUpdated, IInv, PageOK
<1>2. QED
  BY <1>1, LoadThreadsKeeps DEF ChannelUpdated

LEMMA SelectThreadKeeps ==
    ASSUME IInv, NEW i \in DOMAIN list, SelectThread(i)
    PROVE  IInv'
<1>1. /\ open' = list[i] /\ list[i] \in Row /\ Exists(list[i].id)
      /\ UNCHANGED <<row, channel, list, calls, others, failures, crossed>>
  BY DEF SelectThread, IInv, PageOK, Known
<1>2. UNCHANGED <<loads, creates, updates>>
  BY <1>1 DEF calls
<1>3. RowsOK' /\ PageOK' /\ CountsOK' /\ LoadsOK' /\ CreatesOK'
  BY <1>1, <1>2 DEF IInv, RowsOK, PageOK, CountsOK, LoadsOK, CreatesOK, Known, Exists
<1>4. UpdatesOK'
  BY <1>1, <1>2, NoRowIsNone DEF IInv, UpdatesOK, Exists
<1>5. \A r \in loads : r.late
  BY DEF IInv, LoadAlone
<1>6. LoadAlone' /\ CreateAlone' /\ UpdateAlone'
  BY <1>1, <1>2, <1>5 DEF IInv, LoadAlone, CreateAlone, UpdateAlone
<1>7. PageIsCoherent'
  BY <1>1 DEF IInv, PageIsCoherent, IsOpen
<1>8. QED
  BY <1>3, <1>4, <1>6, <1>7 DEF IInv

LEMMA CreateThreadKeeps ==
    ASSUME IInv, CreateThread
    PROVE  IInv'
<1> DEFINE new == [channel |-> channel, late |-> ~Quiet, answer |-> None]
<1>1. new \in CreateCall /\ new.channel = channel /\ new.answer = None /\ (new.late <=> ~Quiet)
  BY DEF CreateThread, CreateCall, Outcome, IInv, PageOK
<1>2. /\ creates' = {new} /\ loads' = Late(loads) /\ updates' = Late(updates)
      /\ UNCHANGED <<row, channel, list, open, others, failures, crossed>>
  BY DEF CreateThread, layout
<1> HIDE DEF new
<1>3. /\ loads' \subseteq LoadCall
      /\ \A q \in loads' : q.late /\ \E r \in loads : q.channel = r.channel /\ q.answer = r.answer
  BY <1>2, LateLoads DEF IInv, LoadsOK
<1>4. /\ updates' \subseteq UpdateCall
      /\ \A q \in updates' : /\ q.late /\ \E r \in updates : q.thread = r.thread /\ q.answer = r.answer
  BY <1>2, LateUpdates DEF IInv, UpdatesOK
<1>5. open = None => \A q \in updates' : ~q.live
  BY <1>2 DEF IInv, UpdatesOK, UpdateCall, Late
<1>6. RowsOK' /\ PageOK' /\ CountsOK'
  BY <1>2 DEF IInv, RowsOK, PageOK, CountsOK, Known, Exists
<1>7. LoadsOK'
  BY <1>2, <1>3 DEF IInv, LoadsOK, Answered, Known, Exists, Once, Of
<1>8. CreatesOK'
  BY <1>1, <1>2 DEF CreatesOK, Answered
<1>9. UpdatesOK'
  BY <1>2, <1>4, <1>5 DEF IInv, UpdatesOK, Answered, Exists
<1>10. CreateAlone'
  BY <1>1, <1>2, NothingCalled DEF CreateAlone, Quiet, Answered
<1>11. LoadAlone' /\ UpdateAlone'
  BY <1>3, <1>4 DEF LoadAlone, UpdateAlone
<1>12. PageIsCoherent'
  BY <1>2 DEF IInv, PageIsCoherent, IsOpen
<1>13. QED
  BY <1>6, <1>7, <1>8, <1>9, <1>10, <1>11, <1>12 DEF IInv

LEMMA UpdateKeeps ==
    ASSUME IInv, NEW change \in Changes, Update(change)
    PROVE  IInv'
<1> DEFINE new == [thread |-> open.id, change |-> change, value |-> ~open[change],
                   live |-> TRUE, late |-> ~Quiet, answer |-> None]
<1>1. open \in Row /\ open.id \in Threads /\ Exists(open.id)
  BY DEF Update, IInv, PageOK, Row
<1>2. /\ new \in UpdateCall /\ new.thread = open.id /\ new.answer = None
      /\ (new.late <=> ~Quiet)
  BY <1>1 DEF UpdateCall, Outcome
<1>3. /\ updates' = Late(updates) \cup {new} /\ loads' = Late(loads) /\ creates' = Late(creates)
      /\ UNCHANGED <<row, channel, list, open, others, failures, crossed>>
  BY DEF Update, layout
<1> HIDE DEF new
<1>4. /\ loads' \subseteq LoadCall
      /\ \A q \in loads' : q.late /\ \E r \in loads : q.channel = r.channel /\ q.answer = r.answer
  BY <1>3, LateLoads DEF IInv, LoadsOK
<1>5. /\ creates' \subseteq CreateCall
      /\ \A q \in creates' : q.late /\ \E r \in creates : q.channel = r.channel /\ q.answer = r.answer
  BY <1>3, LateCreates DEF IInv, CreatesOK
<1>6. /\ Late(updates) \subseteq UpdateCall
      /\ \A q \in Late(updates) :
            q.late /\ \E r \in updates : q.thread = r.thread /\ q.answer = r.answer
  BY LateUpdates DEF IInv, UpdatesOK
<1>7. RowsOK' /\ PageOK' /\ CountsOK'
  BY <1>3 DEF IInv, RowsOK, PageOK, CountsOK, Known, Exists
<1>8. LoadsOK'
  BY <1>3, <1>4 DEF IInv, LoadsOK, Answered, Known, Exists, Once, Of
<1>9. CreatesOK'
  BY <1>3, <1>5 DEF IInv, CreatesOK, Answered, Exists
<1>10. UpdatesOK'
  BY <1>1, <1>2, <1>3, <1>6, NoRowIsNone DEF IInv, UpdatesOK, Answered, Exists
<1>11. UpdateAlone'
  <2>1. SUFFICES ASSUME NEW r \in updates', ~r.late
                 PROVE  /\ loads' = {} /\ creates' = {} /\ updates' = {r}
                        /\ ~crossed' => Home[r.thread] = channel'
    BY DEF UpdateAlone
  <2>2. r = new /\ Quiet
    BY <1>2, <1>3, <1>6, <2>1
  <2>3. loads' = {} /\ creates' = {} /\ updates' = {new}
    BY <1>3, <2>2, NothingCalled DEF Quiet
  <2>4. ~crossed => Home[open.id] = channel
    BY <1>1, NoRowIsNone DEF IInv, PageIsCoherent
  <2>5. QED
    BY <1>2, <1>3, <2>2, <2>3, <2>4
<1>12. LoadAlone' /\ CreateAlone'
  BY <1>4, <1>5 DEF LoadAlone, CreateAlone
<1>13. PageIsCoherent'
  BY <1>3 DEF IInv, PageIsCoherent, IsOpen
<1>14. QED
  BY <1>7, <1>8, <1>9, <1>10, <1>11, <1>12, <1>13 DEF IInv

------------------------------------------------------------------------------
(***************************************************************************)
(* The server's steps                                                      *)
(***************************************************************************)
LEMMA ListedAnswer ==
    ASSUME RowsOK, NEW c \in Channels, NEW rows \in Orders(Listed(c))
    PROVE  rows \in Seq(Row) /\ Known(rows) /\ Once(rows) /\ Of(c, rows)
<1> DEFINE U == {u \in Threads : row[u] # None /\ Home[u] = c /\ ~row[u].is_resolved}
           f == [u \in U |-> row[u]]
<1>1. f \in Surjection(U, Listed(c))
  BY DEF Surjection, Listed
<1>2. IsFiniteSet(U)
  BY FS_Subset, ChannelsLayoutAssumption
<1>3. IsFiniteSet(Listed(c))
  <2> HIDE DEF U, f
  <2>1. QED
    BY <1>1, <1>2, FS_Surjection
<1>4. \A x \in Listed(c) : /\ x \in Row /\ Exists(x.id) /\ Home[x.id] = c
                           /\ \A y \in Listed(c) : x.id = y.id => x = y
  BY DEF Listed, RowsOK, Exists
<1>5. rows \in Seq(Row) /\ Elements(rows) = Listed(c)
  <2>1. Listed(c) \in SUBSET Row
    BY <1>4
  <2>2. QED
    BY <1>3, <2>1, OrdersOfSubset
<1>6. \A i \in DOMAIN rows : rows[i] \in Listed(c)
  BY <1>5 DEF Elements
<1>7. Distinct(rows)
  BY <1>3, DistinctOrders
<1>8. QED
  BY <1>4, <1>5, <1>6, <1>7 DEF Known, Of, Once, Distinct

\* A thread's row is written, and no other: threads that exist still do.
LEMMA RowWritten ==
    ASSUME RowsOK, NEW t \in Threads, NEW x \in Row, x.id = t, row' = [row EXCEPT ![t] = x]
    PROVE  RowsOK' /\ \A u \in Threads : Exists(u) => Exists(u)'
  BY NoRowIsNone DEF RowsOK, Exists

LEMMA RowsHaveIds ==
    ASSUME NEW s \in Seq(Row), NEW i \in DOMAIN s
    PROVE  s[i] \in Row /\ s[i].id \in Threads
<1>1. s[i] \in Row
  OBVIOUS
<1>2. QED
  BY <1>1 DEF Row

LEMMA PageKept ==
    ASSUME PageOK, \A u \in Threads : Exists(u) => Exists(u)', UNCHANGED layout
    PROVE  PageOK'
<1>1. list' = list /\ open' = open /\ channel' = channel
  BY DEF layout
<1>2. \A i \in DOMAIN list : list[i].id \in Threads
  BY RowsHaveIds DEF PageOK
<1>3. open # None => open.id \in Threads
  BY DEF PageOK, Row
<1>4. QED
  BY <1>1, <1>2, <1>3 DEF PageOK, Known

LEMMA LoadsKept ==
    ASSUME LoadsOK, \A u \in Threads : Exists(u) => Exists(u)', loads' = loads
    PROVE  LoadsOK'
<1>1. \A r \in loads : Answered(r) => r.answer \in Seq(Row)
  BY DEF LoadsOK, LoadCall, Outcome, Answered
<1>2. \A r \in loads : Answered(r) => \A i \in DOMAIN r.answer : r.answer[i].id \in Threads
  BY <1>1, RowsHaveIds
<1>3. QED
  BY <1>2 DEF LoadsOK, Known, Once, Of

LEMMA CreatesKept ==
    ASSUME CreatesOK, \A u \in Threads : Exists(u) => Exists(u)', creates' = creates
    PROVE  CreatesOK'
  BY DEF CreatesOK, CreateCall, Outcome, Answered, Row

LEMMA UpdatesKept ==
    ASSUME UpdatesOK, \A u \in Threads : Exists(u) => Exists(u)', UNCHANGED <<open, updates>>
    PROVE  UpdatesOK'
<1>1. \A r \in updates : r.thread \in Threads
  BY DEF UpdatesOK, UpdateCall
<1>2. QED
  BY <1>1 DEF UpdatesOK

LEMMA CoherentKept ==
    ASSUME PageIsCoherent, UNCHANGED <<layout, crossed>>
    PROVE  PageIsCoherent'
  BY DEF PageIsCoherent, layout, IsOpen

LEMMA CountsKept ==
    ASSUME CountsOK, crossed' = crossed,
           others' = others \/ (others < MaxOthers /\ others' = others + 1),
           failures' = failures \/ Fails
    PROVE  CountsOK'
<1>1. others' \in 0..MaxOthers /\ failures' \in 0..MaxFailures
  BY ChannelsLayoutAssumption DEF CountsOK, Fails
<1>2. QED
  BY <1>1 DEF CountsOK

LEMMA ServeLoadKeeps ==
    ASSUME IInv, NEW r \in Waiting(loads), ServeLoad(r)
    PROVE  IInv'
<1>1. r \in loads /\ r.channel \in Channels
  BY DEF Waiting, IInv, LoadsOK, LoadCall
<1>2. /\ UNCHANGED <<row, layout, creates, updates, others, crossed>>
      /\ failures' = failures \/ Fails
  BY DEF ServeLoad
<1>3. PICK a \in Outcome(Seq(Row)) :
         /\ loads' = With(loads, r, a)
         /\ a # Failed => Known(a) /\ Once(a) /\ Of(r.channel, a)
  <2>1. CASE \E rows \in Orders(Listed(r.channel)) : loads' = With(loads, r, rows)
    BY <1>1, <2>1, ListedAnswer DEF Outcome, IInv
  <2>2. CASE loads' = With(loads, r, Failed)
    BY <2>2 DEF Outcome
  <2>3. QED
    BY <2>1, <2>2 DEF ServeLoad
<1>4. /\ loads' \subseteq LoadCall
      /\ \A q \in loads' :
            \/ q \in loads \ {r}
            \/ /\ q.channel = r.channel /\ q.late = r.late /\ q.answer = a
               /\ loads = {r} => loads' = {q}
  BY <1>1, <1>3, WithLoad DEF IInv, LoadsOK
<1>5. \A u \in Threads : Exists(u) => Exists(u)'
  BY <1>2 DEF Exists
<1>6. RowsOK' /\ PageOK' /\ CreatesOK' /\ UpdatesOK' /\ CountsOK' /\ PageIsCoherent'
  BY <1>2, <1>5, PageKept, CreatesKept, UpdatesKept, CountsKept, CoherentKept
  DEF IInv, RowsOK, layout
<1>7. LoadsOK'
  <2>1. SUFFICES ASSUME NEW q \in loads', Answered(q)
                 PROVE  Known(q.answer) /\ Once(q.answer) /\ Of(q.channel, q.answer)
    BY <1>2, <1>4 DEF LoadsOK, Known, Exists, Answered
  <2>2. QED
    BY <1>3, <1>4, <2>1 DEF IInv, LoadsOK, Answered
<1>8. LoadAlone'
  BY <1>1, <1>2, <1>4 DEF IInv, LoadAlone, layout
<1>9. CreateAlone' /\ UpdateAlone'
  BY <1>1, <1>2 DEF IInv, CreateAlone, UpdateAlone
<1>10. QED
  BY <1>6, <1>7, <1>8, <1>9 DEF IInv

LEMMA ServeCreateKeeps ==
    ASSUME IInv, NEW r \in Waiting(creates), ServeCreate(r)
    PROVE  IInv'
<1>1. r \in creates
  BY DEF Waiting
<1>2. /\ UNCHANGED <<layout, loads, updates, others, crossed>>
      /\ failures' = failures \/ Fails
  BY DEF ServeCreate
<1>3. RowsOK' /\ \A u \in Threads : Exists(u) => Exists(u)'
  <2>1. CASE row' = row
    BY <2>1 DEF IInv, RowsOK, Exists
  <2>2. CASE \E t \in Threads : row' = [row EXCEPT ![t] = NewRow(t)]
    <3>1. \A t \in Threads : NewRow(t) \in Row /\ NewRow(t).id = t
      BY DEF NewRow, Row
    <3>2. QED
      BY <2>2, <3>1, RowWritten DEF IInv
  <2>3. QED
    BY <2>1, <2>2 DEF ServeCreate
<1>4. PICK a \in Outcome(Row) :
         /\ creates' = With(creates, r, a)
         /\ a # Failed => /\ a.id \in Threads /\ Home[a.id] = r.channel
                          /\ ~Exists(a.id) /\ Exists(a.id)'
  <2>1. CASE creates' = With(creates, r, Failed)
    BY <2>1 DEF Outcome
  <2>2. ASSUME NEW t \in Threads, row[t] = None, Home[t] = r.channel,
               row' = [row EXCEPT ![t] = NewRow(t)], creates' = With(creates, r, NewRow(t))
        PROVE  /\ NewRow(t) \in Outcome(Row) /\ NewRow(t).id = t
               /\ ~Exists(t) /\ Exists(t)'
    BY <2>2, NoRowIsNone DEF NewRow, Row, Outcome, Exists, IInv, RowsOK
  <2>3. QED
    BY <2>1, <2>2 DEF ServeCreate
<1>5. /\ creates' \subseteq CreateCall
      /\ \A q \in creates' :
            \/ q \in creates \ {r}
            \/ /\ q.channel = r.channel /\ q.late = r.late /\ q.answer = a
               /\ creates = {r} => creates' = {q}
  BY <1>1, <1>4, WithCreate DEF IInv, CreatesOK
<1>6. PageOK' /\ LoadsOK' /\ UpdatesOK' /\ CountsOK' /\ PageIsCoherent'
  BY <1>2, <1>3, PageKept, LoadsKept, UpdatesKept, CountsKept, CoherentKept DEF IInv, layout
<1>7. CreatesOK'
  <2>1. \A q \in creates : Answered(q) => q.answer.id \in Threads /\ Exists(q.answer.id)
    BY DEF IInv, CreatesOK, CreateCall, Outcome, Answered, Row
  <2>2. QED
    BY <1>3, <1>4, <1>5, <2>1 DEF CreatesOK, Answered
<1>8. CreateAlone'
  <2>1. \A i \in DOMAIN list : Exists(list[i].id)
    BY DEF IInv, PageOK, Known
  <2>2. SUFFICES ASSUME NEW q \in creates', ~q.late
                 PROVE  /\ loads' = {} /\ creates' = {q} /\ updates' = {}
                        /\ q.channel = channel'
                        /\ Answered(q) => Home[q.answer.id] = channel' /\ q.answer.id \notin Ids(list')
    BY DEF CreateAlone, Answered
  <2>3. q \notin creates \ {r}
    BY <1>1, <2>2 DEF IInv, CreateAlone
  <2>4. QED
    BY <1>1, <1>2, <1>4, <1>5, <2>1, <2>2, <2>3
    DEF IInv, CreateAlone, layout, Answered, Ids
<1>9. LoadAlone' /\ UpdateAlone'
  BY <1>1, <1>2 DEF IInv, LoadAlone, UpdateAlone
<1>10. QED
  BY <1>3, <1>6, <1>7, <1>8, <1>9 DEF IInv

LEMMA ChangedIsRow ==
    ASSUME NEW old \in Row, NEW r \in UpdateCall
    PROVE  Changed(old, r) \in Row /\ Changed(old, r).id = old.id
<1>1. r.change \in {"is_resolved", "is_pinned", "task"} /\ r.value \in BOOLEAN
  BY ChannelsLayoutAssumption DEF UpdateCall
<1>2. QED
  BY <1>1 DEF Changed, Row

LEMMA ServeUpdateKeeps ==
    ASSUME IInv, NEW r \in Waiting(updates), ServeUpdate(r)
    PROVE  IInv'
<1> DEFINE new == Changed(row[r.thread], r)
<1>1. /\ r \in updates /\ r \in UpdateCall /\ r.thread \in Threads
      /\ row[r.thread] \in Row /\ row[r.thread].id = r.thread
  BY DEF Waiting, IInv, UpdatesOK, UpdateCall, RowsOK, Exists
<1>2. new \in Row /\ new.id = r.thread
  BY <1>1, ChangedIsRow
<1>3. /\ UNCHANGED <<layout, loads, creates, others, crossed>>
      /\ failures' = failures \/ Fails
      /\ row' = row \/ row' = [row EXCEPT ![r.thread] = new]
      /\ updates' = With(updates, r, new) \/ updates' = With(updates, r, Failed)
  BY DEF ServeUpdate
<1> HIDE DEF new
<1>4. RowsOK' /\ \A u \in Threads : Exists(u) => Exists(u)'
  BY <1>1, <1>2, <1>3, RowWritten DEF IInv, RowsOK, Exists
<1>5. PICK a \in Outcome(Row) : updates' = With(updates, r, a) /\ (a # Failed => a.id = r.thread)
  BY <1>2, <1>3 DEF Outcome
<1>6. /\ updates' \subseteq UpdateCall
      /\ \A q \in updates' :
            \/ q \in updates \ {r}
            \/ /\ q.thread = r.thread /\ q.late = r.late /\ q.live = r.live /\ q.answer = a
               /\ updates = {r} => updates' = {q}
  BY <1>1, <1>5, WithUpdate DEF IInv, UpdatesOK
<1>7. PageOK' /\ LoadsOK' /\ CreatesOK' /\ CountsOK' /\ PageIsCoherent'
  BY <1>3, <1>4, PageKept, LoadsKept, CreatesKept, CountsKept, CoherentKept DEF IInv
<1>8. UpdatesOK'
  <2>1. \A q \in updates' : q.thread \in Threads
    BY <1>6 DEF UpdateCall
  <2>2. \A q \in updates' : Exists(q.thread) /\ (Answered(q) => q.answer.id = q.thread)
    BY <1>1, <1>5, <1>6 DEF IInv, UpdatesOK, Answered
  <2>3. open' = None => \A q \in updates' : ~q.live
    BY <1>1, <1>3, <1>6 DEF IInv, UpdatesOK, layout
  <2>4. QED
    BY <1>4, <1>6, <2>1, <2>2, <2>3 DEF UpdatesOK, Answered
<1>9. LoadAlone' /\ CreateAlone'
  BY <1>1, <1>3 DEF IInv, LoadAlone, CreateAlone
<1>10. UpdateAlone'
  BY <1>1, <1>3, <1>6 DEF IInv, UpdateAlone, layout
<1>11. QED
  BY <1>4, <1>7, <1>8, <1>9, <1>10 DEF IInv

LEMMA TaskCompletedKeeps ==
    ASSUME IInv, NEW t \in Threads, TaskCompleted(t)
    PROVE  IInv'
<1> DEFINE new == [row[t] EXCEPT !.is_resolved = TRUE]
<1>1. new \in Row /\ new.id = t
  BY DEF TaskCompleted, IInv, RowsOK, Row
<1>2. /\ row' = [row EXCEPT ![t] = new] /\ others < MaxOthers /\ others' = others + 1
      /\ UNCHANGED <<layout, calls, failures, crossed>>
  BY DEF TaskCompleted
<1> HIDE DEF new
<1>3. RowsOK' /\ \A u \in Threads : Exists(u) => Exists(u)'
  BY <1>1, <1>2, RowWritten DEF IInv
<1>4. UNCHANGED <<loads, creates, updates, channel, list, open, crossed>>
  BY <1>2 DEF calls, layout
<1>5. PageOK' /\ LoadsOK' /\ CreatesOK' /\ UpdatesOK' /\ CountsOK' /\ PageIsCoherent'
  BY <1>2, <1>3, <1>4, PageKept, LoadsKept, CreatesKept, UpdatesKept, CountsKept, CoherentKept
  DEF IInv
<1>6. LoadAlone' /\ CreateAlone' /\ UpdateAlone'
  BY <1>4 DEF IInv, LoadAlone, CreateAlone, UpdateAlone
<1>7. QED
  BY <1>3, <1>5, <1>6 DEF IInv

------------------------------------------------------------------------------
(***************************************************************************)
(* The answers                                                             *)
(***************************************************************************)

\* Once a call is answered, the calls still in flight are late.
LEMMA RestIsLate ==
    ASSUME IInv, loads' \subseteq loads, creates' \subseteq creates, updates' \subseteq updates,
           \/ \E r \in loads : r \notin loads'
           \/ \E r \in creates : r \notin creates'
           \/ \E r \in updates : r \notin updates'
    PROVE  LoadAlone' /\ CreateAlone' /\ UpdateAlone'
<1>1. \A q \in loads' \cup creates' \cup updates' : q.late
  BY DEF IInv, LoadAlone, CreateAlone, UpdateAlone
<1>2. QED
  BY <1>1 DEF LoadAlone, CreateAlone, UpdateAlone

LEMMA AnswerLoadKeeps ==
    ASSUME IInv, NEW r \in Arrived(loads), AnswerLoad(r)
    PROVE  IInv'
<1>1. /\ r \in loads /\ r.answer # None
      /\ r.answer = Failed \/ Answered(r)
      /\ Answered(r) => r.answer \in Seq(Row)
      /\ r.late \in BOOLEAN
  BY DEF Arrived, Answered, IInv, LoadsOK, LoadCall, Outcome
<1>2. /\ loads' = loads \ {r}
      /\ list' = IF r.answer = Failed THEN list ELSE r.answer
      /\ crossed' = (r.late /\ (crossed \/ r.answer # Failed))
      /\ UNCHANGED <<row, channel, open, creates, updates, others, failures>>
  BY DEF AnswerLoad
<1>3. \A u \in Threads : Exists(u) => Exists(u)'
  BY <1>2 DEF Exists
<1>4. RowsOK' /\ CreatesOK' /\ UpdatesOK'
  BY <1>2, <1>3, CreatesKept, UpdatesKept DEF IInv, RowsOK
<1>5. PageOK'
  BY <1>1, <1>2 DEF IInv, PageOK, LoadsOK, Known, Exists, Answered
<1>6. LoadsOK'
  BY <1>2 DEF IInv, LoadsOK, Known, Exists
<1>7. CountsOK'
  BY <1>1, <1>2 DEF IInv, CountsOK
<1>8. LoadAlone' /\ CreateAlone' /\ UpdateAlone'
  BY <1>1, <1>2, RestIsLate
<1>9. PageIsCoherent'
  <2>1. CASE r.answer = Failed
    <3>1. ~crossed' => ~crossed \/ ~r.late
      BY <1>2, <2>1
    <3>2. ~r.late => list = <<>> /\ open = None
      BY <1>1 DEF IInv, LoadAlone
    <3>3. QED
      BY <1>2, <2>1, <3>1, <3>2 DEF IInv, PageIsCoherent, IsOpen
  <2>2. CASE r.answer # Failed
    <3>1. ~crossed' => ~r.late
      BY <1>2, <2>2
    <3>2. ~r.late => open = None /\ r.channel = channel
      BY <1>1 DEF IInv, LoadAlone
    <3>3. Once(r.answer) /\ Of(r.channel, r.answer)
      BY <1>1, <2>2 DEF IInv, LoadsOK
    <3>4. QED
      BY <1>2, <2>2, <3>1, <3>2, <3>3 DEF PageIsCoherent, IsOpen, Once, Of
  <2>3. QED
    BY <2>1, <2>2
<1>10. QED
  BY <1>4, <1>5, <1>6, <1>7, <1>8, <1>9 DEF IInv

LEMMA PutInFront ==
    ASSUME NEW x \in Row, NEW s \in Seq(Row)
    PROVE  LET u == <<x>> \o s
           IN  /\ u \in Seq(Row) /\ DOMAIN u = 1 .. Len(s) + 1
               /\ u[1] = x /\ \A i \in 1 .. Len(s) : u[i + 1] = s[i]
<1>1. <<x>> \in Seq(Row) /\ Len(<<x>>) = 1 /\ <<x>>[1] = x
  OBVIOUS
<1>2. /\ <<x>> \o s \in Seq(Row) /\ Len(<<x>> \o s) = 1 + Len(s)
      /\ \A i \in 1 .. 1 + Len(s) : (<<x>> \o s)[i] = IF i <= 1 THEN <<x>>[i] ELSE s[i - 1]
  BY <1>1, ConcatProperties
<1>3. QED
  BY <1>1, <1>2, LenProperties

LEMMA AnswerCreateKeeps ==
    ASSUME IInv, NEW r \in Arrived(creates), AnswerCreate(r)
    PROVE  IInv'
<1>1. /\ r \in creates
      /\ r.answer # Failed => /\ Answered(r) /\ r.answer \in Row /\ Exists(r.answer.id)
  BY DEF Arrived, Answered, IInv, CreatesOK, CreateCall, Outcome
<1>2. /\ creates' = creates \ {r}
      /\ UNCHANGED <<row, channel, loads, updates, others, failures>>
  BY DEF AnswerCreate
<1>3. \A u \in Threads : Exists(u) => Exists(u)'
  BY <1>2 DEF Exists
<1>4. RowsOK' /\ LoadsOK'
  BY <1>2, <1>3, LoadsKept DEF IInv, RowsOK
<1>5. CreatesOK'
  BY <1>2 DEF IInv, CreatesOK, Exists
<1>6. LoadAlone' /\ CreateAlone' /\ UpdateAlone'
  BY <1>1, <1>2, RestIsLate
<1>7. CASE r.answer = Failed
  <2>1. UNCHANGED <<list, open, crossed>>
    BY <1>7 DEF AnswerCreate
  <2>2. PageOK' /\ UpdatesOK' /\ CountsOK' /\ PageIsCoherent'
    BY <1>2, <1>3, <2>1, PageKept, UpdatesKept, CountsKept, CoherentKept DEF IInv, layout
  <2>3. QED
    BY <1>4, <1>5, <1>6, <2>2 DEF IInv
<1>8. CASE r.answer # Failed
  <2> DEFINE a == r.answer
  <2>1. /\ list' = <<a>> \o list /\ open' = a
        /\ crossed' = (crossed \/ r.late)
    BY <1>8 DEF AnswerCreate
  <2>2. a \in Row /\ a # None /\ Exists(a.id) /\ Exists(a.id)'
    BY <1>1, <1>2, <1>8, NoRowIsNone DEF Exists
  <2>3. list \in Seq(Row) /\ Len(list) \in Nat /\ DOMAIN list = 1 .. Len(list)
    BY DEF IInv, PageOK
  <2> HIDE DEF a
  <2>4. /\ list' \in Seq(Row) /\ DOMAIN list' = 1 .. Len(list) + 1
        /\ list'[1] = a /\ \A i \in 1 .. Len(list) : list'[i + 1] = list[i]
    BY <2>1, <2>2, <2>3, PutInFront
  <2>5. \A i \in DOMAIN list' : i = 1 \/ (i - 1 \in DOMAIN list /\ list'[i] = list[i - 1])
    BY <2>3, <2>4
  <2>6. PageOK'
    <3>1. \A i \in DOMAIN list : row'[list[i].id] # None
      BY <1>2 DEF IInv, PageOK, Known, Exists
    <3>2. row'[a.id] # None
      BY <2>2 DEF Exists
    <3>3. \A i \in DOMAIN list' : row'[list'[i].id] # None
      BY <2>4, <2>5, <3>1, <3>2
    <3>4. QED
      BY <1>2, <2>1, <2>2, <2>4, <3>2, <3>3 DEF IInv, PageOK, Known, Exists
  <2>7. UpdatesOK'
    BY <1>2, <2>1, <2>2 DEF IInv, UpdatesOK, Exists
  <2>8. CountsOK'
    BY <1>2, <2>1 DEF IInv, CountsOK
  <2>9. PageIsCoherent'
    <3>1. SUFFICES ASSUME ~crossed'
                   PROVE  /\ \A i \in DOMAIN list' :
                                /\ Home[list'[i].id] = channel'
                                /\ IsOpen(list[i].id)' => list'[i] = open'
                          /\ \A i, j \in DOMAIN list' : list'[i].id = list'[j].id => i = j
                          /\ Home[open'.id] = channel'
      BY DEF PageIsCoherent
    <3>2. ~crossed /\ ~r.late
      BY <2>1, <3>1
    <3>3. Home[a.id] = channel /\ \A i \in DOMAIN list : list[i].id # a.id
      BY <1>1, <1>8, <3>2 DEF IInv, CreateAlone, Ids, a
    <3>4. /\ \A i \in DOMAIN list : Home[list[i].id] = channel
          /\ \A i, j \in DOMAIN list : list[i].id = list[j].id => i = j
      BY <3>2 DEF IInv, PageIsCoherent
    <3>5. \A i \in DOMAIN list' : Home[list'[i].id] = channel /\ (a.id = list'[i].id => list'[i] = a)
      BY <2>4, <2>5, <3>3, <3>4
    <3>6. ASSUME NEW i \in DOMAIN list', NEW j \in DOMAIN list', list'[i].id = list'[j].id
          PROVE  i = j
      <4>1. CASE i = 1 \/ j = 1
        BY <2>4, <2>5, <3>3, <3>6, <4>1
      <4>2. CASE i # 1 /\ j # 1
        <5>1. i - 1 = j - 1
          BY <2>5, <3>4, <3>6, <4>2
        <5>2. QED
          BY <2>3, <2>4, <5>1
      <4>3. QED
        BY <4>1, <4>2
    <3>7. QED
      BY <1>2, <2>1, <3>3, <3>5, <3>6 DEF IsOpen
  <2>10. QED
    BY <1>4, <1>5, <1>6, <2>6, <2>7, <2>8, <2>9 DEF IInv
<1>9. QED
  BY <1>7, <1>8

LEMMA ReplacedRows ==
    ASSUME NEW s \in Seq(Row), NEW x \in Row
    PROVE  LET u == Replaced(s, x)
           IN  /\ u \in Seq(Row) /\ DOMAIN u = DOMAIN s
               /\ \A i \in DOMAIN s : /\ u[i].id = s[i].id
                                      /\ u[i].id = x.id => u[i] = x
<1>1. Len(s) \in Nat /\ DOMAIN s = 1 .. Len(s)
  OBVIOUS
<1>2. Replaced(s, x) = [i \in 1 .. Len(s) |-> IF s[i].id = x.id THEN x ELSE s[i]]
  BY <1>1 DEF Replaced
<1>3. Replaced(s, x) \in [1 .. Len(s) -> Row]
  BY <1>1, <1>2
<1>4. Replaced(s, x) \in Seq(Row)
  BY <1>1, <1>3, SeqDef
<1>5. QED
  BY <1>1, <1>2, <1>4

LEMMA AnswerUpdateKeeps ==
    ASSUME IInv, NEW r \in Arrived(updates), AnswerUpdate(r)
    PROVE  IInv'
<1>1. /\ r \in updates /\ Exists(r.thread)
      /\ r.answer # Failed => r.answer \in Row /\ r.answer.id = r.thread
  BY DEF Arrived, Answered, IInv, UpdatesOK, UpdateCall, Outcome
<1>2. /\ updates' = updates \ {r}
      /\ UNCHANGED <<row, channel, loads, creates, others, failures>>
  BY DEF AnswerUpdate
<1>3. \A u \in Threads : Exists(u) => Exists(u)'
  BY <1>2 DEF Exists
<1>4. RowsOK' /\ LoadsOK' /\ CreatesOK'
  BY <1>2, <1>3, LoadsKept, CreatesKept DEF IInv, RowsOK
<1>5. LoadAlone' /\ CreateAlone' /\ UpdateAlone'
  BY <1>1, <1>2, RestIsLate
<1>6. CASE r.answer = Failed
  <2>1. UNCHANGED <<list, open, crossed>>
    BY <1>6 DEF AnswerUpdate
  <2>2. PageOK' /\ CountsOK' /\ PageIsCoherent'
    BY <1>2, <1>3, <2>1, PageKept, CountsKept, CoherentKept DEF IInv, layout
  <2>3. UpdatesOK'
    BY <1>2, <2>1 DEF IInv, UpdatesOK, Exists
  <2>4. QED
    BY <1>4, <1>5, <2>2, <2>3 DEF IInv
<1>7. CASE r.answer # Failed
  <2> DEFINE a == r.answer
  <2>1. list' = Replaced(list, a) /\ open' = a /\ crossed' = (crossed \/ r.late)
    BY <1>7 DEF AnswerUpdate
  <2>2. a \in Row /\ a # None /\ a.id = r.thread /\ Exists(a.id)'
    BY <1>1, <1>2, <1>7, NoRowIsNone DEF Exists
  <2> HIDE DEF a
  <2>3. /\ list' \in Seq(Row) /\ DOMAIN list' = DOMAIN list
        /\ \A i \in DOMAIN list : /\ list'[i].id = list[i].id
                                  /\ list'[i].id = a.id => list'[i] = a
    BY <2>1, <2>2, ReplacedRows DEF IInv, PageOK
  <2>4. PageOK'
    BY <1>2, <2>1, <2>2, <2>3 DEF IInv, PageOK, Known, Exists
  <2>5. UpdatesOK'
    BY <1>2, <2>1, <2>2 DEF IInv, UpdatesOK, Exists
  <2>6. CountsOK'
    BY <1>2, <2>1 DEF IInv, CountsOK
  <2>7. PageIsCoherent'
    <3>1. SUFFICES ASSUME ~crossed'
                   PROVE  /\ \A i \in DOMAIN list' :
                                /\ Home[list'[i].id] = channel'
                                /\ IsOpen(list[i].id)' => list'[i] = open'
                          /\ \A i, j \in DOMAIN list' : list'[i].id = list'[j].id => i = j
                          /\ Home[open'.id] = channel'
      BY DEF PageIsCoherent
    <3>2. ~crossed /\ ~r.late
      BY <2>1, <3>1
    <3>3. Home[a.id] = channel
      BY <1>1, <2>2, <3>2 DEF IInv, UpdateAlone, a
    <3>4. /\ \A i \in DOMAIN list : Home[list[i].id] = channel
          /\ \A i, j \in DOMAIN list : list[i].id = list[j].id => i = j
      BY <3>2 DEF IInv, PageIsCoherent
    <3>5. QED
      BY <1>2, <2>1, <2>3, <3>3, <3>4 DEF IsOpen
  <2>8. QED
    BY <1>4, <1>5, <2>4, <2>5, <2>6, <2>7 DEF IInv
<1>8. QED
  BY <1>6, <1>7

------------------------------------------------------------------------------
(***************************************************************************)
(* The theorems                                                            *)
(***************************************************************************)
LEMMA InitIInv == Init => IInv
<1> SUFFICES ASSUME Init PROVE IInv
  OBVIOUS
<1>1. \A t \in Threads : NewRow(t) \in Row /\ NewRow(t).id = t
  BY DEF NewRow, Row
<1>2. RowsOK
  <2>1. DOMAIN row = Threads /\ row = [t \in Threads |-> row[t]]
    BY DEF Init
  <2>2. \A t \in Threads : row[t] \in {None, NewRow(t)}
    BY DEF Init
  <2>3. QED
    BY <1>1, <2>1, <2>2 DEF RowsOK
<1>3. PageOK
  BY DEF Init, PageOK, Known
<1>4. LoadsOK /\ CreatesOK /\ UpdatesOK /\ LoadAlone /\ CreateAlone /\ UpdateAlone
  BY DEF Init, LoadsOK, CreatesOK, UpdatesOK, LoadAlone, CreateAlone, UpdateAlone
<1>5. CountsOK
  <2>1. others = 0 /\ failures = 0 /\ crossed = FALSE
    BY DEF Init
  <2>2. 0 \in 0..MaxOthers /\ 0 \in 0..MaxFailures
    BY ChannelsLayoutAssumption
  <2>3. QED
    BY <2>1, <2>2 DEF CountsOK
<1>6. PageIsCoherent
  BY DEF Init, PageIsCoherent
<1>7. QED
  BY <1>2, <1>3, <1>4, <1>5, <1>6 DEF IInv

LEMMA StepIInv == IInv /\ [Next]_vars => IInv'
<1> SUFFICES ASSUME IInv, [Next]_vars PROVE IInv'
  OBVIOUS
<1>1. CASE UNCHANGED vars
  <2>1. UNCHANGED <<row, channel, list, open, loads, creates, updates, others, failures, crossed>>
    BY <1>1 DEF vars, layout, calls
  <2>2. \A u \in Threads : Exists(u) => Exists(u)'
    BY <2>1 DEF Exists
  <2>3. /\ RowsOK' /\ PageOK' /\ LoadsOK' /\ CreatesOK' /\ UpdatesOK' /\ CountsOK'
        /\ PageIsCoherent'
    BY <2>1, <2>2, PageKept, LoadsKept, CreatesKept, UpdatesKept, CountsKept, CoherentKept
    DEF IInv, RowsOK, layout
  <2>4. LoadAlone' /\ CreateAlone' /\ UpdateAlone'
    BY <2>1 DEF IInv, LoadAlone, CreateAlone, UpdateAlone
  <2>5. QED
    BY <2>3, <2>4 DEF IInv
<1>2. CASE \/ \E c \in Channels : SelectChannel(c)
           \/ ChannelUpdated
           \/ \E i \in DOMAIN list : SelectThread(i)
           \/ CreateThread
           \/ \E change \in Changes : Update(change)
  BY <1>2, SelectChannelKeeps, ChannelUpdatedKeeps, SelectThreadKeeps, CreateThreadKeeps,
     UpdateKeeps
<1>3. CASE CloseThread
  BY <1>3, LeaveKeeps DEF CloseThread
<1>4. CASE ServeLoads \/ ServeCreates \/ ServeUpdates \/ \E t \in Threads : TaskCompleted(t)
  BY <1>4, ServeLoadKeeps, ServeCreateKeeps, ServeUpdateKeeps, TaskCompletedKeeps
  DEF ServeLoads, ServeCreates, ServeUpdates
<1>5. CASE AnswerLoads \/ AnswerCreates \/ AnswerUpdates
  BY <1>5, AnswerLoadKeeps, AnswerCreateKeeps, AnswerUpdateKeeps
  DEF AnswerLoads, AnswerCreates, AnswerUpdates
<1>6. QED
  BY <1>1, <1>2, <1>3, <1>4, <1>5 DEF Next

\* The rows, the page and the calls keep their shapes, and what the page shows
\* or a call is about exists.
THEOREM TypeCorrect == Spec => []TypeOK
<1>1. Spec => []IInv
  BY InitIInv, StepIInv, PTL DEF Spec
<1>2. QED
  BY <1>1, TypesFollow, PTL

\* Answers that overlap no other call leave the page coherent: the list and the
\* open thread are of the selected channel and agree.
THEOREM CoherentWithoutOverlap == Spec => []PageIsCoherent
<1>1. Spec => []IInv
  BY InitIInv, StepIInv, PTL DEF Spec
<1>2. IInv => PageIsCoherent
  BY DEF IInv
<1>3. QED
  BY <1>1, <1>2, PTL
------------------------------------------------------------------------------
(***************************************************************************)
(* The panel of the open thread                                            *)
(***************************************************************************)
Msg == [thread : Threads, n : Nat]
FetchCall == [thread : Threads, answer : Outcome(Seq(Msg))]
SendCall == [thread : Threads, text : Nat, live : BOOLEAN, answer : Outcome(Msg)]

\* What the panel shows, or is about to show, is among the messages.
Stored(m) == m.n \in DOMAIN log[m.thread]
AllStored(s) == \A i \in DOMAIN s : Stored(s[i])

LogOK == typed \in Nat /\ log \in [Threads -> Seq(Texts \cup {Other})]
ScreenOK ==
    /\ mounted \in Threads \cup {None} /\ composer \in Texts \cup {None}
    /\ shown \in Seq(Msg) /\ AllStored(shown)
    /\ mounted = None => shown = <<>> /\ composer = None /\ fetches = {}
FetchesOK ==
    /\ fetches \subseteq FetchCall
    /\ \A r \in fetches : Answered(r) => AllStored(r.answer)
SendsOK ==
    /\ sends \subseteq SendCall
    /\ \A r \in sends : r.text \in Texts /\ (Answered(r) => Stored(r.answer))
TextsOK == abandoned \subseteq Texts /\ unheard \subseteq Texts
BoundsOK == typed \in 0..MaxTexts /\ posts \in 0..MaxPosts /\ faults \in 0..MaxFaults

\* While a message is being sent the composer is empty, and no other is sent.
SendingOK ==
    /\ \A r \in sends : r.live => mounted # None /\ composer = None
    /\ \A r, s \in sends : r.live /\ s.live => r = s

PanelShapes == LogOK /\ ScreenOK /\ FetchesOK /\ SendsOK /\ TextsOK /\ BoundsOK
PanelInv == PanelShapes /\ SendingOK /\ TextInOnePlace

LEMMA PanelTypesFollow == PanelInv => PanelTypeOK
  BY DEF PanelInv, PanelShapes, LogOK, ScreenOK, FetchesOK, SendsOK, TextsOK, BoundsOK,
         SendingOK, Sending, AllStored, Stored, FetchCall, SendCall, PanelTypeOK

\* A record's answer is all that With changes.
LEMMA FetchAnswered ==
    ASSUME NEW r \in FetchCall, NEW a \in Outcome(Seq(Msg))
    PROVE  LET q == [r EXCEPT !.answer = a]
           IN  q \in FetchCall /\ q.answer = a
  BY DEF FetchCall

LEMMA SendAnswered ==
    ASSUME NEW r \in SendCall, NEW a \in Outcome(Msg)
    PROVE  LET q == [r EXCEPT !.answer = a]
           IN  /\ q \in SendCall /\ q.answer = a /\ q.text = r.text /\ q.live = r.live
               /\ q.thread = r.thread
  BY DEF SendCall

LEMMA SendUnmounted ==
    ASSUME NEW r \in SendCall
    PROVE  LET q == [r EXCEPT !.live = FALSE]
           IN  /\ q \in SendCall /\ q.answer = r.answer /\ q.text = r.text /\ q.live = FALSE
  BY DEF SendCall

LEMMA MessageIsNoFlag == \A m \in Msg : m # None /\ m # Failed
  BY MessageThreadAssumption DEF Msg

LEMMA NoFlagIsText == \A x \in Nat : x # None /\ x # Failed /\ x # Other
  BY MessageThreadAssumption

LEMMA MinOfTwo ==
    ASSUME NEW a \in Nat, NEW b \in Nat
    PROVE  Min({a, b}) \in Nat /\ Min({a, b}) <= b
<1>1. \E z \in {a, b} : \A y \in {a, b} : z <= y
  <2>1. CASE a <= b
    BY <2>1
  <2>2. CASE b <= a
    BY <2>2
  <2> QED
    BY <2>1, <2>2
<1>2. Min({a, b}) \in {a, b} /\ \A y \in {a, b} : Min({a, b}) <= y
  BY <1>1 DEF Min
<1> QED
  BY <1>2

\* The first page of a thread is a list of its messages.
LEMMA FirstPageIsStored ==
    ASSUME LogOK, NEW t \in Threads
    PROVE  FirstPage(t) \in Seq(Msg) /\ AllStored(FirstPage(t))
<1> DEFINE n == Min({Limit, Len(log[t])})
           ms == Messages(t)
<1>1. log[t] \in Seq(Texts \cup {Other}) /\ Len(log[t]) \in Nat
      /\ DOMAIN log[t] = 1 .. Len(log[t])
  BY LenProperties DEF LogOK
<1>2. n \in Nat /\ n <= Len(log[t])
  BY <1>1, MinOfTwo, MessageThreadAssumption
<1>3. /\ ms \in [1 .. Len(log[t]) -> Msg]
      /\ \A i \in 1 .. Len(log[t]) : ms[i].thread = t /\ ms[i].n = i
  BY <1>1 DEF Messages, Message, Msg
<1>4. FirstPage(t) = [i \in 1 .. n |-> ms[i]]
  <2>1. FirstPage(t) = SubSeq(ms, 1, n)
    BY DEF FirstPage
  <2> HIDE DEF n, ms
  <2>2. \A i \in 1 .. n : ms[i] \in Msg
    BY <1>1, <1>2, <1>3
  <2>3. SubSeq(ms, 1, n) \in Seq(Msg) /\ Len(SubSeq(ms, 1, n)) = n
        /\ \A i \in 1 .. n : SubSeq(ms, 1, n)[i] = ms[i]
    <3>1. /\ SubSeq(ms, 1, n) \in Seq(Msg)
          /\ Len(SubSeq(ms, 1, n)) = IF 1 <= n THEN n - 1 + 1 ELSE 0
          /\ \A i \in 1 .. n - 1 + 1 : SubSeq(ms, 1, n)[i] = ms[1 + i - 1]
      BY <1>2, <2>2, SubSeqProperties
    <3>2. n - 1 + 1 = n /\ (IF 1 <= n THEN n - 1 + 1 ELSE 0) = n
          /\ \A i \in 1 .. n : 1 + i - 1 = i
      BY <1>2
    <3> QED
      BY <3>1, <3>2
  <2>4. SubSeq(ms, 1, n) = [i \in DOMAIN SubSeq(ms, 1, n) |-> SubSeq(ms, 1, n)[i]]
        /\ DOMAIN SubSeq(ms, 1, n) = 1 .. n
    BY <2>3, LenProperties, SeqDef
  <2> QED
    BY <2>1, <2>3, <2>4
<1> HIDE DEF n, ms
<1>5. FirstPage(t) \in [1 .. n -> Msg] /\ \A i \in 1 .. n : Stored(FirstPage(t)[i])
  <2> SUFFICES ASSUME NEW i \in 1 .. n
               PROVE  ms[i] \in Msg /\ Stored(ms[i])
    BY <1>4
  <2>1. i \in 1 .. Len(log[t])
    BY <1>1, <1>2
  <2> QED
    BY <2>1, <1>1, <1>3 DEF Stored
<1> QED
  BY <1>2, <1>5, SeqDef DEF AllStored

\* Messages stay where they are.
LEMMA StoredStays ==
    ASSUME \A t \in Threads : DOMAIN log[t] \subseteq DOMAIN log'[t]
    PROVE  /\ \A m \in Msg : Stored(m) => Stored(m)'
           /\ \A s \in Seq(Msg) : AllStored(s) => AllStored(s)'
<1>1. \A m \in Msg : Stored(m) => Stored(m)'
  BY DEF Stored, Msg
<1>2. ASSUME NEW s \in Seq(Msg), AllStored(s) PROVE AllStored(s)'
  <2> SUFFICES ASSUME NEW i \in DOMAIN s PROVE Stored(s[i])'
    BY DEF AllStored
  <2>1. s[i] \in Msg
    BY ElementOfSeq, LenProperties
  <2> QED
    BY <2>1, <1>1, <1>2 DEF AllStored
<1> QED
  BY <1>1, <1>2

------------------------------------------------------------------------------
(***************************************************************************)
(* A step leaves a text where it is, or moves it                           *)
(***************************************************************************)
Goes(r, x) == r.text = x /\ r.answer \in {None, Failed}
OnePlace(x) == \E p \in Places(x) : x \notin unheard => Places(x) = {p}

At(p, x) ==
    \/ \E t \in Threads : \E n \in DOMAIN log[t] : log[t][n] = x /\ p = <<"posted", t, n>>
    \/ \E r \in sends : Goes(r, x) /\ p = <<"call", r>>
    \/ composer = x /\ p = <<"composer", x>>
    \/ x \in abandoned /\ p = <<"abandoned", x>>

LEMMA InPlaces == \A x, p : p \in Places(x) <=> At(p, x)
<1> SUFFICES ASSUME NEW x, NEW p PROVE p \in Places(x) <=> At(p, x)
  OBVIOUS
<1> DEFINE posted == UNION {{<<"posted", t, n>> : n \in Posted(t, x)} : t \in Threads}
           going == {<<"call", r>> :
                        r \in {r \in sends : r.text = x /\ r.answer \in {None, Failed}}}
           here == {<<"composer", y>> : y \in {composer} \cap {x}}
           gone == {<<"abandoned", y>> : y \in abandoned \cap {x}}
<1>1. p \in posted <=>
          \E t \in Threads : \E n \in DOMAIN log[t] : log[t][n] = x /\ p = <<"posted", t, n>>
  <2>1. \A t : p \in {<<"posted", t, n>> : n \in Posted(t, x)} <=>
                   \E n \in DOMAIN log[t] : log[t][n] = x /\ p = <<"posted", t, n>>
    BY DEF Posted
  <2> QED
    BY <2>1
<1>2. p \in going <=> \E r \in sends : Goes(r, x) /\ p = <<"call", r>>
  BY DEF Goes
<1>3. p \in here <=> composer = x /\ p = <<"composer", x>>
  OBVIOUS
<1>4. p \in gone <=> x \in abandoned /\ p = <<"abandoned", x>>
  OBVIOUS
<1>5. Places(x) = posted \cup going \cup here \cup gone
  BY DEF Places
<1> HIDE DEF posted, going, here, gone
<1> QED
  BY <1>1, <1>2, <1>3, <1>4, <1>5 DEF At

LEMMA InPlacesNext == \A x, p : p \in Places(x)' <=> At(p, x)'
<1>1. (\A x, p : p \in Places(x) <=> At(p, x))'
  BY InPlaces, PTL
<1> QED
  BY <1>1

LEMMA AllInOnePlace == TextInOnePlace <=> \A x \in Texts : OnePlace(x)
  BY DEF TextInOnePlace, OnePlace

\* If all the places of a text, one or more, become one another each.
LEMMA MovedPlaces ==
    ASSUME NEW x, OnePlace(x), unheard \subseteq unheard',
           NEW f, Places(x)' = {f[p] : p \in Places(x)}
    PROVE  OnePlace(x)'
<1>1. PICK p \in Places(x) : x \notin unheard => Places(x) = {p}
  BY DEF OnePlace
<1>2. f[p] \in Places(x)'
  BY <1>1
<1>3. ASSUME x \notin unheard' PROVE Places(x)' = {f[p]}
  <2>1. Places(x) = {p}
    BY <1>1, <1>3
  <2> QED
    BY <2>1
<1> QED
  BY <1>2, <1>3 DEF OnePlace

LEMMA SamePlaces ==
    ASSUME NEW x, OnePlace(x), unheard \subseteq unheard',
           \A p : p \in Places(x)' <=> p \in Places(x)
    PROVE  OnePlace(x)'
<1>1. Places(x)' = Places(x)
  OBVIOUS
<1>2. PICK p \in Places(x) : x \notin unheard => Places(x) = {p}
  BY DEF OnePlace
<1>3. p \in Places(x)' /\ (x \notin unheard' => Places(x)' = {p})
  BY <1>1, <1>2
<1> QED
  BY <1>3 DEF OnePlace

\* If one place q of a text is given up for another, s.
LEMMA MovedPlace ==
    ASSUME NEW x, OnePlace(x), unheard \subseteq unheard', NEW q, NEW s,
           q \in Places(x), s \in Places(x)',
           \A p : p \in Places(x) /\ p # q => p \in Places(x)',
           \A p : p \in Places(x)' /\ p # s => p \in Places(x) /\ p # q
    PROVE  OnePlace(x)'
<1>1. CASE x \in unheard'
  BY <1>1 DEF OnePlace
<1>2. CASE x \notin unheard'
  <2>1. Places(x) = {q}
    <3>1. PICK p \in Places(x) : x \notin unheard => Places(x) = {p}
      BY DEF OnePlace
    <3>2. x \notin unheard
      BY <1>2
    <3> QED
      BY <3>1, <3>2
  <2>2. Places(x)' = {s}
    BY <2>1
  <2> QED
    BY <2>2 DEF OnePlace
<1> QED
  BY <1>1, <1>2

\* A message is stored behind the ones that are there.
LEMMA Appended ==
    ASSUME LogOK, NEW t \in Threads, NEW e \in Texts \cup {Other}, typed' = typed,
           log' = [log EXCEPT ![t] = Append(@, e)]
    PROVE  /\ LogOK'
           /\ \A u \in Threads : DOMAIN log[u] \subseteq DOMAIN log'[u]
           /\ \A u \in Threads : \A n \in DOMAIN log[u] : log'[u][n] = log[u][n]
           /\ \A u \in Threads : u # t => DOMAIN log'[u] = DOMAIN log[u]
           /\ DOMAIN log'[t] = DOMAIN log[t] \cup {Len(log'[t])}
           /\ Len(log'[t]) \notin DOMAIN log[t] /\ Len(log'[t]) \in Nat
           /\ log'[t][Len(log'[t])] = e
<1> DEFINE E == Texts \cup {Other}
<1>1. log[t] \in Seq(E) /\ Len(log[t]) \in Nat /\ DOMAIN log[t] = 1 .. Len(log[t])
  BY LenProperties DEF LogOK
<1>2. log'[t] = Append(log[t], e) /\ \A u \in Threads : u # t => log'[u] = log[u]
  BY DEF LogOK
<1>3. e \in E
  OBVIOUS
<1> HIDE DEF E
<1>4. /\ log'[t] \in Seq(E) /\ Len(log'[t]) = Len(log[t]) + 1
      /\ \A i \in 1 .. Len(log[t]) : log'[t][i] = log[t][i]
      /\ log'[t][Len(log[t]) + 1] = e
  BY <1>1, <1>2, <1>3, AppendProperties
<1>5. DOMAIN log'[t] = 1 .. Len(log[t]) + 1
  BY <1>4, LenProperties
<1>6. LogOK'
  <2>1. Texts' = Texts /\ typed' \in Nat
    BY DEF Texts, LogOK
  <2>2. log' \in [Threads -> Seq(E)]
    BY <1>2, <1>4 DEF LogOK, E
  <2> QED
    BY <2>1, <2>2 DEF LogOK, E
<1>7. Len(log'[t]) \notin DOMAIN log[t] /\ DOMAIN log'[t] = DOMAIN log[t] \cup {Len(log'[t])}
  BY <1>1, <1>4, <1>5
<1>8. Len(log'[t]) \in Nat
  BY <1>1, <1>4
<1> QED
  BY <1>1, <1>2, <1>4, <1>6, <1>7, <1>8

\* What changes no call, composer or text leaves the texts in place, if the
\* messages it stores are not the composer's.
LEMMA TextsStay ==
    ASSUME PanelInv, UNCHANGED <<sends, composer, history>>,
           \/ log' = log
           \/ \E t \in Threads : log' = [log EXCEPT ![t] = Append(@, Other)]
    PROVE  TextInOnePlace'
<1>1. Texts' = Texts /\ typed \in Nat /\ LogOK
  BY DEF Texts, history, PanelInv, PanelShapes, LogOK
<1> SUFFICES ASSUME NEW x \in Texts PROVE OnePlace(x)'
  BY <1>1 DEF TextInOnePlace, OnePlace
<1>2. OnePlace(x)
  BY AllInOnePlace DEF PanelInv
<1>3. x # Other
  BY <1>1, NoFlagIsText DEF Texts
<1>4. \A t \in Threads : \A n :
          n \in DOMAIN log'[t] /\ log'[t][n] = x <=> n \in DOMAIN log[t] /\ log[t][n] = x
  <2>1. CASE log' = log
    BY <2>1
  <2>2. ASSUME NEW u \in Threads, log' = [log EXCEPT ![u] = Append(@, Other)]
        PROVE  \A t \in Threads : \A n :
                   n \in DOMAIN log'[t] /\ log'[t][n] = x
                       <=> n \in DOMAIN log[t] /\ log[t][n] = x
    <3>1. typed' = typed
      BY DEF history
    <3> HIDE DEF PanelInv
    <3> QED
      BY <1>1, <1>3, <2>2, <3>1, Appended
  <2> QED
    BY <2>1, <2>2
<1>5. unheard' = unheard /\ composer' = composer /\ sends' = sends /\ abandoned' = abandoned
  BY DEF history
<1>6. \A p : p \in Places(x)' <=> p \in Places(x)
  <2> SUFFICES ASSUME NEW p PROVE p \in Places(x)' <=> p \in Places(x)
    OBVIOUS
  <2> QED
    BY <1>4, <1>5, InPlaces, InPlacesNext DEF At, Goes
<1> QED
  BY <1>2, <1>5, <1>6, SamePlaces

LEMMA OpenKeeps ==
    ASSUME PanelInv, NEW t \in Threads, Open(t)
    PROVE  PanelInv'
<1>1. /\ mounted' = t /\ fetches' = fetches \cup {Fetch(t)} /\ log' = log /\ shown' = shown
      /\ composer' = composer /\ sends' = sends /\ posts' = posts /\ faults' = faults
      /\ typed' = typed /\ abandoned' = abandoned /\ unheard' = unheard
  BY DEF Open, panel, history
<1>2. Fetch(t) \in FetchCall /\ ~Answered(Fetch(t)) /\ t # None
  BY MessageThreadAssumption DEF Fetch, FetchCall, Answered, Outcome
<1>3. Texts' = Texts
  BY <1>1 DEF Texts
<1>4. PanelShapes
  BY DEF PanelInv
<1>5. LogOK' /\ TextsOK' /\ BoundsOK'
  BY <1>1, <1>3, <1>4 DEF PanelShapes, LogOK, TextsOK, BoundsOK
<1>6. ScreenOK'
  BY <1>1, <1>2, <1>3, <1>4 DEF PanelShapes, ScreenOK, AllStored, Stored
<1>7. FetchesOK' /\ SendsOK'
  BY <1>1, <1>2, <1>3, <1>4 DEF PanelShapes, FetchesOK, SendsOK, AllStored, Stored
<1>8. SendingOK'
  BY <1>1, <1>2 DEF PanelInv, SendingOK
<1>9. TextInOnePlace'
  BY <1>1, TextsStay DEF history
<1> QED
  BY <1>5, <1>6, <1>7, <1>8, <1>9 DEF PanelInv, PanelShapes

LEMMA PollKeeps ==
    ASSUME PanelInv, Poll
    PROVE  PanelInv'
<1>1. /\ mounted # None /\ mounted' = mounted /\ fetches' = fetches \cup {Fetch(mounted)}
      /\ log' = log /\ shown' = shown
      /\ composer' = composer /\ sends' = sends /\ posts' = posts /\ faults' = faults
      /\ typed' = typed /\ abandoned' = abandoned /\ unheard' = unheard
  BY DEF Poll, panel, history
<1>2. Fetch(mounted) \in FetchCall /\ ~Answered(Fetch(mounted))
  <2>1. mounted \in Threads
    BY <1>1 DEF PanelInv, PanelShapes, ScreenOK
  <2> QED
    BY <2>1 DEF Fetch, FetchCall, Answered, Outcome
<1>3. Texts' = Texts
  BY <1>1 DEF Texts
<1>4. PanelShapes
  BY DEF PanelInv
<1>5. LogOK' /\ TextsOK' /\ BoundsOK'
  BY <1>1, <1>3, <1>4 DEF PanelShapes, LogOK, TextsOK, BoundsOK
<1>6. ScreenOK'
  BY <1>1, <1>2, <1>3, <1>4 DEF PanelShapes, ScreenOK, AllStored, Stored
<1>7. FetchesOK' /\ SendsOK'
  BY <1>1, <1>2, <1>3, <1>4 DEF PanelShapes, FetchesOK, SendsOK, AllStored, Stored
<1>8. SendingOK'
  BY <1>1 DEF PanelInv, SendingOK
<1>9. TextInOnePlace'
  BY <1>1, TextsStay DEF history
<1> QED
  BY <1>5, <1>6, <1>7, <1>8, <1>9 DEF PanelInv, PanelShapes

LEMMA OtherMessageKeeps ==
    ASSUME PanelInv, NEW t \in Threads, OtherMessage(t)
    PROVE  PanelInv'
<1>1. /\ posts < MaxPosts /\ posts' = posts + 1
      /\ log' = [log EXCEPT ![t] = Append(@, Other)]
      /\ mounted' = mounted /\ fetches' = fetches /\ shown' = shown
      /\ composer' = composer /\ sends' = sends /\ faults' = faults
      /\ typed' = typed /\ abandoned' = abandoned /\ unheard' = unheard
  BY DEF OtherMessage, panel, history
<1>2. Texts' = Texts
  BY <1>1 DEF Texts
<1>3. PanelShapes
  BY DEF PanelInv
<1>4. LogOK
  BY <1>3 DEF PanelShapes
<1>5. LogOK' /\ \A u \in Threads : DOMAIN log[u] \subseteq DOMAIN log'[u]
  BY <1>1, <1>4, Appended
<1>6. /\ \A m \in Msg : Stored(m) => Stored(m)'
      /\ \A s \in Seq(Msg) : AllStored(s) => AllStored(s)'
  BY <1>5, StoredStays
<1>7. TextsOK' /\ BoundsOK'
  BY <1>1, <1>2, <1>3, MessageThreadAssumption DEF PanelShapes, TextsOK, BoundsOK
<1>8. ScreenOK'
  BY <1>1, <1>2, <1>3, <1>6 DEF PanelShapes, ScreenOK
<1>9. FetchesOK'
  BY <1>1, <1>3, <1>6 DEF PanelShapes, FetchesOK, FetchCall, Answered, Outcome
<1>10. SendsOK'
  BY <1>1, <1>2, <1>3, <1>6 DEF PanelShapes, SendsOK, SendCall, Answered, Outcome
<1>11. SendingOK'
  BY <1>1 DEF PanelInv, SendingOK
<1>12. TextInOnePlace'
  BY <1>1, TextsStay DEF history
<1> QED
  BY <1>5, <1>7, <1>8, <1>9, <1>10, <1>11, <1>12 DEF PanelInv, PanelShapes

LEMMA ServeFetchKeeps ==
    ASSUME PanelInv, NEW r \in Waiting(fetches), ServeFetch(r)
    PROVE  PanelInv'
<1>1. /\ log' = log /\ mounted' = mounted /\ shown' = shown
      /\ composer' = composer /\ sends' = sends /\ posts' = posts
      /\ typed' = typed /\ abandoned' = abandoned /\ unheard' = unheard
  BY DEF ServeFetch, panel, history
<1>2. /\ \/ faults' = faults
         \/ faults < MaxFaults /\ faults' = faults + 1
      /\ \/ fetches' = With(fetches, r, FirstPage(r.thread))
         \/ fetches' = With(fetches, r, Failed)
  BY DEF ServeFetch
<1>3. Texts' = Texts
  BY <1>1 DEF Texts
<1>4. PanelShapes
  BY DEF PanelInv
<1>5. LogOK' /\ TextsOK' /\ BoundsOK'
  BY <1>1, <1>2, <1>3, <1>4, MessageThreadAssumption
  DEF PanelShapes, LogOK, TextsOK, BoundsOK
<1>6. r \in fetches /\ r \in FetchCall /\ r.thread \in Threads
  BY <1>4 DEF PanelShapes, FetchesOK, Waiting, FetchCall
<1>7. PICK a \in Outcome(Seq(Msg)) :
          /\ fetches' = (fetches \ {r}) \cup {[r EXCEPT !.answer = a]}
          /\ a \notin {None, Failed} => AllStored(a)
  BY <1>2, <1>4, <1>6, FirstPageIsStored DEF PanelShapes, With, Outcome
<1>8. FetchesOK'
  <2>1. [r EXCEPT !.answer = a] \in FetchCall /\ [r EXCEPT !.answer = a].answer = a
    BY <1>6, FetchAnswered
  <2> QED
    BY <1>1, <1>4, <1>7, <2>1 DEF PanelShapes, FetchesOK, AllStored, Stored, Answered
<1>9. ScreenOK'
  <2>1. mounted # None
    BY <1>4, <1>6 DEF PanelShapes, ScreenOK
  <2> QED
    BY <1>1, <1>3, <1>4, <2>1 DEF PanelShapes, ScreenOK, AllStored, Stored
<1>10. SendsOK'
  BY <1>1, <1>3, <1>4 DEF PanelShapes, SendsOK, Stored
<1>11. SendingOK'
  BY <1>1 DEF PanelInv, SendingOK
<1>12. TextInOnePlace'
  BY <1>1, TextsStay DEF history
<1> QED
  BY <1>5, <1>8, <1>9, <1>10, <1>11, <1>12 DEF PanelInv, PanelShapes

LEMMA AnswerFetchKeeps ==
    ASSUME PanelInv, NEW r \in Arrived(fetches), AnswerFetch(r)
    PROVE  PanelInv'
<1>1. /\ fetches' = fetches \ {r}
      /\ shown' = IF r.answer = Failed THEN shown ELSE r.answer
      /\ log' = log /\ mounted' = mounted
      /\ composer' = composer /\ sends' = sends /\ posts' = posts /\ faults' = faults
      /\ typed' = typed /\ abandoned' = abandoned /\ unheard' = unheard
  BY DEF AnswerFetch, history
<1>2. Texts' = Texts
  BY <1>1 DEF Texts
<1>3. PanelShapes
  BY DEF PanelInv
<1>4. LogOK' /\ TextsOK' /\ BoundsOK' /\ SendsOK'
  BY <1>1, <1>2, <1>3 DEF PanelShapes, LogOK, TextsOK, BoundsOK, SendsOK, Stored
<1>5. FetchesOK'
  BY <1>1, <1>3 DEF PanelShapes, FetchesOK, AllStored, Stored
<1>6. r \in fetches /\ r \in FetchCall /\ r.answer # None
  BY <1>3 DEF PanelShapes, FetchesOK, Arrived
<1>7. shown' \in Seq(Msg) /\ AllStored(shown')
  <2>1. CASE r.answer = Failed
    BY <1>1, <1>3, <2>1 DEF PanelShapes, ScreenOK
  <2>2. CASE r.answer # Failed
    <3>1. Answered(r) /\ r.answer \in Seq(Msg)
      BY <1>6, <2>2 DEF FetchCall, Outcome, Answered
    <3>2. AllStored(r.answer)
      BY <1>3, <1>6, <3>1 DEF PanelShapes, FetchesOK
    <3> QED
      BY <1>1, <2>2, <3>1, <3>2
  <2> QED
    BY <2>1, <2>2
<1>8. ScreenOK'
  <2>1. mounted # None
    BY <1>3, <1>6 DEF PanelShapes, ScreenOK
  <2> QED
    BY <1>1, <1>2, <1>3, <1>7, <2>1 DEF PanelShapes, ScreenOK, AllStored, Stored
<1>9. SendingOK'
  BY <1>1 DEF PanelInv, SendingOK
<1>10. TextInOnePlace'
  BY <1>1, TextsStay DEF history
<1> QED
  BY <1>4, <1>5, <1>8, <1>9, <1>10 DEF PanelInv, PanelShapes

------------------------------------------------------------------------------
(***************************************************************************)
(* The user's steps                                                        *)
(***************************************************************************)
LEMMA CloseKeeps ==
    ASSUME PanelInv, Close
    PROVE  PanelInv'
<1> DEFINE off(r) == [r EXCEPT !.live = FALSE]
<1>1. /\ mounted' = None /\ shown' = <<>> /\ composer' = None /\ fetches' = {}
      /\ abandoned' = abandoned \cup ({composer} \ {None})
      /\ sends' = {off(r) : r \in sends}
      /\ log' = log /\ posts' = posts /\ faults' = faults
      /\ typed' = typed /\ unheard' = unheard
  BY DEF Close
<1>2. Texts' = Texts
  BY <1>1 DEF Texts
<1>3. PanelShapes
  BY DEF PanelInv
<1>4. \A r \in sends : /\ off(r) \in SendCall /\ off(r).answer = r.answer
                       /\ off(r).text = r.text /\ off(r).live = FALSE
  BY <1>3, SendUnmounted DEF PanelShapes, SendsOK
<1>5. LogOK' /\ BoundsOK' /\ FetchesOK'
  BY <1>1, <1>2, <1>3 DEF PanelShapes, LogOK, BoundsOK, FetchesOK
<1>6. TextsOK'
  BY <1>1, <1>2, <1>3 DEF PanelShapes, TextsOK, ScreenOK
<1>7. ScreenOK'
  <2>1. <<>> \in Seq(Msg) /\ DOMAIN <<>> = {}
    OBVIOUS
  <2> QED
    BY <1>1, <2>1 DEF ScreenOK, AllStored
<1>8. SendsOK'
  <2> SUFFICES ASSUME NEW r \in sends
               PROVE  /\ off(r) \in SendCall /\ off(r).text \in Texts
                      /\ Answered(off(r)) => Stored(off(r).answer)
    BY <1>1, <1>2 DEF SendsOK, Stored
  <2> QED
    BY <1>3, <1>4 DEF PanelShapes, SendsOK, Answered
<1>9. SendingOK'
  <2>1. \A r \in sends' : ~r.live
    BY <1>1, <1>4
  <2> QED
    BY <2>1 DEF SendingOK
<1>10. ASSUME NEW x \in Texts PROVE OnePlace(x)'
  <2> DEFINE f == [p \in Places(x) |->
                      IF p = <<"composer", x>> THEN <<"abandoned", x>>
                      ELSE IF p[1] = "call" THEN <<"call", off(p[2])>> ELSE p]
  <2>1. OnePlace(x)
    BY AllInOnePlace DEF PanelInv
  <2>2. x # None
    BY <1>3, NoFlagIsText DEF PanelShapes, LogOK, Texts
  <2>3. \A t \in Threads : \A n \in DOMAIN log[t] : log[t][n] = x =>
            /\ <<"posted", t, n>> \in Places(x) /\ <<"posted", t, n>> \in Places(x)'
            /\ f[<<"posted", t, n>>] = <<"posted", t, n>>
    <3> SUFFICES ASSUME NEW t \in Threads, NEW n \in DOMAIN log[t], log[t][n] = x
                 PROVE  /\ <<"posted", t, n>> \in Places(x) /\ <<"posted", t, n>> \in Places(x)'
                        /\ f[<<"posted", t, n>>] = <<"posted", t, n>>
      OBVIOUS
    <3>1. <<"posted", t, n>> \in Places(x) /\ <<"posted", t, n>> \in Places(x)'
      BY <1>1, InPlaces, InPlacesNext DEF At, Goes
    <3>2. <<"posted", t, n>> # <<"composer", x>> /\ <<"posted", t, n>>[1] # "call"
      OBVIOUS
    <3> QED
      BY <3>1, <3>2
  <2>4. \A r \in sends : Goes(r, x) =>
            /\ <<"call", r>> \in Places(x) /\ <<"call", off(r)>> \in Places(x)'
            /\ f[<<"call", r>>] = <<"call", off(r)>>
    <3> SUFFICES ASSUME NEW r \in sends, Goes(r, x)
                 PROVE  /\ <<"call", r>> \in Places(x) /\ <<"call", off(r)>> \in Places(x)'
                        /\ f[<<"call", r>>] = <<"call", off(r)>>
      OBVIOUS
    <3>1. <<"call", r>> \in Places(x)
      BY InPlaces DEF At
    <3>2. off(r) \in sends' /\ off(r).text = x /\ off(r).answer \in {None, Failed}
      BY <1>1, <1>4 DEF Goes
    <3> HIDE DEF off
    <3>3. <<"call", off(r)>> \in Places(x)'
      BY <3>2, InPlaces, InPlacesNext DEF At, Goes
    <3>4. <<"call", r>> # <<"composer", x>> /\ <<"call", r>>[1] = "call" /\ <<"call", r>>[2] = r
      OBVIOUS
    <3> QED
      BY <3>1, <3>3, <3>4
  <2>5. composer = x =>
            /\ <<"composer", x>> \in Places(x) /\ <<"abandoned", x>> \in Places(x)'
            /\ f[<<"composer", x>>] = <<"abandoned", x>>
    BY <1>1, <2>2, InPlaces, InPlacesNext DEF At, Goes
  <2>6. x \in abandoned =>
            /\ <<"abandoned", x>> \in Places(x) /\ <<"abandoned", x>> \in Places(x)'
            /\ f[<<"abandoned", x>>] = <<"abandoned", x>>
    <3> SUFFICES ASSUME x \in abandoned
                 PROVE  /\ <<"abandoned", x>> \in Places(x) /\ <<"abandoned", x>> \in Places(x)'
                        /\ f[<<"abandoned", x>>] = <<"abandoned", x>>
      OBVIOUS
    <3>1. <<"abandoned", x>> \in Places(x) /\ <<"abandoned", x>> \in Places(x)'
      BY <1>1, InPlaces, InPlacesNext DEF At, Goes
    <3>2. <<"abandoned", x>> # <<"composer", x>> /\ <<"abandoned", x>>[1] # "call"
      OBVIOUS
    <3> QED
      BY <3>1, <3>2
  <2>7. ASSUME NEW p \in Places(x) PROVE f[p] \in Places(x)'
    <3> HIDE DEF f, off
    <3>1. At(p, x)
      BY InPlaces
    <3>2. CASE \E t \in Threads : \E n \in DOMAIN log[t] : log[t][n] = x /\ p = <<"posted", t, n>>
      BY <3>2, <2>3
    <3>3. CASE \E r \in sends : Goes(r, x) /\ p = <<"call", r>>
      BY <3>3, <2>4
    <3>4. CASE composer = x /\ p = <<"composer", x>>
      BY <3>4, <2>5
    <3>5. CASE x \in abandoned /\ p = <<"abandoned", x>>
      BY <3>5, <2>6
    <3> QED
      BY <3>1, <3>2, <3>3, <3>4, <3>5 DEF At
  <2>8. ASSUME NEW q \in Places(x)' PROVE \E p \in Places(x) : q = f[p]
    <3>1. \/ \E t \in Threads : \E n \in DOMAIN log[t] : log[t][n] = x /\ q = <<"posted", t, n>>
          \/ \E r \in sends' : r.text = x /\ r.answer \in {None, Failed} /\ q = <<"call", r>>
          \/ composer' = x /\ q = <<"composer", x>>
          \/ x \in abandoned' /\ q = <<"abandoned", x>>
      BY <1>1, InPlaces, InPlacesNext DEF At, Goes
    <3>2. \A r \in sends' : r.text = x /\ r.answer \in {None, Failed}
              => \E s \in sends : Goes(s, x) /\ r = off(s)
      BY <1>1, <1>4 DEF Goes
    <3> HIDE DEF f, off
    <3>3. \/ \E t \in Threads : \E n \in DOMAIN log[t] : log[t][n] = x /\ q = <<"posted", t, n>>
          \/ \E s \in sends : Goes(s, x) /\ q = <<"call", off(s)>>
          \/ composer = x /\ q = <<"abandoned", x>>
          \/ x \in abandoned /\ q = <<"abandoned", x>>
      BY <3>1, <3>2, <1>1, <2>2
    <3> QED
      BY <3>3, <2>3, <2>4, <2>5, <2>6
  <2> HIDE DEF f
  <2>9. Places(x)' = {f[p] : p \in Places(x)}
    BY <2>7, <2>8
  <2> QED
    BY <1>1, <2>1, <2>9, MovedPlaces
<1>11. TextInOnePlace'
  BY <1>2, <1>10 DEF TextInOnePlace, OnePlace
<1> QED
  BY <1>5, <1>6, <1>7, <1>8, <1>9, <1>11 DEF PanelInv, PanelShapes

LEMMA TypeKeeps ==
    ASSUME PanelInv, Type
    PROVE  PanelInv'
<1>1. /\ mounted # None /\ composer = None /\ ~Sending /\ typed < MaxTexts
      /\ typed' = typed + 1 /\ composer' = typed + 1
      /\ log' = log /\ mounted' = mounted /\ shown' = shown /\ fetches' = fetches
      /\ sends' = sends /\ posts' = posts /\ faults' = faults
      /\ abandoned' = abandoned /\ unheard' = unheard
  BY DEF Type
<1>2. PanelShapes
  BY DEF PanelInv
<1>. PICK new \in Nat : new = typed + 1
  BY <1>2 DEF PanelShapes, LogOK
<1>3. typed \in Nat /\ Texts' = Texts \cup {new} /\ new \notin Texts /\ new \in Nat
      /\ Texts \subseteq Nat
  BY <1>1, <1>2 DEF PanelShapes, LogOK, Texts
<1>4. LogOK'
  <2>1. \A t \in Threads : log[t] \in Seq(Texts' \cup {Other})
    <3> SUFFICES ASSUME NEW t \in Threads PROVE log[t] \in Seq(Texts' \cup {Other})
      OBVIOUS
    <3>1. log[t] \in Seq(Texts \cup {Other})
      BY <1>2 DEF PanelShapes, LogOK
    <3>2. \A i \in 1 .. Len(log[t]) : log[t][i] \in Texts' \cup {Other}
      BY <1>3, <3>1, ElementOfSeq
    <3>3. log[t] \in [1 .. Len(log[t]) -> Texts' \cup {Other}] /\ Len(log[t]) \in Nat
      BY <3>1, <3>2, LenProperties
    <3> QED
      BY <3>3, SeqDef
  <2>2. log \in [Threads -> Seq(Texts' \cup {Other})]
    BY <2>1, <1>2 DEF PanelShapes, LogOK
  <2> QED
    BY <1>1, <1>3, <2>2 DEF LogOK
<1>5. BoundsOK'
  BY <1>1, <1>2, MessageThreadAssumption DEF PanelShapes, BoundsOK
<1>6. TextsOK' /\ FetchesOK' /\ SendsOK'
  BY <1>1, <1>2, <1>3
  DEF PanelShapes, TextsOK, FetchesOK, SendsOK, AllStored, Stored
<1>7. ScreenOK'
  BY <1>1, <1>2, <1>3 DEF PanelShapes, ScreenOK, AllStored, Stored
<1>8. SendingOK'
  BY <1>1 DEF SendingOK, Sending
<1>9. ASSUME NEW x \in Texts PROVE OnePlace(x)'
  <2>1. OnePlace(x)
    BY AllInOnePlace DEF PanelInv
  <2>2. x # None /\ x # new
    BY <1>3, NoFlagIsText
  <2>3. \A p : p \in Places(x)' <=> p \in Places(x)
    <3>1. composer # x /\ composer' # x
      BY <1>1, <2>2
    <3> QED
      BY <1>1, <3>1, InPlaces, InPlacesNext DEF At, Goes
  <2> QED
    BY <1>1, <2>1, <2>3, SamePlaces
<1>10. OnePlace(new)'
  <2>1. \A t \in Threads : \A n \in DOMAIN log[t] : log[t][n] # new
    <3> SUFFICES ASSUME NEW t \in Threads, NEW n \in DOMAIN log[t] PROVE log[t][n] # new
      OBVIOUS
    <3>1. log[t] \in Seq(Texts \cup {Other})
      BY <1>2 DEF PanelShapes, LogOK
    <3>2. log[t][n] \in Texts \cup {Other}
      BY <3>1, ElementOfSeq, LenProperties
    <3> QED
      BY <1>3, <3>2, NoFlagIsText
  <2>2. (\A r \in sends : r.text # new) /\ new \notin abandoned
    BY <1>2, <1>3 DEF PanelShapes, SendsOK, TextsOK
  <2>3. Places(new)' = {<<"composer", new>>}
    <3>1. composer' = new
      BY <1>1
    <3> QED
      BY <1>1, <2>1, <2>2, <3>1, InPlaces, InPlacesNext DEF At, Goes
  <2> QED
    BY <2>3 DEF OnePlace
<1>11. TextInOnePlace'
  BY <1>3, <1>9, <1>10 DEF TextInOnePlace, OnePlace
<1> QED
  BY <1>4, <1>5, <1>6, <1>7, <1>8, <1>11 DEF PanelInv, PanelShapes

LEMMA SendKeeps ==
    ASSUME PanelInv, Send
    PROVE  PanelInv'
<1> DEFINE r == [thread |-> mounted, text |-> composer, live |-> TRUE, answer |-> None]
<1>1. /\ mounted # None /\ composer # None /\ ~Sending
      /\ composer' = None /\ sends' = sends \cup {r}
      /\ log' = log /\ mounted' = mounted /\ shown' = shown /\ fetches' = fetches
      /\ posts' = posts /\ faults' = faults
      /\ typed' = typed /\ abandoned' = abandoned /\ unheard' = unheard
  BY DEF Send, history
<1>2. Texts' = Texts
  BY <1>1 DEF Texts
<1>3. PanelShapes
  BY DEF PanelInv
<1>4. mounted \in Threads /\ composer \in Texts /\ composer \in Nat
  BY <1>1, <1>3 DEF PanelShapes, ScreenOK, LogOK, Texts
<1>5. r \in SendCall /\ ~Answered(r) /\ r.text = composer /\ r.live /\ r.answer = None
  BY <1>4 DEF SendCall, Outcome, Answered
<1> HIDE DEF r
<1>6. LogOK' /\ TextsOK' /\ BoundsOK'
  BY <1>1, <1>2, <1>3 DEF PanelShapes, LogOK, TextsOK, BoundsOK
<1>7. ScreenOK' /\ FetchesOK'
  BY <1>1, <1>2, <1>3 DEF PanelShapes, ScreenOK, FetchesOK, AllStored, Stored
<1>8. SendsOK'
  BY <1>1, <1>2, <1>3, <1>4, <1>5 DEF PanelShapes, SendsOK, Stored
<1>9. SendingOK'
  <2>1. \A s \in sends : ~s.live
    BY <1>1 DEF Sending
  <2> QED
    BY <1>1, <2>1 DEF SendingOK
<1>10. ASSUME NEW x \in Texts PROVE OnePlace(x)'
  <2>1. OnePlace(x)
    BY AllInOnePlace DEF PanelInv
  <2>2. x # None
    BY <1>3, NoFlagIsText DEF PanelShapes, LogOK, Texts
  <2>3. CASE x # composer
    <3>1. \A p : p \in Places(x)' <=> p \in Places(x)
      BY <1>1, <1>5, <2>2, <2>3, InPlaces, InPlacesNext DEF At, Goes
    <3> QED
      BY <1>1, <2>1, <3>1, SamePlaces
  <2>4. CASE x = composer
    <3> DEFINE q == <<"composer", x>>
               s == <<"call", r>>
    <3>1. q \in Places(x) /\ s \in Places(x)'
      BY <1>1, <1>5, <2>4, InPlaces, InPlacesNext DEF At, Goes
    <3>2. \A p : p \in Places(x) /\ p # q => p \in Places(x)'
      BY <1>1, <2>4, InPlaces, InPlacesNext DEF At, Goes
    <3>3. \A p : p \in Places(x)' /\ p # s => p \in Places(x) /\ p # q
      BY <1>1, <2>2, <2>4, InPlaces, InPlacesNext DEF At, Goes
    <3> HIDE DEF q, s
    <3> QED
      BY <1>1, <2>1, <3>1, <3>2, <3>3, MovedPlace
  <2> QED
    BY <2>3, <2>4
<1>11. TextInOnePlace'
  BY <1>2, <1>10 DEF TextInOnePlace, OnePlace
<1> QED
  BY <1>6, <1>7, <1>8, <1>9, <1>11 DEF PanelInv, PanelShapes

------------------------------------------------------------------------------
(***************************************************************************)
(* The server and its answers                                              *)
(***************************************************************************)
\* The server stores a message, or not, and answers its sender.
Answers(r, a) == sends' = (sends \ {r}) \cup {[r EXCEPT !.answer = a]}
Stores(r) == log' = [log EXCEPT ![r.thread] = Append(@, r.text)]

\* A text that is neither sent nor stored by a step stays where it is.
LEMMA OthersStay ==
    ASSUME PanelInv, NEW r \in sends, NEW a \in Outcome(Msg), Answers(r, a),
           UNCHANGED <<composer, abandoned, typed>>, unheard \subseteq unheard',
           log' = log \/ Stores(r),
           NEW x \in Texts, x # r.text
    PROVE  OnePlace(x)'
<1>1. PanelShapes /\ OnePlace(x)
  BY AllInOnePlace DEF PanelInv
<1>2. r \in SendCall /\ r.thread \in Threads /\ r.text \in Texts
  BY <1>1 DEF PanelShapes, SendsOK, SendCall
<1> DEFINE b == [r EXCEPT !.answer = a]
<1>3. b.text = r.text
  BY <1>2, SendAnswered
<1> HIDE DEF b
<1>4. sends' = (sends \ {r}) \cup {b}
  BY DEF Answers, b
<1>5. \A t \in Threads : \A n :
          n \in DOMAIN log'[t] /\ log'[t][n] = x <=> n \in DOMAIN log[t] /\ log[t][n] = x
  <2>1. CASE log' = log
    BY <2>1
  <2>2. CASE Stores(r)
    <3>1. LogOK /\ typed' = typed
      BY <1>1 DEF PanelShapes
    <3>2. r.text \in Texts \cup {Other}
      BY <1>2
    <3>3. log' = [log EXCEPT ![r.thread] = Append(@, r.text)]
      BY <2>2 DEF Stores
    <3> QED
      BY <3>1, <3>2, <3>3, <1>2, Appended
  <2> QED
    BY <2>1, <2>2
<1>6. \A p : p \in Places(x)' <=> p \in Places(x)
  <2> SUFFICES ASSUME NEW p PROVE p \in Places(x)' <=> p \in Places(x)
    OBVIOUS
  <2>1. \A s : s \in sends' /\ s.text = x <=> s \in sends /\ s.text = x
    BY <1>3, <1>4
  <2> QED
    BY <1>5, <2>1, InPlaces, InPlacesNext DEF At, Goes
<1> QED
  BY <1>1, <1>6, SamePlaces

\* The types, and the one message on its way, after an answer.
LEMMA AnsweredShapes ==
    ASSUME PanelInv, NEW r \in sends, NEW a \in Outcome(Msg), Answers(r, a),
           UNCHANGED <<mounted, panel, fetches, posts, typed, abandoned>>,
           LogOK', BoundsOK', \A t \in Threads : DOMAIN log[t] \subseteq DOMAIN log'[t],
           a \in Msg => Stored(a)',
           unheard' = unheard \/ unheard' = unheard \cup {r.text}
    PROVE  PanelShapes' /\ SendingOK'
<1>1. PanelShapes
  BY DEF PanelInv
<1>2. Texts' = Texts /\ shown' = shown /\ composer' = composer
  BY DEF Texts, panel
<1> DEFINE b == [r EXCEPT !.answer = a]
<1>3. r \in SendCall /\ r.text \in Texts
  BY <1>1 DEF PanelShapes, SendsOK
<1>4. b \in SendCall /\ b.answer = a /\ b.text = r.text /\ b.live = r.live
  BY <1>3, SendAnswered
<1> HIDE DEF b
<1>5. sends' = (sends \ {r}) \cup {b}
  BY DEF Answers, b
<1>6. /\ \A m \in Msg : Stored(m) => Stored(m)'
      /\ \A s \in Seq(Msg) : AllStored(s) => AllStored(s)'
  BY StoredStays
<1>7. ScreenOK'
  BY <1>1, <1>2, <1>6 DEF PanelShapes, ScreenOK
<1>8. FetchesOK'
  BY <1>1, <1>6 DEF PanelShapes, FetchesOK, FetchCall, Answered, Outcome
<1>9. TextsOK'
  BY <1>1, <1>2, <1>3 DEF PanelShapes, TextsOK
<1>10. SendsOK'
  <2>1. \A s \in sends : s \in SendCall /\ s.text \in Texts' /\ (Answered(s) => Stored(s.answer)')
    BY <1>1, <1>2, <1>6 DEF PanelShapes, SendsOK, SendCall, Answered, Outcome
  <2>2. b \in SendCall /\ b.text \in Texts' /\ (Answered(b) => Stored(b.answer)')
    BY <1>2, <1>3, <1>4 DEF Answered, Outcome
  <2> QED
    BY <1>5, <2>1, <2>2 DEF SendsOK
<1>11. SendingOK'
  BY <1>2, <1>4, <1>5 DEF PanelInv, SendingOK
<1> QED
  BY <1>7, <1>8, <1>9, <1>10, <1>11 DEF PanelShapes

LEMMA ServeSendKeeps ==
    ASSUME PanelInv, NEW r \in Waiting(sends), ServeSend(r)
    PROVE  PanelInv'
<1>. PICK k : k = Len(log'[r.thread])
  OBVIOUS
<1> DEFINE m == Message(r.thread, k)
<1>1. UNCHANGED <<mounted, panel, fetches, posts, typed, abandoned>>
  BY DEF ServeSend
<1>2. \/ Stores(r) /\ Answers(r, m) /\ UNCHANGED <<faults, unheard>>
      \/ /\ Stores(r) /\ Answers(r, Failed) /\ unheard' = unheard \cup {r.text}
         /\ faults < MaxFaults /\ faults' = faults + 1
      \/ /\ Answers(r, Failed) /\ UNCHANGED <<log, unheard>>
         /\ faults < MaxFaults /\ faults' = faults + 1
  BY DEF ServeSend, Stores, Answers, With
<1>3. PanelShapes
  BY DEF PanelInv
<1>4. r \in sends /\ r \in SendCall /\ r.thread \in Threads /\ r.text \in Texts
      /\ r.answer = None
  BY <1>3 DEF PanelShapes, SendsOK, SendCall, Waiting
<1>5. Texts' = Texts /\ LogOK /\ typed' = typed
  BY <1>1, <1>3 DEF Texts, PanelShapes
<1>6. Stores(r) =>
          /\ LogOK'
          /\ \A t \in Threads : DOMAIN log[t] \subseteq DOMAIN log'[t]
          /\ \A t \in Threads : \A n \in DOMAIN log[t] : log'[t][n] = log[t][n]
          /\ \A t \in Threads : t # r.thread => DOMAIN log'[t] = DOMAIN log[t]
          /\ DOMAIN log'[r.thread] = DOMAIN log[r.thread] \cup {Len(log'[r.thread])}
          /\ Len(log'[r.thread]) \in Nat
          /\ log'[r.thread][Len(log'[r.thread])] = r.text
  <2>1. r.text \in Texts \cup {Other}
    BY <1>4
  <2> QED
    BY <1>4, <1>5, <2>1, Appended DEF Stores
<1>7. log' = log => LogOK' /\ \A t \in Threads : DOMAIN log[t] \subseteq DOMAIN log'[t]
  BY <1>5 DEF LogOK
<1>8. BoundsOK'
  BY <1>1, <1>2, <1>3, MessageThreadAssumption DEF PanelShapes, BoundsOK
<1>9. Stores(r) => m \in Msg /\ Stored(m)'
  BY <1>4, <1>6 DEF Message, Msg, Stored
<1>10. composer' = composer /\ unheard \subseteq unheard'
  BY <1>1, <1>2 DEF panel
<1>11. PICK a \in Outcome(Msg) :
          /\ Answers(r, a) /\ (a \in Msg => Stored(a)')
          /\ \/ Stores(r) /\ a \in Msg /\ unheard' = unheard
             \/ Stores(r) /\ a = Failed /\ unheard' = unheard \cup {r.text}
             \/ log' = log /\ a = Failed /\ unheard' = unheard
  <2>1. Failed \notin Msg /\ Failed \in Outcome(Msg) /\ Msg \subseteq Outcome(Msg)
    BY MessageIsNoFlag DEF Outcome
  <2> HIDE DEF m
  <2> QED
    BY <1>2, <1>9, <2>1
<1>12. PanelShapes' /\ SendingOK'
  <2>1. LogOK' /\ \A t \in Threads : DOMAIN log[t] \subseteq DOMAIN log'[t]
    BY <1>6, <1>7, <1>11
  <2>2. unheard' = unheard \/ unheard' = unheard \cup {r.text}
    BY <1>11
  <2> QED
    BY <1>1, <1>4, <1>8, <1>11, <2>1, <2>2, AnsweredShapes
<1>13. ASSUME NEW x \in Texts, x # r.text PROVE OnePlace(x)'
  <2>1. log' = log \/ Stores(r)
    BY <1>11
  <2> QED
    BY <1>1, <1>4, <1>10, <1>11, <1>13, <2>1, OthersStay
<1> DEFINE x == r.text
           b == [r EXCEPT !.answer = a]
           q == <<"call", r>>
<1>14. OnePlace(x)'
  <2>1. OnePlace(x)
    BY <1>4, AllInOnePlace DEF PanelInv
  <2>2. b.text = x /\ b.answer = a /\ sends' = (sends \ {r}) \cup {b}
    BY <1>4, <1>11, SendAnswered DEF Answers
  <2>3. q \in Places(x)
    BY <1>4, InPlaces, InPlacesNext DEF At, Goes
  <2>4. r \notin sends'
    <3>1. a # None
      BY <1>11, MessageIsNoFlag, MessageThreadAssumption
    <3>2. b # r
      BY <1>4, <2>2, <3>1
    <3> QED
      BY <2>2, <3>2
  <2> HIDE DEF b
  <2>5. ASSUME Stores(r)
        PROVE  <<"posted", r.thread, Len(log'[r.thread])>> \in Places(x)'
    BY <1>4, <1>6, <2>5, InPlaces, InPlacesNext DEF At, Goes
  <2>6. CASE Stores(r) /\ a \in Msg /\ unheard' = unheard
    <3> DEFINE s == <<"posted", r.thread, Len(log'[r.thread])>>
    <3>1. s \in Places(x)'
      BY <2>5, <2>6
    <3>2. ~Goes(b, x)
      BY <2>2, <2>6, MessageIsNoFlag DEF Goes
    <3>3. \A p : p \in Places(x) /\ p # q => p \in Places(x)'
      BY <1>1, <1>6, <1>10, <2>2, <2>6, InPlaces, InPlacesNext DEF At, Goes
    <3>4. \A p : p \in Places(x)' /\ p # s => p \in Places(x) /\ p # q
      <4> SUFFICES ASSUME NEW p \in Places(x)', p # s
                   PROVE  p \in Places(x) /\ p # q
        OBVIOUS
      <4>1. \/ \E t \in Threads : \E n \in DOMAIN log'[t] :
                  log'[t][n] = x /\ p = <<"posted", t, n>>
            \/ \E c \in sends' : Goes(c, x) /\ p = <<"call", c>>
            \/ composer' = x /\ p = <<"composer", x>>
            \/ x \in abandoned' /\ p = <<"abandoned", x>>
        BY InPlaces, InPlacesNext DEF Goes, At
      <4>2. CASE \E t \in Threads : \E n \in DOMAIN log'[t] :
                     log'[t][n] = x /\ p = <<"posted", t, n>>
        <5>1. PICK t \in Threads : \E n \in DOMAIN log'[t] :
                  log'[t][n] = x /\ p = <<"posted", t, n>>
          BY <4>2
        <5>2. PICK n \in DOMAIN log'[t] : log'[t][n] = x /\ p = <<"posted", t, n>>
          BY <5>1
        <5>3. n \in DOMAIN log[t] /\ log[t][n] = x
          BY <5>2, <1>6, <2>6
        <5> QED
          BY <5>2, <5>3, InPlaces DEF At
      <4>3. CASE \E c \in sends' : Goes(c, x) /\ p = <<"call", c>>
        <5>1. PICK c \in sends' : Goes(c, x) /\ p = <<"call", c>>
          BY <4>3
        <5>2. c \in sends /\ c # r
          BY <5>1, <2>2, <2>4, <3>2
        <5> QED
          BY <5>1, <5>2, InPlaces DEF At
      <4>4. CASE composer' = x /\ p = <<"composer", x>>
        BY <4>4, <1>10, InPlaces DEF At
      <4>5. CASE x \in abandoned' /\ p = <<"abandoned", x>>
        BY <4>5, <1>1, InPlaces DEF At
      <4> QED
        BY <4>1, <4>2, <4>3, <4>4, <4>5
    <3> HIDE DEF s, q
    <3> QED
      BY <1>10, <2>1, <2>3, <3>1, <3>3, <3>4, MovedPlace
  <2>7. CASE Stores(r) /\ a = Failed /\ unheard' = unheard \cup {r.text}
    BY <2>5, <2>7 DEF OnePlace
  <2>8. CASE log' = log /\ a = Failed /\ unheard' = unheard
    <3> DEFINE s == <<"call", b>>
    <3>1. s \in Places(x)'
      BY <2>2, <2>8, InPlaces, InPlacesNext DEF At, Goes
    <3>2. \A p : p \in Places(x) /\ p # q => p \in Places(x)'
      BY <1>1, <1>10, <2>2, <2>8, InPlaces, InPlacesNext DEF At, Goes
    <3>3. \A p : p \in Places(x)' /\ p # s => p \in Places(x) /\ p # q
      BY <1>1, <1>10, <2>2, <2>4, <2>8, InPlaces, InPlacesNext DEF At, Goes
    <3> HIDE DEF s, q
    <3> QED
      BY <1>10, <2>1, <2>3, <3>1, <3>2, <3>3, MovedPlace
  <2> QED
    BY <1>11, <2>6, <2>7, <2>8
<1>15. TextInOnePlace'
  <2> HIDE DEF x
  <2>1. \A y \in Texts : OnePlace(y)'
    BY <1>13, <1>14 DEF x
  <2> QED
    BY <1>5, <2>1 DEF TextInOnePlace, OnePlace
<1> QED
  BY <1>12, <1>15 DEF PanelInv

LEMMA AnswerSendKeeps ==
    ASSUME PanelInv, NEW r \in Arrived(sends), AnswerSend(r)
    PROVE  PanelInv'
<1>1. /\ sends' = sends \ {r}
      /\ shown' = IF r.live /\ r.answer # Failed THEN Append(shown, r.answer) ELSE shown
      /\ composer' = IF r.live /\ r.answer = Failed THEN r.text ELSE composer
      /\ abandoned' = IF ~r.live /\ r.answer = Failed THEN abandoned \cup {r.text}
                      ELSE abandoned
      /\ log' = log /\ mounted' = mounted /\ fetches' = fetches
      /\ posts' = posts /\ faults' = faults /\ typed' = typed /\ unheard' = unheard
  BY DEF AnswerSend
<1>2. Texts' = Texts
  BY <1>1 DEF Texts
<1>3. PanelShapes
  BY DEF PanelInv
<1>4. /\ r \in sends /\ r \in SendCall /\ r.answer # None /\ r.text \in Texts
      /\ r.text \in Nat /\ r.live \in BOOLEAN
      /\ r.answer # Failed => r.answer \in Msg /\ Stored(r.answer)
  BY <1>3 DEF PanelShapes, SendsOK, SendCall, Arrived, Outcome, Answered, LogOK, Texts
<1>5. r.live => mounted # None /\ composer = None /\ \A s \in sends' : ~s.live
  BY <1>1, <1>4 DEF PanelInv, SendingOK
<1>6. LogOK' /\ BoundsOK' /\ FetchesOK' /\ SendsOK'
  BY <1>1, <1>2, <1>3
  DEF PanelShapes, LogOK, BoundsOK, FetchesOK, SendsOK, AllStored, Stored
<1>7. TextsOK'
  BY <1>1, <1>2, <1>3, <1>4 DEF PanelShapes, TextsOK
<1>8. shown' \in Seq(Msg) /\ AllStored(shown')
  <2>1. shown \in Seq(Msg) /\ AllStored(shown)
    BY <1>3 DEF PanelShapes, ScreenOK
  <2>2. CASE r.live /\ r.answer # Failed
    <3>1. r.answer \in Msg /\ Stored(r.answer) /\ shown' = Append(shown, r.answer)
      BY <1>1, <1>4, <2>2
    <3>2. /\ shown' \in Seq(Msg) /\ Len(shown') = Len(shown) + 1 /\ Len(shown) \in Nat
          /\ \A i \in 1 .. Len(shown) : shown'[i] = shown[i]
          /\ shown'[Len(shown) + 1] = r.answer
      BY <2>1, <3>1, AppendProperties, LenProperties
    <3>3. DOMAIN shown = 1 .. Len(shown) /\ DOMAIN shown' = 1 .. Len(shown) + 1
      BY <2>1, <3>2, LenProperties
    <3>4. \A i \in DOMAIN shown' : i \in DOMAIN shown \/ i = Len(shown) + 1
      BY <3>2, <3>3
    <3>5. \A i \in DOMAIN shown' : Stored(shown'[i])
      BY <2>1, <3>1, <3>2, <3>3, <3>4 DEF AllStored
    <3> QED
      BY <3>2, <3>5 DEF AllStored
  <2>3. CASE ~(r.live /\ r.answer # Failed)
    BY <1>1, <2>1, <2>3
  <2> QED
    BY <2>2, <2>3
<1>9. ScreenOK'
  <2>1. AllStored(shown)'
    BY <1>1, <1>8 DEF AllStored, Stored
  <2>2. composer' \in Texts \cup {None}
    BY <1>1, <1>3, <1>4 DEF PanelShapes, ScreenOK
  <2>3. mounted = None => shown' = <<>> /\ composer' = None /\ fetches = {}
    BY <1>1, <1>3, <1>5 DEF PanelShapes, ScreenOK
  <2>4. mounted \in Threads \cup {None}
    BY <1>3 DEF PanelShapes, ScreenOK
  <2> QED
    BY <1>1, <1>2, <1>8, <2>1, <2>2, <2>3, <2>4 DEF ScreenOK
<1>10. SendingOK'
  <2>1. CASE r.live /\ r.answer = Failed
    BY <1>5, <2>1 DEF SendingOK
  <2>2. CASE ~(r.live /\ r.answer = Failed)
    BY <1>1, <2>2 DEF PanelInv, SendingOK
  <2> QED
    BY <2>1, <2>2
<1>11. ASSUME NEW x \in Texts PROVE OnePlace(x)'
  <2>1. OnePlace(x) /\ x # None
    BY <1>3, AllInOnePlace, NoFlagIsText DEF PanelInv, PanelShapes, LogOK, Texts
  <2>2. CASE x # r.text \/ r.answer # Failed
    <3>1. composer' = x <=> composer = x
      BY <1>1, <1>5, <2>1, <2>2
    <3>2. x \in abandoned' <=> x \in abandoned
      BY <1>1, <2>2
    <3>3. \A s : s \in sends' /\ Goes(s, x) <=> s \in sends /\ Goes(s, x)
      BY <1>1, <1>4, <2>2 DEF Goes
    <3>4. \A p : p \in Places(x)' <=> p \in Places(x)
      BY <1>1, <3>1, <3>2, <3>3, InPlaces, InPlacesNext DEF Goes, At
    <3> QED
      BY <1>1, <2>1, <3>4, SamePlaces
  <2>3. CASE x = r.text /\ r.answer = Failed
    <3> DEFINE q == <<"call", r>>
    <3>1. q \in Places(x) /\ r \notin sends'
      BY <1>1, <1>4, <2>3, InPlaces, InPlacesNext DEF At, Goes
    <3>2. CASE r.live
      <4> DEFINE s == <<"composer", x>>
      <4>1. composer' = x /\ composer = None /\ abandoned' = abandoned
        BY <1>1, <1>5, <2>3, <3>2
      <4>2. s \in Places(x)'
        BY <4>1, InPlaces, InPlacesNext DEF At, Goes
      <4>3. \A p : p \in Places(x) /\ p # q => p \in Places(x)'
        BY <1>1, <2>1, <4>1, InPlaces, InPlacesNext DEF At, Goes
      <4>4. \A p : p \in Places(x)' /\ p # s => p \in Places(x) /\ p # q
        BY <1>1, <3>1, <4>1, InPlaces, InPlacesNext DEF At, Goes
      <4> HIDE DEF q, s
      <4> QED
        BY <1>1, <2>1, <3>1, <4>2, <4>3, <4>4, MovedPlace
    <3>3. CASE ~r.live
      <4> DEFINE s == <<"abandoned", x>>
      <4>1. composer' = composer /\ abandoned' = abandoned \cup {x}
        BY <1>1, <2>3, <3>3
      <4>2. s \in Places(x)'
        BY <4>1, InPlaces, InPlacesNext DEF At, Goes
      <4>3. \A p : p \in Places(x) /\ p # q => p \in Places(x)'
        BY <1>1, <4>1, InPlaces, InPlacesNext DEF At, Goes
      <4>4. \A p : p \in Places(x)' /\ p # s => p \in Places(x) /\ p # q
        BY <1>1, <3>1, <4>1, InPlaces, InPlacesNext DEF At, Goes
      <4> HIDE DEF q, s
      <4> QED
        BY <1>1, <2>1, <3>1, <4>2, <4>3, <4>4, MovedPlace
    <3> QED
      BY <3>2, <3>3
  <2> QED
    BY <2>2, <2>3
<1>12. TextInOnePlace'
  BY <1>2, <1>11 DEF TextInOnePlace, OnePlace
<1> QED
  BY <1>6, <1>7, <1>9, <1>10, <1>12 DEF PanelInv, PanelShapes

------------------------------------------------------------------------------
LEMMA PanelStarts == PanelInit => PanelInv
<1> SUFFICES ASSUME PanelInit PROVE PanelInv
  OBVIOUS
<1>1. Texts = {} /\ typed \in Nat
  BY DEF PanelInit, Texts
<1>2. LogOK
  <2>1. <<Other>> \in Seq(Texts \cup {Other})
    OBVIOUS
  <2> QED
    BY <1>1, <2>1 DEF PanelInit, LogOK
<1>3. ScreenOK
  BY DEF PanelInit, ScreenOK, AllStored
<1>4. FetchesOK /\ SendsOK /\ TextsOK /\ SendingOK
  BY DEF PanelInit, FetchesOK, SendsOK, TextsOK, SendingOK
<1>5. BoundsOK
  BY MessageThreadAssumption DEF PanelInit, BoundsOK
<1>6. TextInOnePlace
  BY <1>1 DEF TextInOnePlace
<1> QED
  BY <1>2, <1>3, <1>4, <1>5, <1>6 DEF PanelInv, PanelShapes

LEMMA PanelStays == PanelInv /\ UNCHANGED panelVars => PanelInv'
<1> SUFFICES ASSUME PanelInv, UNCHANGED panelVars PROVE PanelInv'
  OBVIOUS
<1>1. Texts' = Texts
  BY DEF panelVars, history, Texts
<1>2. PanelShapes'
  BY <1>1 DEF PanelInv, PanelShapes, LogOK, ScreenOK, FetchesOK, SendsOK, TextsOK, BoundsOK,
     AllStored, Stored, panelVars, panel, history
<1>3. SendingOK'
  BY DEF PanelInv, SendingOK, panelVars, panel
<1>4. TextInOnePlace'
  BY TextsStay DEF panelVars, panel, history
<1> QED
  BY <1>2, <1>3, <1>4 DEF PanelInv

LEMMA PanelStep == PanelInv /\ [PanelNext]_panelVars => PanelInv'
<1> SUFFICES ASSUME PanelInv, [PanelNext]_panelVars PROVE PanelInv'
  OBVIOUS
<1>1. ASSUME NEW t \in Threads,
             Open(t) \/ OtherMessage(t) \/ ServeFetches(t) \/ AnswerFetches(t)
      PROVE  PanelInv'
  BY <1>1, OpenKeeps, OtherMessageKeeps, ServeFetchKeeps, AnswerFetchKeeps
  DEF ServeFetches, AnswerFetches
<1>2. ASSUME Close \/ Poll \/ Type \/ Send PROVE PanelInv'
  BY <1>2, CloseKeeps, PollKeeps, TypeKeeps, SendKeeps
<1>3. ASSUME ServeSends \/ AnswerSends PROVE PanelInv'
  BY <1>3, ServeSendKeeps, AnswerSendKeeps DEF ServeSends, AnswerSends
<1>4. ASSUME UNCHANGED panelVars PROVE PanelInv'
  BY <1>4, PanelStays
<1> QED
  BY <1>1, <1>2, <1>3, <1>4 DEF PanelNext

\* For any threads, texts and calls in flight, the messages and the panel keep
\* their types, and what the panel shows is among the messages of a thread.
THEOREM PanelTypes == PanelSpec => []PanelTypeOK
<1>1. PanelSpec => []PanelInv
  BY PanelStarts, PanelStep, PTL DEF PanelSpec
<1> QED
  BY <1>1, PanelTypesFollow, PTL

\* Whatever sends are refused, lose their answer or outlive their panel, a text
\* the user has typed is in one place, unless it was stored unheard.
THEOREM NoTextLost == PanelSpec => []TextInOnePlace
<1>1. PanelInv => TextInOnePlace
  BY DEF PanelInv
<1>2. PanelSpec => []PanelInv
  BY PanelStarts, PanelStep, PTL DEF PanelSpec
<1> QED
  BY <1>1, <1>2, PTL
==============================================================================
