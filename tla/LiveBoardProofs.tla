--------------------------- MODULE LiveBoardProofs ---------------------------
(***************************************************************************)
(* Proofs about LiveBoard, for any tasks, requests and connections: its    *)
(* types, that a page at rest shows what the rows are but for the named    *)
(* exceptions, and that roll-backs leave no optimistic status behind.      *)
(***************************************************************************)
EXTENDS LiveBoard, WellFoundedInduction, SequenceTheorems, FiniteSetTheorems, TLAPS

------------------------------------------------------------------------------
(***************************************************************************)
(* The inductive invariant                                                 *)
(***************************************************************************)
Absent == {None, Gone}
States == {"idle", "sent", "row", "event", "both", "answered"}
OwnKinds == {"none", "move", "save", "create", "delete"}
Events == [id : Nat, task : Tasks, stamp : Nat]
Items == [event : Events, data : Content]

RequestType == [pc : States, kind : Kinds, task : Tasks \cup {None},
                status : Statuses \cup {None}, upd : Nat, stamp : Nat,
                answer : Content \cup Absent]
OwnType == [kind : OwnKinds, task : Tasks \cup {None},
            prev : [Tasks -> Seq(Content)] \cup {None}]

Types ==
    /\ row \in [Tasks -> Content \cup Absent]
    /\ events \subseteq Events /\ IsFiniteSet(events)
    /\ clock \in Nat
    /\ req \in [Requests -> RequestType]
    /\ stream \in [on : BOOLEAN, blank : BOOLEAN, last : Nat, seen : SUBSET Nat,
                   batch : Seq(Items)]
    /\ shown \in [Tasks -> Seq(Content)]
    /\ own \in [Own -> OwnType]
    /\ count \in [changes : Nat, events : Nat, cuts : Nat, failures : Nat]
    /\ committed \in [Tasks -> SUBSET Content]
    /\ received \subseteq Events

\* The requests the server knows, and those the page waits for.
Sent(r) == req[r].pc # "idle"
Waits(r) == own[r].kind # "none"
Pending(r) == req[r].pc \in {"row", "event"}

RequestsOK ==
    /\ \A r \in Requests : Sent(r) => req[r].task \in Tasks /\ req[r].status \in Statuses
    /\ \A r \in Own : Waits(r) => /\ Sent(r) /\ own[r].task \in Tasks
                                  /\ req[r].task = own[r].task
                                  /\ own[r].kind = "delete" <=> req[r].kind = "delete"
    /\ \A r \in Own : own[r].kind = "move" => own[r].prev \in [Tasks -> Seq(Content)]

\* Nothing has a time stamp later than the clock.
TimesOK ==
    /\ \A t \in Tasks : \A c \in committed[t] : c.upd <= clock
    /\ \A e \in events \cup received : e.stamp <= clock
    /\ \A i \in DOMAIN stream.batch : stream.batch[i].event.stamp <= clock
    /\ \A r \in Requests : req[r].upd <= clock /\ req[r].stamp <= clock
    /\ stream.last <= clock

\* A row is the latest of its versions.
RowsOK ==
    \A t \in Tasks :
        /\ row[t] = None => committed[t] = {}
        /\ row[t] = Gone => t \in unannounced
        /\ Exists(t) => /\ row[t] \in committed[t]
                        /\ \A c \in committed[t] : /\ c.ver <= row[t].ver
                                                   /\ c.ver = row[t].ver => c = row[t]
        /\ \A c \in committed[t] : c.ver >= 1

\* What a request at the server has for the page.
AnswerOK(r) ==
    /\ Pending(r) => req[r].kind \in {"update", "create"}
    /\ req[r].pc \in {"idle", "sent"} => req[r].answer = None
    /\ req[r].answer = Gone => req[r].kind = "delete" /\ row[req[r].task] = Gone
    /\ req[r].answer \notin Absent =>
          /\ req[r].kind \in {"update", "create"}
          /\ req[r].task \in Tasks /\ req[r].answer \in committed[req[r].task]
AnswersOK == \A r \in Requests : AnswerOK(r)

\* What the page shows, or remembers for a roll-back, are versions of the task,
\* maybe with the status of a move.
Known(c, t) == \E d \in committed[t] : d.upd = c.upd /\ d.ver = c.ver
ListOK(list) ==
    /\ \A t \in Tasks : \A c \in ToSet(list[t]) : Known(c, t)
    /\ \A t \in Tasks \ mixed : Len(list[t]) <= 1
ShownOK ==
    /\ ListOK(shown)
    /\ \A r \in Moving : ListOK(own[r].prev)
    /\ \A i \in DOMAIN stream.batch :
          stream.batch[i].data \in committed[stream.batch[i].event.task]

\* The status of a move is in no list but that of its task, while it is under way.
MovesOK ==
    /\ \A r, q \in Moving : r # q => own[r].task \in mixed /\ own[q].task \in mixed
    /\ \A t \in Tasks \ mixed :
          (\A r \in Moving : own[r].task # t) => ToSet(shown[t]) \subseteq committed[t]
    /\ \A r \in Moving : \A t \in Tasks \ mixed : ToSet(own[r].prev[t]) \subseteq committed[t]

\* An id names one event, also after its task was deleted.
InBatch(e) == \E i \in DOMAIN stream.batch : stream.batch[i].event = e
IdsOK ==
    /\ \A e \in events \cup received : e.id <= count.events
    /\ \A d, e \in events \cup received : d.id = e.id => d = e
    /\ \A i \in DOMAIN stream.batch :
          /\ stream.batch[i].event.id <= count.events
          /\ \A e \in events \cup received :
                e.id = stream.batch[i].event.id => e = stream.batch[i].event
    /\ \A i, j \in DOMAIN stream.batch :
          stream.batch[i].event.id = stream.batch[j].event.id =>
              stream.batch[i].event = stream.batch[j].event
    /\ \A n \in stream.seen : \E d \in received : d.id = n

\* Where the stream stands, the page has seen something, or it had nothing.
LastOK ==
    \/ stream.last = 0
    \/ stream.blank
    \/ \E d \in received : d.stamp = stream.last
    \/ \E u \in Tasks : \E c \in committed[u] : Floor(c.upd) = stream.last

\* A change of t is still to be announced to the page.
Unrecorded(t) == \E r \in Requests : Pending(r) /\ req[r].task = t
Unheard(t) == \E e \in events \ received : e.task = t
Unsent(t) == \E e \in events \ received : e.task = t /\ ~InBatch(e)

\* The page shows the row of t, or that is still to come; so does what the
\* stream is about to deliver.
CurrentOK ==
    \A t \in Tasks \ (unannounced \cup overwritten \cup mixed) :
        Exists(t) => \/ ShownVersion(shown, t) = row[t].ver
                     \/ Unrecorded(t) \/ Unheard(t)
BatchOK ==
    \A i \in DOMAIN stream.batch :
        LET t == stream.batch[i].event.task
        IN  Exists(t) /\ t \notin unannounced =>
                stream.batch[i].data = row[t] \/ Unrecorded(t) \/ Unsent(t)

IInv == /\ Types /\ RequestsOK /\ TimesOK /\ RowsOK /\ AnswersOK /\ ShownOK /\ MovesOK
        /\ IdsOK /\ LastOK /\ CurrentOK /\ BatchOK

------------------------------------------------------------------------------
(***************************************************************************)
(* Facts about the data                                                    *)
(***************************************************************************)
LEMMA ResPositive == Res \in Nat /\ Res > 0
BY LiveBoardAssumption

LEMMA NotContent == \A c \in Content : c \notin Absent /\ c # None /\ c # Gone
BY LiveBoardAssumption DEF Absent

LEMMA ContentFields ==
    \A c \in Content : c.status \in Statuses /\ c.upd \in Nat /\ c.ver \in Nat
BY DEF Content

LEMMA FloorBelow == ASSUME NEW s \in Nat PROVE Floor(s) \in Nat /\ Floor(s) <= s
<1>1. s % Res \in 0 .. (Res - 1) /\ s = Res * (s \div Res) + (s % Res) /\ (s \div Res) \in Int
  BY ResPositive
<1>2. s \div Res >= 0
  BY <1>1, ResPositive
<1>3. s % Res <= s
  BY <1>1, <1>2, ResPositive
<1> QED
  BY <1>1, <1>3, ResPositive DEF Floor

\* A set of numbers with a bound has a maximum.
LEMMA MaxOfBounded ==
    ASSUME NEW n \in Nat, NEW S \in SUBSET (0 .. n), S # {}
    PROVE  Max(S) \in S /\ \A y \in S : y <= Max(S)
<1> DEFINE T == {n - y : y \in S}
<1>1. T \subseteq Nat /\ T # {}
  OBVIOUS
<1>2. PICK x \in T : \A y \in T : ~ (<<y, x>> \in OpToRel(<, Nat))
  <2> HIDE DEF T
  <2> QED
    BY <1>1, NatLessThanWellFounded, WFMin
<1>3. PICK m \in S : x = n - m
  OBVIOUS
<1>4. ASSUME NEW y \in S PROVE y <= m
  <2>1. n - y \in T /\ n - y \in Nat /\ x \in Nat
    BY <1>1
  <2>2. ~ (n - y < x)
    BY <2>1, <1>2 DEF OpToRel
  <2> QED
    BY <2>2, <1>3
<1>5. \E z \in S : \A y \in S : z >= y
  BY <1>4
<1> QED
  BY <1>5 DEF Max

LEMMA MaxOfTwo ==
    ASSUME NEW a \in Nat, NEW b \in Nat
    PROVE  Max({a, b}) \in {a, b} /\ Max({a, b}) >= a /\ Max({a, b}) >= b
<1>1. CASE a <= b
  <2>1. {a, b} \in SUBSET (0 .. b)
    BY <1>1
  <2> QED
    BY <2>1, MaxOfBounded
<1>2. CASE b <= a
  <2>1. {a, b} \in SUBSET (0 .. a)
    BY <1>2
  <2> QED
    BY <2>1, MaxOfBounded
<1> QED
  BY <1>1, <1>2

\* A sequence with every element replaced.
LEMMA Replaced ==
    ASSUME NEW S, NEW q \in Seq(S), NEW f \in [DOMAIN q -> S]
    PROVE  f \in Seq(S) /\ DOMAIN f = DOMAIN q /\ Len(f) = Len(q)
           /\ (f = <<>> <=> q = <<>>)
<1>1. Len(q) \in Nat /\ DOMAIN q = 1 .. Len(q)
  BY LenProperties
<1>2. f \in Seq(S) /\ DOMAIN f = 1 .. Len(q)
  BY <1>1, SeqDef
<1>3. Len(f) = Len(q)
  BY <1>1, <1>2, LenProperties
<1> QED
  BY <1>1, <1>2, <1>3, EmptySeq

\* What a merge does to the entries of a task.
Merged(q, c) == <<c>> \o (IF q = <<>> THEN q ELSE Tail(q))

LEMMA MergedContent ==
    ASSUME NEW q \in Seq(Content), NEW c \in Content
    PROVE  /\ Merged(q, c) \in Seq(Content) /\ Merged(q, c) # <<>> /\ Head(Merged(q, c)) = c
           /\ Len(q) <= 1 => Len(Merged(q, c)) <= 1
           /\ ToSet(Merged(q, c)) \subseteq {c} \cup ToSet(q)
<1>1. CASE q = <<>>
  <2>1. Merged(q, c) = <<c>>
    BY <1>1 DEF Merged
  <2> QED
    BY <2>1 DEF ToSet
<1>2. CASE q # <<>>
  <2>1. Tail(q) \in Seq(Content) /\ Len(Tail(q)) = Len(q) - 1 /\ Len(q) > 0
        /\ \A i \in 1 .. Len(Tail(q)) : Tail(q)[i] = q[i + 1]
    BY <1>2, HeadTailProperties, EmptySeq, LenProperties
  <2>2. /\ Merged(q, c) = <<c>> \o Tail(q) /\ <<c>> \in Seq(Content) /\ Len(<<c>>) = 1
        /\ <<c>>[1] = c
    BY <1>2 DEF Merged
  <2>3. /\ Merged(q, c) \in Seq(Content) /\ Len(Merged(q, c)) = 1 + Len(Tail(q))
        /\ \A i \in 1 .. 1 + Len(Tail(q)) :
              Merged(q, c)[i] = IF i <= 1 THEN <<c>>[i] ELSE Tail(q)[i - 1]
    BY <2>1, <2>2, ConcatProperties
  <2>4. Len(q) \in Nat /\ Len(Merged(q, c)) = Len(q) /\ DOMAIN Merged(q, c) = 1 .. Len(q)
        /\ DOMAIN q = 1 .. Len(q)
    BY <2>1, <2>3, LenProperties
  <2>5. Merged(q, c)[1] = c
    BY <2>1, <2>2, <2>3
  <2>6. \A i \in 1 .. Len(q) : i # 1 => Merged(q, c)[i] = q[i]
    <3> SUFFICES ASSUME NEW i \in 1 .. Len(q), i # 1
                 PROVE  Merged(q, c)[i] = q[i]
      OBVIOUS
    <3>1. i \in 1 .. 1 + Len(Tail(q)) /\ ~(i <= 1) /\ i - 1 \in 1 .. Len(Tail(q))
          /\ (i - 1) + 1 = i
      BY <2>1, <2>4
    <3>2. Merged(q, c)[i] = Tail(q)[i - 1]
      BY <2>3, <3>1
    <3> QED
      BY <2>1, <3>1, <3>2
  <2>7. Merged(q, c) # <<>> /\ Head(Merged(q, c)) = c
    BY <2>1, <2>3, <2>4, <2>5, EmptySeq, HeadTailProperties
  <2>8. ToSet(Merged(q, c)) \subseteq {c} \cup ToSet(q)
    BY <2>4, <2>5, <2>6 DEF ToSet
  <2> QED
    BY <2>3, <2>4, <2>7, <2>8
<1> QED
  BY <1>1, <1>2

\* A list that is not empty has its head among its elements.
LEMMA HeadShown ==
    ASSUME NEW S, NEW q \in Seq(S), q # <<>>
    PROVE  Head(q) \in S /\ Head(q) \in ToSet(q) /\ ToSet(q) \subseteq S
           /\ (Len(q) <= 1 => q = <<Head(q)>> /\ ToSet(q) = {Head(q)})
<1>1. Len(q) \in Nat /\ DOMAIN q = 1 .. Len(q) /\ Len(q) > 0
  BY LenProperties, EmptySeq
<1>2. Head(q) = q[1] /\ Head(q) \in S /\ 1 \in DOMAIN q
  BY <1>1, HeadTailProperties
<1>3. \A i \in DOMAIN q : q[i] \in S
  BY <1>1, ElementOfSeq
<1>4. ASSUME Len(q) <= 1 PROVE q = <<Head(q)>> /\ ToSet(q) = {Head(q)}
  <2>1. Len(q) = 1 /\ DOMAIN q = {1}
    BY <1>1, <1>4
  <2>2. q = <<Head(q)>>
    <3>1. Len(<<Head(q)>>) = 1 /\ <<Head(q)>>[1] = Head(q) /\ <<Head(q)>> \in Seq(S)
      BY <1>2
    <3> QED
      BY <2>1, <3>1, <1>2, SeqEqual
  <2> QED
    BY <2>1, <2>2, <1>2 DEF ToSet
<1> QED
  BY <1>2, <1>3, <1>4 DEF ToSet

LEMMA TailSeq ==
    ASSUME NEW S, NEW q \in Seq(S), q # <<>>
    PROVE  /\ Tail(q) \in Seq(S) /\ Head(q) \in S /\ 1 \in DOMAIN q /\ q[1] = Head(q)
           /\ \A i \in DOMAIN Tail(q) : i + 1 \in DOMAIN q /\ Tail(q)[i] = q[i + 1]
           /\ \A i \in DOMAIN q : i = 1 \/ (i - 1 \in DOMAIN Tail(q) /\ Tail(q)[i - 1] = q[i])
<1>1. /\ Tail(q) \in Seq(S) /\ Len(Tail(q)) = Len(q) - 1 /\ Len(q) > 0 /\ Len(q) \in Nat
      /\ \A i \in 1 .. Len(Tail(q)) : Tail(q)[i] = q[i + 1]
      /\ Head(q) = q[1] /\ Head(q) \in S
  BY HeadTailProperties, EmptySeq, LenProperties
<1>2. DOMAIN q = 1 .. Len(q) /\ DOMAIN Tail(q) = 1 .. Len(q) - 1
  BY <1>1, LenProperties
<1>3. ASSUME NEW i \in 1 .. Len(q), i # 1
      PROVE  i - 1 \in 1 .. Len(q) - 1 /\ Tail(q)[i - 1] = q[i]
  <2>1. i - 1 \in 1 .. Len(q) - 1 /\ (i - 1) + 1 = i
    BY <1>1, <1>3
  <2> QED
    BY <2>1, <1>1
<1> QED
  BY <1>1, <1>2, <1>3

------------------------------------------------------------------------------
(***************************************************************************)
(* Types                                                                   *)
(***************************************************************************)
LEMMA IdleType == IdleRequest \in RequestType /\ NothingSent \in OwnType
<1>1. PICK s \in Statuses : TRUE
  BY LiveBoardAssumption
<1>2. IdleRequest \in RequestType
  BY DEF IdleRequest, RequestType, States, Kinds, Absent
<1>3. NothingSent \in OwnType
  BY DEF NothingSent, OwnType, OwnKinds
<1> QED
  BY <1>2, <1>3

LEMMA RequestFields ==
    ASSUME NEW x \in RequestType
    PROVE  /\ x.pc \in States /\ x.kind \in Kinds /\ x.task \in Tasks \cup {None}
           /\ x.status \in Statuses \cup {None} /\ x.upd \in Nat /\ x.stamp \in Nat
           /\ x.answer \in Content \cup Absent
           /\ \A p \in States, a \in Content \cup Absent, u, v \in Nat :
                 /\ [x EXCEPT !.pc = p] \in RequestType
                 /\ [x EXCEPT !.pc = p, !.answer = a] \in RequestType
                 /\ [x EXCEPT !.pc = p, !.upd = u, !.stamp = v] \in RequestType
                 /\ [x EXCEPT !.pc = p, !.stamp = v, !.answer = a] \in RequestType
<1>1. /\ x.pc \in States /\ x.kind \in Kinds /\ x.task \in Tasks \cup {None}
      /\ x.status \in Statuses \cup {None} /\ x.upd \in Nat /\ x.stamp \in Nat
      /\ x.answer \in Content \cup Absent
  BY DEF RequestType
<1>2. ASSUME NEW p \in States
      PROVE  [x EXCEPT !.pc = p] \in RequestType
  BY DEF RequestType
<1>3. ASSUME NEW p \in States, NEW a \in Content \cup Absent
      PROVE  [x EXCEPT !.pc = p, !.answer = a] \in RequestType
  BY DEF RequestType
<1>4. ASSUME NEW p \in States, NEW u \in Nat, NEW v \in Nat
      PROVE  [x EXCEPT !.pc = p, !.upd = u, !.stamp = v] \in RequestType
  BY DEF RequestType
<1>5. ASSUME NEW p \in States, NEW a \in Content \cup Absent, NEW v \in Nat
      PROVE  [x EXCEPT !.pc = p, !.stamp = v, !.answer = a] \in RequestType
  BY DEF RequestType
<1> QED
  BY <1>1, <1>2, <1>3, <1>4, <1>5

LEMMA ExistsContent ==
    ASSUME Types, NEW t \in Tasks
    PROVE  /\ Exists(t) <=> row[t] \in Content
           /\ row[t] \in Content \cup Absent /\ Version(row[t]) \in Nat
           /\ Exists(t) => Version(row[t]) = row[t].ver
           /\ Exists(t) => row[t] # None /\ row[t] # Gone
<1>1. row[t] \in Content \cup Absent
  BY DEF Types
<1> QED
  BY <1>1, NotContent, ContentFields DEF Exists, Version, Absent

LEMMA WriteType ==
    ASSUME Types, NEW t \in Tasks, NEW s \in Statuses, NEW stamp \in Nat,
           WriteRow(t, s, stamp)
    PROVE  LET c == [status |-> s, upd |-> stamp, ver |-> Version(row[t]) + 1]
           IN  /\ c \in Content
               /\ row' = [row EXCEPT ![t] = c]
               /\ row' \in [Tasks -> Content \cup Absent]
               /\ committed' = [committed EXCEPT ![t] = @ \cup {c}]
               /\ committed' \in [Tasks -> SUBSET Content]
<1> DEFINE c == [status |-> s, upd |-> stamp, ver |-> Version(row[t]) + 1]
<1>1. c \in Content
  BY ExistsContent DEF Content
<1>2. row' = [row EXCEPT ![t] = c] /\ committed' = [committed EXCEPT ![t] = @ \cup {c}]
  BY DEF WriteRow
<1> HIDE DEF c
<1>3. row' \in [Tasks -> Content \cup Absent]
  BY <1>1, <1>2 DEF Types
<1>4. committed' \in [Tasks -> SUBSET Content]
  BY <1>1, <1>2 DEF Types
<1> QED
  BY <1>1, <1>2, <1>3, <1>4 DEF c

\* A request's record changes, and no other.
LEMMA RequestType1 ==
    ASSUME Types, NEW r \in Requests, NEW x \in RequestType, req' = [req EXCEPT ![r] = x]
    PROVE  /\ req' \in [Requests -> RequestType] /\ req'[r] = x
           /\ \A q \in Requests : q # r => req'[q] = req[q]
BY DEF Types

LEMMA EndsType ==
    ASSUME Types, NEW r \in Requests, NEW a \in Content \cup Absent, Ends(r, a)
    PROVE  /\ req' \in [Requests -> RequestType]
           /\ \A q \in Requests : q # r => req'[q] = req[q]
           /\ req'[r] = IF r \in Own THEN [req[r] EXCEPT !.pc = "answered", !.answer = a]
                        ELSE IdleRequest
<1>1. req[r] \in RequestType
  BY DEF Types
<1> DEFINE x == IF r \in Own THEN [req[r] EXCEPT !.pc = "answered", !.answer = a]
                ELSE IdleRequest
<1>2. x \in RequestType
  BY <1>1, RequestFields, IdleType DEF States
<1>3. req' = [req EXCEPT ![r] = x]
  BY DEF Ends, Types
<1> HIDE DEF x
<1>4. /\ req' \in [Requests -> RequestType] /\ req'[r] = x
      /\ \A q \in Requests : q # r => req'[q] = req[q]
  BY <1>2, <1>3, RequestType1
<1> QED
  BY <1>4 DEF x

LEMMA SubmitType ==
    ASSUME Types, NEW r \in Requests, NEW k \in Kinds, NEW t \in Tasks, NEW s \in Statuses,
           Submit(r, k, t, s)
    PROVE  /\ req' \in [Requests -> RequestType]
           /\ \A q \in Requests : q # r => req'[q] = req[q]
           /\ req'[r].pc = "sent" /\ req'[r].kind = k /\ req'[r].task = t
           /\ req'[r].status = s /\ req'[r].answer = None
           /\ req'[r].upd = 0 /\ req'[r].stamp = 0
<1> DEFINE x == [IdleRequest EXCEPT !.pc = "sent", !.kind = k, !.task = t, !.status = s]
<1>1. x \in RequestType /\ x.pc = "sent" /\ x.kind = k /\ x.task = t /\ x.status = s
      /\ x.answer = None /\ x.upd = 0 /\ x.stamp = 0
  BY DEF IdleRequest, RequestType, States, Absent
<1>2. req' = [req EXCEPT ![r] = x]
  BY DEF Submit
<1> HIDE DEF x
<1> QED
  BY <1>1, <1>2, RequestType1

LEMMA CountedType ==
    ASSUME Types, NEW what \in {"changes", "events", "cuts", "failures"}, Counted(what)
    PROVE  /\ count' \in [changes : Nat, events : Nat, cuts : Nat, failures : Nat]
           /\ what # "events" => count'.events = count.events
           /\ what = "events" => count'.events = count.events + 1
BY DEF Types, Counted

LEMMA StampsType == ASSUME Types, NEW s \in Stamps PROVE s \in Nat /\ s >= clock
BY DEF Types, Stamps

LEMMA AddEventType ==
    ASSUME Types, NEW t \in Tasks, NEW s \in Nat, AddEvent(t, s)
    PROVE  LET e == [id |-> count.events + 1, task |-> t, stamp |-> s]
           IN  /\ e \in Events /\ events' = events \cup {e}
               /\ events' \subseteq Events /\ IsFiniteSet(events')
               /\ count' \in [changes : Nat, events : Nat, cuts : Nat, failures : Nat]
               /\ count.events \in Nat /\ count'.events = count.events + 1
               /\ unannounced' = unannounced \ {t}
<1> DEFINE e == [id |-> count.events + 1, task |-> t, stamp |-> s]
<1>1. count.events \in Nat
  BY DEF Types
<1>2. e \in Events
  BY <1>1 DEF Events
<1>3. events' = events \cup {e} /\ Counted("events") /\ unannounced' = unannounced \ {t}
  BY DEF AddEvent
<1> HIDE DEF e
<1>4. events' \subseteq Events /\ IsFiniteSet(events')
  BY <1>2, <1>3, FS_AddElement DEF Types
<1> QED
  BY <1>1, <1>2, <1>3, <1>4, CountedType DEF e

------------------------------------------------------------------------------
(***************************************************************************)
(* What the steps of the server do                                         *)
(***************************************************************************)
OnlyRequest(r) == \A q \in Requests : q # r => req'[q] = req[q]
PageSame == UNCHANGED <<page, stream, received>>
RowsSame == UNCHANGED <<row, committed>>
LogSame  == UNCHANGED <<events, unannounced>> /\ count'.events = count.events

RowWritten(t) ==
    \E c \in Content :
        /\ c.ver = Version(row[t]) + 1 /\ c.upd <= clock'
        /\ row' = [row EXCEPT ![t] = c]
        /\ committed' = [committed EXCEPT ![t] = @ \cup {c}]

EventAdded(t) ==
    \E e \in Events :
        /\ e.id = count.events + 1 /\ e.task = t /\ e.stamp <= clock'
        /\ events' = events \cup {e}
        /\ count'.events = count.events + 1
        /\ unannounced' = unannounced \ {t}

\* The request has ended, with an answer a for the page.
Ended(r, a) ==
    \/ req'[r] = IdleRequest /\ r \notin Own
    \/ r \in Own /\ req'[r] = [req[r] EXCEPT !.pc = "answered", !.answer = a]

SubmitStep(r) ==
    /\ req[r].pc = "idle" /\ req'[r].pc = "sent" /\ req'[r].answer = None
    /\ req'[r].kind \in Kinds /\ req'[r].task \in Tasks /\ req'[r].status \in Statuses
    /\ req'[r].upd = 0 /\ req'[r].stamp = 0
    /\ OnlyRequest(r) /\ RowsSame /\ LogSame /\ UNCHANGED <<clock, stream, received>>

RefuseStep(r) ==
    /\ req[r].pc = "sent" /\ Ended(r, None)
    /\ OnlyRequest(r) /\ RowsSame /\ LogSame /\ UNCHANGED clock /\ PageSame

CommitRowStep(r) ==
    /\ req[r].pc = "sent" /\ req[r].kind \in {"update", "create"}
    /\ Exists(req[r].task) \/ row[req[r].task] = None
    /\ req'[r] = [req[r] EXCEPT !.pc = "row"]
    /\ clock <= clock' /\ RowWritten(req[r].task)
    /\ OnlyRequest(r) /\ LogSame /\ PageSame

StampEventStep(r) ==
    /\ req[r].pc = "row" /\ clock <= clock'
    /\ \/ /\ Exists(req[r].task)
          /\ \E s \in Nat : /\ s <= clock'
                            /\ req'[r] = [req[r] EXCEPT !.pc = "event", !.stamp = s,
                                                        !.answer = row[req[r].task]]
       \/ ~Exists(req[r].task) /\ Ended(r, None)
    /\ OnlyRequest(r) /\ RowsSame /\ LogSame /\ PageSame

CommitEventStep(r) ==
    /\ req[r].pc = "event"
    /\ \/ Exists(req[r].task) /\ EventAdded(req[r].task) /\ Ended(r, req[r].answer)
       \/ ~Exists(req[r].task) /\ LogSame /\ Ended(r, None)
    /\ OnlyRequest(r) /\ RowsSame /\ UNCHANGED clock /\ PageSame

StampBothStep(r) ==
    /\ req[r].pc = "sent" /\ clock <= clock'
    /\ \E s \in Nat : s <= clock' /\ req'[r] = [req[r] EXCEPT !.pc = "both", !.upd = s, !.stamp = s]
    /\ OnlyRequest(r) /\ RowsSame /\ LogSame /\ PageSame

CommitBothStep(r) ==
    /\ req[r].pc = "both" /\ Ended(r, None)
    /\ \/ Exists(req[r].task) /\ RowWritten(req[r].task) /\ EventAdded(req[r].task)
       \/ RowsSame /\ LogSame
    /\ OnlyRequest(r) /\ UNCHANGED clock /\ PageSame

SprintStep(r) ==
    /\ req[r].pc = "sent" /\ Ended(r, None)
    /\ Exists(req[r].task) /\ RowWritten(req[r].task) /\ clock <= clock'
    /\ unannounced' = unannounced \cup {req[r].task}
    /\ OnlyRequest(r) /\ UNCHANGED <<events, count>> /\ PageSame

DeleteStep(r) ==
    /\ req[r].pc = "sent" /\ req[r].kind = "delete" /\ Exists(req[r].task)
    /\ Ended(r, Gone)
    /\ row' = [row EXCEPT ![req[r].task] = Gone]
    /\ events' = {e \in events : e.task # req[r].task}
    /\ unannounced' = unannounced \cup {req[r].task}
    /\ OnlyRequest(r) /\ UNCHANGED <<clock, committed, count>> /\ PageSame

DieStep(r) ==
    /\ Pending(r) /\ Ended(r, None)
    /\ unannounced' = unannounced \cup {req[r].task}
    /\ count'.events = count.events
    /\ OnlyRequest(r) /\ RowsSame /\ UNCHANGED <<events, clock>> /\ PageSame

ServerStep ==
    \/ \E r \in Others : SubmitStep(r) /\ PageSame
    \/ \E r \in Requests :
          \/ RefuseStep(r) \/ CommitRowStep(r) \/ StampEventStep(r) \/ CommitEventStep(r)
          \/ StampBothStep(r) \/ CommitBothStep(r) \/ SprintStep(r) \/ DeleteStep(r)
          \/ DieStep(r)

LEMMA EndedStep ==
    ASSUME Types, NEW r \in Requests, NEW a \in Content \cup Absent, Ends(r, a)
    PROVE  /\ req' \in [Requests -> RequestType]
           /\ OnlyRequest(r) /\ Ended(r, a)
BY EndsType DEF OnlyRequest, Ended

\* The part of the types that the server's requests do not touch.
LEMMA PageSameTypes ==
    ASSUME Types, PageSame
    PROVE  /\ stream' \in [on : BOOLEAN, blank : BOOLEAN, last : Nat, seen : SUBSET Nat,
                           batch : Seq(Items)]
           /\ shown' \in [Tasks -> Seq(Content)]
           /\ own' \in [Own -> OwnType]
           /\ received' \subseteq Events
BY DEF Types, PageSame, page

LEMMA OthersSubmit ==
    ASSUME Types, RequestsOK, NEW r \in Others, NEW kind \in Kinds, NEW t \in Tasks,
           NEW s \in Statuses, OtherRequest(r, kind, t, s)
    PROVE  Types' /\ SubmitStep(r) /\ PageSame
<1>1. r \in Requests
  BY DEF Requests
<1>2. /\ req[r].pc = "idle" /\ Counted("changes") /\ Submit(r, kind, t, s) /\ PageSame
      /\ UNCHANGED <<row, events, clock, committed, unannounced>>
  BY DEF OtherRequest, PageSame
<1>3. /\ count' \in [changes : Nat, events : Nat, cuts : Nat, failures : Nat]
      /\ count'.events = count.events
  BY <1>2, CountedType
<1>4. SubmitStep(r) /\ req' \in [Requests -> RequestType]
  BY <1>1, <1>2, <1>3, SubmitType DEF SubmitStep, OnlyRequest, RowsSame, LogSame, PageSame
<1>5. Types'
  BY <1>2, <1>3, <1>4, PageSameTypes DEF Types
<1> QED
  BY <1>2, <1>4, <1>5

LEMMA Refused ==
    ASSUME Types, RequestsOK, NEW r \in Requests, Refuse(r)
    PROVE  Types' /\ RefuseStep(r)
<1>1. /\ req[r].pc = "sent" /\ Ends(r, None) /\ PageSame
      /\ UNCHANGED <<row, events, clock, committed, unannounced, count>>
  BY DEF Refuse, PageSame
<1>2. req' \in [Requests -> RequestType] /\ OnlyRequest(r) /\ Ended(r, None)
  BY <1>1, EndedStep DEF Absent
<1>3. Types'
  BY <1>1, <1>2, PageSameTypes DEF Types
<1> QED
  BY <1>1, <1>2, <1>3 DEF RefuseStep, RowsSame, LogSame

LEMMA RowCommitted ==
    ASSUME Types, RequestsOK, NEW r \in Requests, CommitRow(r)
    PROVE  Types' /\ CommitRowStep(r)
<1> DEFINE t == req[r].task
           x == [req[r] EXCEPT !.pc = "row"]
<1>1. /\ req[r].pc = "sent" /\ PageSame /\ LogSame
      /\ \/ req[r].kind = "update" /\ Exists(t)
         \/ req[r].kind = "create" /\ row[t] = None
      /\ req' = [req EXCEPT ![r] = x]
      /\ UNCHANGED <<events, count>>
  BY DEF CommitRow, PageSame, LogSame, Types
<1>2. PICK stamp \in Stamps : WriteRow(t, req[r].status, stamp) /\ clock' = stamp
  BY DEF CommitRow
<1>3. t \in Tasks /\ req[r].status \in Statuses /\ req[r] \in RequestType
  BY <1>1 DEF RequestsOK, Sent, Types
<1>4. stamp \in Nat /\ stamp >= clock
  BY StampsType
<1>5. x \in RequestType
  BY <1>3, RequestFields DEF States
<1> HIDE DEF t, x
<1>6. req' \in [Requests -> RequestType] /\ req'[r] = x /\ OnlyRequest(r)
  BY <1>1, <1>5, RequestType1 DEF OnlyRequest
<1>7. /\ row' \in [Tasks -> Content \cup Absent] /\ committed' \in [Tasks -> SUBSET Content]
      /\ RowWritten(t)
  <2> DEFINE c == [status |-> req[r].status, upd |-> stamp, ver |-> Version(row[t]) + 1]
  <2>1. /\ c \in Content
        /\ row' = [row EXCEPT ![t] = c]
        /\ row' \in [Tasks -> Content \cup Absent]
        /\ committed' = [committed EXCEPT ![t] = @ \cup {c}]
        /\ committed' \in [Tasks -> SUBSET Content]
    BY <1>2, <1>3, <1>4, WriteType
  <2>2. c.ver = Version(row[t]) + 1 /\ c.upd <= clock'
    BY <1>2, <1>4
  <2> HIDE DEF c
  <2> QED
    BY <2>1, <2>2 DEF RowWritten
<1>8. Types'
  <2>1. clock' \in Nat
    BY <1>2, <1>4
  <2> QED
    BY <1>1, <1>6, <1>7, <2>1, PageSameTypes DEF Types
<1>9. clock <= clock'
  BY <1>2, <1>4 DEF Types
<1> QED
  BY <1>1, <1>6, <1>7, <1>8, <1>9 DEF CommitRowStep, t, x

LEMMA EventStamped ==
    ASSUME Types, RequestsOK, NEW r \in Requests, StampEvent(r)
    PROVE  Types' /\ StampEventStep(r)
<1> DEFINE t == req[r].task
<1>1. req[r].pc = "row" /\ PageSame /\ UNCHANGED <<row, events, committed, unannounced, count>>
  BY DEF StampEvent, PageSame
<1>2. t \in Tasks /\ req[r] \in RequestType /\ clock \in Nat
  BY <1>1 DEF RequestsOK, Sent, Types
<1>3. CASE Exists(t)
  <2>1. PICK s \in Stamps :
           /\ clock' = s
           /\ req' = [req EXCEPT ![r].pc = "event", ![r].stamp = s, ![r].answer = row[t]]
    BY <1>3 DEF StampEvent
  <2> DEFINE x == [req[r] EXCEPT !.pc = "event", !.stamp = s, !.answer = row[t]]
  <2>2. s \in Nat /\ s >= clock /\ row[t] \in Content \cup Absent
    BY <1>2, StampsType, ExistsContent
  <2>3. x \in RequestType
    BY <1>2, <2>2, RequestFields DEF States
  <2>4. req' = [req EXCEPT ![r] = x]
    BY <2>1 DEF Types
  <2> HIDE DEF x, t
  <2>5. req' \in [Requests -> RequestType] /\ req'[r] = x /\ OnlyRequest(r)
    BY <2>3, <2>4, RequestType1 DEF OnlyRequest
  <2>6. Types'
    BY <1>1, <2>1, <2>2, <2>5, PageSameTypes DEF Types
  <2>7. clock <= clock' /\ s <= clock'
    BY <1>2, <2>1, <2>2
  <2> QED
    BY <1>1, <1>3, <2>2, <2>5, <2>6, <2>7 DEF StampEventStep, RowsSame, LogSame, x, t
<1>4. CASE ~Exists(t)
  <2>1. Ends(r, None) /\ clock' = clock
    BY <1>4 DEF StampEvent
  <2>2. req' \in [Requests -> RequestType] /\ OnlyRequest(r) /\ Ended(r, None)
    BY <2>1, EndedStep DEF Absent
  <2>3. Types'
    BY <1>1, <2>1, <2>2, PageSameTypes DEF Types
  <2>4. clock <= clock' /\ RowsSame /\ LogSame
    BY <1>1, <1>2, <2>1 DEF RowsSame, LogSame
  <2> HIDE DEF t
  <2> QED
    BY <1>1, <1>4, <2>2, <2>3, <2>4 DEF StampEventStep, t
<1> QED
  BY <1>3, <1>4

LEMMA EventCommitted ==
    ASSUME Types, RequestsOK, TimesOK, NEW r \in Requests, CommitEvent(r)
    PROVE  Types' /\ CommitEventStep(r)
<1> DEFINE t == req[r].task
<1>1. req[r].pc = "event" /\ PageSame /\ UNCHANGED <<row, clock, committed>>
  BY DEF CommitEvent, PageSame
<1>2. /\ t \in Tasks /\ req[r].stamp \in Nat /\ req[r].stamp <= clock
      /\ req[r].answer \in Content \cup Absent
  BY <1>1, RequestFields DEF RequestsOK, TimesOK, Sent, Types
<1>3. CASE Exists(t)
  <2>1. AddEvent(t, req[r].stamp) /\ Ends(r, req[r].answer)
    BY <1>3 DEF CommitEvent
  <2>2. req' \in [Requests -> RequestType] /\ OnlyRequest(r) /\ Ended(r, req[r].answer)
    BY <1>2, <2>1, EndedStep
  <2> DEFINE e == [id |-> count.events + 1, task |-> t, stamp |-> req[r].stamp]
  <2>3. /\ e \in Events /\ events' = events \cup {e}
        /\ events' \subseteq Events /\ IsFiniteSet(events')
        /\ count' \in [changes : Nat, events : Nat, cuts : Nat, failures : Nat]
        /\ count'.events = count.events + 1 /\ unannounced' = unannounced \ {t}
    BY <1>2, <2>1, AddEventType
  <2>4. e.id = count.events + 1 /\ e.task = t /\ e.stamp <= clock'
    BY <1>1, <1>2
  <2> HIDE DEF e
  <2>5. EventAdded(t)
    BY <2>3, <2>4 DEF EventAdded
  <2>6. Types'
    BY <1>1, <2>2, <2>3, PageSameTypes DEF Types
  <2> QED
    BY <1>1, <1>3, <2>2, <2>5, <2>6 DEF CommitEventStep, RowsSame
<1>4. CASE ~Exists(t)
  <2>1. Ends(r, None) /\ UNCHANGED <<events, unannounced, count>>
    BY <1>4 DEF CommitEvent
  <2>2. req' \in [Requests -> RequestType] /\ OnlyRequest(r) /\ Ended(r, None)
    BY <2>1, EndedStep DEF Absent
  <2>3. Types'
    BY <1>1, <2>1, <2>2, PageSameTypes DEF Types
  <2> QED
    BY <1>1, <1>4, <2>1, <2>2, <2>3 DEF CommitEventStep, RowsSame, LogSame
<1> QED
  BY <1>3, <1>4

LEMMA BothStamped ==
    ASSUME Types, RequestsOK, NEW r \in Requests, StampBoth(r)
    PROVE  Types' /\ StampBothStep(r)
<1>1. req[r].pc = "sent" /\ PageSame /\ UNCHANGED <<row, events, committed, unannounced, count>>
  BY DEF StampBoth, PageSame
<1>2. PICK s \in Stamps :
         /\ clock' = s
         /\ req' = [req EXCEPT ![r].pc = "both", ![r].upd = s, ![r].stamp = s]
  BY DEF StampBoth
<1> DEFINE x == [req[r] EXCEPT !.pc = "both", !.upd = s, !.stamp = s]
<1>3. s \in Nat /\ s >= clock /\ clock \in Nat
  BY StampsType DEF Types
<1>4. x \in RequestType
  BY <1>3, RequestFields DEF States, Types
<1>5. req' = [req EXCEPT ![r] = x]
  BY <1>2 DEF Types
<1> HIDE DEF x
<1>6. req' \in [Requests -> RequestType] /\ req'[r] = x /\ OnlyRequest(r)
  BY <1>4, <1>5, RequestType1 DEF OnlyRequest
<1>7. Types'
  BY <1>1, <1>2, <1>3, <1>6, PageSameTypes DEF Types
<1>8. clock <= clock' /\ s <= clock'
  BY <1>2, <1>3
<1> QED
  BY <1>1, <1>3, <1>6, <1>7, <1>8 DEF StampBothStep, RowsSame, LogSame, x

LEMMA BothCommitted ==
    ASSUME Types, RequestsOK, TimesOK, NEW r \in Requests, CommitBoth(r)
    PROVE  Types' /\ CommitBothStep(r)
<1> DEFINE t == req[r].task
<1>1. req[r].pc = "both" /\ PageSame /\ UNCHANGED clock /\ Ends(r, None)
  BY DEF CommitBoth, PageSame
<1>2. /\ t \in Tasks /\ req[r].status \in Statuses /\ req[r].stamp \in Nat
      /\ req[r].stamp <= clock /\ req[r].upd \in Nat /\ req[r].upd <= clock
  BY <1>1, RequestFields DEF RequestsOK, TimesOK, Sent, Types
<1>3. req' \in [Requests -> RequestType] /\ OnlyRequest(r) /\ Ended(r, None)
  BY <1>1, EndedStep DEF Absent
<1>4. CASE Exists(t)
  <2>1. WriteRow(t, req[r].status, req[r].upd) /\ AddEvent(t, req[r].stamp)
    BY <1>4 DEF CommitBoth
  <2> DEFINE c == [status |-> req[r].status, upd |-> req[r].upd, ver |-> Version(row[t]) + 1]
             e == [id |-> count.events + 1, task |-> t, stamp |-> req[r].stamp]
  <2>2. /\ c \in Content
        /\ row' = [row EXCEPT ![t] = c]
        /\ row' \in [Tasks -> Content \cup Absent]
        /\ committed' = [committed EXCEPT ![t] = @ \cup {c}]
        /\ committed' \in [Tasks -> SUBSET Content]
    BY <1>2, <2>1, WriteType
  <2>3. /\ e \in Events /\ events' = events \cup {e}
        /\ events' \subseteq Events /\ IsFiniteSet(events')
        /\ count' \in [changes : Nat, events : Nat, cuts : Nat, failures : Nat]
        /\ count'.events = count.events + 1 /\ unannounced' = unannounced \ {t}
    BY <1>2, <2>1, AddEventType
  <2>4. /\ c.ver = Version(row[t]) + 1 /\ c.upd <= clock'
        /\ e.id = count.events + 1 /\ e.task = t /\ e.stamp <= clock'
    BY <1>1, <1>2
  <2> HIDE DEF c, e
  <2>5. RowWritten(t)
    BY <2>2, <2>4 DEF RowWritten
  <2>6. EventAdded(t)
    BY <2>3, <2>4 DEF EventAdded
  <2>7. Types'
    BY <1>1, <1>3, <2>2, <2>3, PageSameTypes DEF Types
  <2> QED
    BY <1>1, <1>3, <1>4, <2>5, <2>6, <2>7 DEF CommitBothStep
<1>5. CASE ~Exists(t)
  <2>1. UNCHANGED <<row, committed, events, unannounced, count>>
    BY <1>5 DEF CommitBoth
  <2>2. Types'
    BY <1>1, <1>3, <2>1, PageSameTypes DEF Types
  <2> QED
    BY <1>1, <1>3, <2>1, <2>2 DEF CommitBothStep, RowsSame, LogSame
<1> QED
  BY <1>4, <1>5

LEMMA SprintWritten ==
    ASSUME Types, RequestsOK, NEW r \in Requests, SprintWrites(r)
    PROVE  Types' /\ SprintStep(r)
<1> DEFINE t == req[r].task
<1>1. /\ req[r].pc = "sent" /\ Exists(t) /\ PageSame /\ UNCHANGED <<events, count>>
      /\ unannounced' = unannounced \cup {t} /\ Ends(r, None)
  BY DEF SprintWrites, PageSame
<1>2. PICK stamp \in Stamps : WriteRow(t, req[r].status, stamp) /\ clock' = stamp
  BY DEF SprintWrites
<1>3. t \in Tasks /\ req[r].status \in Statuses
  BY <1>1 DEF RequestsOK, Sent
<1>4. stamp \in Nat /\ stamp >= clock /\ clock \in Nat
  BY StampsType DEF Types
<1>5. req' \in [Requests -> RequestType] /\ OnlyRequest(r) /\ Ended(r, None)
  BY <1>1, EndedStep DEF Absent
<1> DEFINE c == [status |-> req[r].status, upd |-> stamp, ver |-> Version(row[t]) + 1]
<1>6. /\ c \in Content
      /\ row' = [row EXCEPT ![t] = c]
      /\ row' \in [Tasks -> Content \cup Absent]
      /\ committed' = [committed EXCEPT ![t] = @ \cup {c}]
      /\ committed' \in [Tasks -> SUBSET Content]
  BY <1>2, <1>3, <1>4, WriteType
<1>7. c.ver = Version(row[t]) + 1 /\ c.upd <= clock' /\ clock <= clock' /\ clock' \in Nat
  BY <1>2, <1>4
<1> HIDE DEF c
<1>8. RowWritten(t)
  BY <1>6, <1>7 DEF RowWritten
<1>9. Types'
  BY <1>1, <1>5, <1>6, <1>7, PageSameTypes DEF Types
<1> QED
  BY <1>1, <1>5, <1>7, <1>8, <1>9 DEF SprintStep

LEMMA TaskDeleted ==
    ASSUME Types, RequestsOK, NEW r \in Requests, DeleteTask(r)
    PROVE  Types' /\ DeleteStep(r)
<1> DEFINE t == req[r].task
<1>1. /\ req[r].pc = "sent" /\ req[r].kind = "delete" /\ Exists(t) /\ PageSame
      /\ UNCHANGED <<clock, committed, count>>
      /\ unannounced' = unannounced \cup {t} /\ Ends(r, Gone)
      /\ row' = [row EXCEPT ![t] = Gone] /\ events' = {e \in events : e.task # t}
  BY DEF DeleteTask, PageSame
<1>2. req' \in [Requests -> RequestType] /\ OnlyRequest(r) /\ Ended(r, Gone)
  BY <1>1, EndedStep DEF Absent
<1>3. row' \in [Tasks -> Content \cup Absent]
  BY <1>1 DEF Types, Absent
<1>4. events' \subseteq events /\ events' \subseteq Events /\ IsFiniteSet(events')
  <2>1. events' \subseteq events /\ events \subseteq Events /\ IsFiniteSet(events)
    BY <1>1 DEF Types
  <2> QED
    BY <2>1, FS_Subset
<1>5. Types'
  BY <1>1, <1>2, <1>3, <1>4, PageSameTypes DEF Types
<1> QED
  BY <1>1, <1>2, <1>5 DEF DeleteStep

LEMMA Died ==
    ASSUME Types, RequestsOK, NEW r \in Requests, Dies(r)
    PROVE  Types' /\ DieStep(r)
<1>1. /\ Pending(r) /\ PageSame /\ UNCHANGED <<row, events, clock, committed>>
      /\ unannounced' = unannounced \cup {req[r].task} /\ Ends(r, None)
      /\ Counted("failures")
  BY DEF Dies, PageSame, Pending
<1>2. req' \in [Requests -> RequestType] /\ OnlyRequest(r) /\ Ended(r, None)
  BY <1>1, EndedStep DEF Absent
<1>3. /\ count' \in [changes : Nat, events : Nat, cuts : Nat, failures : Nat]
      /\ count'.events = count.events
  BY <1>1, CountedType
<1>4. Types'
  BY <1>1, <1>2, <1>3, PageSameTypes DEF Types
<1> QED
  BY <1>1, <1>2, <1>3, <1>4 DEF DieStep, RowsSame

------------------------------------------------------------------------------
(***************************************************************************)
(* What the steps of the stream and of the page do                         *)
(***************************************************************************)
ServerSame == UNCHANGED <<row, events, clock, committed, unannounced>>
                /\ count'.events = count.events
ListsSame == UNCHANGED <<shown, own, mixed>>

\* The stream connects, from what a displayed task or the clock says.
ConnectStep ==
    /\ stream'.batch = <<>> /\ stream'.seen = {} /\ stream'.last <= clock
    /\ \/ stream'.blank
       \/ \E t \in Tasks : \E c \in ToSet(shown[t]) : Floor(c.upd) = stream'.last
    /\ UNCHANGED <<req, received, overwritten>>

PollStep ==
    /\ stream.batch = <<>>
    /\ \A i \in DOMAIN stream'.batch :
          LET e == stream'.batch[i].event
          IN  e \in events /\ Exists(e.task) /\ stream'.batch[i].data = row[e.task]
    /\ stream'.seen = stream.seen /\ stream'.last = stream.last
    /\ stream'.blank = stream.blank
    /\ UNCHANGED <<req, received, overwritten>>

CutStep ==
    /\ stream'.batch = <<>> /\ stream'.seen = {} /\ stream'.last = stream.last
    /\ stream'.blank = stream.blank
    /\ UNCHANGED <<req, received, overwritten>>

DeliverStep(item) ==
    /\ stream.batch # <<>> /\ item = Head(stream.batch)
    /\ item.event \in Events /\ item.data \in Content
    /\ shown' = [shown EXCEPT ![item.event.task] = Merged(@, item.data)]
    /\ stream'.batch = Tail(stream.batch) /\ stream'.blank = stream.blank
    /\ stream'.seen = stream.seen \cup {item.event.id}
    /\ stream'.last = stream.last \/ stream'.last = item.event.stamp
    /\ received' = received \cup {item.event}
    /\ overwritten' = overwritten \ {item.event.task}
    /\ UNCHANGED <<req, own, mixed>>

\* The page sends a request.
SendStep(r) ==
    /\ r \in Own /\ ~Waits(r) /\ Waits(r)'
    /\ own'[r].task = req'[r].task /\ own'[r].kind # "none"
    /\ own'[r].kind = "delete" <=> req'[r].kind = "delete"
    /\ \A q \in Own : q # r => own'[q] = own[q]
    /\ UNCHANGED overwritten

MoveStep(r) ==
    /\ own'[r].kind = "move" /\ own'[r].prev = shown
    /\ LET t == own'[r].task IN
           /\ \E s \in Statuses :
                 shown' = [shown EXCEPT ![t] = [i \in DOMAIN @ |-> [@[i] EXCEPT !.status = s]]]
           /\ mixed' = IF Moving = {} THEN mixed
                       ELSE mixed \cup {t} \cup {own[q].task : q \in Moving}

\* The page learns how its request ended.
SettleStep(r) ==
    /\ r \in Own /\ Waits(r) /\ own' = [own EXCEPT ![r] = NothingSent]
    /\ overwritten' = overwritten \cup TurnedBack
    /\ UNCHANGED <<stream, received>>

AnswerStep(r) ==
    LET t == own[r].task
        c == req[r].answer
    IN  /\ c # None /\ req'[r] = IdleRequest /\ OnlyRequest(r)
        /\ req[r].pc = "answered"
        /\ \/ /\ own[r].kind \in {"move", "save"} /\ UNCHANGED mixed
              /\ shown' = [shown EXCEPT ![t] = [i \in DOMAIN @ |-> c]]
           \/ /\ own[r].kind = "create"
              /\ shown' = [shown EXCEPT ![t] = <<c>> \o @]
              /\ mixed' = IF shown[t] # <<>> THEN mixed \cup {t} ELSE mixed
           \/ /\ own[r].kind = "delete" /\ UNCHANGED mixed
              /\ shown' = [shown EXCEPT ![t] = <<>>]

FailStep(r) ==
    /\ shown' = IF own[r].kind = "move" THEN own[r].prev ELSE shown
    /\ UNCHANGED mixed
    /\ \/ UNCHANGED req
       \/ req'[r] = IdleRequest /\ OnlyRequest(r) /\ req[r].pc = "answered"

DropStep(r) ==
    /\ r \in Own /\ ~Waits(r) /\ req[r].pc = "answered"
    /\ req'[r] = IdleRequest /\ OnlyRequest(r)
    /\ UNCHANGED <<page, stream, received>>

StreamStep ==
    /\ ServerSame
    /\ \/ (ConnectStep \/ PollStep \/ CutStep) /\ ListsSame
       \/ \E item \in Items : DeliverStep(item)

PageStep ==
    /\ ServerSame
    /\ \E r \in Own :
          \/ /\ SubmitStep(r) /\ SendStep(r)
             /\ \/ MoveStep(r)
                \/ own'[r].kind # "move" /\ UNCHANGED <<shown, mixed>>
          \/ SettleStep(r) /\ (AnswerStep(r) \/ FailStep(r))
          \/ DropStep(r)

BoardStep == ServerStep \/ StreamStep \/ PageStep \/ UNCHANGED vars

\* The part of the types that the page and the stream do not touch.
LEMMA ServerSameTypes ==
    ASSUME Types, UNCHANGED <<row, events, clock, committed>>
    PROVE  /\ row' \in [Tasks -> Content \cup Absent]
           /\ events' \subseteq Events /\ IsFiniteSet(events')
           /\ clock' \in Nat
           /\ committed' \in [Tasks -> SUBSET Content]
BY DEF Types

LEMMA StreamFields ==
    ASSUME Types
    PROVE  /\ stream.on \in BOOLEAN /\ stream.blank \in BOOLEAN /\ stream.last \in Nat
           /\ stream.seen \in SUBSET Nat /\ stream.batch \in Seq(Items)
           /\ \A i \in Items : i.event \in Events /\ i.data \in Content
           /\ \A e \in Events : e.id \in Nat /\ e.task \in Tasks /\ e.stamp \in Nat
BY DEF Types, Items, Events

LEMMA Connected ==
    ASSUME Types, TimesOK, ShownOK, Connect
    PROVE  Types' /\ StreamStep
<1>1. /\ stream' = [on |-> TRUE, blank |-> AllShown = {}, last |-> Since,
                    seen |-> {}, batch |-> <<>>]
      /\ UNCHANGED <<server, page, count, received>>
  BY DEF Connect
<1> DEFINE U == {c.upd : c \in AllShown}
<1>2. ASSUME NEW c \in AllShown
      PROVE  /\ c.upd \in 0 .. clock
             /\ \E t \in Tasks : c \in ToSet(shown[t])
  <2>1. PICK t \in Tasks : c \in ToSet(shown[t])
    BY DEF AllShown
  <2>2. PICK d \in committed[t] : d.upd = c.upd
    BY <2>1 DEF ShownOK, ListOK, Known
  <2>3. d \in Content /\ d.upd <= clock
    BY DEF TimesOK, Types
  <2> QED
    BY <2>1, <2>2, <2>3, ContentFields DEF Types
<1>3. clock \in Nat
  BY DEF Types
<1>4. CASE AllShown = {}
  <2>1. stream'.blank /\ stream'.last = clock
    BY <1>1, <1>4 DEF Since
  <2> QED
    BY <1>1, <1>3, <1>4, <2>1, ServerSameTypes
       DEF Types, server, page, StreamStep, ServerSame, ListsSame, ConnectStep
<1>5. CASE AllShown # {}
  <2>1. U \in SUBSET (0 .. clock) /\ U # {}
    BY <1>2, <1>5
  <2>2. Max(U) \in U /\ Since = Floor(Max(U))
    <3>1. Since = Floor(Max(U))
      BY <1>5 DEF Since
    <3> HIDE DEF U
    <3> QED
      BY <1>3, <2>1, <3>1, MaxOfBounded
  <2>3. PICK c \in AllShown : c.upd = Max(U)
    BY <2>2
  <2>4. Since = Floor(c.upd) /\ Since \in Nat /\ Since <= clock
    BY <1>2, <1>3, <2>2, <2>3, FloorBelow
  <2>5. \E t \in Tasks : \E d \in ToSet(shown[t]) : Floor(d.upd) = stream'.last
    BY <1>1, <1>2, <2>4
  <2> HIDE DEF U
  <2>6. /\ stream' \in [on : BOOLEAN, blank : BOOLEAN, last : Nat, seen : SUBSET Nat,
                        batch : Seq(Items)]
        /\ stream'.last <= clock /\ stream'.batch = <<>> /\ stream'.seen = {}
    BY <1>1, <2>4
  <2> QED
    BY <1>1, <2>5, <2>6, ServerSameTypes
       DEF Types, server, page, StreamStep, ServerSame, ListsSame, ConnectStep
<1> QED
  BY <1>4, <1>5

LEMMA Polled ==
    ASSUME Types, Poll
    PROVE  Types' /\ StreamStep
<1>1. PICK order \in Orders(Fetchable) :
         stream' = [stream EXCEPT !.batch =
                      [i \in DOMAIN order |->
                          [event |-> order[i], data |-> row[order[i].task]]]]
  BY DEF Poll
<1>2. stream.batch = <<>> /\ UNCHANGED <<server, page, count, received>>
  BY DEF Poll
<1>3. /\ Fetchable \subseteq events /\ IsFiniteSet(Fetchable)
      /\ \A e \in Fetchable : e \in events /\ e \in Events /\ Exists(e.task)
  <2>1. Fetchable \subseteq events /\ IsFiniteSet(events) /\ events \subseteq Events
        /\ \A e \in Fetchable : Exists(e.task)
    BY DEF Fetchable, Types
  <2> QED
    BY <2>1, FS_Subset
<1>4. Cardinality(Fetchable) \in Nat /\ order \in [1 .. Cardinality(Fetchable) -> Fetchable]
  BY <1>3, FS_CardinalityType DEF Orders
<1> DEFINE n == Cardinality(Fetchable)
           b == [i \in 1 .. n |-> [event |-> order[i], data |-> row[order[i].task]]]
<1>5. stream' = [stream EXCEPT !.batch = b]
  BY <1>1, <1>4
<1>6. \A i \in 1 .. n : order[i] \in Fetchable
  BY <1>4
<1>7. \A i \in 1 .. n : /\ b[i] \in Items /\ b[i].event \in events /\ Exists(b[i].event.task)
                        /\ b[i].data = row[b[i].event.task]
  <2> SUFFICES ASSUME NEW i \in 1 .. n
               PROVE  /\ b[i] \in Items /\ b[i].event \in events /\ Exists(b[i].event.task)
                      /\ b[i].data = row[b[i].event.task]
    OBVIOUS
  <2>1. b[i] = [event |-> order[i], data |-> row[order[i].task]]
    OBVIOUS
  <2>2. order[i] \in Events /\ order[i] \in events /\ Exists(order[i].task)
    BY <1>3, <1>6
  <2>3. row[order[i].task] \in Content
    BY <2>2, StreamFields, ExistsContent
  <2> HIDE DEF b
  <2> QED
    BY <2>1, <2>2, <2>3 DEF Items
<1>8. DOMAIN b = 1 .. n /\ n \in Nat
  BY <1>4
<1> HIDE DEF b, n
<1>9. b \in Seq(Items)
  <2>1. b \in [1 .. n -> Items]
    BY <1>7, <1>8 DEF b
  <2> QED
    BY <1>8, <2>1, SeqDef
<1>10. /\ stream' \in [on : BOOLEAN, blank : BOOLEAN, last : Nat, seen : SUBSET Nat,
                      batch : Seq(Items)]
       /\ stream'.batch = b /\ stream'.seen = stream.seen /\ stream'.last = stream.last
       /\ stream'.blank = stream.blank
  BY <1>5, <1>9 DEF Types
<1>11. Types'
  BY <1>2, <1>10, ServerSameTypes DEF Types, server, page
<1>12. PollStep
  BY <1>2, <1>7, <1>8, <1>10 DEF PollStep, server, page
<1> QED
  BY <1>2, <1>11, <1>12 DEF StreamStep, ServerSame, ListsSame, server, page

LEMMA WasCut ==
    ASSUME Types, Cut
    PROVE  Types' /\ StreamStep
<1>1. /\ stream' = [stream EXCEPT !.on = FALSE, !.seen = {}, !.batch = <<>>]
      /\ UNCHANGED <<server, page, received>> /\ Counted("cuts")
  BY DEF Cut
<1>2. /\ count' \in [changes : Nat, events : Nat, cuts : Nat, failures : Nat]
      /\ count'.events = count.events
  BY <1>1, CountedType
<1>3. /\ stream' \in [on : BOOLEAN, blank : BOOLEAN, last : Nat, seen : SUBSET Nat,
                      batch : Seq(Items)]
      /\ stream'.batch = <<>> /\ stream'.seen = {} /\ stream'.last = stream.last
      /\ stream'.blank = stream.blank
  <2>1. <<>> \in Seq(Items)
    OBVIOUS
  <2>2. stream' = [on |-> FALSE, blank |-> stream.blank, last |-> stream.last,
                   seen |-> {}, batch |-> <<>>]
    BY <1>1 DEF Types
  <2> QED
    BY <2>1, <2>2, StreamFields
<1>4. Types'
  BY <1>1, <1>2, <1>3, ServerSameTypes DEF Types, server, page
<1> QED
  BY <1>1, <1>2, <1>3, <1>4 DEF StreamStep, ServerSame, ListsSame, CutStep, server, page

LEMMA Delivered ==
    ASSUME Types, Deliver
    PROVE  Types' /\ StreamStep
<1> DEFINE item == Head(stream.batch)
<1>1. /\ stream.batch # <<>> /\ Merge(item.event.task, item.data)
      /\ stream' = [stream EXCEPT !.batch = Tail(@), !.seen = @ \cup {item.event.id},
                                  !.last = Max({@, item.event.stamp})]
      /\ received' = received \cup {item.event}
      /\ overwritten' = overwritten \ {item.event.task}
      /\ UNCHANGED <<server, own, mixed, count>>
  BY DEF Deliver
<1>2. item \in Items /\ Tail(stream.batch) \in Seq(Items)
  BY <1>1, StreamFields, TailSeq
<1> HIDE DEF item
<1>3. /\ item.event \in Events /\ item.data \in Content /\ item.event.id \in Nat
      /\ item.event.task \in Tasks /\ item.event.stamp \in Nat /\ stream.last \in Nat
      /\ stream.seen \in SUBSET Nat
  BY <1>2, StreamFields
<1>4. shown' = [shown EXCEPT ![item.event.task] = Merged(@, item.data)]
  BY <1>1 DEF Merge, Merged
<1>5. shown' \in [Tasks -> Seq(Content)]
  <2>1. Merged(shown[item.event.task], item.data) \in Seq(Content)
    <3>1. shown[item.event.task] \in Seq(Content) /\ item.data \in Content
      BY <1>3 DEF Types
    <3> QED
      BY <3>1, MergedContent, Zenon
  <2> QED
    BY <1>4, <2>1 DEF Types
<1> DEFINE m == Max({stream.last, item.event.stamp})
<1>6. m \in Nat /\ m \in {stream.last, item.event.stamp}
  BY <1>3, MaxOfTwo
<1>7. stream' = [stream EXCEPT !.batch = Tail(@), !.seen = @ \cup {item.event.id}, !.last = m]
  BY <1>1
<1> HIDE DEF m
<1>8. /\ stream' \in [on : BOOLEAN, blank : BOOLEAN, last : Nat, seen : SUBSET Nat,
                      batch : Seq(Items)]
      /\ stream'.batch = Tail(stream.batch) /\ stream'.blank = stream.blank
      /\ stream'.seen = stream.seen \cup {item.event.id} /\ stream'.last = m
  BY <1>2, <1>3, <1>6, <1>7 DEF Types
<1>9. Types'
  BY <1>1, <1>3, <1>5, <1>8, ServerSameTypes DEF Types, server
<1>10. DeliverStep(item)
  BY <1>1, <1>3, <1>4, <1>6, <1>8 DEF DeliverStep, server, item
<1> QED
  BY <1>1, <1>2, <1>9, <1>10 DEF StreamStep, ServerSame, server

LEMMA OwnFields ==
    ASSUME NEW x \in OwnType
    PROVE  /\ x.kind \in OwnKinds /\ x.task \in Tasks \cup {None}
           /\ x.prev \in [Tasks -> Seq(Content)] \cup {None}
BY DEF OwnType

\* What the page's requests have in common.
LEMMA PageSent ==
    ASSUME Types, RequestsOK, NEW r \in Own, NEW k \in OwnKinds \ {"none"}, NEW t \in Tasks,
           NEW s \in Statuses, NEW prev \in [Tasks -> Seq(Content)] \cup {None},
           Sends(r, k, t, s, prev)
    PROVE  /\ SubmitStep(r) /\ SendStep(r)
           /\ own'[r] = [kind |-> k, task |-> t, prev |-> prev]
           /\ own' \in [Own -> OwnType] /\ req' \in [Requests -> RequestType]
           /\ count' \in [changes : Nat, events : Nat, cuts : Nat, failures : Nat]
           /\ ServerSame /\ UNCHANGED <<stream, received, overwritten>>
<1> DEFINE kind == IF k = "move" \/ k = "save" THEN "update" ELSE k
           x == [kind |-> k, task |-> t, prev |-> prev]
<1>1. /\ req[r].pc = "idle" /\ own[r].kind = "none" /\ Counted("changes")
      /\ Submit(r, kind, t, s) /\ own' = [own EXCEPT ![r] = x]
      /\ UNCHANGED <<row, events, clock, committed, unannounced, stream, received, overwritten>>
  BY DEF Sends
<1>2. kind \in Kinds /\ (kind = "delete" <=> k = "delete") /\ r \in Requests
  BY DEF Kinds, OwnKinds, Requests
<1>3. x \in OwnType /\ x.kind = k /\ x.task = t
  BY DEF OwnType
<1> HIDE DEF kind, x
<1>4. own' \in [Own -> OwnType] /\ own'[r] = x /\ \A q \in Own : q # r => own'[q] = own[q]
  BY <1>1, <1>3 DEF Types
<1>5. /\ count' \in [changes : Nat, events : Nat, cuts : Nat, failures : Nat]
      /\ count'.events = count.events
  BY <1>1, CountedType
<1>6. /\ req' \in [Requests -> RequestType]
      /\ \A q \in Requests : q # r => req'[q] = req[q]
      /\ req'[r].pc = "sent" /\ req'[r].kind = kind /\ req'[r].task = t
      /\ req'[r].status = s /\ req'[r].answer = None
      /\ req'[r].upd = 0 /\ req'[r].stamp = 0
  BY <1>1, <1>2, SubmitType
<1>7. SubmitStep(r)
  BY <1>1, <1>2, <1>5, <1>6 DEF SubmitStep, OnlyRequest, RowsSame, LogSame
<1>8. SendStep(r)
  BY <1>1, <1>2, <1>3, <1>4, <1>6 DEF SendStep, Waits
<1> QED
  BY <1>1, <1>4, <1>5, <1>6, <1>7, <1>8 DEF ServerSame, x

LEMMA StreamSameTypes ==
    ASSUME Types, UNCHANGED <<stream, received>>
    PROVE  /\ stream' \in [on : BOOLEAN, blank : BOOLEAN, last : Nat, seen : SUBSET Nat,
                           batch : Seq(Items)]
           /\ received' \subseteq Events
BY DEF Types

LEMMA Moved ==
    ASSUME Types, RequestsOK, NEW r \in Own, NEW t \in Tasks, NEW s \in Statuses,
           MoveTask(r, t, s)
    PROVE  Types' /\ PageStep
<1>1. shown \in [Tasks -> Seq(Content)]
  BY DEF Types
<1>2. /\ SubmitStep(r) /\ SendStep(r)
      /\ own'[r] = [kind |-> "move", task |-> t, prev |-> shown]
      /\ own' \in [Own -> OwnType] /\ req' \in [Requests -> RequestType]
      /\ count' \in [changes : Nat, events : Nat, cuts : Nat, failures : Nat]
      /\ ServerSame /\ UNCHANGED <<stream, received, overwritten>>
  <2>1. Sends(r, "move", t, s, shown)
    BY DEF MoveTask
  <2> QED
    BY <1>1, <2>1, PageSent DEF OwnKinds
<1> DEFINE f == [i \in DOMAIN shown[t] |-> [shown[t][i] EXCEPT !.status = s]]
<1>3. f \in Seq(Content)
  <2>1. shown[t] \in Seq(Content)
    BY <1>1
  <2>2. \A i \in DOMAIN shown[t] : shown[t][i] \in Content
    BY <2>1, ElementOfSeq, LenProperties
  <2>3. \A c \in Content : [c EXCEPT !.status = s] \in Content
    BY DEF Content
  <2>4. f \in [DOMAIN shown[t] -> Content]
    BY <2>2, <2>3
  <2> HIDE DEF f
  <2> QED
    BY <2>1, <2>4, Replaced
<1>4. shown' = [shown EXCEPT ![t] = f]
  BY <1>1 DEF MoveTask
<1>5. mixed' = IF Moving = {} THEN mixed ELSE mixed \cup {t} \cup {own[q].task : q \in Moving}
  BY DEF MoveTask
<1>6. MoveStep(r)
  BY <1>2, <1>4, <1>5 DEF MoveStep
<1> HIDE DEF f
<1>7. shown' \in [Tasks -> Seq(Content)]
  BY <1>1, <1>3, <1>4
<1>8. Types'
  BY <1>2, <1>7, ServerSameTypes, StreamSameTypes DEF Types, ServerSame
<1> QED
  BY <1>2, <1>6, <1>8 DEF PageStep

LEMMA SentOther ==
    ASSUME Types, RequestsOK, NEW r \in Own, NEW k \in {"save", "create", "delete"},
           NEW t \in Tasks, NEW s \in Statuses, Sends(r, k, t, s, None),
           UNCHANGED <<shown, mixed>>
    PROVE  Types' /\ PageStep
<1>1. /\ SubmitStep(r) /\ SendStep(r)
      /\ own'[r] = [kind |-> k, task |-> t, prev |-> None]
      /\ own' \in [Own -> OwnType] /\ req' \in [Requests -> RequestType]
      /\ count' \in [changes : Nat, events : Nat, cuts : Nat, failures : Nat]
      /\ ServerSame /\ UNCHANGED <<stream, received, overwritten>>
  BY PageSent DEF OwnKinds
<1>2. own'[r].kind # "move"
  BY <1>1
<1>3. Types'
  BY <1>1, ServerSameTypes, StreamSameTypes DEF Types, ServerSame
<1> QED
  BY <1>1, <1>2, <1>3 DEF PageStep

\* What the ends of the page's requests have in common.
LEMMA SettledStep ==
    ASSUME Types, NEW r \in Own, own[r].kind # "none", Settled(r)
    PROVE  SettleStep(r) /\ own' \in [Own -> OwnType]
<1>1. own' = [own EXCEPT ![r] = NothingSent]
  BY DEF Settled
<1>2. own' \in [Own -> OwnType]
  BY <1>1, IdleType DEF Types
<1> QED
  BY <1>1, <1>2 DEF Settled, SettleStep, Waits

LEMMA Idled ==
    ASSUME Types, NEW r \in Own, req' = [req EXCEPT ![r] = IdleRequest]
    PROVE  req' \in [Requests -> RequestType] /\ req'[r] = IdleRequest /\ OnlyRequest(r)
<1>1. r \in Requests /\ IdleRequest \in RequestType
  BY IdleType DEF Requests
<1> QED
  BY <1>1, RequestType1 DEF OnlyRequest

LEMMA Answered ==
    ASSUME Types, RequestsOK, AnswersOK, NEW r \in Own, AnswerArrives(r)
    PROVE  Types' /\ PageStep
<1> DEFINE t == own[r].task
           c == req[r].answer
<1>1. /\ own[r].kind # "none" /\ req[r].pc = "answered" /\ c # None /\ Settled(r)
      /\ req' = [req EXCEPT ![r] = IdleRequest]
      /\ UNCHANGED <<row, events, clock, committed, unannounced, count>>
  BY DEF AnswerArrives
<1>2. SettleStep(r) /\ own' \in [Own -> OwnType] /\ UNCHANGED <<stream, received>>
  BY <1>1, SettledStep DEF Settled
<1>3. req' \in [Requests -> RequestType] /\ req'[r] = IdleRequest /\ OnlyRequest(r)
  BY <1>1, Idled
<1>4. /\ r \in Requests /\ t \in Tasks /\ own[r].kind \in OwnKinds \ {"none"}
      /\ c \in Content \cup {Gone} /\ (c = Gone => own[r].kind = "delete")
  <2>1. r \in Requests /\ own[r] \in OwnType /\ req[r] \in RequestType
    BY DEF Requests, Types
  <2>2. c \in Content \cup Absent /\ own[r].kind \in OwnKinds
    BY <2>1, RequestFields, OwnFields
  <2> QED
    BY <1>1, <2>1, <2>2 DEF AnswersOK, AnswerOK, RequestsOK, Waits, Absent
<1>5. shown \in [Tasks -> Seq(Content)] /\ shown[t] \in Seq(Content)
  BY <1>4 DEF Types
<1>6. ASSUME own[r].kind \in {"move", "save"}
      PROVE  Types' /\ AnswerStep(r)
  <2> DEFINE f == [i \in DOMAIN shown[t] |-> c]
  <2>1. shown' = [shown EXCEPT ![t] = f] /\ mixed' = mixed
    BY <1>5, <1>6 DEF AnswerArrives
  <2>2. AnswerStep(r)
    BY <1>1, <1>3, <1>6, <2>1 DEF AnswerStep
  <2>3. f \in [DOMAIN shown[t] -> Content]
    BY <1>4, <1>6
  <2>4. f \in Seq(Content)
    <3> HIDE DEF f
    <3> QED
      BY <1>5, <2>3, Replaced
  <2> HIDE DEF f
  <2>5. shown' \in [Tasks -> Seq(Content)]
    BY <1>5, <2>1, <2>4
  <2> QED
    BY <1>1, <1>2, <1>3, <2>2, <2>5, ServerSameTypes, StreamSameTypes DEF Types
<1>7. ASSUME own[r].kind = "create"
      PROVE  Types' /\ AnswerStep(r)
  <2>1. /\ shown' = [shown EXCEPT ![t] = <<c>> \o @]
        /\ mixed' = IF shown[t] # <<>> THEN mixed \cup {t} ELSE mixed
    BY <1>7 DEF AnswerArrives
  <2>2. AnswerStep(r)
    BY <1>1, <1>3, <1>7, <2>1 DEF AnswerStep
  <2>3. c \in Content
    BY <1>4, <1>7
  <2> HIDE DEF c, t
  <2>4. <<c>> \o shown[t] \in Seq(Content)
    BY <1>5, <2>3
  <2>5. shown' \in [Tasks -> Seq(Content)]
    BY <1>5, <2>1, <2>4
  <2> QED
    BY <1>1, <1>2, <1>3, <2>2, <2>5, ServerSameTypes, StreamSameTypes DEF Types
<1>8. ASSUME own[r].kind = "delete"
      PROVE  Types' /\ AnswerStep(r)
  <2>1. shown' = [shown EXCEPT ![t] = <<>>] /\ mixed' = mixed
    BY <1>8 DEF AnswerArrives
  <2>2. AnswerStep(r)
    BY <1>1, <1>3, <1>8, <2>1 DEF AnswerStep
  <2>3. <<>> \in Seq(Content)
    OBVIOUS
  <2>4. shown' \in [Tasks -> Seq(Content)]
    BY <1>5, <2>1, <2>3
  <2> QED
    BY <1>1, <1>2, <1>3, <2>2, <2>4, ServerSameTypes, StreamSameTypes DEF Types
<1>9. Types' /\ AnswerStep(r)
  BY <1>4, <1>6, <1>7, <1>8 DEF OwnKinds
<1> QED
  BY <1>1, <1>2, <1>9 DEF PageStep, ServerSame

LEMMA Failed ==
    ASSUME Types, RequestsOK, NEW r \in Own, FailureArrives(r) \/ AnswerLost(r)
    PROVE  Types' /\ PageStep
<1>1. own[r].kind # "none" /\ ShowFailure(r)
  BY DEF FailureArrives, AnswerLost
<1>2. /\ shown' = IF own[r].kind = "move" THEN own[r].prev ELSE shown
      /\ Settled(r) /\ UNCHANGED <<row, events, clock, committed, unannounced, mixed>>
  BY <1>1 DEF ShowFailure
<1>3. SettleStep(r) /\ own' \in [Own -> OwnType] /\ UNCHANGED <<stream, received>>
  BY <1>1, <1>2, SettledStep DEF Settled
<1>4. shown' \in [Tasks -> Seq(Content)]
  BY <1>2 DEF RequestsOK, Types
<1>5. /\ req' \in [Requests -> RequestType]
      /\ count' \in [changes : Nat, events : Nat, cuts : Nat, failures : Nat]
      /\ count'.events = count.events
      /\ \/ UNCHANGED req
         \/ req'[r] = IdleRequest /\ OnlyRequest(r) /\ req[r].pc = "answered"
  <2>1. CASE FailureArrives(r)
    <3>1. req' = [req EXCEPT ![r] = IdleRequest] /\ req[r].pc = "answered" /\ count' = count
      BY <2>1 DEF FailureArrives
    <3> QED
      BY <3>1, Idled DEF Types
  <2>2. CASE AnswerLost(r)
    <3>1. req' = req /\ Counted("failures")
      BY <2>2 DEF AnswerLost
    <3> QED
      BY <3>1, CountedType DEF Types
  <2> QED
    BY <2>1, <2>2
<1>6. Types'
  BY <1>2, <1>3, <1>4, <1>5, ServerSameTypes, StreamSameTypes DEF Types
<1> QED
  BY <1>2, <1>3, <1>5, <1>6 DEF PageStep, ServerSame, FailStep

LEMMA Dropped ==
    ASSUME Types, NEW r \in Own, DropAnswer(r)
    PROVE  Types' /\ PageStep
<1>1. /\ own[r].kind = "none" /\ req[r].pc = "answered" /\ req' = [req EXCEPT ![r] = IdleRequest]
      /\ UNCHANGED <<row, events, clock, committed, unannounced, page, stream, count, received>>
  BY DEF DropAnswer
<1>2. req' \in [Requests -> RequestType] /\ req'[r] = IdleRequest /\ OnlyRequest(r)
  BY <1>1, Idled
<1>3. Types'
  BY <1>1, <1>2 DEF Types, page
<1> QED
  BY <1>1, <1>2, <1>3 DEF PageStep, ServerSame, DropStep, Waits

\* Every step is one of the kinds above and keeps the types.
LEMMA EveryStep ==
    ASSUME Types, RequestsOK, TimesOK, AnswersOK, ShownOK, [Next]_vars
    PROVE  Types' /\ BoardStep
<1>1. ASSUME NEW r \in Others, NEW kind \in Kinds, NEW t \in Tasks, NEW s \in Statuses,
             OtherRequest(r, kind, t, s)
      PROVE  Types' /\ BoardStep
  BY <1>1, OthersSubmit DEF BoardStep, ServerStep
<1>2. ASSUME NEW r \in Requests, Serve(r) \/ Refuse(r) \/ Dies(r)
      PROVE  Types' /\ BoardStep
  BY <1>2, Refused, RowCommitted, EventStamped, EventCommitted, BothStamped, BothCommitted,
     SprintWritten, TaskDeleted, Died DEF Serve, BoardStep, ServerStep
<1>3. CASE Connect \/ Poll \/ Deliver \/ Cut
  BY <1>3, Connected, Polled, Delivered, WasCut DEF BoardStep
<1>4. ASSUME NEW r \in Own, NEW t \in Tasks, NEW s \in Statuses,
             MoveTask(r, t, s) \/ SaveTask(r, t, s) \/ CreateTask(r, t, s)
      PROVE  Types' /\ BoardStep
  <2>1. CASE MoveTask(r, t, s)
    BY <2>1, Moved DEF BoardStep
  <2>2. CASE SaveTask(r, t, s)
    BY <2>2, SentOther DEF SaveTask, BoardStep
  <2>3. CASE CreateTask(r, t, s)
    BY <2>3, SentOther DEF CreateTask, BoardStep
  <2> QED
    BY <1>4, <2>1, <2>2, <2>3
<1>5. ASSUME NEW r \in Own, NEW t \in Tasks, RemoveTask(r, t)
      PROVE  Types' /\ BoardStep
  <2>1. (CHOOSE s \in Statuses : TRUE) \in Statuses
    BY LiveBoardAssumption
  <2> QED
    BY <1>5, <2>1, SentOther DEF RemoveTask, BoardStep
<1>6. ASSUME NEW r \in Own, Reply(r) \/ AnswerLost(r)
      PROVE  Types' /\ BoardStep
  BY <1>6, Answered, Failed, Dropped DEF Reply, BoardStep
<1>7. CASE UNCHANGED vars
  BY <1>7 DEF vars, server, page, Types, BoardStep
<1> QED
  BY <1>1, <1>2, <1>3, <1>4, <1>5, <1>6, <1>7 DEF Next

------------------------------------------------------------------------------
(***************************************************************************)
(* The parts of the invariant, one by one                                  *)
(***************************************************************************)
RequestStep(r) ==
    \/ RefuseStep(r) \/ CommitRowStep(r) \/ StampEventStep(r) \/ CommitEventStep(r)
    \/ StampBothStep(r) \/ CommitBothStep(r) \/ SprintStep(r) \/ DeleteStep(r) \/ DieStep(r)

\* A request at the server keeps its task until it ends.
Continued(r) ==
    /\ Sent(r)
    /\ \/ r \notin Own /\ req'[r] = IdleRequest
       \/ /\ Sent(r)' /\ req'[r].task = req[r].task /\ req'[r].kind = req[r].kind
          /\ req'[r].status = req[r].status

LEMMA EndedContinues ==
    ASSUME Types, NEW r \in Requests, Sent(r), NEW a, Ended(r, a)
    PROVE  /\ Continued(r)
           /\ req'[r].pc \in {"idle", "answered"} /\ req'[r].answer \in {None, a}
           /\ req'[r].pc = "idle" => req'[r].answer = None
           /\ req'[r].upd \in {0, req[r].upd} /\ req'[r].stamp \in {0, req[r].stamp}
<1>1. req[r] \in RequestType
  BY DEF Types
<1>2. CASE req'[r] = IdleRequest /\ r \notin Own
  BY <1>2 DEF Continued, IdleRequest
<1>3. CASE r \in Own /\ req'[r] = [req[r] EXCEPT !.pc = "answered", !.answer = a]
  BY <1>1, <1>3 DEF Continued, Sent, RequestType
<1> QED
  BY <1>2, <1>3 DEF Ended

LEMMA ServerContinues ==
    ASSUME Types, NEW r \in Requests, RequestStep(r)
    PROVE  Continued(r) /\ OnlyRequest(r) /\ PageSame
<1>1. req[r] \in RequestType
  BY DEF Types
<1>2. CASE RefuseStep(r)
  BY <1>2, EndedContinues DEF RefuseStep, Sent
<1>3. CASE CommitRowStep(r)
  BY <1>1, <1>3 DEF CommitRowStep, Continued, Sent, RequestType
<1>4. CASE StampEventStep(r)
  <2>1. CASE Ended(r, None)
    BY <1>4, <2>1, EndedContinues DEF StampEventStep, Sent
  <2>2. ASSUME NEW s \in Nat,
               req'[r] = [req[r] EXCEPT !.pc = "event", !.stamp = s,
                                        !.answer = row[req[r].task]]
        PROVE  Continued(r)
    BY <1>1, <1>4, <2>2 DEF StampEventStep, Continued, Sent, RequestType
  <2> QED
    BY <1>4, <2>1, <2>2 DEF StampEventStep
<1>5. CASE CommitEventStep(r)
  <2>1. Sent(r) /\ (Ended(r, None) \/ Ended(r, req[r].answer))
    BY <1>5 DEF CommitEventStep, Sent
  <2> QED
    BY <1>5, <2>1, EndedContinues DEF CommitEventStep
<1>6. CASE StampBothStep(r)
  <2>1. PICK s \in Nat : req'[r] = [req[r] EXCEPT !.pc = "both", !.upd = s, !.stamp = s]
    BY <1>6 DEF StampBothStep
  <2> QED
    BY <1>1, <1>6, <2>1 DEF StampBothStep, Continued, Sent, RequestType
<1>7. CASE CommitBothStep(r)
  BY <1>7, EndedContinues DEF CommitBothStep, Sent
<1>8. CASE SprintStep(r)
  BY <1>8, EndedContinues DEF SprintStep, Sent
<1>9. CASE DeleteStep(r)
  BY <1>9, EndedContinues DEF DeleteStep, Sent
<1>10. CASE DieStep(r)
  BY <1>10, EndedContinues DEF DieStep, Sent, Pending
<1> QED
  BY <1>2, <1>3, <1>4, <1>5, <1>6, <1>7, <1>8, <1>9, <1>10 DEF RequestStep

LEMMA RequestsKept ==
    ASSUME Types, RequestsOK, Types', BoardStep
    PROVE  RequestsOK'
<1>0. Own \subseteq Requests /\ Others \subseteq Requests /\ Others \cap Own = {}
  BY LiveBoardAssumption DEF Requests
<1>1. ASSUME NEW r \in Others, SubmitStep(r), PageSame
      PROVE  RequestsOK'
  BY <1>0, <1>1 DEF RequestsOK, SubmitStep, PageSame, page, OnlyRequest, Sent, Waits
<1>2. ASSUME NEW r \in Requests, RequestStep(r)
      PROVE  RequestsOK'
  <2>1. Continued(r) /\ OnlyRequest(r) /\ own' = own
    BY <1>2, ServerContinues DEF PageSame, page
  <2>2. ~Sent(r)' \/ (req'[r].task \in Tasks /\ req'[r].status \in Statuses)
    BY <2>1 DEF RequestsOK, Continued, Sent, IdleRequest
  <2>3. r \in Own /\ Waits(r) => /\ Sent(r)' /\ req'[r].task = own[r].task
                                 /\ own[r].kind = "delete" <=> req'[r].kind = "delete"
    BY <2>1 DEF RequestsOK, Continued
  <2> QED
    BY <1>0, <2>1, <2>2, <2>3 DEF RequestsOK, OnlyRequest, Sent, Waits
<1>3. CASE StreamStep
  <2>1. req' = req /\ own' = own
    BY <1>3 DEF StreamStep, ConnectStep, PollStep, CutStep, DeliverStep, ListsSame
  <2> QED
    BY <2>1 DEF RequestsOK, Sent, Waits
<1>4. ASSUME NEW r \in Own, SubmitStep(r), SendStep(r),
             MoveStep(r) \/ (own'[r].kind # "move" /\ UNCHANGED <<shown, mixed>>)
      PROVE  RequestsOK'
  <2>1. own'[r].kind = "move" => own'[r].prev \in [Tasks -> Seq(Content)]
    BY <1>4 DEF MoveStep, Types
  <2>2. /\ Sent(r)' /\ req'[r].task \in Tasks /\ req'[r].status \in Statuses
        /\ own'[r].task = req'[r].task /\ (own'[r].kind = "delete" <=> req'[r].kind = "delete")
    BY <1>4 DEF SubmitStep, SendStep, Sent
  <2>3. /\ \A q \in Requests : q # r => req'[q] = req[q]
        /\ \A q \in Own : q # r => own'[q] = own[q]
    BY <1>4 DEF SubmitStep, SendStep, OnlyRequest
  <2>4. \A q \in Requests : Sent(q)' => req'[q].task \in Tasks /\ req'[q].status \in Statuses
    BY <2>2, <2>3 DEF RequestsOK, Sent
  <2>5. \A q \in Own : Waits(q)' => /\ Sent(q)' /\ own'[q].task \in Tasks
                                    /\ req'[q].task = own'[q].task
                                    /\ own'[q].kind = "delete" <=> req'[q].kind = "delete"
    BY <1>0, <2>2, <2>3 DEF RequestsOK, Sent, Waits
  <2>6. \A q \in Own : own'[q].kind = "move" => own'[q].prev \in [Tasks -> Seq(Content)]
    BY <2>1, <2>3 DEF RequestsOK
  <2> QED
    BY <2>4, <2>5, <2>6 DEF RequestsOK, Sent, Waits
<1>5. ASSUME NEW r \in Own, SettleStep(r), AnswerStep(r) \/ FailStep(r)
      PROVE  RequestsOK'
  <2>1. own'[r] = NothingSent /\ \A q \in Own : q # r => own'[q] = own[q]
    BY <1>5 DEF SettleStep, Types
  <2>2. \/ req' = req
        \/ req'[r] = IdleRequest /\ \A q \in Requests : q # r => req'[q] = req[q]
    BY <1>5 DEF AnswerStep, FailStep, OnlyRequest
  <2>3. ~Waits(r)' /\ own'[r].kind # "move"
    BY <2>1 DEF NothingSent, Waits
  <2>4. req'[r] = IdleRequest => ~Sent(r)'
    BY DEF IdleRequest, Sent
  <2> QED
    BY <1>0, <2>1, <2>2, <2>3, <2>4 DEF RequestsOK, Sent, Waits
<1>6. ASSUME NEW r \in Own, DropStep(r)
      PROVE  RequestsOK'
  <2>1. /\ own' = own /\ ~Waits(r) /\ req'[r] = IdleRequest
        /\ \A q \in Requests : q # r => req'[q] = req[q]
    BY <1>6 DEF DropStep, page, OnlyRequest
  <2>2. ~Sent(r)'
    BY <2>1 DEF IdleRequest, Sent
  <2> QED
    BY <1>0, <2>1, <2>2 DEF RequestsOK, Sent, Waits
<1>7. CASE UNCHANGED vars
  BY <1>7 DEF vars, server, page, RequestsOK, Sent, Waits
<1> QED
  BY <1>1, <1>2, <1>3, <1>4, <1>5, <1>6, <1>7 DEF BoardStep, ServerStep, PageStep, RequestStep

\* What only grows.
Grows ==
    /\ clock <= clock'
    /\ \A t \in Tasks : committed[t] \subseteq committed'[t]
    /\ \A t \in Tasks : \A c \in committed'[t] : c \in committed[t] \/ c.upd <= clock'
    /\ \A e \in events' : e \in events \/ (e.stamp <= clock' /\ e.id = count'.events)
    /\ \A d, e \in events' : d = e \/ d \in events \/ e \in events
    /\ received \subseteq received'
    /\ mixed \subseteq mixed'
    /\ \/ count'.events = count.events /\ events' \subseteq events
       \/ count'.events = count.events + 1

LEMMA WrittenGrows ==
    ASSUME Types, NEW t \in Tasks, RowWritten(t)
    PROVE  /\ \A u \in Tasks : committed[u] \subseteq committed'[u]
           /\ \A u \in Tasks : \A c \in committed'[u] : c \in committed[u] \/ c.upd <= clock'
<1>1. PICK c \in Content : /\ c.upd <= clock'
                           /\ committed' = [committed EXCEPT ![t] = @ \cup {c}]
  BY DEF RowWritten
<1> QED
  BY <1>1 DEF Types

LEMMA AddedGrows ==
    ASSUME Types, NEW t, EventAdded(t)
    PROVE  /\ \A e \in events' : e \in events \/ (e.stamp <= clock' /\ e.id = count'.events)
           /\ \A d, e \in events' : d = e \/ d \in events \/ e \in events
           /\ count'.events = count.events + 1
BY DEF EventAdded

LEMMA EveryStepGrows ==
    ASSUME Types, RequestsOK, Types', BoardStep
    PROVE  Grows
<1>1. clock \in Nat /\ count.events \in Nat
  BY DEF Types
<1>2. ASSUME NEW r \in Requests, RequestStep(r)
      PROVE  Grows
  <2>1. Continued(r) /\ PageSame
    BY <1>2, ServerContinues
  <2>2. req[r].task \in Tasks /\ received' = received /\ mixed' = mixed
    BY <2>1 DEF Continued, RequestsOK, PageSame, page
  <2>3. CASE RowsSame /\ LogSame /\ clock <= clock'
    BY <2>2, <2>3 DEF Grows, RowsSame, LogSame
  <2>4. CASE CommitRowStep(r)
    BY <2>2, <2>4, WrittenGrows DEF Grows, CommitRowStep, LogSame
  <2>5. CASE CommitEventStep(r)
    <3>1. CASE EventAdded(req[r].task)
      BY <1>1, <2>2, <2>5, <3>1, AddedGrows DEF Grows, CommitEventStep, RowsSame
    <3>2. CASE LogSame
      BY <1>1, <2>3, <2>5, <3>2 DEF CommitEventStep
    <3> QED
      BY <2>5, <3>1, <3>2 DEF CommitEventStep
  <2>6. CASE CommitBothStep(r)
    <3>1. clock' = clock
      BY <2>6 DEF CommitBothStep
    <3>2. CASE RowWritten(req[r].task) /\ EventAdded(req[r].task)
      BY <1>1, <2>2, <3>1, <3>2, WrittenGrows, AddedGrows DEF Grows
    <3>3. CASE RowsSame /\ LogSame
      BY <1>1, <2>3, <3>1, <3>3
    <3> QED
      BY <2>6, <3>2, <3>3 DEF CommitBothStep
  <2>7. CASE SprintStep(r)
    BY <2>2, <2>7, WrittenGrows DEF Grows, SprintStep
  <2>8. CASE DeleteStep(r)
    BY <1>1, <2>2, <2>8 DEF Grows, DeleteStep
  <2>9. CASE DieStep(r)
    BY <1>1, <2>2, <2>9 DEF Grows, DieStep, RowsSame
  <2>10. CASE RefuseStep(r) \/ StampEventStep(r) \/ StampBothStep(r)
    <3>1. clock <= clock'
      <4>1. CASE RefuseStep(r)
        BY <1>1, <4>1 DEF RefuseStep
      <4>2. CASE StampEventStep(r)
        BY <4>2 DEF StampEventStep
      <4>3. CASE StampBothStep(r)
        BY <4>3 DEF StampBothStep
      <4> QED
        BY <2>10, <4>1, <4>2, <4>3
    <3>2. RowsSame /\ LogSame
      BY <2>10 DEF RefuseStep, StampEventStep, StampBothStep
    <3> QED
      BY <2>3, <3>1, <3>2
  <2> QED
    BY <1>2, <2>4, <2>5, <2>6, <2>7, <2>8, <2>9, <2>10 DEF RequestStep
<1>3. ASSUME NEW r \in Others, SubmitStep(r), PageSame
      PROVE  Grows
  BY <1>1, <1>3 DEF Grows, SubmitStep, RowsSame, LogSame, PageSame, page
<1>4. CASE StreamStep
  <2>1. mixed' = mixed /\ received \subseteq received'
    BY <1>4 DEF StreamStep, ListsSame, ConnectStep, PollStep, CutStep, DeliverStep
  <2> QED
    BY <1>1, <1>4, <2>1 DEF Grows, StreamStep, ServerSame
<1>5. CASE PageStep
  <2>1. mixed \subseteq mixed' /\ received' = received
    <3>1. ASSUME NEW r \in Own, SubmitStep(r), SendStep(r),
                 MoveStep(r) \/ (own'[r].kind # "move" /\ UNCHANGED <<shown, mixed>>)
          PROVE  mixed \subseteq mixed' /\ received' = received
      BY <3>1 DEF SubmitStep, MoveStep
    <3>2. ASSUME NEW r \in Own, SettleStep(r), AnswerStep(r) \/ FailStep(r)
          PROVE  mixed \subseteq mixed' /\ received' = received
      BY <3>2 DEF SettleStep, AnswerStep, FailStep
    <3>3. ASSUME NEW r \in Own, DropStep(r)
          PROVE  mixed \subseteq mixed' /\ received' = received
      BY <3>3 DEF DropStep, page
    <3> QED
      BY <1>5, <3>1, <3>2, <3>3 DEF PageStep
  <2> QED
    BY <1>1, <1>5, <2>1 DEF Grows, PageStep, ServerSame
<1>6. CASE UNCHANGED vars
  BY <1>1, <1>6 DEF Grows, vars, server, page
<1> QED
  BY <1>2, <1>3, <1>4, <1>5, <1>6 DEF BoardStep, ServerStep, RequestStep

\* Only the stream's own steps move it.
LEMMA StreamCases ==
    ASSUME Types, BoardStep
    PROVE  StreamStep \/ UNCHANGED <<stream, received>>
<1>1. ASSUME NEW r \in Requests, RequestStep(r) PROVE UNCHANGED <<stream, received>>
  BY <1>1, ServerContinues DEF PageSame
<1>2. CASE PageStep
  BY <1>2 DEF PageStep, SubmitStep, SettleStep, DropStep
<1> QED
  BY <1>1, <1>2 DEF BoardStep, ServerStep, RequestStep, PageSame, vars

LEMMA TimesKept ==
    ASSUME Types, RequestsOK, TimesOK, Types', BoardStep, Grows
    PROVE  TimesOK'
<1>0. clock \in Nat /\ clock' \in Nat /\ clock <= clock' /\ stream.last \in Nat
  BY DEF Types, Grows
<1>1. \A t \in Tasks : \A c \in committed'[t] : c.upd <= clock'
  <2>1. \A t \in Tasks : \A c \in committed[t] : c.upd \in Nat /\ c.upd <= clock
    BY ContentFields DEF Types, TimesOK
  <2> QED
    BY <1>0, <2>1 DEF Grows
<1>2. \A e \in events' : e.stamp <= clock'
  <2>1. \A e \in events : e.stamp \in Nat /\ e.stamp <= clock
    BY StreamFields DEF Types, TimesOK
  <2> QED
    BY <1>0, <2>1 DEF Grows
<1>3. /\ \A e \in received : e.stamp <= clock'
      /\ \A i \in DOMAIN stream.batch : stream.batch[i].event.stamp <= clock'
                                        /\ stream.batch[i].event.stamp \in Nat
      /\ stream.last <= clock'
  <2>1. \A e \in received : e.stamp \in Nat
    BY StreamFields DEF Types
  <2>2. \A i \in DOMAIN stream.batch : stream.batch[i].event.stamp \in Nat
    BY StreamFields, ElementOfSeq, LenProperties
  <2> QED
    BY <1>0, <2>1, <2>2 DEF TimesOK
<1>4. \A r \in Requests : /\ req[r].upd \in Nat /\ req[r].stamp \in Nat
                          /\ req[r].upd <= clock' /\ req[r].stamp <= clock'
  <2>1. \A r \in Requests : req[r].upd \in Nat /\ req[r].stamp \in Nat
    BY RequestFields DEF Types
  <2> QED
    BY <1>0, <2>1 DEF TimesOK
<1>5. \A r \in Requests : req'[r].upd <= clock' /\ req'[r].stamp <= clock'
  <2>1. ASSUME NEW r \in Requests, OnlyRequest(r),
               req'[r].upd <= clock' /\ req'[r].stamp <= clock'
        PROVE  \A q \in Requests : req'[q].upd <= clock' /\ req'[q].stamp <= clock'
    BY <1>4, <2>1 DEF OnlyRequest
  <2>2. 0 <= clock'
    BY <1>0
  <2>3. ASSUME NEW r \in Requests, RequestStep(r)
        PROVE  OnlyRequest(r) /\ req'[r].upd <= clock' /\ req'[r].stamp <= clock'
    <3>0. req[r] \in RequestType /\ Sent(r) /\ OnlyRequest(r)
      BY <2>3, ServerContinues DEF Types, Continued
    <3>1. ASSUME NEW a, Ended(r, a)
          PROVE  req'[r].upd <= clock' /\ req'[r].stamp <= clock'
      BY <1>4, <2>2, <3>0, <3>1, EndedContinues
    <3>2. CASE CommitRowStep(r)
      BY <1>4, <3>0, <3>2 DEF CommitRowStep, RequestType
    <3>3. CASE StampEventStep(r)
      <4>1. ASSUME NEW s \in Nat, s <= clock',
                   req'[r] = [req[r] EXCEPT !.pc = "event", !.stamp = s,
                                            !.answer = row[req[r].task]]
            PROVE  req'[r].upd <= clock' /\ req'[r].stamp <= clock'
        <5>1. req'[r].upd = req[r].upd /\ req'[r].stamp = s
          BY <3>0, <4>1 DEF RequestType
        <5> QED
          BY <1>4, <4>1, <5>1
      <4> QED
        BY <3>0, <3>1, <3>3, <4>1 DEF StampEventStep
    <3>4. CASE StampBothStep(r)
      <4>1. PICK s \in Nat : /\ s <= clock'
                             /\ req'[r] = [req[r] EXCEPT !.pc = "both", !.upd = s, !.stamp = s]
        BY <3>4 DEF StampBothStep
      <4>2. req'[r].upd = s /\ req'[r].stamp = s
        BY <3>0, <4>1 DEF RequestType
      <4> QED
        BY <3>0, <4>1, <4>2
    <3> QED
      BY <2>3, <3>0, <3>1, <3>2, <3>3, <3>4
         DEF RequestStep, RefuseStep, CommitEventStep, CommitBothStep, SprintStep, DeleteStep,
             DieStep
  <2>4. ASSUME NEW r \in Requests, SubmitStep(r)
        PROVE  OnlyRequest(r) /\ req'[r].upd <= clock' /\ req'[r].stamp <= clock'
    BY <2>2, <2>4 DEF SubmitStep
  <2>5. ASSUME NEW r \in Requests, req'[r] = IdleRequest, OnlyRequest(r)
        PROVE  OnlyRequest(r) /\ req'[r].upd <= clock' /\ req'[r].stamp <= clock'
    BY <2>2, <2>5 DEF IdleRequest
  <2>6. CASE req' = req
    BY <1>4, <2>6
  <2>7. Own \subseteq Requests /\ Others \subseteq Requests
    BY DEF Requests
  <2>8. CASE ServerStep
    BY <2>1, <2>3, <2>4, <2>7, <2>8 DEF ServerStep, RequestStep
  <2>9. CASE StreamStep
    BY <2>6, <2>9 DEF StreamStep, ConnectStep, PollStep, CutStep, DeliverStep
  <2>10. CASE PageStep
    BY <2>1, <2>4, <2>5, <2>6, <2>7, <2>10 DEF PageStep, AnswerStep, FailStep, DropStep
  <2>11. CASE UNCHANGED vars
    BY <2>6, <2>11 DEF vars, server
  <2> QED
    BY <2>8, <2>9, <2>10, <2>11 DEF BoardStep
<1>6. stream'.last <= clock'
  <2>1. CASE stream'.last = stream.last
    BY <1>3, <2>1
  <2>2. CASE ConnectStep /\ clock' = clock
    BY <2>2 DEF ConnectStep
  <2>3. ASSUME NEW item \in Items, DeliverStep(item)
        PROVE  stream'.last <= clock'
    <3>1. item = stream.batch[1] /\ 1 \in DOMAIN stream.batch
      BY <2>3, StreamFields, TailSeq DEF DeliverStep
    <3> QED
      BY <1>3, <2>3, <3>1 DEF DeliverStep
  <2> QED
    BY <2>1, <2>2, <2>3, StreamCases DEF StreamStep, ServerSame, PollStep, CutStep
<1>7. \A i \in DOMAIN stream'.batch : stream'.batch[i].event.stamp <= clock'
  <2>1. CASE stream'.batch = stream.batch \/ stream'.batch = <<>>
    BY <1>3, <2>1
  <2>2. CASE PollStep
    <3>1. ASSUME NEW i \in DOMAIN stream'.batch PROVE stream'.batch[i].event \in events
      BY <2>2 DEF PollStep
    <3>2. \A e \in events : e.stamp <= clock'
      <4>1. \A e \in events : e.stamp \in Nat /\ e.stamp <= clock
        BY StreamFields DEF Types, TimesOK
      <4> QED
        BY <1>0, <4>1
    <3> QED
      BY <3>1, <3>2
  <2>3. ASSUME NEW item \in Items, DeliverStep(item)
        PROVE  \A i \in DOMAIN stream'.batch : stream'.batch[i].event.stamp <= clock'
    <3>1. /\ stream'.batch = Tail(stream.batch)
          /\ \A i \in DOMAIN Tail(stream.batch) :
                i + 1 \in DOMAIN stream.batch /\ Tail(stream.batch)[i] = stream.batch[i + 1]
      BY <2>3, StreamFields, TailSeq DEF DeliverStep
    <3> QED
      BY <1>3, <3>1
  <2> QED
    BY <2>1, <2>2, <2>3, StreamCases DEF StreamStep, ConnectStep, CutStep
<1>8. \A e \in received' : e.stamp <= clock'
  <2>1. CASE received' = received
    BY <1>3, <2>1
  <2>2. ASSUME NEW item \in Items, DeliverStep(item)
        PROVE  \A e \in received' : e.stamp <= clock'
    <3>1. item = stream.batch[1] /\ 1 \in DOMAIN stream.batch
      BY <2>2, StreamFields, TailSeq DEF DeliverStep
    <3> QED
      BY <1>3, <2>2, <3>1 DEF DeliverStep
  <2> QED
    BY <2>1, <2>2, StreamCases DEF StreamStep, PollStep, CutStep, ConnectStep
<1> QED
  BY <1>1, <1>2, <1>5, <1>6, <1>7, <1>8 DEF TimesOK

LEMMA WrittenRows ==
    ASSUME Types, RowsOK, NEW t \in Tasks, Exists(t) \/ row[t] = None, RowWritten(t),
           \A u \in Tasks : u # t /\ u \in unannounced => u \in unannounced'
    PROVE  RowsOK'
<1>1. PICK c \in Content :
         /\ c.ver = Version(row[t]) + 1
         /\ row' = [row EXCEPT ![t] = c]
         /\ committed' = [committed EXCEPT ![t] = @ \cup {c}]
  BY DEF RowWritten
<1>2. /\ row'[t] = c /\ committed'[t] = committed[t] \cup {c}
      /\ \A u \in Tasks : u # t => row'[u] = row[u] /\ committed'[u] = committed[u]
  BY <1>1 DEF Types
<1>3. c \notin Absent /\ c.ver \in Nat /\ Version(row[t]) \in Nat
  BY NotContent, ContentFields, ExistsContent
<1>4. \A d \in committed[t] : d.ver \in Nat /\ d.ver <= Version(row[t])
  BY ExistsContent, ContentFields DEF RowsOK, Types
<1>5. /\ \A d \in committed'[t] : d.ver <= c.ver /\ (d.ver = c.ver => d = c)
      /\ \A d \in committed'[t] : d.ver >= 1
  <2>1. c.ver >= 1
    BY <1>1, <1>3
  <2>2. \A d \in committed[t] : d.ver < c.ver /\ d.ver >= 1
    BY <1>1, <1>3, <1>4 DEF RowsOK
  <2> QED
    BY <1>2, <1>3, <1>4, <2>1, <2>2
<1>6. \A u \in Tasks : u # t =>
         /\ row'[u] = None => committed'[u] = {}
         /\ row'[u] = Gone => u \in unannounced'
         /\ row'[u] \notin Absent =>
               /\ row'[u] \in committed'[u]
               /\ \A d \in committed'[u] : /\ d.ver <= row'[u].ver
                                           /\ d.ver = row'[u].ver => d = row'[u]
         /\ \A d \in committed'[u] : d.ver >= 1
  BY <1>2 DEF RowsOK, Exists, Absent
<1> QED
  BY <1>2, <1>3, <1>5, <1>6 DEF RowsOK, Exists, Absent

LEMMA SameRows ==
    ASSUME RowsOK, RowsSame,
           \A u \in Tasks : row[u] = Gone /\ u \in unannounced => u \in unannounced'
    PROVE  RowsOK'
BY DEF RowsOK, RowsSame, Exists

\* What a step does with the rows: one is written, one is deleted, or none.
LEMMA RowCases ==
    ASSUME Types, RequestsOK, BoardStep
    PROVE  \/ \E t \in Tasks : /\ Exists(t) \/ row[t] = None
                               /\ RowWritten(t)
                               /\ \A u \in Tasks : u # t /\ u \in unannounced => u \in unannounced'
           \/ \E t \in Tasks : /\ Exists(t) /\ row' = [row EXCEPT ![t] = Gone]
                               /\ UNCHANGED committed
                               /\ unannounced' = unannounced \cup {t}
           \/ /\ RowsSame
              /\ \A u \in Tasks : row[u] = Gone /\ u \in unannounced => u \in unannounced'
<1> DEFINE R == /\ RowsSame
                /\ \A u \in Tasks : row[u] = Gone /\ u \in unannounced => u \in unannounced'
           W(t) == /\ Exists(t) \/ row[t] = None
                   /\ RowWritten(t)
                   /\ \A u \in Tasks : u # t /\ u \in unannounced => u \in unannounced'
           D(t) == /\ Exists(t) /\ row' = [row EXCEPT ![t] = Gone]
                   /\ UNCHANGED committed /\ unannounced' = unannounced \cup {t}
<1>1. ASSUME NEW r \in Requests, RequestStep(r)
      PROVE  R \/ W(req[r].task) \/ D(req[r].task)
  <2>1. CASE RowsSame /\ unannounced \subseteq unannounced'
    BY <2>1
  <2>2. CASE RefuseStep(r)
    BY <2>1, <2>2 DEF RefuseStep, LogSame
  <2>3. CASE CommitRowStep(r)
    BY <2>3 DEF CommitRowStep, LogSame
  <2>4. CASE StampEventStep(r)
    BY <2>1, <2>4 DEF StampEventStep, LogSame
  <2>5. CASE CommitEventStep(r)
    <3>1. RowsSame
      BY <2>5 DEF CommitEventStep
    <3>2. CASE Exists(req[r].task) /\ EventAdded(req[r].task)
      BY <3>1, <3>2 DEF EventAdded, Exists
    <3>3. CASE LogSame
      BY <2>1, <3>1, <3>3 DEF LogSame
    <3> QED
      BY <2>5, <3>2, <3>3 DEF CommitEventStep
  <2>6. CASE StampBothStep(r)
    BY <2>1, <2>6 DEF StampBothStep, LogSame
  <2>7. CASE CommitBothStep(r)
    <3>1. CASE Exists(req[r].task) /\ RowWritten(req[r].task) /\ EventAdded(req[r].task)
      <4>1. unannounced' = unannounced \ {req[r].task}
        BY <3>1 DEF EventAdded
      <4> QED
        BY <3>1, <4>1
    <3>2. CASE RowsSame /\ LogSame
      BY <2>1, <3>2 DEF LogSame
    <3> QED
      BY <2>7, <3>1, <3>2 DEF CommitBothStep
  <2>8. CASE SprintStep(r)
    BY <2>8 DEF SprintStep
  <2>9. CASE DeleteStep(r)
    BY <2>9 DEF DeleteStep
  <2>10. CASE DieStep(r)
    BY <2>1, <2>10 DEF DieStep
  <2> HIDE DEF R, W, D
  <2> QED
    BY <1>1, <2>2, <2>3, <2>4, <2>5, <2>6, <2>7, <2>8, <2>9, <2>10 DEF RequestStep
<1>2. \A r \in Requests : RequestStep(r) => req[r].task \in Tasks
  BY ServerContinues DEF Continued, RequestsOK
<1>3. ASSUME NEW r \in Others, SubmitStep(r)
      PROVE  R
  BY <1>3 DEF SubmitStep, LogSame
<1>4. CASE StreamStep \/ PageStep
  BY <1>4 DEF StreamStep, PageStep, ServerSame, RowsSame
<1>5. CASE UNCHANGED vars
  BY <1>5 DEF vars, server, RowsSame
<1>6. R \/ (\E t \in Tasks : W(t)) \/ (\E t \in Tasks : D(t))
  <2>1. CASE ServerStep
    <3> HIDE DEF R, W, D
    <3> QED
      BY <1>1, <1>2, <1>3, <2>1 DEF ServerStep, RequestStep
  <2> QED
    BY <1>4, <1>5, <2>1 DEF BoardStep
<1> QED
  BY <1>6

LEMMA RowsKept ==
    ASSUME Types, RequestsOK, RowsOK, BoardStep
    PROVE  RowsOK'
<1>1. ASSUME NEW t \in Tasks, row' = [row EXCEPT ![t] = Gone], UNCHANGED committed,
             unannounced' = unannounced \cup {t}
      PROVE  RowsOK'
  <2>1. row'[t] = Gone /\ \A u \in Tasks : u # t => row'[u] = row[u]
    BY <1>1 DEF Types
  <2>2. None # Gone
    BY LiveBoardAssumption
  <2> QED
    BY <1>1, <2>1, <2>2 DEF RowsOK, Exists
<1> QED
  BY <1>1, RowCases, WrittenRows, SameRows

\* A deleted task does not come back.
LEMMA GoneStays ==
    ASSUME Types, RequestsOK, BoardStep, NEW t \in Tasks, row[t] = Gone
    PROVE  row'[t] = Gone
<1>1. ASSUME NEW u \in Tasks, Exists(u) \/ row[u] = None, RowWritten(u)
      PROVE  row'[t] = Gone
  <2>1. u # t
    BY <1>1, LiveBoardAssumption DEF Exists
  <2> QED
    BY <1>1, <2>1 DEF RowWritten, Types
<1>2. ASSUME NEW u \in Tasks, row' = [row EXCEPT ![u] = Gone]
      PROVE  row'[t] = Gone
  BY <1>2 DEF Types
<1> QED
  BY <1>1, <1>2, RowCases DEF RowsSame

LEMMA AnswersKept ==
    ASSUME Types, RequestsOK, RowsOK, AnswersOK, BoardStep, Grows
    PROVE  AnswersOK'
<1>0. /\ Own \subseteq Requests /\ Others \subseteq Requests
      /\ None # Gone /\ None \in Absent /\ Gone \in Absent
  BY LiveBoardAssumption DEF Requests, Absent
<1>1. ASSUME NEW r \in Requests, req'[r] = req[r]
      PROVE  AnswerOK(r)'
  <2>1. AnswerOK(r) /\ req[r] \in RequestType
    BY DEF AnswersOK, Types
  <2>2. req[r].answer = Gone => row'[req[r].task] = Gone
    BY <1>0, <2>1, GoneStays, RequestFields DEF AnswerOK, RequestsOK, Sent
  <2>3. req[r].task \in Tasks => committed[req[r].task] \subseteq committed'[req[r].task]
    BY DEF Grows
  <2> QED
    BY <1>1, <2>1, <2>2, <2>3 DEF AnswerOK, Pending
<1>2. ASSUME NEW r \in Requests, req'[r] = IdleRequest
      PROVE  AnswerOK(r)'
  BY <1>0, <1>2 DEF AnswerOK, Pending, IdleRequest
<1>3. ASSUME NEW r \in Requests, SubmitStep(r)
      PROVE  AnswerOK(r)'
  BY <1>0, <1>3 DEF AnswerOK, Pending, SubmitStep
<1>4. ASSUME NEW r \in Requests, RequestStep(r)
      PROVE  AnswerOK(r)'
  <2>1. /\ req[r] \in RequestType /\ Sent(r) /\ AnswerOK(r) /\ req[r].task \in Tasks
        /\ committed[req[r].task] \subseteq committed'[req[r].task]
    BY <1>4, ServerContinues DEF AnswersOK, Types, Continued, RequestsOK, Grows
  <2>2. ASSUME NEW a, Ended(r, a), a \in Absent \/ a \in committed'[req[r].task],
               a \notin Absent => req[r].kind \in {"update", "create"},
               a = Gone => req[r].kind = "delete" /\ row'[req[r].task] = Gone
        PROVE  AnswerOK(r)'
    <3>1. /\ Continued(r)
          /\ req'[r].pc \in {"idle", "answered"} /\ req'[r].answer \in {None, a}
          /\ req'[r].pc = "idle" => req'[r].answer = None
      BY <2>1, <2>2, EndedContinues
    <3>2. CASE req'[r] = IdleRequest
      BY <1>2, <3>2
    <3>3. CASE req'[r].task = req[r].task /\ req'[r].kind = req[r].kind
      BY <1>0, <2>1, <2>2, <3>1, <3>3 DEF AnswerOK, Pending
    <3> QED
      BY <3>1, <3>2, <3>3 DEF Continued
  <2>3. CASE Ended(r, None)
    BY <1>0, <2>2, <2>3
  <2>4. CASE CommitRowStep(r)
    <3>1. /\ req'[r].pc = "row" /\ req'[r].kind \in {"update", "create"}
          /\ req'[r].answer = None
      BY <2>1, <2>4 DEF CommitRowStep, RequestType, AnswerOK
    <3> QED
      BY <1>0, <3>1 DEF AnswerOK, Pending
  <2>5. CASE StampEventStep(r)
    <3>1. ASSUME NEW s \in Nat, Exists(req[r].task),
                 req'[r] = [req[r] EXCEPT !.pc = "event", !.stamp = s,
                                          !.answer = row[req[r].task]]
          PROVE  AnswerOK(r)'
      <4>1. /\ req'[r].pc = "event" /\ req'[r].kind = req[r].kind
            /\ req'[r].answer = row[req[r].task] /\ req'[r].task = req[r].task
        BY <2>1, <3>1 DEF RequestType
      <4>2. req[r].kind \in {"update", "create"}
        BY <2>1, <2>5 DEF StampEventStep, AnswerOK, Pending
      <4>3. row[req[r].task] \notin Absent /\ row[req[r].task] \in committed'[req[r].task]
        BY <2>1, <3>1 DEF Exists, Absent, RowsOK
      <4> QED
        BY <1>0, <2>1, <4>1, <4>2, <4>3 DEF AnswerOK, Pending
    <3> QED
      BY <2>3, <2>5, <3>1 DEF StampEventStep
  <2>6. CASE CommitEventStep(r)
    <3>1. CASE Ended(r, req[r].answer)
      <4>1. req[r].kind \in {"update", "create"} /\ req[r].answer # Gone
        BY <2>1, <2>6 DEF CommitEventStep, AnswerOK, Pending
      <4>2. req[r].answer \in Absent \/ req[r].answer \in committed'[req[r].task]
        BY <2>1 DEF AnswerOK
      <4> QED
        BY <2>2, <3>1, <4>1, <4>2
    <3> QED
      BY <2>3, <2>6, <3>1 DEF CommitEventStep
  <2>7. CASE StampBothStep(r)
    <3>1. PICK s \in Nat : req'[r] = [req[r] EXCEPT !.pc = "both", !.upd = s, !.stamp = s]
      BY <2>7 DEF StampBothStep
    <3>2. req'[r].pc = "both" /\ req'[r].answer = None
      BY <2>1, <2>7, <3>1 DEF StampBothStep, RequestType, AnswerOK
    <3> QED
      BY <1>0, <3>2 DEF AnswerOK, Pending
  <2>8. CASE DeleteStep(r)
    <3>1. /\ Ended(r, Gone) /\ req[r].kind = "delete"
          /\ row'[req[r].task] = Gone
      BY <2>1, <2>8 DEF DeleteStep, Types
    <3> QED
      BY <1>0, <2>2, <3>1
  <2> QED
    BY <1>4, <2>3, <2>4, <2>5, <2>6, <2>7, <2>8
       DEF RequestStep, RefuseStep, CommitBothStep, SprintStep, DieStep
<1>5. ASSUME NEW r \in Requests, OnlyRequest(r), AnswerOK(r)'
      PROVE  AnswersOK'
  BY <1>1, <1>5 DEF OnlyRequest, AnswersOK
<1>6. CASE req' = req
  BY <1>1, <1>6 DEF AnswersOK
<1>7. CASE ServerStep
  <2>1. ASSUME NEW r \in Others, SubmitStep(r) PROVE AnswersOK'
    BY <1>0, <1>3, <1>5, <2>1 DEF SubmitStep
  <2>2. ASSUME NEW r \in Requests, RequestStep(r) PROVE AnswersOK'
    BY <1>4, <1>5, <2>2, ServerContinues
  <2> QED
    BY <1>7, <2>1, <2>2 DEF ServerStep, RequestStep
<1>8. CASE StreamStep
  BY <1>6, <1>8 DEF StreamStep, ConnectStep, PollStep, CutStep, DeliverStep
<1>9. CASE PageStep
  <2>1. ASSUME NEW r \in Own, SubmitStep(r) PROVE AnswersOK'
    BY <1>0, <1>3, <1>5, <2>1 DEF SubmitStep
  <2>2. ASSUME NEW r \in Own, req'[r] = IdleRequest, OnlyRequest(r) PROVE AnswersOK'
    BY <1>0, <1>2, <1>5, <2>2
  <2> QED
    BY <1>6, <1>9, <2>1, <2>2 DEF PageStep, AnswerStep, FailStep, DropStep
<1>10. CASE UNCHANGED vars
  BY <1>6, <1>10 DEF vars, server
<1> QED
  BY <1>7, <1>8, <1>9, <1>10 DEF BoardStep

\* ListOK one step later, for a list that was known before.
KnownNext(c, t) == \E d \in committed'[t] : d.upd = c.upd /\ d.ver = c.ver
ListNext(list) ==
    /\ \A t \in Tasks : \A c \in ToSet(list[t]) : KnownNext(c, t)
    /\ \A t \in Tasks : t \notin mixed' => Len(list[t]) <= 1

LEMMA ListStays ==
    ASSUME Grows, NEW list, ListOK(list)
    PROVE  ListNext(list)
BY DEF Grows, ListOK, ListNext, Known, KnownNext

\* Only the entries of t change.
LEMMA ListChanged ==
    ASSUME Grows, NEW list \in [Tasks -> Seq(Content)], ListOK(list), NEW t \in Tasks,
           NEW q, \A c \in ToSet(q) : KnownNext(c, t),
           t \notin mixed' => Len(q) <= 1
    PROVE  ListNext([list EXCEPT ![t] = q])
<1>1. /\ [list EXCEPT ![t] = q][t] = q
      /\ \A u \in Tasks : u # t => [list EXCEPT ![t] = q][u] = list[u]
  OBVIOUS
<1>2. ListNext(list)
  BY ListStays
<1> QED
  BY <1>1, <1>2 DEF ListNext

\* The entries of a task that a page's step rewrites one by one.
LEMMA EntriesReplaced ==
    ASSUME NEW q \in Seq(Content), NEW f \in [DOMAIN q -> Content]
    PROVE  /\ f \in Seq(Content) /\ Len(f) = Len(q) /\ (f = <<>> <=> q = <<>>)
           /\ DOMAIN f = DOMAIN q
           /\ ToSet(f) = {f[i] : i \in DOMAIN q}
           /\ q # <<>> => 1 \in DOMAIN q /\ Head(f) = f[1] /\ Head(q) = q[1]
<1>1. f \in Seq(Content) /\ Len(f) = Len(q) /\ (f = <<>> <=> q = <<>>) /\ DOMAIN f = DOMAIN q
  BY Replaced
<1>2. q # <<>> => 1 \in DOMAIN q /\ Head(q) = q[1]
  BY TailSeq
<1>3. f # <<>> => Head(f) = f[1]
  BY <1>1, TailSeq
<1> QED
  BY <1>1, <1>2, <1>3 DEF ToSet

\* A move gives its status to the entries of its task, and nothing else.
LEMMA MoveShows ==
    ASSUME Types, NEW r \in Own, own'[r].task \in Tasks, MoveStep(r)
    PROVE  \E f \in [DOMAIN shown[own'[r].task] -> Content] :
              /\ shown' = [shown EXCEPT ![own'[r].task] = f]
              /\ \A i \in DOMAIN f : /\ f[i].upd = shown[own'[r].task][i].upd
                                     /\ f[i].ver = shown[own'[r].task][i].ver
<1> DEFINE t == own'[r].task
<1>1. PICK s \in Statuses :
         shown' = [shown EXCEPT ![t] = [i \in DOMAIN @ |-> [@[i] EXCEPT !.status = s]]]
  BY DEF MoveStep
<1> DEFINE f == [i \in DOMAIN shown[t] |-> [shown[t][i] EXCEPT !.status = s]]
<1>2. shown' = [shown EXCEPT ![t] = f]
  BY <1>1 DEF Types
<1>3. \A i \in DOMAIN shown[t] : shown[t][i] \in Content
  BY ElementOfSeq, LenProperties DEF Types
<1>4. \A c \in Content : /\ [c EXCEPT !.status = s] \in Content
                         /\ [c EXCEPT !.status = s].upd = c.upd
                         /\ [c EXCEPT !.status = s].ver = c.ver
  BY DEF Content
<1>5. f \in [DOMAIN shown[t] -> Content] /\ DOMAIN f = DOMAIN shown[t]
  BY <1>3, <1>4
<1>6. \A i \in DOMAIN shown[t] : f[i].upd = shown[t][i].upd /\ f[i].ver = shown[t][i].ver
  BY <1>3, <1>4
<1> HIDE DEF f
<1> QED
  BY <1>2, <1>5, <1>6

\* An answer to the page leaves, of its task, the answered version or nothing,
\* and what was shown before only for a creation.
LEMMA AnswerShows ==
    ASSUME Types, RequestsOK, AnswersOK, NEW r \in Own, Waits(r), AnswerStep(r)
    PROVE  /\ own[r].task \in Tasks
           /\ \E q \in Seq(Content) :
                 /\ shown' = [shown EXCEPT ![own[r].task] = q]
                 /\ \A c \in ToSet(q) :
                       \/ c \in committed[own[r].task]
                       \/ own[r].kind = "create" /\ c \in ToSet(shown[own[r].task])
                 /\ \/ Len(q) <= 1
                    \/ own[r].task \in mixed'
                    \/ own[r].kind # "create" /\ Len(q) = Len(shown[own[r].task])
                 /\ own[r].kind = "create" /\ shown[own[r].task] # <<>> => own[r].task \in mixed'
<1> DEFINE t == own[r].task
           c == req[r].answer
<1>1. /\ r \in Requests /\ t \in Tasks /\ req[r].task = t /\ AnswerOK(r)
      /\ own[r].kind = "delete" <=> req[r].kind = "delete"
      /\ req[r] \in RequestType /\ shown[t] \in Seq(Content)
      /\ committed[t] \subseteq Content
  BY DEF RequestsOK, AnswersOK, Requests, Types
<1>2. own[r].kind # "delete" => c \in committed[t] /\ c \in Content
  <2>1. c # None
    BY DEF AnswerStep
  <2>2. own[r].kind # "delete" => c # Gone
    BY <1>1 DEF AnswerOK
  <2> QED
    BY <1>1, <2>1, <2>2 DEF AnswerOK, Absent
<1>3. CASE own[r].kind \in {"move", "save"} /\ shown' = [shown EXCEPT ![t] = [i \in DOMAIN @ |-> c]]
  <2> DEFINE q == [i \in DOMAIN shown[t] |-> c]
  <2>1. shown' = [shown EXCEPT ![t] = q]
    BY <1>1, <1>3 DEF Types
  <2>2. c \in Content /\ c \in committed[t]
    BY <1>2, <1>3
  <2>3. q \in [DOMAIN shown[t] -> Content] /\ \A i \in DOMAIN shown[t] : q[i] = c
    BY <2>2
  <2> HIDE DEF q, c
  <2>4. q \in Seq(Content) /\ Len(q) = Len(shown[t]) /\ ToSet(q) \subseteq {c}
    BY <1>1, <2>3, EntriesReplaced
  <2> QED
    BY <1>1, <1>3, <2>1, <2>2, <2>4
<1>4. CASE /\ own[r].kind = "create" /\ shown' = [shown EXCEPT ![t] = <<c>> \o @]
           /\ mixed' = IF shown[t] # <<>> THEN mixed \cup {t} ELSE mixed
  <2> DEFINE q == <<c>> \o shown[t]
  <2>1. shown' = [shown EXCEPT ![t] = q]
    BY <1>1, <1>4 DEF Types
  <2>2. c \in Content /\ c \in committed[t]
    BY <1>2, <1>4
  <2> HIDE DEF c
  <2>3. /\ <<c>> \in Seq(Content) /\ Len(<<c>>) = 1 /\ <<c>>[1] = c
        /\ Len(shown[t]) \in Nat /\ DOMAIN shown[t] = 1 .. Len(shown[t])
    BY <1>1, <2>2, LenProperties
  <2>4. /\ q \in Seq(Content) /\ Len(q) = 1 + Len(shown[t])
        /\ \A i \in 1 .. 1 + Len(shown[t]) :
              q[i] = IF i <= 1 THEN <<c>>[i] ELSE shown[t][i - 1]
    BY <1>1, <2>3, ConcatProperties
  <2> HIDE DEF q
  <2>5. DOMAIN q = 1 .. 1 + Len(shown[t])
    BY <2>3, <2>4, LenProperties
  <2>6. \A i \in 1 .. 1 + Len(shown[t]) : i = 1 \/ (~(i <= 1) /\ i - 1 \in 1 .. Len(shown[t]))
    BY <2>3
  <2>7. \A i \in DOMAIN q : q[i] = c \/ \E j \in DOMAIN shown[t] : q[i] = shown[t][j]
    <3> SUFFICES ASSUME NEW i \in 1 .. 1 + Len(shown[t])
                 PROVE  q[i] = c \/ \E j \in DOMAIN shown[t] : q[i] = shown[t][j]
      BY <2>5
    <3>1. CASE i = 1
      BY <2>3, <2>4, <3>1
    <3>2. CASE ~(i <= 1) /\ i - 1 \in 1 .. Len(shown[t])
      <4>1. q[i] = shown[t][i - 1]
        BY <2>4, <3>2
      <4> QED
        BY <2>3, <3>2, <4>1
    <3> QED
      BY <2>6, <3>1, <3>2
  <2>8. ToSet(q) \subseteq {c} \cup ToSet(shown[t])
    BY <2>7 DEF ToSet
  <2>9. shown[t] = <<>> => Len(q) <= 1
    BY <2>4
  <2> QED
    BY <1>1, <1>4, <2>1, <2>2, <2>4, <2>8, <2>9
<1>5. CASE own[r].kind = "delete" /\ shown' = [shown EXCEPT ![t] = <<>>]
  <2>1. <<>> \in Seq(Content) /\ Len(<<>>) <= 1 /\ ToSet(<<>>) = {}
    BY DEF ToSet
  <2> QED
    BY <1>1, <1>5, <2>1
<1> HIDE DEF t, c
<1>6. \/ own[r].kind \in {"move", "save"} /\ shown' = [shown EXCEPT ![t] = [i \in DOMAIN @ |-> c]]
      \/ /\ own[r].kind = "create" /\ shown' = [shown EXCEPT ![t] = <<c>> \o @]
         /\ mixed' = IF shown[t] # <<>> THEN mixed \cup {t} ELSE mixed
      \/ own[r].kind = "delete" /\ shown' = [shown EXCEPT ![t] = <<>>]
  BY DEF AnswerStep, t, c
<1> QED
  BY <1>1, <1>3, <1>4, <1>5, <1>6 DEF t

\* What the stream delivers is a version of its task.
LEMMA ItemKnown ==
    ASSUME Types, ShownOK, NEW item \in Items, DeliverStep(item)
    PROVE  /\ item.event.task \in Tasks /\ item.data \in committed[item.event.task]
           /\ 1 \in DOMAIN stream.batch /\ stream.batch[1] = item
           /\ \A i \in DOMAIN stream'.batch :
                 i + 1 \in DOMAIN stream.batch /\ stream'.batch[i] = stream.batch[i + 1]
           /\ \A i \in DOMAIN stream.batch :
                 i = 1 \/ (i - 1 \in DOMAIN stream'.batch /\ stream'.batch[i - 1] = stream.batch[i])
BY StreamFields, TailSeq DEF DeliverStep, ShownOK

LEMMA SendMoving ==
    ASSUME NEW r \in Own, SendStep(r)
    PROVE  /\ r \notin Moving /\ \A q \in Moving : own'[q] = own[q] /\ q # r
           /\ Moving' = IF own'[r].kind = "move" THEN Moving \cup {r} ELSE Moving
           /\ \A q \in Moving' : q = r \/ q \in Moving
BY DEF SendStep, Moving, Waits

LEMMA SettleMoving ==
    ASSUME Types, NEW r \in Own, SettleStep(r)
    PROVE  /\ Moving' = Moving \ {r} /\ \A q \in Moving' : own'[q] = own[q]
           /\ \A q \in Own : q # r => own'[q] = own[q]
<1>1. own'[r] = NothingSent /\ \A q \in Own : q # r => own'[q] = own[q]
  BY DEF SettleStep, Types
<1> QED
  BY <1>1 DEF Moving, NothingSent

LEMMA ShownKept ==
    ASSUME Types, RequestsOK, RowsOK, AnswersOK, ShownOK, BoardStep, Grows
    PROVE  ShownOK'
<1>1. shown \in [Tasks -> Seq(Content)] /\ ListOK(shown) /\ ListNext(shown)
  BY ListStays DEF Types, ShownOK
<1>2. \A r \in Moving : ListNext(own[r].prev)
  BY ListStays DEF ShownOK
<1>3. ASSUME ListNext(shown'), \A r \in Moving' : ListNext(own'[r].prev),
             \A i \in DOMAIN stream'.batch :
                stream'.batch[i].data \in committed'[stream'.batch[i].event.task]
      PROVE  ShownOK'
  BY <1>3 DEF ShownOK, ListOK, ListNext, Known, KnownNext
<1>4. ASSUME NEW i \in DOMAIN stream.batch
      PROVE  stream.batch[i].data \in committed'[stream.batch[i].event.task]
  <2>1. stream.batch[i].event.task \in Tasks
    BY StreamFields, ElementOfSeq, LenProperties
  <2> QED
    BY <2>1 DEF ShownOK, Grows
<1>5. \A t \in Tasks : \A c \in committed[t] : KnownNext(c, t)
  BY DEF Grows, KnownNext
<1>6. ASSUME NEW r \in Requests, PageSame
      PROVE  ShownOK'
  <2>1. shown' = shown /\ own' = own /\ stream' = stream /\ Moving' = Moving
    BY <1>6 DEF PageSame, page, Moving
  <2> QED
    BY <1>1, <1>2, <1>3, <1>4, <2>1
<1>7. CASE ServerStep
  BY <1>6, <1>7, ServerContinues DEF ServerStep, RequestStep, Requests
<1>8. CASE StreamStep
  <2>1. own' = own /\ Moving' = Moving
    BY <1>8 DEF StreamStep, ListsSame, DeliverStep, Moving
  <2>2. CASE (ConnectStep \/ PollStep \/ CutStep) /\ ListsSame
    <3>1. shown' = shown
      BY <2>2 DEF ListsSame
    <3>2. \A i \in DOMAIN stream'.batch :
             stream'.batch[i].data \in committed'[stream'.batch[i].event.task]
      <4>1. CASE PollStep
        <5> SUFFICES ASSUME NEW i \in DOMAIN stream'.batch
                     PROVE  stream'.batch[i].data \in committed'[stream'.batch[i].event.task]
          OBVIOUS
        <5> DEFINE t == stream'.batch[i].event.task
        <5>1. Exists(t) /\ t \in Tasks /\ stream'.batch[i].data = row[t]
          BY <4>1, StreamFields DEF PollStep, Types
        <5> QED
          BY <5>1 DEF RowsOK, Grows
      <4> QED
        BY <2>2, <4>1 DEF ConnectStep, CutStep
    <3> QED
      BY <1>1, <1>2, <1>3, <2>1, <3>1, <3>2
  <2>3. ASSUME NEW item \in Items, DeliverStep(item)
        PROVE  ShownOK'
    <3> DEFINE t == item.event.task
               q == Merged(shown[t], item.data)
    <3>1. t \in Tasks /\ item.data \in committed[t] /\ item.data \in Content
          /\ shown[t] \in Seq(Content)
      BY <1>1, <2>3, ItemKnown DEF DeliverStep
    <3>2. shown' = [shown EXCEPT ![t] = q]
      BY <1>1, <2>3, <3>1 DEF DeliverStep
    <3>3. /\ Len(shown[t]) <= 1 => Len(q) <= 1
          /\ ToSet(q) \subseteq {item.data} \cup ToSet(shown[t])
      <4>1. item.data \in Content /\ shown[t] \in Seq(Content)
        BY <3>1
      <4> QED
        BY <4>1, MergedContent, Zenon
    <3>4. /\ \A c \in ToSet(q) : KnownNext(c, t)
          /\ t \notin mixed' => Len(q) <= 1
      BY <1>1, <1>5, <3>1, <3>3 DEF ListNext
    <3> HIDE DEF t, q
    <3>5. ListNext(shown')
      BY <1>1, <3>1, <3>2, <3>4, ListChanged
    <3>6. \A i \in DOMAIN stream'.batch :
             stream'.batch[i].data \in committed'[stream'.batch[i].event.task]
      BY <1>4, <2>3, ItemKnown
    <3> QED
      BY <1>2, <1>3, <2>1, <3>5, <3>6
  <2> QED
    BY <1>8, <2>2, <2>3 DEF StreamStep
<1>9. ASSUME NEW r \in Own, SubmitStep(r), SendStep(r),
             MoveStep(r) \/ (own'[r].kind # "move" /\ UNCHANGED <<shown, mixed>>)
      PROVE  ShownOK'
  <2>1. stream' = stream
    BY <1>9 DEF SubmitStep
  <2>2. \A q \in Moving' : q # r => ListNext(own'[q].prev)
    BY <1>2, <1>9, SendMoving
  <2>3. CASE MoveStep(r)
    <3> DEFINE t == own'[r].task
    <3>1. t \in Tasks
      BY <1>9 DEF SubmitStep, SendStep
    <3>2. PICK f \in [DOMAIN shown[t] -> Content] :
              /\ shown' = [shown EXCEPT ![t] = f]
              /\ \A i \in DOMAIN f : f[i].upd = shown[t][i].upd /\ f[i].ver = shown[t][i].ver
      BY <2>3, <3>1, MoveShows
    <3> HIDE DEF t
    <3>3. /\ Len(f) = Len(shown[t]) /\ ToSet(f) = {f[i] : i \in DOMAIN shown[t]}
          /\ DOMAIN f = DOMAIN shown[t]
      BY <1>1, <3>1, EntriesReplaced
    <3>4. \A c \in ToSet(f) : KnownNext(c, t)
      <4>1. \A i \in DOMAIN shown[t] : KnownNext(shown[t][i], t)
        BY <1>1, <3>1 DEF ListNext, ToSet
      <4> QED
        BY <3>2, <3>3, <4>1 DEF KnownNext
    <3>5. t \notin mixed' => Len(f) <= 1
      BY <1>1, <3>1, <3>3 DEF ListNext
    <3>6. ListNext(shown')
      BY <1>1, <3>1, <3>2, <3>4, <3>5, ListChanged
    <3>7. own'[r].prev = shown
      BY <2>3 DEF MoveStep
    <3> QED
      BY <1>1, <1>3, <1>4, <2>1, <2>2, <3>6, <3>7
  <2>4. CASE own'[r].kind # "move" /\ UNCHANGED <<shown, mixed>>
    <3>1. r \notin Moving'
      BY <2>4 DEF Moving
    <3> QED
      BY <1>1, <1>3, <1>4, <2>1, <2>2, <2>4, <3>1
  <2> QED
    BY <1>9, <2>3, <2>4
<1>10. ASSUME NEW r \in Own, SettleStep(r), AnswerStep(r) \/ FailStep(r)
       PROVE  ShownOK'
  <2>1. stream' = stream /\ Waits(r)
    BY <1>10 DEF SettleStep
  <2>2. \A q \in Moving' : ListNext(own'[q].prev)
    BY <1>2, <1>10, SettleMoving
  <2>3. CASE AnswerStep(r)
    <3> DEFINE t == own[r].task
    <3>1. t \in Tasks
      BY <2>1, <2>3, AnswerShows
    <3>2. PICK q \in Seq(Content) :
             /\ shown' = [shown EXCEPT ![t] = q]
             /\ \A c \in ToSet(q) : c \in committed[t] \/ c \in ToSet(shown[t])
             /\ Len(q) <= 1 \/ t \in mixed' \/ Len(q) = Len(shown[t])
      BY <2>1, <2>3, AnswerShows
    <3> HIDE DEF t
    <3>3. /\ \A c \in ToSet(q) : KnownNext(c, t)
          /\ t \notin mixed' => Len(q) <= 1
      BY <1>1, <1>5, <3>1, <3>2 DEF ListNext
    <3>4. ListNext(shown')
      BY <1>1, <3>1, <3>2, <3>3, ListChanged
    <3> QED
      BY <1>3, <1>4, <2>1, <2>2, <3>4
  <2>4. CASE FailStep(r)
    <3>1. ListNext(shown')
      BY <1>1, <1>2, <2>4 DEF FailStep, Moving
    <3> QED
      BY <1>3, <1>4, <2>1, <2>2, <3>1
  <2> QED
    BY <1>10, <2>3, <2>4
<1>11. ASSUME NEW r \in Own, DropStep(r)
       PROVE  ShownOK'
  BY <1>6, <1>11 DEF DropStep, PageSame, Requests
<1>12. CASE UNCHANGED vars
  <2>1. shown' = shown /\ own' = own /\ stream' = stream /\ Moving' = Moving
    BY <1>12 DEF vars, page, Moving
  <2> QED
    BY <1>1, <1>2, <1>3, <1>4, <2>1
<1> QED
  BY <1>7, <1>8, <1>9, <1>10, <1>11, <1>12 DEF BoardStep, PageStep

\* MovesOK one step later: what is shown are committed versions, but for tasks
\* that are moved or mixed.
CleanNext(list, t) == t \in mixed' \/ ToSet(list[t]) \subseteq committed'[t]

LEMMA MovesKept ==
    ASSUME Types, RequestsOK, AnswersOK, ShownOK, MovesOK, BoardStep, Grows
    PROVE  MovesOK'
<1>1. shown \in [Tasks -> Seq(Content)]
  BY DEF Types
<1>2. ASSUME \A r, q \in Moving' : r # q => own'[r].task \in mixed' /\ own'[q].task \in mixed',
             \A t \in Tasks : (\A r \in Moving' : own'[r].task # t) => CleanNext(shown', t),
             \A r \in Moving' : \A t \in Tasks : CleanNext(own'[r].prev, t)
      PROVE  MovesOK'
  BY <1>2 DEF MovesOK, CleanNext
<1>3. \A t \in Tasks : (\A r \in Moving : own[r].task # t) => CleanNext(shown, t)
  BY DEF MovesOK, Grows, CleanNext
<1>4. \A r \in Moving : \A t \in Tasks : CleanNext(own[r].prev, t)
  BY DEF MovesOK, Grows, CleanNext
<1>5. \A r, q \in Moving : r # q => own[r].task \in mixed' /\ own[q].task \in mixed'
  BY DEF MovesOK, Grows
<1>6. CASE own' = own /\ shown' = shown
  <2>1. Moving' = Moving
    BY <1>6 DEF Moving
  <2> QED
    BY <1>2, <1>3, <1>4, <1>5, <1>6, <2>1
<1>7. CASE ServerStep
  <2>1. PageSame
    BY <1>7, ServerContinues DEF ServerStep, RequestStep
  <2> QED
    BY <1>6, <2>1 DEF PageSame, page
<1>8. CASE StreamStep
  <2>1. CASE ListsSame
    BY <1>6, <2>1 DEF ListsSame
  <2>2. ASSUME NEW item \in Items, DeliverStep(item)
        PROVE  MovesOK'
    <3> DEFINE t == item.event.task
               q == Merged(shown[t], item.data)
    <3>1. t \in Tasks /\ item.data \in committed[t] /\ item.data \in Content
          /\ shown[t] \in Seq(Content) /\ committed[t] \subseteq committed'[t]
      BY <1>1, <2>2, ItemKnown DEF DeliverStep, Grows
    <3>2. shown' = [shown EXCEPT ![t] = q]
      BY <1>1, <2>2, <3>1 DEF DeliverStep
    <3>3. ToSet(q) \subseteq {item.data} \cup ToSet(shown[t])
      <4>1. item.data \in Content /\ shown[t] \in Seq(Content)
        BY <3>1
      <4> QED
        BY <4>1, MergedContent, Zenon
    <3>4. own' = own /\ Moving' = Moving
      BY <2>2 DEF DeliverStep, Moving
    <3> HIDE DEF t, q
    <3>5. \A u \in Tasks : CleanNext(shown, u) => CleanNext(shown', u)
      <4>1. CleanNext(shown, t) => CleanNext(shown', t)
        BY <1>1, <3>1, <3>2, <3>3 DEF CleanNext
      <4>2. \A u \in Tasks : u # t => shown'[u] = shown[u]
        BY <1>1, <3>2
      <4> QED
        BY <4>1, <4>2 DEF CleanNext
    <3> QED
      BY <1>2, <1>3, <1>4, <1>5, <3>4, <3>5
  <2> QED
    BY <1>8, <2>1, <2>2 DEF StreamStep
<1>9. ASSUME NEW r \in Own, SubmitStep(r), SendStep(r), MoveStep(r)
      PROVE  MovesOK'
  <2> DEFINE t == own'[r].task
  <2>1. t \in Tasks
    BY <1>9 DEF SubmitStep, SendStep
  <2>2. /\ r \notin Moving /\ \A q \in Moving : own'[q] = own[q] /\ q # r
        /\ Moving' = Moving \cup {r} /\ own'[r].prev = shown
    BY <1>9, SendMoving DEF MoveStep
  <2>3. mixed' = IF Moving = {} THEN mixed ELSE mixed \cup {t} \cup {own[q].task : q \in Moving}
    BY <1>9 DEF MoveStep
  <2>4. \A u \in Tasks : u # t => shown'[u] = shown[u]
    BY <1>1, <1>9 DEF MoveStep
  <2> HIDE DEF t
  <2>5. \A q \in Moving : own[q].task \in mixed' /\ t \in mixed'
    BY <2>3
  <2>6. \A u \in Tasks : CleanNext(shown, u)
    BY <1>3, <2>5 DEF CleanNext
  <2>7. \A u \in Tasks : u # t => CleanNext(shown', u)
    BY <2>4, <2>6 DEF CleanNext
  <2>8. \A p, q \in Moving' : p # q => own'[p].task \in mixed' /\ own'[q].task \in mixed'
    BY <1>5, <2>2, <2>5 DEF t
  <2>9. \A q \in Moving' : \A u \in Tasks : CleanNext(own'[q].prev, u)
    BY <1>4, <2>2, <2>6
  <2>10. \A u \in Tasks : (\A q \in Moving' : own'[q].task # u) => CleanNext(shown', u)
    BY <2>2, <2>7 DEF t
  <2> QED
    BY <1>2, <2>8, <2>9, <2>10
<1>10. ASSUME NEW r \in Own, SendStep(r), own'[r].kind # "move", UNCHANGED <<shown, mixed>>
       PROVE  MovesOK'
  <2>1. Moving' = Moving /\ \A q \in Moving : own'[q] = own[q]
    BY <1>10, SendMoving
  <2> QED
    BY <1>2, <1>3, <1>4, <1>5, <1>10, <2>1
<1>11. ASSUME NEW r \in Own, SettleStep(r), AnswerStep(r) \/ FailStep(r)
       PROVE  MovesOK'
  <2>1. /\ Moving' = Moving \ {r} /\ \A q \in Moving' : own'[q] = own[q]
        /\ Waits(r)
    BY <1>11, SettleMoving DEF SettleStep
  <2>2. ASSUME \A u \in Tasks : (\A q \in Moving' : own'[q].task # u) => CleanNext(shown', u)
        PROVE  MovesOK'
    BY <1>2, <1>4, <1>5, <2>1, <2>2
  <2>3. CASE AnswerStep(r)
    <3> DEFINE t == own[r].task
    <3>1. t \in Tasks /\ committed[t] \subseteq committed'[t]
      BY <2>1, <2>3, AnswerShows DEF Grows
    <3>2. PICK q \in Seq(Content) :
             /\ shown' = [shown EXCEPT ![t] = q]
             /\ \A c \in ToSet(q) : c \in committed[t]
                                    \/ (own[r].kind = "create" /\ c \in ToSet(shown[t]))
             /\ own[r].kind = "create" /\ shown[t] # <<>> => t \in mixed'
      BY <2>1, <2>3, AnswerShows
    <3> HIDE DEF t
    <3>3. CleanNext(shown', t)
      <4>1. shown'[t] = q
        BY <1>1, <3>1, <3>2
      <4>2. CASE t \in mixed'
        BY <4>2 DEF CleanNext
      <4>3. CASE own[r].kind # "create"
        BY <3>1, <3>2, <4>1, <4>3 DEF CleanNext
      <4>4. CASE shown[t] = <<>>
        <5>1. ToSet(shown[t]) = {}
          BY <4>4 DEF ToSet
        <5> QED
          BY <3>1, <3>2, <4>1, <5>1 DEF CleanNext
      <4> QED
        BY <3>2, <4>2, <4>3, <4>4
    <3>4. ASSUME NEW u \in Tasks, \A q1 \in Moving' : own'[q1].task # u, u # t
          PROVE  CleanNext(shown', u)
      <4>1. \A q1 \in Moving : own[q1].task # u
        BY <2>1, <3>4 DEF t
      <4>2. shown'[u] = shown[u]
        BY <1>1, <3>2, <3>4
      <4> QED
        BY <1>3, <4>1, <4>2 DEF CleanNext
    <3> QED
      BY <2>2, <3>3, <3>4
  <2>4. CASE FailStep(r) /\ r \in Moving
    <3>1. shown' = own[r].prev
      BY <2>4 DEF FailStep, Moving
    <3> QED
      BY <1>4, <2>2, <2>4, <3>1
  <2>5. CASE FailStep(r) /\ r \notin Moving
    <3>1. shown' = shown /\ Moving' = Moving
      BY <2>1, <2>5 DEF FailStep, Moving
    <3> QED
      BY <1>3, <2>1, <2>2, <3>1
  <2> QED
    BY <1>11, <2>3, <2>4, <2>5
<1>12. ASSUME NEW r \in Own, DropStep(r)
       PROVE  MovesOK'
  BY <1>6, <1>12 DEF DropStep, page
<1>13. CASE UNCHANGED vars
  BY <1>6, <1>13 DEF vars, page
<1> QED
  BY <1>7, <1>8, <1>9, <1>10, <1>11, <1>12, <1>13 DEF BoardStep, PageStep

LEMMA IdsKept ==
    ASSUME Types, IdsOK, BoardStep, Grows, ShownOK
    PROVE  IdsOK'
<1>1. /\ count.events \in Nat
      /\ \A e \in events \cup received : e.id \in Nat /\ e.id <= count.events
      /\ \A i \in DOMAIN stream.batch : stream.batch[i].event.id \in Nat
                                        /\ stream.batch[i].event.id <= count.events
  <2>1. \A e \in events \cup received : e.id \in Nat
    BY StreamFields DEF Types
  <2>2. \A i \in DOMAIN stream.batch : stream.batch[i].event.id \in Nat
    BY StreamFields, ElementOfSeq, LenProperties
  <2> QED
    BY <2>1, <2>2 DEF IdsOK, Types
<1> DEFINE old == events \cup received
           b == stream.batch
<1>2. \A e \in events' : e \in events \/ (e.id = count'.events /\ count'.events = count.events + 1)
  BY DEF Grows
<1>3. /\ count'.events \in Nat /\ count'.events >= count.events
      /\ \A e \in old : e.id <= count'.events
      /\ \A i \in DOMAIN b : b[i].event.id <= count'.events
      /\ \A e \in events' : e.id <= count'.events
      /\ \A e \in events' : e \in old \/ (\A d \in old : d.id # e.id)
      /\ \A e \in events' : e \in old \/ (\A i \in DOMAIN b : b[i].event.id # e.id)
  <2>1. count'.events \in Nat /\ count'.events >= count.events
    BY <1>1 DEF Grows
  <2> QED
    BY <1>1, <1>2, <2>1
<1>4. \A d, e \in events' : d = e \/ d \in events \/ e \in events
  BY DEF Grows
<1>5. /\ \A d, e \in old : d.id = e.id => d = e
      /\ \A i \in DOMAIN b : \A e \in old : e.id = b[i].event.id => e = b[i].event
      /\ \A i, j \in DOMAIN b : b[i].event.id = b[j].event.id => b[i].event = b[j].event
      /\ \A n \in stream.seen : \E d \in received : d.id = n
  BY DEF IdsOK
\* Nothing that was committed or is under way bears the id of another.
<1> DEFINE all == old \cup events' \cup {b[i].event : i \in DOMAIN b}
<1>6. /\ \A e \in all : e.id <= count'.events
      /\ \A d, e \in all : d.id = e.id => d = e
  <2>1. \A e \in all : e \in old \/ e \in events' \/ \E i \in DOMAIN b : e = b[i].event
    OBVIOUS
  <2>2. ASSUME NEW d \in all, NEW e \in all, d.id = e.id PROVE d = e
    <3>1. CASE d \in old /\ e \in old
      BY <1>5, <2>2, <3>1
    <3>2. CASE d \in events' /\ d \notin old
      BY <1>3, <1>4, <2>1, <2>2, <3>2
    <3>3. CASE e \in events' /\ e \notin old
      BY <1>3, <1>4, <2>1, <2>2, <3>3
    <3>4. ASSUME NEW i \in DOMAIN b, d = b[i].event, e \in old \/ \E j \in DOMAIN b : e = b[j].event
          PROVE  d = e
      BY <1>5, <2>2, <3>4
    <3>5. ASSUME NEW i \in DOMAIN b, e = b[i].event, d \in old \/ \E j \in DOMAIN b : d = b[j].event
          PROVE  d = e
      BY <1>5, <2>2, <3>5
    <3> HIDE DEF all, old, b
    <3> QED
      BY <2>1, <3>1, <3>2, <3>3, <3>4, <3>5
  <2> QED
    BY <1>3, <2>1, <2>2
<1>7. ASSUME received' \subseteq all,
             \A i \in DOMAIN stream'.batch : stream'.batch[i].event \in all,
             \A n \in stream'.seen : \E d \in received' : d.id = n
      PROVE  IdsOK'
  <2>1. events' \cup received' \subseteq all
    BY <1>7
  <2> HIDE DEF all
  <2> QED
    BY <1>6, <1>7, <2>1 DEF IdsOK
<1>8. received \subseteq all /\ events \subseteq all /\ \A i \in DOMAIN b : b[i].event \in all
  OBVIOUS
<1> HIDE DEF all
<1>9. CASE UNCHANGED <<stream, received>>
  BY <1>5, <1>7, <1>8, <1>9
<1>10. CASE ConnectStep \/ PollStep \/ CutStep
  <2>1. received' = received /\ \A i \in DOMAIN stream'.batch : stream'.batch[i].event \in events
    BY <1>10 DEF ConnectStep, PollStep, CutStep
  <2>2. \A n \in stream'.seen : n \in stream.seen
    BY <1>10 DEF ConnectStep, PollStep, CutStep
  <2> QED
    BY <1>5, <1>7, <1>8, <2>1, <2>2
<1>11. ASSUME NEW item \in Items, DeliverStep(item)
       PROVE  IdsOK'
  <2>1. /\ item.event \in all
        /\ \A i \in DOMAIN stream'.batch : stream'.batch[i].event \in all
    BY <1>8, <1>11, ItemKnown
  <2>2. /\ received' = received \cup {item.event}
        /\ stream'.seen = stream.seen \cup {item.event.id}
    BY <1>11 DEF DeliverStep
  <2> QED
    BY <1>5, <1>7, <1>8, <2>1, <2>2
<1> QED
  BY <1>9, <1>10, <1>11, StreamCases DEF StreamStep

LEMMA LastKept ==
    ASSUME Types, ShownOK, LastOK, BoardStep, Grows
    PROVE  LastOK'
<1>1. CASE stream'.last = stream.last /\ stream'.blank = stream.blank
  BY <1>1 DEF LastOK, Grows
<1>2. CASE ConnectStep
  <2>1. ASSUME NEW t \in Tasks, NEW c \in ToSet(shown[t]), Floor(c.upd) = stream'.last
        PROVE  LastOK'
    <3>1. PICK d \in committed[t] : d.upd = c.upd
      BY DEF ShownOK, ListOK, Known
    <3>2. d \in committed'[t] /\ Floor(d.upd) = stream'.last
      BY <2>1, <3>1 DEF Grows
    <3> QED
      BY <3>2 DEF LastOK
  <2>2. CASE stream'.blank
    BY <2>2 DEF LastOK
  <2> QED
    BY <1>2, <2>1, <2>2 DEF ConnectStep
<1>3. ASSUME NEW item \in Items, DeliverStep(item)
      PROVE  LastOK'
  <2>1. stream'.last = item.event.stamp => LastOK'
    BY <1>3 DEF LastOK, DeliverStep
  <2> QED
    BY <1>1, <1>3, <2>1 DEF DeliverStep
<1> QED
  BY <1>1, <1>2, <1>3, StreamCases DEF StreamStep, PollStep, CutStep

\* What a step means for a task that exists after it: its change is without an
\* event, or still being recorded, or was recorded just now; or the row is what
\* it was, and nothing was open.
RecordedNow(t) ==
    \E e \in events' : e.task = t /\ e.id = count'.events /\ count'.events = count.events + 1
Untouched(t) ==
    /\ row'[t] = row[t] /\ t \notin unannounced /\ ~Unrecorded(t)
    /\ \A e \in events : e.task = t => e \in events'
Effect(t) == \/ ~Exists(t)' \/ t \in unannounced' \/ Unrecorded(t)' \/ RecordedNow(t)
             \/ Untouched(t)

LEMMA ServerEffect ==
    ASSUME Types, RequestsOK, NEW r \in Requests, RequestStep(r), NEW t \in Tasks
    PROVE  Effect(t)
<1> DEFINE u == req[r].task
<1>1. Continued(r) /\ OnlyRequest(r) /\ u \in Tasks /\ req[r] \in RequestType
  BY ServerContinues DEF Continued, RequestsOK, Types
<1>2. CASE Pending(r)' /\ req'[r].task = t
  BY <1>2 DEF Effect, Unrecorded
\* Other requests stay what they are.
<1>3. ASSUME Unrecorded(t), ~Unrecorded(t)'
      PROVE  Pending(r) /\ u = t
  BY <1>1, <1>3 DEF Unrecorded, OnlyRequest, Pending
<1>4. CASE /\ row'[t] = row[t] /\ (t \in unannounced => t \in unannounced')
           /\ ~(Pending(r) /\ u = t)
           /\ \A e \in events : e.task = t => e \in events'
  BY <1>3, <1>4 DEF Effect, Untouched
<1>5. ASSUME EventAdded(u), u = t PROVE Effect(t)
  <2>1. RecordedNow(t)
    BY <1>5 DEF EventAdded, RecordedNow
  <2> QED
    BY <2>1 DEF Effect
<1>6. ASSUME EventAdded(u), u # t
      PROVE  /\ t \in unannounced => t \in unannounced'
             /\ \A e \in events : e.task = t => e \in events'
  BY <1>6 DEF EventAdded
<1>7. ASSUME RowWritten(u), u # t PROVE row'[t] = row[t]
  BY <1>7 DEF RowWritten, Types
<1>8. RowsSame => row'[t] = row[t]
  BY DEF RowsSame
<1>9. LogSame => /\ t \in unannounced => t \in unannounced'
                 /\ \A e \in events : e.task = t => e \in events'
  BY DEF LogSame
<1>10. ASSUME row'[t] = row[t], ~Exists(u), u = t PROVE Effect(t)
  BY <1>10 DEF Effect, Exists
<1>11. CASE RefuseStep(r)
  <2>1. ~Pending(r)
    BY <1>11 DEF RefuseStep, Pending
  <2> QED
    BY <1>4, <1>8, <1>9, <1>11, <2>1 DEF RefuseStep
<1>12. CASE CommitRowStep(r)
  <2>1. Pending(r)' /\ req'[r].task = u
    BY <1>1, <1>12 DEF CommitRowStep, Pending, RequestType
  <2>2. RowWritten(u) /\ LogSame
    BY <1>12 DEF CommitRowStep
  <2>3. CASE u = t
    BY <1>2, <2>1, <2>3
  <2>4. CASE u # t
    BY <1>4, <1>7, <1>9, <2>2, <2>4
  <2> QED
    BY <2>3, <2>4
<1>13. CASE StampEventStep(r)
  <2>1. RowsSame /\ LogSame
    BY <1>13 DEF StampEventStep
  <2>2. CASE u # t
    BY <1>4, <1>8, <1>9, <2>1, <2>2
  <2>3. CASE u = t /\ ~Exists(u)
    BY <1>8, <1>10, <2>1, <2>3
  <2>4. CASE u = t /\ Exists(u)
    <3>1. PICK s \in Nat : req'[r] = [req[r] EXCEPT !.pc = "event", !.stamp = s,
                                                    !.answer = row[req[r].task]]
      BY <1>13, <2>4 DEF StampEventStep
    <3>2. req'[r].pc = "event" /\ req'[r].task = u
      BY <1>1, <3>1 DEF RequestType
    <3> QED
      BY <1>2, <2>4, <3>2 DEF Pending
  <2> QED
    BY <2>2, <2>3, <2>4
<1>14. CASE CommitEventStep(r)
  <2>1. RowsSame
    BY <1>14 DEF CommitEventStep
  <2>2. CASE EventAdded(u)
    BY <1>4, <1>5, <1>6, <1>8, <2>1, <2>2
  <2>3. CASE ~Exists(u) /\ LogSame
    BY <1>4, <1>8, <1>9, <1>10, <2>1, <2>3
  <2> QED
    BY <1>14, <2>2, <2>3 DEF CommitEventStep
<1>15. CASE StampBothStep(r)
  <2>1. ~Pending(r) /\ RowsSame /\ LogSame
    BY <1>15 DEF StampBothStep, Pending
  <2> QED
    BY <1>4, <1>8, <1>9, <2>1
<1>16. CASE CommitBothStep(r)
  <2>1. ~Pending(r)
    BY <1>16 DEF CommitBothStep, Pending
  <2>2. CASE RowWritten(u) /\ EventAdded(u)
    BY <1>4, <1>5, <1>6, <1>7, <2>1, <2>2
  <2>3. CASE RowsSame /\ LogSame
    BY <1>4, <1>8, <1>9, <2>1, <2>3
  <2> QED
    BY <1>16, <2>2, <2>3 DEF CommitBothStep
<1>17. CASE SprintStep(r)
  <2>1. RowWritten(u) /\ unannounced' = unannounced \cup {u} /\ events' = events
    BY <1>17 DEF SprintStep
  <2>2. CASE u = t
    BY <2>1, <2>2 DEF Effect
  <2>3. CASE u # t
    BY <1>4, <1>7, <2>1, <2>3
  <2> QED
    BY <2>2, <2>3
<1>18. CASE DeleteStep(r)
  <2>1. /\ row' = [row EXCEPT ![u] = Gone] /\ unannounced' = unannounced \cup {u}
        /\ events' = {e \in events : e.task # u}
    BY <1>18 DEF DeleteStep
  <2>2. CASE u = t
    BY <2>1, <2>2 DEF Effect
  <2>3. CASE u # t
    <3>1. row'[t] = row[t]
      BY <2>1, <2>3 DEF Types
    <3> QED
      BY <1>4, <2>1, <2>3, <3>1
  <2> QED
    BY <2>2, <2>3
<1>19. CASE DieStep(r)
  <2>1. RowsSame /\ unannounced' = unannounced \cup {u} /\ events' = events
    BY <1>19 DEF DieStep
  <2>2. CASE u = t
    BY <2>1, <2>2 DEF Effect
  <2>3. CASE u # t
    BY <1>4, <1>8, <2>1, <2>3
  <2> QED
    BY <2>2, <2>3
<1> QED
  BY <1>11, <1>12, <1>13, <1>14, <1>15, <1>16, <1>17, <1>18, <1>19 DEF RequestStep

\* A request that is sent, or whose answer is taken, was recording nothing.
LEMMA OtherEffect ==
    ASSUME NEW r \in Requests, ~Pending(r), OnlyRequest(r), row' = row,
           unannounced' = unannounced, events' = events, NEW t \in Tasks
    PROVE  Effect(t)
<1>1. Unrecorded(t) => Unrecorded(t)'
  BY DEF Unrecorded, OnlyRequest, Pending
<1> QED
  BY <1>1 DEF Effect, Untouched

LEMMA EveryEffect ==
    ASSUME Types, RequestsOK, BoardStep, NEW t \in Tasks
    PROVE  Effect(t)
<1>1. Own \subseteq Requests /\ Others \subseteq Requests
  BY DEF Requests
<1>2. CASE req' = req /\ row' = row /\ unannounced' = unannounced /\ events' = events
  <2>1. Unrecorded(t) => Unrecorded(t)'
    BY <1>2 DEF Unrecorded, Pending
  <2> QED
    BY <1>2, <2>1 DEF Effect, Untouched
<1>3. ASSUME NEW r \in Requests, SubmitStep(r)
      PROVE  Effect(t)
  BY <1>3, OtherEffect DEF SubmitStep, RowsSame, LogSame, Pending
<1>4. CASE ServerStep
  BY <1>1, <1>3, <1>4, ServerEffect DEF ServerStep, RequestStep
<1>5. CASE StreamStep
  BY <1>2, <1>5 DEF StreamStep, ServerSame, ConnectStep, PollStep, CutStep, DeliverStep
<1>6. CASE PageStep
  <2>1. ASSUME NEW r \in Requests, OnlyRequest(r), req[r].pc = "answered"
        PROVE  Effect(t)
    BY <1>6, <2>1, OtherEffect DEF PageStep, ServerSame, Pending
  <2> QED
    BY <1>1, <1>2, <1>3, <1>6, <2>1 DEF PageStep, ServerSame, AnswerStep, FailStep, DropStep
<1>7. CASE UNCHANGED vars
  BY <1>2, <1>7 DEF vars, server
<1> QED
  BY <1>4, <1>5, <1>6, <1>7 DEF BoardStep

\* The displayed version is one of the task's versions, or 0.
LEMMA VersionBound ==
    ASSUME NEW q \in Seq(Content), NEW C \in SUBSET Content, NEW v \in Nat,
           \A c \in ToSet(q) : \E d \in C : d.ver = c.ver,
           \A d \in C : d.ver <= v
    PROVE  q # <<>> => /\ Head(q) \in Content /\ Version(Head(q)) = Head(q).ver
                       /\ Head(q).ver \in Nat /\ Head(q).ver <= v
<1> SUFFICES ASSUME q # <<>>
             PROVE  /\ Head(q) \in Content /\ Version(Head(q)) = Head(q).ver
                    /\ Head(q).ver \in Nat /\ Head(q).ver <= v
  OBVIOUS
<1>1. Head(q) \in Content /\ Head(q) \in ToSet(q)
  BY HeadShown
<1>2. Version(Head(q)) = Head(q).ver /\ Head(q).ver \in Nat
  BY <1>1, NotContent, ContentFields DEF Version, Absent
<1> QED
  BY <1>1, <1>2

LEMMA ShownVersions ==
    ASSUME Types, RowsOK, ShownOK, NEW t \in Tasks
    PROVE  /\ ShownVersion(shown, t) \in Nat
           /\ Exists(t) => row[t].ver \in Nat /\ ShownVersion(shown, t) <= row[t].ver
<1>1. shown[t] \in Seq(Content) /\ committed[t] \in SUBSET Content
  BY DEF Types
<1>2. \A c \in ToSet(shown[t]) : \E d \in committed[t] : d.ver = c.ver
  BY DEF ShownOK, ListOK, Known
<1>3. ShownVersion(shown, t) \in Nat
  <2>1. shown[t] # <<>> => Head(shown[t]) \in Content
    BY <1>1, HeadShown
  <2> QED
    BY <2>1, NotContent, ContentFields DEF ShownVersion, Version, Absent
<1>4. ASSUME Exists(t) PROVE row[t].ver \in Nat /\ ShownVersion(shown, t) <= row[t].ver
  <2>1. row[t].ver \in Nat /\ \A d \in committed[t] : d.ver <= row[t].ver
    BY <1>4, ExistsContent, ContentFields DEF RowsOK
  <2>2. shown[t] # <<>> => ShownVersion(shown, t) <= row[t].ver
    BY <1>1, <1>2, <2>1, VersionBound DEF ShownVersion
  <2>3. shown[t] = <<>> => ShownVersion(shown, t) = 0
    BY DEF ShownVersion
  <2> QED
    BY <2>1, <2>2, <2>3
<1> QED
  BY <1>3, <1>4

\* The same one step later.
LEMMA ShownVersionsNext ==
    ASSUME Types', RowsOK', ShownOK', NEW t \in Tasks
    PROVE  /\ ShownVersion(shown', t) \in Nat
           /\ row'[t] \notin {None, Gone} =>
                 row'[t].ver \in Nat /\ ShownVersion(shown', t) <= row'[t].ver
<1>1. shown'[t] \in Seq(Content) /\ committed'[t] \in SUBSET Content
  BY DEF Types
<1>2. \A c \in ToSet(shown'[t]) : \E d \in committed'[t] : d.ver = c.ver
  BY DEF ShownOK, ListOK, Known
<1>3. ShownVersion(shown', t) \in Nat
  <2>1. shown'[t] # <<>> => Head(shown'[t]) \in Content
    BY <1>1, HeadShown
  <2> QED
    BY <2>1, NotContent, ContentFields DEF ShownVersion, Version, Absent
<1>4. ASSUME row'[t] \notin {None, Gone}
      PROVE  row'[t].ver \in Nat /\ ShownVersion(shown', t) <= row'[t].ver
  <2>1. row'[t] \in Content
    BY <1>4 DEF Types, Absent
  <2>2. row'[t].ver \in Nat /\ \A d \in committed'[t] : d.ver <= row'[t].ver
    BY <1>4, <2>1, ContentFields DEF RowsOK, Exists
  <2>3. shown'[t] # <<>> => ShownVersion(shown', t) <= row'[t].ver
    BY <1>1, <1>2, <2>2, VersionBound DEF ShownVersion
  <2>4. shown'[t] = <<>> => ShownVersion(shown', t) = 0
    BY DEF ShownVersion
  <2> QED
    BY <2>2, <2>3, <2>4
<1> QED
  BY <1>3, <1>4

\* An event that was recorded just now is new to the page and to the stream.
LEMMA NewEvent ==
    ASSUME Types, IdsOK, NEW t \in Tasks, RecordedNow(t)
    PROVE  \E e \in events' : /\ e.task = t /\ e \notin received /\ ~InBatch(e)
<1>1. PICK e \in events' : e.task = t /\ e.id = count.events + 1
  BY DEF RecordedNow
<1>2. count.events \in Nat /\ ~(count.events + 1 <= count.events)
  BY DEF Types
<1>3. e \notin received
  BY <1>1, <1>2 DEF IdsOK
<1>4. ~InBatch(e)
  BY <1>1, <1>2 DEF IdsOK, InBatch
<1> QED
  BY <1>1, <1>3, <1>4

\* What the stream is about to deliver, when the stream stays where it is.
LEMMA BatchStays ==
    ASSUME Types, RequestsOK, IdsOK, BatchOK, BoardStep, UNCHANGED <<stream, received>>
    PROVE  BatchOK'
<1> SUFFICES ASSUME NEW i \in DOMAIN stream.batch,
                    Exists(stream.batch[i].event.task)',
                    stream.batch[i].event.task \notin unannounced'
             PROVE  LET t == stream.batch[i].event.task
                    IN  stream.batch[i].data = row'[t] \/ Unrecorded(t)' \/ Unsent(t)'
  BY DEF BatchOK, Exists
<1> DEFINE t == stream.batch[i].event.task
<1>1. t \in Tasks
  BY StreamFields, ElementOfSeq, LenProperties
<1>2. \A e : InBatch(e)' <=> InBatch(e)
  BY DEF InBatch
<1>3. CASE RecordedNow(t)
  <2>1. Unsent(t)'
    BY <1>1, <1>2, <1>3, NewEvent DEF Unsent
  <2> QED
    BY <2>1
<1>4. CASE Untouched(t)
  <2>1. row'[t] = row[t] /\ t \notin unannounced /\ ~Unrecorded(t) /\ Exists(t)
    BY <1>4 DEF Untouched, Exists
  <2>2. stream.batch[i].data = row[t] \/ Unsent(t)
    BY <2>1 DEF BatchOK
  <2>3. Unsent(t) => Unsent(t)'
    BY <1>2, <1>4 DEF Unsent, Untouched
  <2> QED
    BY <2>1, <2>2, <2>3
<1>5. Effect(t) /\ Exists(t)' /\ t \notin unannounced'
  BY <1>1, EveryEffect
<1> QED
  BY <1>3, <1>4, <1>5 DEF Effect

LEMMA BatchKept ==
    ASSUME Types, RequestsOK, ShownOK, IdsOK, BatchOK, BoardStep
    PROVE  BatchOK'
<1>1. CASE ConnectStep \/ CutStep
  BY <1>1 DEF ConnectStep, CutStep, BatchOK
<1>2. CASE PollStep /\ ServerSame
  BY <1>2 DEF PollStep, ServerSame, BatchOK
<1>3. ASSUME NEW item \in Items, DeliverStep(item), ServerSame
      PROVE  BatchOK'
  <2>1. /\ row' = row /\ unannounced' = unannounced /\ events' = events
        /\ received' = received \cup {item.event} /\ req' = req
    BY <1>3 DEF ServerSame, DeliverStep
  <2>2. /\ 1 \in DOMAIN stream.batch /\ stream.batch[1] = item
        /\ \A i \in DOMAIN stream'.batch :
              i + 1 \in DOMAIN stream.batch /\ stream'.batch[i] = stream.batch[i + 1]
    BY <1>3, ItemKnown
  <2>3. \A t : Unrecorded(t) => Unrecorded(t)'
    BY <2>1 DEF Unrecorded, Pending
  <2>4. \A e : InBatch(e)' => InBatch(e)
    BY <2>2 DEF InBatch
  <2>5. InBatch(item.event)
    BY <2>2 DEF InBatch
  <2>6. \A t : Unsent(t) => Unsent(t)'
    BY <2>1, <2>4, <2>5 DEF Unsent
  <2> SUFFICES ASSUME NEW i \in DOMAIN stream'.batch, NEW t,
                      t = stream'.batch[i].event.task, Exists(t)', t \notin unannounced'
               PROVE  stream'.batch[i].data = row'[t] \/ Unrecorded(t)' \/ Unsent(t)'
    BY DEF BatchOK, Exists, Unrecorded, Unsent, Pending, InBatch
  <2>7. i + 1 \in DOMAIN stream.batch /\ stream'.batch[i] = stream.batch[i + 1]
    BY <2>2
  <2>8. Exists(t) /\ t \notin unannounced /\ t = stream.batch[i + 1].event.task
    BY <2>1, <2>7 DEF Exists
  <2>9. stream.batch[i + 1].data = row[t] \/ Unrecorded(t) \/ Unsent(t)
    BY <2>7, <2>8 DEF BatchOK
  <2> QED
    BY <2>1, <2>3, <2>6, <2>7, <2>9
<1> QED
  BY <1>1, <1>2, <1>3, BatchStays, StreamCases DEF StreamStep

\* What is still to come stays so until the page hears of it.
LEMMA CurrentStays ==
    ASSUME Types, RequestsOK, IdsOK, CurrentOK, BoardStep, received' = received,
           NEW t \in Tasks, t \notin overwritten, t \notin mixed,
           Exists(t)', t \notin unannounced',
           ASSUME row'[t] = row[t], Exists(t), ShownVersion(shown, t) = row[t].ver
           PROVE  ShownVersion(shown', t) = row[t].ver
    PROVE  ShownVersion(shown', t) = row'[t].ver \/ Unrecorded(t)' \/ Unheard(t)'
<1>1. CASE RecordedNow(t)
  <2>1. Unheard(t)'
    BY <1>1, NewEvent DEF Unheard
  <2> QED
    BY <2>1
<1>2. CASE Untouched(t)
  <2>1. row'[t] = row[t] /\ t \notin unannounced /\ ~Unrecorded(t) /\ Exists(t)
    BY <1>2 DEF Untouched, Exists
  <2>2. ShownVersion(shown, t) = row[t].ver \/ Unheard(t)
    BY <2>1 DEF CurrentOK
  <2>3. Unheard(t) => Unheard(t)'
    BY <1>2 DEF Unheard, Untouched
  <2> QED
    BY <2>1, <2>2, <2>3
<1> QED
  BY <1>1, <1>2, EveryEffect DEF Effect

LEMMA CurrentKept ==
    ASSUME Types, RequestsOK, RowsOK, ShownOK, IdsOK, CurrentOK, BatchOK, BoardStep, Grows,
           Types', RowsOK', ShownOK'
    PROVE  CurrentOK'
<1> SUFFICES ASSUME NEW t \in Tasks, t \notin unannounced', t \notin overwritten',
                    t \notin mixed', Exists(t)'
             PROVE  ShownVersion(shown', t) = row'[t].ver \/ Unrecorded(t)' \/ Unheard(t)'
  BY DEF CurrentOK
<1>1. t \notin mixed
  BY DEF Grows
<1>2. CASE received' = received /\ overwritten' = overwritten /\ shown'[t] = shown[t]
  <2>1. ShownVersion(shown', t) = ShownVersion(shown, t)
    BY <1>2 DEF ShownVersion
  <2> QED
    BY <1>1, <1>2, <2>1, CurrentStays
<1>3. CASE ServerStep
  <2>1. PageSame
    BY <1>3, ServerContinues DEF ServerStep, RequestStep
  <2> QED
    BY <1>2, <2>1 DEF PageSame, page
<1>4. CASE StreamStep
  <2>1. CASE (ConnectStep \/ PollStep \/ CutStep) /\ ListsSame
    BY <1>2, <2>1 DEF ConnectStep, PollStep, CutStep, ListsSame
  <2>2. ASSUME NEW item \in Items, DeliverStep(item)
        PROVE  ShownVersion(shown', t) = row'[t].ver \/ Unrecorded(t)' \/ Unheard(t)'
    <3> DEFINE u == item.event.task
    <3>1. /\ row' = row /\ unannounced' = unannounced /\ events' = events
          /\ received' = received \cup {item.event} /\ req' = req
          /\ overwritten' = overwritten \ {u}
          /\ shown' = [shown EXCEPT ![u] = Merged(@, item.data)]
          /\ item.data \in Content
      BY <1>4, <2>2 DEF StreamStep, ServerSame, DeliverStep
    <3>2. /\ u \in Tasks /\ 1 \in DOMAIN stream.batch /\ stream.batch[1] = item
          /\ InBatch(item.event)
      BY <2>2, ItemKnown DEF InBatch
    <3>3. Unrecorded(t) => Unrecorded(t)'
      BY <3>1 DEF Unrecorded, Pending
    <3>4. Exists(t) /\ t \notin unannounced
      BY <3>1 DEF Exists
    <3>5. CASE t = u
      <4>1. item.data = row[t] \/ Unrecorded(t) \/ Unsent(t)
        BY <3>2, <3>4, <3>5 DEF BatchOK
      <4>2. Unsent(t) => Unheard(t)'
        BY <3>1, <3>2 DEF Unsent, Unheard
      <4>3. ASSUME item.data = row[t] PROVE ShownVersion(shown', t) = row'[t].ver
        <5>1. shown[t] \in Seq(Content) /\ shown'[t] = Merged(shown[t], item.data)
          BY <3>1, <3>5 DEF Types
        <5>2. shown'[t] # <<>> /\ Head(shown'[t]) = item.data
          <6>1. shown[t] \in Seq(Content) /\ item.data \in Content
            BY <3>1, <5>1
          <6>2. Merged(shown[t], item.data) # <<>> /\ Head(Merged(shown[t], item.data)) = item.data
            BY <6>1, MergedContent, Zenon
          <6> QED
            BY <5>1, <6>2
        <5>3. Version(item.data) = item.data.ver
          BY <3>1, NotContent DEF Version, Absent
        <5> QED
          BY <3>1, <4>3, <5>2, <5>3 DEF ShownVersion
      <4> QED
        BY <3>3, <4>1, <4>2, <4>3
    <3>6. CASE t # u
      <4>1. shown'[t] = shown[t] /\ t \notin overwritten
        BY <3>1, <3>6 DEF Types
      <4>2. ShownVersion(shown', t) = ShownVersion(shown, t)
        BY <4>1 DEF ShownVersion
      <4>3. ShownVersion(shown, t) = row[t].ver \/ Unrecorded(t) \/ Unheard(t)
        BY <1>1, <3>4, <4>1 DEF CurrentOK
      <4>4. Unheard(t) => Unheard(t)'
        BY <3>1, <3>6 DEF Unheard
      <4> QED
        BY <3>1, <3>3, <4>2, <4>3, <4>4
    <3> QED
      BY <3>5, <3>6
  <2> QED
    BY <1>4, <2>1, <2>2 DEF StreamStep
<1>5. ASSUME NEW r \in Own, SubmitStep(r), SendStep(r), MoveStep(r)
      PROVE  ShownVersion(shown', t) = row'[t].ver \/ Unrecorded(t)' \/ Unheard(t)'
  <2> DEFINE u == own'[r].task
  <2>1. u \in Tasks /\ received' = received /\ overwritten' = overwritten
    BY <1>5 DEF SubmitStep, SendStep
  <2>2. PICK f \in [DOMAIN shown[u] -> Content] :
            /\ shown' = [shown EXCEPT ![u] = f]
            /\ \A i \in DOMAIN f : f[i].upd = shown[u][i].upd /\ f[i].ver = shown[u][i].ver
    BY <1>5, <2>1, MoveShows
  <2> HIDE DEF u
  <2>3. CASE t # u
    BY <1>2, <2>1, <2>2, <2>3 DEF Types
  <2>4. CASE t = u
    <3>1. shown[t] \in Seq(Content) /\ shown'[t] = f
      BY <2>2, <2>4 DEF Types
    <3>2. /\ f = <<>> <=> shown[t] = <<>>
          /\ f # <<>> => /\ Head(f) = f[1] /\ Head(shown[t]) = shown[t][1]
                         /\ 1 \in DOMAIN f /\ 1 \in DOMAIN shown[t]
      BY <2>2, <2>4, <3>1, EntriesReplaced
    <3>3. \A i \in DOMAIN shown[t] : f[i] \in Content /\ shown[t][i] \in Content
      BY <2>2, <2>4, <3>1, ElementOfSeq, LenProperties
    <3>4. f # <<>> => Version(Head(f)) = Version(Head(shown[t]))
      <4> SUFFICES ASSUME f # <<>> PROVE Version(Head(f)) = Version(Head(shown[t]))
        OBVIOUS
      <4>1. /\ Head(f) \in Content /\ Head(shown[t]) \in Content
            /\ Head(f).ver = Head(shown[t]).ver
        BY <2>2, <2>4, <3>2, <3>3
      <4> QED
        BY <4>1, NotContent DEF Version, Absent
    <3>5. ShownVersion(shown', t) = ShownVersion(shown, t)
      BY <3>1, <3>2, <3>4 DEF ShownVersion
    <3> QED
      BY <1>1, <2>1, <3>5, CurrentStays
  <2> QED
    BY <2>3, <2>4
<1>6. ASSUME NEW r \in Own, SubmitStep(r), SendStep(r), UNCHANGED <<shown, mixed>>
      PROVE  ShownVersion(shown', t) = row'[t].ver \/ Unrecorded(t)' \/ Unheard(t)'
  BY <1>2, <1>6 DEF SubmitStep, SendStep
<1>7. ASSUME NEW r \in Own, SettleStep(r)
      PROVE  ShownVersion(shown', t) = row'[t].ver \/ Unrecorded(t)' \/ Unheard(t)'
  <2>1. received' = received /\ overwritten' = overwritten \cup TurnedBack
    BY <1>7 DEF SettleStep
  <2>2. t \notin overwritten /\ ~(ShownVersion(shown', t) < ShownVersion(shown, t))
    BY <2>1 DEF TurnedBack
  <2>3. /\ ShownVersion(shown, t) \in Nat /\ ShownVersion(shown', t) \in Nat
        /\ row'[t].ver \in Nat /\ ShownVersion(shown', t) <= row'[t].ver
    BY ShownVersions, ShownVersionsNext DEF Exists
  <2>4. ASSUME row'[t] = row[t], ShownVersion(shown, t) = row[t].ver
        PROVE  ShownVersion(shown', t) = row[t].ver
    BY <2>2, <2>3, <2>4
  <2> QED
    BY <1>1, <2>1, <2>2, <2>4, CurrentStays
<1>8. ASSUME NEW r \in Own, DropStep(r)
      PROVE  ShownVersion(shown', t) = row'[t].ver \/ Unrecorded(t)' \/ Unheard(t)'
  BY <1>2, <1>8 DEF DropStep, page
<1>9. CASE UNCHANGED vars
  BY <1>2, <1>9 DEF vars, page
<1> QED
  BY <1>3, <1>4, <1>5, <1>6, <1>7, <1>8, <1>9 DEF BoardStep, PageStep

LEMMA InitInv == Init => IInv
<1> SUFFICES ASSUME Init PROVE IInv
  OBVIOUS
<1> DEFINE first == [status |-> CHOOSE s \in Statuses : TRUE, upd |-> 1, ver |-> 1]
<1>1. first \in Content /\ first.upd = 1 /\ first.ver = 1
  <2>1. \E x \in Statuses : TRUE
    BY LiveBoardAssumption
  <2>2. (CHOOSE s \in Statuses : TRUE) \in Statuses
    BY <2>1
  <2> QED
    BY <2>2 DEF Content
<1>2. first \notin Absent /\ None \in Absent /\ None # Gone
  BY <1>1, NotContent, LiveBoardAssumption DEF Absent
<1>3. /\ row \in [Tasks -> {None, first}]
      /\ events = {} /\ clock = 1
      /\ req = [r \in Requests |-> IdleRequest]
      /\ stream = [on |-> FALSE, blank |-> FALSE, last |-> 0, seen |-> {}, batch |-> <<>>]
      /\ shown = [t \in Tasks |-> IF row[t] = None THEN <<>> ELSE <<row[t]>>]
      /\ own = [r \in Own |-> NothingSent]
      /\ count = [changes |-> 0, events |-> 0, cuts |-> 0, failures |-> 0]
      /\ committed = [t \in Tasks |-> IF row[t] = None THEN {} ELSE {row[t]}]
      /\ received = {} /\ unannounced = {} /\ overwritten = {} /\ mixed = {}
  BY DEF Init
<1> HIDE DEF first
<1>4. ASSUME NEW t \in Tasks
      PROVE  \/ row[t] = None /\ shown[t] = <<>> /\ committed[t] = {}
             \/ row[t] = first /\ shown[t] = <<first>> /\ committed[t] = {first}
  BY <1>2, <1>3
<1>5. /\ <<>> \in Seq(Content) /\ ToSet(<<>>) = {} /\ Len(<<>>) <= 1
      /\ <<first>> \in Seq(Content) /\ Len(<<first>>) <= 1 /\ ToSet(<<first>>) = {first}
      /\ Head(<<first>>) = first /\ <<first>> # <<>>
  <2>1. <<first>> \in Seq(Content) /\ <<first>> # <<>> /\ Head(<<first>>) = first
        /\ Len(<<first>>) = 1
    BY <1>1
  <2>2. ToSet(<<first>>) = {first}
    <3>1. DOMAIN <<first>> = {1} /\ <<first>>[1] = first
      OBVIOUS
    <3> QED
      BY <3>1 DEF ToSet
  <2> QED
    BY <2>1, <2>2 DEF ToSet
<1>6. /\ \A r \in Requests : req[r] = IdleRequest /\ ~Pending(r) /\ ~Sent(r)
      /\ \A r \in Own : own[r] = NothingSent /\ ~Waits(r) /\ own[r].kind # "move"
      /\ Moving = {}
  BY <1>3 DEF Pending, Sent, Waits, IdleRequest, NothingSent, Moving
<1>7. DOMAIN stream.batch = {} /\ stream.seen = {} /\ stream.last = 0
  BY <1>3
<1>8. Types
  <2>1. row \in [Tasks -> Content \cup Absent]
    BY <1>1, <1>2, <1>3
  <2>2. shown \in [Tasks -> Seq(Content)] /\ committed \in [Tasks -> SUBSET Content]
    <3>1. \A t \in Tasks : shown[t] \in Seq(Content) /\ committed[t] \in SUBSET Content
      BY <1>1, <1>4, <1>5
    <3>2. shown = [t \in Tasks |-> shown[t]] /\ committed = [t \in Tasks |-> committed[t]]
      BY <1>3
    <3> QED
      BY <3>1, <3>2
  <2>3. req \in [Requests -> RequestType] /\ own \in [Own -> OwnType]
    BY <1>3, IdleType
  <2>4. stream \in [on : BOOLEAN, blank : BOOLEAN, last : Nat, seen : SUBSET Nat,
                    batch : Seq(Items)]
    <3>1. <<>> \in Seq(Items)
      OBVIOUS
    <3> QED
      BY <1>3, <3>1
  <2>5. count \in [changes : Nat, events : Nat, cuts : Nat, failures : Nat]
    BY <1>3
  <2>6. IsFiniteSet(events)
    BY <1>3, FS_EmptySet
  <2> QED
    BY <1>3, <2>1, <2>2, <2>3, <2>4, <2>5, <2>6 DEF Types
<1>9. RequestsOK
  BY <1>6 DEF RequestsOK, Requests
<1>10. TimesOK
  <2>1. \A t \in Tasks : \A c \in committed[t] : c.upd <= clock
    BY <1>1, <1>3, <1>4
  <2>2. \A r \in Requests : req[r].upd <= clock /\ req[r].stamp <= clock
    BY <1>3, <1>6 DEF IdleRequest
  <2> QED
    BY <1>3, <1>7, <2>1, <2>2 DEF TimesOK
<1>11. RowsOK
  <2>1. first # None /\ first # Gone
    BY <1>2 DEF Absent
  <2> QED
    BY <1>1, <1>2, <1>4, <2>1 DEF RowsOK, Exists
<1>12. AnswersOK
  BY <1>2, <1>6 DEF AnswersOK, AnswerOK, IdleRequest
<1>13. ShownOK
  <2>1. ListOK(shown)
    BY <1>4, <1>5 DEF ListOK, Known
  <2> QED
    BY <1>6, <1>7, <2>1 DEF ShownOK
<1>14. MovesOK
  BY <1>4, <1>5, <1>6 DEF MovesOK
<1>15. IdsOK
  BY <1>3, <1>7 DEF IdsOK
<1>16. LastOK
  BY <1>7 DEF LastOK
<1>17. CurrentOK
  <2> SUFFICES ASSUME NEW t \in Tasks, Exists(t)
               PROVE  ShownVersion(shown, t) = row[t].ver
    BY DEF CurrentOK
  <2>1. row[t] = first /\ shown[t] = <<first>>
    BY <1>4 DEF Exists
  <2>2. Version(first) = first.ver
    BY <1>2 DEF Version, Absent
  <2> QED
    BY <1>5, <2>1, <2>2 DEF ShownVersion
<1>18. BatchOK
  BY <1>7 DEF BatchOK
<1> QED
  BY <1>8, <1>9, <1>10, <1>11, <1>12, <1>13, <1>14, <1>15, <1>16, <1>17, <1>18 DEF IInv

LEMMA NextInv == IInv /\ [Next]_vars => IInv'
<1> SUFFICES ASSUME IInv, [Next]_vars PROVE IInv'
  OBVIOUS
<1>1. /\ Types /\ RequestsOK /\ TimesOK /\ RowsOK /\ AnswersOK /\ ShownOK /\ MovesOK
      /\ IdsOK /\ LastOK /\ CurrentOK /\ BatchOK
  BY DEF IInv
<1>2. Types' /\ BoardStep
  BY <1>1, EveryStep
<1>3. Grows
  BY <1>1, <1>2, EveryStepGrows
<1>4. RequestsOK' /\ TimesOK' /\ RowsOK' /\ AnswersOK'
  BY <1>1, <1>2, <1>3, RequestsKept, TimesKept, RowsKept, AnswersKept
<1>5. ShownOK' /\ MovesOK' /\ IdsOK' /\ LastOK'
  BY <1>1, <1>2, <1>3, ShownKept, MovesKept, IdsKept, LastKept
<1>6. BatchOK'
  BY <1>1, <1>2, BatchKept
<1>7. CurrentOK'
  BY <1>1, <1>2, <1>3, <1>4, <1>5, CurrentKept
<1> QED
  BY <1>2, <1>4, <1>5, <1>6, <1>7 DEF IInv

LEMMA Invariance == Spec => []IInv
BY InitInv, NextInv, PTL DEF Spec

------------------------------------------------------------------------------
(***************************************************************************)
(* What the board promises                                                 *)
(***************************************************************************)
LEMMA InvTypeOK == IInv => TypeOK
<1> SUFFICES ASSUME IInv PROVE TypeOK
  OBVIOUS
<1>1. Types /\ TimesOK
  BY DEF IInv
<1>2. \A t \in Tasks : row[t] \in Content \/ row[t] \in {None, Gone}
  BY <1>1 DEF Types, Absent
<1>3. \A e \in events : e \in [id : Nat, task : Tasks, stamp : 0 .. clock]
  <2> SUFFICES ASSUME NEW e \in events PROVE e \in [id : Nat, task : Tasks, stamp : 0 .. clock]
    OBVIOUS
  <2>1. e \in [id : Nat, task : Tasks, stamp : Nat] /\ e.stamp <= clock /\ clock \in Nat
    BY <1>1 DEF Types, TimesOK, Events
  <2>2. e.stamp \in 0 .. clock
    BY <2>1
  <2> QED
    BY <2>1, <2>2
<1>4. \A t \in Tasks : shown[t] \in Seq(Content)
  BY <1>1 DEF Types
<1>5. \A r \in Requests : req[r].pc \in {"idle", "sent", "row", "event", "both", "answered"}
  BY <1>1 DEF Types, RequestType, States
<1>6. stream.last \in 0 .. clock
  BY <1>1 DEF Types, TimesOK
<1>7. \A r \in Own : own[r].kind \in {"none", "move", "save", "create", "delete"}
  BY <1>1 DEF Types, OwnType, OwnKinds
<1> QED
  BY <1>2, <1>3, <1>4, <1>5, <1>6, <1>7 DEF TypeOK

\* An event that the stream will not send any more was sent or passed over.
LEMMA UnheardPassedOver ==
    ASSUME IInv, Quiet, NEW t \in Tasks, Exists(t), Unheard(t)
    PROVE  PassedOver(t)
<1>1. PICK e \in events \ received : e.task = t
  BY DEF Unheard
<1>2. Types /\ IdsOK /\ LastOK
  BY DEF IInv
<1>3. e.id \notin stream.seen
  BY <1>1, <1>2 DEF IdsOK
<1>4. ~(e.stamp >= stream.last)
  BY <1>1, <1>3 DEF Quiet, Fetchable
<1>5. e.stamp \in Nat /\ stream.last \in Nat
  BY <1>1, <1>2, StreamFields DEF Types
<1>6. stream.last > e.stamp
  BY <1>4, <1>5
<1>7. stream.last # 0
  BY <1>5, <1>6
<1>8. \/ \E d \in received : d.stamp > e.stamp
      \/ \E u \in Tasks : \E c \in committed[u] : Floor(c.upd) > e.stamp
      \/ stream.blank /\ stream.last > e.stamp
  BY <1>2, <1>6, <1>7 DEF LastOK
<1> QED
  BY <1>1, <1>8 DEF PassedOver

LEMMA InvPageIsCurrent == IInv => PageIsCurrent
<1> SUFFICES ASSUME IInv, Quiet, NEW t \in Tasks, t \notin unannounced,
                    t \notin overwritten, t \notin mixed
             PROVE  Current(t) \/ PassedOver(t)
  BY DEF PageIsCurrent
<1>1. Types /\ RowsOK /\ ShownOK /\ MovesOK /\ CurrentOK
  BY DEF IInv
<1>2. shown[t] \in Seq(Content) /\ Len(shown[t]) <= 1
  BY <1>1 DEF Types, ShownOK, ListOK
<1>3. CASE Exists(t)
  <2>1. ~Unrecorded(t)
    BY DEF Quiet, Unrecorded, Pending
  <2>2. CASE Unheard(t)
    BY <1>3, <2>2, UnheardPassedOver
  <2>3. CASE ShownVersion(shown, t) = row[t].ver
    <3>1. row[t] \in committed[t] /\ row[t].ver \in Nat /\ row[t].ver >= 1
      BY <1>1, <1>3, ShownVersions DEF RowsOK
    <3>2. shown[t] # <<>>
      BY <2>3, <3>1 DEF ShownVersion
    <3>3. /\ Head(shown[t]) \in Content /\ Head(shown[t]) \in ToSet(shown[t])
          /\ shown[t] = <<Head(shown[t])>>
      BY <1>2, <3>2, HeadShown
    <3>4. Head(shown[t]).ver = row[t].ver
      BY <2>3, <3>2, <3>3, NotContent DEF ShownVersion, Version, Absent
    <3>5. Moving = {}
      BY DEF Moving, Quiet
    <3>6. Head(shown[t]) \in committed[t]
      BY <1>1, <3>3, <3>5 DEF MovesOK
    <3>7. Head(shown[t]) = row[t]
      BY <1>1, <1>3, <3>4, <3>6 DEF RowsOK
    <3> QED
      BY <1>3, <3>3, <3>7 DEF Current
  <2> QED
    BY <1>1, <1>3, <2>1, <2>2, <2>3 DEF CurrentOK
<1>4. CASE ~Exists(t)
  <2>1. row[t] = None /\ committed[t] = {}
    BY <1>1, <1>4 DEF Exists, RowsOK
  <2>2. ToSet(shown[t]) = {}
    BY <1>1, <2>1 DEF ShownOK, ListOK, Known
  <2>3. shown[t] = <<>>
    BY <1>2, <2>2, HeadShown
  <2> QED
    BY <1>4, <2>3 DEF Current
<1> QED
  BY <1>3, <1>4

LEMMA InvOnlyCommittedShown == IInv => OnlyCommittedShown
BY DEF IInv, MovesOK, OnlyCommittedShown

\* The board's state has its types, and the stream's position is never ahead of
\* the clock.
THEOREM TypeCorrect == Spec => []TypeOK
BY Invariance, InvTypeOK, PTL

\* A page at rest shows every task once and as its row is, and no deleted task,
\* unless the task's last change has no event, the page passed its event over,
\* or a write of the page turned its entry back or mixed two requests: for any
\* number of tasks, requests, connections, time stamps and any resolution of
\* the page's clock.
THEOREM PageCatchesUp == Spec => []PageIsCurrent
BY Invariance, InvPageIsCurrent, PTL

\* When no move is under way, every entry of a task that no two requests of the
\* page mixed is a committed version of it: roll-backs leave no optimistic status.
THEOREM MovesLeaveNoTrace == Spec => []OnlyCommittedShown
BY Invariance, InvOnlyCommittedShown, PTL
==============================================================================
