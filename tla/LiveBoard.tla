----------------------------- MODULE LiveBoard -----------------------------
(***************************************************************************)
(* One open board page and the stream of task events that keeps it         *)
(* current.  The page (frontend app/boards/[boardId]/page.tsx) starts from *)
(* a snapshot, connects to GET /tasks/stream with the newest updated_at it *)
(* shows, merges every event's task into its list, reconnects when the     *)
(* connection ends, and sends requests of its own whose answers (and       *)
(* roll-backs) write to the same list.  The server (backend api/tasks.py)  *)
(* commits a task's row and its activity event in two transactions, or in  *)
(* one (board leads), or changes rows without an event (sprints,           *)
(* deletions); the stream polls the event table by created_at.             *)
(*                                                                         *)
(* A task's data are its status, its updated_at and, to tell versions      *)
(* apart, the number of its commits (ver, not in the code).  SSE_SEEN_MAX  *)
(* (2000 events at the newest time stamp) is not reached and left out.     *)
(***************************************************************************)
EXTENDS Naturals, FiniteSets, Sequences, FiniteSetsExt, SequencesExt, Lists

CONSTANTS
    Tasks,
    Statuses,
    Others,       \* requests of agents, other users and other pages
    Own,          \* requests the page's user may have in flight
    None,         \* a task not created yet; no task, no answer
    Gone,         \* a deleted task
    Res,          \* time stamps per millisecond: the page drops the fraction
    MaxChanges,   \* bound: changes to rows
    MaxCuts,      \* bound: connections of the stream that end
    MaxFailures   \* bound: requests that die half-way or lose their answer

\* A task's row as the page and the stream carry it.
Content == [status : Statuses, upd : Nat, ver : Nat]

ASSUME LiveBoardAssumption ==
    /\ Others \cap Own = {}
    /\ Statuses # {}
    /\ None # Gone /\ None \notin Content /\ Gone \notin Content
    /\ Res \in Nat \ {0}
    /\ MaxChanges \in Nat /\ MaxCuts \in Nat /\ MaxFailures \in Nat

VARIABLES
    row,          \* the tasks table
    events,       \* the committed activity events
    clock,        \* the latest time stamp taken
    req,          \* the requests at the server
    stream,       \* the page's connection to the task stream
    shown,        \* the page's task list: the entries of each task, newest first
    own,          \* what the page remembers of the requests it sent
    count,        \* changes, events, cuts and failures so far
    \* Auxiliary: they record what happened, nothing reads them but properties.
    committed,    \* the versions each task has had
    received,     \* the events the page has merged
    unannounced,  \* tasks whose last change has no event
    overwritten,  \* tasks whose entry an answer or a roll-back turned back
    mixed         \* tasks moved while another move was in flight, and tasks the
                  \* stream brought before the answer to their creation

server == <<row, events, clock, req, committed, unannounced>>
page == <<shown, own, overwritten, mixed>>
vars == <<server, page, stream, count, received>>

Requests == Others \cup Own

\* What a request does: PATCH by a user or agent, PATCH by the board's lead,
\* sprint start / completion / cancellation, POST and DELETE.
Kinds == {"update", "lead", "sprint", "create", "delete"}

IdleRequest == [pc |-> "idle", kind |-> "update", task |-> None,
                status |-> None, upd |-> 0, stamp |-> 0, answer |-> None]

NothingSent == [kind |-> "none", task |-> None, prev |-> None]

Exists(t) == row[t] \notin {None, Gone}

Version(c) == IF c \in {None, Gone} THEN 0 ELSE c.ver

\* The version of the entry that is displayed first, 0 when there is none.
ShownVersion(list, t) == IF list[t] = <<>> THEN 0 ELSE Version(Head(list[t]))

\* utcnow() of two steps may be equal.
Stamps == {clock, clock + 1}

\* latestTaskTimestamp: the page parses updated_at to milliseconds and asks
\* for what is new since the latest; without tasks the server takes utcnow().
Floor(s) == s - (s % Res)
AllShown == UNION {ToSet(shown[t]) : t \in Tasks}

\* Fault: the time is rounded up to the next millisecond.
Since_RoundedUp ==
    IF AllShown = {} THEN clock ELSE Floor(Max({c.upd : c \in AllShown})) + Res

Since == IF AllShown = {} THEN clock ELSE Floor(Max({c.upd : c \in AllShown}))

\* Fault: only what is later than last_seen.
Fetchable_After == {e \in events : /\ e.stamp > stream.last
                                   /\ e.id \notin stream.seen
                                   /\ Exists(e.task)}

\* _fetch_task_events: the events of existing tasks from last_seen on, less
\* the ones this connection has sent.
Fetchable == {e \in events : /\ e.stamp >= stream.last
                             /\ e.id \notin stream.seen
                             /\ Exists(e.task)}

Earlier(d, e) == d.stamp < e.stamp \/ (d.stamp = e.stamp /\ d.id < e.id)

---------------------------------------------------------------------------
\* The page has just loaded the board's snapshot.
Init ==
    /\ row \in [Tasks -> {None, [status |-> CHOOSE s \in Statuses : TRUE,
                                 upd |-> 1, ver |-> 1]}]
    /\ events = {}
    /\ clock = 1
    /\ req = [r \in Requests |-> IdleRequest]
    /\ stream = [on |-> FALSE, blank |-> FALSE, last |-> 0, seen |-> {}, batch |-> <<>>]
    /\ shown = [t \in Tasks |-> IF row[t] = None THEN <<>> ELSE <<row[t]>>]
    /\ own = [r \in Own |-> NothingSent]
    /\ count = [changes |-> 0, events |-> 0, cuts |-> 0, failures |-> 0]
    /\ committed = [t \in Tasks |-> IF row[t] = None THEN {} ELSE {row[t]}]
    /\ received = {}
    /\ unannounced = {}
    /\ overwritten = {}
    /\ mixed = {}

---------------------------------------------------------------------------
(* The server.                                                             *)

Counted(what) == count' = [count EXCEPT ![what] = @ + 1]

Submit(r, kind, t, s) ==
    req' = [req EXCEPT ![r] = [IdleRequest EXCEPT !.pc = "sent", !.kind = kind,
                                                  !.task = t, !.status = s]]

OtherRequest(r, kind, t, s) ==
    /\ req[r].pc = "idle"
    /\ count.changes < MaxChanges
    /\ Counted("changes")
    /\ kind = "create" <=> row[t] = None
    /\ kind # "create" => Exists(t)
    /\ Submit(r, kind, t, s)
    /\ UNCHANGED <<row, events, clock, committed, unannounced, page, stream, received>>

\* A request ends; an answer to the page is kept until it arrives.
Ends(r, answer) ==
    req' = [req EXCEPT ![r] = IF r \in Own
                              THEN [@ EXCEPT !.pc = "answered", !.answer = answer]
                              ELSE IdleRequest]

WriteRow(t, s, stamp) ==
    LET c == [status |-> s, upd |-> stamp, ver |-> Version(row[t]) + 1]
    IN  /\ row' = [row EXCEPT ![t] = c]
        /\ committed' = [committed EXCEPT ![t] = @ \cup {c}]

\* The request is refused (403, 409, 422, a task that is gone).
Refuse(r) ==
    /\ req[r].pc = "sent"
    /\ r \in Own \/ ~Exists(req[r].task)
    /\ Ends(r, None)
    /\ UNCHANGED <<row, events, clock, committed, unannounced, page, stream,
                   count, received>>

\* PATCH by a user or an agent, and POST: the row's transaction.
CommitRow(r) ==
    LET t == req[r].task
    IN  /\ req[r].pc = "sent"
        /\ \/ req[r].kind = "update" /\ Exists(t)
           \/ req[r].kind = "create" /\ row[t] = None
        /\ \E stamp \in Stamps : WriteRow(t, req[r].status, stamp) /\ clock' = stamp
        /\ req' = [req EXCEPT ![r].pc = "row"]
        /\ UNCHANGED <<events, unannounced, page, stream, count, received>>

\* refresh() reads the row for the answer, then record_activity takes the
\* event's created_at; its commit follows.  A task deleted meanwhile fails both.
StampEvent(r) ==
    /\ req[r].pc = "row"
    /\ IF Exists(req[r].task)
       THEN \E stamp \in Stamps :
                /\ clock' = stamp
                /\ req' = [req EXCEPT ![r].pc = "event", ![r].stamp = stamp,
                                      ![r].answer = row[req[r].task]]
       ELSE Ends(r, None) /\ UNCHANGED clock
    /\ UNCHANGED <<row, events, committed, unannounced, page, stream, count, received>>

AddEvent(t, stamp) ==
    /\ events' = events \cup {[id |-> count.events + 1, task |-> t, stamp |-> stamp]}
    /\ Counted("events")
    /\ unannounced' = unannounced \ {t}

CommitEvent(r) ==
    LET t == req[r].task
    IN  /\ req[r].pc = "event"
        /\ IF Exists(t)
           THEN AddEvent(t, req[r].stamp) /\ Ends(r, req[r].answer)
           ELSE Ends(r, None) /\ UNCHANGED <<events, unannounced, count>>
        /\ UNCHANGED <<row, clock, committed, page, stream, received>>

\* PATCH by the board's lead: row and event take their times and are committed
\* in one transaction.
StampBoth(r) ==
    /\ req[r].pc = "sent" /\ req[r].kind = "lead" /\ Exists(req[r].task)
    /\ \E stamp \in Stamps :
           /\ clock' = stamp
           /\ req' = [req EXCEPT ![r].pc = "both", ![r].upd = stamp, ![r].stamp = stamp]
    /\ UNCHANGED <<row, events, committed, unannounced, page, stream, count, received>>

CommitBoth(r) ==
    LET t == req[r].task
    IN  /\ req[r].pc = "both"
        /\ IF Exists(t)
           THEN WriteRow(t, req[r].status, req[r].upd) /\ AddEvent(t, req[r].stamp)
           ELSE UNCHANGED <<row, committed, events, unannounced, count>>
        /\ Ends(r, None)
        /\ UNCHANGED <<clock, page, stream, received>>

\* A sprint that starts, completes or is cancelled writes its tickets' rows and
\* records an event of the sprint, none of the tasks.
SprintWrites(r) ==
    LET t == req[r].task
    IN  /\ req[r].pc = "sent" /\ req[r].kind = "sprint" /\ Exists(t)
        /\ \E stamp \in Stamps : WriteRow(t, req[r].status, stamp) /\ clock' = stamp
        /\ unannounced' = unannounced \cup {t}
        /\ Ends(r, None)
        /\ UNCHANGED <<events, page, stream, count, received>>

\* DELETE removes the task, its events too, and records none.
DeleteTask(r) ==
    LET t == req[r].task
    IN  /\ req[r].pc = "sent" /\ req[r].kind = "delete" /\ Exists(t)
        /\ row' = [row EXCEPT ![t] = Gone]
        /\ events' = {e \in events : e.task # t}
        /\ unannounced' = unannounced \cup {t}
        /\ Ends(r, Gone)
        /\ UNCHANGED <<clock, committed, page, stream, count, received>>

\* The request's process ends, or its second transaction fails: the row stays
\* changed and the event is never recorded.
Dies(r) ==
    /\ req[r].pc \in {"row", "event"}
    /\ count.failures < MaxFailures
    /\ Counted("failures")
    /\ unannounced' = unannounced \cup {req[r].task}
    /\ Ends(r, None)
    /\ UNCHANGED <<row, events, clock, committed, page, stream, received>>

---------------------------------------------------------------------------
(* The stream.                                                             *)

Connect ==
    /\ ~stream.on
    /\ stream' = [on |-> TRUE, blank |-> AllShown = {}, last |-> Since,
                  seen |-> {}, batch |-> <<>>]
    /\ UNCHANGED <<server, page, count, received>>

\* One round of _task_event_generator: events in the order of their times, each
\* with the task's row as it is now.
Poll ==
    /\ stream.on /\ stream.batch = <<>> /\ Fetchable # {}
    /\ \E order \in Orders(Fetchable) :
           /\ \A i, j \in DOMAIN order : i < j => Earlier(order[i], order[j])
           /\ stream' = [stream EXCEPT !.batch =
                            [i \in DOMAIN order |->
                                [event |-> order[i], data |-> row[order[i].task]]]]
    /\ UNCHANGED <<server, page, count, received>>

\* The page merges a task: into its first entry, or as a new one.
Merge(t, c) ==
    shown' = [shown EXCEPT ![t] = <<c>> \o (IF @ = <<>> THEN @ ELSE Tail(@))]

Deliver ==
    LET item == Head(stream.batch)
    IN  /\ stream.batch # <<>>
        /\ Merge(item.event.task, item.data)
        /\ stream' = [stream EXCEPT !.batch = Tail(@),
                                    !.seen = @ \cup {item.event.id},
                                    !.last = Max({@, item.event.stamp})]
        /\ received' = received \cup {item.event}
        /\ overwritten' = overwritten \ {item.event.task}
        /\ UNCHANGED <<server, own, mixed, count>>

\* The connection breaks, or the page loses the focus (usePageActive).
Cut ==
    /\ stream.on
    /\ count.cuts < MaxCuts
    /\ Counted("cuts")
    /\ stream' = [stream EXCEPT !.on = FALSE, !.seen = {}, !.batch = <<>>]
    /\ UNCHANGED <<server, page, received>>

---------------------------------------------------------------------------
(* The page's own requests.                                                *)

Sends(r, kind, t, s, prev) ==
    /\ req[r].pc = "idle" /\ own[r].kind = "none"
    /\ count.changes < MaxChanges
    /\ Counted("changes")
    /\ Submit(r, IF kind = "move" \/ kind = "save" THEN "update" ELSE kind, t, s)
    /\ own' = [own EXCEPT ![r] = [kind |-> kind, task |-> t, prev |-> prev]]
    /\ UNCHANGED <<row, events, clock, committed, unannounced, stream, received, overwritten>>

Moving == {r \in Own : own[r].kind = "move"}

\* handleTaskMove shows the new status at once and keeps the whole list for a
\* roll-back.
MoveTask(r, t, s) ==
    /\ shown[t] # <<>> /\ Head(shown[t]).status # s
    /\ Sends(r, "move", t, s, shown)
    /\ shown' = [shown EXCEPT ![t] = [i \in DOMAIN @ |-> [@[i] EXCEPT !.status = s]]]
    /\ mixed' = IF Moving = {} THEN mixed
                ELSE mixed \cup {t} \cup {own[q].task : q \in Moving}

\* handleTaskSave
SaveTask(r, t, s) ==
    /\ shown[t] # <<>>
    /\ Sends(r, "save", t, s, None)
    /\ UNCHANGED <<shown, mixed>>

\* handleCreateTask
CreateTask(r, t, s) ==
    /\ row[t] = None /\ \A q \in Requests : req[q].task # t
    /\ Sends(r, "create", t, s, None)
    /\ UNCHANGED <<shown, mixed>>

\* handleDeleteTask
RemoveTask(r, t) ==
    /\ shown[t] # <<>>
    /\ Sends(r, "delete", t, CHOOSE s \in Statuses : TRUE, None)
    /\ UNCHANGED <<shown, mixed>>

\* The tasks whose displayed entry a write of the page turned back.
TurnedBack ==
    {t \in Tasks : ShownVersion(shown', t) < ShownVersion(shown, t)}

Settled(r) ==
    /\ own' = [own EXCEPT ![r] = NothingSent]
    /\ overwritten' = (overwritten \cup TurnedBack)
    /\ UNCHANGED <<stream, received>>

\* The answer arrives: a PATCH's replaces every entry of the task, a POST's is
\* put in front without looking for one, a DELETE's removes all.
AnswerArrives(r) ==
    LET t == own[r].task
        c == req[r].answer
    IN  /\ own[r].kind # "none" /\ req[r].pc = "answered" /\ c # None
        /\ shown' = [shown EXCEPT ![t] =
                        CASE own[r].kind \in {"move", "save"} -> [i \in DOMAIN @ |-> c]
                          [] own[r].kind = "create" -> <<c>> \o @
                          [] own[r].kind = "delete" -> <<>>]
        /\ Settled(r)
        /\ mixed' = IF own[r].kind = "create" /\ shown[t] # <<>>
                    THEN mixed \cup {t} ELSE mixed
        /\ req' = [req EXCEPT ![r] = IdleRequest]
        /\ UNCHANGED <<row, events, clock, committed, unannounced, count>>

\* Fault: a move that failed is left as it was shown.
ShowFailure_KeepsMove(r) ==
    /\ UNCHANGED shown
    /\ Settled(r)
    /\ UNCHANGED <<row, events, clock, committed, unannounced, mixed>>

\* The page learns of a failure: a move sets the whole list back.
ShowFailure(r) ==
    /\ shown' = IF own[r].kind = "move" THEN own[r].prev ELSE shown
    /\ Settled(r)
    /\ UNCHANGED <<row, events, clock, committed, unannounced, mixed>>

FailureArrives(r) ==
    /\ own[r].kind # "none" /\ req[r].pc = "answered" /\ req[r].answer = None
    /\ ShowFailure(r)
    /\ req' = [req EXCEPT ![r] = IdleRequest]
    /\ UNCHANGED count

\* The network fails: the page gives the request up, the server goes on with it.
AnswerLost(r) ==
    /\ own[r].kind # "none"
    /\ count.failures < MaxFailures
    /\ Counted("failures")
    /\ ShowFailure(r)
    /\ UNCHANGED req

\* Nobody waits for the answer any more.
DropAnswer(r) ==
    /\ own[r].kind = "none" /\ req[r].pc = "answered"
    /\ req' = [req EXCEPT ![r] = IdleRequest]
    /\ UNCHANGED <<row, events, clock, committed, unannounced, page, stream,
                   count, received>>

---------------------------------------------------------------------------
Serve(r) ==
    \/ CommitRow(r) \/ StampEvent(r) \/ CommitEvent(r)
    \/ StampBoth(r) \/ CommitBoth(r)
    \/ SprintWrites(r) \/ DeleteTask(r)

Reply(r) == AnswerArrives(r) \/ FailureArrives(r) \/ DropAnswer(r)

Next ==
    \/ \E r \in Others, kind \in Kinds, t \in Tasks, s \in Statuses :
           OtherRequest(r, kind, t, s)
    \/ \E r \in Requests : Serve(r) \/ Refuse(r) \/ Dies(r)
    \/ Connect \/ Poll \/ Deliver \/ Cut
    \/ \E r \in Own, t \in Tasks, s \in Statuses :
           MoveTask(r, t, s) \/ SaveTask(r, t, s) \/ CreateTask(r, t, s)
    \/ \E r \in Own, t \in Tasks : RemoveTask(r, t)
    \/ \E r \in Own : Reply(r) \/ AnswerLost(r)

Spec == Init /\ [][Next]_vars

\* The server works off what it was sent and the page what it is answered; the
\* generator polls every two seconds and the page reconnects with a timer.
Fairness ==
    /\ \A r \in Requests : WF_vars(Serve(r)) /\ WF_vars(Refuse(r))
    /\ \A r \in Own : WF_vars(Reply(r))
    /\ WF_vars(Connect) /\ WF_vars(Poll) /\ WF_vars(Deliver)

FairSpec == Spec /\ Fairness

---------------------------------------------------------------------------
(* Properties.                                                             *)

\* Rows, events, requests, the page's list and its connection have their types;
\* the stream's position is never ahead of the clock.
TypeOK ==
    /\ \A t \in Tasks : row[t] \in Content \/ row[t] \in {None, Gone}
    /\ \A e \in events : e \in [id : Nat, task : Tasks, stamp : 0 .. clock]
    /\ \A t \in Tasks : shown[t] \in Seq(Content)
    /\ \A r \in Requests : req[r].pc \in {"idle", "sent", "row", "event", "both", "answered"}
    /\ stream.last \in 0 .. clock
    /\ \A r \in Own : own[r].kind \in {"none", "move", "save", "create", "delete"}

\* Nothing is under way: no request, no event the stream has still to send.
Quiet ==
    /\ \A r \in Requests : req[r].pc = "idle"
    /\ \A r \in Own : own[r].kind = "none"
    /\ stream.on /\ stream.batch = <<>> /\ Fetchable = {}

Current(t) == shown[t] = IF Exists(t) THEN <<row[t]>> ELSE <<>>

\* An event of t that the page passed over: when it was committed, or when the
\* page reconnected, the page had already seen something later (an event, or a
\* task's updated_at to the millisecond), or it had no task to ask from.
PassedOver(t) ==
    \E e \in events \ received :
        /\ e.task = t
        /\ \/ \E d \in received : d.stamp > e.stamp
           \/ \E u \in Tasks : \E c \in committed[u] : Floor(c.upd) > e.stamp
           \/ stream.blank /\ stream.last > e.stamp

\* A page at rest shows each task exactly once and as its row is, and no deleted
\* task, but for these: the last change of the task has no event (sprints,
\* deletions, a request that died between its transactions); the page passed
\* its event over; an answer or the roll-back of a move turned its entry back;
\* its entry was written by two requests of the page at once.  This is what the
\* code's since / last_seen / seen_ids bookkeeping and merging promise together.
PageIsCurrent ==
    Quiet => \A t \in Tasks : \/ Current(t)
                              \/ t \in unannounced
                              \/ PassedOver(t)
                              \/ t \in overwritten
                              \/ t \in mixed

\* The optimistic status of handleTaskMove leaves no trace: once the moves have
\* been answered (or given up), every entry is a version that was committed,
\* unless two moves were in flight at once and the roll-back of one restored the
\* list the other had written.
OnlyCommittedShown ==
    Moving = {} => \A t \in Tasks \ mixed : ToSet(shown[t]) \subseteq committed[t]

\* However often the connection ends, a committed event reaches the page, is
\* passed over, or goes with its task.
EventReachesPage ==
    \A t \in Tasks : \A i \in 1 .. MaxChanges :
        (\E e \in events : e.id = i /\ e.task = t)
            ~> ((\E e \in received : e.id = i) \/ ~Exists(t) \/ PassedOver(t))

=============================================================================
