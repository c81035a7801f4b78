------------------------------- MODULE Sprints -------------------------------
(***************************************************************************)
(* The sprints of one board and their review gate                          *)
(* (services/sprint_lifecycle.py, services/sprint_reviews.py,              *)
(* api/sprints.py): planning, start, completion check, reviewer verdicts,  *)
(* completion with auto-advance, cancellation.                             *)
(*                                                                         *)
(* A request reads, decides and later commits, in steps of its own: the    *)
(* ORM writes what the request decided over whatever is in the row by      *)
(* then, but only the columns it changed.  begin_sprint_review has written *)
(* its sprint, and so holds the row's lock, while it sends prompts to the  *)
(* reviewers.  A request may fail between its steps.                       *)
(***************************************************************************)
EXTENDS Naturals, FiniteSets

CONSTANTS
    Sprints,      \* sprint ids; natural numbers, ordered by position
    Tasks,
    Roles,        \* REVIEW_ROLE_TEMPLATES
    Requests,     \* request slots
    Worker,       \* the slot of the queue worker, which only checks, or None
    None,         \* no sprint, no request
    AutoAdvance,  \* board.auto_advance_sprint
    MaxFailures   \* bound: requests that end before they are done

ASSUME SprintsAreOrdered == Sprints \subseteq Nat
ASSUME NoneIsNoSprint == None \notin Sprints
ASSUME BoardAssumption == AutoAdvance \in BOOLEAN /\ MaxFailures \in Nat
ASSUME WorkerIsASlot == Worker \in Requests \cup {None} /\ None \notin Requests

VARIABLES
    sprint,    \* sprints.status; "none" before creation, "deleted" after
    newer,     \* pairs <<s, u>> of live sprints: s.updated_at is the later one
    ticket,    \* the sprint a task has its sprint_tickets row for
    task,      \* tasks.status; "open" is inbox, in_progress or review
    review,    \* sprint_reviews.status per sprint and role; "none": no row
    created,   \* sprint_reviews.created_ticket_ids
    reworked,  \* one of them became done after the verdict that asked for it
    writer,    \* the request that holds the sprint's row while it dispatches
    pc, req,   \* what each request does next, and what it has read
    failures

board   == <<sprint, newer, ticket, task>>
gate    == <<review, created, reworked>>
control == <<writer, pc, req>>
vars    == <<board, gate, control, failures>>

------------------------------------------------------------------------------
Planned == {"draft", "queued"}
Live    == {"active", "reviewing"}
Closed  == {"completed", "cancelled"}

ReviewStatus == {"none", "pending", "approved", "changes_requested", "skipped"}
NoReviews    == [x \in Roles |-> "none"]

\* One request: the sprint it is about, and the status and reviews it has read.
RequestType ==
    [s : Sprints \cup {None}, was : Live \cup {"none"}, loaded : BOOLEAN,
     seen : [Roles -> ReviewStatus]]

NoRequest == [s |-> None, was |-> "none", loaded |-> FALSE, seen |-> NoReviews]

Exists(s)    == sprint[s] \in Planned \cup Live \cup Closed
TicketsOf(s) == {t \in Tasks : ticket[t] = s}
AllDone(s)   == TicketsOf(s) # {} /\ \A t \in TicketsOf(s) : task[t] = "done"
Approved(s)  == \A x \in Roles : review[s][x] = "approved"

\* updated_at = now; only the order of live sprints is ever looked at.
Forget(s) == {p \in newer : s \notin {p[1], p[2]}}
Touch(s)  == Forget(s) \cup ({s} \X {u \in Sprints \ {s} : sprint[u] \in Live})

First(s, S) == s \in S /\ \A u \in S : s <= u

Goto(r, step, info) ==
    pc' = [pc EXCEPT ![r] = step] /\ req' = [req EXCEPT ![r] = info] /\ UNCHANGED writer
Finish(r) == Goto(r, "idle", NoRequest)

\* An update of the sprint's row waits for the request that holds it.
Free(s) == writer[s] = None

Init ==
    /\ sprint = [s \in Sprints |-> "none"]
    /\ newer = {}
    /\ ticket = [t \in Tasks |-> None]
    /\ task \in [Tasks -> {"none", "backlog"}]
    /\ review = [s \in Sprints |-> NoReviews]
    /\ created = [s \in Sprints |-> [x \in Roles |-> {}]]
    /\ reworked = [s \in Sprints |-> [x \in Roles |-> FALSE]]
    /\ writer = [s \in Sprints |-> None]
    /\ pc = [r \in Requests |-> "idle"]
    /\ req = [r \in Requests |-> NoRequest]
    /\ failures = 0

------------------------------------------------------------------------------
(***************************************************************************)
(* Planning                                                                *)
(***************************************************************************)
NewStatus == IF AutoAdvance THEN "queued" ELSE "draft"

\* The next sprint takes the next position.
Unused(s) == sprint[s] = "none" /\ \A u \in Sprints : u < s => sprint[u] # "none"

CreateSprint(s) ==
    /\ Unused(s)
    /\ sprint' = [sprint EXCEPT ![s] = NewStatus]
    /\ UNCHANGED <<newer, ticket, task, gate, control, failures>>

\* Fault: the sprint is started before the flush that gives it its id.
AutoFromBacklog_BeforeFlush(r, s, ts, start) ==
    /\ pc[r] = "idle"
    /\ Unused(s)
    /\ ts # {} /\ \A t \in ts : task[t] # "none" /\ ticket[t] = None
    /\ sprint' = [sprint EXCEPT ![s] = NewStatus]
    /\ ticket' = [t \in Tasks |-> IF t \in ts THEN s ELSE ticket[t]]
    /\ Goto(r, IF start THEN "try_start" ELSE "maybe_start", NoRequest)
    /\ UNCHANGED <<newer, task, gate, failures>>

\* auto_sprint_from_backlog: a sprint with tickets for tasks that have none, from
\* the backlog or still flagged is_backlog; the flag is not modelled, and any
\* task may have it.  Then it is started on request, or whatever sprint is next.
AutoFromBacklog(r, s, ts, start) ==
    /\ pc[r] = "idle"
    /\ Unused(s)
    /\ ts # {} /\ \A t \in ts : task[t] # "none" /\ ticket[t] = None
    /\ sprint' = [sprint EXCEPT ![s] = NewStatus]
    /\ ticket' = [t \in Tasks |-> IF t \in ts THEN s ELSE ticket[t]]
    /\ Goto(r, IF start THEN "try_start" ELSE "maybe_start", [NoRequest EXCEPT !.s = s])
    /\ UNCHANGED <<newer, task, gate, failures>>

\* add_sprint_tickets: any sprint, whatever its status; a task that is in a
\* sprint already is skipped.
AddTicket(r, s, t) ==
    /\ pc[r] = "idle"
    /\ Exists(s)
    /\ task[t] # "none" /\ ticket[t] = None
    /\ ticket' = [ticket EXCEPT ![t] = s]
    /\ Goto(r, "maybe_start", NoRequest)
    /\ UNCHANGED <<sprint, newer, task, gate, failures>>

RemoveTicket(t) ==
    /\ ticket[t] # None
    /\ ticket' = [ticket EXCEPT ![t] = None]
    /\ UNCHANGED <<sprint, newer, task, gate, control, failures>>

\* update_sprint with status "queued", and delete_sprint.
QueueSprint(r, s) ==
    /\ pc[r] = "idle"
    /\ sprint[s] = "draft"
    /\ Goto(r, "queue", [NoRequest EXCEPT !.s = s])
    /\ UNCHANGED <<board, gate, failures>>

CommitQueue(r) ==
    LET s == req[r].s IN
    /\ pc[r] = "queue" /\ Free(s)
    /\ IF Exists(s)
       THEN sprint' = [sprint EXCEPT ![s] = "queued"] /\ newer' = Forget(s)
       ELSE UNCHANGED <<sprint, newer>>
    /\ Finish(r)
    /\ UNCHANGED <<ticket, task, gate, failures>>

DeleteSprint(r, s) ==
    /\ pc[r] = "idle"
    /\ sprint[s] \in Planned
    /\ Goto(r, "delete", [NoRequest EXCEPT !.s = s])
    /\ UNCHANGED <<board, gate, failures>>

\* Fault: no cascade from the sprint to its tickets.
CommitDelete_KeepsTickets(r) ==
    LET s == req[r].s IN
    /\ pc[r] = "delete" /\ Free(s)
    /\ sprint' = IF Exists(s) /\ review[s] = NoReviews
                 THEN [sprint EXCEPT ![s] = "deleted"] ELSE sprint
    /\ Finish(r)
    /\ UNCHANGED <<newer, ticket, task, gate, failures>>

\* sprint_tickets rows go with the sprint; a sprint_reviews row keeps it.
CommitDelete(r) ==
    LET s == req[r].s IN
    /\ pc[r] = "delete" /\ Free(s)
    /\ IF Exists(s) /\ review[s] = NoReviews
       THEN /\ sprint' = [sprint EXCEPT ![s] = "deleted"]
            /\ newer' = Forget(s)
            /\ ticket' = [t \in Tasks |-> IF ticket[t] = s THEN None ELSE ticket[t]]
       ELSE UNCHANGED <<sprint, newer, ticket>>
    /\ Finish(r)
    /\ UNCHANGED <<task, gate, failures>>

------------------------------------------------------------------------------
(***************************************************************************)
(* Start                                                                   *)
(***************************************************************************)
OtherActive(s) == \E u \in Sprints \ {s} : sprint[u] = "active"
MayStart(s)    == sprint[s] \in Planned /\ ~OtherActive(s)

\* Fault: only the other sprints are looked at.
StartSprint_AnyStatus(r, s) ==
    /\ pc[r] = "idle"
    /\ Exists(s) /\ ~OtherActive(s)
    /\ Goto(r, "start", [NoRequest EXCEPT !.s = s])
    /\ UNCHANGED <<board, gate, failures>>

StartSprint(r, s) ==
    /\ pc[r] = "idle"
    /\ MayStart(s)
    /\ Goto(r, "start", [NoRequest EXCEPT !.s = s])
    /\ UNCHANGED <<board, gate, failures>>

\* start_sprint called by auto_sprint_from_backlog ...
TryStart(r) ==
    /\ pc[r] = "try_start"
    /\ IF MayStart(req[r].s) THEN Goto(r, "start", req[r]) ELSE Finish(r)
    /\ UNCHANGED <<board, gate, failures>>

\* ... and by _maybe_start_next_loaded_sprint, on a board where no sprint is
\* active or in review.
MaybeStart(r) ==
    LET loaded == {s \in Sprints : sprint[s] \in Planned /\ TicketsOf(s) # {}}
        due == AutoAdvance /\ loaded # {} /\ \A s \in Sprints : sprint[s] \notin Live
    IN
    /\ pc[r] = "maybe_start"
    /\ \/ /\ due
          /\ \E s \in Sprints : First(s, loaded) /\ Goto(r, "start", [NoRequest EXCEPT !.s = s])
       \/ ~due /\ Finish(r)
    /\ UNCHANGED <<board, gate, failures>>

\* Fault: a database without the unique index on active sprints.
CommitStart_NoIndex(r) ==
    LET s == req[r].s IN
    /\ pc[r] = "start" /\ Free(s)
    /\ Exists(s)
    /\ sprint' = [sprint EXCEPT ![s] = "active"]
    /\ newer' = Touch(s)
    /\ task' = [t \in Tasks |-> IF ticket[t] = s THEN "open" ELSE task[t]]
    /\ Finish(r)
    /\ UNCHANGED <<ticket, gate, failures>>

\* ix_sprints_board_id_active lets one active sprint of the board through.
CommitStart(r) ==
    LET s == req[r].s IN
    /\ pc[r] = "start" /\ Free(s)
    /\ Exists(s) /\ ~OtherActive(s)
    /\ sprint' = [sprint EXCEPT ![s] = "active"]
    /\ newer' = Touch(s)
    /\ task' = [t \in Tasks |-> IF ticket[t] = s THEN "open" ELSE task[t]]
    /\ Finish(r)
    /\ UNCHANGED <<ticket, gate, failures>>

\* It waits for one that is being taken into review.
StartRefused(r) ==
    /\ pc[r] = "start" /\ Free(req[r].s)
    /\ \/ ~Exists(req[r].s)
       \/ \E u \in Sprints \ {req[r].s} : sprint[u] = "active" /\ Free(u)
    /\ Finish(r)
    /\ UNCHANGED <<board, gate, failures>>

------------------------------------------------------------------------------
(***************************************************************************)
(* Review                                                                  *)
(***************************************************************************)

\* Whether check_sprint_completion dispatches reviewers again.  A pending review
\* is asked for again after sprint_review_pending_retry_minutes, which may pass
\* between any two steps.
ReviewAgain(s) ==
    LET with(v) == {x \in Roles : review[s][x] = v} IN
    IF with("changes_requested") # {}
    THEN /\ \A x \in with("changes_requested") :
               created[s][x] # {} /\ \A t \in created[s][x] : task[t] = "done"
         /\ \E x \in with("changes_requested") : reworked[s][x]
    ELSE \/ with("none") = Roles
         \/ with("skipped") # {}
         \/ with("pending") # {}

\* begin_sprint_review has the sprint in hand; if loaded, also the reviews.
Review(r, s, loaded) ==
    Goto(r, "review", [s |-> s, was |-> sprint[s], loaded |-> loaded,
                       seen |-> IF loaded THEN review[s] ELSE NoReviews])

Latest(s) == /\ sprint[s] \in Live
             /\ \A u \in Sprints \ {s} : sprint[u] \in Live => <<s, u>> \in newer

\* Fault: only sprints that are in review already are looked at.
CheckCompletion_InReview(r) ==
    /\ pc[r] = "idle"
    /\ \E s \in Sprints :
          /\ Latest(s) /\ AllDone(s)
          /\ sprint[s] = "reviewing" /\ ReviewAgain(s)
          /\ Review(r, s, TRUE)
    /\ UNCHANGED <<board, gate, failures>>

\* check_sprint_completion, by the worker's pulse, a board snapshot or a task
\* that became done: looks at the latest live sprint only.
CheckCompletion(r) ==
    /\ pc[r] = "idle"
    /\ \E s \in Sprints :
          /\ Latest(s) /\ AllDone(s)
          /\ sprint[s] = "reviewing" => ReviewAgain(s)
          /\ Review(r, s, sprint[s] = "reviewing")
    /\ UNCHANGED <<board, gate, failures>>

RunReview(r, s) ==
    /\ pc[r] = "idle"
    /\ sprint[s] \in Live /\ AllDone(s)
    /\ Review(r, s, FALSE)
    /\ UNCHANGED <<board, gate, failures>>

\* The sprint's row is written, not committed, and the reviews are read; rows
\* that were loaded before are not read again.
LockReview(r) ==
    LET q == req[r] IN
    /\ pc[r] = "review" /\ Free(q.s)
    /\ Exists(q.s)
    /\ writer' = [writer EXCEPT ![q.s] = r]
    /\ pc' = [pc EXCEPT ![r] = "dispatch"]
    /\ req' = [req EXCEPT ![r] = [s |-> q.s, was |-> q.was, loaded |-> q.loaded,
                                  seen |-> IF q.loaded THEN q.seen ELSE review[q.s]]]
    /\ UNCHANGED <<board, gate, failures>>

ReviewFails(r) ==
    /\ pc[r] = "review" /\ Free(req[r].s)
    /\ ~Exists(req[r].s)
    /\ Finish(r)
    /\ UNCHANGED <<board, gate, failures>>

Unlock(r) ==
    /\ writer' = [s \in Sprints |-> IF writer[s] = r THEN None ELSE writer[s]]
    /\ pc' = [pc EXCEPT ![r] = "idle"]
    /\ req' = [req EXCEPT ![r] = NoRequest]

\* Fault: reviews that approved are sent out again as well.
CommitReview_ResetsApproved(r, offline) ==
    LET q == req[r]  s == req[r].s IN
    /\ pc[r] = "dispatch"
    /\ sprint' = IF q.was = "active" THEN [sprint EXCEPT ![s] = "reviewing"] ELSE sprint
    /\ newer' = Touch(s)
    /\ review' = [review EXCEPT ![s] = [x \in Roles |->
                    IF x \in offline THEN "skipped" ELSE "pending"]]
    /\ created' = [created EXCEPT ![s] = [x \in Roles |-> {}]]
    /\ reworked' = [reworked EXCEPT ![s] = [x \in Roles |-> FALSE]]
    /\ Unlock(r)
    /\ UNCHANGED <<ticket, task, failures>>

\* begin_sprint_review: the sprint is in review and every role that has not
\* approved is asked (again); a reviewer that cannot be reached is skipped.
CommitReview(r, offline) ==
    LET q == req[r]  s == req[r].s
        asked == {x \in Roles : q.seen[x] # "approved"}
        reset == {x \in Roles : q.seen[x] = "changes_requested"}
    IN
    /\ pc[r] = "dispatch"
    /\ offline \subseteq asked
    /\ sprint' = IF q.was = "active" THEN [sprint EXCEPT ![s] = "reviewing"] ELSE sprint
    /\ newer' = Touch(s)
    /\ review' = [review EXCEPT ![s] = [x \in Roles |->
                    IF x \in offline THEN "skipped"
                    ELSE IF x \in asked /\ q.seen[x] # "pending" THEN "pending"
                    ELSE review[s][x]]]
    /\ created' = [created EXCEPT ![s] = [x \in Roles |->
                    IF x \in reset THEN {} ELSE created[s][x]]]
    /\ reworked' = [reworked EXCEPT ![s] = [x \in Roles |->
                    reworked[s][x] /\ x \notin reset]]
    /\ Unlock(r)
    /\ UNCHANGED <<ticket, task, failures>>

\* A reviewer's verdict and the tickets it names, read and committed in one
\* step: a sprint in review has a row for every role.
Verdict(r, s, x, v, ids) ==
    /\ pc[r] = "idle"
    /\ sprint[s] = "reviewing"
    /\ \A t \in ids : task[t] # "none"
    /\ review' = [review EXCEPT ![s][x] = v]
    /\ created' = [created EXCEPT ![s][x] = ids]
    /\ reworked' = [reworked EXCEPT ![s][x] = FALSE]
    /\ Goto(r, "gate", [NoRequest EXCEPT !.s = s])
    /\ UNCHANGED <<board, failures>>

\* Fault: one approval is enough.
PassGate_Any(r) ==
    LET s == req[r].s IN
    /\ pc[r] = "gate"
    /\ IF sprint[s] \in Live /\ \E x \in Roles : review[s][x] = "approved"
       THEN Goto(r, "complete", req[r]) ELSE Finish(r)
    /\ UNCHANGED <<board, gate, failures>>

\* Fault: the reviewer whose verdict it is counts the others only.
PassGate_Forgotten(r) ==
    /\ pc[r] = "gate"
    /\ Finish(r)
    /\ UNCHANGED <<board, gate, failures>>

\* sprint_review_gate after the verdict's commit, from freshly read rows.
PassGate(r) ==
    LET s == req[r].s IN
    /\ pc[r] = "gate"
    /\ IF sprint[s] \in Live /\ Approved(s)
       THEN Goto(r, "complete", req[r]) ELSE Finish(r)
    /\ UNCHANGED <<board, gate, failures>>

------------------------------------------------------------------------------
(***************************************************************************)
(* Completion and cancellation                                             *)
(***************************************************************************)

\* POST /sprints/{id}/complete closes an active sprint without review.
Complete(r, s) ==
    /\ pc[r] = "idle"
    /\ sprint[s] = "active"
    /\ Goto(r, "complete", [NoRequest EXCEPT !.s = s])
    /\ UNCHANGED <<board, gate, failures>>

\* complete_sprint: done tickets, and done tickets that reviews created, are
\* archived; the others stay as they are.
CommitComplete(r) ==
    LET s == req[r].s
        named == TicketsOf(s) \cup UNION {created[s][x] : x \in Roles}
    IN
    /\ pc[r] = "complete" /\ Free(s)
    /\ IF Exists(s)
       THEN /\ sprint' = [sprint EXCEPT ![s] = "completed"]
            /\ newer' = Forget(s)
            /\ task' = [t \in Tasks |-> IF t \in named /\ task[t] = "done"
                                        THEN "archived" ELSE task[t]]
            /\ IF AutoAdvance THEN Goto(r, "advance", NoRequest) ELSE Finish(r)
       ELSE UNCHANGED <<sprint, newer, task>> /\ Finish(r)
    /\ UNCHANGED <<ticket, gate, failures>>

\* The first planned sprint with open work, unless another is active.
Advance(r) ==
    LET next == {s \in Sprints : /\ sprint[s] \in Planned
                                 /\ \E t \in TicketsOf(s) : task[t] \notin {"done", "archived"}}
        startable(s) == First(s, next) /\ MayStart(s)
    IN
    /\ pc[r] = "advance"
    /\ \/ \E s \in Sprints : startable(s) /\ Goto(r, "start", [NoRequest EXCEPT !.s = s])
       \/ (\A s \in Sprints : ~startable(s)) /\ Finish(r)
    /\ UNCHANGED <<board, gate, failures>>

Cancel(r, s) ==
    /\ pc[r] = "idle"
    /\ sprint[s] \in Planned \cup {"active"}
    /\ Goto(r, "cancel", [NoRequest EXCEPT !.s = s])
    /\ UNCHANGED <<board, gate, failures>>

CommitCancel(r) ==
    LET s == req[r].s IN
    /\ pc[r] = "cancel" /\ Free(s)
    /\ IF Exists(s)
       THEN /\ sprint' = [sprint EXCEPT ![s] = "cancelled"]
            /\ newer' = Forget(s)
            /\ task' = [t \in Tasks |-> IF ticket[t] # s THEN task[t]
                                        ELSE IF task[t] = "done" THEN "archived" ELSE "backlog"]
       ELSE UNCHANGED <<sprint, newer, task>>
    /\ Finish(r)
    /\ UNCHANGED <<ticket, gate, failures>>

------------------------------------------------------------------------------
(***************************************************************************)
(* Tasks, as far as sprints see them                                       *)
(***************************************************************************)
CreateTask(t) ==
    /\ task[t] = "none"
    /\ \E st \in {"backlog", "open"} : task' = [task EXCEPT ![t] = st]
    /\ UNCHANGED <<sprint, newer, ticket, gate, control, failures>>

\* A ticket that a reviewer creates joins a sprint in review.
CreateRemediation(t) ==
    /\ task[t] = "none"
    /\ \E s \in Sprints : /\ sprint[s] = "reviewing"
                          /\ ticket' = [ticket EXCEPT ![t] = s]
    /\ task' = [task EXCEPT ![t] = "open"]
    /\ UNCHANGED <<sprint, newer, gate, control, failures>>

\* STATUS_TRANSITIONS, with triage as backlog.
Moves == {<<"backlog", "open">>, <<"backlog", "archived">>, <<"open", "backlog">>,
          <<"open", "done">>, <<"done", "open">>, <<"done", "archived">>,
          <<"archived", "backlog">>}

MoveTask(t) ==
    /\ \E m \in Moves :
          /\ task[t] = m[1]
          /\ task' = [task EXCEPT ![t] = m[2]]
          /\ reworked' = [s \in Sprints |-> [x \in Roles |->
                            \/ reworked[s][x]
                            \/ /\ review[s][x] = "changes_requested"
                               /\ m[2] = "done" /\ t \in created[s][x]]]
    /\ UNCHANGED <<sprint, newer, ticket, review, created, control, failures>>

------------------------------------------------------------------------------
RequestFails(r) ==
    /\ pc[r] # "idle" /\ failures < MaxFailures
    /\ failures' = failures + 1
    /\ Unlock(r)
    /\ UNCHANGED <<board, gate>>

Arrive(r) ==
    \/ \E s \in Sprints, ts \in SUBSET Tasks, start \in BOOLEAN : AutoFromBacklog(r, s, ts, start)
    \/ \E s \in Sprints, t \in Tasks : AddTicket(r, s, t)
    \/ \E s \in Sprints :
          \/ QueueSprint(r, s) \/ DeleteSprint(r, s) \/ StartSprint(r, s)
          \/ RunReview(r, s) \/ Complete(r, s) \/ Cancel(r, s)
    \/ \E s \in Sprints, x \in Roles, v \in {"approved", "changes_requested"},
          ids \in SUBSET Tasks : Verdict(r, s, x, v, ids)

Progress(r) ==
    \/ CommitQueue(r) \/ CommitDelete(r)
    \/ TryStart(r) \/ MaybeStart(r) \/ CommitStart(r) \/ StartRefused(r)
    \/ LockReview(r) \/ ReviewFails(r)
    \/ \E offline \in SUBSET Roles : CommitReview(r, offline)
    \/ PassGate(r)
    \/ CommitComplete(r) \/ Advance(r) \/ CommitCancel(r)

Outside ==
    \/ \E s \in Sprints : CreateSprint(s)
    \/ \E t \in Tasks : RemoveTicket(t) \/ CreateTask(t) \/ CreateRemediation(t) \/ MoveTask(t)

Next ==
    \/ Outside
    \/ \E r \in Requests \ {Worker} : Arrive(r)
    \/ \E r \in Requests : CheckCompletion(r) \/ Progress(r) \/ RequestFails(r)

Spec == Init /\ [][Next]_vars

\* A request that has begun goes on (row locks are granted in turn), and the
\* worker's loop keeps checking.
FairSpec ==
    /\ Spec
    /\ \A r \in Requests : SF_vars(Progress(r))
    /\ \A r \in Requests \cap {Worker} : WF_vars(CheckCompletion(r))

------------------------------------------------------------------------------
(***************************************************************************)
(* Properties                                                              *)
(***************************************************************************)

\* Rows and requests have the shapes of their columns and payloads.
TypeOK ==
    /\ sprint \in [Sprints -> Planned \cup Live \cup Closed \cup {"none", "deleted"}]
    /\ newer \subseteq Sprints \X Sprints
    /\ ticket \in [Tasks -> Sprints \cup {None}]
    /\ task \in [Tasks -> {"none", "backlog", "open", "done", "archived"}]
    /\ review \in [Sprints -> [Roles -> ReviewStatus]]
    /\ created \in [Sprints -> [Roles -> SUBSET Tasks]]
    /\ reworked \in [Sprints -> [Roles -> BOOLEAN]]
    /\ writer \in [Sprints -> Requests \cup {None}]
    /\ pc \in [Requests -> {"idle", "queue", "delete", "try_start", "maybe_start", "start",
                            "review", "dispatch", "gate", "complete", "advance", "cancel"}]
    /\ req \in [Requests -> RequestType]
    /\ \A r \in Requests : pc[r] \notin {"idle", "maybe_start", "advance"} => req[r].s \in Sprints
    /\ failures \in 0..MaxFailures

\* "Another sprint is already active on this board": however starts, manual
\* and automatic, interleave, one sprint of the board is active at a time.
OneActiveSprint ==
    \A s, u \in Sprints : (sprint[s] = "active" /\ sprint[u] = "active") => s = u

\* Tickets belong to sprints that exist, also when a sprint is deleted while
\* it is being started, reviewed or filled.
TicketsHaveSprints == \A t \in Tasks : ticket[t] # None => Exists(ticket[t])

\* "Completed or cancelled sprints can only be renamed": no request brings a
\* closed sprint back.
ClosedStaysClosed ==
    [][\A s \in Sprints : sprint[s] \in Closed => sprint'[s] \notin Planned \cup Live]_vars

\* "The sprint does not close until all review gates pass."
GateClosesApproved ==
    [][\A s \in Sprints : (sprint[s] = "reviewing" /\ sprint'[s] = "completed")
                             => Approved(s)]_vars

\* An approval is withdrawn only by its reviewer: asking the other reviewers
\* again leaves it standing.
ApprovalStands ==
    [][\A s \in Sprints, x \in Roles : review[s][x] = "approved"
          => review'[s][x] \in {"approved", "changes_requested"}]_vars

\* "Persist one review verdict and complete the sprint if all reviewers
\* approve": a sprint that every reviewer approved does not stay in review.
ApprovedSprintCloses ==
    \A s \in Sprints : (sprint[s] = "reviewing" /\ Approved(s))
        ~> ~(sprint[s] = "reviewing" /\ Approved(s))

\* "Start review gates for active all-done sprints whose transition event was
\* missed": a finished sprint does not stay active.
FinishedSprintIsReviewed ==
    \A s \in Sprints : (sprint[s] = "active" /\ AllDone(s))
        ~> ~(sprint[s] = "active" /\ AllDone(s))
==============================================================================
