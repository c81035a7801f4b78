------------------------------ MODULE Approvals ------------------------------
(***************************************************************************)
(* The approvals of Mission Control (api/approvals.py,                     *)
(* services/approval_task_links.py) and the deletion of tasks that they    *)
(* are linked to (api/tasks.py), as concurrent requests over PostgreSQL    *)
(* at its default isolation level, READ COMMITTED.                         *)
(*                                                                         *)
(* status, board, primary and links are the committed rows; a request's    *)
(* own writes become visible in its commit step.  lock, share and rowLock  *)
(* are the row locks of the requests in flight: lock[t] is SELECT ... FOR  *)
(* UPDATE on a task row, share[r] the FOR KEY SHARE locks that the foreign *)
(* key checks of r's inserts and updates take, rowLock[a] the lock of an   *)
(* uncommitted UPDATE or DELETE of an approval row.                        *)
(***************************************************************************)
EXTENDS Naturals, FiniteSets

CONSTANTS
    Tasks,      \* task ids; natural numbers, ordered like the UUIDs
    Approvals,  \* approval ids that may ever be allocated (uuid4)
    Boards,     \* boards whose approvals may name the tasks
    Requests,   \* request slots: how many requests run at a time
    None        \* SQL NULL, and "no lock holder"

ASSUME TasksAreOrdered == Tasks \subseteq Nat
ASSUME TasksAreFinite == IsFiniteSet(Tasks)
ASSUME NoneIsNoId == None \notin Tasks \cup Requests \cup Boards \cup Approvals

VARIABLES
    tasks,    \* task rows that exist
    status,   \* approvals.status; "none" before insertion, "deleted" after
    board,    \* approvals.board_id
    primary,  \* approvals.task_id
    links,    \* approval_task_links rows, per approval
    pc,       \* where each request is
    req,      \* what each request was asked to do and what it has read
    lock, share, rowLock

rows  == <<tasks, status, board, primary, links>>
locks == <<lock, share, rowLock>>
vars  == <<rows, pc, req, locks>>

------------------------------------------------------------------------------
Decided    == {"approved", "rejected"}
ApprovalStatus == {"pending"} \cup Decided

\* One request: create an approval, update one, or delete a task.
\*   s, prior   the status it asks for and the one it read
\*   ts         the task rows it must lock, and those its writes refer to
\*   t          delete: the task
\*   mine, cut  delete: the approvals whose primary is t, and those with a
\*              link row for t, when its statements ran
\*   heir       delete: the task that becomes primary of each of mine
\*              (None: no link is left and the approval is deleted too)
RequestType ==
    [op : {"create", "update", "delete"}, a : Approvals \cup {None},
     b : Boards \cup {None}, s : ApprovalStatus \cup {"none"},
     prior : ApprovalStatus \cup {"none"}, ts : SUBSET Tasks,
     p : Tasks \cup {None}, t : Tasks \cup {None}, mine : SUBSET Approvals,
     cut : SUBSET Approvals, heir : [Approvals -> Tasks \cup {None}]]

NoHeir == [a \in Approvals |-> None]

NoRequest == [op |-> "create", a |-> None, b |-> None, s |-> "none",
              prior |-> "none", ts |-> {}, p |-> None, t |-> None,
              mine |-> {}, cut |-> {}, heir |-> NoHeir]

Exists(a) == status[a] \in ApprovalStatus

\* Tasks an approval counts for: its link rows or, for a legacy row that has
\* none, its task_id.
TasksOf(a) == IF links[a] # {} THEN links[a] ELSE {primary[a]} \ {None}

\* Fault: the legacy rows (task_id set, no link rows) are not looked at.
Conflicts_LinkedOnly(b, ts, except) ==
    {a \in Approvals : /\ status[a] = "pending" /\ board[a] = b /\ a # except
                       /\ links[a] \cap ts # {}}

\* pending_approval_conflicts_by_task: the board's pending approvals, but for
\* the request's own, that count for one of the tasks.
Conflicts(b, ts, except) ==
    {a \in Approvals : /\ status[a] = "pending" /\ board[a] = b /\ a # except
                       /\ TasksOf(a) \cap ts # {}}

------------------------------------------------------------------------------
\* The database before the requests: some legacy approvals, each naming one
\* task by task_id only, at most one of them pending per task.
Init ==
    /\ tasks = Tasks
    /\ status \in [Approvals -> {"none", "pending", "rejected"}]
    /\ board \in [Approvals -> Boards \cup {None}]
    /\ primary \in [Approvals -> Tasks \cup {None}]
    /\ links = [a \in Approvals |-> {}]
    /\ \A a \in Approvals : /\ (status[a] = "none") <=> (board[a] = None)
                            /\ (status[a] = "none") <=> (primary[a] = None)
    /\ \A a, c \in Approvals :
          (a # c /\ status[a] = "pending" /\ status[c] = "pending")
             => primary[a] # primary[c]
    /\ pc = [r \in Requests |-> "idle"]
    /\ req = [r \in Requests |-> NoRequest]
    /\ lock = [t \in Tasks |-> None]
    /\ share = [r \in Requests |-> {}]
    /\ rowLock = [a \in Approvals |-> None]

\* End of the request's transaction: get_session rolls back what is not
\* committed, and the locks go either way.
Finish(r) ==
    /\ pc' = [pc EXCEPT ![r] = "idle"]
    /\ req' = [req EXCEPT ![r] = NoRequest]
    /\ lock' = [t \in Tasks |-> IF lock[t] = r THEN None ELSE lock[t]]
    /\ share' = [share EXCEPT ![r] = {}]
    /\ rowLock' = [a \in Approvals |-> IF rowLock[a] = r THEN None ELSE rowLock[a]]

\* FOR UPDATE is refused while another request locks or key-shares the row;
\* FOR KEY SHARE only while another request locks it.
Sharers(t)     == {q \in Requests : t \in share[q]}
CanLock(r, t)  == lock[t] \in {None, r} /\ Sharers(t) \subseteq {r}
CanShare(r, t) == lock[t] \in {None, r}

------------------------------------------------------------------------------
(***************************************************************************)
(* POST /approvals and PATCH /approvals/{id}                               *)
(***************************************************************************)

\* An id is allocated once.
Fresh(a) == /\ status[a] = "none"
            /\ \A q \in Requests : req[q].a # a

\* create_approval up to the lock: only a pending approval is checked.
CreateApproval(r, a, b, s, ts, p) ==
    /\ pc[r] = "idle"
    /\ Fresh(a)
    /\ IF ts = {} THEN p = None ELSE p \in ts
    /\ req' = [req EXCEPT ![r] = [NoRequest EXCEPT !.op = "create", !.a = a, !.b = b,
                                                   !.s = s, !.ts = ts, !.p = p]]
    /\ pc' = [pc EXCEPT ![r] = IF s = "pending" /\ ts # {} THEN "lock" ELSE "write"]
    /\ UNCHANGED <<rows, locks>>

\* update_approval up to the lock: reads the row, and for an approval that
\* becomes pending again, the tasks it counts for.
UpdateApproval(r, a, s) ==
    /\ pc[r] = "idle"
    /\ Exists(a)
    /\ LET again == s = "pending" /\ status[a] # "pending"
           ts    == IF again THEN TasksOf(a) ELSE {}
       IN  /\ req' = [req EXCEPT ![r] = [NoRequest EXCEPT !.op = "update", !.a = a,
                                             !.b = board[a], !.s = s,
                                             !.prior = status[a], !.ts = ts]]
           /\ pc' = [pc EXCEPT ![r] = IF ts # {} THEN "lock" ELSE "write"]
    /\ UNCHANGED <<rows, locks>>

\* The rows lock_tasks_for_approval still has to lock, and the next of them:
\* ORDER BY id.  A row that is gone is not locked.
ToLock(r) == {t \in req[r].ts \cap tasks : lock[t] # r}

\* Fault: no ORDER BY, any row may come next.
NextToLock_Unordered(r) == ToLock(r)

NextToLock(r) == {t \in ToLock(r) : \A u \in ToLock(r) : t <= u}

\* One row of SELECT ... FOR UPDATE; waits while the row is not free.
LockTask(r) ==
    /\ pc[r] = "lock"
    /\ \E t \in NextToLock(r) : /\ CanLock(r, t)
                                /\ lock' = [lock EXCEPT ![t] = r]
    /\ UNCHANGED <<rows, pc, req, share, rowLock>>

\* Fault: the check runs before the rows are locked.
CheckConflicts_Unlocked(r) ==
    /\ pc[r] = "lock"
    /\ Conflicts(req[r].b, req[r].ts, req[r].a) = {}
    /\ pc' = [pc EXCEPT ![r] = "write"]
    /\ UNCHANGED <<rows, req, locks>>

\* _ensure_no_pending_approval_conflicts after the lock: go on ...
CheckConflicts(r) ==
    /\ pc[r] = "lock"
    /\ ToLock(r) = {}
    /\ Conflicts(req[r].b, req[r].ts, req[r].a) = {}
    /\ pc' = [pc EXCEPT ![r] = "write"]
    /\ UNCHANGED <<rows, req, locks>>

\* ... or answer 409.
RejectConflict(r) ==
    /\ pc[r] = "lock"
    /\ ToLock(r) = {}
    /\ Conflicts(req[r].b, req[r].ts, req[r].a) # {}
    /\ Finish(r)
    /\ UNCHANGED rows

\* The foreign key check of one inserted or updated row: a key-share lock on
\* the task it refers to, the approval's own task_id first.
ToShare(r) == IF req[r].op = "update" THEN {} ELSE req[r].ts \ share[r]

ShareTask(r) ==
    /\ pc[r] = "write"
    /\ \E t \in ToShare(r) \cap tasks :
          /\ req[r].p \in ToShare(r) => t = req[r].p
          /\ CanShare(r, t)
          /\ share' = [share EXCEPT ![r] = @ \cup {t}]
    /\ UNCHANGED <<rows, pc, req, lock, rowLock>>

\* The row it refers to is gone: the statement fails.
ForeignKeyError(r) ==
    /\ pc[r] = "write"
    /\ ToShare(r) \ tasks # {}
    /\ Finish(r)
    /\ UNCHANGED rows

\* Fault: the primary is linked even when there is none.
CommitCreate_LinksPrimary(r) ==
    LET q == req[r] IN
    /\ pc[r] = "write" /\ q.op = "create"
    /\ ToShare(r) = {}
    /\ status'  = [status  EXCEPT ![q.a] = q.s]
    /\ board'   = [board   EXCEPT ![q.a] = q.b]
    /\ primary' = [primary EXCEPT ![q.a] = q.p]
    /\ links'   = [links   EXCEPT ![q.a] = q.ts \cup {q.p}]
    /\ Finish(r)
    /\ UNCHANGED tasks

\* The approval row and its link rows are inserted in one transaction.
CommitCreate(r) ==
    LET q == req[r] IN
    /\ pc[r] = "write" /\ q.op = "create"
    /\ ToShare(r) = {}
    /\ status'  = [status  EXCEPT ![q.a] = q.s]
    /\ board'   = [board   EXCEPT ![q.a] = q.b]
    /\ primary' = [primary EXCEPT ![q.a] = q.p]
    /\ links'   = [links   EXCEPT ![q.a] = q.ts]
    /\ Finish(r)
    /\ UNCHANGED tasks

\* The row's UPDATE writes the status only when it differs from the one the
\* request read; it waits for a deletion in flight and fails if the row is gone.
CommitUpdate(r) ==
    LET q == req[r] IN
    /\ pc[r] = "write" /\ q.op = "update"
    /\ rowLock[q.a] = None
    /\ status' = IF Exists(q.a) /\ q.s # q.prior
                 THEN [status EXCEPT ![q.a] = q.s] ELSE status
    /\ Finish(r)
    /\ UNCHANGED <<tasks, board, primary, links>>

------------------------------------------------------------------------------
(***************************************************************************)
(* DELETE /tasks/{id}: delete_task_and_related_records                     *)
(***************************************************************************)

\* The statements up to the task's own DELETE: link rows of t go, approvals
\* whose task_id is t get their first remaining task, or are deleted.  A
\* second deletion of the same task waits for the first.
BeginDelete(r, t, heir) ==
    LET mine == {a \in Approvals : Exists(a) /\ primary[a] = t}
        rest(a) == links[a] \ {t}
    IN
    /\ pc[r] = "idle"
    /\ t \in tasks
    /\ \A q \in Requests : req[q].t # t
    /\ \A a \in mine : rowLock[a] = None
    /\ \A a \in Approvals : IF a \in mine /\ rest(a) # {}
                            THEN heir[a] \in rest(a) ELSE heir[a] = None
    /\ req' = [req EXCEPT ![r] = [NoRequest EXCEPT !.op = "delete", !.t = t,
                                       !.ts = {heir[a] : a \in mine} \ {None},
                                       !.mine = mine,
                                       !.cut = {a \in Approvals : t \in links[a]},
                                       !.heir = heir]]
    /\ pc' = [pc EXCEPT ![r] = "write"]
    /\ rowLock' = [a \in Approvals |-> IF a \in mine THEN r ELSE rowLock[a]]
    /\ UNCHANGED <<rows, lock, share>>

\* Fault: the foreign keys do not stop the deletion.
LateReferences_Ignored(r) == {}

\* Rows that refer to t and were committed after the deletion's statements.
LateReferences(r) ==
    {a \in Approvals : /\ Exists(a)
                       /\ \/ req[r].t \in links[a] /\ a \notin req[r].cut
                          \/ primary[a] = req[r].t /\ a \notin req[r].mine}

\* Fault: an approval that loses its last task is kept.
CommitDelete_KeepsOrphans(r) ==
    LET q == req[r] IN
    /\ pc[r] = "write" /\ q.op = "delete"
    /\ ToShare(r) = {}
    /\ CanLock(r, q.t)
    /\ LateReferences(r) = {}
    /\ tasks'   = tasks \ {q.t}
    /\ links'   = [a \in Approvals |-> links[a] \ {q.t}]
    /\ primary' = [a \in Approvals |-> IF a \in q.mine THEN q.heir[a] ELSE primary[a]]
    /\ Finish(r)
    /\ UNCHANGED <<board, status>>

\* DELETE of the task row and commit; waits for the row's locks.
CommitDelete(r) ==
    LET q == req[r] IN
    /\ pc[r] = "write" /\ q.op = "delete"
    /\ ToShare(r) = {}
    /\ CanLock(r, q.t)
    /\ LateReferences(r) = {}
    /\ tasks'   = tasks \ {q.t}
    /\ links'   = [a \in Approvals |-> links[a] \ {q.t}]
    /\ primary' = [a \in Approvals |-> IF a \in q.mine THEN q.heir[a] ELSE primary[a]]
    /\ status'  = [a \in Approvals |-> IF a \in q.mine /\ q.heir[a] = None
                                       THEN "deleted" ELSE status[a]]
    /\ Finish(r)
    /\ UNCHANGED board

DeleteRefused(r) ==
    /\ pc[r] = "write" /\ req[r].op = "delete"
    /\ ToShare(r) = {}
    /\ CanLock(r, req[r].t)
    /\ LateReferences(r) # {}
    /\ Finish(r)
    /\ UNCHANGED rows

------------------------------------------------------------------------------
(***************************************************************************)
(* Waiting, deadlock and failure                                           *)
(***************************************************************************)

\* The requests r waits for: the holders of the lock its next statement needs.
Blockers(r) ==
    LET holders(ts) == (UNION {{lock[t]} \cup Sharers(t) : t \in ts}) \ {None, r}
        owners(ts)  == {lock[t] : t \in ts} \ {None, r}
        wanted      == ToShare(r) \cap tasks
        next        == IF req[r].p \in wanted THEN {req[r].p} ELSE wanted
    IN  CASE pc[r] = "lock" -> holders(NextToLock(r))
          [] pc[r] = "write" /\ ToShare(r) # {} ->
                IF \E t \in next : CanShare(r, t) THEN {} ELSE owners(next)
          [] pc[r] = "write" /\ ToShare(r) = {} /\ req[r].op = "delete" ->
                holders({req[r].t})
          [] pc[r] = "write" /\ req[r].op = "update" -> {rowLock[req[r].a]} \ {None}
          [] OTHER -> {}

\* Requests that wait for each other and for nothing else, a minimal set.
Stuck(S)      == S # {} /\ \A r \in S : Blockers(r) \cap S # {}
Deadlocked(S) == Stuck(S) /\ \A T \in (SUBSET S) \ {S} : ~Stuck(T)

\* PostgreSQL aborts one request of a deadlock.
DeadlockAbort(r) ==
    /\ \E S \in SUBSET Requests : r \in S /\ Deadlocked(S)
    /\ Finish(r)
    /\ UNCHANGED rows

\* Anything else that ends a request early: an exception, a lost connection,
\* the end of the process.
RequestFails(r) ==
    /\ pc[r] # "idle"
    /\ Finish(r)
    /\ UNCHANGED rows

------------------------------------------------------------------------------
Arrive(r) ==
    \/ \E a \in Approvals, b \in Boards, s \in ApprovalStatus,
          ts \in SUBSET Tasks, p \in Tasks \cup {None} : CreateApproval(r, a, b, s, ts, p)
    \/ \E a \in Approvals, s \in ApprovalStatus : UpdateApproval(r, a, s)
    \/ \E t \in Tasks, heir \in [Approvals -> Tasks \cup {None}] : BeginDelete(r, t, heir)

Progress(r) ==
    \/ LockTask(r) \/ CheckConflicts(r) \/ RejectConflict(r)
    \/ ShareTask(r) \/ ForeignKeyError(r)
    \/ CommitCreate(r) \/ CommitUpdate(r)
    \/ CommitDelete(r) \/ DeleteRefused(r)
    \/ DeadlockAbort(r)

Next == \E r \in Requests : Arrive(r) \/ Progress(r) \/ RequestFails(r)

Spec == Init /\ [][Next]_vars

------------------------------------------------------------------------------
(***************************************************************************)
(* Properties                                                              *)
(***************************************************************************)

\* The rows and the requests have the shapes their columns and payloads have.
TypeOK ==
    /\ tasks \subseteq Tasks
    /\ status \in [Approvals -> ApprovalStatus \cup {"none", "deleted"}]
    /\ board \in [Approvals -> Boards \cup {None}]
    /\ primary \in [Approvals -> Tasks \cup {None}]
    /\ links \in [Approvals -> SUBSET Tasks]
    /\ pc \in [Requests -> {"idle", "lock", "write"}]
    /\ req \in [Requests -> RequestType]
    /\ lock \in [Tasks -> Requests \cup {None}]
    /\ share \in [Requests -> SUBSET Tasks]
    /\ rowLock \in [Approvals -> Requests \cup {None}]

\* "Each task can have only one pending approval": however creates, re-opened
\* approvals and task deletions interleave, two pending approvals of a board
\* never count for the same task.
OnePendingPerTask ==
    \A a, c \in Approvals :
        (a # c /\ status[a] = "pending" /\ status[c] = "pending" /\ board[a] = board[c])
           => TasksOf(a) \cap TasksOf(c) = {}

\* An approval's task_id is one of its links, whatever deletions took away, and
\* neither names a task that is gone: the done gate, which looks at both, and
\* the conflict check, which looks at the links, speak of the same tasks.
PrimaryIsLinked ==
    \A a \in Approvals : Exists(a) =>
        /\ links[a] # {} => primary[a] \in links[a]
        /\ TasksOf(a) \subseteq tasks

\* "Acquire row locks for task ids in deterministic order": requests that are
\* still locking tasks never wait for each other in a circle.
OrderedLockingNeverDeadlocks ==
    \A S \in SUBSET {r \in Requests : pc[r] = "lock"} : ~Stuck(S)

\* What the requests do to the rows is what some sequence of whole, isolated
\* operations does: ApprovalBook, whose operations check and write at once.
Book == INSTANCE ApprovalBook
          WITH tasks <- tasks, status <- status, board <- board, primary <- primary,
               links <- links
ImplementsApprovalBook == Book!Spec
==============================================================================
