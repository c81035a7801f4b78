----------------------------- MODULE TaskBoard -----------------------------
(***************************************************************************)
(* The task requests of one board as the database sees them (backend       *)
(* api/tasks.py, services/task_dependencies.py): a request reads the row,  *)
(* then what the rules need (dependencies, their statuses, the graph),     *)
(* then writes - the first write takes the row's lock - and reads the      *)
(* gates' tables, then commits the columns it changed; users and other     *)
(* agents than the lead put the dependents of a re-opened task back in a   *)
(* second transaction, which reads the task again, then its dependents,    *)
(* and writes.  Nothing locks a row between its read and its write.        *)
(* Sprints, deletions and approvals change the same tables.                *)
(***************************************************************************)
EXTENDS Naturals, TaskRules

CONSTANTS
    Requests,
    MaxRequests,   \* bound: requests
    MaxOthers      \* bound: changes by sprints, approvals and deletions

ASSUME BoundsAssumption == MaxRequests \in Nat /\ MaxOthers \in Nat

VARIABLES
    rows, deps, approval, rules,   \* as in AtomicBoard
    req,                           \* the requests under way
    moves,                         \* what sprints will do to tickets they have read
    excused,                       \* auxiliary, as in AtomicBoard
    crossed,                       \* auxiliary: an edit of dependencies was overtaken
    count                          \* requests and other changes so far

tables == <<rows, deps, approval, rules>>
vars == <<tables, req, moves, excused, crossed, count>>

\* row and seen are the row and the dependencies as the request read them, new
\* is the row as it leaves it; found are the dependents that its second
\* transaction has found, moved and freed those whose status and assignee it puts
\* back; lapped, not in the code, is set when something that the transaction has
\* read changes.
IdleRequest == [pc |-> "idle", who |-> User, task |-> Nobody,
                change |-> [status |-> Keep, owner |-> Keep, deps |-> Keep],
                row |-> Missing, seen |-> {}, new |-> Missing,
                found |-> {}, moved |-> {}, freed |-> {}, lapped |-> FALSE]

Init ==
    /\ rows \in [Tasks -> {Missing} \cup InitialRows]
    /\ deps = [t \in Tasks |-> {}]
    /\ approval = [t \in Tasks |-> {}]
    /\ rules \in Settings
    /\ req = [r \in Requests |-> IdleRequest]
    /\ moves = {}
    /\ excused = {}
    /\ crossed = FALSE
    /\ count = [requests |-> 0, others |-> 0]

---------------------------------------------------------------------------
(* What a step changes under the other requests.                           *)

UsedDeps(q) == Or(req[q].change.deps, deps[req[q].task])

\* What q has read of the tables differs after the step.
Lapped(q) ==
    LET t == req[q].task
    IN  \/ req[q].pc \in {"read", "checked"} /\ rows'[t] # rows[t]
        \/ /\ req[q].pc \in {"checked", "flushed"}
           /\ \/ deps'[t] # deps[t]
              \/ \E d \in UsedDeps(q) : Done(rows', d) # Done(rows, d)
              \/ (req[q].change.deps # Keep /\ deps' # deps)
        \/ req[q].pc = "flushed" /\ approval'[t] # approval[t]
        \/ req[q].pc \in {"refreshed", "listed", "loaded"} /\ Done(rows', t) # Done(rows, t)
        \/ req[q].pc \in {"listed", "loaded"} /\ Dependents(deps', t) # Dependents(deps, t)
        \/ req[q].pc = "loaded" /\ \E u \in req[q].found : rows'[u] # rows[u]

\* Request r moves on to v, and the others learn that they were overtaken.
Steps(r, v) ==
    req' = [q \in Requests |->
               IF q = r THEN v
               ELSE [req[q] EXCEPT !.lapped = (@ \/ Lapped(q))]]

\* A change by something else than a request.
OtherStep ==
    req' = [q \in Requests |-> [req[q] EXCEPT !.lapped = (@ \/ Lapped(q))]]

CountOther ==
    /\ count.others < MaxOthers
    /\ count' = [count EXCEPT !.others = @ + 1]

Locked(t) == \E q \in Requests : req[q].pc = "flushed" /\ req[q].task = t

StartedBlocked(t) ==
    Exists(rows, t) /\ rows[t].status \in Started /\ Blocked(rows, deps[t])

Excuse(X) == excused' = {u \in excused \cup X : StartedBlocked(u)'}

---------------------------------------------------------------------------
(* A request.                                                              *)

\* TASK_DEP loads the row; a creation has none yet and a new id.  Who asks for
\* what is left open until the rules look at it.
Read(r, t) ==
    /\ req[r].pc = "idle"
    /\ count.requests < MaxRequests
    /\ count' = [count EXCEPT !.requests = @ + 1]
    /\ rows[t] = Missing => \A q \in Requests : req[q].task # t
    /\ req' = [req EXCEPT ![r] = [IdleRequest EXCEPT !.pc = "read", !.task = t,
                                                     !.row = rows[t]]]
    /\ UNCHANGED <<tables, moves, excused, crossed>>

\* The rules' queries: dependencies, their statuses, the graph of the board.
Check(r, who, c) ==
    LET t == req[r].task
        row == req[r].row
    IN  /\ req[r].pc = "read"
        /\ MayEdit(rows, deps, t, row, c)
        /\ \E new \in NewRows(who, rules, row, c, Blocked(rows, Or(c.deps, deps[t]))) :
               req' = [req EXCEPT ![r] = [@ EXCEPT !.pc = "checked", !.who = who, !.change = c,
                                                   !.new = new, !.seen = deps[t]]]
        /\ UNCHANGED <<tables, moves, excused, crossed, count>>

\* Fault: the gates are left out.
Flush_NoGates(r) ==
    LET q == req[r]
    IN  /\ q.pc = "checked"
        /\ ~Locked(q.task)
        /\ q.row # Missing => Exists(rows, q.task)
        /\ req' = [req EXCEPT ![r] = [@ EXCEPT !.pc = "flushed"]]
        /\ UNCHANGED <<tables, moves, excused, crossed, count>>

\* Autoflush: the row is written and locked before the gates are read.
Flush(r) ==
    LET q == req[r]
    IN  /\ q.pc = "checked"
        /\ ~Locked(q.task)
        /\ q.row # Missing => Exists(rows, q.task)
        /\ Gates(rules, q.row, q.new, q.change, approval[q.task])
        /\ req' = [req EXCEPT ![r] = [@ EXCEPT !.pc = "flushed"]]
        /\ UNCHANGED <<tables, moves, excused, crossed, count>>

\* The UPDATE holds the columns that differ from what was read.
Written(q) ==
    IF q.row = Missing THEN q.new
    ELSE [status |-> IF q.new.status = q.row.status THEN rows[q.task].status ELSE q.new.status,
          owner |-> IF q.new.owner = q.row.owner THEN rows[q.task].owner ELSE q.new.owner]

\* replace_task_dependencies deletes the rows it saw and inserts the new ones.
Replaced(q) ==
    IF q.change.deps = Keep THEN deps[q.task]
    ELSE (deps[q.task] \ q.seen) \cup q.change.deps

\* Foreign and unique keys of the inserted dependencies hold.
Insertable(q) ==
    q.change.deps # Keep => /\ \A d \in q.change.deps : Exists(rows, d)
                            /\ q.change.deps \cap (deps[q.task] \ q.seen) = {}

\* A request that has read a done task looks after its dependents in a second
\* transaction: whoever re-opened it, it may be open then.
FollowsUp(q) == q.row # Missing /\ q.row.status = "done" /\ q.who # Lead

\* The tasks that may be blocked in work after the request's commit: those a
\* lead gave dependencies, those of a request that was overtaken.
ExcusedBy(q) ==
    (IF (q.who = Lead /\ q.change.deps # Keep) \/ q.lapped THEN {q.task} ELSE {})
    \cup (IF q.lapped THEN Dependents(deps, q.task) ELSE {})

Commit(r) ==
    LET q == req[r]
    IN  /\ q.pc = "flushed"
        /\ Insertable(q)
        /\ rows' = [rows EXCEPT ![q.task] = Written(q)]
        /\ deps' = [deps EXCEPT ![q.task] = Replaced(q)]
        /\ UNCHANGED <<approval, rules, moves, count>>
        /\ Steps(r, IF FollowsUp(q)
                    THEN [IdleRequest EXCEPT !.pc = "committed", !.task = q.task]
                    ELSE IdleRequest)
        /\ Excuse(ExcusedBy(q))
        /\ crossed' = (crossed \/ (q.change.deps # Keep /\ q.lapped))

\* The request is refused or fails before its commit.
GiveUp(r) ==
    /\ req[r].pc \in {"read", "checked", "flushed"}
    /\ req' = [req EXCEPT ![r] = IdleRequest]
    /\ UNCHANGED <<tables, moves, excused, crossed, count>>

\* _record_task_update_activity after refresh(): there is nothing to put back
\* if the task is done (again).
Refresh(r) ==
    LET q == req[r]
    IN  /\ q.pc = "committed"
        /\ Exists(rows, q.task)
        /\ IF Done(rows, q.task)
           THEN /\ req' = [req EXCEPT ![r] = IdleRequest]
                /\ Excuse({})
           ELSE /\ req' = [req EXCEPT ![r] = [@ EXCEPT !.pc = "refreshed"]]
                /\ UNCHANGED excused
        /\ UNCHANGED <<tables, moves, crossed, count>>

\* dependent_task_ids
List(r) ==
    /\ req[r].pc = "refreshed"
    /\ req' = [req EXCEPT ![r] = [@ EXCEPT !.pc = "listed",
                                          !.found = Dependents(deps, req[r].task)]]
    /\ UNCHANGED <<tables, moves, excused, crossed, count>>

\* Fault: only unassigned dependents are put back.
Load_Unassigned(r) ==
    LET back == {u \in Open(rows, req[r].found) : rows[u].owner = Nobody}
    IN  /\ req[r].pc = "listed"
        /\ req' = [req EXCEPT ![r] = [@ EXCEPT !.pc = "loaded",
                     !.moved = {u \in back : rows[u].status # "inbox"},
                     !.freed = {}]]
        /\ UNCHANGED <<tables, moves, excused, crossed, count>>

\* The SELECT of the dependents, which locks none of them: what is to be put back.
Load(r) ==
    LET back == Open(rows, req[r].found)
    IN  /\ req[r].pc = "listed"
        /\ req' = [req EXCEPT ![r] = [@ EXCEPT !.pc = "loaded",
                     !.moved = {u \in back : rows[u].status # "inbox"},
                     !.freed = {u \in back : rows[u].owner # Nobody}]]
        /\ UNCHANGED <<tables, moves, excused, crossed, count>>

\* The commit, over what was committed since then.
Record(r) ==
    LET q == req[r]
    IN  /\ q.pc = "loaded" /\ Exists(rows, q.task)
        /\ \A u \in q.moved \cup q.freed : Exists(rows, u) /\ ~Locked(u)
        /\ rows' = PutBack(rows, q.moved, q.freed)
        /\ UNCHANGED <<deps, approval, rules, moves, crossed, count>>
        /\ Steps(r, IdleRequest)
        /\ Excuse(IF q.lapped THEN UNION {Dependents(deps, u) : u \in {q.task} \cup q.moved}
                  ELSE {})

FollowUp == {"committed", "refreshed", "listed", "loaded"}

\* The second transaction fails, or the process ends before it.
RecordLost(r) ==
    /\ req[r].pc \in FollowUp
    /\ req' = [req EXCEPT ![r] = IdleRequest]
    /\ UNCHANGED <<tables, moves, crossed, count>>
    /\ Excuse(Dependents(deps, req[r].task))

---------------------------------------------------------------------------
(* What else changes the tables.                                           *)

\* delete_task_and_related_records; a sprint about to move the task fails.
Delete(t) ==
    /\ Exists(rows, t) /\ ~Locked(t)
    /\ rows' = [rows EXCEPT ![t] = Missing]
    /\ deps' = [u \in Tasks |-> IF u = t THEN {} ELSE deps[u] \ {t}]
    /\ approval' = [approval EXCEPT ![t] = {}]
    /\ moves' = {m \in moves : m.task # t}
    /\ UNCHANGED <<rules, crossed>>
    /\ OtherStep /\ CountOther
    /\ Excuse({})

\* start_sprint, complete_sprint and cancel_sprint read one of their tickets ...
SprintReads(t, s) ==
    /\ Exists(rows, t)
    /\ rows[t].status # s
    /\ s = "archived" => rows[t].status = "done"
    /\ s = "backlog" => rows[t].status # "done"
    /\ moves' = moves \cup {[task |-> t, to |-> s]}
    /\ CountOther
    /\ UNCHANGED <<tables, req, excused, crossed>>

\* ... and commit.
SprintMoves(m) ==
    LET t == m.task IN
    /\ m \in moves
    /\ Exists(rows, t) /\ ~Locked(t)
    /\ rows' = [rows EXCEPT ![t].status = m.to]
    /\ moves' = moves \ {m}
    /\ UNCHANGED <<deps, approval, rules, crossed, count>>
    /\ OtherStep
    /\ Excuse(IF Done(rows, t) THEN Dependents(deps, t) ELSE {})

\* An approval linked to the task is created, resolved or re-opened.
ApprovalChanges(t, kinds) ==
    /\ Exists(rows, t)
    /\ approval[t] # kinds
    /\ approval' = [approval EXCEPT ![t] = kinds]
    /\ UNCHANGED <<rows, deps, rules, moves, crossed>>
    /\ OtherStep /\ CountOther
    /\ Excuse({})

---------------------------------------------------------------------------
Next ==
    \/ \E r \in Requests, t \in Tasks : Read(r, t)
    \/ \E r \in Requests, who \in Agents \cup {Lead, User}, c \in Changes : Check(r, who, c)
    \/ \E r \in Requests :
           Flush(r) \/ Commit(r) \/ GiveUp(r) \/ Refresh(r) \/ List(r) \/ Load(r)
           \/ Record(r) \/ RecordLost(r)
    \/ \E t \in Tasks : Delete(t)
    \/ \E t \in Tasks, s \in {"inbox", "backlog", "archived"} : SprintReads(t, s)
    \/ \E m \in moves : SprintMoves(m)
    \/ \E t \in Tasks, kinds \in Approvals : ApprovalChanges(t, kinds)

Spec == Init /\ [][Next]_vars

---------------------------------------------------------------------------
\* Re-opened tasks whose dependents a second transaction has still to put back.
owed == {req[r].task : r \in {q \in Requests : req[q].pc \in FollowUp}}

\* Tasks of requests that were overtaken, and of such second transactions.
raced == {req[r].task : r \in {q \in Requests : req[q].lapped /\ req[q].pc \notin FollowUp}}
late  == {req[r].task : r \in {q \in Requests : req[q].lapped /\ req[q].pc \in FollowUp}}

Atomic == INSTANCE AtomicBoard
    WITH rows <- rows, deps <- deps, approval <- approval, rules <- rules,
         excused <- excused, owed <- owed, raced <- raced, late <- late

---------------------------------------------------------------------------
(* Properties.                                                             *)

\* Tables and requests have their types.
TypeOK ==
    /\ rows \in [Tasks -> {Missing} \cup Row]
    /\ deps \in [Tasks -> SUBSET Tasks]
    /\ approval \in [Tasks -> {{}} \cup Approvals]
    /\ rules \in Settings
    /\ req \in [Requests -> [pc : {"idle", "read", "checked", "flushed"} \cup FollowUp,
                             who : Agents \cup {Lead, User},
                             task : Tasks \cup {Nobody},
                             change : Changes \cup {IdleRequest.change},
                             row : {Missing} \cup Row,
                             seen : SUBSET Tasks,
                             new : {Missing} \cup Row,
                             found : SUBSET Tasks,
                             moved : SUBSET Tasks,
                             freed : SUBSET Tasks,
                             lapped : BOOLEAN]]
    /\ moves \subseteq [task : Tasks, to : {"inbox", "backlog", "archived"}]
    /\ excused \subseteq Tasks
    /\ crossed \in BOOLEAN
    /\ count \in [requests : 0 .. MaxRequests, others : 0 .. MaxOthers]

\* No task is in progress or in review while a task it depends on is not done,
\* but for these: the dependency was re-opened and its dependents are about to
\* be put back (_reconcile_dependents_for_dependency_toggle runs in a second
\* transaction); that transaction failed, or was overtaken; the lead gave a task
\* in work a dependency; a sprint moved the dependency off the board or into the
\* inbox; a request was overtaken by another between its reads and its commit.
StartedUnblocked == Atomic!StartedUnblocked

\* validate_dependency_update keeps the graph of dependencies free of cycles
\* unless an edit was overtaken between its search and its commit.
CycleNeedsOvertaking == ~crossed => Acyclic(deps)

\* Whatever the requests' steps interleave to, each request takes effect at its
\* commit as if it had run alone at that moment: rules, dependency checks and
\* gates hold of the tables it commits into, unless something it had read was
\* changed before its commit.  So does the second transaction of a re-opening:
\* it puts back the dependents that are not done, unless it was overtaken.
RunsAtomically == Atomic!Spec

=============================================================================
