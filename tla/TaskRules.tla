----------------------------- MODULE TaskRules -----------------------------
(***************************************************************************)
(* What a task request may do on a board (backend api/tasks.py, schemas/   *)
(* tasks.py, services/task_dependencies.py): the rules for the board's     *)
(* lead, for other agents and for users, the dependency rules, the gates   *)
(* of the board's settings and the table of status transitions, as         *)
(* operators on a task's row.  A row keeps the status and the assignee;    *)
(* titles, tags, custom fields, times and comments are left out (a request *)
(* that a comment gate refuses is one that gives up, see TaskBoard).  The  *)
(* board has a lead.                                                       *)
(***************************************************************************)
CONSTANTS
    Tasks,
    Agents,      \* the board's agents but its lead
    Mergers,     \* those whose role template is "merger"
    Lead,
    User,
    Nobody,      \* no assignee
    Missing,     \* the row of a task that does not exist
    Keep,        \* a field the request leaves alone
    Changes,     \* the changes that requests ask for
    Settings,    \* the settings the board may have
    InitialRows, \* the rows of a board without dependencies
    Approvals    \* the kinds of approvals that may be linked to a task

ASSUME RulesAssumption ==
    /\ Mergers \subseteq Agents
    /\ Lead \notin Agents /\ User \notin Agents /\ Lead # User
    /\ Nobody \notin Agents \cup {Lead, Keep}
    /\ Keep \notin Agents

Statuses == {"triage", "backlog", "inbox", "in_progress", "review", "done", "archived"}

ASSUME KeepAssumption == Keep \notin Statuses /\ \A D \in SUBSET Tasks : Keep # D

\* Work on the task has begun.
Started == {"in_progress", "review"}

Row == [status : Statuses, owner : Agents \cup {Lead, Nobody}]

ASSUME MissingAssumption == \A row \in Row : row # Missing

Change == [status : Statuses \cup {Keep},
           owner : Agents \cup {Nobody, Keep},
           deps : {Keep} \cup SUBSET Tasks]

\* The board's settings.
Rules == [approval : BOOLEAN,    \* require_approval_for_done
          review : BOOLEAN,      \* require_review_before_done
          pending : BOOLEAN,     \* block_status_changes_with_pending_approval
          onlyLead : BOOLEAN]    \* only_lead_can_change_status

ASSUME InputsAssumption == 
    /\ Changes \subseteq Change
    /\ Settings \subseteq Rules
    /\ InitialRows \subseteq Row
    /\ Approvals \subseteq SUBSET {"pending", "approved"}

\* STATUS_TRANSITIONS
Flow == [triage |-> {"backlog", "archived"},
         backlog |-> {"inbox", "triage", "archived"},
         inbox |-> {"in_progress", "backlog"},
         in_progress |-> {"review", "inbox"},
         review |-> {"done", "in_progress", "inbox"},
         done |-> {"archived", "in_progress"},
         archived |-> {"backlog"}]

Follows(s, n) == n = s \/ n \in Flow[s]

\* A field the request sets, or the current one.
Or(value, current) == IF value = Keep THEN current ELSE value

---------------------------------------------------------------------------
(* Dependencies.                                                           *)

Exists(rows, t) == rows[t] # Missing

Done(rows, t) == Exists(rows, t) /\ rows[t].status = "done"

\* blocked_by_dependency_ids
Blocked(rows, D) == \E d \in D : ~Done(rows, d)

Dependents(deps, t) == {u \in Tasks : t \in deps[u]}

\* What a re-opening puts back, of the tasks D that depend on the task.
Open(rows, D) == {u \in D : Exists(rows, u) /\ ~Done(rows, u)}

\* Tasks go back to the inbox, and tasks to nobody.
PutBack(rows, moved, freed) ==
    [u \in Tasks |->
        IF u \in moved \cup freed
        THEN [status |-> IF u \in moved THEN "inbox" ELSE rows[u].status,
              owner |-> IF u \in freed THEN Nobody ELSE rows[u].owner]
        ELSE rows[u]]

\* A set of tasks each of which depends on one of the set is or leads to a cycle.
Acyclic(deps) ==
    ~ \E S \in (SUBSET Tasks) \ {{}} : \A t \in S : deps[t] \cap S # {}

\* Fault: the graph is not searched for cycles.
ValidDeps_NoSearch(rows, deps, t, D) ==
    /\ t \notin D
    /\ \A d \in D : Exists(rows, d)

\* validate_dependency_update
ValidDeps(rows, deps, t, D) ==
    /\ t \notin D
    /\ \A d \in D : Exists(rows, d)
    /\ D # {} => Acyclic([deps EXCEPT ![t] = D])

\* A done task's dependencies are fixed.
MayEdit(rows, deps, t, row, c) ==
    c.deps # Keep => /\ (row # Missing => row.status # "done")
                     /\ ValidDeps(rows, deps, t, c.deps)

---------------------------------------------------------------------------
(* The rows a request may leave, none when it is refused.                  *)

\* The last worker who moved the task to review is any agent, or none.
LeadRows(row, c, blocked) ==
    IF /\ blocked => c.status = Keep /\ c.owner = Keep
       /\ \/ c.status = Keep
          \/ c.status \in {"done", "inbox"} /\ row.status = "review"
          \/ c.status = "in_progress" /\ row.status = "inbox" /\ c.owner \in Agents
    THEN IF c.status = "inbox"
         THEN [status : {"inbox"}, owner : Agents \cup {Nobody}]
         ELSE {[status |-> Or(c.status, row.status), owner |-> Or(c.owner, row.owner)]}
    ELSE {}

Merges(a, row, c) == c.status = "done" /\ row.status = "review" /\ a \in Mergers

\* An agent claims a free task or moves its own; a merger closes any in review.
AgentRows(a, rules, row, c, blocked) ==
    IF /\ c.status # Keep /\ c.owner = Keep /\ c.deps = Keep
       /\ ~rules.onlyLead
       /\ row.owner \in {Nobody, a} \/ Merges(a, row, c)
       /\ c.status # "inbox" => ~blocked
       /\ c.status = "done" => Merges(a, row, c)
       /\ Follows(row.status, c.status)
    THEN {[status |-> c.status,
           owner |-> CASE c.status = "inbox" -> Nobody
                       [] c.status = "review" -> IF row.status = "review" THEN Nobody ELSE Lead
                       [] OTHER -> a]}
    ELSE {}

\* A blocked task goes back to the inbox, unless it is done and stays so.
Forced(row, c, blocked) ==
    blocked /\ ~(row.status = "done" /\ Or(c.status, row.status) = "done")

\* Fault: an assignee the request leaves alone is written too.
UserRows_Raw(row, c, blocked) ==
    LET status == IF Forced(row, c, blocked) THEN "inbox" ELSE Or(c.status, row.status)
    IN  IF Follows(row.status, status)
        THEN {[status |-> status, owner |-> c.owner]}
        ELSE {}

UserRows(row, c, blocked) ==
    LET forced == Forced(row, c, blocked)
        status == IF forced THEN "inbox" ELSE Or(c.status, row.status)
        emptied == c.status \in {"inbox", "review"}
    IN  IF Follows(row.status, status)
        THEN {[status |-> status,
               owner |-> CASE status = "review" /\ row.status # "review" -> Lead
                           [] forced -> Nobody
                           [] OTHER -> Or(c.owner, IF emptied THEN Nobody ELSE row.owner)]}
        ELSE {}

CreatedRows(c, blocked) ==
    IF /\ c.status # Keep /\ c.owner # Keep /\ c.deps # Keep
       /\ blocked => c.owner = Nobody /\ c.status = "inbox"
    THEN {[status |-> c.status, owner |-> c.owner]}
    ELSE {}

NewRows(who, rules, row, c, blocked) ==
    CASE row = Missing -> IF who = User THEN CreatedRows(c, blocked) ELSE {}
      [] row # Missing /\ who = Lead -> LeadRows(row, c, blocked)
      [] row # Missing /\ who = User -> UserRows(row, c, blocked)
      [] OTHER -> AgentRows(who, rules, row, c, blocked)

---------------------------------------------------------------------------
\* The gates: no pending approval when the request asks for another status,
\* review before done, an approved approval for done.
Gates(rules, row, new, c, approvals) ==
    row # Missing =>
        /\ rules.pending /\ c.status \notin {Keep, row.status} /\ new.status # row.status
               => "pending" \notin approvals
        /\ row.status # "done" /\ new.status = "done" =>
               /\ rules.review => row.status = "review"
               /\ rules.approval => "approved" \in approvals

=============================================================================
