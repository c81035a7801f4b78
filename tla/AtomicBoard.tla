---------------------------- MODULE AtomicBoard ----------------------------
(***************************************************************************)
(* What the task requests of a board promise together: each takes effect   *)
(* in one step, by the rules as they apply at that step.  Two things are   *)
(* not atomic and part of the promise: the dependents of a task that is    *)
(* re-opened are put back by a later step (owed), which puts back what it  *)
(* should not if it was overtaken (late), and a request that was overtaken *)
(* by another one (raced) may leave anything on its task.                  *)
(* TaskBoard, which splits the requests into their database steps,         *)
(* implements this specification.                                          *)
(***************************************************************************)
EXTENDS TaskRules

VARIABLES
    rows,        \* the tasks table
    deps,        \* the tasks each task depends on
    approval,    \* which kinds of approvals are linked to a task
    rules,       \* the board's settings
    excused,     \* started tasks that are blocked, for a known reason
    owed,        \* re-opened tasks whose dependents have not been put back
    raced,       \* tasks of requests that were overtaken
    late         \* re-opened tasks whose later step was overtaken

vars == <<rows, deps, approval, rules, excused, owed, raced, late>>

Init ==
    /\ rows \in [Tasks -> {Missing} \cup InitialRows]
    /\ deps = [t \in Tasks |-> {}]
    /\ approval = [t \in Tasks |-> {}]
    /\ rules \in Settings
    /\ excused = {} /\ owed = {} /\ raced = {} /\ late = {}

StartedBlocked(t) ==
    Exists(rows, t) /\ rows[t].status \in Started /\ Blocked(rows, deps[t])

\* The reasons X are added; a reason lasts as long as the task is blocked.
Excuse(X) == excused' = {u \in excused \cup X : StartedBlocked(u)'}

Surroundings == raced' \in SUBSET Tasks /\ late' \in SUBSET Tasks /\ UNCHANGED rules

\* A request; a lead may add dependencies to a task in work.
Update(who, t, c) ==
    /\ deps' = [deps EXCEPT ![t] = Or(c.deps, deps[t])]
    /\ \A u \in Tasks \ {t} : rows'[u] = rows[u]
    /\ rows' \in [Tasks -> {Missing} \cup Row]
    /\ rows'[t] \in NewRows(who, rules, rows[t], c, Blocked(rows, Or(c.deps, deps[t])))
    /\ MayEdit(rows, deps, t, rows[t], c)
    /\ Gates(rules, rows[t], rows'[t], c, approval[t])
    /\ owed' \in {owed, owed \cup {t}}
    /\ Done(rows, t) /\ ~Done(rows', t) => t \in owed'
    /\ Excuse(IF who = Lead /\ c.deps # Keep THEN {t} ELSE {})
    /\ UNCHANGED approval
    /\ Surroundings

\* What an overtaken request leaves on its task.
Overtaken(t) ==
    /\ t \in raced
    /\ rows' \in [Tasks -> {Missing} \cup Row] /\ deps' \in [Tasks -> SUBSET Tasks]
    /\ \A u \in Tasks \ {t} : rows'[u] = rows[u] /\ deps'[u] = deps[u]
    /\ owed' \in {owed, owed \cup {t}}
    /\ Excuse({t} \cup Dependents(deps, t))
    /\ UNCHANGED approval
    /\ Surroundings

\* The dependents of a re-opened task, done ones excepted, go back to the inbox.
Reset(t) ==
    LET back == Open(rows, Dependents(deps, t)) IN
    /\ t \in owed
    /\ rows' = IF Done(rows, t) THEN rows ELSE PutBack(rows, back, back)
    /\ owed' \in {owed, owed \ {t}}
    /\ Excuse({})
    /\ UNCHANGED <<deps, approval>>
    /\ Surroundings

\* The dependents that an overtaken step puts back are those it once found: tasks
\* that have become done, or that do not depend on t, may be among them, and
\* the task itself may be done again.
ResetLate(t, moved, freed) ==
    /\ t \in owed \cap late
    /\ \A u \in moved \cup freed : Exists(rows, u)
    /\ rows' = PutBack(rows, moved, freed)
    /\ owed' \in {owed, owed \ {t}}
    /\ Excuse(UNION {Dependents(deps, u) : u \in {t} \cup moved})
    /\ UNCHANGED <<deps, approval>>
    /\ Surroundings

\* The second transaction of a re-opening fails.
ResetLost(t) ==
    /\ t \in owed
    /\ owed' \in {owed, owed \ {t}}
    /\ Excuse(Dependents(deps, t))
    /\ UNCHANGED <<rows, deps, approval>>
    /\ Surroundings

Delete(t) ==
    /\ Exists(rows, t)
    /\ rows' = [rows EXCEPT ![t] = Missing]
    /\ deps' = [u \in Tasks |-> IF u = t THEN {} ELSE deps[u] \ {t}]
    /\ approval' = [approval EXCEPT ![t] = {}]
    /\ Excuse({})
    /\ UNCHANGED owed
    /\ Surroundings

\* Sprints move their tickets without a look at dependencies: into the inbox at
\* the start, out of the board at the end, by the status they once had.
SprintMoves(t, s) ==
    /\ Exists(rows, t)
    /\ rows' = [rows EXCEPT ![t].status = s]
    /\ Excuse(IF Done(rows, t) THEN Dependents(deps, t) ELSE {})
    /\ UNCHANGED <<deps, approval, owed>>
    /\ Surroundings

ApprovalChanges(t, kinds) ==
    /\ Exists(rows, t)
    /\ approval' = [approval EXCEPT ![t] = kinds]
    /\ Excuse({})
    /\ UNCHANGED <<rows, deps, owed>>
    /\ Surroundings

\* Requests come and go.
Idle ==
    /\ UNCHANGED <<rows, deps, approval, excused, owed>>
    /\ Surroundings

Next ==
    \/ Idle
    \/ \E t \in Tasks : Overtaken(t) \/ Reset(t) \/ ResetLost(t) \/ Delete(t)
    \/ \E t \in Tasks, moved, freed \in SUBSET Tasks : ResetLate(t, moved, freed)
    \/ \E t \in Tasks, s \in {"inbox", "backlog", "archived"} : SprintMoves(t, s)
    \/ \E t \in Tasks, kinds \in Approvals : ApprovalChanges(t, kinds)
    \/ \E t \in Tasks, c \in Changes, who \in Agents \cup {Lead, User} : Update(who, t, c)

Spec == Init /\ [][Next]_vars

---------------------------------------------------------------------------
TypeOK ==
    /\ rows \in [Tasks -> {Missing} \cup Row]
    /\ deps \in [Tasks -> SUBSET Tasks]
    /\ approval \in [Tasks -> {{}} \cup Approvals]
    /\ rules \in Settings
    /\ excused \subseteq Tasks /\ owed \subseteq Tasks /\ raced \subseteq Tasks
    /\ late \subseteq Tasks

\* A started task that is blocked has an excuse, or the task that blocks it
\* was re-opened and its dependents are about to be put back.
StartedUnblocked ==
    \A t \in Tasks : \A d \in deps[t] :
        Exists(rows, t) /\ rows[t].status \in Started /\ ~Done(rows, d)
            => t \in excused \/ d \in owed
=============================================================================
