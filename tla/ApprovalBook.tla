---------------------------- MODULE ApprovalBook -----------------------------
(***************************************************************************)
(* What the approvals promise, without requests, transactions or locks: a  *)
(* book of approvals on which every operation is one indivisible step that *)
(* checks its condition and writes.  Approvals implements it.              *)
(***************************************************************************)
EXTENDS Naturals

CONSTANTS Tasks, Approvals, Boards, None

VARIABLES tasks, status, board, primary, links

book == <<tasks, status, board, primary, links>>

Decided == {"approved", "rejected"}
Open(a) == status[a] \in {"pending"} \cup Decided
Counts(a) == IF links[a] # {} THEN links[a] ELSE {primary[a]} \ {None}

\* No other pending approval of the board counts for one of the tasks.
Free(a, b, ts) ==
    \A c \in Approvals \ {a} :
        (status[c] = "pending" /\ board[c] = b) => Counts(c) \cap ts = {}

Init ==
    /\ tasks = Tasks
    /\ \A a \in Approvals : links[a] = {}
    /\ \A a, c \in Approvals : (a # c /\ status[a] = "pending" /\ status[c] = "pending")
                                  => Free(a, board[a], Counts(a))

\* A new approval; a pending one only for tasks that no other claims.
Create(a, b, s, ts, p) ==
    /\ status[a] = "none"
    /\ ts \subseteq tasks
    /\ IF ts = {} THEN p = None ELSE p \in ts
    /\ s = "pending" => Free(a, b, ts)
    /\ status'  = [status  EXCEPT ![a] = s]
    /\ board'   = [board   EXCEPT ![a] = b]
    /\ primary' = [primary EXCEPT ![a] = p]
    /\ links'   = [links   EXCEPT ![a] = ts]
    /\ UNCHANGED tasks

Decide(a, s) ==
    /\ Open(a)
    /\ s \in Decided
    /\ status' = [status EXCEPT ![a] = s]
    /\ UNCHANGED <<tasks, board, primary, links>>

\* A decided approval is opened again only while nobody else claims its tasks.
Reopen(a) ==
    /\ Open(a)
    /\ Free(a, board[a], Counts(a))
    /\ status' = [status EXCEPT ![a] = "pending"]
    /\ UNCHANGED <<tasks, board, primary, links>>

\* A deleted task leaves every approval; an approval whose task_id it was goes
\* on with a task it is still linked to, or goes too.
DeleteTask(t) ==
    /\ t \in tasks
    /\ tasks' = tasks \ {t}
    /\ links' = [a \in Approvals |-> links[a] \ {t}]
    /\ \A a \in Approvals :
          IF Open(a) /\ primary[a] = t
          THEN IF links'[a] = {} THEN status'[a] = "deleted"
               ELSE status'[a] = status[a] /\ primary'[a] \in links'[a]
          ELSE status'[a] = status[a] /\ primary'[a] = primary[a]
    /\ UNCHANGED board

Next ==
    \/ \E a \in Approvals, b \in Boards, s \in {"pending"} \cup Decided,
          ts \in SUBSET Tasks, p \in Tasks \cup {None} : Create(a, b, s, ts, p)
    \/ \E a \in Approvals, s \in Decided : Decide(a, s)
    \/ \E a \in Approvals : Reopen(a)
    \/ \E t \in Tasks : DeleteTask(t)

Spec == Init /\ [][Next]_book
==============================================================================
