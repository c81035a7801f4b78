--------------------------- MODULE ApprovalsProofs ---------------------------
(***************************************************************************)
(* Proofs about Approvals for any number of tasks, approvals, boards and   *)
(* concurrent requests.                                                    *)
(***************************************************************************)
EXTENDS Approvals, FiniteSetTheorems, WellFoundedInduction, TLAPS

\* A request that will make its approval pending, and has tasks to count for.
Opens(r) == /\ pc[r] # "idle"
            /\ req[r].s = "pending"
            /\ \/ req[r].op = "create"
               \/ req[r].op = "update" /\ req[r].prior # "pending"

\* What a request in flight knows of the row it creates, updates or deletes.
CreateInv(r) == (pc[r] # "idle" /\ req[r].op = "create") =>
    /\ req[r].a \in Approvals /\ req[r].b \in Boards /\ req[r].s \in ApprovalStatus
    /\ status[req[r].a] = "none"
    /\ IF req[r].ts = {} THEN req[r].p = None ELSE req[r].p \in req[r].ts
    /\ \A q \in Requests \ {r} : (pc[q] # "idle" /\ req[q].op = "create") => req[q].a # req[r].a

UpdateInv(r) == (pc[r] # "idle" /\ req[r].op = "update") =>
    /\ req[r].a \in Approvals /\ req[r].s \in ApprovalStatus
    /\ status[req[r].a] # "none"
    /\ board[req[r].a] = req[r].b
    /\ (Opens(r) /\ Exists(req[r].a)) => TasksOf(req[r].a) \subseteq req[r].ts

DeleteInv(r) == (pc[r] # "idle" /\ req[r].op = "delete") =>
    /\ pc[r] = "write" /\ req[r].t \in tasks
    /\ \A q \in Requests \ {r} : req[q].t # req[r].t
    /\ \A a \in req[r].mine : rowLock[a] = r /\ Exists(a) /\ primary[a] = req[r].t
    /\ \A a \in req[r].mine :
         IF req[r].heir[a] = None THEN links[a] \subseteq {req[r].t}
         ELSE /\ req[r].heir[a] \in req[r].ts
              /\ req[r].heir[a] # req[r].t
              /\ req[r].heir[a] \in tasks => req[r].heir[a] \in links[a]

\* Key-shared rows cannot be deleted.
ShareInv(r) == /\ share[r] \subseteq req[r].ts \cap tasks
               /\ pc[r] = "idle" => share[r] = {}
               /\ req[r].op = "delete" => req[r].t \notin req[r].ts

NoConflict(b, ts, except) ==
    \A c \in Approvals : (status[c] = "pending" /\ board[c] = b /\ c # except)
                            => TasksOf(c) \cap ts = {}

\* A request past the conflict check still holds the locks under which it
\* found no conflict, and there still is none.
GuardInv(r) == (pc[r] = "write" /\ Opens(r)) =>
    /\ \A t \in req[r].ts \cap tasks : lock[t] = r
    /\ NoConflict(req[r].b, req[r].ts, req[r].a)

RequestInv == \A r \in Requests :
    CreateInv(r) /\ UpdateInv(r) /\ DeleteInv(r) /\ ShareInv(r) /\ GuardInv(r)

IndInv == TypeOK /\ OnePendingPerTask /\ PrimaryIsLinked /\ RequestInv

------------------------------------------------------------------------------
LEMMA FinishType ==
    ASSUME TypeOK, NEW r \in Requests, Finish(r)
    PROVE  /\ pc' \in [Requests -> {"idle", "lock", "write"}]
           /\ req' \in [Requests -> RequestType]
           /\ lock' \in [Tasks -> Requests \cup {None}]
           /\ share' \in [Requests -> SUBSET Tasks]
           /\ rowLock' \in [Approvals -> Requests \cup {None}]
  <1>1. NoRequest \in RequestType
    BY DEF NoRequest, RequestType, NoHeir
  <1> QED
    BY <1>1 DEF Finish, TypeOK

\* A step of r that writes no rows and takes no lock from q leaves what q
\* knows alone.
LEMMA OthersKeepInv ==
    ASSUME IndInv, UNCHANGED rows, NEW r \in Requests, NEW q \in Requests, q # r,
           \A x \in Requests \ {r} :
              pc'[x] = pc[x] /\ req'[x] = req[x] /\ share'[x] = share[x],
           \A t \in Tasks : lock[t] = q => lock'[t] = q,
           \A a \in Approvals : rowLock[a] = q => rowLock'[a] = q,
           (pc'[r] # "idle" /\ req'[r].op = "create" /\ pc[q] # "idle" /\ req[q].op = "create")
              => req'[r].a # req[q].a,
           \/ req'[r].t \in {req[r].t, None}
           \/ \A x \in Requests : req[x].t # req'[r].t
    PROVE  (CreateInv(q) /\ UpdateInv(q) /\ DeleteInv(q) /\ ShareInv(q) /\ GuardInv(q))'
  <1>1. CreateInv(q)'
    BY DEF IndInv, RequestInv, CreateInv, rows
  <1>2. UpdateInv(q)' /\ ShareInv(q)'
    BY DEF IndInv, RequestInv, UpdateInv, ShareInv, Opens, Exists, TasksOf, rows
  <1>4. DeleteInv(q)'
    <2>1. req[q].mine \subseteq Approvals /\ tasks \subseteq Tasks
      BY DEF IndInv, TypeOK, RequestType
    <2>2. pc[q] # "idle" /\ req[q].op = "delete" =>
             \A x \in Requests \ {q} : req'[x].t # req[q].t
      BY <2>1, NoneIsNoId DEF IndInv, RequestInv, DeleteInv
    <2> QED
      BY <2>1, <2>2 DEF IndInv, RequestInv, DeleteInv, Exists, rows
  <1>3. GuardInv(q)'
    BY DEF IndInv, RequestInv, GuardInv, Opens, NoConflict, TasksOf, TypeOK, rows, RequestType
  <1> QED BY <1>1, <1>2, <1>3, <1>4

\* A request that ends without writing leaves the invariant alone.
LEMMA FinishKeepsInv ==
    ASSUME IndInv, NEW r \in Requests, Finish(r), UNCHANGED rows
    PROVE  IndInv'
  <1>1. TypeOK'
    BY FinishType DEF IndInv, TypeOK, rows
  <1>2. OnePendingPerTask' /\ PrimaryIsLinked'
    BY DEF IndInv, OnePendingPerTask, PrimaryIsLinked, TasksOf, Exists, rows
  <1>3. ASSUME NEW q \in Requests
        PROVE  (CreateInv(q) /\ UpdateInv(q) /\ DeleteInv(q) /\ ShareInv(q) /\ GuardInv(q))'
    <2>1. CASE q = r
      BY <2>1 DEF IndInv, TypeOK, Finish, NoRequest, CreateInv, UpdateInv, DeleteInv,
                  ShareInv, GuardInv, Opens
    <2>2. CASE q # r
      BY <2>2, OthersKeepInv DEF IndInv, TypeOK, Finish, NoRequest
    <2> QED BY <2>1, <2>2
  <1> QED BY <1>1, <1>2, <1>3 DEF IndInv, RequestInv

LEMMA CreateApprovalKeepsInv ==
    ASSUME IndInv, NEW r \in Requests, NEW a \in Approvals, NEW b \in Boards,
           NEW s \in ApprovalStatus, NEW ts \in SUBSET Tasks, NEW p \in Tasks \cup {None},
           CreateApproval(r, a, b, s, ts, p)
    PROVE  IndInv'
  <1> DEFINE new == [NoRequest EXCEPT !.op = "create", !.a = a, !.b = b,
                                      !.s = s, !.ts = ts, !.p = p]
  <1>1. /\ new \in RequestType
        /\ new.t = None /\ new.op = "create" /\ new.a = a /\ new.b = b /\ new.s = s /\ new.ts = ts /\ new.p = p
    BY DEF NoRequest, RequestType, NoHeir
  <1>2. req' = [req EXCEPT ![r] = new]
    BY DEF CreateApproval
  <1> HIDE DEF new
  <1>3. TypeOK'
    BY <1>1, <1>2 DEF IndInv, TypeOK, CreateApproval, rows, locks
  <1>4. OnePendingPerTask' /\ PrimaryIsLinked'
    BY DEF IndInv, OnePendingPerTask, PrimaryIsLinked, TasksOf, Exists, rows, CreateApproval
  <1>5. ASSUME NEW q \in Requests
        PROVE  (CreateInv(q) /\ UpdateInv(q) /\ DeleteInv(q) /\ ShareInv(q) /\ GuardInv(q))'
    <2>1. CASE q = r
      <3>1. req'[q] = new /\ share'[q] = {}
        BY <2>1, <1>2 DEF IndInv, TypeOK, RequestInv, ShareInv, CreateApproval, locks
      <3>2. CreateInv(q)'
        BY <2>1, <3>1, <1>1, <1>2 DEF IndInv, TypeOK, CreateInv, CreateApproval, Fresh, rows
      <3>3. UpdateInv(q)' /\ DeleteInv(q)' /\ ShareInv(q)'
        BY <3>1, <1>1 DEF UpdateInv, DeleteInv, ShareInv
      <3>4. GuardInv(q)'
        BY <2>1, <3>1, <1>1 DEF IndInv, TypeOK, GuardInv, Opens, NoConflict, CreateApproval
      <3> QED BY <3>2, <3>3, <3>4
    <2>2. CASE q # r
      <3>1. req[q].a # a
        BY DEF CreateApproval, Fresh
      <3>2. req'[r] = new /\ req'[r].t = None /\ req'[r].a = a /\ pc[r] = "idle"
        BY <1>1, <1>2 DEF IndInv, TypeOK, CreateApproval
      <3> QED
        BY <2>2, <3>1, <3>2, <1>1, <1>2, OthersKeepInv DEF IndInv, TypeOK, CreateApproval, locks
    <2> QED BY <2>1, <2>2
  <1> QED BY <1>3, <1>4, <1>5 DEF IndInv, RequestInv

LEMMA UpdateApprovalKeepsInv ==
    ASSUME IndInv, NEW r \in Requests, NEW a \in Approvals, NEW s \in ApprovalStatus,
           UpdateApproval(r, a, s)
    PROVE  IndInv'
  <1> DEFINE ts  == IF s = "pending" /\ status[a] # "pending" THEN TasksOf(a) ELSE {}
             new == [NoRequest EXCEPT !.op = "update", !.a = a, !.b = board[a], !.s = s,
                                      !.prior = status[a], !.ts = ts]
  <1>0. ts \in SUBSET Tasks /\ status[a] \in ApprovalStatus
    BY DEF IndInv, TypeOK, TasksOf, UpdateApproval, Exists
  <1>1. /\ new \in RequestType
        /\ new.t = None /\ new.op = "update" /\ new.a = a /\ new.b = board[a] /\ new.s = s
        /\ new.prior = status[a] /\ new.ts = ts
    <2> HIDE DEF ts
    <2> QED BY <1>0 DEF IndInv, TypeOK, NoRequest, RequestType, NoHeir
  <1>2. /\ req' = [req EXCEPT ![r] = new]
        /\ pc' = [pc EXCEPT ![r] = IF ts # {} THEN "lock" ELSE "write"]
    BY DEF UpdateApproval
  <1> HIDE DEF new
  <1>3. TypeOK'
    BY <1>1, <1>2 DEF IndInv, TypeOK, UpdateApproval, rows, locks
  <1>4. OnePendingPerTask' /\ PrimaryIsLinked'
    BY DEF IndInv, OnePendingPerTask, PrimaryIsLinked, TasksOf, Exists, rows, UpdateApproval
  <1>5. ASSUME NEW q \in Requests
        PROVE  (CreateInv(q) /\ UpdateInv(q) /\ DeleteInv(q) /\ ShareInv(q) /\ GuardInv(q))'
    <2>1. CASE q = r
      <3>1. req'[q] = new /\ share'[q] = {}
        BY <2>1, <1>2 DEF IndInv, TypeOK, RequestInv, ShareInv, UpdateApproval, locks
      <3>2. UpdateInv(q)'
        BY <2>1, <3>1, <1>0, <1>1, <1>2
           DEF UpdateInv, UpdateApproval, Opens, Exists, TasksOf, ApprovalStatus, Decided, rows
      <3>3. CreateInv(q)' /\ DeleteInv(q)' /\ ShareInv(q)'
        BY <3>1, <1>1 DEF CreateInv, DeleteInv, ShareInv
      <3>4. GuardInv(q)'
        BY <2>1, <3>1, <1>1, <1>2 DEF IndInv, TypeOK, GuardInv, Opens, NoConflict
      <3> QED BY <3>2, <3>3, <3>4
    <2>2. CASE q # r
      BY <2>2, <1>1, <1>2, OthersKeepInv DEF IndInv, TypeOK, UpdateApproval, locks
    <2> QED BY <2>1, <2>2
  <1> QED BY <1>3, <1>4, <1>5 DEF IndInv, RequestInv

LEMMA BeginDeleteKeepsInv ==
    ASSUME IndInv, NEW r \in Requests, NEW t \in Tasks,
           NEW heir \in [Approvals -> Tasks \cup {None}], BeginDelete(r, t, heir)
    PROVE  IndInv'
  <1> DEFINE mine == {a \in Approvals : Exists(a) /\ primary[a] = t}
             ts   == {heir[a] : a \in mine} \ {None}
             cut  == {a \in Approvals : t \in links[a]}
             new  == [NoRequest EXCEPT !.op = "delete", !.t = t, !.ts = ts, !.mine = mine,
                                       !.cut = cut, !.heir = heir]
  <1>0. /\ ts \in SUBSET Tasks /\ mine \in SUBSET Approvals /\ cut \in SUBSET Approvals
        /\ t \notin ts
        /\ \A a \in mine : Exists(a) /\ primary[a] = t /\ rowLock[a] = None
        /\ \A a \in mine : IF heir[a] = None THEN links[a] \subseteq {t}
                           ELSE heir[a] \in ts /\ heir[a] # t /\ heir[a] \in links[a]
    <2>1. \A a \in mine : IF links[a] \ {t} # {} THEN heir[a] \in links[a] \ {t}
                         ELSE heir[a] = None
      BY DEF BeginDelete
    <2>2. \A a \in mine : /\ links[a] \subseteq Tasks
                         /\ IF heir[a] = None THEN links[a] \subseteq {t}
                            ELSE heir[a] # t /\ heir[a] \in links[a]
      BY <2>1, NoneIsNoId DEF IndInv, TypeOK
    <2>3. \A a \in mine : Exists(a) /\ primary[a] = t /\ rowLock[a] = None
      BY DEF BeginDelete
    <2> QED BY <2>2, <2>3
  <1>2. /\ req' = [req EXCEPT ![r] = new]
        /\ pc' = [pc EXCEPT ![r] = "write"]
        /\ rowLock' = [a \in Approvals |-> IF a \in mine THEN r ELSE rowLock[a]]
        /\ UNCHANGED <<rows, lock, share>>
        /\ pc[r] = "idle" /\ t \in tasks
        /\ \A q \in Requests : req[q].t # t
    BY DEF BeginDelete
  <1> HIDE DEF ts, mine, cut
  <1>1. /\ new \in RequestType
        /\ new.op = "delete" /\ new.t = t /\ new.ts = ts /\ new.mine = mine /\ new.heir = heir
    BY <1>0 DEF NoRequest, RequestType, NoHeir
  <1> HIDE DEF new
  <1>3. TypeOK'
    BY <1>0, <1>1, <1>2 DEF IndInv, TypeOK, BeginDelete, rows
  <1>4. OnePendingPerTask' /\ PrimaryIsLinked'
    BY DEF IndInv, OnePendingPerTask, PrimaryIsLinked, TasksOf, Exists, rows, BeginDelete
  <1>5. ASSUME NEW q \in Requests
        PROVE  (CreateInv(q) /\ UpdateInv(q) /\ DeleteInv(q) /\ ShareInv(q) /\ GuardInv(q))'
    <2>1. CASE q = r
      <3>1. req'[q] = new /\ share'[q] = {} /\ pc'[q] = "write"
        BY <2>1, <1>2 DEF IndInv, TypeOK, RequestInv, ShareInv, BeginDelete
      <3>2. DeleteInv(q)'
        <4>1. new.mine \subseteq Approvals /\ new.t \in tasks
          BY <1>0, <1>1, <1>2
        <4>4. \A x \in Requests \ {q} : req'[x].t # new.t
          BY <1>1, <1>2, <2>1 DEF IndInv, TypeOK
        <4>2. \A a \in new.mine : rowLock'[a] = q /\ Exists(a)' /\ primary'[a] = new.t
          BY <1>0, <1>1, <1>2, <2>1, <4>1 DEF Exists, rows
        <4>3. \A a \in new.mine : IF new.heir[a] = None THEN links'[a] \subseteq {new.t}
                                 ELSE /\ new.heir[a] \in new.ts /\ new.heir[a] # new.t
                                      /\ new.heir[a] \in links'[a]
          BY <1>0, <1>1, <1>2 DEF rows
        <4> QED
          BY <3>1, <4>1, <4>2, <4>3, <4>4, <1>2 DEF DeleteInv, rows
      <3>3. CreateInv(q)' /\ UpdateInv(q)' /\ ShareInv(q)' /\ GuardInv(q)'
        BY <3>1, <1>0, <1>1 DEF CreateInv, UpdateInv, ShareInv, GuardInv, Opens
      <3> QED BY <3>2, <3>3
    <2>2. CASE q # r
      <3>1. \A a \in Approvals : rowLock[a] = q => rowLock'[a] = q
        BY <1>0, <1>2, NoneIsNoId
      <3> QED
        BY <2>2, <3>1, <1>1, <1>2, OthersKeepInv DEF IndInv, TypeOK
    <2> QED BY <2>1, <2>2
  <1> QED BY <1>3, <1>4, <1>5 DEF IndInv, RequestInv

LEMMA LockTaskKeepsInv ==
    ASSUME IndInv, NEW r \in Requests, LockTask(r)
    PROVE  IndInv'
  <1>1. PICK t \in NextToLock(r) : CanLock(r, t) /\ lock' = [lock EXCEPT ![t] = r]
    BY DEF LockTask
  <1>2. t \in Tasks
    BY DEF NextToLock, ToLock, IndInv, TypeOK
  <1>3. TypeOK'
    BY <1>1, <1>2 DEF IndInv, TypeOK, LockTask, rows
  <1>4. OnePendingPerTask' /\ PrimaryIsLinked'
    BY DEF IndInv, OnePendingPerTask, PrimaryIsLinked, TasksOf, Exists, rows, LockTask
  <1>5. ASSUME NEW q \in Requests
        PROVE  (CreateInv(q) /\ UpdateInv(q) /\ DeleteInv(q) /\ ShareInv(q) /\ GuardInv(q))'
    <2>1. CASE q = r
      BY <2>1 DEF IndInv, RequestInv, CreateInv, UpdateInv, DeleteInv, ShareInv, GuardInv,
                  Opens, Exists, TasksOf, LockTask, rows
    <2>2. CASE q # r
      <3>1. \A u \in Tasks : lock[u] = q => lock'[u] = q
        BY <1>1, <1>2, <2>2, NoneIsNoId DEF IndInv, TypeOK, CanLock
      <3>2. (pc'[r] # "idle" /\ req'[r].op = "create" /\ pc[q] # "idle" /\ req[q].op = "create")
               => req'[r].a # req[q].a
        BY <2>2 DEF IndInv, RequestInv, CreateInv, LockTask
      <3> QED
        BY <2>2, <3>1, <3>2, OthersKeepInv DEF LockTask
    <2> QED BY <2>1, <2>2
  <1> QED BY <1>3, <1>4, <1>5 DEF IndInv, RequestInv

\* The conflict check: what it saw under the locks is what GuardInv says.
LEMMA CheckConflictsKeepsInv ==
    ASSUME IndInv, NEW r \in Requests, CheckConflicts(r)
    PROVE  IndInv'
  <1>3. TypeOK'
    BY DEF IndInv, TypeOK, CheckConflicts, rows, locks
  <1>4. OnePendingPerTask' /\ PrimaryIsLinked'
    BY DEF IndInv, OnePendingPerTask, PrimaryIsLinked, TasksOf, Exists, rows, CheckConflicts
  <1>5. ASSUME NEW q \in Requests
        PROVE  (CreateInv(q) /\ UpdateInv(q) /\ DeleteInv(q) /\ ShareInv(q) /\ GuardInv(q))'
    <2>0. pc'[r] = "write" /\ pc[r] = "lock" /\ req' = req /\ share' = share
      BY DEF IndInv, TypeOK, CheckConflicts, locks
    <2>1. CASE q = r
      <3>1. GuardInv(q)'
        <4>1. \A t \in req[r].ts \cap tasks : lock[t] = r
          BY DEF CheckConflicts, ToLock
        <4>2. NoConflict(req[r].b, req[r].ts, req[r].a)
          BY DEF CheckConflicts, Conflicts, NoConflict
        <4> QED
          BY <2>1, <4>1, <4>2 DEF GuardInv, NoConflict, TasksOf, CheckConflicts, rows, locks
      <3>2. UpdateInv(q)'
        BY <2>0, <2>1 DEF IndInv, RequestInv, UpdateInv, Opens, Exists, TasksOf,
                          CheckConflicts, rows
      <3>3. CreateInv(q)'
        BY <2>0, <2>1 DEF IndInv, RequestInv, CreateInv, CheckConflicts, rows, TypeOK
      <3>4. DeleteInv(q)' /\ ShareInv(q)'
        BY <2>0, <2>1 DEF IndInv, RequestInv, DeleteInv, ShareInv, CheckConflicts, rows
      <3> QED BY <3>1, <3>2, <3>3, <3>4
    <2>2. CASE q # r
      <3>1. (req'[r].op = "create" /\ pc[q] # "idle" /\ req[q].op = "create")
               => req'[r].a # req[q].a
        BY <2>0, <2>2 DEF IndInv, RequestInv, CreateInv
      <3> QED
        BY <2>2, <3>1, OthersKeepInv DEF IndInv, TypeOK, CheckConflicts, locks
    <2> QED BY <2>1, <2>2
  <1> QED BY <1>3, <1>4, <1>5 DEF IndInv, RequestInv

LEMMA ShareTaskKeepsInv ==
    ASSUME IndInv, NEW r \in Requests, ShareTask(r)
    PROVE  IndInv'
  <1>1. PICK t \in ToShare(r) \cap tasks : share' = [share EXCEPT ![r] = @ \cup {t}]
    BY DEF ShareTask
  <1>2. t \in Tasks /\ t \in req[r].ts \cap tasks
    BY DEF ToShare, IndInv, TypeOK
  <1>3. TypeOK'
    BY <1>1, <1>2 DEF IndInv, TypeOK, ShareTask, rows
  <1>4. OnePendingPerTask' /\ PrimaryIsLinked'
    BY DEF IndInv, OnePendingPerTask, PrimaryIsLinked, TasksOf, Exists, rows, ShareTask
  <1>5. ASSUME NEW q \in Requests
        PROVE  (CreateInv(q) /\ UpdateInv(q) /\ DeleteInv(q) /\ ShareInv(q) /\ GuardInv(q))'
    <2>1. CreateInv(q)' /\ UpdateInv(q)' /\ DeleteInv(q)' /\ GuardInv(q)'
      BY DEF IndInv, RequestInv, CreateInv, UpdateInv, DeleteInv, GuardInv, NoConflict,
             Opens, Exists, TasksOf, ShareTask, rows
    <2>2. ShareInv(q)'
      BY <1>1, <1>2 DEF IndInv, RequestInv, ShareInv, ShareTask, rows, TypeOK
    <2> QED BY <2>1, <2>2
  <1> QED BY <1>3, <1>4, <1>5 DEF IndInv, RequestInv

\* Two requests past the check never have a task in common.
LEMMA GuardsDisjoint ==
    ASSUME IndInv, NEW r \in Requests, NEW q \in Requests, q # r,
           pc[r] = "write", Opens(r), pc[q] = "write", Opens(q)
    PROVE  req[r].ts \cap req[q].ts \cap tasks = {}
  BY DEF IndInv, RequestInv, GuardInv

LEMMA CommitCreateKeepsInv ==
    ASSUME IndInv, NEW r \in Requests, CommitCreate(r)
    PROVE  IndInv'
  <1> SUFFICES ASSUME NEW a, a = req[r].a, NEW ts, ts = req[r].ts
               PROVE  IndInv'
    OBVIOUS
  <1>1. /\ pc[r] = "write" /\ req[r].op = "create" /\ Finish(r) /\ tasks' = tasks
        /\ status'  = [status  EXCEPT ![a] = req[r].s]
        /\ board'   = [board   EXCEPT ![a] = req[r].b]
        /\ primary' = [primary EXCEPT ![a] = req[r].p]
        /\ links'   = [links   EXCEPT ![a] = ts]
    BY DEF CommitCreate
  <1>2. /\ a \in Approvals /\ status[a] = "none" /\ req[r].b \in Boards
        /\ req[r].s \in ApprovalStatus
        /\ IF ts = {} THEN req[r].p = None ELSE req[r].p \in ts
    BY <1>1 DEF IndInv, RequestInv, CreateInv
  <1>3. ts \subseteq tasks
    BY <1>1 DEF CommitCreate, ToShare, IndInv, RequestInv, ShareInv
  <1>4. /\ status'[a] = req[r].s /\ board'[a] = req[r].b /\ primary'[a] = req[r].p
        /\ links'[a] = ts
        /\ \A c \in Approvals \ {a} : /\ status'[c] = status[c] /\ board'[c] = board[c]
                                      /\ primary'[c] = primary[c] /\ links'[c] = links[c]
    BY <1>1, <1>2 DEF IndInv, TypeOK
  <1>5. TasksOf(a)' = ts /\ \A c \in Approvals \ {a} : TasksOf(c)' = TasksOf(c)
    BY <1>2, <1>4 DEF TasksOf
  <1>6. Opens(r) <=> req[r].s = "pending"
    BY <1>1 DEF Opens
  <1>7. TypeOK'
    <2>1. req[r] \in RequestType /\ tasks \subseteq Tasks
      BY DEF IndInv, TypeOK
    <2>2. ts \in SUBSET Tasks /\ req[r].p \in Tasks \cup {None}
      BY <2>1 DEF RequestType
    <2> QED
      BY <1>1, <1>2, <2>2, FinishType DEF IndInv, TypeOK
  <1>8. PrimaryIsLinked'
    <2> SUFFICES ASSUME NEW c \in Approvals, Exists(c)'
                 PROVE  /\ links'[c] # {} => primary'[c] \in links'[c]
                        /\ TasksOf(c)' \subseteq tasks'
      BY DEF PrimaryIsLinked
    <2>1. CASE c = a
      BY <2>1, <1>1, <1>2, <1>3, <1>4, <1>5
    <2>2. CASE c # a
      BY <2>2, <1>1, <1>4, <1>5 DEF IndInv, PrimaryIsLinked, Exists
    <2> QED BY <2>1, <2>2
  <1>9. OnePendingPerTask'
    <2>1. ASSUME NEW c \in Approvals \ {a}, status'[c] = "pending", status'[a] = "pending",
                 board'[c] = board'[a]
          PROVE  TasksOf(c)' \cap TasksOf(a)' = {}
      <3>1. NoConflict(req[r].b, ts, a)
        BY <1>1, <1>4, <1>6, <2>1 DEF IndInv, RequestInv, GuardInv
      <3> QED BY <3>1, <2>1, <1>4, <1>5 DEF NoConflict
    <2>2. ASSUME NEW c \in Approvals \ {a}, NEW d \in Approvals \ {a}, c # d,
                 status'[c] = "pending", status'[d] = "pending", board'[c] = board'[d]
          PROVE  TasksOf(c)' \cap TasksOf(d)' = {}
      BY <2>2, <1>4, <1>5 DEF IndInv, OnePendingPerTask
    <2> QED BY <2>1, <2>2 DEF OnePendingPerTask
  <1>10. ASSUME NEW q \in Requests
         PROVE  (CreateInv(q) /\ UpdateInv(q) /\ DeleteInv(q) /\ ShareInv(q) /\ GuardInv(q))'
    <2>1. CASE q = r
      BY <1>1, <2>1 DEF IndInv, TypeOK, Finish, NoRequest, CreateInv, UpdateInv, DeleteInv,
                        ShareInv, GuardInv, Opens
    <2>2. CASE q # r
      <3>1. /\ pc'[q] = pc[q] /\ req'[q] = req[q] /\ share'[q] = share[q]
            /\ \A t \in Tasks : lock[t] = q => lock'[t] = q
            /\ \A c \in Approvals : rowLock[c] = q => rowLock'[c] = q
            /\ pc'[r] = "idle"
            /\ \A x \in Requests \ {r} : pc'[x] = pc[x] /\ req'[x] = req[x]
            /\ req'[r].t = None
            /\ (pc[q] # "idle" /\ req[q].op = "delete") =>
                  \A x \in Requests \ {q} : req'[x].t # req[q].t
        <4>1. /\ pc'[q] = pc[q] /\ req'[q] = req[q] /\ share'[q] = share[q]
              /\ \A u \in Tasks : lock[u] = q => lock'[u] = q
              /\ \A c \in Approvals : rowLock[c] = q => rowLock'[c] = q
              /\ pc'[r] = "idle"
              /\ \A x \in Requests \ {r} : pc'[x] = pc[x] /\ req'[x] = req[x]
              /\ req'[r].t = None
          BY <1>1, <2>2 DEF IndInv, TypeOK, Finish, NoRequest
        <4>2. (pc[q] # "idle" /\ req[q].op = "delete") =>
                  \A x \in Requests \ {q} : req'[x].t # req[q].t
          BY <4>1, NoneIsNoId DEF IndInv, TypeOK, RequestInv, DeleteInv
        <4> QED BY <4>1, <4>2
      <3>2. CreateInv(q)'
        BY <1>1, <1>4, <2>2, <3>1 DEF IndInv, RequestInv, CreateInv
      <3>3. UpdateInv(q)'
        <4>1. (pc[q] # "idle" /\ req[q].op = "update") => req[q].a \in Approvals \ {a}
          BY <1>2 DEF IndInv, RequestInv, UpdateInv
        <4> QED
          BY <1>4, <1>5, <3>1, <4>1 DEF IndInv, RequestInv, UpdateInv, Opens, Exists
      <3>4. DeleteInv(q)'
        <4>1. req[q].mine \subseteq Approvals
          BY DEF IndInv, TypeOK, RequestType
        <4>2. (pc[q] # "idle" /\ req[q].op = "delete") => a \notin req[q].mine
          BY <1>2 DEF IndInv, RequestInv, DeleteInv, Exists, ApprovalStatus, Decided
        <4> QED
          BY <1>1, <1>4, <3>1, <4>1, <4>2 DEF IndInv, RequestInv, DeleteInv, Exists
      <3>5. ShareInv(q)'
        BY <1>1, <3>1 DEF IndInv, RequestInv, ShareInv
      <3>6. GuardInv(q)'
        <4> SUFFICES ASSUME pc[q] = "write", Opens(q)
                     PROVE  /\ \A t \in req[q].ts \cap tasks : lock'[t] = q
                            /\ NoConflict(req[q].b, req[q].ts, req[q].a)'
          BY <1>1, <3>1 DEF GuardInv, Opens, NoConflict, TasksOf
        <4>1. \A t \in req[q].ts \cap tasks : lock'[t] = q
          BY <3>1 DEF IndInv, RequestInv, GuardInv, TypeOK
        <4>2. \A c \in Approvals \ {a} :
                 (status'[c] = "pending" /\ board'[c] = req[q].b /\ c # req[q].a)
                    => TasksOf(c)' \cap req[q].ts = {}
          BY <1>4, <1>5 DEF IndInv, RequestInv, GuardInv, NoConflict
        <4>3. status'[a] = "pending" => TasksOf(a)' \cap req[q].ts = {}
          BY <1>1, <1>3, <1>4, <1>5, <1>6, <2>2, GuardsDisjoint
        <4> QED BY <3>1, <4>1, <4>2, <4>3 DEF NoConflict
      <3> QED BY <3>2, <3>3, <3>4, <3>5, <3>6
    <2> QED BY <2>1, <2>2
  <1> QED BY <1>7, <1>8, <1>9, <1>10 DEF IndInv, RequestInv

LEMMA CommitUpdateKeepsInv ==
    ASSUME IndInv, NEW r \in Requests, CommitUpdate(r)
    PROVE  IndInv'
  <1> SUFFICES ASSUME NEW a, a = req[r].a, NEW ts, ts = req[r].ts
               PROVE  IndInv'
    OBVIOUS
  <1>1. /\ pc[r] = "write" /\ req[r].op = "update" /\ Finish(r)
        /\ tasks' = tasks /\ board' = board /\ primary' = primary /\ links' = links
        /\ status' = IF Exists(a) /\ req[r].s # req[r].prior
                     THEN [status EXCEPT ![a] = req[r].s] ELSE status
    BY DEF CommitUpdate
  <1>2. /\ a \in Approvals /\ req[r].s \in ApprovalStatus /\ status[a] # "none"
        /\ board[a] = req[r].b
        /\ (Opens(r) /\ Exists(a)) => TasksOf(a) \subseteq ts
    BY <1>1 DEF IndInv, RequestInv, UpdateInv
  <1>3. \A c \in Approvals : Exists(c)' => Exists(c)
    BY <1>1, <1>2 DEF IndInv, TypeOK, Exists
  <1>4. \A c \in Approvals : TasksOf(c)' = TasksOf(c)
    BY <1>1 DEF TasksOf
  <1>5. \A c \in Approvals : status'[c] = "pending" => \/ status[c] = "pending"
                                                       \/ c = a /\ Opens(r) /\ Exists(a)
    BY <1>1, <1>2 DEF IndInv, TypeOK, Opens
  <1>6. Opens(r) => NoConflict(req[r].b, ts, a)
    BY <1>1 DEF IndInv, RequestInv, GuardInv
  <1>7. \A c \in Approvals : (status'[c] = "none") <=> (status[c] = "none")
    BY <1>1, <1>2 DEF IndInv, TypeOK, ApprovalStatus, Decided
  <1>12. \A c \in Approvals : Exists(c) => Exists(c)'
    BY <1>1, <1>2 DEF IndInv, TypeOK, Exists
  <1>8. TypeOK'
    BY <1>1, <1>2, FinishType DEF IndInv, TypeOK
  <1>9. PrimaryIsLinked'
    BY <1>1, <1>3, <1>4 DEF IndInv, PrimaryIsLinked
  <1>10. OnePendingPerTask'
    <2>1. ASSUME NEW c \in Approvals, c # a, status[c] = "pending", board[c] = board[a],
                 Opens(r), Exists(a)
          PROVE  TasksOf(c) \cap TasksOf(a) = {}
      BY <2>1, <1>2, <1>6 DEF NoConflict
    <2> QED
      BY <2>1, <1>1, <1>4, <1>5 DEF IndInv, OnePendingPerTask
  <1>11. ASSUME NEW q \in Requests
         PROVE  (CreateInv(q) /\ UpdateInv(q) /\ DeleteInv(q) /\ ShareInv(q) /\ GuardInv(q))'
    <2>1. CASE q = r
      BY <1>1, <2>1 DEF IndInv, TypeOK, Finish, NoRequest, CreateInv, UpdateInv, DeleteInv,
                        ShareInv, GuardInv, Opens
    <2>2. CASE q # r
      <3>1. /\ pc'[q] = pc[q] /\ req'[q] = req[q] /\ share'[q] = share[q]
            /\ \A t \in Tasks : lock[t] = q => lock'[t] = q
            /\ \A c \in Approvals : rowLock[c] = q => rowLock'[c] = q
            /\ pc'[r] = "idle"
            /\ \A x \in Requests \ {r} : pc'[x] = pc[x] /\ req'[x] = req[x]
            /\ req'[r].t = None
            /\ (pc[q] # "idle" /\ req[q].op = "delete") =>
                  \A x \in Requests \ {q} : req'[x].t # req[q].t
        <4>1. /\ pc'[q] = pc[q] /\ req'[q] = req[q] /\ share'[q] = share[q]
              /\ \A u \in Tasks : lock[u] = q => lock'[u] = q
              /\ \A c \in Approvals : rowLock[c] = q => rowLock'[c] = q
              /\ pc'[r] = "idle"
              /\ \A x \in Requests \ {r} : pc'[x] = pc[x] /\ req'[x] = req[x]
              /\ req'[r].t = None
          BY <1>1, <2>2 DEF IndInv, TypeOK, Finish, NoRequest
        <4>2. (pc[q] # "idle" /\ req[q].op = "delete") =>
                  \A x \in Requests \ {q} : req'[x].t # req[q].t
          BY <4>1, NoneIsNoId DEF IndInv, TypeOK, RequestInv, DeleteInv
        <4> QED BY <4>1, <4>2
      <3>2. CreateInv(q)'
        BY <1>7, <2>2, <3>1 DEF IndInv, RequestInv, CreateInv
      <3>3. UpdateInv(q)'
        BY <1>1, <1>3, <1>4, <1>7, <3>1 DEF IndInv, RequestInv, UpdateInv, Opens
      <3>4. DeleteInv(q)'
        <4>1. req[q].mine \subseteq Approvals
          BY DEF IndInv, TypeOK, RequestType
        <4> QED
          BY <1>1, <1>12, <3>1, <4>1 DEF IndInv, RequestInv, DeleteInv
      <3>5. ShareInv(q)'
        BY <1>1, <3>1 DEF IndInv, RequestInv, ShareInv
      <3>6. GuardInv(q)'
        <4> SUFFICES ASSUME pc[q] = "write", Opens(q)
                     PROVE  /\ \A t \in req[q].ts \cap tasks : lock'[t] = q
                            /\ NoConflict(req[q].b, req[q].ts, req[q].a)'
          BY <1>1, <3>1 DEF GuardInv, Opens, NoConflict
        <4>1. \A t \in req[q].ts \cap tasks : lock'[t] = q
          BY <3>1 DEF IndInv, RequestInv, GuardInv, TypeOK
        <4>2. \A c \in Approvals :
                 (status[c] = "pending" /\ board[c] = req[q].b /\ c # req[q].a)
                    => TasksOf(c) \cap req[q].ts = {}
          BY DEF IndInv, RequestInv, GuardInv, NoConflict
        <4>3. (Opens(r) /\ Exists(a)) => TasksOf(a) \cap req[q].ts = {}
          <5>1. Exists(a) => TasksOf(a) \subseteq tasks
            BY <1>2 DEF IndInv, PrimaryIsLinked
          <5> QED BY <1>1, <1>2, <2>2, <5>1, GuardsDisjoint
        <4>4. \A c \in Approvals :
                 (status'[c] = "pending" /\ board'[c] = req[q].b /\ c # req[q].a)
                    => TasksOf(c)' \cap req[q].ts = {}
          BY <1>1, <1>4, <1>5, <4>2, <4>3
        <4> QED BY <3>1, <4>1, <4>4 DEF NoConflict
      <3> QED BY <3>2, <3>3, <3>4, <3>5, <3>6
    <2> QED BY <2>1, <2>2
  <1> QED BY <1>8, <1>9, <1>10, <1>11 DEF IndInv, RequestInv

\* A deletion only takes tasks away from the approvals that survive it, and
\* gives those whose task_id it was a task they are still linked to.
LEMMA CommitDeleteKeepsInv ==
    ASSUME IndInv, NEW r \in Requests, CommitDelete(r)
    PROVE  IndInv'
  <1> SUFFICES ASSUME NEW t, t = req[r].t, NEW mine, mine = req[r].mine,
                      NEW heir, heir = req[r].heir
               PROVE  IndInv'
    OBVIOUS
  <1>1. /\ pc[r] = "write" /\ req[r].op = "delete" /\ Finish(r) /\ board' = board
        /\ tasks' = tasks \ {t}
        /\ links' = [a \in Approvals |-> links[a] \ {t}]
        /\ primary' = [a \in Approvals |-> IF a \in mine THEN heir[a] ELSE primary[a]]
        /\ status' = [a \in Approvals |-> IF a \in mine /\ heir[a] = None
                                          THEN "deleted" ELSE status[a]]
    BY DEF CommitDelete
  <1>2. /\ t \in tasks /\ mine \subseteq Approvals /\ heir \in [Approvals -> Tasks \cup {None}]
        /\ \A a \in mine : rowLock[a] = r /\ Exists(a)
        /\ \A a \in mine : IF heir[a] = None THEN links[a] \subseteq {t}
                           ELSE /\ heir[a] \in req[r].ts /\ heir[a] # t
                                /\ heir[a] \in tasks => heir[a] \in links[a]
    <2>1. req[r] \in RequestType
      BY DEF IndInv, TypeOK
    <2>2. mine \subseteq Approvals /\ heir \in [Approvals -> Tasks \cup {None}]
      BY <2>1 DEF RequestType
    <2>3. DeleteInv(r)
      BY DEF IndInv, RequestInv
    <2>4. \A a \in mine : rowLock[a] = r /\ Exists(a)
      BY <1>1, <2>3 DEF DeleteInv
    <2>5. t \in tasks /\ \A a \in mine :
             IF heir[a] = None THEN links[a] \subseteq {t}
             ELSE /\ heir[a] \in req[r].ts /\ heir[a] # t
                  /\ heir[a] \in tasks => heir[a] \in links[a]
      BY <1>1, <2>3 DEF DeleteInv
    <2> QED BY <2>2, <2>4, <2>5
  <1>3. req[r].ts \subseteq tasks
    BY <1>1 DEF CommitDelete, ToShare, IndInv, RequestInv, ShareInv
  <1>4. \A a \in Approvals : Exists(a)' => Exists(a) /\ (a \in mine => heir[a] # None)
    BY <1>1 DEF Exists, ApprovalStatus, Decided
  <1>5. \A a \in mine : heir[a] # None => heir[a] \in links[a] \ {t}
    BY <1>2, <1>3
  <1>6. \A a \in Approvals \ mine : Exists(a) => primary[a] # t
    BY DEF CommitDelete, LateReferences
  <1>7. ASSUME NEW a \in Approvals, Exists(a)'
        PROVE  /\ links'[a] # {} => primary'[a] \in links'[a]
               /\ TasksOf(a)' \subseteq TasksOf(a)
               /\ t \notin TasksOf(a)'
    <2>0. /\ Exists(a) /\ links'[a] = links[a] \ {t}
          /\ links[a] # {} => primary[a] \in links[a]
      BY <1>1, <1>4, <1>7 DEF IndInv, PrimaryIsLinked
    <2>1. CASE a \in mine
      <3>1. primary'[a] = heir[a] /\ heir[a] \in links[a] \ {t}
        BY <1>1, <1>4, <1>5, <1>7, <2>1
      <3> QED BY <2>0, <3>1 DEF TasksOf
    <2>2. CASE a \notin mine
      <3>1. primary'[a] = primary[a] /\ primary[a] # t
        BY <1>1, <1>6, <2>0, <2>2
      <3> QED BY <2>0, <3>1 DEF TasksOf
    <2> QED BY <2>1, <2>2
  <1>8. \A a \in Approvals : /\ (status'[a] = "none") <=> (status[a] = "none")
                             /\ status'[a] = "pending" => status[a] = "pending" /\ Exists(a)'
    BY <1>1, <1>2 DEF Exists, ApprovalStatus, Decided
  <1>9. TypeOK'
    BY <1>1, <1>2, FinishType DEF IndInv, TypeOK
  <1>10. PrimaryIsLinked'
    BY <1>1, <1>4, <1>7 DEF IndInv, PrimaryIsLinked
  <1>11. OnePendingPerTask'
    BY <1>1, <1>7, <1>8 DEF IndInv, OnePendingPerTask
  <1>12. ASSUME NEW q \in Requests
         PROVE  (CreateInv(q) /\ UpdateInv(q) /\ DeleteInv(q) /\ ShareInv(q) /\ GuardInv(q))'
    <2>1. CASE q = r
      BY <1>1, <2>1 DEF IndInv, TypeOK, Finish, NoRequest, CreateInv, UpdateInv, DeleteInv,
                        ShareInv, GuardInv, Opens
    <2>2. CASE q # r
      <3>1. /\ pc'[q] = pc[q] /\ req'[q] = req[q] /\ share'[q] = share[q]
            /\ \A u \in Tasks : lock[u] = q => lock'[u] = q
            /\ \A c \in Approvals : rowLock[c] = q => rowLock'[c] = q
            /\ pc'[r] = "idle"
            /\ \A x \in Requests \ {r} : pc'[x] = pc[x] /\ req'[x] = req[x]
            /\ req'[r].t = None
            /\ (pc[q] # "idle" /\ req[q].op = "delete") =>
                  \A x \in Requests \ {q} : req'[x].t # req[q].t
        <4>1. /\ pc'[q] = pc[q] /\ req'[q] = req[q] /\ share'[q] = share[q]
              /\ \A u \in Tasks : lock[u] = q => lock'[u] = q
              /\ \A c \in Approvals : rowLock[c] = q => rowLock'[c] = q
              /\ pc'[r] = "idle"
              /\ \A x \in Requests \ {r} : pc'[x] = pc[x] /\ req'[x] = req[x]
              /\ req'[r].t = None
          BY <1>1, <2>2 DEF IndInv, TypeOK, Finish, NoRequest
        <4>2. (pc[q] # "idle" /\ req[q].op = "delete") =>
                  \A x \in Requests \ {q} : req'[x].t # req[q].t
          BY <4>1, NoneIsNoId DEF IndInv, TypeOK, RequestInv, DeleteInv
        <4> QED BY <4>1, <4>2
      <3>2. CreateInv(q)'
        BY <1>8, <2>2, <3>1 DEF IndInv, RequestInv, CreateInv
      <3>3. UpdateInv(q)'
        <4>1. (pc[q] # "idle" /\ req[q].op = "update") => req[q].a \in Approvals
          BY DEF IndInv, RequestInv, UpdateInv
        <4> QED
          BY <1>1, <1>4, <1>7, <1>8, <3>1, <4>1 DEF IndInv, RequestInv, UpdateInv, Opens
      <3>4. DeleteInv(q)'
        <4>1. req[q].mine \subseteq Approvals
          BY DEF IndInv, TypeOK, RequestType
        <4>2. pc[q] # "idle" /\ req[q].op = "delete" =>
                 \A c \in req[q].mine : c \notin mine
          <5>1. DeleteInv(q)
            BY DEF IndInv, RequestInv
          <5> QED BY <1>2, <2>2, <5>1 DEF DeleteInv
        <4>3. pc[q] # "idle" /\ req[q].op = "delete" =>
                 \A c \in req[q].mine : Exists(c)' /\ primary'[c] = primary[c]
          BY <1>1, <4>1, <4>2 DEF IndInv, RequestInv, DeleteInv, Exists
        <4>4. \A c \in Approvals : links'[c] = links[c] \ {t}
          BY <1>1
        <4>5. pc[q] # "idle" /\ req[q].op = "delete" => req[q].t \in tasks \ {t}
          BY <2>2 DEF IndInv, RequestInv, DeleteInv
        <4>6. DeleteInv(q)
          BY DEF IndInv, RequestInv
        <4>7. tasks' = tasks \ {t}
          BY <1>1
        <4> QED
          BY <3>1, <4>1, <4>3, <4>4, <4>5, <4>6, <4>7 DEF DeleteInv
      <3>5. ShareInv(q)'
        <4>1. t \notin share[q]
          BY <2>2 DEF CommitDelete, CanLock, Sharers
        <4> QED
          BY <1>1, <3>1, <4>1 DEF IndInv, RequestInv, ShareInv
      <3>6. GuardInv(q)'
        <4> SUFFICES ASSUME pc[q] = "write", Opens(q)
                     PROVE  /\ \A u \in req[q].ts \cap tasks : lock'[u] = q
                            /\ NoConflict(req[q].b, req[q].ts, req[q].a)'
          BY <1>1, <3>1 DEF GuardInv, Opens, NoConflict
        <4>1. \A u \in req[q].ts \cap tasks : lock'[u] = q
          BY <3>1 DEF IndInv, RequestInv, GuardInv, TypeOK
        <4>2. \A c \in Approvals :
                 (status[c] = "pending" /\ board[c] = req[q].b /\ c # req[q].a)
                    => TasksOf(c) \cap req[q].ts = {}
          BY DEF IndInv, RequestInv, GuardInv, NoConflict
        <4>3. \A c \in Approvals :
                 (status'[c] = "pending" /\ board'[c] = req[q].b /\ c # req[q].a)
                    => TasksOf(c)' \cap req[q].ts = {}
          BY <1>1, <1>7, <1>8, <4>2
        <4> QED BY <3>1, <4>1, <4>3 DEF NoConflict
      <3> QED BY <3>2, <3>3, <3>4, <3>5, <3>6
    <2> QED BY <2>1, <2>2
  <1> QED BY <1>9, <1>10, <1>11, <1>12 DEF IndInv, RequestInv

------------------------------------------------------------------------------
LEMMA InitInv == Init => IndInv
  <1> SUFFICES ASSUME Init PROVE IndInv
    OBVIOUS
  <1>1. NoRequest \in RequestType
    BY DEF NoRequest, RequestType, NoHeir
  <1>2. TypeOK
    BY <1>1 DEF Init, TypeOK, ApprovalStatus, Decided
  <1>3. \A a \in Approvals : TasksOf(a) = {primary[a]} \ {None}
    BY DEF Init, TasksOf
  <1>4. OnePendingPerTask
    BY <1>3 DEF Init, OnePendingPerTask
  <1>5. PrimaryIsLinked
    BY <1>2, <1>3 DEF Init, PrimaryIsLinked, TypeOK
  <1>6. RequestInv
    BY DEF Init, RequestInv, CreateInv, UpdateInv, DeleteInv, ShareInv, GuardInv, NoRequest
  <1> QED BY <1>2, <1>4, <1>5, <1>6 DEF IndInv

LEMMA NextInv == IndInv /\ [Next]_vars => IndInv'
  <1> SUFFICES ASSUME IndInv, [Next]_vars PROVE IndInv'
    OBVIOUS
  <1>1. CASE UNCHANGED vars
    <2>1. UNCHANGED <<tasks, status, board, primary, links, pc, req, lock, share, rowLock>>
      BY <1>1 DEF vars, rows, locks
    <2>2. (TypeOK /\ OnePendingPerTask /\ PrimaryIsLinked)'
      BY <2>1 DEF IndInv, TypeOK, OnePendingPerTask, PrimaryIsLinked, Exists, TasksOf
    <2>3. ASSUME NEW q \in Requests
          PROVE  (CreateInv(q) /\ UpdateInv(q) /\ DeleteInv(q) /\ ShareInv(q) /\ GuardInv(q))'
      <3>1. (CreateInv(q) /\ UpdateInv(q) /\ ShareInv(q))'
        BY <2>1 DEF IndInv, RequestInv, CreateInv, UpdateInv, ShareInv, Opens, Exists, TasksOf
      <3>2. DeleteInv(q)'
        BY <2>1 DEF IndInv, RequestInv, DeleteInv, Exists
      <3>3. GuardInv(q)'
        BY <2>1 DEF IndInv, RequestInv, GuardInv, NoConflict, Opens, TasksOf
      <3> QED BY <3>1, <3>2, <3>3
    <2> QED BY <2>2, <2>3 DEF IndInv, RequestInv
  <1>2. ASSUME NEW r \in Requests, Arrive(r)
        PROVE  IndInv'
    BY <1>2, CreateApprovalKeepsInv, UpdateApprovalKeepsInv, BeginDeleteKeepsInv DEF Arrive
  <1>3. ASSUME NEW r \in Requests, Progress(r) \/ RequestFails(r)
        PROVE  IndInv'
    <2>1. CASE RejectConflict(r)
      BY <2>1, FinishKeepsInv DEF RejectConflict
    <2>2. CASE ForeignKeyError(r)
      BY <2>2, FinishKeepsInv DEF ForeignKeyError
    <2>3. CASE DeleteRefused(r)
      BY <2>3, FinishKeepsInv DEF DeleteRefused
    <2>4. CASE DeadlockAbort(r)
      BY <2>4, FinishKeepsInv DEF DeadlockAbort
    <2>5. CASE RequestFails(r)
      BY <2>5, FinishKeepsInv DEF RequestFails
    <2>6. CASE LockTask(r) \/ CheckConflicts(r) \/ ShareTask(r)
      BY <2>6, LockTaskKeepsInv, CheckConflictsKeepsInv, ShareTaskKeepsInv
    <2>7. CASE CommitCreate(r) \/ CommitUpdate(r) \/ CommitDelete(r)
      BY <2>7, CommitCreateKeepsInv, CommitUpdateKeepsInv, CommitDeleteKeepsInv
    <2> QED BY <1>3, <2>1, <2>2, <2>3, <2>4, <2>5, <2>6, <2>7 DEF Progress
  <1> QED BY <1>1, <1>2, <1>3 DEF Next

\* The inductive invariant holds in every state of every behaviour.
THEOREM Invariance == Spec => []IndInv
  BY InitInv, NextInv, PTL DEF Spec

\* Rows and requests keep their types.
THEOREM TypeCorrect == Spec => []TypeOK
  <1>1. IndInv => TypeOK
    BY DEF IndInv
  <1> QED BY Invariance, <1>1, PTL

\* At most one pending approval per task of a board, for any number of
\* requests that create, re-open, resolve and delete at the same time: the row
\* locks of lock_tasks_for_approval are enough.
THEOREM OnePendingApproval == Spec => []OnePendingPerTask
  <1>1. IndInv => OnePendingPerTask
    BY DEF IndInv
  <1> QED BY Invariance, <1>1, PTL

\* No approval is left naming a deleted task or a task it is not linked to.
THEOREM PrimaryStaysLinked == Spec => []PrimaryIsLinked
  <1>1. IndInv => PrimaryIsLinked
    BY DEF IndInv
  <1> QED BY Invariance, <1>1, PTL

------------------------------------------------------------------------------
(***************************************************************************)
(* Locking in order.  Among requests that are still locking, whoever holds *)
(* a row wants a larger one next, so that a circle would climb for ever.   *)
(***************************************************************************)
OrderInv == \A r \in Requests :
    /\ pc[r] = "idle" => \A t \in Tasks : lock[t] # r
    /\ pc[r] = "lock" => /\ share[r] = {}
                         /\ \A t \in Tasks : lock[t] = r => \A u \in ToLock(r) : t < u

\* A set of tasks has a largest one.
LEMMA NoEndlessClimb ==
    ASSUME NEW N \in SUBSET Tasks, N # {}
    PROVE  \E t \in N : \A u \in N : ~ (t < u)
<1> DEFINE Above(t) == {u \in Tasks : t < u}
           T == {Cardinality(Above(t)) : t \in N}
<1>1. \A t \in Tasks : IsFiniteSet(Above(t)) /\ Cardinality(Above(t)) \in Nat
  BY TasksAreFinite, FS_Subset, FS_CardinalityType
<1>2. ASSUME NEW t \in N, NEW u \in N, t < u
      PROVE  Cardinality(Above(u)) < Cardinality(Above(t))
  <2>1. Above(u) \subseteq Above(t) /\ Above(u) # Above(t)
    <3>1. u \in Above(t) /\ u \notin Above(u)
      BY <1>2, TasksAreOrdered
    <3>2. \A v \in Tasks : u < v => t < v
      BY <1>2, TasksAreOrdered
    <3>3. QED
      BY <3>1, <3>2
  <2>2. /\ Cardinality(Above(u)) <= Cardinality(Above(t))
        /\ Cardinality(Above(u)) # Cardinality(Above(t))
    <3> HIDE DEF Above
    <3>1. QED
      BY <1>1, <2>1, FS_Subset
  <2>3. QED
    BY <1>1, <2>2
<1>3. T \subseteq Nat /\ T # {}
  BY <1>1
<1>4. PICK x \in T : \A y \in T : ~ (<<y, x>> \in OpToRel(<, Nat))
  <2> HIDE DEF T
  <2>1. QED
    BY <1>3, NatLessThanWellFounded, WFMin
<1>5. PICK t \in N : x = Cardinality(Above(t))
  OBVIOUS
<1>6. ASSUME NEW u \in N, t < u PROVE FALSE
  <2>1. Cardinality(Above(u)) \in T /\ Cardinality(Above(u)) < x
    BY <1>2, <1>5, <1>6
  <2>2. <<Cardinality(Above(u)), x>> \in OpToRel(<, Nat)
    BY <1>3, <2>1 DEF OpToRel
  <2>3. QED
    BY <1>4, <2>1, <2>2
<1>7. QED
  BY <1>6

\* Whoever waits for a locker of S waits for one that wants a larger row.
LEMMA NoCircle == TypeOK /\ OrderInv => OrderedLockingNeverDeadlocks
<1> SUFFICES ASSUME TypeOK, OrderInv,
                    NEW S \in SUBSET {r \in Requests : pc[r] = "lock"}, Stuck(S)
             PROVE  FALSE
  BY DEF OrderedLockingNeverDeadlocks
<1> DEFINE N == UNION {NextToLock(r) : r \in S}
<1>0. ASSUME NEW r \in S, NEW t \in NextToLock(r)
      PROVE  t \in ToLock(r) /\ t \in Tasks /\ t \in Nat /\ \A u \in ToLock(r) : t <= u
  BY TasksAreOrdered DEF NextToLock, ToLock, TypeOK
<1>1. ASSUME NEW r \in S
      PROVE  \E t \in NextToLock(r), q \in S : lock[t] = q
  <2>1. PICK q \in S : q \in Blockers(r)
    BY DEF Stuck
  <2>2. PICK t \in NextToLock(r) : q \in {lock[t]} \cup Sharers(t)
    BY <2>1 DEF Blockers
  <2>3. share[q] = {}
    BY DEF OrderInv
  <2>4. QED
    BY <2>2, <2>3 DEF Sharers
<1>2. N \in SUBSET Tasks /\ N # {}
  <2>1. PICK r \in S : TRUE
    BY DEF Stuck
  <2>2. QED
    BY <1>0, <1>1, <2>1
<1>3. ASSUME NEW t \in N PROVE \E u \in N : t < u
  <2>1. PICK r \in S : t \in NextToLock(r)
    OBVIOUS
  <2>2. PICK t2 \in NextToLock(r), q \in S : lock[t2] = q
    BY <1>1
  <2>3. t2 = t
    <3>1. t \in Nat /\ t2 \in Nat /\ t <= t2 /\ t2 <= t
      BY <1>0, <2>1, <2>2
    <3>2. QED
      BY <3>1
  <2>4. PICK u \in NextToLock(q) : TRUE
    BY <1>1
  <2>5. u \in ToLock(q) /\ q \in Requests /\ pc[q] = "lock" /\ t \in Tasks
    BY <1>2 DEF NextToLock
  <2>6. QED
    BY <2>2, <2>3, <2>4, <2>5 DEF OrderInv
<1>4. QED
  <2> HIDE DEF N
  <2>1. QED
    BY <1>2, <1>3, NoEndlessClimb

LEMMA OrderInit == Init => OrderInv
  BY NoneIsNoId DEF Init, OrderInv

\* What a step of r leaves of what q, another request, holds and wants.
LEMMA OthersKeepOrder ==
    ASSUME OrderInv, NEW r \in Requests, NEW q \in Requests \ {r},
           pc'[q] = pc[q], req'[q] = req[q], share'[q] = share[q], tasks' \subseteq tasks,
           \A t \in Tasks : (lock'[t] = q) <=> (lock[t] = q), tasks \subseteq Tasks
    PROVE  /\ pc'[q] = "idle" => \A t \in Tasks : lock'[t] # q
           /\ pc'[q] = "lock" => /\ share'[q] = {}
                                 /\ \A t \in Tasks : lock'[t] = q =>
                                       \A u \in ToLock(q)' : t < u
<1>1. ToLock(q)' \subseteq ToLock(q)
  BY DEF ToLock
<1>2. QED
  BY <1>1 DEF OrderInv

LEMMA FinishKeepsOrder ==
    ASSUME TypeOK, OrderInv, NEW r \in Requests, Finish(r), tasks' \subseteq tasks
    PROVE  OrderInv'
<1>1. pc'[r] = "idle" /\ \A t \in Tasks : lock'[t] # r
  BY NoneIsNoId DEF TypeOK, Finish
<1>2. ASSUME NEW q \in Requests \ {r}
      PROVE  /\ pc'[q] = pc[q] /\ req'[q] = req[q] /\ share'[q] = share[q]
             /\ \A t \in Tasks : (lock'[t] = q) <=> (lock[t] = q)
  BY NoneIsNoId DEF TypeOK, Finish
<1>3. QED
  BY <1>1, <1>2, OthersKeepOrder DEF OrderInv, TypeOK

LEMMA ArriveKeepsOrder ==
    ASSUME IndInv, OrderInv, NEW r \in Requests, Arrive(r)
    PROVE  OrderInv'
<1> DEFINE Begun(Q) == /\ pc[r] = "idle" /\ pc'[r] \in {"lock", "write"}
                       /\ lock' = lock /\ share' = share /\ tasks' = tasks
                       /\ \A q \in Q : pc'[q] = pc[q] /\ req'[q] = req[q]
<1>t. pc \in [Requests -> {"idle", "lock", "write"}] /\ DOMAIN req = Requests
  BY DEF IndInv, TypeOK
<1>c. ASSUME NEW a \in Approvals, NEW b \in Boards, NEW s \in ApprovalStatus, NEW ts \in SUBSET Tasks,
             NEW p \in Tasks \cup {None}, CreateApproval(r, a, b, s, ts, p)
      PROVE  Begun(Requests \ {r})
  BY <1>c, <1>t DEF CreateApproval, rows, locks
<1>u. ASSUME NEW a \in Approvals, NEW s \in ApprovalStatus, UpdateApproval(r, a, s)
      PROVE  Begun(Requests \ {r})
  BY <1>u, <1>t DEF UpdateApproval, rows, locks
<1>d. ASSUME NEW t \in Tasks, NEW heir \in [Approvals -> Tasks \cup {None}], BeginDelete(r, t, heir)
      PROVE  Begun(Requests \ {r})
  BY <1>d, <1>t DEF BeginDelete, rows, locks
<1>1. Begun(Requests \ {r})
  BY <1>c, <1>u, <1>d DEF Arrive
<1>2. share[r] = {} /\ \A t \in Tasks : lock[t] # r
  BY <1>1 DEF OrderInv, IndInv, RequestInv, ShareInv
<1>3. QED
  BY <1>1, <1>2, OthersKeepOrder DEF OrderInv, IndInv, TypeOK

LEMMA LockTaskKeepsOrder ==
    ASSUME TypeOK, OrderInv, NEW r \in Requests, LockTask(r)
    PROVE  OrderInv'
<1>1. PICK t \in NextToLock(r) : CanLock(r, t) /\ lock' = [lock EXCEPT ![t] = r]
  BY DEF LockTask
<1>2. /\ t \in Tasks /\ t \in ToLock(r) /\ pc[r] = "lock"
      /\ \A u \in ToLock(r) : t <= u
      /\ UNCHANGED <<tasks, pc, req, share>>
  BY DEF LockTask, NextToLock, ToLock, TypeOK, rows
<1>3. ASSUME NEW q \in Requests \ {r}
      PROVE  \A u \in Tasks : (lock'[u] = q) <=> (lock[u] = q)
  BY <1>1, <1>2, NoneIsNoId DEF TypeOK, CanLock
<1>4. ToLock(r)' = ToLock(r) \ {t} /\ ToLock(r) \subseteq Nat
  BY <1>1, <1>2, TasksAreOrdered DEF ToLock, TypeOK
<1>5. ASSUME NEW v \in Tasks, lock'[v] = r, NEW u \in ToLock(r)' PROVE v < u
  <2>1. u \in ToLock(r) /\ u # t /\ t \in Nat /\ u \in Nat
    BY <1>2, <1>4, TasksAreOrdered
  <2>2. CASE v = t
    BY <1>2, <2>1, <2>2
  <2>3. CASE v # t
    BY <1>1, <1>2, <1>5, <2>1, <2>3 DEF OrderInv, TypeOK
  <2>4. QED
    BY <2>2, <2>3
<1>6. share'[r] = {} /\ pc'[r] = "lock"
  BY <1>2 DEF OrderInv
<1>7. QED
  BY <1>2, <1>3, <1>5, <1>6, OthersKeepOrder DEF OrderInv, TypeOK

LEMMA OrderStep == IndInv /\ OrderInv /\ [Next]_vars => OrderInv'
<1> SUFFICES ASSUME IndInv, OrderInv, [Next]_vars PROVE OrderInv'
  OBVIOUS
<1>1. TypeOK /\ tasks \subseteq Tasks
  BY DEF IndInv, TypeOK
<1>2. ASSUME NEW r \in Requests, Finish(r), tasks' \subseteq tasks PROVE OrderInv'
  BY <1>1, <1>2, FinishKeepsOrder
<1>3. ASSUME NEW r \in Requests, Arrive(r) PROVE OrderInv'
  BY <1>3, ArriveKeepsOrder
<1>4. ASSUME NEW r \in Requests, LockTask(r) PROVE OrderInv'
  BY <1>1, <1>4, LockTaskKeepsOrder
<1>5. ASSUME NEW r \in Requests, CheckConflicts(r) \/ ShareTask(r) PROVE OrderInv'
  <2>1. /\ pc'[r] = "write" /\ lock' = lock /\ tasks' = tasks
        /\ \A q \in Requests \ {r} : pc'[q] = pc[q] /\ req'[q] = req[q] /\ share'[q] = share[q]
    BY <1>1, <1>5 DEF CheckConflicts, ShareTask, rows, locks, TypeOK
  <2>2. QED
    BY <1>1, <2>1, OthersKeepOrder DEF OrderInv
<1>6. ASSUME NEW r \in Requests,
             \/ RejectConflict(r) \/ ForeignKeyError(r) \/ CommitCreate(r) \/ CommitUpdate(r)
             \/ CommitDelete(r) \/ DeleteRefused(r) \/ DeadlockAbort(r) \/ RequestFails(r)
      PROVE  OrderInv'
  <2>1. Finish(r) /\ tasks' \subseteq tasks
    BY <1>6 DEF RejectConflict, ForeignKeyError, CommitCreate, CommitUpdate, CommitDelete,
                DeleteRefused, DeadlockAbort, RequestFails, rows
  <2>2. QED
    BY <1>2, <2>1
<1>7. CASE UNCHANGED vars
  BY <1>7 DEF vars, rows, locks, OrderInv, ToLock
<1>8. QED
  BY <1>3, <1>4, <1>5, <1>6, <1>7 DEF Next, Progress

\* Requests that are still locking tasks never wait for each other in a circle,
\* however many there are and whatever tasks they lock: lock_tasks_for_approval
\* locks in the order of the ids.
THEOREM LockersNeverDeadlock == Spec => []OrderedLockingNeverDeadlocks
<1>1. Init => IndInv /\ OrderInv
  BY InitInv, OrderInit
<1>2. IndInv /\ OrderInv /\ [Next]_vars => (IndInv /\ OrderInv)'
  BY NextInv, OrderStep
<1>3. IndInv /\ OrderInv => OrderedLockingNeverDeadlocks
  BY NoCircle DEF IndInv
<1>4. QED
  BY <1>1, <1>2, <1>3, PTL DEF Spec

------------------------------------------------------------------------------
\* Each commit is one operation of ApprovalBook, under its condition.
LEMMA CreateStep ==
    ASSUME IndInv, NEW r \in Requests, CommitCreate(r)
    PROVE  Book!Next
  <1> SUFFICES ASSUME NEW a, a = req[r].a, NEW b, b = req[r].b, NEW s, s = req[r].s,
                      NEW ts, ts = req[r].ts, NEW p, p = req[r].p
               PROVE  Book!Next
    OBVIOUS
  <1>1. /\ pc[r] = "write" /\ req[r].op = "create" /\ tasks' = tasks
        /\ status'  = [status  EXCEPT ![a] = s] /\ board'   = [board   EXCEPT ![a] = b]
        /\ primary' = [primary EXCEPT ![a] = p] /\ links'   = [links   EXCEPT ![a] = ts]
    BY DEF CommitCreate
  <1>2. /\ a \in Approvals /\ status[a] = "none" /\ b \in Boards /\ s \in ApprovalStatus
        /\ IF ts = {} THEN p = None ELSE p \in ts
    BY <1>1 DEF IndInv, RequestInv, CreateInv
  <1>3. ts \subseteq tasks
    BY <1>1 DEF CommitCreate, ToShare, IndInv, RequestInv, ShareInv
  <1>4. tasks \subseteq Tasks
    BY DEF IndInv, TypeOK
  <1>5. s = "pending" => Book!Free(a, b, ts)
    <2>1. s = "pending" => NoConflict(b, ts, a)
      BY <1>1 DEF IndInv, RequestInv, GuardInv, Opens
    <2> QED BY <2>1 DEF NoConflict, TasksOf, Book!Free, Book!Counts
  <1>6. Book!Create(a, b, s, ts, p)
    BY <1>1, <1>2, <1>3, <1>5 DEF Book!Create
  <1>7. s \in {"pending"} \cup Book!Decided /\ ts \in SUBSET Tasks /\ p \in Tasks \cup {None}
    BY <1>2, <1>3, <1>4 DEF ApprovalStatus, Decided, Book!Decided
  <1> QED BY <1>2, <1>6, <1>7 DEF Book!Next

LEMMA UpdateStep ==
    ASSUME IndInv, NEW r \in Requests, CommitUpdate(r)
    PROVE  Book!Next \/ UNCHANGED Book!book
  <1> SUFFICES ASSUME NEW a, a = req[r].a, NEW s, s = req[r].s
               PROVE  Book!Next \/ UNCHANGED Book!book
    OBVIOUS
  <1>1. /\ pc[r] = "write" /\ req[r].op = "update"
        /\ tasks' = tasks /\ board' = board /\ primary' = primary /\ links' = links
        /\ status' = IF Exists(a) /\ s # req[r].prior
                     THEN [status EXCEPT ![a] = s] ELSE status
    BY DEF CommitUpdate
  <1>2. /\ a \in Approvals /\ s \in ApprovalStatus /\ board[a] = req[r].b
        /\ (Opens(r) /\ Exists(a)) => TasksOf(a) \subseteq req[r].ts
    BY <1>1 DEF IndInv, RequestInv, UpdateInv
  <1>3. CASE ~(Exists(a) /\ s # req[r].prior)
    BY <1>1, <1>3 DEF Book!book
  <1>4. CASE Exists(a) /\ s # req[r].prior /\ s = "pending"
    <2>1. Opens(r)
      BY <1>1, <1>4 DEF Opens
    <2>2. NoConflict(board[a], TasksOf(a), a)
      BY <1>1, <1>2, <1>4, <2>1 DEF IndInv, RequestInv, GuardInv, NoConflict
    <2>3. Book!Reopen(a)
      BY <1>1, <1>4, <2>2 DEF Book!Reopen, Book!Open, Book!Free, Book!Counts, Book!Decided,
                              NoConflict, TasksOf, Exists, ApprovalStatus, Decided
    <2> QED BY <1>2, <2>3 DEF Book!Next
  <1>5. CASE Exists(a) /\ s # req[r].prior /\ s # "pending"
    <2>1. s \in Book!Decided /\ Book!Open(a)
      BY <1>2, <1>5 DEF Book!Open, Book!Decided, Exists, ApprovalStatus, Decided
    <2>2. Book!Decide(a, s)
      BY <1>1, <1>5, <2>1 DEF Book!Decide
    <2> QED BY <1>2, <2>1, <2>2 DEF Book!Next
  <1> QED BY <1>3, <1>4, <1>5

LEMMA DeleteStep ==
    ASSUME IndInv, NEW r \in Requests, CommitDelete(r)
    PROVE  Book!Next
  <1> SUFFICES ASSUME NEW t, t = req[r].t, NEW mine, mine = req[r].mine,
                      NEW heir, heir = req[r].heir
               PROVE  Book!Next
    OBVIOUS
  <1>1. /\ pc[r] = "write" /\ req[r].op = "delete" /\ board' = board
        /\ tasks' = tasks \ {t}
        /\ links' = [a \in Approvals |-> links[a] \ {t}]
        /\ primary' = [a \in Approvals |-> IF a \in mine THEN heir[a] ELSE primary[a]]
        /\ status' = [a \in Approvals |-> IF a \in mine /\ heir[a] = None
                                          THEN "deleted" ELSE status[a]]
    BY DEF CommitDelete
  <1>2. DeleteInv(r)
    BY DEF IndInv, RequestInv
  <1>3. t \in Tasks /\ \A a \in mine : Exists(a) /\ primary[a] = t
    BY <1>1, <1>2 DEF DeleteInv, IndInv, TypeOK
  <1>4. req[r].ts \subseteq tasks
    BY <1>1 DEF CommitDelete, ToShare, IndInv, RequestInv, ShareInv
  <1>5. \A a \in mine : IF heir[a] = None THEN links[a] \subseteq {t}
                        ELSE heir[a] \in links[a] \ {t}
    BY <1>1, <1>2, <1>4 DEF DeleteInv
  <1>6. \A a \in Approvals : (Exists(a) /\ primary[a] = t) <=> a \in mine
    <2>1. \A a \in Approvals : (Exists(a) /\ primary[a] = t) => a \in mine
      BY DEF CommitDelete, LateReferences
    <2> QED BY <1>3, <2>1
  <1>7. Book!DeleteTask(t)
    <2>1. t \in tasks
      BY <1>1, <1>2 DEF DeleteInv
    <2>2. ASSUME NEW a \in Approvals
          PROVE  IF Book!Open(a) /\ primary[a] = t
                 THEN IF links'[a] = {} THEN status'[a] = "deleted"
                      ELSE status'[a] = status[a] /\ primary'[a] \in links'[a]
                 ELSE status'[a] = status[a] /\ primary'[a] = primary[a]
      <3>1. Book!Open(a) <=> Exists(a)
        BY DEF Book!Open, Book!Decided, Exists, ApprovalStatus, Decided
      <3>2. links'[a] = links[a] \ {t}
        BY <1>1
      <3>3. CASE a \in mine
        BY <1>1, <1>3, <1>5, <3>1, <3>2, <3>3, NoneIsNoId DEF IndInv, TypeOK
      <3>4. CASE a \notin mine
        BY <1>1, <1>6, <3>1, <3>4
      <3> QED BY <3>3, <3>4
    <2> QED BY <1>1, <2>1, <2>2 DEF Book!DeleteTask
  <1> QED BY <1>3, <1>7 DEF Book!Next

\* Approvals implements ApprovalBook: under any interleaving of requests each
\* commit has the effect of one isolated, checked operation.
THEOREM Implementation == Spec => ImplementsApprovalBook
  <1>1. Init => Book!Init
    BY DEF Init, Book!Init, Book!Free, Book!Counts
  <1>2. IndInv /\ [Next]_vars => [Book!Next]_(Book!book)
    <2> SUFFICES ASSUME IndInv, [Next]_vars
                 PROVE  Book!Next \/ UNCHANGED Book!book
      OBVIOUS
    <2>1. UNCHANGED rows => UNCHANGED Book!book
      BY DEF rows, Book!book
    <2>2. CASE UNCHANGED vars
      BY <2>1, <2>2 DEF vars
    <2>3. ASSUME NEW r \in Requests, Arrive(r)
          PROVE  UNCHANGED rows
      BY <2>3 DEF Arrive, CreateApproval, UpdateApproval, BeginDelete
    <2>4. ASSUME NEW r \in Requests, Progress(r) \/ RequestFails(r)
          PROVE  Book!Next \/ UNCHANGED Book!book
      <3>1. CASE CommitCreate(r) \/ CommitUpdate(r) \/ CommitDelete(r)
        BY <3>1, CreateStep, UpdateStep, DeleteStep
      <3>2. CASE ~(CommitCreate(r) \/ CommitUpdate(r) \/ CommitDelete(r))
        <4>1. UNCHANGED rows
          BY <2>4, <3>2 DEF Progress, LockTask, CheckConflicts, RejectConflict, ShareTask,
                            ForeignKeyError, DeleteRefused, DeadlockAbort, RequestFails
        <4> QED BY <2>1, <4>1
      <3> QED BY <3>1, <3>2
    <2> QED BY <2>1, <2>2, <2>3, <2>4 DEF Next
  <1> QED BY <1>1, <1>2, Invariance, PTL DEF Spec, ImplementsApprovalBook, Book!Spec
=============================================================================
