-------------------------- MODULE TaskBoardProofs --------------------------
(***************************************************************************)
(* Proofs about TaskBoard for any tasks, agents, settings, changes and     *)
(* concurrent requests.                                                    *)
(***************************************************************************)
EXTENDS TaskBoard, TLAPS

Stages == {"idle", "read", "checked", "flushed"} \cup FollowUp

RequestType == [pc : Stages, who : Agents \cup {Lead, User}, task : Tasks \cup {Nobody},
                change : Changes \cup {IdleRequest.change},
                row : {Missing} \cup Row, seen : SUBSET Tasks, new : {Missing} \cup Row,
                found : SUBSET Tasks, moved : SUBSET Tasks, freed : SUBSET Tasks,
                lapped : BOOLEAN]

\* TypeOK, in the parts that different steps disturb.  A request under way has
\* a task, one that was checked a row to leave.
TablesOK ==
    /\ rows \in [Tasks -> {Missing} \cup Row]
    /\ deps \in [Tasks -> SUBSET Tasks]
    /\ approval \in [Tasks -> {{}} \cup Approvals]
    /\ rules \in Settings
RequestsOK == req \in [Requests -> RequestType]
MovesOK == moves \subseteq [task : Tasks, to : {"inbox", "backlog", "archived"}]
AuxiliaryOK == excused \subseteq Tasks /\ crossed \in BOOLEAN
CountOK == count \in [requests : 0 .. MaxRequests, others : 0 .. MaxOthers]

Judged == {"checked", "flushed"}

Proper(v) == /\ v.pc # "idle" => v.task \in Tasks
             /\ v.pc \in Judged => v.new \in Row /\ v.change \in Changes
             /\ v.lapped => v.pc \notin {"idle", "committed"}

UnderWay == \A q \in Requests : Proper(req[q])

\* A written row stays locked until the commit, by one request.
Locks ==
    \A q \in Requests : req[q].pc = "flushed" =>
        /\ req[q].row # Missing => Exists(rows, req[q].task)
        /\ \A r \in Requests : req[r].pc = "flushed" /\ req[r].task = req[q].task => r = q

\* The second transaction has found the task open, its dependents, and of them
\* what there is to put back.
ToMove(q) == {u \in Open(rows, q.found) : rows[u].status # "inbox"}
ToFree(q) == {u \in Open(rows, q.found) : rows[u].owner # Nobody}

FollowsWell(q) ==
    /\ q.pc \in {"refreshed", "listed", "loaded"} => ~Done(rows, q.task)
    /\ q.pc \in {"listed", "loaded"} => q.found = Dependents(deps, q.task)
    /\ q.pc = "loaded" => q.moved = ToMove(q) /\ q.freed = ToFree(q)

\* What a request that was not overtaken has read, decided and checked is what
\* it would read, decide and check now.
Current(q) ==
    LET t == req[q].task
        c == req[q].change
    IN  ~req[q].lapped =>
          /\ req[q].pc \in {"read", "checked", "flushed"} => req[q].row = rows[t]
          /\ req[q].pc \in {"checked", "flushed"} =>
                /\ req[q].seen = deps[t]
                /\ req[q].new \in NewRows(req[q].who, rules, req[q].row, c,
                                         Blocked(rows, UsedDeps(q)))
                /\ c.deps # Keep => /\ req[q].row # Missing => req[q].row.status # "done"
                                    /\ t \notin c.deps
                                    /\ c.deps # {} => Acyclic([deps EXCEPT ![t] = c.deps])
          /\ req[q].pc = "flushed" => Gates(rules, req[q].row, req[q].new, c, approval[t])
          /\ FollowsWell(req[q])

AllCurrent == \A q \in Requests : Current(q)

LEMMA TypeParts == TypeOK <=> TablesOK /\ RequestsOK /\ MovesOK /\ AuxiliaryOK /\ CountOK
  BY DEF TypeOK, TablesOK, RequestsOK, MovesOK, AuxiliaryOK, CountOK, RequestType, Stages

LEMMA TypePartsPrime ==
    TypeOK' <=> TablesOK' /\ RequestsOK' /\ MovesOK' /\ AuxiliaryOK' /\ CountOK'
  BY DEF TypeOK, TablesOK, RequestsOK, MovesOK, AuxiliaryOK, CountOK, RequestType, Stages

---------------------------------------------------------------------------
(* The rules.                                                              *)

LEMMA ChangeType == \A c \in Changes \cup {IdleRequest.change} : c \in Change
  BY InputsAssumption DEF Change, IdleRequest

LEMMA OrType ==
    ASSUME NEW c \in Change, NEW row \in Row, NEW D \in SUBSET Tasks
    PROVE  /\ Or(c.status, row.status) \in Statuses
           /\ Or(c.owner, row.owner) \in Agents \cup {Lead, Nobody}
           /\ Or(c.deps, D) \in SUBSET Tasks
  BY DEF Change, Row, Or

\* Which rules apply to whom.
LEMMA RowsOfActor ==
    ASSUME NEW set, NEW row \in Row, NEW c, NEW blocked
    PROVE  /\ NewRows(Lead, set, row, c, blocked) = LeadRows(row, c, blocked)
           /\ NewRows(User, set, row, c, blocked) = UserRows(row, c, blocked)
           /\ \A a \in Agents : NewRows(a, set, row, c, blocked) = AgentRows(a, set, row, c, blocked)
  <1>1. row # Missing /\ Lead # User /\ \A a \in Agents : a # Lead /\ a # User
    BY MissingAssumption, RulesAssumption
  <1> QED
    BY <1>1 DEF NewRows

\* What the rules give is a row.
LEMMA NewRowsType ==
    ASSUME NEW who, NEW set, NEW row \in {Missing} \cup Row, NEW c \in Change,
           NEW blocked \in BOOLEAN, NEW new \in NewRows(who, set, row, c, blocked),
           who \in Agents \cup {Lead, User}
    PROVE  new \in Row
  <1>1. CASE row = Missing
    BY <1>1, MissingAssumption, KeepAssumption DEF NewRows, CreatedRows, Row, Change
  <1>2. CASE row \in Row /\ who = Lead
    <2>1. new \in LeadRows(row, c, blocked)
      BY <1>2, RowsOfActor
    <2>2. \/ new \in [status : {"inbox"}, owner : Agents \cup {Nobody}]
          \/ new = [status |-> Or(c.status, row.status), owner |-> Or(c.owner, row.owner)]
      BY <2>1 DEF LeadRows
    <2> QED
      BY <1>2, <2>2, OrType DEF Row, Statuses
  <1>3. CASE row \in Row /\ who = User
    <2>1. new \in UserRows(row, c, blocked)
      BY <1>3, RowsOfActor
    <2>2. Or(c.status, row.status) \in Statuses /\ Or(c.owner, row.owner) \in Agents \cup {Lead, Nobody}
          /\ Or(c.owner, Nobody) \in Agents \cup {Lead, Nobody}
      BY <1>3, OrType DEF Or, Change
    <2> QED
      BY <1>3, <2>1, <2>2 DEF UserRows, Row, Statuses
  <1>4. CASE row \in Row /\ who \in Agents
    <2>1. new \in AgentRows(who, set, row, c, blocked)
      BY <1>4, RowsOfActor
    <2>2. c.status \in Statuses
      BY <2>1 DEF AgentRows, Change
    <2>3. /\ new.status = c.status
          /\ new.owner \in {Nobody, Lead, who}
          /\ new = [status |-> new.status, owner |-> new.owner]
      BY <2>1 DEF AgentRows
    <2> QED
      BY <1>4, <2>2, <2>3 DEF Row
  <1> QED
    BY <1>1, <1>2, <1>3, <1>4

\* Only a lead leaves a blocked task in work, and then as it was.
LEMMA StartedRows ==
    ASSUME NEW who, NEW set, NEW row \in {Missing} \cup Row, NEW c \in Change,
           NEW blocked \in BOOLEAN, NEW new \in NewRows(who, set, row, c, blocked),
           who \in Agents \cup {Lead, User}
    PROVE  blocked /\ new.status \in Started => who = Lead /\ row \in Row /\ new = row
  <1>1. CASE row = Missing
    BY <1>1, MissingAssumption DEF NewRows, CreatedRows, Started
  <1>2. CASE row \in Row /\ who = Lead
    <2>1. new \in LeadRows(row, c, blocked)
      BY <1>2, RowsOfActor
    <2>2. blocked => c.status = Keep /\ c.owner = Keep
      BY <2>1 DEF LeadRows
    <2>3. blocked => new = [status |-> row.status, owner |-> row.owner]
      BY <2>1, <2>2, KeepAssumption DEF LeadRows, Or, Statuses
    <2> QED
      BY <1>2, <2>3 DEF Row
  <1>3. CASE row \in Row /\ who = User
    <2>1. new \in UserRows(row, c, blocked)
      BY <1>3, RowsOfActor
    <2> QED
      BY <2>1, <1>3 DEF UserRows, Forced, Started
  <1>4. CASE row \in Row /\ who \in Agents
    <2>1. new \in AgentRows(who, set, row, c, blocked)
      BY <1>4, RowsOfActor
    <2>2. blocked => c.status = "inbox" /\ new.status = c.status
      BY <2>1 DEF AgentRows
    <2> QED
      BY <2>2 DEF Started
  <1> QED
    BY <1>1, <1>2, <1>3, <1>4

\* A lead does not re-open tasks.
LEMMA LeadKeepsDone ==
    ASSUME NEW set, NEW row \in Row, NEW c \in Change, NEW blocked \in BOOLEAN,
           NEW new \in NewRows(Lead, set, row, c, blocked), row.status = "done"
    PROVE  new.status = "done"
  <1>1. new \in LeadRows(row, c, blocked)
    BY RowsOfActor
  <1> QED
    BY <1>1, KeepAssumption DEF LeadRows, Or, Statuses

---------------------------------------------------------------------------
(* Types.                                                                  *)

LEMMA IdleType ==
    /\ IdleRequest \in RequestType /\ IdleRequest.pc = "idle" /\ ~IdleRequest.lapped
    /\ "idle" \notin FollowUp
  BY DEF IdleRequest, RequestType, Stages, FollowUp

LEMMA ReadType ==
    ASSUME NEW t \in Tasks, NEW row \in {Missing} \cup Row
    PROVE  LET v == [IdleRequest EXCEPT !.pc = "read", !.task = t, !.row = row]
           IN  /\ v \in RequestType
               /\ v.pc = "read" /\ v.task = t /\ v.row = row /\ ~v.lapped
  BY DEF IdleRequest, RequestType, Stages, FollowUp

LEMMA PcType ==
    ASSUME NEW q \in RequestType, NEW step \in Stages
    PROVE  LET v == [q EXCEPT !.pc = step]
           IN  /\ v \in RequestType
               /\ v.pc = step /\ v.who = q.who /\ v.change = q.change /\ v.new = q.new
               /\ v.seen = q.seen /\ v.task = q.task /\ v.row = q.row /\ v.lapped = q.lapped
               /\ v.found = q.found /\ v.moved = q.moved /\ v.freed = q.freed
  BY DEF RequestType

LEMMA LappedType ==
    ASSUME NEW q \in RequestType, NEW b \in BOOLEAN
    PROVE  LET v == [q EXCEPT !.lapped = b]
           IN  /\ v \in RequestType
               /\ v.pc = q.pc /\ v.who = q.who /\ v.change = q.change /\ v.new = q.new
               /\ v.seen = q.seen /\ v.task = q.task /\ v.row = q.row /\ v.lapped = b
               /\ v.found = q.found /\ v.moved = q.moved /\ v.freed = q.freed
  BY DEF RequestType

\* The request as its second transaction begins.
Committed(t) == [IdleRequest EXCEPT !.pc = "committed", !.task = t]

LEMMA CommittedType ==
    ASSUME NEW t \in Tasks
    PROVE  /\ Committed(t) \in RequestType
           /\ Committed(t).pc = "committed" /\ Committed(t).task = t /\ ~Committed(t).lapped
  BY DEF RequestType, Stages, FollowUp, IdleRequest, Committed

LEMMA ListedType ==
    ASSUME NEW q \in RequestType, NEW D \in SUBSET Tasks
    PROVE  LET v == [q EXCEPT !.pc = "listed", !.found = D]
           IN  /\ v \in RequestType
               /\ v.pc = "listed" /\ v.task = q.task /\ v.lapped = q.lapped /\ v.found = D
  BY DEF RequestType, Stages, FollowUp

\* The request as it is about to commit that transaction.
Ready(q, D, E) == [q EXCEPT !.pc = "loaded", !.moved = D, !.freed = E]

LEMMA LoadedType ==
    ASSUME NEW q \in RequestType, NEW D \in SUBSET Tasks, NEW E \in SUBSET Tasks
    PROVE  /\ Ready(q, D, E) \in RequestType
           /\ Ready(q, D, E).pc = "loaded" /\ Ready(q, D, E).task = q.task
           /\ Ready(q, D, E).lapped = q.lapped /\ Ready(q, D, E).found = q.found
           /\ Ready(q, D, E).moved = D /\ Ready(q, D, E).freed = E
  BY DEF RequestType, Stages, FollowUp, Ready

LEMMA BackType == \A q \in RequestType : ToMove(q) \in SUBSET Tasks /\ ToFree(q) \in SUBSET Tasks
  BY DEF ToMove, ToFree, Open, RequestType

\* A request moves on, the others are left alone.
LEMMA AloneType ==
    ASSUME RequestsOK, UnderWay, NEW r \in Requests, NEW v \in RequestType, Proper(v),
           req' = [req EXCEPT ![r] = v]
    PROVE  RequestsOK' /\ UnderWay'
  BY DEF RequestsOK, UnderWay, Proper

\* A request is left alone but for the mark that it was overtaken.
Marked(q) == req'[q] = [req[q] EXCEPT !.lapped = (@ \/ Lapped(q))]

LEMMA MarkedFields ==
    ASSUME RequestsOK, NEW q \in Requests, Marked(q)
    PROVE  /\ req'[q] \in RequestType
           /\ req'[q].pc = req[q].pc /\ req'[q].who = req[q].who /\ req'[q].change = req[q].change
           /\ req'[q].new = req[q].new /\ req'[q].seen = req[q].seen
           /\ req'[q].task = req[q].task /\ req'[q].row = req[q].row
           /\ req'[q].found = req[q].found /\ req'[q].moved = req[q].moved
           /\ req'[q].freed = req[q].freed
           /\ req'[q].lapped <=> (req[q].lapped \/ Lapped(q))
  <1> DEFINE b == req[q].lapped \/ Lapped(q)
  <1>1. b \in BOOLEAN /\ req[q] \in RequestType
    BY DEF RequestsOK
  <1>2. req'[q] = [req[q] EXCEPT !.lapped = b]
    BY DEF Marked
  <1>3. req'[q].lapped = b
    <2> HIDE DEF b
    <2> QED
      BY <1>1, <1>2, LappedType
  <1>4. /\ req'[q] \in RequestType
        /\ req'[q].pc = req[q].pc /\ req'[q].who = req[q].who /\ req'[q].change = req[q].change
        /\ req'[q].new = req[q].new /\ req'[q].seen = req[q].seen
        /\ req'[q].task = req[q].task /\ req'[q].row = req[q].row
        /\ req'[q].found = req[q].found /\ req'[q].moved = req[q].moved
        /\ req'[q].freed = req[q].freed
    <2> HIDE DEF b
    <2> QED
      BY <1>1, <1>2, LappedType
  <1> QED
    BY <1>3, <1>4

LEMMA MarkedProper ==
    ASSUME RequestsOK, UnderWay, NEW q \in Requests, Marked(q)
    PROVE  req'[q] \in RequestType /\ Proper(req'[q])
  BY MarkedFields DEF UnderWay, Proper, Lapped

\* Steps moves one request on and marks the others; OtherStep marks them all.
LEMMA StepsMarks ==
    ASSUME NEW r \in Requests, NEW v, Steps(r, v)
    PROVE  /\ DOMAIN req' = Requests
           /\ req' = [q \in Requests |-> req'[q]]
           /\ req'[r] = v
           /\ \A q \in Requests \ {r} : Marked(q)
  BY DEF Steps, Marked

LEMMA OtherStepMarks ==
    ASSUME OtherStep
    PROVE  /\ req' = [q \in Requests |-> req'[q]]
           /\ \A q \in Requests : Marked(q)
  BY DEF OtherStep, Marked

LEMMA StepsType ==
    ASSUME RequestsOK, UnderWay, NEW r \in Requests, NEW v \in RequestType, Proper(v),
           Steps(r, v)
    PROVE  RequestsOK' /\ UnderWay'
  <1>1. \A q \in Requests : req'[q] \in RequestType /\ Proper(req'[q])
    BY StepsMarks, MarkedProper
  <1>2. req' = [q \in Requests |-> req'[q]]
    BY StepsMarks
  <1> QED
    BY <1>1, <1>2 DEF RequestsOK, UnderWay, Proper

LEMMA OtherStepType ==
    ASSUME RequestsOK, UnderWay, OtherStep
    PROVE  RequestsOK' /\ UnderWay'
  <1>1. \A q \in Requests : req'[q] \in RequestType /\ Proper(req'[q])
    BY OtherStepMarks, MarkedProper
  <1>2. req' = [q \in Requests |-> req'[q]]
    BY OtherStepMarks
  <1> QED
    BY <1>1, <1>2 DEF RequestsOK, UnderWay, Proper

LEMMA CountOtherType ==
    ASSUME CountOK, CountOther \/ UNCHANGED count
    PROVE  CountOK'
  BY BoundsAssumption DEF CountOK, CountOther

LEMMA ExcuseType ==
    ASSUME AuxiliaryOK, NEW X \in SUBSET Tasks, Excuse(X), crossed' \in BOOLEAN
    PROVE  AuxiliaryOK'
  BY DEF AuxiliaryOK, Excuse

LEMMA DependentsType == \A t : Dependents(deps, t) \in SUBSET Tasks
  BY DEF Dependents

LEMMA InitType == Init => TypeOK /\ UnderWay
  <1> SUFFICES ASSUME Init PROVE TypeOK /\ UnderWay
    OBVIOUS
  <1>1. TablesOK /\ MovesOK /\ AuxiliaryOK
    BY InputsAssumption DEF Init, TablesOK, MovesOK, AuxiliaryOK
  <1>3. CountOK
    BY BoundsAssumption DEF Init, CountOK
  <1>2. RequestsOK /\ UnderWay
    BY IdleType DEF Init, RequestsOK, UnderWay, Proper, Judged, FollowUp
  <1> QED
    BY <1>1, <1>2, <1>3, TypeParts

\* Where the second transaction goes before it commits.
LEMMA NextStage ==
    ASSUME NEW r \in Requests, Refresh(r) \/ List(r) \/ Load(r),
           req[r] \in RequestType, Proper(req[r]), Proper(IdleRequest)
    PROVE  \E v \in RequestType : Proper(v) /\ req' = [req EXCEPT ![r] = v]
  <1>0. req[r].task \in Tasks
    BY DEF Proper, Refresh, List, Load
  <1>1. CASE Refresh(r)
    <2> DEFINE v == [req[r] EXCEPT !.pc = "refreshed"]
    <2>1. v \in RequestType /\ v.pc = "refreshed" /\ v.task = req[r].task
      BY PcType DEF Stages, FollowUp
    <2>2. req' = [req EXCEPT ![r] = v] \/ req' = [req EXCEPT ![r] = IdleRequest]
      BY <1>1 DEF Refresh
    <2>3. Proper(v)
      <3> HIDE DEF v
      <3> QED
        BY <1>0, <2>1 DEF Proper, Judged
    <2> HIDE DEF v
    <2> QED
      BY <2>1, <2>2, <2>3, IdleType
  <1>2. CASE List(r)
    <2> DEFINE D == Dependents(deps, req[r].task)
               v == [req[r] EXCEPT !.pc = "listed", !.found = D]
    <2>1. v \in RequestType /\ v.pc = "listed" /\ v.task = req[r].task
      <3>1. D \in SUBSET Tasks
        BY DependentsType
      <3> HIDE DEF D
      <3> QED
        BY <3>1, ListedType
    <2>2. req' = [req EXCEPT ![r] = v]
      BY <1>2 DEF List
    <2> HIDE DEF v
    <2> QED
      BY <1>0, <2>1, <2>2 DEF Proper, Judged
  <1>3. CASE Load(r)
    <2> DEFINE D == ToMove(req[r])
               E == ToFree(req[r])
               v == Ready(req[r], D, E)
    <2>1. v \in RequestType /\ v.pc = "loaded" /\ v.task = req[r].task
      <3>1. D \in SUBSET Tasks /\ E \in SUBSET Tasks
        BY BackType
      <3> HIDE DEF D, E
      <3> QED
        BY <3>1, LoadedType
    <2>2. req' = [req EXCEPT ![r] = v]
      BY <1>3 DEF Load, ToMove, ToFree, Ready
    <2> HIDE DEF v
    <2> QED
      BY <1>0, <2>1, <2>2 DEF Proper, Judged
  <1> QED
    BY <1>1, <1>2, <1>3

LEMMA PutBackType ==
    ASSUME NEW moved, NEW freed, rows \in [Tasks -> {Missing} \cup Row],
           \A u \in moved \cup freed : Exists(rows, u)
    PROVE  PutBack(rows, moved, freed) \in [Tasks -> {Missing} \cup Row]
  <1> SUFFICES ASSUME NEW u \in Tasks
               PROVE  PutBack(rows, moved, freed)[u] \in {Missing} \cup Row
    BY DEF PutBack
  <1>1. CASE u \in moved \cup freed
    <2>1. rows[u] \in Row
      BY <1>1 DEF Exists
    <2>2. rows[u].status \in Statuses /\ rows[u].owner \in Agents \cup {Lead, Nobody}
      BY <2>1 DEF Row
    <2> QED
      BY <1>1, <2>2 DEF PutBack, Row, Statuses
  <1>2. CASE u \notin moved \cup freed
    BY <1>2 DEF PutBack
  <1> QED
    BY <1>1, <1>2

LEMMA StepType == TypeOK /\ UnderWay /\ Locks /\ [Next]_vars => TypeOK' /\ UnderWay'
  <1> SUFFICES ASSUME TypeOK, UnderWay, Locks, [Next]_vars PROVE TypeOK' /\ UnderWay'
    OBVIOUS
  <1>0. TablesOK /\ RequestsOK /\ MovesOK /\ AuxiliaryOK /\ CountOK
    BY TypeParts
  <1>i. Proper(IdleRequest)
    BY IdleType DEF Proper, Judged
  <1>1. ASSUME NEW r \in Requests, NEW t \in Tasks, Read(r, t)
        PROVE  TypeOK' /\ UnderWay'
    <2> DEFINE row == rows[t]
               v == [IdleRequest EXCEPT !.pc = "read", !.task = t, !.row = row]
    <2>1. v \in RequestType /\ v.pc = "read" /\ v.task = t /\ ~v.lapped
      <3>1. row \in {Missing} \cup Row
        BY <1>0 DEF TablesOK
      <3> HIDE DEF row
      <3> QED
        BY <3>1, ReadType, ZenonT(60)
    <2>2. req' = [req EXCEPT ![r] = v]
      BY <1>1 DEF Read
    <2>3. CountOK'
      BY <1>0, <1>1, BoundsAssumption DEF CountOK, Read
    <2>4. TablesOK' /\ MovesOK' /\ AuxiliaryOK'
      BY <1>0, <1>1 DEF Read, tables, TablesOK, MovesOK, AuxiliaryOK
    <2> HIDE DEF v
    <2>5. RequestsOK' /\ UnderWay'
      BY <1>0, <2>1, <2>2, AloneType DEF Proper, Judged
    <2> QED
      BY <2>3, <2>4, <2>5, TypePartsPrime
  <1>2. ASSUME NEW r \in Requests, NEW who \in Agents \cup {Lead, User}, NEW c \in Changes,
               Check(r, who, c)
        PROVE  TypeOK' /\ UnderWay'
    <2> DEFINE q == req[r]
               t == q.task
               D == deps[t]
               blocked == Blocked(rows, Or(c.deps, deps[t]))
    <2>1. req[r] \in RequestType /\ t \in Tasks /\ req[r].row \in {Missing} \cup Row
          /\ deps[t] \in SUBSET Tasks
      BY <1>0, <1>2 DEF RequestsOK, RequestType, UnderWay, Proper, Check, TablesOK
    <2>2. c \in Change /\ blocked \in BOOLEAN
      BY ChangeType DEF Blocked
    <2>3. PICK new \in NewRows(who, rules, req[r].row, c, blocked) :
              req' = [req EXCEPT ![r] = [@ EXCEPT !.pc = "checked", !.who = who, !.change = c,
                                                  !.new = new, !.seen = deps[t]]]
      BY <1>2 DEF Check
    <2>4. new \in Row
      <3> HIDE DEF blocked
      <3> QED
        BY <2>1, <2>2, NewRowsType
    <2> DEFINE v == [q EXCEPT !.pc = "checked", !.who = who, !.change = c,
                              !.new = new, !.seen = D]
    <2>5. v \in RequestType /\ v.pc = "checked" /\ v.task = q.task /\ v.new = new /\ v.change = c
      <3>1. q \in RequestType /\ D \in SUBSET Tasks
        BY <2>1
      <3> HIDE DEF q, D
      <3> QED
        BY <2>4, <3>1 DEF RequestType, Stages, FollowUp
    <2>6. req' = [req EXCEPT ![r] = v]
      BY <2>3
    <2>7. TablesOK' /\ MovesOK' /\ AuxiliaryOK' /\ CountOK'
      BY <1>0, <1>2 DEF Check, tables, TablesOK, MovesOK, AuxiliaryOK, CountOK
    <2>8. Proper(v)
      BY <1>0, <1>2, <2>1, <2>4, <2>5 DEF Proper, Judged, Check, UnderWay
    <2> HIDE DEF v
    <2>9. RequestsOK' /\ UnderWay'
      BY <1>0, <2>5, <2>6, <2>8, AloneType
    <2> QED
      BY <2>7, <2>9, TypePartsPrime
  <1>3. ASSUME NEW r \in Requests, Flush(r) \/ GiveUp(r) \/ RecordLost(r)
        PROVE  TypeOK' /\ UnderWay'
    <2> DEFINE v == [req[r] EXCEPT !.pc = "flushed"]
    <2>1. /\ v \in RequestType /\ v.pc = "flushed" /\ v.task = req[r].task
          /\ v.new = req[r].new /\ v.change = req[r].change
      <3>1. req[r] \in RequestType /\ "flushed" \in Stages
        BY <1>0 DEF RequestsOK, Stages
      <3> QED
        BY <3>1, PcType, ZenonT(60)
    <2>2. \/ req' = [req EXCEPT ![r] = v] /\ req[r].pc = "checked"
          \/ req' = [req EXCEPT ![r] = IdleRequest]
      BY <1>3 DEF Flush, GiveUp, RecordLost
    <2>3. TablesOK' /\ MovesOK' /\ CountOK' /\ AuxiliaryOK'
      BY <1>0, <1>3, ExcuseType, DependentsType
         DEF Flush, GiveUp, RecordLost, tables, TablesOK, MovesOK, CountOK, AuxiliaryOK
    <2>4. Proper(v) \/ req[r].pc # "checked"
      BY <2>1 DEF UnderWay, Proper, Judged
    <2> HIDE DEF v
    <2>5. RequestsOK' /\ UnderWay'
      BY <1>0, <1>i, <2>1, <2>2, <2>4, AloneType, IdleType
    <2> QED
      BY <2>3, <2>5, TypePartsPrime
  <1>4. ASSUME NEW r \in Requests, Commit(r)
        PROVE  TypeOK' /\ UnderWay'
    <2> DEFINE q == req[r]
               v == Committed(q.task)
    <2>1. /\ q \in RequestType /\ q.task \in Tasks /\ q.new \in Row
          /\ q.change \in Changes /\ q.change \in Change
      BY <1>0, <1>4, ChangeType DEF Commit, RequestsOK, UnderWay, Proper, Judged, RequestType
    <2>2. v \in RequestType /\ v.pc = "committed" /\ v.task = q.task /\ ~v.lapped
      BY <2>1, CommittedType
    <2>3. Proper(v)
      <3> HIDE DEF v
      <3> QED
        BY <2>1, <2>2 DEF Proper, Judged
    <2>4. Steps(r, v) \/ Steps(r, IdleRequest)
      BY <1>4 DEF Commit, Committed
    <2>5. RequestsOK' /\ UnderWay'
      <3> HIDE DEF v
      <3> QED
        BY <1>0, <1>i, <2>2, <2>3, <2>4, StepsType, IdleType
    <2>6. Written(q) \in Row
      <3>1. CASE q.row = Missing
        BY <2>1, <3>1 DEF Written
      <3>2. CASE q.row # Missing
        <4>1. rows[q.task] \in Row
          BY <1>0, <1>4, <2>1, <3>2 DEF Commit, Locks, Exists, TablesOK
        <4> QED
          BY <2>1, <3>2, <4>1 DEF Written, Row
      <3> QED
        BY <3>1, <3>2
    <2>7. Replaced(q) \in SUBSET Tasks
      BY <1>0, <2>1 DEF Replaced, TablesOK, Change
    <2>8. ExcusedBy(q) \in SUBSET Tasks
      BY <2>1, DependentsType DEF ExcusedBy
    <2>9. TablesOK' /\ MovesOK' /\ CountOK'
      <3> HIDE DEF q
      <3>1. /\ rows' = [rows EXCEPT ![q.task] = Written(q)]
            /\ deps' = [deps EXCEPT ![q.task] = Replaced(q)]
            /\ UNCHANGED <<approval, rules, moves, count>>
        BY <1>4 DEF Commit, q
      <3> QED
        BY <1>0, <2>1, <2>6, <2>7, <3>1 DEF TablesOK, MovesOK, CountOK
    <2>10. AuxiliaryOK'
      BY <1>0, <1>4, <2>8, ExcuseType DEF Commit, AuxiliaryOK
    <2> QED
      BY <2>5, <2>9, <2>10, TypePartsPrime
  <1>5. ASSUME NEW r \in Requests, Refresh(r) \/ List(r) \/ Load(r)
        PROVE  TypeOK' /\ UnderWay'
    <2>1. TablesOK' /\ MovesOK' /\ CountOK' /\ AuxiliaryOK'
      BY <1>0, <1>5, ExcuseType
         DEF Refresh, List, Load, tables, TablesOK, MovesOK, CountOK, AuxiliaryOK
    <2>2. req[r] \in RequestType /\ Proper(req[r]) /\ req[r].pc \in FollowUp
      BY <1>0, <1>5 DEF RequestsOK, UnderWay, Refresh, List, Load, FollowUp
    <2>3. PICK v \in RequestType : Proper(v) /\ req' = [req EXCEPT ![r] = v]
      BY <1>5, <1>i, <2>2, NextStage
    <2>4. RequestsOK' /\ UnderWay'
      BY <1>0, <2>3, AloneType
    <2> QED
      BY <2>1, <2>4, TypePartsPrime
  <1>10. ASSUME NEW r \in Requests, Record(r)
        PROVE  TypeOK' /\ UnderWay'
    <2>1. RequestsOK' /\ UnderWay'
      BY <1>0, <1>10, <1>i, IdleType, StepsType DEF Record
    <2>2. rows' \in [Tasks -> {Missing} \cup Row]
      BY <1>0, <1>10, PutBackType DEF Record, TablesOK
    <2>3. TablesOK' /\ MovesOK' /\ CountOK'
      BY <1>0, <1>10, <2>2 DEF Record, TablesOK, MovesOK, CountOK
    <2>4. UNION {Dependents(deps, u) : u \in {req[r].task} \cup req[r].moved} \in SUBSET Tasks
      BY DependentsType
    <2>5. PICK X \in SUBSET Tasks : Excuse(X)
      BY <1>10, <2>4 DEF Record
    <2>6. AuxiliaryOK'
      BY <1>0, <1>10, <2>5, ExcuseType DEF Record, AuxiliaryOK
    <2> QED
      BY <2>1, <2>3, <2>6, TypePartsPrime
  <1>6. ASSUME NEW t \in Tasks, Delete(t)
        PROVE  TypeOK' /\ UnderWay'
    <2>1. RequestsOK' /\ UnderWay' /\ CountOK'
      BY <1>0, <1>6, OtherStepType, CountOtherType DEF Delete
    <2>2. TablesOK' /\ MovesOK'
      BY <1>0, <1>6 DEF Delete, TablesOK, MovesOK
    <2>3. AuxiliaryOK'
      BY <1>0, <1>6, ExcuseType DEF Delete, AuxiliaryOK
    <2> QED
      BY <2>1, <2>2, <2>3, TypePartsPrime
  <1>11. ASSUME NEW t \in Tasks, NEW s \in {"inbox", "backlog", "archived"}, SprintReads(t, s)
        PROVE  TypeOK' /\ UnderWay'
    <2>1. TablesOK' /\ RequestsOK' /\ UnderWay' /\ AuxiliaryOK'
      BY <1>0, <1>11 DEF SprintReads, tables, TablesOK, RequestsOK, UnderWay, Proper, AuxiliaryOK
    <2>2. MovesOK' /\ CountOK'
      BY <1>0, <1>11, CountOtherType DEF SprintReads, MovesOK
    <2> QED
      BY <2>1, <2>2, TypePartsPrime
  <1>7. ASSUME NEW m \in moves, SprintMoves(m)
        PROVE  TypeOK' /\ UnderWay'
    <2> DEFINE t == m.task
               s == m.to
    <2>0. t \in Tasks /\ s \in {"inbox", "backlog", "archived"}
      BY <1>0, <1>7 DEF MovesOK
    <2>1. RequestsOK' /\ UnderWay' /\ CountOK' /\ MovesOK'
      BY <1>0, <1>7, OtherStepType, CountOtherType DEF SprintMoves, MovesOK
    <2>2. TablesOK'
      <3>1. rows[t] \in Row /\ s \in Statuses
        BY <1>0, <1>7, <2>0 DEF SprintMoves, Exists, TablesOK, Statuses
      <3>2. [rows[t] EXCEPT !.status = s] \in Row
        BY <3>1 DEF Row
      <3> QED
        BY <1>0, <1>7, <2>0, <3>2 DEF SprintMoves, TablesOK
    <2>3. AuxiliaryOK'
      BY <1>0, <1>7, ExcuseType, DependentsType DEF SprintMoves, AuxiliaryOK
    <2> QED
      BY <2>1, <2>2, <2>3, TypePartsPrime
  <1>8. ASSUME NEW t \in Tasks, NEW kinds \in Approvals, ApprovalChanges(t, kinds)
        PROVE  TypeOK' /\ UnderWay'
    <2>1. RequestsOK' /\ UnderWay' /\ CountOK'
      BY <1>0, <1>8, OtherStepType, CountOtherType DEF ApprovalChanges
    <2>2. TablesOK' /\ MovesOK'
      BY <1>0, <1>8 DEF ApprovalChanges, TablesOK, MovesOK
    <2>3. AuxiliaryOK'
      BY <1>0, <1>8, ExcuseType DEF ApprovalChanges, AuxiliaryOK
    <2> QED
      BY <2>1, <2>2, <2>3, TypePartsPrime
  <1>9. CASE UNCHANGED vars
    BY <1>0, <1>9, TypePartsPrime
       DEF vars, tables, TablesOK, RequestsOK, MovesOK, AuxiliaryOK, CountOK, UnderWay, Proper
  <1> QED
    BY <1>1, <1>2, <1>3, <1>4, <1>5, <1>6, <1>7, <1>8, <1>9, <1>10, <1>11 DEF Next

---------------------------------------------------------------------------
(* Locks, and requests that were not overtaken.                            *)

\* Locks hold after a step that writes no locked row and gives no new lock.
LEMMA LocksKept ==
    ASSUME Locks,
           \A q \in Requests : req'[q].pc = "flushed" =>
               /\ req[q].pc = "flushed"
               /\ req'[q].task = req[q].task /\ req'[q].row = req[q].row
               /\ Exists(rows, req[q].task) => Exists(rows, req[q].task)'
    PROVE  Locks'
  BY DEF Locks

\* What the second transaction has read stays so unless it is marked.
LEMMA FollowsKept ==
    ASSUME RequestsOK, NEW q \in Requests, Marked(q), ~Lapped(q), FollowsWell(req[q])
    PROVE  FollowsWell(req[q])'
  <1>0. /\ req'[q].pc = req[q].pc /\ req'[q].task = req[q].task
        /\ req'[q].found = req[q].found /\ req'[q].moved = req[q].moved
        /\ req'[q].freed = req[q].freed
    BY MarkedFields
  <1>1. req[q].pc \in {"refreshed", "listed", "loaded"} => ~Done(rows, req[q].task)'
    <2>1. req[q].pc \in {"refreshed", "listed", "loaded"} =>
              Done(rows', req[q].task) = Done(rows, req[q].task)
      BY DEF Lapped
    <2> QED
      BY <1>0, <2>1 DEF FollowsWell, Done, Exists
  <1>2. req[q].pc \in {"listed", "loaded"} => req[q].found = Dependents(deps', req[q].task)
    BY DEF FollowsWell, Lapped
  <1>3. ASSUME req[q].pc = "loaded"
        PROVE  ToMove(req[q])' = ToMove(req[q]) /\ ToFree(req[q])' = ToFree(req[q])
    <2>1. \A u \in req[q].found : rows'[u] = rows[u]
      BY <1>3 DEF Lapped
    <2> QED
      BY <1>0, <2>1 DEF ToMove, ToFree, Open, Exists, Done
  <1> QED
    BY <1>0, <1>1, <1>2, <1>3 DEF FollowsWell, Dependents

\* A request that is marked when what it has read changes stays current.
LEMMA CurrentKept ==
    ASSUME RequestsOK, NEW q \in Requests, Marked(q), Current(q), rules' = rules,
           req[q].pc = "flushed" => rows'[req[q].task] = rows[req[q].task]
    PROVE  Current(q)'
  <1> DEFINE t == req[q].task
             c == req[q].change
  <1>0. /\ req'[q].pc = req[q].pc /\ req'[q].who = req[q].who /\ req'[q].change = c
        /\ req'[q].new = req[q].new /\ req'[q].seen = req[q].seen
        /\ req'[q].task = t /\ req'[q].row = req[q].row
    BY MarkedFields
  <1> SUFFICES ASSUME ~req'[q].lapped PROVE Current(q)'
    BY DEF Current
  <1>1. ~req[q].lapped /\ ~Lapped(q)
    BY MarkedFields
  <1>2. req'[q].pc \in {"read", "checked", "flushed"} => req'[q].row = rows'[req'[q].task]
    BY <1>0, <1>1 DEF Current, Lapped
  <1>3. req'[q].pc = "flushed" =>
            Gates(rules', req'[q].row, req'[q].new, req'[q].change, approval'[req'[q].task])
    BY <1>0, <1>1 DEF Current, Lapped
  <1>4. ASSUME req'[q].pc \in {"checked", "flushed"}
        PROVE  /\ req'[q].seen = deps'[req'[q].task]
               /\ req'[q].new \in NewRows(req'[q].who, rules', req'[q].row, req'[q].change,
                                          Blocked(rows, UsedDeps(q))')
               /\ req'[q].change.deps # Keep =>
                      /\ req'[q].row # Missing => req'[q].row.status # "done"
                      /\ req'[q].task \notin req'[q].change.deps
                      /\ req'[q].change.deps # {} =>
                             Acyclic([deps' EXCEPT ![req'[q].task] = req'[q].change.deps])
    <2>1. /\ deps'[t] = deps[t]
          /\ \A d \in UsedDeps(q) : Done(rows', d) = Done(rows, d)
          /\ c.deps # Keep => deps' = deps
      BY <1>0, <1>1, <1>4 DEF Lapped
    <2>2. UsedDeps(q)' = UsedDeps(q)
      BY <1>0, <2>1 DEF UsedDeps
    <2>3. Blocked(rows, UsedDeps(q))' = Blocked(rows, UsedDeps(q))
      BY <2>1, <2>2 DEF Blocked
    <2>4. /\ req[q].seen = deps[t]
          /\ req[q].new \in NewRows(req[q].who, rules, req[q].row, c, Blocked(rows, UsedDeps(q)))
          /\ c.deps # Keep => /\ req[q].row # Missing => req[q].row.status # "done"
                              /\ t \notin c.deps
                              /\ c.deps # {} => Acyclic([deps EXCEPT ![t] = c.deps])
      BY <1>0, <1>1, <1>4 DEF Current
    <2> HIDE DEF t, c
    <2> QED
      BY <1>0, <2>1, <2>3, <2>4
  <1>5. FollowsWell(req[q])'
    BY <1>1, FollowsKept DEF Current
  <1> QED
    BY <1>2, <1>3, <1>4, <1>5 DEF Current

\* A step that leaves a request and the tables alone.
LEMMA CurrentSame ==
    ASSUME NEW q \in Requests, Current(q), req'[q] = req[q], UNCHANGED tables
    PROVE  Current(q)'
  BY DEF Current, tables, UsedDeps, FollowsWell, ToMove, ToFree, Open

LEMMA CurrentAfterSteps ==
    ASSUME RequestsOK, AllCurrent, NEW r \in Requests, NEW v, Steps(r, v), rules' = rules,
           \A q \in Requests \ {r} :
               req[q].pc = "flushed" => rows'[req[q].task] = rows[req[q].task],
           v.pc \in {"idle", "committed"}
    PROVE  AllCurrent'
  <1>1. ASSUME NEW q \in Requests \ {r} PROVE Current(q)'
    BY <1>1, StepsMarks, CurrentKept DEF AllCurrent
  <1>2. Current(r)'
    BY StepsMarks DEF Current, FollowsWell
  <1> QED
    BY <1>1, <1>2 DEF AllCurrent

LEMMA CurrentAfterOther ==
    ASSUME RequestsOK, AllCurrent, OtherStep, rules' = rules,
           \A q \in Requests :
               req[q].pc = "flushed" => rows'[req[q].task] = rows[req[q].task]
    PROVE  AllCurrent'
  BY OtherStepMarks, CurrentKept DEF AllCurrent

\* A step of r alone.
LEMMA CurrentAlone ==
    ASSUME RequestsOK, AllCurrent, NEW r \in Requests, NEW v,
           req' = [req EXCEPT ![r] = v], UNCHANGED tables, Current(r)'
    PROVE  AllCurrent'
  <1>1. ASSUME NEW q \in Requests \ {r} PROVE Current(q)'
    <2>1. req'[q] = req[q]
      BY <1>1 DEF RequestsOK
    <2> QED
      BY <1>1, <2>1, CurrentSame DEF AllCurrent
  <1> QED
    BY <1>1 DEF AllCurrent

IInv == TypeOK /\ UnderWay /\ Locks /\ AllCurrent

LEMMA ReadKeeps ==
    ASSUME IInv, NEW r \in Requests, NEW t \in Tasks, Read(r, t)
    PROVE  Locks' /\ AllCurrent'
  <1>0. RequestsOK /\ TablesOK /\ Locks /\ AllCurrent
    BY TypeParts DEF IInv
  <1> DEFINE row == rows[t]
             v == [IdleRequest EXCEPT !.pc = "read", !.task = t, !.row = row]
  <1>1. v.pc = "read" /\ v.task = t /\ v.row = row /\ ~v.lapped
    <2>1. row \in {Missing} \cup Row
      BY <1>0 DEF TablesOK
    <2> HIDE DEF row
    <2> QED
      BY <2>1, ReadType, ZenonT(60)
  <1>2. req' = [req EXCEPT ![r] = v] /\ UNCHANGED tables
    BY DEF Read
  <1> HIDE DEF v
  <1>3. req'[r] = v /\ \A q \in Requests \ {r} : req'[q] = req[q]
    BY <1>0, <1>2 DEF RequestsOK
  <1>4. Locks'
    BY <1>0, <1>1, <1>2, <1>3, LocksKept DEF tables, Exists
  <1>5. Current(r)'
    BY <1>1, <1>2, <1>3 DEF Current, tables, FollowsWell
  <1> QED
    BY <1>0, <1>2, <1>4, <1>5, CurrentAlone

LEMMA CheckKeeps ==
    ASSUME IInv, NEW r \in Requests, NEW who \in Agents \cup {Lead, User}, NEW c \in Changes,
           Check(r, who, c)
    PROVE  Locks' /\ AllCurrent'
  <1>0. RequestsOK /\ TablesOK /\ UnderWay /\ Locks /\ AllCurrent
    BY TypeParts DEF IInv
  <1> DEFINE q == req[r]
             t == q.task
             D == deps[t]
             blocked == Blocked(rows, Or(c.deps, D))
  <1>1. /\ q \in RequestType /\ t \in Tasks /\ q.row \in {Missing} \cup Row /\ D \in SUBSET Tasks
        /\ q.pc = "read"
    BY <1>0 DEF RequestsOK, RequestType, UnderWay, Proper, Check, TablesOK
  <1>2. c \in Change /\ blocked \in BOOLEAN
    BY ChangeType DEF Blocked
  <1>3. PICK new \in NewRows(who, rules, q.row, c, blocked) :
            req' = [req EXCEPT ![r] = [@ EXCEPT !.pc = "checked", !.who = who, !.change = c,
                                                !.new = new, !.seen = D]]
    BY DEF Check
  <1>4. new \in Row
    <2> HIDE DEF blocked, t, q
    <2> QED
      BY <1>1, <1>2, NewRowsType
  <1> DEFINE v == [q EXCEPT !.pc = "checked", !.who = who, !.change = c,
                            !.new = new, !.seen = D]
  <1>5. /\ v.pc = "checked" /\ v.who = who /\ v.change = c /\ v.new = new /\ v.seen = D
        /\ v.task = q.task /\ v.row = q.row /\ v.lapped = q.lapped
    <2>1. q \in RequestType /\ D \in SUBSET Tasks
      BY <1>1
    <2> HIDE DEF q, D
    <2> QED
      BY <1>4, <2>1 DEF RequestType, Stages, FollowUp
  <1>6. req' = [req EXCEPT ![r] = v] /\ UNCHANGED tables
    BY <1>3 DEF Check
  <1> HIDE DEF v
  <1>7. req'[r] = v /\ \A p \in Requests \ {r} : req'[p] = req[p]
    BY <1>0, <1>6 DEF RequestsOK
  <1>8. Locks'
    BY <1>0, <1>5, <1>6, <1>7, LocksKept DEF tables, Exists
  <1>9. Current(r)'
    <2>1. ~q.lapped => q.row = rows[t]
      BY <1>0, <1>1 DEF AllCurrent, Current
    <2>2. UsedDeps(r)' = Or(c.deps, D)
      BY <1>5, <1>6, <1>7 DEF UsedDeps, tables
    <2>3. Blocked(rows, UsedDeps(r))' = blocked
      BY <1>6, <2>2 DEF Blocked, tables, Done, Exists
    <2>4. c.deps # Keep => /\ q.row # Missing => q.row.status # "done"
                           /\ t \notin c.deps
                           /\ c.deps # {} => Acyclic([deps EXCEPT ![t] = c.deps])
      BY DEF Check, MayEdit, ValidDeps
    <2>5. UNCHANGED <<rows, deps, rules>>
      BY <1>6 DEF tables
    <2> HIDE DEF q, t, D, blocked
    <2>6. /\ req'[r].row = rows'[req'[r].task] \/ req'[r].lapped
          /\ req'[r].seen = deps'[req'[r].task]
          /\ req'[r].new \in NewRows(req'[r].who, rules', req'[r].row, req'[r].change,
                                     Blocked(rows, UsedDeps(r))')
      BY <1>3, <1>5, <1>7, <2>1, <2>3, <2>5 DEF t, D
    <2>7. req'[r].change.deps # Keep =>
              /\ req'[r].row # Missing => req'[r].row.status # "done"
              /\ req'[r].task \notin req'[r].change.deps
              /\ req'[r].change.deps # {} =>
                     Acyclic([deps' EXCEPT ![req'[r].task] = req'[r].change.deps])
      BY <1>5, <1>7, <2>4, <2>5 DEF t
    <2> QED
      BY <1>5, <1>7, <2>6, <2>7 DEF Current, FollowsWell
  <1> QED
    BY <1>0, <1>6, <1>8, <1>9, CurrentAlone

LEMMA FlushKeeps ==
    ASSUME IInv, NEW r \in Requests, Flush(r)
    PROVE  Locks' /\ AllCurrent'
  <1>0. RequestsOK /\ TablesOK /\ UnderWay /\ Locks /\ AllCurrent
    BY TypeParts DEF IInv
  <1> DEFINE v == [req[r] EXCEPT !.pc = "flushed"]
  <1>1. /\ v.pc = "flushed" /\ v.who = req[r].who /\ v.change = req[r].change
        /\ v.new = req[r].new /\ v.seen = req[r].seen /\ v.task = req[r].task
        /\ v.row = req[r].row /\ v.lapped = req[r].lapped
    BY <1>0, PcType DEF RequestsOK, Stages, FollowUp
  <1>2. req' = [req EXCEPT ![r] = v] /\ UNCHANGED tables
    BY DEF Flush
  <1> HIDE DEF v
  <1>3. req'[r] = v /\ \A q \in Requests \ {r} : req'[q] = req[q]
    BY <1>0, <1>2 DEF RequestsOK
  <1>4. Locks'
    <2>1. \A q \in Requests : req[q].pc = "flushed" => req[q].task # req[r].task
      BY DEF Flush, Locked
    <2>2. req[r].row # Missing => Exists(rows, req[r].task)
      BY DEF Flush
    <2>3. \A t : Exists(rows, t)' <=> Exists(rows, t)
      BY <1>2 DEF tables, Exists
    <2> QED
      BY <1>0, <1>1, <1>3, <2>1, <2>2, <2>3 DEF Locks
  <1>5. Current(r)'
    <2>1. Current(r) /\ req[r].pc = "checked"
      BY <1>0 DEF AllCurrent, Flush
    <2>2. Gates(rules, req[r].row, req[r].new, req[r].change, approval[req[r].task])
      BY DEF Flush
    <2>3. UNCHANGED <<rows, deps, rules, approval>>
      BY <1>2 DEF tables
    <2> QED
      BY <1>1, <1>3, <2>1, <2>2, <2>3 DEF Current, UsedDeps, FollowsWell
  <1> QED
    BY <1>0, <1>2, <1>4, <1>5, CurrentAlone

LEMMA EndKeeps ==
    ASSUME IInv, NEW r \in Requests, GiveUp(r) \/ RecordLost(r)
    PROVE  Locks' /\ AllCurrent'
  <1>0. RequestsOK /\ TablesOK /\ UnderWay /\ Locks /\ AllCurrent
    BY TypeParts DEF IInv
  <1>1. req' = [req EXCEPT ![r] = IdleRequest] /\ UNCHANGED tables
    BY DEF GiveUp, RecordLost
  <1>2. req'[r] = IdleRequest /\ \A q \in Requests \ {r} : req'[q] = req[q]
    BY <1>0, <1>1 DEF RequestsOK
  <1>3. Locks'
    BY <1>0, <1>1, <1>2, IdleType, LocksKept DEF tables, Exists
  <1>4. Current(r)'
    BY <1>2, IdleType DEF Current, FollowsWell
  <1> QED
    BY <1>0, <1>1, <1>3, <1>4, CurrentAlone

LEMMA FollowUpKeeps ==
    ASSUME IInv, NEW r \in Requests, Refresh(r) \/ List(r) \/ Load(r)
    PROVE  Locks' /\ AllCurrent'
  <1>0. RequestsOK /\ TablesOK /\ UnderWay /\ Locks /\ AllCurrent
    BY TypeParts DEF IInv
  <1>1. req[r] \in RequestType /\ req[r].task \in Tasks /\ Current(r)
    BY <1>0 DEF RequestsOK, UnderWay, Proper, AllCurrent, Refresh, List, Load
  <1>2. UNCHANGED tables
    BY DEF Refresh, List, Load
  <1>3. PICK v \in RequestType :
            /\ req' = [req EXCEPT ![r] = v]
            /\ v.pc \in {"idle", "refreshed", "listed", "loaded"}
            /\ ~v.lapped => FollowsWell(v)
    <2>1. CASE Refresh(r)
      <3> DEFINE w == [req[r] EXCEPT !.pc = "refreshed"]
      <3>1. w \in RequestType /\ w.pc = "refreshed" /\ w.task = req[r].task
        BY <1>1, PcType DEF Stages, FollowUp
      <3>2. \/ req' = [req EXCEPT ![r] = w] /\ ~Done(rows, req[r].task)
            \/ req' = [req EXCEPT ![r] = IdleRequest]
        BY <2>1 DEF Refresh
      <3> HIDE DEF w
      <3> QED
        BY <3>1, <3>2, IdleType DEF FollowsWell
    <2>2. CASE List(r)
      <3> DEFINE D == Dependents(deps, req[r].task)
                 w == [req[r] EXCEPT !.pc = "listed", !.found = D]
      <3>1. /\ w \in RequestType /\ w.pc = "listed" /\ w.task = req[r].task
            /\ w.lapped = req[r].lapped /\ w.found = D
        <4>1. D \in SUBSET Tasks
          BY DependentsType
        <4> HIDE DEF D
        <4> QED
          BY <1>1, <4>1, ListedType
      <3>2. req' = [req EXCEPT ![r] = w] /\ req[r].pc = "refreshed"
        BY <2>2 DEF List
      <3>3. ~req[r].lapped => ~Done(rows, req[r].task)
        BY <1>1, <3>2 DEF Current, FollowsWell
      <3> HIDE DEF w
      <3> QED
        BY <3>1, <3>2, <3>3 DEF FollowsWell
    <2>3. CASE Load(r)
      <3> DEFINE D == ToMove(req[r])
                 E == ToFree(req[r])
                 w == Ready(req[r], D, E)
      <3>1. /\ w \in RequestType /\ w.pc = "loaded" /\ w.task = req[r].task
            /\ w.lapped = req[r].lapped /\ w.found = req[r].found
            /\ w.moved = D /\ w.freed = E
        <4>1. D \in SUBSET Tasks /\ E \in SUBSET Tasks
          BY <1>1, BackType
        <4> HIDE DEF D, E
        <4> QED
          BY <1>1, <4>1, LoadedType
      <3>2. req' = [req EXCEPT ![r] = w] /\ req[r].pc = "listed"
        BY <2>3 DEF Load, ToMove, ToFree, Ready
      <3>3. ~req[r].lapped => /\ ~Done(rows, req[r].task)
                              /\ req[r].found = Dependents(deps, req[r].task)
        BY <1>1, <3>2 DEF Current, FollowsWell
      <3>4. ToMove(w) = D /\ ToFree(w) = E
        <4> HIDE DEF w
        <4> QED
          BY <3>1 DEF ToMove, ToFree
      <3> HIDE DEF w, D, E
      <3> QED
        BY <3>1, <3>2, <3>3, <3>4 DEF FollowsWell
    <2> QED
      BY <2>1, <2>2, <2>3
  <1>4. req'[r] = v /\ \A q \in Requests \ {r} : req'[q] = req[q]
    BY <1>0, <1>3 DEF RequestsOK
  <1>5. Locks'
    BY <1>0, <1>2, <1>3, <1>4, LocksKept DEF tables, Exists
  <1>6. FollowsWell(req[r])' \/ v.lapped
    BY <1>2, <1>3, <1>4 DEF FollowsWell, ToMove, ToFree, Open, Exists, Done, Dependents, tables
  <1>7. Current(r)'
    BY <1>3, <1>4, <1>6 DEF Current
  <1> QED
    BY <1>0, <1>2, <1>3, <1>5, <1>7, CurrentAlone

LEMMA CommitKeeps ==
    ASSUME IInv, NEW r \in Requests, Commit(r)
    PROVE  Locks' /\ AllCurrent'
  <1>0. RequestsOK /\ TablesOK /\ UnderWay /\ Locks /\ AllCurrent
    BY TypeParts DEF IInv
  <1> DEFINE t == req[r].task
             w == Committed(t)
  <1>1. PICK v : Steps(r, v) /\ v.pc \in {"idle", "committed"}
    <2>1. w.pc = "committed"
      BY <1>0, CommittedType DEF Commit, UnderWay, Proper
    <2>2. Steps(r, w) \/ Steps(r, IdleRequest)
      BY DEF Commit, Committed
    <2> HIDE DEF w
    <2> QED
      BY <2>1, <2>2, IdleType
  <1>2. rules' = rules /\ rows' = [rows EXCEPT ![t] = Written(req[r])]
    BY DEF Commit
  <1>3. t \in Tasks /\ req[r].pc = "flushed"
    BY <1>0 DEF Commit, UnderWay, Proper
  <1>4. \A u : u # t => rows'[u] = rows[u]
    <2> HIDE DEF t
    <2> QED
      BY <1>0, <1>2 DEF TablesOK
  <1>5. ASSUME NEW q \in Requests \ {r}, req[q].pc = "flushed"
        PROVE  rows'[req[q].task] = rows[req[q].task]
    <2>1. req[q].task # t
      BY <1>0, <1>3, <1>5 DEF Locks
    <2> QED
      BY <1>4, <2>1
  <1>6. AllCurrent'
    BY <1>0, <1>1, <1>2, <1>5, CurrentAfterSteps
  <1>7. ASSUME NEW q \in Requests, req'[q].pc = "flushed"
        PROVE  /\ req[q].pc = "flushed"
               /\ req'[q].task = req[q].task /\ req'[q].row = req[q].row
               /\ Exists(rows, req[q].task) => Exists(rows, req[q].task)'
    <2>1. q # r
      BY <1>1, <1>7, StepsMarks
    <2>2. /\ req[q].pc = "flushed"
          /\ req'[q].task = req[q].task /\ req'[q].row = req[q].row
      BY <1>0, <1>1, <1>7, <2>1, StepsMarks, MarkedFields
    <2> QED
      BY <1>5, <2>1, <2>2 DEF Exists
  <1> QED
    BY <1>0, <1>6, <1>7, LocksKept

LEMMA RecordKeeps ==
    ASSUME IInv, NEW r \in Requests, Record(r)
    PROVE  Locks' /\ AllCurrent'
  <1>0. RequestsOK /\ TablesOK /\ UnderWay /\ Locks /\ AllCurrent
    BY TypeParts DEF IInv
  <1>1. Steps(r, IdleRequest) /\ rules' = rules
    BY DEF Record
  <1>2. ASSUME NEW q \in Requests \ {r}, req[q].pc = "flushed"
        PROVE  rows'[req[q].task] = rows[req[q].task]
    <2>1. Locked(req[q].task) /\ req[q].task \in Tasks
      BY <1>0, <1>2 DEF Locked, UnderWay, Proper
    <2>2. req[q].task \notin req[r].moved \cup req[r].freed
      BY <2>1 DEF Record
    <2> QED
      BY <2>1, <2>2 DEF Record, PutBack
  <1>3. AllCurrent'
    BY <1>0, <1>1, <1>2, IdleType, CurrentAfterSteps
  <1>4. ASSUME NEW q \in Requests, req'[q].pc = "flushed"
        PROVE  /\ req[q].pc = "flushed"
               /\ req'[q].task = req[q].task /\ req'[q].row = req[q].row
               /\ Exists(rows, req[q].task) => Exists(rows, req[q].task)'
    <2>1. q # r
      BY <1>1, <1>4, IdleType, StepsMarks
    <2>2. /\ req[q].pc = "flushed"
          /\ req'[q].task = req[q].task /\ req'[q].row = req[q].row
      BY <1>0, <1>1, <1>4, <2>1, StepsMarks, MarkedFields
    <2> QED
      BY <1>2, <2>1, <2>2 DEF Exists
  <1> QED
    BY <1>0, <1>3, <1>4, LocksKept

LEMMA OtherKeeps ==
    ASSUME IInv, OtherStep, rules' = rules,
           \A t \in Tasks : Locked(t) => rows'[t] = rows[t]
    PROVE  Locks' /\ AllCurrent'
  <1>0. RequestsOK /\ TablesOK /\ UnderWay /\ Locks /\ AllCurrent
    BY TypeParts DEF IInv
  <1>1. ASSUME NEW q \in Requests, req[q].pc = "flushed"
        PROVE  rows'[req[q].task] = rows[req[q].task]
    BY <1>0, <1>1 DEF Locked, UnderWay, Proper
  <1>2. AllCurrent'
    BY <1>0, <1>1, CurrentAfterOther
  <1>3. ASSUME NEW q \in Requests, req'[q].pc = "flushed"
        PROVE  /\ req[q].pc = "flushed"
               /\ req'[q].task = req[q].task /\ req'[q].row = req[q].row
               /\ Exists(rows, req[q].task) => Exists(rows, req[q].task)'
    <2>1. /\ req[q].pc = "flushed"
          /\ req'[q].task = req[q].task /\ req'[q].row = req[q].row
      BY <1>0, <1>3, OtherStepMarks, MarkedFields
    <2> QED
      BY <1>1, <2>1 DEF Exists
  <1> QED
    BY <1>0, <1>2, <1>3, LocksKept

LEMMA InitInv == Init => IInv
  <1> SUFFICES ASSUME Init PROVE IInv
    OBVIOUS
  <1>1. Locks /\ AllCurrent
    BY IdleType DEF Init, Locks, AllCurrent, Current, FollowsWell
  <1> QED
    BY <1>1, InitType DEF IInv

LEMMA StepInv == IInv /\ [Next]_vars => IInv'
  <1> SUFFICES ASSUME IInv, [Next]_vars PROVE Locks' /\ AllCurrent'
    BY StepType DEF IInv
  <1>0. TablesOK
    BY TypeParts DEF IInv
  <1>1. ASSUME NEW r \in Requests, NEW t \in Tasks, Read(r, t)
        PROVE  Locks' /\ AllCurrent'
    BY <1>1, ReadKeeps
  <1>2. ASSUME NEW r \in Requests, NEW who \in Agents \cup {Lead, User}, NEW c \in Changes,
               Check(r, who, c)
        PROVE  Locks' /\ AllCurrent'
    BY <1>2, CheckKeeps
  <1>3. ASSUME NEW r \in Requests,
               Flush(r) \/ Commit(r) \/ GiveUp(r) \/ Record(r) \/ RecordLost(r)
        PROVE  Locks' /\ AllCurrent'
    BY <1>3, FlushKeeps, CommitKeeps, EndKeeps, RecordKeeps
  <1>8. ASSUME NEW r \in Requests, Refresh(r) \/ List(r) \/ Load(r)
        PROVE  Locks' /\ AllCurrent'
    BY <1>8, FollowUpKeeps
  <1>4. ASSUME NEW t \in Tasks, Delete(t)
        PROVE  Locks' /\ AllCurrent'
    <2>1. \A u \in Tasks : Locked(u) => rows'[u] = rows[u]
      BY <1>0, <1>4 DEF Delete, TablesOK
    <2> QED
      BY <1>4, <2>1, OtherKeeps DEF Delete
  <1>5. ASSUME NEW m \in moves, SprintMoves(m)
        PROVE  Locks' /\ AllCurrent'
    <2>1. \A u \in Tasks : Locked(u) => rows'[u] = rows[u]
      BY <1>0, <1>5 DEF SprintMoves, TablesOK
    <2> QED
      BY <1>5, <2>1, OtherKeeps DEF SprintMoves
  <1>6. ASSUME NEW t \in Tasks, NEW kinds \in Approvals, ApprovalChanges(t, kinds)
        PROVE  Locks' /\ AllCurrent'
    BY <1>6, OtherKeeps DEF ApprovalChanges
  <1>7. CASE UNCHANGED <<tables, req>>
    <2>1. Locks'
      BY <1>7 DEF tables, IInv, Locks, Exists
    <2>2. AllCurrent'
      BY <1>7, CurrentSame DEF IInv, AllCurrent
    <2> QED
      BY <2>1, <2>2
  <1> QED
    BY <1>1, <1>2, <1>3, <1>4, <1>5, <1>6, <1>7, <1>8 DEF Next, vars, SprintReads

\* Whatever the tasks, agents, settings and requests, the tables and the
\* requests keep their types; requests that nobody overtook hold what is so now.
THEOREM BoardTypeOK == Spec => []TypeOK
  <1>1. Spec => []IInv
    BY InitInv, StepInv, PTL DEF Spec
  <1>2. IInv => TypeOK
    BY DEF IInv
  <1> QED
    BY <1>1, <1>2, PTL

---------------------------------------------------------------------------
(* Cycles.                                                                 *)

LEMMA FewerDepsAcyclic ==
    ASSUME NEW before, NEW after, Acyclic(before), \A u \in Tasks : after[u] \subseteq before[u]
    PROVE  Acyclic(after)
  BY DEF Acyclic

LEMMA CycleStep == IInv /\ CycleNeedsOvertaking /\ [Next]_vars => CycleNeedsOvertaking'
  <1> SUFFICES ASSUME IInv, CycleNeedsOvertaking, [Next]_vars, ~crossed'
               PROVE  Acyclic(deps')
    BY DEF CycleNeedsOvertaking, Acyclic
  <1>0. TablesOK /\ UnderWay /\ AllCurrent
    BY TypeParts DEF IInv
  <1>1. ASSUME NEW r \in Requests, Commit(r)
        PROVE  Acyclic(deps')
    <2> DEFINE q == req[r]
    <2>1. ~crossed /\ ~(q.change.deps # Keep /\ q.lapped)
      BY <1>1 DEF Commit
    <2>2. Acyclic(deps)
      BY <2>1 DEF CycleNeedsOvertaking
    <2>3. q.pc = "flushed" /\ q.task \in Tasks /\ deps' = [deps EXCEPT ![q.task] = Replaced(q)]
      BY <1>0, <1>1 DEF Commit, UnderWay, Proper
    <2>4. CASE q.change.deps = Keep
      <3>1. \A u \in Tasks : deps'[u] = deps[u]
        BY <1>0, <2>3, <2>4 DEF Replaced, TablesOK
      <3> QED
        BY <2>2, <3>1, FewerDepsAcyclic
    <2>5. CASE q.change.deps # Keep
      <3>1. /\ q.seen = deps[q.task]
            /\ q.change.deps # {} => Acyclic([deps EXCEPT ![q.task] = q.change.deps])
        BY <1>0, <2>1, <2>3, <2>5 DEF AllCurrent, Current
      <3>2. Replaced(q) = q.change.deps
        BY <2>5, <3>1 DEF Replaced
      <3>3. CASE q.change.deps # {}
        BY <2>3, <3>1, <3>2, <3>3
      <3>4. CASE q.change.deps = {}
        <4>1. \A u \in Tasks : deps'[u] \subseteq deps[u]
          BY <1>0, <2>3, <3>2, <3>4 DEF TablesOK
        <4> QED
          BY <2>2, <4>1, FewerDepsAcyclic
      <3> QED
        BY <3>3, <3>4
    <2> QED
      BY <2>4, <2>5
  <1>2. ASSUME NEW t \in Tasks, Delete(t)
        PROVE  Acyclic(deps')
    <2>1. Acyclic(deps) /\ \A u \in Tasks : deps'[u] \subseteq deps[u]
      BY <1>2 DEF Delete, CycleNeedsOvertaking
    <2> QED
      BY <2>1, FewerDepsAcyclic
  <1>3. CASE UNCHANGED <<deps, crossed>>
    BY <1>3 DEF CycleNeedsOvertaking
  <1> QED
    BY <1>1, <1>2, <1>3
       DEF Next, vars, tables, Read, Check, Flush, GiveUp, Refresh, List, Load, Record,
           RecordLost, SprintReads, SprintMoves, ApprovalChanges

\* As long as no edit of dependencies was overtaken between its search for
\* cycles and its commit, the dependencies of the board have no cycle.
THEOREM CyclesNeedOvertaking == Spec => []CycleNeedsOvertaking
  <1>1. Init => CycleNeedsOvertaking
    BY DEF Init, CycleNeedsOvertaking, Acyclic
  <1> QED
    BY <1>1, InitInv, StepInv, CycleStep, PTL DEF Spec

---------------------------------------------------------------------------
(* The requests implement AtomicBoard.                                     *)

\* The rules are those of TaskRules in both specifications.
LEMMA SameRules ==
    /\ \A R, t : Atomic!Exists(R, t) = Exists(R, t) /\ Atomic!Done(R, t) = Done(R, t)
    /\ \A R, D : Atomic!Blocked(R, D) = Blocked(R, D)
    /\ \A D, t : Atomic!Dependents(D, t) = Dependents(D, t)
    /\ \A R, D : Atomic!Open(R, D) = Open(R, D)
    /\ \A R, m, f : Atomic!PutBack(R, m, f) = PutBack(R, m, f)
    /\ \A v, w : Atomic!Or(v, w) = Or(v, w)
    /\ \A D : Atomic!Acyclic(D) = Acyclic(D)
    /\ Atomic!Row = Row /\ Atomic!Started = Started
  <1>1. /\ \A R, t : Atomic!Exists(R, t) = Exists(R, t) /\ Atomic!Done(R, t) = Done(R, t)
        /\ \A R, D : Atomic!Blocked(R, D) = Blocked(R, D)
    BY DEF Atomic!Exists, Exists, Atomic!Done, Done, Atomic!Blocked, Blocked
  <1>2. /\ \A D, t : Atomic!Dependents(D, t) = Dependents(D, t)
        /\ \A v, w : Atomic!Or(v, w) = Or(v, w)
        /\ \A D : Atomic!Acyclic(D) = Acyclic(D)
    BY DEF Atomic!Dependents, Dependents, Atomic!Or, Or, Atomic!Acyclic, Acyclic
  <1>3. Atomic!Row = Row /\ Atomic!Started = Started
    BY DEF Atomic!Row, Row, Atomic!Started, Started, Atomic!Statuses, Statuses
  <1>4. /\ \A R, D : Atomic!Open(R, D) = Open(R, D)
        /\ \A R, m, f : Atomic!PutBack(R, m, f) = PutBack(R, m, f)
    BY DEF Atomic!Open, Open, Atomic!PutBack, PutBack, Atomic!Exists, Exists, Atomic!Done, Done
  <1> QED
    BY <1>1, <1>2, <1>3, <1>4

LEMMA SameNewRows ==
    \A who, set, row, c, b : Atomic!NewRows(who, set, row, c, b) = NewRows(who, set, row, c, b)
  <1>1. \A row, c, b : Atomic!LeadRows(row, c, b) = LeadRows(row, c, b)
    BY DEF Atomic!LeadRows, LeadRows, Atomic!Or, Or
  <1>2. \A row, c, b : Atomic!UserRows(row, c, b) = UserRows(row, c, b)
    BY DEF Atomic!UserRows, UserRows, Atomic!Or, Or, Atomic!Forced, Forced, Atomic!Follows,
           Follows, Atomic!Flow, Flow
  <1>3. \A a, set, row, c, b : Atomic!AgentRows(a, set, row, c, b) = AgentRows(a, set, row, c, b)
    BY DEF Atomic!AgentRows, AgentRows, Atomic!Merges, Merges, Atomic!Follows, Follows,
           Atomic!Flow, Flow
  <1>4. \A c, b : Atomic!CreatedRows(c, b) = CreatedRows(c, b)
    BY DEF Atomic!CreatedRows, CreatedRows
  <1> QED
    BY <1>1, <1>2, <1>3, <1>4 DEF Atomic!NewRows, NewRows

LEMMA SameGates ==
    /\ \A set, row, new, c, kinds :
           Atomic!Gates(set, row, new, c, kinds) = Gates(set, row, new, c, kinds)
    /\ \A R, D, t, row, c : Atomic!MayEdit(R, D, t, row, c) = MayEdit(R, D, t, row, c)
  <1>1. \A R, D, t, X : Atomic!ValidDeps(R, D, t, X) = ValidDeps(R, D, t, X)
    BY SameRules DEF Atomic!ValidDeps, ValidDeps
  <1>2. \A R, D, t, row, c : Atomic!MayEdit(R, D, t, row, c) = MayEdit(R, D, t, row, c)
    BY <1>1 DEF Atomic!MayEdit, MayEdit
  <1>3. \A set, row, new, c, kinds :
           Atomic!Gates(set, row, new, c, kinds) = Gates(set, row, new, c, kinds)
    BY DEF Atomic!Gates, Gates
  <1> QED
    BY <1>2, <1>3

\* The primed form is what a step leaves.
LEMMA SameExcuse == \A X : Atomic!Excuse(X) = Excuse(X)
  BY DEF Atomic!Excuse, Excuse, Atomic!StartedBlocked, StartedBlocked, Atomic!Exists, Exists,
         Atomic!Started, Started, Atomic!Blocked, Blocked, Atomic!Done, Done

LEMMA SurroundingsKept ==
    ASSUME UnderWay', rules' = rules
    PROVE  Atomic!Surroundings
  BY DEF UnderWay, Proper, raced, late, Atomic!Surroundings

LEMMA OwedSame ==
    ASSUME \A q \in Requests : /\ req'[q].pc \in FollowUp <=> req[q].pc \in FollowUp
                               /\ req[q].pc \in FollowUp => req'[q].task = req[q].task
    PROVE  owed' = owed
  BY DEF owed

\* Requests that read, check, write or give up leave the tables alone, and so
\* do second transactions that read.
LEMMA QuietStep ==
    ASSUME IInv, UnderWay', NEW r \in Requests, NEW v, req' = [req EXCEPT ![r] = v],
           v.pc \in FollowUp <=> req[r].pc \in FollowUp,
           v.pc \in FollowUp => v.task = req[r].task, UNCHANGED <<tables, excused>>
    PROVE  Atomic!Idle
  <1>0. RequestsOK
    BY TypeParts DEF IInv
  <1>1. owed' = owed
    BY <1>0, OwedSame DEF RequestsOK
  <1> QED
    BY <1>1, SurroundingsKept DEF Atomic!Idle, tables

LEMMA CommitOwed ==
    ASSUME IInv, NEW r \in Requests, Commit(r)
    PROVE  /\ owed' \in {owed, owed \cup {req[r].task}}
           /\ FollowsUp(req[r]) => req[r].task \in owed'
  <1>0. RequestsOK /\ req[r].pc = "flushed"
    BY TypeParts DEF IInv, Commit
  <1>1. ASSUME NEW q \in Requests \ {r}
        PROVE  req'[q].pc = req[q].pc /\ req'[q].task = req[q].task
    <2>1. Marked(q)
      BY <1>1, StepsMarks DEF Commit
    <2> QED
      BY <1>0, <1>1, <2>1, MarkedFields
  <1> DEFINE w == Committed(req[r].task)
  <1>2. w.pc \in FollowUp /\ w.task = req[r].task
    <2>1. req[r].task \in Tasks
      BY <1>0 DEF IInv, UnderWay, Proper
    <2> QED
      BY <2>1, CommittedType DEF FollowUp
  <1>3. req'[r] = IF FollowsUp(req[r]) THEN w ELSE IdleRequest
    BY StepsMarks DEF Commit, Committed
  <1>6. req[r].pc \notin FollowUp
    BY <1>0 DEF FollowUp
  <1> HIDE DEF w
  <1>4. CASE FollowsUp(req[r])
    <2>1. req'[r].pc \in FollowUp /\ req'[r].task = req[r].task
      BY <1>2, <1>3, <1>4
    <2>2. owed' = owed \cup {req[r].task}
      BY <1>1, <1>6, <2>1 DEF owed
    <2> QED
      BY <2>2
  <1>5. CASE ~FollowsUp(req[r])
    <2>1. req'[r].pc \notin FollowUp
      BY <1>3, <1>5, IdleType
    <2>2. owed' = owed
      BY <1>1, <1>6, <2>1, OwedSame
    <2> QED
      BY <1>5, <2>2
  <1> QED
    BY <1>4, <1>5

LEMMA OvertakenCommit ==
    ASSUME IInv, TypeOK', UnderWay', NEW r \in Requests, Commit(r), req[r].lapped
    PROVE  req[r].task \in Tasks /\ Atomic!Overtaken(req[r].task)
  <1> DEFINE t == req[r].task
  <1>0. TablesOK /\ TablesOK' /\ UnderWay
    BY TypeParts, TypePartsPrime DEF IInv
  <1>1. t \in Tasks
    BY <1>0 DEF Commit, UnderWay, Proper
  <1>2. t \in raced
    BY DEF raced, Commit, FollowUp
  <1>3. \A u \in Tasks \ {t} : rows'[u] = rows[u] /\ deps'[u] = deps[u]
    BY <1>0 DEF Commit, TablesOK
  <1>4. rows' \in [Tasks -> {Missing} \cup Atomic!Row] /\ deps' \in [Tasks -> SUBSET Tasks]
    BY <1>0, SameRules DEF TablesOK
  <1>5. ExcusedBy(req[r]) = {t} \cup Atomic!Dependents(deps, t)
    BY SameRules DEF ExcusedBy
  <1>6. Atomic!Excuse({t} \cup Atomic!Dependents(deps, t))
    BY <1>5, SameExcuse DEF Commit
  <1>7. approval' = approval /\ rules' = rules
    BY DEF Commit
  <1>8. Atomic!Surroundings
    BY <1>7, SurroundingsKept
  <1>9. owed' \in {owed, owed \cup {t}}
    BY CommitOwed
  <1> HIDE DEF t
  <1>10. Atomic!Overtaken(t)
    BY <1>2, <1>3, <1>4, <1>6, <1>7, <1>8, <1>9 DEF Atomic!Overtaken
  <1> QED
    BY <1>1, <1>10 DEF t

LEMMA CurrentCommit ==
    ASSUME IInv, TypeOK', UnderWay', NEW r \in Requests, Commit(r), ~req[r].lapped
    PROVE  /\ req[r].task \in Tasks /\ req[r].change \in Changes
           /\ req[r].who \in Agents \cup {Lead, User}
           /\ Atomic!Update(req[r].who, req[r].task, req[r].change)
  <1> DEFINE q == req[r]
             t == q.task
             c == q.change
             D == Or(c.deps, deps[t])
  <1>0. TablesOK /\ TablesOK' /\ UnderWay /\ RequestsOK /\ Current(r) /\ q.pc = "flushed"
    BY TypeParts, TypePartsPrime DEF IInv, AllCurrent, Commit
  <1>1. /\ t \in Tasks /\ c \in Changes /\ c \in Change /\ q.new \in Row
        /\ q.who \in Agents \cup {Lead, User} /\ q.row \in {Missing} \cup Row
    BY <1>0, ChangeType DEF UnderWay, Proper, Judged, RequestsOK, RequestType
  <1>2. /\ q.row = rows[t] /\ q.seen = deps[t]
        /\ q.new \in NewRows(q.who, rules, q.row, c, Blocked(rows, D))
        /\ c.deps # Keep => /\ q.row # Missing => q.row.status # "done"
                            /\ t \notin c.deps
                            /\ c.deps # {} => Acyclic([deps EXCEPT ![t] = c.deps])
        /\ Gates(rules, q.row, q.new, c, approval[t])
    BY <1>0 DEF Current, UsedDeps
  <1>3. Written(q) = q.new
    BY <1>1, <1>2 DEF Written, Row
  <1>4. Replaced(q) = D
    BY <1>2 DEF Replaced, Or
  <1>5. /\ rows' = [rows EXCEPT ![t] = q.new]
        /\ deps' = [deps EXCEPT ![t] = D]
        /\ rules' = rules /\ approval' = approval
    BY <1>3, <1>4 DEF Commit
  <1>6. Insertable(q) /\ Excuse(ExcusedBy(q))
    BY DEF Commit
  <1>7. Atomic!MayEdit(rows, deps, t, rows[t], c)
    <2>1. MayEdit(rows, deps, t, rows[t], c)
      BY <1>2, <1>6 DEF MayEdit, ValidDeps, Insertable
    <2> QED
      BY <2>1, SameGates
  <1>8. Atomic!Excuse(IF q.who = Lead /\ c.deps # Keep THEN {t} ELSE {})
    <2>1. ExcusedBy(q) = IF q.who = Lead /\ c.deps # Keep THEN {t} ELSE {}
      BY DEF ExcusedBy
    <2> QED
      BY <1>6, <2>1, SameExcuse
  <1>9. Done(rows, t) /\ ~Done(rows', t) => t \in owed'
    <2> SUFFICES ASSUME Done(rows, t), ~Done(rows', t) PROVE t \in owed'
      OBVIOUS
    <2>1. q.row \in Row /\ q.row # Missing /\ q.row.status = "done"
      BY <1>1, <1>2 DEF Done, Exists
    <2>2. rows'[t] = q.new /\ q.new # Missing
      BY <1>0, <1>1, <1>5, MissingAssumption DEF TablesOK
    <2>3. q.new.status # "done"
      BY <2>2 DEF Done, Exists
    <2>4. q.who # Lead
      BY <1>1, <1>2, <2>1, <2>3, LeadKeepsDone DEF Blocked
    <2> QED
      BY <2>1, <2>4, CommitOwed DEF FollowsUp
  <1>10. owed' \in {owed, owed \cup {t}}
    BY CommitOwed
  <1>11. Atomic!Surroundings
    BY <1>5, SurroundingsKept
  <1>12. Atomic!Gates(rules, rows[t], rows'[t], c, approval[t])
    BY <1>0, <1>1, <1>2, <1>5, SameGates DEF TablesOK
  <1>13. rows'[t] \in Atomic!NewRows(q.who, rules, rows[t], c,
                                     Atomic!Blocked(rows, Atomic!Or(c.deps, deps[t])))
    BY <1>0, <1>1, <1>2, <1>5, SameNewRows, SameRules DEF TablesOK
  <1>14. /\ rows' \in [Tasks -> {Missing} \cup Atomic!Row]
         /\ \A u \in Tasks \ {t} : rows'[u] = rows[u]
         /\ deps' = [deps EXCEPT ![t] = Atomic!Or(c.deps, deps[t])]
    BY <1>0, <1>5, SameRules DEF TablesOK
  <1>15. Done(rows, t) = Atomic!Done(rows, t) /\ Done(rows', t) = Atomic!Done(rows', t)
    BY SameRules
  <1> HIDE DEF q, t, c, D
  <1>16. Atomic!Update(q.who, t, c)
    BY <1>5, <1>7, <1>8, <1>9, <1>10, <1>11, <1>12, <1>13, <1>14, <1>15 DEF Atomic!Update
  <1> QED
    BY <1>1, <1>16 DEF q, t, c

LEMMA EndOwed ==
    ASSUME IInv, NEW r \in Requests, req[r].pc \in FollowUp, req'[r].pc \notin FollowUp,
           \A q \in Requests \ {r} : req'[q].pc = req[q].pc /\ req'[q].task = req[q].task
    PROVE  req[r].task \in owed /\ owed' \in {owed, owed \ {req[r].task}}
  BY DEF owed

\* A second transaction ends, alone or with marks on the other requests.
LEMMA EndedOwed ==
    ASSUME IInv, NEW r \in Requests, req[r].pc \in FollowUp,
           req' = [req EXCEPT ![r] = IdleRequest] \/ Steps(r, IdleRequest)
    PROVE  /\ req[r].task \in Tasks
           /\ req[r].task \in owed /\ owed' \in {owed, owed \ {req[r].task}}
  <1>0. RequestsOK /\ UnderWay
    BY TypeParts DEF IInv
  <1>1. req[r].task \in Tasks
    BY <1>0 DEF UnderWay, Proper, FollowUp
  <1>2. \A q \in Requests \ {r} : req'[q].pc = req[q].pc /\ req'[q].task = req[q].task
    BY <1>0, StepsMarks, MarkedFields DEF RequestsOK
  <1>3. req'[r].pc \notin FollowUp
    BY <1>0, StepsMarks, IdleType DEF RequestsOK
  <1> QED
    BY <1>1, <1>2, <1>3, EndOwed

\* There is nothing to put back if the task is done again.
LEMMA RefreshedReset ==
    ASSUME IInv, UnderWay', NEW r \in Requests, Refresh(r), Done(rows, req[r].task)
    PROVE  req[r].task \in Tasks /\ Atomic!Reset(req[r].task)
  <1> DEFINE t == req[r].task
  <1>1. req' = [req EXCEPT ![r] = IdleRequest] /\ Excuse({}) /\ UNCHANGED tables
    BY DEF Refresh
  <1>2. t \in Tasks /\ t \in owed /\ owed' \in {owed, owed \ {t}}
    BY <1>1, EndedOwed DEF Refresh, FollowUp
  <1>3. rows' = rows /\ Atomic!Done(rows, t)
    BY <1>1, SameRules DEF tables
  <1>4. UNCHANGED <<deps, approval, rules>> /\ Atomic!Excuse({})
    BY <1>1, SameExcuse DEF tables
  <1>5. Atomic!Surroundings
    BY <1>4, SurroundingsKept
  <1> HIDE DEF t
  <1>6. Atomic!Reset(t)
    BY <1>2, <1>3, <1>4, <1>5 DEF Atomic!Reset
  <1> QED
    BY <1>2, <1>6 DEF t

\* To write only the columns that differ is to write them all.
LEMMA PutBackSame ==
    ASSUME TablesOK, NEW q, q.found \in SUBSET Tasks
    PROVE  PutBack(rows, ToMove(q), ToFree(q))
               = PutBack(rows, Open(rows, q.found), Open(rows, q.found))
  <1> DEFINE back == Open(rows, q.found)
  <1>1. ASSUME NEW u \in Tasks
        PROVE  PutBack(rows, ToMove(q), ToFree(q))[u] = PutBack(rows, back, back)[u]
    <2>1. CASE u \in back
      <3>1. rows[u] \in Row
        BY <2>1 DEF Open, Exists, TablesOK
      <3>2. rows[u] = [status |-> rows[u].status, owner |-> rows[u].owner]
        BY <3>1 DEF Row
      <3>3. /\ u \in ToMove(q) <=> rows[u].status # "inbox"
            /\ u \in ToFree(q) <=> rows[u].owner # Nobody
        BY <2>1 DEF ToMove, ToFree
      <3> HIDE DEF back
      <3> QED
        BY <2>1, <3>2, <3>3 DEF PutBack
    <2>2. CASE u \notin back
      <3>1. u \notin ToMove(q) /\ u \notin ToFree(q)
        BY <2>2 DEF ToMove, ToFree
      <3> HIDE DEF back
      <3> QED
        BY <2>2, <3>1 DEF PutBack
    <2> QED
      BY <2>1, <2>2
  <1> HIDE DEF back
  <1>2. \A m, f : PutBack(rows, m, f) = [u \in Tasks |-> PutBack(rows, m, f)[u]]
    BY DEF PutBack
  <1>3. /\ PutBack(rows, ToMove(q), ToFree(q))
               = [u \in Tasks |-> PutBack(rows, ToMove(q), ToFree(q))[u]]
        /\ PutBack(rows, back, back) = [u \in Tasks |-> PutBack(rows, back, back)[u]]
    BY <1>2
  <1> QED
    BY <1>1, <1>3 DEF back

\* What a second transaction that was not overtaken writes.
LEMMA RecordedRows ==
    ASSUME IInv, NEW r \in Requests, Record(r), ~req[r].lapped
    PROVE  LET back == Open(rows, Dependents(deps, req[r].task))
           IN  ~Done(rows, req[r].task) /\ rows' = PutBack(rows, back, back)
  <1>0. TablesOK /\ RequestsOK /\ Current(r) /\ req[r].pc = "loaded"
    BY TypeParts DEF IInv, AllCurrent, Record
  <1>1. /\ ~Done(rows, req[r].task) /\ req[r].found = Dependents(deps, req[r].task)
        /\ req[r].moved = ToMove(req[r]) /\ req[r].freed = ToFree(req[r])
    BY <1>0 DEF Current, FollowsWell
  <1>2. req[r].found \in SUBSET Tasks
    BY <1>1, DependentsType
  <1>3. rows' = PutBack(rows, ToMove(req[r]), ToFree(req[r]))
    BY <1>1 DEF Record
  <1>4. rows' = PutBack(rows, Open(rows, req[r].found), Open(rows, req[r].found))
    BY <1>0, <1>2, <1>3, PutBackSame
  <1> QED
    BY <1>1, <1>4

LEMMA RecordedReset ==
    ASSUME IInv, UnderWay', NEW r \in Requests, Record(r), ~req[r].lapped
    PROVE  req[r].task \in Tasks /\ Atomic!Reset(req[r].task)
  <1> DEFINE t == req[r].task
             back == Open(rows, Dependents(deps, t))
  <1>1. Steps(r, IdleRequest) /\ req[r].pc \in FollowUp
    BY DEF Record, FollowUp
  <1>2. t \in Tasks /\ t \in owed /\ owed' \in {owed, owed \ {t}}
    BY <1>1, EndedOwed
  <1>3. ~Atomic!Done(rows, t) /\ rows' = Atomic!PutBack(rows, back, back)
    BY RecordedRows, SameRules
  <1>4. back = Atomic!Open(rows, Atomic!Dependents(deps, t))
    BY SameRules
  <1>5. UNCHANGED <<deps, approval, rules>> /\ Atomic!Excuse({})
    BY SameExcuse DEF Record
  <1>6. Atomic!Surroundings
    BY <1>5, SurroundingsKept
  <1> HIDE DEF t, back
  <1>7. Atomic!Reset(t)
    BY <1>2, <1>3, <1>4, <1>5, <1>6 DEF Atomic!Reset
  <1> QED
    BY <1>2, <1>7 DEF t

LEMMA RecordedLate ==
    ASSUME IInv, UnderWay', NEW r \in Requests, Record(r), req[r].lapped
    PROVE  /\ req[r].task \in Tasks
           /\ req[r].moved \in SUBSET Tasks /\ req[r].freed \in SUBSET Tasks
           /\ Atomic!ResetLate(req[r].task, req[r].moved, req[r].freed)
  <1> DEFINE t == req[r].task
             m == req[r].moved
             f == req[r].freed
             X == UNION {Dependents(deps, u) : u \in {t} \cup m}
  <1>1. Steps(r, IdleRequest) /\ req[r].pc \in FollowUp
    BY DEF Record, FollowUp
  <1>2. t \in Tasks /\ t \in owed /\ owed' \in {owed, owed \ {t}}
    BY <1>1, EndedOwed
  <1>3. t \in late
    BY <1>1 DEF late
  <1>4. m \in SUBSET Tasks /\ f \in SUBSET Tasks
    BY TypeParts DEF IInv, RequestsOK, RequestType
  <1>5. /\ rows' = Atomic!PutBack(rows, m, f)
        /\ \A u \in m \cup f : Atomic!Exists(rows, u)
    BY SameRules DEF Record
  <1>6. UNCHANGED <<deps, approval, rules>> /\ Excuse(X)
    BY DEF Record
  <1>7. X = UNION {Atomic!Dependents(deps, u) : u \in {t} \cup m}
    BY DEF Dependents, Atomic!Dependents
  <1>8. Atomic!Excuse(UNION {Atomic!Dependents(deps, u) : u \in {t} \cup m})
    BY <1>6, <1>7, SameExcuse
  <1>9. Atomic!Surroundings
    BY <1>6, SurroundingsKept
  <1> HIDE DEF t, m, f, X
  <1>10. Atomic!ResetLate(t, m, f)
    BY <1>2, <1>3, <1>5, <1>6, <1>8, <1>9 DEF Atomic!ResetLate
  <1> QED
    BY <1>2, <1>4, <1>10 DEF t, m, f

LEMMA LostReset ==
    ASSUME IInv, UnderWay', NEW r \in Requests, RecordLost(r)
    PROVE  req[r].task \in Tasks /\ Atomic!ResetLost(req[r].task)
  <1> DEFINE t == req[r].task
  <1>1. req' = [req EXCEPT ![r] = IdleRequest] /\ req[r].pc \in FollowUp
    BY DEF RecordLost
  <1>2. t \in Tasks /\ t \in owed /\ owed' \in {owed, owed \ {t}}
    BY <1>1, EndedOwed
  <1>3. UNCHANGED <<rows, deps, approval, rules>> /\ Atomic!Excuse(Atomic!Dependents(deps, t))
    BY SameExcuse, SameRules DEF RecordLost, tables
  <1>4. Atomic!Surroundings
    BY <1>3, SurroundingsKept
  <1> HIDE DEF t
  <1>5. Atomic!ResetLost(t)
    BY <1>2, <1>3, <1>4 DEF Atomic!ResetLost
  <1> QED
    BY <1>2, <1>5 DEF t

LEMMA OtherOwed ==
    ASSUME IInv, OtherStep
    PROVE  owed' = owed
  <1>1. RequestsOK
    BY TypeParts DEF IInv
  <1> QED
    BY <1>1, OtherStepMarks, MarkedFields, OwedSame

LEMMA DeleteMaps ==
    ASSUME IInv, UnderWay', NEW t \in Tasks, Delete(t)
    PROVE  Atomic!Delete(t)
  <1>1. owed' = owed /\ Atomic!Surroundings
    BY OtherOwed, SurroundingsKept DEF Delete
  <1> QED
    BY <1>1, SameRules, SameExcuse DEF Delete, Atomic!Delete

LEMMA SprintMoveMaps ==
    ASSUME IInv, UnderWay', NEW m \in moves, SprintMoves(m)
    PROVE  Atomic!SprintMoves(m.task, m.to)
  <1>1. owed' = owed /\ Atomic!Surroundings
    BY OtherOwed, SurroundingsKept DEF SprintMoves
  <1>2. Atomic!Excuse(IF Atomic!Done(rows, m.task) THEN Atomic!Dependents(deps, m.task) ELSE {})
    BY SameRules, SameExcuse DEF SprintMoves
  <1> QED
    BY <1>1, <1>2, SameRules DEF SprintMoves, Atomic!SprintMoves

LEMMA ApprovalChangeMaps ==
    ASSUME IInv, UnderWay', NEW t \in Tasks, NEW kinds, ApprovalChanges(t, kinds)
    PROVE  Atomic!ApprovalChanges(t, kinds)
  <1>1. owed' = owed /\ Atomic!Surroundings
    BY OtherOwed, SurroundingsKept DEF ApprovalChanges
  <1> QED
    BY <1>1, SameRules, SameExcuse DEF ApprovalChanges, Atomic!ApprovalChanges

Quiet ==
    \/ \E r \in Requests, t \in Tasks : Read(r, t)
    \/ \E r \in Requests, who \in Agents \cup {Lead, User}, c \in Changes : Check(r, who, c)
    \/ \E r \in Requests : Flush(r) \/ GiveUp(r) \/ List(r) \/ Load(r)
    \/ \E r \in Requests : Refresh(r) /\ ~Done(rows, req[r].task)
    \/ \E t \in Tasks, s \in {"inbox", "backlog", "archived"} : SprintReads(t, s)

LEMMA ReadingStage ==
    ASSUME NEW r \in Requests, req[r] \in RequestType,
           List(r) \/ Load(r) \/ (Refresh(r) /\ ~Done(rows, req[r].task))
    PROVE  \E v \in RequestType : /\ req' = [req EXCEPT ![r] = v]
                                  /\ v.pc \in FollowUp /\ v.task = req[r].task
  <1>1. CASE Refresh(r) /\ ~Done(rows, req[r].task)
    <2> DEFINE v == [req[r] EXCEPT !.pc = "refreshed"]
    <2>1. v \in RequestType /\ v.pc \in FollowUp /\ v.task = req[r].task
      BY PcType DEF Stages, FollowUp
    <2>2. req' = [req EXCEPT ![r] = v]
      BY <1>1 DEF Refresh
    <2> HIDE DEF v
    <2> QED
      BY <2>1, <2>2
  <1>2. CASE List(r)
    <2> DEFINE D == Dependents(deps, req[r].task)
               v == [req[r] EXCEPT !.pc = "listed", !.found = D]
    <2>1. v \in RequestType /\ v.pc \in FollowUp /\ v.task = req[r].task
      <3>1. D \in SUBSET Tasks
        BY DependentsType
      <3> HIDE DEF D
      <3> QED
        BY <3>1, ListedType DEF FollowUp
    <2>2. req' = [req EXCEPT ![r] = v]
      BY <1>2 DEF List
    <2> HIDE DEF v
    <2> QED
      BY <2>1, <2>2
  <1>3. CASE Load(r)
    <2> DEFINE D == ToMove(req[r])
               E == ToFree(req[r])
               v == Ready(req[r], D, E)
    <2>1. v \in RequestType /\ v.pc \in FollowUp /\ v.task = req[r].task
      <3>1. D \in SUBSET Tasks /\ E \in SUBSET Tasks
        BY BackType
      <3> HIDE DEF D, E
      <3> QED
        BY <3>1, LoadedType DEF FollowUp
    <2>2. req' = [req EXCEPT ![r] = v]
      BY <1>3 DEF Load, ToMove, ToFree, Ready
    <2> HIDE DEF v
    <2> QED
      BY <2>1, <2>2
  <1> QED
    BY <1>1, <1>2, <1>3

LEMMA QuietMaps ==
    ASSUME IInv, IInv', Quiet
    PROVE  Atomic!Idle
  <1>0. TypeOK' /\ UnderWay' /\ RequestsOK
    BY TypeParts DEF IInv
  <1>1. ASSUME NEW r \in Requests, NEW t \in Tasks, Read(r, t)
        PROVE  Atomic!Idle
    <2> DEFINE v == [IdleRequest EXCEPT !.pc = "read", !.task = t, !.row = rows[t]]
    <2>1. v.pc = "read" /\ "read" \notin FollowUp /\ "idle" \notin FollowUp
      BY DEF IdleRequest, FollowUp
    <2>2. req' = [req EXCEPT ![r] = v] /\ req[r].pc = "idle" /\ UNCHANGED <<tables, excused>>
      BY <1>1 DEF Read
    <2> HIDE DEF v
    <2> QED
      BY <1>0, <2>1, <2>2, QuietStep
  <1>2. ASSUME NEW r \in Requests, NEW who \in Agents \cup {Lead, User}, NEW c \in Changes,
               Check(r, who, c)
        PROVE  Atomic!Idle
    <2>1. PICK new : req' = [req EXCEPT ![r] = [@ EXCEPT !.pc = "checked", !.who = who,
                                   !.change = c, !.new = new, !.seen = deps[req[r].task]]]
      BY <1>2 DEF Check
    <2> DEFINE v == [req[r] EXCEPT !.pc = "checked", !.who = who, !.change = c,
                                   !.new = new, !.seen = deps[req[r].task]]
    <2>2. v.pc = "checked" /\ "checked" \notin FollowUp /\ "read" \notin FollowUp
      BY <1>0 DEF RequestsOK, RequestType, FollowUp
    <2>3. req' = [req EXCEPT ![r] = v] /\ req[r].pc = "read" /\ UNCHANGED <<tables, excused>>
      BY <1>2, <2>1 DEF Check
    <2> HIDE DEF v
    <2> QED
      BY <1>0, <2>2, <2>3, QuietStep
  <1>3. ASSUME NEW r \in Requests, Flush(r)
        PROVE  Atomic!Idle
    <2> DEFINE v == [req[r] EXCEPT !.pc = "flushed"]
    <2>1. v.pc = "flushed" /\ "flushed" \notin FollowUp /\ "checked" \notin FollowUp
      BY <1>0 DEF RequestsOK, RequestType, FollowUp
    <2>2. req' = [req EXCEPT ![r] = v] /\ req[r].pc = "checked" /\ UNCHANGED <<tables, excused>>
      BY <1>3 DEF Flush
    <2> HIDE DEF v
    <2> QED
      BY <1>0, <2>1, <2>2, QuietStep
  <1>4. ASSUME NEW r \in Requests, GiveUp(r)
        PROVE  Atomic!Idle
    <2>1. req' = [req EXCEPT ![r] = IdleRequest] /\ req[r].pc \notin FollowUp
          /\ UNCHANGED <<tables, excused>>
      BY <1>4 DEF GiveUp, FollowUp
    <2> QED
      BY <1>0, <2>1, IdleType, QuietStep
  <1>5. ASSUME NEW r \in Requests,
               List(r) \/ Load(r) \/ (Refresh(r) /\ ~Done(rows, req[r].task))
        PROVE  Atomic!Idle
    <2>1. req[r].pc \in FollowUp /\ UNCHANGED <<tables, excused>> /\ req[r] \in RequestType
      BY <1>0, <1>5 DEF List, Load, Refresh, FollowUp, RequestsOK
    <2>2. PICK v \in RequestType : /\ req' = [req EXCEPT ![r] = v]
                                   /\ v.pc \in FollowUp /\ v.task = req[r].task
      BY <1>5, <2>1, ReadingStage
    <2> QED
      BY <1>0, <2>1, <2>2, QuietStep
  <1>6. ASSUME NEW t \in Tasks, NEW s \in {"inbox", "backlog", "archived"}, SprintReads(t, s)
        PROVE  Atomic!Idle
    <2>1. UNCHANGED <<tables, req, excused>>
      BY <1>6 DEF SprintReads
    <2>2. owed' = owed
      BY <2>1 DEF owed
    <2> QED
      BY <1>0, <2>1, <2>2, SurroundingsKept DEF Atomic!Idle, tables
  <1> QED
    BY <1>1, <1>2, <1>3, <1>4, <1>5, <1>6 DEF Quiet

LEMMA StepMaps ==
    IInv /\ IInv' /\ [Next]_vars => [Atomic!Next]_(Atomic!vars)
  <1> SUFFICES ASSUME IInv, IInv', [Next]_vars PROVE Atomic!Next \/ UNCHANGED Atomic!vars
    OBVIOUS
  <1>0. TypeOK' /\ UnderWay' /\ RequestsOK
    BY TypeParts DEF IInv
  <1>1. CASE Quiet
    BY <1>1, QuietMaps DEF Atomic!Next
  <1>2. ASSUME NEW r \in Requests, Commit(r)
        PROVE  Atomic!Next
    <2>1. CASE req[r].lapped
      BY <1>0, <1>2, <2>1, OvertakenCommit DEF Atomic!Next
    <2>2. CASE ~req[r].lapped
      <3>1. PICK t \in Tasks, c \in Changes, who \in Agents \cup {Lead, User} :
                Atomic!Update(who, t, c)
        BY <1>0, <1>2, <2>2, CurrentCommit
      <3> QED
        BY <3>1 DEF Atomic!Next
    <2> QED
      BY <2>1, <2>2
  <1>3. ASSUME NEW r \in Requests, Record(r) \/ RecordLost(r)
        PROVE  Atomic!Next
    <2>1. CASE Record(r) /\ req[r].lapped
      <3>1. PICK t \in Tasks, moved \in SUBSET Tasks, freed \in SUBSET Tasks :
                Atomic!ResetLate(t, moved, freed)
        BY <1>0, <2>1, RecordedLate
      <3> QED
        BY <3>1 DEF Atomic!Next
    <2>2. CASE Record(r) /\ ~req[r].lapped
      BY <1>0, <2>2, RecordedReset DEF Atomic!Next
    <2>3. CASE RecordLost(r)
      BY <1>0, <2>3, LostReset DEF Atomic!Next
    <2> QED
      BY <1>3, <2>1, <2>2, <2>3
  <1>8. ASSUME NEW r \in Requests, Refresh(r), Done(rows, req[r].task)
        PROVE  Atomic!Next
    BY <1>0, <1>8, RefreshedReset DEF Atomic!Next
  <1>4. ASSUME NEW t \in Tasks, Delete(t)
        PROVE  Atomic!Next
    BY <1>0, <1>4, DeleteMaps DEF Atomic!Next
  <1>5. ASSUME NEW m \in moves, SprintMoves(m)
        PROVE  Atomic!Next
    <2>1. m.task \in Tasks /\ m.to \in {"inbox", "backlog", "archived"}
      BY TypeParts DEF IInv, MovesOK
    <2> QED
      BY <1>0, <1>5, <2>1, SprintMoveMaps DEF Atomic!Next
  <1>6. ASSUME NEW t \in Tasks, NEW kinds \in Approvals, ApprovalChanges(t, kinds)
        PROVE  Atomic!Next
    BY <1>0, <1>6, ApprovalChangeMaps DEF Atomic!Next
  <1>7. CASE UNCHANGED vars
    <2>1. UNCHANGED Atomic!vars
      BY <1>7 DEF vars, tables, Atomic!vars, owed, raced, late
    <2> QED
      BY <2>1
  <1> QED
    BY <1>1, <1>2, <1>3, <1>4, <1>5, <1>6, <1>7, <1>8 DEF Next, Quiet

\* Every request that nobody overtook takes effect at its commit as if it ran
\* alone at that moment: by the rules, the dependency checks and the gates as
\* they apply to the tables then.  So does every second transaction of a
\* re-opening; one that was overtaken puts back what it had found.
THEOREM BoardRunsAtomically == Spec => RunsAtomically
  <1>1. Init => Atomic!Init
    BY IdleType DEF Init, Atomic!Init, owed, raced, late
  <1> QED
    BY <1>1, InitInv, StepInv, StepMaps, PTL DEF Spec, RunsAtomically, Atomic!Spec

---------------------------------------------------------------------------
(* No work on blocked tasks, shown of the steps of AtomicBoard.            *)

\* Task u has started although it depends on d, which is not done.
StartedBehind(u, d) ==
    d \in deps[u] /\ Exists(rows, u) /\ rows[u].status \in Started /\ ~Done(rows, d)

LEMMA StartedBehindOwed ==
    ASSUME TablesOK
    PROVE  /\ StartedUnblocked <=>
                  \A u \in Tasks : \A d : StartedBehind(u, d) => u \in excused \/ d \in owed
           /\ StartedUnblocked' <=>
                  \A u \in Tasks : \A d : StartedBehind(u, d)' => u \in excused' \/ d \in owed'
  BY SameRules DEF StartedUnblocked, Atomic!StartedUnblocked, StartedBehind

\* It is enough that a step excuses, owes or has found each such pair.
LEMMA StartedKept ==
    ASSUME TypeOK, StartedUnblocked, NEW X, Excuse(X),
           ASSUME NEW u \in Tasks, NEW d, StartedBehind(u, d)'
           PROVE  u \in X \/ d \in owed' \/ (StartedBehind(u, d) /\ (d \in owed => d \in owed'))
    PROVE  StartedUnblocked'
  <1>0. TablesOK
    BY TypeParts
  <1>1. ASSUME NEW u \in Tasks, NEW d, StartedBehind(u, d)'
        PROVE  u \in excused' \/ d \in owed'
    <2>1. StartedBlocked(u)'
      BY <1>1 DEF StartedBehind, StartedBlocked, Blocked
    <2>2. u \in excused \cup X \/ d \in owed'
      BY <1>0, <1>1, StartedBehindOwed
    <2> QED
      BY <2>1, <2>2 DEF Excuse
  <1> QED
    BY <1>0, <1>1, StartedBehindOwed

LEMMA CommitStarted ==
    ASSUME IInv, IInv', StartedUnblocked, NEW r \in Requests, Commit(r)
    PROVE  StartedUnblocked'
  <1> DEFINE q == req[r]
             t == q.task
             c == q.change
             D == Or(c.deps, deps[t])
             X == ExcusedBy(q)
  <1>0. /\ TypeOK /\ TablesOK /\ TablesOK' /\ UnderWay /\ RequestsOK /\ Current(r)
        /\ q.pc = "flushed"
    BY TypeParts, TypePartsPrime DEF IInv, AllCurrent, Commit
  <1>1. /\ t \in Tasks /\ c \in Change /\ q.new \in Row
        /\ q.who \in Agents \cup {Lead, User} /\ q.row \in {Missing} \cup Row
    BY <1>0, ChangeType DEF UnderWay, Proper, Judged, RequestsOK, RequestType
  <1>2. /\ rows' = [rows EXCEPT ![t] = Written(q)]
        /\ deps' = [deps EXCEPT ![t] = Replaced(q)]
        /\ Excuse(X)
    BY DEF Commit
  <1>3. /\ owed' \in {owed, owed \cup {t}}
        /\ FollowsUp(q) => t \in owed'
    BY CommitOwed
  <1>4. /\ rows'[t] = Written(q) /\ deps'[t] = Replaced(q)
        /\ \A u \in Tasks \ {t} : rows'[u] = rows[u] /\ deps'[u] = deps[u]
    BY <1>0, <1>1, <1>2 DEF TablesOK
  <1>5. ASSUME NEW u \in Tasks, NEW d, StartedBehind(u, d)', q.lapped
        PROVE  u \in X \/ d \in owed' \/ (StartedBehind(u, d) /\ (d \in owed => d \in owed'))
    <2>1. X = {t} \cup Dependents(deps, t)
      BY <1>5 DEF ExcusedBy
    <2>2. CASE u # t /\ t \notin deps[u]
      <3>1. d \in Tasks /\ d # t
        BY <1>0, <1>4, <1>5, <2>2 DEF StartedBehind, TablesOK
      <3> QED
        BY <1>3, <1>4, <1>5, <2>2, <3>1 DEF StartedBehind, Exists, Done
    <2> QED
      BY <1>5, <2>1, <2>2 DEF Dependents
  <1>6. ASSUME NEW u \in Tasks, NEW d, StartedBehind(u, d)', ~q.lapped
        PROVE  u \in X \/ d \in owed' \/ (StartedBehind(u, d) /\ (d \in owed => d \in owed'))
    <2>1. /\ q.row = rows[t] /\ q.seen = deps[t]
          /\ q.new \in NewRows(q.who, rules, q.row, c, Blocked(rows, D))
      BY <1>0, <1>6 DEF Current, UsedDeps
    <2>2. Written(q) = q.new /\ Replaced(q) = D
      BY <1>1, <2>1 DEF Written, Replaced, Row, Or
    <2>3. d \in Tasks /\ ~Done(rows, d)' /\ d \in deps'[u]
      BY <1>0, <1>6 DEF StartedBehind, TablesOK
    <2>4. CASE Done(rows, d)
      <3>1. d = t
        BY <1>4, <2>3, <2>4 DEF Done, Exists
      <3>2. q.row \in Row /\ q.row # Missing /\ q.row.status = "done"
        BY <1>1, <2>1, <2>4, <3>1 DEF Done, Exists
      <3>3. q.new.status # "done"
        BY <1>1, <1>4, <2>2, <2>3, <3>1, MissingAssumption DEF Done, Exists
      <3>4. q.who # Lead
        BY <1>1, <2>1, <3>2, <3>3, LeadKeepsDone DEF Blocked
      <3> QED
        BY <1>3, <3>1, <3>2, <3>4 DEF FollowsUp
    <2>5. CASE ~Done(rows, d) /\ u # t
      BY <1>3, <1>4, <1>6, <2>5 DEF StartedBehind, Exists
    <2>6. CASE ~Done(rows, d) /\ u = t
      <3>1. d \in D /\ Blocked(rows, D)
        BY <1>4, <2>2, <2>3, <2>6 DEF Blocked
      <3>2. q.new.status \in Started
        BY <1>4, <1>6, <2>2, <2>6 DEF StartedBehind
      <3>3. Blocked(rows, D) \in BOOLEAN
        BY DEF Blocked
      <3>4. q.who = Lead /\ q.row \in Row /\ q.new = q.row
        <4> HIDE DEF q, c, D
        <4> QED
          BY <1>1, <2>1, <3>1, <3>2, <3>3, StartedRows
      <3>5. CASE c.deps # Keep
        BY <2>6, <3>4, <3>5 DEF ExcusedBy
      <3>6. CASE c.deps = Keep
        <4>1. d \in deps[t] /\ rows[t] # Missing /\ rows[t].status \in Started
          BY <2>1, <3>1, <3>2, <3>4, <3>6, MissingAssumption DEF Or
        <4> QED
          BY <1>3, <2>6, <4>1 DEF StartedBehind, Exists
      <3> QED
        BY <3>5, <3>6
    <2> QED
      BY <2>4, <2>5, <2>6
  <1> HIDE DEF X
  <1> QED
    BY <1>0, <1>2, <1>5, <1>6, StartedKept

LEMMA ResetStarted ==
    ASSUME IInv, UnderWay', StartedUnblocked, NEW r \in Requests, Record(r), ~req[r].lapped
    PROVE  StartedUnblocked'
  <1> DEFINE t == req[r].task
  <1>0. TypeOK /\ TablesOK
    BY TypeParts DEF IInv
  <1>1. t \in Tasks /\ Atomic!Reset(t)
    BY RecordedReset
  <1>2. Excuse({}) /\ deps' = deps
    BY DEF Record
  <1>3. \A d : d # t => (d \in owed => d \in owed')
    BY <1>1 DEF Atomic!Reset
  <1>4. \A v \in Tasks :
            rows'[v] = IF Exists(rows, v) /\ t \in deps[v] /\ ~Done(rows, v)
                       THEN [status |-> "inbox", owner |-> Nobody] ELSE rows[v]
    BY RecordedRows DEF PutBack, Open, Dependents
  <1>5. ASSUME NEW u \in Tasks, NEW d, StartedBehind(u, d)'
        PROVE  StartedBehind(u, d) /\ d # t
    <2>1. d \in Tasks /\ d \in deps[u]
      BY <1>0, <1>2, <1>5 DEF StartedBehind, TablesOK
    <2>2. rows'[u].status \in Started /\ Exists(rows', u)
      BY <1>5 DEF StartedBehind, Exists
    <2>3. rows'[u] = rows[u] /\ t \notin deps[u]
      <3>1. CASE Exists(rows, u) /\ t \in deps[u] /\ ~Done(rows, u)
        BY <1>4, <2>2, <3>1 DEF Started
      <3>2. CASE ~(Exists(rows, u) /\ t \in deps[u] /\ ~Done(rows, u))
        BY <1>4, <2>2, <3>2 DEF Exists, Done, Started
      <3> QED
        BY <3>1, <3>2
    <2>4. ~Done(rows, d)
      BY <1>4, <1>5, <2>1 DEF StartedBehind, Done, Exists
    <2> QED
      BY <2>1, <2>2, <2>3, <2>4 DEF StartedBehind, Exists
  <1> HIDE DEF t
  <1> QED
    BY <1>0, <1>2, <1>3, <1>5, StartedKept

\* What an overtaken second transaction blocks depends on the task or on one
\* that it moves.
LEMMA LateStarted ==
    ASSUME IInv, IInv', StartedUnblocked, NEW r \in Requests, Record(r), req[r].lapped
    PROVE  StartedUnblocked'
  <1> DEFINE t == req[r].task
             m == req[r].moved
             f == req[r].freed
             X == UNION {Dependents(deps, u) : u \in {t} \cup m}
  <1>0. TypeOK /\ TablesOK /\ UnderWay'
    BY TypeParts DEF IInv
  <1>1. t \in Tasks /\ Atomic!ResetLate(t, m, f)
    BY <1>0, RecordedLate
  <1>2. /\ Excuse(X) /\ deps' = deps /\ rows' = PutBack(rows, m, f)
        /\ \A u \in m \cup f : Exists(rows, u)
    BY DEF Record
  <1>3. \A d : d # t => (d \in owed => d \in owed')
    BY <1>1 DEF Atomic!ResetLate
  <1>4. \A w \in {t} \cup m : \A u \in Tasks : w \in deps[u] => u \in X
    BY DEF Dependents
  <1> HIDE DEF t, m, f, X
  <1>5. \A u \in Tasks :
            IF u \in m THEN rows'[u].status = "inbox"
            ELSE /\ Exists(rows', u) <=> Exists(rows, u)
                 /\ Exists(rows, u) => rows'[u].status = rows[u].status
    <2> SUFFICES ASSUME NEW u \in Tasks
                 PROVE  IF u \in m THEN rows'[u].status = "inbox"
                        ELSE /\ Exists(rows', u) <=> Exists(rows, u)
                             /\ Exists(rows, u) => rows'[u].status = rows[u].status
      OBVIOUS
    <2>1. CASE u \notin m \cup f
      BY <1>2, <2>1 DEF PutBack, Exists
    <2>2. CASE u \in m
      BY <1>2, <2>2 DEF PutBack
    <2>3. CASE u \in f /\ u \notin m
      <3>1. rows'[u] = [status |-> rows[u].status, owner |-> Nobody] /\ Exists(rows, u)
        BY <1>2, <2>3 DEF PutBack
      <3>2. rows[u] \in Row
        BY <1>0, <3>1 DEF Exists, TablesOK
      <3>3. rows'[u] \in Row
        BY <3>1, <3>2 DEF Row
      <3>4. Exists(rows', u) /\ rows'[u].status = rows[u].status
        BY <3>1, <3>3, MissingAssumption DEF Exists
      <3> QED
        BY <2>3, <3>1, <3>4
    <2> QED
      BY <2>1, <2>2, <2>3
  <1>6. ASSUME NEW u \in Tasks, NEW d, StartedBehind(u, d)'
        PROVE  u \in X \/ (StartedBehind(u, d) /\ d # t)
    <2>1. d \in Tasks /\ d \in deps[u] /\ rows'[u].status \in Started /\ Exists(rows', u)
          /\ ~Done(rows', d)
      BY <1>0, <1>2, <1>6 DEF StartedBehind, TablesOK, Exists, Done
    <2>2. u \notin m
      <3>1. u \in m => rows'[u].status = "inbox"
        BY <1>5
      <3>2. "inbox" \notin Started
        BY DEF Started
      <3> QED
        BY <2>1, <3>1, <3>2
    <2>3. Exists(rows, u) /\ rows[u].status \in Started
      BY <1>5, <2>1, <2>2
    <2>4. CASE d \in {t} \cup m
      BY <1>4, <2>1, <2>4
    <2>5. CASE d \notin {t} \cup m
      <3>1. ~Done(rows, d)
        BY <1>5, <2>1, <2>5 DEF Done
      <3> QED
        BY <2>1, <2>3, <2>5, <3>1 DEF StartedBehind
    <2> QED
      BY <2>4, <2>5
  <1> QED
    BY <1>0, <1>2, <1>3, <1>6, StartedKept

\* A second transaction that has nothing to put back, or fails.
LEMMA EndStarted ==
    ASSUME IInv, UnderWay', StartedUnblocked, NEW r \in Requests,
           RecordLost(r) \/ (Refresh(r) /\ Done(rows, req[r].task))
    PROVE  StartedUnblocked'
  <1> DEFINE t == req[r].task
  <1>0. TypeOK
    BY DEF IInv
  <1>1. rows' = rows /\ deps' = deps
    BY DEF RecordLost, Refresh, tables
  <1>2. \A d : d # t => (d \in owed => d \in owed')
    BY LostReset, RefreshedReset DEF Atomic!Reset, Atomic!ResetLost
  <1>3. PICK Y \in {{}, Dependents(deps, t)} :
            Excuse(Y) /\ (Y = {} => Done(rows, t) \/ Dependents(deps, t) = {})
    BY DEF RecordLost, Refresh
  <1>4. ASSUME NEW u \in Tasks, NEW d, StartedBehind(u, d)'
        PROVE  StartedBehind(u, d) /\ (u \in Dependents(deps, t) \/ d # t) /\ ~Done(rows, d)
    BY <1>1, <1>4 DEF StartedBehind, Exists, Done, Dependents
  <1>5. ASSUME NEW u \in Tasks, NEW d, StartedBehind(u, d)'
        PROVE  StartedBehind(u, d) /\ (u \in Y \/ d # t)
    BY <1>3, <1>4, <1>5
  <1> HIDE DEF t
  <1> QED
    BY <1>0, <1>2, <1>3, <1>5, StartedKept

LEMMA StartedStep == IInv /\ IInv' /\ StartedUnblocked /\ [Next]_vars => StartedUnblocked'
  <1> SUFFICES ASSUME IInv, IInv', StartedUnblocked, [Next]_vars PROVE StartedUnblocked'
    OBVIOUS
  <1>0. TypeOK /\ TablesOK /\ UnderWay /\ UnderWay' /\ RequestsOK
    BY TypeParts DEF IInv
  <1>1. CASE \E r \in Requests : Commit(r)
    BY <1>1, CommitStarted
  <1>2. CASE \E r \in Requests : Record(r) \/ RecordLost(r)
    BY <1>0, <1>2, ResetStarted, LateStarted, EndStarted
  <1>9. CASE \E r \in Requests : Refresh(r) /\ Done(rows, req[r].task)
    BY <1>0, <1>9, EndStarted
  <1>3. ASSUME NEW t \in Tasks, Delete(t)
        PROVE  StartedUnblocked'
    <2>1. Excuse({}) /\ owed' = owed
      BY <1>3, OtherOwed DEF Delete
    <2>2. ASSUME NEW u \in Tasks, NEW d, StartedBehind(u, d)'
          PROVE  StartedBehind(u, d)
      <3>1. /\ rows' = [rows EXCEPT ![t] = Missing]
            /\ deps' = [v \in Tasks |-> IF v = t THEN {} ELSE deps[v] \ {t}]
        BY <1>3 DEF Delete
      <3>2. u # t /\ d \in deps[u] /\ d # t
        BY <2>2, <3>1 DEF StartedBehind
      <3>3. d \in Tasks
        BY <1>0, <3>2 DEF TablesOK
      <3>4. rows'[u] = rows[u] /\ rows'[d] = rows[d]
        BY <1>0, <3>1, <3>2, <3>3 DEF TablesOK
      <3> QED
        BY <2>2, <3>2, <3>4 DEF StartedBehind, Exists, Done
    <2> QED
      BY <1>0, <2>1, <2>2, StartedKept
  <1>4. ASSUME NEW m \in moves, SprintMoves(m)
        PROVE  StartedUnblocked'
    <2> DEFINE t == m.task
               s == m.to
               X == IF Done(rows, t) THEN Dependents(deps, t) ELSE {}
    <2>0. t \in Tasks /\ s \in {"inbox", "backlog", "archived"}
      BY TypeParts DEF IInv, MovesOK
    <2>1. Excuse(X) /\ owed' = owed
      BY <1>4, OtherOwed DEF SprintMoves
    <2>2. ASSUME NEW u \in Tasks, NEW d, StartedBehind(u, d)'
          PROVE  u \in X \/ StartedBehind(u, d)
      <3>1. deps' = deps /\ \A v \in Tasks \ {t} : rows'[v] = rows[v]
        BY <1>0, <1>4 DEF SprintMoves, TablesOK
      <3>2. rows'[t].status = s
        <4>1. rows[t] \in Row
          BY <1>0, <1>4, <2>0 DEF SprintMoves, Exists, TablesOK
        <4>2. rows'[t] = [rows[t] EXCEPT !.status = s]
          BY <1>0, <1>4, <2>0 DEF SprintMoves, TablesOK
        <4> QED
          BY <4>1, <4>2 DEF Row
      <3>3. u # t
        BY <2>0, <2>2, <3>2 DEF StartedBehind, Started
      <3>4. d \in Tasks /\ d \in deps[u]
        BY <1>0, <2>2, <3>1 DEF StartedBehind, TablesOK
      <3>5. CASE d = t
        BY <2>2, <3>1, <3>3, <3>4, <3>5 DEF StartedBehind, Exists, Dependents
      <3>6. CASE d # t
        BY <2>2, <3>1, <3>3, <3>4, <3>6 DEF StartedBehind, Exists, Done
      <3> QED
        BY <3>5, <3>6
    <2> HIDE DEF X
    <2> QED
      BY <1>0, <2>1, <2>2, StartedKept
  <1>5. CASE UNCHANGED <<rows, deps>> /\ owed' = owed /\ (Excuse({}) \/ excused' = excused)
    <2>1. CASE Excuse({})
      BY <1>0, <1>5, <2>1, StartedKept DEF StartedBehind, Exists, Done
    <2>2. CASE excused' = excused
      BY <1>0, <1>5, <2>2, StartedBehindOwed DEF StartedBehind, Exists, Done
    <2> QED
      BY <1>5, <2>1, <2>2
  <1>6. CASE \E t \in Tasks, kinds \in Approvals : ApprovalChanges(t, kinds)
    BY <1>5, <1>6, OtherOwed DEF ApprovalChanges
  <1>7. CASE Quiet
    <2>1. Atomic!Idle
      BY <1>7, QuietMaps
    <2> QED
      BY <1>5, <2>1 DEF Atomic!Idle
  <1>8. CASE UNCHANGED vars
    BY <1>5, <1>8 DEF vars, tables, owed
  <1> QED
    BY <1>1, <1>2, <1>3, <1>4, <1>6, <1>7, <1>8, <1>9 DEF Next, Quiet

\* No task is in work while a task it depends on is not done, whatever the
\* requests, but for the reasons that excused and owed keep.
THEOREM NoWorkOnBlockedTasks == Spec => []StartedUnblocked
  <1>1. Init => StartedUnblocked
    BY DEF Init, StartedUnblocked, Atomic!StartedUnblocked
  <1> QED
    BY <1>1, InitInv, StepInv, StartedStep, PTL DEF Spec

=============================================================================
