---------------------------- MODULE SprintsProofs ----------------------------
(***************************************************************************)
(* Proofs about Sprints for any number of sprints, tasks, roles and        *)
(* concurrent requests.                                                    *)
(***************************************************************************)
EXTENDS Sprints, TLAPS

Steps == {"idle", "queue", "delete", "try_start", "maybe_start", "start",
          "review", "dispatch", "gate", "complete", "advance", "cancel"}
NoSprintYet == {"idle", "maybe_start", "advance"}

\* TypeOK, in the parts that different steps disturb.
SprintOK == sprint \in [Sprints -> Planned \cup Live \cup Closed \cup {"none", "deleted"}]
NewerOK  == newer \subseteq Sprints \X Sprints
TicketOK == ticket \in [Tasks -> Sprints \cup {None}]
TaskOK   == task \in [Tasks -> {"none", "backlog", "open", "done", "archived"}]
GateOK ==
    /\ review \in [Sprints -> [Roles -> ReviewStatus]]
    /\ created \in [Sprints -> [Roles -> SUBSET Tasks]]
    /\ reworked \in [Sprints -> [Roles -> BOOLEAN]]
ControlOK ==
    /\ writer \in [Sprints -> Requests \cup {None}]
    /\ pc \in [Requests -> Steps]
    /\ req \in [Requests -> RequestType]
    /\ \A r \in Requests : pc[r] \notin NoSprintYet => req[r].s \in Sprints
FailuresOK == failures \in 0..MaxFailures

LEMMA TypeParts ==
    TypeOK <=> /\ SprintOK /\ NewerOK /\ TicketOK /\ TaskOK
               /\ GateOK /\ ControlOK /\ FailuresOK
  BY DEF TypeOK, SprintOK, NewerOK, TicketOK, TaskOK, GateOK, ControlOK, FailuresOK,
         Steps, NoSprintYet

LEMMA TypePartsPrime ==
    TypeOK' <=> /\ SprintOK' /\ NewerOK' /\ TicketOK' /\ TaskOK'
                /\ GateOK' /\ ControlOK' /\ FailuresOK'
  BY DEF TypeOK, SprintOK, NewerOK, TicketOK, TaskOK, GateOK, ControlOK, FailuresOK,
         Steps, NoSprintYet

LEMMA NoRequestType == NoRequest \in RequestType
  BY DEF NoRequest, RequestType, NoReviews, ReviewStatus

LEMMA RequestOfSprint ==
    ASSUME NEW s \in Sprints
    PROVE  /\ [NoRequest EXCEPT !.s = s] \in RequestType
           /\ [NoRequest EXCEPT !.s = s].s = s
  BY NoRequestType DEF NoRequest, RequestType

LEMMA GotoType ==
    ASSUME ControlOK, NEW r \in Requests, NEW step \in Steps, NEW info \in RequestType,
           step \notin NoSprintYet => info.s \in Sprints, Goto(r, step, info)
    PROVE  ControlOK'
  BY DEF ControlOK, Goto

LEMMA FinishType ==
    ASSUME ControlOK, NEW r \in Requests, Finish(r)
    PROVE  ControlOK'
  BY NoRequestType, GotoType DEF Finish, Steps, NoSprintYet

LEMMA UnlockType ==
    ASSUME ControlOK, NEW r \in Requests, Unlock(r)
    PROVE  ControlOK'
  BY NoRequestType DEF ControlOK, Unlock, Steps, NoSprintYet

LEMMA TouchType ==
    ASSUME NewerOK, NEW s \in Sprints
    PROVE  Touch(s) \subseteq Sprints \X Sprints /\ Forget(s) \subseteq Sprints \X Sprints
  BY DEF NewerOK, Touch, Forget

------------------------------------------------------------------------------
(***************************************************************************)
(* Types                                                                   *)
(***************************************************************************)
LEMMA InitType == Init => TypeOK
  <1> SUFFICES ASSUME Init PROVE TypeOK
    OBVIOUS
  <1>1. SprintOK /\ NewerOK /\ TicketOK /\ TaskOK /\ FailuresOK
    BY BoardAssumption DEF Init, SprintOK, NewerOK, TicketOK, TaskOK, FailuresOK
  <1>2. GateOK
    BY DEF Init, GateOK, NoReviews, ReviewStatus
  <1>3. ControlOK
    BY NoRequestType DEF Init, ControlOK, Steps, NoSprintYet
  <1> QED
    BY <1>1, <1>2, <1>3, TypeParts

\* Requests that begin, or only look, change nothing but their own control.
LEMMA BeginType ==
    ASSUME TypeOK, NEW r \in Requests, NEW s \in Sprints,
           \/ QueueSprint(r, s) \/ DeleteSprint(r, s) \/ StartSprint(r, s)
           \/ Complete(r, s) \/ Cancel(r, s)
    PROVE  ControlOK' /\ UNCHANGED <<board, gate, failures>>
  <1>1. ControlOK
    BY TypeParts
  <1>2. \A step \in Steps : Goto(r, step, [NoRequest EXCEPT !.s = s]) => ControlOK'
    BY <1>1, RequestOfSprint, GotoType
  <1> QED
    BY <1>2 DEF QueueSprint, DeleteSprint, StartSprint, Complete, Cancel, Steps

LEMMA DecideType ==
    ASSUME TypeOK, NEW r \in Requests,
           \/ TryStart(r) \/ MaybeStart(r) \/ StartRefused(r) \/ PassGate(r)
           \/ Advance(r) \/ ReviewFails(r)
    PROVE  ControlOK' /\ UNCHANGED <<board, gate, failures>>
  <1>0. ControlOK /\ (pc[r] \notin NoSprintYet => req[r].s \in Sprints) /\ req[r] \in RequestType
    BY TypeParts DEF ControlOK
  <1> DEFINE At(u) == [NoRequest EXCEPT !.s = u]
  <1>1. \A u \in Sprints, step \in Steps : Goto(r, step, At(u)) => ControlOK'
    BY <1>0, RequestOfSprint, GotoType
  <1>2. Finish(r) => ControlOK'
    BY <1>0, FinishType
  <1>3. \A step \in Steps : (pc[r] \notin NoSprintYet /\ Goto(r, step, req[r])) => ControlOK'
    BY <1>0, GotoType
  <1>4. CASE TryStart(r) \/ PassGate(r)
    BY <1>2, <1>3, <1>4 DEF TryStart, PassGate, Steps, NoSprintYet
  <1>5. CASE MaybeStart(r)
    BY <1>1, <1>2, <1>5 DEF MaybeStart, Steps
  <1>6. CASE Advance(r)
    BY <1>1, <1>2, <1>6 DEF Advance, Steps
  <1>7. CASE StartRefused(r) \/ ReviewFails(r)
    BY <1>2, <1>7 DEF StartRefused, ReviewFails
  <1> QED
    BY <1>4, <1>5, <1>6, <1>7

LEMMA ReviewType ==
    ASSUME TypeOK, NEW r \in Requests, NEW s \in Sprints, NEW loaded \in BOOLEAN,
           sprint[s] \in Live, Review(r, s, loaded)
    PROVE  ControlOK'
  <1> DEFINE info == [s |-> s, was |-> sprint[s], loaded |-> loaded,
                      seen |-> IF loaded THEN review[s] ELSE NoReviews]
  <1>1. info \in RequestType
    BY DEF RequestType, TypeOK, NoReviews, ReviewStatus
  <1>2. ControlOK /\ info.s \in Sprints /\ "review" \in Steps
    BY TypeParts DEF Steps
  <1>3. Goto(r, "review", info)
    BY DEF Review
  <1> QED
    BY <1>1, <1>2, <1>3, GotoType

LEMMA CheckType ==
    ASSUME TypeOK, NEW r \in Requests, NEW s \in Sprints,
           CheckCompletion(r) \/ RunReview(r, s)
    PROVE  ControlOK' /\ UNCHANGED <<board, gate, failures>>
  <1>1. CASE CheckCompletion(r)
    <2>1. PICK u \in Sprints : sprint[u] \in Live /\ Review(r, u, sprint[u] = "reviewing")
      BY <1>1 DEF CheckCompletion, Latest
    <2>2. (sprint[u] = "reviewing") \in BOOLEAN
      OBVIOUS
    <2> QED
      BY <1>1, <2>1, <2>2, ReviewType DEF CheckCompletion
  <1>2. CASE RunReview(r, s)
    BY <1>2, ReviewType DEF RunReview
  <1> QED
    BY <1>1, <1>2

LEMMA CreateSprintType ==
    ASSUME TypeOK, NEW s \in Sprints, CreateSprint(s)
    PROVE  TypeOK'
  <1>0. SprintOK /\ NewerOK /\ TicketOK /\ TaskOK /\ GateOK /\ ControlOK /\ FailuresOK
    BY TypeParts
  <1>1. SprintOK'
    BY <1>0 DEF CreateSprint, SprintOK, NewStatus, Planned
  <1> QED
    BY <1>0, <1>1, TypePartsPrime
    DEF CreateSprint, NewerOK, TicketOK, TaskOK, GateOK, gate, ControlOK, control, FailuresOK

LEMMA AutoFromBacklogType ==
    ASSUME TypeOK, NEW r \in Requests, NEW s \in Sprints, NEW ts \in SUBSET Tasks,
           NEW start \in BOOLEAN, AutoFromBacklog(r, s, ts, start)
    PROVE  TypeOK'
  <1>0. SprintOK /\ NewerOK /\ TicketOK /\ TaskOK /\ GateOK /\ ControlOK /\ FailuresOK
    BY TypeParts
  <1>1. SprintOK' /\ TicketOK'
    BY <1>0 DEF AutoFromBacklog, SprintOK, TicketOK, NewStatus, Planned
  <1>2. ControlOK'
    BY <1>0, RequestOfSprint, GotoType DEF AutoFromBacklog, Steps
  <1> QED
    BY <1>0, <1>1, <1>2, TypePartsPrime
    DEF AutoFromBacklog, NewerOK, TaskOK, GateOK, gate, FailuresOK

LEMMA AddTicketType ==
    ASSUME TypeOK, NEW r \in Requests, NEW s \in Sprints, NEW t \in Tasks, AddTicket(r, s, t)
    PROVE  TypeOK'
  <1>0. SprintOK /\ NewerOK /\ TicketOK /\ TaskOK /\ GateOK /\ ControlOK /\ FailuresOK
    BY TypeParts
  <1>1. TicketOK'
    BY <1>0 DEF AddTicket, TicketOK
  <1>2. ControlOK'
    BY <1>0, NoRequestType, GotoType DEF AddTicket, Steps, NoSprintYet
  <1> QED
    BY <1>0, <1>1, <1>2, TypePartsPrime
    DEF AddTicket, SprintOK, NewerOK, TaskOK, GateOK, gate, FailuresOK

LEMMA PlanCommitType ==
    ASSUME TypeOK, NEW r \in Requests, CommitQueue(r) \/ CommitDelete(r)
    PROVE  TypeOK'
  <1>0. SprintOK /\ NewerOK /\ TicketOK /\ TaskOK /\ GateOK /\ ControlOK /\ FailuresOK
    BY TypeParts
  <1>1. CASE CommitQueue(r)
    <2>1. ControlOK' /\ req[r].s \in Sprints
      BY <1>0, <1>1, FinishType DEF CommitQueue, ControlOK, NoSprintYet
    <2>2. SprintOK' /\ NewerOK'
      BY <1>0, <1>1, <2>1, TouchType DEF CommitQueue, SprintOK, NewerOK, Planned
    <2> QED
      BY <1>0, <1>1, <2>1, <2>2, TypePartsPrime
      DEF CommitQueue, TicketOK, TaskOK, GateOK, gate, FailuresOK
  <1>2. CASE CommitDelete(r)
    <2>1. ControlOK' /\ req[r].s \in Sprints
      BY <1>0, <1>2, FinishType DEF CommitDelete, ControlOK, NoSprintYet
    <2>2. SprintOK' /\ NewerOK' /\ TicketOK'
      BY <1>0, <1>2, <2>1, TouchType DEF CommitDelete, SprintOK, NewerOK, TicketOK
    <2> QED
      BY <1>0, <1>2, <2>1, <2>2, TypePartsPrime
      DEF CommitDelete, TaskOK, GateOK, gate, FailuresOK
  <1> QED
    BY <1>1, <1>2

LEMMA CommitType ==
    ASSUME TypeOK, NEW r \in Requests,
           CommitStart(r) \/ CommitComplete(r) \/ CommitCancel(r)
    PROVE  TypeOK'
  <1>0. /\ SprintOK /\ NewerOK /\ TicketOK /\ TaskOK /\ GateOK /\ ControlOK /\ FailuresOK
        /\ req[r].s \in Sprints
    BY TypeParts DEF ControlOK, CommitStart, CommitComplete, CommitCancel, NoSprintYet
  <1>1. CASE CommitStart(r)
    <2>1. SprintOK' /\ NewerOK'
      BY <1>0, <1>1, TouchType DEF CommitStart, SprintOK, NewerOK, Live
    <2>2. TaskOK'
      BY <1>0, <1>1 DEF CommitStart, TaskOK
    <2>3. ControlOK'
      BY <1>0, <1>1, FinishType DEF CommitStart
    <2> QED
      BY <1>0, <1>1, <2>1, <2>2, <2>3, TypePartsPrime
      DEF CommitStart, TicketOK, GateOK, gate, FailuresOK
  <1>2. CASE CommitComplete(r)
    <2>1. SprintOK' /\ NewerOK'
      BY <1>0, <1>2, TouchType DEF CommitComplete, SprintOK, NewerOK, Closed
    <2>2. TaskOK'
      BY <1>0, <1>2 DEF CommitComplete, TaskOK
    <2>3. ControlOK'
      BY <1>0, <1>2, FinishType, NoRequestType, GotoType
      DEF CommitComplete, Steps, NoSprintYet
    <2> QED
      BY <1>0, <1>2, <2>1, <2>2, <2>3, TypePartsPrime
      DEF CommitComplete, TicketOK, GateOK, gate, FailuresOK
  <1>3. CASE CommitCancel(r)
    <2>1. SprintOK' /\ NewerOK'
      BY <1>0, <1>3, TouchType DEF CommitCancel, SprintOK, NewerOK, Closed
    <2>2. TaskOK'
      BY <1>0, <1>3 DEF CommitCancel, TaskOK
    <2>3. ControlOK'
      BY <1>0, <1>3, FinishType DEF CommitCancel
    <2> QED
      BY <1>0, <1>3, <2>1, <2>2, <2>3, TypePartsPrime
      DEF CommitCancel, TicketOK, GateOK, gate, FailuresOK
  <1> QED
    BY <1>1, <1>2, <1>3

LEMMA LockReviewType ==
    ASSUME TypeOK, NEW r \in Requests, LockReview(r)
    PROVE  ControlOK' /\ UNCHANGED <<board, gate, failures>>
  <1> DEFINE q == req[r]
             seen == IF q.loaded THEN q.seen ELSE review[q.s]
             info == [s |-> q.s, was |-> q.was, loaded |-> q.loaded, seen |-> seen]
  <1>0. GateOK /\ ControlOK /\ q \in RequestType
    BY TypeParts DEF ControlOK
  <1>1. q.s \in Sprints
    BY <1>0 DEF LockReview, ControlOK, NoSprintYet
  <1>2. seen \in [Roles -> ReviewStatus]
    BY <1>0, <1>1 DEF RequestType, GateOK
  <1>3. info \in RequestType
    BY <1>0, <1>2 DEF RequestType
  <1>4. info.s = q.s
    OBVIOUS
  <1>5. /\ writer' = [writer EXCEPT ![q.s] = r]
        /\ pc' = [pc EXCEPT ![r] = "dispatch"]
        /\ req' = [req EXCEPT ![r] = info]
        /\ UNCHANGED <<board, gate, failures>>
    BY DEF LockReview
  <1> HIDE DEF info, q
  <1>6. \A u \in Requests \ {r} : pc'[u] = pc[u] /\ req'[u] = req[u]
    BY <1>0, <1>5 DEF ControlOK
  <1> QED
    BY <1>0, <1>1, <1>3, <1>4, <1>5, <1>6 DEF ControlOK, Steps

LEMMA CommitReviewType ==
    ASSUME TypeOK, NEW r \in Requests, NEW offline \in SUBSET Roles, CommitReview(r, offline)
    PROVE  TypeOK'
  <1>0. /\ SprintOK /\ NewerOK /\ TicketOK /\ TaskOK /\ GateOK /\ ControlOK /\ FailuresOK
    BY TypeParts
  <1>1. req[r].s \in Sprints
    BY <1>0 DEF CommitReview, ControlOK, NoSprintYet
  <1>2. SprintOK' /\ NewerOK'
    BY <1>0, <1>1, TouchType DEF CommitReview, SprintOK, NewerOK, Live
  <1>3. review' \in [Sprints -> [Roles -> ReviewStatus]]
    BY <1>0, <1>1 DEF CommitReview, GateOK, ReviewStatus
  <1>4. created' \in [Sprints -> [Roles -> SUBSET Tasks]]
    BY <1>0, <1>1 DEF CommitReview, GateOK
  <1>5. reworked' \in [Sprints -> [Roles -> BOOLEAN]]
    BY <1>0, <1>1 DEF CommitReview, GateOK
  <1>6. ControlOK'
    BY <1>0, UnlockType DEF CommitReview
  <1> QED
    BY <1>0, <1>2, <1>3, <1>4, <1>5, <1>6, TypePartsPrime
    DEF CommitReview, TicketOK, TaskOK, GateOK, FailuresOK

LEMMA VerdictType ==
    ASSUME TypeOK, NEW r \in Requests, NEW s \in Sprints, NEW x \in Roles,
           NEW v \in {"approved", "changes_requested"}, NEW ids \in SUBSET Tasks,
           Verdict(r, s, x, v, ids)
    PROVE  TypeOK'
  <1>0. /\ SprintOK /\ NewerOK /\ TicketOK /\ TaskOK /\ GateOK /\ ControlOK /\ FailuresOK
    BY TypeParts
  <1>1. GateOK'
    BY <1>0 DEF Verdict, GateOK, ReviewStatus
  <1>2. ControlOK'
    BY <1>0, RequestOfSprint, GotoType DEF Verdict, Steps
  <1> QED
    BY <1>0, <1>1, <1>2, TypePartsPrime
    DEF Verdict, SprintOK, NewerOK, TicketOK, TaskOK, board, FailuresOK

LEMMA TaskType ==
    ASSUME TypeOK, NEW t \in Tasks,
           CreateTask(t) \/ CreateRemediation(t) \/ MoveTask(t) \/ RemoveTicket(t)
    PROVE  TypeOK'
  <1>0. /\ SprintOK /\ NewerOK /\ TicketOK /\ TaskOK /\ GateOK /\ ControlOK /\ FailuresOK
    BY TypeParts
  <1>1. CASE CreateTask(t)
    <2>1. TaskOK'
      BY <1>0, <1>1 DEF CreateTask, TaskOK
    <2> QED
      BY <1>0, <1>1, <2>1, TypePartsPrime
      DEF CreateTask, SprintOK, NewerOK, TicketOK, GateOK, gate, ControlOK, control, FailuresOK
  <1>2. CASE CreateRemediation(t)
    <2>1. TaskOK' /\ TicketOK'
      BY <1>0, <1>2 DEF CreateRemediation, TaskOK, TicketOK
    <2> QED
      BY <1>0, <1>2, <2>1, TypePartsPrime
      DEF CreateRemediation, SprintOK, NewerOK, GateOK, gate, ControlOK, control, FailuresOK
  <1>3. CASE MoveTask(t)
    <2>1. TaskOK'
      BY <1>0, <1>3 DEF MoveTask, TaskOK, Moves
    <2>2. GateOK'
      BY <1>0, <1>3 DEF MoveTask, GateOK
    <2> QED
      BY <1>0, <1>3, <2>1, <2>2, TypePartsPrime
      DEF MoveTask, SprintOK, NewerOK, TicketOK, ControlOK, control, FailuresOK
  <1>4. CASE RemoveTicket(t)
    <2>1. TicketOK'
      BY <1>0, <1>4 DEF RemoveTicket, TicketOK
    <2> QED
      BY <1>0, <1>4, <2>1, TypePartsPrime
      DEF RemoveTicket, SprintOK, NewerOK, TaskOK, GateOK, gate, ControlOK, control, FailuresOK
  <1> QED
    BY <1>1, <1>2, <1>3, <1>4

LEMMA NextType == TypeOK /\ [Next]_vars => TypeOK'
  <1> SUFFICES ASSUME TypeOK, [Next]_vars PROVE TypeOK'
    OBVIOUS
  <1>0. /\ SprintOK /\ NewerOK /\ TicketOK /\ TaskOK /\ GateOK /\ ControlOK /\ FailuresOK
    BY TypeParts
  <1>1. ASSUME ControlOK', UNCHANGED <<board, gate, failures>> PROVE TypeOK'
    BY <1>0, <1>1, TypePartsPrime
    DEF SprintOK, NewerOK, TicketOK, TaskOK, board, GateOK, gate, FailuresOK
  <1>2. CASE UNCHANGED vars
    BY <1>0, <1>1, <1>2 DEF vars, control, ControlOK
  <1>3. CASE Outside
    BY <1>3, CreateSprintType, TaskType DEF Outside
  <1>4. ASSUME NEW r \in Requests, Arrive(r) PROVE TypeOK'
    <2>1. ASSUME NEW s \in Sprints, RunReview(r, s) PROVE TypeOK'
      BY <1>1, <2>1, CheckType
    <2>2. ASSUME NEW s \in Sprints,
                 \/ QueueSprint(r, s) \/ DeleteSprint(r, s) \/ StartSprint(r, s)
                 \/ Complete(r, s) \/ Cancel(r, s)
          PROVE  TypeOK'
      BY <1>1, <2>2, BeginType
    <2> QED
      BY <1>4, <2>1, <2>2, AutoFromBacklogType, AddTicketType, VerdictType DEF Arrive
  <1>5. ASSUME NEW r \in Requests, CheckCompletion(r) \/ Progress(r) \/ RequestFails(r)
        PROVE  TypeOK'
    <2>1. CASE CheckCompletion(r)
      <3>1. PICK s \in Sprints : TRUE
        BY <2>1 DEF CheckCompletion
      <3> QED
        BY <1>1, <2>1, <3>1, CheckType
    <2>2. CASE Progress(r)
      <3>1. CASE \/ TryStart(r) \/ MaybeStart(r) \/ StartRefused(r) \/ PassGate(r)
                 \/ Advance(r) \/ ReviewFails(r)
        BY <1>1, <3>1, DecideType
      <3>2. CASE LockReview(r)
        BY <1>1, <3>2, LockReviewType
      <3> QED
        BY <2>2, <3>1, <3>2, PlanCommitType, CommitType, CommitReviewType DEF Progress
    <2>3. CASE RequestFails(r)
      <3>1. ControlOK' /\ FailuresOK'
        BY <1>0, <2>3, UnlockType, BoardAssumption DEF RequestFails, FailuresOK
      <3> QED
        BY <1>0, <2>3, <3>1, TypePartsPrime
        DEF RequestFails, SprintOK, NewerOK, TicketOK, TaskOK, board, GateOK, gate
    <2> QED
      BY <1>5, <2>1, <2>2, <2>3
  <1> QED
    BY <1>2, <1>3, <1>4, <1>5 DEF Next

\* Rows and requests keep their types, whatever requests interleave.
THEOREM TypeCorrect == Spec => []TypeOK
  BY InitType, NextType, PTL DEF Spec

------------------------------------------------------------------------------
(***************************************************************************)
(* One active sprint                                                       *)
(***************************************************************************)

\* Only the commit of a start makes a sprint active, and the unique index lets
\* it through when no other sprint is.
LEMMA ActiveSprints ==
    ASSUME TypeOK, Next
    PROVE  \/ \A s \in Sprints : sprint'[s] = "active" => sprint[s] = "active"
           \/ \E s \in Sprints : /\ \A u \in Sprints \ {s} : sprint[u] # "active"
                                /\ sprint' = [sprint EXCEPT ![s] = "active"]
  <1> DEFINE Fewer == \A s \in Sprints : sprint'[s] = "active" => sprint[s] = "active"
  <1>0. sprint \in [Sprints -> Planned \cup Live \cup Closed \cup {"none", "deleted"}]
    BY DEF TypeOK
  <1>1. ASSUME NEW r \in Requests, CommitStart(r)
        PROVE  \E s \in Sprints : /\ \A u \in Sprints \ {s} : sprint[u] # "active"
                                 /\ sprint' = [sprint EXCEPT ![s] = "active"]
    <2>1. req[r].s \in Sprints
      BY <1>1 DEF CommitStart, TypeOK
    <2> QED
      BY <1>1, <2>1 DEF CommitStart, OtherActive
  <1>2. CASE Outside
    BY <1>0, <1>2
    DEF Outside, CreateSprint, NewStatus, RemoveTicket, CreateTask, CreateRemediation, MoveTask
  <1>3. ASSUME NEW r \in Requests, Arrive(r) PROVE Fewer
    BY <1>0, <1>3
    DEF Arrive, AutoFromBacklog, NewStatus, AddTicket, QueueSprint, DeleteSprint, StartSprint,
        RunReview, Complete, Cancel, Verdict, board
  <1>4. ASSUME NEW r \in Requests, CheckCompletion(r) \/ RequestFails(r) PROVE Fewer
    BY <1>4 DEF CheckCompletion, RequestFails, board
  <1>5. ASSUME NEW r \in Requests, Progress(r), ~CommitStart(r) PROVE Fewer
    <2>1. CASE CommitQueue(r) \/ CommitDelete(r) \/ CommitComplete(r) \/ CommitCancel(r)
      BY <1>0, <2>1 DEF CommitQueue, CommitDelete, CommitComplete, CommitCancel
    <2>2. CASE \E offline \in SUBSET Roles : CommitReview(r, offline)
      BY <1>0, <2>2 DEF CommitReview
    <2> QED
      BY <1>5, <2>1, <2>2
      DEF Progress, TryStart, MaybeStart, StartRefused, LockReview, ReviewFails, PassGate,
          Advance, board
  <1> QED
    BY <1>1, <1>2, <1>3, <1>4, <1>5 DEF Next

\* However starts interleave, one sprint of the board is active at a time.
THEOREM OneActive == Spec => []OneActiveSprint
  <1>1. Init => OneActiveSprint
    BY DEF Init, OneActiveSprint
  <1>2. TypeOK /\ OneActiveSprint /\ [Next]_vars => OneActiveSprint'
    <2> SUFFICES ASSUME TypeOK, OneActiveSprint, [Next]_vars PROVE OneActiveSprint'
      OBVIOUS
    <2>1. CASE UNCHANGED vars
      BY <2>1 DEF vars, board, OneActiveSprint
    <2>2. CASE \A s \in Sprints : sprint'[s] = "active" => sprint[s] = "active"
      BY <2>2 DEF OneActiveSprint
    <2>3. ASSUME NEW s \in Sprints, \A u \in Sprints \ {s} : sprint[u] # "active",
                 sprint' = [sprint EXCEPT ![s] = "active"]
          PROVE  OneActiveSprint'
      <3>1. \A u \in Sprints \ {s} : sprint'[u] = sprint[u]
        BY <2>3 DEF TypeOK
      <3> QED
        BY <2>3, <3>1 DEF OneActiveSprint
    <2> QED
      BY <2>1, <2>2, <2>3, ActiveSprints
  <1> QED
    BY <1>1, <1>2, TypeCorrect, PTL DEF Spec

------------------------------------------------------------------------------
(***************************************************************************)
(* Tickets                                                                 *)
(***************************************************************************)

\* A step that moves no ticket deletes no sprint.
LEMMA SprintsRemain ==
    ASSUME TypeOK, Next, ticket' = ticket, TicketsHaveSprints
    PROVE  \A s \in Sprints : (Exists(s) /\ TicketsOf(s) # {}) => Exists(s)'
  <1> DEFINE Remain == \A s \in Sprints : (Exists(s) /\ TicketsOf(s) # {}) => Exists(s)'
  <1>0. /\ sprint \in [Sprints -> Planned \cup Live \cup Closed \cup {"none", "deleted"}]
        /\ ticket \in [Tasks -> Sprints \cup {None}]
    BY DEF TypeOK
  <1>1. ASSUME sprint' = sprint PROVE Remain
    BY <1>1 DEF Exists
  <1>2. ASSUME NEW u \in Sprints,
               NEW st \in Planned \cup Live \cup Closed, sprint' = [sprint EXCEPT ![u] = st]
        PROVE  Remain
    BY <1>0, <1>2 DEF Exists
  <1>3. CASE Outside
    <2>1. CASE \E s \in Sprints : CreateSprint(s)
      BY <1>2, <2>1 DEF CreateSprint, NewStatus, Planned
    <2> QED
      BY <1>1, <1>3, <2>1 DEF Outside, RemoveTicket, CreateTask, CreateRemediation, MoveTask
  <1>4. ASSUME NEW r \in Requests, Arrive(r) PROVE Remain
    <2>1. CASE \E s \in Sprints, ts \in SUBSET Tasks, start \in BOOLEAN :
                  AutoFromBacklog(r, s, ts, start)
      BY <1>2, <2>1 DEF AutoFromBacklog, NewStatus, Planned
    <2> QED
      BY <1>1, <1>4, <2>1
      DEF Arrive, AddTicket, QueueSprint, DeleteSprint, StartSprint,
          RunReview, Complete, Cancel, Verdict, board
  <1>5. ASSUME NEW r \in Requests, CheckCompletion(r) \/ RequestFails(r) PROVE Remain
    BY <1>1, <1>5 DEF CheckCompletion, RequestFails, board
  <1>6. ASSUME NEW r \in Requests, Progress(r) PROVE Remain
    <2>1. CASE CommitDelete(r)
      <3>1. CASE sprint' = [sprint EXCEPT ![req[r].s] = "deleted"]
                 /\ ticket' = [t \in Tasks |-> IF ticket[t] = req[r].s THEN None ELSE ticket[t]]
        <4>1. \A t \in Tasks : ticket[t] # req[r].s \/ ticket[t] = None
          BY <1>0, <3>1
        <4>2. req[r].s \in Sprints
          BY <2>1 DEF CommitDelete, TypeOK
        <4>3. TicketsOf(req[r].s) = {}
          BY <4>1, <4>2, NoneIsNoSprint DEF TicketsOf
        <4> QED
          BY <1>0, <3>1, <4>2, <4>3 DEF Exists
      <3> QED
        BY <1>1, <2>1, <3>1 DEF CommitDelete
    <2>2. CASE CommitQueue(r) \/ CommitStart(r) \/ CommitComplete(r) \/ CommitCancel(r)
               \/ (\E offline \in SUBSET Roles : CommitReview(r, offline))
      <3>1. req[r].s \in Sprints
        BY <2>2 DEF CommitQueue, CommitStart, CommitComplete, CommitCancel, CommitReview, TypeOK
      <3> QED
        BY <1>1, <1>2, <2>2, <3>1
        DEF CommitQueue, CommitStart, CommitComplete, CommitCancel, CommitReview,
            Planned, Live, Closed
    <2> QED
      BY <1>1, <1>6, <2>1, <2>2
      DEF Progress, TryStart, MaybeStart, StartRefused, LockReview, ReviewFails, PassGate,
          Advance, board
  <1> QED
    BY <1>3, <1>4, <1>5, <1>6 DEF Next

\* A step that moves tickets takes them to sprints that exist, or away.
LEMMA TicketsMove ==
    ASSUME TypeOK, TicketsHaveSprints, Next, ticket' # ticket
    PROVE  TicketsHaveSprints'
  <1>0. /\ sprint \in [Sprints -> Planned \cup Live \cup Closed \cup {"none", "deleted"}]
        /\ ticket \in [Tasks -> Sprints \cup {None}]
    BY DEF TypeOK
  <1>1. ASSUME NEW r \in Requests, NEW s \in Sprints, NEW ts \in SUBSET Tasks,
               NEW start \in BOOLEAN, AutoFromBacklog(r, s, ts, start)
        PROVE  TicketsHaveSprints'
    BY <1>0, <1>1 DEF AutoFromBacklog, TicketsHaveSprints, Exists, NewStatus, Planned
  <1>2. ASSUME NEW r \in Requests, NEW s \in Sprints, NEW t \in Tasks, AddTicket(r, s, t)
        PROVE  TicketsHaveSprints'
    BY <1>0, <1>2 DEF AddTicket, TicketsHaveSprints, Exists
  <1>3. ASSUME NEW t \in Tasks, RemoveTicket(t) \/ CreateRemediation(t)
        PROVE  TicketsHaveSprints'
    BY <1>0, <1>3 DEF RemoveTicket, CreateRemediation, TicketsHaveSprints, Exists, Live
  <1>4. ASSUME NEW r \in Requests, CommitDelete(r)
        PROVE  TicketsHaveSprints'
    <2>1. req[r].s \in Sprints
      BY <1>4 DEF CommitDelete, TypeOK
    <2>2. /\ sprint' = [sprint EXCEPT ![req[r].s] = "deleted"]
          /\ ticket' = [t \in Tasks |-> IF ticket[t] = req[r].s THEN None ELSE ticket[t]]
      BY <1>4 DEF CommitDelete
    <2>3. SUFFICES ASSUME NEW t \in Tasks, ticket'[t] # None
                   PROVE  Exists(ticket[t])' /\ ticket'[t] = ticket[t]
      BY <1>0, <2>2 DEF TicketsHaveSprints, Exists
    <2>4. ticket[t] # req[r].s /\ ticket'[t] = ticket[t] /\ ticket[t] \in Sprints
      BY <1>0, <2>2, <2>3
    <2>5. sprint'[ticket[t]] = sprint[ticket[t]] /\ ticket[t] # None
      BY <1>0, <2>1, <2>2, <2>4, NoneIsNoSprint
    <2> QED
      BY <2>4, <2>5 DEF TicketsHaveSprints, Exists
  <1>5. CASE Outside
    BY <1>3, <1>5 DEF Outside, CreateSprint, CreateTask, MoveTask
  <1>6. ASSUME NEW r \in Requests, Arrive(r) PROVE TicketsHaveSprints'
    BY <1>1, <1>2, <1>6
    DEF Arrive, QueueSprint, DeleteSprint, StartSprint, RunReview, Complete, Cancel, Verdict, board
  <1>7. ASSUME NEW r \in Requests, CheckCompletion(r) \/ RequestFails(r) PROVE TicketsHaveSprints'
    BY <1>7 DEF CheckCompletion, RequestFails, board
  <1>8. ASSUME NEW r \in Requests, Progress(r) PROVE TicketsHaveSprints'
    BY <1>4, <1>8
    DEF Progress, CommitQueue, TryStart, MaybeStart, CommitStart, StartRefused, LockReview,
        ReviewFails, CommitReview, PassGate, CommitComplete, Advance, CommitCancel, board
  <1> QED
    BY <1>5, <1>6, <1>7, <1>8 DEF Next

\* A ticket's sprint exists, whatever is deleted concurrently.
THEOREM TicketsKept == Spec => []TicketsHaveSprints
  <1>1. Init => TicketsHaveSprints
    BY DEF Init, TicketsHaveSprints
  <1>2. TypeOK /\ TicketsHaveSprints /\ [Next]_vars => TicketsHaveSprints'
    <2> SUFFICES ASSUME TypeOK, TicketsHaveSprints, [Next]_vars PROVE TicketsHaveSprints'
      OBVIOUS
    <2>1. CASE UNCHANGED vars
      BY <2>1 DEF vars, board, TicketsHaveSprints, Exists
    <2>2. CASE Next /\ ticket' = ticket
      <3>1. \A s \in Sprints : (Exists(s) /\ TicketsOf(s) # {}) => Exists(s)'
        BY <2>2, SprintsRemain
      <3> QED
        BY <2>2, <3>1 DEF TicketsHaveSprints, TicketsOf, Exists, TypeOK
    <2> QED
      BY <2>1, <2>2, TicketsMove
  <1> QED
    BY <1>1, <1>2, TypeCorrect, PTL DEF Spec

------------------------------------------------------------------------------
(***************************************************************************)
(* One request at a time                                                   *)
(*                                                                         *)
(* What a request has read is still so when it commits, if no other        *)
(* request is under way; tasks and tickets may change meanwhile, sprints   *)
(* may be created, and the request may fail at any step.                   *)
(***************************************************************************)
Alone == \A r, q \in Requests : r = q

UpToDate(r) ==
    LET s == req[r].s IN
    /\ pc[r] = "queue" => sprint[s] = "draft"
    /\ pc[r] \in {"delete", "start"} => sprint[s] \in Planned
    /\ pc[r] \in {"review", "dispatch"} => sprint[s] \in Live /\ sprint[s] = req[r].was
    /\ (pc[r] = "review" /\ req[r].loaded) \/ pc[r] = "dispatch" => req[r].seen = review[s]
    /\ pc[r] = "complete" => sprint[s] = "active" \/ (sprint[s] = "reviewing" /\ Approved(s))
    /\ pc[r] = "cancel" => sprint[s] \in Planned \cup {"active"}
AllUpToDate == \A r \in Requests : UpToDate(r)

\* Steps outside of requests leave reviews and existing sprints alone.
LEMMA OutsideStays ==
    ASSUME TypeOK, Outside
    PROVE  /\ pc' = pc /\ req' = req /\ review' = review
           /\ \A s \in Sprints : sprint[s] # "none" => sprint'[s] = sprint[s]
  <1>1. SprintOK
    BY TypeParts
  <1>2. CASE \E s \in Sprints : CreateSprint(s)
    BY <1>1, <1>2 DEF CreateSprint, Unused, gate, control, SprintOK
  <1>3. CASE \E t \in Tasks : RemoveTicket(t) \/ CreateTask(t) \/ CreateRemediation(t) \/ MoveTask(t)
    BY <1>3 DEF RemoveTicket, CreateTask, CreateRemediation, MoveTask, gate, control
  <1> QED
    BY <1>2, <1>3 DEF Outside

\* A request's next step, and the sprint it is then about.
LEMMA GotoSets ==
    ASSUME TypeOK, NEW r \in Requests, NEW step, NEW info, Goto(r, step, info)
    PROVE  pc'[r] = step /\ req'[r] = info
  BY DEF Goto, TypeOK

LEMMA IdleUpToDate ==
    ASSUME NEW r \in Requests, pc'[r] \in {"idle", "try_start", "maybe_start", "gate", "advance"}
    PROVE  UpToDate(r)'
  BY DEF UpToDate

LEMMA FinishUpToDate ==
    ASSUME TypeOK, NEW r \in Requests, Finish(r) \/ Unlock(r)
    PROVE  UpToDate(r)'
  <1>1. pc'[r] = "idle"
    BY DEF Finish, Goto, Unlock, TypeOK
  <1> QED
    BY <1>1, IdleUpToDate

\* A request that begins knows what it has just read.
LEMMA ArriveUpToDate ==
    ASSUME TypeOK, NEW r \in Requests, Arrive(r)
    PROVE  UpToDate(r)'
  <1> DEFINE At(s) == [NoRequest EXCEPT !.s = s]
  <1>0. \A s \in Sprints : At(s).s = s
    BY RequestOfSprint
  <1>1. CASE \/ \E s \in Sprints, ts \in SUBSET Tasks, start \in BOOLEAN :
                  AutoFromBacklog(r, s, ts, start)
             \/ \E s \in Sprints, t \in Tasks : AddTicket(r, s, t)
             \/ \E s \in Sprints, x \in Roles, v \in {"approved", "changes_requested"},
                   ids \in SUBSET Tasks : Verdict(r, s, x, v, ids)
    <2>1. pc'[r] \in {"try_start", "maybe_start", "gate"}
      BY <1>1, GotoSets DEF AutoFromBacklog, AddTicket, Verdict
    <2> QED
      BY <2>1, IdleUpToDate
  <1>2. ASSUME NEW s \in Sprints,
               \/ QueueSprint(r, s) \/ DeleteSprint(r, s) \/ StartSprint(r, s)
               \/ Complete(r, s) \/ Cancel(r, s)
        PROVE  UpToDate(r)'
    <2>1. /\ req'[r] = At(s) /\ sprint' = sprint
          /\ \/ pc'[r] = "queue" /\ sprint[s] = "draft"
             \/ pc'[r] \in {"delete", "start"} /\ sprint[s] \in Planned
             \/ pc'[r] = "complete" /\ sprint[s] = "active"
             \/ pc'[r] = "cancel" /\ sprint[s] \in Planned \cup {"active"}
      BY <1>2, GotoSets
      DEF QueueSprint, DeleteSprint, StartSprint, MayStart, Complete, Cancel, board
    <2>2. req'[r].s = s
      BY <2>1, <1>0
    <2> HIDE DEF At
    <2> QED
      BY <2>1, <2>2 DEF UpToDate
  <1>3. ASSUME NEW s \in Sprints, RunReview(r, s) PROVE UpToDate(r)'
    <2>1. /\ pc'[r] = "review" /\ sprint' = sprint
          /\ req'[r].s = s /\ req'[r].was = sprint[s] /\ ~req'[r].loaded
      BY <1>3, GotoSets DEF RunReview, Review, board
    <2> QED
      BY <1>3, <2>1 DEF UpToDate, RunReview
  <1> QED
    BY <1>1, <1>2, <1>3 DEF Arrive

LEMMA ReviewSets ==
    ASSUME TypeOK, NEW r \in Requests, NEW s \in Sprints, NEW loaded \in BOOLEAN,
           Review(r, s, loaded)
    PROVE  /\ pc'[r] = "review" /\ req'[r].s = s /\ req'[r].was = sprint[s]
           /\ req'[r].loaded => req'[r].seen = review[s]
  BY GotoSets DEF Review

LEMMA CheckUpToDate ==
    ASSUME TypeOK, NEW r \in Requests, CheckCompletion(r)
    PROVE  UpToDate(r)'
  <1>1. PICK s \in Sprints : Latest(s) /\ Review(r, s, sprint[s] = "reviewing")
    BY DEF CheckCompletion
  <1>2. (sprint[s] = "reviewing") \in BOOLEAN
    OBVIOUS
  <1>3. /\ pc'[r] = "review" /\ req'[r].s = s /\ req'[r].was = sprint[s]
        /\ req'[r].loaded => req'[r].seen = review[s]
    BY <1>1, <1>2, ReviewSets
  <1>4. sprint' = sprint /\ review' = review
    BY DEF CheckCompletion, board, gate
  <1> QED
    BY <1>1, <1>3, <1>4 DEF UpToDate, Latest

\* A request that goes on knows what it has read again, or has known since.
LEMMA ProgressUpToDate ==
    ASSUME TypeOK, NEW r \in Requests, UpToDate(r), Progress(r)
    PROVE  UpToDate(r)'
  <1> DEFINE At(s) == [NoRequest EXCEPT !.s = s]
  <1>1. ASSUME NEW s \in Sprints, sprint[s] \in Planned, sprint' = sprint,
               pc'[r] = "start", req'[r].s = s
        PROVE  UpToDate(r)'
    BY <1>1 DEF UpToDate
  <1>2. ASSUME NEW s \in Sprints, sprint[s] \in Planned, sprint' = sprint,
               Goto(r, "start", At(s))
        PROVE  UpToDate(r)'
    BY <1>1, <1>2, GotoSets, RequestOfSprint
  <1>3. CASE TryStart(r)
    <2>1. req[r].s \in Sprints
      BY <1>3 DEF TryStart, TypeOK
    <2> QED
      BY <1>1, <1>3, <2>1, GotoSets, FinishUpToDate DEF TryStart, MayStart, board
  <1>4. CASE MaybeStart(r)
    BY <1>2, <1>4, FinishUpToDate DEF MaybeStart, First, board
  <1>5. CASE Advance(r)
    BY <1>2, <1>5, FinishUpToDate DEF Advance, MayStart, board
  <1>6. CASE LockReview(r)
    <2>1. /\ pc'[r] = "dispatch" /\ sprint' = sprint /\ review' = review
          /\ req'[r].s = req[r].s /\ req'[r].was = req[r].was
          /\ req'[r].seen = IF req[r].loaded THEN req[r].seen ELSE review[req[r].s]
      BY <1>6 DEF LockReview, TypeOK, board, gate
    <2> QED
      BY <1>6, <2>1 DEF UpToDate, LockReview
  <1>7. CASE PassGate(r)
    <2>1. CASE Goto(r, "complete", req[r]) /\ sprint[req[r].s] \in Live /\ Approved(req[r].s)
      <3>1. pc'[r] = "complete" /\ req'[r] = req[r] /\ sprint' = sprint /\ review' = review
        BY <1>7, <2>1, GotoSets DEF PassGate, board, gate
      <3> QED
        BY <2>1, <3>1 DEF UpToDate, Live, Approved
    <2> QED
      BY <1>7, <2>1, FinishUpToDate DEF PassGate
  <1>8. CASE CommitComplete(r)
    <2>1. CASE Goto(r, "advance", NoRequest)
      BY <2>1, GotoSets, IdleUpToDate
    <2> QED
      BY <1>8, <2>1, FinishUpToDate DEF CommitComplete
  <1>9. CASE \/ CommitQueue(r) \/ CommitDelete(r) \/ CommitStart(r) \/ StartRefused(r)
             \/ ReviewFails(r) \/ CommitCancel(r)
             \/ \E offline \in SUBSET Roles : CommitReview(r, offline)
    BY <1>9, FinishUpToDate
    DEF CommitQueue, CommitDelete, CommitStart, StartRefused, ReviewFails, CommitCancel,
        CommitReview
  <1> QED
    BY <1>3, <1>4, <1>5, <1>6, <1>7, <1>8, <1>9 DEF Progress

LEMMA UpToDateStep ==
    ASSUME Alone, TypeOK, AllUpToDate, [Next]_vars
    PROVE  AllUpToDate'
  <1>1. CASE UNCHANGED vars
    BY <1>1 DEF vars, board, gate, control, AllUpToDate, UpToDate, Approved
  <1>2. CASE Outside
    <2>1. SUFFICES ASSUME NEW r \in Requests PROVE UpToDate(r)'
      BY DEF AllUpToDate
    <2>2. UpToDate(r) /\ (pc[r] \notin NoSprintYet => req[r].s \in Sprints)
      BY TypeParts DEF AllUpToDate, ControlOK
    <2>3. /\ pc' = pc /\ req' = req /\ review' = review
          /\ \A s \in Sprints : sprint[s] # "none" => sprint'[s] = sprint[s]
      BY <1>2, OutsideStays
    <2> QED
      BY <2>2, <2>3 DEF UpToDate, NoSprintYet, Planned, Live, Approved
  <1>3. ASSUME NEW r \in Requests, UpToDate(r)' PROVE AllUpToDate'
    BY <1>3 DEF Alone, AllUpToDate
  <1>4. ASSUME NEW r \in Requests, Arrive(r) \/ CheckCompletion(r) \/ Progress(r) \/ RequestFails(r)
        PROVE  AllUpToDate'
    <2>1. UpToDate(r)
      BY DEF AllUpToDate
    <2> QED
      BY <1>3, <1>4, <2>1, ArriveUpToDate, CheckUpToDate, ProgressUpToDate, FinishUpToDate
      DEF RequestFails
  <1> QED
    BY <1>1, <1>2, <1>4 DEF Next

LEMMA UpToDateAlways == ASSUME Alone PROVE Spec => []AllUpToDate
  <1>1. Init => AllUpToDate
    BY DEF Init, AllUpToDate, UpToDate
  <1>2. TypeOK /\ AllUpToDate /\ [Next]_vars => AllUpToDate'
    BY UpToDateStep
  <1> QED
    BY <1>1, <1>2, TypeCorrect, PTL DEF Spec

\* What becomes of a sprint in one step.
Moved(s) ==
    \/ sprint'[s] = sprint[s]
    \/ sprint[s] \in {"none"} \cup Planned \cup {"active"}
    \/ sprint[s] = "reviewing" /\ sprint'[s] = "completed" /\ Approved(s)

LEMMA SprintsMove ==
    ASSUME TypeOK, AllUpToDate, [Next]_vars, NEW s \in Sprints
    PROVE  Moved(s)
  <1>0. SprintOK
    BY TypeParts
  <1>1. CASE sprint' = sprint
    BY <1>1 DEF Moved
  <1>2. CASE Outside
    BY <1>0, <1>2, OutsideStays DEF Moved
  <1>3. ASSUME NEW r \in Requests, Arrive(r), sprint' # sprint PROVE Moved(s)
    BY <1>0, <1>3
    DEF Arrive, AutoFromBacklog, Unused, AddTicket, QueueSprint, DeleteSprint, StartSprint,
        RunReview, Complete, Cancel, Verdict, board, Moved, SprintOK
  <1>4. ASSUME NEW r \in Requests, Progress(r), sprint' # sprint PROVE Moved(s)
    <2>1. UpToDate(r) /\ (pc[r] \notin NoSprintYet => req[r].s \in Sprints)
      BY TypeParts DEF AllUpToDate, ControlOK
    <2>2. CASE CommitQueue(r)
      BY <1>0, <1>4, <2>1, <2>2 DEF CommitQueue, UpToDate, Moved, SprintOK, Planned
    <2>3. CASE CommitDelete(r)
      BY <1>0, <1>4, <2>1, <2>3 DEF CommitDelete, UpToDate, Moved, SprintOK
    <2>4. CASE CommitStart(r)
      BY <1>0, <1>4, <2>1, <2>4 DEF CommitStart, UpToDate, Moved, SprintOK
    <2>5. CASE CommitComplete(r)
      BY <1>0, <1>4, <2>1, <2>5 DEF CommitComplete, UpToDate, Moved, SprintOK, NoSprintYet
    <2>6. CASE CommitCancel(r)
      BY <1>0, <1>4, <2>1, <2>6 DEF CommitCancel, UpToDate, Moved, SprintOK
    <2>7. ASSUME NEW offline \in SUBSET Roles, CommitReview(r, offline) PROVE Moved(s)
      BY <1>0, <1>4, <2>1, <2>7 DEF CommitReview, UpToDate, Moved, SprintOK
    <2> QED
      BY <1>4, <2>2, <2>3, <2>4, <2>5, <2>6, <2>7
      DEF Progress, TryStart, MaybeStart, StartRefused, LockReview, ReviewFails, PassGate,
          Advance, board
  <1>5. ASSUME NEW r \in Requests, CheckCompletion(r) \/ RequestFails(r) PROVE sprint' = sprint
    BY <1>5 DEF CheckCompletion, RequestFails, board
  <1> QED
    BY <1>1, <1>2, <1>3, <1>4, <1>5 DEF Next, vars, board

\* One request at a time brings no closed sprint back, even if requests fail.
THEOREM ClosedForGood == ASSUME Alone PROVE Spec => ClosedStaysClosed
  <1>1. TypeOK /\ AllUpToDate /\ [Next]_vars
        => [\A s \in Sprints : sprint[s] \in Closed => sprint'[s] \notin Planned \cup Live]_vars
    <2>1. SUFFICES ASSUME TypeOK, AllUpToDate, [Next]_vars, NEW s \in Sprints,
                          sprint[s] \in Closed
                   PROVE  sprint'[s] \notin Planned \cup Live
      OBVIOUS
    <2> QED
      BY <2>1, SprintsMove DEF Moved, Closed, Planned, Live
  <1> QED
    BY <1>1, TypeCorrect, UpToDateAlways, PTL DEF Spec, ClosedStaysClosed

\* One request at a time completes a sprint in review only if all approved.
THEOREM GateHolds == ASSUME Alone PROVE Spec => GateClosesApproved
  <1>1. TypeOK /\ AllUpToDate /\ [Next]_vars
        => [\A s \in Sprints : (sprint[s] = "reviewing" /\ sprint'[s] = "completed")
                                  => Approved(s)]_vars
    BY SprintsMove DEF Moved, Planned
  <1> QED
    BY <1>1, TypeCorrect, UpToDateAlways, PTL DEF Spec, GateClosesApproved

\* One request at a time asks no reviewer again who has approved.
THEOREM ApprovalsLast == ASSUME Alone PROVE Spec => ApprovalStands
  <1>1. TypeOK /\ AllUpToDate /\ [Next]_vars
        => [\A s \in Sprints, x \in Roles : review[s][x] = "approved"
              => review'[s][x] \in {"approved", "changes_requested"}]_vars
    <2>1. SUFFICES ASSUME TypeOK, AllUpToDate, [Next]_vars, NEW s \in Sprints, NEW x \in Roles,
                          review[s][x] = "approved"
                   PROVE  review'[s][x] \in {"approved", "changes_requested"}
      OBVIOUS
    <2>0. review \in [Sprints -> [Roles -> ReviewStatus]]
      BY <2>1 DEF TypeOK
    <2>2. CASE review' = review
      BY <2>1, <2>2
    <2>3. ASSUME NEW r \in Requests, NEW u \in Sprints, NEW y \in Roles,
                 NEW v \in {"approved", "changes_requested"}, NEW ids \in SUBSET Tasks,
                 Verdict(r, u, y, v, ids)
          PROVE  review'[s][x] \in {"approved", "changes_requested"}
      BY <2>0, <2>1, <2>3 DEF Verdict
    <2>4. ASSUME NEW r \in Requests, NEW offline \in SUBSET Roles, CommitReview(r, offline)
          PROVE  review'[s][x] \in {"approved", "changes_requested"}
      <3>1. req[r].seen = review[req[r].s] /\ req[r].s \in Sprints
        BY <2>1, <2>4 DEF CommitReview, AllUpToDate, UpToDate, TypeOK
      <3>2. \A y \in offline : req[r].seen[y] # "approved"
        BY <2>4 DEF CommitReview
      <3>3. CASE s = req[r].s
        <4>1. review[req[r].s][x] = "approved" /\ x \notin offline
          BY <2>1, <3>1, <3>2, <3>3
        <4>2. review'[s][x] = review[s][x]
          BY <2>0, <2>4, <3>1, <3>3, <4>1 DEF CommitReview
        <4> QED
          BY <2>1, <4>2
      <3>4. CASE s # req[r].s
        BY <2>0, <2>1, <2>4, <3>4 DEF CommitReview
      <3> QED
        BY <3>3, <3>4
    <2>5. CASE Outside
      BY <2>1, <2>2, <2>5, OutsideStays
    <2>6. CASE UNCHANGED vars
      BY <2>2, <2>6 DEF vars, gate
    <2>7. ASSUME NEW r \in Requests, Arrive(r)
          PROVE  review'[s][x] \in {"approved", "changes_requested"}
      BY <2>2, <2>3, <2>7
      DEF Arrive, AutoFromBacklog, AddTicket, QueueSprint, DeleteSprint, StartSprint, RunReview,
          Complete, Cancel, gate
    <2>8. ASSUME NEW r \in Requests, CheckCompletion(r) \/ Progress(r) \/ RequestFails(r)
          PROVE  review'[s][x] \in {"approved", "changes_requested"}
      BY <2>2, <2>4, <2>8
      DEF CheckCompletion, RequestFails, Progress, CommitQueue, CommitDelete, TryStart, MaybeStart,
          CommitStart, StartRefused, LockReview, ReviewFails, PassGate, CommitComplete, Advance,
          CommitCancel, gate
    <2> QED
      BY <2>1, <2>5, <2>6, <2>7, <2>8 DEF Next
  <1> QED
    BY <1>1, TypeCorrect, UpToDateAlways, PTL DEF Spec, ApprovalStands
==============================================================================
