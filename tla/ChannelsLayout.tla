--------------------------- MODULE ChannelsLayout ---------------------------
(***************************************************************************)
(* The channels page of one user: the threads listed for the selected      *)
(* channel and the thread that is open (frontend components/channels/      *)
(* ChannelsLayout.tsx), with the calls that resolve, pin or turn into a    *)
(* task the open thread (MessageThread.tsx).  Every call is asynchronous,  *)
(* none is cancelled, and no answer is checked against what is selected    *)
(* when it arrives.  The messages and the composer of the open thread are  *)
(* MessageThread's.                                                        *)
(*                                                                         *)
(* A call goes through three steps: the page issues it, the server         *)
(* (backend api/threads.py) commits or refuses it, the answer arrives or   *)
(* is lost.  The flags isUpdatingThread, isCreatingTask and isSubmitting   *)
(* are TRUE exactly while such a call of the mounted component is in       *)
(* flight: they are not variables.  Left out: the loading flags, the order *)
(* of the list and the mobile panel, which are display only; and the       *)
(* sidebar: another board, new, deleted and direct channels.               *)
(***************************************************************************)
EXTENDS Naturals, FiniteSets, Sequences, Lists, ThreadCalls

CONSTANTS
    Channels,
    Home,         \* the channel each thread belongs to
    Changes,      \* what the panel's buttons change
    MaxInFlight,  \* bound: calls in flight
    MaxOthers,    \* bound: threads resolved by the completion of their task
    MaxFailures   \* bound: calls refused or answers lost

ASSUME ChannelsLayoutAssumption ==
    /\ IsFiniteSet(Threads)
    /\ Home \in [Threads -> Channels]
    /\ Changes \subseteq {"is_resolved", "is_pinned", "task"}
    /\ None \notin Channels /\ None # Failed
    /\ {MaxInFlight, MaxOthers, MaxFailures} \subseteq Nat

VARIABLES
    row,        \* the threads table: None for a thread not created yet
    channel,    \* selectedChannel
    list,       \* threads: the rows listed for the channel
    open,       \* selectedThread, and the panel's currentThread
    loads,      \* getChannelThreads in flight
    creates,    \* createThread in flight
    updates,    \* updateThread and createTaskFromThread in flight
    others, failures,
    crossed     \* auxiliary: the list or the panel holds an answer to a call
                \* that overlapped another one

layout == <<channel, list, open>>
calls == <<loads, creates, updates>>
vars == <<row, layout, calls, others, failures, crossed>>

\* A thread as the API returns it; task stands for task_id.
Row == [id: Threads, is_resolved: BOOLEAN, is_pinned: BOOLEAN, task: BOOLEAN]
NewRow(t) == [id |-> t, is_resolved |-> FALSE, is_pinned |-> FALSE, task |-> FALSE]

ASSUME NoneIsNoRow == None \notin Row

IsOpen(t) == open # None /\ open.id = t

\* A call is late when another was in flight at the same time.
Quiet == loads = {} /\ creates = {} /\ updates = {}
Late(S) == {[r EXCEPT !.late = TRUE] : r \in S}

\* Bound: calls in flight.
MayCall == Cardinality(loads) + Cardinality(creates) + Cardinality(updates) < MaxInFlight

\* Fault: the next panel waits for the calls of the one before.
Unmounted_StaysLive(S) == S

\* setSelectedThread(null): what the panel asked for still reaches the server.
Unmounted(S) == {[r EXCEPT !.live = FALSE] : r \in S}

---------------------------------------------------------------------------
Init ==
    /\ row \in [Threads -> UNION {{None, NewRow(t)} : t \in Threads}]
    /\ \A t \in Threads : row[t] \in {None, NewRow(t)}
    /\ channel = None /\ list = <<>> /\ open = None
    /\ loads = {} /\ creates = {} /\ updates = {}
    /\ others = 0 /\ failures = 0
    /\ crossed = FALSE

\* Fault: the old list stays until the answer.
LoadThreads_KeepsList(c) ==
    /\ MayCall
    /\ list' = list
    /\ open' = None
    /\ loads' = Late(loads) \cup {[channel |-> c, late |-> ~Quiet, answer |-> None]}
    /\ creates' = Late(creates)
    /\ updates' = Unmounted(Late(updates))

\* loadThreads, up to its await.
LoadThreads(c) ==
    /\ MayCall
    /\ list' = <<>>
    /\ open' = None
    /\ loads' = Late(loads) \cup {[channel |-> c, late |-> ~Quiet, answer |-> None]}
    /\ creates' = Late(creates)
    /\ updates' = Unmounted(Late(updates))

\* handleSelectChannel and the selection of the first channel.  The effect on
\* selectedChannel does not run when the same object is selected again.
SelectChannel(c) ==
    /\ channel' = c
    /\ \/ LoadThreads(c)
       \/ /\ c = channel
          /\ open' = None
          /\ updates' = Unmounted(updates)
          /\ UNCHANGED <<list, loads, creates>>
    /\ UNCHANGED <<row, others, failures, crossed>>

\* handleChannelUpdated: the selected channel becomes another object.
ChannelUpdated ==
    /\ channel # None
    /\ LoadThreads(channel)
    /\ UNCHANGED <<row, channel, others, failures, crossed>>

\* handleSelectThread, on a listed thread.
SelectThread(i) ==
    /\ open' = list[i]
    /\ UNCHANGED <<row, channel, list, calls, others, failures, crossed>>

\* The panel's onClose.
CloseThread ==
    /\ open # None
    /\ open' = None
    /\ updates' = Unmounted(updates)
    /\ UNCHANGED <<row, channel, list, loads, creates, others, failures, crossed>>

\* handleCreateThread, up to its await.  Bound: a thread is left to create.
CreateThread ==
    /\ channel # None /\ creates = {} /\ MayCall
    /\ \E t \in Threads : row[t] = None /\ Home[t] = channel
    /\ creates' = {[channel |-> channel, late |-> ~Quiet, answer |-> None]}
    /\ loads' = Late(loads)
    /\ updates' = Late(updates)
    /\ UNCHANGED <<row, layout, others, failures, crossed>>

\* handleToggleResolved, handleTogglePinned and handleCreateTask, up to their
\* await: the value sent is the opposite of what the panel shows.
Update(change) ==
    /\ open # None /\ MayCall
    /\ ~\E r \in updates : r.live /\ (r.change = "task" <=> change = "task")
    /\ change = "task" => ~open.task
    /\ updates' = Late(updates) \cup
           {[thread |-> open.id, change |-> change, value |-> ~open[change],
             live |-> TRUE, late |-> ~Quiet, answer |-> None]}
    /\ loads' = Late(loads)
    /\ creates' = Late(creates)
    /\ UNCHANGED <<row, layout, others, failures, crossed>>

---------------------------------------------------------------------------
\* The server.

Fails == failures < MaxFailures /\ failures' = failures + 1

\* list_channel_threads: only unresolved threads unless the query says
\* resolved=true, and the page never does.  They are ordered by pin and last
\* activity: any order here.
Listed(c) == {row[t] : t \in {u \in Threads :
                 row[u] # None /\ Home[u] = c /\ ~row[u].is_resolved}}

ServeLoad(r) ==
    /\ \/ \E rows \in Orders(Listed(r.channel)) : loads' = With(loads, r, rows)
          /\ UNCHANGED failures
       \/ loads' = With(loads, r, Failed) /\ Fails
    /\ UNCHANGED <<row, layout, creates, updates, others, crossed>>

\* create_channel_thread, or its refusal.
ServeCreate(r) ==
    /\ \/ \E t \in Threads :
             /\ row[t] = None /\ Home[t] = r.channel
             /\ row' = [row EXCEPT ![t] = NewRow(t)]
             /\ \/ creates' = With(creates, r, NewRow(t)) /\ UNCHANGED failures
                \/ creates' = With(creates, r, Failed) /\ Fails
       \/ creates' = With(creates, r, Failed) /\ Fails /\ UNCHANGED row
    /\ UNCHANGED <<layout, loads, updates, others, crossed>>

\* update_thread writes what it is sent; create_task_from_thread re-opens.
Changed(old, r) ==
    IF r.change = "task" THEN [old EXCEPT !.task = TRUE, !.is_resolved = FALSE]
                         ELSE [old EXCEPT ![r.change] = r.value]

\* A thread with a task is refused another (409).
ServeUpdate(r) ==
    LET old == row[r.thread]
        new == Changed(old, r)
    IN  /\ \/ /\ r.change = "task" => ~old.task
              /\ row' = [row EXCEPT ![r.thread] = new]
              /\ \/ updates' = With(updates, r, new) /\ UNCHANGED failures
                 \/ updates' = With(updates, r, Failed) /\ Fails
           \/ /\ r.change = "task" /\ old.task
              /\ updates' = With(updates, r, Failed)
              /\ UNCHANGED <<row, failures>>
           \/ updates' = With(updates, r, Failed) /\ Fails /\ UNCHANGED row
        /\ UNCHANGED <<layout, loads, creates, others, crossed>>

\* auto_resolve_thread_for_completed_task.
TaskCompleted(t) ==
    /\ row[t] # None /\ row[t].task /\ ~row[t].is_resolved
    /\ others < MaxOthers /\ others' = others + 1
    /\ row' = [row EXCEPT ![t].is_resolved = TRUE]
    /\ UNCHANGED <<layout, calls, failures, crossed>>

---------------------------------------------------------------------------
\* Answers.  Each handler runs whatever has been selected since its call.

\* The second half of loadThreads.
AnswerLoad(r) ==
    /\ loads' = loads \ {r}
    /\ list' = IF r.answer = Failed THEN list ELSE r.answer
    /\ crossed' = (r.late /\ (crossed \/ r.answer # Failed))
    /\ UNCHANGED <<row, channel, open, creates, updates, others, failures>>

\* The second half of handleCreateThread.
AnswerCreate(r) ==
    /\ creates' = creates \ {r}
    /\ IF r.answer = Failed
       THEN UNCHANGED <<list, open, crossed>>
       ELSE /\ list' = <<r.answer>> \o list
            /\ open' = r.answer
            /\ crossed' = (crossed \/ r.late)
    /\ UNCHANGED <<row, channel, loads, updates, others, failures>>

Replaced(rows, new) == [i \in DOMAIN rows |-> IF rows[i].id = new.id THEN new ELSE rows[i]]

\* The second half of the updates, with handleThreadUpdated, which opens the
\* thread again if the user has left it.
AnswerUpdate(r) ==
    /\ updates' = updates \ {r}
    /\ IF r.answer = Failed
       THEN UNCHANGED <<list, open, crossed>>
       ELSE /\ list' = Replaced(list, r.answer)
            /\ open' = r.answer
            /\ crossed' = (crossed \/ r.late)
    /\ UNCHANGED <<row, channel, loads, creates, others, failures>>

---------------------------------------------------------------------------
ServeLoads == \E r \in Waiting(loads) : ServeLoad(r)
ServeCreates == \E r \in Waiting(creates) : ServeCreate(r)
ServeUpdates == \E r \in Waiting(updates) : ServeUpdate(r)
AnswerLoads == \E r \in Arrived(loads) : AnswerLoad(r)
AnswerCreates == \E r \in Arrived(creates) : AnswerCreate(r)
AnswerUpdates == \E r \in Arrived(updates) : AnswerUpdate(r)

Next ==
    \/ \E c \in Channels : SelectChannel(c)
    \/ ChannelUpdated
    \/ \E i \in DOMAIN list : SelectThread(i)
    \/ CloseThread
    \/ CreateThread
    \/ \E change \in Changes : Update(change)
    \/ ServeLoads \/ ServeCreates \/ ServeUpdates
    \/ \E t \in Threads : TaskCompleted(t)
    \/ AnswerLoads \/ AnswerCreates \/ AnswerUpdates

Spec == Init /\ [][Next]_vars

---------------------------------------------------------------------------
\* Type invariant.
TypeOK ==
    /\ row \in [Threads -> Row \cup {None}]
    /\ \A t \in Threads : row[t] # None => row[t].id = t
    /\ channel \in Channels \cup {None}
    /\ list \in Seq(Row)
    /\ open \in Row \cup {None}
    /\ \A r \in loads : r.channel \in Channels /\ r.late \in BOOLEAN
    /\ \A r \in creates : r.channel \in Channels /\ r.late \in BOOLEAN
    /\ \A r \in updates : row[r.thread] # None /\ r.change \in Changes
    /\ open = None => \A r \in updates : ~r.live
    /\ others \in 0..MaxOthers /\ failures \in 0..MaxFailures
    /\ crossed \in BOOLEAN

\* As long as calls do not overlap, the page is coherent: every thread listed
\* is of the selected channel and listed once, the open one is of that channel,
\* and the panel and the list show the same state of it.
PageIsCoherent ==
    ~crossed =>
        /\ \A i \in DOMAIN list :
              /\ Home[list[i].id] = channel
              /\ IsOpen(list[i].id) => list[i] = open
        /\ \A i, j \in DOMAIN list : list[i].id = list[j].id => i = j
        /\ open # None => Home[open.id] = channel
==============================================================================
