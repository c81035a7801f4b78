--------------------------- MODULE MessageThread ---------------------------
(***************************************************************************)
(* The panel of the open thread: its messages and its composer (frontend   *)
(* components/channels/MessageThread.tsx).  The panel polls for messages,  *)
(* appends the message a send has stored, and puts the text of a failed    *)
(* send back.  It is one component for whatever thread is open: moving     *)
(* from one thread to the next keeps its messages, its composer and its    *)
(* calls; closing it drops them.  No answer is checked against the thread  *)
(* that is open when it arrives.                                           *)
(*                                                                         *)
(* A call goes through three steps: the panel issues it, the server        *)
(* (backend api/thread_messages.py) commits or refuses it, the answer      *)
(* arrives or is lost.  isSending is TRUE exactly while a send of the      *)
(* mounted panel is in flight, and threadIdRef is always the open thread:  *)
(* neither is a variable.  Which thread is open is for ChannelsLayout to   *)
(* say, and arbitrary here.  Display only, and left out: the loading and   *)
(* error flags, scrolling, mention suggestions.  The names differ from     *)
(* those of ChannelsLayout, so that one module can extend both.            *)
(***************************************************************************)
EXTENDS Naturals, FiniteSets, Sequences, FiniteSetsExt, ThreadCalls

CONSTANTS
    Other,        \* a message that is not from this composer
    Limit,        \* the page asks for the first 100 messages
    MaxFetches,   \* bound: loads of messages in flight
    MaxTexts,     \* bound: texts the user types
    MaxPosts,     \* bound: messages by agents, other users and the system
    MaxFaults     \* bound: calls refused or answers lost

ASSUME MessageThreadAssumption ==
    /\ {None, Failed, Other} \cap Nat = {}
    /\ None \notin Threads /\ None # Failed
    /\ {None, Failed} \cap [thread : Threads, n : Nat] = {}
    /\ {Limit, MaxFetches, MaxTexts, MaxPosts, MaxFaults} \subseteq Nat

VARIABLES
    log,        \* the messages of each thread at the server, oldest first
    mounted,    \* the thread the panel is mounted for
    shown,      \* messages: what the panel shows
    composer,   \* composerText
    fetches,    \* getThreadMessages in flight
    sends,      \* sendMessage in flight; live while their panel is mounted
    posts, faults,
    \* Auxiliary: they record what happened, nothing reads them but properties.
    typed,      \* how many texts have been typed so far
    abandoned,  \* texts lost because the user closed the panel
    unheard     \* texts that were stored although their answer was lost

panel == <<shown, composer>>
history == <<typed, abandoned, unheard>>
panelVars == <<log, mounted, panel, fetches, sends, posts, faults, history>>

\* Texts are numbered in the order in which they are typed.
Texts == 1..typed

\* The messages of t are told apart by their position.
Message(t, n) == [thread |-> t, n |-> n]
Messages(t) == [n \in DOMAIN log[t] |-> Message(t, n)]

Fetch(t) == [thread |-> t, answer |-> None]

Sending == \E r \in sends : r.live

---------------------------------------------------------------------------
PanelInit ==
    /\ log \in [Threads -> {<<Other>>}]
    /\ mounted = None
    /\ shown = <<>> /\ composer = None
    /\ fetches = {} /\ sends = {}
    /\ posts = 0 /\ faults = 0
    /\ typed = 0 /\ abandoned = {} /\ unheard = {}

\* The effect on thread.id.  Bound: loads in flight.
Open(t) ==
    /\ t # mounted /\ Cardinality(fetches) < MaxFetches
    /\ mounted' = t
    /\ fetches' = fetches \cup {Fetch(t)}
    /\ UNCHANGED <<log, panel, sends, posts, faults, history>>

\* Fault: the loads of an unmounted panel still write to the next one.
Close_KeepsFetches ==
    /\ mounted # None
    /\ mounted' = None
    /\ shown' = <<>> /\ composer' = None
    /\ abandoned' = abandoned \cup ({composer} \ {None})
    /\ sends' = {[r EXCEPT !.live = FALSE] : r \in sends}
    /\ UNCHANGED <<log, fetches, posts, faults, typed, unheard>>

\* The panel is unmounted: its calls still reach the server, but what they
\* would write is gone; of the loads nothing is left.
Close ==
    /\ mounted # None
    /\ mounted' = None
    /\ shown' = <<>> /\ composer' = None
    /\ abandoned' = abandoned \cup ({composer} \ {None})
    /\ fetches' = {}
    /\ sends' = {[r EXCEPT !.live = FALSE] : r \in sends}
    /\ UNCHANGED <<log, posts, faults, typed, unheard>>

\* Fault: the timer loads messages only as long as there are none.
Poll_OnlyWhenEmpty ==
    /\ mounted # None /\ shown = <<>> /\ Cardinality(fetches) < MaxFetches
    /\ fetches' = fetches \cup {Fetch(mounted)}
    /\ UNCHANGED <<log, mounted, panel, sends, posts, faults, history>>

\* The timer of ten seconds; handleCreateTask loads the messages, too.  A load
\* equal to one that is under way adds nothing.
Poll ==
    /\ mounted # None /\ Cardinality(fetches) < MaxFetches
    /\ fetches' = fetches \cup {Fetch(mounted)}
    /\ UNCHANGED <<log, mounted, panel, sends, posts, faults, history>>

\* Fault: the composer stays enabled while a message is being sent.
Type_WhileSending ==
    /\ mounted # None /\ composer = None /\ typed < MaxTexts
    /\ typed' = typed + 1
    /\ composer' = typed'
    /\ UNCHANGED <<log, mounted, shown, fetches, sends, posts, faults, abandoned, unheard>>

\* handleComposerChange; the composer is disabled while a message is being sent.
Type ==
    /\ mounted # None /\ composer = None /\ ~Sending /\ typed < MaxTexts
    /\ typed' = typed + 1
    /\ composer' = typed'
    /\ UNCHANGED <<log, mounted, shown, fetches, sends, posts, faults, abandoned, unheard>>

\* handleSend, up to its await.
Send ==
    /\ mounted # None /\ composer # None /\ ~Sending
    /\ composer' = None
    /\ sends' = sends \cup {[thread |-> mounted, text |-> composer, live |-> TRUE,
                             answer |-> None]}
    /\ UNCHANGED <<log, mounted, shown, fetches, posts, faults, history>>

---------------------------------------------------------------------------
\* The server.

\* list_thread_messages: the oldest ones, up to the limit.
FirstPage(t) == SubSeq(Messages(t), 1, Min({Limit, Len(log[t])}))

ServeFetch(r) ==
    /\ \/ fetches' = With(fetches, r, FirstPage(r.thread)) /\ UNCHANGED faults
       \/ /\ faults < MaxFaults /\ faults' = faults + 1
          /\ fetches' = With(fetches, r, Failed)
    /\ UNCHANGED <<log, mounted, panel, sends, posts, history>>

\* create_thread_message: the message is committed before agents are notified
\* and the answer leaves; or it is refused (archived channel, no connection).
ServeSend(r) ==
    /\ \/ /\ log' = [log EXCEPT ![r.thread] = Append(@, r.text)]
          /\ \/ /\ sends' = With(sends, r, Message(r.thread, Len(log'[r.thread])))
                /\ UNCHANGED <<faults, unheard>>
             \/ /\ faults < MaxFaults /\ faults' = faults + 1
                /\ sends' = With(sends, r, Failed)
                /\ unheard' = unheard \cup {r.text}
       \/ /\ faults < MaxFaults /\ faults' = faults + 1
          /\ sends' = With(sends, r, Failed)
          /\ UNCHANGED <<log, unheard>>
    /\ UNCHANGED <<mounted, panel, fetches, posts, typed, abandoned>>

\* Agents, other users, other pages, the system.
OtherMessage(t) ==
    /\ posts < MaxPosts
    /\ posts' = posts + 1
    /\ log' = [log EXCEPT ![t] = Append(@, Other)]
    /\ UNCHANGED <<mounted, panel, fetches, sends, faults, history>>

---------------------------------------------------------------------------
\* Answers, whichever thread is open by then.

\* The second half of loadMessages.
AnswerFetch(r) ==
    /\ fetches' = fetches \ {r}
    /\ shown' = IF r.answer = Failed THEN shown ELSE r.answer
    /\ UNCHANGED <<log, mounted, composer, sends, posts, faults, history>>

\* The second half of handleSend: the stored message is appended to what is
\* shown, the text of a failed one goes back into the composer.
AnswerSend(r) ==
    /\ sends' = sends \ {r}
    /\ shown' = IF r.live /\ r.answer # Failed THEN Append(shown, r.answer) ELSE shown
    /\ composer' = IF r.live /\ r.answer = Failed THEN r.text ELSE composer
    /\ abandoned' = IF ~r.live /\ r.answer = Failed THEN abandoned \cup {r.text} ELSE abandoned
    /\ UNCHANGED <<log, mounted, fetches, posts, faults, typed, unheard>>

---------------------------------------------------------------------------
ServeFetches(t) == \E r \in Waiting(fetches) : r.thread = t /\ ServeFetch(r)
AnswerFetches(t) == \E r \in Arrived(fetches) : r.thread = t /\ AnswerFetch(r)

ServeSends == \E r \in Waiting(sends) : ServeSend(r)
AnswerSends == \E r \in Arrived(sends) : AnswerSend(r)

PanelNext ==
    \/ \E t \in Threads : Open(t) \/ OtherMessage(t) \/ ServeFetches(t) \/ AnswerFetches(t)
    \/ Close
    \/ Poll
    \/ Type
    \/ Send
    \/ ServeSends
    \/ AnswerSends

PanelSpec == PanelInit /\ [][PanelNext]_panelVars

\* The timer of a mounted panel fires, and every call is answered in the end,
\* if only by an error.
PanelFairness ==
    /\ WF_panelVars(Poll)
    /\ \A t \in Threads : WF_panelVars(ServeFetches(t)) /\ WF_panelVars(AnswerFetches(t))
    /\ WF_panelVars(ServeSends) /\ WF_panelVars(AnswerSends)

FairPanelSpec == PanelSpec /\ PanelFairness

---------------------------------------------------------------------------
\* Type invariant.
PanelTypeOK ==
    /\ log \in [Threads -> Seq(Texts \cup {Other})]
    /\ mounted \in Threads \cup {None}
    /\ \A i \in DOMAIN shown : shown[i].n \in DOMAIN log[shown[i].thread]
    /\ composer \in Texts \cup {None}
    /\ mounted = None => shown = <<>> /\ composer = None /\ fetches = {} /\ ~Sending
    /\ \A r \in fetches : r.thread \in Threads
    /\ \A r \in sends : r.thread \in Threads /\ r.text \in Texts /\ r.live \in BOOLEAN
    /\ posts \in 0..MaxPosts /\ faults \in 0..MaxFaults
    /\ typed \in 0..MaxTexts /\ abandoned \subseteq Texts /\ unheard \subseteq Texts

\* Where a text is: among the messages of a thread, on its way (or its failure
\* on its way back), in the composer, or given up by closing the panel on it.
Posted(t, x) == {n \in DOMAIN log[t] : log[t][n] = x}
Places(x) ==
    (UNION {{<<"posted", t, n>> : n \in Posted(t, x)} : t \in Threads})
    \cup {<<"call", r>> : r \in {r \in sends : r.text = x /\ r.answer \in {None, Failed}}}
    \cup {<<"composer", y>> : y \in {composer} \cap {x}}
    \cup {<<"abandoned", y>> : y \in abandoned \cap {x}}

\* A text the user has typed is never lost and never doubled: it is in one
\* place.  Only a text that was stored and not acknowledged, and is therefore
\* put back, may be in two.
TextInOnePlace ==
    \A x \in Texts :
        LET P == Places(x)
        IN  \E p \in P : x \notin unheard => P = {p}

\* Whatever answers were late or overtaken, a thread that stays open ends up
\* showing its messages, each once, if they are no more than the page asks for.
PanelConverges ==
    \A t \in Threads :
        <>[](mounted = t) => <>[](Len(log[t]) <= Limit => shown = Messages(t))
====
