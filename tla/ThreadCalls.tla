------------------------------ MODULE ThreadCalls ------------------------------
(***************************************************************************)
(* What the two parts of the channels page share: the threads, and the     *)
(* calls in flight.  A call waits for the server, has then arrived at an   *)
(* answer, and is gone when the page has handled it.                       *)
(***************************************************************************)
CONSTANTS
    Threads,
    None,
    Failed        \* the answer of a refused call, or of one whose answer is lost

Waiting(calls) == {r \in calls : r.answer = None}
Arrived(calls) == {r \in calls : r.answer # None}

With(calls, r, a) == (calls \ {r}) \cup {[r EXCEPT !.answer = a]}
================================================================================
