----------------------------- MODULE WindowsClient -----------------------------
(***************************************************************************)
(* The calls of WindowsClient (client/windows.py) and the CancelThread     *)
(* each has.  The native call blocks; a second thread waits for the event  *)
(* of the caller and cancels the native call by its GUID.  When the native *)
(* call returns, complete() ends the thread through the same event.        *)
(***************************************************************************)
CONSTANTS
  Calls,     \* calls made, each by a thread of the program
  Events,    \* events the program passes, possibly to several calls
  NoEvent

WindowsAssumption == NoEvent \notin Events

VARIABLES
  call,        \* where a call is
  passed,      \* the event it was given
  waiter,      \* its CancelThread
  completed,   \* the calls whose thread has _completed
  eventsSet,   \* the events that are set
  requested,   \* history: the events set by the program
  cancelled    \* the calls whose GUID was cancelled

vars == <<call, passed, waiter, completed, eventsSet, requested, cancelled>>

Init ==
  /\ call = [c \in Calls |-> "none"]
  /\ passed = [c \in Calls |-> NoEvent]
  /\ waiter = [c \in Calls |-> "none"]
  /\ completed = {} /\ eventsSet = {} /\ requested = {} /\ cancelled = {}

At(c, from, to) == call[c] = from /\ call' = [call EXCEPT ![c] = to]

Start(c, e) ==
  /\ At(c, "none", "native")
  /\ passed' = [passed EXCEPT ![c] = e]
  /\ waiter' = [waiter EXCEPT ![c] = IF e = NoEvent THEN "none" ELSE "waits"]
  /\ UNCHANGED <<completed, eventsSet, requested, cancelled>>

\* the native call, cancelled or not, is faster than the cancellation
NativeReturns(c) ==
  /\ At(c, "native", IF passed[c] = NoEvent THEN "returned" ELSE "complete")
  /\ UNCHANGED <<passed, waiter, completed, eventsSet, requested, cancelled>>

\* an OSError, of a cancelled call as well: complete() is not reached and
\* the thread goes on waiting
NativeFails(c) ==
  /\ At(c, "native", "raised")
  /\ UNCHANGED <<passed, waiter, completed, eventsSet, requested, cancelled>>

\* complete(): _completed, then event.set(), then join()
Complete(c) ==
  /\ At(c, "complete", "set")
  /\ completed' = completed \cup {c}
  /\ UNCHANGED <<passed, waiter, eventsSet, requested, cancelled>>

SetEvent(c) ==
  /\ At(c, "set", "join")
  /\ eventsSet' = eventsSet \cup {passed[c]}
  /\ UNCHANGED <<passed, waiter, completed, requested, cancelled>>

DoNotJoin(c) ==
  /\ At(c, "join", "returned")
  /\ UNCHANGED <<passed, waiter, completed, eventsSet, requested, cancelled>>

Join(c) ==
  /\ At(c, "join", "returned")
  /\ waiter[c] = "ended"
  /\ UNCHANGED <<passed, waiter, completed, eventsSet, requested, cancelled>>

\* CancelThread.run
Wake(c) ==
  /\ waiter[c] = "waits"
  /\ passed[c] \in eventsSet
  /\ waiter' = [waiter EXCEPT ![c] = "awake"]
  /\ UNCHANGED <<call, passed, completed, eventsSet, requested, cancelled>>

CancelUnlessCompleted(c) ==
  /\ waiter[c] = "awake"
  /\ waiter' = [waiter EXCEPT ![c] = "ended"]
  /\ cancelled' = IF c \in completed THEN cancelled ELSE cancelled \cup {c}
  /\ UNCHANGED <<call, passed, completed, eventsSet, requested>>

\* the program asks to abort
Request(e) ==
  /\ e \notin requested
  /\ eventsSet' = eventsSet \cup {e}
  /\ requested' = requested \cup {e}
  /\ UNCHANGED <<call, passed, waiter, completed, cancelled>>

CallStep(c) == Complete(c) \/ SetEvent(c) \/ Join(c)
ThreadStep(c) == Wake(c) \/ CancelUnlessCompleted(c)

Next ==
  \/ \E c \in Calls :
       \/ \E e \in Events \cup {NoEvent} : Start(c, e)
       \/ NativeReturns(c) \/ NativeFails(c)
       \/ CallStep(c)
       \/ ThreadStep(c)
  \/ \E e \in Events : Request(e)

\* threads are scheduled; a cancelled native call ends, one that is not may
\* wait for the user for ever
Fairness ==
  \A c \in Calls :
    /\ WF_vars(CallStep(c))
    /\ WF_vars(ThreadStep(c))
    /\ WF_vars(c \in cancelled /\ (NativeReturns(c) \/ NativeFails(c)))

Spec == Init /\ [][Next]_vars /\ Fairness

-------------------------------------------------------------------------------
TypeOK ==
  /\ call \in [Calls -> {"none", "native", "complete", "set", "join",
                         "returned", "raised"}]
  /\ passed \in [Calls -> Events \cup {NoEvent}]
  /\ waiter \in [Calls -> {"none", "waits", "awake", "ended"}]
  /\ completed \subseteq Calls /\ cancelled \subseteq Calls
  /\ eventsSet \subseteq Events /\ requested \subseteq Events

\* A call is cancelled only when the program set its event, or when another
\* call that was given the same event has completed: complete() sets it
\* and nothing clears it (windows.py:118-126).
CancelledOnRequest ==
  \A c \in cancelled :
    \/ passed[c] \in requested
    \/ \E d \in completed \ {c} : passed[d] = passed[c]

\* A call that returned a result has left no thread that could still cancel.
ResultLeavesNoThread ==
  \A c \in Calls : call[c] = "returned" => waiter[c] \in {"none", "ended"}

\* A call and its thread: the thread exists for a call with an event, sleeps
\* until that event is set, and is over before the call returns a result;
\* _completed is set by complete() and never taken back.
ThreadOfItsCall ==
  \A c \in Calls :
    /\ waiter[c] = "none" <=> passed[c] = NoEvent
    /\ call[c] = "none" => passed[c] = NoEvent
    /\ call[c] \in {"complete", "set", "join"} => passed[c] # NoEvent
    /\ call[c] \in {"set", "join"} => c \in completed
    /\ c \in completed => call[c] \in {"set", "join", "returned"}
    /\ waiter[c] \in {"awake", "ended"} => passed[c] \in eventsSet
    /\ c \in cancelled => waiter[c] = "ended"

\* An event that is set was set by the program, or by complete() of a call
\* that was given it.
EventsExplained ==
  \A e \in eventsSet : e \in requested \/ \E d \in completed : passed[d] = e

\* Setting the event ends the call, and complete() never waits for ever for
\* a thread that nobody wakes.
CallEnds ==
  \A c \in Calls :
    (call[c] = "native" /\ passed[c] \in eventsSet) \/ call[c] = "complete"
      ~> call[c] \in {"returned", "raised"}
===============================================================================
