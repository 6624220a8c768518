----------------------------- MODULE MultiDevice -----------------------------
(***************************************************************************)
(* The program of examples/multi_device.py: one thread per device asks for *)
(* a selection, all with one event; who is touched sets it, which aborts   *)
(* the others.  A credential is then created on the device in `selected`.  *)
(***************************************************************************)
CONSTANTS Devices, NoDevice

MultiAssumption == NoDevice \notin Devices

VARIABLES
  chooser,       \* per device, the thread that runs select(client)
  selected,
  cancelEvent,   \* cancel
  program,       \* "join", "make" (make_credential), "end"
  touches        \* history: the devices that were touched

vars == <<chooser, selected, cancelEvent, program, touches>>

Init ==
  /\ chooser = [d \in Devices |-> "selection"]
  /\ selected = NoDevice /\ cancelEvent = FALSE
  /\ program = "join" /\ touches = {}

Thread(d, from, to) ==
  chooser[d] = from /\ chooser' = [chooser EXCEPT ![d] = to]

\* client.selection(cancel) returns
Selection(d) ==
  /\ Thread(d, "selection", "assign")
  /\ touches' = touches \cup {d}
  /\ UNCHANGED <<selected, cancelEvent, program>>

\* ... or raises: TIMEOUT, for the event or the user's inaction, or another
\* error, which ends the thread as well
SelectionAborted(d) ==
  /\ Thread(d, "selection", "ended")
  /\ cancelEvent
  /\ UNCHANGED <<selected, cancelEvent, program, touches>>

SelectionFails(d) ==
  /\ Thread(d, "selection", "ended")
  /\ UNCHANGED <<selected, cancelEvent, program, touches>>

Assign(d) ==
  /\ Thread(d, "assign", "set")
  /\ selected' = d
  /\ UNCHANGED <<cancelEvent, program, touches>>

SetCancel(d) ==
  /\ Thread(d, "set", "ended")
  /\ cancelEvent' = TRUE
  /\ UNCHANGED <<selected, program, touches>>

JoinFirst ==
  /\ program = "join"
  /\ \E d \in Devices : chooser[d] = "ended"
  /\ program' = IF cancelEvent THEN "make" ELSE "end"
  /\ UNCHANGED <<chooser, selected, cancelEvent, touches>>

JoinAll ==
  /\ program = "join"
  /\ \A d \in Devices : chooser[d] = "ended"
  /\ program' = IF cancelEvent THEN "make" ELSE "end"
  /\ UNCHANGED <<chooser, selected, cancelEvent, touches>>

Next ==
  \/ JoinAll
  \/ \E d \in Devices :
       \/ Selection(d) \/ SelectionAborted(d) \/ SelectionFails(d)
       \/ Assign(d) \/ SetCancel(d)

Spec == Init /\ [][Next]_vars

-------------------------------------------------------------------------------
TypeOK ==
  /\ chooser \in [Devices -> {"selection", "assign", "set", "ended"}]
  /\ selected \in Devices \cup {NoDevice}
  /\ cancelEvent \in BOOLEAN /\ program \in {"join", "make", "end"}
  /\ touches \subseteq Devices

\* Every touch is on its way to `selected`, or has set the event after it
\* was there; the program goes on when all threads have ended.
TouchesLead ==
  /\ \A d \in Devices :
       /\ chooser[d] = "assign" => d \in touches
       /\ chooser[d] = "set" => selected # NoDevice
  /\ selected # NoDevice => selected \in touches
  /\ cancelEvent => selected # NoDevice
  /\ \A d \in touches : chooser[d] \in {"assign", "set"} \/ cancelEvent
  /\ program # "join" => \A d \in Devices : chooser[d] = "ended"
  /\ program = "make" => cancelEvent
  /\ program = "end" => ~cancelEvent

\* The credential is created on a device that was touched for it, when no
\* selection is under way on any device; a touch on some device is never
\* answered by "timed out".
SelectedWasTouched ==
  /\ program = "make" =>
       selected \in touches /\ \A d \in Devices : chooser[d] = "ended"
  /\ program = "end" => touches = {}
===============================================================================
