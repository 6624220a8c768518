------------------------------- MODULE MCDevices -------------------------------
(***************************************************************************)
(* The parts around the transports and the client, each on its own: which  *)
(* one a behaviour is about is chosen at first.                            *)
(***************************************************************************)
EXTENDS Naturals, Sequences, TLC

CONSTANTS
  NativeCalls, Events, NoEvent, MaxReports, MaxFailures,
  Paths, Platforms, MaxChanges, MaxListings, MaxPings,
  KeyHandles, NoHandle, MaxFaults, MaxUses, Devices, NoDevice,
  MaxCalls, MaxRequest, MaxPieces

VARIABLES
  subject,
  call, passed, waiter, completed, eventsSet, requested, cancelled,
  sent, pending, read_queue, reader, retries, received, failures, attached,
  platform, devices, known, failed, stale, phase, todo, descriptors, opened,
  outcome, steady, there, gaveUp, changes, listings,
  bsd, open, pings, owed, inbox, late,
  handles, operation, step, command, list, abort, ended, listed, erred,
  touched, sentLate, faults, uses,
  chooser, selected, cancelEvent, program, touches,
  made, caps, ext, pc, pcscCall, cmd, toSend, resp, sw, status, event, lastKa,
  heard, result, card, working, fetched, total, executed, pcscFaults

Windows == INSTANCE WindowsClient WITH Calls <- NativeCalls
Mac == INSTANCE MacHid
Lists == INSTANCE DeviceLists
Bsd == INSTANCE BsdOpen
U2f == INSTANCE Ctap1Client
Multi == INSTANCE MultiDevice
Pcsc == INSTANCE CtapPcsc WITH call <- pcscCall, faults <- pcscFaults

ASSUME WindowsGiven == Windows!WindowsAssumption
ASSUME MacGiven == Mac!MacAssumption
ASSUME ListsGiven == Lists!ListsAssumption
ASSUME BsdGiven == Bsd!OpenAssumption
ASSUME U2fGiven == U2f!Ctap1Assumption
ASSUME MultiGiven == Multi!MultiAssumption
ASSUME PcscGiven == Pcsc!PcscAssumption

windowsVars ==
  <<call, passed, waiter, completed, eventsSet, requested, cancelled>>
macVars ==
  <<sent, pending, read_queue, reader, retries, received, failures, attached>>
listsVars ==
  <<platform, devices, known, failed, stale, phase, todo, descriptors, opened,
    outcome, steady, there, gaveUp, changes, listings>>
bsdVars ==
  <<bsd, open, pings, owed, inbox, late>>
u2fVars ==
  <<handles, operation, step, command, list, abort, ended, listed, erred,
    touched, sentLate, faults, uses>>
multiVars ==
  <<chooser, selected, cancelEvent, program, touches>>

pcscVars ==
  <<made, caps, ext, pc, pcscCall, cmd, toSend, resp, sw, status, event, lastKa,
    heard, result, card, working, fetched, total, executed, pcscFaults>>

vars == <<subject, windowsVars, macVars, listsVars, bsdVars, u2fVars,
          multiVars, pcscVars>>

Subjects == {"windows", "mac", "lists", "bsd", "u2f", "multi", "pcsc"}

Others(s) ==
  /\ subject = s /\ UNCHANGED subject
  /\ IF s = "windows" THEN TRUE ELSE UNCHANGED windowsVars
  /\ IF s = "mac" THEN TRUE ELSE UNCHANGED macVars
  /\ IF s = "lists" THEN TRUE ELSE UNCHANGED listsVars
  /\ IF s = "bsd" THEN TRUE ELSE UNCHANGED bsdVars
  /\ IF s = "u2f" THEN TRUE ELSE UNCHANGED u2fVars
  /\ IF s = "multi" THEN TRUE ELSE UNCHANGED multiVars
  /\ IF s = "pcsc" THEN TRUE ELSE UNCHANGED pcscVars

Init ==
  /\ subject \in Subjects
  /\ Windows!Init /\ Mac!Init /\ Lists!Init /\ Bsd!Init /\ U2f!Init /\ Multi!Init
  /\ Pcsc!Init
  /\ subject # "lists" => platform = CHOOSE p \in Platforms : TRUE
  /\ subject # "bsd" => bsd = "openbsd"
  /\ subject # "u2f" => handles = {}

Next ==
  \/ Windows!Next /\ Others("windows")
  \/ Mac!Next /\ Others("mac")
  \/ Lists!Next /\ Others("lists")
  \/ Bsd!Next /\ Others("bsd")
  \/ U2f!Next /\ Others("u2f")
  \/ Multi!Next /\ Others("multi")
  \/ Pcsc!Next /\ Others("pcsc")

\* what these fairness conditions ask for is enabled for the subject only
Spec ==
  /\ Init /\ [][Next]_vars
  /\ Windows!Fairness /\ Mac!Fairness /\ U2f!Fairness

-------------------------------------------------------------------------------
\* WindowsClient: the platform is told to cancel only if the caller's event was
\* set while the call ran, and a call that returns leaves no thread that could
\* cancel a later one.
WindowsCancelsItsCall ==
  Windows!CancelledOnRequest /\ Windows!ResultLeavesNoThread

\* Input that has to arrive whole: on macOS no report is lost, repeated or
\* overtaken between the thread that receives and the one that reads; on the
\* BSDs the pings of the kernel driver leave nothing behind that INIT takes for
\* its answer; a smart card's answer is all of its pieces, of this call.
InputIsWhole ==
  Mac!ReportsConserved /\ Bsd!OpenedInSync /\ Pcsc!WholeAnswer

\* The backends that remember devices which failed list every device that is
\* there and opens.
ListIsComplete == Lists!ListIsComplete

\* U2F: after an abort one command more is sent at most, and a key that holds an
\* excluded credential creates none.
U2fStops == U2f!OneMoreCommand /\ U2f!ExcludedCreatesNothing

\* Several devices: the one that is used is one that was touched.
SelectedWasTouched == Multi!SelectedWasTouched

\* What waits ends: the native call of an aborted ceremony, a read of macOS whose
\* device is gone, the polling of a U2F key after an abort.
WaitingEnds == Windows!CallEnds /\ Mac!ReadEnds /\ U2f!AbortEnds

\* A U2F ceremony keeps what a ceremony promises (Ceremony), and a call of the
\* smart card transport what a call promises (CtapCall).
ContractsHold == U2f!CeremonyContract /\ Pcsc!CallContract
===============================================================================
