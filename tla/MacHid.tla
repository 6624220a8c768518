-------------------------------- MODULE MacHid --------------------------------
(***************************************************************************)
(* Reading a report on macOS (hid/macos.py): read_packet takes it from a   *)
(* queue, which a callback fills while a thread runs a run loop.  The      *)
(* thread lives for one call of read_packet, which joins it.               *)
(*                                                                         *)
(* The operating system keeps the reports that come in while no run loop   *)
(* is scheduled (external); reports are numbered in the order they were    *)
(* sent.                                                                   *)
(***************************************************************************)
EXTENDS Naturals, Sequences

CONSTANTS MaxReports, MaxFailures    \* bounds: reports sent, reads failed

MacAssumption == MaxReports \in Nat /\ MaxFailures \in Nat

VARIABLES
  sent,        \* how many reports the device has sent
  pending,     \* reports with the operating system
  read_queue,  \* reports the callback has put
  reader,      \* read_packet: "idle", "run" (its thread is in the run loop)
  retries,     \* run loops that handled a source without a report
  received,    \* what read_packet returned, in order
  failures,    \* how often it raised OSError
  attached     \* the device has not been removed

vars == <<sent, pending, read_queue, reader, retries, received, failures, attached>>

max_retries == 2

Init ==
  /\ sent = 0 /\ pending = <<>> /\ read_queue = <<>> /\ received = <<>>
  /\ reader = "idle" /\ retries = 0 /\ failures = 0 /\ attached = TRUE

Send ==
  /\ attached /\ sent < MaxReports
  /\ sent' = sent + 1
  /\ pending' = Append(pending, sent + 1)
  /\ UNCHANGED <<read_queue, reader, retries, received, failures, attached>>

Remove ==
  /\ attached /\ attached' = FALSE
  /\ UNCHANGED <<sent, pending, read_queue, reader, retries, received, failures>>

GetLast(queue) ==
  IF queue = <<>>
  THEN /\ failures' = failures + 1
       /\ read_queue' = queue /\ UNCHANGED received
  ELSE /\ received' = Append(received, queue[Len(queue)])
       /\ read_queue' = SubSeq(queue, 1, Len(queue) - 1) /\ UNCHANGED failures

\* read_queue.get(False), of the queue as it is then
Get(queue) ==
  IF queue = <<>>
  THEN /\ failures' = failures + 1
       /\ read_queue' = queue /\ UNCHANGED received
  ELSE /\ received' = Append(received, Head(queue))
       /\ read_queue' = Tail(queue) /\ UNCHANGED failures

ReadQueued ==
  /\ reader = "idle" /\ read_queue # <<>>
  /\ Get(read_queue)
  /\ UNCHANGED <<sent, pending, reader, retries, attached>>

StartThread ==
  /\ reader = "idle" /\ read_queue = <<>>
  /\ failures < MaxFailures
  /\ reader' = "run" /\ retries' = 0
  /\ UNCHANGED <<sent, pending, read_queue, received, failures, attached>>

\* there is no run loop to be had: the thread returns at once
NoRunLoop ==
  /\ reader = "idle" /\ read_queue = <<>>
  /\ failures < MaxFailures
  /\ Get(<<>>)
  /\ UNCHANGED <<sent, pending, reader, retries, attached>>

\* the thread ends and is joined
Joined(queue) == Get(queue) /\ reader' = "idle" /\ UNCHANGED retries

Retry(queue) ==
  IF queue # <<>> \/ retries + 1 = max_retries THEN Joined(queue)
  ELSE /\ retries' = retries + 1
       /\ UNCHANGED <<read_queue, reader, received, failures>>

HandledSource(n) ==
  /\ reader = "run" /\ n <= Len(pending)
  /\ pending' = SubSeq(pending, n + 1, Len(pending))
  /\ Retry(read_queue \o SubSeq(pending, 1, n))
  /\ UNCHANGED <<sent, attached>>

\* 4 seconds without a source, or stopped by the removal callback
TimedOut ==
  /\ reader = "run" /\ (attached => pending = <<>>)
  /\ Joined(read_queue)
  /\ UNCHANGED <<sent, pending, attached>>

Next ==
  \/ Send \/ Remove \/ ReadQueued \/ StartThread \/ NoRunLoop \/ TimedOut
  \/ \E n \in 0..MaxReports : HandledSource(n)

Fairness ==
  WF_vars(reader = "run" /\ (TimedOut \/ \E n \in 0..MaxReports : HandledSource(n)))

Spec == Init /\ [][Next]_vars /\ Fairness

-------------------------------------------------------------------------------
TypeOK ==
  /\ sent \in 0..MaxReports /\ retries \in 0..(max_retries - 1)
  /\ failures \in 0..MaxFailures
  /\ reader \in {"idle", "run"} /\ attached \in BOOLEAN
  /\ \A q \in {pending, read_queue, received} : q \in Seq(1..MaxReports)

\* Reports are returned in the order they were sent, each once, and a read
\* that fails loses none: a later read continues where it stopped.
ReportsConserved ==
  received \o read_queue \o pending = [n \in 1..sent |-> n]

\* read_packet ends: with a report, or with OSError when the device is
\* silent, removed, or when other sources keep the run loop busy.
ReadEnds == reader = "run" ~> reader = "idle"
===============================================================================
