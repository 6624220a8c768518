------------------------------- MODULE CtapHid -------------------------------
(***************************************************************************)
(* The CTAPHID transport of python-fido2 (src/fido2/hid/__init__.py): one  *)
(* CtapHidDevice, used by one thread, on one open HID connection, and the  *)
(* authenticator at the other end of it.                                   *)
(*                                                                         *)
(* CtapHidDevice has no lock and no reader thread: call() writes the       *)
(* request packets, then reads packets until the response is complete.     *)
(* What can go wrong is what is still under way when call() is left: a     *)
(* cancel, an interrupt, a busy authenticator, a lost or foreign report.   *)
(*                                                                         *)
(* The payload of a message is abstracted to the call it belongs to (field *)
(* "call" of a packet: the program does not see it) and the length of a    *)
(* message to its number of packets.                                       *)
(***************************************************************************)
EXTENDS Integers, Sequences

CONSTANTS
    MaxCalls,       \* bound: calls made, the CTAPHID_INIT of each open included
    MaxRequest,     \* bound: packets of one request
    MaxPackets,     \* bound: packets of one response
    SeqMod,         \* continuation sequence numbers, 128 in CTAPHID
    MaxQueue,       \* bound: output reports under way, unread keep-alives
    MaxInterrupts,  \* bound: KeyboardInterrupts
    MaxFaults       \* bound: lost reports, foreign reports, odd keep-alives

ASSUME HidAssumption ==
    /\ MaxCalls \in Nat \ {0}
    /\ MaxRequest \in Nat \ {0}
    /\ MaxPackets \in Nat \ {0}
    /\ SeqMod \in Nat \ {0}
    /\ MaxRequest <= SeqMod + 1 /\ MaxPackets <= SeqMod + 1
    /\ MaxQueue \in Nat \ {0}
    /\ MaxInterrupts \in Nat
    /\ MaxFaults \in Nat

Calls == 1 .. MaxCalls

(* Only CBOR commands are given an event; PING stands for every command    *)
(* the library sends without one (PING, WINK, LOCK and MSG).               *)
Cmds == {"INIT", "PING", "CBOR"}

STATUS == {"PROCESSING", "UPNEEDED"}

(* Channel 0 is the broadcast channel, -1 that of another application, and *)
(* n the one allocated by the INIT that was call n.                        *)
Broadcast == 0
Foreign == -1
Channels == {Foreign, Broadcast} \cup Calls

(* A request packet: the initialization packet, a continuation or CANCEL.  *)
ToDevPacket == [kind : {"init", "cont", "cancel"}, ch : Channels, cmd : Cmds,
                call : Calls, len : 1 .. MaxRequest, seq : 0 .. SeqMod - 1]

(* An input report. Piece 1 of a "data" message is its initialization      *)
(* packet, piece k > 1 the continuation with sequence number k - 2.        *)
Report == [kind : {"data", "keepalive", "error"}, ch : Channels, cmd : Cmds,
           call : Calls, piece : 1 .. MaxPackets, len : 1 .. MaxPackets,
           code : STATUS \cup {"OK", "CANCELLED", "CHANNEL_BUSY",
                               "INVALID_SEQ", "OTHER", "UNKNOWN"}]

ToHostPacket == {p \in Report : p.kind = "data" => p.code \in {"OK", "CANCELLED"}}

Chunk == [call : Calls, piece : 1 .. MaxPackets, code : {"OK", "CANCELLED"}]

Silent == [last |-> "none", twice |-> FALSE]

NoResult == [kind |-> "none", body |-> <<>>]

VARIABLES
    pc,        \* where the thread is: closed, idle, send, check, read, wait
    chan,      \* self._channel_id
    call,      \* number of the current or last call
    cmd,       \* its command
    reqLen,    \* its packets
    sent,      \* packets of the current attempt that were written
    event,     \* the Event of the call
    response,  \* the payloads received
    rlen,      \* r_len, in packets
    lastKa,    \* last_ka
    heard,     \* history: the status on_keepalive was last called with, and
               \* whether it was ever called twice in a row with one status
    result     \* what the last call returned or raised

VARIABLES
    toDev,     \* output reports the authenticator has not processed
    toHost,    \* input reports not yet read
    dev,       \* authenticator: idle, other, recv, proc, user, reply
    devReq,    \* the initialization packet of the request it works on
    devGot,    \* packets of the request received
    touched,   \* user presence was given for it
    replyCode, \* the status of its last answer
    replyLen,  \* packets of its last answer
    replySent  \* packets of it sent

VARIABLES
    executed,  \* history: times each call was carried out
    asked,     \* history: calls whose caller asked for cancellation
    cancelled, \* history: calls the authenticator cancelled
    interrupts, faults

clientVars == <<pc, chan, call, cmd, reqLen, sent, event, response, rlen,
                lastKa, heard, result>>
devVars == <<dev, devReq, devGot, touched, replyCode, replyLen, replySent>>
histVars == <<executed, asked, cancelled, interrupts, faults>>
vars == <<clientVars, toDev, toHost, devVars, histVars>>

NoRequest == [kind |-> "init", ch |-> Foreign, cmd |-> "PING", call |-> 1,
              len |-> 1, seq |-> 0]

Init ==
    /\ pc = "closed" /\ chan = Broadcast /\ call = 0 /\ cmd = "INIT"
    /\ reqLen = 1 /\ sent = 0 /\ event = FALSE
    /\ response = <<>> /\ rlen = 1 /\ lastKa = "none" /\ heard = Silent
    /\ result = NoResult
    /\ toDev = <<>> /\ toHost = <<>>
    /\ dev = "idle" /\ devReq = NoRequest /\ devGot = 0 /\ touched = FALSE
    /\ replyCode = "OK" /\ replyLen = 0 /\ replySent = 0
    /\ executed = [n \in Calls |-> 0] /\ asked = {} /\ cancelled = {}
    /\ interrupts = 0 /\ faults = 0

-----------------------------------------------------------------------------
(* The thread inside call() and _do_call().                                *)

\* A new attempt: _do_call is entered.
Attempt ==
    /\ pc' = "send" /\ sent' = 0
    /\ response' = <<>> /\ rlen' = 1 /\ lastKa' = "none"

StartCall(c, n, e) ==
    /\ call < MaxCalls
    /\ call' = call + 1
    /\ cmd' = c /\ reqLen' = n /\ event' = e
    /\ heard' = Silent /\ result' = NoResult
    /\ asked' = IF e THEN asked \cup {call + 1} ELSE asked
    /\ Attempt
    /\ UNCHANGED <<devVars, toDev, executed, cancelled, interrupts, faults>>

\* CtapHidDevice(descriptor, open_connection(descriptor)): a new handle has
\* no unread reports; the constructor calls INIT on the broadcast channel.
Open ==
    /\ pc = "closed"
    /\ chan' = Broadcast /\ toHost' = <<>>
    /\ StartCall("INIT", 1, FALSE)

\* device.call(cmd, data, event, on_keepalive)
Call ==
    /\ pc = "idle"
    /\ \/ \E n \in 1 .. MaxRequest : StartCall("PING", n, FALSE)
       \/ \E n \in 1 .. MaxRequest, e \in BOOLEAN : StartCall("CBOR", n, e)
    /\ UNCHANGED <<chan, toHost>>

Close ==
    /\ pc = "idle" /\ call < MaxCalls
    /\ pc' = "closed"
    /\ UNCHANGED <<chan, call, cmd, reqLen, sent, event, response, rlen,
                   lastKa, heard, result, toDev, toHost, devVars, histVars>>

Packet(kind, seq) == [kind |-> kind, ch |-> chan, cmd |-> cmd, call |-> call,
                      len |-> reqLen, seq |-> seq]

\* One turn of the send loop: the initialization packet, then continuations.
WritePacket ==
    /\ pc = "send" /\ Len(toDev) < MaxQueue
    /\ toDev' = Append(toDev, IF sent = 0
                              THEN Packet("init", 0)
                              ELSE Packet("cont", (sent - 1) % SeqMod))
    /\ sent' = sent + 1
    /\ pc' = IF sent + 1 = reqLen THEN "check" ELSE "send"
    /\ UNCHANGED <<chan, call, cmd, reqLen, event, response, rlen, lastKa,
                   heard, result, toHost, devVars, histVars>>

\* Mutant: the event is tested for existence, not for being set.
CheckCancelAlways ==
    /\ pc = "check" /\ Len(toDev) < MaxQueue
    /\ pc' = "read"
    /\ toDev' = Append(toDev, Packet("cancel", 0))
    /\ UNCHANGED <<chan, call, cmd, reqLen, sent, event, response, rlen,
                   lastKa, heard, result, toHost, devVars, histVars>>

\* The exception, or the response of the call, reaches the caller of call();
\* when the call was the constructor's INIT the object is not created.
Raise(kind) ==
    /\ result' = [kind |-> kind, body |-> <<>>]
    /\ pc' = IF chan = Broadcast THEN "closed" ELSE "idle"
    /\ UNCHANGED chan

\* Mutant: the call is left as soon as CANCEL is sent.
CheckCancelAndLeave ==
    /\ pc = "check" /\ Len(toDev) < MaxQueue
    /\ toDev' = IF event THEN Append(toDev, Packet("cancel", 0)) ELSE toDev
    /\ IF event THEN Raise("CtapError")
                ELSE pc' = "read" /\ UNCHANGED <<chan, result>>
    /\ UNCHANGED <<call, cmd, reqLen, sent, event, response, rlen,
                   lastKa, heard, toHost, devVars, histVars>>

\* if event.is_set(): self._send_cancel()
CheckCancel ==
    /\ pc = "check" /\ Len(toDev) < MaxQueue
    /\ pc' = "read"
    /\ toDev' = IF event THEN Append(toDev, Packet("cancel", 0)) ELSE toDev
    /\ UNCHANGED <<chan, call, cmd, reqLen, sent, event, response, rlen,
                   lastKa, heard, result, toHost, devVars, histVars>>

\* return response[:r_len]; after INIT the nonce is compared and the channel
\* the authenticator allocated is taken.
Return(body) ==
    IF chan # Broadcast THEN
        /\ result' = [kind |-> "ok", body |-> body]
        /\ pc' = "idle"
        /\ UNCHANGED chan
    ELSE IF body[1].call = call THEN
        /\ result' = [kind |-> "ok", body |-> body]
        /\ pc' = "idle"
        /\ chan' = call
    ELSE Raise("ConnectionFailure")

Receive ==
    /\ pc = "read" /\ toHost # <<>>
    /\ toHost' = Tail(toHost)
    /\ UNCHANGED <<call, cmd, reqLen, sent, event, toDev, devVars, histVars>>

Recv == Head(toHost)

\* Mutant: off by one, the response is taken for complete one packet early.
ExtendShort(n) ==
    LET body == Append(response, [call |-> Recv.call, piece |-> Recv.piece,
                                  code |-> Recv.code])
    IN  /\ response' = body
        /\ rlen' = n
        /\ IF Len(body) >= n - 1 THEN Return(body)
                                 ELSE pc' = "check" /\ UNCHANGED <<chan, result>>

\* recv, appended to response: the call returns when it has r_len of it.
Extend(n) ==
    LET body == Append(response, [call |-> Recv.call, piece |-> Recv.piece,
                                  code |-> Recv.code])
    IN  /\ response' = body
        /\ rlen' = n
        /\ IF Len(body) >= n THEN Return(body)
                             ELSE pc' = "check" /\ UNCHANGED <<chan, result>>

ReadWrongChannel ==
    /\ Receive
    /\ Recv.ch # chan
    /\ Raise("ConnectionFailure")
    /\ UNCHANGED <<response, rlen, lastKa, heard>>

ReadInitialization ==
    /\ Receive
    /\ Recv.ch = chan /\ response = <<>>
    /\ Recv.kind = "data" /\ Recv.piece = 1 /\ Recv.cmd = cmd
    /\ Extend(Recv.len)
    /\ UNCHANGED <<lastKa, heard>>

OnKeepalive(status) ==
    heard' = [last |-> status,
              twice |-> IF heard.last = status THEN TRUE ELSE heard.twice]

ReadKeepalive ==
    /\ Receive
    /\ Recv.ch = chan /\ response = <<>> /\ Recv.kind = "keepalive"
    /\ IF Recv.code \notin STATUS
       THEN Raise("ConnectionFailure") /\ UNCHANGED <<lastKa, heard>>
       ELSE /\ pc' = "check"
            /\ lastKa' = Recv.code
            /\ IF Recv.code # lastKa THEN OnKeepalive(Recv.code)
                                     ELSE UNCHANGED heard
            /\ UNCHANGED <<chan, result>>
    /\ UNCHANGED <<response, rlen>>

\* Mutant: any error is retried, not CHANNEL_BUSY alone.
ReadErrorRetriesAll ==
    /\ Receive
    /\ Recv.ch = chan /\ response = <<>> /\ Recv.kind = "error"
    /\ pc' = "wait"
    /\ UNCHANGED <<chan, result, response, rlen, lastKa, heard>>

\* CTAPHID_ERROR: raised, but CHANNEL_BUSY goes to event.wait(0.1).
ReadError ==
    /\ Receive
    /\ Recv.ch = chan /\ response = <<>> /\ Recv.kind = "error"
    /\ IF Recv.code = "CHANNEL_BUSY"
       THEN pc' = "wait" /\ UNCHANGED <<chan, result>>
       ELSE Raise("CtapError")
    /\ UNCHANGED <<response, rlen, lastKa, heard>>

\* Neither the command, KEEPALIVE nor ERROR: raise INVALID_COMMAND.
ReadOtherCommand ==
    /\ Receive
    /\ Recv.ch = chan /\ response = <<>> /\ Recv.kind = "data"
    /\ Recv.piece # 1 \/ Recv.cmd # cmd
    /\ Raise("CtapError")
    /\ UNCHANGED <<response, rlen, lastKa, heard>>

\* Mutant: the sequence number is not compared.
IsAnyContinuation(p) == p.kind = "data"

IsNextContinuation(p) ==
    /\ p.kind = "data" /\ p.piece > 1
    /\ (p.piece - 2) % SeqMod = Len(response) - 1

ReadContinuation ==
    /\ Receive
    /\ Recv.ch = chan /\ response # <<>>
    /\ IF IsNextContinuation(Recv)
       THEN Extend(rlen)
       ELSE Raise("ConnectionFailure") /\ UNCHANGED <<response, rlen>>
    /\ UNCHANGED <<lastKa, heard>>

\* Mutant: CHANNEL_BUSY is retried whether or not the event is set.
RetryBusyAlways ==
    /\ pc = "wait"
    /\ Attempt
    /\ UNCHANGED <<chan, call, cmd, reqLen, event, heard, result, toDev,
                   toHost, devVars, histVars>>

\* event.wait(0.1) timed out: "Keep retrying on BUSY while not cancelled".
RetryBusy ==
    /\ pc = "wait" /\ ~event
    /\ Attempt
    /\ UNCHANGED <<chan, call, cmd, reqLen, event, heard, result, toDev,
                   toHost, devVars, histVars>>

\* event.wait(0.1) returned True: the CHANNEL_BUSY error is raised.
GiveUpBusy ==
    /\ pc = "wait" /\ event
    /\ Raise("CtapError")
    /\ UNCHANGED <<call, cmd, reqLen, sent, event, response, rlen, lastKa,
                   heard, toDev, toHost, devVars, histVars>>

\* KeyboardInterrupt: while the response is read a CANCEL is sent first,
\* while the request is written or during event.wait nothing is.
Interrupt ==
    /\ pc \in {"send", "check", "read", "wait"}
    /\ interrupts < MaxInterrupts
    /\ interrupts' = interrupts + 1
    /\ asked' = asked \cup {call}
    /\ toDev' = IF pc \in {"check", "read"}
                THEN Append(toDev, Packet("cancel", 0)) ELSE toDev
    /\ Raise("KeyboardInterrupt")
    /\ UNCHANGED <<call, cmd, reqLen, sent, event, response, rlen, lastKa,
                   heard, toHost, devVars, executed, cancelled, faults>>

\* Another thread, or the client's timer, sets the event.
SetEvent ==
    /\ pc \in {"send", "check", "read", "wait"} /\ cmd = "CBOR" /\ ~event
    /\ event' = TRUE
    /\ asked' = asked \cup {call}
    /\ UNCHANGED <<pc, chan, call, cmd, reqLen, sent, response, rlen, lastKa,
                   heard, result, toDev, toHost, devVars, executed, cancelled,
                   interrupts, faults>>

-----------------------------------------------------------------------------
(* The authenticator, which is not part of the program: modelled from what *)
(* call() expects of it. It works on one request at a time and answers     *)
(* CHANNEL_BUSY to any other.                                              *)

NewReport(kind, ch, c, n, piece, len, code) ==
    [kind |-> kind, ch |-> ch, cmd |-> c, call |-> n, piece |-> piece,
     len |-> len, code |-> code]

\* A transport error, addressed to the sender of packet p.
SendError(p, code) ==
    /\ toHost' = Append(toHost, NewReport("error", p.ch, p.cmd, p.call, 1, 1, code))
    /\ replyCode' = code /\ replyLen' = 1 /\ replySent' = 1

Accept(p) ==
    /\ devReq' = p /\ devGot' = 1 /\ touched' = FALSE
    /\ dev' = IF p.len = 1 THEN "proc" ELSE "recv"
    /\ UNCHANGED <<toHost, replyCode, replyLen, replySent, cancelled>>

Continue(p) ==
    /\ devGot' = devGot + 1
    /\ dev' = IF devGot + 1 = devReq.len THEN "proc" ELSE "recv"
    /\ UNCHANGED <<devReq, touched, toHost, replyCode, replyLen, replySent,
                   cancelled>>

\* A packet that is out of place: the half received request is dropped.
Reject(p) ==
    /\ SendError(p, "INVALID_SEQ")
    /\ dev' = "idle"
    /\ UNCHANGED <<devReq, devGot, touched, cancelled>>

Busy(p) ==
    /\ SendError(p, "CHANNEL_BUSY")
    /\ UNCHANGED <<dev, devReq, devGot, touched, cancelled>>

Ignore == UNCHANGED <<dev, devReq, devGot, touched, toHost, replyCode,
                      replyLen, replySent, cancelled>>

\* CANCEL ends a wait for the user; the command answers KEEPALIVE_CANCEL.
CancelRequest ==
    /\ dev' = "reply"
    /\ replyCode' = "CANCELLED" /\ replyLen' = 1 /\ replySent' = 0
    /\ cancelled' = cancelled \cup {devReq.call}
    /\ UNCHANGED <<devReq, devGot, touched, toHost>>

DevReceive ==
    /\ toDev # <<>> /\ dev # "reply"
    /\ toDev' = Tail(toDev)
    /\ LET p == Head(toDev) IN
       \/ p.kind = "init" /\ dev = "idle" /\ Accept(p)
       \/ p.kind = "init" /\ dev = "recv" /\ Reject(p)
       \/ p.kind = "init" /\ dev \in {"other", "proc", "user"} /\ Busy(p)
       \/ p.kind = "cont" /\ dev = "recv" /\ p.seq = (devGot - 1) % SeqMod
             /\ Continue(p)
       \/ p.kind = "cont" /\ dev = "recv" /\ p.seq # (devGot - 1) % SeqMod
             /\ Reject(p)
       \/ p.kind = "cont" /\ dev # "recv" /\ Ignore
       \/ p.kind = "cancel" /\ dev = "user" /\ CancelRequest
       \/ p.kind = "cancel" /\ dev # "user" /\ Ignore
    /\ UNCHANGED <<clientVars, executed, asked, interrupts, faults>>

DevNeedUser ==
    /\ dev = "proc" /\ devReq.cmd = "CBOR" /\ ~touched
    /\ dev' = "user"
    /\ UNCHANGED <<clientVars, toDev, toHost, devReq, devGot, touched,
                   replyCode, replyLen, replySent, histVars>>

UserTouch ==
    /\ dev = "user"
    /\ dev' = "proc" /\ touched' = TRUE
    /\ UNCHANGED <<clientVars, toDev, toHost, devReq, devGot, replyCode,
                   replyLen, replySent, histVars>>

\* The command is carried out and its answer ready, n packets of it; it may
\* also end in an ERROR packet.
DevAnswer ==
    /\ dev = "proc"
    /\ executed' = [executed EXCEPT ![devReq.call] = IF @ < 2 THEN @ + 1 ELSE @]
    /\ \/ /\ dev' = "reply"
          /\ \E n \in 1 .. MaxPackets : replyLen' = n
          /\ replyCode' = "OK" /\ replySent' = 0
          /\ UNCHANGED toHost
       \/ /\ dev' = "idle"
          /\ SendError(devReq, "OTHER")
    /\ UNCHANGED <<clientVars, toDev, devReq, devGot, touched, asked,
                   cancelled, interrupts, faults>>

Piece == NewReport("data", devReq.ch, devReq.cmd, devReq.call, replySent + 1,
                replyLen, replyCode)

\* A report leaves the authenticator; a full input buffer may drop it.
DevSendPiece ==
    /\ dev = "reply"
    /\ replySent' = replySent + 1
    /\ dev' = IF replySent + 1 = replyLen THEN "idle" ELSE "reply"
    /\ \/ toHost' = Append(toHost, Piece) /\ UNCHANGED faults
       \/ faults < MaxFaults /\ faults' = faults + 1 /\ UNCHANGED toHost
    /\ UNCHANGED <<clientVars, toDev, devReq, devGot, touched, replyCode,
                   replyLen, executed, asked, cancelled, interrupts>>

Keepalive(status) == Append(toHost, NewReport("keepalive", devReq.ch, devReq.cmd,
                                           devReq.call, 1, 1, status))

DevKeepalive ==
    /\ dev \in {"proc", "user"} /\ Len(toHost) < MaxQueue
    /\ \/ /\ toHost' = Keepalive(IF dev = "user" THEN "UPNEEDED"
                                                 ELSE "PROCESSING")
          /\ UNCHANGED faults
       \/ /\ faults < MaxFaults /\ faults' = faults + 1
          /\ toHost' = Keepalive("UNKNOWN")
    /\ UNCHANGED <<clientVars, toDev, devVars, executed, asked, cancelled,
                   interrupts>>

\* Another application uses the authenticator. Where a handle is given every
\* input report, the answer to it may show up among ours.
OtherBegin ==
    /\ dev = "idle"
    /\ dev' = "other"
    /\ UNCHANGED <<clientVars, toDev, toHost, devReq, devGot, touched,
                   replyCode, replyLen, replySent, histVars>>

OtherEnd ==
    /\ dev = "other"
    /\ dev' = "idle"
    /\ \/ UNCHANGED <<toHost, faults>>
       \/ /\ faults < MaxFaults /\ faults' = faults + 1
          /\ toHost' = Append(toHost, NewReport("data", Foreign, "CBOR", 1, 1, 1,
                                             "OK"))
    /\ UNCHANGED <<clientVars, toDev, devReq, devGot, touched, replyCode,
                   replyLen, replySent, executed, asked, cancelled, interrupts>>

-----------------------------------------------------------------------------
Read == ReadWrongChannel \/ ReadInitialization \/ ReadKeepalive \/ ReadError
        \/ ReadOtherCommand \/ ReadContinuation

\* What the thread does by itself once call() is entered.
ThreadStep == WritePacket \/ CheckCancel \/ Read \/ RetryBusy \/ GiveUpBusy

DevWork == DevNeedUser \/ DevAnswer

Next ==
    \/ Open \/ Call \/ Close \/ ThreadStep \/ Interrupt \/ SetEvent
    \/ DevReceive \/ DevWork \/ UserTouch \/ DevSendPiece \/ DevKeepalive
    \/ OtherBegin \/ OtherEnd

Spec == Init /\ [][Next]_vars

\* The thread runs; the authenticator handles what it is sent, finishes what
\* does not need the user and keeps sending keep-alives. Nothing makes the
\* user touch it, and no fairness makes a thread set the event.
Fairness ==
    /\ WF_vars(ThreadStep)
    /\ WF_vars(DevReceive) /\ WF_vars(DevWork) /\ WF_vars(DevSendPiece)
    /\ WF_vars(DevKeepalive) /\ WF_vars(OtherEnd)

FairSpec == Spec /\ Fairness
-----------------------------------------------------------------------------
(* Properties.                                                             *)

CallerType ==
    /\ pc \in {"closed", "idle", "send", "check", "read", "wait"}
    /\ chan \in Channels
    /\ call \in 0 .. MaxCalls /\ (pc # "closed" => call # 0)
    /\ cmd \in Cmds
    /\ reqLen \in 1 .. MaxRequest
    /\ sent \in 0 .. MaxRequest /\ (pc = "send" => sent < reqLen)

ReaderType ==
    /\ response \in Seq(Chunk)
    /\ rlen \in 1 .. MaxPackets
    /\ lastKa \in STATUS \cup {"none"}
    /\ heard \in [last : STATUS \cup {"none"}, twice : BOOLEAN]
    /\ result.kind \in {"none", "ok", "CtapError", "ConnectionFailure",
                        "KeyboardInterrupt"}

FlagType == event \in BOOLEAN /\ touched \in BOOLEAN

QueueType == toDev \in Seq(ToDevPacket) /\ toHost \in Seq(ToHostPacket)

DeviceType ==
    /\ dev \in {"idle", "other", "recv", "proc", "user", "reply"}
    /\ devReq \in ToDevPacket
    /\ devGot \in 0 .. MaxRequest /\ (dev = "recv" => devGot \in 1 .. devReq.len - 1)
    /\ replyLen \in 0 .. MaxPackets /\ replySent \in 0 .. MaxPackets
    /\ dev = "reply" => /\ replySent < replyLen
                        /\ replyCode \in {"OK", "CANCELLED"}

HistoryType ==
    /\ executed \in [Calls -> 0 .. 2]
    /\ asked \subseteq Calls /\ cancelled \subseteq Calls
    /\ interrupts \in 0 .. MaxInterrupts /\ faults \in 0 .. MaxFaults

(* Type correctness of the transport: every variable of call(), every      *)
(* packet in flight and the authenticator's bookkeeping stay well formed:  *)
(* a request is never sent past its end, an answer never past its own.     *)
TypeOK == CallerType /\ ReaderType /\ FlagType /\ QueueType /\ DeviceType
          /\ HistoryType

Clean == interrupts = 0 /\ faults = 0

\* call() has been entered and not left.
Active == pc \in {"send", "check", "read", "wait"}

\* body is the whole answer to call n, its packets in order.
IsAnswer(body, n) ==
    /\ body # <<>>
    /\ \A i \in DOMAIN body : body[i].call = n /\ body[i].piece = i

(* call() "reads the response" of the command it sent (ctap.py:66): what it *)
(* returns is the answer to this call, whatever was busy, cancelled or     *)
(* retried before - as long as no call was left by a KeyboardInterrupt.    *)
OwnResponse ==
    result.kind = "ok" /\ Clean => IsAnswer(result.body, call)

(* The same without the proviso: the promise as ctap.py states it.         *)
ResponseIsOfThisCall ==
    result.kind = "ok" => IsAnswer(result.body, call)

(* The hand-over between two calls: when a call returns or raises, nothing *)
(* of it is left that the next call could read, and the authenticator no   *)
(* longer works for us. call() never drains the connection, so everything  *)
(* rests on this.                                                          *)
CleanHandover ==
    Clean /\ pc \in {"idle", "closed"} =>
        /\ toHost = <<>>
        /\ dev \in {"idle", "other"}
        /\ \A i \in DOMAIN toDev : toDev[i].kind # "init"

(* Retrying on CHANNEL_BUSY sends the whole request again: a command is    *)
(* nevertheless carried out at most once.                                  *)
AtMostOnce == Clean => \A n \in Calls : executed[n] <= 1

(* CANCEL carries no command: it hits what the authenticator happens to be *)
(* doing. Even when several are sent, or one arrives after the answer, the *)
(* call under way is cancelled only if its own caller asked for it; and    *)
(* undisturbed, no call ever is that did not. (After an interrupt a call   *)
(* may return with the answer to the interrupted one, and leave its own    *)
(* command at work for the CANCEL of the next.)                            *)
CancelHitsItsCall ==
    /\ call \in cancelled => call \in asked
    /\ Clean => cancelled \subseteq asked

(* on_keepalive "is only called once for consecutive keep-alive messages   *)
(* with the same status" (ctap.py:73).                                     *)
KeepaliveOnce == Clean => ~heard.twice

(* A response is never stitched together from two calls, even when reports *)
(* are lost and stale ones are read: the sequence numbers see to it.       *)
NotStitched ==
    result.kind = "ok" /\ faults <= 1 =>
        IsAnswer(result.body, result.body[1].call)

(* What reaches the caller is intact: one call's answer, never pieces of   *)
(* two, and each status once (hid/__init__.py:226-245).                    *)
AnswerIntact == NotStitched /\ KeepaliveOnce

(* Setting the event ends the call: CANCEL is sent again before every read *)
(* until an answer comes, and a busy authenticator is given up.            *)
CancelEndsCall == (Active /\ event) ~> ~Active

-----------------------------------------------------------------------------
(* Why a call reads its own answer. Undisturbed, an attempt goes through   *)
(* three stages: its initialization packet is under way (Asking), the      *)
(* authenticator works on it (Working), or has begun to answer (Answering).*)
(* Between attempts (Resting) nothing is left of any of them.              *)

Resting == pc \in {"idle", "closed", "wait"} \/ (pc = "send" /\ sent = 0)

Asking == \E i \in DOMAIN toDev : toDev[i].kind = "init"
Working == dev \in {"recv", "proc", "user"}

OfThisCall(p) == p.call = call /\ p.ch = chan /\ p.cmd = cmd

\* The init packet is the only one, and what follows it is of this call too.
RequestInOrder ==
    /\ \A i, j \in DOMAIN toDev :
           toDev[i].kind = "init" /\ i <= j =>
               OfThisCall(toDev[j]) /\ (toDev[j].kind = "init" => i = j)
    /\ Asking => toHost = <<>> /\ response = <<>> /\ dev \in {"idle", "other"}

\* Its answer has not begun: only keep-alives can be read.
WorkInOrder ==
    /\ Working \/ dev = "reply" => OfThisCall(devReq)
    /\ Working => /\ response = <<>>
                  /\ \A i \in DOMAIN toDev : OfThisCall(toDev[i])
                  /\ \A i \in DOMAIN toHost : toHost[i].kind = "keepalive"

\* The unread pieces are the last ones in toHost, in order, after nothing
\* but keep-alives; there are none before them once a piece was read.
AnswerInOrder ==
    LET unread == replySent - Len(response)
        first == Len(toHost) - unread
    IN  /\ unread \in 0 .. Len(toHost)
        /\ Len(response) < replyLen
        /\ dev # "reply" => replySent = replyLen
        /\ response # <<>> => first = 0 /\ rlen = replyLen
        /\ \A i \in 1 .. Len(toHost) :
               IF i <= first THEN toHost[i].kind = "keepalive"
               ELSE /\ toHost[i].kind \in {"data", "error"}
                    /\ toHost[i].piece = replySent - Len(toHost) + i
                    /\ toHost[i].len = replyLen
                    /\ toHost[i].kind = "error" => replyLen = 1

ReportsInOrder ==
    \A i \in DOMAIN toHost : /\ OfThisCall(toHost[i])
                             /\ toHost[i].kind = "keepalive" => toHost[i].code \in STATUS

\* A command is not carried out before its request has been accepted.
NotYetExecuted ==
    /\ \A n \in Calls : executed[n] <= 1 /\ (n > call => executed[n] = 0)
    /\ call # 0 /\ (\/ pc = "wait" \/ (pc = "send" /\ sent = 0) \/ Asking \/ Working
                    \/ \E i \in DOMAIN toHost : toHost[i].code = "CHANNEL_BUSY")
          => executed[call] = 0

ResponseInOrder ==
    /\ Active => \A i \in DOMAIN response : response[i].call = call
                                            /\ response[i].piece = i
    /\ result.kind = "ok" => IsAnswer(result.body, call)

(* The inductive invariant of an undisturbed connection, the reason for    *)
(* OwnResponse, CleanHandover and AtMostOnce.                              *)
InOrder ==
    Clean => /\ Resting => toHost = <<>> /\ ~Asking /\ dev \in {"idle", "other"}
             /\ ~Resting => RequestInOrder /\ WorkInOrder /\ ReportsInOrder
             /\ ~Resting /\ ~Asking /\ ~Working => AnswerInOrder
             /\ pc = "send" => response = <<>>
             /\ NotYetExecuted
             /\ ResponseInOrder

(* Whose a CANCEL is: packets reach the authenticator in the order of the  *)
(* calls, so one that arrives while it works on a call is of that call or  *)
(* of a later one. The reason for CancelHitsItsCall.                       *)
CancelsInOrder ==
    /\ Active /\ event => call \in asked
    /\ cancelled \subseteq 1 .. call
    /\ Working => devReq.call <= call
    /\ \A i \in DOMAIN toDev :
           /\ toDev[i].call <= call
           /\ toDev[i].kind = "cancel" => toDev[i].call \in asked
           /\ Working => devReq.call <= toDev[i].call
           /\ \A j \in DOMAIN toDev : i <= j => toDev[i].call <= toDev[j].call
    /\ CancelHitsItsCall

(* The reports of one connection, interrupted or not, as one stream: the   *)
(* last one call() has taken into the response, then those it has not read.*)
(* A piece that is not the last of its message is followed by its          *)
(* continuation, or by something that is not taken for it; with one report *)
(* lost there is no place where two messages fit together.                 *)
Whole(r) == r.kind = "data" => r.piece = r.len

Fits(r, next) ==
    ~Whole(r) /\ next.kind = "data" /\ next.piece = r.piece + 1 =>
        next.call = r.call /\ next.len = r.len

NothingTaken == [kind |-> "keepalive", call |-> 0, piece |-> 1, len |-> 1]

LastTaken ==
    IF pc \in {"check", "read"} /\ response # <<>>
    THEN [kind |-> "data", call |-> response[1].call, piece |-> Len(response), len |-> rlen]
    ELSE NothingTaken

LastSent == IF toHost = <<>> THEN LastTaken ELSE toHost[Len(toHost)]

PiecesFit ==
    /\ toHost # <<>> => Fits(LastTaken, toHost[1])
    /\ \A i \in DOMAIN toHost : i + 1 \in DOMAIN toHost => Fits(toHost[i], toHost[i + 1])

\* What the authenticator sends next fits what it sent last.
NextPieceFits ==
    /\ faults = 0 /\ (dev # "reply" \/ replySent = 0) => Whole(LastSent)
    /\ dev = "reply" /\ replySent > 0 =>
          \/ Whole(LastSent)
          \/ LastSent.call = devReq.call /\ LastSent.len = replyLen

ResponseOfOneCall ==
    /\ pc \in {"send", "wait"} => response = <<>>
    /\ Active => /\ \A i \in DOMAIN response : response[i].call = response[1].call
                                             /\ response[i].piece = i
                 /\ response # <<>> => Len(response) < rlen
    /\ result.kind = "ok" => IsAnswer(result.body, result.body[1].call)

\* The inductive invariant behind NotStitched.
AnswersFit == faults <= 1 => PiecesFit /\ NextPieceFits /\ ResponseOfOneCall

(* Why no status is reported twice in a row: heard follows last_ka, and an *)
(* attempt that ends with CHANNEL_BUSY, which resets last_ka, has read no  *)
(* keep-alive. The inductive invariant behind KeepaliveOnce.               *)
KeepalivesInOrder ==
    Clean => /\ KeepaliveOnce
             /\ Active => heard.last = lastKa
             /\ pc \in {"send", "wait"} \/ Asking => lastKa = "none"
             /\ (\E i \in DOMAIN toHost : toHost[i].code = "CHANNEL_BUSY") =>
                   Len(toHost) = 1 /\ dev \in {"idle", "other"} /\ lastKa = "none"

(* An answer says what became of the command: nothing is decided before an *)
(* attempt is accepted and done with, and what is read then is true. The   *)
(* inductive invariant behind CallContract.                                *)
Undecided ==
    \/ pc = "wait" \/ (pc = "send" /\ sent = 0) \/ Asking \/ Working
    \/ \E i \in DOMAIN toHost : toHost[i].code = "CHANNEL_BUSY"

IsTrue(code) == IF code = "OK" THEN executed[call] > 0
                ELSE executed[call] = 0 /\ call \in cancelled

FateInOrder ==
    Clean /\ call # 0 =>
        /\ Undecided => call \notin cancelled
        /\ dev = "reply" => IsTrue(replyCode)
        /\ \A i \in DOMAIN toHost : toHost[i].kind = "data" => IsTrue(toHost[i].code)
        /\ Active => \A i \in DOMAIN response : IsTrue(response[i].code)

(* The transport keeps the promise of CtapDevice.call.                     *)
Fate ==
    IF call = 0 THEN "nothing"
    ELSE IF executed[call] > 0 THEN "done"
    ELSE IF call \in cancelled THEN "cancelled" ELSE "nothing"

Outcome ==
    IF result.kind = "none" THEN "none"
    ELSE IF result.kind # "ok" THEN "error"
    ELSE IF result.body[1].code = "OK" THEN "done" ELSE "cancelled"

Abstract == INSTANCE CtapCall WITH
    busy <- Active, wanted <- call \notin asked, fate <- Fate, outcome <- Outcome

CallContract == Abstract!CallSpec
=============================================================================
