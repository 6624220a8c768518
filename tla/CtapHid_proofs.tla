--------------------------- MODULE CtapHid_proofs ----------------------------
(***************************************************************************)
(* Theorems about the CTAPHID transport, for every number of calls,        *)
(* packets, interrupts and faults.                                         *)
(***************************************************************************)
EXTENDS CtapHid, SequenceTheorems, TLAPS

LEMMA InitTypeOK == Init => TypeOK
<1> SUFFICES ASSUME Init PROVE TypeOK
  OBVIOUS
<1> USE HidAssumption DEF Init
<1>1. CallerType
  BY DEF CallerType, Channels, Broadcast, Cmds
<1>2. ReaderType
  <2>1. response \in Seq(Chunk)
    OBVIOUS
  <2>2. rlen \in 1 .. MaxPackets
    OBVIOUS
  <2>3. heard \in [last : STATUS \cup {"none"}, twice : BOOLEAN]
    BY DEF Silent
  <2>4. result.kind = "none"
    BY DEF NoResult
  <2> QED BY <2>1, <2>2, <2>3, <2>4 DEF ReaderType
<1>3. QueueType
  BY DEF QueueType
<1>4. DeviceType
  <2>1. devReq \in ToDevPacket
    BY DEF NoRequest, ToDevPacket, Channels, Foreign, Cmds, Calls
  <2> QED BY <2>1 DEF DeviceType
<1>5. HistoryType
  BY DEF HistoryType, Calls
<1>6. FlagType
  BY Zenon DEF FlagType
<1> QED BY <1>1, <1>2, <1>3, <1>4, <1>5, <1>6 DEF TypeOK

LEMMA PacketType ==
  ASSUME TypeOK, call # 0, NEW k \in {"init", "cont", "cancel"},
         NEW s \in 0 .. SeqMod - 1
  PROVE  Packet(k, s) \in ToDevPacket
  BY DEF TypeOK, CallerType, Packet, ToDevPacket, Calls

LEMMA StartCallType ==
  ASSUME TypeOK, NEW c \in Cmds, NEW n \in 1 .. MaxRequest, NEW e \in BOOLEAN,
         StartCall(c, n, e), chan' \in Channels, toHost' \in Seq(ToHostPacket)
  PROVE  TypeOK'
<1> USE HidAssumption DEF StartCall, Attempt
<1>1. CallerType'
  BY DEF TypeOK, CallerType
<1>2. ReaderType'
  BY DEF ReaderType, Silent, NoResult
<1>3. FlagType'
  BY Zenon DEF TypeOK, FlagType, devVars
<1>4. QueueType'
  BY DEF TypeOK, QueueType
<1>5. DeviceType'
  BY DEF TypeOK, DeviceType, devVars
<1>6. HistoryType'
  BY DEF TypeOK, CallerType, HistoryType, Calls
<1> QED BY <1>1, <1>2, <1>3, <1>4, <1>5, <1>6 DEF TypeOK

LEMMA CallerStepType ==
  ASSUME TypeOK, Open \/ Call \/ Close
  PROVE  TypeOK'
<1>1. CASE Open
  <2>1. chan' \in Channels /\ toHost' \in Seq(ToHostPacket)
    BY <1>1 DEF Open, Channels
  <2>2. "INIT" \in Cmds /\ 1 \in 1 .. MaxRequest
    BY HidAssumption DEF Cmds
  <2>3. StartCall("INIT", 1, FALSE)
    BY <1>1, Zenon DEF Open
  <2> QED BY <2>1, <2>2, <2>3, StartCallType, Zenon
<1>2. CASE Call
  <2>1. chan' \in Channels /\ toHost' \in Seq(ToHostPacket)
    BY <1>2 DEF Call, TypeOK, CallerType, QueueType
  <2>2. PICK c \in Cmds, n \in 1 .. MaxRequest, e \in BOOLEAN : StartCall(c, n, e)
    BY <1>2 DEF Call, Cmds
  <2> QED BY <2>1, <2>2, StartCallType
<1>3. CASE Close
  <2> USE <1>3 DEF Close
  <2>1. CallerType' /\ ReaderType' /\ QueueType'
    BY DEF TypeOK, CallerType, ReaderType, QueueType
  <2>2. FlagType' /\ HistoryType'
    BY Zenon DEF TypeOK, FlagType, HistoryType, devVars, histVars
  <2>3. DeviceType'
    BY DEF TypeOK, DeviceType, devVars
  <2> QED BY <2>1, <2>2, <2>3 DEF TypeOK
<1> QED BY <1>1, <1>2, <1>3

LEMMA WriteType ==
  ASSUME TypeOK, WritePacket \/ CheckCancel
  PROVE  TypeOK'
<1> USE HidAssumption DEF WritePacket, CheckCancel
<1>1. toDev' \in Seq(ToDevPacket)
  <2>1. call # 0 /\ sent \in Nat
    BY DEF TypeOK, CallerType
  <2>2. \A k \in {"init", "cont", "cancel"}, q \in 0 .. SeqMod - 1 :
           Packet(k, q) \in ToDevPacket
    BY <2>1, PacketType
  <2>3. sent # 0 => (sent - 1) % SeqMod \in 0 .. SeqMod - 1
    BY <2>1
  <2>4. \/ toDev' = toDev
        \/ toDev' = Append(toDev, Packet("init", 0))
        \/ sent # 0 /\ toDev' = Append(toDev, Packet("cont", (sent - 1) % SeqMod))
        \/ toDev' = Append(toDev, Packet("cancel", 0))
    BY Zenon
  <2>5. 0 \in 0 .. SeqMod - 1
    OBVIOUS
  <2>6. toDev \in Seq(ToDevPacket)
    BY DEF TypeOK, QueueType
  <2>7. \A p \in ToDevPacket : Append(toDev, p) \in Seq(ToDevPacket)
    BY <2>6, AppendProperties
  <2> HIDE DEF WritePacket, CheckCancel
  <2>8. Packet("init", 0) \in ToDevPacket /\ Packet("cancel", 0) \in ToDevPacket
    BY <2>2, <2>5
  <2>9. sent # 0 => Packet("cont", (sent - 1) % SeqMod) \in ToDevPacket
    BY <2>2, <2>3
  <2> QED BY <2>4, <2>6, <2>7, <2>8, <2>9
<1>2. CallerType'
  BY DEF TypeOK, CallerType
<1>3. ReaderType'
  BY DEF TypeOK, ReaderType
<1>4. FlagType' /\ HistoryType'
  BY Zenon DEF TypeOK, FlagType, HistoryType, devVars, histVars
<1>5. QueueType'
  BY <1>1 DEF TypeOK, QueueType
<1>6. DeviceType'
  BY DEF TypeOK, DeviceType, devVars
<1> QED BY <1>2, <1>3, <1>4, <1>5, <1>6 DEF TypeOK

LEMMA RecvType ==
  ASSUME TypeOK, toHost # <<>>
  PROVE  Recv \in ToHostPacket /\ Tail(toHost) \in Seq(ToHostPacket)
  BY HeadTailProperties DEF TypeOK, QueueType, Recv

LEMMA RaiseType ==
  ASSUME TypeOK, pc # "closed",
         UNCHANGED <<call, cmd, reqLen, sent, response, rlen>>,
         NEW k \in {"CtapError", "ConnectionFailure", "KeyboardInterrupt"}, Raise(k),
         lastKa' \in STATUS \cup {"none"},
         heard' \in [last : STATUS \cup {"none"}, twice : BOOLEAN]
  PROVE  CallerType' /\ ReaderType'
<1>1. CallerType'
  BY DEF TypeOK, CallerType, Raise
<1>2. ReaderType'
  BY DEF TypeOK, ReaderType, Raise
<1> QED BY <1>1, <1>2

LEMMA ExtendType ==
  ASSUME TypeOK, Receive, Recv.kind = "data",
         NEW n \in 1 .. MaxPackets, Extend(n), UNCHANGED <<lastKa, heard>>
  PROVE  CallerType' /\ ReaderType'
<1> DEFINE body == Append(response, [call |-> Recv.call, piece |-> Recv.piece,
                                     code |-> Recv.code])
<1>1. body \in Seq(Chunk)
  <2>1. Recv \in ToHostPacket
    BY RecvType DEF Receive
  <2>2. [call |-> Recv.call, piece |-> Recv.piece, code |-> Recv.code] \in Chunk
    BY <2>1 DEF ToHostPacket, Report, Chunk
  <2> QED BY <2>2 DEF TypeOK, ReaderType
<1>2. response' = body /\ rlen' = n
  BY DEF Extend
<1>3. /\ pc' \in {"check", "idle", "closed"}
      /\ chan' \in {chan, call}
      /\ result' = result \/ result'.kind \in {"ok", "ConnectionFailure"}
  BY DEF Extend, Return, Raise
<1>4. CallerType'
  BY <1>3 DEF TypeOK, CallerType, Receive, Channels, Calls
<1>5. ReaderType'
  BY <1>1, <1>2, <1>3 DEF TypeOK, ReaderType
<1> QED BY <1>4, <1>5

LEMMA ReadType ==
  ASSUME TypeOK, Read
  PROVE  TypeOK'
<1>1. Receive
  BY DEF Read, ReadWrongChannel, ReadInitialization, ReadKeepalive, ReadError,
         ReadOtherCommand, ReadContinuation
<1>2. Recv \in ToHostPacket /\ Tail(toHost) \in Seq(ToHostPacket)
  BY <1>1, RecvType DEF Receive
<1>3. QueueType'
  BY <1>1, <1>2 DEF Receive, TypeOK, QueueType
<1>4. DeviceType'
  BY <1>1 DEF Receive, TypeOK, DeviceType, devVars
<1>5. FlagType' /\ HistoryType'
  BY <1>1, Zenon DEF Receive, TypeOK, FlagType, HistoryType, devVars, histVars
<1>6. UNCHANGED <<call, cmd, reqLen, sent>> /\ pc # "closed"
  BY <1>1 DEF Receive
<1>7. lastKa \in STATUS \cup {"none"}
      /\ heard \in [last : STATUS \cup {"none"}, twice : BOOLEAN]
  BY DEF TypeOK, ReaderType
<1>8. CallerType' /\ ReaderType'
  <2>1. CASE ReadWrongChannel
    BY <1>6, <1>7, <2>1, RaiseType DEF ReadWrongChannel
  <2>2. CASE ReadInitialization
    <3>1. Recv.len \in 1 .. MaxPackets
      BY <1>2 DEF ToHostPacket, Report
    <3> QED BY <1>1, <2>2, <3>1, ExtendType DEF ReadInitialization
  <2>3. CASE ReadKeepalive
    <3>1. CASE Recv.code \notin STATUS
      BY <1>6, <1>7, <2>3, <3>1, RaiseType DEF ReadKeepalive
    <3>2. CASE Recv.code \in STATUS
      <4>1. heard' \in [last : STATUS \cup {"none"}, twice : BOOLEAN]
        <5> DEFINE again == IF heard.last = Recv.code THEN TRUE ELSE heard.twice
        <5>1. heard.twice \in BOOLEAN
          BY <1>7
        <5>2. again \in BOOLEAN
          BY <5>1, Zenon
        <5>3. heard' = [last |-> Recv.code, twice |-> again] \/ heard' = heard
          BY <2>3, <3>2, Zenon DEF ReadKeepalive, OnKeepalive
        <5> HIDE DEF again
        <5> QED BY <1>7, <3>2, <5>2, <5>3
      <4>2. CallerType'
        BY <1>6, <2>3, <3>2 DEF ReadKeepalive, TypeOK, CallerType
      <4>3. ReaderType'
        BY <2>3, <3>2, <4>1 DEF ReadKeepalive, TypeOK, ReaderType
      <4> QED BY <4>2, <4>3
    <3> QED BY <3>1, <3>2
  <2>4. CASE ReadError
    <3>1. CASE Recv.code = "CHANNEL_BUSY"
      <4>1. CallerType'
        BY <1>1, <1>6, <2>4, <3>1 DEF ReadError, Receive, TypeOK, CallerType
      <4>2. ReaderType'
        BY <2>4, <3>1 DEF ReadError, TypeOK, ReaderType
      <4> QED BY <4>1, <4>2
    <3>2. CASE Recv.code # "CHANNEL_BUSY"
      BY <1>6, <1>7, <2>4, <3>2, RaiseType DEF ReadError
    <3> QED BY <3>1, <3>2
  <2>5. CASE ReadOtherCommand
    BY <1>6, <1>7, <2>5, RaiseType DEF ReadOtherCommand
  <2>6. CASE ReadContinuation
    <3>1. CASE IsNextContinuation(Recv)
      <4>1. rlen \in 1 .. MaxPackets
        BY DEF TypeOK, ReaderType
      <4> QED BY <1>1, <2>6, <3>1, <4>1, ExtendType
               DEF ReadContinuation, IsNextContinuation
    <3>2. CASE ~IsNextContinuation(Recv)
      BY <1>6, <1>7, <2>6, <3>2, RaiseType DEF ReadContinuation
    <3> QED BY <3>1, <3>2
  <2> QED BY <2>1, <2>2, <2>3, <2>4, <2>5, <2>6 DEF Read
<1> QED BY <1>3, <1>4, <1>5, <1>8 DEF TypeOK

LEMMA LeaveType ==
  ASSUME TypeOK, RetryBusy \/ GiveUpBusy \/ Interrupt \/ SetEvent
  PROVE  TypeOK'
<1> USE HidAssumption
<1>0. /\ lastKa \in STATUS \cup {"none"}
      /\ heard \in [last : STATUS \cup {"none"}, twice : BOOLEAN]
  BY DEF TypeOK, ReaderType
<1>1. CASE RetryBusy
  <2> USE <1>1 DEF RetryBusy, Attempt
  <2>1. CallerType' /\ QueueType'
    BY DEF TypeOK, CallerType, QueueType
  <2>2. ReaderType'
    BY DEF TypeOK, ReaderType
  <2>3. FlagType' /\ HistoryType'
    BY Zenon DEF TypeOK, FlagType, HistoryType, devVars, histVars
  <2>4. DeviceType'
    BY DEF TypeOK, DeviceType, devVars
  <2> QED BY <2>1, <2>2, <2>3, <2>4 DEF TypeOK
<1>2. CASE GiveUpBusy
  <2> USE <1>2 DEF GiveUpBusy
  <2>1. CallerType' /\ ReaderType'
    BY <1>0, RaiseType
  <2>2. QueueType' /\ DeviceType'
    BY DEF TypeOK, QueueType, DeviceType, devVars
  <2>3. FlagType' /\ HistoryType'
    BY Zenon DEF TypeOK, FlagType, HistoryType, devVars, histVars
  <2> QED BY <2>1, <2>2, <2>3 DEF TypeOK
<1>3. CASE Interrupt
  <2> USE <1>3 DEF Interrupt
  <2>1. CallerType' /\ ReaderType'
    BY <1>0, RaiseType
  <2>2. QueueType'
    <3>1. call # 0
      BY DEF TypeOK, CallerType
    <3>2. Packet("cancel", 0) \in ToDevPacket
      BY <3>1, PacketType
    <3> QED BY <3>2 DEF TypeOK, QueueType
  <2>3. DeviceType'
    BY DEF TypeOK, DeviceType, devVars
  <2>4. FlagType'
    BY Zenon DEF TypeOK, FlagType, devVars
  <2>5. HistoryType'
    BY DEF TypeOK, CallerType, HistoryType, Calls
  <2> QED BY <2>1, <2>2, <2>3, <2>4, <2>5 DEF TypeOK
<1>4. CASE SetEvent
  <2> USE <1>4 DEF SetEvent
  <2>1. CallerType'
    BY DEF TypeOK, CallerType
  <2>2. ReaderType' /\ QueueType' /\ DeviceType'
    BY DEF TypeOK, ReaderType, QueueType, DeviceType, devVars
  <2>3. FlagType'
    BY Zenon DEF TypeOK, FlagType, devVars
  <2>4. HistoryType'
    BY DEF TypeOK, CallerType, HistoryType, Calls
  <2> QED BY <2>1, <2>2, <2>3, <2>4 DEF TypeOK
<1> QED BY <1>1, <1>2, <1>3, <1>4

LEMMA ErrorType ==
  ASSUME TypeOK, NEW p \in ToDevPacket,
         NEW code \in {"CHANNEL_BUSY", "INVALID_SEQ", "OTHER"}, SendError(p, code)
  PROVE  /\ toHost' \in Seq(ToHostPacket)
         /\ replyCode' = code /\ replyLen' = 1 /\ replySent' = 1
         /\ 1 \in 0 .. MaxPackets
<1>1. NewReport("error", p.ch, p.cmd, p.call, 1, 1, code) \in ToHostPacket
  BY HidAssumption DEF NewReport, ToHostPacket, Report, ToDevPacket
<1> QED BY <1>1, HidAssumption DEF SendError, TypeOK, QueueType

LEMMA DevReceiveType ==
  ASSUME TypeOK, DevReceive
  PROVE  TypeOK'
<1> DEFINE p == Head(toDev)
<1>0. p \in ToDevPacket /\ toDev' \in Seq(ToDevPacket)
  BY HeadTailProperties DEF DevReceive, TypeOK, QueueType
<1>1. CallerType' /\ ReaderType'
  BY DEF DevReceive, clientVars, TypeOK, CallerType, ReaderType
<1>2. /\ UNCHANGED <<event, executed, asked, interrupts, faults>>
      /\ dev # "reply"
  BY DEF DevReceive, clientVars
<1> USE HidAssumption
<1> SUFFICES /\ toHost' \in Seq(ToHostPacket) /\ DeviceType'
             /\ touched' \in BOOLEAN /\ cancelled' \subseteq Calls
  <2>1. FlagType'
    BY <1>2 DEF TypeOK, FlagType
  <2>2. HistoryType'
    BY <1>2 DEF TypeOK, HistoryType
  <2> QED BY <1>0, <1>1, <2>1, <2>2 DEF TypeOK, QueueType
<1>3. CASE p.kind = "init" /\ dev = "idle" /\ Accept(p)
  <2>1. touched' \in BOOLEAN
    BY <1>3, Zenon DEF Accept
  <2>2. DeviceType'
    BY <1>0, <1>3 DEF Accept, TypeOK, DeviceType, ToDevPacket
  <2> QED BY <1>3, <2>1, <2>2 DEF Accept, TypeOK, QueueType, HistoryType
<1>4. CASE dev = "recv" /\ Reject(p)
  <2>1. touched' \in BOOLEAN
    BY <1>4, Zenon DEF Reject, TypeOK, FlagType
  <2>2. toHost' \in Seq(ToHostPacket) /\ replyLen' = 1 /\ replySent' = 1
    BY <1>0, <1>4, ErrorType DEF Reject
  <2>3. DeviceType'
    BY <1>4, <2>2 DEF Reject, TypeOK, DeviceType
  <2> QED BY <1>4, <2>1, <2>2, <2>3 DEF Reject, TypeOK, HistoryType
<1>5. CASE Busy(p)
  <2>1. touched' \in BOOLEAN
    BY <1>5, Zenon DEF Busy, TypeOK, FlagType
  <2>2. toHost' \in Seq(ToHostPacket) /\ replyLen' = 1 /\ replySent' = 1
    BY <1>0, <1>5, ErrorType DEF Busy
  <2>3. DeviceType'
    BY <1>2, <1>5, <2>2 DEF Busy, TypeOK, DeviceType
  <2> QED BY <1>5, <2>1, <2>2, <2>3 DEF Busy, TypeOK, HistoryType
<1>6. CASE dev = "recv" /\ Continue(p)
  <2>1. touched' \in BOOLEAN
    BY <1>6, Zenon DEF Continue, TypeOK, FlagType
  <2>2. DeviceType'
    BY <1>6 DEF Continue, TypeOK, DeviceType, ToDevPacket
  <2> QED BY <1>6, <2>1, <2>2 DEF Continue, TypeOK, QueueType, HistoryType
<1>7. CASE Ignore
  <2>1. touched' \in BOOLEAN
    BY <1>7, Zenon DEF Ignore, TypeOK, FlagType
  <2>2. DeviceType'
    BY <1>7 DEF Ignore, TypeOK, DeviceType
  <2> QED BY <1>7, <2>1, <2>2 DEF Ignore, TypeOK, QueueType, HistoryType
<1>8. CASE CancelRequest
  <2>1. touched' \in BOOLEAN
    BY <1>8, Zenon DEF CancelRequest, TypeOK, FlagType
  <2>2. DeviceType'
    BY <1>8 DEF CancelRequest, TypeOK, DeviceType
  <2> QED BY <1>8, <2>1, <2>2
         DEF CancelRequest, TypeOK, QueueType, HistoryType, DeviceType, ToDevPacket
<1> QED BY <1>3, <1>4, <1>5, <1>6, <1>7, <1>8 DEF DevReceive

LEMMA DevStepType ==
  ASSUME TypeOK,
         \/ DevNeedUser \/ UserTouch \/ DevAnswer \/ DevSendPiece
         \/ DevKeepalive \/ OtherBegin \/ OtherEnd
  PROVE  TypeOK'
<1> USE HidAssumption
<1> DEFINE Steps == \/ DevNeedUser \/ UserTouch \/ DevAnswer \/ DevSendPiece
                    \/ DevKeepalive \/ OtherBegin \/ OtherEnd
<1>1. UNCHANGED clientVars /\ UNCHANGED <<toDev, asked, interrupts, devReq, devGot>>
  BY DEF DevNeedUser, UserTouch, DevAnswer, DevSendPiece, DevKeepalive,
         OtherBegin, OtherEnd, devVars, histVars
<1>2. CallerType' /\ ReaderType'
  BY <1>1 DEF clientVars, TypeOK, CallerType, ReaderType
<1>3. FlagType'
  <2>1. touched' = touched \/ touched' = TRUE
    BY Zenon DEF DevNeedUser, UserTouch, DevAnswer, DevSendPiece, DevKeepalive,
         OtherBegin, OtherEnd, devVars, histVars
  <2> QED BY <1>1, <2>1, Zenon DEF clientVars, TypeOK, FlagType
<1>4. HistoryType'
  <2>1. CASE DevAnswer
    <3>1. devReq.call \in Calls
      BY DEF TypeOK, DeviceType, ToDevPacket
    <3> QED BY <2>1, <3>1 DEF DevAnswer, TypeOK, HistoryType
  <2>2. CASE ~DevAnswer
    BY <1>1, <2>2 DEF DevNeedUser, UserTouch, DevSendPiece, DevKeepalive,
         OtherBegin, OtherEnd, histVars, TypeOK, HistoryType
  <2> QED BY <2>1, <2>2
<1>5. QueueType' /\ DeviceType'
  <2>1. CASE DevNeedUser \/ UserTouch \/ OtherBegin
    BY <2>1 DEF DevNeedUser, UserTouch, OtherBegin, TypeOK, QueueType, DeviceType
  <2>2. CASE DevAnswer
    <3>1. CASE dev' = "reply" /\ UNCHANGED toHost
      BY <2>2, <3>1 DEF DevAnswer, SendError, TypeOK, QueueType, DeviceType
    <3>2. CASE dev' = "idle" /\ SendError(devReq, "OTHER")
      <4>1. toHost' \in Seq(ToHostPacket) /\ replyLen' = 1 /\ replySent' = 1
        BY <3>2, ErrorType DEF TypeOK, DeviceType
      <4> QED BY <1>1, <2>2, <3>2, <4>1 DEF DevAnswer, TypeOK, QueueType, DeviceType
    <3> QED BY <2>2, <3>1, <3>2 DEF DevAnswer
  <2>3. CASE DevSendPiece
    <3>1. Piece \in ToHostPacket
      BY <2>3 DEF DevSendPiece, Piece, NewReport, ToHostPacket, Report, TypeOK,
                  DeviceType, ToDevPacket
    <3> QED BY <1>1, <2>3, <3>1 DEF DevSendPiece, TypeOK, QueueType, DeviceType
  <2>4. CASE DevKeepalive
    <3>1. \A st \in STATUS \cup {"UNKNOWN"} :
             Keepalive(st) \in Seq(ToHostPacket)
      BY DEF Keepalive, NewReport, ToHostPacket, Report, STATUS, TypeOK,
             QueueType, DeviceType, ToDevPacket
    <3> QED BY <1>1, <2>4, <3>1
           DEF DevKeepalive, STATUS, devVars, TypeOK, QueueType, DeviceType
  <2>5. CASE OtherEnd
    <3>1. NewReport("data", Foreign, "CBOR", 1, 1, 1, "OK") \in ToHostPacket
      BY DEF NewReport, ToHostPacket, Report, Channels, Foreign, Cmds, Calls
    <3> QED BY <1>1, <2>5, <3>1 DEF OtherEnd, TypeOK, QueueType, DeviceType
  <2> QED BY <2>1, <2>2, <2>3, <2>4, <2>5
<1> QED BY <1>2, <1>3, <1>4, <1>5 DEF TypeOK

LEMMA NextTypeOK == TypeOK /\ [Next]_vars => TypeOK'
<1> SUFFICES ASSUME TypeOK, [Next]_vars PROVE TypeOK'
  OBVIOUS
<1>1. CASE UNCHANGED vars
  <2>1. CallerType' /\ ReaderType' /\ QueueType' /\ DeviceType'
    BY <1>1 DEF vars, clientVars, devVars, TypeOK, CallerType, ReaderType,
                QueueType, DeviceType
  <2>2. FlagType' /\ HistoryType'
    BY <1>1, Zenon DEF vars, clientVars, devVars, histVars, TypeOK, FlagType,
                       HistoryType
  <2> QED BY <2>1, <2>2 DEF TypeOK
<1> QED BY <1>1, CallerStepType, WriteType, ReadType, LeaveType, DevReceiveType,
           DevStepType DEF Next, ThreadStep, DevWork

(* Whatever is interrupted, lost, retried or cancelled, the transport's    *)
(* state stays well formed: TypeOK, the checks of call() on what it reads  *)
(* included.                                                               *)
THEOREM TypeCorrect == Spec => []TypeOK
<1>1. Init => TypeOK
  BY InitTypeOK
<1>2. TypeOK /\ [Next]_vars => TypeOK'
  BY NextTypeOK
<1> QED BY <1>1, <1>2, PTL DEF Spec

-----------------------------------------------------------------------------
(* An undisturbed connection: InOrder is inductive.                        *)

LEMMA AppendFacts ==
  ASSUME NEW S, NEW s \in Seq(S), NEW e \in S
  PROVE  /\ DOMAIN s = 1 .. Len(s) /\ Len(s) \in Nat
         /\ DOMAIN Append(s, e) = 1 .. Len(s) + 1
         /\ Len(Append(s, e)) = Len(s) + 1
         /\ \A i \in DOMAIN s : Append(s, e)[i] = s[i]
         /\ Append(s, e)[Len(s) + 1] = e
  BY AppendProperties, LenProperties

LEMMA TailFacts ==
  ASSUME NEW S, NEW s \in Seq(S), s # <<>>
  PROVE  /\ DOMAIN s = 1 .. Len(s) /\ Len(s) \in Nat \ {0}
         /\ DOMAIN Tail(s) = 1 .. Len(s) - 1
         /\ Len(Tail(s)) = Len(s) - 1
         /\ \A i \in DOMAIN Tail(s) : i + 1 \in DOMAIN s /\ Tail(s)[i] = s[i + 1]
         /\ Head(s) = s[1] /\ 1 \in DOMAIN s
  BY HeadTailProperties, LenProperties, EmptySeq

LEMMA InitInOrder == Init => InOrder
  BY HidAssumption DEF Init, InOrder, Clean, Resting, Asking, NotYetExecuted,
     ResponseInOrder, Active, NoResult, Calls, Working

LEMMA StartCallInOrder ==
  ASSUME TypeOK, InOrder, pc \in {"idle", "closed"}, toHost' = <<>>,
         NEW c, NEW n, NEW e, StartCall(c, n, e), Clean
  PROVE  InOrder'
<1> USE DEF StartCall, Attempt
<1>1. Resting /\ Resting' /\ ~Asking /\ ~Asking'
  BY DEF Resting, InOrder, Asking
<1>2. dev' = dev /\ dev \in {"idle", "other"} /\ executed' = executed
  BY <1>1 DEF InOrder, devVars
<1>3. NotYetExecuted'
  <2>1. call \in Nat /\ call < MaxCalls /\ call' = call + 1 /\ MaxCalls \in Nat
    BY HidAssumption DEF TypeOK, CallerType
  <2>2. \A m \in Calls : executed[m] <= 1 /\ (m > call => executed[m] = 0)
    BY DEF InOrder, NotYetExecuted
  <2>3. call' \in Calls /\ call' > call
    BY <2>1 DEF Calls
  <2> HIDE DEF StartCall
  <2>4. \A m \in Calls : m > call' => m > call
    BY <2>1 DEF Calls
  <2>5. executed'[call'] = 0
    BY <1>2, <2>2, <2>3
  <2>6. \A m \in Calls : executed'[m] <= 1 /\ (m > call' => executed'[m] = 0)
    BY <1>2, <2>2, <2>4
  <2> QED BY <2>5, <2>6 DEF NotYetExecuted
<1>4. ResponseInOrder'
  BY DEF ResponseInOrder, NoResult
<1> QED BY <1>1, <1>2, <1>3, <1>4 DEF InOrder

LEMMA CallerStepInOrder ==
  ASSUME TypeOK, InOrder, Clean, Open \/ Call \/ Close
  PROVE  InOrder'
<1>1. CASE Open
  BY <1>1, StartCallInOrder DEF Open
<1>2. CASE Call
  <2>1. toHost' = <<>> /\ pc \in {"idle", "closed"}
    BY <1>2 DEF Call, InOrder, Resting
  <2>2. PICK c \in Cmds, n \in 1 .. MaxRequest, e \in BOOLEAN : StartCall(c, n, e)
    BY <1>2 DEF Call, Cmds
  <2> QED BY <2>1, <2>2, StartCallInOrder
<1>3. CASE Close
  <2> USE <1>3 DEF Close, devVars, histVars
  <2>1. Resting /\ Resting'
    BY DEF Resting
  <2>2. NotYetExecuted'
    BY <2>1 DEF InOrder, NotYetExecuted, Asking, Working
  <2>3. ResponseInOrder'
    BY DEF InOrder, ResponseInOrder, Active
  <2> QED BY <2>1, <2>2, <2>3 DEF InOrder, Asking
<1> QED BY <1>1, <1>2, <1>3

\* Appending to toDev while nothing else changes, but for pc and sent.
LEMMA WriteFrame ==
  ASSUME TypeOK, InOrder, Clean, WritePacket \/ CheckCancel
  PROVE  /\ UNCHANGED <<call, cmd, chan, response, rlen, result, toHost, dev,
                        devReq, replyLen, replySent, executed>>
         /\ pc \in {"send", "check"} /\ ~Resting'
         /\ response = <<>> \/ pc = "check"
  <1>1. pc = "send" => response = <<>>
    BY DEF InOrder
  <1>2. pc = "send" => sent \in Nat
    BY DEF TypeOK, CallerType
  <1> QED BY <1>1, <1>2 DEF WritePacket, CheckCancel, Resting, devVars, histVars

LEMMA WriteInOrder ==
  ASSUME TypeOK, InOrder, Clean, WritePacket \/ CheckCancel
  PROVE  InOrder'
<1>1. /\ UNCHANGED <<call, cmd, chan, response, rlen, result, toHost, dev,
                     devReq, replyLen, replySent, executed>>
      /\ pc \in {"send", "check"} /\ ~Resting'
      /\ response = <<>> \/ pc = "check"
  BY WriteFrame
<1>2. toDev \in Seq(ToDevPacket) /\ call # 0
  BY DEF TypeOK, QueueType, CallerType, WritePacket, CheckCancel
<1>3. CASE pc = "send" /\ sent = 0
  <2>1. Resting /\ toHost = <<>> /\ ~Asking /\ dev \in {"idle", "other"}
    BY <1>3 DEF Resting, InOrder
  <2>2. toDev' = Append(toDev, Packet("init", 0)) /\ Packet("init", 0) \in ToDevPacket
    <3>1. 0 \in 0 .. SeqMod - 1
      BY HidAssumption
    <3>2. Packet("init", 0) \in ToDevPacket
      BY <1>2, <3>1, PacketType
    <3> QED BY <1>3, <3>2 DEF WritePacket, CheckCancel
  <2>3. /\ DOMAIN toDev' = 1 .. Len(toDev) + 1 /\ Len(toDev) \in Nat
        /\ DOMAIN toDev = 1 .. Len(toDev)
        /\ \A i \in DOMAIN toDev : toDev'[i].kind # "init"
        /\ toDev'[Len(toDev) + 1] = Packet("init", 0)
    BY <1>2, <2>1, <2>2, AppendFacts DEF Asking
  <2>4. Asking'
    BY <2>3 DEF Asking, Packet
  <2>5. RequestInOrder'
    BY <1>1, <1>3, <2>1, <2>3 DEF RequestInOrder, OfThisCall, Packet
  <2>6. WorkInOrder' /\ ReportsInOrder'
    BY <1>1, <2>1 DEF WorkInOrder, Working, ReportsInOrder
  <2>7. NotYetExecuted'
    BY <1>1, <1>3 DEF InOrder, NotYetExecuted
  <2>8. ResponseInOrder'
    BY <1>1, <1>3 DEF InOrder, ResponseInOrder, Active
  <2> QED BY <1>1, <1>3, <2>4, <2>5, <2>6, <2>7, <2>8 DEF InOrder, Active
<1>4. CASE ~(pc = "send" /\ sent = 0)
  <2>1. ~Resting
    BY <1>1, <1>4 DEF Resting
  <2>2. \/ toDev' = toDev
        \/ \E p \in ToDevPacket : toDev' = Append(toDev, p) /\ p.kind # "init"
                                  /\ OfThisCall(p)
    <3>1. CASE pc = "send"
      <4>1. (sent - 1) % SeqMod \in 0 .. SeqMod - 1
        BY <1>4, <3>1, HidAssumption DEF TypeOK, CallerType
      <4>2. Packet("cont", (sent - 1) % SeqMod) \in ToDevPacket
        BY <1>2, <4>1, PacketType
      <4>3. toDev' = Append(toDev, Packet("cont", (sent - 1) % SeqMod))
        BY <1>4, <3>1 DEF WritePacket, CheckCancel
      <4> QED BY <4>2, <4>3 DEF Packet, OfThisCall
    <3>2. CASE pc = "check"
      <4>1. 0 \in 0 .. SeqMod - 1
        BY HidAssumption
      <4>2. Packet("cancel", 0) \in ToDevPacket
        BY <1>2, <4>1, PacketType
      <4> QED BY <3>2, <4>2 DEF WritePacket, CheckCancel, Packet, OfThisCall
    <3> QED BY <1>1, <3>1, <3>2
  <2>3. /\ Asking' <=> Asking
        /\ RequestInOrder' /\ (Working => \A i \in DOMAIN toDev' : OfThisCall(toDev'[i]))
    <3>1. CASE toDev' = toDev
      BY <1>1, <2>1, <3>1 DEF Asking, InOrder, RequestInOrder, WorkInOrder, OfThisCall
    <3>2. CASE toDev' # toDev
      <4>1. PICK p \in ToDevPacket : toDev' = Append(toDev, p) /\ p.kind # "init"
                                     /\ OfThisCall(p)
        BY <2>2, <3>2
      <4>2. /\ DOMAIN toDev' = 1 .. Len(toDev) + 1 /\ Len(toDev) \in Nat
            /\ DOMAIN toDev = 1 .. Len(toDev)
            /\ \A i \in DOMAIN toDev : toDev'[i] = toDev[i]
            /\ toDev'[Len(toDev) + 1] = p
        BY <1>2, <4>1, AppendFacts
      <4>3. Asking' <=> Asking
        BY <4>1, <4>2 DEF Asking
      <4>4. RequestInOrder'
        BY <1>1, <2>1, <4>1, <4>2, <4>3 DEF InOrder, RequestInOrder, OfThisCall
      <4>5. Working => \A i \in DOMAIN toDev' : OfThisCall(toDev'[i])
        BY <2>1, <4>1, <4>2 DEF InOrder, WorkInOrder, OfThisCall
      <4> QED BY <4>3, <4>4, <4>5
    <3> QED BY <3>1, <3>2
  <2>4. WorkInOrder' /\ ReportsInOrder' /\ (Working' <=> Working)
    BY <1>1, <2>1, <2>3 DEF InOrder, WorkInOrder, ReportsInOrder, Working, OfThisCall
  <2>5. AnswerInOrder => AnswerInOrder'
    BY <1>1 DEF AnswerInOrder
  <2>6. NotYetExecuted'
    BY <1>1, <2>1, <2>3, <2>4 DEF InOrder, NotYetExecuted, Resting
  <2>7. ResponseInOrder'
    BY <1>1 DEF InOrder, ResponseInOrder, Active
  <2>8. pc' = "send" => response' = <<>>
    BY <1>1 DEF WritePacket, CheckCancel
  <2> QED BY <1>1, <2>1, <2>3, <2>4, <2>5, <2>6, <2>7, <2>8 DEF InOrder
<1> QED BY <1>3, <1>4

\* A read takes the first report: what is left is the tail.
LEMMA ReadFacts ==
  ASSUME TypeOK, InOrder, Clean, Receive
  PROVE  /\ pc = "read" /\ ~Resting /\ Recv \in ToHostPacket
         /\ toHost \in Seq(ToHostPacket) /\ toHost' = Tail(toHost)
         /\ DOMAIN toHost = 1 .. Len(toHost) /\ Len(toHost) \in Nat \ {0}
         /\ DOMAIN toHost' = 1 .. Len(toHost) - 1
         /\ Len(toHost') = Len(toHost) - 1
         /\ \A i \in DOMAIN toHost' : i + 1 \in DOMAIN toHost /\ toHost'[i] = toHost[i + 1]
         /\ Recv = toHost[1] /\ 1 \in DOMAIN toHost
         /\ ~Asking /\ OfThisCall(Recv) /\ (Recv.kind = "keepalive" => Recv.code \in STATUS)
         /\ UNCHANGED <<call, cmd, toDev, dev, devReq, replyLen, replySent, executed>>
<1>1. pc = "read" /\ ~Resting /\ toHost # <<>> /\ toHost' = Tail(toHost)
  BY DEF Receive, Resting
<1>2. toHost \in Seq(ToHostPacket)
  BY DEF TypeOK, QueueType
<1>3. ~Asking /\ ReportsInOrder
  BY <1>1 DEF InOrder, RequestInOrder
<1>4. UNCHANGED <<call, cmd, toDev, dev, devReq, replyLen, replySent, executed>>
  BY DEF Receive, devVars, histVars
<1>5. Recv \in ToHostPacket
  BY <1>1, RecvType
<1>6. /\ DOMAIN toHost = 1 .. Len(toHost) /\ Len(toHost) \in Nat \ {0}
      /\ DOMAIN toHost' = 1 .. Len(toHost) - 1
      /\ Len(toHost') = Len(toHost) - 1
      /\ \A i \in DOMAIN toHost' : i + 1 \in DOMAIN toHost /\ toHost'[i] = toHost[i + 1]
      /\ Recv = toHost[1] /\ 1 \in DOMAIN toHost
  BY <1>1, <1>2, TailFacts DEF Recv
<1>7. OfThisCall(Recv) /\ (Recv.kind = "keepalive" => Recv.code \in STATUS)
  BY <1>3, <1>6 DEF ReportsInOrder
<1> QED BY <1>1, <1>2, <1>3, <1>4, <1>5, <1>6, <1>7

\* The first report is a keep-alive, or the next piece of the answer.
LEMMA NextPiece ==
  ASSUME TypeOK, InOrder, Clean, Receive, Recv.kind # "keepalive"
  PROVE  /\ ~Working /\ AnswerInOrder
         /\ replySent - Len(response) = Len(toHost)
         /\ Recv.kind \in {"data", "error"} /\ Recv.len = replyLen
         /\ Recv.piece = Len(response) + 1
         /\ Recv.kind = "error" => Len(toHost) = 1 /\ dev # "reply" /\ response = <<>>
         /\ Len(response) + 1 >= replyLen => Len(toHost) = 1 /\ dev # "reply"
         /\ Len(response) \in Nat /\ replyLen \in Nat /\ replySent \in Nat
         /\ replyLen <= MaxPackets
<1>1. ~Working /\ AnswerInOrder
  BY ReadFacts DEF InOrder, WorkInOrder
<1>2. /\ Len(response) \in Nat /\ replyLen \in Nat /\ replySent \in Nat
      /\ replyLen <= MaxPackets
      /\ dev = "reply" => replySent < replyLen
      /\ response = <<>> <=> Len(response) = 0
  BY HidAssumption, EmptySeq, LenProperties DEF TypeOK, ReaderType, DeviceType
<1>3. /\ Recv = toHost[1] /\ 1 \in 1 .. Len(toHost) /\ Len(toHost) \in Nat
  BY ReadFacts
<1>4. Len(toHost) - (replySent - Len(response)) = 0
  BY <1>1, <1>2, <1>3 DEF AnswerInOrder
<1>5. /\ Recv.kind \in {"data", "error"} /\ Recv.len = replyLen
      /\ Recv.piece = replySent - Len(toHost) + 1
      /\ Recv.kind = "error" => replyLen = 1
  BY <1>1, <1>2, <1>3, <1>4 DEF AnswerInOrder
<1>6. Len(response) < replyLen /\ replySent <= replyLen
      /\ (replySent = replyLen => dev # "reply")
  BY <1>1, <1>2 DEF AnswerInOrder, TypeOK, DeviceType
<1> HIDE <1>1
<1>7. replySent - Len(response) = Len(toHost) /\ Recv.piece = Len(response) + 1
  BY <1>2, <1>3, <1>4, <1>5
<1>8. Len(response) + 1 >= replyLen => Len(toHost) = 1 /\ replySent = replyLen
  <2> DEFINE r == Len(response)
             h == Len(toHost)
  <2>1. r \in Nat /\ h \in Nat /\ h >= 1 /\ replySent - r = h
        /\ replyLen \in Nat /\ replySent \in Nat /\ r < replyLen /\ replySent <= replyLen
    BY <1>2, <1>3, <1>6, <1>7
  <2> HIDE DEF r, h
  <2>2. r + 1 >= replyLen => h = 1 /\ replySent = replyLen
    BY <2>1
  <2> QED BY <2>2 DEF r, h
<1>9. replyLen = 1 => Len(response) = 0 /\ Len(response) + 1 >= replyLen
  BY <1>2, <1>6
<1> QED BY <1>1, <1>2, <1>5, <1>6, <1>7, <1>8, <1>9

\* The read that ends the call leaves nothing behind.
LEMMA LeaveInOrder ==
  ASSUME TypeOK, InOrder, Clean, Receive, Len(toHost) = 1, ~Working, dev # "reply",
         pc' \in {"idle", "closed"},
         result'.kind = "ok" => IsAnswer(result'.body, call)
  PROVE  InOrder'
<1>1. Resting' /\ ~Active'
  BY DEF Resting, Active
<1>2. toHost' = <<>>
  BY ReadFacts, EmptySeq, HeadTailProperties DEF Receive
<1>3. ~Asking' /\ dev' \in {"idle", "other"} /\ ~Working'
  BY ReadFacts DEF Asking, Working, TypeOK, DeviceType
<1>4. NotYetExecuted'
  BY <1>1, <1>2, <1>3, ReadFacts DEF InOrder, NotYetExecuted
<1>5. ResponseInOrder'
  BY <1>1, ReadFacts DEF ResponseInOrder
<1> QED BY <1>1, <1>2, <1>3, <1>4, <1>5 DEF InOrder

\* A read after which the loop goes on: chan, and the answer, stay in order.
LEMMA ContinueInOrder ==
  ASSUME TypeOK, InOrder, Clean, Receive, pc' = "check", UNCHANGED <<chan, result>>,
         Working => response' = <<>>, ~Working => AnswerInOrder',
         \A i \in DOMAIN response' : response'[i].call = call /\ response'[i].piece = i
  PROVE  InOrder'
<1>1. ~Resting' /\ ~Asking' /\ (Working' <=> Working)
  BY ReadFacts DEF Resting, Asking, Working
<1>2. RequestInOrder' /\ ReportsInOrder' /\ WorkInOrder'
  <2>1. RequestInOrder'
    BY <1>1, ReadFacts DEF RequestInOrder, Asking
  <2>2. ReportsInOrder'
    BY ReadFacts DEF InOrder, ReportsInOrder, OfThisCall
  <2>3. WorkInOrder'
    BY <1>1, ReadFacts DEF InOrder, WorkInOrder, OfThisCall
  <2> QED BY <2>1, <2>2, <2>3
<1>3. NotYetExecuted'
  <2>1. (\E i \in DOMAIN toHost' : toHost'[i].code = "CHANNEL_BUSY")
        => \E i \in DOMAIN toHost : toHost[i].code = "CHANNEL_BUSY"
    BY ReadFacts
  <2> QED BY <1>1, <2>1, ReadFacts DEF InOrder, NotYetExecuted
<1>4. ResponseInOrder'
  BY ReadFacts DEF InOrder, ResponseInOrder, Active
<1> QED BY <1>1, <1>2, <1>3, <1>4 DEF InOrder

\* A piece is taken over: it is the next one of the answer.
LEMMA ExtendInOrder ==
  ASSUME TypeOK, InOrder, Clean, Receive, Recv.kind = "data", NEW n,
         n = replyLen, response # <<>> => n = rlen, Extend(n)
  PROVE  InOrder'
<1> DEFINE chunk == [call |-> Recv.call, piece |-> Recv.piece, code |-> Recv.code]
<1> DEFINE body == Append(response, chunk)
<1>1. /\ ~Working /\ AnswerInOrder
      /\ replySent - Len(response) = Len(toHost)
      /\ Recv.piece = Len(response) + 1
      /\ Len(response) + 1 >= replyLen => Len(toHost) = 1 /\ dev # "reply"
      /\ Len(response) \in Nat /\ replyLen \in Nat /\ replySent \in Nat
  BY NextPiece
<1>2. /\ pc = "read" /\ Recv \in ToHostPacket /\ OfThisCall(Recv)
      /\ UNCHANGED <<call, cmd, toDev, dev, devReq, replyLen, replySent, executed>>
      /\ Len(toHost) \in Nat \ {0} /\ Len(toHost') = Len(toHost) - 1
      /\ DOMAIN toHost' = 1 .. Len(toHost) - 1
      /\ \A i \in DOMAIN toHost' : i + 1 \in DOMAIN toHost /\ toHost'[i] = toHost[i + 1]
  BY ReadFacts
<1>3. chunk \in Chunk /\ response \in Seq(Chunk)
  BY <1>2 DEF ToHostPacket, Report, Chunk, TypeOK, ReaderType
<1>4. /\ DOMAIN response = 1 .. Len(response)
      /\ DOMAIN body = 1 .. Len(response) + 1 /\ Len(body) = Len(response) + 1
      /\ \A i \in DOMAIN response : body[i] = response[i]
      /\ body[Len(response) + 1] = chunk
  BY <1>3, AppendFacts
<1>5. chunk.call = call /\ chunk.piece = Len(response) + 1
  BY <1>1, <1>2 DEF OfThisCall
<1>6. \A i \in DOMAIN response : response[i].call = call /\ response[i].piece = i
  BY <1>2 DEF InOrder, ResponseInOrder, Active
<1>7. \A i \in DOMAIN body : body[i].call = call /\ body[i].piece = i
  BY <1>1, <1>4, <1>5, <1>6
<1>8. body # <<>>
  BY <1>1, <1>4, EmptySeq
<1>9. response' = body /\ rlen' = n
  BY DEF Extend
<1> HIDE DEF chunk, body
<1>10. CASE Len(body) >= n
  <2>1. Len(toHost) = 1 /\ dev # "reply"
    BY <1>1, <1>4, <1>10
  <2>2. Return(body)
    BY <1>10 DEF Extend, body, chunk
  <2>3. body[1].call = call
    BY <1>1, <1>4, <1>7
  <2>4. pc' \in {"idle", "closed"} /\ result'.body = body
    BY <2>2, <2>3 DEF Return
  <2>5. IsAnswer(result'.body, call)
    BY <1>7, <1>8, <2>4 DEF IsAnswer
  <2> QED BY <1>1, <2>1, <2>4, <2>5, LeaveInOrder
<1>11. CASE ~(Len(body) >= n)
  <2>1. pc' = "check" /\ UNCHANGED <<chan, result>>
    BY <1>11 DEF Extend, body, chunk
  <2>2. AnswerInOrder'
    <3>1. Len(response') = Len(response) + 1
      BY <1>4, <1>9
    <3>2. /\ DOMAIN toHost = 1 .. Len(toHost)
          /\ \A i \in 1 .. Len(toHost) :
               /\ toHost[i].kind \in {"data", "error"}
               /\ toHost[i].piece = replySent - Len(toHost) + i
               /\ toHost[i].len = replyLen
               /\ toHost[i].kind = "error" => replyLen = 1
      BY <1>1, <1>2, ReadFacts DEF AnswerInOrder
    <3>3. \A i \in 1 .. Len(toHost) - 1 :
               /\ toHost'[i].kind \in {"data", "error"}
               /\ toHost'[i].piece = replySent - (Len(toHost) - 1) + i
               /\ toHost'[i].len = replyLen
               /\ toHost'[i].kind = "error" => replyLen = 1
      <4> SUFFICES ASSUME NEW i \in 1 .. Len(toHost) - 1
                   PROVE  /\ toHost'[i].kind \in {"data", "error"}
                          /\ toHost'[i].piece = replySent - (Len(toHost) - 1) + i
                          /\ toHost'[i].len = replyLen
                          /\ toHost'[i].kind = "error" => replyLen = 1
        OBVIOUS
      <4>1. i + 1 \in 1 .. Len(toHost) /\ toHost'[i] = toHost[i + 1] /\ i \in Nat
        BY <1>2, <3>2
      <4>2. /\ toHost[i + 1].kind \in {"data", "error"}
            /\ toHost[i + 1].piece = replySent - Len(toHost) + (i + 1)
            /\ toHost[i + 1].len = replyLen
            /\ toHost[i + 1].kind = "error" => replyLen = 1
        BY <3>2, <4>1
      <4>3. replySent - Len(toHost) + (i + 1) = replySent - (Len(toHost) - 1) + i
        BY <1>1, <1>2, <4>1
      <4> QED BY <4>1, <4>2, <4>3
    <3>4. dev # "reply" => replySent = replyLen
      BY <1>1 DEF AnswerInOrder
    <3>5. Len(response') < replyLen
      BY <1>1, <1>4, <1>9, <1>11
    <3> QED BY <1>1, <1>2, <1>9, <3>1, <3>3, <3>4, <3>5 DEF AnswerInOrder
  <2> QED BY <1>1, <1>7, <1>9, <2>1, <2>2, ContinueInOrder
<1> QED BY <1>10, <1>11

LEMMA ReadInOrder ==
  ASSUME TypeOK, InOrder, Clean, Read
  PROVE  InOrder'
<1>1. Receive
  BY DEF Read, ReadWrongChannel, ReadInitialization, ReadKeepalive, ReadError,
         ReadOtherCommand, ReadContinuation
<1>2. OfThisCall(Recv) /\ (Recv.kind = "keepalive" => Recv.code \in STATUS)
      /\ Recv \in ToHostPacket /\ pc = "read"
  BY <1>1, ReadFacts
<1>3. CASE ReadWrongChannel
  BY <1>2, <1>3 DEF ReadWrongChannel, OfThisCall
<1>4. CASE ReadInitialization
  <2>1. Recv.kind = "data" /\ response = <<>> /\ Extend(Recv.len)
    BY <1>4 DEF ReadInitialization
  <2>2. Recv.len = replyLen
    BY <1>1, <2>1, NextPiece
  <2> QED BY <1>1, <2>1, <2>2, ExtendInOrder
<1>5. CASE ReadKeepalive
  <2>1. /\ Recv.kind = "keepalive" /\ response = <<>> /\ response' = <<>>
        /\ pc' = "check" /\ UNCHANGED <<chan, result, rlen>>
    BY <1>2, <1>5 DEF ReadKeepalive
  <2>2. ~Working => AnswerInOrder'
    <3> SUFFICES ASSUME ~Working PROVE AnswerInOrder'
      OBVIOUS
    <3>1. AnswerInOrder
      BY <1>1, ReadFacts DEF InOrder
    <3>2. /\ Len(toHost) \in Nat \ {0} /\ Len(toHost') = Len(toHost) - 1
          /\ DOMAIN toHost' = 1 .. Len(toHost) - 1 /\ Recv = toHost[1]
          /\ \A i \in DOMAIN toHost' : i + 1 \in DOMAIN toHost /\ toHost'[i] = toHost[i + 1]
          /\ UNCHANGED <<dev, replyLen, replySent>>
      BY <1>1, ReadFacts
    <3>3. Len(response) = 0 /\ replySent \in Nat
      BY <2>1, EmptySeq DEF TypeOK, DeviceType
    <3>4. replySent < Len(toHost)
      BY <2>1, <3>1, <3>2, <3>3 DEF AnswerInOrder
    <3>5. \A i \in 1 .. Len(toHost) - 1 :
             IF i <= (Len(toHost) - 1) - replySent
             THEN toHost'[i].kind = "keepalive"
             ELSE /\ toHost'[i].kind \in {"data", "error"}
                  /\ toHost'[i].piece = replySent - (Len(toHost) - 1) + i
                  /\ toHost'[i].len = replyLen
                  /\ toHost'[i].kind = "error" => replyLen = 1
      <4> SUFFICES ASSUME NEW i \in 1 .. Len(toHost) - 1
                   PROVE  IF i <= (Len(toHost) - 1) - replySent
                          THEN toHost'[i].kind = "keepalive"
                          ELSE /\ toHost'[i].kind \in {"data", "error"}
                               /\ toHost'[i].piece = replySent - (Len(toHost) - 1) + i
                               /\ toHost'[i].len = replyLen
                               /\ toHost'[i].kind = "error" => replyLen = 1
        OBVIOUS
      <4>1. i + 1 \in 1 .. Len(toHost) /\ toHost'[i] = toHost[i + 1] /\ i \in Nat
        BY <3>2
      <4>2. IF i + 1 <= Len(toHost) - replySent
            THEN toHost[i + 1].kind = "keepalive"
            ELSE /\ toHost[i + 1].kind \in {"data", "error"}
                 /\ toHost[i + 1].piece = replySent - Len(toHost) + (i + 1)
                 /\ toHost[i + 1].len = replyLen
                 /\ toHost[i + 1].kind = "error" => replyLen = 1
        BY <3>1, <3>3, <4>1 DEF AnswerInOrder
      <4> QED BY <3>2, <3>3, <4>1, <4>2
    <3>6. (dev # "reply" => replySent = replyLen) /\ 0 < replyLen
      BY <3>1, <3>3 DEF AnswerInOrder
    <3> QED BY <2>1, <3>2, <3>3, <3>4, <3>5, <3>6 DEF AnswerInOrder
  <2>3. \A i \in DOMAIN response' : response'[i].call = call /\ response'[i].piece = i
    BY <2>1
  <2> QED BY <1>1, <2>1, <2>2, <2>3, ContinueInOrder
<1>6. CASE ReadError
  <2>1. Recv.kind = "error" /\ response = <<>> /\ response' = <<>>
    BY <1>6 DEF ReadError
  <2>2. Len(toHost) = 1 /\ ~Working /\ dev # "reply"
    BY <1>1, <2>1, NextPiece
  <2>3. CASE Recv.code = "CHANNEL_BUSY"
    <3>1. pc' = "wait" /\ UNCHANGED <<chan, result>>
      BY <1>6, <2>3 DEF ReadError
    <3>2. toHost' = <<>> /\ 1 \in DOMAIN toHost /\ Recv = toHost[1] /\ ~Asking
          /\ UNCHANGED <<call, cmd, toDev, dev, executed>>
      BY <1>1, <2>2, ReadFacts, EmptySeq
    <3>3. executed[call] = 0 /\ call # 0
      BY <1>2, <2>3, <3>2 DEF InOrder, NotYetExecuted, TypeOK, CallerType
    <3>4. NotYetExecuted'
      BY <3>2, <3>3 DEF InOrder, NotYetExecuted
    <3>5. Resting' /\ dev' \in {"idle", "other"} /\ ~Asking'
      BY <2>2, <3>1, <3>2 DEF Resting, Asking, Working, TypeOK, DeviceType
    <3>6. ResponseInOrder'
      BY <2>1, <3>1, <3>2 DEF InOrder, ResponseInOrder
    <3> QED BY <3>1, <3>2, <3>4, <3>5, <3>6 DEF InOrder
  <2>4. CASE Recv.code # "CHANNEL_BUSY"
    BY <1>1, <1>6, <2>2, <2>4, LeaveInOrder DEF ReadError, Raise
  <2> QED BY <2>3, <2>4
<1>7. CASE ReadOtherCommand
  <2>1. Recv.kind = "data" /\ Recv.piece = 1 /\ Recv.cmd = cmd
    BY <1>1, <1>2, <1>7, NextPiece, EmptySeq DEF ReadOtherCommand, OfThisCall
  <2> QED BY <1>7, <2>1 DEF ReadOtherCommand
<1>8. CASE ReadContinuation
  <2>1. response # <<>> /\ Recv.kind # "keepalive"
    <3>1. response # <<>>
      BY <1>8 DEF ReadContinuation
    <3>2. ~Working /\ AnswerInOrder
      BY <1>1, <3>1, ReadFacts DEF InOrder, WorkInOrder
    <3> QED BY <1>1, <3>1, <3>2, ReadFacts DEF AnswerInOrder
  <2>2. /\ AnswerInOrder /\ ~Working
        /\ Recv.kind \in {"data", "error"} /\ Recv.piece = Len(response) + 1
        /\ Recv.kind = "error" => response = <<>>
        /\ Len(response) \in Nat /\ replyLen \in Nat /\ replyLen <= MaxPackets
        /\ response # <<>> => Len(response) # 0
    BY <1>1, <2>1, NextPiece, EmptySeq DEF TypeOK, ReaderType
  <2>3. rlen = replyLen /\ Len(response) < replyLen
    BY <2>1, <2>2 DEF AnswerInOrder
  <2>4. (Recv.piece - 2) % SeqMod = Len(response) - 1
    <3>1. Len(response) - 1 \in 0 .. SeqMod - 1
      BY <2>1, <2>2, <2>3, HidAssumption
    <3> QED BY <2>2, <3>1, HidAssumption
  <2>5. IsNextContinuation(Recv)
    BY <2>1, <2>2, <2>4 DEF IsNextContinuation
  <2> QED BY <1>1, <1>8, <2>1, <2>2, <2>3, <2>5, ExtendInOrder DEF ReadContinuation
<1> QED BY <1>3, <1>4, <1>5, <1>6, <1>7, <1>8 DEF Read

LEMMA WaitInOrder ==
  ASSUME TypeOK, InOrder, Clean, RetryBusy \/ GiveUpBusy \/ SetEvent
  PROVE  InOrder'
<1>1. CASE RetryBusy
  <2>1. /\ Resting /\ Resting' /\ response' = <<>> /\ pc = "wait"
        /\ UNCHANGED <<call, cmd, chan, result, toDev, toHost, dev, executed>>
    BY <1>1 DEF RetryBusy, Attempt, Resting, devVars, histVars
  <2>2. NotYetExecuted'
    BY <2>1 DEF InOrder, NotYetExecuted, Asking, Working, TypeOK, CallerType
  <2>3. ResponseInOrder'
    BY <2>1 DEF InOrder, ResponseInOrder
  <2> QED BY <2>1, <2>2, <2>3 DEF InOrder, Asking
<1>2. CASE GiveUpBusy
  <2>1. /\ Resting /\ Resting' /\ ~Active' /\ pc' # "send" /\ pc = "wait"
        /\ UNCHANGED <<call, cmd, toDev, toHost, dev, executed>>
        /\ result'.kind = "CtapError"
    BY <1>2 DEF GiveUpBusy, Raise, Resting, Active, devVars, histVars
  <2>2. NotYetExecuted'
    BY <2>1 DEF InOrder, NotYetExecuted, Asking, Working
  <2>3. ResponseInOrder'
    BY <2>1 DEF ResponseInOrder
  <2> QED BY <2>1, <2>2, <2>3 DEF InOrder, Asking
<1>3. CASE SetEvent
  <2>1. UNCHANGED <<pc, sent, call, cmd, chan, response, rlen, result, toDev,
                    toHost, dev, devReq, replyLen, replySent, executed, interrupts,
                    faults>>
    BY <1>3 DEF SetEvent, devVars
  <2> QED BY <2>1 DEF InOrder, Resting, Asking, Working, Active, RequestInOrder,
        WorkInOrder, AnswerInOrder, ReportsInOrder, NotYetExecuted,
        ResponseInOrder, OfThisCall, Clean
<1> QED BY <1>1, <1>2, <1>3

\* What a step of the authenticator leaves alone.
LEMMA DevFrame ==
  ASSUME UNCHANGED clientVars
  PROVE  /\ UNCHANGED <<pc, sent, call, cmd, chan, response, rlen, result>>
         /\ Resting' <=> Resting
         /\ \A p : OfThisCall(p)' <=> OfThisCall(p)
  BY DEF clientVars, Resting, OfThisCall

LEMMA SameResponse ==
  ASSUME InOrder, Clean, UNCHANGED clientVars
  PROVE  ResponseInOrder' /\ (pc' = "send" => response' = <<>>)
  BY DEF clientVars, InOrder, ResponseInOrder, Active

\* A report is appended which is of this call, and no busy error.
LEMMA ReportInOrder ==
  ASSUME TypeOK, ~Resting, InOrder, Clean, UNCHANGED clientVars,
         NEW r \in ToHostPacket, toHost' = Append(toHost, r), OfThisCall(r),
         r.kind = "keepalive" => r.code \in STATUS
  PROVE  /\ ReportsInOrder'
         /\ DOMAIN toHost = 1 .. Len(toHost) /\ Len(toHost) \in Nat
         /\ DOMAIN toHost' = 1 .. Len(toHost) + 1
         /\ Len(toHost') = Len(toHost) + 1
         /\ \A i \in DOMAIN toHost : toHost'[i] = toHost[i]
         /\ toHost'[Len(toHost) + 1] = r
<1>1. /\ DOMAIN toHost = 1 .. Len(toHost) /\ Len(toHost) \in Nat
      /\ DOMAIN toHost' = 1 .. Len(toHost) + 1
      /\ Len(toHost') = Len(toHost) + 1
      /\ \A i \in DOMAIN toHost : toHost'[i] = toHost[i]
      /\ toHost'[Len(toHost) + 1] = r
  BY AppendFacts DEF TypeOK, QueueType
<1>2. UNCHANGED <<call, chan, cmd>>
  BY DEF clientVars
<1>3. ReportsInOrder'
  BY <1>1, <1>2 DEF InOrder, ReportsInOrder, OfThisCall
<1> QED BY <1>1, <1>3

\* The authenticator takes the first packet: what is left is in order.
LEMMA TakeInOrder ==
  ASSUME TypeOK, InOrder, Clean, DevReceive
  PROVE  /\ UNCHANGED clientVars /\ UNCHANGED executed /\ dev # "reply"
         /\ Head(toDev) \in ToDevPacket
         /\ Head(toDev).kind = "init" => ~Resting /\ Asking /\ ~Asking'
                                         /\ OfThisCall(Head(toDev))
                                         /\ \A i \in DOMAIN toDev' : OfThisCall(toDev'[i])
         /\ Head(toDev).kind # "init" => (Asking' <=> Asking)
         /\ ~Resting => \A i, j \in DOMAIN toDev' :
              toDev'[i].kind = "init" /\ i <= j =>
                OfThisCall(toDev'[j]) /\ (toDev'[j].kind = "init" => i = j)
         /\ ~Resting /\ Working => /\ OfThisCall(Head(toDev))
                                   /\ \A i \in DOMAIN toDev' : OfThisCall(toDev'[i])
<1> DEFINE p == Head(toDev)
<1>1. UNCHANGED clientVars /\ UNCHANGED executed /\ dev # "reply" /\ toDev # <<>>
      /\ toDev' = Tail(toDev)
  BY DEF DevReceive
<1>2. toDev \in Seq(ToDevPacket)
  BY DEF TypeOK, QueueType
<1>3. /\ DOMAIN toDev = 1 .. Len(toDev) /\ Len(toDev) \in Nat \ {0}
      /\ DOMAIN toDev' = 1 .. Len(toDev) - 1
      /\ \A i \in DOMAIN toDev' : i + 1 \in DOMAIN toDev /\ toDev'[i] = toDev[i + 1]
      /\ p = toDev[1] /\ 1 \in DOMAIN toDev
  BY <1>1, <1>2, TailFacts
<1>4. p \in ToDevPacket
  BY <1>1, <1>2, HeadTailProperties
<1> HIDE DEF p
<1>5. Asking => ~Resting
  BY DEF InOrder
<1>6. ~Resting => RequestInOrder
  BY DEF InOrder
<1>7. p.kind # "init" => (Asking' <=> Asking)
  <2> SUFFICES ASSUME p.kind # "init" PROVE Asking' <=> Asking
    OBVIOUS
  <2>1. Asking' => Asking
    BY <1>3 DEF Asking
  <2>2. ASSUME Asking PROVE Asking'
    <3>1. PICK i \in DOMAIN toDev : toDev[i].kind = "init"
      BY <2>2 DEF Asking
    <3>2. i # 1 /\ i - 1 \in DOMAIN toDev' /\ toDev'[i - 1] = toDev[(i - 1) + 1]
          /\ (i - 1) + 1 = i
      BY <1>3, <3>1
    <3> QED BY <3>1, <3>2 DEF Asking
  <2> QED BY <2>1, <2>2
<1>8. p.kind = "init" => /\ ~Resting /\ Asking /\ ~Asking' /\ OfThisCall(p)
                         /\ \A i \in DOMAIN toDev' : OfThisCall(toDev'[i])
  <2> SUFFICES ASSUME p.kind = "init"
               PROVE  /\ ~Resting /\ Asking /\ ~Asking' /\ OfThisCall(p)
                      /\ \A i \in DOMAIN toDev' : OfThisCall(toDev'[i])
    OBVIOUS
  <2>1. Asking /\ ~Resting /\ RequestInOrder
    BY <1>3, <1>5, <1>6 DEF Asking
  <2>2. \A j \in DOMAIN toDev : OfThisCall(toDev[j]) /\ (toDev[j].kind = "init" => j = 1)
    BY <1>3, <2>1 DEF RequestInOrder
  <2>3. OfThisCall(p)
    BY <1>3, <2>2
  <2>4. \A i \in DOMAIN toDev' : OfThisCall(toDev'[i]) /\ toDev'[i].kind # "init"
    BY <1>3, <2>2
  <2> QED BY <2>1, <2>3, <2>4 DEF Asking
<1>9. ~Resting => \A i, j \in DOMAIN toDev' :
              toDev'[i].kind = "init" /\ i <= j =>
                OfThisCall(toDev'[j]) /\ (toDev'[j].kind = "init" => i = j)
  <2> SUFFICES ASSUME ~Resting, NEW i \in DOMAIN toDev', NEW j \in DOMAIN toDev',
                      toDev'[i].kind = "init", i <= j
               PROVE  OfThisCall(toDev'[j]) /\ (toDev'[j].kind = "init" => i = j)
    OBVIOUS
  <2>1. i + 1 \in DOMAIN toDev /\ j + 1 \in DOMAIN toDev /\ i + 1 <= j + 1
        /\ toDev'[i] = toDev[i + 1] /\ toDev'[j] = toDev[j + 1] /\ i \in Int /\ j \in Int
    BY <1>3
  <2>2. OfThisCall(toDev[j + 1]) /\ (toDev[j + 1].kind = "init" => i + 1 = j + 1)
    BY <1>6, <2>1 DEF RequestInOrder
  <2> QED BY <2>1, <2>2
<1>10. ~Resting /\ Working => /\ OfThisCall(p)
                              /\ \A i \in DOMAIN toDev' : OfThisCall(toDev'[i])
  BY <1>3 DEF InOrder, WorkInOrder
<1> QED BY <1>1, <1>4, <1>7, <1>8, <1>9, <1>10 DEF p

\* An error packet is the whole answer to the attempt.
LEMMA ErrorInOrder ==
  ASSUME TypeOK, InOrder, Clean, UNCHANGED clientVars, ~Resting,
         \A i \in DOMAIN toHost : toHost[i].kind = "keepalive",
         response = <<>>, NEW p \in ToDevPacket, OfThisCall(p),
         NEW code \in {"CHANNEL_BUSY", "INVALID_SEQ", "OTHER"},
         SendError(p, code), dev' # "reply"
  PROVE  /\ AnswerInOrder' /\ ReportsInOrder'
         /\ code # "CHANNEL_BUSY" =>
              ((\E i \in DOMAIN toHost' : toHost'[i].code = "CHANNEL_BUSY")
               => \E i \in DOMAIN toHost : toHost[i].code = "CHANNEL_BUSY")
<1> DEFINE r == NewReport("error", p.ch, p.cmd, p.call, 1, 1, code)
<1>1. /\ r \in ToHostPacket /\ OfThisCall(r) /\ r.kind = "error"
      /\ r.piece = 1 /\ r.len = 1 /\ r.code = code
  BY HidAssumption DEF NewReport, ToHostPacket, Report, ToDevPacket, OfThisCall
<1>2. toHost' = Append(toHost, r) /\ replyLen' = 1 /\ replySent' = 1
  BY DEF SendError
<1> HIDE DEF r
<1>3. /\ ReportsInOrder'
      /\ DOMAIN toHost = 1 .. Len(toHost) /\ Len(toHost) \in Nat
      /\ DOMAIN toHost' = 1 .. Len(toHost) + 1
      /\ Len(toHost') = Len(toHost) + 1
      /\ \A i \in DOMAIN toHost : toHost'[i] = toHost[i]
      /\ toHost'[Len(toHost) + 1] = r
  BY <1>1, <1>2, ReportInOrder
<1>4. Len(response') = 0 /\ response' = <<>>
  BY EmptySeq DEF clientVars
<1>5. \A i \in 1 .. Len(toHost) + 1 :
         IF i <= Len(toHost) THEN toHost'[i].kind = "keepalive" ELSE toHost'[i] = r
  BY <1>3
<1>6. AnswerInOrder'
  BY <1>1, <1>2, <1>3, <1>4, <1>5 DEF AnswerInOrder
<1> QED BY <1>1, <1>3, <1>6

LEMMA DevReceiveInOrder ==
  ASSUME TypeOK, InOrder, Clean, DevReceive
  PROVE  InOrder'
<1> DEFINE p == Head(toDev)
<1>1. /\ UNCHANGED clientVars /\ UNCHANGED executed /\ dev # "reply"
      /\ p \in ToDevPacket
      /\ p.kind = "init" => /\ ~Resting /\ Asking /\ ~Asking' /\ OfThisCall(p)
                            /\ \A i \in DOMAIN toDev' : OfThisCall(toDev'[i])
      /\ p.kind # "init" => (Asking' <=> Asking)
      /\ ~Resting => \A i, j \in DOMAIN toDev' :
           toDev'[i].kind = "init" /\ i <= j =>
             OfThisCall(toDev'[j]) /\ (toDev'[j].kind = "init" => i = j)
      /\ ~Resting /\ Working => /\ OfThisCall(p)
                                /\ \A i \in DOMAIN toDev' : OfThisCall(toDev'[i])
  BY TakeInOrder
<1>2. /\ UNCHANGED <<pc, sent, call, cmd, chan, response, rlen, result>>
      /\ Resting' <=> Resting
      /\ \A q : OfThisCall(q)' <=> OfThisCall(q)
  BY <1>1, DevFrame
<1>3. ResponseInOrder' /\ (pc' = "send" => response' = <<>>)
  BY <1>1, SameResponse
<1>4. Asking => ~Resting /\ toHost = <<>> /\ response = <<>> /\ dev \in {"idle", "other"}
  BY DEF InOrder, RequestInOrder
<1>5. Resting => toHost = <<>> /\ ~Asking /\ dev \in {"idle", "other"}
  BY DEF InOrder
<1> HIDE DEF p
<1>6. CASE p.kind = "init" /\ dev = "idle" /\ Accept(p)
  <2>1. /\ Working' /\ ~Asking' /\ ~Resting' /\ toHost' = <<>> /\ devReq' = p
        /\ response' = <<>>
    BY <1>1, <1>2, <1>4, <1>6 DEF Accept, Working
  <2>2. RequestInOrder' /\ WorkInOrder' /\ ReportsInOrder'
    BY <1>1, <1>2, <1>6, <2>1
       DEF RequestInOrder, WorkInOrder, ReportsInOrder, Asking, OfThisCall
  <2>3. executed[call] = 0 \/ call = 0
    BY <1>1, <1>6 DEF InOrder, NotYetExecuted
  <2>4. NotYetExecuted'
    BY <1>1, <1>2, <2>3 DEF InOrder, NotYetExecuted
  <2> QED BY <1>3, <2>1, <2>2, <2>4 DEF InOrder
<1>7. CASE p.kind = "init" /\ Busy(p)
  <2>1. /\ ~Asking' /\ ~Resting' /\ toHost = <<>> /\ response = <<>>
        /\ dev' # "reply" /\ dev' \in {"idle", "other"} /\ OfThisCall(p) /\ ~Resting
    BY <1>1, <1>2, <1>4, <1>7 DEF Busy
  <2>2. AnswerInOrder' /\ ReportsInOrder'
    BY <1>1, <1>7, <2>1, ErrorInOrder DEF Busy
  <2>3. RequestInOrder' /\ WorkInOrder'
    BY <1>1, <1>2, <2>1 DEF RequestInOrder, WorkInOrder, Asking, Working
  <2>4. NotYetExecuted'
    BY <1>1, <1>2, <1>7 DEF InOrder, NotYetExecuted
  <2> QED BY <1>3, <2>1, <2>2, <2>3, <2>4 DEF InOrder
<1>8. CASE p.kind = "cont" /\ dev = "recv" /\ Reject(p)
  <2>1. /\ ~Asking' /\ ~Resting' /\ ~Asking /\ ~Resting
        /\ dev' = "idle" /\ OfThisCall(p) /\ Working
    BY <1>1, <1>2, <1>4, <1>5, <1>8 DEF Reject, Working
  <2>2. response = <<>> /\ \A i \in DOMAIN toHost : toHost[i].kind = "keepalive"
    BY <2>1 DEF InOrder, WorkInOrder
  <2>3. /\ AnswerInOrder' /\ ReportsInOrder'
        /\ (\E i \in DOMAIN toHost' : toHost'[i].code = "CHANNEL_BUSY")
           => \E i \in DOMAIN toHost : toHost[i].code = "CHANNEL_BUSY"
    BY <1>1, <1>8, <2>1, <2>2, ErrorInOrder DEF Reject
  <2>4. RequestInOrder' /\ WorkInOrder' /\ ~Working'
    BY <1>1, <1>2, <2>1 DEF RequestInOrder, WorkInOrder, Asking, Working
  <2>5. NotYetExecuted'
    BY <1>1, <1>2, <2>1, <2>3, <2>4 DEF InOrder, NotYetExecuted
  <2> QED BY <1>3, <2>1, <2>3, <2>4, <2>5 DEF InOrder
<1>9. CASE p.kind # "init" /\ dev = "recv" /\ Continue(p)
  <2>1. /\ Working /\ Working' /\ ~Asking /\ ~Asking' /\ ~Resting /\ ~Resting'
        /\ UNCHANGED <<toHost, devReq>>
    BY <1>1, <1>2, <1>4, <1>5, <1>9 DEF Continue, Working
  <2>2. RequestInOrder' /\ WorkInOrder' /\ ReportsInOrder'
    BY <1>1, <1>2, <2>1 DEF InOrder, RequestInOrder, WorkInOrder, ReportsInOrder,
                            Asking, OfThisCall
  <2>3. NotYetExecuted'
    BY <1>1, <1>2, <2>1 DEF InOrder, NotYetExecuted
  <2> QED BY <1>3, <2>1, <2>2, <2>3 DEF InOrder
<1>10. CASE p.kind # "init" /\ Ignore
  <2>1. /\ UNCHANGED <<dev, devReq, toHost, replyLen, replySent>>
        /\ (Asking' <=> Asking) /\ (Working' <=> Working)
    BY <1>1, <1>10 DEF Ignore, Working
  <2>2. ~Resting => RequestInOrder' /\ WorkInOrder' /\ ReportsInOrder'
    BY <1>1, <1>2, <1>4, <2>1 DEF InOrder, RequestInOrder, WorkInOrder,
                            ReportsInOrder, OfThisCall
  <2>3. ~Resting /\ ~Asking /\ ~Working => AnswerInOrder'
    BY <1>2, <2>1 DEF InOrder, AnswerInOrder
  <2>4. NotYetExecuted'
    BY <1>1, <1>2, <2>1 DEF InOrder, NotYetExecuted
  <2> QED BY <1>2, <1>3, <1>5, <2>1, <2>2, <2>3, <2>4 DEF InOrder
<1>11. CASE p.kind # "init" /\ dev = "user" /\ CancelRequest
  <2>1. /\ Working /\ ~Working' /\ ~Asking /\ ~Asking' /\ ~Resting /\ ~Resting'
        /\ UNCHANGED <<toHost, devReq>> /\ dev' = "reply" /\ replyLen' = 1 /\ replySent' = 0
    BY <1>1, <1>2, <1>4, <1>5, <1>11 DEF CancelRequest, Working
  <2>2. response = <<>> /\ \A i \in DOMAIN toHost : toHost[i].kind = "keepalive"
    BY <2>1 DEF InOrder, WorkInOrder
  <2>3. RequestInOrder' /\ WorkInOrder' /\ ReportsInOrder'
    BY <1>1, <1>2, <2>1 DEF InOrder, RequestInOrder, WorkInOrder, ReportsInOrder,
                            Asking, OfThisCall
  <2>4. AnswerInOrder'
    <3>1. Len(response') = 0 /\ response' = <<>> /\ Len(toHost) \in Nat
          /\ DOMAIN toHost = 1 .. Len(toHost)
      BY <1>2, <2>2, EmptySeq, LenProperties DEF TypeOK, QueueType
    <3> QED BY <2>1, <2>2, <3>1 DEF AnswerInOrder
  <2>5. NotYetExecuted'
    BY <1>1, <1>2, <2>1 DEF InOrder, NotYetExecuted
  <2> QED BY <1>3, <2>1, <2>3, <2>4, <2>5 DEF InOrder
<1> QED
  <2>1. DevReceive => \/ p.kind = "init" /\ dev = "idle" /\ Accept(p)
                      \/ p.kind = "init" /\ dev = "recv"
                      \/ p.kind = "init" /\ Busy(p)
                      \/ p.kind = "cont" /\ dev = "recv" /\ Continue(p)
                      \/ p.kind = "cont" /\ dev = "recv" /\ Reject(p)
                      \/ p.kind = "cont" /\ Ignore
                      \/ p.kind = "cancel" /\ dev = "user" /\ CancelRequest
                      \/ p.kind = "cancel" /\ Ignore
    BY DEF DevReceive, p
  <2> QED BY <1>1, <1>4, <1>6, <1>7, <1>8, <1>9, <1>10, <1>11, <2>1

LEMMA AnswerStepInOrder ==
  ASSUME TypeOK, InOrder, Clean, DevAnswer
  PROVE  InOrder'
<1>1. /\ UNCHANGED clientVars /\ UNCHANGED <<toDev, devReq>> /\ dev = "proc"
      /\ executed' = [executed EXCEPT ![devReq.call] =
                        IF executed[devReq.call] < 2 THEN executed[devReq.call] + 1
                        ELSE executed[devReq.call]]
  BY DEF DevAnswer
<1>2. /\ UNCHANGED <<pc, sent, call, cmd, chan, response, rlen, result>>
      /\ Resting' <=> Resting
      /\ \A q : OfThisCall(q)' <=> OfThisCall(q)
  BY <1>1, DevFrame
<1>3. ResponseInOrder' /\ (pc' = "send" => response' = <<>>)
  BY <1>1, SameResponse
<1>4. /\ ~Resting /\ Working /\ ~Asking /\ ~Asking' /\ ~Working'
      /\ response = <<>> /\ OfThisCall(devReq) /\ devReq \in ToDevPacket
      /\ \A i \in DOMAIN toHost : toHost[i].kind = "keepalive"
      /\ \A i \in DOMAIN toHost : toHost[i].code # "CHANNEL_BUSY"
  <2>1. ~Resting /\ Working /\ ~Asking /\ ~Asking' /\ ~Working'
    BY <1>1 DEF Working, InOrder, RequestInOrder, Asking, DevAnswer
  <2>2. WorkInOrder /\ ReportsInOrder
    BY <2>1 DEF InOrder
  <2> QED BY <2>1, <2>2 DEF WorkInOrder, ReportsInOrder, STATUS, TypeOK, DeviceType
<1>5. call \in Calls /\ devReq.call = call /\ call # 0 /\ executed[call] = 0
  BY <1>4 DEF OfThisCall, InOrder, NotYetExecuted, ToDevPacket, Calls, TypeOK, CallerType
<1>6. \A m \in Calls : executed'[m] <= 1 /\ (m > call' => executed'[m] = 0)
  <2>1. executed \in [Calls -> 0 .. 2] /\ call \in Int
    BY <1>5 DEF TypeOK, HistoryType, CallerType
  <2>2. executed'[call] = 1 /\ \A m \in Calls \ {call} : executed'[m] = executed[m]
    BY <1>1, <1>5, <2>1
  <2>3. \A m \in Calls : m > call => m # call /\ executed[m] = 0
    BY <2>1 DEF InOrder, NotYetExecuted, Calls
  <2>4. \A m \in Calls : executed[m] <= 1
    BY DEF InOrder, NotYetExecuted
  <2> QED BY <1>2, <2>2, <2>3, <2>4
<1>7. RequestInOrder' /\ ~Resting'
  BY <1>1, <1>2, <1>4 DEF InOrder, RequestInOrder, Asking
<1>8. WorkInOrder'
  BY <1>1, <1>2, <1>4 DEF WorkInOrder
<1>9. ~(pc' = "wait" \/ (pc' = "send" /\ sent' = 0))
  BY <1>7 DEF Resting
<1>10. CASE dev' = "reply" /\ UNCHANGED toHost
  <2>1. ReportsInOrder'
    BY <1>2, <1>4, <1>10 DEF InOrder, ReportsInOrder, OfThisCall
  <2>2. NotYetExecuted'
    BY <1>4, <1>6, <1>9, <1>10 DEF NotYetExecuted
  <2>3. AnswerInOrder'
    <3>1. Len(response') = 0 /\ response' = <<>> /\ Len(toHost) \in Nat
          /\ DOMAIN toHost = 1 .. Len(toHost)
      BY <1>2, <1>4, EmptySeq, LenProperties DEF TypeOK, QueueType
    <3>2. replySent' = 0 /\ replyLen' \in Nat \ {0}
      BY <1>10 DEF DevAnswer, SendError
    <3> QED BY <1>4, <1>10, <3>1, <3>2 DEF AnswerInOrder
  <2> QED BY <1>3, <1>7, <1>8, <2>1, <2>2, <2>3 DEF InOrder
<1>11. CASE dev' = "idle" /\ SendError(devReq, "OTHER")
  <2>1. /\ AnswerInOrder' /\ ReportsInOrder'
        /\ ~\E i \in DOMAIN toHost' : toHost'[i].code = "CHANNEL_BUSY"
    BY <1>1, <1>4, <1>11, ErrorInOrder
  <2>2. NotYetExecuted'
    BY <1>4, <1>6, <1>9, <2>1 DEF NotYetExecuted
  <2> QED BY <1>3, <1>7, <1>8, <2>1, <2>2 DEF InOrder
<1> QED BY <1>10, <1>11 DEF DevAnswer

LEMMA PieceInOrder ==
  ASSUME TypeOK, InOrder, Clean, Clean', DevSendPiece
  PROVE  InOrder'
<1>1. /\ UNCHANGED clientVars /\ UNCHANGED <<toDev, devReq, replyLen, executed>>
      /\ dev = "reply" /\ dev' \in {"idle", "reply"} /\ replySent' = replySent + 1
      /\ dev' = "idle" <=> replySent + 1 = replyLen
      /\ toHost' = Append(toHost, Piece)
  BY DEF DevSendPiece, Clean, TypeOK, HistoryType
<1>2. /\ UNCHANGED <<pc, sent, call, cmd, chan, response, rlen, result>>
      /\ Resting' <=> Resting
      /\ \A q : OfThisCall(q)' <=> OfThisCall(q)
  BY <1>1, DevFrame
<1>3. ResponseInOrder' /\ (pc' = "send" => response' = <<>>)
  BY <1>1, SameResponse
<1>4. /\ ~Resting /\ ~Working /\ ~Asking /\ ~Asking' /\ ~Working'
      /\ OfThisCall(devReq) /\ devReq \in ToDevPacket /\ AnswerInOrder
  BY <1>1 DEF Working, InOrder, RequestInOrder, WorkInOrder, Asking, TypeOK, DeviceType
<1>5. /\ Piece \in ToHostPacket /\ OfThisCall(Piece)
      /\ Piece.kind = "data" /\ Piece.piece = replySent + 1 /\ Piece.len = replyLen
      /\ Piece.code # "CHANNEL_BUSY"
      /\ replySent \in Nat /\ replyLen \in Nat
  <2>1. /\ replySent + 1 \in 1 .. MaxPackets /\ replyLen \in 1 .. MaxPackets
        /\ replyCode \in {"OK", "CANCELLED"} /\ replySent \in Nat
    BY <1>1, HidAssumption DEF TypeOK, DeviceType
  <2>2. Piece \in ToHostPacket
    BY <1>4, <2>1 DEF Piece, NewReport, ToHostPacket, Report, ToDevPacket
  <2> QED BY <1>4, <2>1, <2>2 DEF Piece, NewReport, OfThisCall
<1>6. /\ ReportsInOrder'
      /\ DOMAIN toHost = 1 .. Len(toHost) /\ Len(toHost) \in Nat
      /\ DOMAIN toHost' = 1 .. Len(toHost) + 1
      /\ Len(toHost') = Len(toHost) + 1
      /\ \A i \in DOMAIN toHost : toHost'[i] = toHost[i]
      /\ toHost'[Len(toHost) + 1] = Piece
  BY <1>1, <1>4, <1>5, ReportInOrder
<1>7. RequestInOrder' /\ WorkInOrder' /\ ~Resting'
  BY <1>1, <1>2, <1>4 DEF InOrder, RequestInOrder, WorkInOrder, Asking
<1>8. NotYetExecuted'
  BY <1>1, <1>2, <1>4, <1>5, <1>6 DEF InOrder, NotYetExecuted
<1>9. AnswerInOrder'
  <2>1. Len(response) \in Nat
    BY LenProperties DEF TypeOK, ReaderType
  <2>2. \A i \in 1 .. Len(toHost) + 1 :
           IF i <= Len(toHost) THEN toHost'[i] = toHost[i] ELSE toHost'[i] = Piece
    BY <1>6
  <2> DEFINE first == Len(toHost) - (replySent - Len(response))
  <2>4. /\ replySent - Len(response) \in 0 .. Len(toHost) /\ first \in Nat
        /\ first <= Len(toHost) /\ Len(response) < replyLen
        /\ first = (Len(toHost) + 1) - ((replySent + 1) - Len(response))
        /\ response # <<>> => first = 0 /\ rlen = replyLen
        /\ (replySent + 1) - Len(response) \in 0 .. Len(toHost) + 1
    BY <1>4, <1>5, <1>6, <2>1 DEF AnswerInOrder
  <2>5. \A i \in 1 .. Len(toHost) :
           IF i <= first THEN toHost[i].kind = "keepalive"
           ELSE /\ toHost[i].kind \in {"data", "error"}
                /\ toHost[i].piece = replySent - Len(toHost) + i
                /\ toHost[i].len = replyLen
                /\ toHost[i].kind = "error" => replyLen = 1
    BY <1>4 DEF AnswerInOrder
  <2>6. \A i \in 1 .. Len(toHost) + 1 :
           IF i <= first THEN toHost'[i].kind = "keepalive"
           ELSE /\ toHost'[i].kind \in {"data", "error"}
                /\ toHost'[i].piece = (replySent + 1) - (Len(toHost) + 1) + i
                /\ toHost'[i].len = replyLen
                /\ toHost'[i].kind = "error" => replyLen = 1
    <3> HIDE DEF first
    <3> SUFFICES ASSUME NEW i \in 1 .. Len(toHost) + 1
                 PROVE  IF i <= first THEN toHost'[i].kind = "keepalive"
                        ELSE /\ toHost'[i].kind \in {"data", "error"}
                             /\ toHost'[i].piece = (replySent + 1) - (Len(toHost) + 1) + i
                             /\ toHost'[i].len = replyLen
                             /\ toHost'[i].kind = "error" => replyLen = 1
      OBVIOUS
    <3>1. CASE i = Len(toHost) + 1
      <4>1. toHost'[i] = Piece /\ ~(i <= first)
        BY <1>6, <2>4, <3>1
      <4>2. (replySent + 1) - (Len(toHost) + 1) + i = replySent + 1
        BY <1>5, <1>6, <3>1
      <4> QED BY <1>5, <4>1, <4>2
    <3>2. CASE i # Len(toHost) + 1
      <4>1. i \in 1 .. Len(toHost) /\ toHost'[i] = toHost[i]
        BY <1>6, <3>2
      <4>2. (replySent + 1) - (Len(toHost) + 1) + i = replySent - Len(toHost) + i
        BY <1>5, <1>6, <4>1
      <4> QED BY <2>5, <4>1, <4>2
    <3> QED BY <3>1, <3>2
  <2>7. dev' # "reply" => replySent' = replyLen'
    BY <1>1
  <2> HIDE DEF first
  <2> QED BY <1>1, <1>2, <1>6, <2>4, <2>6, <2>7 DEF AnswerInOrder
<1> QED BY <1>3, <1>4, <1>6, <1>7, <1>8, <1>9 DEF InOrder

LEMMA KeepaliveInOrder ==
  ASSUME TypeOK, InOrder, Clean, Clean', DevKeepalive
  PROVE  InOrder'
<1>1. UNCHANGED clientVars /\ UNCHANGED <<toDev, executed, dev, devReq>> /\ Working
  BY DEF DevKeepalive, devVars, Working
<1>2. /\ UNCHANGED <<pc, sent, call, cmd, chan, response, rlen, result>>
      /\ Resting' <=> Resting
      /\ \A q : OfThisCall(q)' <=> OfThisCall(q)
  BY <1>1, DevFrame
<1>3. ResponseInOrder' /\ (pc' = "send" => response' = <<>>)
  BY <1>1, SameResponse
<1>4. /\ ~Resting /\ ~Asking /\ ~Asking' /\ Working' /\ OfThisCall(devReq)
      /\ devReq \in ToDevPacket /\ WorkInOrder
  BY <1>1 DEF Working, InOrder, RequestInOrder, WorkInOrder, Asking, TypeOK, DeviceType
<1>5. PICK st \in STATUS : toHost' = Keepalive(st)
  BY DEF DevKeepalive, Clean, TypeOK, HistoryType, STATUS
<1> DEFINE r == NewReport("keepalive", devReq.ch, devReq.cmd, devReq.call, 1, 1, st)
<1>6. /\ r \in ToHostPacket /\ OfThisCall(r) /\ r.kind = "keepalive" /\ r.code \in STATUS
      /\ toHost' = Append(toHost, r) /\ r.code # "CHANNEL_BUSY"
  BY <1>4, <1>5, HidAssumption DEF Keepalive, NewReport, ToHostPacket, Report,
     ToDevPacket, OfThisCall, STATUS
<1> HIDE DEF r
<1>7. /\ ReportsInOrder'
      /\ DOMAIN toHost = 1 .. Len(toHost) /\ Len(toHost) \in Nat
      /\ DOMAIN toHost' = 1 .. Len(toHost) + 1
      /\ \A i \in DOMAIN toHost : toHost'[i] = toHost[i]
      /\ toHost'[Len(toHost) + 1] = r
  BY <1>1, <1>4, <1>6, ReportInOrder
<1>8. RequestInOrder' /\ WorkInOrder'
  BY <1>1, <1>2, <1>4, <1>6, <1>7 DEF InOrder, RequestInOrder, WorkInOrder, Asking
<1>9. NotYetExecuted'
  BY <1>1, <1>2, <1>4, <1>6, <1>7 DEF InOrder, NotYetExecuted
<1> QED BY <1>2, <1>3, <1>4, <1>7, <1>8, <1>9 DEF InOrder

LEMMA DevStateInOrder ==
  ASSUME TypeOK, InOrder, Clean, Clean',
         DevNeedUser \/ UserTouch \/ OtherBegin \/ OtherEnd
  PROVE  InOrder'
<1>1. /\ UNCHANGED clientVars
      /\ UNCHANGED <<toDev, toHost, executed, devReq, replyLen, replySent>>
      /\ dev \in {"proc", "user", "idle", "other"}
      /\ Working' <=> Working
      /\ dev' # "reply" /\ (dev \in {"idle", "other"} => dev' \in {"idle", "other"})
  BY DEF DevNeedUser, UserTouch, OtherBegin, OtherEnd, histVars, Working, Clean,
         TypeOK, HistoryType
<1>2. /\ UNCHANGED <<pc, sent, call, cmd, chan, response, rlen, result>>
      /\ Resting' <=> Resting
      /\ \A q : OfThisCall(q)' <=> OfThisCall(q)
  BY <1>1, DevFrame
<1>3. ResponseInOrder' /\ (pc' = "send" => response' = <<>>)
  BY <1>1, SameResponse
<1>4. Asking' <=> Asking
  BY <1>1 DEF Asking
<1>5. ~Resting => RequestInOrder' /\ WorkInOrder' /\ ReportsInOrder'
  BY <1>1, <1>2, <1>4 DEF InOrder, RequestInOrder, WorkInOrder, ReportsInOrder,
     OfThisCall
<1>6. ~Resting /\ ~Asking /\ ~Working => AnswerInOrder'
  BY <1>1, <1>2 DEF InOrder, AnswerInOrder
<1>7. NotYetExecuted'
  BY <1>1, <1>2, <1>4 DEF InOrder, NotYetExecuted
<1> QED BY <1>1, <1>2, <1>3, <1>4, <1>5, <1>6, <1>7 DEF InOrder

LEMMA NextInOrder == TypeOK /\ InOrder /\ [Next]_vars => InOrder'
<1> SUFFICES ASSUME TypeOK, InOrder, [Next]_vars, Clean' PROVE InOrder'
  BY DEF InOrder
<1>1. Clean
  BY DEF Next, vars, histVars, Open, Call, Close, StartCall, ThreadStep, WritePacket,
     CheckCancel, Read, ReadWrongChannel, ReadInitialization, ReadKeepalive,
     ReadError, ReadOtherCommand, ReadContinuation, Receive, RetryBusy, GiveUpBusy,
     Interrupt, SetEvent, DevReceive, DevWork, DevNeedUser, DevAnswer, UserTouch,
     DevSendPiece, DevKeepalive, OtherBegin, OtherEnd, Clean, TypeOK, HistoryType
<1>2. CASE UNCHANGED vars
  BY <1>2 DEF vars, clientVars, devVars, histVars, InOrder, Resting, Asking, Working,
     Active, RequestInOrder, WorkInOrder, AnswerInOrder, ReportsInOrder,
     NotYetExecuted, ResponseInOrder, OfThisCall, Clean
<1>3. ~Interrupt
  BY DEF Interrupt, Clean, TypeOK, HistoryType
<1> QED BY <1>1, <1>2, <1>3, CallerStepInOrder, WriteInOrder, ReadInOrder, WaitInOrder,
           DevReceiveInOrder, AnswerStepInOrder, PieceInOrder, KeepaliveInOrder,
           DevStateInOrder DEF Next, ThreadStep, DevWork

LEMMA InOrderAlways == Spec => [](TypeOK /\ InOrder)
<1>1. Init => TypeOK /\ InOrder
  BY InitTypeOK, InitInOrder
<1>2. TypeOK /\ InOrder /\ [Next]_vars => (TypeOK /\ InOrder)'
  BY NextTypeOK, NextInOrder
<1> QED BY <1>1, <1>2, PTL DEF Spec

(* While no call was interrupted and no report lost, what call() returns   *)
(* is the whole answer to the command it sent.                             *)
THEOREM ReturnsOwnResponse == Spec => []OwnResponse
<1>1. TypeOK /\ InOrder => OwnResponse
  BY DEF InOrder, ResponseInOrder, OwnResponse
<1> QED BY <1>1, InOrderAlways, PTL

(* ... a call leaves nothing behind that the next one could read ...       *)
THEOREM HandsOverClean == Spec => []CleanHandover
<1>1. TypeOK /\ InOrder => CleanHandover
  BY DEF InOrder, Resting, Asking, CleanHandover
<1> QED BY <1>1, InOrderAlways, PTL

(* ... and a command is carried out at most once, however often a busy     *)
(* authenticator made call() send it.                                      *)
THEOREM ExecutesAtMostOnce == Spec => []AtMostOnce
<1>1. TypeOK /\ InOrder => AtMostOnce
  BY DEF InOrder, NotYetExecuted, AtMostOnce
<1> QED BY <1>1, InOrderAlways, PTL
=============================================================================
