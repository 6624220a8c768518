-------------------------- MODULE CtapHidCall_proofs --------------------------
(***************************************************************************)
(* More theorems about the CTAPHID transport: whose call a CANCEL hits,    *)
(* that a response is never made of two answers, and that an undisturbed   *)
(* transport implements CtapCall. For every number of calls, packets,      *)
(* interrupts and faults, as in CtapHid_proofs, whose invariant InOrder    *)
(* (what a connection looks like as long as nothing disturbs it) is used.  *)
(***************************************************************************)
EXTENDS CtapHid_proofs

\* A step does not undo an interrupt or a fault.
LEMMA StaysUnclean == TypeOK /\ [Next]_vars => (Clean' => Clean) /\ (faults' <= 1 => faults <= 1)
<1> SUFFICES ASSUME TypeOK, [Next]_vars
             PROVE  (Clean' => Clean) /\ (faults' <= 1 => faults <= 1)
  OBVIOUS
<1>1. /\ interrupts \in Nat /\ faults \in Nat
      /\ interrupts' = interrupts \/ interrupts' = interrupts + 1
      /\ faults' = faults \/ faults' = faults + 1
  BY DEF Next, vars, histVars, Open, Call, Close, StartCall, ThreadStep, WritePacket,
     CheckCancel, Read, ReadWrongChannel, ReadInitialization, ReadKeepalive,
     ReadError, ReadOtherCommand, ReadContinuation, Receive, RetryBusy, GiveUpBusy,
     Interrupt, SetEvent, DevReceive, DevWork, DevNeedUser, DevAnswer, UserTouch,
     DevSendPiece, DevKeepalive, OtherBegin, OtherEnd, TypeOK, HistoryType
<1> QED BY <1>1 DEF Clean

-----------------------------------------------------------------------------
(* CANCEL: CancelsInOrder is inductive.                                    *)

LEMMA InitCancels == Init => CancelsInOrder
  BY DEF Init, CancelsInOrder, CancelHitsItsCall, Active, Working

\* Most steps send nothing, accept nothing and cancel nothing.
LEMMA CancelsKept ==
  ASSUME CancelsInOrder, UNCHANGED <<call, asked, cancelled, toDev>>,
         Active' /\ event' => Active /\ event,
         Working' => Working /\ devReq' = devReq, Clean' => Clean
  PROVE  CancelsInOrder'
  BY DEF CancelsInOrder, CancelHitsItsCall

LEMMA ToDevCalls ==
  ASSUME toDev \in Seq(ToDevPacket)
  PROVE  \A i \in DOMAIN toDev : toDev[i].call \in Calls
<1> SUFFICES ASSUME NEW i \in DOMAIN toDev PROVE toDev[i].call \in Calls
  OBVIOUS
<1>1. toDev[i] \in ToDevPacket
  OBVIOUS
<1> QED BY <1>1 DEF ToDevPacket

LEMMA StartCallCancels ==
  ASSUME TypeOK, CancelsInOrder, NEW c, NEW n, NEW e, StartCall(c, n, e)
  PROVE  CancelsInOrder'
<1>1. /\ call' = call + 1 /\ call \in Nat
      /\ event' = e /\ asked' = IF e THEN asked \cup {call + 1} ELSE asked
      /\ UNCHANGED <<toDev, dev, devReq, cancelled, interrupts, faults>>
  BY DEF StartCall, devVars, TypeOK, CallerType
<1>2. asked \subseteq asked' /\ (e => call' \in asked')
  BY <1>1
<1>3. toDev \in Seq(ToDevPacket) /\ devReq \in ToDevPacket
  BY DEF TypeOK, QueueType, DeviceType
<1>4. \A i \in DOMAIN toDev : toDev[i].call \in Int
  BY <1>3, ToDevCalls DEF Calls
<1>5. cancelled' \subseteq 1 .. call' /\ call' \notin cancelled'
  BY <1>1 DEF CancelsInOrder
<1>6. CancelHitsItsCall'
  BY <1>1, <1>2, <1>5 DEF CancelsInOrder, CancelHitsItsCall, Clean
<1>7. \A i \in DOMAIN toDev' :
           /\ toDev'[i].call <= call'
           /\ toDev'[i].kind = "cancel" => toDev'[i].call \in asked'
           /\ Working' => devReq'.call <= toDev'[i].call
           /\ \A j \in DOMAIN toDev' : i <= j => toDev'[i].call <= toDev'[j].call
  BY <1>1, <1>2, <1>4 DEF CancelsInOrder, Working
<1>8. Working' => devReq'.call <= call'
  BY <1>1, <1>3 DEF CancelsInOrder, Working, ToDevPacket, Calls
<1> QED BY <1>1, <1>2, <1>5, <1>6, <1>7, <1>8 DEF CancelsInOrder

\* A packet of the call is written: a CANCEL only if the caller asked for it.
LEMMA SendCancels ==
  ASSUME TypeOK, CancelsInOrder, UNCHANGED <<call, dev, devReq, cancelled>>,
         asked \subseteq asked', Clean' => Clean,
         Active' /\ event' => call \in asked',
         NEW p \in ToDevPacket, toDev' = Append(toDev, p), p.call = call,
         p.kind = "cancel" => call \in asked'
  PROVE  CancelsInOrder'
<1>1. /\ DOMAIN toDev' = 1 .. Len(toDev) + 1 /\ Len(toDev) \in Nat
      /\ DOMAIN toDev = 1 .. Len(toDev)
      /\ \A i \in DOMAIN toDev : toDev'[i] = toDev[i]
      /\ toDev'[Len(toDev) + 1] = p
  BY AppendFacts DEF TypeOK, QueueType
<1>2. call \in Int
  BY DEF TypeOK, CallerType
<1>3. \A i \in DOMAIN toDev' :
           /\ toDev'[i].call <= call'
           /\ toDev'[i].kind = "cancel" => toDev'[i].call \in asked'
           /\ Working' => devReq'.call <= toDev'[i].call
           /\ \A j \in DOMAIN toDev' : i <= j => toDev'[i].call <= toDev'[j].call
  <2> SUFFICES ASSUME NEW i \in DOMAIN toDev'
               PROVE  /\ toDev'[i].call <= call'
                      /\ toDev'[i].kind = "cancel" => toDev'[i].call \in asked'
                      /\ Working' => devReq'.call <= toDev'[i].call
                      /\ \A j \in DOMAIN toDev' : i <= j => toDev'[i].call <= toDev'[j].call
    OBVIOUS
  <2>1. CASE i = Len(toDev) + 1
    BY <1>1, <1>2, <2>1 DEF CancelsInOrder, Working
  <2>2. CASE i # Len(toDev) + 1
    BY <1>1, <1>2, <2>2 DEF CancelsInOrder, Working
  <2> QED BY <2>1, <2>2
<1>4. CancelHitsItsCall'
  BY DEF CancelsInOrder, CancelHitsItsCall
<1>5. (Working' => devReq'.call <= call') /\ cancelled' \subseteq 1 .. call'
  BY DEF CancelsInOrder, Working
<1> QED BY <1>3, <1>4, <1>5 DEF CancelsInOrder

LEMMA WriteCancels ==
  ASSUME TypeOK, CancelsInOrder, WritePacket \/ CheckCancel
  PROVE  CancelsInOrder'
<1>1. /\ UNCHANGED <<call, dev, devReq, cancelled, asked, event, interrupts, faults>>
      /\ Active /\ call # 0
  BY DEF WritePacket, CheckCancel, devVars, histVars, Active, TypeOK, CallerType
<1>2. Clean' => Clean
  BY <1>1 DEF Clean
<1>3. CASE WritePacket
  <2>1. (IF sent = 0 THEN 0 ELSE (sent - 1) % SeqMod) \in 0 .. SeqMod - 1
    BY HidAssumption DEF TypeOK, CallerType
  <2>2. \A k \in {"init", "cont", "cancel"}, q \in 0 .. SeqMod - 1 :
           Packet(k, q) \in ToDevPacket
    BY <1>1, PacketType
  <2>3. PICK p \in ToDevPacket : toDev' = Append(toDev, p) /\ p.kind # "cancel"
                                 /\ p.call = call
    BY <1>3, <2>1, <2>2 DEF WritePacket, Packet
  <2> QED BY <1>1, <1>2, <2>3, SendCancels DEF CancelsInOrder
<1>4. CASE CheckCancel
  <2>1. CASE event
    <3>1. Packet("cancel", 0) \in ToDevPacket
      BY <1>1, PacketType, HidAssumption
    <3>2. toDev' = Append(toDev, Packet("cancel", 0)) /\ Packet("cancel", 0).call = call
      BY <1>4, <2>1 DEF CheckCancel, Packet
    <3>3. call \in asked
      BY <1>1, <2>1 DEF CancelsInOrder
    <3> QED BY <1>1, <1>2, <3>1, <3>2, <3>3, SendCancels
  <2>2. CASE ~event
    <3>1. UNCHANGED toDev
      BY <1>4, <2>2 DEF CheckCancel
    <3> QED BY <1>1, <1>2, <2>2, <3>1, CancelsKept DEF Working
  <2> QED BY <2>1, <2>2
<1> QED BY <1>3, <1>4

LEMMA InterruptCancels ==
  ASSUME TypeOK, CancelsInOrder, Interrupt
  PROVE  CancelsInOrder'
<1>1. /\ UNCHANGED <<call, dev, devReq, cancelled>> /\ asked' = asked \cup {call}
      /\ ~Active' /\ ~Clean' /\ call # 0
  BY DEF Interrupt, Raise, Active, devVars, Clean, TypeOK, CallerType, HistoryType
<1>2. CASE pc \in {"check", "read"}
  <2>1. Packet("cancel", 0) \in ToDevPacket /\ Packet("cancel", 0).call = call
    BY <1>1, PacketType, HidAssumption DEF Packet
  <2> QED BY <1>1, <1>2, <2>1, SendCancels DEF Interrupt
<1>3. CASE pc \notin {"check", "read"}
  BY <1>1, <1>3 DEF Interrupt, CancelsInOrder, CancelHitsItsCall, Working
<1> QED BY <1>2, <1>3

LEMMA SetEventCancels ==
  ASSUME CancelsInOrder, SetEvent
  PROVE  CancelsInOrder'
  BY DEF SetEvent, CancelsInOrder, CancelHitsItsCall, Working, devVars, Clean

(* The packet the authenticator takes is of the call it works on, or of a  *)
(* later one; undisturbed, the call it works on is the one under way.      *)
LEMMA DevReceiveCancels ==
  ASSUME TypeOK, InOrder, CancelsInOrder, DevReceive
  PROVE  CancelsInOrder'
<1> DEFINE p == Head(toDev)
<1>1. /\ UNCHANGED <<pc, event, call, asked, interrupts, faults>> /\ toDev # <<>>
      /\ toDev' = Tail(toDev)
      /\ Active' <=> Active
  BY DEF DevReceive, clientVars, Active
<1>2. /\ DOMAIN toDev = 1 .. Len(toDev) /\ Len(toDev) \in Nat \ {0}
      /\ DOMAIN toDev' = 1 .. Len(toDev) - 1
      /\ \A i \in DOMAIN toDev' : i + 1 \in DOMAIN toDev /\ toDev'[i] = toDev[i + 1]
      /\ p = toDev[1] /\ 1 \in DOMAIN toDev
  BY <1>1, TailFacts DEF TypeOK, QueueType
<1>3. /\ Working' => (Working /\ devReq' = devReq) \/ devReq' = p
      /\ \/ cancelled' = cancelled
         \/ cancelled' = cancelled \cup {devReq.call} /\ Working /\ p.kind = "cancel"
  <2>1. \/ Accept(p)
        \/ Reject(p)
        \/ Busy(p)
        \/ dev = "recv" /\ Continue(p)
        \/ Ignore
        \/ p.kind = "cancel" /\ dev = "user" /\ CancelRequest
    BY DEF DevReceive
  <2>2. CASE Accept(p)
    BY <2>2 DEF Accept
  <2>3. CASE Reject(p)
    BY <2>3 DEF Reject, Working
  <2>4. CASE Busy(p) \/ Ignore
    BY <2>4 DEF Busy, Ignore, Working
  <2>5. CASE dev = "recv" /\ Continue(p)
    BY <2>5 DEF Continue, Working
  <2>6. CASE p.kind = "cancel" /\ dev = "user" /\ CancelRequest
    BY <2>6 DEF CancelRequest, Working
  <2> QED BY <2>1, <2>2, <2>3, <2>4, <2>5, <2>6
<1>4. /\ p.call \in Calls /\ devReq.call \in Calls /\ call \in Nat
      /\ \A i \in DOMAIN toDev : toDev[i].call \in Calls
  <2>1. \A i \in DOMAIN toDev : toDev[i].call \in Calls
    BY ToDevCalls DEF TypeOK, QueueType
  <2>2. devReq.call \in Calls /\ call \in Nat
    BY DEF TypeOK, DeviceType, ToDevPacket, CallerType
  <2> QED BY <1>2, <2>1, <2>2
<1> HIDE DEF p
<1>5. /\ p.call <= call /\ (p.kind = "cancel" => p.call \in asked)
      /\ Working => devReq.call <= p.call
  BY <1>2 DEF CancelsInOrder
<1>6. \A i \in DOMAIN toDev' :
           /\ toDev'[i].call <= call'
           /\ toDev'[i].kind = "cancel" => toDev'[i].call \in asked'
           /\ Working' => devReq'.call <= toDev'[i].call
           /\ \A j \in DOMAIN toDev' : i <= j => toDev'[i].call <= toDev'[j].call
  <2> SUFFICES ASSUME NEW i \in DOMAIN toDev'
               PROVE  /\ toDev'[i].call <= call'
                      /\ toDev'[i].kind = "cancel" => toDev'[i].call \in asked'
                      /\ Working' => devReq'.call <= toDev'[i].call
                      /\ \A j \in DOMAIN toDev' : i <= j => toDev'[i].call <= toDev'[j].call
    OBVIOUS
  <2>1. i + 1 \in DOMAIN toDev /\ toDev'[i] = toDev[i + 1] /\ 1 <= i + 1 /\ i \in Nat
    BY <1>2
  <2>2. p.call <= toDev'[i].call
    BY <1>2, <2>1 DEF CancelsInOrder
  <2>3. Working' => devReq'.call <= toDev'[i].call
    BY <1>3, <2>1, <2>2 DEF CancelsInOrder
  <2>4. \A j \in DOMAIN toDev' : i <= j => toDev'[i].call <= toDev'[j].call
    BY <1>2, <2>1 DEF CancelsInOrder
  <2> QED BY <1>1, <2>1, <2>3, <2>4 DEF CancelsInOrder
<1>7. Working' => devReq'.call <= call'
  BY <1>1, <1>3, <1>5 DEF CancelsInOrder
<1>8. cancelled' \subseteq 1 .. call'
  <2>1. Working => devReq.call \in 1 .. call
    BY <1>4 DEF CancelsInOrder, Calls
  <2> QED BY <1>1, <1>3, <2>1 DEF CancelsInOrder
<1>9. CancelHitsItsCall'
  <2>1. CASE cancelled' = cancelled
    BY <1>1, <2>1 DEF CancelsInOrder, CancelHitsItsCall, Clean
  <2>2. CASE cancelled' = cancelled \cup {devReq.call} /\ Working /\ p.kind = "cancel"
    <3>1. devReq.call = call => call \in asked
      BY <1>4, <1>5, <2>2 DEF Calls
    <3>2. Clean => devReq.call = call
      <4>1. Clean => ~Resting
        BY <2>2 DEF InOrder, Working
      <4> QED BY <2>2, <4>1 DEF InOrder, WorkInOrder, OfThisCall
    <3> QED BY <1>1, <2>2, <3>1, <3>2 DEF CancelsInOrder, CancelHitsItsCall, Clean
  <2> QED BY <1>3, <2>1, <2>2
<1> QED BY <1>1, <1>6, <1>7, <1>8, <1>9 DEF CancelsInOrder

LEMMA NextCancels == TypeOK /\ InOrder /\ CancelsInOrder /\ [Next]_vars => CancelsInOrder'
<1> SUFFICES ASSUME TypeOK, InOrder, CancelsInOrder, [Next]_vars PROVE CancelsInOrder'
  OBVIOUS
<1>0. Clean' => Clean
  BY StaysUnclean
<1>1. CASE Open \/ Call
  BY <1>1, StartCallCancels DEF Open, Call
<1>2. CASE Close
  BY <1>0, <1>2, CancelsKept DEF Close, Active, Working, devVars, histVars
<1>3. CASE Read \/ RetryBusy \/ GiveUpBusy
  <2>1. Active /\ UNCHANGED <<event, call, asked, cancelled, toDev, dev, devReq>>
    BY <1>3 DEF Read, ReadWrongChannel, ReadInitialization, ReadKeepalive, ReadError,
       ReadOtherCommand, ReadContinuation, Receive, RetryBusy, GiveUpBusy, Active,
       devVars, histVars
  <2> QED BY <1>0, <2>1, CancelsKept DEF Working
<1>4. CASE \/ DevWork \/ UserTouch \/ DevSendPiece \/ DevKeepalive \/ OtherBegin
           \/ OtherEnd
  <2>1. /\ UNCHANGED <<pc, event, call, asked, cancelled, toDev, devReq>>
        /\ Working' => Working
    BY <1>4 DEF DevWork, DevNeedUser, DevAnswer, UserTouch, DevSendPiece, DevKeepalive,
       OtherBegin, OtherEnd, clientVars, devVars, histVars, Working
  <2> QED BY <1>0, <2>1, CancelsKept DEF Active
<1>5. CASE UNCHANGED vars
  BY <1>0, <1>5, CancelsKept DEF vars, clientVars, devVars, histVars, Active, Working
<1> QED BY <1>1, <1>2, <1>3, <1>4, <1>5, WriteCancels, InterruptCancels, SetEventCancels,
           DevReceiveCancels DEF Next, ThreadStep

(* CANCEL carries no command, and yet the call it hits is one whose caller *)
(* asked for it, with the proviso CancelHitsItsCall states: the order of   *)
(* the packets sees to it, whatever is interrupted or lost.                *)
THEOREM CancelsOwnCall == Spec => []CancelHitsItsCall
<1>1. Init => CancelsInOrder
  BY InitCancels
<1>2. TypeOK /\ InOrder /\ CancelsInOrder /\ [Next]_vars => CancelsInOrder'
  BY NextCancels
<1>3. CancelsInOrder => CancelHitsItsCall
  BY DEF CancelsInOrder
<1> QED BY <1>1, <1>2, <1>3, InOrderAlways, PTL DEF Spec

-----------------------------------------------------------------------------
(* on_keepalive: KeepalivesInOrder is inductive.                           *)

LEMMA InitKeepalives == Init => KeepalivesInOrder
  BY DEF Init, KeepalivesInOrder, KeepaliveOnce, Active, Asking, Silent

\* Steps that read nothing and send no report.
LEMMA KeepalivesKept ==
  ASSUME KeepalivesInOrder, Clean, UNCHANGED <<heard, lastKa, toHost>>,
         Active' => Active, pc' \in {"send", "wait"} => pc \in {"send", "wait"},
         Asking' => Asking \/ pc = "send",
         dev \in {"idle", "other"} => dev' \in {"idle", "other"} \/ toHost = <<>>
  PROVE  KeepalivesInOrder'
<1>1. KeepaliveOnce'
  BY DEF KeepalivesInOrder, KeepaliveOnce
<1>2. (pc' \in {"send", "wait"} \/ Asking') => lastKa' = "none"
  BY DEF KeepalivesInOrder
<1>3. toHost = <<>> => ~\E i \in DOMAIN toHost : toHost[i].code = "CHANNEL_BUSY"
  OBVIOUS
<1> QED BY <1>1, <1>2, <1>3 DEF KeepalivesInOrder

LEMMA CallerStepKeepalives ==
  ASSUME TypeOK, InOrder, KeepalivesInOrder, Clean, Open \/ Call \/ Close
  PROVE  KeepalivesInOrder'
<1>1. CASE Open \/ Call
  <2>1. /\ heard' = Silent /\ lastKa' = "none" /\ toHost' = <<>>
    BY <1>1 DEF Open, Call, StartCall, Attempt, InOrder, Resting
  <2> QED BY <2>1 DEF KeepalivesInOrder, KeepaliveOnce, Silent
<1>2. CASE Close
  BY <1>2, KeepalivesKept DEF Close, Active, Asking, devVars
<1> QED BY <1>1, <1>2

LEMMA WriteKeepalives ==
  ASSUME TypeOK, InOrder, KeepalivesInOrder, Clean, WritePacket \/ CheckCancel
  PROVE  KeepalivesInOrder'
<1>1. /\ UNCHANGED <<heard, lastKa, toHost, dev>> /\ Active
      /\ pc' = "send" => pc = "send" /\ pc' # "wait"
  BY DEF WritePacket, CheckCancel, devVars, Active
<1>2. Asking' => Asking \/ pc = "send"
  <2>1. CASE WritePacket
    BY <2>1 DEF WritePacket
  <2>2. CASE CheckCancel
    <3>1. toDev \in Seq(ToDevPacket) /\ call # 0
      BY <2>2 DEF TypeOK, QueueType, CallerType, CheckCancel
    <3>2. Packet("cancel", 0) \in ToDevPacket /\ Packet("cancel", 0).kind = "cancel"
      BY <3>1, PacketType, HidAssumption DEF Packet
    <3> QED BY <2>2, <3>1, <3>2, AppendFacts DEF CheckCancel, Asking
  <2> QED BY <2>1, <2>2
<1>3. pc' \in {"send", "wait"} => pc \in {"send", "wait"}
  BY <1>1 DEF WritePacket, CheckCancel
<1> QED BY <1>1, <1>2, <1>3, KeepalivesKept

LEMMA ReadKeepalives ==
  ASSUME TypeOK, InOrder, KeepalivesInOrder, Clean, Read
  PROVE  KeepalivesInOrder'
<1>1. Receive
  BY DEF Read, ReadWrongChannel, ReadInitialization, ReadKeepalive, ReadError,
         ReadOtherCommand, ReadContinuation
<1>2. /\ pc = "read" /\ Active /\ ~Asking /\ ~Asking'
      /\ (Recv.kind = "keepalive" => Recv.code \in STATUS)
      /\ Len(toHost') = Len(toHost) - 1 /\ DOMAIN toHost' = 1 .. Len(toHost) - 1
      /\ \A i \in DOMAIN toHost' : i + 1 \in DOMAIN toHost /\ toHost'[i] = toHost[i + 1]
      /\ Recv = toHost[1] /\ 1 \in DOMAIN toHost /\ Len(toHost) \in Nat
  <2>1. pc = "read" /\ ~Asking /\ UNCHANGED toDev
    BY <1>1, ReadFacts
  <2>2. Active /\ ~Asking'
    BY <2>1 DEF Active, Asking
  <2>3. /\ Recv.kind = "keepalive" => Recv.code \in STATUS
        /\ Recv = toHost[1] /\ 1 \in DOMAIN toHost /\ Len(toHost) \in Nat
    BY <1>1, ReadFacts
  <2>4. toHost \in Seq(ToHostPacket) /\ toHost # <<>> /\ toHost' = Tail(toHost)
    BY <1>1 DEF Receive, TypeOK, QueueType
  <2>5. /\ Len(toHost') = Len(toHost) - 1 /\ DOMAIN toHost' = 1 .. Len(toHost) - 1
        /\ \A i \in DOMAIN toHost' : i + 1 \in DOMAIN toHost /\ toHost'[i] = toHost[i + 1]
    BY <2>4, TailFacts
  <2> QED BY <2>1, <2>2, <2>3, <2>5
<1>3. ~\E i \in DOMAIN toHost' : toHost'[i].code = "CHANNEL_BUSY"
  BY <1>2 DEF KeepalivesInOrder
<1>4. ~heard.twice /\ heard.last = lastKa
  BY <1>2 DEF KeepalivesInOrder, KeepaliveOnce
<1>5. CASE ReadKeepalive
  <2>1. /\ pc' = "check" /\ lastKa' = Recv.code
        /\ IF Recv.code # lastKa THEN OnKeepalive(Recv.code) ELSE UNCHANGED heard
    BY <1>2, <1>5 DEF ReadKeepalive
  <2>2. heard'.last = Recv.code /\ ~heard'.twice
    <3>1. CASE Recv.code = lastKa
      BY <1>4, <2>1, <3>1
    <3>2. CASE Recv.code # lastKa
      <4>1. heard' = [last |-> Recv.code, twice |-> heard.twice]
        BY <1>4, <2>1, <3>2, Zenon DEF OnKeepalive
      <4>2. heard'.twice = heard.twice /\ heard'.last = Recv.code
        BY <4>1, Zenon
      <4> QED BY <1>4, <4>2
    <3> QED BY <3>1, <3>2
  <2> QED BY <1>2, <1>3, <2>1, <2>2 DEF KeepalivesInOrder, KeepaliveOnce
<1>6. CASE ~ReadKeepalive
  <2>1. UNCHANGED <<heard, lastKa>> /\ pc' # "send"
    BY <1>6 DEF Read, ReadWrongChannel, ReadInitialization, ReadError, ReadOtherCommand,
       ReadContinuation, Extend, Return, Raise
  <2>2. pc' = "wait" => lastKa = "none"
    <3> SUFFICES ASSUME pc' = "wait" PROVE lastKa = "none"
      OBVIOUS
    <3>1. Recv.code = "CHANNEL_BUSY"
      BY <1>6 DEF Read, ReadWrongChannel, ReadInitialization, ReadError,
         ReadOtherCommand, ReadContinuation, Extend, Return, Raise
    <3> QED BY <1>2, <3>1 DEF KeepalivesInOrder
  <2> QED BY <1>2, <1>3, <1>4, <2>1, <2>2 DEF KeepalivesInOrder, KeepaliveOnce
<1> QED BY <1>5, <1>6

LEMMA WaitKeepalives ==
  ASSUME InOrder, KeepalivesInOrder, Clean, RetryBusy \/ GiveUpBusy \/ SetEvent
  PROVE  KeepalivesInOrder'
<1>1. CASE RetryBusy
  <2>1. lastKa' = lastKa /\ UNCHANGED <<heard, toHost, toDev, dev>> /\ pc = "wait"
    BY <1>1 DEF RetryBusy, Attempt, KeepalivesInOrder, devVars
  <2> QED BY <2>1, KeepalivesKept DEF Asking, Active
<1>2. CASE GiveUpBusy \/ SetEvent
  BY <1>2, KeepalivesKept DEF GiveUpBusy, SetEvent, Raise, Asking, Active, devVars
<1> QED BY <1>1, <1>2

\* A report other than CHANNEL_BUSY, while none of those is unread.
LEMMA ReportKeepalives ==
  ASSUME TypeOK, KeepalivesInOrder, Clean, UNCHANGED clientVars, Asking' => Asking,
         dev \notin {"idle", "other"},
         NEW r \in ToHostPacket, r.code # "CHANNEL_BUSY", toHost' = Append(toHost, r)
  PROVE  KeepalivesInOrder'
<1>1. ~\E i \in DOMAIN toHost : toHost[i].code = "CHANNEL_BUSY"
  BY DEF KeepalivesInOrder
<1>2. ~\E i \in DOMAIN toHost' : toHost'[i].code = "CHANNEL_BUSY"
  BY <1>1, AppendFacts DEF TypeOK, QueueType
<1>3. UNCHANGED <<pc, heard, lastKa>>
  BY DEF clientVars
<1> QED BY <1>2, <1>3 DEF KeepalivesInOrder, KeepaliveOnce, Active

LEMMA ErrorReport ==
  ASSUME NEW p \in ToDevPacket, NEW code \in {"CHANNEL_BUSY", "INVALID_SEQ", "OTHER"},
         SendError(p, code)
  PROVE  \E r \in ToHostPacket : /\ r.kind = "error" /\ r.code = code /\ r.call = p.call
                               /\ toHost' = Append(toHost, r)
<1> DEFINE r == NewReport("error", p.ch, p.cmd, p.call, 1, 1, code)
<1>1. r \in ToHostPacket /\ r.kind = "error" /\ r.code = code /\ r.call = p.call
  BY HidAssumption DEF NewReport, ToHostPacket, Report, ToDevPacket
<1>2. toHost' = Append(toHost, r)
  BY DEF SendError
<1> HIDE DEF r
<1> QED BY <1>1, <1>2

LEMMA PieceType ==
  ASSUME TypeOK, dev = "reply"
  PROVE  /\ Piece \in ToHostPacket /\ Piece.kind = "data" /\ Piece.call = devReq.call
         /\ Piece.piece = replySent + 1 /\ Piece.len = replyLen
         /\ Piece.code # "CHANNEL_BUSY" /\ replySent \in Nat /\ replyLen \in Nat
<1>1. /\ replySent + 1 \in 1 .. MaxPackets /\ replyLen \in 1 .. MaxPackets
      /\ replyCode \in {"OK", "CANCELLED"} /\ replySent \in Nat /\ devReq \in ToDevPacket
  BY HidAssumption DEF TypeOK, DeviceType
<1>2. Piece \in ToHostPacket
  BY <1>1 DEF Piece, NewReport, ToHostPacket, Report, ToDevPacket
<1> QED BY <1>1, <1>2 DEF Piece, NewReport

LEMMA DevReceiveKeepalives ==
  ASSUME TypeOK, InOrder, KeepalivesInOrder, Clean, DevReceive
  PROVE  KeepalivesInOrder'
<1> DEFINE p == Head(toDev)
<1>1. /\ UNCHANGED clientVars /\ p \in ToDevPacket /\ dev # "reply"
      /\ p.kind = "init" => Asking /\ ~Asking'
      /\ p.kind # "init" => (Asking' <=> Asking)
  BY TakeInOrder
<1>2. UNCHANGED <<pc, heard, lastKa>> /\ (Asking' => Asking) /\ (Active' => Active)
  BY <1>1 DEF clientVars, Active
<1>3. Asking => toHost = <<>> /\ dev \in {"idle", "other"} /\ lastKa = "none"
  BY DEF InOrder, RequestInOrder, KeepalivesInOrder
<1> HIDE DEF p
<1>4. CASE p.kind = "init" /\ dev = "idle" /\ Accept(p)
  BY <1>1, <1>2, <1>3, <1>4, KeepalivesKept DEF Accept
<1>5. CASE p.kind = "init" /\ Busy(p)
  <2>1. PICK r \in ToHostPacket : toHost' = Append(toHost, r)
    BY <1>1, <1>5, ErrorReport DEF Busy
  <2>2. Len(toHost') = 1
    BY <1>1, <1>3, <1>5, <2>1, AppendFacts, EmptySeq DEF TypeOK, QueueType
  <2>3. dev' \in {"idle", "other"} /\ lastKa' = "none"
    BY <1>1, <1>2, <1>3, <1>5 DEF Busy
  <2> QED BY <1>2, <2>2, <2>3 DEF KeepalivesInOrder, KeepaliveOnce
<1>6. CASE p.kind = "cont" /\ dev = "recv" /\ Reject(p)
  <2>1. PICK r \in ToHostPacket : r.code = "INVALID_SEQ" /\ toHost' = Append(toHost, r)
    BY <1>1, <1>6, ErrorReport DEF Reject
  <2> QED BY <1>1, <1>2, <1>6, <2>1, ReportKeepalives
<1>7. CASE dev = "recv" /\ Continue(p)
  BY <1>1, <1>2, <1>7, KeepalivesKept DEF Continue
<1>8. CASE Ignore
  BY <1>1, <1>2, <1>8, KeepalivesKept DEF Ignore
<1>9. CASE dev = "user" /\ CancelRequest
  BY <1>1, <1>2, <1>9, KeepalivesKept DEF CancelRequest
<1>10. CASE p.kind = "init" /\ dev = "recv"
  BY <1>1, <1>3, <1>10
<1> QED
  <2>1. \/ p.kind = "init" /\ dev = "idle" /\ Accept(p)
        \/ p.kind = "init" /\ dev = "recv"
        \/ p.kind = "init" /\ Busy(p)
        \/ dev = "recv" /\ Continue(p)
        \/ p.kind = "cont" /\ dev = "recv" /\ Reject(p)
        \/ Ignore
        \/ dev = "user" /\ CancelRequest
    BY DEF DevReceive, p
  <2> QED BY <1>4, <1>5, <1>6, <1>7, <1>8, <1>9, <1>10, <2>1

LEMMA DevStepKeepalives ==
  ASSUME TypeOK, InOrder, KeepalivesInOrder, Clean, Clean',
         \/ DevNeedUser \/ UserTouch \/ DevAnswer \/ DevSendPiece
         \/ DevKeepalive \/ OtherBegin \/ OtherEnd
  PROVE  KeepalivesInOrder'
<1>1. UNCHANGED clientVars /\ UNCHANGED <<toDev, devReq>> /\ devReq \in ToDevPacket
  BY DEF DevNeedUser, UserTouch, DevAnswer, DevSendPiece, DevKeepalive, OtherBegin,
     OtherEnd, devVars, TypeOK, DeviceType
<1>2. UNCHANGED <<pc, heard, lastKa>> /\ (Asking' <=> Asking) /\ (Active' <=> Active)
  BY <1>1 DEF clientVars, Active, Asking
<1>3. CASE DevNeedUser \/ UserTouch \/ OtherBegin \/ OtherEnd
  <2>1. UNCHANGED toHost
    BY <1>3 DEF DevNeedUser, UserTouch, OtherBegin, OtherEnd, Clean, TypeOK, HistoryType
  <2>2. dev \in {"idle", "other"} => dev' \in {"idle", "other"}
    BY <1>3 DEF DevNeedUser, UserTouch, OtherBegin, OtherEnd
  <2> QED BY <1>2, <2>1, <2>2, KeepalivesKept
<1>4. CASE DevAnswer
  <2>1. CASE UNCHANGED toHost
    BY <1>2, <1>4, <2>1, KeepalivesKept DEF DevAnswer
  <2>2. CASE SendError(devReq, "OTHER")
    <3>1. PICK r \in ToHostPacket : r.code = "OTHER" /\ toHost' = Append(toHost, r)
      BY <1>1, <2>2, ErrorReport
    <3>2. dev = "proc"
      BY <1>4 DEF DevAnswer
    <3> QED BY <1>1, <1>2, <3>1, <3>2, ReportKeepalives
  <2> QED BY <1>4, <2>1, <2>2 DEF DevAnswer
<1>5. CASE DevSendPiece
  <2>1. dev = "reply" /\ toHost' = Append(toHost, Piece)
    BY <1>5 DEF DevSendPiece, Clean, TypeOK, HistoryType
  <2>2. Piece \in ToHostPacket /\ Piece.code # "CHANNEL_BUSY"
    BY <2>1, PieceType
  <2> QED BY <1>1, <1>2, <2>1, <2>2, ReportKeepalives
<1>6. CASE DevKeepalive
  <2>1. PICK st \in STATUS : toHost' = Keepalive(st)
    BY <1>6 DEF DevKeepalive, Clean, TypeOK, HistoryType, STATUS
  <2>2. PICK r \in ToHostPacket : r.code # "CHANNEL_BUSY" /\ toHost' = Append(toHost, r)
    <3> DEFINE r == NewReport("keepalive", devReq.ch, devReq.cmd, devReq.call, 1, 1, st)
    <3>1. r \in ToHostPacket /\ r.code # "CHANNEL_BUSY"
      BY <1>1, HidAssumption DEF NewReport, ToHostPacket, Report, ToDevPacket, STATUS
    <3>2. toHost' = Append(toHost, r)
      BY <2>1 DEF Keepalive
    <3> HIDE DEF r
    <3> QED BY <3>1, <3>2
  <2>3. dev \notin {"idle", "other"}
    BY <1>6 DEF DevKeepalive
  <2> QED BY <1>1, <1>2, <2>2, <2>3, ReportKeepalives
<1> QED BY <1>3, <1>4, <1>5, <1>6

LEMMA NextKeepalives ==
  TypeOK /\ InOrder /\ KeepalivesInOrder /\ [Next]_vars => KeepalivesInOrder'
<1> SUFFICES ASSUME TypeOK, InOrder, KeepalivesInOrder, [Next]_vars, Clean'
             PROVE  KeepalivesInOrder'
  BY DEF KeepalivesInOrder
<1>1. Clean
  BY StaysUnclean
<1>2. CASE UNCHANGED vars
  BY <1>1, <1>2, KeepalivesKept DEF vars, clientVars, devVars, Active, Asking
<1>3. ~Interrupt
  BY DEF Interrupt, Clean, TypeOK, HistoryType
<1> QED BY <1>1, <1>2, <1>3, CallerStepKeepalives, WriteKeepalives, ReadKeepalives,
           WaitKeepalives, DevReceiveKeepalives, DevStepKeepalives
        DEF Next, ThreadStep, DevWork

-----------------------------------------------------------------------------
(* A response is never stitched together: AnswersFit is inductive.         *)

LEMMA InitFits == Init => AnswersFit
  BY DEF Init, AnswersFit, PiecesFit, NextPieceFits, ResponseOfOneCall, Whole, LastSent,
     LastTaken, NothingTaken, Active, NoResult

\* Only the reading thread holds a piece, and every report has one.
LEMMA LastPiece ==
  ASSUME TypeOK
  PROVE  LastTaken.piece \in Nat \ {0} /\ LastSent.piece \in Nat \ {0}
<1>1. LastTaken.piece \in Nat \ {0}
  <2>1. response # <<>> => Len(response) \in Nat \ {0}
    BY LenProperties, EmptySeq DEF TypeOK, ReaderType
  <2> QED BY <2>1 DEF LastTaken, NothingTaken
<1>2. toHost # <<>> => toHost[Len(toHost)].piece \in Nat \ {0}
  <2> SUFFICES ASSUME toHost # <<>> PROVE toHost[Len(toHost)].piece \in Nat \ {0}
    OBVIOUS
  <2>1. toHost \in Seq(ToHostPacket) /\ Len(toHost) \in DOMAIN toHost
    BY TailFacts DEF TypeOK, QueueType
  <2>2. toHost[Len(toHost)] \in ToHostPacket
    BY <2>1
  <2> QED BY <2>2 DEF ToHostPacket, Report
<1> QED BY <1>1, <1>2 DEF LastSent

LEMMA NothingFits ==
  /\ Whole(NothingTaken)
  /\ \A r : Fits(NothingTaken, r)
  BY DEF Whole, Fits, NothingTaken

\* The thread does something else than reading.
LEMMA ClientFits ==
  ASSUME PiecesFit, NextPieceFits,
         UNCHANGED <<dev, devReq, replyLen, replySent, faults>>,
         \/ UNCHANGED toHost /\ LastTaken' \in {LastTaken, NothingTaken}
         \/ toHost' = <<>> /\ LastTaken' = NothingTaken
  PROVE  PiecesFit' /\ NextPieceFits'
<1>1. PiecesFit'
  BY NothingFits DEF PiecesFit
<1>2. LastSent' \in {LastSent, NothingTaken}
  BY DEF LastSent
<1>3. NextPieceFits'
  BY <1>2, NothingFits DEF NextPieceFits
<1> QED BY <1>1, <1>3

\* A read takes the first report: at most that is the new LastTaken.
LEMMA TakeFits ==
  ASSUME TypeOK, PiecesFit, NextPieceFits, Receive,
         \/ LastTaken' = NothingTaken
         \/ /\ LastTaken'.kind = Recv.kind /\ LastTaken'.call = Recv.call
            /\ LastTaken'.piece = Recv.piece /\ LastTaken'.len = Recv.len
  PROVE  PiecesFit' /\ NextPieceFits'
<1>1. toHost \in Seq(ToHostPacket) /\ toHost # <<>> /\ toHost' = Tail(toHost)
      /\ UNCHANGED <<dev, devReq, replyLen, replySent, faults>>
  BY DEF Receive, TypeOK, QueueType, devVars, histVars
<1>2. /\ Len(toHost') = Len(toHost) - 1 /\ DOMAIN toHost' = 1 .. Len(toHost) - 1
      /\ \A i \in DOMAIN toHost' : i + 1 \in DOMAIN toHost /\ toHost'[i] = toHost[i + 1]
      /\ DOMAIN toHost = 1 .. Len(toHost) /\ Len(toHost) \in Nat \ {0}
      /\ Recv = toHost[1] /\ 1 \in DOMAIN toHost
  BY <1>1, TailFacts DEF Recv
<1>3. toHost' = <<>> <=> Len(toHost) = 1
  <2>1. toHost' \in Seq(ToHostPacket)
    BY <1>1, HeadTailProperties
  <2> QED BY <1>2, <2>1, EmptySeq
<1>4. \A r : Fits(Recv, r) => Fits(LastTaken', r)
  BY NothingFits DEF Fits, Whole
<1>5. Whole(Recv) => Whole(LastTaken')
  BY NothingFits DEF Whole
<1>6. toHost' # <<>> => Fits(LastTaken', toHost'[1])
  <2> SUFFICES ASSUME toHost' # <<>> PROVE Fits(LastTaken', toHost'[1])
    OBVIOUS
  <2>1. 1 \in DOMAIN toHost' /\ 1 + 1 \in DOMAIN toHost /\ toHost'[1] = toHost[1 + 1]
    BY <1>2, <1>3
  <2>2. Fits(toHost[1], toHost[1 + 1])
    BY <1>2, <2>1 DEF PiecesFit
  <2> QED BY <1>2, <1>4, <2>1, <2>2
<1>7. \A i \in DOMAIN toHost' : i + 1 \in DOMAIN toHost' => Fits(toHost'[i], toHost'[i + 1])
  BY <1>2 DEF PiecesFit
<1>8. CASE toHost' # <<>>
  <2>1. LastSent' = LastSent
    <3>1. Len(toHost') \in DOMAIN toHost' /\ toHost'[Len(toHost')] = toHost[Len(toHost)]
      BY <1>2, <1>3, <1>8
    <3> QED BY <1>1, <1>8, <3>1 DEF LastSent
  <2> QED BY <1>1, <1>6, <1>7, <2>1 DEF PiecesFit, NextPieceFits
<1>9. CASE toHost' = <<>>
  <2>1. LastSent = Recv /\ LastSent' = LastTaken'
    BY <1>1, <1>2, <1>3, <1>9 DEF LastSent
  <2>2. NextPieceFits'
    BY <1>1, <1>5, <2>1, NothingFits DEF NextPieceFits
  <2> QED BY <1>6, <1>7, <2>2 DEF PiecesFit
<1> QED BY <1>8, <1>9

\* A report joins the stream.
LEMMA AppendFits ==
  ASSUME TypeOK, PiecesFit, UNCHANGED clientVars, NEW r \in ToHostPacket,
         toHost' = Append(toHost, r), Fits(LastSent, r)
  PROVE  PiecesFit' /\ LastSent' = r
<1>1. /\ DOMAIN toHost = 1 .. Len(toHost) /\ Len(toHost) \in Nat
      /\ DOMAIN toHost' = 1 .. Len(toHost) + 1 /\ Len(toHost') = Len(toHost) + 1
      /\ \A i \in DOMAIN toHost : toHost'[i] = toHost[i]
      /\ toHost'[Len(toHost) + 1] = r
      /\ toHost = <<>> <=> Len(toHost) = 0
  BY AppendFacts, EmptySeq DEF TypeOK, QueueType
<1>2. toHost' # <<>>
  BY <1>1
<1>3. LastTaken' = LastTaken
  BY DEF clientVars, LastTaken
<1>4. Fits(LastTaken', toHost'[1])
  <2>1. CASE toHost = <<>>
    BY <1>1, <1>3, <2>1 DEF LastSent
  <2>2. CASE toHost # <<>>
    BY <1>1, <1>3, <2>2 DEF PiecesFit
  <2> QED BY <2>1, <2>2
<1>5. ASSUME NEW i \in DOMAIN toHost', i + 1 \in DOMAIN toHost'
      PROVE  Fits(toHost'[i], toHost'[i + 1])
  <2>1. i \in DOMAIN toHost /\ toHost'[i] = toHost[i] /\ i \in Nat
    BY <1>1, <1>5
  <2>2. CASE i + 1 \in DOMAIN toHost
    BY <1>1, <2>1, <2>2 DEF PiecesFit
  <2>3. CASE i + 1 \notin DOMAIN toHost
    <3>1. i = Len(toHost) /\ toHost # <<>> /\ toHost'[i + 1] = r
      BY <1>1, <1>5, <2>1, <2>3
    <3> QED BY <2>1, <3>1 DEF LastSent
  <2> QED BY <2>2, <2>3
<1>6. LastSent' = r
  BY <1>1, <1>2 DEF LastSent
<1> QED BY <1>4, <1>5, <1>6 DEF PiecesFit

LEMMA ThreadFits ==
  ASSUME TypeOK, AnswersFit, faults <= 1,
         Open \/ Call \/ Close \/ WritePacket \/ CheckCancel \/ RetryBusy \/ GiveUpBusy
           \/ Interrupt \/ SetEvent
  PROVE  AnswersFit'
<1>1. PiecesFit /\ NextPieceFits /\ ResponseOfOneCall
  BY DEF AnswersFit
<1>2. UNCHANGED <<dev, devReq, replyLen, replySent, faults>>
  BY DEF Open, Call, Close, StartCall, WritePacket, CheckCancel, RetryBusy, GiveUpBusy,
     Interrupt, SetEvent, devVars, histVars
<1>3. CASE Open \/ Call \/ RetryBusy
  <2>1. /\ response' = <<>> /\ (result' = NoResult \/ result' = result)
        /\ toHost' = <<>> \/ UNCHANGED toHost
    BY <1>3 DEF Open, Call, StartCall, RetryBusy, Attempt
  <2>2. LastTaken' = NothingTaken
    BY <2>1 DEF LastTaken
  <2>3. ResponseOfOneCall'
    BY <1>1, <2>1 DEF ResponseOfOneCall, NoResult
  <2> QED BY <1>1, <1>2, <2>1, <2>2, <2>3, ClientFits DEF AnswersFit
<1>4. CASE WritePacket \/ CheckCancel \/ SetEvent
  <2>1. UNCHANGED <<response, rlen, result, toHost>> /\ (Active' => Active)
        /\ (pc' \in {"send", "wait"} => pc \in {"send", "wait"})
    BY <1>4 DEF WritePacket, CheckCancel, SetEvent, Active
  <2>2. pc \notin {"check", "read"} => pc' \notin {"check", "read"} \/ response = <<>>
    BY <1>1, <1>4 DEF WritePacket, CheckCancel, SetEvent, ResponseOfOneCall
  <2>3. LastTaken' \in {LastTaken, NothingTaken}
    BY <2>1, <2>2 DEF LastTaken
  <2>4. ResponseOfOneCall'
    BY <1>1, <2>1 DEF ResponseOfOneCall
  <2> QED BY <1>1, <1>2, <2>1, <2>3, <2>4, ClientFits DEF AnswersFit
<1>5. CASE Close \/ GiveUpBusy \/ Interrupt
  <2>1. /\ UNCHANGED <<toHost, response>> /\ ~Active'
        /\ UNCHANGED result \/ result'.kind # "ok"
    BY <1>5 DEF Close, GiveUpBusy, Interrupt, Raise, Active
  <2>2. LastTaken' = NothingTaken
    BY <2>1 DEF LastTaken, Active
  <2>3. ResponseOfOneCall'
    BY <1>1, <2>1 DEF ResponseOfOneCall, Active
  <2> QED BY <1>1, <1>2, <2>1, <2>2, <2>3, ClientFits DEF AnswersFit
<1> QED BY <1>3, <1>4, <1>5

\* The piece taken belongs to the pieces the response is made of.
LEMMA ExtendFits ==
  ASSUME TypeOK, AnswersFit, faults <= 1, Receive, Recv.kind = "data", NEW n \in Nat,
         Extend(n), n = Recv.len, Recv.piece = Len(response) + 1,
         response # <<>> => Recv.call = response[1].call
  PROVE  AnswersFit'
<1> DEFINE chunk == [call |-> Recv.call, piece |-> Recv.piece, code |-> Recv.code]
<1> DEFINE body == Append(response, chunk)
<1>1. PiecesFit /\ NextPieceFits /\ ResponseOfOneCall /\ pc = "read" /\ Active
  BY DEF AnswersFit, Receive, Active
<1>2. chunk \in Chunk /\ response \in Seq(Chunk)
  <2>1. Recv \in ToHostPacket
    BY RecvType DEF Receive
  <2> QED BY <2>1 DEF ToHostPacket, Report, Chunk, TypeOK, ReaderType
<1>3. /\ DOMAIN response = 1 .. Len(response) /\ Len(response) \in Nat
      /\ DOMAIN body = 1 .. Len(response) + 1 /\ Len(body) = Len(response) + 1
      /\ \A i \in DOMAIN response : body[i] = response[i]
      /\ body[Len(response) + 1] = chunk
      /\ response = <<>> <=> Len(response) = 0
  BY <1>2, AppendFacts, EmptySeq
<1>4. chunk.call = Recv.call /\ chunk.piece = Recv.piece
  OBVIOUS
<1>5. response' = body /\ rlen' = n
  BY DEF Extend
<1> HIDE DEF chunk, body
<1>6. \/ pc' = "check" /\ Len(body) < n /\ UNCHANGED result
      \/ pc' \in {"idle", "closed"} /\ (result'.kind = "ok" => result'.body = body)
  <2>1. CASE Len(body) >= n
    <3>1. Return(body)
      BY <2>1 DEF Extend, body, chunk
    <3> QED BY <3>1 DEF Return, Raise
  <2>2. CASE ~(Len(body) >= n)
    <3>1. pc' = "check" /\ UNCHANGED result
      BY <2>2 DEF Extend, body, chunk
    <3>2. Len(body) < n
      BY <1>3, <2>2
    <3> QED BY <3>1, <3>2
  <2> QED BY <2>1, <2>2
<1>7. body # <<>> /\ body[1].call = Recv.call
  <2>1. body # <<>>
    BY <1>3
  <2>2. CASE response = <<>>
    <3>1. Len(response) + 1 = 1
      BY <1>3, <2>2
    <3> QED BY <1>3, <1>4, <3>1
  <2>3. CASE response # <<>>
    BY <1>3, <2>3
  <2> QED BY <2>1, <2>2, <2>3
<1>8. \A i \in DOMAIN body : body[i].call = body[1].call /\ body[i].piece = i
  <2> SUFFICES ASSUME NEW i \in DOMAIN body
               PROVE  body[i].call = body[1].call /\ body[i].piece = i
    OBVIOUS
  <2>1. CASE i = Len(response) + 1
    BY <1>3, <1>4, <1>7, <2>1
  <2>2. CASE i # Len(response) + 1
    <3>1. i \in DOMAIN response /\ body[i] = response[i] /\ response # <<>>
      BY <1>3, <2>2
    <3>2. response[i].call = response[1].call /\ response[i].piece = i
      BY <1>1, <3>1 DEF ResponseOfOneCall
    <3> QED BY <1>7, <3>1, <3>2
  <2> QED BY <2>1, <2>2
<1>9. ResponseOfOneCall'
  <2>1. CASE pc' = "check" /\ Len(body) < n /\ UNCHANGED result
    BY <1>1, <1>5, <1>8, <2>1 DEF ResponseOfOneCall
  <2>2. CASE pc' \in {"idle", "closed"} /\ (result'.kind = "ok" => result'.body = body)
    <3>1. IsAnswer(body, body[1].call)
      BY <1>7, <1>8 DEF IsAnswer
    <3> QED BY <2>2, <3>1 DEF ResponseOfOneCall, Active
  <2> QED BY <1>6, <2>1, <2>2
<1>10. \/ LastTaken' = NothingTaken
       \/ /\ LastTaken'.kind = Recv.kind /\ LastTaken'.call = Recv.call
          /\ LastTaken'.piece = Recv.piece /\ LastTaken'.len = Recv.len
  BY <1>3, <1>5, <1>6, <1>7 DEF LastTaken
<1> QED BY <1>1, <1>9, <1>10, TakeFits DEF AnswersFit

\* A continuation is the one with the next number, as none can wrap around.
LEMMA NextContinuation ==
  ASSUME TypeOK, response # <<>>, NEW p \in ToHostPacket, IsNextContinuation(p)
  PROVE  p.kind = "data" /\ p.piece = Len(response) + 1
<1> DEFINE k == p.piece - 2
<1>1. p.kind = "data" /\ p.piece \in 2 .. MaxPackets
  BY DEF IsNextContinuation, ToHostPacket, Report
<1>2. SeqMod \in Nat \ {0} /\ k \in 0 .. SeqMod - 1 /\ p.piece = k + 2
  BY <1>1, HidAssumption
<1>3. k % SeqMod = Len(response) - 1
  BY DEF IsNextContinuation
<1> HIDE DEF k
<1>4. k % SeqMod = k
  BY <1>2
<1>5. Len(response) \in Nat
  BY LenProperties DEF TypeOK, ReaderType
<1>6. k = Len(response) - 1
  BY <1>3, <1>4
<1> QED BY <1>1, <1>2, <1>5, <1>6

LEMMA ReadFits ==
  ASSUME TypeOK, AnswersFit, faults <= 1, Read
  PROVE  AnswersFit'
<1>1. Receive
  BY DEF Read, ReadWrongChannel, ReadInitialization, ReadKeepalive, ReadError,
         ReadOtherCommand, ReadContinuation
<1>2. /\ Recv \in ToHostPacket /\ Recv = toHost[1] /\ toHost # <<>> /\ pc = "read" /\ Active
      /\ PiecesFit /\ NextPieceFits /\ ResponseOfOneCall
  BY <1>1, RecvType DEF Receive, AnswersFit, Active, Recv
<1>3. CASE ReadInitialization
  <2>1. /\ Recv.kind = "data" /\ Extend(Recv.len) /\ Recv.piece = 1 /\ response = <<>>
        /\ Recv.len \in Nat /\ Len(response) = 0
    BY <1>2, <1>3, EmptySeq DEF ReadInitialization, ToHostPacket, Report
  <2> QED BY <1>1, <2>1, ExtendFits
<1>4. CASE ReadContinuation /\ IsNextContinuation(Recv)
  <2>1. response # <<>> /\ Extend(rlen) /\ rlen \in Nat
    BY <1>4 DEF ReadContinuation, TypeOK, ReaderType
  <2>2. Recv.kind = "data" /\ Recv.piece = Len(response) + 1
    BY <1>2, <1>4, <2>1, NextContinuation
  <2>3. /\ LastTaken.kind = "data" /\ LastTaken.piece = Len(response)
        /\ LastTaken.len = rlen /\ LastTaken.call = response[1].call
    BY <1>2, <2>1 DEF LastTaken
  <2>4. Len(response) < rlen /\ Len(response) \in Nat
    BY <1>2, <2>1, LenProperties DEF ResponseOfOneCall, TypeOK, ReaderType
  <2>5. Fits(LastTaken, Recv)
    BY <1>2 DEF PiecesFit
  <2>6. Recv.call = response[1].call /\ Recv.len = rlen
    BY <2>1, <2>2, <2>3, <2>4, <2>5 DEF Fits, Whole
  <2> QED BY <1>1, <2>1, <2>2, <2>6, ExtendFits
<1>5. CASE \/ ReadWrongChannel \/ ReadKeepalive \/ ReadError \/ ReadOtherCommand
           \/ ReadContinuation /\ ~IsNextContinuation(Recv)
  <2>1. /\ UNCHANGED response
        /\ \/ pc' \in {"idle", "closed"} /\ result'.kind # "ok"
           \/ UNCHANGED result /\ response = <<>>
    BY <1>5 DEF ReadWrongChannel, ReadKeepalive, ReadError, ReadOtherCommand,
       ReadContinuation, Raise
  <2>2. LastTaken' = NothingTaken
    BY <2>1 DEF LastTaken
  <2>3. ResponseOfOneCall'
    BY <1>2, <2>1 DEF ResponseOfOneCall, Active
  <2> QED BY <1>1, <1>2, <2>2, <2>3, TakeFits DEF AnswersFit
<1> QED BY <1>3, <1>4, <1>5 DEF Read

\* The authenticator neither sends nor loses a report.
LEMMA SilentFits ==
  ASSUME AnswersFit, faults <= 1, UNCHANGED <<clientVars, toHost, faults>>,
         dev # "reply", dev' = "reply" => replySent' = 0
  PROVE  AnswersFit'
<1>1. PiecesFit /\ NextPieceFits /\ ResponseOfOneCall
  BY DEF AnswersFit
<1>2. LastTaken' = LastTaken /\ LastSent' = LastSent
  BY DEF clientVars, LastTaken, LastSent
<1>3. PiecesFit' /\ NextPieceFits'
  BY <1>1, <1>2 DEF PiecesFit, NextPieceFits
<1>4. ResponseOfOneCall'
  BY <1>1 DEF clientVars, ResponseOfOneCall, Active
<1> QED BY <1>3, <1>4 DEF AnswersFit

\* It sends one that is no piece of an answer of several.
LEMMA OtherReportFits ==
  ASSUME TypeOK, AnswersFit, faults <= 1, UNCHANGED clientVars, dev' # "reply",
         NEW r \in ToHostPacket, toHost' = Append(toHost, r),
         r.kind = "data" => r.piece = 1 /\ r.len = 1
  PROVE  AnswersFit'
<1>1. PiecesFit /\ ResponseOfOneCall
  BY DEF AnswersFit
<1>2. Fits(LastSent, r) /\ Whole(r)
  BY LastPiece DEF Fits, Whole
<1>3. PiecesFit' /\ LastSent' = r
  BY <1>1, <1>2, AppendFits
<1>4. NextPieceFits'
  BY <1>2, <1>3 DEF NextPieceFits
<1>5. ResponseOfOneCall'
  BY <1>1 DEF clientVars, ResponseOfOneCall, Active
<1> QED BY <1>3, <1>4, <1>5 DEF AnswersFit

LEMMA PieceFits ==
  ASSUME TypeOK, AnswersFit, faults <= 1, faults' <= 1, DevSendPiece
  PROVE  AnswersFit'
<1>1. /\ UNCHANGED clientVars /\ UNCHANGED <<devReq, replyLen>> /\ dev = "reply"
      /\ dev' \in {"idle", "reply"} /\ replySent' = replySent + 1
      /\ dev' = "idle" <=> replySent + 1 = replyLen
      /\ faults \in Nat /\ faults <= faults'
  BY DEF DevSendPiece, TypeOK, HistoryType
<1>2. /\ Piece \in ToHostPacket /\ Piece.kind = "data" /\ Piece.call = devReq.call
      /\ Piece.piece = replySent + 1 /\ Piece.len = replyLen
      /\ replySent \in Nat /\ replyLen \in Nat
  BY <1>1, PieceType
<1>3. PiecesFit /\ NextPieceFits /\ ResponseOfOneCall
  BY <1>1 DEF AnswersFit
<1>4. ResponseOfOneCall'
  BY <1>1, <1>3 DEF clientVars, ResponseOfOneCall, Active
<1>5. CASE toHost' = Append(toHost, Piece) /\ UNCHANGED faults
  <2>1. Fits(LastSent, Piece)
    <3>1. CASE replySent = 0
      BY <1>2, <3>1, LastPiece DEF Fits
    <3>2. CASE replySent > 0
      <4>1. \/ Whole(LastSent)
            \/ LastSent.call = devReq.call /\ LastSent.len = replyLen
        BY <1>1, <1>3, <3>2 DEF NextPieceFits
      <4> QED BY <1>2, <4>1 DEF Fits
    <3> QED BY <1>2, <3>1, <3>2
  <2>2. PiecesFit' /\ LastSent' = Piece
    BY <1>1, <1>2, <1>3, <1>5, <2>1, AppendFits
  <2>3. NextPieceFits'
    BY <1>1, <1>2, <2>2 DEF NextPieceFits, Whole
  <2> QED BY <1>4, <2>2, <2>3 DEF AnswersFit
<1>6. CASE faults' = faults + 1 /\ UNCHANGED toHost
  <2>1. faults = 0 /\ faults' # 0
    BY <1>1, <1>6
  <2>2. LastTaken' = LastTaken /\ LastSent' = LastSent
    BY <1>1, <1>6 DEF clientVars, LastTaken, LastSent
  <2>3. NextPieceFits'
    BY <1>1, <1>2, <1>3, <2>1, <2>2 DEF NextPieceFits
  <2>4. PiecesFit'
    BY <1>3, <1>6, <2>2 DEF PiecesFit
  <2> QED BY <1>4, <2>3, <2>4 DEF AnswersFit
<1> QED BY <1>5, <1>6 DEF DevSendPiece

LEMMA DevReceiveFits ==
  ASSUME TypeOK, AnswersFit, faults <= 1, DevReceive
  PROVE  AnswersFit'
<1> DEFINE p == Head(toDev)
<1>1. /\ UNCHANGED clientVars /\ UNCHANGED faults /\ dev # "reply" /\ p \in ToDevPacket
  BY HeadTailProperties DEF DevReceive, TypeOK, QueueType
<1> HIDE DEF p
<1>2. \/ Accept(p) \/ Reject(p) \/ Busy(p) \/ Continue(p) \/ Ignore \/ CancelRequest
  BY DEF DevReceive, p
<1>3. CASE Accept(p) \/ Continue(p) \/ Ignore \/ CancelRequest
  <2>1. UNCHANGED toHost /\ (dev' = "reply" => replySent' = 0)
    BY <1>1, <1>3 DEF Accept, Continue, Ignore, CancelRequest
  <2> QED BY <1>1, <2>1, SilentFits
<1>4. CASE Reject(p) \/ Busy(p)
  <2>1. PICK r \in ToHostPacket : r.kind = "error" /\ toHost' = Append(toHost, r)
    BY <1>1, <1>4, ErrorReport DEF Reject, Busy
  <2>2. dev' # "reply"
    BY <1>1, <1>4 DEF Reject, Busy
  <2> QED BY <1>1, <2>1, <2>2, OtherReportFits
<1> QED BY <1>2, <1>3, <1>4

LEMMA DevStepFits ==
  ASSUME TypeOK, AnswersFit, faults <= 1,
         \/ DevNeedUser \/ UserTouch \/ DevAnswer \/ DevKeepalive \/ OtherBegin
         \/ OtherEnd
  PROVE  AnswersFit'
<1>1. /\ UNCHANGED clientVars /\ dev # "reply"
      /\ devReq \in ToDevPacket
  BY DEF DevNeedUser, UserTouch, DevAnswer, DevKeepalive, OtherBegin, OtherEnd, TypeOK,
     DeviceType
<1>2. CASE DevNeedUser \/ UserTouch \/ OtherBegin
  BY <1>1, <1>2, SilentFits DEF DevNeedUser, UserTouch, OtherBegin, histVars
<1>3. CASE DevAnswer
  <2>1. CASE dev' = "reply" /\ replySent' = 0 /\ UNCHANGED toHost
    BY <1>1, <1>3, <2>1, SilentFits DEF DevAnswer
  <2>2. CASE dev' = "idle" /\ SendError(devReq, "OTHER")
    <3>1. PICK r \in ToHostPacket : r.kind = "error" /\ toHost' = Append(toHost, r)
      BY <1>1, <2>2, ErrorReport
    <3> QED BY <1>1, <2>2, <3>1, OtherReportFits
  <2> QED BY <1>3, <2>1, <2>2 DEF DevAnswer
<1>4. CASE DevKeepalive
  <2>1. PICK st \in STATUS \cup {"UNKNOWN"} : toHost' = Keepalive(st)
    BY <1>4 DEF DevKeepalive, STATUS
  <2>2. PICK r \in ToHostPacket : r.kind = "keepalive" /\ toHost' = Append(toHost, r)
    <3> DEFINE r == NewReport("keepalive", devReq.ch, devReq.cmd, devReq.call, 1, 1, st)
    <3>1. r \in ToHostPacket /\ r.kind = "keepalive"
      BY <1>1, HidAssumption DEF NewReport, ToHostPacket, Report, ToDevPacket, STATUS
    <3>2. toHost' = Append(toHost, r)
      BY <2>1 DEF Keepalive
    <3> HIDE DEF r
    <3> QED BY <3>1, <3>2
  <2>3. dev' # "reply"
    BY <1>4 DEF DevKeepalive, devVars
  <2> QED BY <1>1, <2>2, <2>3, OtherReportFits
<1>5. CASE OtherEnd
  <2>1. CASE UNCHANGED <<toHost, faults>>
    BY <1>1, <1>5, <2>1, SilentFits DEF OtherEnd
  <2>2. CASE ~UNCHANGED <<toHost, faults>>
    <3>1. PICK r \in ToHostPacket : /\ toHost' = Append(toHost, r) /\ r.piece = 1
                                    /\ r.len = 1
      <4> DEFINE r == NewReport("data", Foreign, "CBOR", 1, 1, 1, "OK")
      <4>1. r \in ToHostPacket /\ r.piece = 1 /\ r.len = 1
        BY HidAssumption DEF NewReport, ToHostPacket, Report, Channels, Foreign, Cmds, Calls
      <4>2. toHost' = Append(toHost, r)
        BY <1>5, <2>2 DEF OtherEnd
      <4> HIDE DEF r
      <4> QED BY <4>1, <4>2
    <3>2. dev' # "reply"
      BY <1>5 DEF OtherEnd
    <3> QED BY <1>1, <3>1, <3>2, OtherReportFits
  <2> QED BY <2>1, <2>2
<1> QED BY <1>2, <1>3, <1>4, <1>5

LEMMA NextFits == TypeOK /\ AnswersFit /\ [Next]_vars => AnswersFit'
<1> SUFFICES ASSUME TypeOK, AnswersFit, [Next]_vars, faults' <= 1 PROVE AnswersFit'
  BY DEF AnswersFit
<1>1. faults <= 1
  BY StaysUnclean
<1>2. CASE UNCHANGED vars
  BY <1>2 DEF vars, clientVars, devVars, histVars, AnswersFit, PiecesFit, NextPieceFits,
     ResponseOfOneCall, LastSent, LastTaken, Active
<1> QED BY <1>1, <1>2, ThreadFits, ReadFits, PieceFits, DevReceiveFits, DevStepFits
        DEF Next, ThreadStep, DevWork

(* What call() returns is intact. Undisturbed, no status reaches           *)
(* on_keepalive twice in a row. And even if the connection lost a report,  *)
(* and calls were interrupted any number of times so that their answers    *)
(* are still under way, a response is made of one answer's packets, in     *)
(* order: the sequence numbers see to it.                                  *)
THEOREM ReturnsIntactAnswers == Spec => []AnswerIntact
<1>1. Init => KeepalivesInOrder /\ AnswersFit
  BY InitKeepalives, InitFits
<1>2. TypeOK /\ InOrder /\ KeepalivesInOrder /\ AnswersFit /\ [Next]_vars
      => KeepalivesInOrder' /\ AnswersFit'
  BY NextKeepalives, NextFits
<1>3. KeepalivesInOrder /\ AnswersFit => AnswerIntact
  BY DEF KeepalivesInOrder, AnswersFit, ResponseOfOneCall, AnswerIntact, NotStitched,
     KeepaliveOnce
<1> QED BY <1>1, <1>2, <1>3, InOrderAlways, PTL DEF Spec

-----------------------------------------------------------------------------
(* An undisturbed transport implements CtapCall. First: FateInOrder is     *)
(* inductive.                                                              *)

LEMMA InitFate == Init => FateInOrder
  BY DEF Init, FateInOrder

\* Nothing is carried out, cancelled, sent or taken.
LEMMA FateKept ==
  ASSUME FateInOrder, Clean, UNCHANGED <<call, executed, cancelled, toHost, replyCode>>,
         Undecided' => Undecided, dev' = "reply" => dev = "reply",
         response' = <<>> \/ (response' = response /\ (Active' => Active))
  PROVE  FateInOrder'
  BY DEF FateInOrder, IsTrue

LEMMA WriteUndecided ==
  ASSUME TypeOK, WritePacket \/ CheckCancel
  PROVE  Undecided' => Undecided
<1>1. /\ UNCHANGED <<call, toHost, dev>> /\ toDev \in Seq(ToDevPacket) /\ call # 0
      /\ sent \in Nat
  BY DEF WritePacket, CheckCancel, devVars, TypeOK, QueueType, CallerType
<1>2. ~(pc' = "wait" \/ (pc' = "send" /\ sent' = 0))
  BY <1>1 DEF WritePacket, CheckCancel
<1>3. Asking' => Asking \/ (pc = "send" /\ sent = 0)
  <2> SUFFICES ASSUME ~(pc = "send" /\ sent = 0), toDev' # toDev
               PROVE  Asking' => Asking
    BY DEF Asking
  <2>1. \A k \in {"init", "cont", "cancel"}, q \in 0 .. SeqMod - 1 :
           Packet(k, q) \in ToDevPacket
    BY <1>1, PacketType
  <2>2. 0 \in 0 .. SeqMod - 1
    BY HidAssumption
  <2>3. CASE WritePacket
    <3>1. (sent - 1) % SeqMod \in 0 .. SeqMod - 1 /\ sent # 0
      BY <1>1, <2>3, HidAssumption DEF WritePacket
    <3>2. PICK p \in ToDevPacket : toDev' = Append(toDev, p) /\ p.kind # "init"
      BY <2>1, <2>3, <3>1 DEF WritePacket, Packet
    <3> QED BY <1>1, <3>2, AppendFacts DEF Asking
  <2>4. CASE CheckCancel
    <3>1. PICK p \in ToDevPacket : toDev' = Append(toDev, p) /\ p.kind # "init"
      BY <2>1, <2>2, <2>4 DEF CheckCancel, Packet
    <3> QED BY <1>1, <3>1, AppendFacts DEF Asking
  <2> QED BY <2>3, <2>4
<1> QED BY <1>1, <1>2, <1>3 DEF Undecided, Working

LEMMA ThreadFate ==
  ASSUME TypeOK, InOrder, CancelsInOrder, FateInOrder, Clean,
         Open \/ Call \/ Close \/ WritePacket \/ CheckCancel \/ RetryBusy \/ GiveUpBusy
           \/ SetEvent
  PROVE  FateInOrder'
<1>1. CASE Open \/ Call
  <2>1. /\ call' = call + 1 /\ call \in Nat /\ response' = <<>> /\ toHost' = <<>>
        /\ UNCHANGED <<cancelled, dev>> /\ dev \in {"idle", "other"}
    BY <1>1 DEF Open, Call, StartCall, Attempt, InOrder, Resting, devVars, TypeOK, CallerType
  <2>2. call' \notin cancelled'
    BY <2>1 DEF CancelsInOrder
  <2> QED BY <2>1, <2>2 DEF FateInOrder
<1>2. CASE Close
  BY <1>2, FateKept DEF Close, devVars, histVars, Active, Undecided, Asking, Working
<1>3. CASE WritePacket \/ CheckCancel
  BY <1>3, FateKept, WriteUndecided DEF WritePacket, CheckCancel, devVars, histVars, Active
<1>4. CASE RetryBusy
  <2>1. Undecided
    BY <1>4 DEF RetryBusy, Undecided
  <2> QED BY <1>4, <2>1, FateKept DEF RetryBusy, Attempt, devVars, histVars
<1>5. CASE GiveUpBusy
  <2>1. Undecided
    BY <1>5 DEF GiveUpBusy, Undecided
  <2> QED BY <1>5, <2>1, FateKept DEF GiveUpBusy, Raise, devVars, histVars, Active
<1>6. CASE SetEvent
  BY <1>6, FateKept DEF SetEvent, devVars, Active, Undecided, Asking, Working
<1> QED BY <1>1, <1>2, <1>3, <1>4, <1>5, <1>6

\* What is taken into the response, and left unread, was unread before.
LEMMA ReadFate ==
  ASSUME TypeOK, InOrder, FateInOrder, Clean, Read
  PROVE  FateInOrder'
<1>1. Receive
  BY DEF Read, ReadWrongChannel, ReadInitialization, ReadKeepalive, ReadError,
         ReadOtherCommand, ReadContinuation
<1>2. /\ pc = "read" /\ Active /\ UNCHANGED <<call, executed, cancelled, replyCode, dev, toDev>>
      /\ toHost \in Seq(ToHostPacket) /\ toHost # <<>> /\ toHost' = Tail(toHost)
      /\ response \in Seq(Chunk) /\ Recv \in ToHostPacket
  BY <1>1, RecvType DEF Receive, Active, devVars, histVars, TypeOK, QueueType, ReaderType
<1>3. /\ DOMAIN toHost' = 1 .. Len(toHost) - 1
      /\ \A i \in DOMAIN toHost' : i + 1 \in DOMAIN toHost /\ toHost'[i] = toHost[i + 1]
      /\ Recv = toHost[1] /\ 1 \in DOMAIN toHost
  BY <1>2, TailFacts DEF Recv
<1>4. pc' = "wait" => Recv.code = "CHANNEL_BUSY"
  BY DEF Read, ReadWrongChannel, ReadInitialization, ReadKeepalive, ReadError,
     ReadOtherCommand, ReadContinuation, Extend, Return, Raise
<1>5. pc' # "send"
  BY DEF Read, ReadWrongChannel, ReadInitialization, ReadKeepalive, ReadError,
     ReadOtherCommand, ReadContinuation, Extend, Return, Raise
<1>6. Undecided' => Undecided
  BY <1>2, <1>3, <1>4, <1>5 DEF Undecided, Asking, Working
<1>7. \/ response' = response
      \/ /\ Recv.kind = "data"
         /\ response' = Append(response, [call |-> Recv.call, piece |-> Recv.piece,
                                          code |-> Recv.code])
  BY DEF Read, ReadWrongChannel, ReadInitialization, ReadKeepalive, ReadError,
     ReadOtherCommand, ReadContinuation, IsNextContinuation, Extend
<1>8. call # 0 => \A i \in DOMAIN response' : IsTrue(response'[i].code)
  <2> SUFFICES ASSUME call # 0 PROVE \A i \in DOMAIN response' : IsTrue(response'[i].code)
    OBVIOUS
  <2>1. \A i \in DOMAIN response : IsTrue(response[i].code)
    BY <1>2 DEF FateInOrder
  <2>2. Recv.kind = "data" => IsTrue(Recv.code)
    BY <1>3 DEF FateInOrder
  <2> DEFINE chunk == [call |-> Recv.call, piece |-> Recv.piece, code |-> Recv.code]
  <2>3. Recv.kind = "data" => chunk \in Chunk /\ chunk.code = Recv.code
    BY <1>2 DEF ToHostPacket, Report, Chunk
  <2> HIDE DEF chunk
  <2>4. CASE Recv.kind = "data" /\ response' = Append(response, chunk)
    <3>1. /\ DOMAIN response' = 1 .. Len(response) + 1 /\ DOMAIN response = 1 .. Len(response)
          /\ Len(response) \in Nat /\ response'[Len(response) + 1] = chunk
          /\ \A i \in DOMAIN response : response'[i] = response[i]
      BY <1>2, <2>3, <2>4, AppendFacts
    <3>2. ASSUME NEW i \in DOMAIN response' PROVE IsTrue(response'[i].code)
      <4>1. CASE i = Len(response) + 1
        <5>1. response'[i].code = Recv.code
          BY <2>3, <2>4, <3>1, <4>1
        <5> QED BY <2>2, <2>4, <5>1
      <4>2. CASE i # Len(response) + 1
        <5>1. i \in DOMAIN response /\ response'[i] = response[i]
          BY <3>1, <4>2
        <5> QED BY <2>1, <5>1
      <4> QED BY <4>1, <4>2
    <3> QED BY <3>2
  <2> QED BY <1>7, <2>1, <2>4 DEF chunk
<1> QED BY <1>2, <1>3, <1>6, <1>8 DEF FateInOrder, IsTrue

\* A report is sent: if it is a piece of an answer, what it says is true.
LEMMA ReportFate ==
  ASSUME TypeOK, FateInOrder, Clean, UNCHANGED clientVars, UNCHANGED <<executed, cancelled>>,
         Undecided' => Undecided, dev' = "reply" => dev = "reply" /\ UNCHANGED replyCode,
         NEW r \in ToHostPacket, toHost' = Append(toHost, r),
         call # 0 /\ r.kind = "data" => IsTrue(r.code)
  PROVE  FateInOrder'
<1>1. UNCHANGED <<call, response>> /\ (Active' <=> Active)
  BY DEF clientVars, Active
<1>2. /\ DOMAIN toHost = 1 .. Len(toHost) /\ Len(toHost) \in Nat
      /\ DOMAIN toHost' = 1 .. Len(toHost) + 1
      /\ \A i \in DOMAIN toHost : toHost'[i] = toHost[i]
      /\ toHost'[Len(toHost) + 1] = r
  BY AppendFacts DEF TypeOK, QueueType
<1>3. call # 0 => \A i \in DOMAIN toHost' : toHost'[i].kind = "data" => IsTrue(toHost'[i].code)
  BY <1>2 DEF FateInOrder
<1> QED BY <1>1, <1>3 DEF FateInOrder, IsTrue

\* The authenticator works on the call under way, and has answered nothing yet.
LEMMA WorkingFate ==
  ASSUME TypeOK, InOrder, CancelsInOrder, FateInOrder, Clean, Working
  PROVE  /\ Active /\ ~Asking /\ response = <<>> /\ devReq.call = call
         /\ ~(pc = "wait" \/ (pc = "send" /\ sent = 0))
         /\ call \in Calls /\ call # 0 /\ executed[call] = 0 /\ call \notin cancelled
         /\ executed \in [Calls -> 0 .. 2]
         /\ \A i \in DOMAIN toHost : /\ toHost[i].kind = "keepalive"
                                     /\ toHost[i].code # "CHANNEL_BUSY"
<1>1. ~Resting
  BY DEF InOrder, Working
<1>2. Active /\ ~(pc = "wait" \/ (pc = "send" /\ sent = 0))
  BY <1>1 DEF Active, Resting, TypeOK, CallerType
<1>3. RequestInOrder /\ WorkInOrder /\ ReportsInOrder
  BY <1>1 DEF InOrder
<1>4. ~Asking
  BY <1>3 DEF RequestInOrder, Working
<1>5. /\ response = <<>> /\ devReq.call = call
      /\ \A i \in DOMAIN toHost : /\ toHost[i].kind = "keepalive"
                                  /\ toHost[i].code # "CHANNEL_BUSY"
  BY <1>3 DEF WorkInOrder, ReportsInOrder, OfThisCall, STATUS
<1>6. call \in Calls /\ executed \in [Calls -> 0 .. 2]
  BY <1>5 DEF TypeOK, DeviceType, HistoryType, ToDevPacket
<1>7. call # 0 /\ executed[call] = 0 /\ call \notin cancelled
  BY <1>6 DEF InOrder, NotYetExecuted, FateInOrder, Undecided, Calls
<1> QED BY <1>2, <1>4, <1>5, <1>6, <1>7

LEMMA DevReceiveFate ==
  ASSUME TypeOK, InOrder, CancelsInOrder, FateInOrder, Clean, DevReceive
  PROVE  FateInOrder'
<1> DEFINE p == Head(toDev)
<1>1. /\ UNCHANGED clientVars /\ UNCHANGED executed /\ dev # "reply"
      /\ p \in ToDevPacket
      /\ p.kind = "init" => Asking /\ ~Asking'
      /\ p.kind # "init" => (Asking' <=> Asking)
  BY TakeInOrder
<1>2. /\ UNCHANGED <<pc, sent, call, response>> /\ (Asking' => Asking)
      /\ (Active' <=> Active)
  BY <1>1 DEF clientVars, Active
<1> HIDE DEF p
<1>3. CASE (p.kind = "init" /\ Accept(p)) \/ (dev = "recv" /\ Continue(p)) \/ Ignore
  <2>1. UNCHANGED <<toHost, cancelled, replyCode>> /\ (Working' => Working \/ Asking)
        /\ dev' # "reply"
    BY <1>1, <1>3 DEF Accept, Continue, Ignore, Working
  <2>2. Undecided' => Undecided
    BY <1>2, <2>1 DEF Undecided
  <2> QED BY <1>1, <1>2, <2>1, <2>2, FateKept
<1>4. CASE (p.kind = "init" /\ Busy(p)) \/ (dev = "recv" /\ Reject(p))
  <2>1. PICK r \in ToHostPacket : r.kind = "error" /\ toHost' = Append(toHost, r)
    BY <1>1, <1>4, ErrorReport DEF Busy, Reject
  <2>2. UNCHANGED cancelled /\ dev' # "reply" /\ (Asking \/ Working)
    BY <1>1, <1>4 DEF Busy, Reject, Working
  <2>3. Undecided
    BY <2>2 DEF Undecided
  <2> QED BY <1>1, <2>1, <2>2, <2>3, ReportFate
<1>5. CASE dev = "user" /\ CancelRequest
  <2>1. /\ dev' = "reply" /\ replyCode' = "CANCELLED" /\ UNCHANGED toHost
        /\ cancelled' = cancelled \cup {devReq.call} /\ Working
    BY <1>5 DEF CancelRequest, Working
  <2>2. ~Working'
    BY <2>1 DEF Working
  <2>3. ~Undecided'
    BY <1>2, <2>1, <2>2, WorkingFate DEF Undecided
  <2> QED BY <1>1, <1>2, <2>1, <2>3, WorkingFate DEF FateInOrder, IsTrue
<1>6. \/ p.kind = "init" /\ Accept(p)
      \/ dev = "recv" /\ Reject(p)
      \/ p.kind = "init" /\ Busy(p)
      \/ dev = "recv" /\ Continue(p)
      \/ Ignore
      \/ dev = "user" /\ CancelRequest
  BY DEF DevReceive, p
<1> QED BY <1>3, <1>4, <1>5, <1>6

LEMMA DevStepFate ==
  ASSUME TypeOK, InOrder, CancelsInOrder, FateInOrder, Clean, Clean',
         \/ DevNeedUser \/ UserTouch \/ DevAnswer \/ DevSendPiece
         \/ DevKeepalive \/ OtherBegin \/ OtherEnd
  PROVE  FateInOrder'
<1>1. UNCHANGED clientVars /\ UNCHANGED <<toDev, devReq, cancelled>> /\ devReq \in ToDevPacket
  BY DEF DevNeedUser, UserTouch, DevAnswer, DevSendPiece, DevKeepalive, OtherBegin,
     OtherEnd, devVars, histVars, TypeOK, DeviceType
<1>2. UNCHANGED <<pc, sent, call, response>> /\ (Asking' <=> Asking) /\ (Active' <=> Active)
  BY <1>1 DEF clientVars, Active, Asking
<1>3. CASE DevNeedUser \/ UserTouch \/ OtherBegin \/ OtherEnd
  <2>1. UNCHANGED <<toHost, executed, replyCode>> /\ (Working' => Working) /\ dev' # "reply"
    BY <1>3 DEF DevNeedUser, UserTouch, OtherBegin, OtherEnd, Clean, TypeOK, HistoryType,
       histVars, Working
  <2>2. Undecided' => Undecided
    BY <1>2, <2>1 DEF Undecided
  <2> QED BY <1>1, <1>2, <2>1, <2>2, FateKept
<1>4. CASE DevAnswer
  <2>1. /\ Working /\ ~Working'
        /\ executed' = [executed EXCEPT ![devReq.call] =
                          IF executed[devReq.call] < 2 THEN executed[devReq.call] + 1
                          ELSE executed[devReq.call]]
    BY <1>4 DEF DevAnswer, Working
  <2>2. executed'[call] = 1
    BY <2>1, WorkingFate
  <2>3. CASE dev' = "reply" /\ replyCode' = "OK" /\ UNCHANGED toHost
    <3>1. ~Undecided'
      BY <1>2, <2>1, <2>3, WorkingFate DEF Undecided
    <3> QED BY <1>2, <2>1, <2>2, <2>3, <3>1, WorkingFate DEF FateInOrder, IsTrue
  <2>4. CASE dev' = "idle" /\ SendError(devReq, "OTHER")
    <3>1. PICK r \in ToHostPacket : /\ r.kind = "error" /\ r.code = "OTHER"
                                    /\ toHost' = Append(toHost, r)
      BY <1>1, <2>4, ErrorReport
    <3>2. \A i \in DOMAIN toHost' : /\ toHost'[i].kind # "data"
                                   /\ toHost'[i].code # "CHANNEL_BUSY"
      BY <2>1, <3>1, WorkingFate, AppendFacts DEF TypeOK, QueueType
    <3>3. ~Undecided'
      BY <1>2, <2>1, <3>2, WorkingFate DEF Undecided
    <3> QED BY <1>2, <2>1, <2>4, <3>2, <3>3, WorkingFate DEF FateInOrder, IsTrue
  <2> QED BY <1>4, <2>3, <2>4 DEF DevAnswer
<1>5. CASE DevSendPiece
  <2>1. /\ dev = "reply" /\ toHost' = Append(toHost, Piece) /\ UNCHANGED <<executed, replyCode>>
        /\ ~Working /\ ~Working'
    BY <1>5 DEF DevSendPiece, Clean, TypeOK, HistoryType, Working
  <2>2. Piece \in ToHostPacket /\ Piece.code = replyCode /\ Piece.code # "CHANNEL_BUSY"
    BY <2>1, PieceType DEF Piece, NewReport
  <2>3. Undecided' => Undecided
    BY <1>2, <2>1, <2>2, AppendFacts DEF Undecided, TypeOK, QueueType
  <2>4. call # 0 => IsTrue(Piece.code)
    BY <2>1, <2>2 DEF FateInOrder
  <2> QED BY <1>1, <2>1, <2>2, <2>3, <2>4, ReportFate
<1>6. CASE DevKeepalive
  <2>1. PICK st \in STATUS : toHost' = Keepalive(st)
    BY <1>6 DEF DevKeepalive, Clean, TypeOK, HistoryType, STATUS
  <2>2. PICK r \in ToHostPacket : r.kind = "keepalive" /\ toHost' = Append(toHost, r)
    <3> DEFINE r == NewReport("keepalive", devReq.ch, devReq.cmd, devReq.call, 1, 1, st)
    <3>1. r \in ToHostPacket /\ r.kind = "keepalive"
      BY <1>1, HidAssumption DEF NewReport, ToHostPacket, Report, ToDevPacket, STATUS
    <3>2. toHost' = Append(toHost, r)
      BY <2>1 DEF Keepalive
    <3> HIDE DEF r
    <3> QED BY <3>1, <3>2
  <2>3. UNCHANGED <<executed, dev>> /\ dev # "reply" /\ Working
    BY <1>6 DEF DevKeepalive, devVars, Working
  <2>4. Undecided
    BY <2>3 DEF Undecided
  <2> QED BY <1>1, <2>2, <2>3, <2>4, ReportFate
<1> QED BY <1>3, <1>4, <1>5, <1>6

LEMMA NextFate ==
  TypeOK /\ InOrder /\ CancelsInOrder /\ FateInOrder /\ [Next]_vars => FateInOrder'
<1> SUFFICES ASSUME TypeOK, InOrder, CancelsInOrder, FateInOrder, [Next]_vars, Clean'
             PROVE  FateInOrder'
  BY DEF FateInOrder
<1>1. Clean
  BY StaysUnclean
<1>2. CASE UNCHANGED vars
  BY <1>1, <1>2, FateKept DEF vars, clientVars, devVars, histVars, Active, Undecided,
     Asking, Working
<1>3. ~Interrupt
  BY DEF Interrupt, Clean, TypeOK, HistoryType
<1> QED BY <1>1, <1>2, <1>3, ThreadFate, ReadFate, DevReceiveFate, DevStepFate
        DEF Next, ThreadStep, DevWork

-----------------------------------------------------------------------------
(* The refinement, step by step.                                           *)

UndisturbedInv == TypeOK /\ InOrder /\ CancelsInOrder /\ FateInOrder /\ Clean

\* A step that CtapCall does not see.
LEMMA Unseen ==
  ASSUME UNCHANGED <<call, asked, executed, cancelled, result>>, Active' <=> Active
  PROVE  UNCHANGED Abstract!callVars
<1>1. (Active' = Active) /\ ((call \notin asked)' = (call \notin asked))
  BY DEF Active
<1>2. Fate' = Fate /\ Outcome' = Outcome
  BY DEF Fate, Outcome
<1> QED BY <1>1, <1>2 DEF Abstract!callVars

LEMMA ActiveBoolean ==
  /\ Active \in BOOLEAN /\ (call \notin asked) \in BOOLEAN
  /\ Active' \in BOOLEAN /\ (call \notin asked)' \in BOOLEAN
  BY DEF Active

\* call() is entered.
LEMMA InvokeRefines ==
  ASSUME UndisturbedInv, Open \/ Call
  PROVE  Abstract!CallNext
<1>1. /\ ~Active /\ Active' /\ call \in Nat /\ call < MaxCalls /\ call' = call + 1
      /\ UNCHANGED <<executed, cancelled>> /\ result'.kind = "none"
  BY DEF Open, Call, StartCall, Attempt, Active, NoResult, UndisturbedInv, TypeOK, CallerType
<1>2. call' \notin cancelled' /\ call' # 0
  BY <1>1 DEF UndisturbedInv, CancelsInOrder
<1>3. executed'[call'] = 0
  <2>1. call' \in Calls /\ call' > call
    BY <1>1, HidAssumption DEF Calls
  <2> QED BY <1>1, <2>1 DEF UndisturbedInv, InOrder, NotYetExecuted
<1>4. Fate' = "nothing" /\ Outcome' = "none"
  BY <1>1, <1>2, <1>3 DEF Fate, Outcome
<1>5. (Active = FALSE) /\ (Active' = TRUE)
  BY <1>1, ActiveBoolean, Zenon
<1> QED BY <1>1, <1>4, <1>5, ActiveBoolean DEF Abstract!CallNext, Abstract!Invoke

\* What a call that is left with an exception looks like from outside.
LEMMA FailRefines ==
  ASSUME UndisturbedInv, Active, ~Active',
         UNCHANGED <<call, asked, executed, cancelled>>, Outcome' = "error"
  PROVE  Abstract!CallNext
<1>1. Fate' = Fate /\ ((call \notin asked)' = (call \notin asked))
  BY DEF Fate
<1>2. Active' = FALSE
  BY ActiveBoolean, Zenon
<1> QED BY <1>1, <1>2 DEF Abstract!CallNext, Abstract!Finish

\* The call returns: what it says is what the authenticator did.
LEMMA ReturnRefines ==
  ASSUME UndisturbedInv, Active, ~Active',
         UNCHANGED <<call, asked, executed, cancelled>>, result'.kind = "ok",
         result'.body[1].code \in {"OK", "CANCELLED"}, IsTrue(result'.body[1].code)
  PROVE  Abstract!CallNext
<1>1. Fate' = Fate /\ ((call \notin asked)' = (call \notin asked))
  BY DEF Fate
<1>2. Active' = FALSE
  BY ActiveBoolean, Zenon
<1>3. call # 0
  BY DEF UndisturbedInv, TypeOK, CallerType, Active
<1>4. Outcome' = Fate /\ Fate # "nothing"
  BY <1>3 DEF Outcome, Fate, IsTrue
<1> QED BY <1>1, <1>2, <1>4 DEF Abstract!CallNext, Abstract!Finish

LEMMA ReadRefines ==
  ASSUME UndisturbedInv, Read
  PROVE  Abstract!CallNext \/ UNCHANGED Abstract!callVars
<1>1. Receive
  BY DEF Read, ReadWrongChannel, ReadInitialization, ReadKeepalive, ReadError,
         ReadOtherCommand, ReadContinuation
<1>2. /\ pc = "read" /\ Active /\ UNCHANGED <<call, asked, executed, cancelled>>
      /\ call # 0 /\ Recv \in ToHostPacket /\ response \in Seq(Chunk)
      /\ toHost # <<>> /\ toHost \in Seq(ToHostPacket)
  BY <1>1, RecvType DEF Receive, Active, histVars, UndisturbedInv, TypeOK, CallerType,
     ReaderType, QueueType
<1>3. Recv.kind = "data" => IsTrue(Recv.code) /\ Recv.code \in {"OK", "CANCELLED"}
  <2>1. Recv = toHost[1] /\ 1 \in DOMAIN toHost
    BY <1>2, TailFacts DEF Recv
  <2> QED BY <1>2, <2>1 DEF UndisturbedInv, FateInOrder, ToHostPacket
<1> DEFINE chunk == [call |-> Recv.call, piece |-> Recv.piece, code |-> Recv.code]
<1> DEFINE body == Append(response, chunk)
<1>4. \/ pc' \in {"check", "wait"} /\ UNCHANGED result
      \/ pc' \in {"idle", "closed"} /\ result'.kind \in {"CtapError", "ConnectionFailure"}
      \/ /\ pc' \in {"idle", "closed"} /\ result'.kind = "ok"
         /\ result'.body = body /\ Recv.kind = "data"
  <2>1. CASE ReadInitialization
    BY <2>1 DEF ReadInitialization, Extend, Return, Raise
  <2>2. CASE ReadContinuation
    BY <2>2 DEF ReadContinuation, IsNextContinuation, Extend, Return, Raise
  <2>3. CASE ReadWrongChannel \/ ReadKeepalive \/ ReadError \/ ReadOtherCommand
    BY <2>3 DEF ReadWrongChannel, ReadKeepalive, ReadError, ReadOtherCommand, Raise
  <2> QED BY <2>1, <2>2, <2>3 DEF Read
<1>5. CASE pc' \in {"check", "wait"} /\ UNCHANGED result
  BY <1>2, <1>5, Unseen DEF Active
<1>6. CASE /\ pc' \in {"idle", "closed"}
           /\ result'.kind \in {"CtapError", "ConnectionFailure"}
  BY <1>2, <1>6, FailRefines DEF Active, Outcome
<1>7. CASE /\ pc' \in {"idle", "closed"} /\ result'.kind = "ok"
           /\ result'.body = body /\ Recv.kind = "data"
  <2>1. chunk \in Chunk /\ chunk.code = Recv.code
    BY <1>2, <1>7 DEF ToHostPacket, Report, Chunk
  <2>2. body[1].code \in {"OK", "CANCELLED"} /\ IsTrue(body[1].code)
    <3> HIDE DEF chunk
    <3>1. /\ DOMAIN response = 1 .. Len(response) /\ Len(response) \in Nat
          /\ \A i \in DOMAIN response : body[i] = response[i]
          /\ body[Len(response) + 1] = chunk
          /\ response = <<>> <=> Len(response) = 0
      BY <1>2, <2>1, AppendFacts, EmptySeq
    <3>2. CASE response = <<>>
      <4>1. Len(response) + 1 = 1
        BY <3>1, <3>2
      <4> QED BY <1>3, <1>7, <2>1, <3>1, <4>1
    <3>3. CASE response # <<>>
      <4>1. 1 \in DOMAIN response /\ body[1] = response[1]
        BY <3>1, <3>3
      <4>2. response[1] \in Chunk
        BY <1>2, <4>1
      <4>3. IsTrue(response[1].code)
        BY <1>2, <4>1 DEF UndisturbedInv, FateInOrder
      <4> QED BY <4>1, <4>2, <4>3 DEF Chunk
    <3> QED BY <3>2, <3>3
  <2>3. ~Active'
    BY <1>7 DEF Active
  <2> HIDE DEF body
  <2> QED BY <1>2, <1>7, <2>2, <2>3, ReturnRefines
<1> HIDE DEF body
<1> QED BY <1>4, <1>5, <1>6, <1>7

\* CANCEL, and the command being carried out, are steps on the call under way.
LEMMA DevRefines ==
  ASSUME UndisturbedInv, DevReceive \/ DevAnswer
  PROVE  Abstract!CallNext \/ UNCHANGED Abstract!callVars
<1>1. UNCHANGED clientVars /\ UNCHANGED asked
  BY DEF DevReceive, DevAnswer
<1>2. UNCHANGED <<call, result>> /\ (Active' = Active)
      /\ ((call \notin asked)' = (call \notin asked)) /\ Outcome' = Outcome
  BY <1>1 DEF clientVars, Active, Outcome
<1>3. Working => Active = TRUE /\ Fate = "nothing"
  <2> SUFFICES ASSUME Working PROVE Active = TRUE /\ Fate = "nothing"
    OBVIOUS
  <2>1. Active /\ call # 0 /\ executed[call] = 0 /\ call \notin cancelled
    BY WorkingFate DEF UndisturbedInv
  <2>2. Active = TRUE
    BY <2>1, ActiveBoolean, Zenon
  <2> QED BY <2>1, <2>2 DEF Fate
<1>4. CASE DevAnswer
  <2>1. Working
    BY <1>4 DEF DevAnswer, Working
  <2>2. /\ devReq.call = call /\ call \in Calls /\ call # 0 /\ executed[call] = 0
        /\ executed \in [Calls -> 0 .. 2]
    BY <2>1, WorkingFate DEF UndisturbedInv
  <2>3. executed'[call] = 1
    BY <1>4, <2>2 DEF DevAnswer
  <2>4. Fate' = "done"
    BY <1>2, <2>2, <2>3 DEF Fate
  <2> QED BY <1>2, <1>3, <2>1, <2>4 DEF Abstract!CallNext, Abstract!Perform
<1>5. CASE DevReceive
  <2>1. \/ UNCHANGED cancelled
        \/ Head(toDev).kind = "cancel" /\ dev = "user" /\ CancelRequest
    BY <1>5 DEF DevReceive, Accept, Reject, Busy, Continue, Ignore
  <2>2. UNCHANGED executed
    BY <1>5 DEF DevReceive
  <2>3. CASE UNCHANGED cancelled
    BY <1>1, <1>2, <2>2, <2>3, Unseen
  <2>4. CASE Head(toDev).kind = "cancel" /\ dev = "user" /\ CancelRequest
    <3>1. Working /\ cancelled' = cancelled \cup {devReq.call}
      BY <2>4 DEF CancelRequest, Working
    <3>2. /\ devReq.call = call /\ call # 0 /\ executed[call] = 0 /\ call \in Calls
      BY <3>1, WorkingFate DEF UndisturbedInv
    <3>3. Fate' = "cancelled"
      BY <1>2, <2>2, <3>1, <3>2 DEF Fate
    <3>4. call \in asked
      <4>1. CancelsInOrder'
        BY <1>5, DevReceiveCancels DEF UndisturbedInv
      <4> QED BY <1>1, <1>2, <3>1, <3>2, <4>1 DEF CancelsInOrder, CancelHitsItsCall
    <3> QED BY <1>2, <1>3, <3>1, <3>3, <3>4 DEF Abstract!CallNext, Abstract!Cancel
  <2> QED BY <2>1, <2>3, <2>4
<1> QED BY <1>4, <1>5

LEMMA NextRefines ==
  UndisturbedInv /\ UndisturbedInv' /\ [Next]_vars =>
    [Abstract!CallNext]_(Abstract!callVars)
<1> SUFFICES ASSUME UndisturbedInv, UndisturbedInv', [Next]_vars
             PROVE  Abstract!CallNext \/ UNCHANGED Abstract!callVars
  OBVIOUS
<1>1. CASE Open \/ Call
  BY <1>1, InvokeRefines
<1>2. CASE Close
  BY <1>2, Unseen DEF Close, histVars, Active
<1>3. CASE WritePacket \/ CheckCancel \/ RetryBusy
  BY <1>3, Unseen DEF WritePacket, CheckCancel, RetryBusy, Attempt, histVars, Active
<1>4. CASE Read
  BY <1>4, ReadRefines
<1>5. CASE GiveUpBusy
  <2>1. Outcome' = "error"
    BY <1>5 DEF GiveUpBusy, Raise, Outcome
  <2> QED BY <1>5, <2>1, FailRefines DEF GiveUpBusy, Raise, Active, histVars
<1>6. CASE Interrupt
  BY <1>6 DEF Interrupt, UndisturbedInv, Clean
<1>7. CASE SetEvent
  <2>1. /\ Active /\ UNCHANGED <<pc, call, executed, cancelled, result>>
        /\ asked' = asked \cup {call}
    BY <1>7 DEF SetEvent, Active
  <2>2. CASE call \in asked
    <3>1. UNCHANGED asked
      BY <2>1, <2>2
    <3> QED BY <2>1, <3>1, Unseen DEF Active
  <2>3. CASE call \notin asked
    <3>1. (call \notin asked) /\ ((call \notin asked)' = FALSE)
      BY <2>1, <2>3
    <3>2. Active' = Active /\ Fate' = Fate /\ Outcome' = Outcome
      BY <2>1 DEF Active, Fate, Outcome
    <3> QED BY <2>1, <3>1, <3>2 DEF Abstract!CallNext, Abstract!Unwant
  <2> QED BY <2>2, <2>3
<1>8. CASE DevReceive \/ DevAnswer
  BY <1>8, DevRefines
<1>9. CASE \/ DevNeedUser \/ UserTouch \/ DevSendPiece \/ DevKeepalive \/ OtherBegin
           \/ OtherEnd \/ UNCHANGED vars
  <2>1. UNCHANGED clientVars /\ UNCHANGED <<asked, executed, cancelled>>
    BY <1>9 DEF DevNeedUser, UserTouch, DevSendPiece, DevKeepalive, OtherBegin, OtherEnd,
       vars, histVars
  <2> QED BY <2>1, Unseen DEF clientVars, Active
<1> QED BY <1>1, <1>2, <1>3, <1>4, <1>5, <1>6, <1>7, <1>8, <1>9
        DEF Next, ThreadStep, DevWork

LEMMA InitRefines == Init => Abstract!CallInit
<1> SUFFICES ASSUME Init PROVE Abstract!CallInit
  OBVIOUS
<1>1. Active = FALSE /\ (call \notin asked) = TRUE
  <2>1. ~Active /\ call \notin asked
    BY DEF Init, Active
  <2> QED BY <2>1, ActiveBoolean, Zenon
<1>2. call = 0 /\ Fate = "nothing" /\ Outcome = "none"
  BY DEF Init, Fate, Outcome, NoResult
<1> QED BY <1>1, <1>2 DEF Abstract!CallInit

(* As long as nothing interrupts or loses anything, the transport keeps    *)
(* the promise of CtapDevice.call (CtapCall): what a call returns is what  *)
(* the authenticator did with its command, once, and it is cancelled only  *)
(* when the caller has asked for it.                                       *)
THEOREM KeepsCallContract == Spec /\ []Clean => CallContract
<1>1. Init => CancelsInOrder /\ FateInOrder
  BY InitCancels, InitFate
<1>2. TypeOK /\ InOrder /\ CancelsInOrder /\ FateInOrder /\ [Next]_vars
      => CancelsInOrder' /\ FateInOrder'
  BY NextCancels, NextFate
<1>3. Spec /\ []Clean => []UndisturbedInv
  BY <1>1, <1>2, InOrderAlways, PTL DEF Spec, UndisturbedInv
<1>4. UndisturbedInv /\ UndisturbedInv' /\ [Next]_vars =>
        [Abstract!CallNext]_(Abstract!callVars)
  BY NextRefines
<1>5. Init => Abstract!CallInit
  BY InitRefines
<1> QED BY <1>3, <1>4, <1>5, PTL DEF Spec, CallContract, Abstract!CallSpec
=============================================================================
