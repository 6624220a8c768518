--------------------------- MODULE MCDevices_proofs ---------------------------
(***************************************************************************)
(* Theorems of the smart card, the U2F key and the parts around the        *)
(* transports and the client, for any number of calls, APDUs, pieces,      *)
(* credentials, faults, events, reports, paths, pings and devices.  Each   *)
(* part has an inductive invariant of its own, stated in its module; a     *)
(* step of MCDevices is a step of one part and leaves the others alone.    *)
(***************************************************************************)
EXTENDS MCDevices, SequenceTheorems, TLAPS

-------------------------------------------------------------------------------
(* The smart card                                                          *)

LEMMA PcscRuns == [Next]_vars => [Pcsc!Next]_pcscVars
BY DEF Next, vars, Others, pcscVars

PcscType ==
  /\ executed \in [Pcsc!Calls -> Nat] /\ pcscCall \in 0..MaxCalls
  /\ fetched \in Nat /\ total \in Nat
  /\ pc \in {"closed", "idle", "command", "more", "check", "status"}

PcscInv == PcscType /\ Pcsc!CardInStep /\ Pcsc!WholeAnswer

LEMMA PcscStarts == Pcsc!Init => PcscInv
BY PcscGiven DEF PcscInv, PcscType, Pcsc!Init, Pcsc!CardInStep, Pcsc!WholeAnswer, Pcsc!Busy,
   Pcsc!NoResult, Pcsc!PcscAssumption

\* The answer so far and the next piece of it.
LEMMA PieceAdded ==
  ASSUME NEW c, NEW n \in Nat
  PROVE  /\ Append(Pcsc!Pieces(c, n), Pcsc!Piece(c, n + 1)) = Pcsc!Pieces(c, n + 1)
         /\ Append(<<>>, Pcsc!Piece(c, 1)) = Pcsc!Pieces(c, 1)
<1> DEFINE S == {Pcsc!Piece(c, i) : i \in Nat}
<1>1. ASSUME NEW m \in Nat
      PROVE  /\ Pcsc!Pieces(c, m) \in Seq(S) /\ Len(Pcsc!Pieces(c, m)) = m
             /\ \A i \in 1..m : Pcsc!Pieces(c, m)[i] = Pcsc!Piece(c, i)
  BY DEF Pcsc!Pieces
<1>2. ASSUME NEW m \in Nat, NEW s \in Seq(S), Len(s) = m,
             \A i \in 1..m : s[i] = Pcsc!Piece(c, i)
      PROVE  Append(s, Pcsc!Piece(c, m + 1)) = Pcsc!Pieces(c, m + 1)
  <2>1. Pcsc!Piece(c, m + 1) \in S
    OBVIOUS
  <2> HIDE DEF S
  <2>2. /\ Append(s, Pcsc!Piece(c, m + 1)) \in Seq(S)
        /\ Len(Append(s, Pcsc!Piece(c, m + 1))) = m + 1
        /\ \A i \in 1..m : Append(s, Pcsc!Piece(c, m + 1))[i] = Pcsc!Piece(c, i)
        /\ Append(s, Pcsc!Piece(c, m + 1))[m + 1] = Pcsc!Piece(c, m + 1)
    BY <1>2, <2>1, AppendProperties
  <2>3. \A i \in 1..(m + 1) : Append(s, Pcsc!Piece(c, m + 1))[i] = Pcsc!Pieces(c, m + 1)[i]
    BY <1>1, <2>2
  <2>4. /\ Pcsc!Pieces(c, m + 1) \in Seq(S) /\ Len(Pcsc!Pieces(c, m + 1)) = m + 1
    BY <1>1
  <2> QED BY <2>2, <2>3, <2>4, SeqEqual
<1>3. <<>> \in Seq(S) /\ Len(<<>>) = 0
  OBVIOUS
<1> HIDE DEF S
<1>4. Append(Pcsc!Pieces(c, n), Pcsc!Piece(c, n + 1)) = Pcsc!Pieces(c, n + 1)
  BY <1>1, <1>2
<1>5. Append(<<>>, Pcsc!Piece(c, 1)) = Pcsc!Pieces(c, 1)
  <2>1. \A i \in 1..0 : <<>>[i] = Pcsc!Piece(c, i)
    OBVIOUS
  <2>2. Append(<<>>, Pcsc!Piece(c, 0 + 1)) = Pcsc!Pieces(c, 0 + 1)
    BY <1>2, <1>3, <2>1
  <2> QED BY <2>2
<1> QED BY <1>4, <1>5

\* Nothing that matters changes, but where the host is between two calls.
LEMMA PcscBetweenCalls ==
  ASSUME PcscInv, Pcsc!New \/ Pcsc!Connect \/ Pcsc!Close
                    \/ \E n \in 1..MaxRequest : \E c \in {"CBOR", "MSG"} : Pcsc!Call(c, n)
  PROVE  PcscInv'
<1> USE PcscGiven DEF PcscInv, PcscType, Pcsc!CardInStep, Pcsc!WholeAnswer, Pcsc!Busy,
      Pcsc!Calls, Pcsc!PcscAssumption, Pcsc!NoResult
<1>1. CASE Pcsc!New
  BY <1>1 DEF Pcsc!New, Pcsc!Enter, Pcsc!Select
<1>2. CASE Pcsc!Connect
  BY <1>2 DEF Pcsc!Connect, Pcsc!Select
<1>3. CASE Pcsc!Close
  BY <1>3 DEF Pcsc!Close, Pcsc!cardVars
<1>4. ASSUME NEW n \in 1..MaxRequest, NEW c \in {"CBOR", "MSG"}, Pcsc!Call(c, n)
      PROVE  PcscInv'
  BY <1>4 DEF Pcsc!Call, Pcsc!Enter, Pcsc!cardVars
<1> QED BY <1>1, <1>2, <1>3, <1>4

\* An exchange that gives the next piece of an answer.
LEMMA PcscGivesPiece ==
  ASSUME PcscInv, NEW i, NEW n \in Nat, NEW next \in {"check", "status"},
         NEW got,
         Pcsc!GivePiece(i, n, got, next), i \in Nat, 0 < i, i <= n,
         Append(got, Pcsc!Piece(pcscCall, i)) = Pcsc!Pieces(pcscCall, i),
         working' = pcscCall, pcscCall > 0,
         executed' \in [Pcsc!Calls -> Nat], executed'[pcscCall] = 1,
         \A c \in Pcsc!Calls : c > pcscCall => executed'[c] = 0,
         result.kind = "none", UNCHANGED <<pcscCall, result>>
  PROVE  PcscInv'
<1>1. /\ fetched' = i /\ total' = n /\ fetched' \in Nat /\ total' \in Nat
      /\ card' = (IF i < n THEN "reply" ELSE "idle")
      /\ resp' = Pcsc!Pieces(pcscCall, i)
      /\ sw' = (IF i < n THEN "more" ELSE "success")
      /\ (pc' = "more" /\ i < n) \/ pc' \in {"check", "status"}
  BY DEF Pcsc!GivePiece, Pcsc!Received, Pcsc!More
<1>2. i = n \/ i < n
  OBVIOUS
<1>3. pc' # "command" /\ card' # "user" /\ Pcsc!Busy' /\ sw' # "update"
  BY <1>1 DEF Pcsc!Busy
<1> HIDE DEF Pcsc!Pieces
<1>4. Pcsc!CardInStep'
  BY <1>1, <1>2, <1>3 DEF Pcsc!CardInStep
<1> QED BY <1>1, <1>4 DEF PcscInv, PcscType, Pcsc!WholeAnswer

LEMMA PcscSendChained == ASSUME PcscInv, Pcsc!SendChained PROVE PcscInv'
BY PcscGiven DEF PcscInv, PcscType, Pcsc!CardInStep, Pcsc!WholeAnswer, Pcsc!Busy,
   Pcsc!Calls, Pcsc!PcscAssumption, Pcsc!SendChained, Pcsc!Received

LEMMA PcscSendCommand == ASSUME PcscInv, Pcsc!SendCommand PROVE PcscInv'
<1> USE PcscGiven DEF PcscInv, PcscType, Pcsc!CardInStep, Pcsc!Busy,
      Pcsc!Calls, Pcsc!PcscAssumption
<1>0. /\ pc = "command" /\ working' = pcscCall /\ UNCHANGED <<pcscCall, result>>
      /\ pcscCall \in Pcsc!Calls /\ executed[pcscCall] = 0 /\ result.kind = "none"
  BY DEF Pcsc!SendCommand
<1>1. ASSUME NEW n \in 1..MaxPieces, Pcsc!Execute(pcscCall),
             Pcsc!GivePiece(1, n, <<>>, "check")
      PROVE  PcscInv'
  <2>1. /\ executed' \in [Pcsc!Calls -> Nat] /\ executed'[pcscCall] = 1
        /\ \A c \in Pcsc!Calls : c > pcscCall => executed'[c] = 0
    BY <1>0, <1>1 DEF Pcsc!Execute
  <2> HIDE DEF PcscInv, PcscType, Pcsc!CardInStep, Pcsc!Busy, Pcsc!PcscAssumption
  <2>2. n \in Nat /\ 0 < 1 /\ 1 <= n /\ pcscCall > 0
    BY <1>0 DEF Pcsc!PcscAssumption
  <2>3. Append(<<>>, Pcsc!Piece(pcscCall, 1)) = Pcsc!Pieces(pcscCall, 1)
    BY PieceAdded
  <2> QED BY <1>0, <1>1, <2>1, <2>2, <2>3, PcscGivesPiece
<1>2. CASE Pcsc!GiveStatus("check") \/ Pcsc!GiveError("check")
  BY <1>0, <1>2 DEF Pcsc!GiveStatus, Pcsc!GiveError, Pcsc!Received, Pcsc!WholeAnswer
<1> QED BY <1>1, <1>2 DEF Pcsc!SendCommand

LEMMA PcscGetMore == ASSUME PcscInv, Pcsc!GetMore PROVE PcscInv'
<1> DEFINE next == IF lastKa = "none" THEN "check" ELSE "status"
<1>1. /\ pc = "more" /\ working' = working
      /\ Pcsc!GivePiece(fetched + 1, total, resp, next)
      /\ UNCHANGED <<pcscCall, result, executed>>
  BY DEF Pcsc!GetMore
<1>2. /\ working' = pcscCall /\ pcscCall > 0 /\ result.kind = "none"
      /\ executed[pcscCall] = 1 /\ fetched < total
      /\ resp = Pcsc!Pieces(pcscCall, fetched)
      /\ executed \in [Pcsc!Calls -> Nat] /\ fetched \in Nat /\ total \in Nat
      /\ \A c \in Pcsc!Calls : c > pcscCall => executed[c] = 0
  BY <1>1 DEF PcscInv, PcscType, Pcsc!CardInStep, Pcsc!Busy
<1>3. Append(resp, Pcsc!Piece(pcscCall, fetched + 1)) = Pcsc!Pieces(pcscCall, fetched + 1)
  BY <1>2, PieceAdded
<1>4. fetched + 1 \in Nat /\ 0 < fetched + 1 /\ fetched + 1 <= total
  BY <1>2
<1>5. next \in {"check", "status"}
  OBVIOUS
<1> HIDE DEF next
<1> QED BY <1>1, <1>2, <1>3, <1>4, <1>5, PcscGivesPiece

LEMMA PcscPoll == ASSUME PcscInv, Pcsc!Poll PROVE PcscInv'
<1> USE PcscGiven DEF Pcsc!Calls
<1>0. /\ pc \in {"check", "status"} /\ sw = "update"
      /\ working' = working /\ UNCHANGED <<pcscCall, result>>
  BY DEF Pcsc!Poll, Pcsc!Looking
<1>1. /\ working = pcscCall /\ pcscCall \in Pcsc!Calls /\ result.kind = "none"
      /\ executed \in [Pcsc!Calls -> Nat]
      /\ \A c \in Pcsc!Calls : c > pcscCall => executed[c] = 0
      /\ card = "user" => executed[pcscCall] = 0
      /\ card = "ready" => executed[pcscCall] = 1
  BY <1>0 DEF PcscInv, PcscType, Pcsc!CardInStep, Pcsc!Busy
<1>2. ASSUME NEW n \in 1..MaxPieces, card = "ready", UNCHANGED executed,
             Pcsc!GivePiece(1, n, <<>>, "status")
      PROVE  PcscInv'
  <2>1. n \in Nat /\ 0 < 1 /\ 1 <= n /\ pcscCall > 0
    BY <1>1, PcscGiven DEF Pcsc!PcscAssumption
  <2>2. Append(<<>>, Pcsc!Piece(pcscCall, 1)) = Pcsc!Pieces(pcscCall, 1)
    BY PieceAdded
  <2> QED BY <1>0, <1>1, <1>2, <2>1, <2>2, PcscGivesPiece
<1>3. CASE card = "user" /\ (Pcsc!GiveStatus("status") \/ Pcsc!GiveError("status"))
  BY <1>0, <1>1, <1>3 DEF PcscInv, PcscType, Pcsc!CardInStep, Pcsc!WholeAnswer, Pcsc!Busy,
     Pcsc!GiveStatus, Pcsc!GiveError, Pcsc!Received
<1> QED BY <1>2, <1>3 DEF Pcsc!Poll

\* The call ends: what it returns is what was fetched.
LEMMA PcscEnds ==
  ASSUME PcscInv, Pcsc!GiveUp \/ Pcsc!Return \/ Pcsc!CardLeaves
  PROVE  PcscInv'
<1> USE DEF PcscInv, PcscType, Pcsc!CardInStep, Pcsc!WholeAnswer, Pcsc!Busy,
      Pcsc!Raised, Pcsc!cardVars, Pcsc!Leave
<1>1. CASE Pcsc!GiveUp
  BY <1>1 DEF Pcsc!GiveUp
<1>2. CASE Pcsc!Return
  BY <1>2 DEF Pcsc!Return, Pcsc!Looking, Pcsc!Pieces
<1>3. CASE Pcsc!CardLeaves
  BY <1>3 DEF Pcsc!CardLeaves
<1> QED BY <1>1, <1>2, <1>3

LEMMA PcscOthers ==
  ASSUME PcscInv, Pcsc!SetEvent \/ Pcsc!UserTouch \/ UNCHANGED pcscVars
  PROVE  PcscInv'
<1> USE DEF PcscInv, PcscType, Pcsc!CardInStep, Pcsc!WholeAnswer, Pcsc!Busy, Pcsc!Calls
<1>1. CASE Pcsc!SetEvent
  BY <1>1 DEF Pcsc!SetEvent, Pcsc!cardVars
<1>2. CASE Pcsc!UserTouch
  <2>1. /\ card = "user" /\ card' = "ready" /\ working \in 1..pcscCall
        /\ working \in Pcsc!Calls /\ result.kind # "ok" /\ pc # "more"
        /\ pc \in {"check", "status"} => sw = "update" /\ working = pcscCall
        /\ pc = "command" => working # pcscCall
    BY <1>2, PcscGiven DEF Pcsc!UserTouch, Pcsc!PcscAssumption
  <2>2. /\ executed' = [executed EXCEPT ![working] = @ + 1]
        /\ UNCHANGED <<pc, pcscCall, sw, resp, result, working, fetched, total>>
    BY <1>2 DEF Pcsc!UserTouch, Pcsc!hostVars, Pcsc!Execute
  <2>3. /\ executed' \in [Pcsc!Calls -> Nat]
        /\ \A c \in Pcsc!Calls : c # working => executed'[c] = executed[c]
        /\ executed'[working] = executed[working] + 1
    BY <2>1, <2>2
  <2> QED BY <2>1, <2>2, <2>3
<1>3. CASE UNCHANGED pcscVars
  BY <1>3 DEF pcscVars
<1> QED BY <1>1, <1>2, <1>3

LEMMA PcscKept ==
  ASSUME PcscInv, [Pcsc!Next]_pcscVars
  PROVE  PcscInv'
BY PcscBetweenCalls, PcscSendChained, PcscSendCommand, PcscGetMore, PcscPoll, PcscEnds,
   PcscOthers DEF Pcsc!Next, Pcsc!ThreadStep

-------------------------------------------------------------------------------
(* The smart card keeps what a call promises.                              *)

PcscStep ==
  [result.kind # "cancel" => Pcsc!Abstract!CallNext]_(Pcsc!Abstract!callVars)

LEMMA PcscCallStarts == Pcsc!Init => Pcsc!Abstract!CallInit
BY PcscGiven DEF Pcsc!Init, Pcsc!Abstract!CallInit, Pcsc!Busy, Pcsc!Fate, Pcsc!Outcome, Pcsc!NoResult

\* Nothing of the call changes.
LEMMA PcscStutters ==
  ASSUME UNCHANGED <<pcscCall, event, result>>, Pcsc!Busy' = Pcsc!Busy,
         pcscCall = 0 \/ executed'[pcscCall] = executed[pcscCall]
  PROVE  PcscStep
BY DEF PcscStep, Pcsc!Abstract!callVars, Pcsc!Fate, Pcsc!Outcome

\* A call begins.
LEMMA PcscInvokes ==
  ASSUME PcscInv, ~Pcsc!Busy, NEW c, NEW n, Pcsc!Enter(c, n), UNCHANGED executed
  PROVE  PcscStep
<1>1. /\ pcscCall < MaxCalls /\ pcscCall' = pcscCall + 1 /\ pcscCall \in Nat
      /\ executed'[pcscCall'] = 0
  BY PcscGiven DEF PcscInv, PcscType, Pcsc!CardInStep, Pcsc!Calls, Pcsc!Enter, Pcsc!PcscAssumption
<1>2. Pcsc!Fate' = "nothing" /\ Pcsc!Outcome' = "none" /\ Pcsc!Busy'
  BY <1>1 DEF Pcsc!Fate, Pcsc!Outcome, Pcsc!Busy, Pcsc!Enter, Pcsc!NoResult
<1>3. (~event)' \in BOOLEAN
  OBVIOUS
<1> QED BY <1>1, <1>2, <1>3 DEF PcscStep, Pcsc!Abstract!CallNext, Pcsc!Abstract!Invoke

\* The command is carried out.
LEMMA PcscPerforms ==
  ASSUME Pcsc!Busy, Pcsc!Busy', UNCHANGED <<pcscCall, event, result>>, pcscCall > 0,
         executed[pcscCall] = 0, executed'[pcscCall] = 1
  PROVE  PcscStep
<1>1. Pcsc!Fate = "nothing" /\ Pcsc!Fate' = "done" /\ UNCHANGED Pcsc!Outcome
  BY DEF Pcsc!Fate, Pcsc!Outcome
<1>2. Pcsc!Busy' = Pcsc!Busy
  OBVIOUS
<1> QED BY <1>1, <1>2 DEF PcscStep, Pcsc!Abstract!CallNext, Pcsc!Abstract!Perform

\* The call returns or raises.
LEMMA PcscFinishes ==
  ASSUME Pcsc!Busy, ~Pcsc!Busy', UNCHANGED <<pcscCall, event, executed>>, pcscCall > 0,
         result'.kind = "ok" => executed[pcscCall] = 1,
         result'.kind # "none"
  PROVE  PcscStep
<1>1. UNCHANGED Pcsc!Fate
  BY DEF Pcsc!Fate
<1>2. Pcsc!Outcome' = "error" \/ (Pcsc!Fate = "done" /\ Pcsc!Outcome' = "done")
  <2>1. CASE result'.kind = "ok"
    <3>1. Pcsc!Fate = "done"
      BY <2>1 DEF Pcsc!Fate
    <3>2. Pcsc!Outcome' = "done"
      BY <2>1 DEF Pcsc!Outcome
    <3> QED BY <3>1, <3>2
  <2>2. CASE result'.kind # "ok"
    BY <2>2 DEF Pcsc!Outcome
  <2> QED BY <2>1, <2>2
<1> QED BY <1>1, <1>2 DEF PcscStep, Pcsc!Abstract!CallNext, Pcsc!Abstract!Finish

LEMMA PcscCallRefined ==
  ASSUME PcscInv, [Pcsc!Next]_pcscVars
  PROVE  PcscStep
<1> USE DEF Pcsc!Busy
<1>0. Pcsc!Busy => pcscCall \in Pcsc!Calls /\ result.kind = "none"
  BY PcscGiven DEF PcscInv, PcscType, Pcsc!CardInStep, Pcsc!Calls, Pcsc!PcscAssumption
<1>1. CASE Pcsc!New
  BY <1>1, PcscInvokes DEF Pcsc!New, Pcsc!Select
<1>2. ASSUME NEW n \in 1..MaxRequest, NEW c \in {"CBOR", "MSG"}, Pcsc!Call(c, n)
      PROVE  PcscStep
  BY <1>2, PcscInvokes DEF Pcsc!Call, Pcsc!cardVars
<1>3. CASE Pcsc!Connect \/ Pcsc!Close \/ UNCHANGED pcscVars
  BY <1>3, PcscStutters DEF Pcsc!Connect, Pcsc!Select, Pcsc!Close, Pcsc!cardVars, pcscVars
<1>4. CASE Pcsc!SendChained
  BY <1>4, PcscStutters DEF Pcsc!SendChained, Pcsc!Received
<1>5. CASE Pcsc!SendCommand
  <2>1. /\ UNCHANGED <<pcscCall, event, result>> /\ pcscCall \in Pcsc!Calls
        /\ executed[pcscCall] = 0 /\ Pcsc!Busy
    BY <1>0, <1>5 DEF Pcsc!SendCommand, PcscInv, Pcsc!CardInStep
  <2>2. ASSUME NEW n \in 1..MaxPieces, Pcsc!Execute(pcscCall),
               Pcsc!GivePiece(1, n, <<>>, "check")
        PROVE  PcscStep
    <3>1. Pcsc!Busy'
      BY <2>2 DEF Pcsc!GivePiece, Pcsc!Received
    <3>2. executed'[pcscCall] = 1 /\ pcscCall > 0
      BY <2>1, <2>2, PcscGiven DEF Pcsc!Execute, PcscInv, PcscType, Pcsc!Calls,
         Pcsc!PcscAssumption
    <3> QED BY <2>1, <3>1, <3>2, PcscPerforms
  <2>3. CASE Pcsc!GiveStatus("check") \/ Pcsc!GiveError("check")
    BY <2>1, <2>3, PcscStutters DEF Pcsc!GiveStatus, Pcsc!GiveError, Pcsc!Received
  <2> QED BY <1>5, <2>2, <2>3 DEF Pcsc!SendCommand
<1>6. CASE Pcsc!GetMore
  BY <1>6, PcscStutters DEF Pcsc!GetMore, Pcsc!GivePiece, Pcsc!Received
<1>7. CASE Pcsc!Poll
  <2>1. /\ UNCHANGED <<pcscCall, event, result, executed>> /\ Pcsc!Busy /\ Pcsc!Busy'
    BY <1>7 DEF Pcsc!Poll, Pcsc!Looking, Pcsc!GivePiece, Pcsc!GiveStatus, Pcsc!GiveError,
       Pcsc!Received
  <2> QED BY <2>1, PcscStutters
<1>8. CASE Pcsc!GiveUp \/ Pcsc!Return \/ Pcsc!CardLeaves
  <2>1. /\ UNCHANGED <<pcscCall, event, executed>> /\ Pcsc!Busy /\ ~Pcsc!Busy'
        /\ result'.kind # "none"
    BY <1>8 DEF Pcsc!GiveUp, Pcsc!Return, Pcsc!CardLeaves, Pcsc!Looking, Pcsc!Leave,
       Pcsc!cardVars, Pcsc!Raised
  <2>2. result'.kind = "ok" => executed[pcscCall] = 1
    BY <1>8 DEF Pcsc!GiveUp, Pcsc!Return, Pcsc!CardLeaves, Pcsc!Looking, Pcsc!Leave,
       Pcsc!Raised, PcscInv, Pcsc!CardInStep
  <2>3. pcscCall > 0
    BY <1>0, <2>1, PcscGiven DEF Pcsc!Calls, Pcsc!PcscAssumption
  <2> QED BY <2>1, <2>2, <2>3, PcscFinishes
<1>9. CASE Pcsc!SetEvent
  <2>1. /\ Pcsc!Busy /\ Pcsc!Busy' /\ ~event /\ event'
        /\ UNCHANGED <<pcscCall, result, executed>>
    BY <1>9 DEF Pcsc!SetEvent, Pcsc!cardVars
  <2>2. UNCHANGED Pcsc!Fate /\ UNCHANGED Pcsc!Outcome
    BY <2>1 DEF Pcsc!Fate, Pcsc!Outcome
  <2> QED BY <2>1, <2>2 DEF PcscStep, Pcsc!Abstract!CallNext, Pcsc!Abstract!Unwant
<1>10. CASE Pcsc!UserTouch
  <2>1. /\ card = "user" /\ working \in 1..pcscCall /\ pcscCall \in 0..MaxCalls
        /\ executed' = [executed EXCEPT ![working] = @ + 1]
        /\ UNCHANGED <<pc, pcscCall, event, result>>
        /\ executed \in [Pcsc!Calls -> Nat]
    BY <1>10 DEF Pcsc!UserTouch, Pcsc!hostVars, Pcsc!Execute, PcscInv, PcscType,
       Pcsc!CardInStep
  <2>2. working \in Pcsc!Calls
    BY <2>1, PcscGiven DEF Pcsc!Calls, Pcsc!PcscAssumption
  <2>3. CASE ~Pcsc!Busy
    <3>1. result.kind = "cancel"
      BY <2>1, <2>3 DEF PcscInv, Pcsc!CardInStep
    <3> QED BY <3>1 DEF PcscStep
  <2>4. CASE Pcsc!Busy /\ working # pcscCall
    <3>1. executed'[pcscCall] = executed[pcscCall]
      BY <1>0, <2>1, <2>2, <2>4
    <3> QED BY <2>1, <3>1, PcscStutters
  <2>5. CASE Pcsc!Busy /\ working = pcscCall
    <3>1. executed[pcscCall] = 0
      BY <2>1, <2>5 DEF PcscInv, PcscType, Pcsc!CardInStep
    <3>2. executed'[pcscCall] = 1 /\ pcscCall > 0
      BY <2>1, <2>2, <2>5, <3>1
    <3>3. Pcsc!Busy'
      BY <2>1, <2>5
    <3> QED BY <2>1, <2>5, <3>1, <3>2, <3>3, PcscPerforms
  <2> QED BY <2>3, <2>4, <2>5
<1> QED BY <1>1, <1>2, <1>3, <1>4, <1>5, <1>6, <1>7, <1>8, <1>9, <1>10
        DEF Pcsc!Next, Pcsc!ThreadStep

-------------------------------------------------------------------------------
(* The U2F key                                                             *)

LEMMA U2fRuns == [Next]_vars => [U2f!Next]_u2fVars
BY DEF Next, vars, Others, u2fVars

U2fType ==
  /\ list \in Seq(KeyHandles)
  /\ operation \in {"none", "make", "get", "select"}
  /\ step \in {"idle", "begin", "exclude", "poll", "send"}
  /\ step # "idle" => operation # "none"
  /\ operation = "get" /\ step \in {"poll", "send"} => list # <<>>

U2fInv ==
  /\ U2fType /\ U2f!LateOnce /\ U2f!ExcludeBeforeRegister /\ U2f!ExcludedCreatesNothing

LEMMA U2fStarts == U2f!Init => U2fInv
BY DEF U2fInv, U2fType, U2f!Init, U2f!LateOnce, U2f!ExcludeBeforeRegister,
   U2f!ExcludedCreatesNothing

\* What is left of a list without its first member.
LEMMA ListWithoutFirst ==
  ASSUME list \in Seq(KeyHandles), list # <<>>
  PROVE  /\ Tail(list) \in Seq(KeyHandles)
         /\ U2f!ToSet(list) \subseteq {Head(list)} \cup U2f!ToSet(Tail(list))
<1>1. /\ Tail(list) \in Seq(KeyHandles) /\ Len(list) \in Nat /\ DOMAIN list = 1..Len(list)
      /\ Len(Tail(list)) = Len(list) - 1 /\ DOMAIN Tail(list) = 1..(Len(list) - 1)
      /\ \A i \in 1..(Len(list) - 1) : Tail(list)[i] = list[i + 1]
      /\ Head(list) = list[1]
  BY HeadTailProperties, LenProperties
<1>2. ASSUME NEW i \in 1..Len(list), i # 1
      PROVE  list[i] \in U2f!ToSet(Tail(list))
  <2>1. i - 1 \in 1..(Len(list) - 1) /\ Tail(list)[i - 1] = list[i]
    BY <1>1, <1>2
  <2> QED BY <1>1, <2>1 DEF U2f!ToSet
<1> QED BY <1>1, <1>2 DEF U2f!ToSet

\* A ceremony begins with the list as it was given.
LEMMA U2fBegins ==
  ASSUME U2fInv, NEW op \in {"make", "get", "select"}, NEW l \in U2f!Lists, U2f!Begin(op, l)
  PROVE  U2fInv'
<1>1. l \in Seq(KeyHandles)
  BY DEF U2f!Lists
<1>2. /\ list' = l /\ operation' = op /\ step' = "begin" /\ ended' = "none"
      /\ abort' = FALSE /\ sentLate' = 0 /\ erred' = {} /\ handles' = handles
      /\ listed' = U2f!ToSet(l) \cap handles
      /\ command' = CASE op = "make" -> "register"
                      [] op = "get" -> "authenticate" [] OTHER -> "dummy"
  BY DEF U2f!Begin
<1> QED BY <1>1, <1>2 DEF U2fInv, U2fType, U2f!LateOnce, U2f!ExcludeBeforeRegister,
        U2f!ExcludedCreatesNothing

\* What is refused, and the loop over exclude_list.
LEMMA U2fExcludes ==
  ASSUME U2fInv, U2f!Refuse \/ U2f!Accept \/ U2f!Exclude \/ U2f!ExcludeErrs
                   \/ U2f!ExcludeFails \/ U2f!Excluded
  PROVE  U2fInv'
<1> USE DEF U2fInv, U2fType, U2f!LateOnce, U2f!ExcludeBeforeRegister,
      U2f!ExcludedCreatesNothing, U2f!history, U2f!Leave
<1>1. CASE U2f!Refuse
  BY <1>1 DEF U2f!Refuse
<1>2. CASE U2f!Accept
  <2>1. operation = "get" => list # <<>>
    BY <1>2 DEF U2f!Accept
  <2> QED BY <1>2, <2>1 DEF U2f!Accept
<1>3. CASE U2f!Exclude
  <2>1. list # <<>> /\ step = "exclude"
    BY <1>3 DEF U2f!Exclude
  <2>2. CASE Head(list) \in handles
    BY <1>3, <2>1, <2>2 DEF U2f!Exclude
  <2>3. CASE Head(list) \notin handles
    BY <1>3, <2>1, <2>3, ListWithoutFirst DEF U2f!Exclude
  <2> QED BY <2>2, <2>3
<1>4. CASE U2f!ExcludeErrs
  BY <1>4, ListWithoutFirst DEF U2f!ExcludeErrs
<1>5. CASE U2f!ExcludeFails
  BY <1>5 DEF U2f!ExcludeFails
<1>6. CASE U2f!Excluded
  <2>1. U2f!ToSet(<<>>) = {}
    BY DEF U2f!ToSet
  <2> QED BY <1>6, <2>1 DEF U2f!Excluded
<1> QED BY <1>1, <1>2, <1>3, <1>4, <1>5, <1>6

\* _call_polling.
LEMMA U2fPolls ==
  ASSUME U2fInv, U2f!LookAtEvent \/ U2f!NotTouched \/ U2f!Touched \/ U2f!WrongData
                   \/ U2f!CommandFails
  PROVE  U2fInv'
<1> USE DEF U2fInv, U2fType, U2f!LateOnce, U2f!ExcludeBeforeRegister,
      U2f!ExcludedCreatesNothing, U2f!history, U2f!Leave
<1>1. CASE U2f!LookAtEvent
  BY <1>1 DEF U2f!LookAtEvent
<1>2. CASE U2f!NotTouched
  BY <1>2 DEF U2f!NotTouched, U2f!Sends
<1>3. CASE U2f!Touched
  BY <1>3 DEF U2f!Touched, U2f!Sends
<1>4. CASE U2f!WrongData \/ U2f!CommandFails
  <2>1. /\ step = "send" /\ (sentLate' = IF abort /\ sentLate < 2 THEN sentLate + 1 ELSE sentLate)
        /\ UNCHANGED <<handles, operation, command, abort, listed, erred>>
        /\ U2f!Failed
    BY <1>4 DEF U2f!WrongData, U2f!CommandFails, U2f!Sends
  <2>2. CASE operation = "get"
    <3>1. list # <<>> /\ list' = Tail(list) /\ Len(list) \in Nat \ {0}
      BY <2>1, <2>2, EmptySeq DEF U2f!Failed
    <3>2. list' \in Seq(KeyHandles) /\ Len(list') = Len(list) - 1
      BY <3>1, HeadTailProperties
    <3>3. Len(list) # 1 => list' # <<>>
      BY <3>1, <3>2, EmptySeq
    <3> QED BY <2>1, <2>2, <3>2, <3>3 DEF U2f!Failed
  <2>3. CASE operation # "get"
    BY <2>1, <2>3 DEF U2f!Failed
  <2> QED BY <2>2, <2>3
<1> QED BY <1>1, <1>2, <1>3, <1>4

LEMMA U2fKept ==
  ASSUME U2fInv, [U2f!Next]_u2fVars
  PROVE  U2fInv'
<1>1. CASE U2f!Abort
  BY <1>1 DEF U2fInv, U2fType, U2f!LateOnce, U2f!ExcludeBeforeRegister,
     U2f!ExcludedCreatesNothing, U2f!history, U2f!Abort
<1>2. CASE UNCHANGED u2fVars
  BY <1>2 DEF U2fInv, U2fType, U2f!LateOnce, U2f!ExcludeBeforeRegister,
     U2f!ExcludedCreatesNothing, u2fVars
<1> QED BY <1>1, <1>2, U2fBegins, U2fExcludes, U2fPolls DEF U2f!Next, U2f!ClientStep

\* Ctap1Client (client/__init__.py): for any exclude_list, after an abort one
\* command that takes a touch is sent at most, and a credential is created only
\* if the authenticator knew none that is excluded, those aside for which it
\* answered with an error.
THEOREM U2fStopsAndExcludes == Spec => []U2fStops
<1>1. Init => U2fInv
  BY U2fStarts DEF Init
<1>2. U2fInv /\ [Next]_vars => U2fInv'
  BY U2fRuns, U2fKept
<1>3. U2fInv => U2fStops
  BY DEF U2fInv, U2f!LateOnce, U2fStops, U2f!OneMoreCommand
<1> QED BY <1>1, <1>2, <1>3, PTL DEF Spec

-------------------------------------------------------------------------------
(* A U2F ceremony keeps what a ceremony promises.                          *)

U2fStep == [U2f!Contract!Next]_(U2f!Contract!vars)

LEMMA U2fStutters ==
  ASSUME UNCHANGED <<operation, touched, handles, ended>>, (step' = "idle") <=> (step = "idle")
  PROVE  U2fStep
BY DEF U2fStep, U2f!Contract!vars, U2f!Outcome

\* A ceremony that fails has created nothing.
LEMMA U2fFails ==
  ASSUME step # "idle", step' = "idle",
         ended' \in {"TIMEOUT", "OTHER_ERROR", "UNSUPPORTED_OPTION"}
           \/ (ended' = "DEVICE_INELIGIBLE" /\ operation # "make"),
         UNCHANGED <<operation, touched, handles>>
  PROVE  U2fStep
<1>1. U2f!Outcome' = "error"
  BY DEF U2f!Outcome
<1> QED BY <1>1 DEF U2fStep, U2f!Contract!Next, U2f!Contract!Fail, U2f!Contract!Finish

LEMMA U2fSucceeds == ASSUME U2fInv, U2f!Touched PROVE U2fStep
<1>1. step = "send" /\ step' = "idle" /\ touched' = TRUE /\ operation' = operation
  BY DEF U2f!Touched, U2f!Sends, U2f!Leave
<1>2. CASE command = "dummy" /\ operation = "make"
  <2>1. UNCHANGED handles /\ ended' = "DEVICE_INELIGIBLE"
    BY <1>2 DEF U2f!Touched, U2f!Leave
  <2>2. U2f!Outcome' = "ineligible"
    BY <1>1, <1>2, <2>1 DEF U2f!Outcome
  <2> QED BY <1>1, <2>1, <2>2 DEF U2fStep, U2f!Contract!Next, U2f!Contract!Decline,
          U2f!Contract!Finish
<1>3. CASE ~ (command = "dummy" /\ operation = "make")
  <2>1. ended' = "ok" /\ (handles' = handles \/ \E h \in KeyHandles : handles' = handles \cup {h})
    BY <1>3 DEF U2f!Touched, U2f!Leave
  <2>2. U2f!Outcome' = "ok"
    BY <2>1 DEF U2f!Outcome
  <2>3. handles \subseteq handles' /\ \A c, d \in handles' \ handles : c = d
    BY <2>1
  <2> QED BY <1>1, <2>2, <2>3 DEF U2fStep, U2f!Contract!Next, U2f!Contract!Deliver,
          U2f!Contract!Finish
<1> QED BY <1>2, <1>3

LEMMA U2fCeremonyRefined ==
  ASSUME U2fInv, [U2f!Next]_u2fVars
  PROVE  U2fStep
<1> USE DEF U2f!history, U2f!Leave
<1>1. ASSUME NEW op \in {"make", "get", "select"}, NEW l \in U2f!Lists, U2f!Begin(op, l)
      PROVE  U2fStep
  <2>1. U2f!Outcome' = "none"
    BY <1>1 DEF U2f!Begin, U2f!Outcome
  <2> QED BY <1>1, <2>1 DEF U2f!Begin, U2fStep, U2f!Contract!Next, U2f!Contract!Begin
<1>2. CASE U2f!Refuse
  BY <1>2, U2fFails DEF U2f!Refuse
<1>3. CASE U2f!ExcludeFails
  BY <1>3, U2fFails DEF U2f!ExcludeFails
<1>4. CASE U2f!Accept \/ U2f!Exclude \/ U2f!ExcludeErrs \/ U2f!Excluded
  BY <1>4, U2fStutters DEF U2f!Accept, U2f!Exclude, U2f!ExcludeErrs, U2f!Excluded
<1>5. CASE U2f!LookAtEvent
  <2>1. CASE abort
    BY <1>5, <2>1, U2fFails DEF U2f!LookAtEvent
  <2>2. CASE ~abort
    BY <1>5, <2>2, U2fStutters DEF U2f!LookAtEvent
  <2> QED BY <2>1, <2>2
<1>6. CASE U2f!NotTouched \/ U2f!Abort
  BY <1>6, U2fStutters DEF U2f!NotTouched, U2f!Sends, U2f!Abort
<1>7. CASE U2f!Touched
  BY <1>7, U2fSucceeds
<1>8. CASE U2f!WrongData \/ U2f!CommandFails
  <2>1. /\ step = "send" /\ U2f!Failed
        /\ UNCHANGED <<handles, operation, touched>>
    BY <1>8 DEF U2f!WrongData, U2f!CommandFails, U2f!Sends
  <2>2. \/ step' = "idle" /\ ended' = "OTHER_ERROR"
        \/ step' = "idle" /\ ended' = "DEVICE_INELIGIBLE" /\ operation = "get"
        \/ step' = "poll" /\ UNCHANGED ended
    BY <2>1 DEF U2f!Failed
  <2> QED BY <2>1, <2>2, U2fFails, U2fStutters
<1>9. CASE UNCHANGED u2fVars
  BY <1>9, U2fStutters DEF u2fVars
<1> QED BY <1>1, <1>2, <1>3, <1>4, <1>5, <1>6, <1>7, <1>8, <1>9
        DEF U2f!Next, U2f!ClientStep

\* For every size: a U2F ceremony is a Ceremony (consent for every success, at
\* most one credential, none of a ceremony that fails), and a call of the smart
\* card transport a CtapCall, up to the moment its caller gives it up.
THEOREM KeepTheirContracts == Spec => ContractsHold
<1>1. Init => PcscInv /\ U2fInv /\ Pcsc!Abstract!CallInit /\ U2f!Contract!Init
  <2>1. U2f!Init => U2f!Contract!Init
    BY DEF U2f!Init, U2f!Contract!Init, U2f!Outcome
  <2> QED BY <2>1, PcscStarts, PcscCallStarts, U2fStarts DEF Init
<1>2. PcscInv /\ U2fInv /\ [Next]_vars => (PcscInv /\ U2fInv)'
  BY PcscRuns, PcscKept, U2fRuns, U2fKept
<1>3. PcscInv /\ [Next]_vars =>
        [result.kind # "cancel" => Pcsc!Abstract!CallNext]_(Pcsc!Abstract!callVars)
  BY PcscRuns, PcscCallRefined DEF PcscStep
<1>4. U2fInv /\ [Next]_vars => [U2f!Contract!Next]_(U2f!Contract!vars)
  BY U2fRuns, U2fCeremonyRefined DEF U2fStep
<1> QED BY <1>1, <1>2, <1>3, <1>4, PTL DEF Spec, ContractsHold, Pcsc!CallContract,
        U2f!CeremonyContract, U2f!Contract!CeremonySpec
-------------------------------------------------------------------------------
(* The parts run independently.                                            *)

LEMMA WindowsRuns == [Next]_vars => [Windows!Next]_windowsVars
BY DEF Next, vars, Others, windowsVars

LEMMA MacRuns == [Next]_vars => [Mac!Next]_macVars
BY DEF Next, vars, Others, macVars

LEMMA BsdRuns == [Next]_vars => [Bsd!Next]_bsdVars
BY DEF Next, vars, Others, bsdVars

LEMMA ListsRuns == [Next]_vars => [Lists!Next]_listsVars
BY DEF Next, vars, Others, listsVars

LEMMA MultiRuns == [Next]_vars => [Multi!Next]_multiVars
BY DEF Next, vars, Others, multiVars

-------------------------------------------------------------------------------
(* WindowsClient                                                           *)

WindowsInv ==
  /\ Windows!TypeOK /\ Windows!ThreadOfItsCall /\ Windows!EventsExplained
  /\ Windows!CancelledOnRequest /\ Windows!ResultLeavesNoThread

LEMMA WindowsStarts == Windows!Init => WindowsInv
BY WindowsGiven DEF WindowsInv, Windows!Init, Windows!TypeOK, Windows!ThreadOfItsCall,
   Windows!EventsExplained, Windows!CancelledOnRequest, Windows!ResultLeavesNoThread,
   Windows!WindowsAssumption

\* The type of the variables, and that a call and its thread go together.
LEMMA WindowsThreadsKept ==
  ASSUME WindowsInv, [Windows!Next]_windowsVars
  PROVE  (Windows!TypeOK /\ Windows!ThreadOfItsCall /\ Windows!ResultLeavesNoThread)'
<1> USE WindowsGiven DEF WindowsInv, Windows!TypeOK, Windows!ThreadOfItsCall,
      Windows!ResultLeavesNoThread, Windows!At, Windows!WindowsAssumption
<1>1. ASSUME NEW c \in NativeCalls, NEW e \in Events \cup {NoEvent}, Windows!Start(c, e)
      PROVE  (Windows!TypeOK /\ Windows!ThreadOfItsCall /\ Windows!ResultLeavesNoThread)'
  BY <1>1 DEF Windows!Start
<1>2. ASSUME NEW c \in NativeCalls, Windows!NativeReturns(c) \/ Windows!NativeFails(c)
      PROVE  (Windows!TypeOK /\ Windows!ThreadOfItsCall /\ Windows!ResultLeavesNoThread)'
  BY <1>2 DEF Windows!NativeReturns, Windows!NativeFails
<1>3. ASSUME NEW c \in NativeCalls, Windows!CallStep(c)
      PROVE  (Windows!TypeOK /\ Windows!ThreadOfItsCall /\ Windows!ResultLeavesNoThread)'
  BY <1>3 DEF Windows!CallStep, Windows!Complete, Windows!SetEvent, Windows!Join
<1>4. ASSUME NEW c \in NativeCalls, Windows!ThreadStep(c)
      PROVE  (Windows!TypeOK /\ Windows!ThreadOfItsCall /\ Windows!ResultLeavesNoThread)'
  BY <1>4 DEF Windows!ThreadStep, Windows!Wake, Windows!CancelUnlessCompleted
<1>5. ASSUME NEW e \in Events, Windows!Request(e)
      PROVE  (Windows!TypeOK /\ Windows!ThreadOfItsCall /\ Windows!ResultLeavesNoThread)'
  BY <1>5 DEF Windows!Request
<1>6. CASE UNCHANGED windowsVars
  BY <1>6 DEF windowsVars
<1> QED BY <1>1, <1>2, <1>3, <1>4, <1>5, <1>6 DEF Windows!Next

\* Why an event is set, and for whom a call is cancelled.
LEMMA WindowsReasonsKept ==
  ASSUME WindowsInv, [Windows!Next]_windowsVars
  PROVE  (Windows!EventsExplained /\ Windows!CancelledOnRequest)'
<1> USE WindowsGiven DEF WindowsInv, Windows!TypeOK, Windows!ThreadOfItsCall,
      Windows!EventsExplained, Windows!CancelledOnRequest, Windows!At,
      Windows!WindowsAssumption
<1>1. ASSUME NEW c \in NativeCalls, NEW e \in Events \cup {NoEvent}, Windows!Start(c, e)
      PROVE  (Windows!EventsExplained /\ Windows!CancelledOnRequest)'
  <2>1. \A d \in NativeCalls \ {c} : passed'[d] = passed[d]
    BY <1>1 DEF Windows!Start
  <2>2. c \notin completed /\ c \notin cancelled
    BY <1>1 DEF Windows!Start
  <2>3. UNCHANGED <<completed, eventsSet, requested, cancelled>>
    BY <1>1 DEF Windows!Start
  <2> QED BY <2>1, <2>2, <2>3
<1>2. ASSUME NEW c \in NativeCalls, Windows!NativeReturns(c) \/ Windows!NativeFails(c)
      PROVE  (Windows!EventsExplained /\ Windows!CancelledOnRequest)'
  BY <1>2 DEF Windows!NativeReturns, Windows!NativeFails
<1>3. ASSUME NEW c \in NativeCalls, Windows!CallStep(c)
      PROVE  (Windows!EventsExplained /\ Windows!CancelledOnRequest)'
  BY <1>3 DEF Windows!CallStep, Windows!Complete, Windows!SetEvent, Windows!Join
<1>4. ASSUME NEW c \in NativeCalls, Windows!ThreadStep(c)
      PROVE  (Windows!EventsExplained /\ Windows!CancelledOnRequest)'
  BY <1>4 DEF Windows!ThreadStep, Windows!Wake, Windows!CancelUnlessCompleted
<1>5. ASSUME NEW e \in Events, Windows!Request(e)
      PROVE  (Windows!EventsExplained /\ Windows!CancelledOnRequest)'
  BY <1>5 DEF Windows!Request
<1>6. CASE UNCHANGED windowsVars
  BY <1>6 DEF windowsVars
<1> QED BY <1>1, <1>2, <1>3, <1>4, <1>5, <1>6 DEF Windows!Next

\* WindowsClient (client/windows.py): for any number of calls and events, shared
\* or not, a call is cancelled only because the program set its event or a call
\* with the same event completed, and one that returned a result has left no
\* thread that could cancel.
THEOREM WindowsIsCancelledOnRequest == Spec => []WindowsCancelsItsCall
<1>1. Init => WindowsInv
  BY WindowsStarts DEF Init
<1>2. WindowsInv /\ [Next]_vars => WindowsInv'
  BY WindowsRuns, WindowsThreadsKept, WindowsReasonsKept DEF WindowsInv
<1>3. WindowsInv => WindowsCancelsItsCall
  BY DEF WindowsInv, WindowsCancelsItsCall
<1> QED BY <1>1, <1>2, <1>3, PTL DEF Spec

-------------------------------------------------------------------------------
(* MultiDevice                                                             *)

MultiInv == Multi!TypeOK /\ Multi!TouchesLead

LEMMA MultiKept ==
  ASSUME MultiInv, [Multi!Next]_multiVars
  PROVE  MultiInv'
<1> USE MultiGiven DEF MultiInv, Multi!TypeOK, Multi!TouchesLead, Multi!Thread,
      Multi!MultiAssumption
<1>1. ASSUME NEW d \in Devices, Multi!Selection(d)
      PROVE  MultiInv'
  BY <1>1 DEF Multi!Selection
<1>2. ASSUME NEW d \in Devices, Multi!SelectionAborted(d) \/ Multi!SelectionFails(d)
      PROVE  MultiInv'
  BY <1>2 DEF Multi!SelectionAborted, Multi!SelectionFails
<1>3. ASSUME NEW d \in Devices, Multi!Assign(d)
      PROVE  MultiInv'
  BY <1>3 DEF Multi!Assign
<1>4. ASSUME NEW d \in Devices, Multi!SetCancel(d)
      PROVE  MultiInv'
  BY <1>4 DEF Multi!SetCancel
<1>5. CASE Multi!JoinAll
  BY <1>5 DEF Multi!JoinAll
<1>6. CASE UNCHANGED multiVars
  BY <1>6 DEF multiVars
<1> QED BY <1>1, <1>2, <1>3, <1>4, <1>5, <1>6 DEF Multi!Next

\* examples/multi_device.py: for any number of devices, whichever of them are
\* touched and in whatever order their threads run, the credential is created on
\* a device that was touched, with no selection under way, and a touch is never
\* answered by "timed out".
THEOREM UsesATouchedDevice == Spec => []SelectedWasTouched
<1>1. Init => MultiInv
  BY MultiGiven DEF Init, MultiInv, Multi!Init, Multi!TypeOK, Multi!TouchesLead,
     Multi!MultiAssumption
<1>2. MultiInv /\ [Next]_vars => MultiInv'
  BY MultiRuns, MultiKept
<1>3. MultiInv => SelectedWasTouched
  BY MultiGiven DEF MultiInv, Multi!TypeOK, Multi!TouchesLead, SelectedWasTouched,
     Multi!SelectedWasTouched, Multi!MultiAssumption
<1> QED BY <1>1, <1>2, <1>3, PTL DEF Spec
-------------------------------------------------------------------------------
(* Two queues, one behind the other, are one queue.                        *)

LEMMA NatsAssociate ==
  \A a, b, c \in Seq(Nat) : (a \o b) \o c = a \o (b \o c)
BY ConcatAssociative

\* What leaves the second queue at its head enters the first at its end.
LEMMA PassedOn ==
  ASSUME NEW S, NEW a \in Seq(S), NEW b \in Seq(S), b # <<>>
  PROVE  /\ Append(a, Head(b)) \in Seq(S) /\ Tail(b) \in Seq(S)
         /\ Append(a, Head(b)) \o Tail(b) = a \o b
<1>1. Head(b) \in S /\ Tail(b) \in Seq(S)
  BY HeadTailProperties
<1>2. Append(a, Head(b)) = a \o <<Head(b)>>
  BY <1>1, AppendIsConcat
<1>3. <<Head(b)>> \in Seq(S)
  BY <1>1
<1>4. <<Head(b)>> \o Tail(b) = b
  <2>1. Len(b) \in Nat \ {0} /\ b[1] = Head(b)
    BY EmptySeq
  <2>2. SubSeq(b, 1, Len(b)) = <<b[1]>> \o SubSeq(b, 2, Len(b))
    BY <2>1, SubSeqRecursiveFirst
  <2> QED BY <2>1, <2>2, SubSeqFull, TailIsSubSeq
<1>5. (a \o <<Head(b)>>) \o Tail(b) = a \o (<<Head(b)>> \o Tail(b))
  BY <1>1, <1>3, ConcatAssociative
<1> QED BY <1>1, <1>2, <1>4, <1>5, AppendProperties

\* What enters the second queue is behind everything.
LEMMA EntersLast ==
  ASSUME NEW S, NEW a \in Seq(S), NEW b \in Seq(S), NEW x \in S
  PROVE  /\ Append(b, x) \in Seq(S)
         /\ a \o Append(b, x) = Append(a \o b, x)
<1>1. <<x>> \in Seq(S)
  OBVIOUS
<1>2. Append(b, x) = b \o <<x>> /\ Append(a \o b, x) = (a \o b) \o <<x>>
  BY AppendIsConcat, ConcatProperties
<1> QED BY <1>1, <1>2, ConcatAssociative, AppendProperties

\* What leaves the first queue is at the head of everything.
LEMMA LeavesFirst ==
  ASSUME NEW S, NEW a \in Seq(S), NEW b \in Seq(S), a # <<>>
  PROVE  /\ Tail(a) \in Seq(S)
         /\ a \o b # <<>> /\ Head(a \o b) = Head(a)
         /\ Tail(a) \o b = Tail(a \o b)
<1>1. /\ Len(a) \in Nat \ {0} /\ Tail(a) \in Seq(S) /\ Len(Tail(a)) = Len(a) - 1
      /\ \A i \in 1..Len(Tail(a)) : Tail(a)[i] = a[i + 1]
  BY EmptySeq, HeadTailProperties
<1>2. /\ a \o b \in Seq(S) /\ Len(a \o b) = Len(a) + Len(b) /\ Len(b) \in Nat
      /\ \A i \in 1..Len(a) + Len(b) :
           (a \o b)[i] = IF i <= Len(a) THEN a[i] ELSE b[i - Len(a)]
  BY ConcatProperties, LenProperties
<1>3. a \o b # <<>> /\ Head(a \o b) = Head(a)
  BY <1>1, <1>2, EmptySeq
<1>4. /\ Tail(a \o b) \in Seq(S) /\ Len(Tail(a \o b)) = Len(a \o b) - 1
      /\ \A i \in 1..Len(Tail(a \o b)) : Tail(a \o b)[i] = (a \o b)[i + 1]
  BY <1>2, <1>3, HeadTailProperties
<1>5. /\ Tail(a) \o b \in Seq(S) /\ Len(Tail(a) \o b) = Len(a) - 1 + Len(b)
      /\ \A i \in 1..Len(a) - 1 + Len(b) :
           (Tail(a) \o b)[i] = IF i <= Len(a) - 1 THEN Tail(a)[i] ELSE b[i - (Len(a) - 1)]
  BY <1>1, ConcatProperties
<1>6. ASSUME NEW i \in 1..Len(Tail(a) \o b)
      PROVE  (Tail(a) \o b)[i] = Tail(a \o b)[i]
  <2>1. i \in 1..Len(a) - 1 + Len(b) /\ i + 1 \in 1..Len(a) + Len(b)
        /\ i \in 1..Len(Tail(a \o b))
    BY <1>1, <1>2, <1>4, <1>5
  <2>2. CASE i <= Len(a) - 1
    BY <1>1, <1>2, <1>4, <1>5, <2>1, <2>2
  <2>3. CASE ~ (i <= Len(a) - 1)
    <3>1. i - (Len(a) - 1) = (i + 1) - Len(a) /\ ~ (i + 1 <= Len(a))
      BY <1>1, <2>3
    <3> QED BY <1>1, <1>2, <1>4, <1>5, <2>1, <2>3, <3>1
  <2> QED BY <2>2, <2>3
<1>7. Len(Tail(a) \o b) = Len(Tail(a \o b))
  BY <1>1, <1>2, <1>4, <1>5
<1>8. Tail(a) \o b = Tail(a \o b)
  BY <1>4, <1>5, <1>6, <1>7, SeqEqual
<1> QED BY <1>1, <1>3, <1>8

-------------------------------------------------------------------------------
(* MacHid                                                                  *)

MacType ==
  /\ sent \in Nat
  /\ pending \in Seq(Nat) /\ read_queue \in Seq(Nat) /\ received \in Seq(Nat)

MacInv ==
  /\ MacType
  /\ received \o (read_queue \o pending) = [n \in 1..sent |-> n]

LEMMA MacStarts == Mac!Init => MacInv
<1> SUFFICES ASSUME Mac!Init PROVE MacInv
  OBVIOUS
<1>1. <<>> \in Seq(Nat) /\ <<>> \o (<<>> \o <<>>) = <<>>
  OBVIOUS
<1>2. [n \in 1..0 |-> n] = <<>>
  OBVIOUS
<1> QED BY <1>1, <1>2 DEF MacInv, MacType, Mac!Init

\* read_queue.get(False) hands the oldest of the queue to the caller.
LEMMA MacGets ==
  ASSUME NEW queue \in Seq(Nat), received \in Seq(Nat), Mac!Get(queue)
  PROVE  /\ received' \in Seq(Nat) /\ read_queue' \in Seq(Nat)
         /\ received' \o read_queue' = received \o queue
<1>1. CASE queue = <<>>
  BY <1>1 DEF Mac!Get
<1>2. CASE queue # <<>>
  BY <1>2, PassedOn DEF Mac!Get
<1> QED BY <1>1, <1>2

\* A step that hands on to the caller what is in the queue then, leaving the rest
\* with the operating system.
LEMMA MacHandsOver ==
  ASSUME MacInv, NEW queue \in Seq(Nat), Mac!Get(queue), UNCHANGED sent,
         pending' \in Seq(Nat), queue \o pending' = read_queue \o pending
  PROVE  MacInv'
<1>0. received \in Seq(Nat) /\ sent' \in Nat
  BY DEF MacInv, MacType
<1>1. /\ received' \in Seq(Nat) /\ read_queue' \in Seq(Nat)
      /\ received' \o read_queue' = received \o queue
  BY <1>0, MacGets
<1>2. received' \o (read_queue' \o pending') = received \o (queue \o pending')
  <2>1. /\ received' \in Seq(Nat) /\ read_queue' \in Seq(Nat) /\ pending' \in Seq(Nat)
        /\ received \in Seq(Nat) /\ queue \in Seq(Nat)
    BY <1>0, <1>1
  <2>2. (received' \o read_queue') \o pending' = received' \o (read_queue' \o pending')
    BY ONLY <2>1, NatsAssociate, Zenon
  <2>3. (received \o queue) \o pending' = received \o (queue \o pending')
    BY ONLY <2>1, NatsAssociate, Zenon
  <2> QED BY <1>1, <2>2, <2>3
<1> QED BY <1>0, <1>1, <1>2 DEF MacInv, MacType

LEMMA MacSends == ASSUME MacInv, Mac!Send PROVE MacInv'
<1>1. /\ sent + 1 \in Nat /\ sent \in Nat
      /\ pending \in Seq(Nat) /\ read_queue \in Seq(Nat) /\ received \in Seq(Nat)
  BY DEF MacInv, MacType
<1>2. /\ Append(pending, sent + 1) \in Seq(Nat)
      /\ read_queue \o Append(pending, sent + 1) = Append(read_queue \o pending, sent + 1)
  BY <1>1, EntersLast
<1>3. read_queue \o pending \in Seq(Nat)
  BY <1>1, ConcatProperties
<1>4. received \o Append(read_queue \o pending, sent + 1) =
        Append(received \o (read_queue \o pending), sent + 1)
  BY <1>1, <1>3, EntersLast
<1>5. Append([n \in 1..sent |-> n], sent + 1) = [n \in 1..(sent + 1) |-> n]
  BY <1>1
<1> QED BY <1>1, <1>2, <1>4, <1>5 DEF MacInv, MacType, Mac!Send

LEMMA MacHandlesSource ==
  ASSUME MacInv, NEW n \in 0..MaxReports, Mac!HandledSource(n)
  PROVE  MacInv'
<1> DEFINE first == SubSeq(pending, 1, n)
           rest == SubSeq(pending, n + 1, Len(pending))
           queue == read_queue \o first
<1>0. /\ n \in Nat /\ n <= Len(pending) /\ Len(pending) \in Nat
      /\ \A i \in 1..Len(pending) : pending[i] \in Nat
      /\ pending \in Seq(Nat) /\ read_queue \in Seq(Nat)
  BY MacGiven, LenProperties, ElementOfSeq DEF MacInv, MacType, Mac!MacAssumption,
     Mac!HandledSource
<1>1. first \in Seq(Nat) /\ rest \in Seq(Nat) /\ first \o rest = pending
  <2>1. first \in Seq(Nat) /\ rest \in Seq(Nat)
    BY <1>0, SubSeqProperties
  <2>2. first \o rest = SubSeq(pending, 1, Len(pending))
    <3>1. 1 \in 1..Len(pending) + 1 /\ n \in (1 - 1)..Len(pending)
          /\ Len(pending) \in n..Len(pending)
      BY <1>0
    <3> QED BY <1>0, <3>1, ConcatAdjacentSubSeq
  <2> QED BY <1>0, <2>1, <2>2, SubSeqFull
<1> HIDE DEF first, rest
<1>2. /\ queue \in Seq(Nat)
      /\ queue \o rest = read_queue \o pending
  <2>1. (read_queue \o first) \o rest = read_queue \o (first \o rest)
    BY <1>0, <1>1, NatsAssociate, Zenon
  <2> QED BY <1>0, <1>1, <2>1, ConcatProperties
<1>3. pending' = rest /\ Mac!Retry(queue) /\ UNCHANGED sent
  BY DEF Mac!HandledSource, first, rest
<1> HIDE DEF queue
<1>4. CASE Mac!Get(queue)
  BY <1>1, <1>2, <1>3, <1>4, MacHandsOver
<1>5. CASE queue = <<>> /\ UNCHANGED <<read_queue, received>>
  <2>1. read_queue = <<>> /\ rest = pending
    <3>1. read_queue = <<>> /\ first = <<>>
      BY <1>0, <1>1, <1>5, ConcatEqualIffEmpty DEF queue
    <3> QED BY <1>1, <3>1, ConcatEmptySeq
  <2> QED BY <1>3, <1>5, <2>1 DEF MacInv, MacType
<1> QED BY <1>3, <1>4, <1>5 DEF Mac!Retry, Mac!Joined

LEMMA MacKept ==
  ASSUME MacInv, [Mac!Next]_macVars
  PROVE  MacInv'
<1>1. CASE Mac!Send
  BY <1>1, MacSends
<1>2. CASE Mac!ReadQueued
  BY <1>2, MacHandsOver DEF Mac!ReadQueued, MacInv, MacType
<1>3. CASE Mac!NoRunLoop
  BY <1>3, MacHandsOver DEF Mac!NoRunLoop, MacInv, MacType
<1>4. CASE Mac!TimedOut
  BY <1>4, MacHandsOver DEF Mac!TimedOut, Mac!Joined, MacInv, MacType
<1>5. CASE \E n \in 0..MaxReports : Mac!HandledSource(n)
  BY <1>5, MacHandlesSource
<1>6. CASE Mac!Remove \/ Mac!StartThread \/ UNCHANGED macVars
  BY <1>6 DEF Mac!Remove, Mac!StartThread, macVars, MacInv, MacType
<1> QED BY <1>1, <1>2, <1>3, <1>4, <1>5, <1>6 DEF Mac!Next

LEMMA MacConserves == MacInv => Mac!ReportsConserved
<1>1. MacType => (received \o read_queue) \o pending = received \o (read_queue \o pending)
  BY ConcatAssociative DEF MacType
<1> QED BY <1>1 DEF MacInv, Mac!ReportsConserved

-------------------------------------------------------------------------------
(* BsdOpen                                                                 *)

BsdInv == Bsd!TypeOK /\ Bsd!OnlyPingsBeforeInit

LEMMA BsdStarts == Bsd!Init => BsdInv
<1>1. <<>> \o <<>> = <<>> /\ Len(<<>>) = 0 /\ DOMAIN <<>> = {}
  OBVIOUS
<1>2. <<>> \in Seq({"ping", "init"})
  OBVIOUS
<1> SUFFICES ASSUME Bsd!Init PROVE BsdInv
  OBVIOUS
<1>3. Bsd!TypeOK
  <2>1. late \in BOOLEAN
    BY DEF Bsd!Init
  <2> QED BY <1>2, <2>1, BsdGiven DEF Bsd!Init, Bsd!TypeOK, Bsd!OpenAssumption
<1>4. Bsd!OnlyPingsBeforeInit
  BY <1>1 DEF Bsd!Init, Bsd!OnlyPingsBeforeInit
<1> QED BY <1>3, <1>4 DEF BsdInv

LEMMA BsdTypeKept ==
  ASSUME BsdInv, [Bsd!Next]_bsdVars
  PROVE  Bsd!TypeOK'
<1> USE BsdGiven DEF BsdInv, Bsd!TypeOK, Bsd!OpenAssumption
<1>1. CASE Bsd!Answer
  BY <1>1 DEF Bsd!Answer
<1>2. CASE Bsd!Read \/ Bsd!ReadInit
  BY <1>2, HeadTailProperties DEF Bsd!Read, Bsd!ReadInit
<1>3. CASE Bsd!Ping \/ Bsd!SendInit
  <2>1. /\ Append(owed, "ping") \in Seq({"ping", "init"})
        /\ Append(owed, "init") \in Seq({"ping", "init"})
    BY AppendProperties
  <2>2. late' \in BOOLEAN
    BY <1>3 DEF Bsd!Ping, Bsd!SendInit
  <2>3. bsd' \in {"openbsd", "netbsd"} /\ pings' \in 0..MaxPings
    BY <1>3 DEF Bsd!Ping, Bsd!SendInit
  <2> QED BY <1>3, <2>1, <2>2, <2>3 DEF Bsd!Ping, Bsd!SendInit
<1>4. CASE Bsd!Begin \/ Bsd!Timeout \/ UNCHANGED bsdVars
  BY <1>4 DEF Bsd!Begin, Bsd!Timeout, bsdVars
<1> QED BY <1>1, <1>2, <1>3, <1>4 DEF Bsd!Next

LEMMA BsdOrderKept ==
  ASSUME BsdInv, [Bsd!Next]_bsdVars
  PROVE  Bsd!OnlyPingsBeforeInit'
<1> DEFINE answers == inbox \o owed
<1>1. /\ answers \in Seq({"ping", "init"}) /\ Len(answers) \in Nat
      /\ DOMAIN answers = 1..Len(answers)
      /\ answers # <<>> => Len(answers) > 0
      /\ inbox = <<>> => answers = owed
  BY ConcatProperties, LenProperties, ConcatEmptySeq, EmptySeq DEF BsdInv, Bsd!TypeOK
<1>2. CASE Bsd!Answer
  <2>1. answers' = answers
    BY <1>2, PassedOn DEF Bsd!Answer, BsdInv, Bsd!TypeOK
  <2> QED BY <1>2, <2>1 DEF Bsd!Answer, BsdInv, Bsd!OnlyPingsBeforeInit
<1>3. CASE Bsd!Read \/ Bsd!ReadInit
  <2>1. /\ answers # <<>> /\ Head(answers) = Head(inbox)
        /\ answers' = Tail(answers)
    BY <1>3, LeavesFirst DEF Bsd!Read, Bsd!ReadInit, BsdInv, Bsd!TypeOK
  <2>2. /\ Len(answers') = Len(answers) - 1 /\ DOMAIN answers' = 1..(Len(answers) - 1)
        /\ \A i \in DOMAIN answers' : answers'[i] = answers[i + 1]
        /\ Head(answers) = answers[1]
    BY <1>1, <2>1, HeadTailProperties, LenProperties
  <2>3. Len(answers) = 1 => answers' = <<>>
    BY <1>1, <2>1, <2>2, HeadTailProperties, EmptySeq
  <2>4. CASE Bsd!Read
    BY <1>1, <2>1, <2>2, <2>3, <2>4 DEF Bsd!Read, BsdInv, Bsd!TypeOK, Bsd!OnlyPingsBeforeInit
  <2>5. CASE Bsd!ReadInit
    BY <1>1, <2>1, <2>2, <2>3, <2>5 DEF Bsd!ReadInit, BsdInv, Bsd!TypeOK,
       Bsd!OnlyPingsBeforeInit
  <2> QED BY <1>3, <2>4, <2>5
<1>4. CASE Bsd!Ping \/ Bsd!SendInit
  <2>1. PICK a \in {"ping", "init"} :
          /\ a = (IF open = "ping" THEN "ping" ELSE "init")
          /\ owed' = Append(owed, a) /\ inbox' = inbox
    BY <1>4 DEF Bsd!Ping, Bsd!SendInit
  <2>2. answers' = Append(answers, a)
    BY <2>1, EntersLast DEF BsdInv, Bsd!TypeOK
  <2>3. /\ Len(answers') = Len(answers) + 1 /\ DOMAIN answers' = 1..(Len(answers) + 1)
        /\ \A i \in DOMAIN answers : answers'[i] = answers[i]
        /\ answers'[Len(answers) + 1] = a /\ answers' # <<>>
    BY <1>1, <2>2, AppendProperties, LenProperties
  <2> HIDE DEF answers
  <2>4. /\ open \in {"ping", "init"} => \A i \in DOMAIN answers : answers[i] = "ping"
        /\ ~late /\ open \in {"ping", "init"} => Len(answers) = 0
        /\ late => bsd = "netbsd"
    BY DEF BsdInv, Bsd!OnlyPingsBeforeInit, answers
  <2>5. CASE Bsd!Ping
    <3>1. /\ open = "ping" /\ open' = "poll" /\ a = "ping" /\ UNCHANGED <<late, bsd>>
      BY <2>1, <2>5 DEF Bsd!Ping
    <3>2. /\ ~late => Len(answers') = 1
          /\ late => bsd = "netbsd"
          /\ \A i \in DOMAIN answers' : answers'[i] = "ping"
      BY <1>1, <2>3, <2>4, <3>1
    <3> QED BY <3>1, <3>2 DEF Bsd!OnlyPingsBeforeInit, answers
  <2>6. CASE Bsd!SendInit
    <3>1. /\ open = "init" /\ open' = "answer" /\ a = "init" /\ UNCHANGED <<late, bsd>>
      BY <2>1, <2>6 DEF Bsd!SendInit
    <3>2. /\ ~late => Len(answers') = 1
          /\ late => bsd = "netbsd"
          /\ \A i \in DOMAIN answers' : answers'[i] = "init" <=> i = Len(answers')
      BY <1>1, <2>3, <2>4, <3>1
    <3> QED BY <2>3, <3>1, <3>2 DEF Bsd!OnlyPingsBeforeInit, answers
  <2> QED BY <1>4, <2>5, <2>6
<1>5. CASE Bsd!Begin \/ Bsd!Timeout \/ UNCHANGED bsdVars
  <2>1. answers' = answers
    BY <1>5 DEF Bsd!Begin, Bsd!Timeout, bsdVars
  <2> QED BY <1>5, <2>1 DEF Bsd!Begin, Bsd!Timeout, bsdVars, BsdInv,
          Bsd!OnlyPingsBeforeInit
<1> QED BY <1>2, <1>3, <1>4, <1>5 DEF Bsd!Next

LEMMA BsdInSync == BsdInv => Bsd!OpenedInSync
BY DEF BsdInv, Bsd!OnlyPingsBeforeInit, Bsd!OpenedInSync

\* Input arrives whole, for any number of reports, pings, calls and pieces: on
\* macOS (hid/macos.py) no report is lost, repeated or overtaken, on OpenBSD and
\* NetBSD (hid/openbsd.py, hid/netbsd.py) an opened device owes no answer, and a
\* smart card (pcsc.py) is returned the whole answer to the call that is returned.
THEOREM InputArrivesWhole == Spec => []InputIsWhole
<1>1. Init => MacInv /\ BsdInv /\ PcscInv
  BY MacStarts, BsdStarts, PcscStarts DEF Init
<1>2. MacInv /\ BsdInv /\ PcscInv /\ [Next]_vars => (MacInv /\ BsdInv /\ PcscInv)'
  <2>1. MacInv /\ [Next]_vars => MacInv'
    BY MacRuns, MacKept
  <2>2. BsdInv /\ [Next]_vars => BsdInv'
    BY BsdRuns, BsdTypeKept, BsdOrderKept DEF BsdInv
  <2>3. PcscInv /\ [Next]_vars => PcscInv'
    BY PcscRuns, PcscKept
  <2> QED BY <2>1, <2>2, <2>3
<1>3. MacInv /\ BsdInv /\ PcscInv => InputIsWhole
  BY MacConserves, BsdInSync DEF PcscInv, InputIsWhole
<1> QED BY <1>1, <1>2, <1>3, PTL DEF Spec

-------------------------------------------------------------------------------
(* DeviceLists                                                             *)

ListsType ==
  /\ devices \in [Paths -> Lists!Kinds]
  /\ todo \subseteq Paths /\ steady \subseteq Paths

ListsInv == ListsType /\ Lists!EveryPathAccounted /\ Lists!ListIsComplete

LEMMA ListsStarts == Lists!Init => ListsInv
BY DEF ListsInv, ListsType, Lists!Init, Lists!EveryPathAccounted, Lists!ListIsComplete,
   Lists!Kinds, Lists!Readable, Lists!Present, Lists!Passed

\* A device comes, goes or changes, at any moment.
LEMMA ListsChange ==
  ASSUME ListsInv, NEW p \in Paths, NEW kind \in Lists!Kinds, Lists!Change(p, kind)
  PROVE  ListsInv'
<1> USE DEF ListsInv, ListsType
<1>1. /\ devices' = [devices EXCEPT ![p] = kind]
      /\ steady' = steady \ {p} /\ there' \subseteq there
      /\ kind = "absent" => p \notin there'
      /\ kind = "uhid" => platform = "freebsd"
      /\ UNCHANGED <<platform, known, failed, stale, phase, todo, descriptors, opened,
                     outcome, gaveUp>>
  BY DEF Lists!Change, Lists!cacheVars, Lists!scanVars
<1>2. \A q \in Paths \ {p} : devices'[q] = devices[q]
  BY <1>1
<1>3. ListsType'
  BY <1>1
<1>4. steady' \subseteq Lists!Readable' /\ there' \subseteq Lists!Present'
  BY <1>1, <1>2 DEF Lists!EveryPathAccounted, Lists!Readable, Lists!Present
<1>5. \A q \in steady' : Lists!Passed(q) => Lists!Passed(q)'
  BY <1>1, <1>2 DEF Lists!Passed
<1>6. Lists!EveryPathAccounted'
  BY <1>1, <1>2, <1>4, <1>5 DEF Lists!EveryPathAccounted
<1>7. \A q \in steady' : Lists!Excused(q) => Lists!Excused(q)'
  BY <1>1, <1>2 DEF Lists!Excused
<1>8. Lists!ListIsComplete'
  BY <1>1, <1>7 DEF Lists!ListIsComplete
<1> QED BY <1>3, <1>6, <1>8

\* list_descriptors begins with the paths there are.
LEMMA ListsBegin == ASSUME ListsInv, Lists!Begin PROVE ListsInv'
<1> USE DEF ListsInv, ListsType
<1>1. Lists!Candidates \subseteq Paths /\ Lists!Readable \subseteq Lists!Candidates
  BY DEF Lists!Candidates, Lists!Present, Lists!Readable
<1>2. ListsType'
  BY <1>1 DEF Lists!Begin, Lists!Readable
<1>3. platform = "windows" => Lists!Candidates = Lists!Present
  BY DEF Lists!Candidates
<1>4. platform = "windows" =>
        \A p \in failed' : p \in gaveUp' \/ (phase' = "scan" /\ p \in stale' \ todo')
  BY <1>3 DEF Lists!Begin, Lists!EveryPathAccounted
<1>5. /\ phase' = "scan" /\ outcome' = "none" /\ opened' = {} /\ descriptors' = {}
      /\ steady' = Lists!Readable /\ there' = Lists!Present /\ todo' = Lists!Candidates
      /\ UNCHANGED <<devices, platform>>
  BY DEF Lists!Begin
<1>6. Lists!Readable' = Lists!Readable /\ Lists!Present' = Lists!Present
  BY <1>5 DEF Lists!Readable, Lists!Present
<1>7. Lists!EveryPathAccounted'
  BY <1>1, <1>4, <1>5, <1>6 DEF Lists!EveryPathAccounted
<1>8. Lists!ListIsComplete'
  BY <1>5 DEF Lists!ListIsComplete
<1> QED BY <1>2, <1>7, <1>8

\* The loop looks at a path: it is listed if it can be read, or may be left out.
LEMMA ListsVisit ==
  ASSUME ListsInv, NEW p \in Paths, Lists!Visit(p)
  PROVE  ListsInv'
<1> USE DEF ListsInv, ListsType
<1>1. /\ phase \in {"scan", "uhid"} /\ p \in todo
      /\ todo' = todo \ {p} /\ stale' = stale \ {p}
      /\ gaveUp' = IF Lists!Gives(p) THEN gaveUp ELSE gaveUp \cup {p}
      /\ UNCHANGED <<platform, devices, phase, opened, outcome, steady, there>>
      /\ IF platform = "windows" THEN Lists!Cached(p) ELSE Lists!Described(p)
  BY DEF Lists!Visit
<1>2. Lists!Readable' = Lists!Readable /\ Lists!Present' = Lists!Present
  BY <1>1 DEF Lists!Readable, Lists!Present
<1>3. descriptors \subseteq descriptors'
  BY <1>1 DEF Lists!Cached, Lists!Described, Lists!Listed
<1>4. \A q \in steady : Lists!Passed(q) => Lists!Passed(q)'
  BY <1>1, <1>3 DEF Lists!Passed
<1>5. p \in steady => p \in descriptors' \/ Lists!Passed(p)'
  <2> SUFFICES ASSUME p \in steady PROVE p \in descriptors' \/ Lists!Passed(p)'
    OBVIOUS
  <2>1. p \in Lists!Readable /\ (devices[p] = "uhid" => platform = "freebsd")
    BY DEF Lists!EveryPathAccounted
  <2>2. CASE platform = "windows"
    <3>1. Lists!Gives(p)
      BY <2>1, <2>2 DEF Lists!Gives
    <3>2. p \in failed => p \in gaveUp
      BY <1>1, <2>2 DEF Lists!EveryPathAccounted
    <3> QED BY <1>1, <2>2, <3>1, <3>2 DEF Lists!Cached, Lists!Listed, Lists!Passed
  <2>3. CASE platform # "windows" /\ Lists!Gives(p)
    BY <1>1, <2>3 DEF Lists!Described, Lists!Listed
  <2>4. CASE platform # "windows" /\ ~Lists!Gives(p)
    BY <1>1, <2>1, <2>4 DEF Lists!Gives, Lists!Passed
  <2> QED BY <2>2, <2>3, <2>4
<1>6. \A q \in steady : q \in todo' \cup descriptors' \/ Lists!Passed(q)'
  BY <1>1, <1>3, <1>4, <1>5 DEF Lists!EveryPathAccounted
<1>7. platform = "windows" =>
        \A q \in failed' : q \in gaveUp' \/ (phase' = "scan" /\ q \in stale' \ todo')
  <2> SUFFICES ASSUME platform = "windows", NEW q \in failed'
               PROVE  q \in gaveUp' \/ (phase' = "scan" /\ q \in stale' \ todo')
    OBVIOUS
  <2>1. CASE q \in failed
    BY <1>1, <2>1 DEF Lists!EveryPathAccounted
  <2>2. CASE q \notin failed
    <3>1. q = p /\ ~Lists!Gives(p)
      BY <1>1, <2>2 DEF Lists!Cached
    <3> QED BY <1>1, <3>1
  <2> QED BY <2>1, <2>2
<1>8. Lists!EveryPathAccounted'
  BY <1>1, <1>2, <1>3, <1>6, <1>7 DEF Lists!EveryPathAccounted
<1>9. Lists!ListIsComplete'
  BY <1>1 DEF Lists!ListIsComplete, Lists!EveryPathAccounted
<1> QED BY <1>1, <1>8, <1>9

\* NetBSD: what is not looked at after a free number may be left out.
LEMMA ListsBreak ==
  ASSUME ListsInv, NEW p \in Paths, Lists!Break(p)
  PROVE  ListsInv'
<1> USE DEF ListsInv, ListsType
<1>1. /\ platform = "netbsd" /\ phase = "scan" /\ p \in todo \ Lists!Present
      /\ \A q \in todo : p <= q
      /\ todo' = {} /\ UNCHANGED <<platform, devices, known, failed, phase, descriptors,
                                   opened, outcome, steady, there, gaveUp>>
  BY DEF Lists!Break, Lists!historyVars
<1>2. Lists!Readable' = Lists!Readable /\ Lists!Present' = Lists!Present
  BY <1>1 DEF Lists!Readable, Lists!Present
<1>3. p \notin there /\ p \notin steady
  BY <1>1 DEF Lists!EveryPathAccounted, Lists!Readable, Lists!Present
<1>4. \A q \in steady : q \in todo => Lists!Passed(q)'
  <2> SUFFICES ASSUME NEW q \in steady, q \in todo PROVE Lists!Passed(q)'
    OBVIOUS
  <2>1. p < q
    BY <1>1, <1>3, ListsGiven DEF Lists!ListsAssumption
  <2> QED BY <1>1, <1>3, <2>1 DEF Lists!Passed
<1>5. \A q \in steady : Lists!Passed(q) => Lists!Passed(q)'
  BY <1>1 DEF Lists!Passed
<1>6. Lists!EveryPathAccounted'
  BY <1>1, <1>2, <1>4, <1>5 DEF Lists!EveryPathAccounted
<1>7. Lists!ListIsComplete'
  BY <1>1 DEF Lists!ListIsComplete, Lists!EveryPathAccounted
<1> QED BY <1>1, <1>6, <1>7

\* The scan goes on with the second loop of FreeBSD, or is over.
LEMMA ListsScanned ==
  ASSUME ListsInv, Lists!Second \/ Lists!Scanned
  PROVE  ListsInv'
<1> USE DEF ListsInv, ListsType, Lists!historyVars, Lists!cacheVars
<1>1. /\ todo = {} /\ phase \in {"scan", "uhid"} /\ phase' \in {"uhid", "open"}
      /\ UNCHANGED <<platform, devices, stale, descriptors, opened, outcome, steady, there,
                     gaveUp>>
      /\ failed' \subseteq failed
      /\ phase' = "uhid" => platform = "freebsd" /\ todo' = Lists!Present
      /\ phase' = "open" => todo' = {}
      /\ phase' = "open" /\ platform = "freebsd" /\ phase = "scan" => descriptors # {}
      /\ platform = "windows" => phase' = "open" /\ failed' = failed \ stale
  BY DEF Lists!Second, Lists!Scanned, Lists!DropStale, Lists!EveryPathAccounted
<1>2. Lists!Readable' = Lists!Readable /\ Lists!Present' = Lists!Present
      /\ Lists!Present \subseteq Paths
  BY <1>1 DEF Lists!Readable, Lists!Present
<1>3. \A q \in steady : q \in todo' \cup descriptors' \/ Lists!Passed(q)'
  <2> SUFFICES ASSUME NEW q \in steady, q \notin descriptors, q \notin todo'
               PROVE  Lists!Passed(q)'
    BY <1>1
  <2>1. Lists!Passed(q) /\ q \in Lists!Present
    BY <1>1 DEF Lists!EveryPathAccounted, Lists!Readable, Lists!Present
  <2>2. phase' = "open"
    BY <1>1, <2>1
  <2> QED BY <1>1, <2>1, <2>2 DEF Lists!Passed
<1>4. platform = "windows" => \A q \in failed' : q \in gaveUp
  BY <1>1 DEF Lists!EveryPathAccounted
<1>5. Lists!EveryPathAccounted'
  BY <1>1, <1>2, <1>3, <1>4 DEF Lists!EveryPathAccounted
<1>6. Lists!ListIsComplete'
  BY <1>1 DEF Lists!ListIsComplete, Lists!EveryPathAccounted
<1> QED BY <1>1, <1>2, <1>5, <1>6

\* The connections are opened; the call ends, with a list or an error.
LEMMA ListsEnds ==
  ASSUME ListsInv, Lists!Return \/ \E p \in Paths : Lists!Raise(p) \/ Lists!Open(p)
  PROVE  ListsInv'
<1> USE DEF ListsInv, ListsType, Lists!historyVars, Lists!cacheVars
<1>1. /\ phase # "idle" /\ todo' \subseteq todo
      /\ phase' # "idle" => phase' = phase /\ outcome' = outcome /\ todo' = todo
      /\ opened' \subseteq descriptors
      /\ platform = "windows" => phase # "scan"
      /\ UNCHANGED <<platform, devices, failed, stale, descriptors, steady, there, gaveUp>>
  BY DEF Lists!Return, Lists!Raise, Lists!Open, Lists!EveryPathAccounted
<1>2. Lists!Readable' = Lists!Readable /\ Lists!Present' = Lists!Present
  BY <1>1 DEF Lists!Readable, Lists!Present
<1>3. phase' # "idle" => \A q \in steady : Lists!Passed(q) => Lists!Passed(q)'
  BY <1>1 DEF Lists!Passed
<1>4. Lists!EveryPathAccounted'
  BY <1>1, <1>2, <1>3 DEF Lists!EveryPathAccounted
<1>5. outcome' = "list" => phase = "open" /\ opened' = descriptors
  BY DEF Lists!Return, Lists!Raise, Lists!Open, Lists!EveryPathAccounted
<1>6. outcome' = "list" => \A q \in steady : q \in descriptors \/ Lists!Passed(q)
  BY <1>5 DEF Lists!EveryPathAccounted
<1>7. Lists!ListIsComplete'
  BY <1>1, <1>5, <1>6 DEF Lists!ListIsComplete, Lists!Passed, Lists!Excused
<1> QED BY <1>1, <1>4, <1>7

LEMMA ListsKept ==
  ASSUME ListsInv, [Lists!Next]_listsVars
  PROVE  ListsInv'
<1>1. CASE UNCHANGED listsVars
  BY <1>1 DEF listsVars, ListsInv, ListsType, Lists!EveryPathAccounted, Lists!ListIsComplete,
     Lists!Readable, Lists!Present, Lists!Passed, Lists!Excused, Lists!Kinds
<1> QED BY <1>1, ListsBegin, ListsChange, ListsVisit, ListsBreak, ListsScanned, ListsEnds
        DEF Lists!Next

\* list_devices (hid/__init__.py and its six backends): for any number of paths,
\* whatever comes and goes and whatever failed before, a device that could be
\* read all through a call is in its list, those aside that Excused names.
THEOREM ListsWhatIsThere == Spec => []ListIsComplete
<1>1. Init => ListsInv
  BY ListsStarts DEF Init
<1>2. ListsInv /\ [Next]_vars => ListsInv'
  BY ListsRuns, ListsKept
<1>3. ListsInv => ListIsComplete
  BY DEF ListsInv, ListIsComplete
<1> QED BY <1>1, <1>2, <1>3, PTL DEF Spec
===============================================================================
