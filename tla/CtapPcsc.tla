------------------------------- MODULE CtapPcsc -------------------------------
(***************************************************************************)
(* The smart card transport of python-fido2 (src/fido2/pcsc.py): one       *)
(* CtapPcscDevice, used by one thread, and the card in the reader.         *)
(*                                                                         *)
(* Every APDU is an exchange: the card answers at once, with a status word *)
(* that says whether there is more to fetch ("more"), the command is still *)
(* under way ("status"), or it ended. A call is a series of exchanges, and *)
(* the event of the call is looked at before the first status word only.   *)
(*                                                                         *)
(* Payloads are abstracted to the call they belong to and to the number of *)
(* APDUs they fill.                                                        *)
(***************************************************************************)
EXTENDS Integers, Sequences

CONSTANTS
    MaxCalls,    \* bound: calls made, the GET_INFO of the constructor included
    MaxRequest,  \* bound: APDUs of one request
    MaxPieces,   \* bound: APDUs of one response
    MaxFaults    \* bound: times the card leaves the reader

PcscAssumption ==
    /\ MaxCalls \in Nat \ {0} /\ MaxRequest \in Nat \ {0}
    /\ MaxPieces \in Nat \ {0} /\ MaxFaults \in Nat

Calls == 1 .. MaxCalls
Cmds == {"PROBE", "CBOR", "MSG"}
STATUS == {"PROCESSING", "UPNEEDED"}
Capabilities == {"NMSG", "CBOR"}

VARIABLES
    made,     \* the constructor has returned
    caps,     \* self._capabilities
    ext,      \* self.use_ext_apdu
    pc,       \* closed, idle, command, more, check (the event), status
    call,     \* number of the current or last call
    cmd,      \* its command
    toSend,   \* APDUs of the request still to send
    resp, sw, \* what the last exchanges gave
    status,   \* the status byte, if sw is "update"
    event,    \* the event is set
    lastKa,   \* last_ka
    heard,    \* history: what on_keepalive was last called with, if twice
    result    \* what the last call returned or raised

VARIABLES
    card,     \* idle, chain (part of a request), user, ready, reply
    working,  \* the call whose request it received last
    fetched,  \* pieces of the answer given out
    total,    \* pieces of the answer
    executed, \* history: times each call was carried out
    faults

hostVars == <<made, caps, ext, pc, call, cmd, toSend, resp, sw, status, event,
              lastKa, heard, result>>
cardVars == <<card, working, fetched, total, executed>>
vars == <<hostVars, cardVars, faults>>

Silent == [last |-> "none", twice |-> FALSE]
NoResult == [kind |-> "none", body |-> <<>>]
Raised(k) == [kind |-> k, body |-> <<>>]

Init ==
    /\ made = FALSE /\ caps = {} /\ ext = FALSE
    /\ pc = "closed" /\ call = 0 /\ cmd = "PROBE" /\ toSend = 0
    /\ resp = <<>> /\ sw = "success" /\ status = "PROCESSING"
    /\ event = FALSE
    /\ lastKa = "none" /\ heard = Silent /\ result = NoResult
    /\ card = "idle" /\ working = 0 /\ fetched = 0 /\ total = 0
    /\ executed = [c \in Calls |-> 0] /\ faults = 0

-----------------------------------------------------------------------------
\* The call begins: c with a request of n APDUs.
Enter(c, n) ==
    /\ call < MaxCalls
    /\ call' = call + 1 /\ cmd' = c /\ toSend' = n
    /\ pc' = "command"
    /\ resp' = <<>> /\ event' = FALSE
    /\ lastKa' = "none" /\ heard' = Silent /\ result' = NoResult

\* connect: the reader is opened and the applet selected, which ends whatever
\* the card was doing. U2F_V2 says that the card does CTAP1. (If there is no
\* such applet nothing changes.)
Select(known) ==
    /\ card' = "idle"
    /\ \E found \in SUBSET {"NMSG"} : caps' = known \cup found
    /\ UNCHANGED <<working, fetched, total, executed, sw, status, faults>>

\* The constructor: GET_INFO tells whether the card does CTAP2.
New ==
    /\ ~made /\ pc = "closed"
    /\ Select({})
    /\ Enter("PROBE", 1)
    /\ UNCHANGED <<made, ext>>

\* connect on a device that was made before.
Connect ==
    /\ made /\ pc = "closed"
    /\ Select(caps)
    /\ pc' = "idle"
    /\ UNCHANGED <<made, ext, call, cmd, toSend, resp, event, lastKa, heard,
                   result>>

Close ==
    /\ pc = "idle"
    /\ pc' = "closed"
    /\ UNCHANGED <<made, caps, ext, call, cmd, toSend, resp, sw, status, event,
                   lastKa, heard, result, cardVars, faults>>

\* call with CBOR or MSG. The application may have set use_ext_apdu before.
Call(c, n) ==
    /\ pc = "idle"
    /\ Enter(c, n)
    /\ ext' \in BOOLEAN
    /\ UNCHANGED <<made, caps, sw, status, cardVars, faults>>

\* call returns or raises r. The constructor needs an answer to GET_INFO,
\* unless the card does CTAP1.
Leave(r) ==
    /\ result' = r
    /\ IF cmd # "PROBE"
       THEN pc' = "idle" /\ UNCHANGED <<made, caps>>
       ELSE LET can == caps \cup IF r.kind = "ok" THEN {"CBOR"} ELSE {}
            IN  /\ caps' = can
                /\ made' = (can # {})
                /\ pc' = IF can # {} THEN "idle" ELSE "closed"

-----------------------------------------------------------------------------
\* What follows an exchange: the rest of the answer is fetched (not with
\* extended APDUs), then the status word decides, for a CBOR command once the
\* event was looked at.
Received(r, s, next) ==
    /\ resp' = r /\ sw' = s
    /\ pc' = IF s = "more" /\ ~ext THEN "more"
             ELSE IF cmd = "MSG" THEN "status" ELSE next

-----------------------------------------------------------------------------
(* The card. It carries a command out at once or waits for the user; what  *)
(* it answers is given out in pieces.                                      *)

Piece(c, i) == [call |-> c, piece |-> i]

\* resp += lres
More(old, new) == Append(old, new)

\* The exchange gives piece i of an answer of n, after those in got.
GivePiece(i, n, got, next) ==
    /\ fetched' = i /\ total' = n
    /\ card' = IF i < n THEN "reply" ELSE "idle"
    /\ Received(More(got, Piece(working', i)), IF i < n THEN "more" ELSE "success", next)
    /\ UNCHANGED status

\* The exchange says that the card is not done.
GiveStatus(next) ==
    /\ card' = "user"
    /\ status' \in STATUS /\ Received(<<>>, "update", next)
    /\ UNCHANGED <<fetched, total, executed>>

GiveError(next) ==
    /\ card' = "idle"
    /\ Received(<<>>, "error", next)
    /\ UNCHANGED <<status, fetched, total, executed>>

Execute(c) == executed' = [executed EXCEPT ![c] = @ + 1]

\* The user touches the card, whoever may still be interested.
UserTouch ==
    /\ card = "user" /\ card' = "ready" /\ Execute(working)
    /\ UNCHANGED <<hostVars, working, fetched, total, faults>>

-----------------------------------------------------------------------------
\* _chain_apdus: a part of a request that does not fit in one APDU.
SendChained ==
    /\ pc = "command" /\ toSend > 1 /\ ~ext
    /\ working' = call
    /\ \/ /\ toSend' = toSend - 1 /\ card' = "chain"
          /\ UNCHANGED <<pc, resp, sw>>
       \/ /\ card' = "idle" /\ toSend' = 0
          /\ Received(<<>>, "error", "check")
    /\ UNCHANGED <<made, caps, ext, call, cmd, status, event, lastKa, heard,
                   result, fetched, total, executed, faults>>

\* _chain_apdus: the last APDU of a request, or the only one.
SendCommand ==
    /\ pc = "command" /\ (toSend = 1 \/ ext)
    /\ toSend' = 0 /\ working' = call
    /\ \/ Execute(call) /\ \E n \in 1 .. MaxPieces : GivePiece(1, n, <<>>, "check")
       \/ cmd = "CBOR" /\ GiveStatus("check")
       \/ GiveError("check")
    /\ UNCHANGED <<made, caps, result, ext, call, cmd, event, lastKa, heard, faults>>

\* _chain_apdus: the next piece of an answer. What comes after it depends on
\* whether this is the answer to the command or to a GETRESPONSE.
GetMore ==
    /\ pc = "more" /\ card = "reply"
    /\ UNCHANGED working
    /\ GivePiece(fetched + 1, total, resp,
                 IF lastKa = "none" THEN "check" ELSE "status")
    /\ UNCHANGED <<made, caps, ext, call, cmd, toSend, event, lastKa, heard,
                   result, executed, faults>>

\* _call_cbor: the event was set before the status word was looked at.
GiveUp ==
    /\ pc = "check" /\ event
    /\ Leave(Raised("cancel"))
    /\ UNCHANGED <<ext, call, cmd, toSend, resp, sw, status, event, lastKa, heard,
                   cardVars, faults>>

\* on_keepalive is called if the status has changed.
Notify(s) ==
    IF lastKa = s THEN UNCHANGED <<lastKa, heard>>
    ELSE /\ heard' = [last |-> s, twice |-> heard.twice \/ heard.last = s]
         /\ lastKa' = s

\* The event of the outer loop is clear, or it is not looked at any more.
Looking == (pc = "check" /\ ~event) \/ pc = "status"

\* _call_cbor: one turn of the inner loop. A user who does not come may make the
\* card give up.
Poll ==
    /\ Looking /\ sw = "update"
    /\ UNCHANGED working
    /\ Notify(status)
    /\ \/ card = "ready" /\ UNCHANGED executed
          /\ \E n \in 1 .. MaxPieces : GivePiece(1, n, <<>>, "status")
       \/ card = "user" /\ (GiveStatus("status") \/ GiveError("status"))
    /\ UNCHANGED <<made, caps, ext, call, cmd, toSend, event, result, faults>>

\* Mutant: whatever the status word, the response is returned.
ReturnAnyway ==
    /\ Looking /\ sw # "update"
    /\ Leave([kind |-> "ok", body |-> resp])
    /\ UNCHANGED <<ext, call, cmd, toSend, resp, sw, status, event, lastKa, heard,
                   cardVars, faults>>

\* _call_cbor: the command ended.
Return ==
    /\ Looking /\ sw # "update"
    /\ Leave(IF sw = "success" THEN [kind |-> "ok", body |-> resp]
             ELSE Raised("error"))
    /\ UNCHANGED <<ext, call, cmd, toSend, resp, sw, status, event, lastKa, heard,
                   cardVars, faults>>

\* The caller's other thread sets the event.
SetEvent ==
    /\ pc \notin {"closed", "idle"} /\ cmd = "CBOR" /\ ~event
    /\ event' = TRUE
    /\ UNCHANGED <<made, caps, ext, pc, call, cmd, toSend, resp, sw, status,
                   lastKa, heard, result, cardVars, faults>>

\* The card leaves the reader, before an exchange or before its answer is read:
\* transmit raises. The card has no power any more.
CardLeaves ==
    /\ pc \notin {"closed", "idle"} /\ faults < MaxFaults
    /\ card' = "idle"
    /\ pc' = "closed" /\ result' = Raised("error")
    /\ faults' = faults + 1
    /\ UNCHANGED <<made, caps, ext, call, cmd, toSend, resp, sw, status, event, lastKa,
                   heard, working, fetched, total, executed>>

ThreadStep == SendChained \/ SendCommand \/ GetMore \/ GiveUp \/ Poll \/ Return

Next ==
    \/ New \/ Connect \/ Close
    \/ \E n \in 1 .. MaxRequest : \E c \in {"CBOR", "MSG"} : Call(c, n)
    \/ ThreadStep \/ SetEvent \/ UserTouch \/ CardLeaves

Spec == Init /\ [][Next]_vars

-----------------------------------------------------------------------------
(* Properties *)

\* Type invariant: a device is made of a card that does CTAP1 or CTAP2, and the
\* device and the card agree on how far a call is.
TypeOK ==
    /\ made => caps # {}
    /\ caps \subseteq Capabilities
    /\ pc \in {"closed", "idle", "command", "more", "check", "status"}
    /\ call \in 0 .. MaxCalls /\ cmd \in Cmds /\ toSend \in 0 .. MaxRequest
    /\ lastKa \in STATUS \cup {"none"}
    /\ pc = "idle" => made
    /\ pc = "more" => card = "reply" /\ Len(resp) = fetched
    /\ pc \in {"check", "status"} /\ sw = "update" => card \in {"user", "ready"}
    /\ result.kind \in {"none", "ok", "error", "cancel"}
    /\ faults \in 0 .. MaxFaults

Busy == pc \notin {"closed", "idle"}
Pieces(c, n) == [i \in 1 .. n |-> Piece(c, i)]

\* How far the card is with the call that is under way: it has carried the
\* command out when, and only when, it answers it, what was fetched of the answer
\* belongs to this call, and a card that still waits for the user after the call
\* was given up.
CardInStep ==
    /\ \A c \in Calls : c > call => executed[c] = 0
    /\ card = "user" => working \in 1 .. call
    /\ Busy => call > 0 /\ result.kind = "none"
    /\ ~Busy /\ card = "user" => result.kind = "cancel"
    /\ pc = "command" => executed[call] = 0 /\ (card = "user" => working # call)
    /\ pc \in {"more", "check", "status"} => working = call
    /\ pc = "more" =>
         /\ executed[call] = 1 /\ card = "reply"
         /\ fetched \in Nat /\ fetched < total /\ resp = Pieces(call, fetched)
    /\ pc \in {"check", "status"} =>
         /\ sw = "update" => \/ card = "user" /\ executed[call] = 0
                             \/ card = "ready" /\ executed[call] = 1
         /\ sw # "update" => card # "user"
         /\ sw = "success" => executed[call] = 1 /\ resp = Pieces(call, total)

\* What a call returns is the whole answer of the card to this call, every
\* piece once and in order, whatever calls were left half-way before it.
WholeAnswer ==
    result.kind = "ok" =>
        /\ executed[call] = 1
        /\ result.body = [i \in 1 .. total |-> Piece(call, i)]

\* on_keepalive is called once for consecutive messages with one status.
KeepaliveOnce == ~heard.twice

\* CtapCall as this transport does it: there is no answer "cancelled", a caller
\* that gives up raises an error.
Fate == IF call = 0 \/ executed[call] = 0 THEN "nothing" ELSE "done"
Outcome ==
    CASE result.kind = "none" -> "none"
      [] result.kind = "ok" -> "done"
      [] OTHER -> "error"

Abstract == INSTANCE CtapCall WITH
    busy <- Busy, wanted <- ~event, fate <- Fate, outcome <- Outcome

\* Unless its caller gave it up, a call is one of CtapCall's: its command is
\* carried out at most once, while the call is under way, and the call returns
\* an answer only if it was.
CallContract ==
    Abstract!CallInit
    /\ [][result.kind # "cancel" => Abstract!CallNext]_(Abstract!callVars)

=============================================================================
