------------------------------- MODULE ClientPin -------------------------------
(***************************************************************************)
(* ClientPin (ctap2/pin.py) and Config (ctap2/config.py).  Each operation  *)
(* of ClientPin is two exchanges, a key agreement and the command that     *)
(* uses the secret; another platform may come between them.  A PIN stands  *)
(* for its length, which is all that _pad_pin and the policy look at.      *)
(***************************************************************************)
EXTENDS ManagedAuthenticator

PinOps == {"setPin", "changePin", "pinToken"}

\* voided: another platform's wrong PIN has renewed the key since
PinJob(op, old, new) ==
  [op |-> op, old |-> old, new |-> new, secret |-> agreement, voided |-> FALSE]

\* the secret is kept from the first operation of the object
PinJobOldSecret(op, old, new) ==
  [op |-> op, old |-> old, new |-> new, secret |-> 1, voided |-> FALSE]

KeyAgreementOf(p, op, old, new, Job(_, _, _)) ==
  /\ Starts(p)
  /\ Discards
  /\ job' = [job EXCEPT ![p] = Job(op, old, new)]
  /\ UNCHANGED <<credState, bioState, pinState, context, returned, claimed,
                 orphans, lost>>

KeyAgreementCached(p, op, old, new) ==
  KeyAgreementOf(p, op, old, new, PinJobOldSecret)

KeyAgreement(p, op, old, new) == KeyAgreementOf(p, op, old, new, PinJob)

\* _pad_pin raises before the second exchange
PadFails(op, new) == op # "pinToken" /\ new < 4

Finishes(p, value) ==
  /\ Returns(p, value)
  /\ UNCHANGED <<credState, bioState, context, claimed, orphans, ops, lost>>

PinRejectedByHost(p) ==
  /\ job[p].op \in PinOps
  /\ PadFails(job[p].op, job[p].new)
  /\ job' = [job EXCEPT ![p] = Idle]
  /\ Finishes(p, Raised)
  /\ UNCHANGED <<listing, pinState>>

\* the exchange that uses the secret reaches the authenticator
Uses(p, op) ==
  /\ job[p].op = op
  /\ ~PadFails(op, job[p].new)
  /\ Discards

SecretHolds(p) == job[p].secret = agreement

Refuse(p) ==
  /\ job' = [job EXCEPT ![p] = Idle]
  /\ Finishes(p, Raised)
  /\ UNCHANGED pinState

NewPin(p) ==
  /\ pin' = job[p].new /\ retries' = MaxRetries /\ forceChange' = FALSE
  /\ tokenOf' = Nobody
  /\ job' = [job EXCEPT ![p] = Idle]
  /\ Finishes(p, Done)
  /\ UNCHANGED <<minPin, agreement, settings>>

SetPin(p) ==
  /\ Uses(p, "setPin")
  /\ IF pin = NoPin /\ SecretHolds(p) /\ job[p].new >= minPin
     THEN NewPin(p) ELSE Refuse(p)

\* the hash that was sent is that of the PIN, as far as the secret holds
PinMatches(p) == SecretHolds(p) /\ job[p].old = pin

WrongPin(p) ==
  /\ retries' = retries - 1
  /\ agreement' = agreement + 1
  /\ job' = [q \in Platforms |->
       IF q = p THEN Idle
       ELSE IF job[q].op \in PinOps THEN [job[q] EXCEPT !.voided = TRUE]
       ELSE job[q]]
  /\ Finishes(p, Raised)
  /\ UNCHANGED <<pin, minPin, forceChange, tokenOf, settings>>

\* right, but refused by the policy: the attempts are counted anew
RightButRefused(p) ==
  /\ retries' = MaxRetries
  /\ job' = [job EXCEPT ![p] = Idle]
  /\ Finishes(p, Raised)
  /\ UNCHANGED <<pin, minPin, forceChange, agreement, tokenOf, settings>>

\* CHANGE_PIN is authenticated with the secret before it costs an attempt
ChangePin(p) ==
  /\ Uses(p, "changePin")
  /\ IF pin = NoPin \/ retries = 0 \/ ~SecretHolds(p) THEN Refuse(p)
     ELSE IF ~PinMatches(p) THEN WrongPin(p)
     ELSE IF job[p].new < minPin THEN RightButRefused(p)
     ELSE NewPin(p)

\* GET_TOKEN_USING_PIN is not
GetPinToken(p) ==
  /\ Uses(p, "pinToken")
  /\ IF pin = NoPin \/ retries = 0 THEN Refuse(p)
     ELSE IF ~PinMatches(p) THEN WrongPin(p)
     ELSE IF forceChange THEN RightButRefused(p)
     ELSE /\ retries' = MaxRetries /\ tokenOf' = p
          /\ job' = [job EXCEPT ![p] = Idle]
          /\ Finishes(p, Done)
          /\ UNCHANGED <<pin, minPin, forceChange, agreement, settings>>

GetRetries(p) == Reads(p, TRUE)

-------------------------------------------------------------------------------
(* Config: with a token, or without one where the authenticator asks for   *)
(* none.                                                                   *)

ConfigAllowed(p) ==
  Authorized(p) \/ (pin = NoPin /\ "alwaysUv" \notin settings)

EnableEnterpriseAttestation(p) ==
  /\ Single(p, ConfigAllowed(p), settings' = settings \cup {"ep"},
            UNCHANGED settings)
  /\ UNCHANGED <<credState, bioState, pin, retries, minPin, forceChange,
                 agreement, tokenOf>>

ToggleAlwaysUv(p) ==
  /\ Single(p, ConfigAllowed(p),
            settings' = IF "alwaysUv" \in settings THEN settings \ {"alwaysUv"}
                                                  ELSE settings \cup {"alwaysUv"},
            UNCHANGED settings)
  /\ UNCHANGED <<credState, bioState, pin, retries, minPin, forceChange,
                 agreement, tokenOf>>

\* FORCE_CHANGE_PIN is always sent; FALSE does not take it back
SetMinPinLength(p, length, force) ==
  /\ Single(p, ConfigAllowed(p) /\ length >= minPin,
            /\ minPin' = length
            /\ forceChange' = \/ forceChange
                              \/ pin # NoPin /\ (force \/ pin < length),
            UNCHANGED <<minPin, forceChange>>)
  /\ UNCHANGED <<credState, bioState, pin, retries, agreement, tokenOf,
                 settings>>

PinNext ==
  \E p \in Platforms :
    \/ \E op \in PinOps, old, new \in Pins : KeyAgreement(p, op, old, new)
    \/ PinRejectedByHost(p)
    \/ GetRetries(p)
    \/ SetPin(p) \/ ChangePin(p) \/ GetPinToken(p)
    \/ EnableEnterpriseAttestation(p) \/ ToggleAlwaysUv(p)
    \/ \E length \in Pins, force \in BOOLEAN : SetMinPinLength(p, length, force)

\* The right PIN costs no attempt: every operation agrees on a secret of its
\* own, so only another platform's wrong PIN, between its two exchanges, can
\* make it one (pin.py:286-327, 415-443).
RightPinIsFree ==
  [][\A p \in Platforms :
       /\ job[p].op \in PinOps /\ job'[p] = Idle
       /\ job[p].old = pin /\ ~job[p].voided
       => retries' >= retries]_vars
===============================================================================
