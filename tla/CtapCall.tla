------------------------------ MODULE CtapCall -------------------------------
(***************************************************************************)
(* What CtapDevice.call promises its caller (src/fido2/ctap.py): the       *)
(* command is sent to the authenticator, which carries it out at most once *)
(* or, when the event is set, cancels it; what is returned is what the     *)
(* authenticator did with this very command; at most an error leaves the   *)
(* caller in doubt. CtapHid implements it.                                 *)
(***************************************************************************)
EXTENDS Naturals

CONSTANT MaxCalls

VARIABLES
    busy,    \* a call is under way
    call,    \* its number, or that of the last call
    wanted,  \* its event is still clear: the caller wants the command
    fate,    \* what the authenticator did: nothing, done, cancelled
    outcome  \* what the last call gave: none, done, cancelled, error

callVars == <<busy, call, wanted, fate, outcome>>

CallInit ==
    /\ busy = FALSE /\ call = 0 /\ wanted = TRUE
    /\ fate = "nothing" /\ outcome = "none"

Invoke ==
    /\ ~busy /\ call < MaxCalls
    /\ busy' = TRUE /\ call' = call + 1
    /\ wanted' \in BOOLEAN
    /\ fate' = "nothing" /\ outcome' = "none"

Unwant ==
    /\ busy /\ wanted
    /\ wanted' = FALSE
    /\ UNCHANGED <<busy, call, fate, outcome>>

Perform ==
    /\ busy /\ fate = "nothing"
    /\ fate' = "done"
    /\ UNCHANGED <<busy, call, wanted, outcome>>

Cancel ==
    /\ busy /\ ~wanted /\ fate = "nothing"
    /\ fate' = "cancelled"
    /\ UNCHANGED <<busy, call, wanted, outcome>>

Finish ==
    /\ busy
    /\ busy' = FALSE
    /\ \/ fate # "nothing" /\ outcome' = fate
       \/ outcome' = "error"
    /\ UNCHANGED <<call, wanted, fate>>

CallNext == Invoke \/ Unwant \/ Perform \/ Cancel \/ Finish

CallSpec == CallInit /\ [][CallNext]_callVars
=============================================================================
