----------------------------- MODULE RelyingParty -----------------------------
(***************************************************************************)
(* What a relying party owes to those who rely on it, without messages:    *)
(* a ceremony is begun, its user answers it, and the answer is accepted or *)
(* not.  A login counts once; a registration may be recorded again by the  *)
(* same answer, but only when its user made it for that ceremony.          *)
(***************************************************************************)
EXTENDS Naturals

CONSTANT Ceremonies

VARIABLES
  begun,      \* [Ceremonies -> {"not", "create", "get"}]
  answered,   \* the ceremonies a user has answered as they asked for
  logins      \* [Ceremonies -> Nat]: how often a login was granted for it

Init ==
  /\ begun = [c \in Ceremonies |-> "not"]
  /\ answered = {}
  /\ logins = [c \in Ceremonies |-> 0]

Begin(c, kind) ==
  /\ begun[c] = "not"
  /\ begun' = [begun EXCEPT ![c] = kind]
  /\ UNCHANGED <<answered, logins>>

Answer(c) ==
  /\ begun[c] # "not"
  /\ answered' = answered \cup {c}
  /\ UNCHANGED <<begun, logins>>

Login(c) ==
  /\ begun[c] = "get"
  /\ c \in answered
  /\ logins[c] = 0
  /\ logins' = [logins EXCEPT ![c] = 1]
  /\ UNCHANGED <<begun, answered>>

Next ==
  \E c \in Ceremonies :
    \/ \E kind \in {"create", "get"} : Begin(c, kind)
    \/ Answer(c)
    \/ Login(c)

Spec == Init /\ [][Next]_<<begun, answered, logins>>
===============================================================================
