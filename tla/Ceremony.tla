------------------------------- MODULE Ceremony -------------------------------
(***************************************************************************)
(* What a WebAuthn ceremony promises to the user and to the relying party, *)
(* whatever the authenticator, the PIN or UV method and the retries: it    *)
(* succeeds only with the consent of the user, a touch; at most one        *)
(* credential comes of it, and none when it fails; and the relying party   *)
(* is not told that the authenticator is ineligible before the touch.      *)
(***************************************************************************)
VARIABLES
    running,    \* a ceremony is under way
    consented,  \* the user gave user presence for it
    held,       \* the credentials on the authenticator
    outcome     \* "none", "ok", "ineligible" or "error"

vars == <<running, consented, held, outcome>>

Init == ~running /\ ~consented /\ outcome = "none"

Begin ==
    /\ ~running
    /\ running' = TRUE /\ consented' = FALSE /\ outcome' = "none"
    /\ UNCHANGED held

Finish(o) == running /\ running' = FALSE /\ outcome' = o

Deliver ==
    /\ Finish("ok")
    /\ consented' = TRUE
    /\ held \subseteq held'
    /\ \A c, d \in held' \ held : c = d

Decline ==
    /\ Finish("ineligible")
    /\ consented' = TRUE
    /\ UNCHANGED held

Fail ==
    /\ Finish("error")
    /\ consented' \in {consented, TRUE}
    /\ UNCHANGED held

Next == Begin \/ Deliver \/ Decline \/ Fail

CeremonySpec == Init /\ [][Next]_vars
=============================================================================
