----------------------------- MODULE Ctap1Client -----------------------------
(***************************************************************************)
(* Fido2Client on an authenticator without CTAP2 (_Ctap1ClientBackend in   *)
(* client/__init__.py, Ctap1 in ctap1.py).  A U2F command does not wait    *)
(* for the touch: it is repeated until it succeeds, and the event of the   *)
(* caller is looked at between two of them.                                *)
(***************************************************************************)
EXTENDS Naturals, Sequences, FiniteSets, SequencesExt

CONSTANTS
  KeyHandles,     \* credential IDs of the relying party
  NoHandle,
  MaxFaults,      \* bound: commands answered with another error
  MaxUses         \* bound: ceremonies

Ctap1Assumption == NoHandle \notin KeyHandles /\ MaxFaults \in Nat /\ MaxUses \in Nat

VARIABLES
  handles,     \* the key handles the authenticator recognises
  operation,   \* "none", "make", "get" or "select"
  step,        \* "idle", "begin", "exclude" (check-only), "poll" (looks at the event),
               \* "send" (a command that takes a touch)
  command,     \* the command that is polled: "register", "authenticate" or
               \* "dummy", a registration for nobody
  list,        \* the listed credentials that are still to be tried
  abort,       \* the event is set
  ended        \* how the last ceremony ended

VARIABLES
  listed,      \* history: the listed credentials it recognised at first
  erred,       \* history: the credentials answered with another error
  touched,     \* history: the user has touched it in this ceremony
  sentLate,    \* history: commands taking a touch sent since the event is set,
               \* counted up to 2
  faults, uses

history == <<listed, erred, touched, sentLate, faults, uses>>
vars == <<handles, operation, step, command, list, abort, ended, history>>

Init ==
  /\ handles \in SUBSET KeyHandles
  /\ operation = "none" /\ step = "idle" /\ command = "none" /\ list = <<>>
  /\ abort = FALSE /\ ended = "none"
  /\ listed = {} /\ erred = {} /\ touched = FALSE /\ sentLate = 0
  /\ faults = 0 /\ uses = 0

Leave(result) == step' = "idle" /\ ended' = result

Lists == {l \in UNION {[1..n -> KeyHandles] : n \in 0..Cardinality(KeyHandles)} :
            IsInjective(l)}

Begin(op, l) ==
  /\ step = "idle" /\ uses < MaxUses
  /\ op = "select" => l = <<>>
  /\ operation' = op /\ list' = l /\ listed' = ToSet(l) \cap handles
  /\ command' = CASE op = "make" -> "register"
                  [] op = "get" -> "authenticate" [] OTHER -> "dummy"
  /\ step' = "begin" /\ ended' = "none" /\ abort' = FALSE
  /\ erred' = {} /\ touched' = FALSE /\ sentLate' = 0
  /\ uses' = uses + 1
  /\ UNCHANGED <<handles, faults>>

\* what U2F cannot do is refused before any command: a resident key, user
\* verification, another algorithm, an assertion without a list
Refuse ==
  /\ step = "begin" /\ operation # "select"
  /\ Leave("UNSUPPORTED_OPTION")
  /\ UNCHANGED <<handles, operation, command, list, abort, history>>

Accept ==
  /\ step = "begin"
  /\ operation = "get" => list # <<>>
  /\ step' = IF operation = "make" THEN "exclude" ELSE "poll"
  /\ UNCHANGED <<handles, operation, command, list, abort, ended, history>>

Fault == faults < MaxFaults /\ faults' = faults + 1

ExcludeFirst ==
  /\ step = "exclude" /\ list # <<>>
  /\ IF Head(list) \in handles THEN command' = "dummy" ELSE UNCHANGED command
  /\ step' = "poll"
  /\ UNCHANGED <<handles, operation, list, abort, ended, history>>

\* the for loop over exclude_list; the event is not looked at
Exclude ==
  /\ step = "exclude" /\ list # <<>>
  /\ IF Head(list) \in handles
     THEN step' = "poll" /\ command' = "dummy" /\ UNCHANGED list
     ELSE list' = Tail(list) /\ UNCHANGED <<step, command>>
  /\ UNCHANGED <<handles, operation, abort, ended, history>>

\* any ApduError but one is taken for an unknown key handle
ExcludeErrs ==
  /\ step = "exclude" /\ list # <<>>
  /\ Fault
  /\ erred' = erred \cup {Head(list)}
  /\ list' = Tail(list)
  /\ UNCHANGED <<handles, operation, step, command, abort, ended, listed,
                 touched, sentLate, uses>>

\* a CtapError of the transport ends the ceremony
ExcludeFails ==
  /\ step = "exclude" /\ list # <<>>
  /\ Fault
  /\ Leave("OTHER_ERROR")
  /\ UNCHANGED <<handles, operation, command, list, abort, listed, erred,
                 touched, sentLate, uses>>

Excluded ==
  /\ step = "exclude" /\ list = <<>>
  /\ step' = "poll"
  /\ UNCHANGED <<handles, operation, command, list, abort, ended, history>>

-------------------------------------------------------------------------------
(* _call_polling                                                           *)

PollOn ==
  /\ step = "poll"
  /\ step' = "send"
  /\ UNCHANGED <<handles, operation, command, list, abort, ended, history>>

LookAtEvent ==
  /\ step = "poll"
  /\ IF abort THEN Leave("TIMEOUT") ELSE step' = "send" /\ UNCHANGED ended
  /\ UNCHANGED <<handles, operation, command, list, abort, history>>

Sends ==
  /\ step = "send"
  /\ sentLate' = IF abort /\ sentLate < 2 THEN sentLate + 1 ELSE sentLate

Unknown == command = "authenticate" /\ Head(list) \notin handles

\* USE_NOT_SATISFIED: wait on the event, then look at it
NotTouched ==
  /\ Sends /\ ~Unknown
  /\ step' = "poll"
  /\ UNCHANGED <<handles, operation, command, list, abort, ended, listed, erred,
                 touched, faults, uses>>

\* the result of register or authenticate; after a dummy for an excluded
\* credential the device is ineligible
Touched ==
  /\ Sends /\ ~Unknown
  /\ touched' = TRUE
  /\ \/ /\ command = "register"
        /\ \E h \in KeyHandles \ handles : handles' = handles \cup {h}
     \/ command # "register" /\ UNCHANGED handles
  /\ Leave(IF command = "dummy" /\ operation = "make" THEN "DEVICE_INELIGIBLE"
           ELSE "ok")
  /\ UNCHANGED <<operation, command, list, abort, listed, erred, faults, uses>>

\* any other answer is an error of _call_polling: get_assertion goes on with
\* the next credential, unless it is TIMEOUT
Failed ==
  IF operation = "get"
  THEN /\ list' = Tail(list)
       /\ IF Len(list) = 1 THEN Leave("DEVICE_INELIGIBLE")
          ELSE step' = "poll" /\ UNCHANGED ended
  ELSE Leave("OTHER_ERROR") /\ UNCHANGED list

WrongData ==
  /\ Sends /\ Unknown
  /\ Failed
  /\ UNCHANGED <<handles, operation, command, abort, listed, erred, touched,
                 faults, uses>>

CommandFails ==
  /\ Sends /\ Fault
  /\ Failed
  /\ UNCHANGED <<handles, operation, command, abort, listed, erred, touched,
                 uses>>

\* the caller, or the timer of the ceremony
Abort ==
  /\ step # "idle" /\ ~abort /\ abort' = TRUE
  /\ UNCHANGED <<handles, operation, step, command, list, ended, history>>

ClientStep ==
  \/ Refuse \/ Accept
  \/ Exclude \/ ExcludeErrs \/ ExcludeFails \/ Excluded
  \/ LookAtEvent
  \/ NotTouched \/ Touched \/ WrongData \/ CommandFails

Next ==
  \/ \E op \in {"make", "get", "select"}, l \in Lists : Begin(op, l)
  \/ ClientStep
  \/ Abort

Fairness == WF_vars(ClientStep)

Spec == Init /\ [][Next]_vars /\ Fairness

-------------------------------------------------------------------------------
TypeOK ==
  /\ handles \subseteq KeyHandles /\ list \in Seq(KeyHandles)
  /\ operation \in {"none", "make", "get", "select"}
  /\ step \in {"idle", "begin", "exclude", "poll", "send"}
  /\ command \in {"none", "register", "authenticate", "dummy"}
  /\ step = "send" /\ command = "authenticate" => list # <<>>
  /\ ended \in {"none", "ok", "DEVICE_INELIGIBLE", "TIMEOUT", "OTHER_ERROR",
                "UNSUPPORTED_OPTION"}

\* A command that takes a touch is sent after a look at the event only: one
\* that is sent late is followed by that look.
LateOnce ==
  /\ sentLate \in {0, 1}
  /\ sentLate = 1 => abort /\ step \in {"poll", "idle"}

\* What a ceremony polls for follows from how far it is with exclude_list: a
\* registration only if every credential the authenticator recognises was
\* answered with an error.
ExcludeBeforeRegister ==
  /\ step # "idle" => ended = "none"
  /\ step = "exclude" => operation = "make"
  /\ operation = "get" => command = "authenticate"
  /\ operation = "select" => command = "dummy"
  /\ operation = "make" =>
       /\ command \in {"register", "dummy"}
       /\ step # "idle" => listed \subseteq handles
       /\ step \in {"begin", "exclude"} =>
            command = "register" /\ listed \subseteq erred \cup ToSet(list)
       /\ step \in {"poll", "send"} /\ command = "register" => listed \subseteq erred

\* Once the event is set, one more command that takes a touch is sent at
\* most, the one that was about to be: a touch that comes after an abort
\* is not used, whatever is left of the list (client/__init__.py:153-166).
OneMoreCommand == sentLate <= 1

\* A registration succeeds only if the authenticator recognised none of the
\* listed credentials, those aside for which it answered neither yes nor no
\* (client/__init__.py:383-398).
ExcludedCreatesNothing ==
  operation = "make" /\ ended = "ok" => listed \subseteq erred

\* The event ends a ceremony, in whichever loop it is.
AbortEnds == abort ~> step = "idle"

\* A U2F ceremony is a Ceremony.  get_assertion tells DEVICE_INELIGIBLE
\* without a touch, which a CTAP2 authenticator is asked to give: it counts
\* as an error here.
Outcome ==
  CASE ended \in {"none", "ok"} -> ended
    [] ended = "DEVICE_INELIGIBLE" /\ operation = "make" -> "ineligible"
    [] OTHER -> "error"

Contract == INSTANCE Ceremony WITH
  running <- step # "idle", consented <- touched, held <- handles, outcome <- Outcome

CeremonyContract == Contract!CeremonySpec
===============================================================================
