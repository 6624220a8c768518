----------------------------- MODULE Fido2Client -----------------------------
(***************************************************************************)
(* Fido2Client on a CTAP2 authenticator (src/fido2/client/__init__.py):    *)
(* make_credential, get_assertion and selection, the _Ctap2ClientBackend   *)
(* behind them, and the parts of ClientPin and of the extensions they use. *)
(*                                                                         *)
(* A ceremony is a sequence of exchanges with the authenticator and of     *)
(* prompts, run by one thread and restarted by the retry loop of           *)
(* do_make_credential and do_get_assertion. What it carries from one step  *)
(* to the next (a token, a shared secret, the credential that was found)   *)
(* may be void when it is used: the authenticator keeps one token, drops   *)
(* its permissions after a touch, and renews its key after a wrong PIN.    *)
(*                                                                         *)
(* Every exchange is one action: the command, the answer, and what the     *)
(* program does with the answer. The authenticator is not part of the      *)
(* program; it is modelled from what the program expects of it.            *)
(***************************************************************************)
EXTENDS Integers, FiniteSets

CONSTANTS
    CredIds,        \* credential IDs of the relying party
    NoCred,         \* no credential
    TooLong,        \* IDs longer than maxCredentialIdLength
    UvOnly,         \* credentials the authenticator shows after UV only
    ListOrUv,       \* credentials it shows after UV, or to who knows the ID
    Authenticators, \* the authenticators considered: their GetInfo answers
    Requests,       \* the requests considered
    PinRetries,     \* PIN attempts of an authenticator, 8 in CTAP2
    MaxCeremonies   \* bound: ceremonies

Options == {"uv", "clientPin", "bioEnroll", "pinUvAuthToken", "alwaysUv",
            "makeCredUvNotRqd", "rk", "largeBlobs", "hmac-secret"}

(* present: the options (and extensions) listed; on: those that are True;  *)
(* protocol: a PIN/UV protocol is shared; connect: the device can be       *)
(* reconnected (NFC); maxCreds: max_creds_in_list or 1.                    *)
InfoType == [present : SUBSET Options, on : SUBSET Options, protocol : BOOLEAN,
             connect : BOOLEAN, maxCreds : Nat \ {0}]

Requirement == {"required", "preferred", "discouraged"}

(* rp: the RP ID is given, omitted on an https origin, or does not fit the *)
(* origin; ext: largeBlob write, prf, and prf with an invalid input.       *)
RequestType == [op : {"make", "get", "select"}, uv : Requirement,
                rk : Requirement, list : SUBSET CredIds,
                ext : SUBSET {"write", "prf", "bad"},
                rp : {"given", "omitted", "invalid"}, timeout : BOOLEAN]

ASSUME ClientAssumption ==
    /\ NoCred \notin CredIds
    /\ TooLong \subseteq CredIds
    /\ UvOnly \subseteq CredIds /\ ListOrUv \subseteq CredIds
    /\ Authenticators \subseteq InfoType /\ Authenticators # {}
    /\ Requests \subseteq RequestType /\ Requests # {}
    /\ PinRetries \in Nat \ {0}
    /\ MaxCeremonies \in Nat

VARIABLES
    info,        \* the authenticator's GetInfo answer
    creds,       \* the credentials it holds for the relying party
    pinRetries,  \* its PIN retry counter
    mismatches,  \* wrong PINs in a row since power up: 3 block the PIN
    keyAgr,      \* the number of its current key-agreement key
    tok,         \* the number of its last pinUvAuthToken
    tokPerms     \* the permissions left on it

VARIABLES
    pc,          \* the next step of the ceremony, "idle" outside
    req,         \* its options
    uvReq,       \* user_verification, as raised by the retry loop
    reconnected, \* reconnected
    pinToken,    \* pin_token: the number of a token, 0 for None
    internalUv,  \* internal_uv
    rest,        \* the listed IDs that _filter_creds has not tried
    selected,    \* selected_cred, exclude_cred
    secret,      \* the key that shared_secret of prf was agreed with, or 0
    event,       \* the event of the ceremony is set
    timer,       \* its timer runs
    stray,       \* a timer left by an earlier ceremony runs on this event
    result,      \* what the last ceremony returned or raised
    selection    \* the AssertionSelection that the caller holds

VARIABLES
    consented,   \* history: user presence was given in this ceremony
    verified,    \* history: it ended with the user verified
    wrongPins,   \* history: wrong PINs sent in this ceremony
    expired,     \* history: the token expired since it began
    asked,       \* history: its caller or its own timer asked to abort it
    written,     \* history: the last largeBlob write was made or denied
    ceremonies

authVars == <<creds, pinRetries, mismatches, keyAgr, tok, tokPerms>>
attemptVars == <<pinToken, internalUv, rest, selected, secret>>
userVars == <<consented, verified, wrongPins>>
abortVars == <<event, stray, expired, asked>>
leaveVars == <<pc, result, timer>>
callVars == <<info, req, ceremonies, written>>
vars == <<authVars, attemptVars, userVars, abortVars, leaveVars, callVars,
          uvReq, reconnected, selection>>

NoSelection == [token |-> 0, write |-> FALSE, at |-> 0]

Init ==
    /\ info \in Authenticators
    /\ creds \in SUBSET (CredIds \ TooLong)
    /\ mismatches \in 0 .. 3 /\ pinRetries \in 0 .. PinRetries
    /\ pinRetries + mismatches <= PinRetries
    /\ keyAgr = 1
    /\ tok = 0 /\ tokPerms = {}
    /\ pc = "idle" /\ req \in Requests /\ uvReq = req.uv
    /\ reconnected = FALSE /\ pinToken = 0 /\ internalUv = FALSE
    /\ rest = {} /\ selected = NoCred /\ secret = 0
    /\ event = FALSE /\ timer = FALSE /\ stray = FALSE
    /\ result = "none" /\ selection = NoSelection
    /\ consented = FALSE /\ verified = FALSE /\ wrongPins = 0
    /\ expired = FALSE /\ asked = FALSE /\ written = "none" /\ ceremonies = 0

-----------------------------------------------------------------------------
(* Leaving the ceremony, and the except branches of the retry loop.        *)

\* _ctap2client_err
ClientError(code) ==
    CASE code \in {"CREDENTIAL_EXCLUDED", "NO_CREDENTIALS"} -> "DEVICE_INELIGIBLE"
      [] code \in {"KEEPALIVE_CANCEL", "USER_ACTION_TIMEOUT"} -> "TIMEOUT"
      [] code = "KEY_STORE_FULL" -> "CONFIGURATION_UNSUPPORTED"
      [] code \in {"MISSING_PARAMETER", "PUAT_REQUIRED", "PIN_INVALID",
                   "PIN_BLOCKED", "PIN_AUTH_INVALID", "PIN_AUTH_BLOCKED",
                   "OPERATION_DENIED"} -> "BAD_REQUEST"
      [] OTHER -> "OTHER_ERROR"

\* Mutant: the timer is not cancelled when the ceremony is left.
LeaveTimerRunning(res) ==
    /\ pc' = "idle" /\ result' = res
    /\ timer' = FALSE /\ stray' = (stray \/ timer)

\* The ceremony returns or raises res; finally: timer.cancel().
Leave(res) ==
    /\ pc' = "idle" /\ result' = res
    /\ timer' = FALSE /\ UNCHANGED stray

\* The next step of the ceremony.
Goto(step) == pc' = step /\ UNCHANGED <<result, timer, stray>>

\* Mutant: the extensions are started once, before the loop.
FirstStepOfBoth == "auth"

\* do_get_assertion starts its extensions in every attempt, do_make_credential
\* once.
FirstStep == IF req.op = "make" THEN "auth" ELSE "ext"

\* Mutant: user_verification is not raised before trying again.
CatchAndRepeat(code) ==
    /\ IF code = "PUAT_REQUIRED" /\ uvReq = "discouraged"
       THEN Goto(FirstStep) ELSE Leave(ClientError(code))
    /\ UNCHANGED uvReq

\* Mutant: a wrong PIN is asked for again.
CatchPinInvalid(code) ==
    /\ IF code = "PIN_INVALID"
       THEN Goto(FirstStep) ELSE Leave(ClientError(code))
    /\ UNCHANGED uvReq

\* except CtapError: the two reasons for another attempt, else raise.
Catch(code) ==
    LET escalate == code = "PUAT_REQUIRED" /\ uvReq = "discouraged"
        reconnect == code = "PIN_AUTH_BLOCKED" /\ info.connect /\ ~reconnected
    IN  IF req.op = "select" THEN Leave(ClientError(code)) /\ UNCHANGED uvReq
        ELSE IF escalate THEN Goto(FirstStep) /\ uvReq' = "required"
        ELSE IF reconnect THEN Goto("reconnect") /\ UNCHANGED uvReq
        ELSE Leave(ClientError(code)) /\ UNCHANGED uvReq

\* dev.close(); connect(): the card loses power, or is gone. A new power cycle
\* unblocks the PIN, ends the token and renews the key-agreement key.
Reconnect ==
    /\ pc = "reconnect"
    /\ \/ /\ Goto(FirstStep)
          /\ reconnected' = TRUE
          /\ mismatches' = 0 /\ keyAgr' = keyAgr + 1 /\ tokPerms' = {}
       \/ /\ Leave("raised")
          /\ UNCHANGED <<reconnected, mismatches, keyAgr, tokPerms>>
    /\ UNCHANGED <<creds, pinRetries, tok, attemptVars, userVars, event,
                   expired, asked, callVars, uvReq, selection>>

-----------------------------------------------------------------------------
(* The entry of a ceremony, up to its first exchange.                      *)

\* make_credential, get_assertion or selection is called, with an Event of its
\* own, or one that the caller used before and cleared.
Begin(r) ==
    /\ pc = "idle" /\ ceremonies < MaxCeremonies
    /\ ceremonies' = ceremonies + 1
    /\ req' = r /\ uvReq' = r.uv /\ reconnected' = FALSE
    /\ pc' = IF r.op = "select" THEN "user" ELSE "rp"
    /\ timer' = (r.timeout /\ r.op # "select")
    /\ result' = "none"
    /\ pinToken' = 0 /\ internalUv' = FALSE
    /\ rest' = {} /\ selected' = NoCred /\ secret' = 0
    /\ event' = FALSE /\ stray' \in {stray, FALSE}
    /\ consented' = FALSE /\ verified' = FALSE /\ wrongPins' = 0
    /\ expired' = FALSE /\ asked' = FALSE /\ written' = "none"
    /\ UNCHANGED <<info, authVars, selection>>

\* _get_rp_id and _verify_rp_id, called before the try that cancels the timer.
CheckRp ==
    /\ pc = "rp"
    /\ IF req.rp = "invalid"
       THEN /\ pc' = "idle" /\ result' = "BAD_REQUEST"
            /\ timer' = FALSE /\ stray' = (stray \/ timer)
       ELSE Goto("ext")
    /\ UNCHANGED <<authVars, attemptVars, userVars, event, expired, asked,
                   callVars, uvReq, reconnected, selection>>

\* The RP ID that the backend sends: do_get_assertion takes options.rp_id again,
\* not the one that was derived from the origin.
SentRp == IF req.op = "get" THEN req.rp ELSE "given"

\* Mutant: no permission to filter exclude_list.
PermissionsToMake ==
    IF req.op = "make" THEN {"mc"}
    ELSE {"ga"} \cup (IF "write" \in req.ext THEN {"lbw"} ELSE {})

\* Gather UV permissions.
Permissions ==
    IF req.op = "make"
    THEN {"mc"} \cup (IF req.list # {} THEN {"ga"} ELSE {})
    ELSE {"ga"} \cup (IF "write" \in req.ext THEN {"lbw"} ELSE {})

\* Mutant: what an extension needs is not a reason for user verification.
NoAdditionalPermissions == {}

AdditionalPermissions == Permissions \ {"mc", "ga"}

\* The extensions are started: largeBlob refuses what cannot be done with a
\* ValueError, prf agrees on a shared secret before an assertion.
StartExtensions ==
    /\ pc = "ext"
    /\ LET badWrite == "write" \in req.ext
                         /\ (req.op = "make" \/ "largeBlobs" \notin info.on)
           prf == /\ "prf" \in req.ext /\ req.op = "get"
                  /\ info.protocol /\ "hmac-secret" \in info.present
       IN  IF badWrite THEN Leave("raised") /\ UNCHANGED secret
           ELSE /\ Goto("auth")
                /\ secret' = IF prf THEN keyAgr ELSE 0
    /\ UNCHANGED <<authVars, pinToken, internalUv, rest, selected, userVars,
                   event, expired, asked, callVars, uvReq, reconnected,
                   selection>>

-----------------------------------------------------------------------------
(* _get_auth_params: whether to verify the user, and how.                  *)

UvOptions == {"uv", "clientPin", "bioEnroll"}
UvSupported == info.present \cap UvOptions # {}
UvConfigured == info.on \cap UvOptions # {}

WantsUv ==
    \/ uvReq = "required"
    \/ uvReq = "preferred" /\ UvSupported
    \/ "alwaysUv" \in info.on

\* _should_use_uv, where it does not raise.
ShouldUseUv ==
    \/ WantsUv
    \/ req.op = "make" /\ UvConfigured /\ "makeCredUvNotRqd" \notin info.on
    \/ UvConfigured /\ AdditionalPermissions # {}

TokenSupported == "pinUvAuthToken" \in info.on

\* Mutant: without a PIN it goes on without user verification.
PinOrGoOn == IF "clientPin" \in info.on THEN Goto("askPin") ELSE Goto("filter")

\* _get_token from "PIN if UV not supported/allowed" on.
PinOrGiveUp ==
    IF "clientPin" \in info.on THEN Goto("askPin")
    ELSE Leave("CONFIGURATION_UNSUPPORTED")

\* Where _do_make and _do_auth go on once auth is handled: the credentials that
\* _filter_creds has to look for.
Authenticated(t, internal) ==
    /\ pinToken' = t /\ internalUv' = internal
    /\ rest' = req.list \ TooLong
    /\ selected' = NoCred
    /\ Goto("filter")

\* _get_auth_params with fresh info, up to the first prompt.
GetAuthParams ==
    /\ pc = "auth"
    /\ IF WantsUv /\ ~UvConfigured
       THEN Leave("CONFIGURATION_UNSUPPORTED")
            /\ UNCHANGED <<pinToken, internalUv, rest, selected>>
       ELSE IF ~ShouldUseUv THEN Authenticated(0, FALSE)
       ELSE /\ IF ~info.protocol THEN Leave("raised")
               ELSE IF "uv" \in info.on
                       /\ (TokenSupported \/ AdditionalPermissions = {})
                    THEN Goto("askUv")
                    ELSE PinOrGiveUp
            /\ UNCHANGED <<pinToken, internalUv, rest, selected>>
    /\ UNCHANGED <<authVars, secret, userVars, event, expired, asked,
                   callVars, uvReq, reconnected, selection>>

\* request_uv: allowed, or PIN instead.
AskUv ==
    /\ pc = "askUv"
    /\ \/ /\ TokenSupported /\ Goto("uvToken")
          /\ UNCHANGED <<pinToken, internalUv, rest, selected>>
       \/ /\ ~TokenSupported /\ Authenticated(0, TRUE)
       \/ /\ PinOrGiveUp
          /\ UNCHANGED <<pinToken, internalUv, rest, selected>>
    /\ UNCHANGED <<authVars, secret, userVars, event, expired, asked,
                   callVars, uvReq, reconnected, selection>>

\* A new token: the permissions asked for, or those of a legacy token. It
\* replaces the last one.
NewToken ==
    /\ tok' = tok + 1
    /\ tokPerms' = IF TokenSupported THEN Permissions ELSE {"mc", "ga"}
    /\ Authenticated(tok + 1, FALSE)

\* A token with permissions for one RP needs the RP ID.
TokenWithoutRp == TokenSupported /\ SentRp # "given"

\* get_uv_token, which the user ends one way or another.
GetUvToken ==
    /\ pc = "uvToken"
    /\ \/ /\ ~TokenWithoutRp /\ NewToken /\ UNCHANGED uvReq
       \/ /\ \E code \in IF TokenWithoutRp THEN {"MISSING_PARAMETER"}
                         ELSE {"UV_INVALID", "USER_ACTION_TIMEOUT"} : Catch(code)
          /\ UNCHANGED <<tok, tokPerms, pinToken, internalUv, rest, selected>>
    /\ UNCHANGED <<creds, pinRetries, mismatches, keyAgr, secret, userVars,
                   event, expired, asked, callVars, reconnected, selection>>

\* request_pin: None, or a PIN that get_pin_token goes on with.
AskPin ==
    /\ pc = "askPin"
    /\ \/ Leave("BAD_REQUEST")
       \/ Goto("rightPin")
       \/ Goto("wrongPin")
    /\ UNCHANGED <<authVars, attemptVars, userVars, event, expired, asked,
                   callVars, uvReq, reconnected, selection>>

\* The answers to any PIN: no retries left, or blocked until power up.
PinRefused ==
    /\ pc \in {"rightPin", "wrongPin"}
    /\ \/ pinRetries = 0 /\ Catch("PIN_BLOCKED")
       \/ pinRetries > 0 /\ mismatches = 3 /\ Catch("PIN_AUTH_BLOCKED")
       \/ TokenWithoutRp /\ Catch("MISSING_PARAMETER")
    /\ UNCHANGED <<authVars, attemptVars, userVars, event, expired, asked,
                   callVars, reconnected, selection>>

PinTried == pinRetries > 0 /\ mismatches < 3 /\ ~TokenWithoutRp

RightPin ==
    /\ pc = "rightPin" /\ PinTried
    /\ pinRetries' = PinRetries /\ mismatches' = 0
    /\ NewToken
    /\ UNCHANGED <<creds, keyAgr, secret, userVars, event, expired, asked,
                   callVars, uvReq, reconnected, selection>>

\* A wrong PIN costs a retry and renews the key-agreement key.
WrongPin ==
    /\ pc = "wrongPin" /\ PinTried
    /\ pinRetries' = pinRetries - 1 /\ mismatches' = mismatches + 1
    /\ keyAgr' = keyAgr + 1
    /\ wrongPins' = wrongPins + 1
    /\ Catch(IF pinRetries = 1 THEN "PIN_BLOCKED"
             ELSE IF mismatches = 2 THEN "PIN_AUTH_BLOCKED" ELSE "PIN_INVALID")
    /\ UNCHANGED <<creds, tok, tokPerms, attemptVars, consented, verified,
                   event, expired, asked, callVars, reconnected, selection>>

-----------------------------------------------------------------------------
(* _filter_creds: which of the listed credentials the authenticator has,   *)
(* asked for without user presence, max_creds_in_list at a time.           *)

UserKnown == pinToken # 0 \/ internalUv

\* What the authenticator shows to a request that lists IDs; uv: it verified
\* the user, or accepted a token got that way.
Shown(uv) == {c \in creds : c \in UvOnly => uv}

\* pinUvAuthParam is accepted for an operation that needs permission p.
TokenAccepted(p) == pinToken = tok /\ p \in tokPerms

Chunks == {c \in SUBSET rest :
             /\ Cardinality(c) <= info.maxCreds
             /\ c = rest \/ Cardinality(c) = info.maxCreds}

\* The list is empty, or no chunk of it matched.
NothingFound ==
    /\ pc = "filter" /\ rest = {}
    /\ Goto("send")
    /\ UNCHANGED <<authVars, attemptVars, userVars, event, expired, asked,
                   callVars, uvReq, reconnected, selection>>

\* Mutant: a match is reported at once.
PreflightFailsEarly ==
    /\ pc = "filter" /\ rest # {}
    /\ \E chunk \in Chunks :
         IF chunk \cap Shown(pinToken # 0) = {}
         THEN rest' = rest \ chunk /\ Goto("filter") /\ UNCHANGED selected
         ELSE /\ rest' = {}
              /\ \E c \in chunk \cap Shown(pinToken # 0) : selected' = c
              /\ IF req.op = "make" THEN Leave("DEVICE_INELIGIBLE")
                                    ELSE Goto("send")
    /\ UNCHANGED <<authVars, pinToken, internalUv, secret, userVars, event,
                   expired, asked, callVars, uvReq, reconnected, selection>>

\* Mutant: the first chunk is the only one.
PreflightOnce ==
    /\ pc = "filter" /\ rest # {}
    /\ \E chunk \in Chunks :
         /\ rest' = {} /\ Goto("filter")
         /\ IF chunk \cap Shown(pinToken # 0) = {} THEN UNCHANGED selected
            ELSE \E c \in chunk \cap Shown(pinToken # 0) : selected' = c
    /\ UNCHANGED <<authVars, pinToken, internalUv, secret, userVars, event,
                   expired, asked, callVars, uvReq, reconnected, selection>>

\* One chunk: no match, or one of its credentials is selected.
Preflight ==
    /\ pc = "filter" /\ rest # {}
    /\ SentRp = "given" /\ (pinToken # 0 => TokenAccepted("ga"))
    /\ \E chunk \in Chunks :
         IF chunk \cap Shown(pinToken # 0) = {}
         THEN rest' = rest \ chunk /\ Goto("filter") /\ UNCHANGED selected
         ELSE /\ rest' = {} /\ Goto("send")
              /\ \E c \in chunk \cap Shown(pinToken # 0) : selected' = c
    /\ UNCHANGED <<authVars, pinToken, internalUv, secret, userVars, event,
                   expired, asked, callVars, uvReq, reconnected, selection>>

\* Any other error than NO_CREDENTIALS leaves the loop.
PreflightFails ==
    /\ pc = "filter" /\ rest # {}
    /\ \/ SentRp # "given" /\ Catch("MISSING_PARAMETER")
       \/ pinToken # 0 /\ ~TokenAccepted("ga") /\ Catch("PIN_AUTH_INVALID")
    /\ UNCHANGED <<authVars, attemptVars, userVars, event, expired, asked,
                   callVars, reconnected, selection>>

-----------------------------------------------------------------------------
(* The command itself.                                                     *)

Permission == IF req.op = "make" THEN "mc" ELSE "ga"

\* The extension inputs are prepared and the options put together, which may
\* raise; the authenticator then refuses the command at once, or waits for the
\* user. It may ask for the user to be verified if the command did not say so.
Send ==
    /\ pc = "send"
    /\ LET badInput == "bad" \in req.ext /\ secret # 0
           noRk == /\ req.op = "make" /\ req.rk = "required"
                   /\ "rk" \notin info.on
           stale == \/ pinToken # 0 /\ ~TokenAccepted(Permission)
                    \/ secret # 0 /\ secret # keyAgr
       IN  IF badInput \/ noRk
           THEN Leave("CONFIGURATION_UNSUPPORTED") /\ UNCHANGED uvReq
           ELSE IF SentRp # "given" THEN Catch("MISSING_PARAMETER")
           ELSE IF stale THEN Catch("PIN_AUTH_INVALID")
           ELSE \/ Goto("user") /\ UNCHANGED uvReq
                \/ ~UserKnown /\ UvConfigured /\ Catch("PUAT_REQUIRED")
    /\ UNCHANGED <<authVars, attemptVars, userVars, event, expired, asked,
                   callVars, reconnected, selection>>

\* The user touches the authenticator: user presence for this command. It
\* takes every permission but lbw from the token.
Touch ==
    /\ pc = "user"
    /\ consented' = TRUE
    /\ tokPerms' = IF pinToken = 0 THEN tokPerms ELSE tokPerms \cap {"lbw"}
    /\ UNCHANGED <<pinRetries, mismatches, keyAgr, tok, attemptVars,
                   wrongPins, event, expired, asked, callVars, reconnected>>

TouchToSelect ==
    /\ Touch /\ req.op = "select"
    /\ Leave("ok")
    /\ UNCHANGED <<creds, verified, uvReq, selection>>

\* The new credential is none of those excluded, but for lack of space.
Create ==
    /\ Touch /\ req.op = "make"
    /\ IF selected \in Shown(UserKnown)
       THEN Catch("CREDENTIAL_EXCLUDED") /\ UNCHANGED <<creds, verified>>
       ELSE \/ /\ \E c \in CredIds \ (creds \cup TooLong) :
                     creds' = creds \cup {c}
               /\ verified' = UserKnown
               /\ Leave("ok") /\ UNCHANGED uvReq
            \/ Catch("KEY_STORE_FULL") /\ UNCHANGED <<creds, verified>>
    /\ UNCHANGED selection

\* The assertions are signed with the credential selected, or with those found
\* on the authenticator; extension outputs are left to get_response.
Sign ==
    /\ Touch /\ req.op = "get"
    /\ LET usable == IF req.list # {} THEN Shown(UserKnown) \cap {selected}
                     ELSE {c \in creds : c \in UvOnly \cup ListOrUv => UserKnown}
       IN  IF usable = {}
           THEN Catch("NO_CREDENTIALS") /\ UNCHANGED <<verified, selection>>
           ELSE /\ verified' = UserKnown
                /\ selection' = [token |-> pinToken, at |-> ceremonies,
                                 write |-> "write" \in req.ext]
                /\ Leave("ok") /\ UNCHANGED uvReq
    /\ UNCHANGED creds

\* The user refuses, fails the built-in user verification, or does nothing.
UserFails ==
    /\ pc = "user"
    /\ \/ Catch("USER_ACTION_TIMEOUT")
       \/ Catch("OPERATION_DENIED")
       \/ internalUv /\ Catch("UV_INVALID")
    /\ UNCHANGED <<authVars, attemptVars, userVars, event, expired, asked,
                   callVars, reconnected, selection>>

\* The event is set: CANCEL ends the authenticator's wait for the user.
Cancel ==
    /\ pc \in {"user", "uvToken"} /\ event
    /\ Catch("KEEPALIVE_CANCEL")
    /\ UNCHANGED <<authVars, attemptVars, userVars, event, expired, asked,
                   callVars, reconnected, selection>>

\* Any exchange may end in an exception that is not a CtapError: the device is
\* gone, or its answer makes no sense.
Exchanging == pc \in {"ext", "auth", "uvToken", "rightPin", "wrongPin",
                      "filter", "send", "user"}

DeviceFails ==
    /\ Exchanging
    /\ Leave("raised")
    /\ UNCHANGED <<authVars, attemptVars, userVars, event, expired, asked,
                   callVars, uvReq, reconnected, selection>>

-----------------------------------------------------------------------------
(* What happens around the ceremony.                                       *)

SetEvent ==
    /\ pc # "idle" /\ ~event
    /\ event' = TRUE /\ asked' = TRUE
    /\ UNCHANGED <<authVars, attemptVars, userVars, leaveVars, stray, expired,
                   callVars, uvReq, reconnected, selection>>

\* Timer(options.timeout / 1000, event.set) fires: this ceremony's, or one that
\* was left running.
TimerFires ==
    /\ \/ timer /\ timer' = FALSE /\ asked' = TRUE /\ UNCHANGED stray
       \/ stray /\ stray' = FALSE /\ UNCHANGED <<timer, asked>>
    /\ event' = TRUE
    /\ UNCHANGED <<authVars, attemptVars, userVars, pc, result, expired,
                   callVars, uvReq, reconnected, selection>>

\* The token reaches its usage limit, or is replaced by another program.
ExpireToken ==
    /\ tokPerms # {} /\ ~expired
    /\ tokPerms' = {} /\ expired' = TRUE
    /\ UNCHANGED <<creds, pinRetries, mismatches, keyAgr, tok, attemptVars,
                   userVars, leaveVars, event, stray, asked, callVars, uvReq,
                   reconnected, selection>>

\* get_response: the largeBlob of the chosen assertion is written only now,
\* with the token of the ceremony if there was one.
GetResponse ==
    /\ selection.write
    /\ pc = "idle" /\ written = "none"
    /\ written' = IF ~UvConfigured
                     \/ (selection.token # 0 /\ selection.token = tok
                         /\ "lbw" \in tokPerms)
                  THEN "made" ELSE "denied"
    /\ UNCHANGED <<authVars, attemptVars, userVars, abortVars, leaveVars,
                   info, req, ceremonies, uvReq, reconnected, selection>>

\* The authenticator is unplugged between two ceremonies: power up.
PowerCycle ==
    /\ pc = "idle" /\ mismatches > 0
    /\ mismatches' = 0 /\ keyAgr' = keyAgr + 1 /\ tokPerms' = {}
    /\ expired' = TRUE
    /\ UNCHANGED <<creds, pinRetries, tok, attemptVars, userVars, leaveVars,
                   event, stray, asked, callVars, uvReq, reconnected,
                   selection>>

-----------------------------------------------------------------------------
Prompted == AskUv \/ AskPin
Touched == TouchToSelect \/ Create \/ Sign

\* What goes on without the user.
ClientStep ==
    \/ CheckRp \/ StartExtensions \/ GetAuthParams \/ PinRefused \/ WrongPin
    \/ RightPin \/ NothingFound \/ Preflight \/ PreflightFails \/ Send
    \/ Reconnect

Next ==
    \/ \E r \in Requests : Begin(r)
    \/ ClientStep \/ Prompted \/ GetUvToken \/ Touched \/ UserFails \/ Cancel
    \/ DeviceFails
    \/ SetEvent \/ TimerFires \/ ExpireToken \/ GetResponse \/ PowerCycle

Spec == Init /\ [][Next]_vars

\* The thread runs, prompts are answered, and the transport cancels a wait of
\* the authenticator once the event is set. The user may never touch it.
Fairness == WF_vars(ClientStep) /\ WF_vars(Prompted) /\ WF_vars(Cancel)

FairSpec == Spec /\ Fairness
-----------------------------------------------------------------------------
(* Properties.                                                             *)

Steps == {"idle", "rp", "ext", "auth", "askUv", "uvToken", "askPin",
          "rightPin", "wrongPin", "filter", "send", "user", "reconnect"}

AuthenticatorType ==
    /\ info \in InfoType
    /\ creds \subseteq CredIds \ TooLong
    /\ pinRetries \in 0 .. PinRetries /\ mismatches \in 0 .. 3
    /\ keyAgr \in Nat \ {0} /\ tok \in Nat
    /\ tokPerms \subseteq {"mc", "ga", "lbw"}

CeremonyType ==
    /\ pc \in Steps /\ req \in RequestType /\ uvReq \in Requirement
    /\ pinToken \in Nat
    /\ rest \subseteq CredIds \ TooLong /\ selected \in CredIds \cup {NoCred}
    /\ secret \in Nat
    /\ result \in {"none", "ok", "raised", "DEVICE_INELIGIBLE", "TIMEOUT",
                   "CONFIGURATION_UNSUPPORTED", "BAD_REQUEST", "OTHER_ERROR"}
    /\ selection \in [token : Nat, write : BOOLEAN, at : Nat]

FlagType ==
    /\ reconnected \in BOOLEAN /\ internalUv \in BOOLEAN
    /\ event \in BOOLEAN /\ timer \in BOOLEAN /\ stray \in BOOLEAN
    /\ consented \in BOOLEAN /\ verified \in BOOLEAN
    /\ expired \in BOOLEAN /\ asked \in BOOLEAN

HistoryType ==
    /\ wrongPins \in Nat
    /\ written \in {"none", "made", "denied"}
    /\ ceremonies \in 0 .. MaxCeremonies

(* Type correctness: the authenticator's counters stay in range, and only  *)
(* credentials and steps the program knows occur.                          *)
TypeOK == AuthenticatorType /\ CeremonyType /\ FlagType /\ HistoryType

(* The client never presents a token that the authenticator must refuse:   *)
(* whatever retries and reconnects came before, what it holds when it uses *)
(* it is the authenticator's current token, with the permission needed     *)
(* (client/__init__.py:715-719). Only expiry can make it void.             *)
TokenUsable ==
    pc \in {"filter", "send"} /\ pinToken # 0 /\ ~expired =>
        /\ TokenAccepted(Permission)
        /\ rest # {} => TokenAccepted("ga")

(* The shared secret that the prf inputs are encrypted with was agreed     *)
(* with the key the authenticator still has, although a wrong PIN and a    *)
(* reconnect renew it.                                                     *)
SecretUsable == pc \in {"filter", "send"} /\ secret # 0 => secret = keyAgr

(* A ceremony costs the user at most one PIN attempt; two, if the device   *)
(* was reconnected because the first one blocked the PIN.                  *)
PinCost == wrongPins <= IF reconnected THEN 2 ELSE 1

(* user_verification is honoured: a ceremony that required it, or asked    *)
(* for it of an authenticator with a UV option, succeeds only with the     *)
(* user verified, on every path through tokens, built-in UV and retries.   *)
UvHonoured ==
    /\ result = "ok" /\ req.op # "select"
    /\ req.uv = "required" \/ (req.uv = "preferred" /\ UvSupported)
    => verified

(* The largeBlob of an assertion is written with a token that allows it    *)
(* (get_response runs after the touch took the other permissions), unless  *)
(* the token expired or another ceremony was begun first.                  *)
BlobWriteAllowed ==
    written = "denied" => expired \/ ceremonies # selection.at

(* A ceremony is aborted only because its caller or its own timeout asked  *)
(* for it, as long as every RP ID fits its origin.                         *)
AllRpsFit == \A r \in Requests : r.rp # "invalid"
AbortedOnRequest == AllRpsFit => (pc # "idle" /\ event => asked)

(* The same without the proviso: the event is the "signal to abort the     *)
(* operation" (client/__init__.py:1026), of no other operation.            *)
AbortedByOwnSignal == pc # "idle" /\ event => asked

(* The RP ID that was derived from the origin and verified ("Assert a      *)
(* credential for RP ID", client/__init__.py:1084) is the one that is sent *)
(* to the authenticator, with the request for a token and the command.     *)
VerifiedRpIsSent ==
    pc \in {"uvToken", "rightPin", "wrongPin", "filter", "send"} =>
        SentRp = "given"

(* exclude_credentials: no credential is created on an authenticator that  *)
(* holds one of the list, however long the list and however small the      *)
(* chunks (test_client.py:61-66). A credential that shows itself after UV  *)
(* only is found if the list was filtered with a token.                    *)
Excluded == req.list \cap (IF pinToken # 0 THEN creds ELSE creds \ UvOnly)
ExcludedCreatesNothing == [][Excluded # {} => creds' = creds]_vars

(* The same, as the test states it.                                        *)
ListedCreatesNothing == [][req.list \cap creds # {} => creds' = creds]_vars

(* Setting the event ends the ceremony, whatever step it is at and however *)
(* often the authenticator asks for more.                                  *)
AbortEnds == (pc # "idle" /\ event) ~> pc = "idle"

-----------------------------------------------------------------------------
(* Why: what an attempt carries is what the authenticator has, from the    *)
(* step that fetched it to the step that uses it.                          *)

Attempting == pc \in {"auth", "askUv", "uvToken", "askPin", "rightPin",
                      "wrongPin", "filter", "send", "user"}

TokenInStep ==
    pc \in {"filter", "send"} /\ pinToken # 0 /\ ~expired =>
        /\ pinToken = tok
        /\ Permission \in tokPerms
        /\ req.list # {} => "ga" \in tokPerms

SecretInStep ==
    secret # 0 => req.op # "make" /\ (Attempting => secret = keyAgr)

PinInStep ==
    /\ wrongPins <= IF reconnected THEN 2 ELSE 1
    /\ pc = "reconnect" => ~reconnected
    /\ pc \notin {"idle", "reconnect"} =>
           wrongPins <= IF reconnected THEN 1 ELSE 0

\* Of the listed IDs tried so far none was shown, or one was and is selected.
FilterInStep ==
    /\ rest \subseteq req.list
    /\ pc \in {"filter", "send", "user"} /\ req.op # "select" =>
           IF selected = NoCred
           THEN /\ (req.list \ rest) \cap Shown(pinToken # 0) = {}
                /\ pc # "filter" => rest = {}
           ELSE selected \in Shown(pinToken # 0)

(* The inductive invariant behind TokenUsable, SecretUsable, PinCost and   *)
(* ExcludedCreatesNothing.                                                 *)
InStep == TokenInStep /\ SecretInStep /\ PinInStep /\ FilterInStep

(* The client keeps the promises of a ceremony.                            *)
Abstract == INSTANCE Ceremony WITH
    running <- pc # "idle",
    consented <- consented,
    held <- creds,
    outcome <- IF result \in {"none", "ok"} THEN result
               ELSE IF result = "DEVICE_INELIGIBLE" THEN "ineligible"
               ELSE "error"

CeremonyContract == Abstract!CeremonySpec
=============================================================================
