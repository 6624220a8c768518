-------------------------- MODULE Fido2Client_proofs --------------------------
(***************************************************************************)
(* Theorems about Fido2Client, for every set of credentials, every         *)
(* authenticator and every request that its assumptions admit.             *)
(***************************************************************************)
EXTENDS Fido2Client, TLAPS

Results == {"none", "ok", "raised", "DEVICE_INELIGIBLE", "TIMEOUT",
            "CONFIGURATION_UNSUPPORTED", "BAD_REQUEST", "OTHER_ERROR"}

(* What the operators that end an action do to the types.                  *)
LEMMA LeaveType ==
  ASSUME FlagType, NEW res \in Results, Leave(res)
  PROVE  /\ pc' = "idle" /\ result' \in Results
         /\ timer' \in BOOLEAN /\ stray' \in BOOLEAN
  BY DEF FlagType, Leave

LEMMA GotoType ==
  ASSUME FlagType, result \in Results, NEW step \in Steps, Goto(step)
  PROVE  /\ pc' = step /\ pc' \in Steps /\ result' \in Results
         /\ timer' \in BOOLEAN /\ stray' \in BOOLEAN
  BY DEF FlagType, Goto

LEMMA ClientErrorType == ASSUME NEW code PROVE ClientError(code) \in Results
  BY DEF ClientError, Results

(* Another attempt starts at "auth" or "ext"; a reconnect comes before it  *)
(* once; any other error leaves the ceremony.                              *)
LEMMA CatchType ==
  ASSUME FlagType, CeremonyType, NEW code, Catch(code)
  PROVE  /\ \/ pc' = "idle"
            \/ pc' = FirstStep /\ code = "PUAT_REQUIRED"
            \/ pc' = "reconnect" /\ code = "PIN_AUTH_BLOCKED" /\ ~reconnected
         /\ pc' \in Steps
         /\ pc' \in {"idle", "auth", "ext", "reconnect"}
         /\ result' \in Results /\ uvReq' \in Requirement
         /\ timer' \in BOOLEAN /\ stray' \in BOOLEAN
<1>1. result \in Results /\ uvReq \in Requirement
  BY DEF CeremonyType, Results
<1>2. ClientError(code) \in Results
  BY ClientErrorType
<1>3. FirstStep \in Steps /\ FirstStep \in {"auth", "ext"}
  BY DEF FirstStep, Steps
<1>4. CASE Leave(ClientError(code)) /\ UNCHANGED uvReq
  BY <1>1, <1>2, <1>4, LeaveType DEF Steps
<1>5. CASE Goto(FirstStep) /\ uvReq' = "required" /\ code = "PUAT_REQUIRED"
  BY <1>1, <1>3, <1>5, GotoType DEF Requirement
<1>6. CASE Goto("reconnect") /\ UNCHANGED uvReq /\ code = "PIN_AUTH_BLOCKED"
           /\ ~reconnected
  BY <1>1, <1>6, GotoType DEF Steps
<1> QED BY <1>4, <1>5, <1>6 DEF Catch

LEMMA AuthenticatedType ==
  ASSUME TypeOK, NEW t \in Nat, NEW b \in BOOLEAN, Authenticated(t, b)
  PROVE  /\ pc' = "filter" /\ pc' \in Steps /\ result' \in Results
         /\ timer' \in BOOLEAN /\ stray' \in BOOLEAN
         /\ pinToken' \in Nat /\ internalUv' \in BOOLEAN
         /\ rest' \subseteq CredIds \ TooLong
         /\ selected' \in CredIds \cup {NoCred}
<1>1. FlagType /\ result \in Results /\ req \in RequestType /\ Goto("filter")
  BY DEF TypeOK, CeremonyType, Results, Authenticated
<1>2. "filter" \in Steps
  BY DEF Steps
<1>3. req.list \subseteq CredIds
  BY <1>1 DEF RequestType
<1> QED BY <1>1, <1>2, <1>3, GotoType DEF Authenticated

(* The parts of TypeOK that an action leaves alone.                        *)
LEMMA TypeUnchanged ==
  ASSUME TypeOK
  PROVE  /\ UNCHANGED <<info, authVars>> => AuthenticatorType'
         /\ UNCHANGED <<wrongPins, written, ceremonies>> => HistoryType'
         /\ /\ pc' \in Steps /\ result' \in Results /\ uvReq' \in Requirement
            /\ UNCHANGED <<req, pinToken, rest, selected, secret, selection>>
            => CeremonyType'
  BY DEF TypeOK, AuthenticatorType, HistoryType, CeremonyType, authVars, Results

LEMMA InitTypeOK == Init => TypeOK
<1> SUFFICES ASSUME Init PROVE TypeOK
  OBVIOUS
<1>1. AuthenticatorType
  BY ClientAssumption DEF Init, AuthenticatorType
<1>2. CeremonyType
  <2>1. req \in RequestType
    BY ClientAssumption DEF Init
  <2>2. uvReq \in Requirement
    BY <2>1 DEF Init, RequestType
  <2>3. selection \in [token : Nat, write : BOOLEAN, at : Nat]
    BY DEF Init, NoSelection
  <2> QED BY <2>1, <2>2, <2>3 DEF Init, CeremonyType, Steps
<1>3. FlagType
  BY Zenon DEF Init, FlagType
<1>4. HistoryType
  BY ClientAssumption DEF Init, HistoryType
<1> QED BY <1>1, <1>2, <1>3, <1>4 DEF TypeOK

(* TypeOK is preserved by the entry of a ceremony.                         *)
LEMMA BeginType ==
  ASSUME TypeOK, NEW r \in Requests, Begin(r)
  PROVE  TypeOK'
<1>1. r \in RequestType
  BY ClientAssumption
<1>2. AuthenticatorType'
  BY TypeUnchanged DEF Begin
<1>3. CeremonyType'
  <2>1. uvReq' \in Requirement /\ pc' \in Steps
    BY <1>1 DEF Begin, RequestType, Steps
  <2> QED BY <1>1, <2>1 DEF Begin, TypeOK, CeremonyType
<1>4. FlagType'
  <2>1. timer' \in BOOLEAN /\ stray' \in BOOLEAN
    BY <1>1 DEF Begin, RequestType, TypeOK, FlagType
  <2> QED BY <2>1, Zenon DEF Begin, FlagType
<1>5. HistoryType'
  BY ClientAssumption DEF Begin, TypeOK, HistoryType
<1> QED BY <1>2, <1>3, <1>4, <1>5 DEF TypeOK

LEMMA CheckRpType ==
  ASSUME TypeOK, CheckRp
  PROVE  TypeOK'
<1>1. /\ pc' \in Steps /\ result' \in Results
      /\ timer' \in BOOLEAN /\ stray' \in BOOLEAN
  BY DEF CheckRp, Goto, TypeOK, FlagType, CeremonyType, Results, Steps
<1>2. AuthenticatorType' /\ HistoryType'
  BY TypeUnchanged DEF CheckRp, callVars, userVars
<1>3. CeremonyType'
  BY <1>1, TypeUnchanged DEF CheckRp, TypeOK, CeremonyType, callVars, attemptVars
<1>4. FlagType'
  BY <1>1, Zenon DEF CheckRp, TypeOK, FlagType, attemptVars, userVars
<1> QED BY <1>2, <1>3, <1>4 DEF TypeOK

LEMMA StartExtensionsType ==
  ASSUME TypeOK, StartExtensions
  PROVE  TypeOK'
<1>1. FlagType /\ result \in Results /\ "raised" \in Results /\ "auth" \in Steps
      /\ "idle" \in Steps
  BY DEF TypeOK, CeremonyType, Results, Steps
<1>2. /\ \/ Leave("raised") /\ UNCHANGED secret
         \/ Goto("auth") /\ secret' \in {keyAgr, 0}
  BY DEF StartExtensions
<1>3. /\ pc' \in Steps /\ result' \in Results /\ secret' \in Nat
      /\ timer' \in BOOLEAN /\ stray' \in BOOLEAN
  BY <1>1, <1>2, LeaveType, GotoType DEF TypeOK, CeremonyType, AuthenticatorType
<1>4. AuthenticatorType' /\ HistoryType'
  BY TypeUnchanged DEF StartExtensions, callVars, userVars
<1>5. CeremonyType'
  BY <1>3 DEF StartExtensions, TypeOK, CeremonyType, callVars, Results
<1>6. FlagType'
  BY <1>3, Zenon DEF StartExtensions, TypeOK, FlagType, userVars
<1> QED BY <1>4, <1>5, <1>6 DEF TypeOK

LEMMA PinOrGiveUpType ==
  ASSUME TypeOK, PinOrGiveUp
  PROVE  /\ pc' \in {"idle", "askPin"} /\ pc' \in Steps /\ result' \in Results
         /\ timer' \in BOOLEAN /\ stray' \in BOOLEAN
  BY DEF PinOrGiveUp, Goto, Leave, TypeOK, FlagType, CeremonyType, Results, Steps

(* Whatever _get_auth_params or request_uv does, it is one of these.       *)
AuthOutcome ==
    \/ Leave("CONFIGURATION_UNSUPPORTED") \/ Leave("raised") \/ PinOrGiveUp
    \/ Goto("askUv") \/ Goto("uvToken")

LEMMA AuthOutcomeType ==
  ASSUME TypeOK, AuthOutcome
  PROVE  /\ pc' \in {"idle", "askPin", "askUv", "uvToken"} /\ pc' \in Steps
         /\ result' \in Results /\ timer' \in BOOLEAN /\ stray' \in BOOLEAN
  BY PinOrGiveUpType
     DEF AuthOutcome, Goto, Leave, TypeOK, FlagType, CeremonyType, Results, Steps

LEMMA AuthStep ==
  ASSUME TypeOK, GetAuthParams \/ AskUv
  PROVE  /\ \/ \E b \in BOOLEAN : Authenticated(0, b)
            \/ AuthOutcome /\ UNCHANGED <<pinToken, internalUv, rest, selected>>
         /\ UNCHANGED <<authVars, secret, userVars, event, expired, asked,
                        callVars, uvReq, reconnected, selection>>
<1>1. CASE GetAuthParams
  BY <1>1, Zenon DEF GetAuthParams, AuthOutcome
<1>2. CASE AskUv
  BY <1>2, Zenon DEF AskUv, AuthOutcome
<1> QED BY <1>1, <1>2

LEMMA AuthStepType ==
  ASSUME TypeOK, GetAuthParams \/ AskUv
  PROVE  TypeOK'
<1>1. UNCHANGED <<authVars, secret, userVars, event, expired, asked,
                  callVars, uvReq, reconnected, selection>>
  BY AuthStep
<1>2. /\ pc' \in Steps /\ result' \in Results /\ pinToken' \in Nat
      /\ internalUv' \in BOOLEAN /\ timer' \in BOOLEAN /\ stray' \in BOOLEAN
      /\ rest' \subseteq CredIds \ TooLong /\ selected' \in CredIds \cup {NoCred}
  <2>1. CASE \E b \in BOOLEAN : Authenticated(0, b)
    BY <2>1, AuthenticatedType
  <2>2. CASE AuthOutcome /\ UNCHANGED <<pinToken, internalUv, rest, selected>>
    BY <2>2, AuthOutcomeType DEF TypeOK, CeremonyType, FlagType
  <2> QED BY <2>1, <2>2, AuthStep
<1>3. AuthenticatorType' /\ HistoryType'
  BY <1>1, TypeUnchanged DEF callVars, userVars
<1>4. CeremonyType'
  BY <1>1, <1>2 DEF TypeOK, CeremonyType, callVars, Results
<1>5. FlagType'
  BY <1>1, <1>2, Zenon DEF TypeOK, FlagType, userVars
<1> QED BY <1>3, <1>4, <1>5 DEF TypeOK

LEMMA NewTokenType ==
  ASSUME TypeOK, NewToken
  PROVE  /\ tok' \in Nat /\ tokPerms' \subseteq {"mc", "ga", "lbw"}
         /\ Authenticated(tok + 1, FALSE) /\ tok + 1 \in Nat
<1>1. Permissions \subseteq {"mc", "ga", "lbw"}
  BY DEF Permissions
<1>2. tok \in Nat /\ tok + 1 \in Nat
  BY DEF TypeOK, AuthenticatorType
<1>3. Authenticated(tok + 1, FALSE) /\ tok' = tok + 1
  BY DEF NewToken
<1>4. tokPerms' \subseteq {"mc", "ga", "lbw"}
  BY <1>1 DEF NewToken
<1> QED BY <1>2, <1>3, <1>4

LEMMA GetUvTokenType ==
  ASSUME TypeOK, GetUvToken
  PROVE  TypeOK'
<1>1. \/ NewToken /\ UNCHANGED uvReq
      \/ /\ \E code : Catch(code)
         /\ UNCHANGED <<tok, tokPerms, pinToken, internalUv, rest, selected>>
  BY Zenon DEF GetUvToken
<1>2. /\ tok' \in Nat /\ tokPerms' \subseteq {"mc", "ga", "lbw"}
      /\ pc' \in Steps /\ result' \in Results /\ uvReq' \in Requirement
      /\ pinToken' \in Nat
      /\ internalUv' \in BOOLEAN /\ timer' \in BOOLEAN /\ stray' \in BOOLEAN
      /\ rest' \subseteq CredIds \ TooLong /\ selected' \in CredIds \cup {NoCred}
  <2>1. CASE NewToken /\ UNCHANGED uvReq
    BY <2>1, NewTokenType, AuthenticatedType DEF TypeOK, CeremonyType
  <2>2. CASE /\ \E code : Catch(code)
             /\ UNCHANGED <<tok, tokPerms, pinToken, internalUv, rest, selected>>
    BY <2>2, CatchType DEF TypeOK, CeremonyType, FlagType, AuthenticatorType
  <2> QED BY <1>1, <2>1, <2>2
<1>3. AuthenticatorType'
  BY <1>2 DEF GetUvToken, TypeOK, AuthenticatorType, callVars
<1>4. HistoryType'
  BY TypeUnchanged DEF GetUvToken, callVars, userVars
<1>5. CeremonyType'
  BY <1>2 DEF GetUvToken, TypeOK, CeremonyType, callVars, Results
<1>6. FlagType'
  BY <1>2, Zenon DEF GetUvToken, TypeOK, FlagType, userVars
<1> QED BY <1>3, <1>4, <1>5, <1>6 DEF TypeOK

LEMMA RightPinType ==
  ASSUME TypeOK, RightPin
  PROVE  TypeOK'
<1>1. NewToken
  BY DEF RightPin
<1>2. /\ tok' \in Nat /\ tokPerms' \subseteq {"mc", "ga", "lbw"}
      /\ pc' \in Steps /\ result' \in Results /\ pinToken' \in Nat
      /\ internalUv' \in BOOLEAN /\ timer' \in BOOLEAN /\ stray' \in BOOLEAN
      /\ rest' \subseteq CredIds \ TooLong /\ selected' \in CredIds \cup {NoCred}
  BY <1>1, NewTokenType, AuthenticatedType
<1>3. AuthenticatorType'
  BY <1>2, ClientAssumption DEF RightPin, TypeOK, AuthenticatorType, callVars
<1>4. HistoryType'
  BY TypeUnchanged DEF RightPin, callVars, userVars
<1>5. CeremonyType'
  BY <1>2 DEF RightPin, TypeOK, CeremonyType, callVars, Results
<1>6. FlagType'
  BY <1>2, Zenon DEF RightPin, TypeOK, FlagType, userVars
<1> QED BY <1>3, <1>4, <1>5, <1>6 DEF TypeOK

LEMMA WrongPinType ==
  ASSUME TypeOK, WrongPin
  PROVE  TypeOK'
<1>1. \E code : Catch(code)
  BY DEF WrongPin
<1>2. /\ pc' \in Steps /\ result' \in Results /\ uvReq' \in Requirement
      /\ timer' \in BOOLEAN /\ stray' \in BOOLEAN
  BY <1>1, CatchType DEF TypeOK
<1>3. AuthenticatorType'
  BY ClientAssumption DEF WrongPin, PinTried, TypeOK, AuthenticatorType, callVars
<1>4. HistoryType'
  BY DEF WrongPin, TypeOK, HistoryType, callVars
<1>5. CeremonyType'
  BY <1>2, TypeUnchanged DEF WrongPin, callVars, attemptVars
<1>6. FlagType'
  BY <1>2, Zenon DEF WrongPin, TypeOK, FlagType, attemptVars
<1> QED BY <1>3, <1>4, <1>5, <1>6 DEF TypeOK

(* Most exchanges only decide how the ceremony goes on.                    *)
Onwards ==
    \/ \E code : Catch(code)
    \/ \E res \in Results : Leave(res) /\ UNCHANGED uvReq
    \/ \E step \in Steps : Goto(step) /\ UNCHANGED uvReq

OnwardsOnly ==
    Onwards /\ UNCHANGED <<authVars, attemptVars, userVars, event, expired,
                           asked, callVars, reconnected, selection>>

LEMMA OnwardsType ==
  ASSUME TypeOK, Onwards
  PROVE  /\ pc' \in Steps /\ result' \in Results /\ uvReq' \in Requirement
         /\ timer' \in BOOLEAN /\ stray' \in BOOLEAN
<1>1. FlagType /\ CeremonyType /\ result \in Results /\ uvReq \in Requirement
      /\ "idle" \in Steps
  BY DEF TypeOK, CeremonyType, Results, Steps
<1> QED BY <1>1, CatchType, LeaveType, GotoType DEF Onwards

LEMMA OnwardsOnlyType ==
  ASSUME TypeOK, OnwardsOnly
  PROVE  TypeOK'
<1>1. /\ pc' \in Steps /\ result' \in Results /\ uvReq' \in Requirement
      /\ timer' \in BOOLEAN /\ stray' \in BOOLEAN
  BY OnwardsType DEF OnwardsOnly
<1>2. AuthenticatorType' /\ HistoryType'
  BY TypeUnchanged DEF OnwardsOnly, callVars, userVars
<1>3. CeremonyType'
  BY <1>1, TypeUnchanged DEF OnwardsOnly, callVars, attemptVars
<1>4. FlagType'
  BY <1>1, Zenon DEF OnwardsOnly, TypeOK, FlagType, attemptVars, userVars
<1> QED BY <1>2, <1>3, <1>4 DEF TypeOK

LEMMA OnwardsSteps ==
  ASSUME AskPin \/ PinRefused \/ NothingFound \/ PreflightFails \/ Send
         \/ UserFails \/ Cancel \/ DeviceFails
  PROVE  OnwardsOnly
<1> USE DEF OnwardsOnly, Onwards
<1>0. /\ {"BAD_REQUEST", "CONFIGURATION_UNSUPPORTED", "raised"} \subseteq Results
      /\ {"rightPin", "wrongPin", "send", "user"} \subseteq Steps
  BY DEF Results, Steps
<1>1. CASE AskPin
  BY <1>0, <1>1 DEF AskPin
<1>2. CASE PinRefused
  BY <1>2, Zenon DEF PinRefused
<1>3. CASE NothingFound
  BY <1>0, <1>3 DEF NothingFound
<1>4. CASE PreflightFails
  BY <1>4, Zenon DEF PreflightFails
<1>5. CASE Send
  BY <1>0, <1>5 DEF Send
<1>6. CASE UserFails
  BY <1>6, Zenon DEF UserFails
<1>7. CASE Cancel
  BY <1>7, Zenon DEF Cancel
<1>8. CASE DeviceFails
  BY <1>0, <1>8 DEF DeviceFails
<1> QED BY <1>1, <1>2, <1>3, <1>4, <1>5, <1>6, <1>7, <1>8

LEMMA PreflightType ==
  ASSUME TypeOK, Preflight
  PROVE  TypeOK'
<1>1. PICK chunk \in Chunks :
        IF chunk \cap Shown(pinToken # 0) = {}
        THEN rest' = rest \ chunk /\ Goto("filter") /\ UNCHANGED selected
        ELSE /\ rest' = {} /\ Goto("send")
             /\ \E c \in chunk \cap Shown(pinToken # 0) : selected' = c
  BY DEF Preflight
<1>2. rest' \subseteq CredIds \ TooLong /\ selected' \in CredIds \cup {NoCred}
  BY <1>1 DEF TypeOK, CeremonyType, Chunks
<1>3. \E step \in Steps : Goto(step)
  BY <1>1 DEF Steps
<1>4. /\ pc' \in Steps /\ result' \in Results
      /\ timer' \in BOOLEAN /\ stray' \in BOOLEAN
  BY <1>3, GotoType DEF TypeOK, CeremonyType, Results
<1>5. AuthenticatorType' /\ HistoryType'
  BY TypeUnchanged DEF Preflight, callVars, userVars
<1>6. CeremonyType'
  BY <1>2, <1>4 DEF Preflight, TypeOK, CeremonyType, callVars, Results
<1>7. FlagType'
  BY <1>4, Zenon DEF Preflight, TypeOK, FlagType, userVars
<1> QED BY <1>5, <1>6, <1>7 DEF TypeOK

LEMMA ReconnectType ==
  ASSUME TypeOK, Reconnect
  PROVE  TypeOK'
<1>1. FirstStep \in Steps /\ FlagType /\ result \in Results
      /\ "raised" \in Results /\ "idle" \in Steps
  BY DEF FirstStep, Steps, TypeOK, CeremonyType, Results
<1>2. /\ pc' \in Steps /\ result' \in Results
      /\ timer' \in BOOLEAN /\ stray' \in BOOLEAN
  BY <1>1, LeaveType, GotoType DEF Reconnect
<1>3. AuthenticatorType'
  <2>1. /\ UNCHANGED <<info, creds, pinRetries, tok>>
        /\ mismatches' \in {mismatches, 0} /\ keyAgr' \in {keyAgr, keyAgr + 1}
        /\ tokPerms' \in {tokPerms, {}}
    BY DEF Reconnect, callVars
  <2> QED BY <2>1 DEF TypeOK, AuthenticatorType
<1>4. HistoryType'
  BY TypeUnchanged DEF Reconnect, callVars, userVars
<1>5. CeremonyType'
  BY <1>2, TypeUnchanged DEF Reconnect, TypeOK, CeremonyType, callVars, attemptVars
<1>6. FlagType'
  BY <1>2, Zenon DEF Reconnect, TypeOK, FlagType, attemptVars, userVars
<1> QED BY <1>3, <1>4, <1>5, <1>6 DEF TypeOK

(* A touch: what the three commands it may end have in common.             *)
LEMMA TouchOutcome ==
  ASSUME TypeOK, TouchToSelect \/ Create \/ Sign
  PROVE  /\ Onwards
         /\ creds' \subseteq CredIds \ TooLong
         /\ selection' \in [token : Nat, write : BOOLEAN, at : Nat]
         /\ verified' \in BOOLEAN
<1>0. /\ "ok" \in Results /\ creds \subseteq CredIds \ TooLong
      /\ selection \in [token : Nat, write : BOOLEAN, at : Nat]
      /\ verified \in BOOLEAN /\ UserKnown \in BOOLEAN
      /\ pinToken \in Nat /\ ceremonies \in Nat
  BY ClientAssumption
     DEF Results, TypeOK, AuthenticatorType, CeremonyType, FlagType, HistoryType,
         UserKnown
<1>1. CASE TouchToSelect
  BY <1>0, <1>1 DEF TouchToSelect, Onwards
<1>2. CASE Create
  <2>1. Onwards
    BY <1>0, <1>2 DEF Create, Onwards
  <2>2. creds' \subseteq CredIds \ TooLong
    BY <1>0, <1>2 DEF Create
  <2>3. verified' \in BOOLEAN
    BY <1>0, <1>2, Zenon DEF Create
  <2> QED BY <1>0, <1>2, <2>1, <2>2, <2>3 DEF Create
<1>3. CASE Sign
  <2>1. Onwards
    BY <1>0, <1>3 DEF Sign, Onwards
  <2>2. selection' \in [token : Nat, write : BOOLEAN, at : Nat]
    <3> DEFINE w == "write" \in req.ext
    <3>1. w \in BOOLEAN
      BY SMT
    <3>2. \/ UNCHANGED selection
          \/ selection' = [token |-> pinToken, at |-> ceremonies, write |-> w]
      BY <1>3, Zenon DEF Sign
    <3> HIDE DEF w
    <3> QED BY <1>0, <3>1, <3>2
  <2>3. verified' \in BOOLEAN
    BY <1>0, <1>3, Zenon DEF Sign
  <2> QED BY <1>0, <1>3, <2>1, <2>2, <2>3 DEF Sign
<1> QED BY <1>1, <1>2, <1>3

LEMMA TouchedType ==
  ASSUME TypeOK, Touched
  PROVE  TypeOK'
<1>1. Touch /\ (TouchToSelect \/ Create \/ Sign)
  BY DEF Touched, TouchToSelect, Create, Sign
<1>2. /\ pc' \in Steps /\ result' \in Results /\ uvReq' \in Requirement
      /\ timer' \in BOOLEAN /\ stray' \in BOOLEAN
  BY <1>1, TouchOutcome, OnwardsType
<1>3. AuthenticatorType'
  <2>1. tokPerms' \subseteq {"mc", "ga", "lbw"}
    BY <1>1 DEF Touch, TypeOK, AuthenticatorType
  <2> QED BY <1>1, <2>1, TouchOutcome DEF Touch, TypeOK, AuthenticatorType, callVars
<1>4. HistoryType'
  BY <1>1, TypeUnchanged DEF Touch, callVars
<1>5. CeremonyType'
  BY <1>1, <1>2, TouchOutcome
     DEF Touch, TypeOK, CeremonyType, callVars, attemptVars, Results
<1>6. FlagType'
  <2>1. verified' \in BOOLEAN
    BY <1>1, TouchOutcome
  <2> QED BY <1>1, <1>2, <2>1, Zenon DEF Touch, TypeOK, FlagType, attemptVars
<1> QED BY <1>3, <1>4, <1>5, <1>6 DEF TypeOK

(* TypeOK is preserved by what happens around the ceremony.                *)
LEMMA EnvironmentType ==
  ASSUME TypeOK, SetEvent \/ TimerFires \/ ExpireToken \/ GetResponse
                 \/ PowerCycle
  PROVE  TypeOK'
<1> USE DEF leaveVars, callVars, attemptVars, abortVars
<1>1. AuthenticatorType'
  <2>1. CASE SetEvent \/ TimerFires \/ GetResponse
    BY <2>1, TypeUnchanged DEF SetEvent, TimerFires, GetResponse
  <2>2. CASE ExpireToken
    BY <2>2 DEF ExpireToken, TypeOK, AuthenticatorType
  <2>3. CASE PowerCycle
    BY <2>3 DEF PowerCycle, TypeOK, AuthenticatorType
  <2> QED BY <2>1, <2>2, <2>3
<1>2. CeremonyType'
  BY DEF SetEvent, TimerFires, ExpireToken, GetResponse, PowerCycle, TypeOK,
         CeremonyType
<1>3. FlagType'
  BY Zenon DEF SetEvent, TimerFires, ExpireToken, GetResponse, PowerCycle, TypeOK,
               FlagType, userVars
<1>4. HistoryType'
  BY DEF SetEvent, TimerFires, ExpireToken, GetResponse, PowerCycle, TypeOK,
         HistoryType, userVars
<1> QED BY <1>1, <1>2, <1>3, <1>4 DEF TypeOK

LEMMA StepTypeOK == TypeOK /\ [Next]_vars => TypeOK'
<1> SUFFICES ASSUME TypeOK, [Next]_vars PROVE TypeOK'
  OBVIOUS
<1>1. CASE \E r \in Requests : Begin(r)
  BY <1>1, BeginType
<1>2. CASE ClientStep
  BY <1>2, CheckRpType, StartExtensionsType, AuthStepType, OnwardsSteps,
     OnwardsOnlyType, RightPinType, WrongPinType, PreflightType, ReconnectType
     DEF ClientStep
<1>3. CASE Prompted
  BY <1>3, AuthStepType, OnwardsSteps, OnwardsOnlyType DEF Prompted
<1>4. CASE GetUvToken
  BY <1>4, GetUvTokenType
<1>5. CASE Touched
  BY <1>5, TouchedType
<1>6. CASE UserFails \/ Cancel \/ DeviceFails
  BY <1>6, OnwardsSteps, OnwardsOnlyType
<1>7. CASE SetEvent \/ TimerFires \/ ExpireToken \/ GetResponse \/ PowerCycle
  BY <1>7, EnvironmentType
<1>8. CASE UNCHANGED vars
  <2> USE <1>8 DEF vars, authVars, attemptVars, userVars, abortVars, leaveVars,
                   callVars
  <2>1. AuthenticatorType' /\ CeremonyType' /\ HistoryType'
    BY DEF TypeOK, AuthenticatorType, CeremonyType, HistoryType
  <2>2. FlagType'
    BY Zenon DEF TypeOK, FlagType
  <2> QED BY <2>1, <2>2 DEF TypeOK
<1> QED BY <1>1, <1>2, <1>3, <1>4, <1>5, <1>6, <1>7, <1>8 DEF Next

(* The types of the client's and the authenticator's variables hold in     *)
(* every reachable state (client/__init__.py, retry loops included).       *)
THEOREM TypeCorrect == Spec => []TypeOK
BY InitTypeOK, StepTypeOK, PTL DEF Spec

-----------------------------------------------------------------------------
(* The inductive invariant InStep.                                         *)

Unwound == {"idle", "auth", "ext", "reconnect"}

\* Where each action leads.
LEMMA Successors ==
  ASSUME TypeOK
  PROVE  /\ CheckRp => pc = "rp" /\ pc' \in {"idle", "ext"}
         /\ StartExtensions => pc = "ext" /\ pc' \in {"idle", "auth"}
         /\ AskPin => pc = "askPin" /\ pc' \in {"idle", "rightPin", "wrongPin"}
         /\ Send => pc = "send" /\ pc' \in Unwound \cup {"user"}
         /\ Reconnect => pc = "reconnect" /\ pc' \in {"idle", FirstStep}
         /\ PinRefused \/ PreflightFails \/ UserFails \/ Cancel \/ DeviceFails
              \/ WrongPin \/ Touched => pc' \in Unwound
<1>0. FlagType /\ CeremonyType
  BY DEF TypeOK
<1>1. \A code : Catch(code) => pc' \in Unwound
  BY <1>0, CatchType DEF Unwound
<1>2. \A res : Leave(res) => pc' = "idle" /\ pc' \in Unwound
  BY DEF Leave, Unwound
<1>3. \A step : Goto(step) => pc' = step
  BY DEF Goto
<1>4. CheckRp => pc = "rp" /\ pc' \in {"idle", "ext"}
  BY <1>3 DEF CheckRp
<1>5. StartExtensions => pc = "ext" /\ pc' \in {"idle", "auth"}
  BY <1>2, <1>3 DEF StartExtensions
<1>6. AskPin => pc = "askPin" /\ pc' \in {"idle", "rightPin", "wrongPin"}
  BY <1>2, <1>3 DEF AskPin
<1>7. Send => pc = "send" /\ pc' \in Unwound \cup {"user"}
  BY <1>1, <1>2, <1>3 DEF Send
<1>8. Reconnect => pc = "reconnect" /\ pc' \in {"idle", FirstStep}
  BY <1>2, <1>3 DEF Reconnect
<1>9. PinRefused \/ PreflightFails \/ UserFails \/ Cancel => pc' \in Unwound
  BY <1>1 DEF PinRefused, PreflightFails, UserFails, Cancel
<1>10. DeviceFails \/ WrongPin => pc' \in Unwound
  BY <1>1, <1>2 DEF DeviceFails, WrongPin
<1>11. Touched => pc' \in Unwound
  BY <1>1, <1>2 DEF Touched, TouchToSelect, Create, Sign
<1> QED BY <1>4, <1>5, <1>6, <1>7, <1>8, <1>9, <1>10, <1>11

\* The actions by what they do to a ceremony.
Unwinds == PinRefused \/ PreflightFails \/ UserFails \/ Cancel \/ DeviceFails
Around == SetEvent \/ TimerFires \/ ExpireToken \/ GetResponse \/ PowerCycle

LEMMA NextCases ==
  ASSUME Next
  PROVE  \/ \E r \in Requests : Begin(r)
         \/ CheckRp \/ StartExtensions \/ GetAuthParams \/ AskUv \/ AskPin
         \/ GetUvToken \/ RightPin \/ WrongPin \/ NothingFound \/ Preflight
         \/ Send \/ Reconnect \/ Unwinds \/ Touched \/ Around
  BY DEF Next, ClientStep, Prompted, Unwinds, Around

\* A token step gets a token, or the ceremony is unwound.
LEMMA UvTokenCases ==
  ASSUME TypeOK, GetUvToken
  PROVE  NewToken \/ (pc' \in Unwound /\ UNCHANGED <<rest, pinToken>>)
<1>1. \A code : Catch(code) => pc' \in Unwound
  BY CatchType DEF Unwound, TypeOK
<1> QED BY <1>1 DEF GetUvToken

LEMMA AuthCases ==
  ASSUME TypeOK, GetAuthParams \/ AskUv
  PROVE  \/ \E b \in BOOLEAN : Authenticated(0, b)
         \/ /\ pc' \in {"idle", "askPin", "askUv", "uvToken"}
            /\ UNCHANGED <<rest, pinToken>>
  BY AuthStep, AuthOutcomeType

LEMMA TokenInStepNext ==
  ASSUME TypeOK, TokenInStep, Next
  PROVE  TokenInStep'
<1> USE DEF TokenInStep
<1>1. CASE \E r \in Requests : Begin(r)
  BY <1>1 DEF Begin
<1>2. CASE CheckRp \/ StartExtensions \/ AskPin \/ Send \/ Reconnect \/ Unwinds
           \/ Touched \/ WrongPin
  BY <1>2, Successors DEF Unwinds, Unwound, FirstStep
<1>3. CASE GetAuthParams \/ AskUv
  <2>1. CASE \E b \in BOOLEAN : Authenticated(0, b)
    BY <2>1 DEF Authenticated
  <2>2. CASE pc' \in {"idle", "askPin", "askUv", "uvToken"}
    BY <2>2
  <2> QED BY <1>3, <2>1, <2>2, AuthCases
<1>4. CASE GetUvToken \/ RightPin
  <2>1. CASE NewToken
    <3>1. pinToken' = tok' /\ UNCHANGED req
      BY <1>4, <2>1 DEF NewToken, Authenticated, GetUvToken, RightPin, callVars
    <3>2. Permission \in tokPerms' /\ (req.list # {} => "ga" \in tokPerms')
      BY <2>1 DEF NewToken, Permission, Permissions
    <3>3. Permission' = Permission
      BY <3>1 DEF Permission
    <3> QED BY <3>1, <3>2, <3>3
  <2>2. CASE pc' \in Unwound
    BY <2>2 DEF Unwound
  <2>3. CASE RightPin
    BY <2>1, <2>3 DEF RightPin
  <2> QED BY <1>4, <2>1, <2>2, <2>3, UvTokenCases
<1>5. CASE NothingFound \/ Preflight
  BY <1>5 DEF NothingFound, Preflight, authVars, attemptVars, callVars, Permission
<1>6. CASE Around
  <2>1. CASE SetEvent \/ TimerFires \/ GetResponse
    BY <2>1 DEF SetEvent, TimerFires, GetResponse, authVars, attemptVars,
                leaveVars, callVars, abortVars, Permission
  <2>2. CASE ExpireToken
    BY <2>2 DEF ExpireToken
  <2>3. CASE PowerCycle
    BY <2>3 DEF PowerCycle
  <2> QED BY <1>6, <2>1, <2>2, <2>3 DEF Around
<1> QED BY <1>1, <1>2, <1>3, <1>4, <1>5, <1>6, NextCases

\* An error that starts another registration attempt goes back to "auth", where
\* no shared secret is held; any other goes back to "ext".
LEMMA SecretInStepNext ==
  ASSUME TypeOK, SecretInStep, Next
  PROVE  SecretInStep'
<1> USE DEF SecretInStep, Attempting
<1>0. FlagType /\ CeremonyType
  BY DEF TypeOK
<1>1. CASE \E r \in Requests : Begin(r)
  BY <1>1 DEF Begin
<1>2. CASE StartExtensions
  <2>1. \/ pc' = "idle" /\ UNCHANGED secret
        \/ pc' = "auth" /\ secret' \in {0, keyAgr} /\ (secret' # 0 => req.op = "get")
    BY <1>2 DEF StartExtensions, Leave, Goto
  <2>2. UNCHANGED <<req, keyAgr>>
    BY <1>2 DEF StartExtensions, callVars, authVars
  <2> QED BY <2>1, <2>2
<1>3. CASE CheckRp
  BY <1>3, Successors DEF CheckRp, callVars, attemptVars
<1>4. ASSUME UNCHANGED <<secret, req>>,
             \/ \E code : Catch(code)
             \/ \E res : Leave(res)
      PROVE  SecretInStep'
  <2>1. pc' \in {"idle", "reconnect", FirstStep}
    BY <1>0, <1>4, CatchType DEF Leave
  <2>2. FirstStep = "auth" => req.op = "make"
    BY DEF FirstStep
  <2>3. FirstStep \in {"auth", "ext"}
    BY DEF FirstStep
  <2> QED BY <1>4, <2>1, <2>2, <2>3
<1>5. CASE WrongPin \/ Unwinds
  BY <1>4, <1>5, Zenon DEF WrongPin, Unwinds, PinRefused, PreflightFails, UserFails,
                    Cancel, DeviceFails, callVars, attemptVars
<1>6. CASE Touched
  BY <1>4, <1>6 DEF Touched, TouchToSelect, Create, Sign, Touch, callVars,
                    attemptVars
<1>7. CASE Reconnect
  BY <1>7, Successors DEF Reconnect, FirstStep, callVars, attemptVars
<1>8. CASE Send
  <2>1. UNCHANGED <<secret, req, keyAgr>> /\ pc = "send"
    BY <1>8 DEF Send, callVars, attemptVars, authVars
  <2>2. (\E code : Catch(code)) \/ (\E res : Leave(res)) \/ Goto("user")
    BY <1>8 DEF Send
  <2> QED BY <1>4, <2>1, <2>2 DEF Goto
<1>9. CASE GetAuthParams \/ AskUv \/ AskPin
  BY <1>9 DEF GetAuthParams, AskUv, AskPin, authVars, callVars, attemptVars
<1>10. CASE NothingFound \/ Preflight
  BY <1>10 DEF NothingFound, Preflight, authVars, attemptVars, callVars
<1>11. CASE GetUvToken \/ RightPin
  BY <1>11 DEF GetUvToken, RightPin, callVars
<1>12. CASE Around
  <2>1. CASE SetEvent \/ TimerFires \/ GetResponse \/ ExpireToken
    BY <2>1 DEF SetEvent, TimerFires, GetResponse, ExpireToken, authVars,
                attemptVars, leaveVars, callVars
  <2>2. CASE PowerCycle
    BY <2>2 DEF PowerCycle, attemptVars, callVars, leaveVars
  <2> QED BY <1>12, <2>1, <2>2 DEF Around
<1> QED BY <1>1, <1>2, <1>3, <1>5, <1>6, <1>7, <1>8, <1>9, <1>10, <1>11, <1>12,
           NextCases

LEMMA PinInStepNext ==
  ASSUME TypeOK, PinInStep, Next
  PROVE  PinInStep'
<1> USE DEF PinInStep
<1>0. FlagType /\ CeremonyType /\ wrongPins \in Nat
  BY DEF TypeOK, HistoryType
<1>1. CASE \E r \in Requests : Begin(r)
  BY <1>1 DEF Begin
<1>2. CASE WrongPin
  <2>1. PICK code \in {"PIN_BLOCKED", "PIN_AUTH_BLOCKED", "PIN_INVALID"} : Catch(code)
    BY <1>2 DEF WrongPin
  <2>2. \/ pc' = "idle"
        \/ pc' = "reconnect" /\ ~reconnected
    BY <1>0, <2>1, CatchType
  <2>3. wrongPins' = wrongPins + 1 /\ pc = "wrongPin" /\ UNCHANGED reconnected
    BY <1>2 DEF WrongPin
  <2> QED BY <1>0, <2>2, <2>3
<1>3. CASE Reconnect
  <2>1. \/ pc' = "idle" /\ UNCHANGED reconnected
        \/ pc' \in {"auth", "ext"} /\ reconnected' = TRUE
    BY <1>3 DEF Reconnect, Leave, Goto, FirstStep
  <2>2. pc = "reconnect" /\ UNCHANGED wrongPins
    BY <1>3 DEF Reconnect, userVars
  <2> QED BY <1>0, <2>1, <2>2
<1>4. ASSUME UNCHANGED <<wrongPins, reconnected>>, pc \notin {"idle", "reconnect"},
             pc' = "reconnect" => ~reconnected
      PROVE  PinInStep'
  BY <1>0, <1>4
<1>5. \A code : Catch(code) => (pc' = "reconnect" => ~reconnected)
  BY <1>0, CatchType DEF FirstStep
<1>6. \A res : Leave(res) => pc' # "reconnect"
  BY DEF Leave
<1>7. CASE CheckRp \/ StartExtensions \/ AskPin \/ Send
  <2>1. UNCHANGED <<wrongPins, reconnected>>
    BY <1>7 DEF CheckRp, StartExtensions, AskPin, Send, userVars
  <2>2. pc' = "reconnect" => ~reconnected
    BY <1>5, <1>6, <1>7 DEF CheckRp, StartExtensions, AskPin, Send, Goto
  <2> QED BY <1>4, <1>7, <2>1, <2>2, Successors
<1>8. CASE GetAuthParams \/ AskUv
  <2>1. UNCHANGED <<wrongPins, reconnected>> /\ pc \in {"auth", "askUv"}
    BY <1>8 DEF GetAuthParams, AskUv, userVars
  <2>2. pc' # "reconnect"
    BY <1>8, AuthCases DEF Authenticated, Goto
  <2> QED BY <1>4, <2>1, <2>2
<1>9. CASE GetUvToken \/ RightPin \/ Unwinds
  <2>1. UNCHANGED <<wrongPins, reconnected>> /\ pc \notin {"idle", "reconnect"}
    BY <1>9 DEF GetUvToken, RightPin, Unwinds, PinRefused, PreflightFails,
                UserFails, Cancel, DeviceFails, Exchanging, userVars
  <2>2. pc' = "reconnect" => ~reconnected
    BY <1>5, <1>6, <1>9 DEF GetUvToken, RightPin, Unwinds, PinRefused,
       PreflightFails, UserFails, Cancel, DeviceFails, NewToken, Authenticated, Goto
  <2> QED BY <1>4, <2>1, <2>2
<1>10. CASE NothingFound \/ Preflight
  BY <1>4, <1>10 DEF NothingFound, Preflight, userVars, Goto
<1>11. CASE Touched
  <2>1. UNCHANGED <<wrongPins, reconnected>> /\ pc = "user"
    BY <1>11 DEF Touched, TouchToSelect, Create, Sign, Touch
  <2>2. pc' = "reconnect" => ~reconnected
    BY <1>5, <1>6, <1>11 DEF Touched, TouchToSelect, Create, Sign
  <2> QED BY <1>4, <2>1, <2>2
<1>12. CASE Around
  BY <1>12 DEF Around, SetEvent, TimerFires, ExpireToken, GetResponse, PowerCycle,
               userVars, leaveVars
<1> QED BY <1>1, <1>2, <1>3, <1>7, <1>8, <1>9, <1>10, <1>11, <1>12, NextCases

LEMMA FilterInStepNext ==
  ASSUME TypeOK, FilterInStep, Next
  PROVE  FilterInStep'
<1> USE DEF FilterInStep
<1>0. creds \subseteq CredIds \ TooLong /\ NoCred \notin CredIds
      /\ rest \subseteq CredIds
  BY ClientAssumption DEF TypeOK, AuthenticatorType, CeremonyType
<1>1. CASE \E r \in Requests : Begin(r)
  BY <1>1 DEF Begin
<1>2. ASSUME NEW t, NEW b, Authenticated(t, b), UNCHANGED <<creds, req>>
      PROVE  FilterInStep'
  BY <1>0, <1>2 DEF Authenticated, Goto, Shown
<1>3. ASSUME UNCHANGED <<rest, req>>, pc' \notin {"filter", "send", "user"}
      PROVE  FilterInStep'
  BY <1>3
<1>4. CASE GetAuthParams \/ AskUv
  <2>1. UNCHANGED <<creds, req>>
    BY <1>4 DEF GetAuthParams, AskUv, authVars, callVars
  <2> QED BY <1>2, <1>3, <1>4, <2>1, AuthCases
<1>5. CASE GetUvToken \/ RightPin
  <2>1. UNCHANGED <<creds, req>>
    BY <1>5 DEF GetUvToken, RightPin, callVars
  <2>2. NewToken \/ (pc' \in Unwound /\ UNCHANGED <<rest, pinToken>>)
    BY <1>5, UvTokenCases DEF RightPin
  <2> QED BY <1>2, <1>3, <2>1, <2>2 DEF NewToken, Unwound
<1>6. CASE Preflight
  <2>1. PICK chunk \in Chunks :
          IF chunk \cap Shown(pinToken # 0) = {}
          THEN rest' = rest \ chunk /\ Goto("filter") /\ UNCHANGED selected
          ELSE /\ rest' = {} /\ Goto("send")
               /\ \E c \in chunk \cap Shown(pinToken # 0) : selected' = c
    BY <1>6 DEF Preflight
  <2>2. UNCHANGED <<creds, req, pinToken>> /\ pc = "filter"
    BY <1>6 DEF Preflight, authVars, callVars
  <2>3. chunk \subseteq rest
    BY DEF Chunks
  <2>4. Shown(pinToken # 0)' = Shown(pinToken # 0)
    BY <2>2 DEF Shown
  <2>5. NoCred \notin Shown(pinToken # 0)
    BY <1>0 DEF Shown
  <2> QED BY <2>1, <2>2, <2>3, <2>4, <2>5 DEF Goto
<1>7. CASE NothingFound \/ Send
  <2>1. /\ UNCHANGED <<creds, req, rest, selected, pinToken>>
        /\ pc \in {"filter", "send"} /\ (pc = "filter" => rest = {})
        /\ pc' \in Unwound \cup {"send", "user"}
    BY <1>7, Successors
       DEF NothingFound, Send, authVars, attemptVars, callVars, Goto, Unwound
  <2>2. Shown(pinToken # 0)' = Shown(pinToken # 0)
    BY <2>1 DEF Shown
  <2> QED BY <2>1, <2>2 DEF Unwound
<1>8. CASE CheckRp \/ StartExtensions \/ AskPin \/ Reconnect
  BY <1>3, <1>8, Successors
     DEF CheckRp, StartExtensions, AskPin, Reconnect, FirstStep, attemptVars, callVars
<1>9. CASE Unwinds \/ WrongPin
  BY <1>3, <1>9, Successors
     DEF Unwinds, PinRefused, PreflightFails, UserFails, Cancel, DeviceFails, WrongPin,
         Unwound, attemptVars, callVars
<1>10. CASE Touched
  BY <1>3, <1>10, Successors
     DEF Touched, TouchToSelect, Create, Sign, Touch, Unwound, attemptVars, callVars
<1>11. CASE Around
  <2>1. UNCHANGED <<creds, req, rest, selected, pinToken, pc>>
    BY <1>11 DEF Around, SetEvent, TimerFires, ExpireToken, GetResponse, PowerCycle,
                 authVars, attemptVars, leaveVars, callVars
  <2> QED BY <2>1 DEF Shown
<1> QED BY <1>1, <1>4, <1>5, <1>6, <1>7, <1>8, <1>9, <1>10, <1>11, NextCases

LEMMA InitInStep == Init => InStep
BY DEF Init, InStep, TokenInStep, SecretInStep, PinInStep, FilterInStep

LEMMA InStepStutter ==
  ASSUME InStep, UNCHANGED vars
  PROVE  InStep'
<1> USE DEF vars, authVars, attemptVars, userVars, abortVars, leaveVars, callVars
<1>1. TokenInStep'
  BY DEF InStep, TokenInStep, Permission
<1>2. SecretInStep'
  BY DEF InStep, SecretInStep, Attempting
<1>3. PinInStep'
  BY DEF InStep, PinInStep
<1>4. FilterInStep'
  BY DEF InStep, FilterInStep, Shown
<1> QED BY <1>1, <1>2, <1>3, <1>4 DEF InStep

(* What an attempt carries from one step to the next is what the           *)
(* authenticator still has: the token with its permissions, the shared     *)
(* secret, the result of the filtering (the loops of do_make_credential    *)
(* and do_get_assertion).                                                  *)
THEOREM StaysInStep == Spec => []InStep
<1>1. TypeOK /\ InStep /\ [Next]_vars => InStep'
  <2> SUFFICES ASSUME TypeOK, InStep, [Next]_vars PROVE InStep'
    OBVIOUS
  <2>1. CASE Next
    BY <2>1, TokenInStepNext, SecretInStepNext, PinInStepNext, FilterInStepNext
       DEF InStep
  <2>2. CASE UNCHANGED vars
    BY <2>2, InStepStutter
  <2> QED BY <2>1, <2>2
<1> QED BY <1>1, InitInStep, TypeCorrect, PTL DEF Spec

(* A token is never presented that the authenticator must refuse, unless   *)
(* it expired: get_pin_token and get_uv_token ask for every permission the *)
(* attempt will need (client/__init__.py:715-727, 878-888).                *)
THEOREM TokensAreUsable == Spec => []TokenUsable
<1>1. TypeOK /\ InStep => TokenUsable
  BY DEF TypeOK, CeremonyType, InStep, TokenInStep, FilterInStep, TokenUsable,
         TokenAccepted
<1> QED BY <1>1, TypeCorrect, StaysInStep, PTL

(* The prf inputs are encrypted with a secret the authenticator shares:    *)
(* do_get_assertion agrees on a new one in every attempt.                  *)
THEOREM SecretsAreUsable == Spec => []SecretUsable
<1>1. InStep => SecretUsable
  BY DEF InStep, SecretInStep, SecretUsable, Attempting
<1> QED BY <1>1, StaysInStep, PTL

(* One PIN attempt in a ceremony, two with a reconnect in between: the     *)
(* retry loop never tries a refused PIN again (l.807-826, 955-974).        *)
THEOREM PinsAreSpared == Spec => []PinCost
<1>1. InStep => PinCost
  BY DEF InStep, PinInStep, PinCost
<1> QED BY <1>1, StaysInStep, PTL

(* A credential is created only after the whole exclude list was tried and *)
(* none of it was shown: if one was, it is selected, and the authenticator *)
(* excludes it (_filter_creds, do_make_credential).                        *)
THEOREM ExclusionIsComplete == Spec => ExcludedCreatesNothing
<1>1. TypeOK /\ InStep /\ [Next]_vars => (Excluded # {} => creds' = creds)
  <2> SUFFICES ASSUME TypeOK, InStep, [Next]_vars, creds' # creds
               PROVE  Excluded = {}
    OBVIOUS
  <2>1. Create
    BY DEF Next, ClientStep, Prompted, Begin, CheckRp, StartExtensions,
       GetAuthParams, PinRefused, WrongPin, RightPin, NothingFound, Preflight,
       PreflightFails, Send, Reconnect, AskUv, AskPin, GetUvToken, Touched,
       TouchToSelect, Sign, UserFails, Cancel, DeviceFails, SetEvent, TimerFires,
       ExpireToken, GetResponse, PowerCycle, vars, authVars
  <2>2. pc = "user" /\ req.op = "make" /\ selected \notin Shown(UserKnown)
    BY <2>1 DEF Create, Touch
  <2>3. Shown(pinToken # 0) \subseteq Shown(UserKnown)
    BY DEF Shown, UserKnown
  <2>4. selected = NoCred
    BY <2>2, <2>3 DEF InStep, FilterInStep
  <2>5. req.list \cap Shown(pinToken # 0) = {}
    BY <2>2, <2>4 DEF InStep, FilterInStep
  <2> QED BY <2>5 DEF Excluded, Shown
<1> QED BY <1>1, TypeCorrect, StaysInStep, PTL DEF Spec, ExcludedCreatesNothing

-----------------------------------------------------------------------------
(* User verification, aborts and the largeBlob.                            *)

\* An error or a return with an error is not a success, and the retry loop only
\* raises user verification.
LEMMA NoSuccess ==
  ASSUME \/ \E code : Catch(code)
         \/ \E res \in Results \ {"ok"} : Leave(res) /\ UNCHANGED uvReq
         \/ \E step : Goto(step) /\ UNCHANGED uvReq
  PROVE  /\ UNCHANGED result \/ result' # "ok"
         /\ uvReq' \in {uvReq, "required"}
         /\ UNCHANGED stray
<1>1. \A code : ClientError(code) # "ok"
  BY DEF ClientError
<1> QED BY <1>1 DEF Catch, Leave, Goto

UvNeeded == req.uv = "required" \/ (req.uv = "preferred" /\ UvSupported)

\* Once auth is handled the user is known, and the wish was never lowered.
UvInStep ==
    /\ uvReq \in {req.uv, "required"}
    /\ pc \in {"filter", "send", "user"} /\ req.op # "select" /\ UvNeeded => UserKnown
    /\ UvHonoured

LEMMA UvCarried ==
  ASSUME UvInStep, UNCHANGED <<info, req, verified>>,
         uvReq' \in {uvReq, "required"}, UNCHANGED result \/ result' # "ok",
         \/ pc' \notin {"filter", "send", "user"}
         \/ pc' # "idle" /\ UserKnown'
         \/ pc \in {"filter", "send", "user"} /\ UNCHANGED <<pinToken, internalUv>>
  PROVE  UvInStep'
BY DEF UvInStep, UvHonoured, UvNeeded, UvSupported, UserKnown

LEMMA UvInStepNext ==
  ASSUME TypeOK, UvInStep, Next
  PROVE  UvInStep'
<1> USE DEF callVars, attemptVars, userVars
<1>0. tok \in Nat /\ "ok" \notin {"raised", "CONFIGURATION_UNSUPPORTED", "BAD_REQUEST"}
      /\ {"raised", "CONFIGURATION_UNSUPPORTED", "BAD_REQUEST"} \subseteq Results
  BY DEF TypeOK, AuthenticatorType, Results
<1>1. CASE \E r \in Requests : Begin(r)
  BY <1>1 DEF Begin, UvInStep, UvHonoured
<1>2. CASE CheckRp
  <2>1. /\ UNCHANGED <<info, req, verified, uvReq>>
        /\ UNCHANGED result \/ result' # "ok"
    BY <1>2 DEF CheckRp, Goto
  <2> QED BY <1>2, <2>1, Successors, UvCarried
<1>3. CASE StartExtensions \/ AskPin \/ Reconnect
  <2>1. /\ UNCHANGED <<info, req, verified, uvReq>>
        /\ UNCHANGED result \/ result' # "ok"
    BY <1>0, <1>3 DEF StartExtensions, AskPin, Reconnect, Goto, Leave
  <2>2. pc' \notin {"filter", "send", "user"}
    BY <1>3, Successors DEF FirstStep
  <2> QED BY <2>1, <2>2, UvCarried
<1>4. CASE GetAuthParams \/ AskUv
  <2>1. UNCHANGED <<info, req, verified, uvReq>>
    BY <1>4, AuthStep
  <2>2. CASE AuthOutcome
    <3>1. UNCHANGED result \/ result' # "ok"
      BY <2>2 DEF AuthOutcome, PinOrGiveUp, Goto, Leave
    <3> QED BY <2>1, <2>2, <3>1, AuthOutcomeType, UvCarried
  <2>3. CASE GetAuthParams /\ ~ShouldUseUv /\ Authenticated(0, FALSE)
    <3>1. ~UvNeeded
      BY <2>3 DEF ShouldUseUv, WantsUv, UvInStep, UvNeeded
    <3>2. UNCHANGED result /\ UvNeeded' = UvNeeded
      BY <2>1, <2>3 DEF Authenticated, Goto, UvNeeded, UvSupported
    <3> QED BY <2>1, <3>1, <3>2 DEF UvInStep, UvHonoured, UvNeeded
  <2>4. CASE Authenticated(0, TRUE)
    <3>1. UNCHANGED result /\ pc' = "filter" /\ UserKnown'
      BY <2>4 DEF Authenticated, Goto, UserKnown
    <3> QED BY <2>1, <3>1, UvCarried
  <2>5. AuthOutcome \/ (GetAuthParams /\ ~ShouldUseUv /\ Authenticated(0, FALSE))
        \/ Authenticated(0, TRUE)
    BY <1>4, Zenon DEF GetAuthParams, AskUv, AuthOutcome
  <2> QED BY <2>2, <2>3, <2>4, <2>5
<1>5. CASE GetUvToken \/ RightPin
  <2>1. UNCHANGED <<info, req, verified>>
    BY <1>5 DEF GetUvToken, RightPin
  <2>2. CASE NewToken /\ UNCHANGED uvReq
    <3>1. UNCHANGED result /\ pc' = "filter" /\ UserKnown'
      BY <1>0, <2>2 DEF NewToken, Authenticated, Goto, UserKnown
    <3> QED BY <2>1, <2>2, <3>1, UvCarried
  <2>3. CASE \E code : Catch(code)
    <3>1. pc' \notin {"filter", "send", "user"}
      BY <2>3, CatchType DEF TypeOK
    <3> QED BY <2>1, <2>3, <3>1, NoSuccess, UvCarried
  <2>4. (NewToken /\ UNCHANGED uvReq) \/ \E code : Catch(code)
    BY <1>5 DEF GetUvToken, RightPin
  <2> QED BY <2>2, <2>3, <2>4
<1>6. CASE WrongPin \/ Unwinds
  <2>1. UNCHANGED <<info, req, verified>>
    BY <1>6 DEF WrongPin, Unwinds, PinRefused, PreflightFails, UserFails, Cancel,
                DeviceFails
  <2>2. (\E code : Catch(code)) \/ (Leave("raised") /\ UNCHANGED uvReq)
    BY <1>6, Zenon DEF WrongPin, Unwinds, PinRefused, PreflightFails, UserFails,
                Cancel, DeviceFails
  <2>3. pc' \notin {"filter", "send", "user"}
    BY <1>6, Successors DEF Unwinds, Unwound
  <2> QED BY <1>0, <2>1, <2>2, <2>3, NoSuccess, UvCarried
<1>7. CASE NothingFound \/ Preflight
  <2>1. /\ UNCHANGED <<info, req, verified, uvReq, result, pinToken, internalUv>>
        /\ pc = "filter"
    BY <1>7 DEF NothingFound, Preflight, Goto
  <2> QED BY <2>1, UvCarried
<1>8. CASE Send
  <2>1. UNCHANGED <<info, req, verified, pinToken, internalUv>> /\ pc = "send"
    BY <1>8 DEF Send
  <2>2. \/ \E code : Catch(code)
        \/ Leave("CONFIGURATION_UNSUPPORTED") /\ UNCHANGED uvReq
        \/ Goto("user") /\ UNCHANGED uvReq
    BY <1>8, Zenon DEF Send
  <2> QED BY <1>0, <2>1, <2>2, NoSuccess, UvCarried
<1>9. CASE Touched
  <2>1. UNCHANGED <<info, req>> /\ pc = "user"
    BY <1>9 DEF Touched, TouchToSelect, Create, Sign, Touch
  <2>2. pc' \notin {"filter", "send", "user"}
    BY <1>9, Successors DEF Unwound
  <2>3. CASE (\E code : Catch(code)) /\ UNCHANGED verified
    BY <2>1, <2>2, <2>3, NoSuccess, UvCarried
  <2>4. CASE UNCHANGED uvReq /\ (req.op = "select" \/ verified' = UserKnown)
    BY <2>1, <2>2, <2>4 DEF UvInStep, UvHonoured, UvNeeded, UvSupported
  <2>5. \/ (\E code : Catch(code)) /\ UNCHANGED verified
        \/ UNCHANGED uvReq /\ (req.op = "select" \/ verified' = UserKnown)
    BY <1>9, Zenon DEF Touched, TouchToSelect, Create, Sign
  <2> QED BY <2>3, <2>4, <2>5
<1>10. CASE Around
  <2>1. UNCHANGED <<info, req, verified, uvReq, result, pc, pinToken, internalUv>>
    BY <1>10 DEF Around, SetEvent, TimerFires, ExpireToken, GetResponse, PowerCycle,
                 leaveVars
  <2> QED BY <2>1, UvCarried
<1> QED BY <1>1, <1>2, <1>3, <1>4, <1>5, <1>6, <1>7, <1>8, <1>9, <1>10, NextCases

(* A ceremony that needs the user verified succeeds only with the user     *)
(* verified, on every path through tokens, built-in UV and retries         *)
(* (_get_auth_params, _get_token, the retry loops).                        *)
THEOREM VerificationIsHonoured == Spec => []UvHonoured
<1>1. Init => UvInStep
  BY DEF Init, UvInStep, UvHonoured
<1>2. TypeOK /\ UvInStep /\ [Next]_vars => UvInStep'
  <2>1. UvInStep /\ UNCHANGED vars => UvInStep'
    BY DEF vars, callVars, attemptVars, userVars, leaveVars, UvInStep, UvHonoured,
           UvNeeded, UvSupported, UserKnown
  <2> QED BY <2>1, UvInStepNext
<1>3. UvInStep => UvHonoured
  BY DEF UvInStep
<1> QED BY <1>1, <1>2, <1>3, TypeCorrect, PTL DEF Spec

\* Only a call with an RP ID that does not fit leaves its timer running.
AbortInStep ==
    req \in Requests /\ (AllRpsFit => ~stray /\ (pc # "idle" /\ event => asked))

LEMMA AbortInStepNext ==
  ASSUME TypeOK, AbortInStep, Next
  PROVE  AbortInStep'
<1> USE DEF callVars, leaveVars, AbortInStep
<1>1. CASE \E r \in Requests : Begin(r)
  <2>1. req' \in Requests /\ event' = FALSE /\ (stray' = FALSE \/ UNCHANGED stray)
    BY <1>1, Zenon DEF Begin
  <2> QED BY <2>1
<1>2. CASE CheckRp
  <2>1. AllRpsFit => req.rp # "invalid"
    BY DEF AllRpsFit
  <2> QED BY <1>2, <2>1 DEF CheckRp, Goto
<1>3. ASSUME UNCHANGED <<req, event, asked>>, pc # "idle", UNCHANGED stray
      PROVE  AbortInStep'
  BY <1>3
<1>4. /\ \A code : Catch(code) => UNCHANGED stray
      /\ \A res : Leave(res) => UNCHANGED stray
      /\ \A step : Goto(step) => UNCHANGED stray
      /\ \A t, b : Authenticated(t, b) => UNCHANGED stray
  BY DEF Catch, Leave, Goto, Authenticated
<1>5. CASE StartExtensions \/ AskPin \/ Reconnect \/ NothingFound \/ Preflight \/ Send
  BY <1>3, <1>4, <1>5 DEF StartExtensions, AskPin, Reconnect, NothingFound, Preflight,
                          Send
<1>6. CASE GetAuthParams \/ AskUv
  BY <1>3, <1>4, <1>6 DEF GetAuthParams, AskUv, PinOrGiveUp
<1>7. CASE GetUvToken \/ RightPin \/ WrongPin
  BY <1>3, <1>4, <1>7 DEF GetUvToken, RightPin, WrongPin, NewToken
<1>8. CASE Unwinds
  BY <1>3, <1>4, <1>8 DEF Unwinds, PinRefused, PreflightFails, UserFails, Cancel,
                          DeviceFails, Exchanging
<1>9. CASE Touched
  BY <1>3, <1>4, <1>9 DEF Touched, TouchToSelect, Create, Sign, Touch
<1>10. CASE Around
  <2>1. UNCHANGED req
    BY <1>10 DEF Around, SetEvent, TimerFires, ExpireToken, GetResponse, PowerCycle
  <2>2. /\ UNCHANGED stray \/ stray' = FALSE
        /\ UNCHANGED <<pc, event, asked>> \/ asked' = TRUE
              \/ (stray /\ UNCHANGED <<pc, asked>>)
    BY <1>10, Zenon DEF Around, SetEvent, TimerFires, ExpireToken, GetResponse,
                        PowerCycle, abortVars
  <2>3. AllRpsFit' = AllRpsFit
    BY DEF AllRpsFit
  <2> QED BY <2>1, <2>2, <2>3
<1> QED BY <1>1, <1>2, <1>5, <1>6, <1>7, <1>8, <1>9, <1>10, NextCases

(* If every RP ID fits its origin, a ceremony is aborted only because its  *)
(* caller or its own timer asked for it, also when its event was used      *)
(* before (make_credential and get_assertion, the Timer and its cancel).   *)
THEOREM AbortsAreAsked == Spec => []AbortedOnRequest
<1>1. Init => AbortInStep
  BY DEF Init, AbortInStep
<1>2. TypeOK /\ AbortInStep /\ [Next]_vars => AbortInStep'
  <2>1. AbortInStep /\ UNCHANGED vars => AbortInStep'
    BY DEF vars, callVars, abortVars, leaveVars, AbortInStep
  <2> QED BY <2>1, AbortInStepNext
<1>3. AbortInStep => AbortedOnRequest
  BY DEF AbortInStep, AbortedOnRequest
<1> QED BY <1>1, <1>2, <1>3, TypeCorrect, PTL DEF Spec

\* An authenticator with large blobs that can verify the user has tokens with
\* permissions (largeBlobs and pinUvAuthToken are both of CTAP 2.1).
WritesUseTokens ==
    \A i \in Authenticators :
        "largeBlobs" \in i.on /\ i.on \cap UvOptions # {} => "pinUvAuthToken" \in i.on

Writing == req.op = "get" /\ "write" \in req.ext
MayWrite(t) == t # 0 /\ (~expired => t = tok /\ "lbw" \in tokPerms)

\* An assertion that is to be followed by a write fetches a token for it, and
\* the touch leaves that permission on it.
WriteInStep ==
    /\ info \in Authenticators
    /\ selection.at <= ceremonies
    /\ pc # "idle" => selection.at < ceremonies /\ written = "none"
    /\ Attempting /\ Writing => "largeBlobs" \in info.on
    /\ pc \in {"filter", "send", "user"} /\ Writing /\ UvConfigured => MayWrite(pinToken)
    /\ selection.write /\ selection.at = ceremonies /\ UvConfigured
           => MayWrite(selection.token)
    /\ BlobWriteAllowed

\* The steps of a running ceremony that neither fetch a token nor end it with
\* an assertion.
LEMMA WriteCarried ==
  ASSUME WriteInStep, pc # "idle", ceremonies \in Nat,
         selection \in [token : Nat, write : BOOLEAN, at : Nat],
         UNCHANGED <<info, req, ceremonies, written, selection, expired>>,
         \/ pc' \notin {"auth", "askUv", "uvToken", "askPin", "rightPin", "wrongPin",
                        "filter", "send", "user"}
         \/ Attempting \/ ~Writing,
         \/ pc' \notin {"filter", "send", "user"}
         \/ ~Writing \/ ~UvConfigured
         \/ UNCHANGED <<tok, tokPerms, pinToken>> /\ pc \in {"filter", "send", "user"}
         \/ pinToken' = tok' /\ pinToken' # 0 /\ "lbw" \in tokPerms'
  PROVE  WriteInStep'
BY DEF WriteInStep, BlobWriteAllowed, Writing, MayWrite, UvConfigured, Attempting

LEMMA WriteInStepNext ==
  ASSUME WritesUseTokens, TypeOK, WriteInStep, Next
  PROVE  WriteInStep'
<1> USE DEF callVars, attemptVars, authVars
<1>0. /\ ceremonies \in Nat /\ pinToken \in Nat /\ tok \in Nat
      /\ selection \in [token : Nat, write : BOOLEAN, at : Nat]
  BY ClientAssumption DEF TypeOK, HistoryType, CeremonyType, AuthenticatorType
<1>1. Attempting /\ Writing /\ UvConfigured =>
        /\ TokenSupported /\ ShouldUseUv
        /\ "lbw" \in Permissions
  BY DEF WriteInStep, WritesUseTokens, Writing, UvConfigured, TokenSupported,
         ShouldUseUv, AdditionalPermissions, Permissions
<1>2. CASE \E r \in Requests : Begin(r)
  <2>1. /\ UNCHANGED <<info, selection>> /\ ceremonies' = ceremonies + 1
        /\ written' = "none" /\ pc' \in {"rp", "user"}
        /\ pc' = "user" => req'.op = "select"
    BY <1>2 DEF Begin
  <2> QED BY <1>0, <2>1 DEF WriteInStep, BlobWriteAllowed, Writing, Attempting
<1>3. CASE CheckRp \/ AskPin \/ Reconnect \/ Send \/ WrongPin \/ Unwinds
  <2>1. /\ UNCHANGED <<info, req, ceremonies, written, selection, expired, pinToken>>
        /\ pc # "idle"
    BY <1>3 DEF CheckRp, AskPin, Reconnect, Send, WrongPin, Unwinds, PinRefused,
                PreflightFails, UserFails, Cancel, DeviceFails, Exchanging
  <2>2. \/ pc' \notin {"auth", "askUv", "uvToken", "askPin", "rightPin", "wrongPin",
                       "filter", "send", "user"}
        \/ Attempting \/ ~Writing
    <3>1. CASE CheckRp \/ Reconnect \/ Send
      BY <3>1, Successors DEF Writing, FirstStep, Attempting
    <3>2. CASE AskPin \/ WrongPin \/ PinRefused \/ PreflightFails \/ UserFails \/ Cancel
      BY <3>2 DEF AskPin, WrongPin, PinRefused, PreflightFails, UserFails, Cancel,
                  Attempting
    <3>3. CASE DeviceFails
      BY <3>3 DEF DeviceFails, Leave
    <3> QED BY <1>3, <3>1, <3>2, <3>3 DEF Unwinds
  <2>3. \/ pc' \notin {"filter", "send", "user"}
        \/ UNCHANGED <<tok, tokPerms, pinToken>> /\ pc = "send"
    <3>1. CASE Send
      BY <3>1, Successors DEF Send, Unwound
    <3>2. CASE CheckRp \/ AskPin \/ Reconnect \/ WrongPin \/ Unwinds
      BY <3>2, Successors DEF Unwinds, Unwound, FirstStep
    <3> QED BY <1>3, <3>1, <3>2
  <2> QED BY <1>0, <2>1, <2>2, <2>3, WriteCarried
<1>4. CASE StartExtensions
  <2>1. /\ UNCHANGED <<info, req, ceremonies, written, selection, expired, tok,
                       tokPerms, pinToken>>
        /\ pc = "ext" /\ pc' \in {"idle", "auth"}
    BY <1>4, Successors DEF StartExtensions
  <2>2. pc' = "auth" /\ Writing => "largeBlobs" \in info.on
    BY <1>4 DEF StartExtensions, Leave, Writing
  <2> QED BY <1>0, <2>1, <2>2 DEF WriteInStep, BlobWriteAllowed, Writing, Attempting,
                                  MayWrite, UvConfigured
<1>5. CASE GetAuthParams \/ AskUv
  <2>1. UNCHANGED <<info, req, ceremonies, written, selection, expired, tok, tokPerms>>
    BY <1>5, AuthStep
  <2>2. Attempting /\ pc # "idle"
    BY <1>5 DEF GetAuthParams, AskUv, Attempting
  <2>3. pc' \notin {"filter", "send", "user"} \/ ~Writing \/ ~UvConfigured
    <3>1. AuthOutcome => pc' \notin {"filter", "send", "user"}
      BY AuthOutcomeType
    <3>2. AuthOutcome \/ ~ShouldUseUv \/ ~TokenSupported
      BY <1>5, Zenon DEF GetAuthParams, AskUv, AuthOutcome
    <3> QED BY <1>1, <2>2, <3>1, <3>2
  <2> QED BY <1>0, <2>1, <2>2, <2>3, WriteCarried
<1>6. CASE GetUvToken \/ RightPin
  <2>1. UNCHANGED <<info, req, ceremonies, written, selection, expired>>
    BY <1>6 DEF GetUvToken, RightPin
  <2>2. Attempting /\ pc # "idle"
    BY <1>6 DEF GetUvToken, RightPin, Attempting
  <2>3. NewToken \/ pc' \notin {"filter", "send", "user"}
    BY <1>6, UvTokenCases DEF RightPin, Unwound
  <2>4. NewToken => \/ ~Writing \/ ~UvConfigured
                    \/ pinToken' = tok' /\ pinToken' # 0 /\ "lbw" \in tokPerms'
    BY <1>0, <1>1, <2>2 DEF NewToken, Authenticated
  <2> QED BY <1>0, <2>1, <2>2, <2>3, <2>4, WriteCarried
<1>7. CASE NothingFound \/ Preflight
  <2>1. /\ UNCHANGED <<info, req, ceremonies, written, selection, expired, tok,
                       tokPerms, pinToken>>
        /\ pc = "filter" /\ Attempting /\ pc # "idle"
    BY <1>7 DEF NothingFound, Preflight, Attempting
  <2> QED BY <1>0, <2>1, WriteCarried
<1>8. CASE Touched
  <2>1. /\ UNCHANGED <<info, req, ceremonies, written, expired, tok, pinToken>>
        /\ pc = "user" /\ Attempting
        /\ tokPerms' \in {tokPerms, tokPerms \cap {"lbw"}}
    BY <1>8 DEF Touched, TouchToSelect, Create, Sign, Touch, Attempting
  <2>2. pc' \in Unwound
    BY <1>8, Successors
  <2>3. CASE UNCHANGED selection
    BY <1>0, <2>1, <2>2, <2>3, WriteCarried DEF Unwound, FirstStep
  <2>4. CASE /\ req.op = "get" /\ pc' = "idle"
             /\ selection' = [token |-> pinToken, at |-> ceremonies,
                              write |-> "write" \in req.ext]
    <3>1. Writing /\ UvConfigured => MayWrite(pinToken)
      BY <2>1 DEF WriteInStep
    <3>2. /\ selection'.at = ceremonies /\ selection'.token = pinToken
          /\ selection'.write => Writing
      BY <2>4 DEF Writing
    <3>3. MayWrite(pinToken) => MayWrite(pinToken)'
      BY <2>1 DEF MayWrite
    <3>4. written = "none" /\ info \in Authenticators
      BY <2>1 DEF WriteInStep
    <3> QED BY <1>0, <2>1, <2>4, <3>1, <3>2, <3>3, <3>4
            DEF WriteInStep, BlobWriteAllowed, MayWrite, UvConfigured, Attempting
  <2>5. \/ UNCHANGED selection
        \/ /\ req.op = "get" /\ pc' = "idle"
           /\ selection' = [token |-> pinToken, at |-> ceremonies,
                            write |-> "write" \in req.ext]
    BY <1>8, Zenon DEF Touched, TouchToSelect, Create, Sign, Leave
  <2> QED BY <2>3, <2>4, <2>5
<1>9. CASE Around
  <2>1. UNCHANGED <<info, req, ceremonies, selection, pc, tok, pinToken>>
    BY <1>9 DEF Around, SetEvent, TimerFires, ExpireToken, GetResponse, PowerCycle,
                leaveVars
  <2>2. \/ UNCHANGED <<expired, tokPerms>> \/ expired' = TRUE
    BY <1>9 DEF Around, SetEvent, TimerFires, ExpireToken, GetResponse, PowerCycle,
                abortVars
  <2>3. CASE UNCHANGED written
    BY <2>1, <2>2, <2>3 DEF WriteInStep, BlobWriteAllowed, Writing, MayWrite,
                            UvConfigured, Attempting
  <2>4. CASE GetResponse
    <3>1. UNCHANGED <<expired, tokPerms>> /\ pc = "idle" /\ selection.write
      BY <2>4 DEF GetResponse, abortVars
    <3>2. \/ written' # "denied"
          \/ UvConfigured /\ (selection.token = tok /\ "lbw" \in tokPerms => selection.token = 0)
      BY <2>4 DEF GetResponse
    <3> QED BY <2>1, <3>1, <3>2 DEF WriteInStep, BlobWriteAllowed, Writing, MayWrite,
                                    UvConfigured, Attempting
  <2> QED BY <1>9, <2>3, <2>4 DEF Around, SetEvent, TimerFires, ExpireToken, PowerCycle
<1> QED BY <1>2, <1>3, <1>4, <1>5, <1>6, <1>7, <1>8, <1>9, NextCases

(* The largeBlob of an assertion is never denied for want of a permission, *)
(* unless the token expired or another ceremony was begun, on every        *)
(* authenticator whose large blobs come with tokens that have permissions  *)
(* (get_response; _get_auth_params asks for lbw with the assertion).       *)
THEOREM BlobWritesAreAllowed == WritesUseTokens => (Spec => []BlobWriteAllowed)
<1> SUFFICES ASSUME WritesUseTokens PROVE Spec => []BlobWriteAllowed
  OBVIOUS
<1>1. Init => WriteInStep
  BY ClientAssumption
     DEF Init, WriteInStep, BlobWriteAllowed, NoSelection, Attempting
<1>2. TypeOK /\ WriteInStep /\ [Next]_vars => WriteInStep'
  <2>1. WriteInStep /\ UNCHANGED vars => WriteInStep'
    BY DEF vars, authVars, attemptVars, userVars, abortVars, leaveVars, callVars,
           WriteInStep, BlobWriteAllowed, Writing, MayWrite, UvConfigured, Attempting
  <2> QED BY <2>1, WriteInStepNext
<1>3. WriteInStep => BlobWriteAllowed
  BY DEF WriteInStep
<1> QED BY <1>1, <1>2, <1>3, TypeCorrect, PTL DEF Spec

-----------------------------------------------------------------------------
(* Fido2Client implements Ceremony.                                        *)

Outcome == IF result \in {"none", "ok"} THEN result
           ELSE IF result = "DEVICE_INELIGIBLE" THEN "ineligible" ELSE "error"

\* A step that goes on in a running ceremony, or fails it.
GoesOnOrFails ==
    /\ pc # "idle" /\ UNCHANGED <<creds, consented>>
    /\ \/ pc' # "idle" /\ UNCHANGED result
       \/ pc' = "idle" /\ Outcome' = "error"

\* The errors an authenticator answers before the user touches it.
EarlyErrors ==
    {"PUAT_REQUIRED", "PIN_INVALID", "PIN_BLOCKED", "PIN_AUTH_INVALID",
     "PIN_AUTH_BLOCKED", "MISSING_PARAMETER", "KEEPALIVE_CANCEL",
     "USER_ACTION_TIMEOUT", "OPERATION_DENIED", "UV_INVALID"}

LEMMA LeaveFails ==
  ASSUME NEW res \in {"raised", "CONFIGURATION_UNSUPPORTED", "BAD_REQUEST",
                      "TIMEOUT", "OTHER_ERROR"},
         Leave(res)
  PROVE  pc' = "idle" /\ Outcome' = "error"
  BY DEF Leave, Outcome

LEMMA CatchFails ==
  ASSUME NEW code \in EarlyErrors, Catch(code)
  PROVE  \/ pc' # "idle" /\ UNCHANGED result
         \/ pc' = "idle" /\ Outcome' = "error"
<1>1. ClientError(code) \in {"TIMEOUT", "BAD_REQUEST", "OTHER_ERROR"}
  BY DEF ClientError, EarlyErrors
<1>2. CASE Leave(ClientError(code))
  BY <1>1, <1>2, LeaveFails
<1>3. CASE Goto(FirstStep) \/ Goto("reconnect")
  BY <1>3 DEF Goto, FirstStep
<1> QED BY <1>2, <1>3 DEF Catch

LEMMA GotoGoesOn ==
  ASSUME NEW step \in Steps \ {"idle"}, Goto(step)
  PROVE  pc' # "idle" /\ UNCHANGED result
  BY DEF Goto

LEMMA AuthGoesOn ==
  ASSUME TypeOK, GetAuthParams \/ AskUv \/ GetUvToken \/ RightPin
  PROVE  GoesOnOrFails
<1>1. pc # "idle" /\ UNCHANGED <<creds, consented>>
  BY DEF GetAuthParams, AskUv, GetUvToken, RightPin, authVars, userVars
<1>2. ASSUME \E t, b : Authenticated(t, b)
      PROVE  pc' # "idle" /\ UNCHANGED result
  BY <1>2 DEF Authenticated, Goto
<1>3. ASSUME AuthOutcome
      PROVE  \/ pc' # "idle" /\ UNCHANGED result
             \/ pc' = "idle" /\ Outcome' = "error"
  BY <1>3, LeaveFails, GotoGoesOn DEF AuthOutcome, PinOrGiveUp, Goto
<1>4. CASE GetAuthParams \/ AskUv
  BY <1>1, <1>2, <1>3, <1>4, AuthStep DEF GoesOnOrFails
<1>5. CASE GetUvToken
  <2>1. NewToken \/ \E code \in EarlyErrors : Catch(code)
    BY <1>5 DEF GetUvToken, EarlyErrors
  <2> QED BY <1>1, <1>2, <2>1, CatchFails DEF GoesOnOrFails, NewToken
<1>6. CASE RightPin
  BY <1>1, <1>2, <1>6 DEF GoesOnOrFails, RightPin, NewToken
<1> QED BY <1>4, <1>5, <1>6

LEMMA ExchangeGoesOn ==
  ASSUME \/ CheckRp \/ StartExtensions \/ AskPin \/ PinRefused \/ WrongPin
         \/ NothingFound \/ Preflight \/ PreflightFails \/ Send \/ Reconnect
         \/ UserFails \/ Cancel \/ DeviceFails
  PROVE  GoesOnOrFails
<1>1. pc # "idle" /\ UNCHANGED <<creds, consented>>
  BY DEF CheckRp, StartExtensions, AskPin, PinRefused, WrongPin, NothingFound,
         Preflight, PreflightFails, Send, Reconnect, UserFails, Cancel,
         DeviceFails, Exchanging, authVars, userVars
<1>2. SUFFICES \/ pc' # "idle" /\ UNCHANGED result
               \/ pc' = "idle" /\ Outcome' = "error"
  BY <1>1 DEF GoesOnOrFails
<1>3. CASE CheckRp
  BY <1>3 DEF CheckRp, Goto, Outcome
<1>4. CASE StartExtensions \/ AskPin \/ Reconnect \/ DeviceFails
  BY <1>4, LeaveFails DEF StartExtensions, AskPin, Reconnect, DeviceFails, Goto,
                          FirstStep
<1>5. CASE PinRefused \/ WrongPin \/ PreflightFails \/ UserFails \/ Cancel
  <2>1. \E code \in EarlyErrors : Catch(code)
    BY <1>5 DEF PinRefused, WrongPin, PreflightFails, UserFails, Cancel, EarlyErrors
  <2> QED BY <2>1, CatchFails
<1>6. CASE NothingFound \/ Preflight
  BY <1>6 DEF NothingFound, Preflight, Goto
<1>7. CASE Send
  <2>1. \/ Leave("CONFIGURATION_UNSUPPORTED") \/ Goto("user")
        \/ \E code \in EarlyErrors : Catch(code)
    BY <1>7 DEF Send, EarlyErrors
  <2> QED BY <2>1, LeaveFails, CatchFails DEF Goto
<1> QED BY <1>3, <1>4, <1>5, <1>6, <1>7

\* A touch delivers, declines or fails.
LEMMA TouchEnds ==
  ASSUME Touched
  PROVE  /\ pc = "user" /\ pc' = "idle" /\ consented' = TRUE
         /\ \/ /\ Outcome' = "ok" /\ creds \subseteq creds'
               /\ \A c, d \in creds' \ creds : c = d
            \/ Outcome' \in {"ineligible", "error"} /\ UNCHANGED creds
<1>1. pc = "user" /\ consented' = TRUE
  BY DEF Touched, TouchToSelect, Create, Sign, Touch
<1>2. ASSUME NEW code \in {"CREDENTIAL_EXCLUDED", "KEY_STORE_FULL", "NO_CREDENTIALS"},
             Catch(code)
      PROVE  pc' = "idle" /\ Outcome' \in {"ineligible", "error"}
  BY <1>2 DEF Catch, Leave, ClientError, Outcome
<1>3. Leave("ok") => pc' = "idle" /\ Outcome' = "ok"
  BY DEF Leave, Outcome
<1>4. CASE TouchToSelect
  BY <1>1, <1>3, <1>4 DEF TouchToSelect
<1>5. CASE Create
  BY <1>1, <1>2, <1>3, <1>5 DEF Create
<1>6. CASE Sign
  BY <1>1, <1>2, <1>3, <1>6 DEF Sign
<1> QED BY <1>4, <1>5, <1>6 DEF Touched

(* The client keeps the promises of a ceremony: consent for every success  *)
(* and every "ineligible", at most one new credential, and none on failure *)
(* (make_credential, get_assertion and selection of Fido2Client).          *)
THEOREM ImplementsCeremony == Spec => CeremonyContract
<1> USE DEF Abstract!vars
<1>1. Init => Abstract!Init
  BY DEF Init, Abstract!Init
<1>2. TypeOK /\ [Next]_vars => [Abstract!Next]_(Abstract!vars)
  <2> SUFFICES ASSUME TypeOK, [Next]_vars
               PROVE  Abstract!Next \/ UNCHANGED Abstract!vars
    OBVIOUS
  <2>0. consented \in BOOLEAN
    BY DEF TypeOK, FlagType
  <2>1. CASE \E r \in Requests : Begin(r)
    <3>1. /\ pc = "idle" /\ pc' # "idle" /\ consented' = FALSE
          /\ result' = "none" /\ UNCHANGED creds
      BY <2>1 DEF Begin, authVars
    <3>2. Abstract!Begin
      BY <3>1 DEF Abstract!Begin
    <3> QED BY <3>2 DEF Abstract!Next
  <2>2. ASSUME GoesOnOrFails
        PROVE  Abstract!Next \/ UNCHANGED Abstract!vars
    <3>1. CASE pc' # "idle" /\ UNCHANGED result
      BY <2>2, <3>1 DEF GoesOnOrFails
    <3>2. CASE pc' = "idle" /\ Outcome' = "error"
      <4>1. Abstract!Fail
        BY <2>2, <3>2 DEF GoesOnOrFails, Abstract!Fail, Abstract!Finish, Outcome
      <4> QED BY <4>1 DEF Abstract!Next
    <3> QED BY <2>2, <3>1, <3>2 DEF GoesOnOrFails
  <2>3. CASE Touched
    <3>1. CASE /\ Outcome' = "ok" /\ creds \subseteq creds'
               /\ \A c, d \in creds' \ creds : c = d
      <4>1. Abstract!Deliver
        BY <2>3, <3>1, TouchEnds DEF Abstract!Deliver, Abstract!Finish, Outcome
      <4> QED BY <4>1 DEF Abstract!Next
    <3>2. CASE Outcome' = "ineligible" /\ UNCHANGED creds
      <4>1. Abstract!Decline
        BY <2>3, <3>2, TouchEnds DEF Abstract!Decline, Abstract!Finish, Outcome
      <4> QED BY <4>1 DEF Abstract!Next
    <3>3. CASE Outcome' = "error" /\ UNCHANGED creds
      <4>1. Abstract!Fail
        BY <2>3, <3>3, TouchEnds DEF Abstract!Fail, Abstract!Finish, Outcome
      <4> QED BY <4>1 DEF Abstract!Next
    <3> QED BY <2>3, <3>1, <3>2, <3>3, TouchEnds
  <2>4. CASE Around \/ UNCHANGED vars
    <3>1. UNCHANGED <<pc, consented, creds, result>>
      BY <2>4 DEF Around, SetEvent, TimerFires, ExpireToken, GetResponse,
                  PowerCycle, vars, authVars, userVars, leaveVars
    <3> QED BY <3>1
  <2> QED BY <2>1, <2>2, <2>3, <2>4, NextCases, AuthGoesOn, ExchangeGoesOn DEF Unwinds
<1> QED BY <1>1, <1>2, TypeCorrect, PTL
        DEF Spec, CeremonyContract, Abstract!CeremonySpec
=============================================================================
