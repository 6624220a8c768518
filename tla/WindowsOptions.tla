--------------------------- MODULE WindowsOptions ---------------------------
(***************************************************************************)
(* How WindowsClient (fido2/client/windows.py) puts the options of a call  *)
(* into the structures of the native API (fido2/client/win_api.py), whose  *)
(* fields depend on the version of the API, and reads the answer.  A call  *)
(* that raises before the native call is Invalid.  The platform behind the *)
(* API is external: it grants what the structure asks for.                 *)
(***************************************************************************)
EXTENDS Extensions, Integers, FiniteSetsExt

\* WEBAUTHN_STRUCT_VERSIONS, by structure and version of the API; 0: no entry
StructVersions ==
  [make        |-> <<3, 0, 4, 5, 0, 6, 7>>, get       |-> <<4, 0, 5, 6, 0, 0, 7>>,
   attestation |-> <<3, 0, 4, 0, 0, 5, 6>>, assertion |-> <<1, 0, 2, 3, 0, 4, 5>>]

ListedUpTo(struct, api) == {v \in 1..7 : v <= api /\ StructVersions[struct][v] # 0}

GetVersion(struct, api) == StructVersions[struct][Max(ListedUpTo(struct, api))]

\* a _StringEnum takes an unknown value for a missing one, _FromString raises
Known(value, names, default) == IF value \in names THEN value ELSE default
FromString(value, names) == IF value \in names THEN value ELSE Invalid

Levels == {"required", "preferred", "discouraged"}
Attachments == {"platform", "cross-platform"}
Preferences == {"none", "indirect", "direct"}
CredProtectNames == {"any", "optional", "optional-with-credential-id-list", "required"}
BlobSupports == {"none", "required", "preferred"}
ASSUME WindowsAssumption == None \notin BlobSupports

Since(version, first, value, default) == IF version >= first THEN value ELSE default

-----------------------------------------------------------------------------
(* make_credential *)

\* the policy goes through the native names, which are not those of WebAuthn
WinCredProtect(o) ==
  IF o.policy = None THEN {} ELSE {<<"credProtect", FromString(o.policy, CredProtectNames), o.enforce>>}

\* minPinLength is asked for unless the caller says no
WinExtensions(o) ==
  IF ~o.extensions THEN {}
  ELSE WinCredProtect(o)
       \cup (IF o.credBlob = None THEN {} ELSE {<<"credBlob", o.credBlob>>})
       \cup (IF o.minPin \in {None, TRUE} THEN {<<"minPinLength">>} ELSE {})
       \cup (IF o.prf \/ (o.hmacCreate /\ o.allowHmac) THEN {<<"hmac-secret">>} ELSE {})

WinAttestation(o) ==
  IF o.attestation = "enterprise" THEN "any" ELSE Known(o.attestation, Preferences, "none")

WinEnterprise(o) ==
  IF o.attestation # "enterprise" THEN "none"
  ELSE IF o.rpids = None THEN "vendor" ELSE IF o.rpid \in o.rpids THEN "platform" ELSE "none"

WinBlobSupport(o) ==
  IF ~o.extensions \/ o.blob = None THEN "none"
  ELSE IF o.blob.support = None THEN "none" ELSE FromString(o.blob.support, BlobSupports)

\* the structure reads rp["id"]: the default RP ID is not put into rp
MakeNative(o, api) ==
  LET v == GetVersion("make", api) IN
  IF o.rpid = None \/ WinBlobSupport(o) = Invalid
     \/ (o.extensions /\ o.policy # None /\ o.policy \notin CredProtectNames)
  THEN Invalid
  ELSE [uv          |-> Known(o.uv, Levels, "discouraged"),
        attachment  |-> Known(o.attachment, Attachments, "any"),
        attestation |-> WinAttestation(o),
        requireRk   |-> ResidentKey(o) = "required",
        exclude     |-> o.exclude,
        ext         |-> WinExtensions(o),
        cancellable |-> v >= 2 /\ o.event,
        enterprise  |-> Since(v, 4, WinEnterprise(o), "none"),
        blob        |-> Since(v, 4, WinBlobSupport(o), "none"),
        preferRk    |-> Since(v, 4, ResidentKey(o) = "preferred", FALSE),
        prf         |-> Since(v, 6, o.extensions /\ o.prf, FALSE)]

\* the client outputs, from the native attestation and its authenticator data
MakeOutputs(o, made) ==
  IF ~o.extensions THEN {}
  ELSE (IF o.credProps THEN {<<"credProps", made.rk>>} ELSE {})
       \cup (IF made.hmac = None THEN {}
             ELSE IF o.prf THEN {<<"prf", made.hmac>>} ELSE {<<"hmacCreateSecret", made.hmac>>})
       \cup (IF o.blob = None THEN {} ELSE {<<"largeBlob", made.blob>>})

-----------------------------------------------------------------------------
(* get_assertion *)

Decisive == {"security-key", "client-device"}
\* the first hint that says where the authenticator is
HintedAttachment(hints) ==
  LET decisive == {i \in DOMAIN hints : hints[i] \in Decisive} IN
  IF decisive = {} THEN "any"
  ELSE IF hints[Min(decisive)] = "security-key" THEN "cross-platform" ELSE "platform"

\* anything in largeBlob but a read is a write, of nothing if there is none
BlobOperation(o) ==
  IF o.blob = None THEN <<"none", None>>
  ELSE IF o.blob.read THEN <<"get", None>> ELSE <<"set", o.blob.write>>

HmacSalts(o) ==
  IF o.prf # None THEN o.prf
  ELSE IF o.hmacGet # None /\ o.allowHmac THEN [eval |-> o.hmacGet, byCred |-> Nothing] ELSE None

GetNative(o, api) ==
  LET v == GetVersion("get", api) IN
  [uv          |-> Known(o.uv, Levels, "discouraged"),
   attachment  |-> HintedAttachment(o.hints),
   allow       |-> o.allow,
   rpid        |-> o.rpid,
   getCredBlob |-> o.extensions /\ o.getCredBlob,
   cancellable |-> v >= 3 /\ o.event,
   appid       |-> v >= 2 /\ o.extensions /\ o.appid,
   raw         |-> o.extensions /\ o.prf = None /\ HmacSalts(o) # None,
   blob        |-> Since(v, 5, IF o.extensions THEN BlobOperation(o) ELSE <<"none", None>>, <<"none", None>>),
   salts       |-> Since(v, 6, IF o.extensions THEN HmacSalts(o) ELSE None, None)]

\* the secret is looked for whenever salts were meant to be sent: a missing
\* one is the ValueError of a null pointer
AssertionOutputs(o, api, got) ==
  LET version == GetVersion("assertion", api)
      salted  == o.extensions /\ HmacSalts(o) # None /\ version >= 3
  IN IF salted /\ got.secrets = None THEN Invalid
     ELSE (IF salted THEN {<<IF o.prf # None THEN "prf" ELSE "hmacGetSecret", got.secrets>>} ELSE {})
          \cup (IF o.extensions /\ o.appid /\ version >= 2 THEN {<<"appid", got.appid>>} ELSE {})
          \cup (IF got.blob = None THEN {} ELSE {<<"largeBlob", got.blob>>})

-----------------------------------------------------------------------------
(* External: the platform does what it is asked, with an authenticator that *)
(* has hmac-secret and large blobs or, in the second case, neither.          *)

Makes(native, capable) ==
  [rk   |-> native.requireRk \/ native.preferRk,
   hmac |-> IF <<"hmac-secret">> \in native.ext /\ capable THEN TRUE ELSE None,
   blob |-> native.blob # "none" /\ capable]

Salted(native, secret) == IF secret = None THEN None ELSE IF native.raw THEN secret ELSE PrfSalt(secret)

Gets(native, cred, capable) ==
  [secrets |-> IF native.salts = None \/ ~capable THEN None
               ELSE LET s == IF cred \in DOMAIN native.salts.byCred
                             THEN native.salts.byCred[cred] ELSE native.salts.eval
                    IN IF s = None THEN None
                       ELSE <<Secret(cred, Salted(native, s[1])), Secret(cred, Salted(native, s[2]))>>,
   appid   |-> native.appid,
   blob    |-> IF native.blob[1] = "none" \/ ~capable THEN None ELSE native.blob]

-----------------------------------------------------------------------------
\* what a registration demands reaches the platform in every version of the
\* API that has a field for it, and what it reports is asked for and so
NativeMakesAsAsked(o, api, capable) ==
  LET native == MakeNative(o, api) IN
  native # Invalid =>
    LET out == MakeOutputs(o, Makes(native, capable)) IN
    /\ o.uv = "required" => native.uv = "required"
    /\ o.attachment \in Attachments => native.attachment = o.attachment
    /\ RequireResidentKey(o) => native.requireRk
    /\ native.exclude = o.exclude
    /\ o.event => native.cancellable
    /\ api >= 3 => /\ native.blob = "required" <=> (o.extensions /\ o.blob # None /\ o.blob.support = "required")
                   /\ native.preferRk <=> ResidentKey(o) = "preferred"
                   /\ o.attestation = "enterprise" /\ o.rpids = None => native.enterprise = "vendor"
    /\ api >= 6 /\ o.extensions /\ o.prf => native.prf
    /\ \A e \in out : e[1] \in {"prf", "hmacCreateSecret"} => o.prf \/ (o.hmacCreate /\ o.allowHmac)

\* an assertion's outputs are those of the inputs meant for the credential,
\* and the platform writes a blob only for a caller that gave one
NativeGetsAsAsked(o, api, cred) ==
  LET native == GetNative(o, api)
      out    == AssertionOutputs(o, api, Gets(native, cred, TRUE))
      meant  == IF cred \in DOMAIN o.prf.byCred THEN o.prf.byCred[cred] ELSE o.prf.eval
  IN /\ o.uv = "required" => native.uv = "required"
     /\ native.allow = o.allow
     /\ o.event => native.cancellable
     /\ out # Invalid =>
          /\ \A e \in out : e[1] = "prf" =>
               e[2] = <<Secret(cred, PrfSalt(meant[1])),
                        IF meant[2] = None THEN None ELSE Secret(cred, PrfSalt(meant[2]))>>
          /\ \A e \in out : e[1] = "largeBlob" =>
               /\ o.blob.read => e[2][1] = "get"
               /\ ~o.blob.read /\ o.blob.write # None => e[2] = <<"set", o.blob.write>>
          /\ api >= 4 /\ o.extensions /\ o.prf # None => \E e \in out : e[1] = "prf"
=============================================================================
