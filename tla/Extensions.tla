----------------------------- MODULE Extensions -----------------------------
(***************************************************************************)
(* The extension processors of fido2/ctap2/extensions.py and the loops of  *)
(* fido2/client/__init__.py that run them: what the client asks for, what  *)
(* is sent to the authenticator, and what comes back as client output.     *)
(* None is Python's None and an absent key; Invalid is the ValueError of a *)
(* processor.  The authenticator at the end of the module is external: it  *)
(* answers the extensions it supports and ignores the others.              *)
(***************************************************************************)
EXTENDS Naturals, FiniteSets

CONSTANTS Creds,     \* credential ids
          Secrets,   \* 32-byte salts and prf inputs a caller may give
          Short,     \* a salt of another length
          None, Invalid

\* None is neither bytes nor an id
ASSUME ExtensionsAssumption == None \notin Creds \cup Secrets

Nothing == <<>>          \* an empty dict of inputs or of outputs
Dict(key, value) == [k \in {key} |-> value]
Empty(d) == d = Nothing

PrfSalt(secret) == <<"prf", secret>>

-----------------------------------------------------------------------------
(* hmac-secret and prf *)

HmacAsked(o) == o.prf # None \/ (o.allowHmac /\ o.hmacCreate)

HmacCreateInput(o, info) ==
  IF "hmac-secret" \in info /\ HmacAsked(o) THEN Dict("hmac-secret", TRUE) ELSE Nothing

HmacCreateOutput(o, info, response) ==
  IF ~("hmac-secret" \in info /\ HmacAsked(o)) THEN Nothing
  ELSE LET enabled == "hmac-secret" \in DOMAIN response.ext /\ response.ext["hmac-secret"]
       IN Dict(IF o.prf # None THEN "prf" ELSE "hmacCreateSecret", enabled)

\* prf, an empty object counting as none, is taken before hmac-secret
HmacGets(o, info, pinProtocol) ==
  /\ pinProtocol
  /\ "hmac-secret" \in info
  /\ o.prf # None \/ (o.allowHmac /\ o.hmacGet # None)

SecretsByDefault(o, selected) == o.prf.eval

\* the inputs given for the selected credential, or those given for any
SecretsFor(o, selected) ==
  IF selected # None /\ selected \in DOMAIN o.prf.byCred THEN o.prf.byCred[selected] ELSE o.prf.eval

PrfKeysAllowed(o) == DOMAIN o.prf.byCred # {} => o.allow # {} /\ DOMAIN o.prf.byCred \subseteq o.allow

Salts(o, selected) ==
  IF o.prf = None THEN o.hmacGet
  ELSE LET s == SecretsFor(o, selected) IN
       <<PrfSalt(s[1]), IF s[2] = None THEN None ELSE PrfSalt(s[2])>>

HmacGetInput(o, info, pinProtocol, selected) ==
  IF ~HmacGets(o, info, pinProtocol) THEN Nothing
  ELSE IF o.prf # None /\ ~PrfKeysAllowed(o) THEN Invalid
  ELSE IF o.prf # None /\ SecretsFor(o, selected) = None THEN Nothing
  ELSE IF Short \in {Salts(o, selected)[1], Salts(o, selected)[2]} THEN Invalid
  ELSE Dict("hmac-secret", Salts(o, selected))

\* the decrypted answer is cut after the first output
HmacGetOutput(o, info, pinProtocol, response) ==
  IF ~HmacGets(o, info, pinProtocol) \/ "hmac-secret" \notin DOMAIN response.ext THEN Nothing
  ELSE Dict(IF o.prf # None THEN "prf" ELSE "hmacGetSecret", response.ext["hmac-secret"])

-----------------------------------------------------------------------------
(* largeBlob: an empty object is taken for no request *)

LargeBlobs(info) == {"largeBlobKey", "largeBlobs"} \subseteq info
BlobAsked(o) == o.blob # None

BlobCreateInput(o, info) ==
  IF ~BlobAsked(o) THEN Nothing
  ELSE IF o.blob.read \/ o.blob.write # None \/ (o.blob.support = "required" /\ ~LargeBlobs(info))
       THEN Invalid
  ELSE Dict("largeBlobKey", TRUE)

BlobCreateOutput(o, response) ==
  IF BlobAsked(o) THEN Dict("largeBlob", response.blobKey) ELSE Nothing

BlobGetInput(o, info) ==
  IF ~BlobAsked(o) THEN Nothing
  ELSE IF o.blob.support # None \/ (o.blob.read /\ o.blob.write # None) \/ ~LargeBlobs(info)
       THEN Invalid
  ELSE Dict("largeBlobKey", TRUE)

BlobPermission(o) == IF BlobAsked(o) /\ o.blob.write # None THEN {"LARGE_BLOB_WRITE"} ELSE {}

\* the exchange that reads or writes the array follows the assertion
BlobGetOutput(o, response) ==
  IF ~BlobAsked(o) \/ ~response.blobKey THEN Nothing
  ELSE IF o.blob.read THEN Dict("largeBlob", <<"get_blob", response.cred>>)
  ELSE IF o.blob.write # None THEN Dict("largeBlob", <<"put_blob", response.cred, o.blob.write>>)
  ELSE Nothing

-----------------------------------------------------------------------------
(* credBlob, credProtect, minPinLength and credProps *)

CredBlobCreateInput(o, info) ==
  IF "credBlob" \in info /\ o.credBlob # None /\ o.credBlob <= o.maxCredBlob
  THEN Dict("credBlob", o.credBlob) ELSE Nothing
CredBlobGetInput(o, info) == IF "credBlob" \in info /\ o.getCredBlob THEN Dict("credBlob", TRUE) ELSE Nothing

Policies == <<"userVerificationOptional", "userVerificationOptionalWithCredentialIDList",
              "userVerificationRequired">>

\* a policy that need not be enforced is sent whether or not it is supported
CredProtectInput(o, info) ==
  IF o.policy = None THEN Nothing
  ELSE IF o.policy \notin 1..3 \/ (o.enforce /\ "credProtect" \notin info /\ o.policy > 1) THEN Invalid
  ELSE Dict("credProtect", o.policy)

MinPinLengthInput(o, info) ==
  IF "setMinPINLength" \in info /\ o.minPin THEN Dict("minPinLength", TRUE) ELSE Nothing

\* AuthenticatorSelectionCriteria.__post_init__: the older flag decides when
\* the requirement is missing or unknown
ResidentKey(o) ==
  IF o.rk \in {"required", "preferred", "discouraged"} THEN o.rk
  ELSE IF o.requireRk THEN "required" ELSE "discouraged"
RequireResidentKey(o) == ResidentKey(o) = "required"

CredPropsOutput(o, info) ==
  IF o.credProps
  THEN Dict("credProps", ResidentKey(o) = "required" \/ (ResidentKey(o) = "preferred" /\ "rk" \in info))
  ELSE Nothing

\* do_make_credential works it out for itself
RkOption(o, info) == ResidentKey(o) = "required" \/ (ResidentKey(o) = "preferred" /\ "rk" \in info)

-----------------------------------------------------------------------------
(* The two calls: one processor failing fails the request. *)

Joined(parts) == [k \in UNION {DOMAIN p : p \in parts} |-> (CHOOSE p \in parts : k \in DOMAIN p)[k]]
Merged(parts) == IF Invalid \in parts THEN Invalid ELSE Joined(parts)

CreateInputs(o, info) ==
  IF RkOption(o, info) /\ "rk" \notin info THEN Invalid
  ELSE Merged({HmacCreateInput(o, info), BlobCreateInput(o, info), CredBlobCreateInput(o, info),
               CredProtectInput(o, info), MinPinLengthInput(o, info)})
CreateOutputs(o, info, response) ==
  Joined({HmacCreateOutput(o, info, response), BlobCreateOutput(o, response), CredPropsOutput(o, info)})

GetInputs(o, info, pinProtocol, selected) ==
  Merged({HmacGetInput(o, info, pinProtocol, selected), BlobGetInput(o, info), CredBlobGetInput(o, info)})
GetPermissions(o) == {"GET_ASSERTION"} \cup BlobPermission(o)
GetOutputs(o, info, pinProtocol, response) ==
  Joined({HmacGetOutput(o, info, pinProtocol, response), BlobGetOutput(o, response)})

-----------------------------------------------------------------------------
(* External: an authenticator of the given extensions and options. *)

Secret(cred, salt) == IF salt = None THEN None ELSE <<cred, salt>>

CreatedWith(inputs, info, rk) ==
  [ext     |-> IF "hmac-secret" \in DOMAIN inputs THEN Dict("hmac-secret", TRUE) ELSE Nothing,
   blobKey |-> "largeBlobKey" \in DOMAIN inputs /\ LargeBlobs(info) /\ rk,
   protect |-> IF "credProtect" \in DOMAIN inputs /\ "credProtect" \in info
               THEN inputs["credProtect"] ELSE 1,
   rk      |-> rk]

AssertedWith(inputs, cred, hasKey) ==
  [ext     |-> IF "hmac-secret" \in DOMAIN inputs
               THEN Dict("hmac-secret", <<Secret(cred, inputs["hmac-secret"][1]),
                                          Secret(cred, inputs["hmac-secret"][2])>>)
               ELSE Nothing,
   blobKey |-> "largeBlobKey" \in DOMAIN inputs /\ hasKey,
   cred    |-> cred]

-----------------------------------------------------------------------------
\* what a registration reports and enforces is so of the credential it makes
RegistrationIsHonest(o, info) ==
  LET inputs == CreateInputs(o, info) IN
  inputs # Invalid =>
    LET made == CreatedWith(inputs, info, RkOption(o, info))
        out  == CreateOutputs(o, info, made)
    IN /\ o.policy # None /\ (o.enforce \/ "credProtect" \in info) => made.protect = o.policy
       /\ "credProps" \in DOMAIN out => out["credProps"] = made.rk
       /\ RequireResidentKey(o) => made.rk
       /\ "largeBlob" \in DOMAIN out => out["largeBlob"] = made.blobKey
       /\ "prf" \in DOMAIN out => o.prf # None /\ out["prf"] = ("hmac-secret" \in DOMAIN made.ext)
       /\ "hmacCreateSecret" \in DOMAIN out => o.allowHmac /\ o.hmacCreate

\* the outputs of an assertion are those of the credential that signed, for
\* the inputs meant for that credential, and nothing is written without leave
AssertionIsHonest(o, info, pinProtocol, selected, cred, hasKey) ==
  LET inputs == GetInputs(o, info, pinProtocol, selected) IN
  inputs # Invalid =>
    LET out   == GetOutputs(o, info, pinProtocol, AssertedWith(inputs, cred, hasKey))
        meant == IF cred \in DOMAIN o.prf.byCred THEN o.prf.byCred[cred] ELSE o.prf.eval
    IN /\ "prf" \in DOMAIN out =>
            out["prf"] = <<Secret(cred, PrfSalt(meant[1])),
                           IF meant[2] = None THEN None ELSE Secret(cred, PrfSalt(meant[2]))>>
       /\ "hmacGetSecret" \in DOMAIN out =>
            out["hmacGetSecret"] = <<Secret(cred, o.hmacGet[1]), Secret(cred, o.hmacGet[2])>>
       /\ "largeBlob" \in DOMAIN out =>
            /\ out["largeBlob"][2] = cred
            /\ out["largeBlob"][1] = "put_blob" <=> "LARGE_BLOB_WRITE" \in GetPermissions(o)
=============================================================================
