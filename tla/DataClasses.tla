----------------------------- MODULE DataClasses -----------------------------
(***************************************************************************)
(* The data classes of the library, each the sequence of its fields: the   *)
(* objects of WebAuthn (fido2/webauthn.py), the responses of CTAP2         *)
(* (fido2/ctap2/base.py) and the metadata of MDS3 (fido2/mds3.py).         *)
(***************************************************************************)
EXTENDS DataValues, TLC

Requirement == OneOf({"required", "preferred", "discouraged"})
PublicKey == OneOf({"public-key"})
Transports == OneOf({"usb", "nfc", "ble", "hybrid", "internal"})
Hints == OneOf({"security-key", "client-device", "hybrid"})
Attachment == OneOf({"platform", "cross-platform"})
Conveyance == OneOf({"none", "indirect", "direct", "enterprise"})

EntityClasses ==
  [RpEntity   |-> <<Req("name", Str), Opt("id", Str)>>,
   UserEntity |-> <<Req("name", Str), Req("id", Octets), Opt("displayName", Str)>>,
   Parameters |-> <<Req("type", PublicKey), Req("alg", Number)>>,
   Descriptor |-> <<Req("type", PublicKey), Req("id", Octets), Opt("transports", Many(Transports))>>]

SelectionClass ==
  <<Opt("authenticatorAttachment", Attachment), Opt("residentKey", Requirement),
    Opt("userVerification", Requirement), Field("requireResidentKey", Flag, [t |-> "bool", v |-> FALSE])>>

OptionsClasses ==
  [CreationOptions |->
     <<Req("rp", Object("RpEntity")), Req("user", Object("UserEntity")), Req("challenge", Octets),
       Req("pubKeyCredParams", Many(Object("Parameters"))), Opt("timeout", Number),
       Opt("excludeCredentials", Many(Object("Descriptor"))), Opt("authenticatorSelection", Object("Selection")),
       Opt("hints", Many(Hints)), Opt("attestation", Conveyance), Opt("attestationFormats", Many(Str)),
       Opt("extensions", Dict(AnyValue))>>,
   RequestOptions |->
     <<Req("challenge", Octets), Opt("timeout", Number), Opt("rpId", Str),
       Opt("allowCredentials", Many(Object("Descriptor"))), Opt("userVerification", Requirement),
       Opt("hints", Many(Hints)), Opt("extensions", Dict(AnyValue))>>]

ResponseOf(response) ==
  <<Field("id", Str, NoValue), Req("rawId", Octets), Req("response", Object(response)),
    Opt("authenticatorAttachment", Attachment), Field("clientExtensionResults", Outputs, [t |-> "outputs", v |-> <<>>]),
    Field("type", PublicKey, Text(<<"public-key">>))>>

ResponseClasses ==
  [AttestationResponseJson |->
     <<Req("clientDataJSON", Data("ClientData")), Req("attestationObject", Data("AttestationObject"))>>,
   AssertionResponseJson   |->
     <<Req("clientDataJSON", Data("ClientData")), Req("authenticatorData", Data("AuthenticatorData")),
       Req("signature", Octets), Opt("userHandle", Octets)>>,
   RegistrationResponse    |-> ResponseOf("AttestationResponseJson"),
   AuthenticationResponse  |-> ResponseOf("AssertionResponseJson")]

\* the responses of CTAP2: the position of a field is its key
None0 == IntOf(0)
EmptyList == ListOf(<<>>)
Info ==
  <<Req("versions", Many(Str)), Field("extensions", Many(Str), EmptyList),
    Field("aaguid", Data("Aaguid"), [t |-> "data", class |-> "Aaguid", v |-> <<"zero">>]),
    Field("options", Dict(Flag), MapOf(<<>>)), Field("max_msg_size", Number, IntOf(1024)),
    Field("pin_uv_protocols", Many(Number), EmptyList), Field("max_creds_in_list", Number, None0),
    Field("max_cred_id_length", Number, None0), Field("transports", Many(Str), EmptyList),
    Field("algorithms", Many(Dict(AnyValue)), EmptyList), Field("max_large_blob", Number, None0),
    Field("force_pin_change", Flag, [t |-> "bool", v |-> FALSE]), Field("min_pin_length", Number, IntOf(4)),
    Field("firmware_version", Number, None0), Field("max_cred_blob_length", Number, None0),
    Field("max_rpids_for_min_pin", Number, None0), Field("preferred_platform_uv_attempts", Number, None0),
    Field("uv_modality", Number, None0), Field("certifications", Dict(AnyValue), MapOf(<<>>)),
    Opt("remaining_disc_creds", Number), Field("vendor_prototype_config_commands", Many(Number), EmptyList),
    Field("attestation_formats", Many(Str), ListOf(<<Text(<<"packed">>)>>)), Opt("uv_count_since_pin", Number),
    Field("long_touch_for_reset", Flag, [t |-> "bool", v |-> FALSE])>>

CborClasses ==
  [Info                |-> Info,
   AttestationResponse |-> <<Req("fmt", Str), Req("auth_data", Data("AuthenticatorData")), Req("att_stmt", Dict(AnyValue)),
                             Opt("ep_att", Flag), Opt("large_blob_key", Octets)>>,
   AssertionResponse   |-> <<Req("credential", Dict(AnyValue)), Req("auth_data", Data("AuthenticatorData")),
                             Req("signature", Octets), Opt("user", Dict(AnyValue)), Opt("number_of_credentials", Number),
                             Opt("user_selected", Flag), Opt("large_blob_key", Octets)>>]

\* the metadata of MDS3
Statuses == {"NOT_FIDO_CERTIFIED", "FIDO_CERTIFIED", "USER_VERIFICATION_BYPASS", "ATTESTATION_KEY_COMPROMISE",
             "USER_KEY_REMOTE_COMPROMISE", "USER_KEY_PHYSICAL_COMPROMISE", "UPDATE_AVAILABLE", "REVOKED",
             "SELF_ASSERTION_SUBMITTED", "FIDO_CERTIFIED_L1", "FIDO_CERTIFIED_L1plus", "FIDO_CERTIFIED_L2",
             "FIDO_CERTIFIED_L2plus", "FIDO_CERTIFIED_L3", "FIDO_CERTIFIED_L3plus"}
Date == Hooked(Data("date"))
Model == Hooked(Data("Aaguid"))
KeyIds == Hooked(Many(Octets))

DescriptorClasses ==
  [Version       |-> Reqs(<<"major", "minor">>, Number),
   CodeAccuracy  |-> Reqs(<<"base", "minLength">>, Number) \o Opts(<<"maxRetries", "blockSlowdown">>, Number),
   BioAccuracy   |-> Opts(<<"selfAttestedFRR", "selfAttestedFAR", "maxTemplates", "maxRetries", "blockSlowdown">>, Number),
   PatternAccuracy |-> <<Req("minComplexity", Number)>> \o Opts(<<"maxRetries", "blockSlowdown">>, Number),
   Verification  |-> <<Opt("userVerificationMethod", Str), Opt("caDesc", Object("CodeAccuracy")),
                       Opt("baDesc", Object("BioAccuracy")), Opt("paDesc", Object("PatternAccuracy"))>>,
   Palette       |-> Reqs(<<"r", "g", "b">>, Number),
   Png           |-> Reqs(<<"width", "height", "bitDepth", "colorType", "compression", "filter", "interlace">>, Number)
                     \o <<Opt("plte", Many(Object("Palette")))>>,
   TrustAnchor   |-> Reqs(<<"X", "Y", "c", "sx", "sy", "G1Curve">>, Str),
   ExtensionInfo |-> <<Req("fail_if_unknown", Flag), Req("id", Str), Opt("tag", Number), Opt("data", Str)>>]

StatementClass ==
  <<Req("description", Str), Req("authenticatorVersion", Number), Req("schema", Number),
    Req("upv", Many(Object("Version"))), Req("attestationTypes", Many(Str)),
    Req("userVerificationDetails", Many(Many(Object("Verification"))))>>
  \o Reqs(<<"keyProtection", "matcherProtection", "attachmentHint", "tcDisplay">>, Many(Str))
  \o <<Req("attestationRootCertificates", KeyIds), Opt("legalHeader", Str), Opt("aaid", Str), Opt("aaguid", Model),
       Opt("attestationCertificateKeyIdentifiers", KeyIds), Opt("alternativeDescriptions", Dict(Str)),
       Opt("protocolFamily", Str)>>
  \o Opts(<<"authenticationAlgorithms", "publicKeyAlgAndEncodings">>, Many(Str))
  \o Opts(<<"isKeyRestricted", "isFreshUserVerificationRequired">>, Flag)
  \o <<Opt("cryptoStrength", Number)>> \o Opts(<<"operatingEnv", "tcDisplayContentType">>, Str)
  \o <<Opt("tcDisplayPNGCharacteristics", Many(Object("Png"))), Opt("ecdaaTrustAnchors", Many(Object("TrustAnchor"))),
       Opt("icon", Str), Opt("supportedExtensions", Many(Object("ExtensionInfo"))),
       Opt("authenticatorGetInfo", Dict(AnyValue))>>

\* a status that is not known refuses the report, and so the whole blob
EntryClasses ==
  [StatusReport |-> <<Req("status", Strict(Statuses)), Opt("effectiveDate", Date), Opt("authenticatorVersion", Number),
                      Opt("certificate", Hooked(Octets))>>
                    \o Opts(<<"url", "certificationDescriptor", "certificateNumber", "certificationPolicyVersion",
                              "certificationRequirementsVersion">>, Str),
   BioReport    |-> <<Req("certLevel", Number), Req("modality", Str), Req("effectiveDate", Number)>>
                    \o Reqs(<<"certificationDescriptor", "certificateNumber", "certificationPolicyVersion",
                              "certificationRequirementsVersion">>, Str),
   BlobEntry    |-> <<Req("statusReports", Many(Object("StatusReport"))), Req("timeOfLastStatusChange", Date),
                      Opt("aaid", Str), Opt("aaguid", Model), Opt("attestationCertificateKeyIdentifiers", KeyIds),
                      Opt("metadataStatement", Object("Statement")),
                      Opt("biometricStatusReports", Many(Object("BioReport"))), Opt("rogueListURL", Str),
                      Opt("rogueListHash", Hooked(Octets))>>,
   BlobPayload  |-> <<Req("legalHeader", Str), Req("no", Number), Req("nextUpdate", Date),
                      Req("entries", Many(Object("BlobEntry")))>>]

\* the fields of each class, in order
ClassFields ==
  EntityClasses @@ OptionsClasses @@ ResponseClasses @@ CborClasses @@ DescriptorClasses @@ EntryClasses
  @@ [Selection |-> SelectionClass, Statement |-> StatementClass]
=============================================================================
