----------------------------- MODULE MCDecisions -----------------------------
(***************************************************************************)
(* Inputs for Decisions: each family of them runs through one decision's   *)
(* branches.                                                               *)
(***************************************************************************)
EXTENDS Decisions

Given(part, xs) == [part : {part}, x : xs]

-----------------------------------------------------------------------------
(* RP IDs and origins *)

Hosts == {<<"a", ".", "com">>, <<"b", ".", "a", ".", "com">>, <<"com">>, <<"aa", ".", "com">>,
          <<"x", ".", "co", ".", "uk">>, <<"localhost">>, <<"a", ".", "localhost">>}
Names == Hosts \cup {<<>>, <<"uk">>, <<"co", ".", "uk">>, <<".", "com">>, <<"o", ".", "uk">>, <<"d", ".", "com">>}
\* letters of a label are told apart where one name could end inside another's
Spell(name) == FlattenSeq([i \in DOMAIN name |->
                 IF name[i] = "aa" THEN <<"x", "a">> ELSE IF name[i] = "co" THEN <<"c", "o">> ELSE <<name[i]>>])
MCPublicSuffixes == {<<"com">>, <<"uk">>, <<"c", "o", ".", "uk">>}

RpIds ==
  {[rpId |-> Spell(name), origin |-> [scheme |-> scheme, host |-> Spell(host), port |-> port]] :
     scheme \in {"http", "https"}, host \in Hosts, port \in {<<>>, <<":", "1">>}, name \in Names}

-----------------------------------------------------------------------------
(* Descriptors of HID devices *)

Item(k, v) == [key |-> k, value |-> v]
Headers == {<<>>} \cup {<<Item("usage_page", p), Item("usage", u)>> : p, u \in 0..2}
           \cup {<<Item("usage", u), Item("usage_page", p), Item("usage_page", 1)>> : p, u \in 0..2}
Sizes == {<<>>, <<Item("count", 64)>>} \cup {<<Item("count", c), Item("size", s)>> : c \in {0, 8, 64}, s \in {1, 8}}
         \cup {<<Item("size", 8), Item("other", 1), Item("count", c), Item("count", 2)>> : c \in {0, 8}}

Descriptors ==
  {LET one == a \o <<Item(io[1], 0)>>
       two == b \o <<Item(io[2], 0)>>
   IN IF late THEN one \o h \o two ELSE h \o one \o two :
     h \in Headers, a, b \in Sizes, io \in {<<"input", "output">>, <<"output", "input">>}, late \in BOOLEAN}

-----------------------------------------------------------------------------
(* Extensions with an authenticator *)

NoExtension ==
  [prf |-> None, allowHmac |-> FALSE, hmacCreate |-> FALSE, hmacGet |-> None, blob |-> None,
   credBlob |-> None, maxCredBlob |-> 1, getCredBlob |-> FALSE, policy |-> None, enforce |-> FALSE,
   minPin |-> FALSE, credProps |-> FALSE, rk |-> "discouraged", requireRk |-> FALSE, allow |-> {}]

Features == {"hmac-secret", "largeBlobKey", "largeBlobs", "credBlob", "credProtect", "setMinPINLength", "rk"}
Infos == {{}, Features} \cup {Features \ {f} : f \in Features} \cup {{f} : f \in Features}

Values == Secrets \X (Secrets \cup {None})
ByCred == UNION {[C -> Values] : C \in {{}} \cup {{c} : c \in Creds} \cup {Creds}}
Prfs == [eval : {None} \cup Values, byCred : ByCred]
BlobInputs == {None} \cup [support : {None, "preferred", "required"}, read : BOOLEAN, write : {None, 7}]
ANY == [eval |-> None, byCred |-> Nothing]

Registrations ==
  {[o |-> [NoExtension EXCEPT !.blob = b, !.prf = prf, !.rk = rk, !.requireRk = require,
             !.policy = policy, !.enforce = flag, !.allowHmac = flag, !.hmacCreate = ~require,
             !.credProps = TRUE, !.minPin = flag, !.credBlob = IF flag THEN 2 ELSE 1],
    info |-> info] :
     info \in Infos, b \in BlobInputs, prf \in {None, ANY}, rk \in {"required", "preferred", "unknown"},
     require, flag \in BOOLEAN, policy \in {None, 1, 3, 4}}

\* salts meant for the credential that signs, which is one of those allowed
SaltedAssertions ==
  {[o |-> [NoExtension EXCEPT !.prf = prf, !.hmacGet = hmac, !.allowHmac = TRUE, !.allow = allow],
    info |-> info, pin |-> TRUE, selected |-> IF allow = {} THEN None ELSE cred, cred |-> cred, hasKey |-> FALSE] :
     prf \in {None} \cup Prfs, allow \in {Creds} \cup {{c} : c \in Creds}, cred \in Creds, info \in {Features, {}},
     hmac \in {None, <<Short, None>>} \cup Values}

BlobAssertions ==
  {[o |-> [NoExtension EXCEPT !.blob = b, !.getCredBlob = getBlob],
    info |-> info, pin |-> pin, selected |-> None, cred |-> cred, hasKey |-> hasKey] :
     b \in BlobInputs, info \in Infos, hasKey, pin, getBlob \in BOOLEAN, cred \in Creds}

-----------------------------------------------------------------------------
(* Options of the native API *)

NoWindows ==
  [uv |-> None, attachment |-> None, attestation |-> None, rk |-> "unknown", requireRk |-> FALSE,
   exclude |-> {}, event |-> FALSE, extensions |-> FALSE, policy |-> None, enforce |-> FALSE,
   credBlob |-> None, blob |-> None, minPin |-> None, prf |-> FALSE, hmacCreate |-> FALSE,
   allowHmac |-> FALSE, credProps |-> TRUE, rpid |-> "rp", rpids |-> None,
   hints |-> <<>>, allow |-> {}, getCredBlob |-> FALSE, appid |-> FALSE, hmacGet |-> None]

NativeMakes ==
  {[o |-> [NoWindows EXCEPT !.rk = rk, !.uv = IF event THEN "required" ELSE "unknown", !.blob = b,
             !.extensions = extensions, !.prf = prf,
             !.event = event, !.rpid = rpid, !.policy = policy, !.attestation = attestation,
             !.rpids = IF prf THEN None ELSE {"rp"}, !.exclude = IF event THEN Creds ELSE {},
             !.attachment = IF event THEN "platform" ELSE "unknown",
             !.hmacCreate = ~prf, !.allowHmac = event, !.credBlob = IF event THEN 1 ELSE None],
    api |-> api, capable |-> extensions] :
     api \in 1..8, rk \in Levels, b \in BlobInputs,
     extensions, prf, event \in BOOLEAN, rpid \in {None, "rp"},
     policy \in {None, "required", "userVerificationRequired"}, attestation \in {None, "direct", "enterprise"}}

\* prf goes before hmac-secret
SaltInputs == LET prfs == {p \in Prfs : p.eval # None} IN
  {<<prf, None>> : prf \in prfs} \cup {<<prf, CHOOSE v \in Values : v[2] # None>> : prf \in prfs}
  \cup {<<None, hmac>> : hmac \in {None} \cup Values}
SaltedGets ==
  {[o |-> [NoWindows EXCEPT !.prf = salts[1], !.hmacGet = salts[2], !.allowHmac = event,
             !.extensions = extensions, !.event = event, !.allow = Creds],
    api |-> api, cred |-> cred] :
     api \in 1..8, cred \in Creds, extensions, event \in BOOLEAN, salts \in SaltInputs}

BlobGets ==
  {[o |-> [NoWindows EXCEPT !.prf = None, !.blob = b, !.hints = hints, !.appid = event, !.uv = "required",
             !.extensions = extensions, !.event = event],
    api |-> api, cred |-> cred] :
     api \in 1..8, cred \in Creds, extensions, event \in BOOLEAN, b \in BlobInputs,
     hints \in {<<>>, <<"hybrid", "client-device", "security-key">>, <<"security-key">>}}

-----------------------------------------------------------------------------
(* Attestations *)

Ec(id) == [kind |-> "ec", curve |-> "P-256", id |-> <<id, 0>>]
Rsa(id) == [kind |-> "rsa", curve |-> "none", id |-> <<id, DefaultExponent>>]
Ed(id) == [kind |-> "ed", curve |-> "Ed25519", id |-> <<id, 0>>]
Signature(k, alg, m) == [key |-> k, alg |-> alg, over |-> m]
Auth(aaguid, key) == [rpIdHash |-> "rp", aaguid |-> aaguid, id |-> "c", flags |-> 0, key |-> key]
CredKeys == {CoseOf("ES256", Ec("cred")), CoseOf("RS256", Rsa("cred")), [CoseOf("ES256", Ec("cred")) EXCEPT !.alg = "other"]}
Auths == {Auth(a, k) : a \in {ZeroAaguid, "a1"}, k \in CredKeys}

Cert(subject, issuer, key, signer) ==
  [subject |-> subject, issuer |-> issuer, key |-> key, signer |-> signer, flaws |-> {}, aaguid |-> "none",
   nonce |-> <<>>, cn |-> "attest.android.com"]
LeafOf(issuer, signer) == Cert("Leaf", issuer, Ec("leaf"), signer)
Mid == Cert("Mid", "Root", Ec("mid"), Ec("root"))
RootCert(key) == Cert("Root", "Root", key, key)
Leaves5 == {LeafOf("Root", Ec("root")), LeafOf("Mid", Ec("mid")), LeafOf("Root", Ec("mid")), LeafOf("Root", Ed("root"))}
Flawed == {[c EXCEPT !.flaws = f] : c \in Leaves5, f \in {{}, {"ca"}, {"subject"}, {"noSan"}, {"usage"}}}
LeafOrNone == {<<>>, <<LeafOf("Root", Ec("root"))>>}
Paths == {<<>>} \cup {<<c>> : c \in Flawed} \cup {<<c, Mid>> : c \in Leaves5}

PlainStmt == [fmt |-> "none", alg |-> "ES256", x5c |-> <<>>, sig |-> Signature(Ec("leaf"), "ES256", <<>>),
              ecdaa |-> FALSE, empty |-> FALSE, nonce |-> <<>>, profile |-> TRUE, certInfo |-> 0, pubArea |-> 0]

Entry(aaguid, skis, reports, roots) ==
  [aaguid |-> aaguid, skis |-> skis, reports |-> reports, roots |-> roots, statement |-> TRUE]
Report(status, cert) == [status |-> status, certificate |-> cert]
MdsEntries ==
  {Entry("a1", {}, {}, <<RootCert(Ec("root"))>>), Entry("a1", {}, {}, <<RootCert(Ec("other")), RootCert(Ec("root"))>>),
   Entry("a1", {}, {Report("REVOKED", None)}, <<RootCert(Ec("root"))>>),
   Entry("a1", {}, {Report("ATTESTATION_KEY_COMPROMISE", LeafOf("Root", Ec("root"))), Report("REVOKED", None)},
         <<RootCert(Ec("root"))>>),
   Entry("a1", {}, {Report("ATTESTATION_KEY_COMPROMISE", Mid)}, <<Mid, RootCert(Ec("root"))>>),
   [Entry("a1", {}, {}, <<RootCert(Ec("root"))>>) EXCEPT !.statement = FALSE],
   Entry("a1", {}, {}, <<RootCert(Ed("root"))>>),
   Entry("none", {Ec("leaf")}, {}, <<RootCert(Ec("root"))>>), Entry("none", {Ec("leaf")}, {}, <<RootCert(Ec("other"))>>),
   Entry("none", {Ec("mid")}, {Report("ATTESTATION_KEY_COMPROMISE", LeafOf("Mid", Ec("mid")))}, <<RootCert(Ec("root"))>>)}
MdsBlobs == {<<>>} \cup {<<e>> : e \in MdsEntries} \cup {<<e, f>> : e, f \in MdsEntries}
AnyModel == <<Entry("a1", {Ec("leaf")}, {}, <<RootCert(Ec("root"))>>)>>

Attested(s, auth, cdh, blob, filters) ==
  [s |-> s, auth |-> auth, cdh |-> cdh, blob |-> blob, filters |-> filters]
Filters == {{"entry", "attestation"}, {"entry"}, {}}

PathAttestations ==
  {Attested([PlainStmt EXCEPT !.fmt = "packed", !.x5c = path,
               !.sig = Signature(Ec(IF path = <<>> THEN "cred" ELSE "leaf"), "ES256", <<auth, "h1">>)],
            auth, "h1", blob, filters) :
     auth \in {Auth(a, CoseOf("ES256", Ec("cred"))) : a \in {ZeroAaguid, "a1"}}, path \in Paths, blob \in MdsBlobs,
     filters \in Filters}

PackedAttestations ==
  {Attested([PlainStmt EXCEPT !.fmt = "packed", !.alg = alg, !.ecdaa = ecdaa,
               !.x5c = [i \in DOMAIN path |-> [path[i] EXCEPT !.aaguid = aaguid]],
               !.sig = Signature(IF path = <<>> THEN auth.key.point ELSE Ec("leaf"), alg, <<signed, "h1">>)],
            auth, cdh, AnyModel, filters) :
     auth \in Auths, signed \in Auths, aaguid \in {"none", "a1", "a2"}, cdh \in {"h1", "h2"},
     alg \in {"ES256", "RS256", "ES384", "other"}, path \in LeafOrNone, ecdaa \in BOOLEAN, filters \in Filters}

LeafWith(path, nonce, key, flag) ==
  [i \in DOMAIN path |-> [path[i] EXCEPT !.nonce = nonce, !.key = key, !.cn = IF flag THEN @ ELSE "other"]]
LeafKeys == {Ec("leaf"), Ec("cred"), Rsa("leaf")}

U2fAttestations ==
  {Attested([PlainStmt EXCEPT !.fmt = "fido-u2f", !.x5c = LeafWith(path, <<>>, key, TRUE),
               !.sig = Signature(Ec("leaf"), "ES256", U2fMessage(signed, "h1"))], auth, cdh, AnyModel, filters) :
     auth \in Auths, signed \in Auths, cdh \in {"h1", "h2"}, path \in LeafOrNone, key \in LeafKeys,
     filters \in Filters}

TokenAttestations ==
  {LET token == [PlainStmt EXCEPT !.fmt = "android-safetynet", !.x5c = LeafWith(path, <<>>, key, flag),
                   !.profile = cdh = "h1" \/ flag, !.nonce = <<signed, "h1">>]
   IN Attested([token EXCEPT !.sig = Signature(Ec("leaf"), "ES256",
                  Token(IF flag THEN token ELSE [token EXCEPT !.profile = ~@]))], auth, cdh, AnyModel, filters) :
     auth \in Auths, signed \in Auths, cdh \in {"h1", "h2"}, path \in LeafOrNone, key \in LeafKeys,
     flag \in BOOLEAN, filters \in Filters}

AppleAttestations ==
  {Attested([PlainStmt EXCEPT !.fmt = "apple",
               !.x5c = LeafWith(path, IF flag THEN <<signed, "h1">> ELSE <<>>, key, flag)],
            auth, cdh, AnyModel, filters) :
     auth \in Auths, signed \in Auths, cdh \in {"h1", "h2"}, path \in LeafOrNone, key \in LeafKeys,
     flag \in BOOLEAN, filters \in Filters}

NoAttestations ==
  {Attested([PlainStmt EXCEPT !.empty = flag], auth, cdh, AnyModel, filters) :
     auth \in Auths, cdh \in {"h1", "h2"}, flag \in BOOLEAN, filters \in Filters}

PubAreas ==
  [type : {"RSA"}, attributes : SUBSET {"restricted", "decrypt", "sign", "reserved"}, symmetric : {"NULL", "aes"},
   scheme : {"NULL", "RSASSA", "OAEP", "other"}, curve : {"none"}, kdf : {"NULL"}, exponent : {0, 3},
   nameAlg : {"SHA256"}, unique : {"cred"}, rest : {<<>>}]
  \cup [type : {"ECC"}, attributes : {{"sign"}}, symmetric : {"NULL", "aes"}, scheme : {"NULL", "other"},
        curve : {"P-256", "P-384", "SM2"}, kdf : {"NULL", "other"}, exponent : {0}, nameAlg : {"SHA256", "other"},
        unique : {"cred", "x"}, rest : {<<>>, <<0>>}]
Certified(s, p, c) == [s EXCEPT !.pubArea = p, !.certInfo = c, !.sig = Signature(Ec("leaf"), "ES256", c)]

CertInfo(p, auth, cdh) ==
  [magic |-> TRUE, certify |-> TRUE, whole |-> TRUE, extra |-> <<"SHA256", <<auth, cdh>>>>, name |-> TpmName(p)]

\* the leaf and the model fit: only the certification may not
CertAttestations ==
  {Attested(Certified([PlainStmt EXCEPT !.fmt = "tpm", !.x5c = <<LeafOf("Root", Ec("root"))>>], p,
                      [CertInfo(IF same THEN p ELSE [p EXCEPT !.unique = "y"], auth, cdh)
                         EXCEPT !.magic = magic, !.whole = whole]),
            auth, "h1", AnyModel, {}) :
     auth \in {a \in Auths : a.aaguid = "a1"}, p \in {q \in PubAreas : q.symmetric = "NULL"},
     cdh \in {"h1", "h2"}, magic, whole, same \in BOOLEAN}

TpmAttestations ==
  {Attested(Certified([PlainStmt EXCEPT !.fmt = "tpm", !.x5c = path], p, CertInfo(p, auth, "h1")),
            auth, "h1", AnyModel, {"entry"}) :
     auth \in Auths, p \in PubAreas,
     path \in {<<>>} \cup {<<c>> : c \in {f \in Flawed : f.signer = Ec("root")}}}

-----------------------------------------------------------------------------
(* Metadata blobs *)

Blobs ==
  {LET b == [alg |-> alg, x5c |-> path, payload |-> "entries", sig |-> 0]
       m == IF altered THEN <<alg, path, "others">> ELSE BlobMessage(b)
   IN [b |-> [b EXCEPT !.sig = Signature(key, alg, m)], root |-> root] :
     path \in Paths, root \in {<<>>, <<RootCert(Ec("root"))>>, <<RootCert(Rsa("root"))>>},
     key \in {Ec("leaf"), Ec("root"), Ec("mid")}, alg \in {"ES256", "RS256"}, altered \in BOOLEAN}

DecisionInputs ==
  <<Given("rpId", RpIds), Given("descriptor", Descriptors), Given("registration", Registrations),
    Given("assertion", SaltedAssertions), Given("assertion", BlobAssertions), Given("nativeMake", NativeMakes),
    Given("nativeGet", SaltedGets), Given("nativeGet", BlobGets), Given("attestation", PathAttestations),
    Given("attestation", PackedAttestations), Given("attestation", U2fAttestations),
    Given("attestation", TokenAttestations), Given("attestation", AppleAttestations),
    Given("attestation", NoAttestations), Given("attestation", CertAttestations),
    Given("attestation", TpmAttestations), Given("blob", Blobs)>>
=============================================================================
