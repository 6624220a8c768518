----------------------------- MODULE Attestation -----------------------------
(***************************************************************************)
(* fido2/attestation/ and the keys of fido2/cose.py: each format checks    *)
(* what its statement says of the authenticator data and the hash of the   *)
(* client data, and gives the path of certificates to be trusted.          *)
(*                                                                         *)
(* A public key is a record of its kind, its curve and its point (the      *)
(* modulus and exponent of RSA); a certificate names its subject, issuer   *)
(* and key, the key that signed it, what its extensions hold and the flaws *)
(* of its profile.  A signature is a record of the key, the algorithm and  *)
(* the message it was made with, a hash is what it was taken of.           *)
(***************************************************************************)
EXTENDS Naturals, Sequences, FiniteSetsExt

\* the result of a check, "none" when it passes; catch_builtins turns
\* ValueError, KeyError and IndexError into InvalidData, others pass through
Check(passes, error) == IF passes THEN "none" ELSE error
FirstError(errors) ==
  LET bad == {i \in DOMAIN errors : errors[i] # "none"}
  IN IF bad = {} THEN "none" ELSE errors[Min(bad)]

Refused(error) == [error |-> error, type |-> "none", path |-> <<>>]
Verdict(errors, type, path) ==
  IF FirstError(errors) = "none" THEN [error |-> "none", type |-> type, path |-> path]
  ELSE Refused(FirstError(errors))

-----------------------------------------------------------------------------
(* COSE keys *)

KeyType(kind, curve, hash) == [kind |-> kind, curve |-> curve, hash |-> hash]
KeyTypes ==
  [ES256  |-> KeyType("ec", "P-256", "SHA256"), ES384 |-> KeyType("ec", "P-384", "SHA384"),
   ES512  |-> KeyType("ec", "P-521", "SHA512"), ES256K |-> KeyType("ec", "secp256k1", "SHA256"),
   RS256  |-> KeyType("rsa", "none", "SHA256"), PS256 |-> KeyType("rsa", "none", "SHA256"),
   RS1    |-> KeyType("rsa", "none", "SHA1"),   EdDSA |-> KeyType("ed", "Ed25519", "none")]

Supports(alg) == alg \in DOMAIN KeyTypes

\* for_alg(alg).from_cryptography_key: the curve is that of the algorithm,
\* whatever curve the point is on
KeyError(alg, key) ==
  IF ~Supports(alg) THEN "NotImplementedError" ELSE Check(key.kind = KeyTypes[alg].kind, "AssertionError")
CoseOf(alg, key) == [alg |-> alg, curve |-> KeyTypes[alg].curve, point |-> key]

\* CoseKey.verify: a point of another curve makes no key
SignatureError(cose, message, sig) ==
  IF ~Supports(cose.alg) THEN "NotImplementedError"
  ELSE IF cose.curve # KeyTypes[cose.alg].curve \/ cose.point.curve # cose.curve THEN "InvalidData"
  ELSE Check(sig = [key |-> cose.point, alg |-> cose.alg, over |-> message], "InvalidSignature")

\* the key of a leaf certificate verifies a message
LeafSigns(alg, leaf, message, sig) ==
  IF KeyError(alg, leaf.key) # "none" THEN KeyError(alg, leaf.key)
  ELSE SignatureError(CoseOf(alg, leaf.key), message, sig)

ToBeSigned(auth, cdh) == <<auth, cdh>>

\* _validate_cert_common
CommonCert(cert) == Check(cert.flaws \cap {"version", "ca", "noConstraints"} = {}, "InvalidData")

-----------------------------------------------------------------------------
(* The formats *)

\* an AAGUID extension has to agree; a certificate without one is not tied to a model
PackedCert(cert, aaguid) ==
  FirstError(<<CommonCert(cert),
               Check(cert.flaws \cap {"subject", "critical"} = {}, "InvalidData"),
               Check(cert.aaguid \in {"none", aaguid}, "InvalidData")>>)

Packed(s, auth, cdh) ==
  IF s.ecdaa THEN Refused("NotImplementedError")
  ELSE IF s.x5c # <<>>
  THEN Verdict(<<PackedCert(s.x5c[1], auth.aaguid),
                 LeafSigns(s.alg, s.x5c[1], ToBeSigned(auth, cdh), s.sig)>>, "BASIC", s.x5c)
  ELSE Verdict(<<Check(auth.key.alg = s.alg, "InvalidData"),
                 SignatureError(auth.key, ToBeSigned(auth, cdh), s.sig)>>, "SELF", <<>>)

\* what a U2F device signs: neither the flags nor the AAGUID
U2fMessage(auth, cdh) == <<"u2f", auth.rpIdHash, cdh, auth.id, auth.key.point>>

FidoU2f(s, auth, cdh) ==
  IF s.x5c = <<>> \/ auth.key.point.kind # "ec" THEN Refused("InvalidData")
  ELSE Verdict(<<LeafSigns("ES256", s.x5c[1], U2fMessage(auth, cdh), s.sig)>>, "BASIC", s.x5c)

\* the response is a token: the signature is over its header and its payload
Token(s) == <<s.alg, s.x5c, s.nonce, s.profile>>
Escaping(error) == IF error = "InvalidSignature" THEN "cryptography.InvalidSignature" ELSE error

SafetyNet(s, auth, cdh) ==
  IF s.x5c = <<>> THEN Refused("InvalidData")
  ELSE Verdict(<<Check(s.profile, "InvalidData"),
                 Check(s.nonce = ToBeSigned(auth, cdh), "InvalidData"),
                 Check(s.x5c[1].cn = "attest.android.com", "InvalidData"),
                 Escaping(LeafSigns(s.alg, s.x5c[1], Token(s), s.sig))>>, "BASIC", s.x5c)

\* the leaf holds the nonce; no signature but those of the path is checked
Apple(s, auth, cdh) ==
  IF s.x5c = <<>> THEN Refused("InvalidData")
  ELSE Verdict(<<Check(s.x5c[1].nonce # <<>>, "ExtensionNotFound"),
                 Check(s.x5c[1].nonce = ToBeSigned(auth, cdh), "InvalidData")>>, "ANON_CA", s.x5c)

NoneFormat(s, auth, cdh) == Verdict(<<Check(s.empty, "InvalidData")>>, "NONE", <<>>)

-----------------------------------------------------------------------------
(* TPM: a public area that describes the key and its certification *)

RsaSigning == {"RSASSA", "RSAPSS"}
RsaDecrypting == {"OAEP", "RSAES"}

\* TpmsRsaParms.parse: what the scheme may be follows from the attributes
RsaSchemes(attributes) ==
  LET restricted == "restricted" \in attributes
      all == RsaSigning \cup RsaDecrypting \cup {"NULL", "other"}
      sign == IF "sign" \notin attributes THEN all
              ELSE IF restricted THEN RsaSigning ELSE RsaSigning \cup {"NULL"}
      decrypt == IF "decrypt" \notin attributes THEN all
                 ELSE IF restricted THEN {"NULL"} ELSE RsaDecrypting \cup {"NULL"}
  IN sign \cap decrypt

RsaParms(p) ==
  /\ {"restricted", "decrypt"} \subseteq p.attributes \/ p.symmetric = "NULL"
  /\ p.scheme \in RsaSchemes(p.attributes)

EccParms(p) == p.symmetric = "NULL" /\ p.scheme = "NULL" /\ p.kdf # "other"

\* TpmPublicFormat.parse; the bytes left over are p.rest
ParsesPublic(p) ==
  /\ "reserved" \notin p.attributes
  /\ p.nameAlg # "other"
  /\ \/ p.type = "RSA" /\ RsaParms(p)
     \/ p.type = "ECC" /\ EccParms(p)
  /\ p.rest = <<>>

TpmCurves == {"P-192", "P-224", "P-256", "P-384", "P-521"}
DefaultExponent == 65537

\* TpmPublicFormat.public_key: an exponent of 0 stands for the default
PublicKey(p) ==
  IF p.type = "RSA"
  THEN [kind |-> "rsa", curve |-> "none",
        id |-> <<p.unique, IF p.exponent = 0 THEN DefaultExponent ELSE p.exponent>>]
  ELSE [kind |-> "ec", curve |-> p.curve, id |-> <<p.unique, 0>>]

TpmName(p) == <<p.nameAlg, p>>

\* _validate_tpm_cert: the subject is looked up by the wrong key, so it is free
TpmCert(cert) ==
  FirstError(<<CommonCert(cert),
               Check(cert.flaws \cap {"noSan", "noUsage"} = {}, "ExtensionNotFound"),
               Check("usage" \notin cert.flaws, "InvalidData")>>)

PublicMatches(p, cose) ==
  FirstError(<<Check(p.type = "RSA" \/ p.curve \in TpmCurves, "InvalidData"),
               KeyError(cose.alg, PublicKey(p)),
               Check(cose.curve = KeyTypes[cose.alg].curve /\ cose.point = PublicKey(p), "InvalidSignature")>>)

\* TpmAttestationFormat.parse, then the hash named by the algorithm
Certifies(c, p, alg, auth, cdh) ==
  FirstError(<<Check(c.magic /\ c.certify /\ c.whole, "InvalidData"),
               Check(KeyTypes[alg].hash # "none", "AttributeError"),
               Check(c.extra = <<KeyTypes[alg].hash, ToBeSigned(auth, cdh)>>, "InvalidSignature"),
               Check(c.name = TpmName(p), "InvalidData")>>)

Tpm(s, auth, cdh) ==
  IF s.ecdaa THEN Refused("NotImplementedError")
  ELSE IF s.x5c = <<>> THEN Refused("InvalidData")
  ELSE LET before == FirstError(<<TpmCert(s.x5c[1]), KeyError(s.alg, s.x5c[1].key),
                                  Check(ParsesPublic(s.pubArea), "InvalidData")>>)
       IN IF before # "none" THEN Refused(before)
          ELSE IF ~Supports(auth.key.alg) THEN Refused("NotImplementedError")
          ELSE Verdict(<<PublicMatches(s.pubArea, auth.key),
                         Certifies(s.certInfo, s.pubArea, s.alg, auth, cdh),
                         LeafSigns(s.alg, s.x5c[1], s.certInfo, s.sig)>>, "ATT_CA", s.x5c)

-----------------------------------------------------------------------------
(* AttestationVerifier *)

\* _default_attestations leaves "none" out
VerifyStatement(s, auth, cdh, types) ==
  IF s.fmt \notin types THEN Refused("UnsupportedType")
  ELSE CASE s.fmt = "packed" -> Packed(s, auth, cdh)
         [] s.fmt = "fido-u2f" -> FidoU2f(s, auth, cdh)
         [] s.fmt = "android-safetynet" -> SafetyNet(s, auth, cdh)
         [] s.fmt = "apple" -> Apple(s, auth, cdh)
         [] s.fmt = "tpm" -> Tpm(s, auth, cdh)
         [] s.fmt = "none" -> NoneFormat(s, auth, cdh)

DefaultTypes == {"packed", "fido-u2f", "android-safetynet", "apple", "tpm"}

\* verify_x509_chain: a chain of one is not checked at all
ChainError(chain) ==
  FirstError([i \in 1..(Len(chain) - 1) |->
    IF chain[i + 1].key.kind \notin {"rsa", "ec"} THEN "InvalidData"
    ELSE Check(chain[i].signer = chain[i + 1].key, "InvalidSignature")])
=============================================================================
