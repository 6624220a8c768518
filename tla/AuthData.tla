------------------------------ MODULE AuthData ------------------------------
(***************************************************************************)
(* The byte layouts of fido2/webauthn.py: authenticator data, attested     *)
(* credential data and the attestation object, parsed with a ByteBuffer    *)
(* (fido2/utils.py) and the CBOR codec.  The 32-byte hash and the 16-byte  *)
(* AAGUID are HashLen and AaguidLen bytes long; of the flags only AT and   *)
(* ED decide what follows.  Absent stands for an absent part.                *)
(***************************************************************************)
EXTENDS Cbor

CONSTANTS HashLen, AaguidLen

Absent == [t |-> "none"]

AT == 1
ED == 2
Has(flags, flag) == (flags \div flag) % 2 = 1

CounterLen == 4
LengthLen == 2

\* CoseKey.parse: a map with an algorithm under 3
AlgKey == IntV(3)
IsCoseKey(x) == x.t = "dict" /\ \E e \in x.v : e[1] = AlgKey /\ e[2] # IntV(0)

Zeros(n) == [i \in 1..n |-> 0]

\* AttestedCredentialData._parse: reads of the buffer raise when it is short
CredentialOf(aaguid, id, key) ==
  IF Failed(key) \/ ~IsCoseKey(key.value) THEN Failure
  ELSE Loaded([t |-> "credential", aaguid |-> aaguid, id |-> id, key |-> key.value], key.rest)

ParseCredential(data) ==
  LET idAt == AaguidLen + LengthLen
      n    == ToNumber(SubSeq(data, AaguidLen + 1, idAt))
  IN IF Len(data) < idAt \/ Len(data) < idAt + n THEN Failure
     ELSE CredentialOf(SubSeq(data, 1, AaguidLen), SubSeq(data, idAt + 1, idAt + n),
                       DecodeFrom(From(data, idAt + n)))

\* AttestedCredentialData.create, before its bytes are parsed again
CredentialBytes(c) == c.aaguid \o BigEndian(Len(c.id), LengthLen) \o c.id \o Encode(c.key)

CreateCredential(c) == Whole(ParseCredential(CredentialBytes(c)))

\* a credential of CTAP1 has no AAGUID and its key is rebuilt as COSE
FromCtap1(keyHandle, key) == [aaguid |-> Zeros(AaguidLen), id |-> keyHandle, key |-> key]

\* unpack_from: what is kept is the credential written anew from its parts
Rewritten(p) == IF Failed(p) THEN p ELSE Loaded(CreateCredential(p.value), p.rest)
UnpackCredential(data) == Rewritten(ParseCredential(data))

CredentialAt(flags, data) ==
  IF Has(flags, AT) THEN UnpackCredential(data) ELSE Loaded(Absent, data)
ExtensionsAt(flags, data) ==
  IF Has(flags, ED) THEN DecodeFrom(data) ELSE Loaded(Absent, data)

\* the parts of bytes whose credential and extensions have been read
PartsOf(b, cred, ext) ==
  IF Failed(cred) \/ Failed(ext) THEN Failure
  ELSE Loaded([t |-> "authData", hash |-> SubSeq(b, 1, HashLen), flags |-> b[HashLen + 1],
               counter |-> ToNumber(SubSeq(b, HashLen + 2, HashLen + 1 + CounterLen)),
               cred |-> cred.value, ext |-> ext.value], ext.rest)

WithCredential(b, cred) ==
  IF Failed(cred) THEN Failure ELSE PartsOf(b, cred, ExtensionsAt(b[HashLen + 1], cred.rest))

\* AuthenticatorData(bytes): the flags say which parts follow, nothing else may
ParseAuthData(b) ==
  LET n == HashLen + 1 IN
  IF Len(b) < n + CounterLen THEN Raised
  ELSE Whole(WithCredential(b, CredentialAt(b[n], From(b, n + CounterLen))))

\* AuthenticatorData.create, before its bytes are parsed again
AuthDataBytes(c) ==
  c.hash \o <<c.flags>> \o BigEndian(c.counter, CounterLen)
  \o (IF c.cred = Absent THEN <<>> ELSE CredentialBytes(c.cred))
  \o (IF c.ext = Absent THEN <<>> ELSE Encode(c.ext))

CreateAuthData(c) == ParseAuthData(AuthDataBytes(c))

\* AttestationObject: a map of three, whose authData is parsed as well
Fmt == TextV(<<0>>)
AuthDataKey == TextV(<<1>>)
AttStmt == TextV(<<4, 1>>)
Field(d, k) == IF d.t = "dict" /\ \E e \in d.v : e[1] = k
               THEN (CHOOSE e \in d.v : e[1] = k)[2] ELSE Raised

ObjectOf(d, auth) ==
  IF Raised \in {Field(d, Fmt), auth, Field(d, AttStmt)} THEN Raised
  ELSE [t |-> "attestation", fmt |-> Field(d, Fmt), authData |-> auth, stmt |-> Field(d, AttStmt)]
ParseAttestation(d) ==
  LET data == Field(d, AuthDataKey)
  IN ObjectOf(d, IF data.t = "bytes" THEN ParseAuthData(data.v) ELSE Raised)
ParseAttestationObject(b) == ParseAttestation(Decode(b))

CreateAttestationObject(fmt, authBytes, stmt) ==
  Encode(DictV({<<Fmt, fmt>>, <<AuthDataKey, BytesV(authBytes)>>, <<AttStmt, stmt>>}))

-----------------------------------------------------------------------------
\* the flags announce the parts that are there
Announced(c) == /\ Has(c.flags, AT) <=> c.cred # Absent
                /\ Has(c.flags, ED) <=> c.ext # Absent

Holds(p, c) ==
  /\ p # Raised
  /\ <<p.hash, p.flags, p.counter, p.ext>> = <<c.hash, c.flags, c.counter, c.ext>>
  /\ c.cred # Absent => <<p.cred.aaguid, p.cred.id, p.cred.key>> = <<c.cred.aaguid, c.cred.id, c.cred.key>>

ComponentsComeBack(c) ==
  Announced(c) =>
    /\ Holds(CreateAuthData(c), c)
    /\ Holds(ParseAttestationObject(CreateAttestationObject(TextV(<<1>>), AuthDataBytes(c), DictV({}))).authData, c)

\* what is accepted is what was read: no byte is left out or read twice
WrittenFrom(p, b) == p # Raised => Announced(p) /\ AuthDataBytes(p) = b
EveryByteIsRead(b) == WrittenFrom(ParseAuthData(b), b)
=============================================================================
