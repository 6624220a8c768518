--------------------------------- MODULE Mds ---------------------------------
(***************************************************************************)
(* fido2/mds3.py: the metadata blob and its verification, and the verifier *)
(* that looks an authenticator up in it.  An entry names its model by an   *)
(* AAGUID or by the keys of its attestation certificates, and holds the    *)
(* reports of its status and the root certificates of its model.           *)
(***************************************************************************)
EXTENDS Attestation

NoEntry == [entry |-> 0, root |-> <<>>]
ZeroAaguid == "zero"

\* filter_revoked; filter_attestation_key_compromised
NotRevoked(e) == \A r \in e.reports : r.status # "REVOKED"
NotCompromised(e, path) ==
  \A r \in e.reports : r.status = "ATTESTATION_KEY_COMPROMISE" => \A i \in DOMAIN path : path[i] # r.certificate

\* the filters given, the defaults, or none
FilteredBy(filters, filter, passes) == filter \in filters => passes

\* the tables of the verifier: the last entry under a key replaces the others
Entries(blob, filters) == {i \in DOMAIN blob : FilteredBy(filters, "entry", NotRevoked(blob[i]))}
LastOf(found) == IF found = {} THEN 0 ELSE Max(found)
EntryByAaguid(blob, filters, aaguid) == LastOf({i \in Entries(blob, filters) : blob[i].aaguid = aaguid})
EntryByKey(blob, filters, cert) == LastOf({i \in Entries(blob, filters) : cert.key \in blob[i].skis})

\* find_entry_by_chain: of the first certificate whose key is known
EntryByChain(blob, filters, path) ==
  LET known == {i \in DOMAIN path : EntryByKey(blob, filters, path[i]) # 0}
  IN IF known = {} THEN 0 ELSE EntryByKey(blob, filters, path[Min(known)])

FoundEntry(blob, filters, aaguid, path) ==
  IF aaguid # ZeroAaguid THEN EntryByAaguid(blob, filters, aaguid) ELSE EntryByChain(blob, filters, path)

\* the first root with the name of the issuer: another of that name is not tried
RootFor(e, issuer) ==
  LET named == {i \in DOMAIN e.roots : e.roots[i].subject = issuer}
  IN IF named = {} THEN <<>> ELSE <<e.roots[Min(named)]>>

\* ca_lookup; mutated: the filter of the attestation is left out
LookupUnfiltered(blob, filters, result, auth) ==
  LET i == FoundEntry(blob, filters, auth.aaguid, result.path) IN
  IF i = 0 \/ ~blob[i].statement THEN NoEntry
  ELSE [entry |-> i, root |-> RootFor(blob[i], result.path[Len(result.path)].issuer)]
CaLookup(blob, filters, result, auth) ==
  LET i == FoundEntry(blob, filters, auth.aaguid, result.path) IN
  IF i = 0 THEN NoEntry
  ELSE IF ~FilteredBy(filters, "attestation", NotCompromised(blob[i], result.path)) THEN NoEntry
  ELSE IF ~blob[i].statement THEN NoEntry
  ELSE [entry |-> i, root |-> RootFor(blob[i], result.path[Len(result.path)].issuer)]

\* a matched entry reads the last certificate of the path, which may be empty
NoPath(blob, filters, result, auth) ==
  LET i == FoundEntry(blob, filters, auth.aaguid, result.path)
  IN i # 0 /\ result.path = <<>> /\ blob[i].statement

Refusal(error) == [error |-> error, entry |-> 0]

\* verify_attestation, once the statement is verified: the path, with the root that
\* was looked up, has to be a chain; an entry of 0 goes with an error
OfPath(path, ca) ==
  IF ca.root = <<>> THEN Refusal("UntrustedAttestation")
  ELSE LET chain == ChainError(path \o ca.root) IN
       IF chain = "none" THEN [error |-> "none", entry |-> ca.entry]
       ELSE Refusal(IF chain = "InvalidSignature" THEN "UntrustedAttestation" ELSE chain)
OfStatement(result, auth, blob, filters) ==
  IF result.error # "none" THEN Refusal(result.error)
  ELSE IF NoPath(blob, filters, result, auth) THEN Refusal("IndexError")
  ELSE OfPath(result.path, CaLookup(blob, filters, result, auth))

VerifyAttestation(s, auth, cdh, blob, filters) ==
  OfStatement(VerifyStatement(s, auth, cdh, DefaultTypes), auth, blob, filters)

\* find_entry: what verify_attestation raises passes through, but for Untrusted;
\* 0 stands for no entry
Untrusting(v) == IF v.error = "UntrustedAttestation" THEN [error |-> "none", entry |-> 0] ELSE v
FindEntry(s, auth, cdh, blob, filters) == Untrusting(VerifyAttestation(s, auth, cdh, blob, filters))

\* parse_blob: without a trust root nothing is verified
BlobMessage(b) == <<b.alg, b.x5c, b.payload>>
ParseBlob(b, root) ==
  LET chain == b.x5c \o root IN
  IF root = <<>> THEN "none"
  ELSE FirstError(<<ChainError(chain), LeafSigns(b.alg, chain[1], BlobMessage(b), b.sig)>>)

-----------------------------------------------------------------------------
(* What acceptance has to mean *)

\* a way from the leaf to a root, each signed by the next
TrustedChain(path, root) ==
  \A i \in DOMAIN path : path[i].signer = (IF i = Len(path) THEN root.key ELSE path[i + 1].key)

\* what the holder of the leaf's key, or its issuer, vouches for
Vouched(s, auth, cdh) ==
  LET leaf == s.x5c[1]
      signs(m) == s.sig.key = leaf.key /\ s.sig.over = m
  IN CASE s.fmt = "packed" -> signs(<<auth, cdh>>)
       [] s.fmt = "fido-u2f" -> signs(<<"u2f", auth.rpIdHash, cdh, auth.id, auth.key.point>>)
       [] s.fmt = "android-safetynet" -> signs(Token(s)) /\ s.nonce = <<auth, cdh>>
       [] s.fmt = "apple" -> leaf.nonce = <<auth, cdh>>
       [] s.fmt = "tpm" -> /\ signs(s.certInfo)
                           /\ s.certInfo.extra[2] = <<auth, cdh>>
                           /\ s.certInfo.name[2] = s.pubArea
                           /\ s.pubArea.unique = auth.key.point.id[1]

NamesModel(e, auth, path) ==
  IF auth.aaguid = ZeroAaguid THEN \E i \in DOMAIN path : path[i].key \in e.skis ELSE e.aaguid = auth.aaguid

\* find_entry returns an entry only for the model of an attestation that is
\* vouched for up to a root of that entry, and that no report speaks against
EntryIsTrusted(s, auth, cdh, blob, filters) ==
  LET f == FindEntry(s, auth, cdh, blob, filters)
      e == blob[f.entry]
  IN f.entry # 0 =>
       /\ NamesModel(e, auth, s.x5c)
       /\ Vouched(s, auth, cdh)
       /\ \E i \in DOMAIN e.roots : TrustedChain(s.x5c, e.roots[i])
       /\ "entry" \in filters => \A r \in e.reports : r.status # "REVOKED"
       /\ "attestation" \in filters =>
            \A i \in DOMAIN s.x5c : [status |-> "ATTESTATION_KEY_COMPROMISE", certificate |-> s.x5c[i]] \notin e.reports

\* verify_x509_chain knows no other keys that sign certificates
CanSign(cert) == cert.key.kind \in {"rsa", "ec"}

\* an entry that nothing speaks against is found when no other comes before it
TrustedIsFound(s, auth, cdh, blob, filters) ==
  LET result == VerifyStatement(s, auth, cdh, DefaultTypes) IN
  \A i \in DOMAIN blob :
    (/\ result.error = "none" /\ s.x5c # <<>> /\ result.path # <<>> /\ blob[i].statement
     /\ \A j \in DOMAIN blob : j # i => ~NamesModel(blob[j], auth, s.x5c)
     /\ NamesModel(blob[i], auth, s.x5c)
     /\ NotRevoked(blob[i]) /\ NotCompromised(blob[i], s.x5c)
     /\ Len(blob[i].roots) = 1 /\ blob[i].roots[1].subject = s.x5c[Len(s.x5c)].issuer
     /\ TrustedChain(s.x5c, blob[i].roots[1])
     /\ CanSign(blob[i].roots[1]) /\ \A j \in DOMAIN s.x5c : j # 1 => CanSign(s.x5c[j]))
    => FindEntry(s, auth, cdh, blob, filters).entry = i

\* a blob that is verified was signed by a leaf that leads to the trust root
BlobIsSigned(b, root) ==
  (root # <<>> /\ ParseBlob(b, root) = "none") =>
    LET chain == b.x5c \o root IN
    b.sig = [key |-> chain[1].key, alg |-> b.alg, over |-> BlobMessage(b)] /\ TrustedChain(b.x5c, root[1])
=============================================================================
