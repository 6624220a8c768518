------------------------------ MODULE Decisions ------------------------------
(***************************************************************************)
(* The decisions of the pure parts: which RP ID belongs to an origin       *)
(* (RpId), which HID device is one of FIDO (ReportDescriptor), what is     *)
(* sent for extensions and options and what is returned (Extensions,       *)
(* WindowsOptions), and which attestation and which metadata are trusted   *)
(* (Attestation, Mds).  A behaviour is given one input; the invariants say *)
(* what is owed for it.  Inputs of the codecs are given in the same way:   *)
(* what is owed for those is in MCAlgorithms, beside the codecs.           *)
(***************************************************************************)
EXTENDS RpId, ReportDescriptor, WindowsOptions, Mds

CONSTANT Inputs     \* families of inputs, a sequence of sets

VARIABLE input

Parts == {"rpId", "descriptor", "registration", "assertion", "nativeMake", "nativeGet", "attestation", "blob"}
Codecs == {"cbor", "authData", "object", "message"}

Sequence(s) == s \in Seq({s[i] : i \in DOMAIN s})

\* prf inputs: the first of the two secrets has to be there
HasInputs(prf) ==
  /\ prf.eval # None => prf.eval[1] \in Secrets
  /\ \A c \in DOMAIN prf.byCred : prf.byCred[c][1] \in Secrets

\* what callers can give: names, paths and tables are lists; the credential the
\* filter selected is the one that signs, and one is selected if any are allowed
WellFormed(i) ==
  LET x == i.x IN
  /\ i.part \in Parts \cup Codecs
  /\ i.part = "rpId" => Sequence(x.rpId) /\ Sequence(x.origin.host) /\ Sequence(x.origin.port)
  /\ i.part = "descriptor" => Sequence(x) /\ \A n \in DOMAIN x : x[n].value \in Nat
  /\ i.part = "assertion" => x.cred \in Creds /\ x.selected = IF x.o.allow = {} THEN None ELSE x.cred
  /\ i.part \in {"nativeMake", "nativeGet"} => x.api \in Nat \ {0}
  /\ i.part = "nativeGet" => x.o.prf = None \/ HasInputs(x.o.prf)
  /\ i.part = "attestation" =>
       /\ Sequence(x.s.x5c) /\ Sequence(x.blob)
       /\ \A n \in DOMAIN x.blob : Sequence(x.blob[n].roots)
  /\ i.part = "blob" => Sequence(x.b.x5c) /\ Sequence(x.root)

ASSUME InputsAssumption == \A n \in DOMAIN Inputs : \A i \in Inputs[n] : WellFormed(i)

Of(part) == input.part = part

Init == input = [part |-> "none", x |-> None]
\* one input of one of the families
Next == Of("none") /\ \E given \in {Inputs} : \E n \in DOMAIN given : \E i \in given[n] : input' = i

-----------------------------------------------------------------------------
\* An RP ID is accepted only for an origin within it that is secure, and no RP ID
\* is a public suffix (rpid.py).
RpIdIsScoped == Of("rpId") => Scoped(input.x.rpId, input.x.origin)

\* A HID device is taken for one of FIDO only by its first usage and usage page, and
\* the sizes of its reports are those its descriptor states before each of them, in
\* whatever order (parse_report_descriptor of hid/base.py).
DescriptorsAreRead == Of("descriptor") => SizesAreStated(input.x)

\* What is sent for the extensions and options of a call is what was asked for and
\* what the authenticator, or the version of the native API, can do, and what is
\* returned is what was answered: ctap2/extensions.py with an authenticator,
\* client/windows.py and client/win_api.py with the platform.
OptionsAreHonest ==
  /\ Of("registration") => RegistrationIsHonest(input.x.o, input.x.info)
  /\ Of("assertion") => AssertionIsHonest(input.x.o, input.x.info, input.x.pin, input.x.selected,
                                          input.x.cred, input.x.hasKey)
  /\ Of("nativeMake") => NativeMakesAsAsked(input.x.o, input.x.api, input.x.capable)
  /\ Of("nativeGet") => NativeGetsAsAsked(input.x.o, input.x.api, input.x.cred)

\* find_entry gives a metadata entry only for an attestation of that model, vouched
\* for by a chain to one of its roots and not reported, and finds the one there
\* is; a blob that is verified was signed under the trust root (mds3.py and
\* attestation/).
AcceptedIsTrusted ==
  /\ Of("attestation") =>
       LET x == input.x IN /\ EntryIsTrusted(x.s, x.auth, x.cdh, x.blob, x.filters)
                           /\ TrustedIsFound(x.s, x.auth, x.cdh, x.blob, x.filters)
  /\ Of("blob") => BlobIsSigned(input.x.b, input.x.root)

Spec == Init /\ [][Next]_input
=============================================================================
