---------------------------- MODULE MCApplications ----------------------------
(***************************************************************************)
(* The applications of the library, each on its own: a relying party, a    *)
(* tool that manages authenticators, a tool that stores large blobs.       *)
(* Which one a behaviour is about is chosen at first.                      *)
(***************************************************************************)
EXTENDS Fido2Server, TLC

CONSTANTS
  id1,                                   \* the ID registered before
  Platforms, rp1, rp2, c1, c2, c3, Rps, RpOf, Users, Templates, Samples, Pins,
  MaxRetries, MaxOps, MaxLost,
  BlobKeys, Blobs, NoValue, FragmentLen, MaxUnits, FirstArrays, MaxFaults

VARIABLES
  subject,
  stored, listing, templates, enrolling, pin, retries, minPin, forceChange,
  agreement, tokenOf, settings, job, context, returned, claimed, orphans, ops,
  lost,
  pc, op, offset, buf, data, result, blobArray, pending, size, seen, blobOps,
  faults

Manager == INSTANCE Management

Blob == INSTANCE LargeBlobs WITH
  Keys <- BlobKeys, Values <- Blobs, stored <- blobArray, ops <- blobOps

ASSUME ManagerGiven == Manager!ManagementAssumption
ASSUME BlobGiven == Blob!BlobAssumption

managerVars ==
  <<stored, listing, templates, enrolling, pin, retries, minPin, forceChange,
    agreement, tokenOf, settings, job, context, returned, claimed, orphans, ops,
    lost>>
blobVars ==
  <<pc, op, offset, buf, data, result, blobArray, pending, size, seen, blobOps,
    faults>>

MCFlawSets == {{}, {"origin"}, {"attestation"}, {"signature"}}

MCRegistered == <<[id |-> id1, key |-> 0]>>

\* two credentials of one relying party, one of another
MCRpOf == (c1 :> rp1) @@ (c2 :> rp1) @@ (c3 :> rp2)

\* Nothing, a duplicate, an entry that does not inflate, one that raises.
MixedArrays ==
  LET v == CHOOSE x \in Blobs : TRUE
      w == CHOOSE x \in Blobs : x # v
      k == CHOOSE x \in BlobKeys : TRUE
      E(key, val, kind) == [key |-> key, val |-> val, kind |-> kind]
  IN  {<<>>, <<E(k, v, "good"), E("other", v, "good"), E(k, w, "good")>>,
       <<E(k, v, "damaged"), E("other", w, "good")>>,
       <<E("other", v, "odd"), E(k, w, "good")>>}

Symmetry ==
  Permutations(Sessions) \cup Permutations(Platforms) \cup Permutations(Templates)

OneOf(S) == CHOOSE x \in S : TRUE

MCInit ==
  /\ subject \in {"server", "manager", "blobs"}
  /\ Init /\ Manager!Init /\ Blob!Init
  /\ subject # "manager" =>
       pin = Manager!NoPin /\ stored = [c \in {} |-> OneOf(Users)]
  /\ subject # "blobs" => blobArray = Blob!Encode(<<>>)

MCNext ==
  \/ /\ subject = "server" /\ Next
     /\ UNCHANGED <<subject, managerVars, blobVars>>
  \/ /\ subject = "manager" /\ Manager!Next
     /\ UNCHANGED <<subject, vars, blobVars>>
  \/ /\ subject = "blobs" /\ Blob!Next
     /\ UNCHANGED <<subject, vars, managerVars>>

MCSpec == MCInit /\ [][MCNext]_<<subject, vars, managerVars, blobVars>>

-------------------------------------------------------------------------------
\* CredentialManagement: a list that is returned is the list as it was when the
\* enumeration began, unless another platform began one of the same kind
\* (credman.py:168-217).
ListingIsExact == Manager!ListingIsExact

\* FPBioEnrollment: an enrolled template was returned by a capture, unless the
\* answer of that capture was lost, and the step that returns a template ID is
\* the one that enrolls the template (bio.py:132-146).
EnrollmentIsReturned == Manager!EnrollmentIsReturned

\* ClientPin: the right PIN costs no attempt, unless another platform's wrong PIN
\* came between the two exchanges (pin.py:286-327, 415-443).
RightPinIsFree == Manager!RightPinIsFree

\* LargeBlobs: what a get returns was the blob of its key in one whole array that
\* was stored while it was reading (blob.py:117-134).
GetIsHonest == Blob!GetIsHonest

\* LargeBlobs: a write replaces the array by one that was stored while its platform
\* was reading, or by nothing, with the entries of its key replaced
\* (blob.py:203-214).
CommitFromOneArray == Blob!CommitFromOneArray

\* LargeBlobs: once a write has changed the array, what was put is what a get
\* returns (blob.py:192-214).
EffectIsRead == Blob!EffectIsRead

\* LargeBlobs: a write that nothing came between is one of BlobArray's, which
\* keeps the entries of other credentials (blob.py:192-221).
UndisturbedContract == Blob!UndisturbedContract
===============================================================================
