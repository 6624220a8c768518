-------------------------- MODULE MCManagement_proofs --------------------------
(***************************************************************************)
(* Theorems of the programs that manage one authenticator (Management),    *)
(* for any number of programs, relying parties, credentials, templates,    *)
(* PINs, operations and lost answers.                                      *)
(***************************************************************************)
EXTENDS MCApplications, SequenceTheorems, FiniteSetTheorems, TLAPS

LEMMA ManagerRuns ==
  ASSUME [MCNext]_<<subject, vars, managerVars, blobVars>>
  PROVE  [Manager!Next]_managerVars
BY DEF MCNext, managerVars

LEMMA ManagerStarts == MCInit => Manager!Init
BY DEF MCInit

-------------------------------------------------------------------------------
(* Fingerprints: what is enrolled and what was returned                    *)

\* An enrollment in progress needs at least one more sample: the last one is
\* what enrolls the template.
EnrollType ==
  /\ context \in [Platforms -> [template : Templates \cup {"none"},
                                remaining : Int]]
  /\ enrolling.template # "none" => enrolling.left \in Nat \ {0}

LEMMA TemplateClaimed ==
  ASSUME NEW p, NEW t, NEW left \in Nat \ {0}, NEW status \in Manager!Feedback,
         Manager!Captured(t, left, status),
         Manager!Answered(p, t, left, status),
         Manager!EnrolledIsReturned
  PROVE  /\ Manager!EnrolledIsReturned'
         /\ claimed' \ claimed \subseteq templates'
         /\ enrolling'.template # "none" => enrolling'.left \in Nat \ {0}
<1>0. \/ /\ status = "bad"
         /\ enrolling' = [template |-> t, left |-> left] /\ templates' = templates
      \/ /\ status = "full"
         /\ enrolling' = Manager!NoEnrollment /\ templates' = templates
      \/ /\ status = "good" /\ left = 1
         /\ enrolling' = Manager!NoEnrollment /\ templates' = templates \cup {t}
      \/ /\ status = "good" /\ left # 1
         /\ enrolling' = [template |-> t, left |-> left - 1]
         /\ templates' = templates
  <2>1. CASE status = "bad"
    BY <2>1 DEF Manager!Captured
  <2>2. CASE status = "full"
    BY <2>2 DEF Manager!Captured
  <2>3. CASE status = "good"
    BY <2>3 DEF Manager!Captured
  <2> QED BY <2>1, <2>2, <2>3 DEF Manager!Feedback
<1>a. enrolling'.template # "none" => enrolling'.left \in Nat \ {0}
  BY <1>0 DEF Manager!NoEnrollment
<1> USE DEF Manager!EnrolledIsReturned
<1>1. CASE Manager!Capture(p, t, Manager!Remaining(left, status), status)
           /\ UNCHANGED <<orphans, lost>>
  <2>1. claimed' = IF status = "good" /\ Manager!Remaining(left, status) = 0
                   THEN claimed \cup {t} ELSE claimed
    BY <1>1 DEF Manager!Capture, Manager!CaptureIf
  <2>2. status = "good" => (Manager!Remaining(left, status) = 0 <=> left = 1)
    BY DEF Manager!Remaining
  <2> QED BY <1>0, <1>1, <1>a, <2>1, <2>2
<1>2. CASE orphans' = orphans \cup (templates' \ templates) /\ claimed' = claimed
  BY <1>2, <1>a
<1> QED BY <1>1, <1>2 DEF Manager!Answered

\* What none of the operations on fingerprints touches.
LEMMA FingerprintsAside ==
  ASSUME Manager!CredentialNext \/ Manager!PinNext \/ UNCHANGED managerVars
  PROVE  UNCHANGED <<templates, enrolling, context, claimed, orphans>>
<1> USE DEF Manager!bioState
<1>1. CASE UNCHANGED managerVars
  BY <1>1 DEF managerVars
<1>2. CASE Manager!CredentialNext
  BY <1>2 DEF Manager!CredentialNext, Manager!EnumerateBegin,
     Manager!EnumerateReturn, Manager!EnumerateNext, Manager!GetMetadata,
     Manager!DeleteCred, Manager!UpdateUserInfo, Manager!Reads, Manager!Single,
     Manager!device
<1>3. CASE Manager!PinNext
  <2> USE DEF Manager!Single, Manager!Finishes
  <2>1. ASSUME NEW p \in Platforms, Manager!SetPin(p) \/ Manager!ChangePin(p)
                                     \/ Manager!GetPinToken(p)
        PROVE  UNCHANGED <<templates, enrolling, context, claimed, orphans>>
    BY <2>1 DEF Manager!SetPin, Manager!ChangePin, Manager!GetPinToken,
       Manager!NewPin, Manager!Refuse, Manager!WrongPin, Manager!RightButRefused
  <2>2. ASSUME NEW p \in Platforms, NEW length, NEW force,
               Manager!EnableEnterpriseAttestation(p) \/ Manager!ToggleAlwaysUv(p)
               \/ Manager!SetMinPinLength(p, length, force) \/ Manager!GetRetries(p)
        PROVE  UNCHANGED <<templates, enrolling, context, claimed, orphans>>
    BY <2>2 DEF Manager!EnableEnterpriseAttestation, Manager!ToggleAlwaysUv,
       Manager!SetMinPinLength, Manager!GetRetries, Manager!Reads
  <2>3. ASSUME NEW p \in Platforms, NEW op1, NEW old, NEW new,
               Manager!KeyAgreement(p, op1, old, new) \/ Manager!PinRejectedByHost(p)
        PROVE  UNCHANGED <<templates, enrolling, context, claimed, orphans>>
    BY <2>3 DEF Manager!KeyAgreement, Manager!KeyAgreementOf,
       Manager!PinRejectedByHost
  <2> QED BY <1>3, <2>1, <2>2, <2>3 DEF Manager!PinNext
<1> QED BY <1>1, <1>2, <1>3

EnrollInv == EnrollType /\ Manager!EnrolledIsReturned

\* Every step keeps what is enrolled among what was returned or lost, and a
\* template ID is returned by the step that enrolls the template.
LEMMA EnrollmentKept ==
  ASSUME EnrollInv, [Manager!Next]_managerVars
  PROVE  EnrollInv' /\ claimed' \ claimed \subseteq templates'
<1> DEFINE Goal == EnrollInv' /\ claimed' \ claimed \subseteq templates'
<1> USE DEF EnrollInv, EnrollType
<1>1. CASE UNCHANGED <<templates, enrolling, context, claimed, orphans>>
  BY <1>1 DEF Manager!EnrolledIsReturned
<1>2. ASSUME NEW p \in Platforms, NEW t \in Templates \cup {"none"},
             NEW left \in Nat \ {0}, NEW status \in Manager!Feedback,
             Manager!Captured(t, left, status), Manager!Answered(p, t, left, status)
      PROVE  Goal
  <2>1. context' \in [Platforms -> [template : Templates \cup {"none"},
                                    remaining : Int]]
    <3>1. Manager!Remaining(left, status) \in Int
      BY DEF Manager!Remaining, Manager!Feedback
    <3>2. \/ context' = context
          \/ context' = [context EXCEPT ![p] = [template |-> t,
                                  remaining |-> Manager!Remaining(left, status)]]
      BY <1>2 DEF Manager!Answered, Manager!Capture, Manager!CaptureIf
    <3> QED BY <3>1, <3>2
  <2> QED BY <1>2, <2>1, TemplateClaimed
<1>3. ASSUME NEW p \in Platforms, NEW status \in Manager!Feedback,
             Manager!EnrollBegin(p, status)
      PROVE  Goal
  <2>1. CASE Manager!Authorized(p)
    <3>1. PICK t \in Templates, samples \in Samples :
            /\ Manager!Captured(t, samples, status)
            /\ Manager!Answered(p, t, samples, status)
      BY <1>3, <2>1 DEF Manager!EnrollBegin
    <3>2. samples \in Nat \ {0}
      BY ManagerGiven DEF Manager!ManagementAssumption
    <3> QED BY <1>2, <3>1, <3>2
  <2>2. CASE ~Manager!Authorized(p)
    BY <1>1, <1>3, <2>2 DEF Manager!EnrollBegin, Manager!Refused, Manager!bioState
  <2> QED BY <2>1, <2>2
<1>4. ASSUME NEW p \in Platforms, NEW status \in Manager!Feedback,
             Manager!EnrollCaptureNext(p, status)
      PROVE  Goal
  <2>1. CASE Manager!Authorized(p) /\ enrolling.template = context[p].template
    <3>1. /\ Manager!Captured(enrolling.template, enrolling.left, status)
          /\ Manager!Answered(p, enrolling.template, enrolling.left, status)
          /\ enrolling.template # "none"
      BY <1>4, <2>1 DEF Manager!EnrollCaptureNext
    <3>2. enrolling.template \in Templates \cup {"none"}
      BY <2>1
    <3> QED BY <1>2, <3>1, <3>2
  <2>2. CASE ~(Manager!Authorized(p) /\ enrolling.template = context[p].template)
    BY <1>1, <1>4, <2>2 DEF Manager!EnrollCaptureNext, Manager!Refused,
       Manager!bioState
  <2> QED BY <2>1, <2>2
<1>5. ASSUME NEW p \in Platforms, Manager!EnrollCancel(p)
      PROVE  Goal
  BY <1>5 DEF Manager!EnrollCancel, Manager!NoEnrollment, Manager!EnrolledIsReturned
<1>6. ASSUME NEW p \in Platforms, Manager!EnumerateEnrollments(p)
      PROVE  Goal
  BY <1>1, <1>6 DEF Manager!EnumerateEnrollments, Manager!Reads, Manager!Single,
     Manager!bioState
<1>7. ASSUME NEW p \in Platforms, NEW t \in Templates,
             Manager!RemoveEnrollment(p, t)
      PROVE  Goal
  BY <1>7 DEF Manager!RemoveEnrollment, Manager!Single, Manager!EnrolledIsReturned
<1>8. CASE Manager!BioNext
  BY <1>3, <1>4, <1>5, <1>6, <1>7, <1>8 DEF Manager!BioNext
<1> QED BY <1>1, <1>8, FingerprintsAside DEF Manager!Next

LEMMA EnrollmentStarts == Manager!Init => EnrollInv
BY DEF Manager!Init, EnrollInv, EnrollType, Manager!EnrolledIsReturned,
   Manager!NoEnrollment, Manager!NoContext

\* A template that an authenticator has was returned by the capture that
\* completed it, or the answer of that capture was lost: no order of the
\* programs' begins, captures and cancels leaves another one.  And the step that
\* returns a template ID is the one that enrolls the template: the context takes
\* what remains from the answer, never from what it remembers of an enrollment
\* that may no longer be there (bio.py:132-146).
THEOREM EnrollsWhatItReturns == MCSpec => EnrollmentIsReturned
<1> DEFINE Step == Manager!EnrolledIsReturned' /\ claimed' \ claimed \subseteq templates'
<1>1. MCInit => EnrollInv
  BY ManagerStarts, EnrollmentStarts
<1>2. EnrollInv /\ [MCNext]_<<subject, vars, managerVars, blobVars>>
        => EnrollInv' /\ Step
  BY ManagerRuns, EnrollmentKept DEF EnrollInv
<1>3. Step => [Step]_(Manager!vars)
  OBVIOUS
<1> HIDE DEF Step
<1>4. MCSpec => [][Step]_(Manager!vars)
  BY <1>1, <1>2, <1>3, PTL DEF MCSpec
<1> QED BY <1>4 DEF Step, EnrollmentIsReturned, Manager!EnrollmentIsReturned

-------------------------------------------------------------------------------
(* Listings and PINs: what an operation of several exchanges finds         *)

PinJobs == [op : Manager!PinOps, old : Pins, new : Pins, secret : Nat,
            voided : BOOLEAN]

Jobs == {Manager!Idle} \cup PinJobs \cup Manager!ListJob

Results == {Manager!Done, Manager!Raised} \cup Manager!ListJob

StoredType ==
  DOMAIN stored \subseteq Manager!Credentials /\ \A c \in DOMAIN stored : stored[c] \in Users

ManagerType ==
  /\ StoredType
  /\ listing \in [kind : Manager!Kinds \cup {"none"}, rest : Seq(Manager!Entry)]
  /\ job \in [Platforms -> Jobs] /\ returned \in [Platforms -> Results]
  /\ agreement \in Nat /\ retries \in 0..MaxRetries

\* As long as no other program's wrong PIN came between, the secret of an
\* operation is agreed on the authenticator's key.
SecretsHold ==
  \A p \in Platforms :
    job[p].op \in Manager!PinOps /\ ~job[p].voided => job[p].secret = agreement

\* A listing that nobody took over and that the authenticator goes on with
\* has as much ahead of it as it was promised, and then it is all that is
\* missing; or less, because another program took some of it, and then its
\* last next fails.
InStep(j) ==
  j.op \in Manager!Kinds /\ ~j.stolen =>
    /\ j.left = 0 => j.got = j.want
    /\ listing.kind = j.op =>
         /\ Len(listing.rest) <= j.left
         /\ Len(listing.rest) = j.left => j.got \o listing.rest = j.want

ManagerInv ==
  /\ ManagerType
  /\ SecretsHold
  /\ \A p \in Platforms : InStep(job[p])
  /\ ListingIsExact

LEMMA SameFiniteSets ==
  ASSUME NEW S
  PROVE  /\ Manager!Cardinality(S) = Cardinality(S)
         /\ Manager!IsFiniteSet(S) => IsFiniteSet(S)
<1>1. Manager!Cardinality(S) = Cardinality(S)
  BY DEF Manager!Cardinality, Cardinality
<1>2. Manager!IsFiniteSet(S) => IsFiniteSet(S)
  BY DEF Manager!IsFiniteSet, IsFiniteSet
<1> QED BY <1>1, <1>2

LEMMA SetBecomesSequence ==
  ASSUME NEW S, IsFiniteSet(S)
  PROVE  Manager!SetToSeq(S) \in Seq(S)
<1>1. Cardinality(S) \in Nat /\ ExistsBijection(1..Cardinality(S), S)
  BY FS_CardinalityType
<1>2. PICK f \in [1..Cardinality(S) -> S] : IsInjective(f)
  BY <1>1 DEF ExistsBijection, Bijection, Injection
<1>3. Manager!SetToSeq(S) \in [1..Cardinality(S) -> S]
  <2> DEFINE Inj(g) == Manager!IsInjective(g)
             D == [1..Manager!Cardinality(S) -> S]
  <2>1. D = [1..Cardinality(S) -> S]
    BY SameFiniteSets
  <2>2. f \in D /\ Inj(f)
    BY <1>2, <2>1 DEF Manager!IsInjective, IsInjective
  <2>3. Manager!SetToSeq(S) = CHOOSE g \in D : Inj(g)
    BY DEF Manager!SetToSeq
  <2> HIDE DEF Inj, D
  <2>4. (CHOOSE g \in D : Inj(g)) \in D
    BY <2>2
  <2> QED BY <2>1, <2>3, <2>4
<1> QED BY <1>1, <1>3

LEMMA ItemsAreEntries ==
  ASSUME StoredType, NEW kind, NEW rp
  PROVE  Manager!Items(kind, rp) \in Seq(Manager!Entry)
<1>1. IsFiniteSet(DOMAIN stored)
  <2>1. IsFiniteSet(Manager!Credentials)
    BY ManagerGiven, SameFiniteSets DEF Manager!ManagementAssumption
  <2> QED BY <2>1, FS_Subset DEF StoredType
<1>2. ASSUME NEW T, NEW D \in SUBSET DOMAIN stored, NEW f \in [D -> T],
             \A t \in T : \E c \in D : f[c] = t
      PROVE  IsFiniteSet(T)
  BY <1>1, <1>2, FS_Subset, FS_Surjection DEF Surjection
<1>3. /\ IsFiniteSet({RpOf[c] : c \in DOMAIN stored})
      /\ {RpOf[c] : c \in DOMAIN stored} \subseteq Manager!Entry
  <2> DEFINE T == {RpOf[c] : c \in DOMAIN stored}
             f == [c \in DOMAIN stored |-> RpOf[c]]
  <2>1. f \in [DOMAIN stored -> T] /\ \A t \in T : \E c \in DOMAIN stored : f[c] = t
    OBVIOUS
  <2>2. IsFiniteSet(T)
    BY <1>2, <2>1
  <2>3. \A c \in DOMAIN stored : RpOf[c] \in Rps
    BY ManagerGiven DEF Manager!ManagementAssumption, StoredType
  <2> QED BY <2>2, <2>3 DEF Manager!Entry
<1>4. ASSUME NEW D \in SUBSET DOMAIN stored
      PROVE  /\ IsFiniteSet({[credential |-> c, user |-> stored[c]] : c \in D})
             /\ {[credential |-> c, user |-> stored[c]] : c \in D}
                  \subseteq Manager!Entry
  <2> DEFINE T == {[credential |-> c, user |-> stored[c]] : c \in D}
             f == [c \in D |-> [credential |-> c, user |-> stored[c]]]
  <2>1. f \in [D -> T] /\ \A t \in T : \E c \in D : f[c] = t
    OBVIOUS
  <2>2. IsFiniteSet(T)
    BY <1>2, <2>1
  <2>3. \A c \in D : c \in Manager!Credentials /\ stored[c] \in Users
    BY DEF StoredType
  <2> QED BY <2>2, <2>3 DEF Manager!Entry
<1>5. ASSUME NEW T, IsFiniteSet(T), T \subseteq Manager!Entry
      PROVE  Manager!SetToSeq(T) \in Seq(Manager!Entry)
  BY <1>5, SetBecomesSequence, SeqMonotonic
<1>6. {c \in DOMAIN stored : RpOf[c] = rp} \in SUBSET DOMAIN stored
  OBVIOUS
<1> QED BY <1>3, <1>4, <1>5, <1>6 DEF Manager!Items

\* What a next moves from the front of the rest to the end of the list.
LEMMA MovedAlong ==
  ASSUME NEW S, NEW s \in Seq(S), NEW t \in Seq(S)
  PROVE  /\ t = <<>> => s \o t = s
         /\ t # <<>> => /\ Append(s, Head(t)) \in Seq(S) /\ Tail(t) \in Seq(S)
                        /\ Len(Append(s, Head(t))) = Len(s) + 1
                        /\ Len(Tail(t)) = Len(t) - 1
                        /\ Append(s, Head(t)) \o Tail(t) = s \o t
<1>1. t = <<>> => s \o t = s
  BY ConcatEmptySeq
<1>2. ASSUME t # <<>>
      PROVE  /\ Append(s, Head(t)) \in Seq(S) /\ Tail(t) \in Seq(S)
             /\ Len(Append(s, Head(t))) = Len(s) + 1
             /\ Len(Tail(t)) = Len(t) - 1
             /\ Append(s, Head(t)) \o Tail(t) = s \o t
  <2>1. Head(t) \in S /\ Tail(t) \in Seq(S) /\ Len(Tail(t)) = Len(t) - 1
    BY <1>2, HeadTailProperties
  <2>2. Append(s, Head(t)) \in Seq(S) /\ Len(Append(s, Head(t))) = Len(s) + 1
        /\ Append(s, Head(t)) = s \o <<Head(t)>> /\ <<Head(t)>> \in Seq(S)
    BY <2>1, AppendProperties, AppendIsConcat
  <2>3. <<Head(t)>> \o Tail(t) = t
    <3>1. Len(t) \in Nat \ {0}
      BY <1>2, EmptySeq
    <3>2. \A i \in 1..Len(t) : (<<Head(t)>> \o Tail(t))[i] = t[i]
      BY <2>1, <2>2, <3>1
    <3>3. <<Head(t)>> \o Tail(t) \in Seq(S) /\ Len(<<Head(t)>> \o Tail(t)) = Len(t)
      BY <2>1, <2>2, <3>1
    <3> QED BY <3>2, <3>3, SeqEqual
  <2>4. (s \o <<Head(t)>>) \o Tail(t) = s \o (<<Head(t)>> \o Tail(t))
    BY <2>1, <2>2, ConcatAssociative
  <2> QED BY <2>1, <2>2, <2>3, <2>4
<1> QED BY <1>1, <1>2

\* An operation of one exchange, a first exchange with a secret agreed on the
\* authenticator's key, an operation that ends: each either leaves the
\* enumeration alone or ends it.
LEMMA OneExchangeKept ==
  ASSUME ManagerInv, NEW p \in Platforms,
         StoredType',
         listing' \in {listing, Manager!NoListing},
         agreement' = agreement, retries' \in 0..MaxRetries,
         \/ job' = job
         \/ job' = [job EXCEPT ![p] = Manager!Idle]
         \/ \E j \in PinJobs : /\ j.secret = agreement
                               /\ job' = [job EXCEPT ![p] = j],
         \/ returned' = returned
         \/ returned' = [returned EXCEPT ![p] = Manager!Done]
         \/ returned' = [returned EXCEPT ![p] = Manager!Raised]
  PROVE  ManagerInv'
<1> USE DEF ManagerInv, ManagerType
<1>1. PICK j \in {job[p], Manager!Idle} \cup {k \in PinJobs : k.secret = agreement} :
        job' = [job EXCEPT ![p] = j]
  OBVIOUS
<1>2. job' \in [Platforms -> Jobs]
  BY <1>1 DEF Jobs
<1>3. listing' \in [kind : Manager!Kinds \cup {"none"}, rest : Seq(Manager!Entry)]
  <2>1. <<>> \in Seq(Manager!Entry)
    OBVIOUS
  <2>2. Manager!NoListing \in [kind : Manager!Kinds \cup {"none"},
                               rest : Seq(Manager!Entry)]
    BY <2>1 DEF Manager!NoListing
  <2> QED BY <2>2
<1>4. returned' \in [Platforms -> Results]
  BY DEF Results
<1>5. SecretsHold'
  <2>1. Manager!Idle.op \notin Manager!PinOps
    BY DEF Manager!Idle, Manager!PinOps
  <2> QED BY <1>1, <2>1 DEF SecretsHold
<1>6. \A q \in Platforms : InStep(job[q])'
  <2>1. \A k \in PinJobs \cup {Manager!Idle} : k.op \notin Manager!Kinds
    BY DEF PinJobs, Manager!Idle, Manager!PinOps, Manager!Kinds
  <2>2. ASSUME NEW q \in Platforms
        PROVE  job'[q] = job[q] \/ job'[q].op \notin Manager!Kinds
    BY <1>1, <2>1
  <2>3. listing' = listing \/ listing'.kind \notin Manager!Kinds
    BY DEF Manager!NoListing, Manager!Kinds
  <2> QED BY <2>2, <2>3 DEF InStep
<1>7. ListingIsExact'
  <2>1. ASSUME NEW q \in Platforms
        PROVE  \/ returned'[q] = returned[q]
               \/ returned'[q].op \notin Manager!Kinds
    BY DEF Manager!Done, Manager!Raised, Manager!Kinds
  <2> QED BY <2>1 DEF ListingIsExact, Manager!ListingIsExact
<1> QED BY <1>2, <1>3, <1>4, <1>5, <1>6, <1>7

\* A begin: whoever was in the middle of a listing of its kind has lost it.
LEMMA BeginKept ==
  ASSUME ManagerInv, NEW p \in Platforms, NEW kind \in Manager!Kinds, NEW rp,
         Manager!EnumerateBegin(p, kind, rp)
  PROVE  ManagerInv' /\ retries' = retries
<1> DEFINE items == Manager!Items(kind, rp)
<1> USE DEF ManagerInv, ManagerType, Manager!credState, Manager!pinState
<1>0. items \in Seq(Manager!Entry)
  BY ItemsAreEntries
<1>1. UNCHANGED <<stored, agreement, retries>>
  BY DEF Manager!EnumerateBegin
<1>2. CASE Manager!BeginRefused(p, kind, rp)
  <2>1. /\ listing' = Manager!NoListing /\ job' = job
        /\ returned' = [returned EXCEPT ![p] = Manager!Raised]
    BY <1>2 DEF Manager!EnumerateBegin, Manager!Discards, Manager!Returns
  <2> QED BY <1>1, <2>1, OneExchangeKept DEF StoredType
<1>3. CASE ~Manager!BeginRefused(p, kind, rp) /\ items = <<>>
  <2> DEFINE none == Manager!Listing(kind, <<>>, 0, items)
  <2>1. /\ listing' = Manager!NoListing /\ job' = job
        /\ returned' = [returned EXCEPT ![p] = none]
    BY <1>3 DEF Manager!EnumerateBegin, Manager!Discards, Manager!Returns
  <2>2. none \in Manager!ListJob /\ none.got = none.want
    BY <1>0, <1>3 DEF Manager!Listing, Manager!ListJob
  <2>3. /\ listing' \in [kind : Manager!Kinds \cup {"none"}, rest : Seq(Manager!Entry)]
        /\ listing'.kind \notin Manager!Kinds
    BY <1>0, <1>3, <2>1 DEF Manager!NoListing, Manager!Kinds
  <2>4. returned' \in [Platforms -> Results]
    BY <2>1, <2>2 DEF Results
  <2>5. \A q \in Platforms : InStep(job[q])'
    BY <2>1, <2>3 DEF InStep
  <2>6. ListingIsExact'
    BY <2>1, <2>2 DEF ListingIsExact, Manager!ListingIsExact
  <2> QED BY <1>1, <2>1, <2>3, <2>4, <2>5, <2>6 DEF StoredType, SecretsHold
<1>4. CASE ~Manager!BeginRefused(p, kind, rp) /\ items # <<>>
  <2> DEFINE begun == Manager!Listing(kind, <<Head(items)>>, Len(items) - 1, items)
  <2>1. /\ listing' = [kind |-> kind, rest |-> Tail(items)]
        /\ job' = [Manager!Stolen(p, kind) EXCEPT ![p] = begun]
        /\ returned' = returned
    BY <1>4 DEF Manager!EnumerateBegin
  <2>2. /\ <<Head(items)>> \in Seq(Manager!Entry) /\ Tail(items) \in Seq(Manager!Entry)
        /\ Len(Tail(items)) = Len(items) - 1 /\ Len(items) \in Nat \ {0}
        /\ <<Head(items)>> \o Tail(items) = items
        /\ Len(Tail(items)) = 0 => <<Head(items)>> = items
    <3>1. <<>> \in Seq(Manager!Entry) /\ Append(<<>>, Head(items)) = <<Head(items)>>
      BY <1>0, <1>4, HeadTailProperties
    <3>2. <<>> \o items = items
      BY <1>0, ConcatEmptySeq
    <3>3. Len(items) \in Nat \ {0}
      BY <1>0, <1>4, EmptySeq
    <3>4. Len(Tail(items)) = 0 => <<Head(items)>> \o Tail(items) = <<Head(items)>>
      BY <1>0, <1>4, <3>1, MovedAlong, EmptySeq
    <3> QED BY <1>0, <1>4, <3>1, <3>2, <3>3, <3>4, MovedAlong
  <2> HIDE DEF items
  <2>3. begun \in Manager!ListJob /\ begun.op = kind /\ ~begun.stolen
        /\ begun.left = Len(items) - 1 /\ begun.want = items
        /\ begun.got = <<Head(items)>>
    BY <1>0, <2>2 DEF Manager!Listing, Manager!ListJob
  <2> HIDE DEF begun
  <2>4. ASSUME NEW q \in Platforms, q # p
        PROVE  /\ job'[q] \in Jobs
               /\ \/ job'[q] = job[q] /\ job[q].op # kind
                  \/ /\ job[q] \in Manager!ListJob /\ job'[q].stolen
                     /\ job'[q].op = kind
    <3>1. job'[q] = Manager!Stolen(p, kind)[q]
      BY <2>1, <2>4 DEF Manager!Stolen
    <3>2. CASE job[q].op = kind
      <4>1. job[q] \in Manager!ListJob
        BY <3>2 DEF Jobs, PinJobs, Manager!Idle, Manager!PinOps, Manager!Kinds
      <4>2. job'[q] = [job[q] EXCEPT !.stolen = TRUE]
        BY <2>4, <3>1, <3>2 DEF Manager!Stolen
      <4> QED BY <3>2, <4>1, <4>2 DEF Jobs, Manager!ListJob
    <3>3. CASE job[q].op # kind
      BY <2>4, <3>1, <3>3 DEF Manager!Stolen
    <3> QED BY <3>2, <3>3
  <2>5. job'[p] = begun
    BY <2>1 DEF Manager!Stolen
  <2>6. job' \in [Platforms -> Jobs]
    <3>1. \A q \in Platforms : job'[q] \in Jobs
      BY <2>3, <2>4, <2>5 DEF Jobs
    <3>2. job' = [q \in Platforms |-> job'[q]]
      BY <2>1 DEF Manager!Stolen
    <3> QED BY <3>1, <3>2
  <2>7. SecretsHold'
    <3>1. kind \notin Manager!PinOps
      BY DEF Manager!Kinds, Manager!PinOps
    <3> QED BY <1>1, <2>3, <2>4, <2>5, <3>1 DEF SecretsHold
  <2>8. \A q \in Platforms : InStep(job[q])'
    <3>1. InStep(job[p])'
      <4>1. /\ Len(Tail(items)) <= begun.left
            /\ begun.left = 0 => begun.got = begun.want
            /\ begun.got \o Tail(items) = begun.want
        BY <2>2, <2>3
      <4>2. listing'.rest = Tail(items)
        BY <2>1
      <4>3. Len(listing'.rest) <= begun.left /\ begun.got \o listing'.rest = begun.want
        BY <4>1, <4>2, Zenon
      <4> QED BY <2>5, <4>1, <4>3 DEF InStep
    <3>2. ASSUME NEW q \in Platforms, q # p
          PROVE  InStep(job[q])'
      BY <2>1, <2>4, <3>2 DEF InStep
    <3> QED BY <3>1, <3>2
  <2>9. listing' \in [kind : Manager!Kinds \cup {"none"}, rest : Seq(Manager!Entry)]
    BY <2>1, <2>2
  <2> QED BY <1>1, <2>1, <2>6, <2>7, <2>8, <2>9 DEF StoredType, ListingIsExact,
          Manager!ListingIsExact
<1> QED BY <1>2, <1>3, <1>4

\* The next entry goes to whoever asks: a platform of the same kind is left
\* with less than it was promised, and so are its nexts.
LEMMA NextKept ==
  ASSUME ManagerInv, NEW p \in Platforms, Manager!EnumerateNext(p)
  PROVE  ManagerInv' /\ retries' = retries
<1> USE DEF ManagerInv, ManagerType, Manager!credState, Manager!pinState
<1>1. UNCHANGED <<stored, agreement, retries>>
  BY DEF Manager!EnumerateNext
<1>2. job[p] \in Manager!ListJob /\ job[p].left > 0
  BY DEF Manager!EnumerateNext, Jobs, PinJobs, Manager!Idle, Manager!PinOps,
     Manager!Kinds
<1>3. CASE ~(listing.kind = job[p].op /\ listing.rest # <<>>)
  <2>1. /\ listing' = Manager!NoListing /\ job' = [job EXCEPT ![p] = Manager!Idle]
        /\ returned' = [returned EXCEPT ![p] = Manager!Raised]
    BY <1>3 DEF Manager!EnumerateNext, Manager!Discards, Manager!NextFails,
       Manager!Returns
  <2> QED BY <1>1, <2>1, OneExchangeKept DEF StoredType
<1>4. CASE listing.kind = job[p].op /\ listing.rest # <<>>
  <2> DEFINE rest == listing.rest
             got == job[p].got
             moved == [job[p] EXCEPT !.got = Append(got, Head(rest)),
                                     !.left = job[p].left - 1]
  <2>1. /\ listing' = [listing EXCEPT !.rest = Tail(rest)]
        /\ job' = [job EXCEPT ![p] = moved]
        /\ returned' = returned
    BY <1>4 DEF Manager!EnumerateNext
  <2>2. rest \in Seq(Manager!Entry) /\ got \in Seq(Manager!Entry)
        /\ job[p].want \in Seq(Manager!Entry)
    BY <1>2 DEF Manager!ListJob
  <2>3. /\ Append(got, Head(rest)) \in Seq(Manager!Entry)
        /\ Tail(rest) \in Seq(Manager!Entry)
        /\ Len(Tail(rest)) = Len(rest) - 1 /\ Len(rest) \in Nat \ {0}
        /\ Append(got, Head(rest)) \o Tail(rest) = got \o rest
        /\ Len(Tail(rest)) = 0
             => Append(got, Head(rest)) = Append(got, Head(rest)) \o Tail(rest)
    <3>1. Len(rest) \in Nat \ {0}
      BY <1>4, <2>2, EmptySeq
    <3>2. /\ Append(got, Head(rest)) \in Seq(Manager!Entry)
          /\ Tail(rest) \in Seq(Manager!Entry)
          /\ Len(Tail(rest)) = Len(rest) - 1
          /\ Append(got, Head(rest)) \o Tail(rest) = got \o rest
      BY <1>4, <2>2, MovedAlong
    <3>3. Len(Tail(rest)) = 0 => Tail(rest) = <<>>
      BY <3>2, EmptySeq
    <3>4. Tail(rest) = <<>>
             => Append(got, Head(rest)) \o Tail(rest) = Append(got, Head(rest))
      BY <3>2, MovedAlong
    <3> QED BY <3>1, <3>2, <3>3, <3>4
  <2>4. /\ moved \in Manager!ListJob /\ moved.op = job[p].op
        /\ moved.stolen = job[p].stolen /\ moved.want = job[p].want
        /\ moved.left = job[p].left - 1 /\ moved.got = Append(got, Head(rest))
        /\ job[p].left \in Nat
    <3>1. job[p].left \in Nat /\ job[p].left - 1 \in Nat
      BY <1>2 DEF Manager!ListJob
    <3> DEFINE j == job[p]
               g == Append(got, Head(rest))
               n == job[p].left - 1
    <3>2. j \in Manager!ListJob /\ g \in Seq(Manager!Entry) /\ n \in Nat
      BY <1>2, <2>3, <3>1
    <3>3. moved = [j EXCEPT !.got = g, !.left = n]
      OBVIOUS
    <3> HIDE DEF j, g, n, moved
    <3>4. /\ moved \in Manager!ListJob /\ moved.op = j.op
          /\ moved.stolen = j.stolen /\ moved.want = j.want
          /\ moved.left = n /\ moved.got = g
      BY <3>2, <3>3 DEF Manager!ListJob
    <3> QED BY <3>1, <3>4 DEF j, g, n
  <2>5. /\ listing'.kind = listing.kind /\ listing'.rest = Tail(rest)
        /\ listing' \in [kind : Manager!Kinds \cup {"none"}, rest : Seq(Manager!Entry)]
    BY <2>1, <2>3
  <2>6. job' \in [Platforms -> Jobs]
    BY <2>1, <2>4 DEF Jobs
  <2>7. job'[p] = moved
    BY <2>1
  <2>8. InStep(job[p])'
    <3>1. CASE job[p].stolen
      BY <2>4, <2>7, <3>1 DEF InStep
    <3>2. CASE ~job[p].stolen
      <4>1. /\ Len(rest) <= job[p].left
            /\ Len(rest) = job[p].left => got \o rest = job[p].want
        BY <1>2, <1>4, <3>2 DEF InStep, Manager!ListJob
      <4>2. /\ Len(Tail(rest)) <= moved.left
            /\ Len(Tail(rest)) = moved.left
                 => Append(got, Head(rest)) \o Tail(rest) = moved.want
            /\ moved.left = 0 => Len(Tail(rest)) = moved.left
        <5> HIDE DEF rest, got, moved
        <5>1. /\ Len(Tail(rest)) <= moved.left
              /\ Len(Tail(rest)) = moved.left => Len(rest) = job[p].left
              /\ moved.left = 0 => Len(Tail(rest)) = moved.left
          BY <1>2, <2>3, <2>4, <4>1
        <5>2. Len(rest) = job[p].left
                => Append(got, Head(rest)) \o Tail(rest) = moved.want
          BY <2>3, <2>4, <4>1, Zenon
        <5> QED BY <5>1, <5>2
      <4>3. moved.left = 0 => moved.got = moved.want
        BY <2>3, <2>4, <4>2
      <4>4. Len(listing'.rest) <= moved.left
            /\ (Len(listing'.rest) = moved.left
                  => moved.got \o listing'.rest = moved.want)
        BY <2>4, <2>5, <4>2
      <4> QED BY <2>7, <4>3, <4>4 DEF InStep
    <3> QED BY <3>1, <3>2
  <2> HIDE DEF moved
  <2>9. ASSUME NEW q \in Platforms, q # p
        PROVE  InStep(job[q])'
    <3>1. job'[q] = job[q]
      BY <2>1, <2>9
    <3>2. CASE ~(job[q].op \in Manager!Kinds /\ ~job[q].stolen)
      BY <3>1, <3>2 DEF InStep
    <3>3. CASE job[q].op \in Manager!Kinds /\ ~job[q].stolen
      <4>1. job[q].left \in Nat /\ InStep(job[q])
        BY <3>3 DEF Jobs, PinJobs, Manager!Idle, Manager!PinOps, Manager!Kinds,
           Manager!ListJob
      <4>2. job[q].left = 0 => job[q].got = job[q].want
        BY <3>3, <4>1 DEF InStep
      <4>3. listing.kind = job[q].op => Len(rest) <= job[q].left
        BY <3>3, <4>1 DEF InStep
      <4>4. listing.kind = job[q].op => /\ Len(Tail(rest)) <= job[q].left
                                        /\ Len(Tail(rest)) # job[q].left
        <5> HIDE DEF rest
        <5> QED BY <2>3, <4>1, <4>3
      <4> QED BY <2>5, <3>1, <4>2, <4>4 DEF InStep
    <3> QED BY <3>2, <3>3
  <2>10. \A q \in Platforms : InStep(job[q])'
    BY <2>8, <2>9
  <2>11. SecretsHold'
    <3>1. job[p].op \notin Manager!PinOps
      BY <1>2 DEF Manager!ListJob, Manager!Kinds, Manager!PinOps
    <3> QED BY <1>1, <2>1, <2>4, <2>7, <3>1 DEF SecretsHold
  <2> QED BY <1>1, <2>1, <2>5, <2>6, <2>10, <2>11 DEF StoredType, ListingIsExact,
          Manager!ListingIsExact
<1> QED BY <1>3, <1>4

\* What a listing returns is all of it.
LEMMA ReturnKept ==
  ASSUME ManagerInv, NEW p \in Platforms, Manager!EnumerateReturn(p)
  PROVE  ManagerInv' /\ retries' = retries
<1> USE DEF ManagerInv, ManagerType
<1>1. /\ UNCHANGED <<stored, listing, agreement, retries>>
      /\ job' = [job EXCEPT ![p] = Manager!Idle]
      /\ returned' = [returned EXCEPT ![p] = job[p]]
  BY DEF Manager!EnumerateReturn, Manager!Returns, Manager!device
<1>2. /\ job[p] \in Manager!ListJob
      /\ ~job[p].stolen => job[p].got = job[p].want
  BY DEF Manager!EnumerateReturn, Jobs, PinJobs, Manager!Idle, Manager!PinOps,
     Manager!Kinds, InStep
<1>3. returned' \in [Platforms -> Results]
  BY <1>1, <1>2 DEF Results
<1>4. ListingIsExact'
  BY <1>1, <1>2 DEF ListingIsExact, Manager!ListingIsExact
<1>5. job' \in [Platforms -> Jobs]
  BY <1>1 DEF Jobs
<1>6. \A q \in Platforms : job'[q] = job[q] \/ job'[q] = Manager!Idle
  BY <1>1
<1>7. SecretsHold' /\ \A q \in Platforms : InStep(job[q])'
  BY <1>1, <1>6 DEF SecretsHold, InStep, Manager!Idle, Manager!PinOps, Manager!Kinds
<1> QED BY <1>1, <1>3, <1>4, <1>5, <1>7 DEF StoredType

-------------------------------------------------------------------------------
(* Every operation                                                         *)

\* An attempt that fails renews the key and voids what others have agreed on.
LEMMA WrongPinKept ==
  ASSUME ManagerInv, NEW p \in Platforms, Manager!WrongPin(p),
         listing' \in {listing, Manager!NoListing}, retries # 0
  PROVE  ManagerInv'
<1> USE DEF ManagerInv, ManagerType
<1>1. /\ retries' = retries - 1 /\ agreement' = agreement + 1
      /\ stored' = stored
      /\ returned' = [returned EXCEPT ![p] = Manager!Raised]
      /\ job' = [q \in Platforms |->
                   IF q = p THEN Manager!Idle
                   ELSE IF job[q].op \in Manager!PinOps
                     THEN [job[q] EXCEPT !.voided = TRUE]
                   ELSE job[q]]
  BY DEF Manager!WrongPin, Manager!Finishes, Manager!Returns, Manager!credState
<1>2. retries' \in 0..MaxRetries /\ agreement' \in Nat
  BY <1>1, ManagerGiven DEF Manager!ManagementAssumption
<1>3. returned' \in [Platforms -> Results]
  BY <1>1 DEF Results
<1>4. listing' \in [kind : Manager!Kinds \cup {"none"}, rest : Seq(Manager!Entry)]
  <2>1. <<>> \in Seq(Manager!Entry)
    OBVIOUS
  <2>2. Manager!NoListing \in [kind : Manager!Kinds \cup {"none"},
                               rest : Seq(Manager!Entry)]
    BY <2>1 DEF Manager!NoListing
  <2> QED BY <2>2
<1>5. ASSUME NEW q \in Platforms
      PROVE  /\ job'[q] \in Jobs
             /\ job'[q].op \in Manager!PinOps => job'[q].voided
             /\ job'[q] = job[q] \/ job'[q].op \notin Manager!Kinds
  <2>1. CASE q = p
    BY <1>1, <2>1 DEF Jobs, Manager!Idle, Manager!PinOps, Manager!Kinds
  <2>2. CASE q # p /\ job[q].op \in Manager!PinOps
    <3>1. job[q] \in PinJobs
      BY <2>2 DEF Jobs, Manager!Idle, Manager!ListJob, Manager!PinOps, Manager!Kinds
    <3>2. /\ [job[q] EXCEPT !.voided = TRUE] \in PinJobs
          /\ [job[q] EXCEPT !.voided = TRUE].voided
      BY <3>1 DEF PinJobs
    <3>3. job'[q] = [job[q] EXCEPT !.voided = TRUE]
      BY <1>1, <2>2
    <3>4. job'[q].op \notin Manager!Kinds
      BY <3>2, <3>3 DEF PinJobs, Manager!PinOps, Manager!Kinds
    <3> QED BY <3>2, <3>3, <3>4 DEF Jobs
  <2>3. CASE q # p /\ job[q].op \notin Manager!PinOps
    BY <1>1, <2>3
  <2> QED BY <2>1, <2>2, <2>3
<1>6. job' \in [Platforms -> Jobs]
  BY <1>1, <1>5
<1>7. SecretsHold'
  BY <1>5 DEF SecretsHold
<1>8. \A q \in Platforms : InStep(job[q])'
  <2>1. listing' = listing \/ listing'.kind \notin Manager!Kinds
    BY DEF Manager!NoListing, Manager!Kinds
  <2> QED BY <1>5, <2>1 DEF InStep
<1>9. ListingIsExact'
  <2>1. ASSUME NEW q \in Platforms
        PROVE  returned'[q] = returned[q] \/ returned'[q].op \notin Manager!Kinds
    BY <1>1 DEF Manager!Raised, Manager!Kinds
  <2> QED BY <2>1 DEF ListingIsExact, Manager!ListingIsExact
<1> QED BY <1>1, <1>2, <1>3, <1>4, <1>6, <1>7, <1>8, <1>9 DEF StoredType

\* The step of RightPinIsFree.
FreeStep ==
  \A p \in Platforms :
    /\ job[p].op \in Manager!PinOps /\ job'[p] = Manager!Idle
    /\ job[p].old = pin /\ ~job[p].voided
    => retries' >= retries

LEMMA CredentialsKept ==
  ASSUME ManagerInv, NEW p \in Platforms,
         \/ \E kind \in Manager!Kinds, rp \in Rps : Manager!EnumerateBegin(p, kind, rp)
         \/ Manager!EnumerateReturn(p) \/ Manager!EnumerateNext(p)
         \/ Manager!GetMetadata(p)
         \/ \E c \in Manager!Credentials :
              \/ Manager!DeleteCred(p, c)
              \/ \E u \in Users : Manager!UpdateUserInfo(p, c, u)
  PROVE  ManagerInv' /\ retries' = retries
<1>1. CASE \/ \E kind \in Manager!Kinds, rp \in Rps : Manager!EnumerateBegin(p, kind, rp)
           \/ Manager!EnumerateReturn(p) \/ Manager!EnumerateNext(p)
  BY <1>1, BeginKept, ReturnKept, NextKept
<1>2. ASSUME NEW c, NEW u,
             \/ Manager!GetMetadata(p)
             \/ Manager!DeleteCred(p, c)
             \/ u \in Users /\ Manager!UpdateUserInfo(p, c, u)
      PROVE  ManagerInv' /\ retries' = retries
  <2> USE DEF Manager!GetMetadata, Manager!DeleteCred, Manager!UpdateUserInfo,
          Manager!Reads, Manager!Single, Manager!Discards, Manager!Returns,
          Manager!credState, Manager!pinState
  <2>1. /\ listing' = Manager!NoListing /\ UNCHANGED <<job, agreement, retries>>
        /\ \/ returned' = [returned EXCEPT ![p] = Manager!Done]
           \/ returned' = [returned EXCEPT ![p] = Manager!Raised]
    BY <1>2
  <2>2. \/ stored' = stored
        \/ stored' = [d \in DOMAIN stored \ {c} |-> stored[d]]
        \/ u \in Users /\ stored' = [stored EXCEPT ![c] = u]
    BY <1>2
  <2>3. StoredType /\ retries \in 0..MaxRetries
    BY DEF ManagerInv, ManagerType
  <2>4. StoredType'
    BY <2>2, <2>3 DEF StoredType
  <2> QED BY <2>1, <2>3, <2>4, OneExchangeKept
<1> QED BY <1>1, <1>2

LEMMA FingersKept ==
  ASSUME ManagerInv, Manager!BioNext
  PROVE  ManagerInv' /\ retries' = retries
<1> USE DEF Manager!Returns
<1>1. PICK p \in Platforms :
        /\ UNCHANGED <<stored, agreement, retries, job>>
        /\ listing' = Manager!NoListing
        /\ \/ returned' = [returned EXCEPT ![p] = Manager!Done]
           \/ returned' = [returned EXCEPT ![p] = Manager!Raised]
  <2> USE DEF Manager!credState, Manager!pinState, Manager!Discards
  <2>1. ASSUME NEW p \in Platforms, NEW t, NEW left, NEW status,
               Manager!Answered(p, t, left, status)
        PROVE  \/ returned' = [returned EXCEPT ![p] = Manager!Done]
               \/ returned' = [returned EXCEPT ![p] = Manager!Raised]
    BY <2>1 DEF Manager!Answered, Manager!Capture, Manager!CaptureIf
  <2>2. ASSUME NEW p \in Platforms, NEW status \in Manager!Feedback,
               Manager!EnrollBegin(p, status) \/ Manager!EnrollCaptureNext(p, status)
        PROVE  /\ UNCHANGED <<stored, agreement, retries, job>>
               /\ listing' = Manager!NoListing
               /\ \/ returned' = [returned EXCEPT ![p] = Manager!Done]
                  \/ returned' = [returned EXCEPT ![p] = Manager!Raised]
    BY <2>1, <2>2 DEF Manager!EnrollBegin, Manager!EnrollCaptureNext, Manager!Refused
  <2>3. ASSUME NEW p \in Platforms, NEW t,
               \/ Manager!EnrollCancel(p) \/ Manager!EnumerateEnrollments(p)
               \/ Manager!RemoveEnrollment(p, t)
        PROVE  /\ UNCHANGED <<stored, agreement, retries, job>>
               /\ listing' = Manager!NoListing
               /\ \/ returned' = [returned EXCEPT ![p] = Manager!Done]
                  \/ returned' = [returned EXCEPT ![p] = Manager!Raised]
    BY <2>3 DEF Manager!EnrollCancel, Manager!EnumerateEnrollments,
       Manager!RemoveEnrollment, Manager!Reads, Manager!Single
  <2> HIDE DEF Manager!Returns
  <2> QED BY <2>2, <2>3 DEF Manager!BioNext
<1>2. StoredType /\ retries \in 0..MaxRetries
  BY DEF ManagerInv, ManagerType
<1>3. StoredType'
  BY <1>1, <1>2 DEF StoredType
<1> QED BY <1>1, <1>2, <1>3, OneExchangeKept

LEMMA ConfigKept ==
  ASSUME ManagerInv, NEW p \in Platforms, NEW length, NEW force,
         \/ Manager!GetRetries(p) \/ Manager!EnableEnterpriseAttestation(p)
         \/ Manager!ToggleAlwaysUv(p) \/ Manager!SetMinPinLength(p, length, force)
  PROVE  ManagerInv' /\ retries' = retries
<1>1. /\ UNCHANGED <<stored, agreement, retries, job>>
      /\ listing' = Manager!NoListing
      /\ \/ returned' = [returned EXCEPT ![p] = Manager!Done]
         \/ returned' = [returned EXCEPT ![p] = Manager!Raised]
  BY DEF Manager!GetRetries, Manager!EnableEnterpriseAttestation,
     Manager!ToggleAlwaysUv, Manager!SetMinPinLength, Manager!Reads,
     Manager!Single, Manager!Discards, Manager!Returns, Manager!credState,
     Manager!pinState
<1>2. StoredType /\ retries \in 0..MaxRetries
  BY DEF ManagerInv, ManagerType
<1>3. StoredType'
  BY <1>1, <1>2 DEF StoredType
<1> QED BY <1>1, <1>2, <1>3, OneExchangeKept

\* The two exchanges of an operation with a PIN.
LEMMA PinExchangesKept ==
  ASSUME ManagerInv, NEW p \in Platforms, NEW op1, NEW old, NEW new,
         \/ /\ op1 \in Manager!PinOps /\ old \in Pins /\ new \in Pins
            /\ Manager!KeyAgreement(p, op1, old, new)
         \/ Manager!PinRejectedByHost(p)
         \/ Manager!SetPin(p) \/ Manager!ChangePin(p) \/ Manager!GetPinToken(p)
  PROVE  ManagerInv' /\ FreeStep
<1>1. retries \in 0..MaxRetries /\ agreement \in Nat /\ MaxRetries \in Nat \ {0}
      /\ job \in [Platforms -> Jobs] /\ StoredType
  BY ManagerGiven DEF ManagerInv, ManagerType, Manager!ManagementAssumption
<1>2. CASE /\ op1 \in Manager!PinOps /\ old \in Pins /\ new \in Pins
           /\ Manager!KeyAgreement(p, op1, old, new)
  <2> DEFINE begun == Manager!PinJob(op1, old, new)
  <2>1. /\ UNCHANGED <<stored, agreement, retries, returned>>
        /\ listing' = Manager!NoListing
        /\ job' = [job EXCEPT ![p] = begun]
    BY <1>2 DEF Manager!KeyAgreement, Manager!KeyAgreementOf, Manager!Discards,
       Manager!credState, Manager!pinState
  <2>2. begun \in PinJobs /\ begun.secret = agreement
    BY <1>1, <1>2 DEF Manager!PinJob, PinJobs
  <2>3. StoredType'
    BY <1>1, <2>1 DEF StoredType
  <2>4. ManagerInv'
    BY <1>1, <2>1, <2>2, <2>3, OneExchangeKept
  <2>5. FreeStep
    BY <1>1, <2>1 DEF FreeStep
  <2> QED BY <2>4, <2>5
<1>3. ASSUME UNCHANGED <<stored, agreement>>,
             listing' \in {listing, Manager!NoListing},
             job' = [job EXCEPT ![p] = Manager!Idle],
             \/ returned' = [returned EXCEPT ![p] = Manager!Done]
             \/ returned' = [returned EXCEPT ![p] = Manager!Raised],
             retries' = retries \/ retries' = MaxRetries
      PROVE  ManagerInv' /\ FreeStep
  <2>1. StoredType' /\ retries' \in 0..MaxRetries /\ retries' >= retries
    BY <1>1, <1>3 DEF StoredType
  <2>2. ManagerInv'
    BY <1>3, <2>1, OneExchangeKept
  <2> QED BY <2>1, <2>2 DEF FreeStep
<1>4. ASSUME Manager!WrongPin(p), listing' = Manager!NoListing,
             ~Manager!PinMatches(p), retries # 0
      PROVE  ManagerInv' /\ FreeStep
  <2>1. ManagerInv'
    BY <1>4, WrongPinKept
  <2>2. ASSUME NEW q \in Platforms, job[q].op \in Manager!PinOps,
               job'[q] = Manager!Idle, job[q].old = pin, ~job[q].voided
        PROVE  FALSE
    <3>1. CASE q = p
      BY <1>4, <2>2, <3>1 DEF Manager!PinMatches, Manager!SecretHolds, ManagerInv,
         SecretsHold
    <3>2. CASE q # p
      <4>1. job'[q] = [job[q] EXCEPT !.voided = TRUE]
        BY <1>4, <2>2, <3>2 DEF Manager!WrongPin
      <4>2. job[q] \in PinJobs
        BY <1>1, <2>2 DEF Jobs, Manager!Idle, Manager!ListJob, Manager!PinOps,
           Manager!Kinds
      <4>3. job'[q].op = job[q].op
        BY <4>1, <4>2 DEF PinJobs
      <4> QED BY <2>2, <4>3 DEF Manager!Idle, Manager!PinOps
    <3> QED BY <3>1, <3>2
  <2> QED BY <2>1, <2>2 DEF FreeStep
<1> USE DEF Manager!Finishes, Manager!Returns, Manager!Discards, Manager!Uses,
        Manager!credState, Manager!pinState
<1>5. ASSUME listing' = Manager!NoListing,
             Manager!Refuse(p) \/ Manager!NewPin(p) \/ Manager!RightButRefused(p)
      PROVE  ManagerInv' /\ FreeStep
  BY <1>3, <1>5 DEF Manager!Refuse, Manager!NewPin, Manager!RightButRefused
<1>6. CASE Manager!PinRejectedByHost(p)
  BY <1>3, <1>6 DEF Manager!PinRejectedByHost
<1>7. CASE Manager!SetPin(p)
  BY <1>5, <1>7 DEF Manager!SetPin
<1>8. CASE Manager!ChangePin(p)
  BY <1>4, <1>5, <1>8 DEF Manager!ChangePin
<1>9. CASE Manager!GetPinToken(p)
  <2>1. CASE ~(pin = Manager!NoPin \/ retries = 0) /\ Manager!PinMatches(p)
             /\ ~forceChange
    BY <1>3, <1>9, <2>1 DEF Manager!GetPinToken
  <2>2. CASE ~(~(pin = Manager!NoPin \/ retries = 0) /\ Manager!PinMatches(p)
               /\ ~forceChange)
    BY <1>4, <1>5, <1>9, <2>2 DEF Manager!GetPinToken
  <2> QED BY <2>1, <2>2
<1> QED BY <1>2, <1>6, <1>7, <1>8, <1>9

LEMMA ManagerKept ==
  ASSUME ManagerInv, [Manager!Next]_managerVars
  PROVE  ManagerInv' /\ FreeStep
<1>1. retries \in 0..MaxRetries
  BY DEF ManagerInv, ManagerType
<1>2. retries' = retries => FreeStep
  BY <1>1 DEF FreeStep
<1>3. CASE UNCHANGED managerVars
  <2>1. ManagerInv'
    BY <1>3 DEF managerVars, ManagerInv, ManagerType, StoredType, SecretsHold, InStep,
       ListingIsExact, Manager!ListingIsExact
  <2> QED BY <1>2, <1>3, <2>1 DEF managerVars
<1>4. CASE Manager!CredentialNext
  BY <1>2, <1>4, CredentialsKept DEF Manager!CredentialNext
<1>5. CASE Manager!BioNext
  BY <1>2, <1>5, FingersKept
<1>6. CASE Manager!PinNext
  BY <1>2, <1>6, ConfigKept, PinExchangesKept, ManagerGiven DEF Manager!PinNext
<1> QED BY <1>3, <1>4, <1>5, <1>6 DEF Manager!Next

LEMMA ManagerInitially == Manager!Init => ManagerInv
<1> SUFFICES ASSUME Manager!Init PROVE ManagerInv
  OBVIOUS
<1> USE DEF Manager!Init
<1>1. (CHOOSE u \in Users : TRUE) \in Users
  BY ManagerGiven DEF Manager!ManagementAssumption
<1>2. StoredType
  BY <1>1 DEF StoredType
<1>3. listing \in [kind : Manager!Kinds \cup {"none"}, rest : Seq(Manager!Entry)]
  <2>1. <<>> \in Seq(Manager!Entry)
    OBVIOUS
  <2> QED BY <2>1 DEF Manager!NoListing
<1>4. /\ job \in [Platforms -> Jobs] /\ returned \in [Platforms -> Results]
      /\ agreement \in Nat /\ retries \in 0..MaxRetries
  BY ManagerGiven DEF Jobs, Results, Manager!ManagementAssumption
<1>5. SecretsHold /\ \A p \in Platforms : InStep(job[p])
  BY DEF SecretsHold, InStep, Manager!Idle, Manager!PinOps, Manager!Kinds
<1>6. ListingIsExact
  BY DEF ListingIsExact, Manager!ListingIsExact, Manager!Done, Manager!Kinds
<1> QED BY <1>2, <1>3, <1>4, <1>5, <1>6 DEF ManagerInv, ManagerType

\* A listing that is returned is the one that was begun, whatever the programs
\* did meanwhile to the credentials, unless another program began a listing of
\* the same kind: any other command makes one of the nexts fail
\* (credman.py:168-217, base.py:445-449).
THEOREM ListsWhatItBegan == MCSpec => []ListingIsExact
<1>1. MCInit => ManagerInv
  BY ManagerStarts, ManagerInitially
<1>2. ManagerInv /\ [MCNext]_<<subject, vars, managerVars, blobVars>> => ManagerInv'
  BY ManagerRuns, ManagerKept
<1>3. ManagerInv => ListingIsExact
  BY DEF ManagerInv
<1> QED BY <1>1, <1>2, <1>3, PTL DEF MCSpec

\* The right PIN costs no attempt unless another program's wrong one came
\* between the two exchanges (pin.py:286-327, 415-443).
THEOREM SparesTheRightPin == MCSpec => RightPinIsFree
<1>1. MCInit => ManagerInv
  BY ManagerStarts, ManagerInitially
<1>2. ManagerInv /\ [MCNext]_<<subject, vars, managerVars, blobVars>>
        => ManagerInv' /\ FreeStep
  BY ManagerRuns, ManagerKept
<1>3. FreeStep => [FreeStep]_(Manager!vars)
  OBVIOUS
<1>4. MCSpec => [][FreeStep]_(Manager!vars)
  BY <1>1, <1>2, <1>3, PTL DEF MCSpec
<1> QED BY <1>4 DEF FreeStep, RightPinIsFree, Manager!RightPinIsFree
===============================================================================
