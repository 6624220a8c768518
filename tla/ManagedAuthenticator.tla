------------------------- MODULE ManagedAuthenticator -------------------------
(***************************************************************************)
(* An authenticator and the programs that manage it (external): what       *)
(* credman.py, bio.py, pin.py and config.py find on the other side.  One   *)
(* command is one step.  The authenticator keeps at most one enumeration   *)
(* and one enrollment, whoever began it; any other command ends the        *)
(* enumeration; the token belongs to who was given it last; a wrong PIN    *)
(* renews the key that secrets are agreed on.                              *)
(***************************************************************************)
EXTENDS Integers, Sequences, FiniteSets, SequencesExt

CONSTANTS
  Platforms,     \* programs with a connection to the authenticator
  Rps, RpOf,     \* relying parties, and that of each credential
  Users,         \* user entities a credential may carry
  Templates,     \* IDs of fingerprint templates
  Samples,       \* the numbers of samples a template may need
  Pins,          \* PINs, each a number: its length
  MaxRetries,    \* PIN attempts before it blocks
  MaxOps,        \* bound: operations started
  MaxLost        \* bound: answers lost after the command was carried out

Credentials == DOMAIN RpOf
NoPin == 0
Nobody == "nobody"

ManagementAssumption ==
  /\ RpOf \in [Credentials -> Rps] /\ IsFiniteSet(Credentials)
  /\ Users # {}
  /\ Pins \subseteq Nat \ {NoPin}
  /\ Samples \subseteq Nat \ {0}
  /\ MaxRetries \in Nat \ {0}
  /\ MaxOps \in Nat /\ MaxLost \in Nat
  /\ Nobody \notin Platforms

VARIABLES
  stored,      \* discoverable credentials, each with its user
  listing,     \* the enumeration in progress: its kind and what is left of it
  templates,   \* the enrolled fingerprints
  enrolling,   \* the enrollment in progress: template and samples to go
  pin, retries, minPin, forceChange,    \* the PIN and its policy
  agreement,   \* which key secrets are agreed on
  tokenOf,     \* whose token is the valid one
  settings,    \* {"alwaysUv", "ep"}: what was switched on
  job,         \* the operation a platform is in
  context,     \* its FPEnrollmentContext
  returned,    \* what its last operation returned
  claimed,     \* the templates some capture returned as complete
  orphans,     \* the templates complete by an exchange whose answer was lost
  ops, lost    \* how many operations and losses there were

device == <<stored, listing, templates, enrolling, pin, retries, minPin,
            forceChange, agreement, tokenOf, settings>>
host == <<job, context, returned, claimed, orphans, ops, lost>>
vars == <<device, host>>

credState == stored
bioState == <<templates, enrolling>>
pinState == <<pin, retries, minPin, forceChange, agreement, tokenOf, settings>>

NoListing == [kind |-> "none", rest |-> <<>>]
NoEnrollment == [template |-> "none", left |-> 0]
NoContext == [template |-> "none", remaining |-> -1]
Idle == [op |-> "idle"]
Raised == [op |-> "raised"]
Done == [op |-> "done"]

\* any command that does not continue an enumeration ends it
Discards == listing' = NoListing

Authorized(p) == tokenOf = p

Starts(p) ==
  /\ job[p] = Idle
  /\ ops < MaxOps
  /\ ops' = ops + 1

Returns(p, value) == returned' = [returned EXCEPT ![p] = value]

\* the operations of one exchange: accepted, or refused with an error
Single(p, accepted, effect, noEffect) ==
  /\ Starts(p)
  /\ Discards
  /\ IF accepted THEN effect /\ Returns(p, Done)
                 ELSE noEffect /\ Returns(p, Raised)
  /\ UNCHANGED <<job, context, claimed, orphans, lost>>

\* a command that only reads: it ends an enumeration all the same
Reads(p, allowed) ==
  /\ Single(p, allowed, TRUE, TRUE)
  /\ UNCHANGED <<credState, bioState, pinState>>

Init ==
  /\ stored \in {[c \in creds |-> CHOOSE u \in Users : TRUE] :
                   creds \in {{}, Credentials}}
  /\ listing = NoListing
  /\ templates = {} /\ enrolling = NoEnrollment
  /\ minPin = 4 /\ retries = MaxRetries
  /\ pin \in {n \in Pins : n >= minPin} \cup {NoPin}
  /\ forceChange = FALSE
  /\ agreement = 1 /\ settings = {}
  /\ tokenOf \in IF pin = NoPin THEN {Nobody} ELSE Platforms
  /\ job = [p \in Platforms |-> Idle]
  /\ context = [p \in Platforms |-> NoContext]
  /\ returned = [p \in Platforms |-> Done]
  /\ claimed = {} /\ orphans = {}
  /\ ops = 0 /\ lost = 0
===============================================================================
