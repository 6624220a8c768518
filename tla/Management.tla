------------------------------ MODULE Management ------------------------------
(***************************************************************************)
(* The managers together, on one authenticator: each platform is a program *)
(* that uses CredentialManagement, FPBioEnrollment, ClientPin and Config   *)
(* in any order, while another does the same.                              *)
(***************************************************************************)
EXTENDS CredentialManagement, BioEnrollment, ClientPin

Next == CredentialNext \/ BioNext \/ PinNext

Spec == Init /\ [][Next]_vars

Entry == Rps \cup [credential : Credentials, user : Users]
ListJob == [op : Kinds, got : Seq(Entry), left : Nat, want : Seq(Entry),
            stolen : BOOLEAN]

\* Every variable has its form.  What is left of an enumeration, with what a
\* platform has of it, never exceeds what the authenticator announced.
TypeOK ==
  /\ \E creds \in SUBSET Credentials : stored \in [creds -> Users]
  /\ listing \in [kind : Kinds \cup {"none"}, rest : Seq(Entry)]
  /\ templates \subseteq Templates
  /\ enrolling \in [template : Templates \cup {"none"}, left : Nat]
  /\ pin \in Pins \cup {NoPin} /\ retries \in 0..MaxRetries
  /\ minPin \in Pins /\ forceChange \in BOOLEAN
  /\ agreement \in Nat /\ tokenOf \in Platforms \cup {Nobody}
  /\ settings \subseteq {"alwaysUv", "ep"}
  /\ \A p \in Platforms :
       /\ \/ job[p] = Idle
          \/ job[p] \in ListJob /\ Len(job[p].got) + job[p].left = Len(job[p].want)
          \/ job[p] \in [op : PinOps, old : Pins, new : Pins, secret : 1..agreement,
                         voided : BOOLEAN]
       /\ context[p].template \in Templates \cup {"none"}
       /\ returned[p] \in {Done, Raised} \cup ListJob
  /\ claimed \subseteq Templates /\ orphans \subseteq Templates
===============================================================================
