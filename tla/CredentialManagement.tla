------------------------- MODULE CredentialManagement -------------------------
(***************************************************************************)
(* CredentialManagement (ctap2/credman.py) and Ctap2.get_assertions        *)
(* (ctap2/base.py): loops of a begin and as many nexts as it announced.    *)
(* Only the begin is authenticated; a next goes on with whatever           *)
(* enumeration of its kind the authenticator has.                          *)
(***************************************************************************)
EXTENDS ManagedAuthenticator

Kinds == {"rps", "creds", "assertions"}

\* what the enumeration yields; assertions and credentials carry the user
Items(kind, rp) ==
  LET ofRp == {c \in DOMAIN stored : RpOf[c] = rp}
  IN  IF kind = "rps"
        THEN SetToSeq({RpOf[c] : c \in DOMAIN stored})
        ELSE SetToSeq({[credential |-> c, user |-> stored[c]] : c \in ofRp})

Listing(kind, got, left, want) ==
  [op |-> kind, got |-> got, left |-> left, want |-> want, stolen |-> FALSE]

\* another platform is in the middle of an enumeration of this kind
Stolen(p, kind) ==
  [q \in Platforms |->
     IF q # p /\ job[q].op = kind THEN [job[q] EXCEPT !.stolen = TRUE]
                                  ELSE job[q]]

BeginRefused(p, kind, rp) ==
  \/ kind # "assertions" /\ ~Authorized(p)
  \/ kind = "assertions" /\ Items(kind, rp) = <<>>

EnumerateBegin(p, kind, rp) ==
  /\ Starts(p)
  /\ LET items == Items(kind, rp)
     IN  IF BeginRefused(p, kind, rp)
         THEN /\ Discards /\ Returns(p, Raised) /\ UNCHANGED job
         ELSE IF items = <<>>          \* NO_CREDENTIALS, or a total of 0
         THEN /\ Discards /\ Returns(p, Listing(kind, <<>>, 0, items))
              /\ UNCHANGED job
         ELSE /\ listing' = [kind |-> kind, rest |-> Tail(items)]
              /\ job' = [Stolen(p, kind) EXCEPT
                           ![p] = Listing(kind, <<Head(items)>>,
                                          Len(items) - 1, items)]
              /\ UNCHANGED returned
  /\ UNCHANGED <<credState, bioState, pinState, context, claimed, orphans, lost>>

\* the range of the loop is used up
EnumerateReturn(p) ==
  /\ job[p].op \in Kinds
  /\ job[p].left = 0
  /\ Returns(p, job[p])
  /\ job' = [job EXCEPT ![p] = Idle]
  /\ UNCHANGED <<device, context, claimed, orphans, ops, lost>>

\* the error of a next ends the loop and the operation
NextFailsShort(p) ==
  /\ Returns(p, job[p])
  /\ job' = [job EXCEPT ![p] = Idle]

NextFails(p) ==
  /\ Returns(p, Raised)
  /\ job' = [job EXCEPT ![p] = Idle]

EnumerateNext(p) ==
  /\ job[p].op \in Kinds
  /\ job[p].left > 0
  /\ IF listing.kind = job[p].op /\ listing.rest # <<>>
     THEN /\ listing' = [listing EXCEPT !.rest = Tail(@)]
          /\ job' = [job EXCEPT ![p].got = Append(@, Head(listing.rest)),
                                ![p].left = @ - 1]
          /\ UNCHANGED returned
     ELSE Discards /\ NextFails(p)
  /\ UNCHANGED <<credState, bioState, pinState, context, claimed, orphans,
                 ops, lost>>

GetMetadata(p) == Reads(p, Authorized(p))

DeleteCred(p, c) ==
  /\ Single(p, Authorized(p) /\ c \in DOMAIN stored,
            stored' = [d \in DOMAIN stored \ {c} |-> stored[d]],
            UNCHANGED stored)
  /\ UNCHANGED <<bioState, pinState>>

UpdateUserInfo(p, c, u) ==
  /\ Single(p, Authorized(p) /\ c \in DOMAIN stored,
            stored' = [stored EXCEPT ![c] = u],
            UNCHANGED stored)
  /\ UNCHANGED <<bioState, pinState>>

CredentialNext ==
  \E p \in Platforms :
    \/ \E kind \in Kinds, rp \in Rps : EnumerateBegin(p, kind, rp)
    \/ EnumerateReturn(p)
    \/ EnumerateNext(p)
    \/ GetMetadata(p)
    \/ \E c \in Credentials :
         \/ DeleteCred(p, c)
         \/ \E u \in Users : UpdateUserInfo(p, c, u)

\* A list that is returned is the list as it was when the enumeration began,
\* whatever was deleted, renamed, enrolled or reset meanwhile: such a step
\* makes a next fail.  The exception is another platform that begins an
\* enumeration of the same kind: its entries are then taken for ours
\* (credman.py:168-172, 211-217, base.py:445-449).
ListingIsExact ==
  \A p \in Platforms :
    LET r == returned[p]
    IN  r.op \in Kinds /\ ~r.stolen => r.got = r.want
===============================================================================
