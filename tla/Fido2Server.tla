------------------------------ MODULE Fido2Server ------------------------------
(***************************************************************************)
(* The relying party: Fido2Server (server.py) in the application that      *)
(* keeps its state dictionary and its list of credentials                  *)
(* (examples/server/server/server.py).                                     *)
(*                                                                         *)
(* Fido2Server has no state.  What it knows of a ceremony is the           *)
(* dictionary it is handed back: a challenge and the wish for user         *)
(* verification, neither the kind of the ceremony nor its user nor its     *)
(* list of credentials.  A session has one such dictionary, for all its    *)
(* tabs.  Answers are delayed, repeated, and posted to either URL.         *)
(*                                                                         *)
(* A challenge is fresh (32 random bytes), so it stands for the ceremony   *)
(* it was made for.  What is wrong with a response is a set of flaws, of   *)
(* which every check of the code sees its own.                             *)
(***************************************************************************)
EXTENDS Naturals, Sequences, FiniteSets

CONSTANTS
  Sessions,        \* browsers, each with its session cookie
  CredentialIds,   \* credential IDs: different keys may come with the same
  FlawSets,        \* the sets of flaws a response may have
  Requirements,    \* UserVerificationRequirement, as far as the server looks
  Registered,      \* credentials of earlier ceremonies, in the list at first
  Conveyance,      \* AttestationConveyancePreference of the server
  MaxCeremonies,   \* bound: ceremonies begun
  MaxResponses,    \* bound: responses made
  MaxFlawed,       \* bound: responses with a flaw
  MaxResults       \* bound: ceremonies completed with success

Challenges == 1..MaxCeremonies
Keys == 1..MaxResponses     \* the keys created by the responses

Flaws == {"format", "origin", "rpIdHash", "userAbsent", "attestation",
          "noCredentialData", "signature"}

ServerAssumption ==
  /\ MaxCeremonies \in Nat /\ MaxResponses \in Nat /\ MaxResults \in Nat
  /\ MaxFlawed \in Nat
  /\ Registered \in Seq([id : CredentialIds, key : Nat \ Keys])
  /\ Requirements \subseteq {"required", "preferred", "discouraged"}
  /\ FlawSets \subseteq SUBSET Flaws
  /\ Conveyance \in {"none", "indirect", "direct", "enterprise"}
ASSUME ServerAssumption

VARIABLES
  ceremonies,    \* what was begun, in order; the index is the challenge
  session,       \* session["state"]: [Sessions -> the dictionary or NoState]
  responses,     \* the responses that exist: each may be posted at any time
  credentials,   \* the application's list of registered credentials
  results        \* what the two complete functions returned, in order

vars == <<ceremonies, session, responses, credentials, results>>

NoState == [challenge |-> 0]

Elements(creds) == {creds[i] : i \in DOMAIN creds}
Ids(creds) == {cred.id : cred \in creds}

Init ==
  /\ ceremonies = <<>>
  /\ session = [s \in Sessions |-> NoState]
  /\ responses = {}
  /\ credentials = Registered
  /\ results = <<>>

-------------------------------------------------------------------------------
(* The server and its application.                                         *)

\* the tail of both begin functions: the state dictionary replaces the one
\* of any other ceremony of the session
Begin(s, kind, uv, allow) ==
  /\ Len(ceremonies) < MaxCeremonies
  /\ ceremonies' = Append(ceremonies,
       [kind |-> kind, session |-> s, user_verification |-> uv,
        allow |-> allow])
  /\ session' = [session EXCEPT ![s] =
       [challenge |-> Len(ceremonies) + 1, user_verification |-> uv]]
  /\ UNCHANGED <<responses, credentials, results>>

RegisterBegin(s, uv) == Begin(s, "create", uv, {})

\* with the list of credentials, or without (any discoverable one will do)
AuthenticateBegin(s, uv, listed) ==
  /\ credentials # <<>>
  /\ Begin(s, "get", uv, IF listed THEN Elements(credentials) ELSE {})

VerifiedAnyChallenge(r, kind, state) ==
  /\ r.flaws \cap {"format", "origin", "rpIdHash", "userAbsent"} = {}
  /\ r.type = kind
  /\ state.user_verification = "required" => r.uv

\* the checks both complete functions begin with; from_dict comes first
Verified(r, kind, state) ==
  /\ "format" \notin r.flaws
  /\ r.type = kind
  /\ "origin" \notin r.flaws
  /\ state.challenge = r.challenge
  /\ "rpIdHash" \notin r.flaws
  /\ "userAbsent" \notin r.flaws
  /\ state.user_verification = "required" => r.uv

AttestationVerified(r) == Conveyance # "none" => "attestation" \notin r.flaws

Registers(r, state) ==
  /\ Verified(r, "create", state)
  /\ AttestationVerified(r)
  /\ "noCredentialData" \notin r.flaws

FoundLast(r, creds) ==
  LET same == {i \in DOMAIN creds : creds[i].id = r.id}
  IN  IF same = {} THEN {}
      ELSE {creds[CHOOSE i \in same : \A j \in same : i >= j]}

\* the first credential with the ID decides, and its key verifies
Found(r, creds) ==
  LET same == {i \in DOMAIN creds : creds[i].id = r.id}
  IN  IF same = {} THEN {}
      ELSE {creds[CHOOSE i \in same : \A j \in same : i <= j]}

Authenticates(r, state, cred) ==
  /\ Verified(r, "get", state)
  /\ cred \in Found(r, credentials)
  /\ cred.key = r.key
  /\ "signature" \notin r.flaws

Result(s, kind, state, r, cred) ==
  [session |-> s, kind |-> kind, state |-> state, response |-> r,
   credential |-> cred]

RegisterComplete(s, r) ==
  /\ Len(results) < MaxResults
  /\ session[s] # NoState
  /\ Registers(r, session[s])
  /\ LET cred == [id |-> r.id, key |-> r.key]
     IN  /\ credentials' = Append(credentials, cred)
         /\ results' = Append(results,
              Result(s, "create", session[s], r, cred))
  /\ UNCHANGED <<ceremonies, session, responses>>

KeptState(s) == session

\* the state is popped before the response is looked at
Popped(s) == [session EXCEPT ![s] = NoState]

AuthenticateComplete(s, r) ==
  /\ Len(results) < MaxResults
  /\ credentials # <<>>
  /\ session[s] # NoState
  /\ session' = Popped(s)
  /\ \E cred \in Found(r, credentials) :
       /\ Authenticates(r, session[s], cred)
       /\ results' = Append(results, Result(s, "get", session[s], r, cred))
  /\ UNCHANGED <<ceremonies, responses, credentials>>

AuthenticateRefused(s, r) ==
  /\ credentials # <<>>
  /\ session[s] # NoState
  /\ \A cred \in Found(r, credentials) : ~Authenticates(r, session[s], cred)
  /\ session' = Popped(s)
  /\ UNCHANGED <<ceremonies, responses, credentials, results>>

-------------------------------------------------------------------------------
(* The client and its authenticators: they answer what they were asked,    *)
(* with any flaw, verified or not.  The key of a registration is new; an   *)
(* assertion is made with any key that was ever created under an ID the    *)
(* ceremony allows, whether or not its registration was accepted.          *)

Respond(c, id, key, uv, flaws) ==
  /\ Cardinality(responses) < MaxResponses
  /\ flaws # {} => Cardinality({r \in responses : r.flaws # {}}) < MaxFlawed
  /\ responses' = responses \cup
       {[type |-> ceremonies[c].kind, challenge |-> c, id |-> id, key |-> key,
         uv |-> uv, flaws |-> flaws]}
  /\ UNCHANGED <<ceremonies, session, credentials, results>>

Create(c, id, uv, flaws) ==
  /\ ceremonies[c].kind = "create"
  /\ Respond(c, id, Cardinality(responses) + 1, uv, flaws)

Created == {r \in responses : r.type = "create"} \cup Elements(Registered)

Sign(c, made, uv, flaws) ==
  /\ ceremonies[c].kind = "get"
  /\ ceremonies[c].allow # {} => made.id \in Ids(ceremonies[c].allow)
  /\ Respond(c, made.id, made.key, uv, flaws)

Next ==
  \/ \E s \in Sessions, uv \in Requirements :
       \/ RegisterBegin(s, uv)
       \/ \E listed \in BOOLEAN : AuthenticateBegin(s, uv, listed)
  \/ \E s \in Sessions, r \in responses :
       \/ RegisterComplete(s, r)
       \/ AuthenticateComplete(s, r)
       \/ AuthenticateRefused(s, r)
  \/ \E c \in DOMAIN ceremonies, uv \in BOOLEAN, flaws \in FlawSets :
       \/ \E id \in CredentialIds : Create(c, id, uv, flaws)
       \/ \E made \in Created : Sign(c, made, uv, flaws)

Spec == Init /\ [][Next]_vars

-------------------------------------------------------------------------------
Credential == [id : CredentialIds, key : Nat]
State == [challenge : Challenges, user_verification : Requirements]
Response ==
  [type : {"create", "get"}, challenge : Challenges, id : CredentialIds,
   key : Nat, uv : BOOLEAN, flaws : FlawSets]

\* Every record has its form; an application that was never handed a state
\* holds none.
TypeOK ==
  /\ ceremonies \in Seq([kind : {"create", "get"}, session : Sessions,
                         user_verification : Requirements,
                         allow : SUBSET Credential])
  /\ Len(ceremonies) <= MaxCeremonies
  /\ session \in [Sessions -> State \cup {NoState}]
  /\ responses \subseteq Response
  /\ credentials \in Seq(Credential)
  /\ results \in Seq([session : Sessions, kind : {"create", "get"},
                      state : State, response : Response,
                      credential : Credential])

\* A response is accepted for the ceremony it was made for and no other:
\* same kind, same session, and verified if that ceremony asked for it,
\* although the state says nothing of kind and session (server.py:376-383).
AcceptedForItsCeremony ==
  \A n \in DOMAIN results :
    LET e == results[n]
        c == ceremonies[e.response.challenge]
    IN  /\ e.response.challenge \in DOMAIN ceremonies
        /\ c.kind = e.kind
        /\ c.session = e.session
        /\ c.user_verification = "required" => e.response.uv

\* The credential an authentication returns is registered, is one of those
\* the ceremony began with, and its key made the response, whichever
\* credentials of the same ID were added since (server.py:362-373).
ReturnsItsCredential ==
  \A n \in DOMAIN results :
    LET e == results[n]
    IN  e.kind = "get" =>
          /\ e.credential.key = e.response.key
          /\ LET allow == ceremonies[e.response.challenge].allow
             IN  allow # {} => e.credential \in allow
          /\ \/ e.credential \in Elements(Registered)
             \/ \E m \in 1..(n - 1) : /\ results[m].kind = "create"
                                      /\ results[m].credential = e.credential

Logins(c) ==
  Cardinality({n \in DOMAIN results : /\ results[n].kind = "get"
                                      /\ results[n].response.challenge = c})

Party == INSTANCE RelyingParty WITH
  Ceremonies <- Challenges,
  begun <- [c \in Challenges |->
              IF c <= Len(ceremonies) THEN ceremonies[c].kind ELSE "not"],
  answered <- {r.challenge : r \in
                {x \in responses :
                   ceremonies[x.challenge].user_verification = "required" => x.uv}},
  logins <- [c \in Challenges |-> Logins(c)]

\* The server and its application are a relying party: a ceremony begins
\* once, a login needs an answer that is as verified as the ceremony asked
\* for, and is granted once, however often the answer is posted.
PartyContract == Party!Spec
===============================================================================
