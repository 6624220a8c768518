-------------------------- MODULE Fido2Server_proofs --------------------------
(***************************************************************************)
(* Theorems of Fido2Server for any number of sessions, credentials,        *)
(* ceremonies and responses.  The inductive invariant says what the state  *)
(* dictionary leaves out: that it belongs to a ceremony of its session,    *)
(* that the list of an authentication is the beginning of the list there   *)
(* is now, and that no login was granted for a state that is still held.   *)
(***************************************************************************)
EXTENDS Fido2Server, FiniteSetTheorems, WellFoundedInduction, TLAPS

-------------------------------------------------------------------------------
USE DEF Challenges, Keys

(* The operators of the server.                                            *)

\* Indices have a least one: what the loop over the credentials finds first.
LEMMA LeastIndex ==
  ASSUME NEW n \in Nat, NEW T \in SUBSET (1..n), T # {}
  PROVE  \E m \in T : \A k \in T : m <= k
<1> DEFINE S == 1..n
           U == {1..k : k \in T}
<1>1. IsWellFoundedOn(StrictSubsetOrdering(S), SUBSET S)
  <2>1. IsFiniteSet(S)
    BY FS_Interval
  <2>2. FiniteSubsetsOf(S) = SUBSET S
    BY <2>1, FS_FiniteSubsetsOfFinite
  <2> QED BY <2>2, FS_StrictSubsetOrderingWellFounded
<1>2. U \subseteq SUBSET S /\ U # {}
  <2>1. ASSUME NEW k \in T PROVE 1..k \subseteq S
    OBVIOUS
  <2> QED BY <2>1
<1>3. \E x \in U : \A y \in U : ~ (<<y, x>> \in StrictSubsetOrdering(S))
  <2> HIDE DEF S, U
  <2> QED BY <1>1, <1>2, WFMin
<1>4. PICK m \in T : \A y \in U : ~ (<<y, 1..m>> \in StrictSubsetOrdering(S))
  BY <1>3
<1>5. ASSUME NEW k \in T, k < m PROVE FALSE
  <2>1. 1..k \subseteq 1..m /\ 1..k # 1..m /\ 1..k \subseteq S /\ 1..m \subseteq S
    <3>1. m \in 1..m /\ m \notin 1..k
      BY <1>5
    <3> QED BY <1>5, <3>1
  <2>2. <<1..k, 1..m>> \in StrictSubsetOrdering(S)
    BY <2>1 DEF StrictSubsetOrdering
  <2> QED BY <2>2, <1>4
<1> QED BY <1>5

\* What the authentication finds is the first credential with the ID.
LEMMA FoundIsListed ==
  ASSUME TypeOK, NEW r, NEW cred \in Found(r, credentials)
  PROVE  \E i \in DOMAIN credentials :
           /\ cred = credentials[i] /\ cred.id = r.id
           /\ \A j \in DOMAIN credentials : credentials[j].id = r.id => i <= j
<1> DEFINE same == {i \in DOMAIN credentials : credentials[i].id = r.id}
<1>1. same # {} /\ cred = credentials[CHOOSE i \in same : \A j \in same : i <= j]
  BY DEF Found
<1>2. \E i \in same : \A j \in same : i <= j
  <2>1. Len(credentials) \in Nat /\ same \subseteq 1..Len(credentials)
    BY DEF TypeOK
  <2> HIDE DEF same
  <2> QED BY <1>1, <2>1, LeastIndex
<1> QED BY <1>1, <1>2

-------------------------------------------------------------------------------
(* Every variable has its form.                                            *)

\* There are finitely many responses, so a new one has a new key.
Typed == TypeOK /\ IsFiniteSet(responses)

LEMMA RegisteredTyped == \A i \in DOMAIN Registered : Registered[i] \in Credential
<1> DEFINE R == [id : CredentialIds, key : Nat \ Keys]
<1>1. Registered \in Seq(R)
  BY ServerAssumption DEF ServerAssumption
<1>2. \A i \in DOMAIN Registered : Registered[i] \in R
  <2> HIDE DEF R
  <2> QED BY <1>1
<1> QED BY <1>2 DEF Credential

\* What a challenge refers to.
LEMMA CeremonyTyped ==
  ASSUME TypeOK, NEW c \in DOMAIN ceremonies
  PROVE  /\ c \in Challenges
         /\ ceremonies[c] \in [kind : {"create", "get"}, session : Sessions,
                               user_verification : Requirements,
                               allow : SUBSET Credential]
<1> DEFINE R == [kind : {"create", "get"}, session : Sessions,
                 user_verification : Requirements, allow : SUBSET Credential]
<1>1. ceremonies \in Seq(R) /\ Len(ceremonies) <= MaxCeremonies
  BY DEF TypeOK
<1>2. c \in 1..Len(ceremonies) /\ Len(ceremonies) \in Nat /\ ceremonies[c] \in R
  <2> HIDE DEF R
  <2> QED BY <1>1
<1> QED BY <1>1, <1>2, ServerAssumption DEF ServerAssumption

LEMMA InitTyped == Init => Typed
<1> SUFFICES ASSUME Init PROVE Typed
  OBVIOUS
<1>1. Registered \in Seq(Credential)
  <2>1. \A i \in 1..Len(Registered) : Registered[i] \in Credential
    BY RegisteredTyped, ServerAssumption DEF ServerAssumption
  <2>2. Registered = [i \in 1..Len(Registered) |-> Registered[i]] /\ Len(Registered) \in Nat
    BY ServerAssumption DEF ServerAssumption
  <2> QED BY <2>1, <2>2
<1> QED BY <1>1, FS_EmptySet, ServerAssumption DEF Init, Typed, TypeOK, ServerAssumption

LEMMA NextTyped == Typed /\ [Next]_vars => Typed'
<1> SUFFICES ASSUME TypeOK, IsFiniteSet(responses), [Next]_vars PROVE Typed'
  BY DEF Typed
<1> USE ServerAssumption DEF ServerAssumption
<1>1. ASSUME NEW s \in Sessions, NEW uv \in Requirements, NEW kind \in {"create", "get"},
             NEW allow \in SUBSET Credential, Begin(s, kind, uv, allow)
      PROVE  Typed'
  <2>1. Len(ceremonies) + 1 \in Challenges
    BY <1>1 DEF Begin, TypeOK
  <2>2. [challenge |-> Len(ceremonies) + 1, user_verification |-> uv] \in State
    BY <2>1 DEF State
  <2>3. session' \in [Sessions -> State \cup {NoState}]
    BY <1>1, <2>2 DEF Begin, TypeOK
  <2> QED BY <1>1, <2>1, <2>3 DEF Begin, Typed, TypeOK
<1>2. ASSUME NEW s \in Sessions, NEW uv \in Requirements, RegisterBegin(s, uv)
      PROVE  Typed'
  BY <1>1, <1>2 DEF RegisterBegin
<1>3. ASSUME NEW s \in Sessions, NEW uv \in Requirements, NEW listed \in BOOLEAN,
             AuthenticateBegin(s, uv, listed)
      PROVE  Typed'
  <2>1. Elements(credentials) \subseteq Credential
    BY DEF Elements, TypeOK
  <2> QED BY <1>1, <1>3, <2>1 DEF AuthenticateBegin
<1>4. ASSUME NEW s \in Sessions, NEW r \in responses, RegisterComplete(s, r)
      PROVE  Typed'
  <2>1. r \in Response /\ session[s] \in State
    BY <1>4 DEF RegisterComplete, TypeOK
  <2>2. [id |-> r.id, key |-> r.key] \in Credential
    BY <2>1 DEF Response, Credential
  <2>3. results' \in Seq([session : Sessions, kind : {"create", "get"}, state : State,
                         response : Response, credential : Credential])
    BY <1>4, <2>1, <2>2 DEF RegisterComplete, Result, TypeOK
  <2> QED BY <1>4, <2>2, <2>3 DEF RegisterComplete, Typed, TypeOK
<1>5. ASSUME NEW s \in Sessions, NEW r \in responses, AuthenticateComplete(s, r)
      PROVE  Typed'
  <2>1. r \in Response /\ session[s] \in State
    BY <1>5 DEF AuthenticateComplete, TypeOK
  <2>2. PICK cred \in Found(r, credentials) :
          results' = Append(results, Result(s, "get", session[s], r, cred))
    BY <1>5 DEF AuthenticateComplete
  <2>3. cred \in Credential
    BY <2>2, FoundIsListed DEF TypeOK
  <2>4. results' \in Seq([session : Sessions, kind : {"create", "get"}, state : State,
                         response : Response, credential : Credential])
    BY <2>1, <2>2, <2>3 DEF Result, TypeOK
  <2> QED BY <1>5, <2>4 DEF AuthenticateComplete, Popped, Typed, TypeOK
<1>6. ASSUME NEW s \in Sessions, NEW r \in responses, AuthenticateRefused(s, r)
      PROVE  Typed'
  BY <1>6 DEF AuthenticateRefused, Popped, Typed, TypeOK
<1>7. ASSUME NEW c \in DOMAIN ceremonies, NEW id \in CredentialIds, NEW key \in Nat,
             NEW uv \in BOOLEAN, NEW flaws \in FlawSets, Respond(c, id, key, uv, flaws)
      PROVE  Typed'
  <2>1. c \in Challenges /\ ceremonies[c].kind \in {"create", "get"}
    BY CeremonyTyped
  <2>2. [type |-> ceremonies[c].kind, challenge |-> c, id |-> id, key |-> key,
         uv |-> uv, flaws |-> flaws] \in Response
    BY <2>1 DEF Response
  <2> QED BY <1>7, <2>2, FS_AddElement DEF Respond, Typed, TypeOK
<1>8. ASSUME NEW c \in DOMAIN ceremonies, NEW id \in CredentialIds,
             NEW uv \in BOOLEAN, NEW flaws \in FlawSets, Create(c, id, uv, flaws)
      PROVE  Typed'
  <2>1. Cardinality(responses) + 1 \in Nat
    BY FS_CardinalityType
  <2> QED BY <1>7, <1>8, <2>1 DEF Create
<1>9. ASSUME NEW c \in DOMAIN ceremonies, NEW made \in Created,
             NEW uv \in BOOLEAN, NEW flaws \in FlawSets, Sign(c, made, uv, flaws)
      PROVE  Typed'
  <2>1. CASE made \in responses
    BY <1>7, <1>9, <2>1 DEF Sign, TypeOK, Response
  <2>2. CASE made \in Elements(Registered)
    <3>1. made.id \in CredentialIds /\ made.key \in Nat
      BY <2>2, RegisteredTyped DEF Elements, Credential
    <3> QED BY <1>7, <1>9, <3>1 DEF Sign
  <2> QED BY <2>1, <2>2 DEF Created
<1>10. UNCHANGED vars => Typed'
  BY DEF vars, Typed, TypeOK
<1> QED BY <1>2, <1>3, <1>4, <1>5, <1>6, <1>8, <1>9, <1>10 DEF Next

\* The records of the server keep their form in every behaviour.
THEOREM TypeCorrect == Spec => []TypeOK
<1>1. Typed => TypeOK
  BY DEF Typed
<1> QED BY InitTyped, NextTyped, <1>1, PTL DEF Spec

-------------------------------------------------------------------------------
(* The inductive invariant.                                                *)

\* A state that is held is that of a ceremony of its session, and nobody has
\* logged in with it.
StatesHold ==
  \A s \in Sessions : session[s] # NoState =>
    /\ session[s].challenge \in DOMAIN ceremonies
    /\ ceremonies[session[s].challenge].session = s
    /\ ceremonies[session[s].challenge].user_verification = session[s].user_verification
    /\ \A n \in DOMAIN results :
         results[n].kind = "get" => results[n].response.challenge # session[s].challenge

\* A response is of the kind of its ceremony, with an ID that was allowed.
ResponsesFit ==
  \A r \in responses :
    /\ r.challenge \in DOMAIN ceremonies
    /\ r.type = ceremonies[r.challenge].kind
    /\ r.type = "get" /\ ceremonies[r.challenge].allow # {} =>
         r.id \in Ids(ceremonies[r.challenge].allow)

\* The list of an authentication is the beginning of the list there is now.
ListsGrow ==
  \A c \in DOMAIN ceremonies : ceremonies[c].allow # {} =>
    \E n \in 1..Len(credentials) : ceremonies[c].allow = {credentials[i] : i \in 1..n}

CredentialsKnown ==
  \A i \in DOMAIN credentials :
    \/ credentials[i] \in Elements(Registered)
    \/ \E m \in DOMAIN results : /\ results[m].kind = "create"
                                 /\ results[m].credential = credentials[i]

LoginsOnce ==
  \A m, n \in DOMAIN results :
    /\ results[m].kind = "get" /\ results[n].kind = "get"
    /\ results[m].response.challenge = results[n].response.challenge
    => m = n

IInv ==
  /\ Typed /\ StatesHold /\ ResponsesFit /\ ListsGrow /\ CredentialsKnown /\ LoginsOnce
  /\ AcceptedForItsCeremony /\ ReturnsItsCredential

LEMMA InitHolds == Init => IInv
<1> SUFFICES ASSUME Init PROVE IInv
  OBVIOUS
<1>1. \A s \in Sessions : session[s] = NoState
  BY DEF Init
<1>2. CredentialsKnown
  BY DEF Init, CredentialsKnown, Elements
<1> QED BY <1>1, <1>2, InitTyped DEF Init, IInv, StatesHold, ResponsesFit, ListsGrow,
         LoginsOnce, AcceptedForItsCeremony, ReturnsItsCredential

LEMMA BeginHolds ==
  ASSUME IInv, Typed', NEW s \in Sessions, NEW uv, NEW kind,
         NEW allow, Begin(s, kind, uv, allow),
         allow # {} => allow = Elements(credentials)
  PROVE  IInv'
<1> DEFINE c == Len(ceremonies) + 1
<1>1. /\ ceremonies \in Seq([kind : {"create", "get"}, session : Sessions,
                            user_verification : Requirements, allow : SUBSET Credential])
      /\ credentials \in Seq(Credential)
      /\ session \in [Sessions -> State \cup {NoState}]
  BY DEF IInv, Typed, TypeOK
<1>2. /\ DOMAIN ceremonies' = DOMAIN ceremonies \cup {c}
      /\ c \notin DOMAIN ceremonies
      /\ \A d \in DOMAIN ceremonies : ceremonies'[d] = ceremonies[d]
      /\ ceremonies'[c] = [kind |-> kind, session |-> s, user_verification |-> uv, allow |-> allow]
  BY <1>1 DEF Begin
<1>3. UNCHANGED <<responses, credentials, results>>
  BY DEF Begin
<1>4. StatesHold'
  <2> SUFFICES ASSUME NEW t \in Sessions, session'[t] # NoState
               PROVE  /\ session'[t].challenge \in DOMAIN ceremonies'
                      /\ ceremonies'[session'[t].challenge].session = t
                      /\ ceremonies'[session'[t].challenge].user_verification = session'[t].user_verification
                      /\ \A n \in DOMAIN results : results[n].kind = "get" =>
                           results[n].response.challenge # session'[t].challenge
    BY <1>3 DEF StatesHold
  <2>1. CASE t = s
    <3>1. session'[t] = [challenge |-> c, user_verification |-> uv]
      BY <1>1, <2>1 DEF Begin
    <3> QED BY <1>2, <2>1, <3>1 DEF IInv, AcceptedForItsCeremony
  <2>2. CASE t # s
    <3>1. session'[t] = session[t]
      BY <1>1, <2>2 DEF Begin
    <3> QED BY <1>2, <3>1 DEF IInv, StatesHold
  <2> QED BY <2>1, <2>2
<1>5. ResponsesFit'
  BY <1>2, <1>3 DEF IInv, ResponsesFit
<1>6. ListsGrow'
  <2> SUFFICES ASSUME NEW d \in DOMAIN ceremonies', ceremonies'[d].allow # {}
               PROVE  \E n \in 1..Len(credentials') :
                        ceremonies'[d].allow = {credentials'[i] : i \in 1..n}
    BY DEF ListsGrow
  <2>1. CASE d = c
    <3>1. ceremonies'[d].allow = {credentials[i] : i \in 1..Len(credentials)}
      BY <1>1, <1>2, <2>1 DEF Elements
    <3>2. Len(credentials) \in Nat /\ Len(credentials) # 0
      BY <1>1, <3>1
    <3> QED BY <1>3, <3>1, <3>2
  <2>2. CASE d # c
    <3>1. ceremonies'[d].allow = ceremonies[d].allow /\ d \in DOMAIN ceremonies
      BY <1>2, <2>2
    <3>2. PICK n \in 1..Len(credentials) : ceremonies[d].allow = {credentials[i] : i \in 1..n}
      BY <3>1 DEF IInv, ListsGrow
    <3> QED BY <1>3, <3>1, <3>2
  <2> QED BY <2>1, <2>2
<1>7. CredentialsKnown' /\ LoginsOnce'
  BY <1>3 DEF IInv, CredentialsKnown, LoginsOnce
<1>8. AcceptedForItsCeremony'
  BY <1>2, <1>3 DEF IInv, AcceptedForItsCeremony
<1>9. ReturnsItsCredential'
  BY <1>2, <1>3 DEF IInv, ReturnsItsCredential, AcceptedForItsCeremony
<1> QED BY <1>4, <1>5, <1>6, <1>7, <1>8, <1>9 DEF IInv

\* A response that is accepted is of the ceremony of the state it is held to.
LEMMA AcceptedFits ==
  ASSUME IInv, NEW s \in Sessions, session[s] # NoState, NEW r \in responses,
         NEW kind \in {"create", "get"}, Verified(r, kind, session[s])
  PROVE  /\ r.challenge = session[s].challenge
         /\ r.challenge \in DOMAIN ceremonies
         /\ ceremonies[r.challenge].kind = kind
         /\ ceremonies[r.challenge].session = s
         /\ ceremonies[r.challenge].user_verification = "required" => r.uv
  BY DEF IInv, StatesHold, ResponsesFit, Verified

LEMMA RegisterHolds ==
  ASSUME IInv, Typed', NEW s \in Sessions, NEW r \in responses, RegisterComplete(s, r)
  PROVE  IInv'
<1> DEFINE cred == [id |-> r.id, key |-> r.key]
           e == Result(s, "create", session[s], r, cred)
           n == Len(results) + 1
           m == Len(credentials) + 1
<1>1. /\ results \in Seq([session : Sessions, kind : {"create", "get"}, state : State,
                         response : Response, credential : Credential])
      /\ credentials \in Seq(Credential)
  BY DEF IInv, Typed, TypeOK
<1>2. /\ results' = Append(results, e) /\ credentials' = Append(credentials, cred)
      /\ UNCHANGED <<ceremonies, session, responses>>
      /\ Verified(r, "create", session[s]) /\ session[s] # NoState
  BY DEF RegisterComplete, Registers
<1>3. /\ DOMAIN results' = DOMAIN results \cup {n} /\ n \notin DOMAIN results
      /\ \A k \in DOMAIN results : results'[k] = results[k]
      /\ results'[n] = e
      /\ DOMAIN results = 1..(n - 1) /\ n - 1 \in Nat
  BY <1>1, <1>2
<1>4. /\ DOMAIN credentials' = DOMAIN credentials \cup {m}
      /\ \A i \in DOMAIN credentials : credentials'[i] = credentials[i]
      /\ credentials'[m] = cred
      /\ DOMAIN credentials = 1..Len(credentials) /\ Len(credentials) \in Nat
      /\ Len(credentials') = m
  BY <1>1, <1>2
<1>5. e.kind = "create" /\ e.response = r /\ e.session = s /\ e.credential = cred
  BY DEF Result
<1> HIDE DEF e, n, m, cred
<1>6. StatesHold' /\ ResponsesFit'
  BY <1>2, <1>3, <1>5 DEF IInv, StatesHold, ResponsesFit
<1>7. ListsGrow'
  <2> SUFFICES ASSUME NEW d \in DOMAIN ceremonies, ceremonies[d].allow # {}
               PROVE  \E k \in 1..Len(credentials') :
                        ceremonies[d].allow = {credentials'[i] : i \in 1..k}
    BY <1>2 DEF ListsGrow
  <2>1. PICK k \in 1..Len(credentials) : ceremonies[d].allow = {credentials[i] : i \in 1..k}
    BY DEF IInv, ListsGrow
  <2>2. {credentials[i] : i \in 1..k} = {credentials'[i] : i \in 1..k}
    BY <1>4, <2>1
  <2>3. k \in 1..Len(credentials')
    BY <1>4, <2>1 DEF m
  <2> QED BY <2>1, <2>2, <2>3
<1>8. CredentialsKnown'
  <2> SUFFICES ASSUME NEW i \in DOMAIN credentials'
               PROVE  \/ credentials'[i] \in Elements(Registered)
                      \/ \E k \in DOMAIN results' : /\ results'[k].kind = "create"
                                                   /\ results'[k].credential = credentials'[i]
    BY DEF CredentialsKnown
  <2>1. CASE i = m
    BY <1>3, <1>4, <1>5, <2>1
  <2>2. CASE i \in DOMAIN credentials
    BY <1>3, <1>4, <2>2 DEF IInv, CredentialsKnown
  <2> QED BY <1>4, <2>1, <2>2
<1>9. LoginsOnce'
  BY <1>3, <1>5 DEF IInv, LoginsOnce
<1>10. AcceptedForItsCeremony'
  <2>1. /\ r.challenge \in DOMAIN ceremonies
        /\ ceremonies[r.challenge].kind = "create" /\ ceremonies[r.challenge].session = s
        /\ ceremonies[r.challenge].user_verification = "required" => r.uv
    BY <1>2, AcceptedFits
  <2> QED BY <1>2, <1>3, <1>5, <2>1 DEF IInv, AcceptedForItsCeremony
<1>11. ReturnsItsCredential'
  <2> SUFFICES ASSUME NEW k \in DOMAIN results', results'[k].kind = "get"
               PROVE  /\ results'[k].credential.key = results'[k].response.key
                      /\ ceremonies[results'[k].response.challenge].allow # {} =>
                           results'[k].credential \in ceremonies[results'[k].response.challenge].allow
                      /\ \/ results'[k].credential \in Elements(Registered)
                         \/ \E j \in 1..(k - 1) : /\ results'[j].kind = "create"
                                                  /\ results'[j].credential = results'[k].credential
    BY <1>2 DEF ReturnsItsCredential
  <2>1. k \in DOMAIN results /\ results'[k] = results[k]
    BY <1>3, <1>5
  <2>2. \A j \in 1..(k - 1) : results'[j] = results[j]
    BY <1>3, <2>1
  <2> QED BY <2>1, <2>2 DEF IInv, ReturnsItsCredential
<1> QED BY <1>6, <1>7, <1>8, <1>9, <1>10, <1>11 DEF IInv

LEMMA AuthenticateHolds ==
  ASSUME IInv, Typed', NEW s \in Sessions, NEW r \in responses, AuthenticateComplete(s, r)
  PROVE  IInv'
<1> DEFINE n == Len(results) + 1
<1>1. /\ results \in Seq([session : Sessions, kind : {"create", "get"}, state : State,
                         response : Response, credential : Credential])
      /\ session \in [Sessions -> State \cup {NoState}]
  BY DEF IInv, Typed, TypeOK
<1>2. PICK cred \in Found(r, credentials) :
        /\ Authenticates(r, session[s], cred)
        /\ results' = Append(results, Result(s, "get", session[s], r, cred))
  BY DEF AuthenticateComplete
<1>3. /\ UNCHANGED <<ceremonies, responses, credentials>>
      /\ session' = [session EXCEPT ![s] = NoState] /\ session[s] # NoState
      /\ Verified(r, "get", session[s]) /\ cred.key = r.key
  BY <1>2 DEF AuthenticateComplete, Popped, Authenticates
<1> DEFINE e == Result(s, "get", session[s], r, cred)
<1>4. /\ DOMAIN results' = DOMAIN results \cup {n} /\ n \notin DOMAIN results
      /\ \A k \in DOMAIN results : results'[k] = results[k]
      /\ results'[n] = e
      /\ DOMAIN results = 1..(n - 1) /\ n - 1 \in Nat
  BY <1>1, <1>2
<1>5. e.kind = "get" /\ e.response = r /\ e.session = s /\ e.credential = cred
  BY DEF Result
<1> HIDE DEF e, n
<1>6. /\ r.challenge = session[s].challenge
      /\ r.challenge \in DOMAIN ceremonies
      /\ ceremonies[r.challenge].kind = "get" /\ ceremonies[r.challenge].session = s
      /\ ceremonies[r.challenge].user_verification = "required" => r.uv
  BY <1>3, AcceptedFits
<1>7. StatesHold'
  <2> SUFFICES ASSUME NEW t \in Sessions, session'[t] # NoState
               PROVE  /\ session'[t].challenge \in DOMAIN ceremonies
                      /\ ceremonies[session'[t].challenge].session = t
                      /\ ceremonies[session'[t].challenge].user_verification = session'[t].user_verification
                      /\ \A k \in DOMAIN results' : results'[k].kind = "get" =>
                           results'[k].response.challenge # session'[t].challenge
    BY <1>3 DEF StatesHold
  <2>1. t # s /\ session'[t] = session[t]
    BY <1>1, <1>3
  <2> QED BY <1>4, <1>5, <1>6, <2>1 DEF IInv, StatesHold
<1>8. ResponsesFit' /\ ListsGrow'
  BY <1>3 DEF IInv, ResponsesFit, ListsGrow
<1>9. CredentialsKnown'
  BY <1>3, <1>4 DEF IInv, CredentialsKnown
<1>10. \A k \in DOMAIN results : results[k].kind = "get" => results[k].response.challenge # r.challenge
  BY <1>3, <1>6 DEF IInv, StatesHold
<1>11. LoginsOnce'
  BY <1>4, <1>5, <1>10 DEF IInv, LoginsOnce
<1>12. AcceptedForItsCeremony'
  BY <1>3, <1>4, <1>5, <1>6 DEF IInv, AcceptedForItsCeremony
<1>13. /\ ceremonies[r.challenge].allow # {} => cred \in ceremonies[r.challenge].allow
       /\ \/ cred \in Elements(Registered)
          \/ \E k \in DOMAIN results : results[k].kind = "create" /\ results[k].credential = cred
  <2>1. PICK i \in DOMAIN credentials :
          /\ cred = credentials[i] /\ cred.id = r.id
          /\ \A j \in DOMAIN credentials : credentials[j].id = r.id => i <= j
    BY <1>2, FoundIsListed DEF IInv, Typed
  <2>2. ASSUME ceremonies[r.challenge].allow # {}
        PROVE  cred \in ceremonies[r.challenge].allow
    <3>1. PICK k \in 1..Len(credentials) :
            ceremonies[r.challenge].allow = {credentials[j] : j \in 1..k}
      BY <1>6, <2>2 DEF IInv, ListsGrow
    <3>2. r.id \in Ids(ceremonies[r.challenge].allow)
      BY <1>3, <2>2 DEF IInv, ResponsesFit, Verified
    <3>3. PICK j \in 1..k : credentials[j].id = r.id
      BY <3>1, <3>2 DEF Ids
    <3>4. i \in 1..k /\ DOMAIN credentials = 1..Len(credentials)
      BY <2>1, <3>3 DEF IInv, Typed, TypeOK
    <3> QED BY <2>1, <3>1, <3>4
  <2> QED BY <2>1, <2>2 DEF IInv, CredentialsKnown
<1>14. ReturnsItsCredential'
  <2> SUFFICES ASSUME NEW k \in DOMAIN results', results'[k].kind = "get"
               PROVE  /\ results'[k].credential.key = results'[k].response.key
                      /\ ceremonies[results'[k].response.challenge].allow # {} =>
                           results'[k].credential \in ceremonies[results'[k].response.challenge].allow
                      /\ \/ results'[k].credential \in Elements(Registered)
                         \/ \E j \in 1..(k - 1) : /\ results'[j].kind = "create"
                                                  /\ results'[j].credential = results'[k].credential
    BY <1>3 DEF ReturnsItsCredential
  <2>1. CASE k = n
    BY <1>3, <1>4, <1>5, <1>13, <2>1
  <2>2. CASE k \in DOMAIN results
    <3>1. \A j \in 1..(k - 1) : results'[j] = results[j]
      BY <1>4, <2>2
    <3> QED BY <1>4, <2>2, <3>1 DEF IInv, ReturnsItsCredential
  <2> QED BY <1>4, <2>1, <2>2
<1> QED BY <1>7, <1>8, <1>9, <1>11, <1>12, <1>14 DEF IInv

LEMMA RefusedHolds ==
  ASSUME IInv, Typed', NEW s \in Sessions, NEW r \in responses, AuthenticateRefused(s, r)
  PROVE  IInv'
<1>1. /\ UNCHANGED <<ceremonies, responses, credentials, results>>
      /\ session \in [Sessions -> State \cup {NoState}]
      /\ session' = [session EXCEPT ![s] = NoState]
  BY DEF AuthenticateRefused, Popped, IInv, Typed, TypeOK
<1>2. StatesHold'
  BY <1>1 DEF IInv, StatesHold
<1> QED BY <1>1, <1>2 DEF IInv, ResponsesFit, ListsGrow, CredentialsKnown, LoginsOnce,
         AcceptedForItsCeremony, ReturnsItsCredential

LEMMA RespondHolds ==
  ASSUME IInv, Typed', NEW c \in DOMAIN ceremonies, NEW id, NEW key, NEW uv, NEW flaws,
         Respond(c, id, key, uv, flaws),
         ceremonies[c].kind = "get" /\ ceremonies[c].allow # {} => id \in Ids(ceremonies[c].allow)
  PROVE  IInv'
<1>1. UNCHANGED <<ceremonies, session, credentials, results>>
  BY DEF Respond
<1>2. ResponsesFit'
  <2> DEFINE new == [type |-> ceremonies[c].kind, challenge |-> c, id |-> id, key |-> key,
                     uv |-> uv, flaws |-> flaws]
  <2>1. responses' = responses \cup {new}
    BY DEF Respond
  <2>2. new.type = ceremonies[c].kind /\ new.challenge = c /\ new.id = id
    OBVIOUS
  <2> HIDE DEF new
  <2> QED BY <1>1, <2>1, <2>2 DEF IInv, ResponsesFit
<1> QED BY <1>1, <1>2 DEF IInv, StatesHold, ListsGrow, CredentialsKnown, LoginsOnce,
         AcceptedForItsCeremony, ReturnsItsCredential

LEMMA NextHolds == IInv /\ [Next]_vars => IInv'
<1> SUFFICES ASSUME IInv, [Next]_vars PROVE IInv'
  OBVIOUS
<1>1. Typed'
  BY NextTyped DEF IInv
<1>2. ASSUME NEW s \in Sessions, NEW uv \in Requirements,
             \/ RegisterBegin(s, uv) \/ \E listed \in BOOLEAN : AuthenticateBegin(s, uv, listed)
      PROVE  IInv'
  BY <1>1, <1>2, BeginHolds DEF RegisterBegin, AuthenticateBegin
<1>3. ASSUME NEW s \in Sessions, NEW r \in responses,
             RegisterComplete(s, r) \/ AuthenticateComplete(s, r) \/ AuthenticateRefused(s, r)
      PROVE  IInv'
  BY <1>1, <1>3, RegisterHolds, AuthenticateHolds, RefusedHolds
<1>4. ASSUME NEW c \in DOMAIN ceremonies, NEW uv \in BOOLEAN, NEW flaws \in FlawSets,
             \/ \E id \in CredentialIds : Create(c, id, uv, flaws)
             \/ \E made \in Created : Sign(c, made, uv, flaws)
      PROVE  IInv'
  BY <1>1, <1>4, RespondHolds DEF Create, Sign
<1>5. UNCHANGED vars => IInv'
  BY <1>1 DEF vars, IInv, StatesHold, ResponsesFit, ListsGrow, CredentialsKnown, LoginsOnce,
     AcceptedForItsCeremony, ReturnsItsCredential
<1> QED BY <1>2, <1>3, <1>4, <1>5 DEF Next

-------------------------------------------------------------------------------
(* What the server owes.                                                   *)

\* Fido2Server and its application accept a response for the ceremony it was made
\* for and no other, although the state names neither its session nor its kind.
THEOREM AcceptsForItsCeremony == Spec => []AcceptedForItsCeremony
<1>1. IInv => AcceptedForItsCeremony
  BY DEF IInv
<1> QED BY InitHolds, NextHolds, <1>1, PTL DEF Spec

\* authenticate_complete returns a registered credential, of the list that its
\* ceremony began with, whose key made the response.
THEOREM ReturnsRegistered == Spec => []ReturnsItsCredential
<1>1. IInv => ReturnsItsCredential
  BY DEF IInv
<1> QED BY InitHolds, NextHolds, <1>1, PTL DEF Spec
-------------------------------------------------------------------------------
(* The server implements RelyingParty.                                     *)

\* What the refinement maps to: the ceremonies by challenge, those that were
\* answered as they asked for, and the logins of each.
Begun == [c \in Challenges |->
            IF c <= Len(ceremonies) THEN ceremonies[c].kind ELSE "not"]
AsAsked(r) == ceremonies[r.challenge].user_verification = "required" => r.uv
Answered == {r.challenge : r \in {x \in responses : AsAsked(x)}}
LoginResults(c) ==
  {n \in DOMAIN results : results[n].kind = "get" /\ results[n].response.challenge = c}
LoginCounts == [c \in Challenges |-> Logins(c)]

LEMMA LoginsCounted ==
  /\ LoginCounts = [c \in Challenges |-> Cardinality(LoginResults(c))]
  /\ LoginCounts' = [c \in Challenges |-> Cardinality(LoginResults(c)')]
BY DEF LoginCounts, Logins, LoginResults

LEMMA PartyStep ==
  ASSUME NEW c \in Challenges,
         \/ /\ Begun[c] = "not" /\ UNCHANGED <<Answered, LoginCounts>>
            /\ \E kind \in {"create", "get"} : Begun' = [Begun EXCEPT ![c] = kind]
         \/ /\ Begun[c] # "not" /\ Answered' = Answered \cup {c}
            /\ UNCHANGED <<Begun, LoginCounts>>
         \/ /\ Begun[c] = "get" /\ c \in Answered /\ LoginCounts[c] = 0
            /\ LoginCounts' = [LoginCounts EXCEPT ![c] = 1]
            /\ UNCHANGED <<Begun, Answered>>
  PROVE  Party!Next
<1>1. CASE /\ Begun[c] = "not" /\ UNCHANGED <<Answered, LoginCounts>>
           /\ \E kind \in {"create", "get"} : Begun' = [Begun EXCEPT ![c] = kind]
  <2>1. PICK kind \in {"create", "get"} : Begun' = [Begun EXCEPT ![c] = kind]
    BY <1>1
  <2>2. Party!Begin(c, kind)
    BY <1>1, <2>1 DEF Party!Begin, Begun, Answered, AsAsked, LoginCounts, Logins
  <2> QED BY <2>2 DEF Party!Next
<1>2. CASE /\ Begun[c] # "not" /\ Answered' = Answered \cup {c}
           /\ UNCHANGED <<Begun, LoginCounts>>
  <2>1. Party!Answer(c)
    BY <1>2 DEF Party!Answer, Begun, Answered, AsAsked, LoginCounts, Logins
  <2> QED BY <2>1 DEF Party!Next
<1>3. CASE /\ Begun[c] = "get" /\ c \in Answered /\ LoginCounts[c] = 0
           /\ LoginCounts' = [LoginCounts EXCEPT ![c] = 1]
           /\ UNCHANGED <<Begun, Answered>>
  <2>1. Party!Login(c)
    BY <1>3 DEF Party!Login, Begun, Answered, AsAsked, LoginCounts, Logins
  <2> QED BY <2>1 DEF Party!Next
<1> QED BY <1>1, <1>2, <1>3

\* A step that grants no login leaves the counts alone.
LEMMA NoLogin ==
  ASSUME \/ UNCHANGED results
         \/ \E e : /\ results' = Append(results, e) /\ e.kind = "create"
                   /\ \E S : results \in Seq(S)
  PROVE  UNCHANGED LoginCounts
<1>1. CASE UNCHANGED results
  BY <1>1 DEF LoginCounts, Logins
<1>2. ASSUME NEW e, NEW S, results \in Seq(S), results' = Append(results, e), e.kind = "create"
      PROVE  UNCHANGED LoginCounts
  <2>1. /\ DOMAIN results' = DOMAIN results \cup {Len(results) + 1}
        /\ \A n \in DOMAIN results : results'[n] = results[n]
        /\ results'[Len(results) + 1] = e
    BY <1>2
  <2>2. ASSUME NEW c PROVE LoginResults(c)' = LoginResults(c)
    BY <1>2, <2>1 DEF LoginResults
  <2> QED BY <2>2, LoginsCounted
<1> QED BY <1>1, <1>2

LEMMA BeginIsParty ==
  ASSUME IInv, NEW s \in Sessions, NEW uv, NEW kind \in {"create", "get"}, NEW allow,
         Begin(s, kind, uv, allow)
  PROVE  Party!Next
<1> DEFINE c == Len(ceremonies) + 1
<1>1. /\ ceremonies \in Seq([kind : {"create", "get"}, session : Sessions,
                            user_verification : Requirements, allow : SUBSET Credential])
      /\ MaxCeremonies \in Nat /\ Len(ceremonies) \in Nat
  BY ServerAssumption DEF IInv, Typed, TypeOK, ServerAssumption
<1>2. /\ DOMAIN ceremonies' = 1..c /\ Len(ceremonies') = c
      /\ DOMAIN ceremonies = 1..Len(ceremonies)
      /\ \A d \in DOMAIN ceremonies : ceremonies'[d] = ceremonies[d]
      /\ ceremonies'[c].kind = kind
      /\ c \in Challenges
  BY <1>1 DEF Begin
<1>3. UNCHANGED <<responses, results>>
  BY DEF Begin
<1>4. Begun[c] = "not"
  BY <1>1, <1>2 DEF Begun
<1>5. Begun' = [Begun EXCEPT ![c] = kind]
  <2>1. ASSUME NEW d \in Challenges PROVE Begun'[d] = [Begun EXCEPT ![c] = kind][d]
    <3>1. CASE d = c
      BY <1>1, <1>2, <3>1 DEF Begun
    <3>2. CASE d # c
      BY <1>1, <1>2, <3>2 DEF Begun
    <3> QED BY <3>1, <3>2
  <2>2. /\ Begun' = [d \in Challenges |-> Begun'[d]]
        /\ [Begun EXCEPT ![c] = kind] = [d \in Challenges |-> [Begun EXCEPT ![c] = kind][d]]
    BY DEF Begun
  <2> HIDE DEF c
  <2> QED BY <2>1, <2>2
<1>6. UNCHANGED Answered
  <2>1. \A r \in responses : AsAsked(r)' = AsAsked(r)
    BY <1>2 DEF IInv, ResponsesFit, AsAsked
  <2> QED BY <1>3, <2>1 DEF Answered
<1>7. UNCHANGED LoginCounts
  BY <1>3, NoLogin
<1> HIDE DEF c
<1> QED BY <1>2, <1>4, <1>5, <1>6, <1>7, PartyStep

LEMMA LoginIsParty ==
  ASSUME IInv, NEW s \in Sessions, NEW r \in responses, AuthenticateComplete(s, r)
  PROVE  Party!Next
<1> DEFINE c == r.challenge
           n == Len(results) + 1
<1>1. PICK cred \in Found(r, credentials) :
        /\ Authenticates(r, session[s], cred)
        /\ results' = Append(results, Result(s, "get", session[s], r, cred))
  BY DEF AuthenticateComplete
<1>2. /\ UNCHANGED <<ceremonies, responses>>
      /\ session[s] # NoState /\ Verified(r, "get", session[s])
  BY <1>1 DEF AuthenticateComplete, Authenticates
<1>3. /\ c = session[s].challenge /\ c \in DOMAIN ceremonies /\ ceremonies[c].kind = "get"
      /\ AsAsked(r)
  BY <1>2, AcceptedFits DEF AsAsked
<1>4. /\ results \in Seq([session : Sessions, kind : {"create", "get"}, state : State,
                         response : Response, credential : Credential])
      /\ ceremonies \in Seq([kind : {"create", "get"}, session : Sessions,
                            user_verification : Requirements, allow : SUBSET Credential])
      /\ Len(ceremonies) <= MaxCeremonies /\ MaxCeremonies \in Nat
  BY ServerAssumption DEF IInv, Typed, TypeOK, ServerAssumption
<1>5. /\ DOMAIN results' = DOMAIN results \cup {n} /\ n \notin DOMAIN results
      /\ \A k \in DOMAIN results : results'[k] = results[k]
      /\ results'[n].kind = "get" /\ results'[n].response = r
  BY <1>1, <1>4 DEF Result
<1>6. c \in Challenges /\ Begun[c] = "get" /\ c \in Answered
  BY <1>3, <1>4 DEF Begun, Answered
<1>7. LoginResults(c) = {} /\ LoginResults(c)' = {n}
  <2>1. \A k \in DOMAIN results : results[k].kind = "get" => results[k].response.challenge # c
    BY <1>2, <1>3 DEF IInv, StatesHold
  <2> HIDE DEF n
  <2> QED BY <1>5, <2>1 DEF LoginResults
<1>8. ASSUME NEW d \in Challenges, d # c PROVE LoginResults(d)' = LoginResults(d)
  BY <1>5, <1>8 DEF LoginResults
<1> HIDE DEF c, n
<1>9. LoginCounts[c] = 0 /\ LoginCounts' = [LoginCounts EXCEPT ![c] = 1]
  <2>1. Cardinality(LoginResults(c)) = 0 /\ Cardinality(LoginResults(c)') = 1
    BY <1>7, FS_EmptySet, FS_Singleton
  <2> QED BY <1>6, <1>8, <2>1, LoginsCounted
<1>10. UNCHANGED <<Begun, Answered>>
  BY <1>2 DEF Begun, Answered, AsAsked
<1> QED BY <1>6, <1>9, <1>10, PartyStep

LEMMA RespondIsParty ==
  ASSUME IInv, NEW c \in DOMAIN ceremonies, NEW id, NEW key, NEW uv, NEW flaws,
         Respond(c, id, key, uv, flaws)
  PROVE  Party!Next \/ UNCHANGED <<Begun, Answered, LoginCounts>>
<1> DEFINE new == [type |-> ceremonies[c].kind, challenge |-> c, id |-> id, key |-> key,
                   uv |-> uv, flaws |-> flaws]
<1>1. responses' = responses \cup {new} /\ UNCHANGED <<ceremonies, results>> /\ new.challenge = c
  BY DEF Respond
<1>2. /\ ceremonies \in Seq([kind : {"create", "get"}, session : Sessions,
                            user_verification : Requirements, allow : SUBSET Credential])
      /\ Len(ceremonies) <= MaxCeremonies /\ MaxCeremonies \in Nat
  BY ServerAssumption DEF IInv, Typed, TypeOK, ServerAssumption
<1>3. c \in Challenges /\ Begun[c] # "not"
  <2>1. c \in 1..Len(ceremonies) /\ Len(ceremonies) \in Nat
    BY <1>2
  <2>2. c \in Challenges /\ c <= Len(ceremonies)
    BY <1>2, <2>1
  <2>3. Begun[c] = ceremonies[c].kind
    BY <2>2 DEF Begun
  <2>4. ceremonies[c].kind # "not"
    BY CeremonyTyped DEF IInv, Typed
  <2> QED BY <2>2, <2>3, <2>4
<1>4. UNCHANGED <<Begun, LoginCounts>>
  BY <1>1 DEF Begun, LoginCounts, Logins
<1> HIDE DEF new
<1>5. \A r : AsAsked(r)' = AsAsked(r)
  BY <1>1 DEF AsAsked
<1>6. CASE AsAsked(new)
  <2>1. Answered' = Answered \cup {c}
    BY <1>1, <1>5, <1>6 DEF Answered
  <2> QED BY <1>3, <1>4, <2>1, PartyStep
<1>7. CASE ~AsAsked(new)
  <2>1. Answered' = Answered
    BY <1>1, <1>5, <1>7 DEF Answered
  <2> QED BY <1>4, <2>1
<1> QED BY <1>6, <1>7

\* Fido2Server and its application implement RelyingParty: whatever is posted, a
\* login needs an answer to its own ceremony, as verified as that ceremony asked
\* for, and is granted once (authenticate_complete, and the pop of its state).
THEOREM ImplementsParty == Spec => PartyContract
<1>1. Init => Party!Init
  <2> SUFFICES ASSUME Init PROVE Party!Init
    OBVIOUS
  <2>1. ASSUME NEW c \in Challenges PROVE Begun[c] = "not" /\ LoginCounts[c] = 0
    <3>1. LoginResults(c) = {}
      BY DEF Init, LoginResults
    <3>2. LoginCounts[c] = 0
      BY <3>1, LoginsCounted, FS_EmptySet
    <3>3. ~(c <= Len(ceremonies))
      BY ServerAssumption DEF Init, ServerAssumption
    <3> QED BY <3>2, <3>3 DEF Begun
  <2>2. Answered = {}
    BY DEF Init, Answered
  <2> QED BY <2>1, <2>2 DEF Party!Init, Begun, Answered, AsAsked, LoginCounts, Logins
<1>2. IInv /\ [Next]_vars => Party!Next \/ UNCHANGED <<Begun, Answered, LoginCounts>>
  <2> SUFFICES ASSUME IInv, [Next]_vars
               PROVE  Party!Next \/ UNCHANGED <<Begun, Answered, LoginCounts>>
    OBVIOUS
  <2>1. ASSUME NEW s \in Sessions, NEW uv \in Requirements,
               \/ RegisterBegin(s, uv) \/ \E listed \in BOOLEAN : AuthenticateBegin(s, uv, listed)
        PROVE  Party!Next
    BY <2>1, BeginIsParty DEF RegisterBegin, AuthenticateBegin
  <2>2. ASSUME NEW s \in Sessions, NEW r \in responses, RegisterComplete(s, r)
        PROVE  UNCHANGED <<Begun, Answered, LoginCounts>>
    <3>1. /\ UNCHANGED <<ceremonies, responses>>
          /\ \E e : results' = Append(results, e) /\ e.kind = "create"
      BY <2>2 DEF RegisterComplete, Result
    <3>2. \E S : results \in Seq(S)
      BY DEF IInv, Typed, TypeOK
    <3>3. UNCHANGED LoginCounts
      BY <3>1, <3>2, NoLogin
    <3> QED BY <3>1, <3>3 DEF Begun, Answered, AsAsked
  <2>3. ASSUME NEW s \in Sessions, NEW r \in responses, AuthenticateRefused(s, r)
        PROVE  UNCHANGED <<Begun, Answered, LoginCounts>>
    BY <2>3 DEF AuthenticateRefused, Begun, Answered, AsAsked, LoginCounts, Logins
  <2>4. ASSUME NEW c \in DOMAIN ceremonies, NEW uv \in BOOLEAN, NEW flaws \in FlawSets,
               \/ \E id \in CredentialIds : Create(c, id, uv, flaws)
               \/ \E made \in Created : Sign(c, made, uv, flaws)
        PROVE  Party!Next \/ UNCHANGED <<Begun, Answered, LoginCounts>>
    BY <2>4, RespondIsParty DEF Create, Sign
  <2>5. CASE UNCHANGED vars
    BY <2>5 DEF vars, Begun, Answered, AsAsked, LoginCounts, Logins
  <2> QED BY <2>1, <2>2, <2>3, <2>4, <2>5, LoginIsParty DEF Next
<1>3. IInv /\ [Next]_vars => [Party!Next]_<<Begun, Answered, LoginCounts>>
  BY <1>2
<1> QED BY InitHolds, NextHolds, <1>1, <1>3, PTL
        DEF Spec, PartyContract, Party!Spec, Begun, Answered, AsAsked, LoginCounts
===============================================================================
