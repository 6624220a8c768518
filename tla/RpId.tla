-------------------------------- MODULE RpId --------------------------------
(***************************************************************************)
(* The RP ID a client uses for an origin (fido2/rpid.py and _get_rp_id of  *)
(* fido2/client/__init__.py).  A name is the sequence of its labels and    *)
(* dots, compared as the strings they spell; the public suffix list is a   *)
(* set of names that is only ever looked up literally.                     *)
(***************************************************************************)
EXTENDS SequencesExt

CONSTANTS PublicSuffixes

Dot == "."
Localhost == <<"localhost">>
NoName == <<>>

EndsWith(name, tail) == IsSuffix(tail, name)

\* http is taken for a secure context on the machine itself
Secure(origin) ==
  \/ origin.scheme = "https"
  \/ /\ origin.scheme = "http"
     /\ origin.host = Localhost \/ EndsWith(origin.host, <<Dot>> \o Localhost)

Under(rpId, host) == host = rpId \/ (EndsWith(host, <<Dot>> \o rpId) /\ rpId \notin PublicSuffixes)
UnderByLetters(rpId, host) == host = rpId \/ (EndsWith(host, rpId) /\ rpId \notin PublicSuffixes)

WithinByLetters(rpId, origin) == rpId # NoName /\ Secure(origin) /\ UnderByLetters(rpId, origin.host)
VerifyRpId(rpId, origin) == rpId # NoName /\ Secure(origin) /\ Under(rpId, origin.host)

\* no RP ID given: the netloc of an https origin, which keeps the port
GetRpId(origin) ==
  IF origin.scheme # "https" \/ origin.host = NoName THEN NoName
  ELSE origin.host \o origin.port

-----------------------------------------------------------------------------
\* a dot begins the next label, anything else belongs to the last one
Extended(labels, x) ==
  IF x = Dot THEN Append(labels, <<>>)
  ELSE Append(Front(labels), Append(Last(labels), x))

Labels(name) ==
  LET upTo[i \in 0..Len(name)] == IF i = 0 THEN << <<>> >> ELSE Extended(upTo[i - 1], name[i])
  IN upTo[Len(name)]

\* the name is the host's own or that of a whole domain above it, and then
\* none that the list gives away to everyone; a default is always accepted
\* unless the origin names a port
Scoped(rpId, origin) ==
  /\ VerifyRpId(rpId, origin) =>
       /\ IsSuffix(Labels(rpId), Labels(origin.host))
       /\ rpId \in PublicSuffixes => Labels(rpId) = Labels(origin.host)
       /\ origin.scheme = "https" \/ Last(origin.host) = "localhost"
  /\ LET default == GetRpId(origin) IN
     default # NoName => (VerifyRpId(default, origin) <=> origin.port = NoName)
=============================================================================
