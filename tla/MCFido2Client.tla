---------------------------- MODULE MCFido2Client ----------------------------
(***************************************************************************)
(* Authenticators and requests for Fido2Client. The authenticators differ  *)
(* in what _should_use_uv and _get_token look at; the requests in what     *)
(* decides which branch of a ceremony is taken.                            *)
(***************************************************************************)
EXTENDS Fido2Client

CONSTANTS c1, c2, c3

MCCredIds == {c1, c2, c3}
MCUvOnly == {c2}
MCListOrUv == {c1}

Info(off, on, connect) ==
    [present |-> on \cup off, on |-> on \ {"hmac-secret"}, connect |-> connect,
     protocol |-> (on \cup off) \cap {"clientPin", "pinUvAuthToken"} # {},
     maxCreds |-> IF connect THEN 2 ELSE 1]

PinKey == Info({"uv"}, {"clientPin", "pinUvAuthToken", "rk", "makeCredUvNotRqd",
                        "largeBlobs", "hmac-secret"}, FALSE)
NfcPinKey == Info({}, {"clientPin", "pinUvAuthToken", "rk", "largeBlobs",
                       "hmac-secret"}, TRUE)
BioKey == Info({}, {"uv", "bioEnroll", "clientPin", "pinUvAuthToken", "alwaysUv",
                    "rk", "largeBlobs", "hmac-secret"}, FALSE)
OldPinKey == Info({}, {"clientPin", "rk"}, TRUE)
OldBioKey == Info({}, {"uv", "clientPin", "rk"}, FALSE)
BioOnlyKey == Info({"clientPin"}, {"uv", "pinUvAuthToken", "rk"}, FALSE)
BareBioKey == Info({}, {"uv"}, FALSE)
NoPinKey == Info({"clientPin", "pinUvAuthToken"}, {"rk", "largeBlobs"}, FALSE)

AllKeys == {PinKey, NfcPinKey, BioKey, OldPinKey, OldBioKey, BioOnlyKey,
            BareBioKey, NoPinKey}

Request(op, uv, list, ext, timeout) ==
    [op |-> op, uv |-> uv, list |-> list, ext |-> ext, timeout |-> timeout,
     rk |-> IF list = {} THEN "required" ELSE "preferred", rp |-> "given"]

Select == Request("select", "discouraged", {}, {}, FALSE)

Registrations ==
    {Request("make", uv, list, {}, FALSE) :
        uv \in Requirement, list \in {{}, {c1}, MCCredIds}}
Logins ==
    {Request("get", uv, list, ext, FALSE) :
        uv \in Requirement, list \in {{}, {c2}, MCCredIds},
        ext \in {{}, {"write"}, {"prf"}}}

AllRequests ==
    Registrations \cup Logins
        \cup {Select, Request("make", "preferred", {c2}, {"write"}, TRUE),
              Request("get", "preferred", {c2}, {"prf", "bad"}, TRUE),
              [Select EXCEPT !.op = "make", !.rp = "invalid"],
              [Select EXCEPT !.op = "get", !.rp = "omitted", !.list = {c1}],
              [Select EXCEPT !.op = "get", !.rp = "omitted", !.uv = "required"]}

\* Two ceremonies in a row.
FewKeys == {PinKey, NfcPinKey}
FewRequests ==
    {Request("make", "discouraged", {c1, c2}, {}, TRUE),
     Request("get", "discouraged", {c1}, {"write"}, TRUE),
     Request("get", "required", {}, {"prf"}, FALSE)}

OldBioKeys == {OldBioKey}
UvRegistrations == {Request("make", "required", {c2}, {}, FALSE)}

BadRpRequests == {[Request("make", "discouraged", {c1}, {}, TRUE) EXCEPT !.rp = rp] :
                     rp \in {"given", "invalid"}}
OmittedRpRequests == {[Request("get", "preferred", {c1}, {}, FALSE) EXCEPT !.rp = "omitted"],
                      Request("get", "required", {c1}, {}, FALSE)}
=============================================================================
