----------------------------- MODULE DeviceLists -----------------------------
(***************************************************************************)
(* CtapHidDevice.list_devices on every platform: list_descriptors of the   *)
(* HID backend, a loop over paths during which devices come and go, then   *)
(* the connections, opened one by one as the generator is consumed.        *)
(*                                                                         *)
(* A device is a CTAP device that can be read ("fido"), one that cannot    *)
(* ("broken": no permission, busy), on FreeBSD one that can be read as     *)
(* uhid only ("uhid"), or no CTAP device ("other").                        *)
(***************************************************************************)
EXTENDS Naturals, FiniteSets

CONSTANTS
  Paths,         \* a range of numbers: NetBSD tries them in order
  Platforms,     \* the platforms considered
  MaxChanges,    \* bound: devices that come, go or change
  MaxListings    \* bound: calls of list_devices

ListsAssumption ==
  /\ Paths \subseteq Nat /\ IsFiniteSet(Paths)
  /\ Platforms \subseteq {"linux", "openbsd", "netbsd", "freebsd", "windows",
                          "macos"}
  /\ MaxChanges \in Nat /\ MaxListings \in Nat

VARIABLES
  platform,
  devices,      \* what is at each path
  known,        \* Windows: the paths with a cached descriptor
  failed,       \* the paths in _failed_cache, on Windows those with _SKIP
  stale,        \* stale
  phase,        \* "idle", "scan", "uhid" (FreeBSD, second loop), "open"
  todo,         \* the paths the loop has not come to
  descriptors,  \* the paths in descriptors
  opened,       \* the devices the generator has yielded
  outcome       \* of the last call: "none", "list" or "raised"

VARIABLES
  steady,       \* history: CTAP devices readable since the call began
  there,        \* history: paths with a device since the call began
  gaveUp,       \* history: failed in a call, and present in every call since
  changes, listings

cacheVars == <<known, failed, stale>>
scanVars == <<phase, todo, descriptors, opened, outcome>>
historyVars == <<steady, there, gaveUp, changes, listings>>
vars == <<platform, devices, cacheVars, scanVars, historyVars>>

Kinds == {"absent", "fido", "broken", "uhid", "other"}
Present == {p \in Paths : devices[p] # "absent"}
Readable == {p \in Paths : devices[p] \in {"fido", "uhid"}}

Init ==
  /\ platform \in Platforms
  /\ devices = [p \in Paths |-> "absent"]
  /\ known = {} /\ failed = {} /\ stale = {}
  /\ phase = "idle" /\ todo = {} /\ descriptors = {} /\ opened = {}
  /\ outcome = "none"
  /\ steady = {} /\ there = {} /\ gaveUp = {}
  /\ changes = 0 /\ listings = 0

\* On Windows a path names one device; elsewhere it is used again.
Change(p, kind) ==
  /\ changes < MaxChanges /\ changes' = changes + 1
  /\ kind # devices[p]
  /\ kind = "uhid" => platform = "freebsd"
  /\ platform = "windows" => kind # "other"
  /\ devices' = [devices EXCEPT ![p] = kind]
  /\ steady' = steady \ {p}
  /\ there' = IF kind = "absent" THEN there \ {p} ELSE there
  /\ UNCHANGED <<platform, cacheVars, scanVars, gaveUp, listings>>

-------------------------------------------------------------------------------
Candidates ==
  CASE platform = "netbsd"  -> Paths
    [] platform = "openbsd" -> {p \in Present : devices[p] # "other"}
    [] OTHER                -> Present

Begin ==
  /\ phase = "idle" /\ listings < MaxListings
  /\ phase' = "scan" /\ todo' = Candidates
  /\ descriptors' = {} /\ opened' = {} /\ outcome' = "none"
  /\ stale' = known \cup failed
  /\ steady' = Readable /\ there' = Present 
  /\ gaveUp' = gaveUp \cap Present
  /\ listings' = listings + 1
  /\ UNCHANGED <<platform, devices, known, failed, changes>>

\* what get_descriptor does for p: a descriptor, ValueError, or an error
Gives(p) ==
  /\ p \in Readable
  /\ devices[p] = "uhid" => phase = "uhid"
NotCtap(p) ==
  \/ devices[p] = "other"
  \/ /\ devices[p] = "absent"
     /\ platform = "macos"

Listed(p) == descriptors' = descriptors \cup {p}

\* NetBSD does not tell a ValueError from another error
Failing(p) ==
  IF Gives(p) \/ (NotCtap(p) /\ platform # "netbsd") THEN {} ELSE {p}

\* Linux, FreeBSD, OpenBSD, NetBSD: the cache only spares the log
FailedCacheSkips(p) ==
  /\ IF Gives(p) /\ p \notin failed THEN Listed(p)
     ELSE UNCHANGED descriptors
  /\ failed' = failed \cup Failing(p)
  /\ UNCHANGED known

Described(p) ==
  /\ IF Gives(p) THEN Listed(p) ELSE UNCHANGED descriptors
  /\ failed' = failed \cup Failing(p)
  /\ UNCHANGED known

\* Windows: a path is looked at once, until it is not enumerated
Cached(p) ==
  IF p \in known \cup failed
  THEN /\ IF p \in known THEN Listed(p) ELSE UNCHANGED descriptors
       /\ UNCHANGED <<known, failed>>
  ELSE IF Gives(p)
  THEN Listed(p) /\ known' = known \cup {p} /\ UNCHANGED failed
  ELSE failed' = failed \cup {p} /\ UNCHANGED <<known, descriptors>>

Visit(p) ==
  /\ phase \in {"scan", "uhid"} /\ p \in todo
  /\ platform = "netbsd" => \A q \in todo : p <= q
  /\ platform = "netbsd" => p \in Present       \* ENOENT: see Break
  /\ platform = "macos" => devices[p] # "broken"
  /\ todo' = todo \ {p}
  /\ stale' = stale \ {p}
  /\ IF platform = "windows" THEN Cached(p) ELSE Described(p)
  /\ gaveUp' = IF Gives(p) THEN gaveUp ELSE gaveUp \cup {p}
  /\ UNCHANGED <<platform, devices, phase, opened, outcome, steady, there,
                 changes, listings>>

\* NetBSD: the first path that does not exist ends the loop
Break(p) ==
  /\ platform = "netbsd" /\ phase = "scan"
  /\ p \in todo \ Present /\ \A q \in todo : p <= q
  /\ todo' = {}
  /\ stale' = stale \ {p}
  /\ UNCHANGED <<platform, devices, known, failed, phase, descriptors, opened,
                 outcome, historyVars>>

\* macOS: only ValueError is caught
Raise(p) ==
  /\ platform = "macos" /\ phase = "scan"
  /\ p \in todo /\ devices[p] = "broken"
  /\ phase' = "idle" /\ outcome' = "raised" /\ todo' = {}
  /\ UNCHANGED <<platform, devices, cacheVars, descriptors, opened,
                 historyVars>>

\* FreeBSD: without a hidraw device, the uhid devices are listed
Second ==
  /\ platform = "freebsd" /\ phase = "scan" /\ todo = {} /\ descriptors = {}
  /\ phase' = "uhid" /\ todo' = Present
  /\ UNCHANGED <<platform, devices, cacheVars, descriptors, opened, outcome,
                 historyVars>>

KeepStale ==
  UNCHANGED <<known, failed>>

\* entries not seen leave the cache, except on OpenBSD
DropStale ==
  IF platform = "openbsd" THEN UNCHANGED <<known, failed>>
  ELSE known' = known \ stale /\ failed' = failed \ stale

Scanned ==
  /\ phase \in {"scan", "uhid"} /\ todo = {}
  /\ ~(platform = "freebsd" /\ phase = "scan" /\ descriptors = {})
  /\ DropStale
  /\ phase' = "open"
  /\ UNCHANGED <<platform, devices, stale, todo, descriptors, opened, outcome,
                 historyVars>>

\* a device that cannot be opened ends the generator
Open(p) ==
  /\ phase = "open" /\ p \in descriptors \ opened
  /\ IF p \in Readable
     THEN opened' = opened \cup {p} /\ UNCHANGED <<phase, outcome>>
     ELSE phase' = "idle" /\ outcome' = "raised" /\ UNCHANGED opened
  /\ UNCHANGED <<platform, devices, cacheVars, todo, descriptors, historyVars>>

Return ==
  /\ phase = "open" /\ opened = descriptors
  /\ phase' = "idle" /\ outcome' = "list"
  /\ UNCHANGED <<platform, devices, cacheVars, todo, descriptors, opened,
                 historyVars>>

Next ==
  \/ Begin \/ Second \/ Scanned \/ Return
  \/ \E p \in Paths :
       \/ \E kind \in Kinds : Change(p, kind)
       \/ Visit(p) \/ Break(p) \/ Raise(p) \/ Open(p)

Spec == Init /\ [][Next]_vars

-------------------------------------------------------------------------------
TypeOK ==
  /\ platform \in Platforms
  /\ devices \in [Paths -> Kinds]
  /\ \A set \in {known, failed, stale, todo, descriptors, opened, steady,
                 there, gaveUp} : set \subseteq Paths
  /\ opened \subseteq descriptors /\ known \cap failed = {}
  /\ phase \in {"idle", "scan", "uhid", "open"}
  /\ outcome \in {"none", "list", "raised"}

\* the devices a platform may leave out
Excused(p) ==
  \/ platform = "netbsd" /\ \E q \in Paths : q < p /\ q \notin there
  \/ platform = "windows" /\ p \in gaveUp
  \/ platform = "freebsd" /\ devices[p] = "uhid" /\ opened # {}

\* The devices that a call in progress may leave out.
Passed(p) ==
  \/ platform = "netbsd" /\ \E q \in Paths : q < p /\ q \notin there
  \/ platform = "windows" /\ p \in gaveUp
  \/ /\ platform = "freebsd" /\ devices[p] = "uhid"
     /\ phase = "scan" \/ descriptors # {}

\* During a call every device that could be read all along is still to be
\* looked at, or listed, or one of those; and a path that Windows skips has
\* failed and was there ever since, or leaves the cache at the end of the scan.
EveryPathAccounted ==
  /\ \A p \in Paths : devices[p] = "uhid" => platform = "freebsd"
  /\ steady \subseteq Readable /\ there \subseteq Present
  /\ phase # "idle" => outcome = "none" /\ opened \subseteq descriptors
  /\ phase = "uhid" => platform = "freebsd"
  /\ phase = "open" => todo = {}
  /\ phase # "idle" =>
       \A p \in steady : p \in todo \cup descriptors \/ Passed(p)
  /\ platform = "windows" =>
       \A p \in failed : p \in gaveUp \/ (phase = "scan" /\ p \in stale \ todo)

\* A device that could be read all through a call is listed by it, whatever
\* failed before and whatever comes and goes: on NetBSD unless a lower
\* number is free, on Windows unless it has failed before and not been
\* away, on FreeBSD unless it is a uhid and another is not.
ListIsComplete ==
  outcome = "list" => \A p \in steady : p \in opened \/ Excused(p)
===============================================================================
