CONSTANTS
  NativeCalls = {c1, c2}
  Events = {e1, e2}
  NoEvent = NoEvent
  MaxReports = 4
  MaxFailures = 2
  Paths = {0, 1}
  Platforms = {"linux", "openbsd", "netbsd", "freebsd", "windows", "macos"}
  MaxChanges = 4
  MaxListings = 3
  MaxPings = 3
  KeyHandles = {k1, k2, k3}
  NoHandle = NoHandle
  MaxFaults = 1
  MaxUses = 2
  Devices = {d1, d2, d3}
  NoDevice = NoDevice
  MaxCalls = 3
  MaxRequest = 2
  MaxPieces = 3
SPECIFICATION Spec
INVARIANTS
  WindowsCancelsItsCall InputIsWhole ListIsComplete U2fStops SelectedWasTouched
  
CHECK_DEADLOCK FALSE
