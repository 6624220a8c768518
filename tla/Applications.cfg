CONSTANTS
  Sessions = {s1, s2}
  CredentialIds = {id1, id2}
  id1 = id1
  FlawSets <- MCFlawSets
  MaxFlawed = 1
  Requirements = {"required", "preferred"}
  Registered <- MCRegistered
  Conveyance = "direct"
  MaxCeremonies = 2
  MaxResponses = 2
  MaxResults = 3
  Platforms = {p1, p2}
  rp1 = rp1
  rp2 = rp2
  c1 = c1
  c2 = c2
  c3 = c3
  Rps = {rp1, rp2}
  RpOf <- MCRpOf
  Users = {u1, u2}
  Templates = {t1, t2, t3}
  Samples = {1, 2}
  Pins = {3, 4, 6}
  MaxRetries = 2
  MaxOps = 3
  MaxLost = 1
  BlobKeys = {k1, k2}
  Blobs = {v1, v2}
  NoValue = NoValue
  FragmentLen = 2
  MaxUnits = 4
  FirstArrays <- MixedArrays
  MaxFaults = 1
SYMMETRY Symmetry
SPECIFICATION MCSpec
INVARIANTS
  AcceptedForItsCeremony ReturnsItsCredential
  ListingIsExact
  GetIsHonest
PROPERTIES
  
  EnrollmentIsReturned RightPinIsFree
  EffectIsRead CommitFromOneArray UndisturbedContract
CHECK_DEADLOCK FALSE
