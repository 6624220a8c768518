SPECIFICATION Spec
CONSTANTS
    c1 = c1
    c2 = c2
    c3 = c3
    CredIds <- MCCredIds
    NoCred = NoCred
    TooLong = {c3}
    UvOnly <- MCUvOnly
    ListOrUv <- MCListOrUv
    Authenticators <- OldBioKeys
    Requests <- UvRegistrations
    PinRetries = 4
    MaxCeremonies = 1
PROPERTIES ListedCreatesNothing
CHECK_DEADLOCK FALSE
