SPECIFICATION Spec
CONSTANTS
    c1 = c1
    c2 = c2
    c3 = c3
    CredIds <- MCCredIds
    NoCred = NoCred
    TooLong = {c3}
    UvOnly <- MCUvOnly
    ListOrUv <- MCListOrUv
    Authenticators <- FewKeys
    Requests <- BadRpRequests
    PinRetries = 4
    MaxCeremonies = 2
INVARIANTS AbortedByOwnSignal
CHECK_DEADLOCK FALSE
