SPECIFICATION Spec
CONSTANTS
    c1 = c1
    c2 = c2
    c3 = c3
    CredIds <- MCCredIds
    NoCred = NoCred
    TooLong = {c3}
    UvOnly <- MCUvOnly
    ListOrUv <- MCListOrUv
    Authenticators <- AllKeys
    Requests <- AllRequests
    PinRetries = 4
    MaxCeremonies = 1
INVARIANTS TokenUsable SecretUsable PinCost UvHonoured BlobWriteAllowed 
PROPERTIES ExcludedCreatesNothing 
CHECK_DEADLOCK FALSE
