\* No interrupt and no lost or foreign report: the transport as intended, with
\* the fairness of FairSpec.
CONSTANTS
    MaxCalls = 3
    MaxRequest = 3
    MaxPackets = 3
    SeqMod = 2
    MaxQueue = 2
    MaxInterrupts = 0
    MaxFaults = 0
SPECIFICATION FairSpec
PROPERTIES CallContract CancelEndsCall
CHECK_DEADLOCK FALSE
