\* One KeyboardInterrupt: the next call reads the answer of the one left.
CONSTANTS
    MaxCalls = 3
    MaxRequest = 1
    MaxPackets = 1
    SeqMod = 2
    MaxQueue = 2
    MaxInterrupts = 1
    MaxFaults = 0
SPECIFICATION Spec
INVARIANT ResponseIsOfThisCall
CHECK_DEADLOCK FALSE
