\* One KeyboardInterrupt and one lost, foreign or odd report, at any point.
CONSTANTS
    MaxCalls = 3
    MaxRequest = 1
    MaxPackets = 3
    SeqMod = 2
    MaxQueue = 2
    MaxInterrupts = 1
    MaxFaults = 1
SPECIFICATION Spec
INVARIANTS OwnResponse CleanHandover AtMostOnce CancelHitsItsCall AnswerIntact
CHECK_DEADLOCK FALSE
