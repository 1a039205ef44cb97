CONSTANTS
    DigitKeys = {0, 7, 8}
    MAX_DIGITS = 3
    ENTRY_TIMEOUT = 3
    ReturnAtEnd = TRUE
    Durations = {1, 2}
    MaxStep = 2
SPECIFICATION FairTimedSpec
INVARIANTS TimedTypeOK BufferFits PendingAcked CallBounded
PROPERTIES CallReturns
