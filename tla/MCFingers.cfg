CONSTANTS
    DigitKeys = {0, 2, 3}
    MAX_DIGITS = 2
    ENTRY_TIMEOUT = 1
    ReturnAtEnd = TRUE
    Durations = {0, 1}
    TIME_OPEN_MOTOR = 2
    TIME_OPEN_DOOR = 1
    TIME_CLOSE_MOTOR = 2
    TRAVEL = 2
    InitialFlash <- UsedFlash
    Passwords <- TwoDigitNumbers
    setPasswordAdmin = 33
    LOGIN_TIMEOUT = 1
    MODE_TIMEOUT = 2
    MAX_ID = 2
    SEARCH_PAGES = 2
    UINT8_RANGE = 256
    UINT16_RANGE = 20
    PollTimes = {1}
    ScanTimes = {1}
    MessageTimes = {0}
SPECIFICATION LockSpec
INVARIANTS LockTypeOK OpensFully
PROPERTIES MotorSpec CheckNumSpec FingersKept AdminActsOnEntry
