CONSTANTS
    DigitKeys = {1, 7, 8}
    MAX_DIGITS = 2
    ENTRY_TIMEOUT = 2
    ReturnAtEnd = TRUE
    Durations = {0, 1}
    TIME_OPEN_MOTOR = 0
    TIME_OPEN_DOOR = 0
    TIME_CLOSE_MOTOR = 0
    TRAVEL = 0
    InitialFlash <- AnyFlash
    Passwords <- TwoDigitNumbers
    setPasswordAdmin = 81
    LOGIN_TIMEOUT = 2
    MODE_TIMEOUT = 3
    MAX_ID = 0
    SEARCH_PAGES = 2
    UINT8_RANGE = 63
    UINT16_RANGE = 70
    PollTimes = {1}
    ScanTimes = {1}
    MessageTimes = {1}
SPECIFICATION LockSpec
INVARIANTS PasswordUsable NoStaleNumber
PROPERTIES StoreSpec OpensOnlyOnEntry IdleExitIsClean
