CONSTANTS
    DigitKeys = {8}
    MAX_DIGITS = 2
    ENTRY_TIMEOUT = 5
    ReturnAtEnd = TRUE
    Durations = {0, 1}
    TIME_OPEN_MOTOR = 1
    TIME_OPEN_DOOR = 5
    TIME_CLOSE_MOTOR = 1
    TRAVEL = 1
    InitialFlash <- UsedFlash
    Passwords <- TwoDigitNumbers
    setPasswordAdmin = 99
    LOGIN_TIMEOUT = 5
    MODE_TIMEOUT = 10
    MAX_ID = 0
    SEARCH_PAGES = 2
    UINT8_RANGE = 256
    UINT16_RANGE = 20
    PollTimes = {1}
    ScanTimes = {1}
    MessageTimes = {0}
SPECIFICATION LockSpec
PROPERTIES CycleShutsDoor
