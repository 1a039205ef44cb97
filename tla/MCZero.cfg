CONSTANTS
    DigitKeys = {0, 1, 3}
    MAX_DIGITS = 1
    ENTRY_TIMEOUT = 1
    ReturnAtEnd = TRUE
    Durations = {0, 1}
    TIME_OPEN_MOTOR = 1
    TIME_OPEN_DOOR = 1
    TIME_CLOSE_MOTOR = 1
    TRAVEL = 1
    InitialFlash <- OneDigitFlash
    Passwords <- TwoDigitNumbers
    setPasswordAdmin = 1
    LOGIN_TIMEOUT = 1
    MODE_TIMEOUT = 2
    MAX_ID = 3
    SEARCH_PAGES = 2
    UINT8_RANGE = 256
    UINT16_RANGE = 20
    PollTimes = {1}
    ScanTimes = {1}
    MessageTimes = {0}
SPECIFICATION ZeroSpec
PROPERTIES ZeroDeletesAll
