CONSTANTS
    DigitKeys = {1, 2}
    MAX_DIGITS = 1
    ENTRY_TIMEOUT = 1
    ReturnAtEnd = TRUE
    Durations = {0, 1, 3}
    TIME_OPEN_MOTOR = 3
    TIME_OPEN_DOOR = 3
    TIME_CLOSE_MOTOR = 3
    TRAVEL = 3
    InitialFlash <- OneDigitFlash
    Passwords <- TwoDigitNumbers
    setPasswordAdmin = 1
    LOGIN_TIMEOUT = 1
    MODE_TIMEOUT = 2
    MAX_ID = 1
    SEARCH_PAGES = 2
    UINT8_RANGE = 256
    UINT16_RANGE = 20
    PollTimes = {1}
    ScanTimes = {1}
    MessageTimes = {3}
    MaxKeys = 10
    Round = 2
SPECIFICATION SessionSpec
PROPERTIES ReturnsToLoop RequestServed ChangeReached OpeningEnds KeypadServed ReturnsInBound UndisturbedEndsShut
INVARIANT UndisturbedTimely
