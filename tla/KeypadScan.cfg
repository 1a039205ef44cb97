CONSTANTS
    Durations = {0, 1}
    Keys = {1, 2, 3}
    LIST_MAX = 2
    debounceTime = 1
    holdTime = 2
    BOUNCE = 1
SPECIFICATION KeypadSpec
INVARIANTS KeypadTypeOK
PROPERTIES OnePressOneKey PressHeard HeardBySecondScan ListDrains DrainsInThreeScans
