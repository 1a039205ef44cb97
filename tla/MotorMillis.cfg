CONSTANTS
    TIME_OPEN_MOTOR = 3
    TIME_OPEN_DOOR = 4
    TIME_CLOSE_MOTOR = 3
    TRAVEL = 3
    Durations = {1, 2}
    PollGap = 2
    RANGE = 14
SPECIFICATION MillisSpec
INVARIANTS PinsFollowStatus PhasesTimely
PROPERTIES CycleEndsShut WrapUnseen
