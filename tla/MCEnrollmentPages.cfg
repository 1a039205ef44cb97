CONSTANTS
    Fingers = {f1, f2}
    None = None
    MAX_ID = 2
    SEARCH_PAGES = 2
    MaxLate = 1
SPECIFICATION EnrollmentSpec
PROPERTIES EnrolledRecognised
