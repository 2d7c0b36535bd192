SPECIFICATION Spec
CONSTANTS
    Requests = {"r1", "r2", "r3"}
    Form <- MCForm
    MaxCrashes = 2
INVARIANTS
    AnsweredIsComplete
    RosterWithoutConsent
    DuplicatesOverlapped
PROPERTIES
    RegistrationEnds
CHECK_DEADLOCK FALSE
