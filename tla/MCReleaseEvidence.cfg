SPECIFICATION Spec
CONSTANTS
    Shas = {"b", "c", "d"}
    Local = "local"
    Asks <- MCAsks
    Worlds <- MCWorlds
    Start = 6
    MaxTime = 8
    MaxEvents = 2
    MAX_PREFLIGHT_AGE = 3
INVARIANTS
    PassHeld
    QuietWorldPasses
CHECK_DEADLOCK FALSE
