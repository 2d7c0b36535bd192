SPECIFICATION Spec
CONSTANTS
    Prices <- MCPrices
    Threshold = 70
    Today <- MCToday
    Source <- MCSource
    Readings <- MCReadings
    Documents <- MCDocuments
    RunIds = {"r1", "r2"}
    Commands <- MCCommands
    Schools = {"North"}
    Products = {"Day pass"}
    ApiPlayers <- MCApiPlayers
    MaxAttempts = 2
    MaxRuns = 2
    MaxFaults = 1
INVARIANT
    ResumeLeavesNothingBehind
CHECK_DEADLOCK FALSE
