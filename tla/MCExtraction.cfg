SPECIFICATION InputSpec
CONSTANTS
    Prices <- MCPrices
    Threshold = 70
    Today <- MCToday
    Blocks <- MCBlocks
    MaxBlocks = 5
    Items <- MCItems
    MaxItems = 3
    Dates <- MCDates
    Amounts <- MCAmounts
INVARIANTS
    MetricsStayInTheirLesson
    NoAnswerDropped
    RulesMeetReference
CHECK_DEADLOCK FALSE
