SPECIFICATION Spec
CONSTANTS
    Counts <- MCCounts
    PerChunk = 2
    MaxCount = 3
    Deaths = {"kill", "power"}
    MaxDeaths = 2
INVARIANTS DocumentBacked AcceptedOwedOrDurable RefusalExplained AdditionsExact ReportedDurable
