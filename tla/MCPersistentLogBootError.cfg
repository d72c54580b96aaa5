SPECIFICATION PSpecBootError
CONSTANTS
    Size = 8
    MaxLen = 2
    Message <- MCMessage
    MaxRuns = 3
    MaxReadRun = 1
INVARIANTS AcceptedLogIntact
