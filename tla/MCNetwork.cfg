SPECIFICATION NSpec
CONSTANTS
    HaEnabled = TRUE
    Message = {"m1", "m2", "m3"}
    Forbidden = {"m3"}
    MaxFaults = 2
    MaxHa = 2
    Configurations <- MCConfigurations
INVARIANTS OneAttempt RunningCommandKept RunOnce NothingForgotten SyslogServerChosen ConfiguredWins StrandedOnlyByFaults
PROPERTY ComesToRest
CHECK_DEADLOCK FALSE
