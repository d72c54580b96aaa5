SPECIFICATION Spec
CONSTANTS
    OutputCount = 2
    Minute = 5
    MinutesPerHour = 2
    HoursPerDay = 2
    PollEvery = 2
    Slack = 1
    MaxEvents = 2
    Definition <- MCDefinition
    StartTable <- MCStartTable
    ClockTime <- MCClockTime
    MaxTime = 48
    MaxCommands = 2
INVARIANTS NoMinuteMissed ListingAddsBack
PROPERTY OncePerMinute
CHECK_DEADLOCK FALSE
