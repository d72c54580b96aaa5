SPECIFICATION Spec
CONSTANTS
    Name = {"brickpico.cfg", "other"}
    Cfg = "brickpico.cfg"
    Config = {"default", "long", "short"}
    Default = "default"
    Length <- MCLength
    MaxSteps = 5
    MaxFaults = 3
PROPERTY KeepsPromise
CHECK_DEADLOCK FALSE
