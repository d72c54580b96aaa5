SPECIFICATION SpecEither
CONSTANTS
    Output = {o1, o2}
    Kind = {fade, blink}
    Addr = {a1, a2, a3}
    NoEffect = none
    Null = null
    MaxCommands = 3
    HalfSecond = 1
    Arguments <- ArgumentsC
    MaxPwm = 3
    Late = 1
    MaxTime = 12
    MaxCopies = 2
INVARIANTS HeapAccounted Settles
PROPERTIES CopiedPaired StaleContextDropped FadeMonotone BlinkKeepsTime
CHECK_DEADLOCK FALSE
