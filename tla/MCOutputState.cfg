SPECIFICATION Spec
CONSTANTS
    OutputCount = 2
    MaxPwm = 2
    Default <- DefaultDef
    MaxWrites = 3
INVARIANTS TypeOK CopiedWhole CacheTrue
PROPERTY Converges
