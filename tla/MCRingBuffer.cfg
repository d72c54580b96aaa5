SPECIFICATION Spec
CONSTANTS
    Size = 8
    MaxLen = 2
    Message <- MCMessage
INVARIANTS TypeOK ReadsBack ItemsApart
PROPERTY KeepsQueue
