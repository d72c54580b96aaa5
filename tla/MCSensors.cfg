SPECIFICATION Spec
CONSTANTS
    N = 3
    Boot <- MCBoot
    Orders <- MCOrders
    Temps = {0, 2}
    MaxChanges = 2
INVARIANTS FollowsSources RoundReadsAll
PROPERTIES LastsForTimeout ReadForEver
