SPECIFICATION Spec
CONSTANTS
    ProfileOrder <- MCProfiles
    GroupDays <- MCDays
    Selections <- MCSelections
    c1 = c1
    e1 = e1
    w1 = w1
    w2 = w2
    Commits = {c1, c2}
    Environments = {e1, e2}
    Workers = {w1, w2}
    NoDoc = nodoc
    MaxIds = 5
    MaxMoves = 1
    MaxStops = 1
INVARIANTS
    AcceptanceIsEarned
PROPERTIES
    LedgerAppendOnly
CHECK_DEADLOCK FALSE
