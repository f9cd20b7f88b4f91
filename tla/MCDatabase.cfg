SPECIFICATION MCSpec
CONSTANTS
    NoRow = NoRow
    Ids = {0, 3}
    Legacy = {0}
    Outside = {0}
    Tasks = {t1, t2, t3}
    MaxHashes = 2
    MaxHolders = 2
    Voters = {v1}
    Names = {p1}
    Instances = {i1, i2}
    Tabs = {b1, b2}
    OrderIds = {o1}
    Buyers = {k1, k2}
    Requests = {r1, r2}
SYMMETRY Symmetry
INVARIANTS
    ConfirmedIsExecuted
    HashIsLast
    TalliesCountVotes
    SaleIsRecorded
PROPERTIES
    TokensAreKept
CHECK_DEADLOCK FALSE
