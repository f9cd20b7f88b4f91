SPECIFICATION MCSpec
CONSTANTS
    admin = admin
    bob = bob
    i1 = i1
    a = a
    b = b
    w1 = w1
    Accounts <- MCAccounts
    Admin <- admin
    Weights = {0, 10000}
    Amounts = {1, 2}
    MaxDeposited = 3
    PurseReadable = TRUE
    Instances = {i1}
    Boot = i1
    Threshold = 2
    Ticks = {t1, t2}
    MaxPending = 2
    MaxFaults = 1
    Ids = {a, b}
    Wallets = {w1}
    Holders <- MCHolders
    Scans = {s1, s2}
    MaxFlags = 2
    Asks = {q1, q2}
    MaxLost = 1
INVARIANTS
    RevertsAreLateReadings
    RevocationsAreRecorded
PROPERTIES
    DepositsReachHolders
    ExpiredAreRevoked
    PanelSettles
CHECK_DEADLOCK FALSE
