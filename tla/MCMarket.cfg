SPECIFICATION Spec
CONSTANTS
    issuer = issuer
    alice = alice
    bob = bob
    none = none
    twin = twin
    o1 = o1
    o2 = o2
    r1 = r1
    r2 = r2
    Wallets <- MCWallets
    Issuer <- issuer
    None <- none
    Twin <- twin
    Whole = 2
    Sizes <- MCSizes
    Orders <- MCOrders
    Requests <- MCRequests
CHECK_DEADLOCK FALSE
SYMMETRY Symmetry
INVARIANTS
    PaidBeforeRegistered
    FilledIsBacked
    BuyerOfRecord
    Conserved
    TradesAreKept
