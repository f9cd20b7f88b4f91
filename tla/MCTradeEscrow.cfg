SPECIFICATION Spec
CONSTANTS
    admin = admin
    alice = alice
    bob = bob
    none = none
    Accounts <- MCAccounts
    Admin <- admin
    NoAccount <- none
    Weights <- MCWeights
    Prices <- MCPrices
    Amounts <- MCAmounts
    PriceModulus = 8
    Funds = 3
    Rights <- MCRights
    MaxListings = 3
    MaxDepth = 2
    Reentrant = TRUE
CHECK_DEADLOCK FALSE
SYMMETRY Symmetry
INVARIANTS
    SettledWhenIdle
    HeldMidTrade
    SoldIsPaid
