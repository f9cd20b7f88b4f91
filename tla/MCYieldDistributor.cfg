SPECIFICATION ClaimSpec
CONSTANTS
    admin = admin
    alice = alice
    bob = bob
    Accounts <- MCAccounts
    Admin <- admin
    Weights <- MCWeights
    Amounts <- MCAmounts
    MaxDeposited <- MCMaxDeposited
    PurseReadable = TRUE
INVARIANTS
    Solvency
    SharesAddUp
PROPERTIES
    PendingIsOwed
    DustIsBounded
    PendingIsPaid
