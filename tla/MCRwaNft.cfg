SPECIFICATION Spec
CONSTANTS
    admin = admin
    alice = alice
    bob = bob
    t1 = t1
    t2 = t2
    none = none
    Accounts <- MCAccounts
    Admin <- admin
    TokenIds <- MCTokenIds
    MaxSupply <- MCMaxSupply
    NoAccount <- none
SYMMETRY Symmetry
INVARIANTS
    BalanceCoversOwned
    SupplyIsSumOfBalances
