SPECIFICATION FreshSpec
CONSTANTS
    admin = admin
    alice = alice
    bob = bob
    t1 = t1
    t2 = t2
    t3 = t3
    none = none
    Accounts <- MCAccounts
    Admin <- admin
    TokenIds <- MCTokenIds
    MaxSupply <- MCMaxSupply
    NoAccount <- none
SYMMETRY Symmetry
INVARIANTS
    ApprovalFromOwner
PROPERTIES
    ImplementsLedger
