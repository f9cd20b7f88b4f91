SPECIFICATION Spec
CONSTANTS
    admin = admin
    alice = alice
    Accounts <- MCAccounts
    Admin <- admin
    Weights <- MCWeights
    Choices <- MCChoices
    Deadlines <- MCDeadlines
    U64 <- MCU64
    MaxProposals = 2
    MaxClock = 1
    UnitReadable = TRUE
INVARIANTS
    TalliesMatchVotes
    ExecutedExist
PROPERTIES
    VotesAreFinal
