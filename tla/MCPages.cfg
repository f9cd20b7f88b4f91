SPECIFICATION MCSpec
CONSTANTS
    None = None
    Wallets = {w1}
    Docs = {d1, d2}
    Ops = {o1, o2}
    KeyFile = TRUE
    MaxPayments = 1
    MaxMints = 2
    MaxOffers = 2
    MaxForms = 2
    MaxSaves = 2
    WalletKeys = {k1, k2}
    New = {k2}
    Secp = {k2}
    Agent = agent
    f1 = f1
    Flows = {f1}
    Clicks <- MCClicks
    Nodes = 3
    MaxPolls = 2
SYMMETRY Perms
INVARIANTS
    
    MintedOnce
    AnchoredTogether
    NotStuckAtKyc
    DraftIsUsable
    ShownIsDone
    KeyIsActive
PROPERTIES
    OnlyWhatWasSet
CHECK_DEADLOCK FALSE
