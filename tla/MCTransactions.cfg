SPECIFICATION Spec
CONSTANTS
    None = None
    Keys = {k1, k2}
    New = {k2}
    Secp = {k2}
    Agent = agent
    f1 = f1
    f2 = f2
    Flows = {f1, f2}
    Clicks <- MCClicks
    Nodes = 3
    MaxPolls = 2
PROPERTIES
    WaitsEnd
CHECK_DEADLOCK FALSE
