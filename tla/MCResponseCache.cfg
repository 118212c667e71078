CONSTANTS
    Requests = {r1, r2}
    Paths = {p, q}
    Known = {p}
    Contexts = {c1, c2}
    Writers = {w1}
    MaxVersion = 1
    PromptDispatch = TRUE
    None = None
SPECIFICATION FairSpec
INVARIANTS StoreSound NoFollowerLost
PROPERTIES ImplementsProxy EveryRequestEnds
