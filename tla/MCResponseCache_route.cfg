CONSTANTS
    Requests = {r1, r2}
    Paths = {p, q}
    Known = {p, q}
    Contexts = {c1, c2}
    Writers = {w1}
    MaxVersion = 1
    PromptDispatch = FALSE
    None = None
SPECIFICATION Spec
INVARIANTS StoreSound
