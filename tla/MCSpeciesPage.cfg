SPECIFICATION PageSpec
CONSTANTS
    Mons <- MCMons
    Megas <- MCMegas
    Labels <- MCLabels
    Untagged = Untagged
    Malformed = Malformed
    MaxLen = 5
    Pages <- MCPages
INVARIANTS Attribution NothingDropped ReadAsNamed
\* A walk ends with its section.
CHECK_DEADLOCK FALSE
