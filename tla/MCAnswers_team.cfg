CONSTANTS
    Null = Null
    Idle = Idle
    NoAnswer = NoAnswer
    IdSpan = 65536
    Scenarios <- MCScenarios
SPECIFICATION Spec
INVARIANT CandidatesOnce
