CONSTANTS
    Null = Null
    Idle = Idle
    NoAnswer = NoAnswer
    IdSpan = 65536
    Scenarios <- MCScenarios
SPECIFICATION Spec
INVARIANTS RosterComplete ListedIsServed ValuesAgree PagesWhole NationalDexWhole AbilitiesInTheirTime CandidateDescribed
