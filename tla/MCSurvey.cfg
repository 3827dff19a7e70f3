SPECIFICATION SurveySpec
CONSTANTS
    Handler = {h1, h2}
    Fetch = {f1, f2}
    MaxCalls = 3
    MaxRestarts = 1
    MaxDisturbances = 1
SYMMETRY SurveySymmetry
INVARIANTS
    AgreesUnlessMixed
    EventsTellState
    HeaderTellsTruth
