\* Two overlapping attempts, one fault or deployment, one reader.
SPECIFICATION Spec
CONSTANTS
    None = None
    Scenarios <- MCScenarios
    Queries <- MCQueries
    Attempts = {a1, a2}
    Readers = {r1}
    Window = 1
    PageLimit = 8
    MaxFaults = 1
SYMMETRY Symmetry
INVARIANTS
    VerdictHolds
    PagesMissNothing
    SummaryRecounts
PROPERTY StoresAgree
