\* A month of thirty days, MySQL eight hours behind.
CONSTANTS
    Zone = 8
    MonthDays = 30
    Parts = {"one", "two"}
    Scenarios <- MCScenarios
SPECIFICATION Spec
INVARIANTS
    ChartsAreTrue
    PeriodsApart
\* A request is answered.
CHECK_DEADLOCK FALSE
