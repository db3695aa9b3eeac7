\* Every situation, the four filters, and what is offered at the end.
CONSTANTS
    DayHours = 4
    Horizon = 3
    MonthDays = 5
    WeekDays = 2
    Zone = 1
    Situations <- MCSituations
SPECIFICATION Spec
INVARIANTS
    TypeOK
    AcceptedIsFree
    IntervalAfterOthers
    OfferedExactly
    FutureUnlessMonthEnds
\* The last filter is the end.
CHECK_DEADLOCK FALSE
