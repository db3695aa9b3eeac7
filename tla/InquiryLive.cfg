\* Two pairs under fair handlers and a cron that keeps passing; either
\* set-vorder may end before the rooms are made, either inquiry be deleted: both
\* end the process under a pass.
CONSTANTS
    Pairs = {q1, q2}
    Passes = {job}
    MaxAsks = 1
    AskMayFail = TRUE
    MayDelete = TRUE
    MaxCrashes = 0
SPECIFICATION FairSpec
PROPERTIES
    DueIsHandled
CHECK_DEADLOCK FALSE
