\* set-vorder ends between the document and the rooms.
CONSTANTS
    Pairs = {q1}
    Passes = {p1}
    MaxAsks = 1
    AskMayFail = TRUE
    MayDelete = FALSE
    MaxCrashes = 0
SPECIFICATION FairSpec
PROPERTIES
    EveryInquiryAnswered
CHECK_DEADLOCK FALSE
