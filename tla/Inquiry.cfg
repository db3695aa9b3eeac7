\* One inquiry asked twice; the passes of the cron job and the one at boot
\* overlap; set-vorder may fail half way, inquiries are deleted, the process
\* crashes once.
CONSTANTS
    Pairs = {q1}
    Passes = {job, boot}
    MaxAsks = 2
    AskMayFail = TRUE
    MayDelete = TRUE
    MaxCrashes = 1
SPECIFICATION Spec
SYMMETRY MCSymmetry
INVARIANTS
    TypeOK
    
    AnsweredOnce
PROPERTIES
    MarksStay
    NoReturn
CHECK_DEADLOCK FALSE
