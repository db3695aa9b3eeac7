\* Four calls at a time, any await failing.
CONSTANTS
    c1 = c1
    c2 = c2
    c3 = c3
    c4 = c4
    p1 = p1
    p2 = p2
    a1 = a1
    a2 = a2
    Calls = {c1, c2, c3, c4}
    Nobody = nobody
    Phones = {p1, p2}
    OauthAccounts = {a1, a2}
    CodePhone = p1
    MaxRetry = 2
    Scenarios <- MCScenarios
SPECIFICATION Spec
INVARIANTS
    TypeOK
    LinkHasUser
    AnswerTellsUser
    CodesWereSent
    BadgeCounts
PROPERTY TakenOnlyUnseen
\* Every request comes to its end.
CHECK_DEADLOCK FALSE
