\* Two handlers at once, for every pair of the traffic.
CONSTANTS
    member = m
    provider = p
    newcomer = n
    service = s
    Users = {m, p, n, s}
    ServiceChat = s
    Calls = {c1, c2}
    Traffic <- MCTraffic
    Populations <- MCPopulations
    Opened <- MCOpened
SPECIFICATION FairSpec
INVARIANTS
    TypeOK
    RoomNeverOvercounts
    TotalNeverOvercounts
    CountedTwiceAtMost
PROPERTIES
    AiKeepsSlack
    RecountSettles
CHECK_DEADLOCK FALSE
