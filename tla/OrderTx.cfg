\* Two requests, a pool of two connections, one restart, one top-up.
CONSTANTS
    m1 = m1
    m2 = m2
    r1 = r1
    r2 = r2
    Requests = {r1, r2}
    Members = {m1, m2}
    Bank = bank
    OrderIds = {i1, i2}
    Nobody = nobody
    Asked <- MCAsked
    Wallets <- MCWallets
    Shelves <- MCShelves
    FeePercent = 5
    MaxDiscount = 1000
    Pools = {2, 3}
    Places = {1, 2}
    TopUpAmount = 100
    MaxTopUps = 1
    MaxRestarts = 1
SPECIFICATION FairSpec
INVARIANTS
    TypeOK
    LocksAreHeld
    OneAcknowledged
    VouchersOnlyDrawn
PROPERTIES
    HeldWalletUntouched
    RequestSettles
CHECK_DEADLOCK FALSE
