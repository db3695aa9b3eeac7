\* One order paid in part with vouchers.
CONSTANTS
    m1 = m1
    m2 = m2
    r1 = r1
    r2 = r2
    Requests = {r1, r2}
    Members = {m1, m2}
    Bank = bank
    OrderIds = {i1, i2}
    Nobody = nobody
    Asked <- MCAsked
    Wallets <- MCWallets
    Shelves <- MCShelves
    FeePercent = 5
    MaxDiscount = 1000
    Pools = {3}
    Places = {1, 2}
    TopUpAmount = 100
    MaxTopUps = 0
    MaxRestarts = 0
SPECIFICATION Spec
INVARIANT MemberPaysTheBank
CHECK_DEADLOCK FALSE
