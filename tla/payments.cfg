\* Approvals and transfers that wait for each other: every row is released.
SPECIFICATION MCSpec
CONSTANTS
    player = player
    referrer = referrer
    d1 = d1
    tidA = tidA
    admin1 = admin1
    t1 = t1
    t2 = t2
    k1 = k1
    w1 = w1
    req1 = req1
    NoTxn = NoTxn
    NoRef = NoRef
    NoDep = NoDep
    NoUser = NoUser
    NoWd = NoWd
    NoKey = NoKey
    User <- MCUser
    Ref <- MCRef
    Opening <- MCOpening
    Referrer <- MCReferrer
    UserOrder <- MCUserOrder
    CoinRate <- MCCoinRate
    AdjustBuckets = {}
    DepId = {d1}
    Tid = {tidA}
    Admin = {admin1}
    DepAmount = {1}
    RewardAmount = 1
    MinFirstChoice = {1}
    MaxClock = 1
    TrKey = {k1}
    TrAmount = {1}
    DailyLimit = 1
    TrAttempts = 1
    Moderated = {}
    MaxDay = 0
    WdId = {w1}
    WdKey = {}
    WdAmount = {1}
    MaxAttempts = 1
    Txn = {admin1, t1, t2}
    TrReq = {t1, t2}
    WdReq = {req1}
    SpendAmounts = {1}
    MaxPosts = 1
CHECK_DEADLOCK FALSE
INVARIANTS LedgerExplainsBalance CirclesNeedReferral
PROPERTIES RowsAreReleased
