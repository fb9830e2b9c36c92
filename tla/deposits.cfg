\* Reviews, deletions and settings race; two deposits of two amounts.
SPECIFICATION HistorySpec
CONSTANTS
    player = player
    referrer = referrer
    d1 = d1
    d2 = d2
    tidA = tidA
    tidB = tidB
    admin1 = admin1
    admin2 = admin2
    NoTxn = NoTxn
    NoRef = NoRef
    NoDep = NoDep
    NoUser = NoUser
    User <- MCUser
    Txn = {admin1, admin2}
    Admin = {admin1, admin2}
    DepId = {d1, d2}
    Tid = {tidA, tidB}
    Ref <- MCRef
    Opening <- MCOpening
    Referrer <- MCReferrer
    CoinRate <- MCCoinRate
    SpendAmounts = {2}
    AdjustBuckets = {}
    MaxPosts = 1
    DepAmount = {2, 5}
    RewardAmount = 1
    MinFirstChoice = {2, 5}
    MaxClock = 4
SYMMETRY Symmetry
CHECK_DEADLOCK FALSE
INVARIANTS CreditedOncePerRow RewardPaidOnce RewardKeptUnlessMinMoved
PROPERTIES DecisionsAreFinal
