\* Two requests that may share a key, some of them from the page of alice, and a conversion,
\* over two days.
SPECIFICATION PageSpec
CONSTANTS
    alice = alice
    bob = bob
    t1 = t1
    t2 = t2
    key1 = key1
    key2 = key2
    NoTxn = NoTxn
    NoRef = NoRef
    User <- MCUser
    Opening <- MCOpening
    UserOrder <- MCUserOrder
    CoinRate <- MCCoinRate
    AdjustBuckets = {}
    Txn = {t1, t2}
    TrReq = {t1, t2}
    Ref = {}
    SpendAmounts = {2}
    MaxPosts = 1
    TrKey = {key1, key2}
    TrAmount = {1, 2}
    DailyLimit = 2
    TrAttempts = 2
    Moderated = {bob}
    MaxDay = 1
    Payer = alice
    NoRequest = NoRequest
SYMMETRY Symmetry
CHECK_DEADLOCK FALSE
INVARIANTS DailyLimitKept KeyPaysOnce TransferAnswersAreTrue FormPaidOnce
