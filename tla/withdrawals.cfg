\* Two requests, with and without a shared key, against payouts, cancellations
\* and adjustments of WINNING.
SPECIFICATION FairWithdrawalSpec
CONSTANTS
    player = player
    w1 = w1
    w2 = w2
    req1 = req1
    req2 = req2
    key1 = key1
    NoTxn = NoTxn
    NoRef = NoRef
    NoWd = NoWd
    NoKey = NoKey
    User <- MCUser
    Txn = {}
    WdReq = {req1, req2}
    WdId = {w1, w2}
    WdKey = {key1}
    Ref = {w1, w2}
    Opening <- MCOpening
    CoinRate <- MCCoinRate
    SpendAmounts = {2}
    AdjustBuckets = {"WINNING"}
    MaxPosts = 1
    WdAmount = {1, 2}
    MaxAttempts = 2
CHECK_DEADLOCK FALSE
INVARIANTS HoldMatchesStatus AnswersAreTrue
PROPERTIES ImplementsHolds RequestsEnd
