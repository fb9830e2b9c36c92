\* Two players join with retries after unheard commits, with and without a coupon, leave and
\* join again, are suspended and reinstated, while staff change the capacity; or they redeem one
\* coupon in two tournaments.
SPECIFICATION EntrySpec
CONSTANTS
    ann = ann
    bob = bob
    eve = eve
    cup = cup
    cup2 = cup2
    duo = duo
    duo2 = duo2
    j1 = j1
    j2 = j2
    s1 = s1
    NoTxn = NoTxn
    NoRef = NoRef
    NoTeam = NoTeam
    NoUser = NoUser
    Txn = {}
    Ref = {cup, cup2}
    SpendAmounts = {}
    AdjustBuckets = {}
    MaxPosts = 0
    Tour = {cup, cup2}
    TeamSize = 1
    Team = {}
    Fee = 4
    RefundPercent = 50
    SlotChoice = {1, 2}
    JoinReq = {j1, j2}
    JoinAttempts = 2
    CouponChoice = {TRUE, FALSE}
    CouponLimit = 1
    CouponDiscount = 2
    Staff = {s1}
    StaffOps = {"resize"}
    Suspendable = {ann}
    CoinRate <- MCCoinRate
    User <- MCPair
    Opening <- Rich2
    FirstTeams <- NoneFirst
CONSTRAINT SoloBound
SYMMETRY Symmetry
CHECK_DEADLOCK FALSE
INVARIANTS ChargedOncePerEntry CouponOverrunBounded
