\* Staff move, clear and lock the seats of teams and lone players, and pair them.
SPECIFICATION EntrySpec
CONSTANTS
    ann = ann
    bob = bob
    eve = eve
    cup = cup
    cup2 = cup2
    duo = duo
    duo2 = duo2
    j1 = j1
    j2 = j2
    s1 = s1
    NoTxn = NoTxn
    NoRef = NoRef
    NoTeam = NoTeam
    NoUser = NoUser
    Txn = {}
    Ref = {cup, cup2}
    SpendAmounts = {}
    AdjustBuckets = {}
    MaxPosts = 0
    Tour = {cup}
    TeamSize = 2
    Team = {duo}
    Fee = 2
    RefundPercent = 50
    SlotChoice = {2}
    JoinReq = {j1, j2}
    JoinAttempts = 1
    CouponChoice = {FALSE}
    CouponLimit = 1
    CouponDiscount = 1
    Staff = {s1}
    StaffOps = {"assign", "clear", "lock", "pair"}
    Suspendable = {}
    CoinRate <- MCCoinRate
    User <- MCPair
    Opening <- Rich2
    FirstTeams <- NoneFirst
SYMMETRY Symmetry
CHECK_DEADLOCK FALSE
INVARIANTS SeatsDisjoint
PROPERTIES LockedSeatStays
