\* The plan of one tournament, fraud alerts, support tickets, the creation of accounts and a
\* cached setting.
SPECIFICATION OfficeSpec
CONSTANTS
    ann = ann
    bob = bob
    f1 = f1
    f2 = f2
    f3 = f3
    m1 = m1
    m2 = m2
    q1 = q1
    q2 = q2
    q3 = q3
    google = google
    apple = apple
    c1 = c1
    c2 = c2
    c3 = c3
    c4 = c4
    r1 = r1
    e1 = e1
    l1 = l1
    l2 = l2
    l3 = l3
    p1 = p1
    p2 = p2
    Editor = {ann, bob}
    Seat = {1, 2}
    LossThreshold = 0
    MaxClock = 2
    Filing = {f1, f2, f3}
    Account = {ann, bob}
    Reviewer = {v1}
    Multiplier = 2
    NewAccounts = {bob}
    NoMark = NoMark
    AlertWindow = 1
    Ticket = {t1}
    Request = {q1, q2, q3}
    FirstStatuses = {"OPEN", "IN_PROGRESS", "RESOLVED", "CLOSED"}
    Identity = {google, apple}
    Callback = {c1, c2, c3, c4}
    Email = {e1}
    NoEmail = NoEmail
    Registration = {r1}
    Referred = {r1}
    Process = {p1, p2}
    Lookup = {l1, l2, l3}
    Setter = {s1}
    CacheTicks = 2
    MaxTicks = 3
    Plans <- MCPlans
    Edits <- MCEdits
    Filings <- MCFilings
    BurstLimit <- MCBurst
    Deposited <- MCDeposited
    Who <- MCWho
    EmailOf <- MCEmailOf
    Address <- MCAddress
SYMMETRY Symmetry
CONSTRAINT MCBound
CHECK_DEADLOCK FALSE
INVARIANTS EventsReachStaff PlayerNotForgotten EditsKeepPlan OneAccountPerIdentity ChangesTakeEffect
