\* Two tabs and a second browser refresh while sessions are ended and links are confirmed.
SPECIFICATION SessionSpec
CONSTANTS
    phone = phone
    desk = desk
    p1 = p1
    p2 = p2
    d1 = d1
    c1 = c1
    c2 = c2
    c3 = c3
    l1 = l1
    l2 = l2
    NoBrowser = NoBrowser
    Browser = {phone, desk}
    Tab = {p1, p2, d1}
    Confirmation = {c1, c2, c3}
    Link = {l1, l2}
    StaffMoves = {"suspend", "restore", "delete"}
    MaxTokens = 4
    MaxEndings = 1
    MaxClock = 1
    Home <- MCHome
    LinkOf <- MCLinkOf
CONSTRAINT MCBound
SYMMETRY MCSymmetry
CHECK_DEADLOCK FALSE
INVARIANTS SuccessorNeverVanishes ReplayHasCause SessionsEndTogether BonusOncePerLink
