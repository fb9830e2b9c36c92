\* A cancellation between the reads of a distribution and its transaction.
SPECIFICATION ResultSpec
CONSTANTS
    ann = ann
    bob = bob
    eve = eve
    duo = duo
    lone = lone
    m1 = m1
    m2 = m2
    ad1 = ad1
    ad2 = ad2
    User = {ann, bob, eve}
    Entry = {duo, lone}
    TeamEntry = {duo}
    HasSnapshot = {duo}
    Match = {m1}
    FirstMatches = {}
    Admin = {ad1, ad2}
    Attempts = 2
    Submitter = {eve}
    Key <- MCKey
    Roster <- MCRoster
    OtherMembers <- MCOther
    Formulas <- MCFormulas
    Claims <- MCClaims
    Sheets <- MCSheets
    Prizes <- MCPrizes
CONSTRAINT MCBound
SYMMETRY Symmetry
CHECK_DEADLOCK FALSE
INVARIANTS RefundedOrPaid
