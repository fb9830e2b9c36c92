\* Check-in, the room and the scheduler of one event, with a failure or a restart.
SPECIFICATION DaySpec
CONSTANTS
    ann = ann
    bob = bob
    c1 = c1
    w1 = w1
    v1 = v1
    a1 = a1
    Player = {ann, bob}
    Deadline = 0
    Starts = {1, 2}
    EventEnds = {"CANCELLED"}
    MaxClock = 2
    CheckReq = {c1}
    DeskOps = {"check in", "mark"}
    Worker = {w1}
    Sweeper = {w1}
    Viewer = {v1}
    Saver = {a1}
    RoomOps = {"HIDE", "SHOW", "CANCEL", "REACTIVATE"}
    Lead = 0
    Pins = {}
    MaxArmings = 2
    MatchAt = 1
    ReminderLead = 1
    MaxCrashes = 1
    CheckOwner <- MCOwner
    Holders <- MCHolders
    Windows <- MCWindows
CONSTRAINT MCBound
CHECK_DEADLOCK FALSE
INVARIANTS AuditsNameTheAbsent ToldOnce ReleaseNotEarly
PROPERTIES CancelHolds AbsencesRecorded RoomsReleased
