---------------------------- MODULE EventProofs ----------------------------
(***************************************************************************)
(* Proofs about the day of a tournament and about its results, for any     *)
(* number of players, entries, matches and administrators, of processes    *)
(* that run the scheduler, and of requests retried, with failures and      *)
(* restarts.                                                               *)
(*                                                                         *)
(* The day: what the audit rows say of the absent, how often a version of  *)
(* the room is told, that a locked room is released only under a change,   *)
(* and that a cancelled room comes back only by its re-activation.         *)
(*                                                                         *)
(* The results: that prizes are settled once and to the last unit, to the  *)
(* roster that played, by the standings and within the caps, and that no   *)
(* two rows of a confirmed match show one prize, unless one kept an older. *)
(***************************************************************************)
EXTENDS MatchDay, Results, FiniteSetTheorems, TLAPS

-----------------------------------------------------------------------------
(***************************************************************************)
(* The invariant.                                                          *)
(***************************************************************************)
\* A cancellation refunds all the seats.
SeatsFollowEvent ==
    \A p \in Player : seat[p].status = "CONFIRMED" => event.status # "CANCELLED"

\* What a pass has read is still who is absent, unless a cancellation left nobody.
ReadHolds ==
    \A w \in Worker : pass[w].stage = "read" =>
        pass[w].seen = Absent \/ event.status = "CANCELLED"

\* The seats a pass has marked carry the mark, and wait for their audit row.
MarkedHolds ==
    \A w \in Worker : pass[w].stage = "marked" =>
        /\ pass[w].marked = Cardinality(pass[w].seen)
        /\ \A p \in pass[w].seen : seat[p].noShow # Unset /\ audits[p] = 0
        /\ \A v \in Worker : pass[v].stage = "marked" /\ pass[v].seen \intersect pass[w].seen # {}
               => v = w

Waiting(p) == \E w \in Worker : pass[w].stage = "marked" /\ p \in pass[w].seen

AuditsFollowMarks ==
    \A p \in Player :
        /\ audits[p] \in {0, 1}
        /\ audits[p] = 1 => seat[p].noShow # Unset
        /\ seat[p].noShow # Unset /\ crashes = 0 => audits[p] = 1 \/ Waiting(p)

AttendanceInv == ~crossed => ReadHolds /\ MarkedHolds /\ AuditsFollowMarks

\* Whoever has claimed the reminder is the only one, and nobody was told yet.
ReminderInv ==
    /\ reminded \in {0, 1}
    /\ ~notified => reminded = 0
    /\ \A w \in Worker : At(w, "tell") =>
          /\ notified /\ reminded = 0
          /\ \A v \in Worker : At(v, "tell") => v = w

ClaimedOf(n) == {x \in Claimer : claim[x].stage = "claimed" /\ claim[x].of = n}

\* An arming is claimed and announced once: while the room is not marked, the present one
\* is neither, and later ones never are.
ArmingsInv ==
    /\ \A n \in 0..MaxArmings :
          /\ announced[n] \in {0, 1}
          /\ \A x, y \in ClaimedOf(n) : x = y
          /\ ClaimedOf(n) # {} => announced[n] = 0
          /\ n > arming \/ (n = arming /\ ~room.released) => ClaimedOf(n) = {} /\ announced[n] = 0
    /\ (room.released /\ ~rumour.lost /\ roomAudience # {}) =>
          announced[arming] = 1 \/ ClaimedOf(arming) # {}

\* What a claimer has looked at is still unlocked, unless somebody changed it.
LookedInv ==
    /\ (\E x \in Claimer : claim[x].stage = "looked") => Unlocked(room) \/ rumour.stirred
    /\ ReleaseNotEarly

DayInv ==
    /\ DayTypeOK
    /\ SeatsFollowEvent
    /\ AttendanceInv
    /\ ReminderInv
    /\ ArmingsInv
    /\ LookedInv

-----------------------------------------------------------------------------
(***************************************************************************)
(* What a step does to attendance, to the room and to the tick.            *)
(***************************************************************************)
LEMMA DayFacts ==
    /\ Unset \notin Time /\ Time \subseteq Int /\ 0 \in Time
    /\ IsFiniteSet(Player) /\ Worker \subseteq Claimer /\ Viewer \subseteq Claimer
    /\ MaxArmings \in Nat /\ MaxCrashes \in Nat /\ MaxClock \in Nat
    /\ Starts \subseteq Time
<1>1. MaxClock \in Nat /\ Deadline \in 0..MaxClock /\ Starts \subseteq Deadline..MaxClock
  BY EventAssumption DEF Time
<1>2. Unset \notin Time /\ Time \subseteq Int /\ 0 \in Time
  BY <1>1 DEF Unset, Time
<1>3. Starts \subseteq Time
  BY <1>1 DEF Time
<1>4. IsFiniteSet(Player) /\ Worker \subseteq Claimer /\ Viewer \subseteq Claimer
  BY EventAssumption, MatchDayAssumption DEF Claimer
<1>. QED
  BY <1>1, <1>2, <1>3, <1>4, RoomAssumption, MatchDayAssumption

LEMMA AbsentFinite ==
    /\ IsFiniteSet(Absent) /\ Cardinality(Absent) \in 0..Cardinality(Player)
    /\ (Cardinality(Absent) = 0 <=> Absent = {})
<1>1. Absent \in SUBSET Player
  BY DEF Absent
<1>2. IsFiniteSet(Absent) /\ Cardinality(Absent) <= Cardinality(Player)
  BY <1>1, DayFacts, FS_Subset
<1>3. Cardinality(Absent) \in Nat /\ Cardinality(Player) \in Nat
  BY <1>2, DayFacts, FS_CardinalityType
<1>4. Cardinality(Absent) = 0 <=> Absent = {}
  BY <1>2, FS_EmptySet
<1>. QED
  BY <1>2, <1>3, <1>4

\* The seat of p is checked in at the instant n.
CheckedIn(p, n) ==
    /\ seat[p].checkedIn = Unset /\ n \in Time
    /\ seat' = [seat EXCEPT ![p].checkedIn = n]
    /\ CrossedBy({p})
    /\ UNCHANGED <<event, pass, audits, crashes>>

\* A pass is lost.
PassLost(w) ==
    /\ pass' = [pass EXCEPT ![w] = IdlePass]
    /\ crashes' = crashes + 1
    /\ UNCHANGED <<event, seat, audits, crossed>>

\* Nothing about attendance changes, but for a failure elsewhere.
AttendanceRests ==
    /\ event'.status = event.status
    /\ crashes' = 0 => crashes = 0
    /\ UNCHANGED <<seat, pass, audits, crossed>>

AttendanceStep ==
    \/ AttendanceRests
    \/ /\ \E s \in EventEnds : EndEvent(s)
       /\ UNCHANGED <<pass, audits, crossed, crashes>>
    \/ \E p \in Player, n \in Time : CheckedIn(p, n)
    \/ \E p \in Player : adminMarkNoShow(p) /\ crashes' = crashes
    \/ \E w \in Worker : (ReadAbsent(w) \/ MarkAbsent(w) \/ AuditAbsent(w)) /\ crashes' = crashes
    \/ \E w \in Worker : PassLost(w)

LEMMA AttendanceSteps ==
    ASSUME DayTypeOK, [DayNext]_dayVars
    PROVE  AttendanceStep
<1>0. crashes \in Nat
  BY DayFacts DEF DayTypeOK
<1>1. CASE UNCHANGED dayVars
  BY <1>1 DEF AttendanceStep, AttendanceRests, dayVars, eventVars, checkInVars, tickVars
<1>2. CASE EventStep
  <2>1. UNCHANGED <<pass, audits, crossed, crashes>>
    BY <1>2 DEF EventStep, checkInVars, tickVars
  <2>2. CASE Pass
    BY <2>1, <2>2 DEF Pass, AttendanceStep, AttendanceRests
  <2>3. CASE \E s \in Starts : MoveStart(s)
    <3>1. PICK s \in Starts : MoveStart(s)
      BY <2>3
    <3>2. event'.status = event.status /\ seat' = seat
      BY <3>1 DEF MoveStart, DayTypeOK, EventTypeOK, EventRow
    <3>. QED
      BY <2>1, <3>2 DEF AttendanceStep, AttendanceRests
  <2>4. CASE \E s \in EventEnds : EndEvent(s)
    BY <2>1, <2>4 DEF AttendanceStep
  <2>. QED
    BY <1>2, <2>2, <2>3, <2>4 DEF EventStep, EventNext
<1>3. CASE CheckInNext /\ UNCHANGED <<roomVars, tickVars>>
  <2>1. crashes' = crashes
    BY <1>3 DEF tickVars
  <2>2. CASE \E w \in Windows : setCheckInWindow(w)
    BY <2>1, <2>2 DEF setCheckInWindow, eventVars, AttendanceStep, AttendanceRests
  <2>3. ASSUME NEW c \in CheckReq, BeginCheckIn(c) PROVE AttendanceStep
    BY <2>1, <2>3 DEF BeginCheckIn, eventVars, AttendanceStep, AttendanceRests
  <2>4. ASSUME NEW c \in CheckReq, checkIn(c) PROVE AttendanceStep
    <3>. DEFINE p == CheckOwner[c]
                n == checkin[c].at
    <3>1. p \in Player /\ n \in Time
      BY CheckInAssumption DEF DayTypeOK, CheckInTypeOK
    <3>2. CASE seat[p].status = "CONFIRMED" /\ seat[p].checkedIn = Unset
      <4>1. CheckedIn(p, n)
        BY <2>1, <2>4, <3>1, <3>2 DEF checkIn, CheckedIn
      <4>. QED
        BY <3>1, <4>1 DEF AttendanceStep
    <3>3. CASE ~(seat[p].status = "CONFIRMED" /\ seat[p].checkedIn = Unset)
      <4>1. UNCHANGED <<event, seat, pass, audits>> /\ CrossedBy({})
        BY <2>4, <3>3 DEF checkIn
      <4>2. crossed' = crossed
        BY <4>1 DEF CrossedBy, DayTypeOK, CheckInTypeOK
      <4>. QED
        BY <2>1, <4>1, <4>2 DEF AttendanceStep, AttendanceRests
    <3>. QED
      BY <3>2, <3>3
  <2>5. ASSUME NEW p \in Player, adminCheckIn(p) PROVE AttendanceStep
    <3>1. CheckedIn(p, clock) /\ clock \in Time
      BY <2>1, <2>5 DEF adminCheckIn, CheckedIn, DayTypeOK, EventTypeOK
    <3>. QED
      BY <3>1 DEF AttendanceStep
  <2>6. ASSUME NEW p \in Player, adminMarkNoShow(p) PROVE AttendanceStep
    BY <2>1, <2>6 DEF AttendanceStep
  <2>. QED
    BY <1>3, <2>2, <2>3, <2>4, <2>5, <2>6 DEF CheckInNext
<1>4. CASE RoomNext /\ UNCHANGED <<checkInVars, tickVars>>
  <2>1. UNCHANGED <<pass, audits, crossed, crashes>>
    BY <1>4 DEF checkInVars, tickVars
  <2>2. UNCHANGED <<event, seat>>
    BY <1>4 DEF RoomNext, BeginRoomSave, setTournamentRoom, setRoomStatus, TellRecall, Look,
                claimRoomRelease, Announce, eventVars
  <2>. QED
    BY <2>1, <2>2 DEF AttendanceStep, AttendanceRests
<1>5. ASSUME NEW w \in Worker, TickStep(w) PROVE AttendanceStep
  <2>1. CASE Remind(w) \/ TellStarting(w) \/ MarkJobDone(w) \/ SweepJobDone(w)
    BY <2>1 DEF Remind, TellStarting, MarkJobDone, SweepJobDone, eventVars, checkInVars, tickVars,
                AttendanceStep, AttendanceRests
  <2>2. CASE MarkJob(w)
    BY <2>2 DEF MarkJob, tickVars, AttendanceStep
  <2>3. CASE SweepJob(w)
    BY <2>3 DEF SweepJob, Look, claimRoomRelease, Announce, eventVars, checkInVars, tickVars,
                AttendanceStep, AttendanceRests
  <2>. QED
    BY <1>5, <2>1, <2>2, <2>3 DEF TickStep
<1>6. ASSUME NEW w \in Worker, Fail(w) PROVE AttendanceStep
  <2>1. crashes' = crashes + 1 /\ UNCHANGED <<event, seat, audits, crossed>>
    BY <1>6 DEF Fail, eventVars
  <2>2. pass' = pass \/ pass' = [pass EXCEPT ![w] = IdlePass]
    BY <1>6 DEF Fail
  <2>. QED
    BY <1>0, <2>1, <2>2 DEF AttendanceStep, AttendanceRests, PassLost
<1>7. ASSUME NEW w \in Worker, Restart(w) PROVE AttendanceStep
  BY <1>7 DEF Restart, eventVars, AttendanceStep, PassLost
<1>8. CASE PageFails
  <2>1. crashes' = crashes + 1 /\ UNCHANGED <<event, seat, pass, audits, crossed>>
    BY <1>8 DEF PageFails, AnnounceFails, RecallFails, eventVars, checkInVars
  <2>. QED
    BY <1>0, <2>1 DEF AttendanceStep, AttendanceRests
<1>. QED
  BY <1>1, <1>2, <1>3, <1>4, <1>5, <1>6, <1>7, <1>8 DEF DayNext

\* A claim is given up; a notification is lost with it if the room was claimed.
ClaimLost(x) ==
    /\ claim' = [claim EXCEPT ![x] = NotClaiming]
    /\ rumour' = [rumour EXCEPT !.lost = @ \/ claim[x].stage = "claimed"]
    /\ UNCHANGED <<event, clock, room, save, arming, announced, recall>>

\* A switch tells its audience, or fails to.
RecallEnds ==
    /\ \E n \in 0..MaxArmings, s \in {"told", "untold"} : recall' = [recall EXCEPT ![n] = s]
    /\ UNCHANGED <<event, clock, room, save, claim, arming, announced, rumour>>

RoomStep ==
    \/ UNCHANGED <<event, clock, roomVars>>
    \/ EventStep
    \/ \E s \in Saver : BeginRoomSave(s) \/ setTournamentRoom(s)
    \/ \E op \in RoomOps : setRoomStatus(op)
    \/ RecallEnds
    \/ \E x \in Claimer : Look(x) \/ claimRoomRelease(x) \/ Announce(x) \/ ClaimLost(x)

LEMMA RoomSteps ==
    ASSUME DayTypeOK, [DayNext]_dayVars
    PROVE  RoomStep
<1>1. CASE UNCHANGED dayVars
  BY <1>1 DEF RoomStep, dayVars, eventVars
<1>2. CASE EventStep
  BY <1>2 DEF RoomStep
<1>3. CASE CheckInNext /\ UNCHANGED <<roomVars, tickVars>>
  <2>1. UNCHANGED <<event, clock>>
    BY <1>3 DEF CheckInNext, setCheckInWindow, BeginCheckIn, checkIn, adminCheckIn,
                adminMarkNoShow, eventVars
  <2>. QED
    BY <1>3, <2>1 DEF RoomStep
<1>4. CASE RoomNext /\ UNCHANGED <<checkInVars, tickVars>>
  <2>1. (\E n \in 0..MaxArmings : TellRecall(n)) => RecallEnds
    BY DEF TellRecall, RecallEnds, eventVars
  <2>. QED
    BY <1>4, <2>1, DayFacts DEF RoomNext, RoomStep
<1>5. ASSUME NEW w \in Worker, TickStep(w) PROVE RoomStep
  <2>1. CASE Remind(w) \/ TellStarting(w) \/ MarkJobDone(w) \/ SweepJobDone(w)
    BY <2>1 DEF Remind, TellStarting, MarkJobDone, SweepJobDone, eventVars, RoomStep
  <2>2. CASE MarkJob(w)
    <3>1. UNCHANGED <<event, clock>>
      BY <2>2 DEF MarkJob, ReadAbsent, MarkAbsent, AuditAbsent, eventVars
    <3>. QED
      BY <2>2, <3>1 DEF MarkJob, RoomStep
  <2>3. CASE SweepJob(w)
    BY <2>3, DayFacts DEF SweepJob, RoomStep
  <2>. QED
    BY <1>5, <2>1, <2>2, <2>3 DEF TickStep
<1>6. ASSUME NEW w \in Worker, Fail(w) PROVE RoomStep
  <2>1. UNCHANGED <<event, clock, room, save, arming, announced, recall>>
    BY <1>6 DEF Fail, eventVars
  <2>2. UNCHANGED <<claim, rumour>> \/ ClaimLost(w)
    BY <1>6, <2>1 DEF Fail, ClaimLost
  <2>. QED
    BY <2>1, <2>2, DayFacts DEF RoomStep, roomVars
<1>7. ASSUME NEW w \in Worker, Restart(w) PROVE RoomStep
  <2>1. ClaimLost(w)
    BY <1>7 DEF Restart, eventVars, ClaimLost
  <2>. QED
    BY <2>1, DayFacts DEF RoomStep
<1>8. CASE PageFails
  <2>1. ASSUME NEW x \in Viewer, AnnounceFails(x) PROVE ClaimLost(x)
    BY <2>1 DEF AnnounceFails, eventVars, ClaimLost
  <2>2. ASSUME NEW n \in 0..MaxArmings, RecallFails(n) PROVE RecallEnds
    BY <2>2 DEF RecallFails, RecallEnds, eventVars
  <2>. QED
    BY <1>8, <2>1, <2>2, DayFacts DEF PageFails, RoomStep
<1>. QED
  BY <1>1, <1>2, <1>3, <1>4, <1>5, <1>6, <1>7, <1>8 DEF DayNext

\* A worker goes on with its tick, or begins the next one.
GoesOn(w) ==
    /\ job' \in {[job EXCEPT ![w] = j] : j \in {"idle", "absent", "rooms"}}
    /\ UNCHANGED <<notified, reminded>>

TickRuns ==
    \/ UNCHANGED <<job, notified, reminded>>
    \/ \E w \in Worker : Remind(w) \/ TellStarting(w) \/ GoesOn(w)

LEMMA TickSteps ==
    ASSUME DayTypeOK, [DayNext]_dayVars
    PROVE  TickRuns /\ crashes' \in 0..MaxCrashes
<1>0. crashes \in 0..MaxCrashes /\ MaxCrashes \in Nat
  BY DayFacts DEF DayTypeOK
<1>1. CASE UNCHANGED tickVars
  BY <1>0, <1>1 DEF tickVars, TickRuns
<1>2. CASE ~UNCHANGED tickVars
  <2>1. \/ \E w \in Worker : TickStep(w) \/ Fail(w) \/ Restart(w)
        \/ PageFails
    BY <1>2 DEF DayNext, EventStep, dayVars, tickVars
  <2>2. ASSUME NEW w \in Worker, TickStep(w) PROVE TickRuns /\ crashes' = crashes
    BY <1>2, <2>2 DEF TickStep, Remind, TellStarting, MarkJob, MarkJobDone, SweepJob,
                      SweepJobDone, Goto, GoesOn, TickRuns, tickVars
  <2>3. ASSUME NEW w \in Worker, Fail(w) \/ Restart(w)
        PROVE  TickRuns /\ crashes < MaxCrashes /\ crashes' = crashes + 1
    BY <2>3 DEF Fail, Restart, Goto, GoesOn, TickRuns
  <2>4. CASE PageFails
    <3>1. TickRuns /\ crashes < MaxCrashes /\ crashes' = crashes + 1
      BY <2>4 DEF PageFails, TickRuns
    <3>. QED
      BY <1>0, <3>1
  <2>. QED
    BY <1>0, <2>1, <2>2, <2>3, <2>4
<1>. QED
  BY <1>1, <1>2

-----------------------------------------------------------------------------
(***************************************************************************)
(* Types.                                                                  *)
(***************************************************************************)
LEMMA AttendanceTypes ==
    ASSUME DayTypeOK, [DayNext]_dayVars
    PROVE  /\ seat' \in [Player -> SeatRow]
           /\ pass' \in [Worker -> PassRow]
           /\ audits' \in [Player -> Nat]
           /\ crossed' \in BOOLEAN
<1>. DEFINE Goal == /\ seat' \in [Player -> SeatRow]
                    /\ pass' \in [Worker -> PassRow]
                    /\ audits' \in [Player -> Nat]
                    /\ crossed' \in BOOLEAN
<1>1. /\ seat \in [Player -> SeatRow] /\ pass \in [Worker -> PassRow]
      /\ audits \in [Player -> Nat] /\ crossed \in BOOLEAN /\ clock \in Time
  BY DEF DayTypeOK, EventTypeOK, CheckInTypeOK
<1>2. IdlePass \in PassRow
  <2>1. Cardinality(Player) \in Nat
    BY DayFacts, FS_CardinalityType
  <2>. QED
    BY <2>1 DEF IdlePass, PassRow
<1>3. CASE AttendanceRests
  BY <1>1, <1>3 DEF AttendanceRests
<1>4. CASE (\E s \in EventEnds : EndEvent(s)) /\ UNCHANGED <<pass, audits, crossed, crashes>>
  <2>1. seat' = seat \/ seat' = [p \in Player |-> Refunded(seat[p])]
    BY <1>4 DEF EndEvent
  <2>2. \A p \in Player : Refunded(seat[p]) \in SeatRow
    BY <1>1 DEF Refunded, SeatRow
  <2>. QED
    BY <1>1, <1>4, <2>1, <2>2
<1>5. ASSUME NEW p \in Player, NEW n \in Time, CheckedIn(p, n) PROVE Goal
  <2>1. seat' \in [Player -> SeatRow]
    BY <1>1, <1>5 DEF CheckedIn, SeatRow
  <2>. QED
    BY <1>1, <1>5, <2>1 DEF CheckedIn, CrossedBy
<1>6. ASSUME NEW p \in Player, adminMarkNoShow(p) PROVE Goal
  <2>1. seat' \in [Player -> SeatRow] /\ audits' \in [Player -> Nat]
    BY <1>1, <1>6 DEF adminMarkNoShow, SeatRow
  <2>. QED
    BY <1>1, <1>6, <2>1 DEF adminMarkNoShow, CrossedBy
<1>7. ASSUME NEW w \in Worker, ReadAbsent(w) PROVE Goal
  <2>1. [IdlePass EXCEPT !.stage = "read", !.seen = Absent] \in PassRow
    BY <1>2 DEF IdlePass, PassRow, Absent
  <2>. QED
    BY <1>1, <1>7, <2>1 DEF ReadAbsent, eventVars
<1>8. ASSUME NEW w \in Worker, MarkAbsent(w) PROVE Goal
  <2>1. seat' \in [Player -> SeatRow]
    BY <1>1, <1>8 DEF MarkAbsent, SeatRow
  <2>2. AfterMark(pass[w].seen, Cardinality(Markable)) \in PassRow
    BY <1>1, <1>2, AbsentFinite DEF AfterMark, Markable, PassRow
  <2>. QED
    BY <1>1, <1>8, <2>1, <2>2 DEF MarkAbsent
<1>9. ASSUME NEW w \in Worker, AuditAbsent(w) PROVE Goal
  BY <1>1, <1>2, <1>9 DEF AuditAbsent, eventVars
<1>10. ASSUME NEW w \in Worker, PassLost(w) PROVE Goal
  BY <1>1, <1>2, <1>10 DEF PassLost
<1>. QED
  BY AttendanceSteps, <1>3, <1>4, <1>5, <1>6, <1>7, <1>8, <1>9, <1>10 DEF AttendanceStep

LEMMA RequestTypes ==
    ASSUME DayTypeOK, [DayNext]_dayVars
    PROVE  /\ window' \in Windows \union {[opens |-> Unset, closes |-> Unset]}
           /\ checkin' \in [CheckReq -> [stage : {"idle", "judged", "done"}, at : Time]]
<1>. DEFINE Goal == /\ window' \in Windows \union {[opens |-> Unset, closes |-> Unset]}
                    /\ checkin' \in [CheckReq -> [stage : {"idle", "judged", "done"}, at : Time]]
<1>1. /\ window \in Windows \union {[opens |-> Unset, closes |-> Unset]}
      /\ checkin \in [CheckReq -> [stage : {"idle", "judged", "done"}, at : Time]]
      /\ clock \in Time
  BY DEF DayTypeOK, EventTypeOK, CheckInTypeOK
<1>2. CASE UNCHANGED <<window, checkin>>
  BY <1>1, <1>2
<1>3. CASE CheckInNext
  <2>1. CASE \E w \in Windows : setCheckInWindow(w)
    BY <1>1, <2>1 DEF setCheckInWindow
  <2>2. ASSUME NEW c \in CheckReq, BeginCheckIn(c) \/ checkIn(c) PROVE Goal
    BY <1>1, <2>2 DEF BeginCheckIn, checkIn
  <2>3. ASSUME NEW p \in Player, adminCheckIn(p) \/ adminMarkNoShow(p) PROVE Goal
    BY <1>1, <2>3 DEF adminCheckIn, adminMarkNoShow
  <2>. QED
    BY <1>3, <2>1, <2>2, <2>3 DEF CheckInNext
<1>4. UNCHANGED <<window, checkin>> \/ CheckInNext
  BY DEF DayNext, EventStep, TickStep, Remind, TellStarting, MarkJob, ReadAbsent, MarkAbsent,
         AuditAbsent, MarkJobDone, SweepJob, SweepJobDone, Fail, Restart, PageFails, checkInVars,
         dayVars
<1>. QED
  BY <1>2, <1>3, <1>4

LEMMA RoomTypes ==
    ASSUME DayTypeOK, [DayNext]_dayVars
    PROVE  event' \in EventRow /\ clock' \in Time /\ RoomTypeOK'
<1>. DEFINE Goal == event' \in EventRow /\ clock' \in Time /\ RoomTypeOK'
<1>1. event \in EventRow /\ clock \in Time /\ RoomTypeOK /\ event.start \in Time
  BY DayFacts DEF DayTypeOK, EventTypeOK, EventRow
<1>2. CASE UNCHANGED <<event, clock, roomVars>>
  BY <1>1, <1>2 DEF RoomTypeOK, roomVars
<1>3. CASE EventStep
  <2>1. RoomTypeOK'
    BY <1>1, <1>3 DEF EventStep, RoomTypeOK
  <2>2. event' \in EventRow /\ clock' \in Time
    BY <1>1, <1>3, DayFacts, EventAssumption
       DEF EventStep, EventNext, Pass, MoveStart, EndEvent, EventRow, Time
  <2>. QED
    BY <2>1, <2>2
<1>4. ASSUME NEW s \in Saver, BeginRoomSave(s) PROVE Goal
  BY <1>1, <1>4 DEF BeginRoomSave, eventVars, RoomTypeOK
<1>5. ASSUME NEW s \in Saver, setTournamentRoom(s) PROVE Goal
  <2>1. save[s].seen \in RoomRow /\ room \in RoomRow /\ arming \in 0..MaxArmings
    BY <1>1 DEF RoomTypeOK
  <2>2. PICK pin \in Pins \union {save[s].seen.pin, Unset}, hidden \in BOOLEAN,
             changed \in BOOLEAN :
          /\ room' = Saved(save[s].seen, pin, hidden, changed)
          /\ Rearm(changed)
    BY <1>5 DEF setTournamentRoom
  <2>3. pin \in Time \union {Unset}
    BY <2>1, RoomAssumption DEF RoomRow
  <2>4. room' \in RoomRow
    BY <2>1, <2>2, <2>3 DEF Saved, RoomRow
  <2>5. arming' \in 0..MaxArmings
    BY <2>1, <2>2, DayFacts DEF Rearm
  <2>6. NoRoom \in RoomRow
    BY DEF NoRoom, RoomRow
  <2>. QED
    BY <1>1, <1>5, <2>4, <2>5, <2>6 DEF setTournamentRoom, eventVars, RoomTypeOK
<1>6. ASSUME NEW op \in RoomOps, setRoomStatus(op) PROVE Goal
  <2>1. room \in RoomRow /\ arming \in 0..MaxArmings
    BY <1>1 DEF RoomTypeOK
  <2>2. room' \in RoomRow
    BY <1>6, <2>1, RoomAssumption DEF setRoomStatus, Switched, RoomRow
  <2>3. arming' \in 0..MaxArmings
    BY <1>6, <2>1, DayFacts DEF setRoomStatus, Rearm
  <2>4. recall' \in [0..MaxArmings -> {"none", "owed", "told", "untold"}]
    BY <1>1, <1>6 DEF setRoomStatus, RoomTypeOK
  <2>. QED
    BY <1>1, <1>6, <2>2, <2>3, <2>4 DEF setRoomStatus, eventVars, RoomTypeOK
<1>7. ASSUME NEW x \in Claimer, Look(x) PROVE Goal
  BY <1>1, <1>7 DEF Look, eventVars, RoomTypeOK
<1>8. NotClaiming \in [stage : {"idle", "looked", "claimed"}, of : 0..MaxArmings]
  BY DayFacts DEF NotClaiming
<1>9. ASSUME NEW x \in Claimer, claimRoomRelease(x) PROVE Goal
  <2>1. room' \in RoomRow
    BY <1>1, <1>9 DEF claimRoomRelease, RoomTypeOK, RoomRow
  <2>2. claim' \in [Claimer -> [stage : {"idle", "looked", "claimed"}, of : 0..MaxArmings]]
    <3>1. [stage |-> "claimed", of |-> arming]
             \in [stage : {"idle", "looked", "claimed"}, of : 0..MaxArmings]
      BY <1>1 DEF RoomTypeOK
    <3>. QED
      BY <1>1, <1>8, <1>9, <3>1 DEF claimRoomRelease, RoomTypeOK
  <2>3. rumour' \in [stirred : BOOLEAN, early : BOOLEAN, lost : BOOLEAN]
    <3>1. (rumour.early \/ ~Unlocked(room)) \in BOOLEAN
      BY DEF Unlocked
    <3>. QED
      BY <1>1, <1>9, <3>1 DEF claimRoomRelease, RoomTypeOK
  <2>. QED
    BY <1>1, <1>9, <2>1, <2>2, <2>3 DEF claimRoomRelease, eventVars, RoomTypeOK
<1>10. ASSUME NEW x \in Claimer, Announce(x) PROVE Goal
  BY <1>1, <1>8, <1>10 DEF Announce, eventVars, RoomTypeOK
<1>11. ASSUME NEW x \in Claimer, ClaimLost(x) PROVE Goal
  BY <1>1, <1>8, <1>11 DEF ClaimLost, RoomTypeOK
<1>12. CASE RecallEnds
  BY <1>1, <1>12 DEF RecallEnds, RoomTypeOK
<1>. QED
  BY RoomSteps, <1>2, <1>3, <1>4, <1>5, <1>6, <1>7, <1>9, <1>10, <1>11, <1>12 DEF RoomStep

LEMMA DayTypesKept ==
    ASSUME DayTypeOK, [DayNext]_dayVars
    PROVE  DayTypeOK'
<1>1. EventTypeOK' /\ CheckInTypeOK' /\ RoomTypeOK'
  BY AttendanceTypes, RequestTypes, RoomTypes DEF EventTypeOK, CheckInTypeOK
<1>2. /\ job' \in [Worker -> {"idle", "tell", "absent", "rooms"}]
      /\ notified' \in BOOLEAN /\ reminded' \in Nat
  <2>1. /\ job \in [Worker -> {"idle", "tell", "absent", "rooms"}]
        /\ notified \in BOOLEAN /\ reminded \in Nat
    BY DEF DayTypeOK
  <2>2. ASSUME NEW w \in Worker, NEW j \in {"idle", "tell", "absent", "rooms"},
               job' = [job EXCEPT ![w] = j]
        PROVE  job' \in [Worker -> {"idle", "tell", "absent", "rooms"}]
    BY <2>1, <2>2
  <2>3. CASE UNCHANGED <<job, notified, reminded>>
    BY <2>1, <2>3
  <2>4. ASSUME NEW w \in Worker, Remind(w) \/ TellStarting(w) \/ GoesOn(w)
        PROVE  \E j \in {"idle", "tell", "absent", "rooms"} : job' = [job EXCEPT ![w] = j]
    BY <2>4 DEF Remind, TellStarting, GoesOn, Goto
  <2>5. ASSUME NEW w \in Worker, Remind(w) \/ TellStarting(w) \/ GoesOn(w)
        PROVE  notified' \in BOOLEAN /\ reminded' \in Nat
    <3>1. CASE Remind(w)
      <4>1. reminded' = reminded /\ (notified' = TRUE \/ notified' = notified)
        BY <3>1 DEF Remind
      <4>. QED
        BY <2>1, <4>1
    <3>2. CASE TellStarting(w)
      <4>1. notified' = notified /\ reminded' \in {reminded, reminded + 1}
        BY <3>2 DEF TellStarting
      <4>. QED
        BY <2>1, <4>1
    <3>3. CASE GoesOn(w)
      BY <2>1, <3>3 DEF GoesOn
    <3>. QED
      BY <2>5, <3>1, <3>2, <3>3
  <2>. QED
    BY <2>2, <2>3, <2>4, <2>5, TickSteps DEF TickRuns
<1>3. crashes' \in 0..MaxCrashes
  BY TickSteps
<1>. QED
  BY <1>1, <1>2, <1>3 DEF DayTypeOK

-----------------------------------------------------------------------------
(***************************************************************************)
(* Attendance and its audit rows.                                          *)
(***************************************************************************)
\* Only a cancellation changes what a seat is, and then nobody holds one any more.
LEMMA SeatsKept ==
    ASSUME DayTypeOK, SeatsFollowEvent, [DayNext]_dayVars
    PROVE  SeatsFollowEvent' /\ roomAudience' \subseteq roomAudience
<1>. DEFINE Goal == SeatsFollowEvent' /\ roomAudience' \subseteq roomAudience
<1>1. seat \in [Player -> SeatRow] /\ event \in EventRow
  BY DEF DayTypeOK, EventTypeOK
<1>2. CASE /\ event'.status = event.status
           /\ \A p \in Player : seat'[p].status = seat[p].status
  BY <1>2 DEF SeatsFollowEvent, roomAudience
<1>3. CASE \E s \in EventEnds : EndEvent(s)
  <2>1. PICK s \in EventEnds : EndEvent(s)
    BY <1>3
  <2>2. s \in {"CANCELLED", "COMPLETED"} /\ event'.status = s /\ event.status = "OPEN"
    BY <1>1, <2>1, EventAssumption DEF EndEvent, EventRow
  <2>3. CASE s = "CANCELLED"
    <3>1. seat' = [p \in Player |-> Refunded(seat[p])]
      BY <2>1, <2>3 DEF EndEvent
    <3>2. ASSUME NEW p \in Player PROVE seat'[p].status # "CONFIRMED"
      BY <1>1, <3>1 DEF Refunded, SeatRow
    <3>. QED
      BY <2>2, <2>3, <3>2 DEF SeatsFollowEvent, roomAudience
  <2>4. CASE s # "CANCELLED"
    BY <2>1, <2>2, <2>4 DEF EndEvent, SeatsFollowEvent, roomAudience
  <2>. QED
    BY <2>3, <2>4
<1>4. CASE AttendanceRests
  BY <1>2, <1>4 DEF AttendanceRests
<1>5. ASSUME NEW p \in Player, NEW n \in Time, CheckedIn(p, n) PROVE Goal
  BY <1>1, <1>2, <1>5 DEF CheckedIn, SeatRow
<1>6. ASSUME NEW p \in Player, adminMarkNoShow(p) PROVE Goal
  BY <1>1, <1>2, <1>6 DEF adminMarkNoShow, SeatRow
<1>7. ASSUME NEW w \in Worker, ReadAbsent(w) \/ MarkAbsent(w) \/ AuditAbsent(w)
      PROVE  Goal
  <2>1. event' = event
    BY <1>7 DEF ReadAbsent, MarkAbsent, AuditAbsent, eventVars
  <2>2. \A p \in Player : seat'[p].status = seat[p].status
    BY <1>1, <1>7 DEF ReadAbsent, MarkAbsent, AuditAbsent, eventVars, SeatRow
  <2>. QED
    BY <1>2, <2>1, <2>2
<1>8. ASSUME NEW w \in Worker, PassLost(w) PROVE Goal
  BY <1>2, <1>8 DEF PassLost
<1>. QED
  BY AttendanceSteps, <1>3, <1>4, <1>5, <1>6, <1>7, <1>8 DEF AttendanceStep

\* A pass that names as many as it marked, of those it read, names them all.
LEMMA NamesAll ==
    ASSUME NEW w \in Worker, pass[w].seen \in SUBSET Player,
           pass[w].marked = Cardinality(pass[w].seen), NEW names, Named(w, names)
    PROVE  names = pass[w].seen
<1>1. names \in SUBSET pass[w].seen
  BY DEF Named
<1>2. IsFiniteSet(pass[w].seen)
  BY DayFacts, FS_Subset
<1>3. Cardinality(names) = pass[w].marked => names = pass[w].seen
  BY <1>1, <1>2, FS_Subset
<1>. QED
  BY <1>3 DEF Named

LEMMA AttendanceKept ==
    ASSUME DayTypeOK, SeatsFollowEvent, AttendanceInv, [DayNext]_dayVars
    PROVE  AttendanceInv'
<1>. SUFFICES ASSUME ~crossed' PROVE ReadHolds' /\ MarkedHolds' /\ AuditsFollowMarks'
  BY DEF AttendanceInv
<1>. DEFINE Goal == ReadHolds' /\ MarkedHolds' /\ AuditsFollowMarks'
<1>1. /\ seat \in [Player -> SeatRow] /\ pass \in [Worker -> PassRow] /\ event \in EventRow
      /\ audits \in [Player -> Nat] /\ clock \in Time /\ clock # Unset /\ crashes \in Nat
  BY DayFacts DEF DayTypeOK, EventTypeOK, CheckInTypeOK
<1>2. ~crossed
  <2>1. CASE AttendanceRests \/ (\E w \in Worker : PassLost(w)) \/ crossed' = crossed
    BY <2>1 DEF AttendanceRests, PassLost
  <2>2. ASSUME NEW p \in Player, NEW n \in Time, CheckedIn(p, n) PROVE ~crossed
    BY <2>2 DEF CheckedIn, CrossedBy
  <2>3. ASSUME NEW p \in Player, adminMarkNoShow(p) PROVE ~crossed
    BY <2>3 DEF adminMarkNoShow, CrossedBy
  <2>4. ASSUME NEW w \in Worker, ReadAbsent(w) \/ MarkAbsent(w) \/ AuditAbsent(w) PROVE ~crossed
    BY <2>4 DEF ReadAbsent, MarkAbsent, AuditAbsent
  <2>. QED
    BY AttendanceSteps, <2>1, <2>2, <2>3, <2>4 DEF AttendanceStep
<1>3. ReadHolds /\ MarkedHolds /\ AuditsFollowMarks
  BY <1>2 DEF AttendanceInv
<1>4. CASE AttendanceRests
  BY <1>3, <1>4 DEF AttendanceRests, ReadHolds, MarkedHolds, AuditsFollowMarks, Waiting, Absent
<1>5. ASSUME NEW s \in EventEnds, EndEvent(s), UNCHANGED <<pass, audits, crossed, crashes>>
      PROVE  Goal
  <2>1. event.status = "OPEN" /\ event'.status = s
    BY <1>1, <1>5 DEF EndEvent, EventRow
  <2>2. \A p \in Player : seat'[p].noShow = seat[p].noShow
    BY <1>1, <1>5 DEF EndEvent, Refunded, SeatRow
  <2>3. ReadHolds'
    <3>1. CASE s = "CANCELLED"
      BY <2>1, <3>1 DEF ReadHolds
    <3>2. CASE s # "CANCELLED"
      BY <1>3, <1>5, <2>1, <3>2 DEF EndEvent, ReadHolds, Absent
    <3>. QED
      BY <3>1, <3>2
  <2>4. MarkedHolds'
    <3>1. \A w \in Worker : pass[w].seen \subseteq Player
      BY <1>1 DEF PassRow
    <3>. QED
      BY <1>3, <1>5, <2>2, <3>1 DEF MarkedHolds
  <2>5. AuditsFollowMarks'
    BY <1>3, <1>5, <2>2 DEF AuditsFollowMarks, Waiting
  <2>. QED
    BY <2>3, <2>4, <2>5
<1>6. ASSUME NEW p \in Player, NEW n \in Time, CheckedIn(p, n) PROVE Goal
  <2>1. /\ seat' = [seat EXCEPT ![p].checkedIn = n] /\ UNCHANGED <<event, pass, audits, crashes>>
        /\ \A w \in Worker : pass[w].stage = "read" => p \notin pass[w].seen
    BY <1>2, <1>6 DEF CheckedIn, CrossedBy
  <2>2. \A q \in Player : seat'[q].noShow = seat[q].noShow
    BY <1>1, <2>1 DEF SeatRow
  <2>3. \A q \in Player : q # p => seat'[q] = seat[q]
    BY <1>1, <2>1
  <2>4. p \notin Absent => Absent' = Absent
    <3>1. p \notin Absent'
      BY <1>1, <2>1, DayFacts DEF Absent, Missing, SeatRow
    <3>. QED
      BY <2>3, <3>1 DEF Absent
  <2>5. ReadHolds'
    BY <1>3, <2>1, <2>4 DEF ReadHolds
  <2>6. MarkedHolds'
    <3>1. \A w \in Worker : pass[w].seen \subseteq Player
      BY <1>1 DEF PassRow
    <3>. QED
      BY <1>3, <2>1, <2>2, <3>1 DEF MarkedHolds
  <2>7. AuditsFollowMarks'
    BY <1>3, <2>1, <2>2 DEF AuditsFollowMarks, Waiting
  <2>. QED
    BY <2>5, <2>6, <2>7
<1>7. ASSUME NEW p \in Player, adminMarkNoShow(p), crashes' = crashes PROVE Goal
  <2>1. /\ seat[p].noShow = Unset /\ seat' = [seat EXCEPT ![p].noShow = clock]
        /\ audits' = [audits EXCEPT ![p] = @ + 1] /\ UNCHANGED <<event, pass>>
        /\ \A w \in Worker : pass[w].stage = "read" => p \notin pass[w].seen
    BY <1>2, <1>7 DEF adminMarkNoShow, CrossedBy
  <2>2. \A q \in Player : q # p => seat'[q] = seat[q] /\ audits'[q] = audits[q]
    BY <1>1, <2>1
  <2>3. seat'[p].noShow # Unset /\ audits'[p] = 1
    <3>1. audits[p] = 0
      BY <1>3, <2>1 DEF AuditsFollowMarks
    <3>. QED
      BY <1>1, <2>1, <3>1
  <2>4. p \notin Absent => Absent' = Absent
    <3>1. p \notin Absent'
      BY <2>3 DEF Absent, Missing
    <3>. QED
      BY <2>2, <3>1 DEF Absent
  <2>5. ReadHolds'
    BY <1>3, <2>1, <2>4 DEF ReadHolds
  <2>6. MarkedHolds'
    <3>1. \A w \in Worker : pass[w].seen \subseteq Player
      BY <1>1 DEF PassRow
    <3>2. \A w \in Worker : pass[w].stage = "marked" => p \notin pass[w].seen
      BY <1>3, <2>1 DEF MarkedHolds
    <3>. QED
      BY <1>3, <2>1, <2>2, <3>1, <3>2 DEF MarkedHolds
  <2>7. AuditsFollowMarks'
    BY <1>3, <1>7, <2>1, <2>2, <2>3 DEF AuditsFollowMarks, Waiting
  <2>. QED
    BY <2>5, <2>6, <2>7
<1>8. ASSUME NEW w \in Worker, ReadAbsent(w), crashes' = crashes PROVE Goal
  <2>1. /\ UNCHANGED <<event, seat, audits>> /\ pass[w].stage = "idle"
        /\ pass' = [pass EXCEPT ![w] = [IdlePass EXCEPT !.stage = "read", !.seen = Absent]]
    BY <1>8 DEF ReadAbsent, eventVars
  <2>2. /\ pass'[w].stage = "read" /\ pass'[w].seen = Absent
        /\ \A v \in Worker : v # w => pass'[v] = pass[v]
    BY <1>1, <2>1 DEF IdlePass
  <2>3. Absent' = Absent
    BY <2>1 DEF Absent
  <2>4. ReadHolds'
    BY <1>3, <2>1, <2>2, <2>3 DEF ReadHolds
  <2>5. MarkedHolds'
    BY <1>3, <2>1, <2>2 DEF MarkedHolds
  <2>6. \A p \in Player : Waiting(p) => Waiting(p)'
    BY <2>1, <2>2 DEF Waiting
  <2>7. AuditsFollowMarks'
    BY <1>3, <1>8, <2>1, <2>6 DEF AuditsFollowMarks
  <2>. QED
    BY <2>4, <2>5, <2>7
<1>9. ASSUME NEW w \in Worker, MarkAbsent(w), crashes' = crashes PROVE Goal
  <2>1. /\ pass[w].stage = "read" /\ UNCHANGED <<event, audits>>
        /\ seat' = [p \in Player |-> IF p \in Absent THEN [seat[p] EXCEPT !.noShow = clock]
                                                    ELSE seat[p]]
        /\ pass' = [pass EXCEPT ![w] = AfterMark(pass[w].seen, Cardinality(Absent))]
        /\ \A v \in Worker \ {w} : pass[v].stage = "read" => pass[v].seen \intersect Absent = {}
    BY <1>2, <1>9 DEF MarkAbsent, Markable
  <2>2. \A p \in Player : p \notin Absent => seat'[p] = seat[p]
    BY <2>1
  <2>3. \A p \in Absent : /\ seat[p].noShow = Unset /\ seat'[p].noShow # Unset
                          /\ audits[p] = 0
    BY <1>1, <1>3, <2>1 DEF Absent, Missing, AuditsFollowMarks, SeatRow
  <2>4. Absent' = {}
    BY <2>2, <2>3 DEF Absent, Missing
  <2>5. Absent = {} \/ Absent = pass[w].seen
    <3>1. event.status = "CANCELLED" => Absent = {}
      BY DEF SeatsFollowEvent, Absent, Missing
    <3>. QED
      BY <1>3, <2>1, <3>1 DEF ReadHolds
  <2>6. \A v \in Worker : v # w => pass'[v] = pass[v]
    BY <1>1, <2>1
  <2>7. ReadHolds'
    <3>1. pass'[w].stage # "read"
      BY <1>1, <2>1 DEF AfterMark, IdlePass
    <3>2. \A v \in Worker : v # w /\ pass[v].stage = "read" =>
             pass[v].seen = {} \/ event.status = "CANCELLED"
      BY <1>3, <2>1 DEF ReadHolds
    <3>. QED
      BY <2>1, <2>4, <2>6, <3>1, <3>2 DEF ReadHolds
  <2>8. CASE Absent = {}
    <3>1. pass' = [pass EXCEPT ![w] = IdlePass]
      BY <2>1, <2>8, AbsentFinite DEF AfterMark
    <3>2. pass'[w].stage = "idle"
      BY <1>1, <3>1 DEF IdlePass
    <3>3. \A p \in Player : seat'[p] = seat[p]
      BY <2>2, <2>8
    <3>4. MarkedHolds'
      <4>1. \A v \in Worker : pass[v].seen \subseteq Player
        BY <1>1 DEF PassRow
      <4>2. \A v \in Worker : pass'[v].stage = "marked" => v # w /\ pass'[v] = pass[v]
        BY <2>6, <3>2
      <4>. QED
        BY <1>3, <2>1, <3>3, <4>1, <4>2 DEF MarkedHolds
    <3>5. \A p \in Player : Waiting(p) => Waiting(p)'
      BY <2>1, <2>6 DEF Waiting
    <3>6. AuditsFollowMarks'
      BY <1>3, <1>9, <2>1, <3>3, <3>5 DEF AuditsFollowMarks
    <3>. QED
      BY <2>7, <3>4, <3>6
  <2>9. CASE Absent # {}
    <3>1. pass[w].seen = Absent
      BY <2>5, <2>9
    <3>2. /\ pass'[w].stage = "marked" /\ pass'[w].seen = Absent
          /\ pass'[w].marked = Cardinality(Absent)
      BY <1>1, <2>1, <2>9, <3>1, AbsentFinite DEF AfterMark
    <3>3. MarkedHolds'
      <4>1. \A v \in Worker : pass[v].seen \subseteq Player
        BY <1>1 DEF PassRow
      <4>2. \A v \in Worker : pass[v].stage = "marked" => pass[v].seen \intersect Absent = {}
        BY <1>3, <2>3 DEF MarkedHolds
      <4>3. \A v \in Worker : pass[v].stage = "marked" =>
               \A p \in pass[v].seen : seat'[p].noShow # Unset /\ audits[p] = 0
        BY <1>3, <2>2, <4>1, <4>2 DEF MarkedHolds
      <4>. QED
        BY <1>3, <2>1, <2>3, <2>6, <3>2, <4>2, <4>3 DEF MarkedHolds
    <3>4. \A p \in Player : Waiting(p) \/ p \in Absent => Waiting(p)'
      BY <2>1, <2>6, <3>2 DEF Waiting
    <3>5. AuditsFollowMarks'
      BY <1>3, <1>9, <2>1, <2>2, <2>3, <3>4 DEF AuditsFollowMarks
    <3>. QED
      BY <2>7, <3>3, <3>5
  <2>. QED
    BY <2>8, <2>9
<1>10. ASSUME NEW w \in Worker, AuditAbsent(w), crashes' = crashes PROVE Goal
  <2>1. PICK names \in SUBSET Player :
          /\ Named(w, names)
          /\ audits' = [p \in Player |-> IF p \in names THEN audits[p] + 1 ELSE audits[p]]
    BY <1>10 DEF AuditAbsent
  <2>2. /\ pass[w].stage = "marked" /\ pass' = [pass EXCEPT ![w] = IdlePass]
        /\ UNCHANGED <<event, seat>>
    BY <1>10 DEF AuditAbsent, eventVars
  <2>3. names = pass[w].seen
    <3>1. pass[w].seen \in SUBSET Player
      BY <1>1 DEF PassRow
    <3>. QED
      BY <1>3, <2>1, <2>2, <3>1, NamesAll DEF MarkedHolds
  <2>4. \A p \in names : seat[p].noShow # Unset /\ audits'[p] = 1
    BY <1>3, <2>1, <2>2, <2>3 DEF MarkedHolds
  <2>5. \A p \in Player : p \notin names => audits'[p] = audits[p]
    BY <2>1
  <2>6. /\ pass'[w].stage = "idle"
        /\ \A v \in Worker : v # w => pass'[v] = pass[v]
    BY <1>1, <2>2 DEF IdlePass
  <2>7. ReadHolds'
    BY <1>3, <2>2, <2>6 DEF ReadHolds, Absent
  <2>8. MarkedHolds'
    <3>1. \A v \in Worker : v # w /\ pass[v].stage = "marked" => pass[v].seen \intersect names = {}
      BY <1>3, <2>2, <2>3 DEF MarkedHolds
    <3>2. \A v \in Worker : pass[v].seen \subseteq Player
      BY <1>1 DEF PassRow
    <3>. QED
      BY <1>3, <2>2, <2>5, <2>6, <3>1, <3>2 DEF MarkedHolds
  <2>9. \A p \in Player : Waiting(p) => p \in names \/ Waiting(p)'
    BY <2>3, <2>6 DEF Waiting
  <2>10. AuditsFollowMarks'
    BY <1>3, <1>10, <2>2, <2>4, <2>5, <2>9 DEF AuditsFollowMarks
  <2>. QED
    BY <2>7, <2>8, <2>10
<1>11. ASSUME NEW w \in Worker, PassLost(w) PROVE Goal
  <2>1. /\ pass' = [pass EXCEPT ![w] = IdlePass] /\ crashes' # 0
        /\ UNCHANGED <<event, seat, audits>>
    BY <1>1, <1>11 DEF PassLost
  <2>2. /\ pass'[w].stage = "idle"
        /\ \A v \in Worker : v # w => pass'[v] = pass[v]
    BY <1>1, <2>1 DEF IdlePass
  <2>. QED
    BY <1>3, <2>1, <2>2 DEF ReadHolds, Absent, MarkedHolds, AuditsFollowMarks
<1>. QED
  BY AttendanceSteps, <1>4, <1>5, <1>6, <1>7, <1>8, <1>9, <1>10, <1>11 DEF AttendanceStep

-----------------------------------------------------------------------------
(***************************************************************************)
(* The reminder of the match.                                              *)
(***************************************************************************)
LEMMA ReminderKept ==
    ASSUME DayTypeOK, ReminderInv, [DayNext]_dayVars
    PROVE  ReminderInv'
<1>1. /\ job \in [Worker -> {"idle", "tell", "absent", "rooms"}]
      /\ notified \in BOOLEAN /\ reminded \in Nat
  BY DEF DayTypeOK
<1>2. CASE UNCHANGED <<job, notified, reminded>>
  BY <1>2 DEF ReminderInv, At
<1>3. ASSUME NEW w \in Worker, Remind(w) PROVE ReminderInv'
  <2>1. CASE Near /\ ~notified
    <3>1. /\ notified' = TRUE /\ job' = [job EXCEPT ![w] = "tell"] /\ reminded' = reminded
      BY <1>3, <2>1 DEF Remind, Goto
    <3>2. reminded = 0 /\ \A v \in Worker : job[v] # "tell"
      BY <2>1 DEF ReminderInv, At
    <3>. QED
      BY <1>1, <3>1, <3>2 DEF ReminderInv, At
  <2>2. CASE ~(Near /\ ~notified)
    <3>1. notified' = notified /\ job' = [job EXCEPT ![w] = "absent"] /\ reminded' = reminded
      BY <1>3, <2>2 DEF Remind, Goto
    <3>. QED
      BY <1>1, <3>1 DEF ReminderInv, At
  <2>. QED
    BY <2>1, <2>2
<1>4. ASSUME NEW w \in Worker, TellStarting(w) PROVE ReminderInv'
  <2>1. /\ job[w] = "tell" /\ job' = [job EXCEPT ![w] = "absent"]
        /\ notified' = notified /\ reminded' \in {reminded, reminded + 1}
    BY <1>4 DEF TellStarting, At, Goto
  <2>2. notified /\ reminded = 0 /\ \A v \in Worker : job[v] = "tell" => v = w
    BY <2>1 DEF ReminderInv, At
  <2>3. \A v \in Worker : job'[v] # "tell"
    BY <1>1, <2>1, <2>2
  <2>. QED
    BY <2>1, <2>2, <2>3 DEF ReminderInv, At
<1>5. ASSUME NEW w \in Worker, GoesOn(w) PROVE ReminderInv'
  <2>1. PICK j \in {"idle", "absent", "rooms"} : job' = [job EXCEPT ![w] = j]
    BY <1>5 DEF GoesOn
  <2>2. \A v \in Worker : job'[v] = "tell" => job[v] = "tell"
    BY <1>1, <2>1
  <2>. QED
    BY <1>5, <2>2 DEF ReminderInv, GoesOn, At
<1>. QED
  BY TickSteps, <1>2, <1>3, <1>4, <1>5 DEF TickRuns

-----------------------------------------------------------------------------
(***************************************************************************)
(* The release of the room and its announcement.                           *)
(***************************************************************************)
\* The room is saved or switched: another arming is due, or the mark stays as it is.
Changed ==
    /\ \/ arming' = arming + 1 /\ ~room'.released
       \/ arming' = arming /\ room'.released = room.released
    /\ rumour' = [rumour EXCEPT !.stirred = @ \/ Stirred]
    /\ UNCHANGED <<event, clock, claim, announced>>

LEMMA ChangesTheRoom ==
    ASSUME DayTypeOK,
           (\E s \in Saver : setTournamentRoom(s)) \/ (\E op \in RoomOps : setRoomStatus(op))
    PROVE  Changed
<1>1. room \in RoomRow
  BY DEF DayTypeOK, RoomTypeOK
<1>2. ASSUME NEW s \in Saver, setTournamentRoom(s) PROVE Changed
  <2>1. PICK pin \in Pins \union {save[s].seen.pin, Unset}, hidden \in BOOLEAN,
             changed \in BOOLEAN :
          /\ room' = Saved(save[s].seen, pin, hidden, changed)
          /\ Rearm(changed)
          /\ rumour' = [rumour EXCEPT !.stirred = @ \/ Stirred]
    BY <1>2 DEF setTournamentRoom
  <2>2. room'.released = (room.released /\ ~changed)
    BY <1>1, <2>1 DEF Saved, RoomRow
  <2>3. room.released \in BOOLEAN
    BY <1>1 DEF RoomRow
  <2>4. \/ arming' = arming + 1 /\ ~room'.released
        \/ arming' = arming /\ room'.released = room.released
    <3>1. CASE changed
      BY <2>1, <2>2, <3>1 DEF Rearm
    <3>2. CASE ~changed
      BY <2>1, <2>2, <2>3, <3>2 DEF Rearm
    <3>. QED
      BY <3>1, <3>2
  <2>. QED
    BY <1>2, <2>1, <2>4 DEF setTournamentRoom, eventVars, Changed
<1>3. ASSUME NEW op \in RoomOps, setRoomStatus(op) PROVE Changed
  <2>1. op \in {"HIDE", "SHOW", "CANCEL", "REACTIVATE"}
    BY RoomAssumption
  <2>2. CASE op \in {"SHOW", "REACTIVATE"}
    BY <1>1, <1>3, <2>2 DEF setRoomStatus, Switched, Rearm, Recalls, Changed, eventVars, RoomRow
  <2>3. CASE op \in {"HIDE", "CANCEL"}
    BY <1>1, <1>3, <2>3 DEF setRoomStatus, Switched, Rearm, Recalls, Changed, eventVars, RoomRow
  <2>. QED
    BY <2>1, <2>2, <2>3
<1>. QED
  BY <1>2, <1>3

LEMMA ArmingsKept ==
    ASSUME DayTypeOK, SeatsFollowEvent, ArmingsInv, [DayNext]_dayVars
    PROVE  ArmingsInv'
<1>1. /\ claim \in [Claimer -> [stage : {"idle", "looked", "claimed"}, of : 0..MaxArmings]]
      /\ arming \in 0..MaxArmings /\ announced \in [0..MaxArmings -> Nat]
      /\ room \in RoomRow /\ event \in EventRow /\ MaxArmings \in Nat
      /\ rumour \in [stirred : BOOLEAN, early : BOOLEAN, lost : BOOLEAN]
  BY DayFacts DEF DayTypeOK, EventTypeOK, RoomTypeOK
<1>2. arming' \in 0..MaxArmings
  BY DayTypesKept DEF DayTypeOK, RoomTypeOK
<1>a. roomAudience' # {} => roomAudience # {}
  BY SeatsKept
<1>3. CASE /\ UNCHANGED <<arming, announced, claim>>
           /\ room'.released = room.released /\ rumour'.lost = rumour.lost
  <2>1. \A n \in 0..MaxArmings : ClaimedOf(n)' = ClaimedOf(n)
    BY <1>3 DEF ClaimedOf
  <2>. QED
    BY <1>1, <1>a, <1>3, <2>1 DEF ArmingsInv
<1>4. CASE EventStep
  BY <1>1, <1>3, <1>4 DEF EventStep
<1>5. CASE \/ UNCHANGED <<event, clock, roomVars>> \/ RecallEnds
           \/ \E s \in Saver : BeginRoomSave(s)
  BY <1>3, <1>5 DEF roomVars, BeginRoomSave, RecallEnds, eventVars
<1>6. CASE Changed
  <2>1. \A n \in 0..MaxArmings : ClaimedOf(n)' = ClaimedOf(n)
    BY <1>6 DEF Changed, ClaimedOf
  <2>2. CASE arming' = arming + 1 /\ ~room'.released
    <3>1. \A n \in 0..MaxArmings : n >= arming' => n > arming
      BY <1>1, <2>2
    <3>. QED
      BY <1>1, <1>a, <1>6, <2>1, <2>2, <3>1 DEF Changed, ArmingsInv
  <2>3. CASE arming' = arming /\ room'.released = room.released
    BY <1>1, <1>3, <1>6, <2>3 DEF Changed
  <2>. QED
    BY <1>6, <2>2, <2>3 DEF Changed
<1>7. ASSUME NEW x \in Claimer, Look(x) PROVE ArmingsInv'
  <2>1. /\ claim[x].stage = "idle" /\ claim' = [claim EXCEPT ![x].stage = "looked"]
        /\ UNCHANGED <<event, room, arming, announced, rumour>>
    BY <1>7 DEF Look, eventVars
  <2>2. \A n \in 0..MaxArmings : ClaimedOf(n)' = ClaimedOf(n)
    BY <1>1, <2>1 DEF ClaimedOf
  <2>. QED
    BY <1>1, <1>a, <2>1, <2>2 DEF ArmingsInv
<1>8. ASSUME NEW x \in Claimer, claimRoomRelease(x) PROVE ArmingsInv'
  <2>1. CASE Claimable
    <3>1. /\ ~room.released /\ room' = [room EXCEPT !.released = TRUE]
          /\ claim' = [claim EXCEPT ![x] = [stage |-> "claimed", of |-> arming]]
          /\ claim[x].stage = "looked" /\ UNCHANGED <<event, arming, announced>>
      BY <1>8, <2>1 DEF claimRoomRelease, Claimable, eventVars
    <3>2. ClaimedOf(arming) = {} /\ announced[arming] = 0
      BY <1>1, <3>1 DEF ArmingsInv
    <3>3. ClaimedOf(arming)' = {x}
      BY <1>1, <3>1, <3>2 DEF ClaimedOf
    <3>4. \A n \in 0..MaxArmings : n # arming => ClaimedOf(n)' = ClaimedOf(n)
      BY <1>1, <3>1 DEF ClaimedOf
    <3>5. room'.released
      BY <1>1, <3>1 DEF RoomRow
    <3>6. ASSUME NEW n \in 0..MaxArmings
          PROVE  (/\ announced[n] \in {0, 1}
                  /\ \A y, z \in ClaimedOf(n) : y = z
                  /\ ClaimedOf(n) # {} => announced[n] = 0
                  /\ n > arming \/ (n = arming /\ ~room.released)
                        => ClaimedOf(n) = {} /\ announced[n] = 0)'
      <4>1. CASE n = arming
        BY <1>1, <3>1, <3>2, <3>3, <3>5, <4>1
      <4>2. CASE n # arming
        BY <3>1, <3>4, <4>2 DEF ArmingsInv
      <4>. QED
        BY <4>1, <4>2
    <3>. QED
      BY <3>1, <3>3, <3>6 DEF ArmingsInv
  <2>2. CASE ~Claimable
    <3>1. /\ claim' = [claim EXCEPT ![x] = NotClaiming] /\ claim[x].stage = "looked"
          /\ UNCHANGED <<event, arming, announced, room, rumour>>
      BY <1>8, <2>2 DEF claimRoomRelease, eventVars
    <3>2. \A n \in 0..MaxArmings : ClaimedOf(n)' = ClaimedOf(n)
      BY <1>1, <3>1 DEF ClaimedOf, NotClaiming
    <3>. QED
      BY <1>1, <1>a, <3>1, <3>2 DEF ArmingsInv
  <2>. QED
    BY <2>1, <2>2
<1>9. ASSUME NEW x \in Claimer, Announce(x) PROVE ArmingsInv'
  <2>0. PICK k \in 0..MaxArmings : k = claim[x].of
    BY <1>1
  <2>1. /\ claim[x].stage = "claimed" /\ claim' = [claim EXCEPT ![x] = NotClaiming]
        /\ UNCHANGED <<event, room, arming, rumour>>
    BY <1>9 DEF Announce, eventVars
  <2>2. x \in ClaimedOf(k)
    BY <2>0, <2>1 DEF ClaimedOf
  <2>3. announced[k] = 0 /\ ClaimedOf(k) = {x} /\ ~(k > arming)
        /\ (k = arming => room.released)
    BY <2>2 DEF ArmingsInv
  <2>4. ClaimedOf(k)' = {}
    BY <1>1, <2>1, <2>3 DEF ClaimedOf, NotClaiming
  <2>5. \A n \in 0..MaxArmings : n # k => ClaimedOf(n)' = ClaimedOf(n)
    BY <1>1, <2>0, <2>1 DEF ClaimedOf, NotClaiming
  <2>7. /\ announced'[k] \in {0, 1} /\ (roomAudience # {} => announced'[k] = 1)
        /\ \A n \in 0..MaxArmings : n # k => announced'[n] = announced[n]
    <3>1. CASE roomAudience = {}
      BY <1>9, <2>0, <2>3, <3>1 DEF Announce
    <3>2. CASE roomAudience # {}
      BY <1>1, <1>9, <2>0, <2>3, <3>2 DEF Announce
    <3>. QED
      BY <3>1, <3>2
  <2>8. ASSUME NEW n \in 0..MaxArmings
        PROVE  (/\ announced[n] \in {0, 1}
                /\ \A y, z \in ClaimedOf(n) : y = z
                /\ ClaimedOf(n) # {} => announced[n] = 0
                /\ n > arming \/ (n = arming /\ ~room.released)
                      => ClaimedOf(n) = {} /\ announced[n] = 0)'
    <3>1. CASE n = k
      BY <2>1, <2>3, <2>4, <2>7, <3>1
    <3>2. CASE n # k
      BY <2>1, <2>5, <2>7, <3>2 DEF ArmingsInv
    <3>. QED
      BY <3>1, <3>2
  <2>9. (room.released /\ ~rumour.lost /\ roomAudience # {} =>
            announced[arming] = 1 \/ ClaimedOf(arming) # {})'
    <3>1. CASE arming = k
      BY <1>a, <2>1, <2>7, <3>1
    <3>2. CASE arming # k
      BY <1>1, <1>a, <2>1, <2>5, <2>7, <3>2 DEF ArmingsInv
    <3>. QED
      BY <3>1, <3>2
  <2>. QED
    BY <2>8, <2>9 DEF ArmingsInv
<1>10. ASSUME NEW x \in Claimer, ClaimLost(x) PROVE ArmingsInv'
  <2>1. claim' = [claim EXCEPT ![x] = NotClaiming] /\ UNCHANGED <<event, room, arming, announced>>
    BY <1>10 DEF ClaimLost
  <2>2. rumour'.lost = (rumour.lost \/ claim[x].stage = "claimed")
    BY <1>1, <1>10 DEF ClaimLost
  <2>3. \A n \in 0..MaxArmings : ClaimedOf(n)' = ClaimedOf(n) \ {x}
    BY <1>1, <2>1 DEF ClaimedOf, NotClaiming
  <2>4. ~rumour'.lost => \A n \in 0..MaxArmings : ClaimedOf(n)' = ClaimedOf(n)
    BY <2>2, <2>3 DEF ClaimedOf
  <2>. QED
    BY <1>1, <1>a, <2>1, <2>2, <2>3, <2>4 DEF ArmingsInv
<1>. QED
  BY RoomSteps, ChangesTheRoom, <1>4, <1>5, <1>6, <1>7, <1>8, <1>9, <1>10 DEF RoomStep

\* What was looked at stays unlocked as time passes, and whatever locks it leaves a trace.
LEMMA LookedKept ==
    ASSUME DayTypeOK, LookedInv, [DayNext]_dayVars
    PROVE  LookedInv'
<1>. DEFINE Looking == \E x \in Claimer : claim[x].stage = "looked"
<1>1. /\ claim \in [Claimer -> [stage : {"idle", "looked", "claimed"}, of : 0..MaxArmings]]
      /\ room \in RoomRow /\ event \in EventRow /\ clock \in Int /\ event.start \in Int
      /\ rumour \in [stirred : BOOLEAN, early : BOOLEAN, lost : BOOLEAN] /\ Lead \in Nat
      /\ (room.pin = Unset \/ room.pin \in Int)
  BY DayFacts, RoomAssumption
     DEF DayTypeOK, EventTypeOK, RoomTypeOK, RoomRow, EventRow
<1>2. /\ Looking => Unlocked(room) \/ rumour.stirred
      /\ rumour.early => rumour.stirred
  BY DEF LookedInv, ReleaseNotEarly
<1>3. CASE /\ UNCHANGED <<event, clock, room>>
           /\ rumour'.stirred = rumour.stirred /\ rumour'.early = rumour.early
           /\ Looking' => Looking \/ Unlocked(room)
  BY <1>2, <1>3 DEF LookedInv, ReleaseNotEarly, Unlocked, releaseAt
<1>4. CASE EventStep
  <2>1. /\ UNCHANGED <<room, claim>> /\ rumour'.early = rumour.early
        /\ rumour'.stirred = (rumour.stirred \/ (event' # event /\ Stirred))
    BY <1>1, <1>4 DEF EventStep
  <2>2. Looking' <=> Looking
    BY <2>1
  <2>3. CASE event' # event
    BY <1>2, <2>1, <2>2, <2>3 DEF LookedInv, ReleaseNotEarly, Stirred
  <2>4. CASE event' = event
    <3>1. clock' \in {clock, clock + 1}
      BY <1>4 DEF EventStep, EventNext, Pass, MoveStart, EndEvent
    <3>2. releaseAt(room) \in Int /\ releaseAt(room)' = releaseAt(room)
      BY <1>1, <2>1, <2>4 DEF releaseAt
    <3>3. Unlocked(room) => Unlocked(room)'
      BY <1>1, <2>1, <2>4, <3>1, <3>2 DEF Unlocked
    <3>. QED
      BY <1>2, <2>1, <2>2, <2>4, <3>3 DEF LookedInv, ReleaseNotEarly
  <2>. QED
    BY <2>3, <2>4
<1>5. CASE \/ UNCHANGED <<event, clock, roomVars>> \/ RecallEnds
           \/ \E s \in Saver : BeginRoomSave(s)
  BY <1>3, <1>5 DEF roomVars, BeginRoomSave, RecallEnds, eventVars
<1>6. CASE Changed
  <2>1. /\ rumour'.stirred = (rumour.stirred \/ Stirred) /\ rumour'.early = rumour.early
        /\ Looking' => Stirred
    BY <1>1, <1>6 DEF Changed, Stirred
  <2>. QED
    BY <1>2, <2>1 DEF LookedInv, ReleaseNotEarly
<1>7. ASSUME NEW x \in Claimer, Look(x) PROVE LookedInv'
  BY <1>3, <1>7 DEF Look, Releasable, eventVars
<1>8. ASSUME NEW x \in Claimer, claimRoomRelease(x) PROVE LookedInv'
  <2>1. claim[x].stage = "looked" /\ UNCHANGED <<event, clock>>
    BY <1>8 DEF claimRoomRelease, eventVars
  <2>2. Unlocked(room) \/ rumour.stirred
    BY <1>2, <2>1
  <2>3. CASE Claimable
    <3>1. /\ room' = [room EXCEPT !.released = TRUE]
          /\ rumour' = [rumour EXCEPT !.early = @ \/ ~Unlocked(room)]
      BY <1>8, <2>3 DEF claimRoomRelease
    <3>2. /\ rumour'.stirred = rumour.stirred
          /\ rumour'.early = (rumour.early \/ ~Unlocked(room))
      BY <1>1, <3>1
    <3>3. Unlocked(room)' <=> Unlocked(room)
      BY <1>1, <2>1, <3>1 DEF Unlocked, releaseAt, RoomRow
    <3>. QED
      BY <1>2, <2>2, <3>2, <3>3 DEF LookedInv, ReleaseNotEarly
  <2>4. CASE ~Claimable
    BY <1>3, <1>8, <2>1, <2>4 DEF claimRoomRelease
  <2>. QED
    BY <2>3, <2>4
<1>9. ASSUME NEW x \in Claimer, Announce(x) \/ ClaimLost(x) PROVE LookedInv'
  <2>1. /\ claim' = [claim EXCEPT ![x] = NotClaiming] /\ UNCHANGED <<event, clock, room>>
        /\ rumour'.stirred = rumour.stirred /\ rumour'.early = rumour.early
    BY <1>1, <1>9 DEF Announce, ClaimLost, eventVars
  <2>2. Looking' => Looking
    BY <1>1, <2>1 DEF NotClaiming
  <2>. QED
    BY <1>3, <2>1, <2>2
<1>. QED
  BY RoomSteps, ChangesTheRoom, <1>4, <1>5, <1>6, <1>7, <1>8, <1>9 DEF RoomStep

-----------------------------------------------------------------------------
(***************************************************************************)
(* The theorems.                                                           *)
(***************************************************************************)
LEMMA DayStarts ==
    ASSUME DayInit
    PROVE  DayInv
<1>. USE DEF DayInit, EventInit, CheckInInit, RoomInit
<1>1. EventTypeOK
  BY DayFacts DEF EventTypeOK, EventRow, SeatRow
<1>2. CheckInTypeOK
  <2>1. IdlePass \in PassRow
    BY DayFacts, FS_CardinalityType DEF IdlePass, PassRow
  <2>. QED
    BY DayFacts, <2>1 DEF CheckInTypeOK
<1>3. RoomTypeOK
  BY DayFacts DEF RoomTypeOK, NoRoom, RoomRow, NotClaiming
<1>4. DayTypeOK
  <2>1. job \in [Worker -> {"idle", "tell", "absent", "rooms"}]
    OBVIOUS
  <2>2. notified \in BOOLEAN /\ reminded \in Nat
    OBVIOUS
  <2>3. crashes \in 0..MaxCrashes
    BY DayFacts
  <2>. QED
    BY <1>1, <1>2, <1>3, <2>1, <2>2, <2>3 DEF DayTypeOK
<1>5. SeatsFollowEvent
  BY <1>1 DEF EventTypeOK, EventRow, SeatsFollowEvent
<1>6. AttendanceInv
  BY DEF AttendanceInv, ReadHolds, MarkedHolds, AuditsFollowMarks, IdlePass
<1>7. ReminderInv
  BY DEF ReminderInv, At
<1>8. ArmingsInv
  BY DEF ArmingsInv, ClaimedOf, NotClaiming, NoRoom
<1>9. LookedInv
  BY DEF LookedInv, ReleaseNotEarly, NotClaiming
<1>. QED
  BY <1>4, <1>5, <1>6, <1>7, <1>8, <1>9 DEF DayInv

LEMMA DayInvKept ==
    ASSUME DayInv, [DayNext]_dayVars
    PROVE  DayInv'
  BY DayTypesKept, SeatsKept, AttendanceKept, ReminderKept, ArmingsKept, LookedKept
     DEF DayInv

(* Every behaviour of the day keeps the invariant: what each pass of the   *)
(* scheduler has read and marked, who may announce which version of the    *)
(* room, and what was looked at.  Fairness is not needed.                  *)
THEOREM DayInductive == DaySpec => []DayInv
<1>1. DayInit => DayInv
  BY DayStarts
<1>2. DayInv /\ [DayNext]_dayVars => DayInv'
  BY DayInvKept
<1>. QED
  BY <1>1, <1>2, PTL DEF DaySpec

(* checkin.service.ts:223, as long as no seat changes between the read and *)
(* the mark of a pass, the audit rows name exactly the players marked      *)
(* absent, each once, however many processes run the scheduler; only a     *)
(* failure or a restart loses a row.                                       *)
THEOREM DayAudits == DaySpec => []AuditsNameTheAbsent
<1>1. DayInv => AuditsNameTheAbsent
  BY DEF DayInv, AttendanceInv, AuditsFollowMarks, Waiting, AuditsNameTheAbsent
<1>. QED
  BY <1>1, DayInductive, PTL

(* room.service.ts:410, the start of a match and each version of the room  *)
(* are told once, whoever of the pages and the processes claims them, and  *)
(* a version that a switch brought back at most once more, by the switch;  *)
(* what was released is told to whom holds a seat, without a failure.      *)
THEOREM DayToldOnce == DaySpec => []ToldOnce
<1>1. DayInv => ToldOnce
  <2>. SUFFICES ASSUME DayInv PROVE ToldOnce
    OBVIOUS
  <2>1. announced \in [0..MaxArmings -> Nat] /\ arming \in 0..MaxArmings
    BY DEF DayInv, DayTypeOK, RoomTypeOK
  <2>2. reminded <= 1
    BY DEF DayInv, ReminderInv
  <2>3. ASSUME NEW n \in 0..MaxArmings
        PROVE  Told(n) <= IF recall[n] = "none" THEN 1 ELSE 2
    <3>1. announced[n] \in {0, 1}
      BY DEF DayInv, ArmingsInv
    <3>. QED
      BY <3>1 DEF Told
  <2>4. (\A x \in Claimer : claim[x].stage # "claimed") => ClaimedOf(arming) = {}
    BY DEF ClaimedOf
  <2>. QED
    BY <2>2, <2>3, <2>4 DEF DayInv, ArmingsInv, ToldOnce
<1>. QED
  BY <1>1, DayInductive, PTL

(* schema.prisma:708, the room is marked as released while it is locked    *)
(* only when somebody changed it, or the event, after a claimer looked.    *)
THEOREM DayReleaseNotEarly == DaySpec => []ReleaseNotEarly
<1>1. DayInv => ReleaseNotEarly
  BY DEF DayInv, LookedInv
<1>. QED
  BY <1>1, DayInductive, PTL

(* room.service.ts:403, however many saves of the room are under way, and  *)
(* however stale, a cancelled room comes back only by its re-activation.   *)
THEOREM DayCancelHolds == DaySpec => CancelHolds
<1>1. ASSUME DayInv, [DayNext]_dayVars, room.cancelled, ~room'.cancelled
      PROVE  setRoomStatus("REACTIVATE")
  <2>1. room \in RoomRow
    BY <1>1 DEF DayInv, DayTypeOK, RoomTypeOK
  <2>2. ASSUME NEW s \in Saver, setTournamentRoom(s) PROVE room'.cancelled = room.cancelled
    <3>1. PICK pin \in Pins \union {save[s].seen.pin, Unset}, hidden \in BOOLEAN,
               changed \in BOOLEAN : room' = Saved(save[s].seen, pin, hidden, changed)
      BY <2>2 DEF setTournamentRoom
    <3>. QED
      BY <2>1, <3>1 DEF Saved, RoomRow
  <2>3. ASSUME NEW x \in Claimer, claimRoomRelease(x) PROVE room'.cancelled = room.cancelled
    BY <2>1, <2>3 DEF claimRoomRelease, RoomRow
  <2>4. PICK op \in RoomOps : setRoomStatus(op)
    <3>1. DayTypeOK
      BY <1>1 DEF DayInv
    <3>2. room' # room
      BY <1>1
    <3>. QED
      BY <1>1, <2>2, <2>3, <3>1, <3>2, RoomSteps
         DEF RoomStep, roomVars, EventStep, BeginRoomSave, Look, Announce, ClaimLost, RecallEnds
  <2>5. op \in {"HIDE", "SHOW", "CANCEL", "REACTIVATE"}
    BY RoomAssumption
  <2>6. op = "REACTIVATE"
    BY <1>1, <2>1, <2>4, <2>5 DEF setRoomStatus, Switched, RoomRow
  <2>. QED
    BY <2>4, <2>6
<1>2. DayInv /\ [DayNext]_dayVars
         => [room.cancelled /\ ~room'.cancelled => setRoomStatus("REACTIVATE")]_dayVars
  BY <1>1
<1>. QED
  BY <1>2, DayInductive, PTL DEF DaySpec, CancelHolds

-----------------------------------------------------------------------------
(***************************************************************************)
(* Sums.  Points, kills and shares are added up with a fold over a set.    *)
(* Its value is the number of units the elements stand for, so that what   *)
(* cardinals are known to do carries over to sums.                         *)
(***************************************************************************)

\* The pairs of an element and one of its units.
Units(f, S) == UNION {{x} \X (1..f[x]) : x \in S}

IsSums(g, f, S) ==
    g = [s \in SUBSET S |->
            IF s = {} THEN 0
            ELSE f[CHOOSE x \in s : TRUE] + g[s \ {CHOOSE x \in s : TRUE}]]

Counts(f, S) == \A x \in S : f[x] \in Nat

\* The fold is the recursive function that takes one chosen element at a time.
LEMMA SumDef ==
    ASSUME NEW f, NEW S
    PROVE  SumFunctionOnSet(f, S) = (CHOOSE g : IsSums(g, f, S))[S]
  BY DEF SumFunctionOnSet, FoldFunctionOnSet, MapThenFoldSet, IsSums

\* Finitely many rows have finitely many units, and a row brings its own.
LEMMA UnitsAdd ==
    ASSUME NEW f, NEW S, IsFiniteSet(S), Counts(f, S), NEW x, x \notin S, f[x] \in Nat,
           IsFiniteSet(Units(f, S))
    PROVE  /\ IsFiniteSet(Units(f, S \union {x}))
           /\ Cardinality(Units(f, S \union {x})) = Cardinality(Units(f, S)) + f[x]
<1>. DEFINE own == {x} \X (1..f[x])
<1>1. Units(f, S \union {x}) = Units(f, S) \union own
  BY DEF Units
<1>2. Units(f, S) \intersect own = {}
  BY DEF Units
<1>3. IsFiniteSet(1..f[x]) /\ Cardinality(1..f[x]) = f[x]
  <2>1. PICK n \in Nat : n = f[x]
    OBVIOUS
  <2>2. IsFiniteSet(1..n) /\ Cardinality(1..n) = IF 1 > n THEN 0 ELSE n - 1 + 1
    <3>1. 1 \in Int /\ n \in Int
      OBVIOUS
    <3>. QED
      BY <3>1, FS_Interval
  <2>3. Cardinality(1..n) = n
    BY <2>2
  <2>. QED
    BY <2>1, <2>2, <2>3
<1>4. IsFiniteSet({x}) /\ Cardinality({x}) = 1
  BY FS_Singleton
<1>5. IsFiniteSet(own) /\ Cardinality(own) = f[x]
  <2>1. Cardinality(own) = Cardinality({x}) * Cardinality(1..f[x]) /\ IsFiniteSet(own)
    BY <1>3, <1>4, FS_Product
  <2>. QED
    BY <2>1, <1>3, <1>4
<1>. HIDE DEF own
<1>6. Cardinality(Units(f, S) \intersect own) = 0
  BY <1>2, FS_EmptySet
<1>7. Cardinality(Units(f, S)) \in Nat
  BY FS_CardinalityType
<1>8. /\ IsFiniteSet(Units(f, S) \union own)
      /\ Cardinality(Units(f, S) \union own) =
            Cardinality(Units(f, S)) + Cardinality(own) - Cardinality(Units(f, S) \intersect own)
  BY <1>5, FS_Union
<1>9. Cardinality(Units(f, S) \union own) = Cardinality(Units(f, S)) + f[x]
  <2>. DEFINE all == Cardinality(Units(f, S) \union own)
              old == Cardinality(Units(f, S))
              new == Cardinality(own)
              both == Cardinality(Units(f, S) \intersect own)
  <2>1. all = old + new - both
    BY <1>8
  <2>2. old \in Nat /\ new = f[x] /\ both = 0
    BY <1>5, <1>6, <1>7
  <2>. HIDE DEF all, old, new, both
  <2>3. all = old + f[x]
    BY <2>1, <2>2
  <2>. QED
    BY <2>3 DEF all, old
<1>. QED
  BY <1>1, <1>8, <1>9

LEMMA UnitsFinite ==
    ASSUME NEW f, NEW S, IsFiniteSet(S), Counts(f, S)
    PROVE  IsFiniteSet(Units(f, S))
<1>. DEFINE part == [r \in S |-> {r} \X (1..f[r])]
            parts == {part[r] : r \in S}
<1>1. part \in Surjection(S, parts)
  BY DEF Surjection
<1>2. IsFiniteSet(parts)
  BY <1>1, FS_Surjection
<1>3. \A T \in parts : IsFiniteSet(T)
  <2>. SUFFICES ASSUME NEW r \in S PROVE IsFiniteSet({r} \X (1..f[r]))
    OBVIOUS
  <2>1. IsFiniteSet(1..f[r])
    BY FS_Interval DEF Counts
  <2>2. IsFiniteSet({r})
    BY FS_Singleton
  <2>. QED
    BY <2>1, <2>2, FS_Product
<1>4. IsFiniteSet(UNION parts)
  BY <1>2, <1>3, FS_UNION
<1>. QED
  BY <1>4 DEF Units

\* The numbers of units satisfy the recursion of the fold.
LEMMA UnitsAreSums ==
    ASSUME NEW f, NEW S, IsFiniteSet(S), Counts(f, S)
    PROVE  IsSums([s \in SUBSET S |-> Cardinality(Units(f, s))], f, S)
<1>. DEFINE g == [s \in SUBSET S |-> Cardinality(Units(f, s))]
            c(s) == CHOOSE x \in s : TRUE
<1>1. ASSUME NEW s \in SUBSET S, s # {}
      PROVE  g[s] = f[c(s)] + g[s \ {c(s)}]
  <2>. DEFINE t == s \ {c(s)}
  <2>1. c(s) \in s
    BY <1>1
  <2>2. /\ s = t \union {c(s)} /\ c(s) \notin t /\ t \in SUBSET S
    BY <2>1
  <2>3. IsFiniteSet(t) /\ Counts(f, t) /\ f[c(s)] \in Nat
    BY <2>1, FS_Subset DEF Counts
  <2>. HIDE DEF t, c
  <2>4. IsFiniteSet(Units(f, t))
    BY <2>3, UnitsFinite
  <2>5. Cardinality(Units(f, t \union {c(s)})) = Cardinality(Units(f, t)) + f[c(s)]
    BY <2>2, <2>3, <2>4, UnitsAdd
  <2>6. Cardinality(Units(f, t)) \in Nat
    BY <2>4, FS_CardinalityType
  <2>7. g[s] = Cardinality(Units(f, s)) /\ g[t] = Cardinality(Units(f, t))
    BY <2>2
  <2>8. g[s] = f[c(s)] + g[t]
    <3>1. Cardinality(Units(f, s)) = Cardinality(Units(f, t)) + f[c(s)]
      BY <2>2, <2>5
    <3>2. g[s] = g[t] + f[c(s)]
      BY <3>1, <2>7
    <3>3. g[t] \in Nat
      BY <2>6, <2>7
    <3>. HIDE DEF g
    <3>. QED
      BY <3>2, <3>3, <2>3
  <2>. QED
    BY <2>8 DEF t
<1>2. g[{}] = 0
  BY FS_EmptySet DEF Units
<1>3. g = [s \in SUBSET S |-> IF s = {} THEN 0 ELSE f[c(s)] + g[s \ {c(s)}]]
  BY <1>1, <1>2
<1>. QED
  BY <1>3 DEF IsSums

\* The recursion has one solution: a smallest set on which two differ is one
\* on which they cannot.
LEMMA SumsAlike ==
    ASSUME NEW f, NEW S, IsFiniteSet(S), NEW g, NEW h, IsSums(g, f, S), IsSums(h, f, S)
    PROVE  g[S] = h[S]
<1>. SUFFICES ASSUME g[S] # h[S] PROVE FALSE
  OBVIOUS
<1>. DEFINE D == {s \in SUBSET S : g[s] # h[s]}
            c(s) == CHOOSE x \in s : TRUE
<1>1. D \subseteq FiniteSubsetsOf(S)
  BY FS_FiniteSubsetsOfFinite
<1>2. IsWellFoundedOn(StrictSubsetOrdering(S), FiniteSubsetsOf(S))
  BY FS_StrictSubsetOrderingWellFounded
<1>3. D # {}
  OBVIOUS
<1>4. PICK s \in D : \A t \in D : <<t, s>> \notin StrictSubsetOrdering(S)
  <2>. HIDE DEF D
  <2>. QED
    BY <1>1, <1>2, <1>3, WFMin
<1>5. s \in SUBSET S /\ g[s] # h[s]
  OBVIOUS
<1>6. /\ \A x \in SUBSET S : g[x] = IF x = {} THEN 0 ELSE f[c(x)] + g[x \ {c(x)}]
      /\ \A x \in SUBSET S : h[x] = IF x = {} THEN 0 ELSE f[c(x)] + h[x \ {c(x)}]
  BY DEF IsSums
<1>7. s # {}
  BY <1>5, <1>6
<1>. DEFINE t == s \ {c(s)}
<1>8. c(s) \in s
  BY <1>7
<1>9. t \in SUBSET S /\ t \subseteq s /\ t # s
  BY <1>5, <1>8
<1>10. g[s] = f[c(s)] + g[t] /\ h[s] = f[c(s)] + h[t]
  BY <1>5, <1>6, <1>7
<1>11. <<t, s>> \in StrictSubsetOrdering(S)
  BY <1>5, <1>9 DEF StrictSubsetOrdering
<1>12. g[t] = h[t]
  BY <1>4, <1>9, <1>11
<1>. QED
  BY <1>5, <1>10, <1>12

\* So a sum is a number of units.
LEMMA SumIsUnits ==
    ASSUME NEW f, NEW S, IsFiniteSet(S), Counts(f, S)
    PROVE  SumFunctionOnSet(f, S) = Cardinality(Units(f, S))
<1>. DEFINE g == [s \in SUBSET S |-> Cardinality(Units(f, s))]
            h == CHOOSE k : IsSums(k, f, S)
<1>1. IsSums(g, f, S)
  BY UnitsAreSums
<1>2. IsSums(h, f, S)
  BY <1>1
<1>3. g[S] = Cardinality(Units(f, S))
  OBVIOUS
<1>4. SumFunctionOnSet(f, S) = h[S]
  BY SumDef
<1>. HIDE DEF g, h
<1>5. g[S] = h[S]
  BY <1>1, <1>2, SumsAlike
<1>. QED
  BY <1>3, <1>4, <1>5

LEMMA SumIsNat ==
    ASSUME NEW f, NEW S, IsFiniteSet(S), Counts(f, S)
    PROVE  SumFunctionOnSet(f, S) \in Nat
  BY SumIsUnits, UnitsFinite, FS_CardinalityType

LEMMA SumOfNone ==
    ASSUME NEW f
    PROVE  SumFunctionOnSet(f, {}) = 0
<1>1. IsFiniteSet({}) /\ Counts(f, {}) /\ Units(f, {}) = {} /\ Cardinality({}) = 0
  BY FS_EmptySet DEF Counts, Units
<1>. QED
  BY <1>1, SumIsUnits

LEMMA SumAdds ==
    ASSUME NEW f, NEW S, IsFiniteSet(S), Counts(f, S), NEW x, x \notin S, f[x] \in Nat
    PROVE  SumFunctionOnSet(f, S \union {x}) = SumFunctionOnSet(f, S) + f[x]
<1>1. IsFiniteSet(Units(f, S)) /\ IsFiniteSet(S \union {x}) /\ Counts(f, S \union {x})
  BY UnitsFinite, FS_AddElement DEF Counts
<1>2. Cardinality(Units(f, S \union {x})) = Cardinality(Units(f, S)) + f[x]
  BY <1>1, UnitsAdd
<1>3. /\ SumFunctionOnSet(f, S \union {x}) = Cardinality(Units(f, S \union {x}))
      /\ SumFunctionOnSet(f, S) = Cardinality(Units(f, S))
  BY <1>1, SumIsUnits
<1>. QED
  BY <1>2, <1>3

\* Elements of S have their own elements of T, which weigh no less.
LEMMA SumInjects ==
    ASSUME NEW f, NEW S, NEW g, NEW T, NEW h \in [S -> T],
           IsFiniteSet(T), Counts(f, S), Counts(g, T),
           \A x, y \in S : h[x] = h[y] => x = y,
           \A x \in S : f[x] <= g[h[x]]
    PROVE  /\ IsFiniteSet(S)
           /\ SumFunctionOnSet(f, S) <= SumFunctionOnSet(g, T)
<1>1. IsFiniteSet(S)
  <2>1. h \in Injection(S, T)
    BY DEF Injection, IsInjective
  <2>. QED
    BY <2>1, FS_Injection
<1>. DEFINE k == [u \in Units(f, S) |-> <<h[u[1]], u[2]>>]
<1>2. \A u \in Units(f, S) : u[1] \in S /\ u[2] \in 1..f[u[1]] /\ u = <<u[1], u[2]>>
  BY DEF Units
<1>3. \A u \in Units(f, S) : <<h[u[1]], u[2]>> \in Units(g, T)
  <2>. SUFFICES ASSUME NEW u \in Units(f, S) PROVE <<h[u[1]], u[2]>> \in Units(g, T)
    OBVIOUS
  <2>1. h[u[1]] \in T /\ f[u[1]] \in Nat /\ g[h[u[1]]] \in Nat /\ f[u[1]] <= g[h[u[1]]]
    BY <1>2 DEF Counts
  <2>2. u[2] \in 1..g[h[u[1]]]
    BY <1>2, <2>1
  <2>. QED
    BY <2>1, <2>2 DEF Units
<1>4. k \in Injection(Units(f, S), Units(g, T))
  <2>1. k \in [Units(f, S) -> Units(g, T)]
    BY <1>3
  <2>2. ASSUME NEW u \in Units(f, S), NEW v \in Units(f, S), k[u] = k[v] PROVE u = v
    BY <1>2, <2>2
  <2>. QED
    BY <2>1, <2>2 DEF Injection, IsInjective
<1>. HIDE DEF k
<1>5. IsFiniteSet(Units(g, T)) /\ IsFiniteSet(Units(f, S))
  BY <1>1, UnitsFinite
<1>6. Cardinality(Units(f, S)) <= Cardinality(Units(g, T))
  BY <1>4, <1>5, FS_Injection
<1>. QED
  BY <1>1, <1>6, SumIsUnits

\* What holds of each pair of numbers in proportion holds of their sums: a
\* smallest set on which it fails loses an element and still fails.
LEMMA SumScales ==
    ASSUME NEW f, NEW g, NEW S, IsFiniteSet(S), Counts(f, S), Counts(g, S),
           NEW c \in Nat, NEW t \in Nat,
           \A x \in S : f[x] * t <= c * g[x]
    PROVE  SumFunctionOnSet(f, S) * t <= c * SumFunctionOnSet(g, S)
<1>. DEFINE Holds(s) == SumFunctionOnSet(f, s) * t <= c * SumFunctionOnSet(g, s)
            D == {s \in SUBSET S : ~Holds(s)}
<1>. SUFFICES ASSUME D # {} PROVE FALSE
  OBVIOUS
<1>1. D \subseteq FiniteSubsetsOf(S)
  BY FS_FiniteSubsetsOfFinite
<1>2. IsWellFoundedOn(StrictSubsetOrdering(S), FiniteSubsetsOf(S))
  BY FS_StrictSubsetOrderingWellFounded
<1>3. PICK s \in D : \A r \in D : <<r, s>> \notin StrictSubsetOrdering(S)
  <2>. HIDE DEF D
  <2>. QED
    BY <1>1, <1>2, WFMin
<1>4. s \in SUBSET S /\ ~Holds(s)
  OBVIOUS
<1>5. s # {}
  <2>1. Holds({})
    BY SumOfNone
  <2>. QED
    BY <1>4, <2>1
<1>6. PICK x \in s : TRUE
  BY <1>5
<1>. DEFINE r == s \ {x}
<1>7. r \in SUBSET S /\ x \notin r /\ s = r \union {x} /\ x \in S
  BY <1>4
<1>8. <<r, s>> \in StrictSubsetOrdering(S)
  BY <1>4, <1>7 DEF StrictSubsetOrdering
<1>9. Holds(r)
  <2>1. r \notin D
    BY <1>3, <1>8
  <2>. QED
    BY <2>1, <1>7
<1>. HIDE DEF r, D
<1>10. IsFiniteSet(r) /\ Counts(f, r) /\ Counts(g, r) /\ f[x] \in Nat /\ g[x] \in Nat
  BY <1>7, FS_Subset DEF Counts
<1>11. /\ SumFunctionOnSet(f, s) = SumFunctionOnSet(f, r) + f[x]
       /\ SumFunctionOnSet(g, s) = SumFunctionOnSet(g, r) + g[x]
       /\ SumFunctionOnSet(f, r) \in Nat /\ SumFunctionOnSet(g, r) \in Nat
  BY <1>7, <1>10, SumAdds, SumIsNat
<1>12. (SumFunctionOnSet(f, r) + f[x]) * t <= c * (SumFunctionOnSet(g, r) + g[x])
  <2>1. ASSUME NEW a \in Nat, NEW b \in Nat, NEW p \in Nat, NEW q \in Nat,
               a * t <= c * b, p * t <= c * q
        PROVE  (a + p) * t <= c * (b + q)
    <3>1. (a + p) * t = a * t + p * t /\ c * (b + q) = c * b + c * q
      OBVIOUS
    <3>2. a * t \in Int /\ p * t \in Int /\ c * b \in Int /\ c * q \in Int
      OBVIOUS
    <3>. QED
      BY <2>1, <3>1, <3>2
  <2>2. f[x] * t <= c * g[x]
    BY <1>7
  <2>. QED
    BY <1>9, <1>10, <1>11, <2>1, <2>2
<1>. QED
  BY <1>4, <1>11, <1>12

-----------------------------------------------------------------------------
(***************************************************************************)
(* Shares.                                                                 *)
(***************************************************************************)
LEMMA Division ==
    ASSUME NEW a \in Nat, NEW n \in Nat \ {0}
    PROVE  a \div n \in Nat /\ (a \div n) * n <= a
  OBVIOUS

LEMMA BlockSize ==
    ASSUME NEW S, IsFiniteSet(S), NEW n \in Nat
    PROVE  IsFiniteSet(S \X (1..n)) /\ Cardinality(S \X (1..n)) = Cardinality(S) * n
<1>1. IsFiniteSet(1..n) /\ Cardinality(1..n) = n
  <2>1. IsFiniteSet(1..n) /\ Cardinality(1..n) = IF 1 > n THEN 0 ELSE n - 1 + 1
    <3>1. 1 \in Int /\ n \in Int
      OBVIOUS
    <3>. QED
      BY <3>1, FS_Interval
  <2>. QED
    BY <2>1
<1>2. Cardinality(S \X (1..n)) = Cardinality(S) * Cardinality(1..n) /\ IsFiniteSet(S \X (1..n))
  BY <1>1, FS_Product
<1>. QED
  BY <1>1, <1>2

\* An amount is split without losing a unit.
LEMMA SharesAddUp ==
    ASSUME NEW amount \in Nat, NEW us \in SUBSET User, us # {}
    PROVE  /\ Shares(amount, us) \in [User -> Nat]
           /\ SumFunctionOnSet(Shares(amount, us), User) = amount
           /\ \A u \in User : Shares(amount, us)[u] > 0 => u \in us
<1>. DEFINE n == Cardinality(us)
            base == amount \div n
            last == CHOOSE u \in us : TRUE
            rest == amount - base * (n - 1)
            most == us \ {last}
            f == Shares(amount, us)
<1>1. IsFiniteSet(User) /\ IsFiniteSet(us) /\ n \in Nat \ {0}
  <2>1. IsFiniteSet(User)
    BY ResultAssumption
  <2>2. IsFiniteSet(us)
    BY <2>1, FS_Subset
  <2>3. n \in Nat /\ n # 0
    BY <2>2, FS_CardinalityType, FS_EmptySet
  <2>. QED
    BY <2>1, <2>2, <2>3
<1>2. last \in us
  OBVIOUS
<1>3. base \in Nat /\ base * n <= amount
  <2>. HIDE DEF n
  <2>. QED
    BY <1>1, Division
<1>. HIDE DEF n, base, last
<1>4. rest \in Nat /\ base * (n - 1) \in Nat /\ rest + base * (n - 1) = amount
  <2>1. base * (n - 1) = base * n - base /\ base * (n - 1) \in Int
    BY <1>1, <1>3
  <2>2. base * (n - 1) <= amount /\ base * (n - 1) >= 0
    <3>1. n - 1 \in Nat
      BY <1>1
    <3>2. base * (n - 1) >= 0
      BY <1>3, <3>1
    <3>. DEFINE p == base * (n - 1)
                q == base * n
    <3>3. p = q - base /\ p \in Int /\ q \in Int /\ q <= amount /\ base \in Nat
      BY <1>1, <1>3, <2>1
    <3>. HIDE DEF p, q
    <3>4. p <= amount
      BY <3>3
    <3>. QED
      BY <3>2, <3>4 DEF p
  <2>. QED
    BY <2>1, <2>2
<1>5. f = [u \in User |-> IF u \notin us THEN 0 ELSE IF u = last THEN rest ELSE base]
  BY DEF Shares, n, base, last
<1>. HIDE DEF rest, f
<1>6. Units(f, User) = (most \X (1..base)) \union ({last} \X (1..rest))
  <2>1. \A u \in User : f[u] = IF u \notin us THEN 0 ELSE IF u = last THEN rest ELSE base
    BY <1>5
  <2>2. ASSUME NEW z \in Units(f, User)
        PROVE  z \in (most \X (1..base)) \union ({last} \X (1..rest))
    <3>1. PICK u \in User : z \in {u} \X (1..f[u])
      BY <2>2 DEF Units
    <3>2. z = <<u, z[2]>> /\ z[2] \in 1..f[u]
      BY <3>1
    <3>3. u \in us
      <4>. SUFFICES ASSUME u \notin us PROVE FALSE
        OBVIOUS
      <4>1. f[u] = 0
        BY <2>1
      <4>. QED
        BY <3>2, <4>1
    <3>. QED
      BY <2>1, <3>2, <3>3
  <2>3. ASSUME NEW z \in most \X (1..base) PROVE z \in Units(f, User)
    <3>1. z[1] \in User /\ z \in {z[1]} \X (1..f[z[1]])
      BY <2>1, <2>3
    <3>. QED
      BY <3>1 DEF Units
  <2>4. ASSUME NEW z \in {last} \X (1..rest) PROVE z \in Units(f, User)
    <3>1. last \in User /\ z \in {last} \X (1..f[last])
      BY <1>2, <2>1, <2>4
    <3>. QED
      BY <3>1 DEF Units
  <2>. QED
    BY <2>2, <2>3, <2>4
<1>7. (most \X (1..base)) \intersect ({last} \X (1..rest)) = {}
  OBVIOUS
<1>8. /\ IsFiniteSet(most) /\ Cardinality(most) = n - 1
      /\ IsFiniteSet({last}) /\ Cardinality({last}) = 1
  BY <1>1, <1>2, FS_RemoveElement, FS_Singleton DEF n
<1>9. /\ IsFiniteSet(most \X (1..base)) /\ Cardinality(most \X (1..base)) = (n - 1) * base
      /\ IsFiniteSet({last} \X (1..rest)) /\ Cardinality({last} \X (1..rest)) = rest
  <2>1. IsFiniteSet(most \X (1..base)) /\ Cardinality(most \X (1..base)) = (n - 1) * base
    BY <1>3, <1>8, BlockSize
  <2>2. /\ IsFiniteSet({last} \X (1..rest))
        /\ Cardinality({last} \X (1..rest)) = 1 * rest
    BY <1>4, <1>8, BlockSize
  <2>. QED
    BY <1>4, <2>1, <2>2
<1>10. Cardinality(Units(f, User)) = amount
  <2>. DEFINE A == most \X (1..base)
              B == {last} \X (1..rest)
  <2>1. Cardinality(A \intersect B) = 0
    BY <1>7, FS_EmptySet
  <2>2. /\ Cardinality(A) = (n - 1) * base /\ Cardinality(B) = rest
        /\ IsFiniteSet(A) /\ IsFiniteSet(B)
    BY <1>9
  <2>3. Units(f, User) = A \union B
    BY <1>6
  <2>. HIDE DEF A, B
  <2>4. Cardinality(A \union B) = Cardinality(A) + Cardinality(B) - Cardinality(A \intersect B)
    BY <2>2, FS_Union
  <2>5. (n - 1) * base = base * (n - 1)
    BY <1>1, <1>3
  <2>6. Cardinality(A \union B) = (n - 1) * base + rest
    BY <1>4, <2>1, <2>2, <2>4, <2>5
  <2>. QED
    BY <1>4, <2>3, <2>5, <2>6
<1>11. f \in [User -> Nat] /\ Counts(f, User)
  BY <1>3, <1>4, <1>5 DEF Counts
<1>12. SumFunctionOnSet(f, User) = amount
  BY <1>1, <1>10, <1>11, SumIsUnits
<1>13. \A u \in User : f[u] > 0 => u \in us
  BY <1>5
<1>. QED
  BY <1>11, <1>12, <1>13 DEF f

-----------------------------------------------------------------------------
(***************************************************************************)
(* Types of what is computed.                                              *)
(***************************************************************************)
LEMMA ResultFacts ==
    /\ IsFiniteSet(User) /\ IsFiniteSet(Entry) /\ IsFiniteSet(Match)
    /\ Prizes \in Seq(Prize) /\ DOMAIN Prizes = 1..Len(Prizes) /\ Len(Prizes) \in 1..20
    /\ DOMAIN Prizes \subseteq 1..20
    /\ \A i \in DOMAIN Prizes : Prizes[i] \in Prize
    /\ Key \in [Entry -> Nat] /\ \A e, f \in Entry : Key[e] = Key[f] => e = f
<1>1. Prizes \in Seq(Prize) /\ Len(Prizes) \in 1..20
  BY ResultAssumption
<1>2. DOMAIN Prizes = 1..Len(Prizes) /\ \A i \in DOMAIN Prizes : Prizes[i] \in Prize
  <2>1. \A T, q : q \in Seq(T) => DOMAIN q = 1..Len(q) /\ \A i \in 1..Len(q) : q[i] \in T
    OBVIOUS
  <2>. QED
    BY <1>1, <2>1
<1>3. 1..Len(Prizes) \subseteq 1..20
  <2>1. PICK n \in 1..20 : n = Len(Prizes)
    BY <1>1
  <2>2. 1..n \subseteq 1..20
    OBVIOUS
  <2>. QED
    BY <2>1, <2>2
<1>. QED
  BY <1>1, <1>2, <1>3, ResultAssumption

LEMMA MaxOfTwo ==
    ASSUME NEW x \in Int
    PROVE  Max({0, x}) \in Nat
<1>. DEFINE m == IF x > 0 THEN x ELSE 0
<1>1. m \in {0, x} /\ \A y \in {0, x} : m >= y
  OBVIOUS
<1>2. Max({0, x}) \in {0, x} /\ \A y \in {0, x} : Max({0, x}) >= y
  BY <1>1 DEF Max
<1>. QED
  BY <1>2

LEMMA ProductIsNat ==
    ASSUME NEW a \in Nat, NEW b \in Nat
    PROVE  a * b \in Nat
  OBVIOUS

LEMMA PointsTyped ==
    ASSUME NEW placement \in Nat, NEW kills \in Nat, NEW f \in Formula
    PROVE  pointsFor(placement, kills, f) \in Nat
<1>1. placementPointsFor(placement, f) \in Nat
  BY DEF placementPointsFor, Formula
<1>2. kills * f.perKill \in Nat
  BY ProductIsNat DEF Formula
<1>. QED
  BY <1>1, <1>2 DEF pointsFor

LEMMA ScoreTyped ==
    ASSUME NEW placement \in Nat, NEW kills \in Nat, NEW adj \in Int, NEW f \in Formula
    PROVE  finalScoreFor(placement, kills, adj, f) \in Nat
<1>1. pointsFor(placement, kills, f) + adj \in Int
  BY PointsTyped
<1>. QED
  BY <1>1, MaxOfTwo DEF finalScoreFor

LEMMA TotalsAreNat ==
    ASSUME ResultTypeOK, NEW e \in Entry
    PROVE  Points(e) \in Nat /\ Kills(e) \in Nat
<1>1. IsFiniteSet(Played(e))
  <2>1. Played(e) \subseteq Match
    BY DEF Played
  <2>. QED
    BY <2>1, ResultFacts, FS_Subset
<1>2. \A m \in Match : rows[m][e].points \in Nat /\ rows[m][e].kills \in Nat
  BY DEF ResultTypeOK, Row
<1>3. /\ Counts([m \in Match |-> rows[m][e].points], Played(e))
      /\ Counts([m \in Match |-> rows[m][e].kills], Played(e))
  BY <1>2 DEF Counts, Played
<1>. QED
  BY <1>1, <1>3, SumIsNat DEF Points, Kills

-----------------------------------------------------------------------------
(***************************************************************************)
(* Ranks.                                                                  *)
(***************************************************************************)
LEMMA FewerBefore ==
    ASSUME NEW S, IsFiniteSet(S), NEW A \in SUBSET S, NEW B \in SUBSET S,
           A \subseteq B, NEW x \in B, x \notin A
    PROVE  /\ Cardinality(A) \in Nat /\ Cardinality(B) \in Nat
           /\ Cardinality(A) < Cardinality(B)
<1>1. IsFiniteSet(A) /\ IsFiniteSet(B)
  BY FS_Subset
<1>2. A # B
  OBVIOUS
<1>3. Cardinality(A) <= Cardinality(B) /\ (Cardinality(A) = Cardinality(B) => A = B)
  BY <1>1, FS_Subset
<1>. QED
  BY <1>1, <1>2, <1>3, FS_CardinalityType

LEMMA StandsOrder ==
    ASSUME ResultTypeOK
    PROVE  /\ \A a \in Entry : ~StandsBefore(a, a)
           /\ \A a, b, c \in Entry : StandsBefore(a, b) /\ StandsBefore(b, c) => StandsBefore(a, c)
           /\ \A a, b \in Entry : a # b => StandsBefore(a, b) \/ StandsBefore(b, a)
<1>1. \A a \in Entry : Points(a) \in Nat /\ Kills(a) \in Nat /\ Key[a] \in Nat
  BY TotalsAreNat, ResultFacts
<1>2. \A a \in Entry : ~StandsBefore(a, a)
  BY <1>1 DEF StandsBefore
<1>3. ASSUME NEW a \in Entry, NEW b \in Entry, NEW c \in Entry,
             StandsBefore(a, b), StandsBefore(b, c)
      PROVE  StandsBefore(a, c)
  BY <1>1, <1>3 DEF StandsBefore
<1>4. ASSUME NEW a \in Entry, NEW b \in Entry, a # b
      PROVE  StandsBefore(a, b) \/ StandsBefore(b, a)
  <2>1. Key[a] # Key[b]
    BY <1>4, ResultFacts
  <2>. QED
    BY <1>1, <2>1 DEF StandsBefore
<1>. QED
  BY <1>2, <1>3, <1>4

\* Two entries of a set do not have the same number of entries before them.
LEMMA StandingsDiffer ==
    ASSUME ResultTypeOK, NEW S \in SUBSET Entry, NEW e \in S, NEW f \in S,
           Cardinality({o \in S : StandsBefore(o, e)}) = Cardinality({o \in S : StandsBefore(o, f)})
    PROVE  e = f
<1>. DEFINE B(x) == {o \in S : StandsBefore(o, x)}
<1>1. IsFiniteSet(S)
  BY ResultFacts, FS_Subset
<1>2. ASSUME NEW x \in S, NEW y \in S, StandsBefore(x, y)
      PROVE  Cardinality(B(x)) # Cardinality(B(y))
  <2>1. B(x) \subseteq B(y) /\ x \in B(y) /\ x \notin B(x)
    BY <1>2, StandsOrder
  <2>2. B(x) \in SUBSET S /\ B(y) \in SUBSET S
    OBVIOUS
  <2>. HIDE DEF B
  <2>3. Cardinality(B(x)) < Cardinality(B(y)) /\ Cardinality(B(x)) \in Nat
    BY <1>1, <2>1, <2>2, FewerBefore
  <2>. QED
    BY <2>3
<1>. QED
  BY <1>2, StandsOrder

LEMMA ScoredOrder ==
    ASSUME ResultTypeOK, NEW m \in Match
    PROVE  /\ \A a \in Entry : ~ScoredBefore(m, a, a)
           /\ \A a, b, c \in Entry :
                 ScoredBefore(m, a, b) /\ ScoredBefore(m, b, c) => ScoredBefore(m, a, c)
           /\ \A a, b \in Entry : a # b => ScoredBefore(m, a, b) \/ ScoredBefore(m, b, a)
<1>1. \A a \in Entry : /\ rows[m][a].score \in Nat /\ rows[m][a].kills \in Nat
                       /\ rows[m][a].placement \in Nat /\ Key[a] \in Nat
  BY ResultFacts DEF ResultTypeOK, Row
<1>2. \A a \in Entry : ~ScoredBefore(m, a, a)
  BY <1>1 DEF ScoredBefore
<1>3. ASSUME NEW a \in Entry, NEW b \in Entry, NEW c \in Entry,
             ScoredBefore(m, a, b), ScoredBefore(m, b, c)
      PROVE  ScoredBefore(m, a, c)
  BY <1>1, <1>3 DEF ScoredBefore
<1>4. ASSUME NEW a \in Entry, NEW b \in Entry, a # b
      PROVE  ScoredBefore(m, a, b) \/ ScoredBefore(m, b, a)
  <2>1. Key[a] # Key[b]
    BY <1>4, ResultFacts
  <2>. QED
    BY <1>1, <2>1 DEF ScoredBefore
<1>. QED
  BY <1>2, <1>3, <1>4

LEMMA RanksDiffer ==
    ASSUME ResultTypeOK, NEW m \in Match, NEW S \in SUBSET Entry, NEW e \in S, NEW f \in S,
           rankByScore(m, S, e) = rankByScore(m, S, f)
    PROVE  e = f
<1>. DEFINE B(x) == {o \in S : ScoredBefore(m, o, x)}
<1>1. IsFiniteSet(S)
  BY ResultFacts, FS_Subset
<1>2. \A x \in S : Cardinality(B(x)) \in Nat
  <2>1. \A x \in S : IsFiniteSet(B(x))
    BY <1>1, FS_Subset
  <2>. QED
    BY <2>1, FS_CardinalityType
<1>3. ASSUME NEW x \in S, NEW y \in S, ScoredBefore(m, x, y)
      PROVE  Cardinality(B(x)) # Cardinality(B(y))
  <2>1. B(x) \subseteq B(y) /\ x \in B(y) /\ x \notin B(x)
    BY <1>3, ScoredOrder
  <2>2. B(x) \in SUBSET S /\ B(y) \in SUBSET S
    OBVIOUS
  <2>. HIDE DEF B
  <2>3. Cardinality(B(x)) < Cardinality(B(y)) /\ Cardinality(B(x)) \in Nat
    BY <1>1, <2>1, <2>2, FewerBefore
  <2>. QED
    BY <2>3
<1>4. Cardinality(B(e)) = Cardinality(B(f))
  <2>1. 1 + Cardinality(B(e)) = 1 + Cardinality(B(f))
    BY DEF rankByScore
  <2>. HIDE DEF B
  <2>. QED
    BY <1>2, <2>1
<1>. QED
  BY <1>3, <1>4, ScoredOrder

-----------------------------------------------------------------------------
(***************************************************************************)
(* Awards.                                                                 *)
(***************************************************************************)
\* Of two different awards for one position one comes before the other.
Comparable(S) ==
    \A v, w \in S : v.position = w.position => v = w \/ Earlier(v, w) \/ Earlier(w, v)

ForPlace(w) ==
    /\ w.prize \in PlacementPrizes /\ w.entry \in Ranked /\ Place(w.entry) = PrizeRank(w.prize)
    /\ w = [prize |-> w.prize, position |-> w.prize, entry |-> w.entry,
            amount |-> Prizes[w.prize].amount]

ForKills(w) ==
    /\ w.prize \in KillPools /\ w.entry \in Killers /\ KillShare(w.prize, w.entry) > 0
    /\ w = [prize |-> w.prize, position |-> KillPosition(w.entry), entry |-> w.entry,
            amount |-> KillShare(w.prize, w.entry)]

ForMvp(w) ==
    /\ w.prize \in MvpPrizes /\ w.entry \in Ranked /\ Place(w.entry) = 1
    /\ w = [prize |-> w.prize, position |-> 200, entry |-> w.entry,
            amount |-> Prizes[w.prize].amount]

LEMMA AwardForms ==
    ASSUME NEW w \in Awards
    PROVE  ForPlace(w) \/ ForKills(w) \/ ForMvp(w)
<1>1. CASE w \in PlacementAwards
  <2>1. PICK x \in PlacementPrizes \X Ranked :
            /\ Place(x[2]) = PrizeRank(x[1])
            /\ w = [prize |-> x[1], position |-> x[1], entry |-> x[2],
                    amount |-> Prizes[x[1]].amount]
    BY <1>1 DEF PlacementAwards
  <2>. QED
    BY <2>1 DEF ForPlace
<1>2. CASE w \in KillAwards
  <2>1. PICK x \in KillPools \X Killers :
            /\ KillShare(x[1], x[2]) > 0
            /\ w = [prize |-> x[1], position |-> KillPosition(x[2]), entry |-> x[2],
                    amount |-> KillShare(x[1], x[2])]
    BY <1>2 DEF KillAwards
  <2>. QED
    BY <2>1 DEF ForKills
<1>3. CASE w \in MvpAwards
  <2>1. PICK x \in MvpPrizes \X Ranked :
            /\ Place(x[2]) = 1
            /\ w = [prize |-> x[1], position |-> 200, entry |-> x[2],
                    amount |-> Prizes[x[1]].amount]
    BY <1>3 DEF MvpAwards
  <2>. QED
    BY <2>1 DEF ForMvp
<1>. QED
  BY <1>1, <1>2, <1>3 DEF Awards

LEMMA EntriesRanked ==
    /\ Ranked \in SUBSET Entry /\ Killers \in SUBSET Ranked
    /\ IsFiniteSet(Ranked) /\ IsFiniteSet(Killers)
<1>1. Ranked \in SUBSET Entry /\ Killers \in SUBSET Ranked
  BY DEF Ranked, Killers, Standing
<1>. QED
  BY <1>1, ResultFacts, FS_Subset

LEMMA PlacesDiffer ==
    ASSUME ResultTypeOK, NEW e \in Ranked, NEW f \in Ranked, Place(e) = Place(f)
    PROVE  e = f
<1>1. Cardinality({o \in Ranked : StandsBefore(o, e)}) \in Nat
      /\ Cardinality({o \in Ranked : StandsBefore(o, f)}) \in Nat
  BY EntriesRanked, FS_Subset, FS_CardinalityType
<1>2. Cardinality({o \in Ranked : StandsBefore(o, e)})
        = Cardinality({o \in Ranked : StandsBefore(o, f)})
  BY <1>1 DEF Place
<1>. QED
  BY <1>2, EntriesRanked, StandingsDiffer

LEMMA KillPositions ==
    ASSUME ResultTypeOK, NEW e \in Killers
    PROVE  /\ KillPosition(e) \in Nat /\ KillPosition(e) >= 100
           /\ \A f \in Killers : KillPosition(e) = KillPosition(f) => e = f
<1>1. \A f \in Killers : Cardinality({o \in Killers : StandsBefore(o, f)}) \in Nat
  BY EntriesRanked, FS_Subset, FS_CardinalityType
<1>2. KillPosition(e) \in Nat /\ KillPosition(e) >= 100
  BY <1>1 DEF KillPosition
<1>3. ASSUME NEW f \in Killers, KillPosition(e) = KillPosition(f) PROVE e = f
  <2>1. Cardinality({o \in Killers : StandsBefore(o, e)})
          = Cardinality({o \in Killers : StandsBefore(o, f)})
    BY <1>1, <1>3 DEF KillPosition
  <2>2. Killers \in SUBSET Entry
    BY EntriesRanked
  <2>. QED
    BY <2>1, <2>2, StandingsDiffer
<1>. QED
  BY <1>2, <1>3

LEMMA KillMoneyTypes ==
    ASSUME ResultTypeOK, NEW i \in KillPools
    PROVE  /\ \A e \in Killers : KillMoney(i, e) \in Nat
           /\ KillTotal(i) \in Nat
           /\ i \in DOMAIN Prizes /\ Prizes[i].cap \in Nat /\ Prizes[i].kind = "KILL_POOL"
<1>1. i \in DOMAIN Prizes /\ Prizes[i] \in Prize /\ Prizes[i].kind = "KILL_POOL"
  BY ResultFacts DEF KillPools
<1>2. Prizes[i].cap \in Nat /\ Prizes[i].perKill \in Nat
  BY <1>1 DEF Prize
<1>3. \A e \in Killers : KillMoney(i, e) \in Nat
  <2>. SUFFICES ASSUME NEW e \in Killers PROVE KillMoney(i, e) \in Nat
    OBVIOUS
  <2>1. Kills(e) \in Nat
    BY EntriesRanked, TotalsAreNat
  <2>. QED
    BY <1>2, <2>1, ProductIsNat DEF KillMoney
<1>4. KillTotal(i) \in Nat
  <2>1. Counts([e \in Killers |-> KillMoney(i, e)], Killers)
    BY <1>3 DEF Counts
  <2>. QED
    BY <2>1, EntriesRanked, SumIsNat DEF KillTotal
<1>. QED
  BY <1>1, <1>2, <1>3, <1>4

\* A share is what the money scaled by cap and total comes to, at most.
LEMMA KillShares ==
    ASSUME ResultTypeOK, NEW i \in KillPools, NEW e \in Killers
    PROVE  /\ KillShare(i, e) \in Nat
           /\ KillTotal(i) <= Prizes[i].cap => KillShare(i, e) = KillMoney(i, e)
           /\ KillTotal(i) > Prizes[i].cap =>
                 KillShare(i, e) * KillTotal(i) <= Prizes[i].cap * KillMoney(i, e)
<1>. DEFINE a == KillMoney(i, e)
            c == Prizes[i].cap
            t == KillTotal(i)
<1>1. a \in Nat /\ c \in Nat /\ t \in Nat
  BY KillMoneyTypes
<1>2. KillShare(i, e) = IF t > c THEN (a * c) \div t ELSE a
  BY DEF KillShare
<1>. HIDE DEF a, c, t
<1>3. CASE t > c
  <2>1. a * c \in Nat /\ t \in Nat \ {0} /\ a * c = c * a
    BY <1>1, <1>3, ProductIsNat
  <2>2. (a * c) \div t \in Nat /\ ((a * c) \div t) * t <= a * c
    BY <2>1, Division
  <2>. QED
    BY <1>1, <1>2, <1>3, <2>1, <2>2 DEF a, c, t
<1>4. CASE ~(t > c)
  BY <1>1, <1>2, <1>4 DEF a, c, t
<1>. QED
  BY <1>3, <1>4

LEMMA AwardsTyped ==
    ASSUME ResultTypeOK
    PROVE  Awards \subseteq Award
<1>. SUFFICES ASSUME NEW w \in Awards PROVE w \in Award
  OBVIOUS
<1>1. \A i \in DOMAIN Prizes : Prizes[i].amount \in Nat /\ i \in Nat
  BY ResultFacts DEF Prize
<1>2. CASE ForPlace(w)
  <2>1. w.prize \in DOMAIN Prizes /\ w.entry \in Entry
    BY <1>2, EntriesRanked DEF ForPlace, PlacementPrizes
  <2>. QED
    BY <1>1, <1>2, <2>1 DEF ForPlace, Award
<1>3. CASE ForKills(w)
  <2>1. w.prize \in DOMAIN Prizes /\ w.entry \in Entry
    BY <1>3, EntriesRanked DEF ForKills, KillPools
  <2>2. KillPosition(w.entry) \in Nat /\ KillShare(w.prize, w.entry) \in Nat
    BY <1>3, KillPositions, KillShares DEF ForKills
  <2>. QED
    BY <1>3, <2>1, <2>2 DEF ForKills, Award
<1>4. CASE ForMvp(w)
  <2>1. w.prize \in DOMAIN Prizes /\ w.entry \in Entry
    BY <1>4, EntriesRanked DEF ForMvp, MvpPrizes
  <2>. QED
    BY <1>1, <1>4, <2>1 DEF ForMvp, Award
<1>. QED
  BY <1>2, <1>3, <1>4, AwardForms

LEMMA AwardsComparable ==
    ASSUME ResultTypeOK
    PROVE  Comparable(Awards)
<1>. SUFFICES ASSUME NEW v \in Awards, NEW w \in Awards, v.position = w.position
              PROVE  v = w \/ Earlier(v, w) \/ Earlier(w, v)
  BY DEF Comparable
<1>. DEFINE kind(a) == Prizes[a.prize].kind
<1>1. v.prize \in 1..20 /\ w.prize \in 1..20
  BY AwardsTyped, ResultFacts DEF Award
<1>2. /\ ForPlace(v) => kind(v) = "PLACEMENT" /\ v.position \in 1..20
      /\ ForPlace(w) => kind(w) = "PLACEMENT" /\ w.position \in 1..20
  BY <1>1 DEF ForPlace, PlacementPrizes
<1>3. /\ ForKills(v) => kind(v) = "KILL_POOL" /\ v.position \in Nat /\ v.position >= 100
      /\ ForKills(w) => kind(w) = "KILL_POOL" /\ w.position \in Nat /\ w.position >= 100
  BY KillPositions DEF ForKills, KillPools
<1>4. /\ ForMvp(v) => kind(v) = "MVP" /\ v.position = 200
      /\ ForMvp(w) => kind(w) = "MVP" /\ w.position = 200
  BY DEF ForMvp, MvpPrizes
<1>5. /\ Earlier(v, w) <=> \/ kind(v) = "KILL_POOL" /\ kind(w) = "MVP"
                           \/ kind(v) = kind(w) /\ v.prize < w.prize
      /\ Earlier(w, v) <=> \/ kind(w) = "KILL_POOL" /\ kind(v) = "MVP"
                           \/ kind(w) = kind(v) /\ w.prize < v.prize
  BY DEF Earlier
<1>6. CASE ForPlace(v) /\ ForPlace(w)
  <2>1. v.prize = w.prize
    BY <1>6 DEF ForPlace
  <2>2. v.entry = w.entry
    BY <1>6, <2>1, PlacesDiffer DEF ForPlace
  <2>. QED
    BY <1>6, <2>1, <2>2 DEF ForPlace
<1>7. CASE ForKills(v) /\ ForKills(w) /\ v.prize = w.prize
  <2>1. KillPosition(v.entry) = KillPosition(w.entry)
    BY <1>7 DEF ForKills
  <2>2. v.entry = w.entry
    BY <1>7, <2>1, KillPositions DEF ForKills
  <2>. QED
    BY <1>7, <2>2 DEF ForKills
<1>8. CASE ForMvp(v) /\ ForMvp(w) /\ v.prize = w.prize
  <2>1. v.entry = w.entry
    BY <1>8, PlacesDiffer DEF ForMvp
  <2>. QED
    BY <1>8, <2>1 DEF ForMvp
<1>9. CASE kind(v) = kind(w) /\ v.prize # w.prize
  BY <1>1, <1>5, <1>9
<1>10. CASE kind(v) # kind(w)
  <2>. HIDE DEF kind
  <2>1. (ForPlace(v) \/ ForKills(v) \/ ForMvp(v)) /\ (ForPlace(w) \/ ForKills(w) \/ ForMvp(w))
    BY AwardForms
  <2>. QED
    BY <1>2, <1>3, <1>4, <1>5, <1>10, <2>1
<1>11. (ForPlace(v) \/ ForKills(v) \/ ForMvp(v)) /\ (ForPlace(w) \/ ForKills(w) \/ ForMvp(w))
  BY AwardForms
<1>. HIDE DEF kind
<1>. QED
  BY <1>2, <1>3, <1>4, <1>6, <1>7, <1>8, <1>9, <1>10, <1>11

\* Winners of a kill pool, one for each award, take no more than its cap.
LEMMA PoolWithinCap ==
    ASSUME ResultTypeOK, NEW i \in KillPools, NEW W,
           \A w \in W : w.award \in Awards /\ w.award.prize = i,
           \A w, v \in W : w.award = v.award => w = v
    PROVE  SumFunctionOnSet([w \in W |-> w.award.amount], W) <= Prizes[i].cap
<1>. DEFINE share == [e \in Killers |-> KillShare(i, e)]
            money == [e \in Killers |-> KillMoney(i, e)]
            paid == [w \in W |-> w.award.amount]
            of == [w \in W |-> w.award.entry]
            cap == Prizes[i].cap
            total == KillTotal(i)
<1>1. \A w \in W : ForKills(w.award)
  <2>. SUFFICES ASSUME NEW w \in W PROVE ForKills(w.award)
    OBVIOUS
  <2>1. ForPlace(w.award) \/ ForKills(w.award) \/ ForMvp(w.award)
    BY AwardForms
  <2>2. Prizes[w.award.prize].kind = "KILL_POOL"
    BY DEF KillPools
  <2>3. ~ForPlace(w.award) /\ ~ForMvp(w.award)
    BY <2>2 DEF ForPlace, ForMvp, PlacementPrizes, MvpPrizes
  <2>. QED
    BY <2>1, <2>3
<1>2. of \in [W -> Killers] /\ \A w \in W : paid[w] = share[of[w]]
  <2>. SUFFICES ASSUME NEW w \in W PROVE of[w] \in Killers /\ paid[w] = share[of[w]]
    OBVIOUS
  <2>1. /\ w.award.entry \in Killers /\ w.award.prize = i
        /\ w.award.amount = KillShare(w.award.prize, w.award.entry)
    <3>1. PICK a : a = w.award
      OBVIOUS
    <3>2. ForKills(a)
      BY <1>1, <3>1
    <3>3. a.entry \in Killers /\ a.amount = KillShare(a.prize, a.entry)
      BY <3>2 DEF ForKills
    <3>. QED
      BY <3>1, <3>3
  <2>. QED
    BY <2>1
<1>3. ASSUME NEW w \in W, NEW v \in W, of[w] = of[v] PROVE w = v
  <2>1. w.award = v.award
    BY <1>1, <1>3 DEF ForKills
  <2>. QED
    BY <2>1
<1>4. IsFiniteSet(Killers)
  BY EntriesRanked
<1>5. Counts(share, Killers) /\ Counts(money, Killers) /\ cap \in Nat /\ total \in Nat
  BY KillShares, KillMoneyTypes DEF Counts
<1>6. Counts(paid, W) /\ \A w \in W : paid[w] <= share[of[w]]
  <2>. HIDE DEF paid, of
  <2>. SUFFICES ASSUME NEW w \in W PROVE paid[w] \in Nat /\ paid[w] <= share[of[w]]
    BY DEF Counts
  <2>1. share[of[w]] \in Nat /\ paid[w] = share[of[w]]
    BY <1>2, <1>5 DEF Counts
  <2>. QED
    BY <2>1
<1>7. \A e \in Killers : /\ total <= cap => share[e] = money[e]
                         /\ total > cap => share[e] * total <= cap * money[e]
  BY KillShares
<1>8. total = SumFunctionOnSet(money, Killers)
  BY DEF KillTotal
<1>9. SumFunctionOnSet(share, Killers) <= cap
  <2>1. CASE total <= cap
    <3>1. share = money
      BY <1>7, <2>1
    <3>. HIDE DEF share, money, total, cap
    <3>. QED
      BY <1>5, <1>8, <2>1, <3>1
  <2>2. CASE total > cap
    <3>. HIDE DEF share, money, total, cap
    <3>1. SumFunctionOnSet(share, Killers) * total <= cap * total
      BY <1>4, <1>5, <1>7, <1>8, <2>2, SumScales
    <3>2. SumFunctionOnSet(share, Killers) \in Nat
      BY <1>4, <1>5, SumIsNat
    <3>3. ASSUME NEW a \in Nat, NEW b \in Nat, NEW t \in Nat, t > 0, a * t <= b * t
          PROVE  a <= b
      <4>. SUFFICES ASSUME a >= b + 1 PROVE FALSE
        OBVIOUS
      <4>1. a * t >= (b + 1) * t
        BY <3>3
      <4>2. (b + 1) * t = b * t + t /\ b * t \in Int
        OBVIOUS
      <4>. QED
        BY <3>3, <4>1, <4>2
    <3>. QED
      BY <1>5, <2>2, <3>1, <3>2, <3>3
  <2>. QED
    BY <1>5, <2>1, <2>2
<1>. HIDE DEF share, money, paid, of, cap
<1>10. SumFunctionOnSet(paid, W) <= SumFunctionOnSet(share, Killers) /\ IsFiniteSet(W)
  BY <1>2, <1>3, <1>4, <1>5, <1>6, SumInjects
<1>11. SumFunctionOnSet(paid, W) \in Nat /\ SumFunctionOnSet(share, Killers) \in Nat
  BY <1>4, <1>5, <1>6, <1>10, SumIsNat
<1>. QED
  BY <1>5, <1>9, <1>10, <1>11 DEF paid, cap

\* Of the awards for one position one is not skipped.
LEMMA OneTakesPosition ==
    ASSUME NEW S, Comparable(S), NEW v \in Unskipped(S), NEW w \in Unskipped(S),
           v.position = w.position
    PROVE  v = w
  BY DEF Comparable, Unskipped

-----------------------------------------------------------------------------
(***************************************************************************)
(* The invariant.                                                          *)
(***************************************************************************)
\* The rows that a confirmation ranked, and those that showed no prize then, show
\* different prizes, played or not, until the results are taken back.
PromisesInv ==
    \A m \in Match : matches[m].results \in {"CONFIRMED", "PUBLISHED"} =>
        \A e, f \in Entry \ passed[m] :
            rows[m][e].prize > 0 /\ rows[m][e].prize = rows[m][f].prize => e = f

\* What a distribution has read is what the standings say and, once it is paid,
\* what was paid.
StandingsInv ==
    ~late => /\ \A a \in Admin : dist[a].stage \in {"standings", "settle"} => dist[a].awards = Awards
             /\ winners # {} => {w.award : w \in winners} = Unskipped(Awards)

ResultInv ==
    /\ ResultTypeOK
    /\ PromisesInv
    /\ \A a \in Admin : Comparable(dist[a].awards)
    /\ StandingsInv
    /\ SettlementsReconcile
    /\ PaidRosterIsPaid

-----------------------------------------------------------------------------
(***************************************************************************)
(* Types.                                                                  *)
(***************************************************************************)
HistoryTyped == late' \in BOOLEAN /\ passed' \in [Match -> SUBSET Entry]

LEMMA RowTypes ==
    /\ NoRow \in Row /\ [NoRow EXCEPT !.status = "REGISTERED"] \in Row
    /\ \A m \in Match, e \in Entry : ResultTypeOK => rows[m][e] \in Row
    /\ \A m \in Match : ResultTypeOK /\ ~MatchFree(m) =>
          saving[m].entry \in Entry /\ saving[m].row \in Row
<1>1. NoRow \in Row /\ [NoRow EXCEPT !.status = "REGISTERED"] \in Row
  <2>1. NoRow \in Row
    BY DEF NoRow, Row
  <2>2. \A r \in Row : [r EXCEPT !.status = "REGISTERED"] \in Row
    BY DEF Row
  <2>. QED
    BY <2>1, <2>2
<1>2. \A m \in Match, e \in Entry : ResultTypeOK => rows[m][e] \in Row
  BY DEF ResultTypeOK
<1>3. \A m \in Match : ResultTypeOK /\ ~MatchFree(m) => saving[m] \in [entry : Entry, row : Row]
  BY DEF ResultTypeOK, MatchFree
<1>. QED
  BY <1>1, <1>2, <1>3

LEMMA SyncedTyped ==
    ASSUME ResultTypeOK, NEW m \in Match
    PROVE  Synced(m) \in [Match -> [Entry -> Row]]
<1>1. rows \in [Match -> [Entry -> Row]]
  BY DEF ResultTypeOK
<1>. DEFINE table == [e \in Entry |->
                IF regs[e] = "CONFIRMED" /\ rows[m][e].status = "NONE"
                THEN [NoRow EXCEPT !.status = "REGISTERED"] ELSE rows[m][e]]
<1>2. table \in [Entry -> Row]
  BY <1>1, RowTypes
<1>3. Synced(m) = [rows EXCEPT ![m] = table]
  BY DEF Synced
<1>. HIDE DEF table
<1>. QED
  BY <1>1, <1>2, <1>3

\* Types hold when the results of a match are set where no save holds it.
LEMMA MatchStepTyped ==
    ASSUME ResultTypeOK, NEW m \in Match, NEW r \in MatchRow, MatchFree(m),
           matches' = [matches EXCEPT ![m] = r],
           rows' \in [Match -> [Entry -> Row]], HistoryTyped,
           UNCHANGED <<tour, subs, regs, members, winners, saving, scoring, dist>>
    PROVE  ResultTypeOK'
<1>1. matches' \in [Match -> MatchRow] /\ saving' = saving
  BY DEF ResultTypeOK
<1>2. \A n \in Match : saving[n] # NoSave => matches'[n] = matches[n]
  BY DEF ResultTypeOK, MatchFree
<1>3. \A n \in Match : (~MatchFree(n))' => matches'[n].results \in {"DRAFT", "UNDER_REVIEW"}
  BY <1>1, <1>2 DEF ResultTypeOK, MatchFree
<1>. QED
  BY <1>1, <1>3 DEF ResultTypeOK, HistoryTyped

\* Types hold when only rows and submissions change.
LEMMA RowStepTyped ==
    ASSUME ResultTypeOK, NEW m \in Match, NEW e \in Entry, NEW r \in Row,
           rows' = [rows EXCEPT ![m][e] = r],
           subs' \in [Match -> [Submitter -> Submission]], HistoryTyped,
           UNCHANGED <<tour, matches, regs, members, winners, saving, scoring, dist>>
    PROVE  ResultTypeOK'
<1>1. rows' \in [Match -> [Entry -> Row]]
  BY DEF ResultTypeOK
<1>2. \A n \in Match : MatchFree(n)' <=> MatchFree(n)
  BY DEF MatchFree
<1>. QED
  BY <1>1, <1>2 DEF ResultTypeOK, HistoryTyped

LEMMA SavedRowTyped ==
    ASSUME NEW row \in Row, NEW sheet \in Sheets, NEW f \in Formulas,
           NEW status \in {"NONE", "REGISTERED", "PLAYED", "DISQUALIFIED"}
    PROVE  SavedRow(row, sheet, status, f) \in Row
<1>1. /\ sheet \in [placement : Nat, kills : Nat, adj : Int, absent : BOOLEAN,
                    prize : Nat \union {Kept}]
      /\ f \in Formula
  BY ResultAssumption
<1>2. /\ pointsFor(sheet.placement, sheet.kills, f) \in Nat
      /\ finalScoreFor(sheet.placement, sheet.kills, sheet.adj, f) \in Nat
  BY <1>1, PointsTyped, ScoreTyped
<1>. QED
  BY <1>1, <1>2 DEF SavedRow, Row, Kept

LEMMA ConfirmedRowTyped ==
    ASSUME ResultTypeOK, NEW m \in Match, NEW e \in Entry
    PROVE  ConfirmedRow(m, e) \in Row
<1>1. rows[m][e] \in Row /\ tour.formula \in Formula
  BY ResultAssumption DEF ResultTypeOK
<1>2. finalScoreFor(rows[m][e].placement, rows[m][e].kills, rows[m][e].adj, tour.formula) \in Nat
  BY <1>1, PointsTyped, ScoreTyped DEF Row
<1>3. \A rank \in PlacementPrizes : rank \in Nat
  BY ResultFacts DEF PlacementPrizes
<1>4. (IF rankByScore(m, RankedRows(m), e) \in PlacementPrizes
       THEN rankByScore(m, RankedRows(m), e) ELSE 0) \in Nat
  BY <1>3
<1>. QED
  BY <1>1, <1>2, <1>4 DEF ConfirmedRow, Row

LEMMA MatchTypesKept ==
    ASSUME ResultTypeOK, NEW m \in Match, MatchStep(m), HistoryTyped
    PROVE  ResultTypeOK'
<1>0. /\ matches[m] \in MatchRow /\ rows \in [Match -> [Entry -> Row]]
      /\ matches \in [Match -> MatchRow] /\ saving \in [Match -> [entry : Entry, row : Row] \union {NoSave}]
  BY DEF ResultTypeOK
<1>1. CASE createMatch(m)
  <2>1. /\ matches' = [matches EXCEPT ![m] =
               [status |-> "SCHEDULED", results |-> "DRAFT", finalized |-> FALSE]]
        /\ rows' \in [Match -> [Entry -> Row]]
        /\ UNCHANGED <<tour, subs, regs, members, winners, saving, scoring, dist>>
    BY <1>0, <1>1, SyncedTyped DEF createMatch
  <2>2. [status |-> "SCHEDULED", results |-> "DRAFT", finalized |-> FALSE] \in MatchRow
    BY DEF MatchRow
  <2>3. \A n \in Match : (~MatchFree(n))' => matches'[n].results \in {"DRAFT", "UNDER_REVIEW"}
    BY <2>1 DEF ResultTypeOK, MatchFree
  <2>4. matches' \in [Match -> MatchRow]
    BY <1>0, <2>1, <2>2
  <2>. QED
    BY <2>1, <2>3, <2>4 DEF ResultTypeOK, HistoryTyped
<1>2. ASSUME NEW status \in {"LIVE", "COMPLETED", "CANCELLED"}, setMatchStatus(m, status)
      PROVE  ResultTypeOK'
  <2>1. /\ matches' = [matches EXCEPT ![m] = [matches[m] EXCEPT !.status = status]]
        /\ MatchFree(m)
        /\ UNCHANGED <<tour, subs, regs, members, winners, saving, scoring, dist>>
    BY <1>2 DEF setMatchStatus
  <2>2. rows' \in [Match -> [Entry -> Row]]
    BY <1>0, <1>2, SyncedTyped DEF setMatchStatus
  <2>3. [matches[m] EXCEPT !.status = status] \in MatchRow
    BY <1>0 DEF MatchRow
  <2>. QED
    BY <2>1, <2>2, <2>3, MatchStepTyped
<1>3. ASSUME NEW e \in Entry, NEW sheet \in Sheets,
             NEW status \in {"REGISTERED", "PLAYED", "DISQUALIFIED"},
             BeginSave(m, e, sheet, status)
      PROVE  ResultTypeOK'
  <2>. DEFINE new == [entry |-> e, row |-> SavedRow(rows[m][e], sheet, status, tour.formula)]
  <2>1. SavedRow(rows[m][e], sheet, status, tour.formula) \in Row
    <3>1. rows[m][e] \in Row /\ tour.formula \in Formulas
      BY DEF ResultTypeOK
    <3>. QED
      BY <3>1, SavedRowTyped
  <2>2. new \in [entry : Entry, row : Row]
    BY <2>1
  <2>3. /\ saving' = [saving EXCEPT ![m] = new] /\ matches[m].results \in {"DRAFT", "UNDER_REVIEW"}
        /\ UNCHANGED <<tour, matches, rows, subs, regs, members, winners, scoring, dist>>
    BY <1>3 DEF BeginSave
  <2>. HIDE DEF new
  <2>4. saving' \in [Match -> [entry : Entry, row : Row] \union {NoSave}]
    BY <1>0, <2>2, <2>3
  <2>5. \A n \in Match : (~MatchFree(n))' => matches'[n].results \in {"DRAFT", "UNDER_REVIEW"}
    BY <1>0, <2>3 DEF ResultTypeOK, MatchFree
  <2>. QED
    BY <2>3, <2>4, <2>5 DEF ResultTypeOK, HistoryTyped
<1>4. CASE EndSave(m)
  <2>1. /\ rows' = [rows EXCEPT ![m][saving[m].entry] = saving[m].row]
        /\ saving' = [saving EXCEPT ![m] = NoSave]
        /\ UNCHANGED <<tour, matches, subs, regs, members, winners, scoring, dist>>
    BY <1>4 DEF EndSave
  <2>2. saving[m].entry \in Entry /\ saving[m].row \in Row
    BY <1>4, RowTypes DEF EndSave
  <2>3. rows' \in [Match -> [Entry -> Row]]
    BY <1>0, <2>1, <2>2
  <2>4. saving' \in [Match -> [entry : Entry, row : Row] \union {NoSave}]
    BY <1>0, <2>1
  <2>5. \A n \in Match : (~MatchFree(n))' => matches'[n].results \in {"DRAFT", "UNDER_REVIEW"}
    BY <1>0, <2>1 DEF ResultTypeOK, MatchFree
  <2>. QED
    BY <2>1, <2>3, <2>4, <2>5 DEF ResultTypeOK, HistoryTyped
<1>5. ASSUME NEW status \in {"DRAFT", "UNDER_REVIEW", "PUBLISHED"}, setResultsStatus(m, status)
      PROVE  ResultTypeOK'
  <2>. DEFINE new == [matches[m] EXCEPT !.results = status, !.finalized = (status = "PUBLISHED")]
  <2>1. /\ matches' = [matches EXCEPT ![m] = new]
        /\ MatchFree(m) /\ rows' = rows
        /\ UNCHANGED <<tour, subs, regs, members, winners, saving, scoring, dist>>
    BY <1>0, <1>5 DEF setResultsStatus
  <2>2. new \in MatchRow
    BY <1>0 DEF MatchRow
  <2>. HIDE DEF new
  <2>. QED
    BY <1>0, <2>1, <2>2, MatchStepTyped
<1>6. CASE confirmStandings(m)
  <2>. DEFINE new == [matches[m] EXCEPT !.results = "CONFIRMED"]
              table == [e \in Entry |-> IF e \in PlayedRows(m) THEN ConfirmedRow(m, e)
                                        ELSE rows[m][e]]
  <2>1. /\ matches' = [matches EXCEPT ![m] = new]
        /\ MatchFree(m) /\ rows' = [rows EXCEPT ![m] = table]
        /\ UNCHANGED <<tour, subs, regs, members, winners, saving, scoring, dist>>
    BY <1>6 DEF confirmStandings
  <2>2. new \in MatchRow
    BY <1>0 DEF MatchRow
  <2>3. table \in [Entry -> Row]
    BY <1>0, ConfirmedRowTyped
  <2>. HIDE DEF new, table
  <2>4. rows' \in [Match -> [Entry -> Row]]
    BY <1>0, <2>1, <2>3
  <2>. QED
    BY <2>1, <2>2, <2>4, MatchStepTyped
<1>7. ASSUME NEW e \in Entry, NEW absent \in BOOLEAN,
             NEW status \in {"REGISTERED", "PLAYED", "DISQUALIFIED"},
             setParticipantState(m, e, status, absent)
      PROVE  ResultTypeOK'
  <2>. DEFINE new == [rows[m][e] EXCEPT !.status = status, !.absent = absent]
  <2>1. rows[m][e] \in Row
    BY <1>0
  <2>2. new \in Row
    BY <2>1 DEF Row
  <2>3. rows' = [rows EXCEPT ![m][e] = new]
    BY <1>0, <1>7 DEF setParticipantState, Row
  <2>4. /\ subs' \in [Match -> [Submitter -> Submission]]
        /\ UNCHANGED <<tour, matches, regs, members, winners, saving, scoring, dist>>
    BY <1>7 DEF setParticipantState, ResultTypeOK
  <2>. HIDE DEF new
  <2>. QED
    BY <2>2, <2>3, <2>4, RowStepTyped
<1>. QED
  BY <1>1, <1>2, <1>3, <1>4, <1>5, <1>6, <1>7 DEF MatchStep

LEMMA SubmissionTypesKept ==
    ASSUME ResultTypeOK, NEW m \in Match, NEW u \in Submitter, SubmissionStep(m, u),
           HistoryTyped
    PROVE  ResultTypeOK'
<1>0. subs \in [Match -> [Submitter -> Submission]]
  BY DEF ResultTypeOK
<1>1. CASE submitResult(m, u)
  <2>1. /\ subs' = [subs EXCEPT ![m][u] = "PENDING"]
        /\ UNCHANGED <<tour, matches, rows, regs, members, winners, saving, scoring, dist>>
    BY <1>1 DEF submitResult
  <2>2. subs' \in [Match -> [Submitter -> Submission]]
    BY <1>0, <2>1 DEF Submission
  <2>3. \A n \in Match : MatchFree(n)' <=> MatchFree(n)
    BY <2>1 DEF MatchFree
  <2>. QED
    BY <2>1, <2>2, <2>3 DEF ResultTypeOK, HistoryTyped
<1>2. ASSUME NEW c \in Claims, ApproveResult(m, u, c)
      PROVE  ResultTypeOK'
  <2>. DEFINE points == pointsFor(c.placement, c.kills, tour.formula)
  <2>1. PICK e \in Reviewable(m, u) :
            rows' = [rows EXCEPT ![m][e] = [@ EXCEPT
                !.status = "PLAYED", !.placement = c.placement,
                !.kills = c.kills, !.points = points, !.score = points]]
    BY <1>2 DEF ApproveResult
  <2>2. c.placement \in Nat /\ c.kills \in Nat /\ tour.formula \in Formula
    BY ResultAssumption DEF ResultTypeOK
  <2>3. points \in Nat
    BY <2>2, PointsTyped
  <2>. HIDE DEF points
  <2>. DEFINE new == [rows[m][e] EXCEPT !.status = "PLAYED", !.placement = c.placement,
                          !.kills = c.kills, !.points = points, !.score = points]
  <2>4. e \in Entry /\ rows[m][e] \in Row
    BY RowTypes DEF Reviewable, RowsOf
  <2>5. new \in Row
    BY <2>2, <2>3, <2>4 DEF Row
  <2>6. rows' = [rows EXCEPT ![m][e] = new]
    BY <2>1, <2>4 DEF ResultTypeOK
  <2>7. /\ subs' \in [Match -> [Submitter -> Submission]]
        /\ UNCHANGED <<tour, matches, regs, members, winners, saving, scoring, dist>>
    BY <1>0, <1>2 DEF ApproveResult, Submission
  <2>. HIDE DEF new
  <2>. QED
    BY <2>4, <2>5, <2>6, <2>7, RowStepTyped
<1>3. ASSUME NEW status \in {"REGISTERED", "DISQUALIFIED"}, RejectResult(m, u, status)
      PROVE  ResultTypeOK'
  <2>1. PICK e \in Reviewable(m, u) :
            rows' = [rows EXCEPT ![m][e] = [@ EXCEPT
                !.status = status, !.placement = 0, !.kills = 0, !.points = 0]]
    BY <1>3 DEF RejectResult
  <2>. DEFINE new == [rows[m][e] EXCEPT
                          !.status = status, !.placement = 0, !.kills = 0, !.points = 0]
  <2>2. e \in Entry /\ rows[m][e] \in Row
    BY RowTypes DEF Reviewable, RowsOf
  <2>3. new \in Row
    BY <2>2 DEF Row
  <2>4. rows' = [rows EXCEPT ![m][e] = new]
    BY <2>1, <2>2 DEF ResultTypeOK
  <2>5. /\ subs' \in [Match -> [Submitter -> Submission]]
        /\ UNCHANGED <<tour, matches, regs, members, winners, saving, scoring, dist>>
    BY <1>0, <1>3 DEF RejectResult, Submission
  <2>. HIDE DEF new
  <2>. QED
    BY <2>2, <2>3, <2>4, <2>5, RowStepTyped
<1>. QED
  BY <1>1, <1>2, <1>3 DEF SubmissionStep

LEMMA RecipientsAreUsers ==
    ASSUME ResultTypeOK, NEW e \in Entry
    PROVE  Recipients(e) \in SUBSET User
<1>1. members[e] \in SUBSET User /\ Roster[e] \in SUBSET User
  BY ResultAssumption DEF ResultTypeOK
<1>. QED
  BY <1>1 DEF Recipients

LEMMA WinnersTyped ==
    ASSUME ResultTypeOK, NEW w \in Award, Payable(w)
    PROVE  /\ WinnerOf(w) \in Winner
           /\ PaidFor(WinnerOf(w)) = w.amount
           /\ \A u \in User : WinnerOf(w).shares[u] > 0 => u \in Recipients(w.entry)
<1>1. Recipients(w.entry) \in SUBSET User /\ Recipients(w.entry) # {} /\ w.amount \in Nat
  BY RecipientsAreUsers DEF Payable, Award
<1>. DEFINE f == Shares(w.amount, Recipients(w.entry))
<1>2. /\ f \in [User -> Nat] /\ SumFunctionOnSet(f, User) = w.amount
      /\ \A u \in User : f[u] > 0 => u \in Recipients(w.entry)
  BY <1>1, SharesAddUp
<1>3. WinnerOf(w) = [award |-> w, shares |-> f]
  BY DEF WinnerOf
<1>. HIDE DEF f
<1>. QED
  BY <1>2, <1>3 DEF Winner, PaidFor

LEMMA SettlementTyped ==
    ASSUME ResultTypeOK, NEW a \in Admin, WriteWinners(a)
    PROVE  /\ winners' \subseteq Winner
           /\ tour' \in [status : DOMAIN TourTransitions, formula : Formulas]
           /\ matches' \in [Match -> MatchRow]
           /\ \A m \in Match : matches'[m].results = matches[m].results
<1>1. Unpaid(dist[a].awards) \subseteq Award
  BY DEF ResultTypeOK, Distribution, Unpaid, Unskipped
<1>2. \A w \in Unpaid(dist[a].awards) : WinnerOf(w) \in Winner
  BY <1>1, WinnersTyped DEF WriteWinners
<1>3. winners' \subseteq Winner
  BY <1>2 DEF WriteWinners, ResultTypeOK
<1>4. tour' \in [status : DOMAIN TourTransitions, formula : Formulas]
  BY DEF WriteWinners, ResultTypeOK, TourTransitions
<1>5. \A r \in MatchRow : [r EXCEPT !.finalized = TRUE] \in MatchRow
  BY DEF MatchRow
<1>6. matches' = [m \in Match |-> IF MatchExists(m)
                                  THEN [matches[m] EXCEPT !.finalized = TRUE]
                                  ELSE matches[m]]
  BY DEF WriteWinners
<1>7. \A m \in Match : matches[m] \in MatchRow
  BY DEF ResultTypeOK
<1>8. matches' \in [Match -> MatchRow]
  BY <1>5, <1>6, <1>7
<1>9. \A m \in Match : matches'[m].results = matches[m].results
  BY <1>6, <1>7 DEF MatchRow
<1>. QED
  BY <1>3, <1>4, <1>8, <1>9

\* What a step of an administrator leaves of his progress.
LEMMA DistributionTyped ==
    ASSUME ResultTypeOK, NEW a \in Admin, DistributionStep(a)
    PROVE  dist' \in [Admin -> Distribution]
<1>1. dist \in [Admin -> Distribution] /\ dist[a] \in Distribution
  BY DEF ResultTypeOK
<1>2. FinishDistribution(a) \in [Admin -> Distribution]
  <2>1. [dist[a] EXCEPT !.stage = "done", !.awards = {}] \in Distribution
    BY <1>1 DEF Distribution
  <2>2. FinishDistribution(a)
          = [dist EXCEPT ![a] = [dist[a] EXCEPT !.stage = "done", !.awards = {}]]
    BY <1>1 DEF FinishDistribution
  <2>. QED
    BY <1>1, <2>1, <2>2
<1>3. CASE ReadStandings(a)
  <2>1. [dist[a] EXCEPT !.stage = "standings", !.awards = Awards] \in Distribution
    BY <1>1, AwardsTyped DEF Distribution
  <2>2. dist' = [dist EXCEPT ![a] = [dist[a] EXCEPT !.stage = "standings", !.awards = Awards]]
    BY <1>1, <1>3 DEF ReadStandings
  <2>. QED
    BY <1>1, <2>1, <2>2
<1>4. CASE CheckPublication(a)
  <2>1. [dist[a] EXCEPT !.stage = "settle"] \in Distribution
    BY <1>1 DEF Distribution
  <2>2. dist' \in {[dist EXCEPT ![a] = [dist[a] EXCEPT !.stage = "settle"]], FinishDistribution(a)}
    BY <1>1, <1>4 DEF CheckPublication
  <2>. QED
    BY <1>1, <1>2, <2>1, <2>2
<1>5. CASE Settle(a) \/ RefuseSettlement(a)
  BY <1>2, <1>5 DEF Settle, RefuseSettlement
<1>6. CASE RetryDistribution(a)
  <2>1. dist[a].attempt < Attempts =>
            [stage |-> "idle", awards |-> {}, attempt |-> dist[a].attempt + 1] \in Distribution
    BY <1>1, ResultAssumption DEF Distribution
  <2>2. dist' = IF dist[a].attempt < Attempts
                THEN [dist EXCEPT ![a] =
                         [stage |-> "idle", awards |-> {}, attempt |-> dist[a].attempt + 1]]
                ELSE FinishDistribution(a)
    BY <1>1, <1>6 DEF RetryDistribution
  <2>. QED
    BY <1>1, <1>2, <2>1, <2>2
<1>. QED
  BY <1>3, <1>4, <1>5, <1>6 DEF DistributionStep, SettleResponseLost, SettlementFails

LEMMA ResultTypesKept ==
    ASSUME ResultTypeOK, ResultNext
    PROVE  ResultTypeOK'
<1>0. HistoryTyped
  BY DEF ResultNext, ResultTypeOK, PassedOver, PlayedRows, HistoryTyped
<1>1. ASSUME NEW m \in Match, MatchStep(m) PROVE ResultTypeOK'
  BY <1>0, <1>1, MatchTypesKept
<1>2. ASSUME NEW m \in Match, NEW u \in Submitter, SubmissionStep(m, u) PROVE ResultTypeOK'
  BY <1>0, <1>2, SubmissionTypesKept
<1>3. ASSUME NEW e \in Entry, ChangeMembers(e) PROVE ResultTypeOK'
  <2>1. PICK us \in OtherMembers[e] : members' = [members EXCEPT ![e] = us]
    BY <1>3 DEF ChangeMembers
  <2>2. us \in SUBSET User
    BY <2>1, ResultAssumption
  <2>3. members' \in [Entry -> SUBSET User]
    BY <2>1, <2>2 DEF ResultTypeOK
  <2>4. UNCHANGED <<tour, matches, rows, subs, regs, winners, saving, scoring, dist>>
    BY <1>3 DEF ChangeMembers
  <2>. QED
    BY <1>0, <2>3, <2>4 DEF ResultTypeOK, HistoryTyped, MatchFree
<1>4. ASSUME NEW f \in Formulas, BeginScoring(f) PROVE ResultTypeOK'
  BY <1>0, <1>4 DEF BeginScoring, ResultTypeOK, HistoryTyped, MatchFree
<1>5. CASE EndScoring
  <2>1. scoring \in Formulas
    BY <1>5 DEF EndScoring, ResultTypeOK
  <2>2. /\ tour' \in [status : DOMAIN TourTransitions, formula : Formulas]
        /\ scoring' = NoFormula
        /\ UNCHANGED <<matches, rows, subs, regs, members, winners, saving, dist>>
    BY <1>5, <2>1 DEF EndScoring, ResultTypeOK
  <2>. QED
    BY <1>0, <2>2 DEF ResultTypeOK, HistoryTyped, MatchFree
<1>6. ASSUME NEW status \in {"COMPLETED", "CANCELLED"}, setTournamentStatus(status)
      PROVE  ResultTypeOK'
  <2>1. /\ tour' \in [status : DOMAIN TourTransitions, formula : Formulas]
        /\ regs' \in [Entry -> {"CONFIRMED", "REFUNDED"}]
        /\ UNCHANGED <<matches, rows, subs, members, winners, saving, scoring, dist>>
    BY <1>6 DEF setTournamentStatus, ResultTypeOK, TourTransitions
  <2>. QED
    BY <1>0, <2>1 DEF ResultTypeOK, HistoryTyped, MatchFree
<1>7. ASSUME NEW a \in Admin, DistributionStep(a) PROVE ResultTypeOK'
  <2>1. dist' \in [Admin -> Distribution]
    BY <1>7, DistributionTyped
  <2>2. CASE WriteWinners(a)
    <3>1. /\ winners' \subseteq Winner
          /\ tour' \in [status : DOMAIN TourTransitions, formula : Formulas]
          /\ matches' \in [Match -> MatchRow]
          /\ \A m \in Match : matches'[m].results = matches[m].results
      BY <2>2, SettlementTyped
    <3>2. UNCHANGED <<rows, subs, regs, members, saving, scoring>>
      BY <2>2 DEF WriteWinners
    <3>3. \A m \in Match : (~MatchFree(m))' => matches'[m].results \in {"DRAFT", "UNDER_REVIEW"}
      BY <3>1, <3>2 DEF ResultTypeOK, MatchFree
    <3>. QED
      BY <1>0, <2>1, <3>1, <3>2, <3>3 DEF ResultTypeOK, HistoryTyped
  <2>3. CASE UNCHANGED <<tour, matches, rows, subs, regs, members, winners, saving, scoring>>
    BY <1>0, <2>1, <2>3 DEF ResultTypeOK, HistoryTyped, MatchFree
  <2>. QED
    BY <1>7, <2>2, <2>3 DEF DistributionStep, ReadStandings, CheckPublication, Settle,
       RefuseSettlement, SettleResponseLost, SettlementFails
<1>. QED
  BY <1>1, <1>2, <1>3, <1>4, <1>5, <1>6, <1>7 DEF ResultNext, ResultStep

-----------------------------------------------------------------------------
(***************************************************************************)
(* Distribution.                                                           *)
(***************************************************************************)
LEMMA AwardsFollowRows ==
    ASSUME rows' = rows
    PROVE  Awards' = Awards
<1>1. \A e : Points(e)' = Points(e) /\ Kills(e)' = Kills(e) /\ Played(e)' = Played(e)
  BY DEF Points, Kills, Played
<1>2. Ranked' = Ranked
  BY <1>1 DEF Ranked, Standing, Played
<1>3. \A a, b : StandsBefore(a, b)' <=> StandsBefore(a, b)
  BY <1>1 DEF StandsBefore
<1>4. \A e : Place(e)' = Place(e)
  BY <1>2, <1>3 DEF Place
<1>5. Killers' = Killers
  BY <1>1, <1>2 DEF Killers
<1>6. \A e : KillPosition(e)' = KillPosition(e)
  BY <1>3, <1>5 DEF KillPosition
<1>7. \A i, e : KillMoney(i, e)' = KillMoney(i, e)
  BY <1>1 DEF KillMoney
<1>8. \A i : KillTotal(i)' = KillTotal(i)
  BY <1>5, <1>7 DEF KillTotal
<1>9. \A i, e : KillShare(i, e)' = KillShare(i, e)
  BY <1>7, <1>8 DEF KillShare
<1>10. PlacementAwards' = PlacementAwards
  BY <1>2, <1>4 DEF PlacementAwards
<1>11. KillAwards' = KillAwards
  BY <1>5, <1>6, <1>9 DEF KillAwards
<1>12. MvpAwards' = MvpAwards
  BY <1>2, <1>4 DEF MvpAwards
<1>. QED
  BY <1>10, <1>11, <1>12 DEF Awards

\* Only administrators who distribute touch winners and what was read.
LEMMA OthersLeaveDistribution ==
    ASSUME ResultStep, ~ \E a \in Admin : DistributionStep(a)
    PROVE  UNCHANGED <<winners, dist>>
<1>1. ASSUME NEW m \in Match, MatchStep(m) PROVE UNCHANGED <<winners, dist>>
  BY <1>1 DEF MatchStep, createMatch, setMatchStatus, BeginSave, EndSave, setResultsStatus,
     setParticipantState, confirmStandings
<1>2. ASSUME NEW m \in Match, NEW u \in Submitter, SubmissionStep(m, u)
      PROVE  UNCHANGED <<winners, dist>>
  BY <1>2 DEF SubmissionStep, submitResult, ApproveResult, RejectResult
<1>. QED
  BY <1>1, <1>2 DEF ResultStep, ChangeMembers, BeginScoring, EndScoring, setTournamentStatus

\* A step of an administrator leaves the results alone; what is read is awarded
\* by the standings, and nothing else comes into the list of a request.
LEMMA DistributionEffect ==
    ASSUME ResultTypeOK, NEW a \in Admin, DistributionStep(a)
    PROVE  /\ UNCHANGED <<rows, regs>>
           /\ \A b \in Admin :
                 /\ dist'[b].awards \in {dist[b].awards, Awards, {}}
                 /\ dist'[b].stage \in {"standings", "settle"} =>
                       \/ dist'[b].awards = Awards
                       \/ /\ dist'[b].awards = dist[b].awards
                          /\ dist[b].stage \in {"standings", "settle"}
           /\ winners' = winners \/ WriteWinners(a)
<1>0. dist \in [Admin -> Distribution] /\ \A b \in Admin : dist[b] \in Distribution
  BY DEF ResultTypeOK
<1>1. ASSUME dist' = FinishDistribution(a)
      PROVE  \A b \in Admin : \/ dist'[b] = dist[b]
                              \/ dist'[b].awards = {} /\ dist'[b].stage = "done"
  BY <1>0, <1>1 DEF FinishDistribution, Distribution
<1>2. ASSUME RetryDistribution(a)
      PROVE  \A b \in Admin : \/ dist'[b] = dist[b]
                              \/ dist'[b].awards = {} /\ dist'[b].stage \in {"idle", "done"}
  BY <1>0, <1>1, <1>2 DEF RetryDistribution
<1>3. CASE ReadStandings(a)
  <2>1. \A b \in Admin : \/ dist'[b] = dist[b]
                         \/ dist'[b].awards = Awards /\ dist'[b].stage = "standings"
    BY <1>0, <1>3 DEF ReadStandings, Distribution
  <2>2. UNCHANGED <<rows, regs, winners>>
    BY <1>3 DEF ReadStandings
  <2>. QED
    BY <2>1, <2>2
<1>4. CASE CheckPublication(a)
  <2>1. UNCHANGED <<rows, regs, winners>> /\ dist[a].stage = "standings"
    BY <1>4 DEF CheckPublication
  <2>2. CASE dist' = [dist EXCEPT ![a].stage = "settle"]
    <3>1. \A b \in Admin : dist'[b] = dist[b] \/ (b = a /\ dist'[b].awards = dist[b].awards)
      BY <1>0, <2>2 DEF Distribution
    <3>. QED
      BY <2>1, <3>1
  <2>3. CASE dist' = FinishDistribution(a)
    BY <1>1, <2>1, <2>3
  <2>. QED
    BY <1>4, <2>2, <2>3 DEF CheckPublication
<1>5. CASE Settle(a)
  <2>1. UNCHANGED <<rows, regs>> /\ dist' = FinishDistribution(a) /\ WriteWinners(a)
    BY <1>5 DEF Settle, WriteWinners
  <2>. QED
    BY <1>1, <2>1
<1>6. CASE RefuseSettlement(a)
  <2>1. UNCHANGED <<rows, regs, winners>> /\ dist' = FinishDistribution(a)
    BY <1>6 DEF RefuseSettlement
  <2>. QED
    BY <1>1, <2>1
<1>7. CASE SettleResponseLost(a)
  <2>1. UNCHANGED <<rows, regs>> /\ RetryDistribution(a) /\ WriteWinners(a)
    BY <1>7 DEF SettleResponseLost, WriteWinners
  <2>. QED
    BY <1>2, <2>1
<1>8. CASE SettlementFails(a)
  <2>1. UNCHANGED <<rows, regs, winners>> /\ RetryDistribution(a)
    BY <1>8 DEF SettlementFails
  <2>. QED
    BY <1>2, <2>1
<1>. QED
  BY <1>3, <1>4, <1>5, <1>6, <1>7, <1>8 DEF DistributionStep

LEMMA ComparableKept ==
    ASSUME ResultInv, ResultStep
    PROVE  \A b \in Admin : Comparable(dist'[b].awards)
<1>1. Comparable({}) /\ Comparable(Awards)
  BY AwardsComparable DEF Comparable, ResultInv
<1>2. CASE \E a \in Admin : DistributionStep(a)
  <2>1. \A b \in Admin : dist'[b].awards \in {dist[b].awards, Awards, {}}
    BY <1>2, DistributionEffect DEF ResultInv
  <2>. QED
    BY <1>1, <2>1 DEF ResultInv
<1>3. CASE UNCHANGED <<winners, dist>>
  BY <1>3 DEF ResultInv
<1>. QED
  BY <1>2, <1>3, OthersLeaveDistribution

\* The awards that were paid are those the standings give, when nothing changed
\* since they were read: who reads first pays all of them, who comes later none.
LEMMA StandingsKept ==
    ASSUME ResultInv, ResultNext
    PROVE  StandingsInv'
<1>. SUFFICES ASSUME ~late'
              PROVE  /\ \A b \in Admin : dist'[b].stage \in {"standings", "settle"}
                                            => dist'[b].awards = Awards'
                     /\ winners' # {} => {w.award : w \in winners'} = Unskipped(Awards')
  BY DEF StandingsInv, Unskipped, Earlier
<1>1. ResultStep /\ ~late /\ ~(StandingsRead /\ rows' # rows)
  BY DEF ResultNext
<1>2. /\ \A b \in Admin : dist[b].stage \in {"standings", "settle"} => dist[b].awards = Awards
      /\ winners # {} => {w.award : w \in winners} = Unskipped(Awards)
  BY <1>1 DEF ResultInv, StandingsInv
<1>3. CASE ~ \E a \in Admin : DistributionStep(a)
  <2>1. UNCHANGED <<winners, dist>>
    BY <1>1, <1>3, OthersLeaveDistribution
  <2>2. CASE rows' = rows
    <3>1. Awards' = Awards
      BY <2>2, AwardsFollowRows
    <3>. QED
      BY <1>2, <2>1, <3>1
  <2>3. CASE rows' # rows
    BY <1>1, <2>1, <2>3 DEF StandingsRead
  <2>. QED
    BY <2>2, <2>3
<1>4. ASSUME NEW a \in Admin, DistributionStep(a)
      PROVE  /\ \A b \in Admin : dist'[b].stage \in {"standings", "settle"}
                                    => dist'[b].awards = Awards'
             /\ winners' # {} => {w.award : w \in winners'} = Unskipped(Awards')
  <2>1. /\ UNCHANGED <<rows, regs>>
        /\ \A b \in Admin : dist'[b].stage \in {"standings", "settle"} =>
               \/ dist'[b].awards = Awards
               \/ dist'[b].awards = dist[b].awards /\ dist[b].stage \in {"standings", "settle"}
        /\ winners' = winners \/ WriteWinners(a)
    BY <1>4, DistributionEffect DEF ResultInv
  <2>2. Awards' = Awards
    BY <2>1, AwardsFollowRows
  <2>3. \A b \in Admin : dist'[b].stage \in {"standings", "settle"} => dist'[b].awards = Awards'
    BY <1>2, <2>1, <2>2
  <2>4. CASE winners' = winners
    BY <1>2, <2>2, <2>3, <2>4
  <2>5. CASE WriteWinners(a)
    <3>1. /\ dist[a].awards = Awards /\ Unpaid(Awards) # {}
          /\ winners' = winners \union {WinnerOf(w) : w \in Unpaid(Awards)}
      BY <1>2, <2>5 DEF WriteWinners
    <3>2. winners = {}
      <4>. SUFFICES ASSUME winners # {} PROVE FALSE
        OBVIOUS
      <4>1. \A w \in Unskipped(Awards) : \E v \in winners : v.award = w
        BY <1>2
      <4>2. Unpaid(Awards) = {}
        BY <4>1 DEF Unpaid
      <4>. QED
        BY <3>1, <4>2
    <3>3. Unpaid(Awards) = Unskipped(Awards)
      BY <3>2 DEF Unpaid
    <3>4. \A w : WinnerOf(w).award = w
      BY DEF WinnerOf
    <3>5. {w.award : w \in winners'} = Unskipped(Awards)
      BY <3>1, <3>2, <3>3, <3>4
    <3>. QED
      BY <2>2, <2>3, <3>5
  <2>. QED
    BY <2>1, <2>4, <2>5
<1>. QED
  BY <1>3, <1>4

LEMMA SettlementsKept ==
    ASSUME ResultInv, ResultStep
    PROVE  SettlementsReconcile'
<1>1. ASSUME winners' = winners PROVE SettlementsReconcile'
  BY <1>1 DEF ResultInv, SettlementsReconcile, PaidFor
<1>2. ASSUME NEW a \in Admin, WriteWinners(a) PROVE SettlementsReconcile'
  <2>. DEFINE unpaid == Unpaid(dist[a].awards)
  <2>1. /\ winners' = winners \union {WinnerOf(w) : w \in unpaid}
        /\ \A w \in unpaid : Payable(w)
    BY <1>2 DEF WriteWinners
  <2>2. Comparable(dist[a].awards) /\ dist[a].awards \subseteq Award
    BY DEF ResultInv, ResultTypeOK, Distribution
  <2>3. unpaid \subseteq Unskipped(dist[a].awards) /\ unpaid \subseteq Award
    BY <2>2 DEF Unpaid, Unskipped
  <2>4. \A w \in unpaid : WinnerOf(w).award = w /\ PaidFor(WinnerOf(w)) = w.amount
    BY <2>1, <2>3, WinnersTyped DEF ResultInv, WinnerOf
  <2>5. \A w, v \in unpaid : w.position = v.position => w = v
    BY <2>2, <2>3, OneTakesPosition
  <2>6. \A w \in unpaid, v \in winners : w.position # v.award.position
    BY DEF Unpaid
  <2>7. /\ \A w \in winners : PaidFor(w) = w.award.amount
        /\ \A w, v \in winners : v.award.position = w.award.position => v = w
    BY DEF ResultInv, SettlementsReconcile
  <2>. HIDE DEF unpaid
  <2>8. \A w \in winners' : PaidFor(w) = w.award.amount
    BY <2>1, <2>4, <2>7
  <2>9. \A w, v \in winners' : v.award.position = w.award.position => v = w
    BY <2>1, <2>4, <2>5, <2>6, <2>7
  <2>10. \A w : PaidFor(w)' = PaidFor(w)
    BY DEF PaidFor
  <2>. QED
    BY <2>8, <2>9, <2>10 DEF SettlementsReconcile, PaidFor
<1>. QED
  BY <1>1, <1>2, OthersLeaveDistribution, DistributionEffect DEF ResultInv

LEMMA RostersKept ==
    ASSUME ResultInv, ResultStep
    PROVE  PaidRosterIsPaid'
<1>1. \A e \in Entry : regs'[e] = "CONFIRMED" => regs[e] = "CONFIRMED"
  <2>1. CASE \E status \in {"COMPLETED", "CANCELLED"} : setTournamentStatus(status)
    BY <2>1 DEF setTournamentStatus
  <2>2. CASE regs' = regs
    BY <2>2
  <2>. QED
    <3>1. ASSUME NEW m \in Match, MatchStep(m) PROVE regs' = regs
      BY <3>1 DEF MatchStep, createMatch, setMatchStatus, BeginSave, EndSave, setParticipantState,
         setResultsStatus, confirmStandings
    <3>2. ASSUME NEW m \in Match, NEW u \in Submitter, SubmissionStep(m, u) PROVE regs' = regs
      BY <3>2 DEF SubmissionStep, submitResult, ApproveResult, RejectResult
    <3>3. ASSUME NEW a \in Admin, DistributionStep(a) PROVE regs' = regs
      BY <3>3, DistributionEffect DEF ResultInv
    <3>. QED
      BY <2>1, <2>2, <3>1, <3>2, <3>3 DEF ResultStep, ChangeMembers, BeginScoring, EndScoring
<1>2. \A w \in winners : w.award.entry \in Entry
  BY DEF ResultInv, ResultTypeOK, Winner, Award
<1>3. ASSUME winners' = winners PROVE PaidRosterIsPaid'
  BY <1>1, <1>2, <1>3 DEF ResultInv, PaidRosterIsPaid
<1>4. ASSUME NEW a \in Admin, WriteWinners(a) PROVE PaidRosterIsPaid'
  <2>. DEFINE unpaid == Unpaid(dist[a].awards)
  <2>1. /\ winners' = winners \union {WinnerOf(w) : w \in unpaid}
        /\ \A w \in unpaid : Payable(w)
    BY <1>4 DEF WriteWinners
  <2>2. unpaid \subseteq Award
    BY DEF ResultInv, ResultTypeOK, Distribution, Unpaid, Unskipped
  <2>. HIDE DEF unpaid
  <2>3. ASSUME NEW w \in unpaid, w.entry \in HasSnapshot, regs'[w.entry] = "CONFIRMED",
               NEW u \in User, WinnerOf(w).shares[u] > 0
        PROVE  u \in Roster[w.entry]
    <3>1. u \in Recipients(w.entry)
      BY <2>1, <2>2, <2>3, WinnersTyped DEF ResultInv
    <3>2. regs[w.entry] = "CONFIRMED" /\ w.entry \in TeamEntry
      BY <1>1, <2>2, <2>3, ResultAssumption DEF Award
    <3>. QED
      BY <2>3, <3>1, <3>2 DEF Recipients
  <2>4. ASSUME NEW w \in winners, w.award.entry \in HasSnapshot,
               regs'[w.award.entry] = "CONFIRMED", NEW u \in User, w.shares[u] > 0
        PROVE  u \in Roster[w.award.entry]
    BY <1>1, <1>2, <2>4 DEF ResultInv, PaidRosterIsPaid
  <2>5. \A w : WinnerOf(w).award = w
    BY DEF WinnerOf
  <2>. QED
    BY <2>1, <2>3, <2>4, <2>5 DEF PaidRosterIsPaid
<1>. QED
  BY <1>3, <1>4, OthersLeaveDistribution, DistributionEffect DEF ResultInv

-----------------------------------------------------------------------------
(***************************************************************************)
(* Promised prizes.                                                        *)
(***************************************************************************)
\* Where results stay confirmed, a row shows the prize it showed, or none.
PrizesStay ==
    \A m \in Match : matches'[m].results \in {"CONFIRMED", "PUBLISHED"} =>
        /\ matches[m].results \in {"CONFIRMED", "PUBLISHED"} /\ passed'[m] = passed[m]
        /\ \A e \in Entry : rows'[m][e].prize \in {rows[m][e].prize, 0}

LEMMA PromisesFollow ==
    ASSUME PromisesInv, PrizesStay
    PROVE  PromisesInv'
<1>. SUFFICES ASSUME NEW m \in Match, matches'[m].results \in {"CONFIRMED", "PUBLISHED"},
                     NEW e \in Entry \ passed'[m], NEW f \in Entry \ passed'[m],
                     rows'[m][e].prize > 0, rows'[m][e].prize = rows'[m][f].prize
              PROVE  e = f
  BY DEF PromisesInv
<1>1. /\ matches[m].results \in {"CONFIRMED", "PUBLISHED"} /\ passed'[m] = passed[m]
      /\ rows'[m][e].prize \in {rows[m][e].prize, 0} /\ rows'[m][f].prize \in {rows[m][f].prize, 0}
  BY DEF PrizesStay
<1>2. rows[m][e].prize > 0 /\ rows[m][e].prize = rows[m][f].prize
  BY <1>1
<1>. QED
  BY <1>1, <1>2 DEF PromisesInv

\* A step that confirms nothing leaves what was passed over.
LEMMA PassedStays ==
    ASSUME ResultTypeOK, ResultNext, NEW m \in Match, ~JustConfirmed(m)
    PROVE  passed'[m] = passed[m]
  BY DEF ResultNext

\* A row that synchronisation makes shows no prize.
LEMMA SyncedRows ==
    ASSUME ResultTypeOK, NEW m \in Match, rows' \in {rows, Synced(m)}
    PROVE  \A n \in Match, e \in Entry : rows'[n][e].prize \in {rows[n][e].prize, 0}
<1>1. rows \in [Match -> [Entry -> Row]]
  BY DEF ResultTypeOK
<1>. DEFINE table == [e \in Entry |->
                IF regs[e] = "CONFIRMED" /\ rows[m][e].status = "NONE"
                THEN [NoRow EXCEPT !.status = "REGISTERED"] ELSE rows[m][e]]
<1>2. \A e \in Entry : table[e].prize \in {rows[m][e].prize, 0}
  BY DEF NoRow
<1>3. Synced(m) = [rows EXCEPT ![m] = table]
  BY DEF Synced
<1>. HIDE DEF table
<1>. QED
  BY <1>1, <1>2, <1>3

\* The prize follows the rank, which no two ranked rows share.
LEMMA ConfirmedPromisesFit ==
    ASSUME ResultTypeOK, ResultNext, NEW m \in Match, confirmStandings(m), PromisesInv
    PROVE  PromisesInv'
<1>. SUFFICES ASSUME NEW n \in Match, matches'[n].results \in {"CONFIRMED", "PUBLISHED"},
                     NEW e \in Entry \ passed'[n], NEW f \in Entry \ passed'[n],
                     rows'[n][e].prize > 0, rows'[n][e].prize = rows'[n][f].prize
              PROVE  e = f
  BY DEF PromisesInv
<1>1. rows \in [Match -> [Entry -> Row]] /\ matches \in [Match -> MatchRow]
  BY DEF ResultTypeOK
<1>2. CASE n # m
  <2>1. rows'[n] = rows[n] /\ matches'[n] = matches[n]
    BY <1>1, <1>2 DEF confirmStandings
  <2>2. passed'[n] = passed[n]
    BY <2>1, PassedStays DEF JustConfirmed
  <2>. QED
    BY <2>1, <2>2 DEF PromisesInv
<1>3. CASE n = m
  <2>1. \A x \in Entry : rows'[m][x] = IF x \in PlayedRows(m) THEN ConfirmedRow(m, x) ELSE rows[m][x]
    BY <1>1 DEF confirmStandings
  <2>2. passed'[m] = PassedOver(m)
    <3>1. matches[m].results = "UNDER_REVIEW" /\ matches'[m].results = "CONFIRMED"
      BY <1>1 DEF confirmStandings, MatchRow
    <3>. QED
      BY <3>1 DEF ResultNext, JustConfirmed
  <2>3. ASSUME NEW x \in Entry \ passed'[m], rows'[m][x].prize > 0
        PROVE  x \in RankedRows(m) /\ rows'[m][x].prize = rankByScore(m, RankedRows(m), x)
    <3>1. x \in PlayedRows(m)
      BY <2>1, <2>2, <2>3 DEF PassedOver
    <3>2. rows[m][x] \in Row /\ rows'[m][x] = ConfirmedRow(m, x)
      BY <1>1, <2>1, <3>1
    <3>. DEFINE rank == rankByScore(m, RankedRows(m), x)
    <3>3. CASE rows[m][x].placement = 0
      <4>1. ConfirmedRow(m, x).prize = 0
        BY <3>2, <3>3 DEF ConfirmedRow, Row
      <4>. QED
        BY <2>3, <3>2, <4>1
    <3>4. CASE rows[m][x].placement # 0
      <4>1. ConfirmedRow(m, x).prize = IF rank \in PlacementPrizes THEN rank ELSE 0
        BY <3>2, <3>4 DEF ConfirmedRow, Row
      <4>2. x \in RankedRows(m)
        BY <3>1, <3>4 DEF RankedRows
      <4>. QED
        BY <2>3, <3>2, <4>1, <4>2
    <3>. QED
      BY <3>3, <3>4
  <2>4. RankedRows(m) \in SUBSET Entry
    BY DEF RankedRows, PlayedRows
  <2>5. /\ e \in RankedRows(m) /\ f \in RankedRows(m)
        /\ rankByScore(m, RankedRows(m), e) = rankByScore(m, RankedRows(m), f)
    BY <1>3, <2>3
  <2>. QED
    BY <2>4, <2>5, RanksDiffer
<1>. QED
  BY <1>2, <1>3

LEMMA MatchPromisesKept ==
    ASSUME ResultTypeOK, PromisesInv, ResultNext, NEW m \in Match, MatchStep(m)
    PROVE  PromisesInv'
<1>0. /\ rows \in [Match -> [Entry -> Row]] /\ matches \in [Match -> MatchRow]
  BY DEF ResultTypeOK
<1>1. CASE createMatch(m) \/ \E status \in {"LIVE", "COMPLETED", "CANCELLED"} : setMatchStatus(m, status)
  <2>1. /\ rows' \in {rows, Synced(m)}
        /\ \A n \in Match : \/ matches'[n].results = matches[n].results
                            \/ matches'[n].results = "DRAFT"
    <3>1. CASE createMatch(m)
      BY <1>0, <3>1 DEF createMatch, MatchRow
    <3>2. ASSUME NEW status, setMatchStatus(m, status)
          PROVE  /\ rows' \in {rows, Synced(m)}
                 /\ \A n \in Match : matches'[n].results = matches[n].results
      BY <1>0, <3>2 DEF setMatchStatus, MatchRow
    <3>. QED
      BY <1>1, <3>1, <3>2
  <2>2. \A n \in Match, e \in Entry : rows'[n][e].prize \in {rows[n][e].prize, 0}
    BY <2>1, SyncedRows
  <2>3. PrizesStay
    BY <2>1, <2>2, PassedStays DEF PrizesStay, JustConfirmed
  <2>. QED
    BY <2>3, PromisesFollow
<1>2. ASSUME NEW e \in Entry, NEW sheet \in Sheets, NEW status \in {"REGISTERED", "PLAYED", "DISQUALIFIED"},
             BeginSave(m, e, sheet, status)
      PROVE  PromisesInv'
  <2>1. UNCHANGED <<rows, matches>>
    BY <1>2 DEF BeginSave
  <2>2. PrizesStay
    BY <2>1, PassedStays DEF PrizesStay, JustConfirmed
  <2>. QED
    BY <2>2, PromisesFollow
<1>3. CASE EndSave(m)
  <2>1. /\ ~MatchFree(m) /\ rows' = [rows EXCEPT ![m][saving[m].entry] = saving[m].row]
        /\ matches' = matches
    BY <1>3 DEF EndSave
  <2>2. matches[m].results \in {"DRAFT", "UNDER_REVIEW"}
    BY <2>1 DEF ResultTypeOK
  <2>3. \A n \in Match : n # m => rows'[n] = rows[n]
    BY <1>0, <2>1
  <2>4. PrizesStay
    BY <2>1, <2>2, <2>3, PassedStays DEF PrizesStay, JustConfirmed
  <2>. QED
    BY <2>4, PromisesFollow
<1>4. ASSUME NEW e \in Entry, NEW absent \in BOOLEAN,
             NEW status \in {"REGISTERED", "PLAYED", "DISQUALIFIED"},
             setParticipantState(m, e, status, absent)
      PROVE  PromisesInv'
  <2>. DEFINE new == [rows[m][e] EXCEPT !.status = status, !.absent = absent]
  <2>1. rows' = [rows EXCEPT ![m][e] = new] /\ matches' = matches
    BY <1>0, <1>4 DEF setParticipantState, Row
  <2>2. new.prize = rows[m][e].prize
    BY <1>0 DEF Row
  <2>. HIDE DEF new
  <2>3. \A n \in Match, f \in Entry : rows'[n][f].prize = rows[n][f].prize
    BY <1>0, <2>1, <2>2
  <2>4. PrizesStay
    BY <2>1, <2>3, PassedStays DEF PrizesStay, JustConfirmed
  <2>. QED
    BY <2>4, PromisesFollow
<1>5. ASSUME NEW status \in {"DRAFT", "UNDER_REVIEW", "PUBLISHED"}, setResultsStatus(m, status)
      PROVE  PromisesInv'
  <2>1. /\ rows' = rows /\ status \in ResultTransitions[matches[m].results]
        /\ matches' = [matches EXCEPT ![m].results = status, ![m].finalized = (status = "PUBLISHED")]
    BY <1>5 DEF setResultsStatus
  <2>2. status = "PUBLISHED" => matches[m].results = "CONFIRMED"
    BY <1>0, <2>1 DEF ResultTransitions, MatchRow
  <2>3. \A n \in Match : \/ matches'[n] = matches[n]
                         \/ n = m /\ matches'[n].results = status
    BY <1>0, <2>1 DEF MatchRow
  <2>4. PrizesStay
    BY <2>1, <2>2, <2>3, PassedStays DEF PrizesStay, JustConfirmed
  <2>. QED
    BY <2>4, PromisesFollow
<1>6. CASE confirmStandings(m)
  BY <1>6, ConfirmedPromisesFit
<1>. QED
  BY <1>1, <1>2, <1>3, <1>4, <1>5, <1>6 DEF MatchStep

\* A review leaves the prize that a row shows.
LEMMA SubmissionPromisesKept ==
    ASSUME ResultTypeOK, PromisesInv, ResultNext,
           NEW m \in Match, NEW u \in Submitter, SubmissionStep(m, u)
    PROVE  PromisesInv'
<1>0. rows \in [Match -> [Entry -> Row]]
  BY DEF ResultTypeOK
<1>1. matches' = matches
  BY DEF SubmissionStep, submitResult, ApproveResult, RejectResult
<1>2. \A n \in Match, e \in Entry : rows'[n][e].prize = rows[n][e].prize
  <2>1. CASE submitResult(m, u)
    BY <2>1 DEF submitResult
  <2>2. ASSUME NEW c \in Claims, ApproveResult(m, u, c)
        PROVE  \A n \in Match, e \in Entry : rows'[n][e].prize = rows[n][e].prize
    <3>. DEFINE points == pointsFor(c.placement, c.kills, tour.formula)
                row(r) == [r EXCEPT !.status = "PLAYED", !.placement = c.placement,
                                    !.kills = c.kills, !.points = points, !.score = points]
    <3>1. PICK e \in Reviewable(m, u) : rows' = [rows EXCEPT ![m][e] = row(rows[m][e])]
      BY <2>2 DEF ApproveResult
    <3>2. \A r \in Row : row(r).prize = r.prize
      BY DEF Row
    <3>. HIDE DEF row
    <3>. QED
      BY <1>0, <3>1, <3>2 DEF Reviewable, RowsOf
  <2>3. ASSUME NEW status \in {"REGISTERED", "DISQUALIFIED"}, RejectResult(m, u, status)
        PROVE  \A n \in Match, e \in Entry : rows'[n][e].prize = rows[n][e].prize
    <3>. DEFINE row(r) == [r EXCEPT !.status = status, !.placement = 0, !.kills = 0, !.points = 0]
    <3>1. PICK e \in Reviewable(m, u) : rows' = [rows EXCEPT ![m][e] = row(rows[m][e])]
      BY <2>3 DEF RejectResult
    <3>2. \A r \in Row : row(r).prize = r.prize
      BY DEF Row
    <3>. HIDE DEF row
    <3>. QED
      BY <1>0, <3>1, <3>2 DEF Reviewable, RowsOf
  <2>. QED
    BY <2>1, <2>2, <2>3 DEF SubmissionStep
<1>3. PrizesStay
  BY <1>1, <1>2, PassedStays DEF PrizesStay, JustConfirmed
<1>. QED
  BY <1>3, PromisesFollow

LEMMA PromisesKept ==
    ASSUME ResultTypeOK, PromisesInv, ResultNext
    PROVE  PromisesInv'
<1>1. ASSUME rows' = rows, \A m \in Match : matches'[m].results = matches[m].results
      PROVE  PromisesInv'
  <2>1. PrizesStay
    BY <1>1, PassedStays DEF PrizesStay, JustConfirmed
  <2>. QED
    BY <2>1, PromisesFollow
<1>2. CASE \E m \in Match : MatchStep(m) \/ \E u \in Submitter : SubmissionStep(m, u)
  BY <1>2, MatchPromisesKept, SubmissionPromisesKept
<1>3. CASE \/ \E e \in Entry : ChangeMembers(e)
           \/ \E f \in Formulas : BeginScoring(f)
           \/ EndScoring
           \/ \E status \in {"COMPLETED", "CANCELLED"} : setTournamentStatus(status)
  BY <1>1, <1>3 DEF ChangeMembers, BeginScoring, EndScoring, setTournamentStatus
<1>4. ASSUME NEW a \in Admin, DistributionStep(a) PROVE PromisesInv'
  <2>1. CASE WriteWinners(a)
    <3>1. rows' = rows
      BY <2>1 DEF WriteWinners
    <3>2. \A m \in Match : matches'[m].results = matches[m].results
      BY <2>1, SettlementTyped
    <3>. QED
      BY <1>1, <3>1, <3>2
  <2>2. CASE UNCHANGED <<matches, rows>>
    BY <1>1, <2>2
  <2>. QED
    BY <1>4, <2>1, <2>2 DEF DistributionStep, ReadStandings, CheckPublication, Settle,
       RefuseSettlement, SettleResponseLost, SettlementFails
<1>. QED
  BY <1>2, <1>3, <1>4 DEF ResultNext, ResultStep

-----------------------------------------------------------------------------
(***************************************************************************)
(* The theorems.                                                           *)
(***************************************************************************)
LEMMA ResultInitial ==
    ASSUME ResultInit
    PROVE  ResultInv
<1>1. ResultTypeOK
  <2>1. /\ tour \in [status : DOMAIN TourTransitions, formula : Formulas]
        /\ scoring \in Formulas \union {NoFormula} /\ late \in BOOLEAN /\ winners \subseteq Winner
        /\ passed \in [Match -> SUBSET Entry]
    BY DEF ResultInit, TourTransitions
  <2>2. matches \in [Match -> MatchRow] /\ rows \in [Match -> [Entry -> Row]]
    BY RowTypes DEF ResultInit, MatchRow
  <2>3. /\ subs \in [Match -> [Submitter -> Submission]]
        /\ regs \in [Entry -> {"CONFIRMED", "REFUNDED"}]
    BY DEF ResultInit, Submission
  <2>4. members \in [Entry -> SUBSET User]
    BY ResultAssumption DEF ResultInit
  <2>5. saving \in [Match -> [entry : Entry, row : Row] \union {NoSave}] /\ \A m \in Match : MatchFree(m)
    BY DEF ResultInit, MatchFree
  <2>6. dist \in [Admin -> Distribution]
    <3>1. 1 \in 0..Attempts
      BY ResultAssumption
    <3>. QED
      BY <3>1 DEF ResultInit, Distribution
  <2>. QED
    BY <2>1, <2>2, <2>3, <2>4, <2>5, <2>6 DEF ResultTypeOK
<1>3. PromisesInv
  BY DEF ResultInit, PromisesInv
<1>4. winners = {} /\ \A a \in Admin : dist[a].awards = {} /\ dist[a].stage = "idle"
  BY DEF ResultInit
<1>5. /\ \A a \in Admin : Comparable(dist[a].awards)
      /\ StandingsInv /\ SettlementsReconcile /\ PaidRosterIsPaid
  BY <1>4 DEF Comparable, StandingsInv, SettlementsReconcile, PaidRosterIsPaid
<1>. QED
  BY <1>1, <1>3, <1>5 DEF ResultInv

LEMMA ResultStutters ==
    ASSUME ResultInv, UNCHANGED resultVars
    PROVE  ResultInv'
<1>1. Awards' = Awards
  BY AwardsFollowRows DEF resultVars
<1>2. ResultTypeOK'
  BY DEF ResultInv, resultVars, ResultTypeOK, MatchFree
<1>3. PromisesInv'
  BY DEF ResultInv, resultVars, PromisesInv
<1>4. StandingsInv'
  BY <1>1 DEF ResultInv, resultVars, StandingsInv, Unskipped, Earlier
<1>5. SettlementsReconcile' /\ PaidRosterIsPaid' /\ \A a \in Admin : Comparable(dist'[a].awards)
  BY DEF ResultInv, resultVars, SettlementsReconcile, PaidFor, PaidRosterIsPaid
<1>. QED
  BY <1>2, <1>3, <1>4, <1>5 DEF ResultInv, Comparable, Earlier

LEMMA ResultInvKept ==
    ASSUME ResultInv, ResultNext
    PROVE  ResultInv'
<1>1. ResultStep /\ ResultTypeOK /\ PromisesInv
  BY DEF ResultNext, ResultInv
<1>2. ResultTypeOK' /\ PromisesInv' /\ StandingsInv' /\ SettlementsReconcile' /\ PaidRosterIsPaid'
  BY <1>1, ResultTypesKept, PromisesKept, StandingsKept, SettlementsKept, RostersKept
<1>3. (\A a \in Admin : Comparable(dist[a].awards))'
  BY <1>1, ComparableKept DEF Comparable, Earlier
<1>. QED
  BY <1>2, <1>3 DEF ResultInv

(* Whatever staff enter, review, confirm and publish, and however often    *)
(* prizes are distributed, the tables keep their types and the five facts  *)
(* of the invariant that the theorems below draw on.                       *)
THEOREM ResultInductive == ResultSpec => []ResultInv
<1>1. ResultInit => ResultInv
  BY ResultInitial
<1>2. ResultInv /\ [ResultNext]_resultVars => ResultInv'
  BY ResultInvKept, ResultStutters
<1>. QED
  BY <1>1, <1>2, PTL DEF ResultSpec

(* The rows of every table stay in their types, and a match whose row a    *)
(* save has locked (saveAdminResult) can still be edited.                  *)
THEOREM ResultTypes == ResultSpec => []ResultTypeOK
<1>1. ResultInv => ResultTypeOK
  BY DEF ResultInv
<1>. QED
  BY <1>1, ResultInductive, PTL

(* distributePrizes, run by any number of administrators, retried and with *)
(* commits nobody heard of, makes one winner row for a position, and the   *)
(* shares credited for a row come to its amount to the last unit, however  *)
(* many members divide it.                                                 *)
THEOREM ResultSettlements == ResultSpec => []SettlementsReconcile
<1>1. ResultInv => SettlementsReconcile
  BY DEF ResultInv
<1>. QED
  BY <1>1, ResultInductive, PTL

(* A team whose roster was frozen when it paid is paid to that roster,     *)
(* whoever has joined or left since (resolvePrizeRecipients).              *)
THEOREM ResultRosters == ResultSpec => []PaidRosterIsPaid
<1>1. ResultInv => PaidRosterIsPaid
  BY DEF ResultInv
<1>. QED
  BY <1>1, ResultInductive, PTL

(* Unless a result changes after the standings were read, the winner rows  *)
(* are the awards that one undisturbed distribution would make, and the    *)
(* awards out of a kill pool, scaled and rounded, stay within its cap.     *)
THEOREM ResultStandings == ResultSpec => []StandingsArePaid
<1>1. ASSUME ResultInv PROVE StandingsArePaid
  <2>. SUFFICES ASSUME ~late, winners # {}
                PROVE  /\ {w.award : w \in winners} = Unskipped(Awards)
                       /\ \A i \in KillPools :
                             SumFunctionOnSet([w \in WinnersOf(i) |-> w.award.amount], WinnersOf(i))
                                 <= Prizes[i].cap
    BY DEF StandingsArePaid
  <2>1. {w.award : w \in winners} = Unskipped(Awards)
    BY <1>1 DEF ResultInv, StandingsInv
  <2>2. ASSUME NEW i \in KillPools
        PROVE  SumFunctionOnSet([w \in WinnersOf(i) |-> w.award.amount], WinnersOf(i))
                  <= Prizes[i].cap
    <3>1. \A w \in WinnersOf(i) : w.award \in Awards /\ w.award.prize = i
      BY <2>1 DEF WinnersOf, Unskipped
    <3>2. \A w, v \in WinnersOf(i) : w.award = v.award => w = v
      BY <1>1 DEF ResultInv, SettlementsReconcile, WinnersOf
    <3>3. ResultTypeOK
      BY <1>1 DEF ResultInv
    <3>. HIDE DEF WinnersOf
    <3>. QED
      BY <3>1, <3>2, <3>3, PoolWithinCap
  <2>. QED
    BY <2>1, <2>2
<1>. QED
  BY <1>1, ResultInductive, PTL

(* Once the results of a match are confirmed (confirmStandings), no two of *)
(* its rows show one placement prize, whatever staff saved before it and a *)
(* review or the slot board decides after it; but for the rows that showed *)
(* a prize already and that the confirmation did not rank.                 *)
THEOREM ResultPromises == ResultSpec => []PromisesFit
<1>1. ResultInv => PromisesFit
  BY DEF ResultInv, PromisesInv, PromisesFit, PromisedPrizes, RankedRows, PlayedRows
<1>. QED
  BY <1>1, ResultInductive, PTL

=============================================================================
