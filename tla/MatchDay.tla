------------------------------ MODULE MatchDay ------------------------------
(***************************************************************************)
(* The day of a tournament: check-in, the room and the scheduler that runs *)
(* beside the players and the staff (index.ts, services/scheduler.service  *)
(* .ts).  A tick sends the reminder of a match, marks the absent and sweeps *)
(* the rooms, in this order; each job is run whether or not the one before *)
(* failed, and a process may stop anywhere and start again, or run next to *)
(* another.                                                                *)
(***************************************************************************)
EXTENDS CheckIn, Rooms

CONSTANTS
    MatchAt,        \* scheduledAt of the match, which does not move with the event
    ReminderLead,   \* minutes before the match
    MaxCrashes      \* bounds the failures and restarts

VARIABLES
    job,         \* the job of the tick each worker is at
    notified,    \* startNotifiedAt of the match
    reminded,    \* reminders sent
    crashes

tickVars == <<job, notified, reminded, crashes>>
dayVars == <<eventVars, checkInVars, roomVars, tickVars>>

ASSUME MatchDayAssumption ==
    Sweeper = Worker /\ MatchAt \in Time /\ ReminderLead \in Nat /\ MaxCrashes \in Nat

-----------------------------------------------------------------------------
At(w, j) == job[w] = j
Goto(w, j) == job' = [job EXCEPT ![w] = j]

\* The match is near, or has just begun.
Near == MatchAt - ReminderLead <= clock /\ clock <= MatchAt

\* notifyUpcomingMatches claims the match before it tells anybody.
Remind(w) ==
    /\ At(w, "idle")
    /\ IF Near /\ ~notified
       THEN notified' = TRUE /\ Goto(w, "tell")
       ELSE notified' = notified /\ Goto(w, "absent")
    /\ UNCHANGED <<eventVars, checkInVars, roomVars, reminded, crashes>>

TellStarting(w) ==
    /\ At(w, "tell")
    /\ reminded' = IF roomAudience = {} THEN reminded ELSE reminded + 1
    /\ Goto(w, "absent")
    /\ UNCHANGED <<eventVars, checkInVars, roomVars, notified, crashes>>

\* markNoShows
MarkJob(w) ==
    /\ At(w, "absent")
    /\ ReadAbsent(w) \/ MarkAbsent(w) \/ AuditAbsent(w)
    /\ UNCHANGED <<roomVars, tickVars>>

MarkJobDone(w) ==
    /\ At(w, "absent") /\ pass[w].stage = "idle" /\ ~Due
    /\ Goto(w, "rooms")
    /\ UNCHANGED <<eventVars, checkInVars, roomVars, notified, reminded, crashes>>

\* releaseTournamentRooms
SweepJob(w) ==
    /\ At(w, "rooms")
    /\ Look(w) \/ claimRoomRelease(w) \/ Announce(w)
    /\ UNCHANGED <<checkInVars, tickVars>>

SweepJobDone(w) ==
    /\ At(w, "rooms") /\ claim[w].stage = "idle"
    /\ ~Unlocked(room) \/ room.released
    /\ Goto(w, "idle")
    /\ UNCHANGED <<eventVars, checkInVars, roomVars, notified, reminded, crashes>>

TickStep(w) ==
    Remind(w) \/ TellStarting(w) \/ MarkJob(w) \/ MarkJobDone(w) \/ SweepJob(w) \/ SweepJobDone(w)

\* Whether the worker is between two statements of a job.
Halfway(w) == At(w, "tell") \/ pass[w].stage # "idle" \/ claim[w].stage # "idle"

\* A job fails half-way and the tick goes on with the next one.
Fail(w) ==
    /\ Halfway(w)
    /\ crashes < MaxCrashes /\ crashes' = crashes + 1
    /\ \/ At(w, "tell") /\ Goto(w, "absent") /\ UNCHANGED <<pass, claim, rumour>>
       \/ At(w, "absent") /\ Goto(w, "rooms")
          /\ pass' = [pass EXCEPT ![w] = IdlePass] /\ UNCHANGED <<claim, rumour>>
       \/ At(w, "rooms") /\ Goto(w, "idle")
          /\ claim' = [claim EXCEPT ![w] = NotClaiming]
          /\ rumour' = [rumour EXCEPT !.lost = @ \/ claim[w].stage = "claimed"]
          /\ pass' = pass
    /\ UNCHANGED <<eventVars, window, checkin, audits, crossed, room, save, arming, announced,
                   recall, notified, reminded>>

\* The process stops, and its next one begins with a new tick.
Restart(w) ==
    /\ crashes < MaxCrashes /\ crashes' = crashes + 1
    /\ Halfway(w) /\ Goto(w, "idle")
    /\ pass' = [pass EXCEPT ![w] = IdlePass]
    /\ claim' = [claim EXCEPT ![w] = NotClaiming]
    /\ rumour' = [rumour EXCEPT !.lost = @ \/ claim[w].stage = "claimed"]
    /\ UNCHANGED <<eventVars, window, checkin, audits, crossed, room, save, arming, announced,
                   recall, notified, reminded>>

\* So may the page of a player, and the request of a switch.
PageFails ==
    /\ crashes < MaxCrashes /\ crashes' = crashes + 1
    /\ (\E x \in Viewer : AnnounceFails(x)) \/ (\E n \in 0..MaxArmings : RecallFails(n))
    /\ UNCHANGED <<checkInVars, job, notified, reminded>>

EventStep ==
    /\ EventNext
    /\ rumour' = [rumour EXCEPT !.stirred = @ \/ (event' # event /\ Stirred)]
    /\ UNCHANGED <<checkInVars, room, save, claim, arming, announced, recall, tickVars>>

-----------------------------------------------------------------------------
DayInit ==
    /\ EventInit /\ CheckInInit /\ RoomInit
    /\ job = [w \in Worker |-> "idle"]
    /\ notified = FALSE /\ reminded = 0 /\ crashes = 0

DayNext ==
    \/ EventStep
    \/ CheckInNext /\ UNCHANGED <<roomVars, tickVars>>
    \/ RoomNext /\ UNCHANGED <<checkInVars, tickVars>>
    \/ \E w \in Worker : TickStep(w) \/ Fail(w) \/ Restart(w)
    \/ PageFails

\* index.ts runs a tick every 30 seconds, and a tick that has begun goes on.
DaySpec == DayInit /\ [][DayNext]_dayVars /\ \A w \in Worker : WF_dayVars(TickStep(w))

-----------------------------------------------------------------------------
DayTypeOK ==
    /\ EventTypeOK /\ CheckInTypeOK /\ RoomTypeOK
    /\ job \in [Worker -> {"idle", "tell", "absent", "rooms"}]
    /\ notified \in BOOLEAN /\ reminded \in Nat /\ crashes \in 0..MaxCrashes

(* checkin.service.ts:223, "so staff can prove exactly which player was    *)
(* marked absent": as long as no seat changes between the read and the     *)
(* mark of a pass, every player marked absent is named by one audit row,   *)
(* and by no more than one, and nobody else is; a failure or a restart may *)
(* lose a row.                                                             *)
AuditsNameTheAbsent ==
    ~crossed => \A p \in Player :
        /\ audits[p] <= 1
        /\ audits[p] = 1 => seat[p].noShow # Unset
        /\ seat[p].noShow # Unset /\ crashes = 0 /\ (\A w \in Worker : pass[w].stage # "marked")
               => audits[p] = 1

\* How often the audience heard of a version, from its claim and from its switch.
Told(n) == announced[n] + (IF recall[n] = "told" THEN 1 ELSE 0)

(* room.service.ts:410, the audience is told once about each version of    *)
(* the room, and about the start of a match, whoever claims it first: a    *)
(* version is told twice only when SHOW or REACTIVATE brought it back, who *)
(* tell of it themselves and clear the mark, and never a third time.  The  *)
(* release of a room is told to those who hold a seat, unless the          *)
(* notification failed or the process stopped.                             *)
ToldOnce ==
    /\ reminded <= 1
    /\ \A n \in 0..MaxArmings : Told(n) <= IF recall[n] = "none" THEN 1 ELSE 2
    /\ (room.released /\ ~rumour.lost /\ roomAudience # {}
           /\ \A x \in Claimer : claim[x].stage # "claimed") => announced[arming] = 1

(* schema.prisma:708, released means that these credentials unlocked: it   *)
(* is marked on a locked room only when an administrator changed the room  *)
(* or the event between the look and the claim.                            *)
ReleaseNotEarly == rumour.early => rumour.stirred

(* room.service.ts:403, no stale save "quietly re-arms credentials an      *)
(* admin deliberately pulled": a cancelled room comes back only by its     *)
(* re-activation.                                                          *)
CancelHolds ==
    [][room.cancelled /\ ~room'.cancelled => setRoomStatus("REACTIVATE")]_dayVars

(* All who hold a seat and did not come are recorded once the window shut, *)
(* if the event stays open and the window is not moved.                    *)
AbsencesRecorded == Due ~> (Absent = {} \/ event.status # "OPEN" \/ ~Shut)

(* A room that unlocked is released though nobody opens its page.          *)
RoomsReleased ==
    (Unlocked(room) /\ ~room.released) ~> (room.released \/ ~Unlocked(room))

=============================================================================
