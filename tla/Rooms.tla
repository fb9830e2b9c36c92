-------------------------------- MODULE Rooms --------------------------------
(***************************************************************************)
(* The room of a tournament (services/room.service.ts): administrators     *)
(* save, hide, show, cancel and re-activate it, and whoever finds it       *)
(* unlocked - a player who opens the page, or the scheduler - claims its   *)
(* release and announces it.                                               *)
(*                                                                         *)
(* A save reads the row and later writes all of its columns back; the      *)
(* switches are one guarded update.  A claimer decides from the row it     *)
(* read, and its claim is guarded only by the release mark.  The status    *)
(* column is a cache that every read derives again, and is left out.       *)
(***************************************************************************)
EXTENDS EventDay

CONSTANTS
    Lead,         \* minutes before the start at which a room unlocks
    Pins,         \* release instants an administrator pins
    RoomOps,      \* switches used: some of "HIDE", "SHOW", "CANCEL", "REACTIVATE"
    Saver,        \* requests that save the room
    Viewer,       \* room cards that players open
    Sweeper,      \* the processes that run the scheduler
    MaxArmings    \* bounds the versions announced

VARIABLES
    room,        \* the "tournament_rooms" row
    save,        \* the saves under way, with the row each has read
    claim,       \* the claims under way, with the arming each has claimed
    arming,      \* how often the release mark was cleared
    announced,   \* announcements of each arming by whoever claimed it
    recall,      \* what the switch that brought a room back told, by its arming
    rumour       \* what the properties remember: no action reads it

roomVars == <<room, save, claim, arming, announced, recall, rumour>>

\* released is the mark; filled is FALSE while there is no row.
RoomRow == [filled : BOOLEAN, pin : Time \union {Unset}, hidden : BOOLEAN,
            cancelled : BOOLEAN, released : BOOLEAN]

NoRoom == [filled |-> FALSE, pin |-> Unset, hidden |-> FALSE, cancelled |-> FALSE, released |-> FALSE]

Claimer == Viewer \union Sweeper

NotClaiming == [stage |-> "idle", of |-> 0]

ASSUME RoomAssumption ==
    /\ Lead \in Nat /\ Pins \subseteq Time /\ MaxArmings \in Nat
    /\ RoomOps \subseteq {"HIDE", "SHOW", "CANCEL", "REACTIVATE"}

-----------------------------------------------------------------------------
roomAudience == {p \in Player : seat[p].status = "CONFIRMED"}

releaseAt(r) == IF r.pin # Unset THEN r.pin ELSE event.start - Lead

\* resolveRoomState: a cancellation, an empty row and a hide come before the clock.
Unlocked(r) ==
    /\ ~r.cancelled /\ event.status # "CANCELLED"
    /\ r.filled /\ ~r.hidden
    /\ releaseAt(r) <= clock

\* A change under a claimer that has looked and not yet claimed.
Stirred == \E x \in Claimer : claim[x].stage = "looked"

\* The release mark is cleared, and a new announcement is due.
Rearm(yes) ==
    /\ yes => arming < MaxArmings
    /\ arming' = IF yes THEN arming + 1 ELSE arming

-----------------------------------------------------------------------------
BeginRoomSave(s) ==
    /\ save[s].stage = "idle" /\ ~room.cancelled
    /\ save' = [save EXCEPT ![s] = [stage |-> "read", seen |-> room]]
    /\ UNCHANGED <<eventVars, room, claim, arming, announced, recall, rumour>>

\* Mutant of Saved: the whole projected row is written, cancelledAt = null with it.
SavedWhole(seen, pin, hidden, changed) ==
    [filled |-> TRUE, pin |-> pin, hidden |-> hidden, cancelled |-> FALSE,
     released |-> room.released /\ ~changed]

\* The columns a save writes, those it was not sent taken from the row it read.
Saved(seen, pin, hidden, changed) ==
    [room EXCEPT !.filled = TRUE, !.pin = pin, !.hidden = hidden, !.released = @ /\ ~changed]

\* pin and hidden may be left as they were read; an empty row needs credentials.
setTournamentRoom(s) ==
    LET seen == save[s].seen
    IN  /\ save[s].stage = "read"
        /\ \E pin \in Pins \union {seen.pin, Unset}, hidden \in BOOLEAN, changed \in BOOLEAN :
              /\ ~seen.filled => changed
              /\ room' = Saved(seen, pin, hidden, changed)
              /\ Rearm(changed)
              /\ rumour' = [rumour EXCEPT !.stirred = @ \/ Stirred]
        /\ save' = [save EXCEPT ![s] = [stage |-> "idle", seen |-> NoRoom]]
        /\ UNCHANGED <<eventVars, claim, announced, recall>>

\* Each switch restates the state it is valid from; a room that was hidden, shown,
\* cancelled or re-activated already is left as it is.
Switched(op) ==
    CASE op = "HIDE" -> [room EXCEPT !.hidden = TRUE]
      [] op = "SHOW" -> [room EXCEPT !.hidden = FALSE, !.released = FALSE]
      [] op = "CANCEL" -> [room EXCEPT !.cancelled = TRUE, !.hidden = FALSE]
      [] op = "REACTIVATE" -> [room EXCEPT !.cancelled = FALSE, !.hidden = FALSE, !.released = FALSE]

SwitchGuard(op) ==
    \/ op = "HIDE" /\ ~room.hidden
    \/ op = "SHOW" /\ room.hidden
    \/ op = "CANCEL" /\ ~room.cancelled
    \/ op = "REACTIVATE" /\ room.cancelled

\* The switches that bring a room back; each owes its audience a word about it.
Recalls == {"SHOW", "REACTIVATE"}

setRoomStatus(op) ==
    /\ op \in RoomOps /\ room.filled /\ SwitchGuard(op)
    /\ room' = Switched(op)
    /\ Rearm(op \in Recalls)
    /\ recall' = IF op \in Recalls THEN [recall EXCEPT ![arming'] = "owed"] ELSE recall
    /\ rumour' = [rumour EXCEPT !.stirred = @ \/ Stirred]
    /\ UNCHANGED <<eventVars, save, claim, announced>>

\* The same request, after its commit: it tells the audience that the room is live again,
\* locked or not, and leaves the mark clear.
TellRecall(n) ==
    /\ recall[n] = "owed"
    /\ recall' = [recall EXCEPT ![n] = IF roomAudience = {} THEN "untold" ELSE "told"]
    /\ UNCHANGED <<eventVars, room, save, claim, arming, announced, rumour>>

\* The notification fails, or the process stops.
RecallFails(n) ==
    /\ recall[n] = "owed"
    /\ recall' = [recall EXCEPT ![n] = "untold"]
    /\ UNCHANGED <<eventVars, room, save, claim, arming, announced, rumour>>

-----------------------------------------------------------------------------
(***************************************************************************)
(* playerRoomView and releaseTournamentRooms, then claimRoomRelease        *)
(***************************************************************************)
\* Mutant of Releasable: a page claims before the state is looked at.
ReleasableEager(r) == r.filled

\* Mutant of Releasable: a room is released only at the instant it unlocks.
ReleasableAtInstant(r) == Unlocked(r) /\ releaseAt(r) = clock

Releasable(r) == Unlocked(r)

\* A player needs a seat; the sweep takes any room without a release mark.
Look(x) ==
    /\ claim[x].stage = "idle" /\ Releasable(room)
    /\ x \in Viewer => roomAudience # {}
    /\ x \in Sweeper => ~room.released
    /\ claim' = [claim EXCEPT ![x].stage = "looked"]
    /\ UNCHANGED <<eventVars, room, save, arming, announced, recall, rumour>>

\* Mutant of Claimable: the update is not guarded.
ClaimableAlways == TRUE

Claimable == ~room.released

\* One claimer wins, whatever became of the room since it looked.
claimRoomRelease(x) ==
    /\ claim[x].stage = "looked"
    /\ IF Claimable
       THEN /\ room' = [room EXCEPT !.released = TRUE]
            /\ claim' = [claim EXCEPT ![x] = [stage |-> "claimed", of |-> arming]]
            /\ rumour' = [rumour EXCEPT !.early = @ \/ ~Unlocked(room)]
       ELSE /\ claim' = [claim EXCEPT ![x] = NotClaiming]
            /\ UNCHANGED <<room, rumour>>
    /\ UNCHANGED <<eventVars, save, arming, announced, recall>>

\* Nobody is told when nobody holds a seat.
Announce(x) ==
    /\ claim[x].stage = "claimed"
    /\ announced' = IF roomAudience = {} THEN announced
                    ELSE [announced EXCEPT ![claim[x].of] = @ + 1]
    /\ claim' = [claim EXCEPT ![x] = NotClaiming]
    /\ UNCHANGED <<eventVars, room, save, arming, recall, rumour>>

\* The notification fails, or the process stops: the claim stands.
AnnounceFails(x) ==
    /\ claim[x].stage # "idle"
    /\ rumour' = [rumour EXCEPT !.lost = @ \/ claim[x].stage = "claimed"]
    /\ claim' = [claim EXCEPT ![x] = NotClaiming]
    /\ UNCHANGED <<eventVars, room, save, arming, announced, recall>>

-----------------------------------------------------------------------------
RoomInit ==
    /\ room = NoRoom
    /\ save = [s \in Saver |-> [stage |-> "idle", seen |-> NoRoom]]
    /\ claim = [x \in Claimer |-> NotClaiming]
    /\ arming = 0 /\ announced = [n \in 0..MaxArmings |-> 0]
    /\ recall = [n \in 0..MaxArmings |-> "none"]
    /\ rumour = [stirred |-> FALSE, early |-> FALSE, lost |-> FALSE]

\* What staff and players do; the scheduler sweeps.
RoomNext ==
    \/ \E s \in Saver : BeginRoomSave(s) \/ setTournamentRoom(s)
    \/ \E op \in RoomOps : setRoomStatus(op)
    \/ \E n \in 0..MaxArmings : TellRecall(n)
    \/ \E x \in Viewer : Look(x) \/ claimRoomRelease(x) \/ Announce(x)

RoomTypeOK ==
    /\ room \in RoomRow
    /\ save \in [Saver -> [stage : {"idle", "read"}, seen : RoomRow]]
    /\ claim \in [Claimer -> [stage : {"idle", "looked", "claimed"}, of : 0..MaxArmings]]
    /\ arming \in 0..MaxArmings /\ announced \in [0..MaxArmings -> Nat]
    /\ recall \in [0..MaxArmings -> {"none", "owed", "told", "untold"}]
    /\ rumour \in [stirred : BOOLEAN, early : BOOLEAN, lost : BOOLEAN]

=============================================================================
