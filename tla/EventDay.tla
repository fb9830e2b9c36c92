------------------------------ MODULE EventDay ------------------------------
(***************************************************************************)
(* What the check-in desk, the room board and the scheduler share on the   *)
(* day of a tournament: its row, its registrations and the clock.          *)
(***************************************************************************)
EXTENDS Integers, FiniteSets

CONSTANTS
    Player,      \* those who registered
    Holders,     \* who may still hold a seat when the day begins
    Deadline,    \* registrationDeadline
    Starts,      \* values of startTime
    EventEnds,   \* how the event may end: some of "CANCELLED", "COMPLETED"
    MaxClock     \* bounds the clock

VARIABLES
    event,   \* "tournaments": OPEN stands for REGISTRATION_OPEN and LIVE
    seat,    \* "tournament_registrations", by player
    clock

eventVars == <<event, seat, clock>>

Unset == MaxClock + 1

Time == 0..MaxClock

EventRow == [status : {"OPEN", "CANCELLED", "COMPLETED"}, start : Starts]

SeatRow == [status : {"CONFIRMED", "REFUNDED"}, checkedIn : Time \union {Unset},
            noShow : Time \union {Unset}]

ASSUME EventAssumption ==
    /\ IsFiniteSet(Player) /\ Holders \subseteq SUBSET Player /\ MaxClock \in Nat
    /\ Deadline \in Time /\ Starts \subseteq Deadline..MaxClock /\ Starts # {}
    /\ EventEnds \subseteq {"CANCELLED", "COMPLETED"}

Pass ==
    /\ clock < MaxClock
    /\ clock' = clock + 1
    /\ UNCHANGED <<event, seat>>

\* updateTournament, of an event that is not over.  Only while registration is open
\* must the new start lie in the future, and OPEN stands for a live event too.
MoveStart(s) ==
    /\ event.status = "OPEN" /\ s # event.start
    /\ event' = [event EXCEPT !.start = s]
    /\ UNCHANGED <<seat, clock>>

Refunded(r) == IF r.status = "CONFIRMED" THEN [r EXCEPT !.status = "REFUNDED"] ELSE r

\* setTournamentStatus: a cancellation refunds every confirmed seat with it.
EndEvent(s) ==
    /\ event.status = "OPEN" /\ s \in EventEnds
    /\ event' = [event EXCEPT !.status = s]
    /\ seat' = IF s = "CANCELLED" THEN [p \in Player |-> Refunded(seat[p])] ELSE seat
    /\ clock' = clock

EventInit ==
    /\ event \in [status : {"OPEN"}, start : Starts]
    /\ \E held \in Holders :
          seat = [p \in Player |-> [status |-> IF p \in held THEN "CONFIRMED" ELSE "REFUNDED",
                                   checkedIn |-> Unset, noShow |-> Unset]]
    /\ clock = 0

EventNext == Pass \/ (\E s \in Starts : MoveStart(s)) \/ (\E s \in EventEnds : EndEvent(s))

EventTypeOK == event \in EventRow /\ seat \in [Player -> SeatRow] /\ clock \in Time

=============================================================================
