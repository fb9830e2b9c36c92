----------------------------- MODULE MCMatchDay -----------------------------
(* Two players, one of whom checks in from the page; the deadline is at 0   *)
(* and the start at 1.                                                      *)
EXTENDS MatchDay

CONSTANTS ann, bob, c1, w1, v1, a1

\* Both players hold a seat, or nobody does any more.
MCHolders == {{ann, bob}, {}}

MCOwner == [c \in CheckReq |-> ann]

Derived == [opens |-> Unset, closes |-> Unset]

\* The derived window, and one that stays open for one more tick.
MCWindows == {Derived, [opens |-> Unset, closes |-> 2]}

Untouched ==
    /\ window = Derived /\ ~crossed
    /\ \A c \in CheckReq : checkin[c].stage = "idle"
    /\ \A p \in Player : seat[p].checkedIn = Unset
    /\ \A p, q \in Player : seat[p].noShow = seat[q].noShow
    /\ (Shut /\ event.status = "OPEN") \/ \A p \in Player : seat[p].noShow = Unset

\* Bound: what players and staff do about attendance is explored while there is no room,
\* no save of one, no failure and no other start, beside which only the scheduler marks seats.
MCBound ==
    \/ Untouched
    \/ ~room.filled /\ event.start = 1 /\ crashes = 0 /\ \A s \in Saver : save[s].stage = "idle"
=============================================================================
