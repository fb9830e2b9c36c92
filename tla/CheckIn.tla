------------------------------- MODULE CheckIn -------------------------------
(***************************************************************************)
(* Attendance (services/checkin.service.ts): players check in while the    *)
(* window is open, staff at the desk at any time, and the scheduler marks  *)
(* the absent once the window has shut.  A check-in judges the window      *)
(* before its guarded write; the pass of the scheduler reads whom it will  *)
(* name, marks whoever is then absent, and audits as many of the names as  *)
(* it marked.                                                              *)
(***************************************************************************)
EXTENDS EventDay

CONSTANTS
    CheckReq,     \* check-in requests of players
    CheckOwner,   \* whose they are
    Windows,      \* what the organiser sets: [opens, closes], Unset for derived
    DeskOps,      \* what staff do: some of "check in", "mark"
    Worker        \* the processes that run the scheduler

VARIABLES
    window,    \* checkInOpensAt and checkInClosesAt
    checkin,   \* the check-in requests
    pass,      \* the no-show pass of each worker
    audits,    \* CHECK_IN_NO_SHOW_MARKED rows, by the player they name
    crossed    \* whether a seat changed between the read and the mark of a pass

checkInVars == <<window, checkin, pass, audits, crossed>>

IdlePass == [stage |-> "idle", seen |-> {}, marked |-> 0]

PassRow == [stage : {"idle", "read", "marked"}, seen : SUBSET Player, marked : 0..Cardinality(Player)]

ASSUME CheckInAssumption ==
    /\ CheckOwner \in [CheckReq -> Player]
    /\ Windows \subseteq [opens : Time \union {Unset}, closes : Time \union {Unset}]
    /\ DeskOps \subseteq {"check in", "mark"}
    /\ IsFiniteSet(Worker)

-----------------------------------------------------------------------------
(* resolveCheckInWindow *)
opensAt(w) == IF w.opens = Unset THEN Deadline ELSE w.opens
closesAt(w) == IF w.closes = Unset THEN event.start ELSE w.closes

Misconfigured(w) == closesAt(w) <= opensAt(w)

Open(w) == ~Misconfigured(w) /\ opensAt(w) <= clock /\ clock < closesAt(w)

\* The window has shut, and not at this very instant.
Shut == closesAt(window) < clock

\* A seat that nobody has checked in or marked.
Missing(r) == r.status = "CONFIRMED" /\ r.checkedIn = Unset /\ r.noShow = Unset

Absent == {p \in Player : Missing(seat[p])}

\* A change of these seats under a pass that has read and not yet marked.
CrossedBy(players) ==
    crossed' = (crossed \/ \E w \in Worker : pass[w].stage = "read" /\ pass[w].seen \intersect players # {})

-----------------------------------------------------------------------------
\* The projected window is refused when it would close before it opens.
setCheckInWindow(w) ==
    /\ w \in Windows /\ w # window /\ ~Misconfigured(w)
    /\ window' = w
    /\ UNCHANGED <<eventVars, checkin, pass, audits, crossed>>

BeginCheckIn(c) ==
    LET r == seat[CheckOwner[c]]
    IN  /\ checkin[c].stage = "idle"
        /\ event.status = "OPEN" /\ Open(window)
        /\ r.status = "CONFIRMED" /\ r.checkedIn = Unset
        /\ checkin' = [checkin EXCEPT ![c] = [stage |-> "judged", at |-> clock]]
        /\ UNCHANGED <<eventVars, window, pass, audits, crossed>>

\* The write is guarded: a request that finds the seat taken care of changes nothing.
checkIn(c) ==
    LET p == CheckOwner[c]
        lands == seat[p].status = "CONFIRMED" /\ seat[p].checkedIn = Unset
    IN  /\ checkin[c].stage = "judged"
        /\ checkin' = [checkin EXCEPT ![c].stage = "done"]
        /\ seat' = IF lands THEN [seat EXCEPT ![p].checkedIn = checkin[c].at] ELSE seat
        /\ CrossedBy(IF lands THEN {p} ELSE {})
        /\ UNCHANGED <<event, clock, window, pass, audits>>

adminCheckIn(p) ==
    /\ "check in" \in DeskOps /\ event.status # "CANCELLED"
    /\ seat[p].status = "CONFIRMED" /\ seat[p].checkedIn = Unset
    /\ seat' = [seat EXCEPT ![p].checkedIn = clock]
    /\ CrossedBy({p})
    /\ UNCHANGED <<event, clock, window, checkin, pass, audits>>

\* Whatever the status of the seat, and also of a player who checked in.
adminMarkNoShow(p) ==
    /\ "mark" \in DeskOps /\ seat[p].noShow = Unset
    /\ seat' = [seat EXCEPT ![p].noShow = clock]
    /\ audits' = [audits EXCEPT ![p] = @ + 1]
    /\ CrossedBy({p})
    /\ UNCHANGED <<event, clock, window, checkin, pass>>

-----------------------------------------------------------------------------
(***************************************************************************)
(* markNoShows                                                             *)
(***************************************************************************)
Due == event.status = "OPEN" /\ Shut /\ Absent # {}

ReadAbsent(w) ==
    /\ pass[w].stage = "idle" /\ Due
    /\ pass' = [pass EXCEPT ![w] = [IdlePass EXCEPT !.stage = "read", !.seen = Absent]]
    /\ UNCHANGED <<eventVars, window, checkin, audits, crossed>>

\* Mutant of Markable: the update asks for seats that carry a mark.
MarkableMarked == {p \in Player : seat[p].status = "CONFIRMED" /\ seat[p].noShow # Unset}

\* Whom the update marks: not only those that were read.
Markable == Absent

\* Mutant of AfterMark: the pass ends without its audit rows.
AfterMarkSilent(s, n) == IdlePass

\* A pass that marked nobody has nothing to audit.
AfterMark(s, n) == IF n = 0 THEN IdlePass ELSE [stage |-> "marked", seen |-> s, marked |-> n]

MarkAbsent(w) ==
    /\ pass[w].stage = "read"
    /\ seat' = [p \in Player |-> IF p \in Markable THEN [seat[p] EXCEPT !.noShow = clock] ELSE seat[p]]
    /\ pass' = [pass EXCEPT ![w] = AfterMark(pass[w].seen, Cardinality(Markable))]
    /\ crossed' = (crossed \/ \E v \in Worker \ {w} :
                       pass[v].stage = "read" /\ pass[v].seen \intersect Markable # {})
    /\ UNCHANGED <<event, clock, window, checkin, audits>>

\* The first of those that were read, in the order the database returned them.
Named(w, names) ==
    /\ names \subseteq pass[w].seen
    /\ \/ Cardinality(names) = pass[w].marked
       \/ names = pass[w].seen /\ Cardinality(names) < pass[w].marked

AuditAbsent(w) ==
    /\ pass[w].stage = "marked"
    /\ \E names \in SUBSET Player :
          /\ Named(w, names)
          /\ audits' = [p \in Player |-> IF p \in names THEN audits[p] + 1 ELSE audits[p]]
    /\ pass' = [pass EXCEPT ![w] = IdlePass]
    /\ UNCHANGED <<eventVars, window, checkin, crossed>>

-----------------------------------------------------------------------------
CheckInInit ==
    /\ window = [opens |-> Unset, closes |-> Unset]
    /\ checkin = [c \in CheckReq |-> [stage |-> "idle", at |-> 0]]
    /\ pass = [w \in Worker |-> IdlePass]
    /\ audits = [p \in Player |-> 0]
    /\ crossed = FALSE

\* What players and staff do; the scheduler runs the pass.
CheckInNext ==
    \/ \E w \in Windows : setCheckInWindow(w)
    \/ \E c \in CheckReq : BeginCheckIn(c) \/ checkIn(c)
    \/ \E p \in Player : adminCheckIn(p) \/ adminMarkNoShow(p)

CheckInTypeOK ==
    /\ window \in Windows \union {[opens |-> Unset, closes |-> Unset]}
    /\ checkin \in [CheckReq -> [stage : {"idle", "judged", "done"}, at : Time]]
    /\ pass \in [Worker -> PassRow]
    /\ audits \in [Player -> Nat]
    /\ crossed \in BOOLEAN

=============================================================================
