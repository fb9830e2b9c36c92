------------------------------ MODULE Entries -------------------------------
(***************************************************************************)
(* Paid tournament entries: joining, seats, cancellation and refunds       *)
(* (services/tournament.service.ts, slot.service.ts, admin.service.ts),    *)
(* and the teams that enter (services/team.service.ts), for tournaments of *)
(* one mode.                                                               *)
(*                                                                         *)
(* A join reads the tournament and the team, then opens a transaction that *)
(* locks the tournament row and the team row, decides again on what it     *)
(* reads there, and charges every player of the entry.  Cancellations and  *)
(* seat operations take the tournament lock, team operations the team      *)
(* lock.  A transaction that is one step here does nothing between taking  *)
(* its lock and committing that another one could see.  Joins and pairings *)
(* are split, since rows they do not lock can change meanwhile (a coupon   *)
(* used in another tournament, a team joined by a player being paired),    *)
(* and so are the staff operations that check before they lock.            *)
(***************************************************************************)
EXTENDS Wallet, FiniteSets, FiniteSetsExt

CONSTANTS
    Tour,          \* tournaments, all of one mode
    TeamSize,      \* players per team of that mode, 1 for solo modes
    Team,          \* team ids
    NoTeam,        \* no team
    NoUser,        \* the captain of a team that does not exist
    FirstTeams,    \* the teams that exist at the start: captain and members
    Fee,           \* entryFeePerPlayer
    RefundPercent, \* refundPercent of the tournaments
    SlotChoice,    \* the values staff give maxSlots
    JoinReq,       \* join requests
    JoinAttempts,  \* attempts of withIdempotentRetry
    CouponChoice,  \* whether requests carry the coupon code
    CouponLimit,   \* usageLimit of the coupon
    CouponDiscount,\* what the coupon takes off the joining player's fee
    Staff,         \* concurrent staff requests on seats
    StaffOps,      \* the kinds of staff requests on seats that are made
    Suspendable    \* the users whose status admins change

VARIABLES
    tours,     \* "tournaments"
    regs,      \* "tournament_registrations", by tournament and player
    teams,     \* "teams" and "team_members"
    couponUsed,  \* coupons.usedCount
    redeemed,    \* "coupon_redemptions" of the coupon: who redeemed it, in which tournament
    joins,     \* the progress of each join request
    staff,     \* the progress of each staff request
    suspended  \* the users whose status is not ACTIVE

entryVars == <<tours, regs, teams, couponUsed, redeemed, joins, staff, suspended>>
enVars == <<walletVars, entryVars>>

TourStatus == {"DRAFT", "REGISTRATION_OPEN", "LIVE", "COMPLETED", "CANCELLED"}

TourRow == [status : TourStatus, deadlinePassed : BOOLEAN,
            maxSlots : Nat, registeredSlots : Int]

NoReg == [status |-> "NONE", team |-> NoTeam, seat |-> 0, locked |-> FALSE,
          amount |-> 0, roster |-> {}, fee |-> 0]

\* Seat 0 is a null seatNumber; fee is the place of the charge in the ledger.
RegRow == [status : {"NONE", "CONFIRMED", "REFUNDED"}, team : Team \union {NoTeam},
           seat : Nat, locked : BOOLEAN, amount : Nat, roster : SUBSET User, fee : Nat]

TeamRow == [captain : User \union {NoUser}, members : SUBSET User]

Join == [stage : {"new", "preflight", "ready", "open", "done"}, user : User, tour : Tour,
         team : Team \union {NoTeam}, coupon : BOOLEAN, attempt : 0..JoinAttempts,
         payers : SUBSET User, slots : Nat, seen : Nat,
         answer : {"none", "joined", "refused", "busy"}]

StaffRequest == [op : {"idle", "assign", "resize", "pair"}, tour : Tour,
                 users : SUBSET User, slot : Nat]

ASSUME EntryAssumption ==
    /\ IsFiniteSet(User)
    /\ Tour \subseteq Ref /\ Tour # {} /\ IsFiniteSet(Tour)
    /\ TeamSize \in Nat \ {0}
    /\ NoTeam \notin Team /\ NoUser \notin User
    /\ FirstTeams \in [Team -> TeamRow]
    /\ Fee \in Nat
    /\ RefundPercent \in 0..100
    /\ SlotChoice \subseteq Nat \ {0}
    /\ JoinAttempts \in Nat \ {0}
    /\ CouponChoice \subseteq BOOLEAN
    /\ CouponLimit \in Nat /\ CouponDiscount \in 0..Fee
    /\ StaffOps \subseteq {"assign", "clear", "lock", "resize", "pair"}
    /\ Suspendable \subseteq User

Confirmed(t) == {u \in User : regs[t][u].status = "CONFIRMED"}

TeamExists(T) == teams[T].captain # NoUser

\* The tournament and team rows that an open transaction has locked.
TourFree(t) ==
    /\ \A j \in JoinReq : joins[j].stage = "open" => joins[j].tour # t
    /\ \A s \in Staff : staff[s].op = "pair" => staff[s].tour # t
TeamFree(T) == \A j \in JoinReq : joins[j].stage = "open" => joins[j].team # T

\* One movement for each of several users, as a transaction that makes them all.
PostEach(bk, us, m(_)) ==
    [bal |-> [u \in User |-> IF u \in us THEN Post(bk, m(u)).bal[u] ELSE bk.bal[u]],
     log |-> [u \in User |-> IF u \in us THEN Post(bk, m(u)).log[u] ELSE bk.log[u]]]

-----------------------------------------------------------------------------
(***************************************************************************)
(* joinTournament                                                          *)
(***************************************************************************)
SubmitJoin(j) ==
    /\ joins[j].stage = "new"
    /\ joins' = [joins EXCEPT ![j].stage = "preflight", ![j].attempt = 1]
    /\ UNCHANGED <<walletVars, tours, regs, teams, couponUsed, redeemed, staff, suspended>>

\* A team entry; a player without a team enters a team mode alone and is paired.
AsTeam(j) == TeamSize > 1 /\ joins[j].team # NoTeam

\* The team can enter: asked for by its captain, complete, and all active.
TeamReady(j) ==
    LET row == teams[joins[j].team]
    IN  /\ row.captain = joins[j].user
        /\ Cardinality(row.members) = TeamSize
        /\ row.members \intersect suspended = {}

FinishJoin(j, answer) ==
    joins' = [joins EXCEPT ![j].stage = "done", ![j].answer = answer]

\* joinTournamentOnce, before its transaction.
PreflightJoin(j) ==
    LET r == joins[j]
        t == tours[r.tour]
        welcome == /\ t.status = "REGISTRATION_OPEN" /\ ~t.deadlinePassed
                   /\ r.user \notin suspended
                   /\ AsTeam(j) => TeamReady(j)
        payers == IF AsTeam(j) THEN teams[r.team].members ELSE {r.user}
    IN  /\ r.stage = "preflight"
        /\ IF welcome
           THEN joins' = [joins EXCEPT ![j].stage = "ready", ![j].payers = payers,
                                       ![j].slots = t.maxSlots]
           ELSE FinishJoin(j, "refused")
        /\ UNCHANGED <<walletVars, tours, regs, teams, couponUsed, redeemed, staff, suspended>>

Taken(t) == {regs[t][u].seat : u \in Confirmed(t)}

FreeSeats(t, slots) == (1..slots) \ Taken(t)

\* A player redeems the coupon once, whatever the tournament.
HasRedeemed(u) == \E d \in redeemed : d.user = u

\* Mutant of Admissible: no player is checked for an entry of their own.
AdmissibleTwice(j) ==
    LET r == joins[j]
        t == tours[r.tour]
    IN  /\ AsTeam(j) => TeamReady(j) /\ teams[r.team].members = r.payers
        /\ t.status = "REGISTRATION_OPEN" /\ ~t.deadlinePassed
        /\ t.registeredSlots < t.maxSlots
        /\ FreeSeats(r.tour, r.slots) # {}
        /\ r.coupon => couponUsed < CouponLimit /\ ~HasRedeemed(r.user)

\* What runJoin decides under the tournament and team locks.
Admissible(j) ==
    LET r == joins[j]
        t == tours[r.tour]
    IN  /\ AsTeam(j) => TeamReady(j) /\ teams[r.team].members = r.payers
        /\ r.payers \intersect Confirmed(r.tour) = {}
        /\ t.status = "REGISTRATION_OPEN" /\ ~t.deadlinePassed
        /\ t.registeredSlots < t.maxSlots
        /\ FreeSeats(r.tour, r.slots) # {}
        /\ r.coupon => couponUsed < CouponLimit /\ ~HasRedeemed(r.user)

\* Mutant of OpenJoin: the tournament is held only while a seat is found.
OpenJoinUnlocked(j) ==
    /\ joins[j].stage = "ready"
    /\ Cardinality({k \in JoinReq : joins[k].stage = "open" /\ joins[k].tour = joins[j].tour})
           < Cardinality(FreeSeats(joins[j].tour, joins[j].slots))
    /\ AsTeam(j) => TeamFree(joins[j].team)
    /\ IF Admissible(j)
       THEN joins' = [joins EXCEPT ![j].stage = "open", ![j].seen = couponUsed]
       ELSE FinishJoin(j, "refused")
    /\ UNCHANGED <<walletVars, tours, regs, teams, couponUsed, redeemed, staff, suspended>>

\* The start of runJoin's transaction, up to the read of the coupon.
OpenJoin(j) ==
    /\ joins[j].stage = "ready"
    /\ TourFree(joins[j].tour)
    /\ AsTeam(j) => TeamFree(joins[j].team)
    /\ IF Admissible(j)
       THEN joins' = [joins EXCEPT ![j].stage = "open", ![j].seen = couponUsed]
       ELSE FinishJoin(j, "refused")
    /\ UNCHANGED <<walletVars, tours, regs, teams, couponUsed, redeemed, staff, suspended>>

Payable(j, u) ==
    IF joins[j].coupon /\ u = joins[j].user THEN Fee - CouponDiscount ELSE Fee

EntryDebit(j, u) == Debit(u, "CASH", Payable(j, u), "ENTRY_FEE", joins[j].tour)

Charge(j) == PostEach(Books, joins[j].payers, LAMBDA u : EntryDebit(j, u))

\* The conditional increment compares usageLimit with the count read before.
CouponGranted(j) ==
    joins[j].coupon => CouponLimit > joins[j].seen /\ ~HasRedeemed(joins[j].user)

Chargeable(j) ==
    /\ CouponGranted(j)
    /\ \A u \in joins[j].payers : CanMove(Books, EntryDebit(j, u))

\* A row is created, or a cancelled one revived; only a team entry sets the roster.
NewReg(j, u) ==
    LET r == joins[j]
    IN  [status |-> "CONFIRMED", team |-> IF AsTeam(j) THEN r.team ELSE NoTeam,
         seat |-> Min(FreeSeats(r.tour, r.slots)), locked |-> FALSE,
         amount |-> Payable(j, u),
         roster |-> IF AsTeam(j) THEN r.payers ELSE regs[r.tour][u].roster,
         fee |-> Len(ledger[u]["CASH"]) + 1]

CouponUses(j) == IF joins[j].coupon THEN 1 ELSE 0

WriteEntry(j) ==
    LET r == joins[j]
    IN  /\ r.stage = "open"
        /\ \A u \in r.payers : RowFree(u, NoTxn)
        /\ Chargeable(j)
        /\ Commit(Charge(j))
        /\ tours' = [tours EXCEPT ![r.tour].registeredSlots = @ + 1]
        /\ regs' = [regs EXCEPT ![r.tour] =
               [u \in User |-> IF u \in r.payers THEN NewReg(j, u) ELSE @[u]]]
        /\ couponUsed' = couponUsed + CouponUses(j)
        /\ redeemed' = redeemed \union
               IF r.coupon THEN {[user |-> r.user, tour |-> r.tour]} ELSE {}
        /\ UNCHANGED <<rowLock, teams, staff, suspended>>

CommitJoin(j) == WriteEntry(j) /\ FinishJoin(j, "joined")

\* A balance that is too low, a fee of zero, or a coupon spent meanwhile.
RefuseJoin(j) ==
    /\ joins[j].stage = "open"
    /\ \A u \in joins[j].payers : RowFree(u, NoTxn)
    /\ ~Chargeable(j)
    /\ FinishJoin(j, "refused")
    /\ UNCHANGED <<walletVars, tours, regs, teams, couponUsed, redeemed, staff, suspended>>

\* runJoinWithRetry repeats the transaction with what the preflight read, the
\* retry around it repeats the preflight.
RetryJoin(j) ==
    IF joins[j].attempt < JoinAttempts
    THEN \E stage \in {"ready", "preflight"} :
             joins' = [joins EXCEPT ![j].stage = stage, ![j].attempt = @ + 1, ![j].seen = 0]
    ELSE FinishJoin(j, "busy")

\* The commit succeeds but its response is lost (P2039).
JoinResponseLost(j) == WriteEntry(j) /\ RetryJoin(j)

JoinFails(j) ==
    /\ joins[j].stage \in {"ready", "open"}
    /\ RetryJoin(j)
    /\ UNCHANGED <<walletVars, tours, regs, teams, couponUsed, redeemed, staff, suspended>>

-----------------------------------------------------------------------------
(***************************************************************************)
(* Refunds: cancelRegistration and setTournamentStatus                     *)
(***************************************************************************)
RefundCredit(t, u) ==
    Credit(u, "CASH", (regs[t][u].amount * RefundPercent + 50) \div 100, "ENTRY_REFUND", t)

Refunded(t, us) ==
    [regs EXCEPT ![t] = [u \in User |-> IF u \in us THEN [@[u] EXCEPT !.status = "REFUNDED"]
                                                    ELSE @[u]]]

\* A refund that comes to nothing is skipped.
PayRefunds(t, us) ==
    LET paid == {u \in us : RefundCredit(t, u).amount > 0}
    IN  /\ \A u \in paid : RowFree(u, NoTxn)
        /\ Commit(PostEach(Books, paid, LAMBDA u : RefundCredit(t, u)))
        /\ regs' = Refunded(t, us)
        /\ UNCHANGED rowLock

\* Mutant of CancelRegistration: one slot is given back for every player.
CancelFreesPerPlayer(t, u) ==
    LET mine == regs[t][u]
        isTeam == TeamSize > 1 /\ mine.team # NoTeam
        targets == IF isTeam THEN {v \in Confirmed(t) : regs[t][v].team = mine.team} ELSE {u}
    IN  /\ TourFree(t)
        /\ \/ tours[t].status = "LIVE"
           \/ tours[t].status = "REGISTRATION_OPEN" /\ ~tours[t].deadlinePassed
        /\ u \in Confirmed(t)
        /\ isTeam => teams[mine.team].captain = u
        /\ PayRefunds(t, targets)
        /\ tours' = [tours EXCEPT ![t].registeredSlots = @ - Cardinality(targets)]
        /\ UNCHANGED <<teams, couponUsed, redeemed, joins, staff, suspended>>

CancelRegistration(t, u) ==
    LET mine == regs[t][u]
        isTeam == TeamSize > 1 /\ mine.team # NoTeam
        targets == IF isTeam THEN {v \in Confirmed(t) : regs[t][v].team = mine.team} ELSE {u}
    IN  /\ TourFree(t)
        /\ \/ tours[t].status = "LIVE"
           \/ tours[t].status = "REGISTRATION_OPEN" /\ ~tours[t].deadlinePassed
        /\ u \in Confirmed(t)
        /\ isTeam => teams[mine.team].captain = u
        /\ PayRefunds(t, targets)
        /\ tours' = [tours EXCEPT ![t].registeredSlots = @ - 1]
        /\ UNCHANGED <<teams, couponUsed, redeemed, joins, staff, suspended>>

Transitions == [DRAFT |-> {"REGISTRATION_OPEN", "CANCELLED"},
                REGISTRATION_OPEN |-> {"LIVE", "CANCELLED"},
                LIVE |-> {"COMPLETED", "CANCELLED"}, COMPLETED |-> {}, CANCELLED |-> {}]

\* A cancelled tournament refunds every confirmed entry.
SetTournamentStatus(t, status) ==
    /\ TourFree(t)
    /\ status \in Transitions[tours[t].status]
    /\ IF status = "CANCELLED" THEN PayRefunds(t, Confirmed(t))
                               ELSE UNCHANGED <<walletVars, regs>>
    /\ tours' = [tours EXCEPT ![t].status = status]
    /\ UNCHANGED <<teams, couponUsed, redeemed, joins, staff, suspended>>

PassDeadline(t) ==
    /\ ~tours[t].deadlinePassed
    /\ tours' = [tours EXCEPT ![t].deadlinePassed = TRUE]
    /\ UNCHANGED <<walletVars, regs, teams, couponUsed, redeemed, joins, staff, suspended>>

-----------------------------------------------------------------------------
(***************************************************************************)
(* Seats (slot.service.ts) and capacity (updateTournament)                 *)
(***************************************************************************)
StaffIdle == [op |-> "idle", tour |-> CHOOSE t \in Tour : TRUE, users |-> {}, slot |-> 0]

BeginStaff(s, op, t, us, slot) ==
    /\ op \in StaffOps
    /\ staff[s].op = "idle"
    /\ staff' = [staff EXCEPT ![s] = [op |-> op, tour |-> t, users |-> us, slot |-> slot]]
    /\ UNCHANGED <<walletVars, tours, regs, teams, couponUsed, redeemed, joins, suspended>>

EndStaff(s) ==
    /\ staff' = [staff EXCEPT ![s] = StaffIdle]
    /\ UNCHANGED <<walletVars, couponUsed, redeemed, joins, suspended>>

\* The registrations that move with u's: those of its team.
Group(t, u) ==
    IF regs[t][u].team = NoTeam THEN {u}
    ELSE {v \in Confirmed(t) : regs[t][v].team = regs[t][u].team}

Reseated(t, us, seat) ==
    [regs EXCEPT ![t] = [u \in User |-> IF u \in us THEN [@[u] EXCEPT !.seat = seat] ELSE @[u]]]

\* assignSlot: the checks before the transaction.
BeginAssign(s, t, u, slot) ==
    /\ u \in Confirmed(t)
    /\ slot <= tours[t].maxSlots
    /\ ~regs[t][u].locked
    /\ BeginStaff(s, "assign", t, {u}, slot)

\* Mutant of SeatFreeFor: lone players are not asked for their seats.
SeatFreeOfTeams(t, group, slot) ==
    \A v \in Confirmed(t) \ group : regs[t][v].team # NoTeam => regs[t][v].seat # slot

SeatFreeFor(t, group, slot) ==
    \A v \in Confirmed(t) \ group : regs[t][v].seat # slot

EndAssign(s) ==
    LET r == staff[s]
        u == CHOOSE v \in r.users : TRUE
        group == Group(r.tour, u)
        allowed == /\ u \in Confirmed(r.tour)
                   /\ \A v \in group : ~regs[r.tour][v].locked
                   /\ SeatFreeFor(r.tour, group, r.slot)
    IN  /\ r.op = "assign"
        /\ TourFree(r.tour)
        /\ regs' = IF allowed THEN Reseated(r.tour, group, r.slot) ELSE regs
        /\ EndStaff(s)
        /\ UNCHANGED <<tours, teams>>

\* Mutant of ClearSlot: the locks of the player's teammates are not asked.
ClearSlotOfOne(t, u) ==
    /\ "clear" \in StaffOps
    /\ TourFree(t)
    /\ regs[t][u].seat # 0
    /\ ~regs[t][u].locked
    /\ regs' = Reseated(t, Group(t, u), 0)
    /\ UNCHANGED <<walletVars, tours, teams, couponUsed, redeemed, joins, staff, suspended>>

ClearSlot(t, u) ==
    /\ "clear" \in StaffOps
    /\ TourFree(t)
    /\ regs[t][u].seat # 0
    /\ ~regs[t][u].locked /\ \A v \in Group(t, u) : ~regs[t][v].locked
    /\ regs' = Reseated(t, Group(t, u), 0)
    /\ UNCHANGED <<walletVars, tours, teams, couponUsed, redeemed, joins, staff, suspended>>

SetSlotLock(t, u, locked) ==
    /\ "lock" \in StaffOps
    /\ TourFree(t)
    /\ regs[t][u].status # "NONE"
    /\ regs' = [regs EXCEPT ![t] =
           [v \in User |-> IF v \in Group(t, u) THEN [@[v] EXCEPT !.locked = locked] ELSE @[v]]]
    /\ UNCHANGED <<walletVars, tours, teams, couponUsed, redeemed, joins, staff, suspended>>

\* updateTournament: the floor of the capacity is read outside the transaction.
BeginResize(s, t, slots) ==
    /\ tours[t].status \in {"DRAFT", "REGISTRATION_OPEN"}
    /\ \A u \in Confirmed(t) : regs[t][u].seat <= slots
    /\ BeginStaff(s, "resize", t, {}, slots)

EndResize(s) ==
    /\ staff[s].op = "resize"
    /\ TourFree(staff[s].tour)
    /\ tours' = [tours EXCEPT ![staff[s].tour].maxSlots = staff[s].slot]
    /\ EndStaff(s)
    /\ UNCHANGED <<regs, teams>>

-----------------------------------------------------------------------------
(***************************************************************************)
(* Pairing of lone entrants, and the team operations of players            *)
(***************************************************************************)
InTeam(u) == \E T \in Team : u \in teams[T].members

\* pairIndependentTeam up to the check that nobody has a team of the mode; the
\* players' rows are not locked.
BeginPair(s, t, us) ==
    /\ TourFree(t)
    /\ TeamSize > 1 /\ Cardinality(us) = TeamSize
    /\ us \subseteq Confirmed(t) \ suspended
    /\ \A u \in us : regs[t][u].team = NoTeam /\ ~InTeam(u)
    /\ BeginStaff(s, "pair", t, us, 0)

EndPair(s) ==
    LET r == staff[s]
    IN  /\ r.op = "pair"
        /\ \E T \in Team, captain \in r.users :
               /\ ~TeamExists(T)
               /\ teams' = [teams EXCEPT ![T] = [captain |-> captain, members |-> r.users]]
               /\ regs' = [regs EXCEPT ![r.tour] =
                      [u \in User |-> IF u \in r.users
                                      THEN [@[u] EXCEPT !.team = T, !.roster = r.users]
                                      ELSE @[u]]]
        /\ EndStaff(s)
        /\ UNCHANGED tours

\* Mutant of RosterMutable: rosters change while an entry is running.
RosterAlwaysMutable(T) == TRUE

\* assertTeamRosterMutable
RosterMutable(T) ==
    \A t \in Tour : tours[t].status \in {"REGISTRATION_OPEN", "LIVE"} =>
        \A u \in Confirmed(t) : regs[t][u].team # T

ChangeTeam(T, row) ==
    /\ TeamFree(T)
    /\ teams' = [teams EXCEPT ![T] = row]
    /\ UNCHANGED <<walletVars, tours, regs, couponUsed, redeemed, joins, staff, suspended>>

CreateTeam(u, T) ==
    /\ u \notin suspended /\ ~InTeam(u) /\ ~TeamExists(T)
    /\ ChangeTeam(T, [captain |-> u, members |-> {u}])

\* joinByCode, and respondInvite, which makes the same checks.
JoinTeam(u, T) ==
    /\ u \notin suspended /\ ~InTeam(u) /\ TeamExists(T)
    /\ Cardinality(teams[T].members) < TeamSize
    /\ RosterMutable(T)
    /\ ChangeTeam(T, [teams[T] EXCEPT !.members = @ \union {u}])

\* removeMember by the captain, leaveTeam by the member.
LeaveTeam(u, T) ==
    /\ u \in teams[T].members /\ u # teams[T].captain
    /\ RosterMutable(T)
    /\ ChangeTeam(T, [teams[T] EXCEPT !.members = @ \ {u}])

TransferCaptaincy(T, u) ==
    /\ u \in teams[T].members /\ u # teams[T].captain
    /\ ChangeTeam(T, [teams[T] EXCEPT !.captain = u])

\* setUserStatus, as far as entries see it.
SetUserStatus(u) ==
    /\ suspended' = IF u \in suspended THEN suspended \ {u} ELSE suspended \union {u}
    /\ UNCHANGED <<walletVars, tours, regs, teams, couponUsed, redeemed, joins, staff>>

-----------------------------------------------------------------------------
EntryInit ==
    /\ WalletInit
    /\ tours \in [Tour -> [status : {"DRAFT"}, deadlinePassed : {FALSE},
                           maxSlots : SlotChoice, registeredSlots : {0}]]
    /\ regs = [t \in Tour |-> [u \in User |-> NoReg]]
    /\ teams = FirstTeams
    /\ couponUsed = 0
    /\ redeemed = {}
    /\ joins \in [JoinReq ->
           [stage : {"new"}, user : User, tour : Tour, team : Team \union {NoTeam},
            coupon : CouponChoice, attempt : {0}, payers : {{}}, slots : {0}, seen : {0},
            answer : {"none"}]]
    /\ staff = [s \in Staff |-> StaffIdle]
    /\ suspended = {}

JoinStep(j) ==
    \/ PreflightJoin(j) \/ OpenJoin(j) \/ CommitJoin(j) \/ RefuseJoin(j)

SeatStep ==
    \/ \E s \in Staff : EndAssign(s) \/ EndResize(s) \/ EndPair(s)
    \/ \E s \in Staff, t \in Tour, slot \in SlotChoice : BeginResize(s, t, slot)
    \/ \E s \in Staff, t \in Tour, us \in SUBSET User : BeginPair(s, t, us)
    \/ \E s \in Staff, t \in Tour, u \in User : \E slot \in 1..tours[t].maxSlots :
           BeginAssign(s, t, u, slot)
    \/ \E t \in Tour, u \in User :
           ClearSlot(t, u) \/ \E locked \in BOOLEAN : SetSlotLock(t, u, locked)

TeamStep ==
    \E u \in User, T \in Team :
        CreateTeam(u, T) \/ JoinTeam(u, T) \/ LeaveTeam(u, T) \/ TransferCaptaincy(T, u)

EntryStep ==
    \/ \E j \in JoinReq :
           SubmitJoin(j) \/ JoinStep(j) \/ JoinResponseLost(j) \/ JoinFails(j)
    \/ \E t \in Tour, u \in User : CancelRegistration(t, u)
    \/ \E t \in Tour, status \in TourStatus : SetTournamentStatus(t, status)
    \/ \E t \in Tour : PassDeadline(t)
    \/ SeatStep
    \/ TeamStep
    \/ \E u \in Suspendable : SetUserStatus(u)

EntrySpec == EntryInit /\ [][EntryStep]_enVars

-----------------------------------------------------------------------------
(* Types; no join overdraws a wallet.                                      *)
EntryTypeOK ==
    /\ WalletTypeOK
    /\ tours \in [Tour -> TourRow]
    /\ regs \in [Tour -> [User -> RegRow]]
    /\ teams \in [Team -> TeamRow]
    /\ couponUsed \in Nat
    /\ redeemed \subseteq [user : User, tour : Tour]
    /\ joins \in [JoinReq -> Join]
    /\ staff \in [Staff -> StaffRequest]
    /\ suspended \subseteq User

FeesFor(t, u) == EntriesFor(u, "CASH", "ENTRY_FEE", t)
RefundsFor(t, u) == EntriesFor(u, "CASH", "ENTRY_REFUND", t)

(* A player pays once per entry and gets it back once: whatever double     *)
(* clicks, retries after unheard commits, cancellations and re-joins do,   *)
(* every charge but that of the confirmed entry has one refund, and the    *)
(* confirmed entry names its own charge.                                   *)
ChargedOncePerEntry ==
    \A t \in Tour, u \in User :
        LET row == regs[t][u]
            open == IF row.status = "CONFIRMED" THEN 1 ELSE 0
        IN  /\ Cardinality(FeesFor(t, u)) = Cardinality(RefundsFor(t, u)) + open
            /\ open = 1 => /\ row.fee \in FeesFor(t, u)
                           /\ \A i \in FeesFor(t, u) : i <= row.fee
                           /\ ledger[u]["CASH"][row.fee].amount = row.amount

(* No seat is sold twice: of two confirmed registrations with one seat     *)
(* number both belong to the same team, through joins, moves by staff,     *)
(* cleared seats and capacity changes.                                     *)
SeatsDisjoint ==
    \A t \in Tour : \A u, v \in Confirmed(t) :
        (u # v /\ regs[t][u].seat = regs[t][v].seat /\ regs[t][u].seat # 0)
            => regs[t][u].team # NoTeam /\ regs[t][u].team = regs[t][v].team

\* The entries of a tournament: its teams, and its players without a team.
EntriesOf(t) ==
    ({{u} : u \in {v \in Confirmed(t) : regs[t][v].team = NoTeam}}
        \union {{u \in Confirmed(t) : regs[t][u].team = T} : T \in Team}) \ {{}}

(* A tournament is never oversold: the counter that joins are checked      *)
(* against never falls below the number of entries, so it still stops the  *)
(* last join when seats were freed, moved or paired away.                  *)
CounterCoversEntries ==
    \A t \in Tour : tours[t].status \in {"REGISTRATION_OPEN", "LIVE"} =>
        Cardinality(EntriesOf(t)) <= tours[t].registeredSlots

(* While a team's paid entry is running, its members are exactly the       *)
(* players who were charged for it, and all of them are in.                *)
PaidRosterFrozen ==
    \A t \in Tour : tours[t].status \in {"REGISTRATION_OPEN", "LIVE"} =>
        \A u \in Confirmed(t) : regs[t][u].team # NoTeam =>
            LET T == regs[t][u].team
            IN  /\ regs[t][u].roster = teams[T].members
                /\ teams[T].members = {v \in Confirmed(t) : regs[t][v].team = T}

(* A seat locked by staff stays where it is for as long as it is locked    *)
(* and its entry is confirmed.                                             *)
LockedSeatStays ==
    [][\A t \in Tour : \A u \in Confirmed(t) \intersect Confirmed(t)' :
          regs[t][u].locked => \/ regs'[t][u].seat = regs[t][u].seat
                               \/ ~regs'[t][u].locked]_enVars

(* The limit of a coupon binds inside a tournament: joins take the lock of *)
(* the tournament before they read the count, so only joins of different   *)
(* tournaments redeem the last use together.  The uses over the limit are  *)
(* fewer than the tournaments in which the coupon was redeemed.            *)
CouponOverrunBounded ==
    couponUsed > CouponLimit =>
        couponUsed - CouponLimit < Cardinality({d.tour : d \in redeemed})

=============================================================================
