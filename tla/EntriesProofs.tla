---------------------------- MODULE EntriesProofs ---------------------------
(***************************************************************************)
(* Paid entries: seats are disjoint, the counter covers the entries, the   *)
(* rosters of running entries are frozen, the overrun of the coupon is     *)
(* bounded, and every entry is charged once, for any players, teams,       *)
(* tournaments, requests and staff.                                        *)
(***************************************************************************)
EXTENDS Entries, WalletProofs, FiniteSetTheorems

-----------------------------------------------------------------------------
(***************************************************************************)
(* The invariant, a tournament at a time.  Its rows are parameters: tr is  *)
(* its row in "tournaments", rg its registrations, tm the table of teams.  *)
(***************************************************************************)
In(rg) == {u \in User : rg[u].status = "CONFIRMED"}

SeatsOK(rg) ==
    \A u, v \in In(rg) :
        (u # v /\ rg[u].seat = rg[v].seat /\ rg[u].seat # 0)
            => rg[u].team # NoTeam /\ rg[u].team = rg[v].team

\* Teams enter modes of teams only, and are never deleted.
TeamsReal(rg, tm) ==
    \A u \in User : rg[u].team # NoTeam => TeamSize > 1 /\ tm[rg[u].team].captain # NoUser

MembersIn(rg, T) == {u \in In(rg) : rg[u].team = T}

Sold(rg) ==
    ({{u} : u \in MembersIn(rg, NoTeam)} \union {MembersIn(rg, T) : T \in Team}) \ {{}}

Frozen(rg, tm) ==
    \A u \in In(rg) : rg[u].team # NoTeam =>
        /\ rg[u].roster = tm[rg[u].team].members
        /\ tm[rg[u].team].members = MembersIn(rg, rg[u].team)

Running(tr) == tr.status \in {"REGISTRATION_OPEN", "LIVE"}

TourOK(tr, rg, tm) ==
    /\ SeatsOK(rg)
    /\ TeamsReal(rg, tm)
    /\ tr.status = "DRAFT" => In(rg) = {} /\ tr.registeredSlots = 0
    /\ Running(tr) => Frozen(rg, tm) /\ Cardinality(Sold(rg)) <= tr.registeredSlots

ToursOK == \A t \in Tour : TourOK(tours[t], regs[t], teams)

ByTeam(r) == TeamSize > 1 /\ r.team # NoTeam

\* What a request r found under its locks stays true until it ends.
JoinOK(r, tr, rg, tm) ==
    /\ r.stage \in {"ready", "open"} => (~ByTeam(r) => r.payers = {r.user})
    /\ r.stage = "open" =>
        /\ r.payers \intersect In(rg) = {}
        /\ (1..r.slots) \ {rg[u].seat : u \in In(rg)} # {}
        /\ tr.status = "REGISTRATION_OPEN"
        /\ ByTeam(r) => tm[r.team].captain # NoUser /\ tm[r.team].members = r.payers

JoinsOK == \A j \in JoinReq :
    JoinOK(joins[j], tours[joins[j].tour], regs[joins[j].tour], teams)

\* The players that staff pair are in, each alone.
PairOK(x, rg) ==
    x.op = "pair" =>
        /\ TeamSize > 1 /\ x.users # {}
        /\ x.users \subseteq MembersIn(rg, NoTeam)

PairsOK == \A s \in Staff : PairOK(staff[s], regs[staff[s].tour])

\* The row lock of a tournament is held once.
LockedOnce ==
    /\ \A j, k \in JoinReq :
          joins[j].stage = "open" /\ joins[k].stage = "open" /\ joins[j].tour = joins[k].tour
              => j = k
    /\ \A s, r \in Staff :
          staff[s].op = "pair" /\ staff[r].op = "pair" /\ staff[s].tour = staff[r].tour => s = r
    /\ \A j \in JoinReq, s \in Staff :
          joins[j].stage = "open" /\ staff[s].op = "pair" => joins[j].tour # staff[s].tour

\* The tournaments whose lock is held by a join that has read the count.
Redeeming(js) ==
    {t \in Tour : \E j \in JoinReq : js[j].stage = "open" /\ js[j].tour = t /\ js[j].coupon}

\* The tournaments in which the coupon is or may soon be redeemed.
Reached(js, rd) == Redeeming(js) \union {d.tour : d \in rd}

\* The uses on record and under way, against the limit and the tournaments they are in.
Within(used, open, reached) ==
    used + open <= CouponLimit \/ used + open <= CouponLimit + reached - 1

CouponInv ==
    Within(couponUsed, Cardinality(Redeeming(joins)), Cardinality(Reached(joins, redeemed)))

EntryInv ==
    /\ EntryTypeOK
    /\ LedgerExplainsBalance
    /\ LockedOnce
    /\ JoinsOK
    /\ PairsOK
    /\ ToursOK
    /\ CouponInv

-----------------------------------------------------------------------------
(***************************************************************************)
(* Types of rows.                                                          *)
(***************************************************************************)
LEMMA RegTypes ==
    ASSUME NEW r \in RegRow
    PROVE  /\ r.status \in {"NONE", "CONFIRMED", "REFUNDED"} /\ r.team \in Team \union {NoTeam}
           /\ r.seat \in Nat /\ r.locked \in BOOLEAN /\ r.amount \in Nat
           /\ r.roster \in SUBSET User /\ r.fee \in Nat
  BY DEF RegRow

LEMMA JoinTypes ==
    ASSUME NEW r \in Join
    PROVE  /\ r.stage \in {"new", "preflight", "ready", "open", "done"}
           /\ r.user \in User /\ r.tour \in Tour /\ r.team \in Team \union {NoTeam}
           /\ r.coupon \in BOOLEAN /\ r.attempt \in 0..JoinAttempts
           /\ r.payers \in SUBSET User /\ r.slots \in Nat /\ r.seen \in Nat
           /\ r.answer \in {"none", "joined", "refused", "busy"}
  BY DEF Join

LEMMA TourTypes ==
    ASSUME NEW r \in TourRow
    PROVE  /\ r.status \in TourStatus /\ r.deadlinePassed \in BOOLEAN
           /\ r.maxSlots \in Nat /\ r.registeredSlots \in Int
  BY DEF TourRow

LEMMA StaffTypes ==
    ASSUME NEW r \in StaffRequest
    PROVE  /\ r.op \in {"idle", "assign", "resize", "pair"} /\ r.tour \in Tour
           /\ r.users \in SUBSET User /\ r.slot \in Nat
  BY DEF StaffRequest

LEMMA TeamTypes ==
    ASSUME NEW r \in TeamRow
    PROVE  r.captain \in User \union {NoUser} /\ r.members \in SUBSET User
  BY DEF TeamRow

LEMMA EntryTypes ==
    ASSUME EntryTypeOK
    PROVE  /\ WalletTypeOK /\ BooksOK(Books)
           /\ tours \in [Tour -> TourRow]
           /\ regs \in [Tour -> [User -> RegRow]]
           /\ teams \in [Team -> TeamRow]
           /\ couponUsed \in Nat /\ redeemed \subseteq [user : User, tour : Tour]
           /\ joins \in [JoinReq -> Join]
           /\ staff \in [Staff -> StaffRequest]
           /\ suspended \subseteq User
  BY DEF EntryTypeOK, WalletTypeOK

LEMMA IdleType == StaffIdle \in StaffRequest /\ StaffIdle.op = "idle"
  BY EntryAssumption DEF StaffIdle, StaffRequest

\* A set of numbers that is not empty has a least one.
LEMMA LeastNumber ==
    ASSUME NEW S \in SUBSET Nat, S # {}
    PROVE  Min(S) \in S /\ \A s \in S : Min(S) <= s
<1>1. PICK x \in S : \A y \in S : <<y, x>> \notin OpToRel(<, Nat)
  BY NatLessThanWellFounded, WFMin
<1>2. \A s \in S : x <= s
  <2>. SUFFICES ASSUME NEW s \in S, ~(x <= s) PROVE FALSE
    OBVIOUS
  <2>1. <<s, x>> \in OpToRel(<, Nat)
    BY <1>1 DEF OpToRel
  <2>. QED
    BY <1>1, <2>1
<1>. QED
  BY <1>2 DEF Min

-----------------------------------------------------------------------------
(***************************************************************************)
(* A transaction that makes one movement for each of several players.      *)
(***************************************************************************)
\* The books after the movements mv of the players us.
Posted(bk, us, mv) ==
    [bal |-> [u \in User |-> IF u \in us THEN Post(bk, mv[u]).bal[u] ELSE bk.bal[u]],
     log |-> [u \in User |-> IF u \in us THEN Post(bk, mv[u]).log[u] ELSE bk.log[u]]]

LEMMA PostedBooks ==
    ASSUME NEW bk, BooksOK(bk), NEW us \in SUBSET User, NEW mv,
           \A u \in us : mv[u] \in Move /\ mv[u].user = u /\ CanMove(bk, mv[u])
    PROVE  /\ BooksOK(Posted(bk, us, mv))
           /\ BooksExplained(bk) => BooksExplained(Posted(bk, us, mv))
<1>. DEFINE pk == Posted(bk, us, mv)
<1>1. ASSUME NEW u \in User
      PROVE  /\ u \in us => pk.bal[u] = Post(bk, mv[u]).bal[u] /\ pk.log[u] = Post(bk, mv[u]).log[u]
             /\ u \notin us => pk.bal[u] = bk.bal[u] /\ pk.log[u] = bk.log[u]
  BY DEF Posted
<1>2. ASSUME NEW u \in us
      PROVE  /\ BooksOK(Post(bk, mv[u]))
             /\ BooksExplained(bk) => BooksExplained(Post(bk, mv[u]))
  BY <1>2, PostBooks, PostExplained
<1>3. BooksOK(pk)
  <2>1. ASSUME NEW u \in User
        PROVE  /\ (IF u \in us THEN Post(bk, mv[u]).bal[u] ELSE bk.bal[u]) \in [Bucket -> Nat]
               /\ (IF u \in us THEN Post(bk, mv[u]).log[u] ELSE bk.log[u]) \in [Bucket -> Seq(Entry)]
    <3>1. bk.bal[u] \in [Bucket -> Nat] /\ bk.log[u] \in [Bucket -> Seq(Entry)]
      BY DEF BooksOK, Balances
    <3>2. u \in us => /\ Post(bk, mv[u]).bal[u] \in [Bucket -> Nat]
                      /\ Post(bk, mv[u]).log[u] \in [Bucket -> Seq(Entry)]
      BY <1>2 DEF BooksOK, Balances
    <3>. QED
      BY <3>1, <3>2
  <2>2. pk.bal \in Balances
    BY <2>1, Zenon DEF Posted, Balances
  <2>3. pk.log \in [User -> [Bucket -> Seq(Entry)]]
    BY <2>1, Zenon DEF Posted
  <2>. QED
    BY <2>2, <2>3 DEF BooksOK
<1>4. ASSUME BooksExplained(bk) PROVE BooksExplained(pk)
  <2>. SUFFICES ASSUME NEW u \in User, NEW b \in Bucket
                PROVE  /\ pk.bal[u][b] = ClosingBalance(pk, u, b)
                       /\ \A i \in 1..Len(pk.log[u][b]) :
                             EntryFollows(pk.log[u][b][i],
                                 IF i = 1 THEN Opening[u][b] ELSE pk.log[u][b][i - 1].after)
    BY DEF BooksExplained
  <2>. PICK ek : /\ BooksExplained(ek)
                 /\ pk.bal[u] = ek.bal[u] /\ pk.log[u] = ek.log[u]
    BY <1>1, <1>2, <1>4
  <2>. HIDE DEF pk
  <2>. QED
    BY DEF BooksExplained, ClosingBalance
<1>. QED
  BY <1>3, <1>4

\* The same as a step.
LEMMA BooksMoved ==
    ASSUME WalletTypeOK, LedgerExplainsBalance, NEW us \in SUBSET User, NEW mv,
           \A u \in us : mv[u] \in Move /\ mv[u].user = u /\ CanMove(Books, mv[u]),
           Commit(Posted(Books, us, mv)), rowLock' = rowLock
    PROVE  WalletTypeOK' /\ LedgerExplainsBalance'
<1>. DEFINE pk == Posted(Books, us, mv)
<1>1. BooksOK(Books) /\ BooksExplained(Books)
  BY DEF WalletTypeOK, LedgerExplainsBalance
<1>2. BooksOK(pk) /\ BooksExplained(pk)
  BY <1>1, PostedBooks
<1>3. Books' = [bal |-> pk.bal, log |-> pk.log]
  BY DEF Books, Commit
<1>. HIDE DEF pk
<1>4. BooksOK(Books)'
  BY <1>2, <1>3 DEF BooksOK
<1>5. LedgerExplainsBalance'
  BY <1>2, <1>3 DEF LedgerExplainsBalance, BooksExplained, ClosingBalance
<1>. QED
  BY <1>4, <1>5 DEF WalletTypeOK

Fees(j) == [u \in User |-> EntryDebit(j, u)]

Credits(t) == [u \in User |-> RefundCredit(t, u)]

\* The players whose refund comes to something.
Refundable(t, us) == {u \in us : RefundCredit(t, u).amount > 0}

LEMMA ChargeIsPosted ==
    ASSUME NEW j \in JoinReq, joins[j].payers \in SUBSET User
    PROVE  Charge(j) = Posted(Books, joins[j].payers, Fees(j))
<1>1. ASSUME NEW u \in User
      PROVE  Fees(j)[u] = EntryDebit(j, u)
  BY DEF Fees
<1>. QED
  BY <1>1 DEF Charge, PostEach, Posted

LEMMA FeeType ==
    ASSUME EntryTypeOK, NEW j \in JoinReq, NEW u \in User
    PROVE  /\ Payable(j, u) \in Nat /\ Payable(j, u) \in {Fee, Fee - CouponDiscount}
           /\ Fees(j)[u] = EntryDebit(j, u) /\ EntryDebit(j, u) \in Move
           /\ EntryDebit(j, u).user = u /\ EntryDebit(j, u).bucket = "CASH"
           /\ EntryDebit(j, u).amount = Payable(j, u)
           /\ EntryDebit(j, u).type = "ENTRY_FEE" /\ EntryDebit(j, u).ref = joins[j].tour
<1>1. Payable(j, u) \in Nat /\ Payable(j, u) \in {Fee, Fee - CouponDiscount}
  BY EntryAssumption DEF Payable
<1>2. joins[j].tour \in Ref
  BY EntryTypes, JoinTypes, EntryAssumption
<1>. QED
  BY <1>1, <1>2 DEF Fees, EntryDebit, Debit, Move, Bucket, Direction, TxType

LEMMA Rounded == ASSUME NEW a \in Nat, NEW p \in Nat PROVE (a * p + 50) \div 100 \in Nat
<1>1. PICK x \in Nat : x = a * p + 50
  OBVIOUS
<1>2. x \div 100 \in Nat
  OBVIOUS
<1>. QED
  BY <1>1, <1>2

LEMMA CreditType ==
    ASSUME EntryTypeOK, NEW t \in Tour, NEW u \in User
    PROVE  /\ Credits(t)[u] = RefundCredit(t, u) /\ RefundCredit(t, u) \in Move
           /\ RefundCredit(t, u).user = u /\ RefundCredit(t, u).bucket = "CASH"
           /\ RefundCredit(t, u).direction = "CREDIT"
           /\ RefundCredit(t, u).amount = (regs[t][u].amount * RefundPercent + 50) \div 100
           /\ RefundCredit(t, u).amount \in Nat
           /\ RefundCredit(t, u).type = "ENTRY_REFUND" /\ RefundCredit(t, u).ref = t
<1>1. regs[t][u].amount \in Nat /\ RefundPercent \in Nat /\ t \in Ref
  BY EntryTypes, RegTypes, EntryAssumption
<1>. DEFINE n == (regs[t][u].amount * RefundPercent + 50) \div 100
<1>2. n \in Nat
  BY <1>1, Rounded
<1>3. RefundCredit(t, u) = Credit(u, "CASH", n, "ENTRY_REFUND", t)
  BY DEF RefundCredit
<1>. HIDE DEF n
<1>4. /\ RefundCredit(t, u) \in Move /\ RefundCredit(t, u).amount = n
      /\ RefundCredit(t, u).user = u /\ RefundCredit(t, u).bucket = "CASH"
      /\ RefundCredit(t, u).direction = "CREDIT"
      /\ RefundCredit(t, u).type = "ENTRY_REFUND" /\ RefundCredit(t, u).ref = t
  BY <1>1, <1>2, <1>3 DEF Credit, Move, Bucket, Direction, TxType
<1>. QED
  BY <1>2, <1>4 DEF Credits, n

LEMMA WriteBooks ==
    ASSUME EntryTypeOK, LedgerExplainsBalance, NEW j \in JoinReq, WriteEntry(j)
    PROVE  /\ WalletTypeOK' /\ LedgerExplainsBalance'
           /\ joins[j].payers \in SUBSET User
           /\ \A u \in joins[j].payers : CanMove(Books, EntryDebit(j, u))
           /\ Commit(Posted(Books, joins[j].payers, Fees(j)))
<1>1. joins[j].payers \in SUBSET User
  BY EntryTypes, JoinTypes
<1>2. /\ Commit(Posted(Books, joins[j].payers, Fees(j))) /\ rowLock' = rowLock
      /\ \A u \in joins[j].payers : CanMove(Books, EntryDebit(j, u))
  BY <1>1, ChargeIsPosted DEF WriteEntry, Chargeable
<1>3. ASSUME NEW u \in joins[j].payers
      PROVE  Fees(j)[u] \in Move /\ Fees(j)[u].user = u /\ CanMove(Books, Fees(j)[u])
  BY <1>1, <1>2, FeeType
<1>4. WalletTypeOK' /\ LedgerExplainsBalance'
  BY <1>1, <1>2, <1>3, EntryTypes, BooksMoved
<1>. QED
  BY <1>1, <1>2, <1>4

LEMMA RefundBooks ==
    ASSUME EntryTypeOK, LedgerExplainsBalance, NEW t \in Tour, NEW us \in SUBSET User,
           PayRefunds(t, us)
    PROVE  /\ WalletTypeOK' /\ LedgerExplainsBalance'
           /\ Commit(Posted(Books, Refundable(t, us), Credits(t)))
           /\ regs' = Refunded(t, us)
<1>. DEFINE paid == Refundable(t, us)
<1>1. paid \in SUBSET User
  BY DEF Refundable
<1>2. PostEach(Books, paid, LAMBDA u : RefundCredit(t, u)) = Posted(Books, paid, Credits(t))
  <2>1. ASSUME NEW u \in User
        PROVE  Credits(t)[u] = RefundCredit(t, u)
    BY DEF Credits
  <2>. HIDE DEF paid
  <2>. QED
    BY <2>1 DEF PostEach, Posted
<1>3. Commit(Posted(Books, paid, Credits(t))) /\ rowLock' = rowLock /\ regs' = Refunded(t, us)
  BY <1>2 DEF PayRefunds, Refundable
<1>4. ASSUME NEW u \in paid
      PROVE  Credits(t)[u] \in Move /\ Credits(t)[u].user = u /\ CanMove(Books, Credits(t)[u])
  <2>1. u \in User /\ RefundCredit(t, u).amount > 0
    BY DEF Refundable
  <2>. QED
    BY <2>1, CreditType DEF CanMove
<1>5. WalletTypeOK' /\ LedgerExplainsBalance'
  BY <1>1, <1>3, <1>4, EntryTypes, BooksMoved
<1>. QED
  BY <1>3, <1>5

-----------------------------------------------------------------------------
(***************************************************************************)
(* What the operations do to one tournament.                               *)
(***************************************************************************)
LEMMA SoldFinite ==
    ASSUME NEW rg PROVE IsFiniteSet(Sold(rg)) /\ Cardinality(Sold(rg)) \in Nat
<1>1. Sold(rg) \in SUBSET SUBSET User
  BY DEF Sold, MembersIn, In
<1>2. IsFiniteSet(SUBSET User)
  BY EntryAssumption, FS_SUBSET
<1>. QED
  BY <1>1, <1>2, FS_Subset, FS_CardinalityType

\* No more is sold than before, and one entry.
LEMMA SoldOneMore ==
    ASSUME NEW rg, NEW rg2, NEW x, Sold(rg2) \subseteq Sold(rg) \union {x}
    PROVE  Cardinality(Sold(rg2)) <= Cardinality(Sold(rg)) + 1
<1>1. IsFiniteSet(Sold(rg)) /\ Cardinality(Sold(rg)) \in Nat
  BY SoldFinite
<1>2. /\ IsFiniteSet(Sold(rg) \union {x})
      /\ Cardinality(Sold(rg) \union {x}) \in {Cardinality(Sold(rg)), Cardinality(Sold(rg)) + 1}
  BY <1>1, FS_AddElement
<1>3. Cardinality(Sold(rg2)) <= Cardinality(Sold(rg) \union {x})
  BY <1>2, FS_Subset
<1>4. Cardinality(Sold(rg2)) \in Nat
  BY SoldFinite
<1>. QED
  BY <1>1, <1>2, <1>3, <1>4

\* An entry that is gone is not sold any more.
LEMMA SoldOneLess ==
    ASSUME NEW rg, NEW rg2, NEW x \in Sold(rg), Sold(rg2) \subseteq Sold(rg) \ {x}
    PROVE  Cardinality(Sold(rg2)) <= Cardinality(Sold(rg)) - 1
<1>1. IsFiniteSet(Sold(rg)) /\ Cardinality(Sold(rg)) \in Nat
  BY SoldFinite
<1>2. /\ IsFiniteSet(Sold(rg) \ {x})
      /\ Cardinality(Sold(rg) \ {x}) = Cardinality(Sold(rg)) - 1
  BY <1>1, FS_RemoveElement
<1>3. Cardinality(Sold(rg2)) <= Cardinality(Sold(rg) \ {x})
  BY <1>2, FS_Subset
<1>. QED
  BY <1>2, <1>3

\* The rows after the entry of r on a free seat.
Entered(r, seat, tr, rg, tr2, rg2) ==
    /\ tr2.status = tr.status /\ tr2.registeredSlots = tr.registeredSlots + 1
    /\ seat \notin {rg[u].seat : u \in In(rg)}
    /\ \A u \in User \ r.payers : rg2[u] = rg[u]
    /\ \A u \in r.payers :
           /\ rg2[u].status = "CONFIRMED"
           /\ rg2[u].team = IF ByTeam(r) THEN r.team ELSE NoTeam
           /\ rg2[u].seat = seat
           /\ ByTeam(r) => rg2[u].roster = r.payers

LEMMA TourJoined ==
    ASSUME NEW r \in Join, r.stage = "open",
           NEW tr \in TourRow, NEW rg \in [User -> RegRow], NEW tm,
           TourOK(tr, rg, tm), JoinOK(r, tr, rg, tm),
           NEW tr2, NEW rg2, NEW seat, Entered(r, seat, tr, rg, tr2, rg2)
    PROVE  TourOK(tr2, rg2, tm)
<1>. USE DEF Entered
<1>1. /\ r.payers \in SUBSET User /\ r.team \in Team \union {NoTeam}
      /\ tr.registeredSlots \in Int
  BY JoinTypes, TourTypes
<1>2. /\ ~ByTeam(r) => r.payers = {r.user}
      /\ r.payers \intersect In(rg) = {}
      /\ tr.status = "REGISTRATION_OPEN"
      /\ ByTeam(r) => tm[r.team].captain # NoUser /\ tm[r.team].members = r.payers
  BY DEF JoinOK
<1>3. /\ SeatsOK(rg) /\ TeamsReal(rg, tm) /\ Frozen(rg, tm)
      /\ Cardinality(Sold(rg)) <= tr.registeredSlots
  BY <1>2 DEF TourOK, Running
<1>4. In(rg2) = In(rg) \union r.payers
  BY <1>1 DEF In
<1>5. SeatsOK(rg2)
  <2>1. \A u \in In(rg) : rg[u].seat # seat
    OBVIOUS
  <2>2. \A u \in In(rg) : u \notin r.payers /\ rg2[u] = rg[u]
    BY <1>2 DEF In
  <2>. SUFFICES ASSUME NEW u \in In(rg2), NEW v \in In(rg2), u # v,
                       rg2[u].seat = rg2[v].seat, rg2[u].seat # 0
                PROVE  rg2[u].team # NoTeam /\ rg2[u].team = rg2[v].team
    BY DEF SeatsOK
  <2>3. CASE u \in In(rg) /\ v \in In(rg)
    BY <1>3, <2>2, <2>3 DEF SeatsOK
  <2>4. CASE u \in r.payers /\ v \in r.payers
    BY <1>2, <2>4 DEF ByTeam
  <2>5. CASE u \in r.payers /\ v \in In(rg)
    BY <2>1, <2>2, <2>5
  <2>6. CASE u \in In(rg) /\ v \in r.payers
    BY <2>1, <2>2, <2>6
  <2>. QED
    BY <1>4, <2>3, <2>4, <2>5, <2>6
<1>6. TeamsReal(rg2, tm)
  <2>. SUFFICES ASSUME NEW u \in User, rg2[u].team # NoTeam
                PROVE  TeamSize > 1 /\ tm[rg2[u].team].captain # NoUser
    BY DEF TeamsReal
  <2>. QED
    BY <1>2, <1>3 DEF TeamsReal, ByTeam
<1>7. ByTeam(r) => MembersIn(rg, r.team) = {}
  BY <1>2, <1>3 DEF Frozen, MembersIn, ByTeam
<1>8. ASSUME NEW T, T # NoTeam
      PROVE  MembersIn(rg2, T) = IF ByTeam(r) /\ T = r.team THEN r.payers ELSE MembersIn(rg, T)
  <2>1. CASE ByTeam(r) /\ T = r.team
    BY <1>1, <1>4, <1>7, <2>1 DEF MembersIn, In
  <2>2. CASE ~(ByTeam(r) /\ T = r.team)
    BY <1>1, <1>2, <1>4, <1>8, <2>2 DEF MembersIn, In
  <2>. QED
    BY <2>1, <2>2
<1>9. Frozen(rg2, tm)
  <2>. SUFFICES ASSUME NEW u \in In(rg2), rg2[u].team # NoTeam
                PROVE  /\ rg2[u].roster = tm[rg2[u].team].members
                       /\ tm[rg2[u].team].members = MembersIn(rg2, rg2[u].team)
    BY DEF Frozen
  <2>1. CASE u \in r.payers
    BY <1>2, <1>8, <2>1 DEF ByTeam
  <2>2. CASE u \notin r.payers
    <3>1. u \in In(rg) /\ rg2[u] = rg[u]
      BY <1>4, <2>2 DEF In
    <3>2. /\ rg[u].roster = tm[rg[u].team].members
          /\ tm[rg[u].team].members = MembersIn(rg, rg[u].team)
          /\ u \in MembersIn(rg, rg[u].team)
      BY <1>3, <3>1 DEF Frozen, MembersIn
    <3>3. ~(ByTeam(r) /\ rg[u].team = r.team)
      BY <1>7, <3>2
    <3>. QED
      BY <1>8, <3>1, <3>2, <3>3
  <2>. QED
    BY <2>1, <2>2
<1>10. Sold(rg2) \subseteq Sold(rg) \union {r.payers}
  <2>. SUFFICES ASSUME NEW x \in Sold(rg2), x # r.payers PROVE x \in Sold(rg)
    OBVIOUS
  <2>1. CASE \E u \in MembersIn(rg2, NoTeam) : x = {u}
    <3>1. PICK u \in MembersIn(rg2, NoTeam) : x = {u}
      BY <2>1
    <3>2. u \notin r.payers
      BY <1>2, <3>1 DEF MembersIn, ByTeam
    <3>. QED
      BY <1>4, <3>1, <3>2 DEF MembersIn, In, Sold
  <2>2. CASE \E T \in Team : x = MembersIn(rg2, T)
    <3>1. PICK T \in Team : x = MembersIn(rg2, T)
      BY <2>2
    <3>2. x = MembersIn(rg, T) /\ x # {}
      BY <1>8, <3>1, EntryAssumption DEF Sold
    <3>. QED
      BY <3>2 DEF Sold
  <2>. QED
    BY <2>1, <2>2 DEF Sold
<1>11. Cardinality(Sold(rg2)) <= tr2.registeredSlots
  <2>1. Cardinality(Sold(rg2)) <= Cardinality(Sold(rg)) + 1
    BY <1>10, SoldOneMore
  <2>2. Cardinality(Sold(rg)) \in Nat /\ Cardinality(Sold(rg2)) \in Nat
    BY SoldFinite
  <2>. QED
    BY <1>1, <1>3, <2>1, <2>2
<1>. QED
  BY <1>2, <1>5, <1>6, <1>9, <1>11 DEF TourOK

\* The players us leave with their entries; nothing else changes.
LEMMA TourLeft ==
    ASSUME NEW rg \in [User -> RegRow], NEW tm, SeatsOK(rg), TeamsReal(rg, tm),
           NEW us \in SUBSET User, NEW rg2,
           \A v \in User \ us : rg2[v] = rg[v],
           \A v \in us : rg2[v].status = "REFUNDED" /\ rg2[v].team = rg[v].team
    PROVE  In(rg2) = In(rg) \ us /\ SeatsOK(rg2) /\ TeamsReal(rg2, tm)
<1>1. In(rg2) = In(rg) \ us
  BY DEF In
<1>2. SeatsOK(rg2)
  <2>. SUFFICES ASSUME NEW u \in In(rg2), NEW v \in In(rg2), u # v,
                       rg2[u].seat = rg2[v].seat, rg2[u].seat # 0
                PROVE  rg2[u].team # NoTeam /\ rg2[u].team = rg2[v].team
    BY DEF SeatsOK
  <2>. QED
    BY <1>1 DEF SeatsOK, In
<1>3. TeamsReal(rg2, tm)
  <2>. SUFFICES ASSUME NEW u \in User, rg2[u].team # NoTeam
                PROVE  TeamSize > 1 /\ tm[rg2[u].team].captain # NoUser
    BY DEF TeamsReal
  <2>1. rg2[u].team = rg[u].team
    OBVIOUS
  <2>. QED
    BY <2>1 DEF TeamsReal
<1>. QED
  BY <1>1, <1>2, <1>3

\* The rows after the entry of u, which is that of the players us, is cancelled.
Cancelled(u, us, tr, rg, tr2, rg2) ==
    /\ us = IF rg[u].team = NoTeam THEN {u} ELSE MembersIn(rg, rg[u].team)
    /\ tr2.status = tr.status /\ tr2.registeredSlots = tr.registeredSlots - 1
    /\ \A v \in User \ us : rg2[v] = rg[v]
    /\ \A v \in us : rg2[v].status = "REFUNDED" /\ rg2[v].team = rg[v].team

LEMMA TourCancelled ==
    ASSUME NEW tr \in TourRow, NEW rg \in [User -> RegRow], NEW tm, TourOK(tr, rg, tm),
           Running(tr), NEW u \in In(rg), NEW us, NEW tr2, NEW rg2,
           Cancelled(u, us, tr, rg, tr2, rg2)
    PROVE  TourOK(tr2, rg2, tm)
<1>. USE DEF Cancelled
<1>1. /\ SeatsOK(rg) /\ TeamsReal(rg, tm) /\ Frozen(rg, tm)
      /\ Cardinality(Sold(rg)) <= tr.registeredSlots
      /\ tr.registeredSlots \in Int
  BY TourTypes DEF TourOK, Running
<1>2. us \in SUBSET User /\ us \subseteq In(rg) /\ u \in us
  BY DEF MembersIn, In
<1>3. In(rg2) = In(rg) \ us /\ SeatsOK(rg2) /\ TeamsReal(rg2, tm)
  <2>1. /\ \A v \in User \ us : rg2[v] = rg[v]
        /\ \A v \in us : rg2[v].status = "REFUNDED" /\ rg2[v].team = rg[v].team
    OBVIOUS
  <2>. QED
    BY ONLY <1>1, <1>2, <2>1, rg \in [User -> RegRow], TourLeft
<1>4. us \in Sold(rg)
  <2>1. CASE rg[u].team = NoTeam
    BY <2>1 DEF Sold, MembersIn
  <2>2. CASE rg[u].team # NoTeam
    <3>1. rg[u].team \in Team
      BY <2>2, RegTypes DEF In
    <3>. QED
      BY <1>2, <2>2, <3>1 DEF Sold
  <2>. QED
    BY <2>1, <2>2
<1>5. ASSUME NEW T, T # NoTeam, MembersIn(rg2, T) # {}
      PROVE  MembersIn(rg2, T) = MembersIn(rg, T) /\ MembersIn(rg, T) # us
  <2>1. PICK v \in In(rg2) : rg2[v].team = T
    BY <1>5 DEF MembersIn
  <2>2. v \in In(rg) /\ v \notin us /\ rg[v].team = T
    BY <1>3, <2>1 DEF In
  <2>3. \A w \in us : rg[w].team # T
    BY <1>5, <2>2 DEF MembersIn
  <2>4. MembersIn(rg2, T) = MembersIn(rg, T)
    BY <1>3, <2>3 DEF MembersIn, In
  <2>. QED
    BY <1>2, <2>3, <2>4 DEF MembersIn
<1>6. Frozen(rg2, tm)
  <2>. SUFFICES ASSUME NEW v \in In(rg2), rg2[v].team # NoTeam
                PROVE  /\ rg2[v].roster = tm[rg2[v].team].members
                       /\ tm[rg2[v].team].members = MembersIn(rg2, rg2[v].team)
    BY DEF Frozen
  <2>1. v \in In(rg) /\ rg2[v] = rg[v] /\ v \in MembersIn(rg2, rg[v].team)
    BY <1>3 DEF In, MembersIn
  <2>2. MembersIn(rg2, rg[v].team) = MembersIn(rg, rg[v].team)
    BY <1>5, <2>1
  <2>. QED
    BY <1>1, <2>1, <2>2 DEF Frozen
<1>7. Sold(rg2) \subseteq Sold(rg) \ {us}
  <2>. SUFFICES ASSUME NEW x \in Sold(rg2) PROVE x \in Sold(rg) /\ x # us
    OBVIOUS
  <2>1. CASE \E v \in MembersIn(rg2, NoTeam) : x = {v}
    BY <1>2, <1>3, <2>1 DEF MembersIn, In, Sold
  <2>2. CASE \E T \in Team : x = MembersIn(rg2, T)
    BY <1>5, <2>2, EntryAssumption DEF Sold
  <2>. QED
    BY <2>1, <2>2 DEF Sold
<1>8. Cardinality(Sold(rg2)) <= tr2.registeredSlots
  <2>1. Cardinality(Sold(rg2)) <= Cardinality(Sold(rg)) - 1
    BY <1>4, <1>7, SoldOneLess
  <2>2. Cardinality(Sold(rg)) \in Nat /\ Cardinality(Sold(rg2)) \in Nat
    BY SoldFinite
  <2>. QED
    BY <1>1, <2>1, <2>2
<1>. QED
  BY <1>3, <1>6, <1>8 DEF TourOK, Running

\* Seats and locks change, nothing else.
LEMMA TourReseated ==
    ASSUME NEW tr, NEW rg \in [User -> RegRow], NEW tm, TourOK(tr, rg, tm),
           NEW rg2, SeatsOK(rg2),
           \A v \in User : /\ rg2[v].status = rg[v].status /\ rg2[v].team = rg[v].team
                           /\ rg2[v].roster = rg[v].roster
    PROVE  TourOK(tr, rg2, tm)
<1>1. In(rg2) = In(rg)
  BY DEF In
<1>2. \A T : MembersIn(rg2, T) = MembersIn(rg, T)
  BY <1>1 DEF MembersIn, In
<1>3. Sold(rg2) = Sold(rg)
  BY <1>2 DEF Sold
<1>4. TeamsReal(rg2, tm)
  BY DEF TourOK, TeamsReal
<1>5. Frozen(rg, tm) => Frozen(rg2, tm)
  BY <1>1, <1>2 DEF Frozen, In
<1>. QED
  BY <1>1, <1>3, <1>4, <1>5 DEF TourOK

\* The players us of u's group get a seat that nobody else has, or none.
Seated(u, us, seat, rg, rg2) ==
    /\ us = IF rg[u].team = NoTeam THEN {u} ELSE MembersIn(rg, rg[u].team)
    /\ seat # 0 => \A v \in In(rg) \ us : rg[v].seat # seat
    /\ \A v \in User : /\ rg2[v].status = rg[v].status /\ rg2[v].team = rg[v].team
                       /\ rg2[v].seat = IF v \in us THEN seat ELSE rg[v].seat

LEMMA SeatGiven ==
    ASSUME NEW rg \in [User -> RegRow], SeatsOK(rg), NEW us, NEW u \in User, NEW seat,
           NEW rg2, Seated(u, us, seat, rg, rg2)
    PROVE  SeatsOK(rg2)
<1>. USE DEF Seated
<1>1. In(rg2) = In(rg)
  BY DEF In
<1>. SUFFICES ASSUME NEW v \in In(rg), NEW w \in In(rg), v # w,
                     rg2[v].seat = rg2[w].seat, rg2[v].seat # 0
              PROVE  rg[v].team # NoTeam /\ rg[v].team = rg[w].team
  BY <1>1 DEF SeatsOK, In
<1>2. v \in User /\ w \in User
  BY DEF In
<1>3. CASE v \in us /\ w \in us
  BY <1>3 DEF MembersIn
<1>4. CASE v \in us <=> w \notin us
  BY <1>2, <1>4
<1>5. CASE v \notin us /\ w \notin us
  BY <1>2, <1>5 DEF SeatsOK
<1>. QED
  BY <1>3, <1>4, <1>5

\* A team changes; its members do not while an entry of it runs.
TeamChanged(T, tr, rg, tm, tm2) ==
    /\ \A X \in Team \ {T} : tm2[X] = tm[X]
    /\ tm[T].captain # NoUser => tm2[T].captain # NoUser
    /\ \/ tm2[T].members = tm[T].members
       \/ Running(tr) => \A u \in In(rg) : rg[u].team # T

LEMMA TourTeamChanged ==
    ASSUME NEW tr, NEW rg \in [User -> RegRow], NEW tm, TourOK(tr, rg, tm), NEW tm2, NEW T,
           TeamChanged(T, tr, rg, tm, tm2)
    PROVE  TourOK(tr, rg, tm2)
<1>. USE DEF TeamChanged
<1>1. TeamsReal(rg, tm2)
  <2>. SUFFICES ASSUME NEW u \in User, rg[u].team # NoTeam
                PROVE  TeamSize > 1 /\ tm2[rg[u].team].captain # NoUser
    BY DEF TeamsReal
  <2>1. rg[u].team \in Team
    BY RegTypes
  <2>. QED
    BY <2>1 DEF TourOK, TeamsReal
<1>2. Running(tr) => Frozen(rg, tm2)
  <2>. SUFFICES ASSUME Running(tr), NEW u \in In(rg), rg[u].team # NoTeam
                PROVE  /\ rg[u].roster = tm2[rg[u].team].members
                       /\ tm2[rg[u].team].members = MembersIn(rg, rg[u].team)
    BY DEF Frozen
  <2>1. rg[u].team \in Team
    BY RegTypes DEF In
  <2>2. tm2[rg[u].team].members = tm[rg[u].team].members
    BY <2>1
  <2>. QED
    BY <2>2 DEF TourOK, Frozen
<1>. QED
  BY <1>1, <1>2 DEF TourOK

\* Lone players become the team T, which did not exist.
PairedOff(us, T, rg, tm, rg2, tm2) ==
    /\ us # {} /\ us \subseteq MembersIn(rg, NoTeam)
    /\ tm[T].captain = NoUser
    /\ \A X \in Team \ {T} : tm2[X] = tm[X]
    /\ tm2[T].captain # NoUser /\ tm2[T].members = us
    /\ \A v \in User \ us : rg2[v] = rg[v]
    /\ \A v \in us : /\ rg2[v].status = rg[v].status /\ rg2[v].seat = rg[v].seat
                     /\ rg2[v].team = T /\ rg2[v].roster = us

LEMMA TourPaired ==
    ASSUME NEW tr \in TourRow, NEW rg \in [User -> RegRow], NEW tm, TourOK(tr, rg, tm),
           TeamSize > 1, NEW us, NEW T \in Team, NEW rg2, NEW tm2,
           PairedOff(us, T, rg, tm, rg2, tm2)
    PROVE  TourOK(tr, rg2, tm2)
<1>. USE DEF PairedOff
<1>1. T # NoTeam
  BY EntryAssumption
<1>2. us \in SUBSET User /\ \A v \in us : v \in In(rg) /\ rg[v].team = NoTeam
  BY DEF MembersIn, In
<1>3. In(rg2) = In(rg)
  BY <1>2 DEF In
<1>4. \A v \in User : rg[v].team # T
  BY <1>1 DEF TourOK, TeamsReal
<1>5. SeatsOK(rg2)
  <2>. SUFFICES ASSUME NEW v \in In(rg), NEW w \in In(rg), v # w,
                       rg2[v].seat = rg2[w].seat, rg2[v].seat # 0
                PROVE  rg2[v].team # NoTeam /\ rg2[v].team = rg2[w].team
    BY <1>3 DEF SeatsOK
  <2>1. v \in User /\ w \in User
    BY DEF In
  <2>2. rg[v].seat = rg[w].seat /\ rg[v].seat # 0
    BY <2>1
  <2>3. rg[v].team # NoTeam /\ rg[v].team = rg[w].team
    BY <2>2 DEF TourOK, SeatsOK
  <2>. QED
    BY <1>2, <2>1, <2>3
<1>6. TeamsReal(rg2, tm2)
  <2>. SUFFICES ASSUME NEW v \in User, rg2[v].team # NoTeam
                PROVE  TeamSize > 1 /\ tm2[rg2[v].team].captain # NoUser
    BY DEF TeamsReal
  <2>1. CASE v \in us
    BY <2>1
  <2>2. CASE v \notin us
    <3>1. rg2[v] = rg[v] /\ rg[v].team \in Team \ {T}
      BY <1>4, <2>2, RegTypes
    <3>. QED
      BY <3>1 DEF TourOK, TeamsReal
  <2>. QED
    BY <2>1, <2>2
<1>7. MembersIn(rg2, T) = us
  BY <1>2, <1>3, <1>4 DEF MembersIn, In
<1>8. ASSUME NEW X, X \notin {T, NoTeam}
      PROVE  MembersIn(rg2, X) = MembersIn(rg, X)
  BY <1>2, <1>3, <1>8 DEF MembersIn, In
<1>9. MembersIn(rg2, NoTeam) = MembersIn(rg, NoTeam) \ us
  BY <1>1, <1>2, <1>3 DEF MembersIn, In
<1>10. ASSUME Frozen(rg, tm) PROVE Frozen(rg2, tm2)
  <2>. SUFFICES ASSUME NEW v \in In(rg), rg2[v].team # NoTeam
                PROVE  /\ rg2[v].roster = tm2[rg2[v].team].members
                       /\ tm2[rg2[v].team].members = MembersIn(rg2, rg2[v].team)
    BY <1>3 DEF Frozen
  <2>1. CASE v \in us
    BY <1>7, <2>1
  <2>2. CASE v \notin us
    <3>1. rg2[v] = rg[v] /\ rg[v].team \in Team \ {T}
      BY <1>4, <2>2, RegTypes DEF In
    <3>2. /\ rg[v].roster = tm[rg[v].team].members
          /\ tm[rg[v].team].members = MembersIn(rg, rg[v].team)
      BY <1>10, <3>1 DEF Frozen
    <3>. QED
      BY <1>8, <3>1, <3>2
  <2>. QED
    BY <2>1, <2>2
<1>11. Cardinality(Sold(rg2)) <= Cardinality(Sold(rg))
  <2>1. PICK u \in us : TRUE
    OBVIOUS
  <2>. DEFINE rest == Sold(rg) \ {{u}}
  <2>2. {u} \in Sold(rg)
    BY DEF Sold
  <2>3. /\ IsFiniteSet(rest)
        /\ Cardinality(rest) = Cardinality(Sold(rg)) - 1
    BY <2>2, SoldFinite, FS_RemoveElement
  <2>4. Sold(rg2) \subseteq rest \union {us}
    <3>. SUFFICES ASSUME NEW x \in Sold(rg2), x # us PROVE x \in Sold(rg) /\ x # {u}
      OBVIOUS
    <3>1. CASE \E v \in MembersIn(rg2, NoTeam) : x = {v}
      BY <1>9, <3>1 DEF Sold
    <3>2. CASE \E X \in Team : x = MembersIn(rg2, X)
      <4>1. PICK X \in Team : x = MembersIn(rg2, X) /\ x # {}
        BY <3>2 DEF Sold
      <4>2. X \notin {T, NoTeam}
        BY <1>7, <4>1, EntryAssumption
      <4>3. x = MembersIn(rg, X)
        BY <1>8, <4>1, <4>2
      <4>4. x # {u}
        BY <1>2, <4>2, <4>3 DEF MembersIn
      <4>. QED
        BY <4>1, <4>3, <4>4 DEF Sold
    <3>. QED
      BY <3>1, <3>2 DEF Sold
  <2>5. /\ IsFiniteSet(rest \union {us})
        /\ Cardinality(rest \union {us}) \in {Cardinality(rest), Cardinality(rest) + 1}
    BY <2>3, FS_AddElement
  <2>6. Cardinality(Sold(rg2)) <= Cardinality(rest \union {us})
    BY <2>4, <2>5, FS_Subset
  <2>7. Cardinality(Sold(rg)) \in Nat /\ Cardinality(Sold(rg2)) \in Nat
    BY SoldFinite
  <2>. HIDE DEF rest
  <2>. QED
    BY <2>3, <2>5, <2>6, <2>7
<1>12. tr.registeredSlots \in Int /\ Cardinality(Sold(rg)) \in Nat /\ Cardinality(Sold(rg2)) \in Nat
  BY TourTypes, SoldFinite
<1>. QED
  BY <1>3, <1>5, <1>6, <1>10, <1>11, <1>12 DEF TourOK

\* A tournament opens with no entry, runs on, or is over.
LEMMA TourStatusChanged ==
    ASSUME NEW tr \in TourRow, NEW rg, NEW tm, TourOK(tr, rg, tm), NEW tr2,
           tr2.registeredSlots = tr.registeredSlots,
           \/ tr2.status = tr.status
           \/ tr2.status \in {"COMPLETED", "CANCELLED"}
           \/ tr.status = "DRAFT" /\ tr2.status = "REGISTRATION_OPEN"
           \/ tr.status = "REGISTRATION_OPEN" /\ tr2.status = "LIVE"
    PROVE  TourOK(tr2, rg, tm)
<1>1. CASE tr.status = "DRAFT" /\ tr2.status = "REGISTRATION_OPEN"
  <2>1. In(rg) = {} /\ tr.registeredSlots = 0
    BY <1>1 DEF TourOK
  <2>2. Sold(rg) = {}
    BY <2>1 DEF Sold, MembersIn
  <2>3. Cardinality(Sold(rg)) = 0
    BY <2>2, FS_EmptySet
  <2>. QED
    BY <1>1, <2>1, <2>3 DEF TourOK, Frozen
<1>. QED
  BY <1>1 DEF TourOK, Running

-----------------------------------------------------------------------------
(***************************************************************************)
(* What the locks protect.                                                 *)
(***************************************************************************)
\* No request comes to hold a tournament.
NoNewLock ==
    /\ \A j \in JoinReq : joins'[j].stage = "open" => joins'[j] = joins[j]
    /\ \A s \in Staff : staff'[s].op = "pair" => staff'[s] = staff[s]

LEMMA LocksFewer == ASSUME LockedOnce, NoNewLock PROVE LockedOnce'
<1>1. ASSUME NEW j \in JoinReq, NEW k \in JoinReq, joins'[j].stage = "open",
             joins'[k].stage = "open", joins'[j].tour = joins'[k].tour
      PROVE  j = k
  BY <1>1 DEF LockedOnce, NoNewLock
<1>2. ASSUME NEW s \in Staff, NEW r \in Staff, staff'[s].op = "pair",
             staff'[r].op = "pair", staff'[s].tour = staff'[r].tour
      PROVE  s = r
  BY <1>2 DEF LockedOnce, NoNewLock
<1>3. ASSUME NEW j \in JoinReq, NEW s \in Staff, joins'[j].stage = "open", staff'[s].op = "pair"
      PROVE  joins'[j].tour # staff'[s].tour
  BY <1>3 DEF LockedOnce, NoNewLock
<1>. QED
  BY <1>1, <1>2, <1>3 DEF LockedOnce

LEMMA RedeemingFinite ==
    ASSUME NEW js
    PROVE  /\ Redeeming(js) \in SUBSET Tour /\ IsFiniteSet(Redeeming(js))
           /\ Cardinality(Redeeming(js)) \in Nat
<1>1. Redeeming(js) \in SUBSET Tour
  BY DEF Redeeming
<1>. QED
  BY <1>1, EntryAssumption, FS_Subset, FS_CardinalityType

LEMMA ReachedFinite ==
    ASSUME NEW js, NEW rd \in SUBSET [user : User, tour : Tour]
    PROVE  /\ Reached(js, rd) \in SUBSET Tour /\ IsFiniteSet(Reached(js, rd))
           /\ Cardinality(Reached(js, rd)) \in Nat
<1>1. \A d \in rd : d.tour \in Tour
  OBVIOUS
<1>2. Reached(js, rd) \in SUBSET Tour
  BY <1>1, RedeemingFinite DEF Reached
<1>. QED
  BY <1>2, EntryAssumption, FS_Subset, FS_CardinalityType

\* With fewer uses under way, the uses are within the limit if they were before.
LEMMA FewerRedeeming ==
    ASSUME NEW js, NEW old, NEW used \in Nat, NEW rd \in SUBSET [user : User, tour : Tour],
           Redeeming(js) \subseteq Redeeming(old),
           Within(used, Cardinality(Redeeming(old)), Cardinality(Reached(old, rd)))
    PROVE  Within(used, Cardinality(Redeeming(js)), Cardinality(Reached(js, rd)))
<1>. DEFINE Gone == Redeeming(old) \ Redeeming(js)
<1>1. /\ IsFiniteSet(Redeeming(js)) /\ IsFiniteSet(Redeeming(old)) /\ IsFiniteSet(Gone)
      /\ Cardinality(Gone) \in Nat
      /\ Cardinality(Redeeming(js)) \in Nat /\ Cardinality(Redeeming(old)) \in Nat
  <2>1. Gone \in SUBSET Redeeming(old)
    OBVIOUS
  <2>. QED
    BY <2>1, RedeemingFinite, FS_Subset, FS_CardinalityType
<1>2. Cardinality(Redeeming(old)) = Cardinality(Redeeming(js)) + Cardinality(Gone)
  <2>1. Redeeming(js) \union Gone = Redeeming(old) /\ Redeeming(js) \intersect Gone = {}
    OBVIOUS
  <2>2. Cardinality({}) = 0
    BY FS_EmptySet
  <2>3. Cardinality(Redeeming(js) \union Gone)
          = Cardinality(Redeeming(js)) + Cardinality(Gone)
              - Cardinality(Redeeming(js) \intersect Gone)
    BY <1>1, FS_Union
  <2>4. Cardinality(Redeeming(js) \intersect Gone) = 0
    BY <2>1, <2>2
  <2>. QED
    BY <1>1, <2>1, <2>3, <2>4
<1>3. Cardinality(Reached(old, rd)) <= Cardinality(Reached(js, rd)) + Cardinality(Gone)
  <2>1. Reached(old, rd) = Reached(js, rd) \union Gone
    BY DEF Reached
  <2>2. /\ IsFiniteSet(Reached(js, rd) \intersect Gone)
        /\ Cardinality(Reached(js, rd) \intersect Gone) \in Nat
    BY <1>1, FS_Subset, FS_CardinalityType
  <2>3. Cardinality(Reached(js, rd) \union Gone)
          = Cardinality(Reached(js, rd)) + Cardinality(Gone)
              - Cardinality(Reached(js, rd) \intersect Gone)
    BY <1>1, ReachedFinite, FS_Union
  <2>. QED
    BY <1>1, <2>1, <2>2, <2>3, ReachedFinite
<1>4. /\ CouponLimit \in Nat
      /\ Cardinality(Reached(js, rd)) \in Nat /\ Cardinality(Reached(old, rd)) \in Nat
  BY EntryAssumption, ReachedFinite
<1>. HIDE DEF Gone
<1>. QED
  BY <1>1, <1>2, <1>3, <1>4 DEF Within

LEMMA CouponKept ==
    ASSUME EntryTypeOK, CouponInv, NoNewLock, couponUsed' = couponUsed, redeemed' = redeemed
    PROVE  CouponInv'
<1>. PICK new : new = joins'
  OBVIOUS
<1>1. Redeeming(new) \subseteq Redeeming(joins)
  BY DEF Redeeming, NoNewLock
<1>2. Within(couponUsed, Cardinality(Redeeming(new)), Cardinality(Reached(new, redeemed)))
  BY <1>1, EntryTypes, FewerRedeeming DEF CouponInv
<1>. QED
  BY <1>2 DEF CouponInv

\* The tables change for the tournament t alone, which nobody else holds.
OnlyTour(t) ==
    \A x \in Tour \ {t} : tours'[x] = tours[x] /\ regs'[x] = regs[x]

LEMMA JoinsKept ==
    ASSUME EntryTypeOK, JoinsOK, NEW t \in Tour, TourFree(t), OnlyTour(t),
           joins' = joins, teams' = teams
    PROVE  JoinsOK'
<1>. SUFFICES ASSUME NEW j \in JoinReq
              PROVE  JoinOK(joins[j], tours'[joins[j].tour], regs'[joins[j].tour], teams)
  BY DEF JoinsOK
<1>. PICK r \in Join : r = joins[j]
  BY EntryTypes
<1>1. JoinOK(r, tours[r.tour], regs[r.tour], teams)
  BY DEF JoinsOK
<1>2. CASE r.stage = "open"
  <2>1. r.tour \in Tour \ {t}
    BY <1>2, JoinTypes DEF TourFree
  <2>2. tours'[r.tour] = tours[r.tour] /\ regs'[r.tour] = regs[r.tour]
    BY <2>1 DEF OnlyTour
  <2>. QED
    BY <1>1, <2>2
<1>3. CASE r.stage # "open"
  BY <1>1, <1>3 DEF JoinOK
<1>. QED
  BY <1>2, <1>3

LEMMA PairsKept ==
    ASSUME EntryTypeOK, PairsOK, NEW t \in Tour, TourFree(t), OnlyTour(t), NoNewLock
    PROVE  PairsOK'
<1>. SUFFICES ASSUME NEW s \in Staff
              PROVE  PairOK(staff'[s], regs'[staff'[s].tour])
  BY DEF PairsOK
<1>1. CASE staff'[s].op = "pair"
  <2>. PICK x \in StaffRequest : x = staff[s]
    BY EntryTypes
  <2>1. staff'[s] = x
    BY <1>1 DEF NoNewLock
  <2>2. x.tour \in Tour \ {t}
    BY <1>1, <2>1, StaffTypes DEF TourFree
  <2>3. regs'[x.tour] = regs[x.tour]
    BY <2>2 DEF OnlyTour
  <2>4. PairOK(x, regs[x.tour])
    BY DEF PairsOK
  <2>. QED
    BY <2>1, <2>3, <2>4
<1>. QED
  BY <1>1 DEF PairOK

LEMMA ToursKept ==
    ASSUME ToursOK, NEW t \in Tour, OnlyTour(t), teams' = teams,
           TourOK(tours'[t], regs'[t], teams)
    PROVE  ToursOK'
<1>1. ASSUME NEW x \in Tour PROVE TourOK(tours'[x], regs'[x], teams')
  <2>1. CASE x = t
    BY <2>1
  <2>2. CASE x # t
    <3>1. tours'[x] = tours[x] /\ regs'[x] = regs[x]
      BY <2>2 DEF OnlyTour
    <3>. QED
      BY <3>1 DEF ToursOK
  <2>. QED
    BY <2>1, <2>2
<1>. QED
  BY <1>1 DEF ToursOK

\* A transaction on a tournament that nobody holds.
LEMMA TourStep ==
    ASSUME EntryInv, NEW t \in Tour, TourFree(t), OnlyTour(t), NoNewLock,
           joins' = joins, teams' = teams, couponUsed' = couponUsed, redeemed' = redeemed,
           TourOK(tours'[t], regs'[t], teams), EntryTypeOK', LedgerExplainsBalance'
    PROVE  EntryInv'
<1>1. LockedOnce' /\ CouponInv'
  BY LocksFewer, CouponKept DEF EntryInv
<1>2. JoinsOK' /\ PairsOK' /\ ToursOK'
  BY JoinsKept, PairsKept, ToursKept DEF EntryInv
<1>. QED
  BY <1>1, <1>2 DEF EntryInv

-----------------------------------------------------------------------------
(***************************************************************************)
(* The steps of a join.                                                    *)
(***************************************************************************)
\* Only the request j changes, and still asks for the same.
Moves(j) ==
    /\ joins' \in [JoinReq -> Join]
    /\ \A k \in JoinReq \ {j} : joins'[k] = joins[k]
    /\ joins'[j].user = joins[j].user /\ joins'[j].tour = joins[j].tour
    /\ joins'[j].team = joins[j].team /\ joins'[j].coupon = joins[j].coupon

\* It holds no tournament afterwards.
Releases(j) ==
    /\ Moves(j)
    /\ joins'[j].stage # "open"
    /\ joins'[j].stage = "ready" => (~ByTeam(joins[j]) => joins'[j].payers = {joins[j].user})

Quiet == UNCHANGED <<walletVars, tours, regs, teams, couponUsed, redeemed, staff, suspended>>

LEMMA FinishMoves ==
    ASSUME EntryTypeOK, NEW j \in JoinReq, NEW answer \in {"joined", "refused", "busy"},
           FinishJoin(j, answer)
    PROVE  Releases(j)
<1>1. joins \in [JoinReq -> Join]
  BY EntryTypes
<1>2. [joins[j] EXCEPT !.stage = "done", !.answer = answer] \in Join
  BY <1>1 DEF Join
<1>3. joins' = [joins EXCEPT ![j] = [joins[j] EXCEPT !.stage = "done", !.answer = answer]]
  BY <1>1 DEF FinishJoin
<1>4. joins'[j] = [joins[j] EXCEPT !.stage = "done", !.answer = answer]
  BY <1>1, <1>3
<1>5. joins' \in [JoinReq -> Join] /\ \A k \in JoinReq \ {j} : joins'[k] = joins[k]
  BY <1>1, <1>2, <1>3
<1>6. joins[j] \in Join
  BY <1>1
<1>7. /\ joins'[j].user = joins[j].user /\ joins'[j].tour = joins[j].tour
      /\ joins'[j].team = joins[j].team /\ joins'[j].coupon = joins[j].coupon
      /\ joins'[j].stage = "done"
  BY <1>4, <1>6 DEF Join
<1>. QED
  BY <1>5, <1>7 DEF Releases, Moves

LEMMA RetryMoves ==
    ASSUME EntryTypeOK, JoinsOK, NEW j \in JoinReq, joins[j].stage \in {"ready", "open"},
           RetryJoin(j)
    PROVE  Releases(j)
<1>1. CASE joins[j].attempt < JoinAttempts
  <2>1. PICK stage \in {"ready", "preflight"} :
            joins' = [joins EXCEPT ![j].stage = stage, ![j].attempt = @ + 1, ![j].seen = 0]
    BY <1>1 DEF RetryJoin
  <2>2. joins \in [JoinReq -> Join]
    BY EntryTypes
  <2>. PICK r \in Join : r = joins[j]
    BY <2>2
  <2>3. r.attempt + 1 \in 0..JoinAttempts
    BY <1>1, JoinTypes, EntryAssumption
  <2>. PICK n \in 0..JoinAttempts : n = r.attempt + 1
    BY <2>3
  <2>. DEFINE new == [r EXCEPT !.stage = stage, !.attempt = n, !.seen = 0]
  <2>4. /\ new \in Join /\ new.stage = stage /\ new.user = r.user /\ new.tour = r.tour
        /\ new.team = r.team /\ new.coupon = r.coupon /\ new.payers = r.payers
    BY DEF Join
  <2>5. joins' = [joins EXCEPT ![j] = new]
    BY <2>1, <2>2
  <2>. HIDE DEF new
  <2>6. joins'[j] = new /\ joins' \in [JoinReq -> Join] /\ \A k \in JoinReq \ {j} : joins'[k] = joins[k]
    BY <2>2, <2>4, <2>5
  <2>7. ~ByTeam(r) => r.payers = {r.user}
    <3>1. JoinOK(r, tours[r.tour], regs[r.tour], teams)
      BY DEF JoinsOK
    <3>. QED
      BY <3>1 DEF JoinOK
  <2>8. Moves(j)
    BY <2>4, <2>6 DEF Moves
  <2>. QED
    BY <2>4, <2>6, <2>7, <2>8 DEF Releases
<1>2. CASE ~(joins[j].attempt < JoinAttempts)
  BY <1>2, FinishMoves DEF RetryJoin
<1>. QED
  BY <1>1, <1>2

LEMMA QuietTypes ==
    ASSUME EntryInv, Quiet, joins' \in [JoinReq -> Join]
    PROVE  EntryTypeOK' /\ LedgerExplainsBalance'
<1>1. Books' = Books
  BY DEF Quiet, walletVars, Books
<1>2. LedgerExplainsBalance'
  BY <1>1 DEF EntryInv, LedgerExplainsBalance, BooksExplained, ClosingBalance
<1>3. WalletTypeOK'
  BY <1>1 DEF EntryInv, EntryTypeOK, WalletTypeOK, BooksOK, Quiet, walletVars
<1>. QED
  BY <1>2, <1>3 DEF EntryInv, EntryTypeOK, Quiet

\* The requirements of the requests once j has let go.
LEMMA ReleasedJoins ==
    ASSUME NEW j \in JoinReq, Releases(j), NEW trs, NEW rgs, NEW tms,
           \A k \in JoinReq \ {j} : JoinOK(joins[k], trs[joins[k].tour], rgs[joins[k].tour], tms)
    PROVE  \A k \in JoinReq : JoinOK(joins'[k], trs[joins'[k].tour], rgs[joins'[k].tour], tms)
<1>. SUFFICES ASSUME NEW k \in JoinReq
              PROVE  JoinOK(joins'[k], trs[joins'[k].tour], rgs[joins'[k].tour], tms)
  OBVIOUS
<1>1. CASE k = j
  BY <1>1 DEF Releases, Moves, JoinOK, ByTeam
<1>2. CASE k # j
  <2>1. joins'[k] = joins[k]
    BY <1>2 DEF Releases, Moves
  <2>. QED
    BY <1>2, <2>1
<1>. QED
  BY <1>1, <1>2

\* A join that lets go of its tournament and writes nothing.
LEMMA ReleaseStep ==
    ASSUME EntryInv, NEW j \in JoinReq, Quiet, Releases(j)
    PROVE  EntryInv'
<1>1. EntryTypeOK' /\ LedgerExplainsBalance'
  BY QuietTypes DEF Releases, Moves
<1>2. NoNewLock
  BY DEF NoNewLock, Releases, Moves, Quiet
<1>3. LockedOnce' /\ CouponInv'
  BY <1>2, LocksFewer, CouponKept DEF EntryInv, Quiet
<1>4. JoinsOK'
  <2>1. \A k \in JoinReq : JoinOK(joins'[k], tours[joins'[k].tour], regs[joins'[k].tour], teams)
    BY ReleasedJoins DEF EntryInv, JoinsOK
  <2>. QED
    BY <2>1 DEF JoinsOK, Quiet
<1>5. PairsOK' /\ ToursOK'
  BY DEF EntryInv, PairsOK, ToursOK, Quiet
<1>. QED
  BY <1>1, <1>3, <1>4, <1>5 DEF EntryInv

LEMMA SubmitReleases ==
    ASSUME EntryInv, NEW j \in JoinReq, SubmitJoin(j)
    PROVE  Releases(j) /\ Quiet
<1>1. joins \in [JoinReq -> Join] /\ 1 \in 0..JoinAttempts
  BY EntryTypes, EntryAssumption DEF EntryInv
<1>. PICK r \in Join : r = joins[j]
  BY <1>1
<1>. DEFINE new == [r EXCEPT !.stage = "preflight", !.attempt = 1]
<1>2. /\ new \in Join /\ new.stage = "preflight" /\ new.user = r.user /\ new.tour = r.tour
      /\ new.team = r.team /\ new.coupon = r.coupon
  BY <1>1 DEF Join
<1>3. joins' = [joins EXCEPT ![j] = new]
  BY <1>1 DEF SubmitJoin
<1>. HIDE DEF new
<1>. QED
  BY <1>1, <1>2, <1>3 DEF SubmitJoin, Releases, Moves, Quiet

LEMMA PreflightReleases ==
    ASSUME EntryInv, NEW j \in JoinReq, PreflightJoin(j)
    PROVE  Releases(j) /\ Quiet
<1>1. EntryTypeOK /\ joins \in [JoinReq -> Join] /\ teams \in [Team -> TeamRow] /\ tours \in [Tour -> TourRow]
  BY EntryTypes DEF EntryInv
<1>. PICK r \in Join : r = joins[j]
  BY <1>1
<1>2. r.tour \in Tour /\ r.user \in User /\ r.team \in Team \union {NoTeam}
  BY JoinTypes
<1>. DEFINE payers == IF ByTeam(r) THEN teams[r.team].members ELSE {r.user}
            slots == tours[r.tour].maxSlots
            new == [r EXCEPT !.stage = "ready", !.payers = payers, !.slots = slots]
<1>3. Quiet
  BY DEF PreflightJoin, Quiet
<1>4. CASE FinishJoin(j, "refused")
  BY <1>1, <1>3, <1>4, FinishMoves
<1>5. CASE joins' = [joins EXCEPT ![j].stage = "ready", ![j].payers = payers, ![j].slots = slots]
  <2>1. payers \in SUBSET User
    BY <1>1, <1>2, TeamTypes DEF ByTeam
  <2>2. slots \in Nat
    BY <1>1, <1>2, TourTypes
  <2>3. ~ByTeam(r) => payers = {r.user}
    OBVIOUS
  <2>. HIDE DEF payers, slots
  <2>4. /\ new \in Join /\ new.stage = "ready" /\ new.user = r.user /\ new.tour = r.tour
        /\ new.team = r.team /\ new.coupon = r.coupon /\ new.payers = payers
    BY <2>1, <2>2 DEF Join
  <2>5. joins' = [joins EXCEPT ![j] = new]
    BY <1>1, <1>5
  <2>. HIDE DEF new
  <2>6. joins'[j] = new /\ joins' \in [JoinReq -> Join] /\ \A k \in JoinReq \ {j} : joins'[k] = joins[k]
    BY <1>1, <2>4, <2>5
  <2>. QED
    BY <1>3, <2>3, <2>4, <2>6 DEF Releases, Moves
<1>. QED
  BY <1>4, <1>5 DEF PreflightJoin, AsTeam, ByTeam

\* What a join finds under the locks it takes.
LEMMA OpenStep ==
    ASSUME EntryInv, NEW j \in JoinReq, OpenJoin(j)
    PROVE  EntryInv'
<1>1. EntryTypeOK /\ joins \in [JoinReq -> Join] /\ couponUsed \in Nat /\ Quiet
  BY EntryTypes DEF EntryInv, OpenJoin, Quiet
<1>2. CASE FinishJoin(j, "refused")
  BY <1>1, <1>2, FinishMoves, ReleaseStep
<1>3. CASE /\ Admissible(j)
           /\ joins' = [joins EXCEPT ![j].stage = "open", ![j].seen = couponUsed]
  <2>. PICK r \in Join : r = joins[j]
    BY <1>1
  <2>. PICK n \in Nat : n = couponUsed
    BY <1>1
  <2>. DEFINE new == [r EXCEPT !.stage = "open", !.seen = n]
  <2>1. /\ new \in Join /\ new.stage = "open" /\ new.user = r.user /\ new.tour = r.tour
        /\ new.team = r.team /\ new.coupon = r.coupon /\ new.payers = r.payers
        /\ new.slots = r.slots
    BY DEF Join
  <2>2. joins' = [joins EXCEPT ![j] = new]
    BY <1>1, <1>3
  <2>. HIDE DEF new
  <2>3. joins'[j] = new /\ joins' \in [JoinReq -> Join] /\ \A k \in JoinReq \ {j} : joins'[k] = joins[k]
    BY <1>1, <2>1, <2>2
  <2>4. r.stage = "ready" /\ TourFree(r.tour) /\ r.tour \in Tour
    BY JoinTypes DEF OpenJoin
  <2>5. EntryTypeOK' /\ LedgerExplainsBalance'
    BY <1>1, <2>3, QuietTypes
  <2>6. LockedOnce'
    <3>1. ASSUME NEW k \in JoinReq, NEW i \in JoinReq, joins'[k].stage = "open",
                 joins'[i].stage = "open", joins'[k].tour = joins'[i].tour
          PROVE  k = i
      BY <2>1, <2>3, <2>4, <3>1 DEF EntryInv, LockedOnce, TourFree
    <3>2. ASSUME NEW k \in JoinReq, NEW s \in Staff, joins'[k].stage = "open", staff'[s].op = "pair"
          PROVE  joins'[k].tour # staff'[s].tour
      BY <1>1, <2>1, <2>3, <2>4, <3>2 DEF EntryInv, LockedOnce, TourFree, Quiet
    <3>. QED
      BY <1>1, <3>1, <3>2 DEF EntryInv, LockedOnce, Quiet
  <2>7. JoinsOK'
    <3>1. JoinOK(new, tours[r.tour], regs[r.tour], teams)
      <4>1. JoinOK(r, tours[r.tour], regs[r.tour], teams)
        BY DEF EntryInv, JoinsOK
      <4>2. /\ r.payers \intersect In(regs[r.tour]) = {}
            /\ (1..r.slots) \ {regs[r.tour][u].seat : u \in In(regs[r.tour])} # {}
            /\ tours[r.tour].status = "REGISTRATION_OPEN"
        BY <1>3 DEF Admissible, Confirmed, In, FreeSeats, Taken
      <4>3. ByTeam(r) => /\ teams[r.team].captain # NoUser
                         /\ teams[r.team].members = r.payers
        <5>1. ByTeam(r) => teams[r.team].captain = r.user /\ teams[r.team].members = r.payers
          BY <1>3 DEF Admissible, AsTeam, ByTeam, TeamReady
        <5>2. r.user # NoUser
          BY JoinTypes, EntryAssumption
        <5>. QED
          BY <5>1, <5>2
      <4>. QED
        BY <2>1, <2>4, <4>1, <4>2, <4>3 DEF JoinOK, ByTeam
    <3>2. ASSUME NEW k \in JoinReq
          PROVE  JoinOK(joins'[k], tours[joins'[k].tour], regs[joins'[k].tour], teams)
      BY <2>1, <2>3, <3>1 DEF EntryInv, JoinsOK
    <3>. QED
      BY <1>1, <3>2 DEF JoinsOK, Quiet
  <2>8. PairsOK' /\ ToursOK'
    BY <1>1 DEF EntryInv, PairsOK, ToursOK, Quiet
  <2>9. CouponInv'
    <3>1. PICK js : js = joins'
      OBVIOUS
    <3>2. CASE ~r.coupon
      <4>1. Redeeming(js) \subseteq Redeeming(joins)
        BY <2>1, <2>3, <3>1, <3>2 DEF Redeeming
      <4>2. Within(couponUsed, Cardinality(Redeeming(js)), Cardinality(Reached(js, redeemed)))
        BY <1>1, <4>1, EntryTypes, FewerRedeeming DEF EntryInv, CouponInv
      <4>. QED
        BY <1>1, <3>1, <4>2 DEF CouponInv, Quiet
    <3>3. CASE r.coupon
      <4>1. couponUsed < CouponLimit
        BY <1>3, <3>3 DEF Admissible
      <4>2. Redeeming(js) \subseteq Reached(js, redeemed)
        BY DEF Reached
      <4>3. /\ Cardinality(Redeeming(js)) <= Cardinality(Reached(js, redeemed))
            /\ Cardinality(Redeeming(js)) \in Nat /\ Cardinality(Reached(js, redeemed)) \in Nat
        BY <1>1, <4>2, EntryTypes, RedeemingFinite, ReachedFinite, FS_Subset
      <4>4. Within(couponUsed, Cardinality(Redeeming(js)), Cardinality(Reached(js, redeemed)))
        BY <1>1, <4>1, <4>3, EntryAssumption DEF Within
      <4>. QED
        BY <1>1, <3>1, <4>4 DEF CouponInv, Quiet
    <3>. QED
      BY <3>2, <3>3
  <2>. QED
    BY <2>5, <2>6, <2>7, <2>8, <2>9 DEF EntryInv
<1>. QED
  BY <1>2, <1>3 DEF OpenJoin

LEMMA NewRegFacts ==
    ASSUME EntryInv, NEW j \in JoinReq, joins[j].stage = "open", NEW u \in joins[j].payers
    PROVE  /\ NewReg(j, u) \in RegRow
           /\ NewReg(j, u).status = "CONFIRMED"
           /\ NewReg(j, u).team = IF ByTeam(joins[j]) THEN joins[j].team ELSE NoTeam
           /\ NewReg(j, u).seat = Min(FreeSeats(joins[j].tour, joins[j].slots))
           /\ ByTeam(joins[j]) => NewReg(j, u).roster = joins[j].payers
           /\ NewReg(j, u).amount = Payable(j, u)
           /\ NewReg(j, u).fee = Len(ledger[u]["CASH"]) + 1
           /\ Min(FreeSeats(joins[j].tour, joins[j].slots)) \in FreeSeats(joins[j].tour, joins[j].slots)
<1>. PICK r \in Join : r = joins[j]
  BY EntryTypes DEF EntryInv
<1>1. /\ r.tour \in Tour /\ r.team \in Team \union {NoTeam} /\ r.payers \in SUBSET User
      /\ r.slots \in Nat /\ u \in User
  BY JoinTypes
<1>. DEFINE free == FreeSeats(r.tour, r.slots)
<1>2. free # {}
  <2>1. JoinOK(r, tours[r.tour], regs[r.tour], teams)
    BY DEF EntryInv, JoinsOK
  <2>. QED
    BY <2>1 DEF JoinOK, FreeSeats, Taken, Confirmed, In
<1>3. free \in SUBSET Nat
  BY <1>1 DEF FreeSeats
<1>4. Min(free) \in free /\ Min(free) \in Nat
  BY <1>2, <1>3, LeastNumber
<1>5. Payable(j, u) \in Nat
  BY <1>1, FeeType DEF EntryInv
<1>6. Len(ledger[u]["CASH"]) + 1 \in Nat
  BY <1>1, EntryTypes DEF EntryInv, BooksOK, Books, Bucket
<1>7. regs[r.tour][u].roster \in SUBSET User
  BY <1>1, EntryTypes, RegTypes DEF EntryInv
<1>. PICK fee \in Nat : fee = Len(ledger[u]["CASH"]) + 1
  BY <1>6
<1>. DEFINE team == IF ByTeam(r) THEN r.team ELSE NoTeam
            roster == IF ByTeam(r) THEN r.payers ELSE regs[r.tour][u].roster
<1>8. team \in Team \union {NoTeam} /\ roster \in SUBSET User
  BY <1>1, <1>7
<1>9. NewReg(j, u) = [status |-> "CONFIRMED", team |-> team, seat |-> Min(free),
                      locked |-> FALSE, amount |-> Payable(j, u), roster |-> roster, fee |-> fee]
  BY DEF NewReg, AsTeam, ByTeam
<1>10. ByTeam(r) => roster = r.payers
  OBVIOUS
<1>11. team = IF ByTeam(r) THEN r.team ELSE NoTeam
  OBVIOUS
<1>. HIDE DEF team, roster, free
<1>12. NewReg(j, u) \in RegRow
  BY <1>4, <1>5, <1>8, <1>9 DEF RegRow
<1>. QED
  BY <1>4, <1>9, <1>10, <1>11, <1>12 DEF free

\* The registrations after an entry.
LEMMA RegsWritten ==
    ASSUME EntryInv, NEW j \in JoinReq, WriteEntry(j), NEW r \in Join, r = joins[j]
    PROVE  /\ regs' \in [Tour -> [User -> RegRow]]
           /\ \A x \in Tour \ {r.tour} : regs'[x] = regs[x]
           /\ \A u \in User \ r.payers : regs'[r.tour][u] = regs[r.tour][u]
           /\ \A u \in r.payers : regs'[r.tour][u] = NewReg(j, u)
<1>1. /\ regs \in [Tour -> [User -> RegRow]] /\ r.tour \in Tour /\ r.payers \in SUBSET User
      /\ r.stage = "open"
  BY EntryTypes, JoinTypes DEF EntryInv, WriteEntry
<1>. DEFINE new == [u \in User |-> IF u \in r.payers THEN NewReg(j, u) ELSE regs[r.tour][u]]
<1>2. new \in [User -> RegRow]
  <2>1. ASSUME NEW u \in User
        PROVE  (IF u \in r.payers THEN NewReg(j, u) ELSE regs[r.tour][u]) \in RegRow
    <3>1. regs[r.tour][u] \in RegRow
      BY <1>1
    <3>2. u \in r.payers => NewReg(j, u) \in RegRow
      BY <1>1, NewRegFacts
    <3>. QED
      BY <3>1, <3>2
  <2>. QED
    BY <2>1, Zenon
<1>3. regs' = [regs EXCEPT ![r.tour] = new]
  BY <1>1 DEF WriteEntry
<1>4. /\ \A u \in User \ r.payers : new[u] = regs[r.tour][u]
      /\ \A u \in r.payers : new[u] = NewReg(j, u)
  BY <1>1
<1>. HIDE DEF new
<1>5. regs'[r.tour] = new /\ \A x \in Tour \ {r.tour} : regs'[x] = regs[x]
  BY <1>1, <1>3
<1>. QED
  BY <1>1, <1>2, <1>3, <1>4, <1>5

LEMMA WriteStep ==
    ASSUME EntryInv, NEW j \in JoinReq, WriteEntry(j), Releases(j)
    PROVE  EntryInv'
<1>1. /\ EntryTypeOK /\ joins \in [JoinReq -> Join] /\ couponUsed \in Nat
      /\ tours \in [Tour -> TourRow] /\ regs \in [Tour -> [User -> RegRow]]
      /\ redeemed \in SUBSET [user : User, tour : Tour]
  BY EntryTypes DEF EntryInv
<1>. PICK r \in Join : r = joins[j]
  BY <1>1
<1>2. r.tour \in Tour /\ r.user \in User /\ r.payers \in SUBSET User /\ r.stage = "open"
  BY JoinTypes DEF WriteEntry
<1>3. /\ teams' = teams /\ staff' = staff /\ suspended' = suspended
      /\ couponUsed' = couponUsed + CouponUses(j)
      /\ redeemed' = redeemed \union
             IF r.coupon THEN {[user |-> r.user, tour |-> r.tour]} ELSE {}
      /\ tours' = [tours EXCEPT ![r.tour].registeredSlots = @ + 1]
  BY DEF WriteEntry
<1>4. WalletTypeOK' /\ LedgerExplainsBalance'
  BY WriteBooks DEF EntryInv
<1>5. /\ regs' \in [Tour -> [User -> RegRow]]
      /\ \A x \in Tour \ {r.tour} : regs'[x] = regs[x]
      /\ \A u \in User \ r.payers : regs'[r.tour][u] = regs[r.tour][u]
      /\ \A u \in r.payers : regs'[r.tour][u] = NewReg(j, u)
  BY RegsWritten
<1>6. /\ tours' \in [Tour -> TourRow]
      /\ \A x \in Tour \ {r.tour} : tours'[x] = tours[x]
      /\ tours'[r.tour].status = tours[r.tour].status
      /\ tours'[r.tour].registeredSlots = tours[r.tour].registeredSlots + 1
  <2>. PICK tr \in TourRow : tr = tours[r.tour]
    BY <1>1, <1>2
  <2>. PICK n \in Int : n = tr.registeredSlots + 1
    BY TourTypes
  <2>. DEFINE new == [tr EXCEPT !.registeredSlots = n]
  <2>1. new \in TourRow /\ new.status = tr.status /\ new.registeredSlots = n
    BY DEF TourRow
  <2>2. tours' = [tours EXCEPT ![r.tour] = new]
    BY <1>1, <1>2, <1>3
  <2>. HIDE DEF new
  <2>. QED
    BY <1>1, <1>2, <2>1, <2>2
<1>7. CouponUses(j) = IF r.coupon THEN 1 ELSE 0
  BY DEF CouponUses
<1>8. EntryTypeOK'
  <2>1. couponUsed' \in Nat /\ redeemed' \in SUBSET [user : User, tour : Tour]
    BY <1>1, <1>2, <1>3, <1>7
  <2>. QED
    BY <1>1, <1>3, <1>4, <1>5, <1>6, <2>1 DEF EntryTypeOK, Releases, Moves
<1>9. LockedOnce'
  <2>1. NoNewLock
    BY <1>3 DEF NoNewLock, Releases, Moves
  <2>. QED
    BY <2>1, LocksFewer DEF EntryInv
<1>10. OnlyTour(r.tour)
  BY <1>5, <1>6 DEF OnlyTour
<1>11. JoinsOK'
  <2>1. ASSUME NEW k \in JoinReq \ {j}
        PROVE  JoinOK(joins[k], tours'[joins[k].tour], regs'[joins[k].tour], teams)
    <3>. PICK q \in Join : q = joins[k]
      BY <1>1
    <3>1. JoinOK(q, tours[q.tour], regs[q.tour], teams)
      BY DEF EntryInv, JoinsOK
    <3>2. CASE q.stage = "open"
      <4>1. q.tour \in Tour \ {r.tour}
        BY <1>2, <3>2, JoinTypes DEF EntryInv, LockedOnce
      <4>. QED
        BY <1>10, <3>1, <4>1 DEF OnlyTour
    <3>. QED
      BY <3>1, <3>2 DEF JoinOK
  <2>. PICK trs, rgs : trs = tours' /\ rgs = regs'
    OBVIOUS
  <2>2. \A k \in JoinReq : JoinOK(joins'[k], trs[joins'[k].tour], rgs[joins'[k].tour], teams)
    BY <2>1, ReleasedJoins
  <2>. QED
    BY <1>3, <2>2 DEF JoinsOK
<1>12. PairsOK'
  <2>. SUFFICES ASSUME NEW s \in Staff PROVE PairOK(staff[s], regs'[staff[s].tour])
    BY <1>3 DEF PairsOK
  <2>. PICK x \in StaffRequest : x = staff[s]
    BY EntryTypes DEF EntryInv
  <2>1. PairOK(x, regs[x.tour])
    BY DEF EntryInv, PairsOK
  <2>2. CASE x.op = "pair"
    <3>1. x.tour \in Tour \ {r.tour}
      BY <1>2, <2>2, StaffTypes DEF EntryInv, LockedOnce
    <3>. QED
      BY <1>10, <2>1, <3>1 DEF OnlyTour
  <2>. QED
    BY <2>1, <2>2 DEF PairOK
<1>13. ToursOK'
  <2>. PICK tr2, rg2 : tr2 = tours'[r.tour] /\ rg2 = regs'[r.tour]
    OBVIOUS
  <2>. PICK tr \in TourRow : tr = tours[r.tour]
    BY <1>1, <1>2
  <2>. PICK rg \in [User -> RegRow] : rg = regs[r.tour]
    BY <1>1, <1>2
  <2>1. TourOK(tr, rg, teams) /\ JoinOK(r, tr, rg, teams)
    BY <1>2 DEF EntryInv, ToursOK, JoinsOK
  <2>. DEFINE seat == Min(FreeSeats(r.tour, r.slots))
  <2>2. ASSUME NEW u \in r.payers
        PROVE  /\ rg2[u].status = "CONFIRMED"
               /\ rg2[u].team = IF ByTeam(r) THEN r.team ELSE NoTeam
               /\ rg2[u].seat = seat
               /\ ByTeam(r) => rg2[u].roster = r.payers
               /\ seat \notin {rg[v].seat : v \in In(rg)}
    <3>1. rg2[u] = NewReg(j, u)
      BY <1>5
    <3>2. /\ NewReg(j, u).status = "CONFIRMED"
          /\ NewReg(j, u).team = IF ByTeam(r) THEN r.team ELSE NoTeam
          /\ NewReg(j, u).seat = seat
          /\ ByTeam(r) => NewReg(j, u).roster = r.payers
          /\ seat \in FreeSeats(r.tour, r.slots)
      BY <1>2, NewRegFacts
    <3>3. FreeSeats(r.tour, r.slots) = (1..r.slots) \ {rg[v].seat : v \in In(rg)}
      BY DEF FreeSeats, Taken, Confirmed, In
    <3>. HIDE DEF seat
    <3>. QED
      BY <3>1, <3>2, <3>3
  <2>. HIDE DEF seat
  <2>5. /\ tr2.status = tr.status /\ tr2.registeredSlots = tr.registeredSlots + 1
        /\ \A u \in User \ r.payers : rg2[u] = rg[u]
        /\ \A u \in r.payers :
               /\ rg2[u].status = "CONFIRMED"
               /\ rg2[u].team = IF ByTeam(r) THEN r.team ELSE NoTeam
               /\ rg2[u].seat = seat
               /\ ByTeam(r) => rg2[u].roster = r.payers
    BY <1>5, <1>6, <2>2
  <2>3. CASE r.payers # {}
    <3>1. seat \notin {rg[v].seat : v \in In(rg)}
      BY <2>2, <2>3
    <3>2. Entered(r, seat, tr, rg, tr2, rg2)
      BY <2>5, <3>1 DEF Entered
    <3>3. TourOK(tr2, rg2, teams)
      BY <1>2, <2>1, <3>2, TourJoined
    <3>. QED
      BY <1>2, <1>3, <1>10, <3>3, ToursKept DEF EntryInv
  <2>4. CASE r.payers = {}
    <3>1. -1 \notin {rg[v].seat : v \in In(rg)}
      <4>1. \A v \in In(rg) : rg[v].seat \in Nat
        BY RegTypes DEF In
      <4>. QED
        BY <4>1
    <3>. PICK none : none \notin {rg[v].seat : v \in In(rg)}
      BY <3>1
    <3>2. TourOK(tr2, rg2, teams)
      <4>1. \A u \in r.payers : rg2[u].seat = none
        BY <2>4
      <4>2. \A u \in r.payers :
               /\ rg2[u].status = "CONFIRMED"
               /\ rg2[u].team = IF ByTeam(r) THEN r.team ELSE NoTeam
               /\ rg2[u].seat = none
               /\ ByTeam(r) => rg2[u].roster = r.payers
        BY <2>5, <4>1
      <4>3. none \notin {rg[v].seat : v \in In(rg)}
        OBVIOUS
      <4>4. Entered(r, none, tr, rg, tr2, rg2)
        BY <2>5, <4>2, <4>3 DEF Entered
      <4>. QED
        BY <1>2, <2>1, <4>4, TourJoined
    <3>. QED
      BY <1>2, <1>3, <1>10, <3>2, ToursKept DEF EntryInv
  <2>. QED
    BY <2>3, <2>4
<1>14. CouponInv'
  <2>. PICK js : js = joins'
    OBVIOUS
  <2>1. Redeeming(js) \subseteq Redeeming(joins)
    BY DEF Redeeming, Releases, Moves
  <2>2. r.coupon => r.tour \in Redeeming(joins) /\ r.tour \notin Redeeming(js)
    BY <1>1, <1>2 DEF Redeeming, Releases, Moves, EntryInv, LockedOnce
  <2>3. /\ Cardinality(Redeeming(js)) \in Nat /\ Cardinality(Redeeming(joins)) \in Nat
        /\ IsFiniteSet(Redeeming(joins))
    BY RedeemingFinite
  <2>4. /\ Cardinality(Redeeming(js)) <= Cardinality(Redeeming(joins))
        /\ r.coupon => Cardinality(Redeeming(js)) <= Cardinality(Redeeming(joins)) - 1
    <3>1. Cardinality(Redeeming(js)) <= Cardinality(Redeeming(joins))
      BY <2>1, <2>3, FS_Subset
    <3>2. ASSUME r.coupon
          PROVE  Cardinality(Redeeming(js)) <= Cardinality(Redeeming(joins)) - 1
      <4>1. /\ IsFiniteSet(Redeeming(joins) \ {r.tour})
            /\ Cardinality(Redeeming(joins) \ {r.tour}) = Cardinality(Redeeming(joins)) - 1
        BY <2>2, <2>3, <3>2, FS_RemoveElement
      <4>2. Redeeming(js) \in SUBSET (Redeeming(joins) \ {r.tour})
        BY <2>1, <2>2, <3>2
      <4>. QED
        BY <4>1, <4>2, FS_Subset
    <3>. QED
      BY <3>1, <3>2
  <2>5. CASE ~r.coupon
    <3>1. couponUsed' = couponUsed /\ redeemed' = redeemed
      BY <1>1, <1>3, <1>7, <2>5
    <3>2. Within(couponUsed, Cardinality(Redeeming(js)), Cardinality(Reached(js, redeemed)))
      BY <1>1, <2>1, FewerRedeeming DEF EntryInv, CouponInv
    <3>. QED
      BY <3>1, <3>2 DEF CouponInv
  <2>6. CASE r.coupon
    <3>. DEFINE rd == redeemed \union {[user |-> r.user, tour |-> r.tour]}
    <3>1. Reached(joins, redeemed) \subseteq Reached(js, rd)
      <4>1. ASSUME NEW k \in JoinReq, joins[k].stage = "open", joins[k].tour # r.tour
            PROVE  js[k] = joins[k]
        BY <4>1 DEF Releases, Moves
      <4>2. Redeeming(joins) \subseteq Redeeming(js) \union {r.tour}
        BY <4>1 DEF Redeeming
      <4>3. [user |-> r.user, tour |-> r.tour] \in rd
        OBVIOUS
      <4>4. {d.tour : d \in redeemed} \subseteq {d.tour : d \in rd}
        OBVIOUS
      <4>5. [user |-> r.user, tour |-> r.tour].tour = r.tour
        OBVIOUS
      <4>6. r.tour \in {d.tour : d \in rd}
        <5>. HIDE DEF rd
        <5>. QED
          BY <4>3, <4>5
      <4>. QED
        BY <4>2, <4>4, <4>6 DEF Reached
    <3>2. rd \in SUBSET [user : User, tour : Tour]
      BY <1>1, <1>2
    <3>. HIDE DEF rd
    <3>3. /\ Cardinality(Reached(joins, redeemed)) <= Cardinality(Reached(js, rd))
          /\ Cardinality(Reached(joins, redeemed)) \in Nat
          /\ Cardinality(Reached(js, rd)) \in Nat
      BY <1>1, <3>1, <3>2, ReachedFinite, FS_Subset
    <3>4. Within(couponUsed + 1, Cardinality(Redeeming(js)), Cardinality(Reached(js, rd)))
      BY <1>1, <2>3, <2>4, <2>6, <3>3, EntryAssumption DEF EntryInv, CouponInv, Within
    <3>5. couponUsed' = couponUsed + 1 /\ redeemed' = rd
      BY <1>3, <1>7, <2>6 DEF rd
    <3>. QED
      BY <3>4, <3>5 DEF CouponInv
  <2>. QED
    BY <2>5, <2>6
<1>. QED
  BY <1>4, <1>8, <1>9, <1>11, <1>12, <1>13, <1>14 DEF EntryInv

-----------------------------------------------------------------------------
(***************************************************************************)
(* Refunds and the life of a tournament.                                   *)
(***************************************************************************)
LEMMA RegsRefunded ==
    ASSUME EntryTypeOK, NEW t \in Tour, NEW us \in SUBSET User, regs' = Refunded(t, us)
    PROVE  /\ regs' \in [Tour -> [User -> RegRow]]
           /\ \A x \in Tour \ {t} : regs'[x] = regs[x]
           /\ \A v \in User \ us : regs'[t][v] = regs[t][v]
           /\ \A v \in us : /\ regs'[t][v].status = "REFUNDED"
                            /\ regs'[t][v].team = regs[t][v].team
<1>1. regs \in [Tour -> [User -> RegRow]]
  BY EntryTypes
<1>. DEFINE new == [u \in User |-> IF u \in us THEN [regs[t][u] EXCEPT !.status = "REFUNDED"]
                                               ELSE regs[t][u]]
<1>2. ASSUME NEW u \in User
      PROVE  /\ [regs[t][u] EXCEPT !.status = "REFUNDED"] \in RegRow
             /\ [regs[t][u] EXCEPT !.status = "REFUNDED"].status = "REFUNDED"
             /\ [regs[t][u] EXCEPT !.status = "REFUNDED"].team = regs[t][u].team
             /\ regs[t][u] \in RegRow
  <2>. PICK r \in RegRow : r = regs[t][u]
    BY <1>1
  <2>. QED
    BY DEF RegRow
<1>3. new \in [User -> RegRow]
  BY <1>2
<1>4. /\ \A v \in User \ us : new[v] = regs[t][v]
      /\ \A v \in us : new[v].status = "REFUNDED" /\ new[v].team = regs[t][v].team
  BY <1>2
<1>5. regs' = [regs EXCEPT ![t] = new]
  BY <1>1 DEF Refunded
<1>. HIDE DEF new
<1>6. regs'[t] = new /\ \A x \in Tour \ {t} : regs'[x] = regs[x]
  BY <1>1, <1>5
<1>. QED
  BY <1>1, <1>3, <1>4, <1>5, <1>6

LEMMA SlotsChanged ==
    ASSUME EntryTypeOK, NEW t \in Tour, NEW n \in Int,
           tours' = [tours EXCEPT ![t].registeredSlots = n]
    PROVE  /\ tours' \in [Tour -> TourRow]
           /\ \A x \in Tour \ {t} : tours'[x] = tours[x]
           /\ tours'[t].status = tours[t].status
           /\ tours'[t].registeredSlots = n
<1>1. tours \in [Tour -> TourRow]
  BY EntryTypes
<1>. PICK tr \in TourRow : tr = tours[t]
  BY <1>1
<1>. DEFINE new == [tr EXCEPT !.registeredSlots = n]
<1>2. new \in TourRow /\ new.status = tr.status /\ new.registeredSlots = n
  BY DEF TourRow
<1>3. tours' = [tours EXCEPT ![t] = new]
  BY <1>1
<1>. HIDE DEF new
<1>. QED
  BY <1>1, <1>2, <1>3

LEMMA CancelStep ==
    ASSUME EntryInv, NEW t \in Tour, NEW u \in User, CancelRegistration(t, u)
    PROVE  EntryInv'
<1>1. /\ EntryTypeOK /\ LedgerExplainsBalance
      /\ tours \in [Tour -> TourRow] /\ regs \in [Tour -> [User -> RegRow]]
  BY EntryTypes DEF EntryInv
<1>. PICK tr \in TourRow : tr = tours[t]
  BY <1>1
<1>. PICK rg \in [User -> RegRow] : rg = regs[t]
  BY <1>1
<1>2. TourOK(tr, rg, teams)
  BY DEF EntryInv, ToursOK
<1>. DEFINE us == IF rg[u].team = NoTeam THEN {u} ELSE MembersIn(rg, rg[u].team)
<1>3. /\ TourFree(t) /\ Running(tr) /\ u \in In(rg)
      /\ PayRefunds(t, us)
      /\ tours' = [tours EXCEPT ![t].registeredSlots = @ - 1]
      /\ UNCHANGED <<teams, couponUsed, redeemed, joins, staff, suspended>>
  <2>1. (TeamSize > 1 /\ rg[u].team # NoTeam) <=> rg[u].team # NoTeam
    BY <1>2 DEF TourOK, TeamsReal
  <2>2. us = IF TeamSize > 1 /\ rg[u].team # NoTeam
               THEN {v \in Confirmed(t) : regs[t][v].team = rg[u].team} ELSE {u}
    BY <2>1 DEF MembersIn, In, Confirmed
  <2>. HIDE DEF us
  <2>. QED
    BY <2>2 DEF CancelRegistration, Running, In, Confirmed
<1>4. us \in SUBSET User
  BY DEF MembersIn, In
<1>5. us = IF rg[u].team = NoTeam THEN {u} ELSE MembersIn(rg, rg[u].team)
  OBVIOUS
<1>. HIDE DEF us
<1>6. WalletTypeOK' /\ LedgerExplainsBalance' /\ regs' = Refunded(t, us)
  BY <1>1, <1>3, <1>4, RefundBooks
<1>7. /\ regs' \in [Tour -> [User -> RegRow]]
      /\ \A x \in Tour \ {t} : regs'[x] = regs[x]
      /\ \A v \in User \ us : regs'[t][v] = rg[v]
      /\ \A v \in us : regs'[t][v].status = "REFUNDED" /\ regs'[t][v].team = rg[v].team
  BY <1>1, <1>4, <1>6, RegsRefunded
<1>8. /\ tours' \in [Tour -> TourRow]
      /\ \A x \in Tour \ {t} : tours'[x] = tours[x]
      /\ tours'[t].status = tr.status
      /\ tours'[t].registeredSlots = tr.registeredSlots - 1
  <2>1. PICK n \in Int : n = tr.registeredSlots - 1
    BY TourTypes
  <2>2. tours' = [tours EXCEPT ![t].registeredSlots = n]
    BY <1>1, <1>3, <2>1
  <2>. QED
    BY <1>1, <2>1, <2>2, SlotsChanged
<1>9. EntryTypeOK'
  BY <1>1, <1>3, <1>6, <1>7, <1>8 DEF EntryTypeOK
<1>10. OnlyTour(t) /\ NoNewLock
  BY <1>3, <1>7, <1>8 DEF OnlyTour, NoNewLock
<1>11. TourOK(tours'[t], regs'[t], teams)
  <2>. PICK tr2, rg2 : tr2 = tours'[t] /\ rg2 = regs'[t]
    OBVIOUS
  <2>1. Cancelled(u, us, tr, rg, tr2, rg2)
    BY <1>5, <1>7, <1>8 DEF Cancelled
  <2>2. TourOK(tr2, rg2, teams)
    BY <1>2, <1>3, <2>1, TourCancelled
  <2>. QED
    BY <2>2
<1>. QED
  BY <1>3, <1>6, <1>9, <1>10, <1>11, TourStep

LEMMA StatusSet ==
    ASSUME EntryTypeOK, NEW t \in Tour, NEW status \in TourStatus,
           tours' = [tours EXCEPT ![t].status = status]
    PROVE  /\ tours' \in [Tour -> TourRow]
           /\ \A x \in Tour \ {t} : tours'[x] = tours[x]
           /\ tours'[t].status = status
           /\ tours'[t].registeredSlots = tours[t].registeredSlots
<1>1. tours \in [Tour -> TourRow]
  BY EntryTypes
<1>. PICK tr \in TourRow : tr = tours[t]
  BY <1>1
<1>. DEFINE new == [tr EXCEPT !.status = status]
<1>2. new \in TourRow /\ new.status = status /\ new.registeredSlots = tr.registeredSlots
  BY DEF TourRow
<1>3. tours' = [tours EXCEPT ![t] = new]
  BY <1>1
<1>. HIDE DEF new
<1>. QED
  BY <1>1, <1>2, <1>3

LEMMA StatusStep ==
    ASSUME EntryInv, NEW t \in Tour, NEW status \in TourStatus, SetTournamentStatus(t, status)
    PROVE  EntryInv'
<1>1. /\ EntryTypeOK /\ LedgerExplainsBalance
      /\ tours \in [Tour -> TourRow] /\ regs \in [Tour -> [User -> RegRow]]
  BY EntryTypes DEF EntryInv
<1>2. /\ TourFree(t) /\ status \in Transitions[tours[t].status]
      /\ tours' = [tours EXCEPT ![t].status = status]
      /\ UNCHANGED <<teams, couponUsed, redeemed, joins, staff, suspended>>
  BY DEF SetTournamentStatus
<1>. PICK tr \in TourRow : tr = tours[t]
  BY <1>1
<1>. PICK rg \in [User -> RegRow] : rg = regs[t]
  BY <1>1
<1>3. TourOK(tr, rg, teams)
  BY DEF EntryInv, ToursOK
<1>4. /\ tours' \in [Tour -> TourRow]
      /\ \A x \in Tour \ {t} : tours'[x] = tours[x]
      /\ tours'[t].status = status
      /\ tours'[t].registeredSlots = tr.registeredSlots
  BY <1>1, <1>2, StatusSet
<1>5. \/ status \in {"COMPLETED", "CANCELLED"}
      \/ tr.status = "DRAFT" /\ status = "REGISTRATION_OPEN"
      \/ tr.status = "REGISTRATION_OPEN" /\ status = "LIVE"
  <2>1. tr.status \in {"DRAFT", "REGISTRATION_OPEN", "LIVE", "COMPLETED", "CANCELLED"}
    BY TourTypes DEF TourStatus
  <2>. QED
    BY <1>2, <2>1 DEF Transitions
<1>6. CASE status = "CANCELLED"
  <2>1. In(rg) \in SUBSET User /\ PayRefunds(t, In(rg))
    BY <1>6 DEF SetTournamentStatus, Confirmed, In
  <2>2. WalletTypeOK' /\ LedgerExplainsBalance' /\ regs' = Refunded(t, In(rg))
    BY <1>1, <2>1, RefundBooks
  <2>3. /\ regs' \in [Tour -> [User -> RegRow]]
        /\ \A x \in Tour \ {t} : regs'[x] = regs[x]
        /\ \A v \in User \ In(rg) : regs'[t][v] = rg[v]
        /\ \A v \in In(rg) : regs'[t][v].status = "REFUNDED" /\ regs'[t][v].team = rg[v].team
    BY <1>1, <2>1, <2>2, RegsRefunded
  <2>4. EntryTypeOK'
    BY <1>1, <1>2, <1>4, <2>2, <2>3 DEF EntryTypeOK
  <2>5. OnlyTour(t) /\ NoNewLock
    BY <1>2, <1>4, <2>3 DEF OnlyTour, NoNewLock
  <2>6. TourOK(tours'[t], regs'[t], teams)
    <3>. PICK rg2 : rg2 = regs'[t]
      OBVIOUS
    <3>1. SeatsOK(rg2) /\ TeamsReal(rg2, teams)
      BY <1>3, <2>1, <2>3, TourLeft DEF TourOK
    <3>. QED
      BY <1>4, <1>6, <3>1 DEF TourOK, Running
  <2>. QED
    BY <1>2, <2>2, <2>4, <2>5, <2>6, TourStep
<1>7. CASE status # "CANCELLED"
  <2>1. UNCHANGED <<walletVars, regs>>
    BY <1>7 DEF SetTournamentStatus
  <2>2. WalletTypeOK' /\ LedgerExplainsBalance'
    BY <1>1, <2>1 DEF walletVars, EntryTypeOK, WalletTypeOK, Books, BooksOK,
        LedgerExplainsBalance, BooksExplained, ClosingBalance
  <2>3. EntryTypeOK'
    BY <1>1, <1>2, <1>4, <2>1, <2>2 DEF EntryTypeOK
  <2>4. OnlyTour(t) /\ NoNewLock
    BY <1>2, <1>4, <2>1 DEF OnlyTour, NoNewLock
  <2>5. TourOK(tours'[t], regs'[t], teams)
    <3>. PICK tr2 : tr2 = tours'[t]
      OBVIOUS
    <3>1. TourOK(tr2, rg, teams)
      BY <1>3, <1>4, <1>5, TourStatusChanged
    <3>. QED
      BY <2>1, <3>1
  <2>. QED
    BY <1>2, <2>2, <2>3, <2>4, <2>5, TourStep
<1>. QED
  BY <1>6, <1>7

-----------------------------------------------------------------------------
(***************************************************************************)
(* Staff and seats.                                                        *)
(***************************************************************************)
\* A request of staff that starts keeps everything; only a pairing locks.
LEMMA BeginTypes ==
    ASSUME EntryTypeOK, NEW s \in Staff, NEW op, NEW t \in Tour, NEW us \in SUBSET User,
           NEW slot \in Nat, BeginStaff(s, op, t, us, slot), op \in {"assign", "resize", "pair"}
    PROVE  /\ EntryTypeOK'
           /\ LedgerExplainsBalance => LedgerExplainsBalance'
           /\ \A r \in Staff \ {s} : staff'[r] = staff[r]
           /\ staff'[s].op = op /\ staff'[s].tour = t /\ staff'[s].users = us
           /\ UNCHANGED <<walletVars, tours, regs, teams, couponUsed, redeemed, joins, suspended>>
<1>1. staff \in [Staff -> StaffRequest]
  BY EntryTypes
<1>. DEFINE new == [op |-> op, tour |-> t, users |-> us, slot |-> slot]
<1>2. new \in StaffRequest /\ new.op = op /\ new.tour = t /\ new.users = us
  BY DEF StaffRequest
<1>3. /\ staff' = [staff EXCEPT ![s] = new]
      /\ UNCHANGED <<walletVars, tours, regs, teams, couponUsed, redeemed, joins, suspended>>
  BY DEF BeginStaff
<1>. HIDE DEF new
<1>4. /\ staff' \in [Staff -> StaffRequest] /\ staff'[s] = new
      /\ \A r \in Staff \ {s} : staff'[r] = staff[r]
  BY <1>1, <1>2, <1>3
<1>5. WalletTypeOK' /\ (LedgerExplainsBalance => LedgerExplainsBalance')
  BY <1>3 DEF walletVars, EntryTypeOK, WalletTypeOK, Books, BooksOK,
      LedgerExplainsBalance, BooksExplained, ClosingBalance
<1>6. EntryTypeOK'
  BY <1>3, <1>4, <1>5 DEF EntryTypeOK
<1>. QED
  BY <1>2, <1>3, <1>4, <1>5, <1>6

LEMMA BeginStep ==
    ASSUME EntryInv, NEW s \in Staff, NEW op \in {"assign", "resize"}, NEW t \in Tour,
           NEW us \in SUBSET User, NEW slot \in Nat, BeginStaff(s, op, t, us, slot)
    PROVE  EntryInv'
<1>1. /\ EntryTypeOK' /\ LedgerExplainsBalance'
      /\ \A r \in Staff \ {s} : staff'[r] = staff[r]
      /\ staff'[s].op = op
      /\ UNCHANGED <<walletVars, tours, regs, teams, couponUsed, redeemed, joins, suspended>>
  BY BeginTypes DEF EntryInv
<1>2. NoNewLock
  <2>1. \A r \in Staff : staff'[r].op = "pair" => staff'[r] = staff[r]
    BY <1>1
  <2>. QED
    BY <1>1, <2>1 DEF NoNewLock
<1>3. LockedOnce' /\ CouponInv'
  BY <1>1, <1>2, LocksFewer, CouponKept DEF EntryInv
<1>4. JoinsOK' /\ ToursOK'
  BY <1>1 DEF EntryInv, JoinsOK, ToursOK
<1>5. PairsOK'
  <2>. SUFFICES ASSUME NEW r \in Staff PROVE PairOK(staff'[r], regs[staff'[r].tour])
    BY <1>1 DEF PairsOK
  <2>. QED
    BY <1>1, <1>2 DEF NoNewLock, PairOK, EntryInv, PairsOK
<1>. QED
  BY <1>1, <1>3, <1>4, <1>5 DEF EntryInv

LEMMA BeginPairStep ==
    ASSUME EntryInv, NEW s \in Staff, NEW t \in Tour, NEW us \in SUBSET User, BeginPair(s, t, us)
    PROVE  EntryInv'
<1>1. /\ EntryTypeOK' /\ LedgerExplainsBalance'
      /\ \A r \in Staff \ {s} : staff'[r] = staff[r]
      /\ staff'[s].op = "pair" /\ staff'[s].tour = t /\ staff'[s].users = us
      /\ UNCHANGED <<walletVars, tours, regs, teams, couponUsed, redeemed, joins, suspended>>
  BY BeginTypes DEF EntryInv, BeginPair
<1>2. TourFree(t) /\ TeamSize > 1
  BY DEF BeginPair
<1>3. us # {} /\ us \subseteq MembersIn(regs[t], NoTeam)
  <2>1. us # {}
    BY <1>2, FS_EmptySet DEF BeginPair
  <2>. QED
    BY <2>1 DEF BeginPair, MembersIn, In, Confirmed
<1>4. LockedOnce'
  <2>1. ASSUME NEW r \in Staff, NEW q \in Staff, staff'[r].op = "pair", staff'[q].op = "pair",
               staff'[r].tour = staff'[q].tour
        PROVE  r = q
    BY <1>1, <1>2, <2>1 DEF TourFree, EntryInv, LockedOnce
  <2>2. ASSUME NEW j \in JoinReq, NEW r \in Staff, joins[j].stage = "open", staff'[r].op = "pair"
        PROVE  joins[j].tour # staff'[r].tour
    BY <1>1, <1>2, <2>2 DEF TourFree, EntryInv, LockedOnce
  <2>. QED
    BY <1>1, <2>1, <2>2 DEF EntryInv, LockedOnce
<1>5. JoinsOK' /\ ToursOK' /\ CouponInv'
  BY <1>1 DEF EntryInv, JoinsOK, ToursOK, CouponInv
<1>6. PairsOK'
  <2>. SUFFICES ASSUME NEW r \in Staff PROVE PairOK(staff'[r], regs[staff'[r].tour])
    BY <1>1 DEF PairsOK
  <2>1. CASE r = s
    BY <1>1, <1>2, <1>3, <2>1 DEF PairOK
  <2>2. CASE r # s
    BY <1>1, <2>2 DEF EntryInv, PairsOK
  <2>. QED
    BY <2>1, <2>2
<1>. QED
  BY <1>1, <1>4, <1>5, <1>6 DEF EntryInv

\* A request of staff that ends.
LEMMA EndTypes ==
    ASSUME EntryTypeOK, NEW s \in Staff, EndStaff(s)
    PROVE  /\ WalletTypeOK' /\ (LedgerExplainsBalance => LedgerExplainsBalance')
           /\ staff' \in [Staff -> StaffRequest]
           /\ \A r \in Staff \ {s} : staff'[r] = staff[r]
           /\ staff'[s].op = "idle"
           /\ NoNewLock
           /\ UNCHANGED <<walletVars, couponUsed, redeemed, joins, suspended>>
<1>1. staff \in [Staff -> StaffRequest]
  BY EntryTypes
<1>2. /\ staff' = [staff EXCEPT ![s] = StaffIdle]
      /\ UNCHANGED <<walletVars, couponUsed, redeemed, joins, suspended>>
  BY DEF EndStaff
<1>3. /\ staff' \in [Staff -> StaffRequest] /\ staff'[s].op = "idle"
      /\ \A r \in Staff \ {s} : staff'[r] = staff[r]
  BY <1>1, <1>2, IdleType
<1>4. WalletTypeOK' /\ (LedgerExplainsBalance => LedgerExplainsBalance')
  BY <1>2 DEF walletVars, EntryTypeOK, WalletTypeOK, Books, BooksOK,
      LedgerExplainsBalance, BooksExplained, ClosingBalance
<1>5. NoNewLock
  <2>1. \A r \in Staff : staff'[r].op = "pair" => staff'[r] = staff[r]
    BY <1>3
  <2>. QED
    BY <1>2, <2>1 DEF NoNewLock
<1>. QED
  BY <1>2, <1>3, <1>4, <1>5

LEMMA RegsReseated ==
    ASSUME EntryTypeOK, NEW t \in Tour, NEW us, NEW seat \in Nat, regs' = Reseated(t, us, seat)
    PROVE  /\ regs' \in [Tour -> [User -> RegRow]]
           /\ \A x \in Tour \ {t} : regs'[x] = regs[x]
           /\ \A v \in User :
                 /\ regs'[t][v].status = regs[t][v].status
                 /\ regs'[t][v].team = regs[t][v].team
                 /\ regs'[t][v].roster = regs[t][v].roster
                 /\ regs'[t][v].locked = regs[t][v].locked
                 /\ regs'[t][v].amount = regs[t][v].amount
                 /\ regs'[t][v].fee = regs[t][v].fee
                 /\ regs'[t][v].seat = IF v \in us THEN seat ELSE regs[t][v].seat
<1>1. regs \in [Tour -> [User -> RegRow]]
  BY EntryTypes
<1>. DEFINE new == [u \in User |-> IF u \in us THEN [regs[t][u] EXCEPT !.seat = seat]
                                               ELSE regs[t][u]]
<1>2. ASSUME NEW u \in User
      PROVE  /\ new[u] \in RegRow
             /\ new[u].status = regs[t][u].status /\ new[u].team = regs[t][u].team
             /\ new[u].roster = regs[t][u].roster /\ new[u].locked = regs[t][u].locked
             /\ new[u].amount = regs[t][u].amount /\ new[u].fee = regs[t][u].fee
             /\ new[u].seat = IF u \in us THEN seat ELSE regs[t][u].seat
  <2>. PICK r \in RegRow : r = regs[t][u]
    BY <1>1
  <2>1. /\ [r EXCEPT !.seat = seat] \in RegRow
        /\ [r EXCEPT !.seat = seat].status = r.status /\ [r EXCEPT !.seat = seat].team = r.team
        /\ [r EXCEPT !.seat = seat].roster = r.roster
        /\ [r EXCEPT !.seat = seat].locked = r.locked
        /\ [r EXCEPT !.seat = seat].amount = r.amount /\ [r EXCEPT !.seat = seat].fee = r.fee
        /\ [r EXCEPT !.seat = seat].seat = seat
    BY DEF RegRow
  <2>2. new[u] = IF u \in us THEN [r EXCEPT !.seat = seat] ELSE r
    OBVIOUS
  <2>. HIDE DEF new
  <2>. QED
    BY <2>1, <2>2
<1>3. new = [u \in User |-> new[u]]
  OBVIOUS
<1>4. regs' = [regs EXCEPT ![t] = new]
  BY <1>1 DEF Reseated
<1>. HIDE DEF new
<1>5. new \in [User -> RegRow]
  BY <1>2, <1>3
<1>6. regs'[t] = new /\ \A x \in Tour \ {t} : regs'[x] = regs[x]
  BY <1>1, <1>4
<1>. QED
  BY <1>1, <1>2, <1>4, <1>5, <1>6

LEMMA GroupIs ==
    ASSUME NEW t, NEW u
    PROVE  Group(t, u) = IF regs[t][u].team = NoTeam THEN {u}
                         ELSE MembersIn(regs[t], regs[t][u].team)
  BY DEF Group, MembersIn, Confirmed, In

\* Seats of a tournament that nobody holds change.
LEMMA SeatStepKeeps ==
    ASSUME EntryInv, NEW t \in Tour, TourFree(t), NEW u \in User, NEW seat \in Nat,
           regs' = Reseated(t, Group(t, u), seat),
           seat # 0 => SeatFreeFor(t, Group(t, u), seat),
           NoNewLock, staff' \in [Staff -> StaffRequest], WalletTypeOK', LedgerExplainsBalance',
           UNCHANGED <<tours, teams, couponUsed, redeemed, joins, suspended>>
    PROVE  EntryInv'
<1>1. EntryTypeOK /\ regs \in [Tour -> [User -> RegRow]]
  BY EntryTypes DEF EntryInv
<1>. PICK rg \in [User -> RegRow] : rg = regs[t]
  BY <1>1
<1>. DEFINE us == Group(t, u)
<1>2. us = IF rg[u].team = NoTeam THEN {u} ELSE MembersIn(rg, rg[u].team)
  BY GroupIs
<1>3. seat # 0 => \A v \in In(rg) \ us : rg[v].seat # seat
  BY DEF SeatFreeFor, Confirmed, In
<1>4. regs' = Reseated(t, us, seat)
  OBVIOUS
<1>. HIDE DEF us
<1>5. /\ regs' \in [Tour -> [User -> RegRow]]
      /\ \A x \in Tour \ {t} : regs'[x] = regs[x]
      /\ \A v \in User :
            /\ regs'[t][v].status = rg[v].status /\ regs'[t][v].team = rg[v].team
            /\ regs'[t][v].roster = rg[v].roster
            /\ regs'[t][v].seat = IF v \in us THEN seat ELSE rg[v].seat
  BY <1>1, <1>4, RegsReseated
<1>6. TourOK(tours[t], rg, teams)
  BY DEF EntryInv, ToursOK
<1>. PICK rg2 : rg2 = regs'[t]
  OBVIOUS
<1>. PICK tr : tr = tours[t]
  OBVIOUS
<1>7. SeatsOK(rg2)
  <2>1. Seated(u, us, seat, rg, rg2)
    BY <1>2, <1>3, <1>5 DEF Seated
  <2>. QED
    BY <1>6, <2>1, SeatGiven DEF TourOK
<1>8. TourOK(tr, rg2, teams)
  <2>1. \A v \in User : /\ rg2[v].status = rg[v].status /\ rg2[v].team = rg[v].team
                        /\ rg2[v].roster = rg[v].roster
    BY <1>5
  <2>. QED
    BY <1>6, <1>7, <2>1, TourReseated
<1>9. EntryTypeOK' /\ OnlyTour(t)
  BY <1>1, <1>5 DEF EntryTypeOK, OnlyTour
<1>. QED
  BY <1>8, <1>9, TourStep

LEMMA AssignStep ==
    ASSUME EntryInv, NEW s \in Staff, EndAssign(s)
    PROVE  EntryInv'
<1>1. /\ EntryTypeOK /\ LedgerExplainsBalance /\ staff \in [Staff -> StaffRequest]
      /\ regs \in [Tour -> [User -> RegRow]] /\ tours \in [Tour -> TourRow]
  BY EntryTypes DEF EntryInv
<1>. PICK r \in StaffRequest : r = staff[s]
  BY <1>1
<1>2. r.tour \in Tour /\ r.slot \in Nat /\ r.users \in SUBSET User
  BY StaffTypes
<1>. DEFINE u == CHOOSE v \in r.users : TRUE
            allowed == /\ u \in Confirmed(r.tour)
                       /\ \A v \in Group(r.tour, u) : ~regs[r.tour][v].locked
                       /\ SeatFreeFor(r.tour, Group(r.tour, u), r.slot)
<1>3. /\ TourFree(r.tour) /\ EndStaff(s) /\ UNCHANGED <<tours, teams>>
      /\ regs' = IF allowed THEN Reseated(r.tour, Group(r.tour, u), r.slot) ELSE regs
  BY DEF EndAssign
<1>4. /\ WalletTypeOK' /\ LedgerExplainsBalance' /\ NoNewLock
      /\ staff' \in [Staff -> StaffRequest]
      /\ UNCHANGED <<walletVars, couponUsed, redeemed, joins, suspended>>
  BY <1>1, <1>3, EndTypes
<1>5. CASE allowed
  <2>1. u \in User
    BY <1>5 DEF Confirmed
  <2>2. /\ regs' = Reseated(r.tour, Group(r.tour, u), r.slot)
        /\ SeatFreeFor(r.tour, Group(r.tour, u), r.slot)
    BY <1>3, <1>5
  <2>. HIDE DEF u
  <2>. QED
    BY <1>2, <1>3, <1>4, <2>1, <2>2, SeatStepKeeps
<1>6. CASE ~allowed
  <2>1. regs' = regs
    BY <1>3, <1>6
  <2>2. EntryTypeOK' /\ OnlyTour(r.tour)
    BY <1>1, <1>3, <1>4, <2>1 DEF EntryTypeOK, OnlyTour
  <2>3. TourOK(tours'[r.tour], regs'[r.tour], teams)
    BY <1>2, <1>3, <2>1 DEF EntryInv, ToursOK
  <2>. QED
    BY <1>2, <1>3, <1>4, <2>2, <2>3, TourStep
<1>. QED
  BY <1>5, <1>6

LEMMA SameBooks ==
    ASSUME EntryInv, UNCHANGED walletVars PROVE WalletTypeOK' /\ LedgerExplainsBalance'
  BY DEF EntryInv, walletVars, EntryTypeOK, WalletTypeOK, Books, BooksOK,
      LedgerExplainsBalance, BooksExplained, ClosingBalance

LEMMA ClearStep ==
    ASSUME EntryInv, NEW t \in Tour, NEW u \in User, ClearSlot(t, u)
    PROVE  EntryInv'
<1>1. /\ TourFree(t) /\ regs' = Reseated(t, Group(t, u), 0)
      /\ UNCHANGED <<walletVars, tours, teams, couponUsed, redeemed, joins, staff, suspended>>
  BY DEF ClearSlot
<1>2. WalletTypeOK' /\ LedgerExplainsBalance' /\ NoNewLock /\ staff' \in [Staff -> StaffRequest]
  BY <1>1, SameBooks, EntryTypes DEF EntryInv, NoNewLock
<1>. QED
  BY <1>1, <1>2, SeatStepKeeps

LEMMA RegsLocked ==
    ASSUME EntryTypeOK, NEW t \in Tour, NEW u \in User, NEW locked \in BOOLEAN,
           SetSlotLock(t, u, locked)
    PROVE  /\ regs' \in [Tour -> [User -> RegRow]]
           /\ \A x \in Tour \ {t} : regs'[x] = regs[x]
           /\ \A v \in User :
                 /\ regs'[t][v].status = regs[t][v].status
                 /\ regs'[t][v].team = regs[t][v].team
                 /\ regs'[t][v].roster = regs[t][v].roster
                 /\ regs'[t][v].seat = regs[t][v].seat
                 /\ regs'[t][v].amount = regs[t][v].amount
                 /\ regs'[t][v].fee = regs[t][v].fee
<1>1. regs \in [Tour -> [User -> RegRow]]
  BY EntryTypes
<1>. DEFINE us == Group(t, u)
            new == [v \in User |-> IF v \in us THEN [regs[t][v] EXCEPT !.locked = locked]
                                               ELSE regs[t][v]]
<1>2. regs' = [regs EXCEPT ![t] = new]
  BY <1>1 DEF SetSlotLock
<1>3. ASSUME NEW v \in User
      PROVE  /\ new[v] \in RegRow
             /\ new[v].status = regs[t][v].status /\ new[v].team = regs[t][v].team
             /\ new[v].roster = regs[t][v].roster /\ new[v].seat = regs[t][v].seat
             /\ new[v].amount = regs[t][v].amount /\ new[v].fee = regs[t][v].fee
  <2>. PICK r \in RegRow : r = regs[t][v]
    BY <1>1
  <2>1. /\ [r EXCEPT !.locked = locked] \in RegRow
        /\ [r EXCEPT !.locked = locked].status = r.status
        /\ [r EXCEPT !.locked = locked].team = r.team
        /\ [r EXCEPT !.locked = locked].roster = r.roster
        /\ [r EXCEPT !.locked = locked].seat = r.seat
        /\ [r EXCEPT !.locked = locked].amount = r.amount
        /\ [r EXCEPT !.locked = locked].fee = r.fee
    BY DEF RegRow
  <2>2. new[v] = IF v \in us THEN [r EXCEPT !.locked = locked] ELSE r
    OBVIOUS
  <2>. HIDE DEF new
  <2>. QED
    BY <2>1, <2>2
<1>4. new = [v \in User |-> new[v]]
  OBVIOUS
<1>. HIDE DEF new
<1>5. new \in [User -> RegRow]
  BY <1>3, <1>4
<1>6. /\ regs' \in [Tour -> [User -> RegRow]] /\ regs'[t] = new
      /\ \A x \in Tour \ {t} : regs'[x] = regs[x]
  BY <1>1, <1>2, <1>5
<1>. QED
  BY <1>3, <1>6

LEMMA LockStep ==
    ASSUME EntryInv, NEW t \in Tour, NEW u \in User, NEW locked \in BOOLEAN,
           SetSlotLock(t, u, locked)
    PROVE  EntryInv'
<1>1. EntryTypeOK /\ regs \in [Tour -> [User -> RegRow]]
  BY EntryTypes DEF EntryInv
<1>2. /\ TourFree(t)
      /\ UNCHANGED <<walletVars, tours, teams, couponUsed, redeemed, joins, staff, suspended>>
  BY DEF SetSlotLock
<1>. PICK rg \in [User -> RegRow] : rg = regs[t]
  BY <1>1
<1>. PICK tr, new : tr = tours[t] /\ new = regs'[t]
  OBVIOUS
<1>3. /\ regs' \in [Tour -> [User -> RegRow]]
      /\ \A x \in Tour \ {t} : regs'[x] = regs[x]
      /\ \A v \in User :
            /\ new[v].status = rg[v].status /\ new[v].team = rg[v].team
            /\ new[v].roster = rg[v].roster /\ new[v].seat = rg[v].seat
  BY <1>1, RegsLocked
<1>4. WalletTypeOK' /\ LedgerExplainsBalance' /\ NoNewLock
  BY <1>2, SameBooks DEF NoNewLock
<1>5. EntryTypeOK' /\ OnlyTour(t)
  BY <1>1, <1>2, <1>3, <1>4 DEF EntryTypeOK, OnlyTour
<1>6. TourOK(tr, rg, teams)
  BY DEF EntryInv, ToursOK
<1>7. SeatsOK(new)
  <2>1. In(new) = In(rg)
    BY <1>3 DEF In
  <2>. SUFFICES ASSUME NEW v \in In(rg), NEW w \in In(rg), v # w,
                       new[v].seat = new[w].seat, new[v].seat # 0
                PROVE  new[v].team # NoTeam /\ new[v].team = new[w].team
    BY <2>1 DEF SeatsOK
  <2>2. v \in User /\ w \in User
    BY DEF In
  <2>. QED
    BY <1>3, <1>6, <2>2 DEF TourOK, SeatsOK
<1>8. TourOK(tr, new, teams)
  BY <1>3, <1>6, <1>7, TourReseated
<1>. QED
  BY <1>2, <1>4, <1>5, <1>8, TourStep

LEMMA ResizeStep ==
    ASSUME EntryInv, NEW s \in Staff, EndResize(s)
    PROVE  EntryInv'
<1>1. /\ EntryTypeOK /\ LedgerExplainsBalance /\ staff \in [Staff -> StaffRequest]
      /\ regs \in [Tour -> [User -> RegRow]] /\ tours \in [Tour -> TourRow]
  BY EntryTypes DEF EntryInv
<1>. PICK r \in StaffRequest : r = staff[s]
  BY <1>1
<1>2. r.tour \in Tour /\ r.slot \in Nat
  BY StaffTypes
<1>3. /\ TourFree(r.tour) /\ EndStaff(s) /\ UNCHANGED <<regs, teams>>
      /\ tours' = [tours EXCEPT ![r.tour].maxSlots = r.slot]
  BY DEF EndResize
<1>4. /\ WalletTypeOK' /\ LedgerExplainsBalance' /\ NoNewLock
      /\ staff' \in [Staff -> StaffRequest]
      /\ UNCHANGED <<walletVars, couponUsed, redeemed, joins, suspended>>
  BY <1>1, <1>3, EndTypes
<1>. PICK tr \in TourRow : tr = tours[r.tour]
  BY <1>1, <1>2
<1>. PICK n \in Nat : n = r.slot
  BY <1>2
<1>. DEFINE new == [tr EXCEPT !.maxSlots = n]
<1>5. /\ new \in TourRow /\ new.status = tr.status
      /\ new.registeredSlots = tr.registeredSlots
  BY DEF TourRow
<1>6. tours' = [tours EXCEPT ![r.tour] = new]
  BY <1>1, <1>2, <1>3
<1>. HIDE DEF new
<1>7. /\ tours' \in [Tour -> TourRow] /\ tours'[r.tour] = new
      /\ \A x \in Tour \ {r.tour} : tours'[x] = tours[x]
  BY <1>1, <1>2, <1>5, <1>6
<1>8. EntryTypeOK' /\ OnlyTour(r.tour)
  BY <1>1, <1>3, <1>4, <1>7 DEF EntryTypeOK, OnlyTour
<1>. PICK rg : rg = regs[r.tour]
  OBVIOUS
<1>9. TourOK(tr, rg, teams)
  BY <1>2 DEF EntryInv, ToursOK
<1>10. TourOK(new, rg, teams)
  BY <1>5, <1>9, TourStatusChanged
<1>. QED
  BY <1>2, <1>3, <1>4, <1>7, <1>8, <1>10, TourStep

LEMMA DeadlineStep ==
    ASSUME EntryInv, NEW t \in Tour, PassDeadline(t)
    PROVE  EntryInv'
<1>1. tours \in [Tour -> TourRow] /\ regs \in [Tour -> [User -> RegRow]]
  BY EntryTypes DEF EntryInv
<1>2. /\ tours' = [tours EXCEPT ![t].deadlinePassed = TRUE]
      /\ UNCHANGED <<walletVars, regs, teams, couponUsed, redeemed, joins, staff, suspended>>
  BY DEF PassDeadline
<1>. PICK tr \in TourRow : tr = tours[t]
  BY <1>1
<1>. DEFINE new == [tr EXCEPT !.deadlinePassed = TRUE]
<1>3. /\ new \in TourRow /\ new.status = tr.status
      /\ new.registeredSlots = tr.registeredSlots
  BY DEF TourRow
<1>4. tours' = [tours EXCEPT ![t] = new]
  BY <1>1, <1>2
<1>. HIDE DEF new
<1>5. /\ tours' \in [Tour -> TourRow] /\ tours'[t] = new
      /\ \A x \in Tour \ {t} : tours'[x] = tours[x]
  BY <1>1, <1>3, <1>4
<1>6. WalletTypeOK' /\ LedgerExplainsBalance' /\ NoNewLock
  BY <1>2, SameBooks DEF NoNewLock
<1>7. EntryTypeOK'
  BY <1>1, <1>2, <1>5, <1>6 DEF EntryInv, EntryTypeOK
<1>8. LockedOnce' /\ CouponInv'
  BY <1>2, <1>6, LocksFewer, CouponKept DEF EntryInv
<1>9. ASSUME NEW x \in Tour
      PROVE  tours'[x].status = tours[x].status
             /\ tours'[x].registeredSlots = tours[x].registeredSlots
  BY <1>3, <1>5
<1>10. ToursOK'
  BY <1>2, <1>9 DEF EntryInv, ToursOK, TourOK, Running
<1>11. JoinsOK'
  <2>. SUFFICES ASSUME NEW j \in JoinReq
                PROVE  JoinOK(joins[j], tours'[joins[j].tour], regs[joins[j].tour], teams)
    BY <1>2 DEF JoinsOK
  <2>. PICK r \in Join : r = joins[j]
    BY EntryTypes DEF EntryInv
  <2>1. r.tour \in Tour /\ JoinOK(r, tours[r.tour], regs[r.tour], teams)
    BY JoinTypes DEF EntryInv, JoinsOK
  <2>. QED
    BY <1>9, <2>1 DEF JoinOK
<1>12. PairsOK'
  BY <1>2 DEF EntryInv, PairsOK
<1>. QED
  BY <1>6, <1>7, <1>8, <1>10, <1>11, <1>12 DEF EntryInv

-----------------------------------------------------------------------------
(***************************************************************************)
(* Teams.                                                                  *)
(***************************************************************************)
\* The registrations once the players us are the team T.
RegsWithTeam(t, us, T) ==
    [regs EXCEPT ![t] = [u \in User |-> IF u \in us THEN [@[u] EXCEPT !.team = T, !.roster = us]
                                                    ELSE @[u]]]

TeamGiven(t, us, T) ==
    /\ regs' \in [Tour -> [User -> RegRow]]
    /\ \A x \in Tour \ {t} : regs'[x] = regs[x]
    /\ \A v \in User \ us : regs'[t][v] = regs[t][v]
    /\ \A v \in us : /\ regs'[t][v].status = regs[t][v].status
                     /\ regs'[t][v].seat = regs[t][v].seat
                     /\ regs'[t][v].locked = regs[t][v].locked
                     /\ regs'[t][v].amount = regs[t][v].amount
                     /\ regs'[t][v].fee = regs[t][v].fee
                     /\ regs'[t][v].team = T /\ regs'[t][v].roster = us

LEMMA RegsPaired ==
    ASSUME EntryTypeOK, NEW t \in Tour, NEW us \in SUBSET User, NEW T \in Team,
           regs' = RegsWithTeam(t, us, T)
    PROVE  TeamGiven(t, us, T)
<1>1. regs \in [Tour -> [User -> RegRow]]
  BY EntryTypes
<1>. DEFINE new == [u \in User |-> IF u \in us THEN [regs[t][u] EXCEPT !.team = T, !.roster = us]
                                               ELSE regs[t][u]]
<1>2. ASSUME NEW u \in User
      PROVE  /\ new[u] \in RegRow
             /\ u \notin us => new[u] = regs[t][u]
             /\ u \in us => /\ new[u].status = regs[t][u].status /\ new[u].seat = regs[t][u].seat
                            /\ new[u].locked = regs[t][u].locked
                            /\ new[u].amount = regs[t][u].amount /\ new[u].fee = regs[t][u].fee
                            /\ new[u].team = T /\ new[u].roster = us
  <2>. PICK r \in RegRow : r = regs[t][u]
    BY <1>1
  <2>. DEFINE p == [r EXCEPT !.team = T, !.roster = us]
  <2>1. /\ p \in RegRow /\ p.status = r.status /\ p.seat = r.seat /\ p.locked = r.locked
        /\ p.amount = r.amount /\ p.fee = r.fee /\ p.team = T /\ p.roster = us
    BY DEF RegRow
  <2>2. new[u] = IF u \in us THEN p ELSE r
    OBVIOUS
  <2>. HIDE DEF new, p
  <2>. QED
    BY <2>1, <2>2
<1>3. new = [u \in User |-> new[u]]
  OBVIOUS
<1>4. regs' = [regs EXCEPT ![t] = new]
  BY <1>1 DEF RegsWithTeam
<1>. HIDE DEF new
<1>5. new \in [User -> RegRow]
  BY <1>2, <1>3
<1>6. regs'[t] = new /\ \A x \in Tour \ {t} : regs'[x] = regs[x]
  BY <1>1, <1>4
<1>7. regs' \in [Tour -> [User -> RegRow]]
  BY <1>1, <1>4, <1>5
<1>8. /\ \A v \in User \ us : new[v] = regs[t][v]
      /\ \A v \in us : /\ new[v].status = regs[t][v].status /\ new[v].seat = regs[t][v].seat
                       /\ new[v].locked = regs[t][v].locked
                       /\ new[v].amount = regs[t][v].amount /\ new[v].fee = regs[t][v].fee
                       /\ new[v].team = T /\ new[v].roster = us
  BY <1>2
<1>. QED
  BY <1>6, <1>7, <1>8 DEF TeamGiven

LEMMA PairStep ==
    ASSUME EntryInv, NEW s \in Staff, EndPair(s)
    PROVE  EntryInv'
<1>1. /\ EntryTypeOK /\ LedgerExplainsBalance /\ staff \in [Staff -> StaffRequest]
      /\ regs \in [Tour -> [User -> RegRow]] /\ tours \in [Tour -> TourRow]
      /\ teams \in [Team -> TeamRow]
  BY EntryTypes DEF EntryInv
<1>. PICK r \in StaffRequest : r = staff[s]
  BY <1>1
<1>. PICK t \in Tour : t = r.tour
  BY StaffTypes
<1>. PICK us \in SUBSET User : us = r.users
  BY StaffTypes
<1>2. PICK T \in Team, captain \in us :
          /\ ~TeamExists(T)
          /\ teams' = [teams EXCEPT ![T] = [captain |-> captain, members |-> us]]
          /\ regs' = RegsWithTeam(t, us, T)
  BY DEF EndPair, RegsWithTeam
<1>3. r.op = "pair" /\ EndStaff(s) /\ tours' = tours
  BY DEF EndPair
<1>4. /\ WalletTypeOK' /\ LedgerExplainsBalance' /\ NoNewLock
      /\ staff' \in [Staff -> StaffRequest] /\ staff'[s].op = "idle"
      /\ \A q \in Staff \ {s} : staff'[q] = staff[q]
      /\ UNCHANGED <<walletVars, couponUsed, redeemed, joins, suspended>>
  BY <1>1, <1>3, EndTypes
<1>5. /\ regs' \in [Tour -> [User -> RegRow]]
      /\ \A x \in Tour \ {t} : regs'[x] = regs[x]
      /\ \A v \in User \ us : regs'[t][v] = regs[t][v]
      /\ \A v \in us : /\ regs'[t][v].status = regs[t][v].status
                       /\ regs'[t][v].seat = regs[t][v].seat
                       /\ regs'[t][v].team = T /\ regs'[t][v].roster = us
  <2>1. EntryTypeOK /\ regs' = RegsWithTeam(t, us, T)
    BY <1>1, <1>2
  <2>2. TeamGiven(t, us, T)
    BY ONLY <2>1, t \in Tour, us \in SUBSET User, T \in Team, RegsPaired
  <2>. QED
    BY <2>2 DEF TeamGiven
<1>6. /\ teams' \in [Team -> TeamRow]
      /\ \A X \in Team \ {T} : teams'[X] = teams[X]
      /\ teams'[T].captain = captain /\ teams'[T].members = us /\ captain # NoUser
  <2>. DEFINE row == [captain |-> captain, members |-> us]
  <2>1. row \in TeamRow /\ row.captain = captain /\ row.members = us /\ captain # NoUser
    BY EntryAssumption DEF TeamRow
  <2>2. teams' = [teams EXCEPT ![T] = row]
    BY <1>2
  <2>. HIDE DEF row
  <2>. QED
    BY <1>1, <2>1, <2>2
<1>7. EntryTypeOK'
  BY <1>1, <1>3, <1>4, <1>5, <1>6 DEF EntryTypeOK
<1>8. LockedOnce' /\ CouponInv'
  BY <1>1, <1>4, LocksFewer, CouponKept DEF EntryInv
<1>9. teams[T].captain = NoUser
  BY <1>2 DEF TeamExists
<1>10. JoinsOK'
  <2>. SUFFICES ASSUME NEW j \in JoinReq
                PROVE  JoinOK(joins[j], tours[joins[j].tour], regs'[joins[j].tour], teams')
    BY <1>3, <1>4 DEF JoinsOK
  <2>. PICK q \in Join : q = joins[j]
    BY EntryTypes DEF EntryInv
  <2>1. q.tour \in Tour /\ q.team \in Team \union {NoTeam}
        /\ JoinOK(q, tours[q.tour], regs[q.tour], teams)
    BY JoinTypes DEF EntryInv, JoinsOK
  <2>2. CASE q.stage = "open"
    <3>1. q.tour # t
      BY <1>3, <2>2 DEF EntryInv, LockedOnce
    <3>2. regs'[q.tour] = regs[q.tour]
      BY <1>5, <2>1, <3>1
    <3>3. ByTeam(q) => q.team \in Team \ {T}
      BY <1>9, <2>1, <2>2 DEF JoinOK, ByTeam
    <3>4. ByTeam(q) => teams'[q.team] = teams[q.team]
      BY <1>6, <3>3
    <3>. QED
      BY <2>1, <3>2, <3>4 DEF JoinOK
  <2>. QED
    BY <2>1, <2>2 DEF JoinOK
<1>11. PairsOK'
  <2>. SUFFICES ASSUME NEW q \in Staff PROVE PairOK(staff'[q], regs'[staff'[q].tour])
    BY DEF PairsOK
  <2>1. CASE staff'[q].op = "pair"
    <3>. PICK x \in StaffRequest : x = staff[q]
      BY <1>1
    <3>1. q # s /\ staff'[q] = x /\ x.op = "pair"
      BY <1>4, <2>1
    <3>2. x.tour \in Tour \ {t}
      BY <1>3, <3>1, StaffTypes DEF EntryInv, LockedOnce
    <3>3. PairOK(x, regs[x.tour])
      BY DEF EntryInv, PairsOK
    <3>. QED
      BY <1>5, <3>1, <3>2, <3>3
  <2>. QED
    BY <2>1 DEF PairOK
<1>12. ToursOK'
  <2>. PICK tms : tms = teams'
    OBVIOUS
  <2>. SUFFICES ASSUME NEW x \in Tour PROVE TourOK(tours[x], regs'[x], tms)
    BY <1>3 DEF ToursOK
  <2>. PICK tr \in TourRow : tr = tours[x]
    BY <1>1
  <2>. PICK rg \in [User -> RegRow] : rg = regs[x]
    BY <1>1
  <2>1. TourOK(tr, rg, teams)
    BY DEF EntryInv, ToursOK
  <2>2. CASE x = t
    <3>. PICK rg2 : rg2 = regs'[t]
      OBVIOUS
    <3>1. PairOK(r, rg)
      BY <2>2 DEF EntryInv, PairsOK
    <3>2. TeamSize > 1 /\ us # {} /\ us \subseteq MembersIn(rg, NoTeam)
      BY <1>3, <3>1 DEF PairOK
    <3>3. PairedOff(us, T, rg, teams, rg2, tms)
      BY <1>5, <1>6, <1>9, <2>2, <3>2 DEF PairedOff
    <3>4. TourOK(tr, rg2, tms)
      BY <2>1, <3>2, <3>3, TourPaired
    <3>. QED
      BY <2>2, <3>4
  <2>3. CASE x # t
    <3>1. \A u \in In(rg) : rg[u].team # T
      <4>1. T # NoTeam
        BY EntryAssumption
      <4>. QED
        BY <1>9, <2>1, <4>1 DEF TourOK, TeamsReal, In
    <3>2. TeamChanged(T, tr, rg, teams, tms)
      BY <1>6, <3>1 DEF TeamChanged
    <3>3. TourOK(tr, rg, tms)
      BY <2>1, <3>2, TourTeamChanged
    <3>. QED
      BY <1>5, <2>3, <3>3
  <2>. QED
    BY <2>2, <2>3
<1>. QED
  BY <1>4, <1>7, <1>8, <1>10, <1>11, <1>12 DEF EntryInv

\* A team changes that no join has locked.
LEMMA TeamStepKeeps ==
    ASSUME EntryInv, NEW T \in Team, NEW row \in TeamRow, ChangeTeam(T, row),
           TeamExists(T) => row.captain # NoUser,
           row.members = teams[T].members \/ RosterMutable(T)
    PROVE  EntryInv'
<1>1. /\ EntryTypeOK /\ teams \in [Team -> TeamRow] /\ tours \in [Tour -> TourRow]
      /\ regs \in [Tour -> [User -> RegRow]]
  BY EntryTypes DEF EntryInv
<1>2. /\ TeamFree(T) /\ teams' = [teams EXCEPT ![T] = row]
      /\ UNCHANGED <<walletVars, tours, regs, couponUsed, redeemed, joins, staff, suspended>>
  BY DEF ChangeTeam
<1>3. /\ teams' \in [Team -> TeamRow] /\ teams'[T] = row
      /\ \A X \in Team \ {T} : teams'[X] = teams[X]
  BY <1>1, <1>2
<1>4. WalletTypeOK' /\ LedgerExplainsBalance' /\ NoNewLock
  BY <1>2, SameBooks DEF NoNewLock
<1>5. EntryTypeOK'
  BY <1>1, <1>2, <1>3, <1>4 DEF EntryTypeOK
<1>6. LockedOnce' /\ CouponInv'
  BY <1>1, <1>2, <1>4, LocksFewer, CouponKept DEF EntryInv
<1>7. JoinsOK'
  <2>. SUFFICES ASSUME NEW j \in JoinReq
                PROVE  JoinOK(joins[j], tours[joins[j].tour], regs[joins[j].tour], teams')
    BY <1>2 DEF JoinsOK
  <2>. PICK q \in Join : q = joins[j]
    BY EntryTypes DEF EntryInv
  <2>1. q.team \in Team \union {NoTeam} /\ JoinOK(q, tours[q.tour], regs[q.tour], teams)
    BY JoinTypes DEF EntryInv, JoinsOK
  <2>2. q.stage = "open" => q.team # T
    BY <1>2 DEF TeamFree
  <2>3. q.stage = "open" /\ ByTeam(q) => teams'[q.team] = teams[q.team]
    BY <1>3, <2>1, <2>2 DEF ByTeam
  <2>. QED
    BY <2>1, <2>3 DEF JoinOK
<1>8. PairsOK'
  BY <1>2 DEF EntryInv, PairsOK
<1>9. ToursOK'
  <2>. PICK tms : tms = teams'
    OBVIOUS
  <2>. SUFFICES ASSUME NEW x \in Tour PROVE TourOK(tours[x], regs[x], tms)
    BY <1>2 DEF ToursOK
  <2>. PICK tr \in TourRow : tr = tours[x]
    BY <1>1
  <2>. PICK rg \in [User -> RegRow] : rg = regs[x]
    BY <1>1
  <2>1. TourOK(tr, rg, teams)
    BY DEF EntryInv, ToursOK
  <2>2. RosterMutable(T) => (Running(tr) => \A u \in In(rg) : rg[u].team # T)
    BY DEF RosterMutable, Running, In, Confirmed
  <2>3. TeamChanged(T, tr, rg, teams, tms)
    BY <1>3, <2>2 DEF TeamChanged, TeamExists
  <2>. QED
    BY <2>1, <2>3, TourTeamChanged
<1>. QED
  BY <1>4, <1>5, <1>6, <1>7, <1>8, <1>9 DEF EntryInv

LEMMA TeamStepKept == ASSUME EntryInv, TeamStep PROVE EntryInv'
<1>1. PICK u \in User, T \in Team :
          CreateTeam(u, T) \/ JoinTeam(u, T) \/ LeaveTeam(u, T) \/ TransferCaptaincy(T, u)
  BY DEF TeamStep
<1>. PICK row \in TeamRow : row = teams[T]
  BY EntryTypes DEF EntryInv
<1>2. row.captain \in User \union {NoUser} /\ row.members \in SUBSET User /\ u # NoUser
  BY TeamTypes, EntryAssumption
<1>3. CASE CreateTeam(u, T)
  <2>. DEFINE new == [captain |-> u, members |-> {u}]
  <2>1. new \in TeamRow /\ new.captain # NoUser
    BY <1>2 DEF TeamRow
  <2>2. ChangeTeam(T, new) /\ ~TeamExists(T)
    BY <1>3 DEF CreateTeam
  <2>3. RosterMutable(T)
    <3>1. T # NoTeam
      BY EntryAssumption
    <3>. QED
      BY <2>2, <3>1 DEF RosterMutable, TeamExists, Confirmed, EntryInv, ToursOK, TourOK, TeamsReal
  <2>. HIDE DEF new
  <2>. QED
    BY <2>1, <2>2, <2>3, TeamStepKeeps
<1>4. CASE JoinTeam(u, T)
  <2>. DEFINE members == row.members \union {u}
              new == [row EXCEPT !.members = members]
  <2>1. members \in SUBSET User
    BY <1>2
  <2>. HIDE DEF members
  <2>2. new \in TeamRow /\ new.captain = row.captain
    BY <2>1 DEF TeamRow
  <2>3. ChangeTeam(T, new) /\ RosterMutable(T) /\ row.captain # NoUser
    BY <1>4 DEF JoinTeam, TeamExists, members
  <2>. HIDE DEF new
  <2>. QED
    BY <2>2, <2>3, TeamStepKeeps
<1>5. CASE LeaveTeam(u, T)
  <2>. DEFINE members == row.members \ {u}
              new == [row EXCEPT !.members = members]
  <2>1. members \in SUBSET User
    BY <1>2
  <2>. HIDE DEF members
  <2>2. new \in TeamRow /\ new.captain = row.captain /\ new.members = members
    BY <2>1 DEF TeamRow
  <2>3. ChangeTeam(T, new) /\ RosterMutable(T)
    BY <1>5 DEF LeaveTeam, members
  <2>. HIDE DEF new
  <2>. QED
    BY <2>2, <2>3, TeamStepKeeps DEF TeamExists
<1>6. CASE TransferCaptaincy(T, u)
  <2>. DEFINE new == [row EXCEPT !.captain = u]
  <2>1. new \in TeamRow /\ new.captain = u /\ new.members = row.members
    BY DEF TeamRow
  <2>2. ChangeTeam(T, new)
    BY <1>6 DEF TransferCaptaincy
  <2>. HIDE DEF new
  <2>. QED
    BY <1>2, <2>1, <2>2, TeamStepKeeps
<1>. QED
  BY <1>1, <1>3, <1>4, <1>5, <1>6

LEMMA SuspendStep ==
    ASSUME EntryInv, NEW u \in Suspendable, SetUserStatus(u)
    PROVE  EntryInv'
<1>1. /\ suspended' = IF u \in suspended THEN suspended \ {u} ELSE suspended \union {u}
      /\ UNCHANGED <<walletVars, tours, regs, teams, couponUsed, redeemed, joins, staff>>
  BY DEF SetUserStatus
<1>2. suspended' \in SUBSET User
  BY <1>1, EntryTypes, EntryAssumption DEF EntryInv
<1>3. WalletTypeOK' /\ LedgerExplainsBalance'
  BY <1>1, SameBooks
<1>4. EntryTypeOK'
  BY <1>1, <1>2, <1>3 DEF EntryInv, EntryTypeOK
<1>. QED
  BY <1>1, <1>3, <1>4 DEF EntryInv, LockedOnce, JoinsOK, PairsOK, ToursOK, CouponInv

LEMMA NothingHappens == ASSUME EntryInv, UNCHANGED enVars PROVE EntryInv'
<1>1. UNCHANGED <<walletVars, tours, regs, teams, couponUsed, redeemed, joins, staff, suspended>>
  BY DEF enVars, entryVars
<1>2. WalletTypeOK' /\ LedgerExplainsBalance'
  BY <1>1, SameBooks
<1>3. EntryTypeOK'
  BY <1>1, <1>2 DEF EntryInv, EntryTypeOK
<1>. QED
  BY <1>1, <1>2, <1>3 DEF EntryInv, LockedOnce, JoinsOK, PairsOK, ToursOK, CouponInv

-----------------------------------------------------------------------------
(***************************************************************************)
(* The invariant.                                                          *)
(***************************************************************************)
LEMMA EntryInitial == ASSUME EntryInit PROVE EntryInv
<1>1. /\ wallets = Opening /\ ledger = [u \in User |-> [b \in Bucket |-> <<>>]]
      /\ rowLock = [u \in User |-> NoTxn]
      /\ tours \in [Tour -> [status : {"DRAFT"}, deadlinePassed : {FALSE},
                             maxSlots : SlotChoice, registeredSlots : {0}]]
      /\ regs = [t \in Tour |-> [u \in User |-> NoReg]]
      /\ teams = FirstTeams /\ couponUsed = 0 /\ redeemed = {} /\ suspended = {}
      /\ joins \in [JoinReq ->
             [stage : {"new"}, user : User, tour : Tour, team : Team \union {NoTeam},
              coupon : CouponChoice, attempt : {0}, payers : {{}}, slots : {0}, seen : {0},
              answer : {"none"}]]
      /\ staff = [s \in Staff |-> StaffIdle]
  BY DEF EntryInit, WalletInit
<1>2. WalletTypeOK
  BY <1>1, WalletAssumption DEF WalletTypeOK, BooksOK, Books
<1>3. LedgerExplainsBalance
  BY <1>1 DEF LedgerExplainsBalance, BooksExplained, Books, ClosingBalance
<1>4. NoReg \in RegRow /\ NoReg.status = "NONE" /\ NoReg.team = NoTeam
  BY DEF NoReg, RegRow
<1>5. /\ tours \in [Tour -> TourRow]
      /\ \A t \in Tour : tours[t].status = "DRAFT" /\ tours[t].registeredSlots = 0
  <2>. DEFINE first == [status : {"DRAFT"}, deadlinePassed : {FALSE},
                        maxSlots : SlotChoice, registeredSlots : {0}]
  <2>1. ASSUME NEW r \in first
        PROVE  r \in TourRow /\ r.status = "DRAFT" /\ r.registeredSlots = 0
    <3>1. PICK n \in SlotChoice : r = [status |-> "DRAFT", deadlinePassed |-> FALSE,
                                       maxSlots |-> n, registeredSlots |-> 0]
      OBVIOUS
    <3>2. n \in Nat /\ FALSE \in BOOLEAN /\ 0 \in Int /\ "DRAFT" \in TourStatus
      BY EntryAssumption DEF TourStatus
    <3>. QED
      BY <3>1, <3>2, Zenon DEF TourRow
  <2>2. tours \in [Tour -> first]
    BY <1>1
  <2>. HIDE DEF first
  <2>3. \A t \in Tour : tours[t] \in first
    BY <2>2
  <2>4. tours = [t \in Tour |-> tours[t]]
    BY <2>2
  <2>. QED
    BY <2>1, <2>3, <2>4
<1>6. joins \in [JoinReq -> Join] /\ \A j \in JoinReq : joins[j].stage = "new"
  <2>1. 0 \in 0..JoinAttempts
    BY EntryAssumption
  <2>. QED
    BY <1>1, <2>1, EntryAssumption DEF Join
<1>7. staff \in [Staff -> StaffRequest] /\ \A s \in Staff : staff[s].op = "idle"
  BY <1>1, IdleType
<1>8. EntryTypeOK
  <2>1. regs \in [Tour -> [User -> RegRow]]
    BY <1>1, <1>4
  <2>. QED
    BY <1>1, <1>2, <1>5, <1>6, <1>7, <2>1, EntryAssumption DEF EntryTypeOK
<1>9. LockedOnce /\ JoinsOK /\ PairsOK
  BY <1>6, <1>7 DEF LockedOnce, JoinsOK, JoinOK, PairsOK, PairOK
<1>10. ToursOK
  <2>. SUFFICES ASSUME NEW t \in Tour PROVE TourOK(tours[t], regs[t], teams)
    BY DEF ToursOK
  <2>1. In(regs[t]) = {}
    BY <1>1, <1>4 DEF In
  <2>2. \A u \in User : regs[t][u].team = NoTeam
    BY <1>1, <1>4
  <2>. QED
    BY <1>5, <2>1, <2>2 DEF TourOK, SeatsOK, TeamsReal, Running
<1>11. CouponInv
  <2>1. Redeeming(joins) = {}
    BY <1>6 DEF Redeeming
  <2>2. Cardinality(Redeeming(joins)) = 0
    BY <2>1, FS_EmptySet
  <2>. QED
    BY <1>1, <2>2, EntryAssumption DEF CouponInv, Within
<1>. QED
  BY <1>3, <1>8, <1>9, <1>10, <1>11 DEF EntryInv

LEMMA JoinKeeps ==
    ASSUME EntryInv, NEW j \in JoinReq,
           SubmitJoin(j) \/ JoinStep(j) \/ JoinResponseLost(j) \/ JoinFails(j)
    PROVE  EntryInv'
<1>1. EntryTypeOK /\ JoinsOK
  BY DEF EntryInv
<1>2. CASE SubmitJoin(j)
  BY <1>2, SubmitReleases, ReleaseStep
<1>3. CASE PreflightJoin(j)
  BY <1>3, PreflightReleases, ReleaseStep
<1>4. CASE OpenJoin(j)
  BY <1>4, OpenStep
<1>5. CASE CommitJoin(j)
  BY <1>1, <1>5, FinishMoves, WriteStep DEF CommitJoin
<1>6. CASE RefuseJoin(j)
  BY <1>1, <1>6, FinishMoves, ReleaseStep DEF RefuseJoin, Quiet
<1>7. CASE JoinResponseLost(j)
  BY <1>1, <1>7, RetryMoves, WriteStep DEF JoinResponseLost, WriteEntry
<1>8. CASE JoinFails(j)
  BY <1>1, <1>8, RetryMoves, ReleaseStep DEF JoinFails, Quiet
<1>. QED
  BY <1>2, <1>3, <1>4, <1>5, <1>6, <1>7, <1>8 DEF JoinStep

LEMMA SeatKeeps == ASSUME EntryInv, SeatStep PROVE EntryInv'
<1>1. ASSUME NEW s \in Staff, EndAssign(s) \/ EndResize(s) \/ EndPair(s) PROVE EntryInv'
  BY <1>1, AssignStep, ResizeStep, PairStep
<1>2. ASSUME NEW s \in Staff, NEW t \in Tour, NEW slot \in SlotChoice, BeginResize(s, t, slot)
      PROVE  EntryInv'
  <2>1. BeginStaff(s, "resize", t, {}, slot) /\ slot \in Nat
    BY <1>2, EntryAssumption DEF BeginResize
  <2>. QED
    BY <2>1, BeginStep
<1>3. ASSUME NEW s \in Staff, NEW t \in Tour, NEW us \in SUBSET User, BeginPair(s, t, us)
      PROVE  EntryInv'
  BY <1>3, BeginPairStep
<1>4. ASSUME NEW s \in Staff, NEW t \in Tour, NEW u \in User, NEW slot \in 1..tours[t].maxSlots,
             BeginAssign(s, t, u, slot)
      PROVE  EntryInv'
  <2>1. BeginStaff(s, "assign", t, {u}, slot) /\ slot \in Nat /\ {u} \in SUBSET User
    BY <1>4, EntryTypes, TourTypes DEF BeginAssign, EntryInv
  <2>. QED
    BY <2>1, BeginStep
<1>5. ASSUME NEW t \in Tour, NEW u \in User, ClearSlot(t, u) PROVE EntryInv'
  BY <1>5, ClearStep
<1>6. ASSUME NEW t \in Tour, NEW u \in User, NEW locked \in BOOLEAN, SetSlotLock(t, u, locked)
      PROVE  EntryInv'
  BY <1>6, LockStep
<1>. QED
  BY <1>1, <1>2, <1>3, <1>4, <1>5, <1>6 DEF SeatStep

LEMMA EntryStepKeeps == ASSUME EntryInv, [EntryStep]_enVars PROVE EntryInv'
<1>1. ASSUME NEW j \in JoinReq,
             SubmitJoin(j) \/ JoinStep(j) \/ JoinResponseLost(j) \/ JoinFails(j)
      PROVE  EntryInv'
  BY <1>1, JoinKeeps
<1>2. ASSUME NEW t \in Tour, NEW u \in User, CancelRegistration(t, u) PROVE EntryInv'
  BY <1>2, CancelStep
<1>3. ASSUME NEW t \in Tour, NEW status \in TourStatus, SetTournamentStatus(t, status)
      PROVE  EntryInv'
  BY <1>3, StatusStep
<1>4. ASSUME NEW t \in Tour, PassDeadline(t) PROVE EntryInv'
  BY <1>4, DeadlineStep
<1>5. CASE SeatStep
  BY <1>5, SeatKeeps
<1>6. CASE TeamStep
  BY <1>6, TeamStepKept
<1>7. ASSUME NEW u \in Suspendable, SetUserStatus(u) PROVE EntryInv'
  BY <1>7, SuspendStep
<1>8. CASE UNCHANGED enVars
  BY <1>8, NothingHappens
<1>. QED
  BY <1>1, <1>2, <1>3, <1>4, <1>5, <1>6, <1>7, <1>8 DEF EntryStep

\* Whatever joins, cancellations, teams and staff do, in any order and with any
\* number of retries: the invariant holds.
THEOREM EntryInductive == EntrySpec => []EntryInv
<1>1. EntryInit => EntryInv
  BY EntryInitial
<1>2. EntryInv /\ [EntryStep]_enVars => EntryInv'
  BY EntryStepKeeps
<1>. QED
  BY <1>1, <1>2, PTL DEF EntrySpec

(* No seat is sold twice, whatever joins, staff and capacity changes do.   *)
THEOREM EntrySeats == EntrySpec => []SeatsDisjoint
<1>1. EntryInv => SeatsDisjoint
  <2>. SUFFICES ASSUME EntryInv, NEW t \in Tour PROVE SeatsOK(regs[t])
    BY DEF SeatsDisjoint, SeatsOK, Confirmed, In
  <2>. QED
    BY DEF EntryInv, ToursOK, TourOK
<1>. QED
  BY <1>1, EntryInductive, PTL

(* A tournament is never oversold: the counter covers its entries.         *)
THEOREM EntryCounter == EntrySpec => []CounterCoversEntries
<1>1. EntryInv => CounterCoversEntries
  <2>. SUFFICES ASSUME EntryInv, NEW t \in Tour,
                       tours[t].status \in {"REGISTRATION_OPEN", "LIVE"}
                PROVE  Cardinality(EntriesOf(t)) <= tours[t].registeredSlots
    BY DEF CounterCoversEntries
  <2>1. EntriesOf(t) = Sold(regs[t])
    BY DEF EntriesOf, Sold, MembersIn, Confirmed, In
  <2>. QED
    BY <2>1 DEF EntryInv, ToursOK, TourOK, Running
<1>. QED
  BY <1>1, EntryInductive, PTL

(* The members of a team whose entry is running are the players who paid.  *)
THEOREM EntryRosters == EntrySpec => []PaidRosterFrozen
<1>1. EntryInv => PaidRosterFrozen
  <2>. SUFFICES ASSUME EntryInv, NEW t \in Tour,
                       tours[t].status \in {"REGISTRATION_OPEN", "LIVE"}
                PROVE  Frozen(regs[t], teams)
    BY DEF PaidRosterFrozen, Frozen, MembersIn, Confirmed, In
  <2>. QED
    BY DEF EntryInv, ToursOK, TourOK, Running
<1>. QED
  BY <1>1, EntryInductive, PTL

(* The uses of a coupon over its limit are fewer than the tournaments in   *)
(* which it was redeemed.                                                  *)
THEOREM EntryCoupon == EntrySpec => []CouponOverrunBounded
<1>1. EntryInv => CouponOverrunBounded
  <2>. SUFFICES ASSUME EntryInv PROVE CouponOverrunBounded
    OBVIOUS
  <2>. DEFINE Used == {d.tour : d \in redeemed}
  <2>1. couponUsed \in Nat /\ CouponLimit \in Nat /\ redeemed \in SUBSET [user : User, tour : Tour]
    BY EntryTypes, EntryAssumption DEF EntryInv
  <2>2. IsFiniteSet(Redeeming(joins)) /\ Cardinality(Redeeming(joins)) \in Nat
    BY RedeemingFinite
  <2>3. IsFiniteSet(Used) /\ Cardinality(Used) \in Nat
    <3>1. \A d \in redeemed : d.tour \in Tour
      BY <2>1
    <3>2. Used \in SUBSET Tour
      BY <3>1
    <3>. QED
      BY <3>2, EntryAssumption, FS_Subset, FS_CardinalityType
  <2>4. /\ Cardinality(Reached(joins, redeemed)) <= Cardinality(Redeeming(joins)) + Cardinality(Used)
        /\ Cardinality(Reached(joins, redeemed)) \in Nat
    <3>1. /\ IsFiniteSet(Redeeming(joins) \intersect Used)
          /\ Cardinality(Redeeming(joins) \intersect Used) \in Nat
      BY <2>2, FS_Subset, FS_CardinalityType
    <3>2. Cardinality(Redeeming(joins) \union Used)
            = Cardinality(Redeeming(joins)) + Cardinality(Used)
                - Cardinality(Redeeming(joins) \intersect Used)
      BY <2>2, <2>3, FS_Union
    <3>3. Reached(joins, redeemed) = Redeeming(joins) \union Used
      BY DEF Reached
    <3>4. Cardinality(Reached(joins, redeemed)) \in Nat
      BY <2>1, ReachedFinite
    <3>. HIDE DEF Used
    <3>. QED
      BY <2>1, <2>2, <2>3, <3>1, <3>2, <3>3, <3>4
  <2>. HIDE DEF Used
  <2>5. couponUsed > CouponLimit => couponUsed - CouponLimit < Cardinality(Used)
    BY <2>1, <2>2, <2>3, <2>4 DEF EntryInv, CouponInv, Within
  <2>. QED
    BY <2>5 DEF CouponOverrunBounded, Used
<1>. QED
  BY <1>1, EntryInductive, PTL

(* Entries keep the types, and the ledger explains every balance.          *)
THEOREM EntryBooks == EntrySpec => [](EntryTypeOK /\ LedgerExplainsBalance)
<1>1. EntryInv => EntryTypeOK /\ LedgerExplainsBalance
  BY DEF EntryInv
<1>. QED
  BY <1>1, EntryInductive, PTL

-----------------------------------------------------------------------------
(***************************************************************************)
(* Locked seats.                                                           *)
(***************************************************************************)
\* From the registrations rg to the registrations new.
LocksRespected(rg, new) ==
    \A u \in In(rg) \intersect In(new) :
        rg[u].locked => new[u].seat = rg[u].seat \/ ~new[u].locked

AllLocksRespected == \A t \in Tour : LocksRespected(regs[t], regs'[t])

LEMMA OthersRespected ==
    ASSUME NEW t \in Tour, \A x \in Tour \ {t} : regs'[x] = regs[x],
           LocksRespected(regs[t], regs'[t])
    PROVE  AllLocksRespected
<1>1. ASSUME NEW x \in Tour \ {t} PROVE LocksRespected(regs[x], regs'[x])
  BY DEF LocksRespected
<1>. QED
  BY <1>1 DEF AllLocksRespected

LEMMA SameSeats == ASSUME regs' = regs PROVE AllLocksRespected
  BY DEF AllLocksRespected, LocksRespected

LEMMA WriteRespects ==
    ASSUME EntryInv, NEW j \in JoinReq, WriteEntry(j) PROVE AllLocksRespected
<1>. PICK r \in Join : r = joins[j]
  BY EntryTypes DEF EntryInv
<1>1. r.tour \in Tour /\ r.stage = "open"
  BY JoinTypes DEF WriteEntry
<1>2. /\ \A x \in Tour \ {r.tour} : regs'[x] = regs[x]
      /\ \A u \in User \ r.payers : regs'[r.tour][u] = regs[r.tour][u]
  BY RegsWritten
<1>3. r.payers \intersect In(regs[r.tour]) = {}
  BY <1>1 DEF EntryInv, JoinsOK, JoinOK
<1>4. LocksRespected(regs[r.tour], regs'[r.tour])
  BY <1>2, <1>3 DEF LocksRespected, In
<1>. QED
  BY <1>1, <1>2, <1>4, OthersRespected

LEMMA RefundsRespect ==
    ASSUME EntryInv, NEW t \in Tour, NEW us \in SUBSET User, regs' = Refunded(t, us)
    PROVE  AllLocksRespected
<1>1. /\ \A x \in Tour \ {t} : regs'[x] = regs[x]
      /\ \A v \in User \ us : regs'[t][v] = regs[t][v]
      /\ \A v \in us : regs'[t][v].status = "REFUNDED"
  BY RegsRefunded DEF EntryInv
<1>2. LocksRespected(regs[t], regs'[t])
  BY <1>1 DEF LocksRespected, In
<1>. QED
  BY <1>1, <1>2, OthersRespected

LEMMA ReseatingRespects ==
    ASSUME EntryInv, NEW t \in Tour, NEW us, NEW seat \in Nat, regs' = Reseated(t, us, seat),
           \A v \in us : ~regs[t][v].locked
    PROVE  AllLocksRespected
<1>1. /\ \A x \in Tour \ {t} : regs'[x] = regs[x]
      /\ \A v \in User : regs'[t][v].seat = IF v \in us THEN seat ELSE regs[t][v].seat
  BY RegsReseated DEF EntryInv
<1>2. LocksRespected(regs[t], regs'[t])
  BY <1>1 DEF LocksRespected, In
<1>. QED
  BY <1>1, <1>2, OthersRespected

LEMMA JoinsRespect ==
    ASSUME EntryInv, NEW j \in JoinReq,
           SubmitJoin(j) \/ JoinStep(j) \/ JoinResponseLost(j) \/ JoinFails(j)
    PROVE  AllLocksRespected
<1>1. WriteEntry(j) \/ regs' = regs
  BY DEF SubmitJoin, JoinStep, PreflightJoin, OpenJoin, CommitJoin, RefuseJoin,
      JoinResponseLost, JoinFails
<1>. QED
  BY <1>1, WriteRespects, SameSeats

LEMMA CancelRespects ==
    ASSUME EntryInv, NEW t \in Tour, NEW u \in User, CancelRegistration(t, u)
    PROVE  AllLocksRespected
<1>. DEFINE us == IF TeamSize > 1 /\ regs[t][u].team # NoTeam
                  THEN {v \in Confirmed(t) : regs[t][v].team = regs[t][u].team} ELSE {u}
<1>1. us \in SUBSET User
  BY DEF Confirmed
<1>2. PayRefunds(t, us)
  BY DEF CancelRegistration
<1>. HIDE DEF us
<1>. QED
  BY <1>1, <1>2, RefundsRespect DEF PayRefunds

LEMMA StatusRespects ==
    ASSUME EntryInv, NEW t \in Tour, NEW status, SetTournamentStatus(t, status)
    PROVE  AllLocksRespected
<1>1. Confirmed(t) \in SUBSET User
  BY DEF Confirmed
<1>2. regs' = Refunded(t, Confirmed(t)) \/ regs' = regs
  BY DEF SetTournamentStatus, PayRefunds
<1>. QED
  BY <1>1, <1>2, RefundsRespect, SameSeats

LEMMA AssignRespects == ASSUME EntryInv, NEW s \in Staff, EndAssign(s) PROVE AllLocksRespected
<1>. PICK r \in StaffRequest : r = staff[s]
  BY EntryTypes DEF EntryInv
<1>1. r.tour \in Tour /\ r.slot \in Nat
  BY StaffTypes
<1>. DEFINE us == Group(r.tour, CHOOSE v \in r.users : TRUE)
<1>2. \/ regs' = regs
      \/ regs' = Reseated(r.tour, us, r.slot) /\ \A v \in us : ~regs[r.tour][v].locked
  BY DEF EndAssign
<1>. HIDE DEF us
<1>. QED
  BY <1>1, <1>2, ReseatingRespects, SameSeats

LEMMA PairRespects == ASSUME EntryInv, NEW s \in Staff, EndPair(s) PROVE AllLocksRespected
<1>. PICK r \in StaffRequest : r = staff[s]
  BY EntryTypes DEF EntryInv
<1>. PICK t \in Tour, us \in SUBSET User : t = r.tour /\ us = r.users
  BY StaffTypes
<1>1. EntryTypeOK
  BY DEF EntryInv
<1>2. PICK T \in Team : regs' = RegsWithTeam(t, us, T)
  BY DEF EndPair, RegsWithTeam
<1>3. /\ \A x \in Tour \ {t} : regs'[x] = regs[x]
      /\ \A v \in User \ us : regs'[t][v] = regs[t][v]
      /\ \A v \in us : regs'[t][v].seat = regs[t][v].seat
  <2>1. EntryTypeOK /\ regs' = RegsWithTeam(t, us, T)
    BY <1>1, <1>2
  <2>2. TeamGiven(t, us, T)
    BY ONLY <2>1, t \in Tour, us \in SUBSET User, T \in Team, RegsPaired
  <2>. QED
    BY <2>2 DEF TeamGiven
<1>4. LocksRespected(regs[t], regs'[t])
  BY <1>3 DEF LocksRespected, In
<1>. QED
  BY <1>3, <1>4, OthersRespected

LEMMA SeatsRespect == ASSUME EntryInv, SeatStep PROVE AllLocksRespected
<1>1. ASSUME NEW s \in Staff, EndAssign(s) \/ EndResize(s) \/ EndPair(s)
      PROVE  AllLocksRespected
  <2>1. CASE EndResize(s)
    BY <2>1, SameSeats DEF EndResize
  <2>. QED
    BY <1>1, <2>1, AssignRespects, PairRespects
<1>2. ASSUME NEW t \in Tour, NEW u \in User, ClearSlot(t, u) PROVE AllLocksRespected
  <2>1. /\ regs' = Reseated(t, Group(t, u), 0)
        /\ \A v \in Group(t, u) : ~regs[t][v].locked
    BY <1>2 DEF ClearSlot
  <2>. QED
    BY <2>1, ReseatingRespects
<1>3. ASSUME NEW t \in Tour, NEW u \in User, NEW locked \in BOOLEAN, SetSlotLock(t, u, locked)
      PROVE  AllLocksRespected
  <2>1. /\ \A x \in Tour \ {t} : regs'[x] = regs[x]
        /\ \A v \in User : regs'[t][v].seat = regs[t][v].seat
    BY <1>3, RegsLocked DEF EntryInv
  <2>2. LocksRespected(regs[t], regs'[t])
    BY <2>1 DEF LocksRespected, In
  <2>. QED
    BY <2>1, <2>2, OthersRespected
<1>4. \/ \E s \in Staff : EndAssign(s) \/ EndResize(s) \/ EndPair(s)
      \/ \E t \in Tour, u \in User :
            ClearSlot(t, u) \/ \E locked \in BOOLEAN : SetSlotLock(t, u, locked)
      \/ regs' = regs
  BY DEF SeatStep, BeginResize, BeginPair, BeginAssign, BeginStaff
<1>. QED
  BY <1>1, <1>2, <1>3, <1>4, SameSeats

LEMMA StepRespects == ASSUME EntryInv, [EntryStep]_enVars PROVE AllLocksRespected
<1>1. ASSUME NEW j \in JoinReq,
             SubmitJoin(j) \/ JoinStep(j) \/ JoinResponseLost(j) \/ JoinFails(j)
      PROVE  AllLocksRespected
  BY <1>1, JoinsRespect
<1>2. ASSUME NEW t \in Tour, NEW u \in User, CancelRegistration(t, u)
      PROVE  AllLocksRespected
  BY <1>2, CancelRespects
<1>3. ASSUME NEW t \in Tour, NEW status \in TourStatus, SetTournamentStatus(t, status)
      PROVE  AllLocksRespected
  BY <1>3, StatusRespects
<1>4. CASE SeatStep
  BY <1>4, SeatsRespect
<1>5. CASE \/ \E t \in Tour : PassDeadline(t)
           \/ TeamStep
           \/ \E u \in Suspendable : SetUserStatus(u)
           \/ UNCHANGED enVars
  <2>1. regs' = regs
    BY <1>5 DEF PassDeadline, TeamStep, CreateTeam, JoinTeam, LeaveTeam, TransferCaptaincy,
        ChangeTeam, SetUserStatus, enVars, entryVars
  <2>. QED
    BY <2>1, SameSeats
<1>. QED
  BY <1>1, <1>2, <1>3, <1>4, <1>5 DEF EntryStep

(* A seat that staff locked stays where it is for as long as it is locked  *)
(* and its entry confirmed: no join, cancellation, move, clearing or       *)
(* pairing takes it away.                                                  *)
THEOREM EntryLocks == EntrySpec => LockedSeatStays
<1>1. ASSUME EntryInv, [EntryStep]_enVars
      PROVE  [\A t \in Tour : \A u \in Confirmed(t) \intersect Confirmed(t)' :
                 regs[t][u].locked => \/ regs'[t][u].seat = regs[t][u].seat
                                      \/ ~regs'[t][u].locked]_enVars
  <2>1. AllLocksRespected
    BY <1>1, StepRespects
  <2>2. ASSUME NEW t \in Tour, NEW u \in Confirmed(t) \intersect Confirmed(t)',
               regs[t][u].locked
        PROVE  regs'[t][u].seat = regs[t][u].seat \/ ~regs'[t][u].locked
    <3>1. u \in In(regs[t]) \intersect In(regs'[t])
      BY DEF Confirmed, In
    <3>. QED
      BY <2>1, <2>2, <3>1 DEF AllLocksRespected, LocksRespected
  <2>. QED
    BY <2>2
<1>. QED
  BY <1>1, EntryInductive, PTL DEF EntrySpec, LockedSeatStays

-----------------------------------------------------------------------------
(***************************************************************************)
(* Charges and refunds.  A player's cash ledger and registration are       *)
(* parameters: log, and row, the registration in the tournament t.         *)
(***************************************************************************)
Bill(log, type, t) == {i \in DOMAIN log : log[i].type = type /\ log[i].ref = t}

\* What the player of a confirmed entry paid for it.
ChargeNamed(log, row, t) ==
    row.status = "CONFIRMED" =>
        /\ row.fee \in Bill(log, "ENTRY_FEE", t)
        /\ \A i \in Bill(log, "ENTRY_FEE", t) : i <= row.fee
        /\ log[row.fee].amount = row.amount
        /\ row.amount \in {Fee, Fee - CouponDiscount}

ChargedOnce(log, row, t) ==
    /\ Cardinality(Bill(log, "ENTRY_FEE", t)) =
           Cardinality(Bill(log, "ENTRY_REFUND", t)) + (IF row.status = "CONFIRMED" THEN 1 ELSE 0)
    /\ ChargeNamed(log, row, t)

ChargeInv == \A t \in Tour, u \in User : ChargedOnce(ledger[u]["CASH"], regs[t][u], t)

\* An entry of the ledger comes last and is on the bills of its type and entity.
BillWith(log, e, type, t) ==
    LET new == Append(log, e)
        n == Len(log) + 1
    IN  /\ Cardinality(Bill(log, type, t)) \in Nat
        /\ \A i \in Bill(log, type, t) : i \in Nat /\ i < n /\ new[i] = log[i]
        /\ (e.type = type /\ e.ref = t) =>
               /\ Bill(new, type, t) = Bill(log, type, t) \union {n}
               /\ Cardinality(Bill(new, type, t)) = Cardinality(Bill(log, type, t)) + 1
        /\ ~(e.type = type /\ e.ref = t) => Bill(new, type, t) = Bill(log, type, t)
        /\ new[n] = e

LEMMA BillGrows ==
    ASSUME NEW log \in Seq(Entry), NEW e \in Entry, NEW type, NEW t
    PROVE  BillWith(log, e, type, t)
<1>. DEFINE new == Append(log, e)
            n == Len(log) + 1
<1>1. /\ Len(log) \in Nat /\ DOMAIN log = 1..Len(log) /\ DOMAIN new = DOMAIN log \union {n}
      /\ n \notin DOMAIN log /\ new[n] = e /\ \A i \in 1..Len(log) : new[i] = log[i]
  BY OneMore
<1>. PICK k \in Nat : k = Len(log)
  BY <1>1
<1>2. IsFiniteSet(DOMAIN log)
  BY <1>1, FS_Interval
<1>3. IsFiniteSet(Bill(log, type, t)) /\ Cardinality(Bill(log, type, t)) \in Nat
  <2>1. Bill(log, type, t) \subseteq DOMAIN log
    BY DEF Bill
  <2>. QED
    BY <1>2, <2>1, FS_Subset, FS_CardinalityType
<1>. HIDE DEF new
<1>4. \A i \in Bill(log, type, t) : i \in Nat /\ i < n /\ new[i] = log[i]
  BY <1>1 DEF Bill
<1>5. n \notin Bill(log, type, t)
  BY <1>1 DEF Bill
<1>6. ASSUME e.type = type, e.ref = t
      PROVE  Bill(new, type, t) = Bill(log, type, t) \union {n}
  <2>. HIDE DEF n
  <2>. QED
    BY <1>1, <1>6 DEF Bill
<1>7. ASSUME ~(e.type = type /\ e.ref = t)
      PROVE  Bill(new, type, t) = Bill(log, type, t)
  <2>. HIDE DEF n
  <2>. QED
    BY <1>1, <1>7 DEF Bill
<1>8. Cardinality(Bill(log, type, t) \union {n}) = Cardinality(Bill(log, type, t)) + 1
  BY <1>3, <1>5, FS_AddElement
<1>. QED
  BY <1>1, <1>3, <1>4, <1>6, <1>7, <1>8 DEF new, BillWith

\* An entry about something else.
LEMMA ChargedElsewhere ==
    ASSUME NEW log \in Seq(Entry), NEW e \in Entry, NEW row, NEW t, e.ref # t,
           ChargedOnce(log, row, t)
    PROVE  ChargedOnce(Append(log, e), row, t)
<1>1. /\ Bill(Append(log, e), "ENTRY_FEE", t) = Bill(log, "ENTRY_FEE", t)
      /\ Bill(Append(log, e), "ENTRY_REFUND", t) = Bill(log, "ENTRY_REFUND", t)
      /\ \A i \in Bill(log, "ENTRY_FEE", t) : Append(log, e)[i] = log[i]
  <2>1. ASSUME NEW type
        PROVE  /\ Bill(Append(log, e), type, t) = Bill(log, type, t)
               /\ \A i \in Bill(log, type, t) : Append(log, e)[i] = log[i]
    <3>1. ~(e.type = type /\ e.ref = t)
      OBVIOUS
    <3>2. Bill(Append(log, e), type, t) = Bill(log, type, t)
      BY <3>1, BillGrows DEF BillWith
    <3>3. \A i \in Bill(log, type, t) : Append(log, e)[i] = log[i]
      BY OneMore DEF Bill
    <3>. QED
      BY <3>2, <3>3
  <2>. QED
    BY <2>1
<1>. QED
  BY <1>1 DEF ChargedOnce, ChargeNamed

\* A charge of a player whose entry is not confirmed.
LEMMA ChargedAgain ==
    ASSUME NEW log \in Seq(Entry), NEW e \in Entry, NEW row, NEW new, NEW t,
           ChargedOnce(log, row, t), row.status # "CONFIRMED", e.type = "ENTRY_FEE", e.ref = t,
           new.status = "CONFIRMED", new.fee = Len(log) + 1, new.amount = e.amount,
           e.amount \in {Fee, Fee - CouponDiscount}
    PROVE  ChargedOnce(Append(log, e), new, t)
<1>. DEFINE n == Len(log) + 1
            after == Append(log, e)
<1>1. /\ Bill(after, "ENTRY_FEE", t) = Bill(log, "ENTRY_FEE", t) \union {n}
      /\ Cardinality(Bill(after, "ENTRY_FEE", t)) = Cardinality(Bill(log, "ENTRY_FEE", t)) + 1
      /\ Bill(after, "ENTRY_REFUND", t) = Bill(log, "ENTRY_REFUND", t)
      /\ Cardinality(Bill(log, "ENTRY_REFUND", t)) \in Nat
      /\ \A i \in Bill(log, "ENTRY_FEE", t) : i \in Nat /\ i < n
      /\ after[n] = e
  <2>1. BillWith(log, e, "ENTRY_FEE", t) /\ BillWith(log, e, "ENTRY_REFUND", t)
    BY BillGrows
  <2>. QED
    BY <2>1 DEF BillWith
<1>2. n \in Nat
  BY OneMore
<1>3. Cardinality(Bill(log, "ENTRY_FEE", t)) = Cardinality(Bill(log, "ENTRY_REFUND", t))
  BY <1>1 DEF ChargedOnce
<1>. HIDE DEF n, after
<1>4. \A i \in Bill(after, "ENTRY_FEE", t) : i <= n
  BY <1>1, <1>2
<1>5. new.fee = n
  BY DEF n
<1>. QED
  BY <1>1, <1>3, <1>4, <1>5 DEF ChargedOnce, ChargeNamed, after

\* A refund of a confirmed entry.
LEMMA ChargedBack ==
    ASSUME NEW log \in Seq(Entry), NEW e \in Entry, NEW row, NEW new, NEW t,
           ChargedOnce(log, row, t), row.status = "CONFIRMED", e.type = "ENTRY_REFUND", e.ref = t,
           new.status = "REFUNDED"
    PROVE  ChargedOnce(Append(log, e), new, t)
<1>1. /\ Bill(Append(log, e), "ENTRY_FEE", t) = Bill(log, "ENTRY_FEE", t)
      /\ Cardinality(Bill(Append(log, e), "ENTRY_REFUND", t)) =
             Cardinality(Bill(log, "ENTRY_REFUND", t)) + 1
      /\ Cardinality(Bill(log, "ENTRY_REFUND", t)) \in Nat
  <2>1. BillWith(log, e, "ENTRY_FEE", t) /\ BillWith(log, e, "ENTRY_REFUND", t)
    BY BillGrows
  <2>. QED
    BY <2>1 DEF BillWith
<1>. QED
  BY <1>1 DEF ChargedOnce, ChargeNamed

\* The player's ledger gains an entry.
Gains(u, type, ref, amount) ==
    \E e \in Entry :
        /\ e.type = type /\ e.ref = ref /\ e.amount = amount
        /\ ledger'[u]["CASH"] = Append(ledger[u]["CASH"], e)

LEMMA LogGrows ==
    ASSUME BooksOK(Books), NEW us \in SUBSET User, NEW mv, Commit(Posted(Books, us, mv)),
           NEW u \in us, mv[u] \in Move, mv[u].user = u, mv[u].bucket = "CASH",
           CanMove(Books, mv[u])
    PROVE  Gains(u, mv[u].type, mv[u].ref, mv[u].amount)
<1>. DEFINE e == NewEntry(Books, mv[u])
<1>1. /\ e \in Entry /\ e.type = mv[u].type /\ e.ref = mv[u].ref /\ e.amount = mv[u].amount
  BY NewEntryType
<1>2. Post(Books, mv[u]).log[u]["CASH"] = Append(ledger[u]["CASH"], e)
  <2>1. PICK m \in Move : m = mv[u] /\ CanMove(Books, m) /\ m.user = u /\ m.bucket = "CASH"
    OBVIOUS
  <2>2. Post(Books, m).log[m.user][m.bucket] =
            Append(Books.log[m.user][m.bucket], NewEntry(Books, m))
    BY <2>1, PostBooks
  <2>3. Books.log = ledger
    BY DEF Books
  <2>. QED
    BY <2>1, <2>2, <2>3
<1>3. ledger'[u] = Post(Books, mv[u]).log[u]
  BY DEF Commit, Posted
<1>. HIDE DEF e
<1>. QED
  BY <1>1, <1>2, <1>3 DEF Gains

LEMMA LogStays ==
    ASSUME NEW us \in SUBSET User, NEW mv, Commit(Posted(Books, us, mv)), NEW u \in User \ us
    PROVE  ledger'[u]["CASH"] = ledger[u]["CASH"]
  BY DEF Commit, Posted, Books

\* Every refund of the tournaments comes to something.
RefundsCount ==
    \A a \in {Fee, Fee - CouponDiscount} : a > 0 => (a * RefundPercent + 50) \div 100 > 0

\* Rows keep what they say about money.
PricesKept ==
    /\ ledger' = ledger
    /\ \A t \in Tour, u \in User : /\ regs'[t][u].status = regs[t][u].status
                                   /\ regs'[t][u].fee = regs[t][u].fee
                                   /\ regs'[t][u].amount = regs[t][u].amount

LEMMA CashLog == ASSUME EntryInv, NEW u \in User PROVE ledger[u]["CASH"] \in Seq(Entry)
  BY EntryTypes DEF EntryInv, BooksOK, Books, Bucket

LEMMA PricesStay == ASSUME ChargeInv, PricesKept PROVE ChargeInv'
<1>. SUFFICES ASSUME NEW t \in Tour, NEW u \in User
              PROVE  ChargedOnce(ledger'[u]["CASH"], regs'[t][u], t)
  BY DEF ChargeInv
<1>1. ledger'[u]["CASH"] = ledger[u]["CASH"]
  BY DEF PricesKept
<1>. PICK log, row, new : log = ledger[u]["CASH"] /\ row = regs[t][u] /\ new = regs'[t][u]
  OBVIOUS
<1>2. new.status = row.status /\ new.fee = row.fee /\ new.amount = row.amount
  BY DEF PricesKept
<1>3. ChargedOnce(log, row, t)
  BY DEF ChargeInv
<1>4. ChargedOnce(log, new, t)
  BY <1>2, <1>3 DEF ChargedOnce, ChargeNamed
<1>. QED
  BY <1>1, <1>4

LEMMA WriteCharges ==
    ASSUME EntryInv, ChargeInv, NEW j \in JoinReq, WriteEntry(j) PROVE ChargeInv'
<1>1. EntryTypeOK /\ LedgerExplainsBalance /\ BooksOK(Books)
  BY EntryTypes DEF EntryInv
<1>. PICK r \in Join : r = joins[j]
  BY <1>1, EntryTypes
<1>2. r.tour \in Tour /\ r.stage = "open" /\ r.payers \in SUBSET User
  BY JoinTypes DEF WriteEntry
<1>3. /\ Commit(Posted(Books, r.payers, Fees(j)))
      /\ \A u \in r.payers : CanMove(Books, EntryDebit(j, u))
  BY <1>1, WriteBooks
<1>4. /\ \A x \in Tour \ {r.tour} : regs'[x] = regs[x]
      /\ \A u \in User \ r.payers : regs'[r.tour][u] = regs[r.tour][u]
      /\ \A u \in r.payers : regs'[r.tour][u] = NewReg(j, u)
  BY RegsWritten
<1>. SUFFICES ASSUME NEW t \in Tour, NEW u \in User
              PROVE  ChargedOnce(ledger'[u]["CASH"], regs'[t][u], t)
  BY DEF ChargeInv
<1>. PICK log \in Seq(Entry) : log = ledger[u]["CASH"]
  BY CashLog
<1>5. ChargedOnce(log, regs[t][u], t)
  BY DEF ChargeInv
<1>6. CASE u \notin r.payers
  <2>1. ledger'[u]["CASH"] = log
    BY <1>2, <1>3, <1>6, LogStays
  <2>2. regs'[t][u] = regs[t][u]
    BY <1>4, <1>6
  <2>. QED
    BY <1>5, <2>1, <2>2
<1>7. CASE u \in r.payers
  <2>1. /\ Fees(j)[u] \in Move /\ Fees(j)[u].user = u /\ Fees(j)[u].bucket = "CASH"
        /\ CanMove(Books, Fees(j)[u])
        /\ Fees(j)[u].type = "ENTRY_FEE" /\ Fees(j)[u].ref = r.tour
        /\ Fees(j)[u].amount = Payable(j, u)
        /\ Payable(j, u) \in {Fee, Fee - CouponDiscount}
    BY <1>1, <1>3, <1>7, FeeType
  <2>2. PICK e \in Entry : /\ e.type = "ENTRY_FEE" /\ e.ref = r.tour /\ e.amount = Payable(j, u)
                           /\ ledger'[u]["CASH"] = Append(log, e)
    <3>. PICK mv : mv = Fees(j)
      OBVIOUS
    <3>. PICK us \in SUBSET User : us = r.payers
      BY <1>2
    <3>1. /\ BooksOK(Books) /\ Commit(Posted(Books, us, mv)) /\ u \in us
          /\ mv[u] \in Move /\ mv[u].user = u /\ mv[u].bucket = "CASH" /\ CanMove(Books, mv[u])
      BY <1>1, <1>3, <1>7, <2>1
    <3>2. Gains(u, mv[u].type, mv[u].ref, mv[u].amount)
      BY ONLY <3>1, us \in SUBSET User, LogGrows
    <3>. QED
      BY <2>1, <3>2 DEF Gains
  <2>3. CASE t # r.tour
    <3>1. regs'[t][u] = regs[t][u]
      BY <1>4, <2>3
    <3>. PICK row : row = regs[t][u]
      OBVIOUS
    <3>2. ChargedOnce(Append(log, e), row, t)
      BY <1>5, <2>2, <2>3, ChargedElsewhere
    <3>. QED
      BY <2>2, <3>1, <3>2
  <2>4. CASE t = r.tour
    <3>. PICK row, new : row = regs[t][u] /\ new = regs'[t][u]
      OBVIOUS
    <3>1. row.status # "CONFIRMED"
      BY <1>2, <1>7, <2>4 DEF EntryInv, JoinsOK, JoinOK, In
    <3>2. new.status = "CONFIRMED" /\ new.fee = Len(log) + 1 /\ new.amount = e.amount
      BY <1>2, <1>4, <1>7, <2>2, <2>4, NewRegFacts
    <3>3. e.amount \in {Fee, Fee - CouponDiscount}
      BY <2>1, <2>2
    <3>4. ChargedOnce(Append(log, e), new, t)
      BY <1>5, <2>2, <2>4, <3>1, <3>2, <3>3, ChargedAgain
    <3>. QED
      BY <2>2, <3>4
  <2>. QED
    BY <2>3, <2>4
<1>. QED
  BY <1>6, <1>7

LEMMA RefundCharges ==
    ASSUME RefundsCount, EntryInv, ChargeInv, NEW t \in Tour, NEW us \in SUBSET Confirmed(t),
           PayRefunds(t, us)
    PROVE  ChargeInv'
<1>1. EntryTypeOK /\ LedgerExplainsBalance /\ BooksOK(Books) /\ us \in SUBSET User
  BY EntryTypes DEF EntryInv, Confirmed
<1>2. /\ Commit(Posted(Books, Refundable(t, us), Credits(t)))
      /\ regs' = Refunded(t, us)
  BY <1>1, RefundBooks
<1>3. /\ \A x \in Tour \ {t} : regs'[x] = regs[x]
      /\ \A v \in User \ us : regs'[t][v] = regs[t][v]
      /\ \A v \in us : regs'[t][v].status = "REFUNDED"
  BY <1>1, <1>2, RegsRefunded
<1>4. Refundable(t, us) \in SUBSET User /\ Refundable(t, us) \subseteq us
  BY <1>1 DEF Refundable
<1>. SUFFICES ASSUME NEW x \in Tour, NEW u \in User
              PROVE  ChargedOnce(ledger'[u]["CASH"], regs'[x][u], x)
  BY DEF ChargeInv
<1>. PICK log \in Seq(Entry) : log = ledger[u]["CASH"]
  BY CashLog
<1>5. ChargedOnce(log, regs[x][u], x)
  BY DEF ChargeInv
<1>6. CASE u \notin us
  <2>1. ledger'[u]["CASH"] = log
    BY <1>2, <1>4, <1>6, LogStays
  <2>2. regs'[x][u] = regs[x][u]
    BY <1>3, <1>6
  <2>. QED
    BY <1>5, <2>1, <2>2
<1>7. CASE u \in us
  <2>1. regs[t][u].status = "CONFIRMED"
    BY <1>7 DEF Confirmed
  <2>2. RefundCredit(t, u).amount > 0
    <3>. PICK row : row = regs[t][u]
      OBVIOUS
    <3>1. ChargedOnce(log, row, t)
      BY DEF ChargeInv
    <3>2. row.amount \in {Fee, Fee - CouponDiscount} /\ row.fee \in DOMAIN log
          /\ log[row.fee].amount = row.amount
      BY <2>1, <3>1 DEF ChargedOnce, ChargeNamed, Bill
    <3>3. log[row.fee] \in Entry
      BY <3>2
    <3>4. row.amount > 0
      <4>. PICK paid \in Entry : paid = log[row.fee]
        BY <3>3
      <4>1. paid.amount \in Nat \ {0}
        BY DEF Entry
      <4>. QED
        BY <3>2, <4>1
    <3>5. RefundCredit(t, u).amount = (row.amount * RefundPercent + 50) \div 100
      BY <1>1, CreditType
    <3>. QED
      BY <3>2, <3>4, <3>5 DEF RefundsCount
  <2>3. u \in Refundable(t, us)
    BY <1>7, <2>2 DEF Refundable
  <2>4. /\ Credits(t)[u] \in Move /\ Credits(t)[u].user = u /\ Credits(t)[u].bucket = "CASH"
        /\ CanMove(Books, Credits(t)[u])
        /\ Credits(t)[u].type = "ENTRY_REFUND" /\ Credits(t)[u].ref = t
    BY <1>1, <2>2, CreditType DEF CanMove
  <2>5. PICK e \in Entry : /\ e.type = "ENTRY_REFUND" /\ e.ref = t
                           /\ ledger'[u]["CASH"] = Append(log, e)
    <3>. PICK mv : mv = Credits(t)
      OBVIOUS
    <3>. PICK paid \in SUBSET User : paid = Refundable(t, us)
      BY <1>4
    <3>1. /\ BooksOK(Books) /\ Commit(Posted(Books, paid, mv)) /\ u \in paid
          /\ mv[u] \in Move /\ mv[u].user = u /\ mv[u].bucket = "CASH" /\ CanMove(Books, mv[u])
      BY <1>1, <1>2, <2>3, <2>4
    <3>2. Gains(u, mv[u].type, mv[u].ref, mv[u].amount)
      BY ONLY <3>1, paid \in SUBSET User, LogGrows
    <3>. QED
      BY <2>4, <3>2 DEF Gains
  <2>. PICK row, new : row = regs[x][u] /\ new = regs'[x][u]
    OBVIOUS
  <2>6. CASE x # t
    <3>1. new = row
      BY <1>3, <2>6
    <3>2. ChargedOnce(Append(log, e), row, x)
      BY <1>5, <2>5, <2>6, ChargedElsewhere
    <3>. QED
      BY <2>5, <3>1, <3>2
  <2>7. CASE x = t
    <3>1. new.status = "REFUNDED" /\ row.status = "CONFIRMED"
      BY <1>3, <1>7, <2>1, <2>7
    <3>2. ChargedOnce(Append(log, e), new, x)
      BY <1>5, <2>5, <2>7, <3>1, ChargedBack
    <3>. QED
      BY <2>5, <3>2
  <2>. QED
    BY <2>6, <2>7
<1>. QED
  BY <1>6, <1>7

LEMMA CancelCharges ==
    ASSUME RefundsCount, EntryInv, ChargeInv, NEW t \in Tour, NEW u \in User,
           CancelRegistration(t, u)
    PROVE  ChargeInv'
<1>. DEFINE us == IF TeamSize > 1 /\ regs[t][u].team # NoTeam
                  THEN {v \in Confirmed(t) : regs[t][v].team = regs[t][u].team} ELSE {u}
<1>1. u \in Confirmed(t)
  BY DEF CancelRegistration
<1>2. us \in SUBSET Confirmed(t)
  BY <1>1
<1>3. PayRefunds(t, us)
  BY DEF CancelRegistration
<1>. HIDE DEF us
<1>. QED
  BY <1>2, <1>3, RefundCharges

LEMMA StatusCharges ==
    ASSUME RefundsCount, EntryInv, ChargeInv, NEW t \in Tour, NEW status,
           SetTournamentStatus(t, status)
    PROVE  ChargeInv'
<1>1. CASE status = "CANCELLED"
  <2>1. PayRefunds(t, Confirmed(t))
    BY <1>1 DEF SetTournamentStatus
  <2>. QED
    BY <2>1, RefundCharges
<1>2. CASE status # "CANCELLED"
  <2>1. PricesKept
    BY <1>2 DEF SetTournamentStatus, PricesKept, walletVars
  <2>. QED
    BY <2>1, PricesStay
<1>. QED
  BY <1>1, <1>2

LEMMA JoinCharges ==
    ASSUME EntryInv, ChargeInv, NEW j \in JoinReq,
           SubmitJoin(j) \/ JoinStep(j) \/ JoinResponseLost(j) \/ JoinFails(j)
    PROVE  ChargeInv'
<1>1. WriteEntry(j) \/ UNCHANGED <<walletVars, regs>>
  BY DEF SubmitJoin, JoinStep, PreflightJoin, OpenJoin, CommitJoin, RefuseJoin,
      JoinResponseLost, JoinFails
<1>2. CASE UNCHANGED <<walletVars, regs>>
  BY <1>2, PricesStay DEF PricesKept, walletVars
<1>. QED
  BY <1>1, <1>2, WriteCharges

\* Moving, locking and pairing leave the prices alone.
LEMMA PricesOf ==
    ASSUME NEW t \in Tour, ledger' = ledger, \A x \in Tour \ {t} : regs'[x] = regs[x],
           \A v \in User : /\ regs'[t][v].status = regs[t][v].status
                           /\ regs'[t][v].fee = regs[t][v].fee
                           /\ regs'[t][v].amount = regs[t][v].amount
    PROVE  PricesKept
<1>1. ASSUME NEW x \in Tour, NEW v \in User
      PROVE  /\ regs'[x][v].status = regs[x][v].status
             /\ regs'[x][v].fee = regs[x][v].fee
             /\ regs'[x][v].amount = regs[x][v].amount
  <2>1. CASE x = t
    BY <2>1
  <2>2. CASE x # t
    <3>1. regs'[x] = regs[x]
      BY <2>2
    <3>. QED
      BY <3>1
  <2>. QED
    BY <2>1, <2>2
<1>. QED
  BY <1>1 DEF PricesKept

LEMMA ReseatingPrices ==
    ASSUME EntryInv, ledger' = ledger, NEW t \in Tour, NEW us, NEW seat \in Nat,
           regs' = Reseated(t, us, seat)
    PROVE  PricesKept
<1>1. /\ \A x \in Tour \ {t} : regs'[x] = regs[x]
      /\ \A v \in User : /\ regs'[t][v].status = regs[t][v].status
                         /\ regs'[t][v].fee = regs[t][v].fee
                         /\ regs'[t][v].amount = regs[t][v].amount
  BY RegsReseated DEF EntryInv
<1>. QED
  BY <1>1, PricesOf

LEMMA SeatPrices == ASSUME EntryInv, SeatStep PROVE PricesKept
<1>1. ledger' = ledger
  BY DEF SeatStep, EndAssign, EndResize, EndPair, EndStaff, BeginResize, BeginPair, BeginAssign,
      BeginStaff, ClearSlot, SetSlotLock, walletVars
<1>2. ASSUME regs' = regs PROVE PricesKept
  BY <1>1, <1>2 DEF PricesKept
<1>3. ASSUME NEW s \in Staff, EndAssign(s) PROVE PricesKept
  <2>. PICK r \in StaffRequest : r = staff[s]
    BY EntryTypes DEF EntryInv
  <2>1. r.tour \in Tour /\ r.slot \in Nat
    BY StaffTypes
  <2>2. \/ regs' = regs
        \/ regs' = Reseated(r.tour, Group(r.tour, CHOOSE v \in r.users : TRUE), r.slot)
    BY <1>3 DEF EndAssign
  <2>. QED
    BY <1>1, <1>2, <2>1, <2>2, ReseatingPrices
<1>4. ASSUME NEW s \in Staff, EndPair(s) PROVE PricesKept
  <2>. PICK r \in StaffRequest : r = staff[s]
    BY EntryTypes DEF EntryInv
  <2>. PICK t \in Tour, us \in SUBSET User : t = r.tour /\ us = r.users
    BY StaffTypes
  <2>1. PICK T \in Team : regs' = RegsWithTeam(t, us, T)
    BY <1>4 DEF EndPair, RegsWithTeam
  <2>2. EntryTypeOK
    BY DEF EntryInv
  <2>3. TeamGiven(t, us, T)
    BY ONLY <2>1, <2>2, t \in Tour, us \in SUBSET User, T \in Team, RegsPaired
  <2>4. \A v \in User : /\ regs'[t][v].status = regs[t][v].status
                        /\ regs'[t][v].fee = regs[t][v].fee
                        /\ regs'[t][v].amount = regs[t][v].amount
    BY <2>3 DEF TeamGiven
  <2>. QED
    BY <1>1, <2>3, <2>4, PricesOf DEF TeamGiven
<1>5. ASSUME NEW t \in Tour, NEW u \in User, ClearSlot(t, u) PROVE PricesKept
  <2>1. regs' = Reseated(t, Group(t, u), 0)
    BY <1>5 DEF ClearSlot
  <2>. QED
    BY <1>1, <2>1, ReseatingPrices
<1>6. ASSUME NEW t \in Tour, NEW u \in User, NEW locked \in BOOLEAN, SetSlotLock(t, u, locked)
      PROVE  PricesKept
  <2>1. /\ \A x \in Tour \ {t} : regs'[x] = regs[x]
        /\ \A v \in User : /\ regs'[t][v].status = regs[t][v].status
                           /\ regs'[t][v].fee = regs[t][v].fee
                           /\ regs'[t][v].amount = regs[t][v].amount
    BY <1>6, RegsLocked DEF EntryInv
  <2>. QED
    BY <1>1, <2>1, PricesOf
<1>7. \/ \E s \in Staff : EndAssign(s) \/ EndPair(s)
      \/ \E t \in Tour, u \in User :
            ClearSlot(t, u) \/ \E locked \in BOOLEAN : SetSlotLock(t, u, locked)
      \/ regs' = regs
  BY DEF SeatStep, EndResize, BeginResize, BeginPair, BeginAssign, BeginStaff
<1>. QED
  BY <1>2, <1>3, <1>4, <1>5, <1>6, <1>7

LEMMA StepCharges ==
    ASSUME RefundsCount, EntryInv, ChargeInv, [EntryStep]_enVars PROVE ChargeInv'
<1>1. ASSUME NEW j \in JoinReq,
             SubmitJoin(j) \/ JoinStep(j) \/ JoinResponseLost(j) \/ JoinFails(j)
      PROVE  ChargeInv'
  BY <1>1, JoinCharges
<1>2. ASSUME NEW t \in Tour, NEW u \in User, CancelRegistration(t, u)
      PROVE  ChargeInv'
  BY <1>2, CancelCharges
<1>3. ASSUME NEW t \in Tour, NEW status \in TourStatus, SetTournamentStatus(t, status)
      PROVE  ChargeInv'
  BY <1>3, StatusCharges
<1>4. CASE SeatStep
  BY <1>4, SeatPrices, PricesStay
<1>5. CASE \/ \E t \in Tour : PassDeadline(t)
           \/ TeamStep
           \/ \E u \in Suspendable : SetUserStatus(u)
           \/ UNCHANGED enVars
  <2>1. ledger' = ledger /\ regs' = regs
    BY <1>5 DEF PassDeadline, TeamStep, CreateTeam, JoinTeam, LeaveTeam, TransferCaptaincy,
        ChangeTeam, SetUserStatus, enVars, entryVars, walletVars
  <2>. QED
    BY <2>1, PricesStay DEF PricesKept
<1>. QED
  BY <1>1, <1>2, <1>3, <1>4, <1>5 DEF EntryStep

LEMMA ChargesStart == ASSUME EntryInit PROVE ChargeInv
<1>. SUFFICES ASSUME NEW t \in Tour, NEW u \in User
              PROVE  ChargedOnce(ledger[u]["CASH"], regs[t][u], t)
  BY DEF ChargeInv
<1>1. ledger[u]["CASH"] = <<>> /\ regs[t][u].status = "NONE"
  BY DEF EntryInit, WalletInit, Bucket, NoReg
<1>2. Bill(<<>>, "ENTRY_FEE", t) = {} /\ Bill(<<>>, "ENTRY_REFUND", t) = {}
  BY DEF Bill
<1>3. Cardinality({}) = 0
  BY FS_EmptySet
<1>. PICK row : row = regs[t][u]
  OBVIOUS
<1>4. ChargedOnce(<<>>, row, t)
  <2>1. row.status # "CONFIRMED"
    BY <1>1
  <2>2. /\ Cardinality(Bill(<<>>, "ENTRY_FEE", t)) = 0
        /\ Cardinality(Bill(<<>>, "ENTRY_REFUND", t)) = 0
    BY <1>2, <1>3
  <2>. PICK log : log = <<>>
    OBVIOUS
  <2>3. ChargedOnce(log, row, t)
    BY <2>1, <2>2 DEF ChargedOnce, ChargeNamed
  <2>. QED
    BY <2>3
<1>. QED
  BY <1>1, <1>4

(* Where every refund comes to something, a player is charged once per     *)
(* entry and gets it back once, whatever double clicks, retries after      *)
(* commits nobody heard of, cancellations and new entries do; where one    *)
(* rounds to nothing the code pays none, and there is nothing to count.    *)
THEOREM EntryCharges == ASSUME RefundsCount PROVE EntrySpec => []ChargedOncePerEntry
<1>1. EntryInit => EntryInv /\ ChargeInv
  BY EntryInitial, ChargesStart
<1>2. EntryInv /\ ChargeInv /\ [EntryStep]_enVars => ChargeInv'
  BY StepCharges
<1>3. EntryInv /\ ChargeInv => ChargedOncePerEntry
  <2>. SUFFICES ASSUME ChargeInv, NEW t \in Tour, NEW u \in User
                PROVE  LET row == regs[t][u]
                           open == IF row.status = "CONFIRMED" THEN 1 ELSE 0
                       IN  /\ Cardinality(FeesFor(t, u)) = Cardinality(RefundsFor(t, u)) + open
                           /\ open = 1 => /\ row.fee \in FeesFor(t, u)
                                          /\ \A i \in FeesFor(t, u) : i <= row.fee
                                          /\ ledger[u]["CASH"][row.fee].amount = row.amount
    BY DEF ChargedOncePerEntry
  <2>1. /\ FeesFor(t, u) = Bill(ledger[u]["CASH"], "ENTRY_FEE", t)
        /\ RefundsFor(t, u) = Bill(ledger[u]["CASH"], "ENTRY_REFUND", t)
    BY DEF FeesFor, RefundsFor, EntriesFor, EntriesIn, Bill
  <2>2. ChargedOnce(ledger[u]["CASH"], regs[t][u], t)
    BY DEF ChargeInv
  <2>. QED
    BY <2>1, <2>2 DEF ChargedOnce, ChargeNamed
<1>. QED
  BY <1>1, <1>2, <1>3, EntryInductive, PTL DEF EntrySpec

=============================================================================
