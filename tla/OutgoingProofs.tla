--------------------------- MODULE OutgoingProofs ----------------------------
(***************************************************************************)
(* Proofs about the money that leaves a wallet: withdrawals first, then    *)
(* the transfers between players with the page in front of them, for every *)
(* set of players, rows, keys, amounts and concurrent requests.            *)
(*                                                                         *)
(* Withdrawals: no request overdraws, the money of a row is held once and  *)
(* given back once, answers are true, and the withdrawals implement the    *)
(* abstract holds.  WithdrawalInv says of each ledger list what the        *)
(* entries that name a row are (HoldLog), and of each open insert that     *)
(* nobody else has, or is about to commit, a row of its key                *)
(* (KeysExclusive).                                                        *)
(*                                                                         *)
(* Transfers: the daily limit, the request ids, the answers, and that a    *)
(* form is paid once.  TransferInv says that a request holds the rows of   *)
(* its stage and that what it read under them is still so.                 *)
(***************************************************************************)
EXTENDS WithdrawalHolds, TransferPage, WalletProofs, FiniteSetTheorems

(* The entries of a list that name the row: none when nothing was held;    *)
(* else one debit of what was held and, once it is given back, one credit  *)
(* of the same amount.                                                     *)
HoldLog(log, w, held, back) ==
    /\ \A i \in DOMAIN log : log[i].ref = w =>
          /\ held # 0
          /\ log[i].amount = held
          /\ \/ log[i].type = "WITHDRAWAL" /\ log[i].direction = "DEBIT"
             \/ log[i].type = "WITHDRAWAL_REVERSAL" /\ log[i].direction = "CREDIT" /\ back
    /\ \A i, j \in DOMAIN log :
          log[i].ref = w /\ log[j].ref = w /\ log[i].type = log[j].type => i = j
    /\ held # 0 => \E i \in DOMAIN log : log[i].ref = w /\ log[i].type = "WITHDRAWAL"
    /\ held # 0 /\ back =>
          \E i \in DOMAIN log : log[i].ref = w /\ log[i].type = "WITHDRAWAL_REVERSAL"

\* What a list that belongs to a row says was held.
HeldInLog(log, w) ==
    IF \E i \in DOMAIN log : log[i].ref = w
    THEN log[CHOOSE i \in DOMAIN log : log[i].ref = w].amount ELSE 0

Back(w) == withdrawals[w].status \in {"REJECTED", "CANCELLED"}

\* What the row of w holds from bucket b of u.
Share(u, b, w) == IF WdPresent(w) /\ withdrawals[w].user = u
                  THEN HeldInLog(ledger[u][b], w) ELSE 0

(* No entry names a row that is not there, or sits in the list of another  *)
(* user or of a bucket that cannot be withdrawn from; the two shares of a  *)
(* row add up to its amount.                                               *)
RowHolds(w) ==
    /\ \A u \in User, b \in Bucket :
          HoldLog(ledger[u][b], w, Share(u, b, w), WdPresent(w) /\ Back(w))
    /\ WdPresent(w) =>
          /\ Share(withdrawals[w].user, "CASH", w) + Share(withdrawals[w].user, "WINNING", w)
                = withdrawals[w].amount
          /\ \A b \in Bucket \ {"CASH", "WINNING"} : Share(withdrawals[w].user, b, w) = 0

LedgerHolds == \A w \in WdId : RowHolds(w)

(* A request between its insert and its commit has its key to itself.      *)
KeysExclusive ==
    /\ \A q \in WdReq : wreq[q].stage = "debit" =>
          /\ RowsWithKey(wreq[q].user, wreq[q].key) = {}
          /\ \A p \in WdReq :
                (wreq[p].stage = "debit" /\ wreq[p].key # NoKey
                   /\ wreq[p].key = wreq[q].key /\ wreq[p].user = wreq[q].user) => p = q
    /\ \A v, w \in WdId :
          (WdPresent(v) /\ WdPresent(w) /\ withdrawals[v].key # NoKey
             /\ withdrawals[v].key = withdrawals[w].key
             /\ withdrawals[v].user = withdrawals[w].user) => v = w

WithdrawalInv ==
    /\ WithdrawalTypeOK
    /\ LedgerExplainsBalance
    /\ LedgerHolds
    /\ KeysExclusive
    /\ AnswersAreTrue

-----------------------------------------------------------------------------
(***************************************************************************)
(* Lists of ledger entries.                                                *)
(***************************************************************************)

LEMMA InList == ASSUME NEW S, NEW s \in Seq(S), NEW i \in DOMAIN s PROVE s[i] \in S
  OBVIOUS

\* An entry that does not name the row changes nothing about it.
LEMMA HoldLogOther ==
    ASSUME NEW log \in Seq(Entry), NEW e \in Entry, NEW w, NEW h, NEW back,
           HoldLog(log, w, h, back), e.ref # w
    PROVE  HoldLog(Append(log, e), w, h, back)
<1>. DEFINE new == Append(log, e)
            n == Len(log) + 1
<1>1. /\ DOMAIN new = DOMAIN log \union {n} /\ n \notin DOMAIN log
      /\ new[n] = e /\ \A i \in DOMAIN log : new[i] = log[i]
  BY OneMore
<1>. HIDE DEF new, n
<1>. QED
  BY <1>1 DEF HoldLog, new

\* The debit of a hold that was not there before.
LEMMA HoldLogPlaced ==
    ASSUME NEW log \in Seq(Entry), NEW e \in Entry, NEW w, NEW back, NEW a \in Nat \ {0},
           HoldLog(log, w, 0, back),
           e.ref = w, e.type = "WITHDRAWAL", e.direction = "DEBIT", e.amount = a
    PROVE  HoldLog(Append(log, e), w, a, FALSE)
<1>. DEFINE new == Append(log, e)
            n == Len(log) + 1
<1>1. /\ DOMAIN new = DOMAIN log \union {n} /\ n \notin DOMAIN log
      /\ new[n] = e /\ \A i \in DOMAIN log : new[i] = log[i]
  BY OneMore
<1>2. \A i \in DOMAIN log : log[i].ref # w
  BY DEF HoldLog
<1>. HIDE DEF new, n
<1>. QED
  BY <1>1, <1>2 DEF HoldLog, new

\* The credit that gives a hold back.
LEMMA HoldLogReturned ==
    ASSUME NEW log \in Seq(Entry), NEW e \in Entry, NEW w, NEW h \in Nat \ {0},
           HoldLog(log, w, h, FALSE),
           e.ref = w, e.type = "WITHDRAWAL_REVERSAL", e.direction = "CREDIT", e.amount = h
    PROVE  HoldLog(Append(log, e), w, h, TRUE)
<1>. DEFINE new == Append(log, e)
            n == Len(log) + 1
<1>1. /\ DOMAIN new = DOMAIN log \union {n} /\ n \notin DOMAIN log
      /\ new[n] = e /\ \A i \in DOMAIN log : new[i] = log[i]
  BY OneMore
<1>2. \A i \in DOMAIN log : log[i].ref = w => log[i].type = "WITHDRAWAL"
  BY DEF HoldLog
<1>. HIDE DEF new, n
<1>3. \A i \in DOMAIN new : new[i].ref = w =>
          /\ h # 0 /\ new[i].amount = h
          /\ \/ new[i].type = "WITHDRAWAL" /\ new[i].direction = "DEBIT"
             \/ new[i].type = "WITHDRAWAL_REVERSAL" /\ new[i].direction = "CREDIT"
  BY <1>1, <1>2 DEF HoldLog
<1>4. \A i, j \in DOMAIN new :
          new[i].ref = w /\ new[j].ref = w /\ new[i].type = new[j].type => i = j
  BY <1>1, <1>2 DEF HoldLog
<1>5. \E i \in DOMAIN new : new[i].ref = w /\ new[i].type = "WITHDRAWAL"
  BY <1>1 DEF HoldLog
<1>6. \E i \in DOMAIN new : new[i].ref = w /\ new[i].type = "WITHDRAWAL_REVERSAL"
  BY <1>1
<1>. QED
  BY <1>3, <1>4, <1>5, <1>6 DEF HoldLog, new

\* The list itself says what was held, and that is the amount of the one
\* WITHDRAWAL entry HeldIn reads.
LEMMA HoldLogAmount ==
    ASSUME NEW log, NEW w, NEW h, NEW back, HoldLog(log, w, h, back)
    PROVE  HeldInLog(log, w) = h
<1>1. CASE \E i \in DOMAIN log : log[i].ref = w
  <2>. DEFINE k == CHOOSE i \in DOMAIN log : log[i].ref = w
  <2>1. k \in DOMAIN log /\ log[k].ref = w
    BY <1>1
  <2>. QED
    BY <1>1, <2>1 DEF HoldLog, HeldInLog
<1>2. CASE ~ \E i \in DOMAIN log : log[i].ref = w
  <2>1. h = 0
    BY <1>2 DEF HoldLog
  <2>. QED
    BY <1>2, <2>1 DEF HeldInLog
<1>. QED
  BY <1>1, <1>2

\* What the refinement reads off a list.
LEMMA HoldLogNet ==
    ASSUME NEW log, NEW w, NEW h \in Nat, NEW back \in BOOLEAN, HoldLog(log, w, h, back)
    PROVE  NetDebit(log, w) = IF back THEN 0 ELSE h
<1>. DEFINE debits == Named(log, "DEBIT", w)
            credits == Named(log, "CREDIT", w)
<1>1. \A i \in DOMAIN log : log[i].ref = w =>
          /\ h # 0 /\ log[i].amount = h
          /\ \/ log[i].type = "WITHDRAWAL" /\ log[i].direction = "DEBIT"
             \/ log[i].type = "WITHDRAWAL_REVERSAL" /\ log[i].direction = "CREDIT" /\ back
  BY DEF HoldLog
<1>2. ~ \E dir \in Direction : \E i, j \in Named(log, dir, w) : i # j
  <2>. SUFFICES ASSUME NEW dir \in Direction, NEW i \in Named(log, dir, w),
                       NEW j \in Named(log, dir, w)
                PROVE  i = j
    OBVIOUS
  <2>1. /\ i \in DOMAIN log /\ j \in DOMAIN log /\ log[i].ref = w /\ log[j].ref = w
        /\ log[i].direction = log[j].direction
    BY DEF Named
  <2>2. log[i].type = log[j].type
    BY <1>1, <2>1
  <2>. QED
    BY <2>1, <2>2 DEF HoldLog
<1>3. h = 0 => debits = {} /\ credits = {}
  BY <1>1 DEF Named
<1>4. h # 0 => Sole(log, debits) = h
  <2>. SUFFICES ASSUME h # 0 PROVE Sole(log, debits) = h
    OBVIOUS
  <2>1. debits # {}
    <3>1. PICK i \in DOMAIN log : log[i].ref = w /\ log[i].type = "WITHDRAWAL"
      BY DEF HoldLog
    <3>2. log[i].direction = "DEBIT"
      BY <1>1, <3>1
    <3>. QED
      BY <3>1, <3>2 DEF Named
  <2>2. (CHOOSE i \in debits : TRUE) \in debits
    BY <2>1
  <2>3. \A i \in debits : log[i].amount = h
    BY <1>1 DEF Named
  <2>. QED
    BY <2>1, <2>2, <2>3 DEF Sole
<1>5. ~back => credits = {}
  BY <1>1 DEF Named
<1>6. h # 0 /\ back => Sole(log, credits) = h
  <2>. SUFFICES ASSUME h # 0, back PROVE Sole(log, credits) = h
    OBVIOUS
  <2>1. credits # {}
    <3>1. PICK i \in DOMAIN log : log[i].ref = w /\ log[i].type = "WITHDRAWAL_REVERSAL"
      BY DEF HoldLog
    <3>2. log[i].direction = "CREDIT"
      BY <1>1, <3>1
    <3>. QED
      BY <3>1, <3>2 DEF Named
  <2>2. (CHOOSE i \in credits : TRUE) \in credits
    BY <2>1
  <2>3. \A i \in credits : log[i].amount = h
    BY <1>1 DEF Named
  <2>. QED
    BY <2>1, <2>2, <2>3 DEF Sole
<1>7. NetDebit(log, w) = Sole(log, debits) - Sole(log, credits)
  BY <1>2 DEF NetDebit
<1>8. Sole(log, {}) = 0
  BY DEF Sole
<1>. HIDE DEF debits, credits
<1>. QED
  BY <1>3, <1>4, <1>5, <1>6, <1>7, <1>8

-----------------------------------------------------------------------------
(***************************************************************************)
(* The movements of a withdrawal: at most one in CASH and one in WINNING,  *)
(* each left out when its amount is zero.                                  *)
(***************************************************************************)
\* A list got one more entry, which records movement m for amount a.
Adds(old, new, m, a) ==
    \E e \in Entry :
        /\ e.type = m.type /\ e.ref = m.ref /\ e.amount = a
        /\ e.direction = m.direction
        /\ new = Append(old, e)

LEMMA PostSomeEffect ==
    ASSUME NEW bk, BooksOK(bk), NEW m \in Move, m.amount = 0 \/ CanMove(bk, m)
    PROVE  LET pk == PostSome(bk, m)
           IN  /\ BooksOK(pk)
               /\ BooksExplained(bk) => BooksExplained(pk)
               /\ \A u \in User, b \in Bucket : (u # m.user \/ b # m.bucket \/ m.amount = 0) =>
                     pk.log[u][b] = bk.log[u][b] /\ pk.bal[u][b] = bk.bal[u][b]
               /\ m.amount # 0 => Adds(bk.log[m.user][m.bucket], pk.log[m.user][m.bucket], m, m.amount)
<1>1. CASE m.amount = 0
  BY <1>1 DEF PostSome
<1>2. CASE m.amount # 0
  <2>1. CanMove(bk, m) /\ PostSome(bk, m) = Post(bk, m)
    BY <1>2 DEF PostSome
  <2>2. NewEntry(bk, m).direction = m.direction
    BY DEF NewEntry
  <2>. DEFINE e == NewEntry(bk, m)
  <2>3. /\ e \in Entry /\ e.type = m.type /\ e.ref = m.ref /\ e.amount = m.amount
        /\ e.direction = m.direction
    BY <2>1, <2>2, NewEntryType
  <2>4. /\ BooksOK(Post(bk, m))
        /\ BooksExplained(bk) => BooksExplained(Post(bk, m))
    BY <2>1, PostBooks, PostExplained
  <2>5. /\ Post(bk, m).log[m.user][m.bucket] = Append(bk.log[m.user][m.bucket], e)
        /\ \A u \in User, b \in Bucket : (u # m.user \/ b # m.bucket) =>
              Post(bk, m).log[u][b] = bk.log[u][b] /\ Post(bk, m).bal[u][b] = bk.bal[u][b]
    <3>1. Post(bk, m).log[m.user][m.bucket] = Append(bk.log[m.user][m.bucket], e)
      BY <2>1, PostBooks
    <3>2. ASSUME NEW u \in User, NEW b \in Bucket, u # m.user \/ b # m.bucket
          PROVE  Post(bk, m).log[u][b] = bk.log[u][b] /\ Post(bk, m).bal[u][b] = bk.bal[u][b]
      BY <2>1, <3>2, PostElsewhere
    <3>. QED
      BY <3>1, <3>2
  <2>. HIDE DEF e
  <2>. QED
    BY <1>2, <2>1, <2>3, <2>4, <2>5, ZenonT(60) DEF Adds
<1>. QED
  BY <1>1, <1>2

\* How much of two parts concerns a bucket.
PartIn(b, c, v) == IF b = "CASH" THEN c ELSE IF b = "WINNING" THEN v ELSE 0

LEMMA TwoParts ==
    ASSUME BooksOK(Books), NEW m1 \in Move, NEW m2 \in Move,
           m1.bucket = "CASH", m2.bucket = "WINNING", m1.user = m2.user,
           m1.type = m2.type, m1.ref = m2.ref, m1.direction = m2.direction,
           m1.amount = 0 \/ CanMove(Books, m1), m2.amount = 0 \/ CanMove(Books, m2),
           Commit(PostSome(PostSome(Books, m1), m2))
    PROVE  /\ BooksOK(Books)'
           /\ LedgerExplainsBalance => LedgerExplainsBalance'
           /\ \A u \in User, b \in Bucket :
                 LET part == PartIn(b, m1.amount, m2.amount)
                 IN  /\ (u # m1.user \/ part = 0) => ledger'[u][b] = ledger[u][b]
                     /\ (u = m1.user /\ part # 0) =>
                           Adds(ledger[u][b], ledger'[u][b], m1, part)
<1>. DEFINE p1 == PostSome(Books, m1)
            p2 == PostSome(p1, m2)
<1>1. /\ m1.user \in User /\ m1.bucket \in Bucket /\ m2.bucket \in Bucket
      /\ "CASH" # "WINNING" /\ Books.bal = wallets /\ Books.log = ledger
  BY DEF Move, Books
<1>2. /\ BooksOK(p1)
      /\ BooksExplained(Books) => BooksExplained(p1)
      /\ \A u \in User, b \in Bucket : (u # m1.user \/ b # m1.bucket \/ m1.amount = 0) =>
            p1.log[u][b] = Books.log[u][b] /\ p1.bal[u][b] = Books.bal[u][b]
      /\ m1.amount # 0 =>
            Adds(Books.log[m1.user][m1.bucket], p1.log[m1.user][m1.bucket], m1, m1.amount)
  BY PostSomeEffect
<1>3. m2.amount = 0 \/ CanMove(p1, m2)
  <2>1. p1.bal[m2.user][m2.bucket] = Books.bal[m2.user][m2.bucket]
    BY <1>1, <1>2
  <2>. QED
    BY <2>1 DEF CanMove
<1>. HIDE DEF p1
<1>4. /\ BooksOK(p2)
      /\ BooksExplained(p1) => BooksExplained(p2)
      /\ \A u \in User, b \in Bucket : (u # m2.user \/ b # m2.bucket \/ m2.amount = 0) =>
            p2.log[u][b] = p1.log[u][b] /\ p2.bal[u][b] = p1.bal[u][b]
      /\ m2.amount # 0 =>
            Adds(p1.log[m2.user][m2.bucket], p2.log[m2.user][m2.bucket], m2, m2.amount)
  <2>1. BooksOK(p1)
    BY <1>2
  <2>. QED
    BY <2>1, <1>3, PostSomeEffect
<1>5. wallets' = p2.bal /\ ledger' = p2.log /\ Books' = [bal |-> wallets', log |-> ledger']
  BY DEF Commit, Books, p1
<1>. HIDE DEF p2
<1>6. BooksOK(Books)'
  BY <1>4, <1>5 DEF BooksOK
<1>7. LedgerExplainsBalance => LedgerExplainsBalance'
  <2>1. LedgerExplainsBalance => BooksExplained(p2)
    BY <1>2, <1>4 DEF LedgerExplainsBalance
  <2>2. BooksExplained(p2) => LedgerExplainsBalance'
    BY <1>5 DEF LedgerExplainsBalance, BooksExplained, ClosingBalance
  <2>. QED
    BY <2>1, <2>2
<1>8. \A old, new : Adds(old, new, m2, m2.amount) => Adds(old, new, m1, m2.amount)
  BY DEF Adds
<1>9. ASSUME NEW u \in User, NEW b \in Bucket
      PROVE  LET part == PartIn(b, m1.amount, m2.amount)
             IN  /\ (u # m1.user \/ part = 0) => ledger'[u][b] = ledger[u][b]
                 /\ (u = m1.user /\ part # 0) =>
                       Adds(ledger[u][b], ledger'[u][b], m1, part)
  <2>1. CASE b = "CASH"
    <3>1. PartIn(b, m1.amount, m2.amount) = m1.amount
      BY <2>1 DEF PartIn
    <3>2. ledger'[u][b] = p1.log[u][b]
      BY <2>1, <1>1, <1>4, <1>5
    <3>3. (u # m1.user \/ m1.amount = 0) => p1.log[u][b] = ledger[u][b]
      BY <1>1, <1>2
    <3>4. (u = m1.user /\ m1.amount # 0) => Adds(ledger[u][b], p1.log[u][b], m1, m1.amount)
      BY <2>1, <1>1, <1>2
    <3>. QED
      BY <3>1, <3>2, <3>3, <3>4
  <2>2. CASE b = "WINNING"
    <3>1. PartIn(b, m1.amount, m2.amount) = m2.amount
      BY <2>2, <1>1 DEF PartIn
    <3>2. p1.log[u][b] = ledger[u][b]
      BY <2>2, <1>1, <1>2
    <3>3. (u # m1.user \/ m2.amount = 0) => ledger'[u][b] = p1.log[u][b]
      BY <1>1, <1>4, <1>5
    <3>4. (u = m1.user /\ m2.amount # 0) => Adds(p1.log[u][b], ledger'[u][b], m2, m2.amount)
      BY <2>2, <1>1, <1>4, <1>5
    <3>. QED
      BY <3>1, <3>2, <3>3, <3>4, <1>8
  <2>3. CASE b \notin {"CASH", "WINNING"}
    BY <2>3, <1>1, <1>2, <1>4, <1>5, <1>8 DEF PartIn
  <2>. QED
    BY <2>1, <2>2, <2>3
<1>. QED
  BY <1>6, <1>7, <1>9

-----------------------------------------------------------------------------
(***************************************************************************)
(* How the shares of a row change.                                         *)
(***************************************************************************)
LEMMA WdRowTypes ==
    ASSUME WithdrawalTypeOK, NEW w \in WdId, WdPresent(w)
    PROVE  /\ withdrawals[w] \in WdRow
           /\ withdrawals[w].user \in User
           /\ withdrawals[w].key \in WdKey \union {NoKey}
           /\ withdrawals[w].amount \in WdAmount
           /\ withdrawals[w].amount \in Nat \ {0}
           /\ withdrawals[w].status \in WdStatus
<1>1. withdrawals[w] \in WdRow
  BY DEF WithdrawalTypeOK, WdPresent
<1>. QED
  BY <1>1, WithdrawalAssumption DEF WdRow

LEMMA WdRequestTypes ==
    ASSUME WithdrawalTypeOK, NEW q \in WdReq
    PROVE  /\ wreq[q] \in WdRequest
           /\ wreq[q].user \in User
           /\ wreq[q].key \in WdKey \union {NoKey}
           /\ wreq[q].amount \in WdAmount
           /\ wreq[q].amount \in Nat \ {0}
           /\ wreq[q].cash \in Nat /\ wreq[q].winning \in Nat
<1>1. wreq[q] \in WdRequest
  BY DEF WithdrawalTypeOK
<1>. QED
  BY <1>1, WithdrawalAssumption DEF WdRequest

\* The amounts of ledger entries are positive, so shares are natural numbers.
LEMMA HeldType ==
    ASSUME NEW log \in Seq(Entry), NEW w
    PROVE  HeldInLog(log, w) \in Nat
<1>1. \A i \in DOMAIN log : log[i] \in Entry
  BY InList
<1>2. \A i \in DOMAIN log : log[i].amount \in Nat
  BY <1>1 DEF Entry
<1>. QED
  BY <1>2 DEF HeldInLog

LEMMA ShareType ==
    ASSUME WithdrawalTypeOK, NEW u \in User, NEW b \in Bucket, NEW w
    PROVE  Share(u, b, w) \in Nat
<1>1. ledger[u][b] \in Seq(Entry)
  BY DEF WithdrawalTypeOK, WalletTypeOK, BooksOK, Books
<1>. QED
  BY <1>1, HeldType DEF Share

\* The share a list shows is what the list holds.
LEMMA ShareAfter ==
    ASSUME NEW w, NEW u, NEW b, NEW h, NEW back, HoldLog(ledger'[u][b], w, h, back),
           ~(WdPresent(w)' /\ withdrawals'[w].user = u) => h = 0
    PROVE  Share(u, b, w)' = h
<1>1. HeldInLog(ledger'[u][b], w) = h
  BY HoldLogAmount
<1>. QED
  BY <1>1 DEF Share, HeldInLog

\* A row that keeps its owner, its amount and its entries keeps its shares.
LEMMA RowKept ==
    ASSUME NEW w \in WdId, RowHolds(w), WdPresent(w)' <=> WdPresent(w),
           WdPresent(w) => /\ withdrawals'[w].user = withdrawals[w].user
                           /\ withdrawals'[w].amount = withdrawals[w].amount
                           /\ Back(w)' = Back(w),
           WdPresent(w) => withdrawals[w].user \in User,
           \A u \in User, b \in Bucket :
              HoldLog(ledger'[u][b], w, Share(u, b, w), WdPresent(w) /\ Back(w))
    PROVE  RowHolds(w)' /\ \A u \in User, b \in Bucket : Share(u, b, w)' = Share(u, b, w)
<1>1. ASSUME NEW u \in User, NEW b \in Bucket
      PROVE  Share(u, b, w)' = Share(u, b, w)
  <2>1. ~(WdPresent(w)' /\ withdrawals'[w].user = u) => Share(u, b, w) = 0
    BY DEF Share
  <2>. HIDE DEF Share
  <2>. QED
    BY <2>1, ShareAfter
<1>2. \A u \in User, b \in Bucket :
         HoldLog(ledger'[u][b], w, Share(u, b, w)', (WdPresent(w) /\ Back(w))')
  BY <1>1
<1>3. WdPresent(w)' =>
          /\ Share(withdrawals[w].user, "CASH", w)' + Share(withdrawals[w].user, "WINNING", w)'
                = withdrawals'[w].amount
          /\ \A b \in Bucket \ {"CASH", "WINNING"} : Share(withdrawals[w].user, b, w)' = 0
  <2>1. "CASH" \in Bucket /\ "WINNING" \in Bucket
    BY DEF Bucket
  <2>. QED
    BY <1>1, <2>1 DEF RowHolds
<1>. QED
  BY <1>1, <1>2, <1>3 DEF RowHolds

\* Every row is as it was, and no entry that names one was added.
LEMMA RowsKept ==
    ASSUME WithdrawalTypeOK, LedgerHolds,
           \A w \in WdId :
              /\ WdPresent(w)' <=> WdPresent(w)
              /\ WdPresent(w) => /\ withdrawals'[w].user = withdrawals[w].user
                                 /\ withdrawals'[w].amount = withdrawals[w].amount
                                 /\ Back(w)' = Back(w),
           \A u \in User, b \in Bucket : Unnamed(ledger[u][b], ledger'[u][b])
    PROVE  /\ LedgerHolds'
           /\ \A w \in WdId, u \in User, b \in Bucket : Share(u, b, w)' = Share(u, b, w)
<1>. SUFFICES ASSUME NEW w \in WdId
              PROVE  RowHolds(w)' /\ \A u \in User, b \in Bucket : Share(u, b, w)' = Share(u, b, w)
  BY DEF LedgerHolds
<1>1. RowHolds(w)
  BY DEF LedgerHolds
<1>2. ASSUME NEW u \in User, NEW b \in Bucket
      PROVE  HoldLog(ledger'[u][b], w, Share(u, b, w), WdPresent(w) /\ Back(w))
  <2>1. ledger[u][b] \in Seq(Entry)
    BY DEF WithdrawalTypeOK, WalletTypeOK, BooksOK, Books
  <2>2. HoldLog(ledger[u][b], w, Share(u, b, w), WdPresent(w) /\ Back(w))
    BY <1>1 DEF RowHolds
  <2>3. ASSUME NEW e \in Entry, e.ref = NoRef, ledger'[u][b] = Append(ledger[u][b], e)
        PROVE  HoldLog(ledger'[u][b], w, Share(u, b, w), WdPresent(w) /\ Back(w))
    <3>1. e.ref # w
      BY <2>3, WalletAssumption, WithdrawalAssumption
    <3>. QED
      BY <2>1, <2>2, <2>3, <3>1, HoldLogOther
  <2>. QED
    BY <2>2, <2>3 DEF Unnamed
<1>3. WdPresent(w) => withdrawals[w].user \in User
  BY WdRowTypes
<1>. QED
  BY <1>1, <1>2, <1>3, RowKept

\* The two debits of a request that fit.
LEMMA HoldParts ==
    ASSUME WithdrawalTypeOK, NEW q \in WdReq, NEW w \in WdId, HoldAndInsert(q, w),
           NEW u, u = wreq[q].user, NEW m1, m1 = HoldCash(q, w), NEW m2, m2 = HoldWinning(q, w)
    PROVE  /\ m1 \in Move /\ m2 \in Move
           /\ m1.user = u /\ m2.user = u /\ m1.bucket = "CASH" /\ m2.bucket = "WINNING"
           /\ m1.type = "WITHDRAWAL" /\ m2.type = "WITHDRAWAL" /\ m1.ref = w /\ m2.ref = w
           /\ m1.direction = "DEBIT" /\ m2.direction = "DEBIT"
           /\ m1.amount = CashTake(q) /\ m2.amount = WinningTake(q)
           /\ (m1.amount = 0 \/ CanMove(Books, m1)) /\ (m2.amount = 0 \/ CanMove(Books, m2))
<1>1. u \in User /\ wreq[q].amount \in Nat /\ wreq[q].cash \in Nat /\ wreq[q].winning \in Nat
  BY WdRequestTypes
<1>2. CashTake(q) \in Nat /\ WinningTake(q) \in Nat
  BY <1>1 DEF CashTake, WinningTake, Least
<1>3. wallets[u]["CASH"] >= CashTake(q) /\ wallets[u]["WINNING"] >= WinningTake(q)
  BY DEF HoldAndInsert, Affordable
<1>4. /\ m1.user = u /\ m2.user = u /\ m1.bucket = "CASH" /\ m2.bucket = "WINNING"
      /\ m1.type = "WITHDRAWAL" /\ m2.type = "WITHDRAWAL" /\ m1.ref = w /\ m2.ref = w
      /\ m1.direction = "DEBIT" /\ m2.direction = "DEBIT"
      /\ m1.amount = CashTake(q) /\ m2.amount = WinningTake(q)
  BY DEF HoldCash, HoldWinning, Debit
<1>5. m1 \in Move /\ m2 \in Move
  <2>1. w \in Ref
    BY WithdrawalAssumption
  <2>. QED
    BY <1>1, <1>2, <2>1 DEF HoldCash, HoldWinning, Debit, Move, Bucket, Direction, TxType
<1>6. (m1.amount = 0 \/ CanMove(Books, m1)) /\ (m2.amount = 0 \/ CanMove(Books, m2))
  BY <1>2, <1>3, <1>4 DEF CanMove, Books
<1>. QED
  BY <1>4, <1>5, <1>6

\* The debits of a request are the shares of the row it inserts.
LEMMA HoldPlaced ==
    ASSUME WithdrawalInv, NEW q \in WdReq, NEW w \in WdId, ~WdPresent(w), HoldAndInsert(q, w)
    PROVE  /\ WalletTypeOK' /\ LedgerExplainsBalance'
           /\ withdrawals' \in [WdId -> WdRow \union {NoWd}]
           /\ WdPresent(w)' /\ ~Back(w)'
           /\ withdrawals'[w].user = wreq[q].user
           /\ withdrawals'[w].key = wreq[q].key
           /\ withdrawals'[w].amount = wreq[q].amount
           /\ withdrawals'[w].status = "PENDING"
           /\ \A v \in WdId \ {w} :
                 /\ withdrawals'[v] = withdrawals[v]
                 /\ \A u \in User, b \in Bucket : Share(u, b, v)' = Share(u, b, v)
           /\ LedgerHolds'
<1>. DEFINE m1 == HoldCash(q, w)
            m2 == HoldWinning(q, w)
<1>1. /\ WithdrawalTypeOK /\ WalletTypeOK /\ BooksOK(Books) /\ LedgerHolds
      /\ LedgerExplainsBalance
  BY DEF WithdrawalInv, WithdrawalTypeOK, WalletTypeOK
<1>0. PICK u \in User : u = wreq[q].user
  BY <1>1, WdRequestTypes
<1>2. /\ u = wreq[q].user /\ wreq[q].key \in WdKey \union {NoKey}
      /\ wreq[q].amount \in WdAmount /\ wreq[q].amount \in Nat \ {0}
      /\ wreq[q].cash \in Nat /\ wreq[q].winning \in Nat
  BY <1>1, <1>0, WdRequestTypes
<1>3. CashTake(q) \in Nat /\ WinningTake(q) \in Nat
  BY <1>2 DEF CashTake, WinningTake, Least
<1>4. /\ CashTake(q) + WinningTake(q) = wreq[q].amount
      /\ wallets[u]["CASH"] >= CashTake(q) /\ wallets[u]["WINNING"] >= WinningTake(q)
      /\ Commit(PostSome(PostSome(Books, m1), m2))
      /\ withdrawals' = [withdrawals EXCEPT ![w] =
             [user |-> u, key |-> wreq[q].key, amount |-> wreq[q].amount, status |-> "PENDING"]]
      /\ rowLock' = rowLock
  BY <1>2 DEF HoldAndInsert, Affordable
<1>5. /\ m1 \in Move /\ m2 \in Move
      /\ m1.user = u /\ m2.user = u /\ m1.bucket = "CASH" /\ m2.bucket = "WINNING"
      /\ m1.type = "WITHDRAWAL" /\ m2.type = "WITHDRAWAL" /\ m1.ref = w /\ m2.ref = w
      /\ m1.direction = "DEBIT" /\ m2.direction = "DEBIT"
      /\ m1.amount = CashTake(q) /\ m2.amount = WinningTake(q)
      /\ (m1.amount = 0 \/ CanMove(Books, m1)) /\ (m2.amount = 0 \/ CanMove(Books, m2))
  BY <1>1, <1>2, HoldParts
<1>. HIDE DEF m1, m2
<1>8. /\ BooksOK(Books)'
      /\ LedgerExplainsBalance'
      /\ \A v \in User, b \in Bucket :
            LET part == PartIn(b, m1.amount, m2.amount)
            IN  /\ (v # m1.user \/ part = 0) => ledger'[v][b] = ledger[v][b]
                /\ (v = m1.user /\ part # 0) => Adds(ledger[v][b], ledger'[v][b], m1, part)
  BY <1>1, <1>4, <1>5, TwoParts
<1>9. WalletTypeOK'
  BY <1>1, <1>4, <1>8 DEF WalletTypeOK
<1>10. /\ withdrawals' \in [WdId -> WdRow \union {NoWd}]
       /\ withdrawals'[w] \in WdRow
       /\ withdrawals'[w].user = u /\ withdrawals'[w].key = wreq[q].key
       /\ withdrawals'[w].amount = wreq[q].amount /\ withdrawals'[w].status = "PENDING"
       /\ \A v \in WdId \ {w} : withdrawals'[v] = withdrawals[v]
  BY <1>1, <1>2, <1>4 DEF WithdrawalTypeOK, WdRow, WdStatus
<1>11. WdPresent(w)' /\ ~Back(w)'
  BY <1>10, WithdrawalAssumption DEF WdPresent, Back
<1>12. \* the entries that name w
       ASSUME NEW v \in User, NEW b \in Bucket
       PROVE  LET h == IF v = u THEN PartIn(b, CashTake(q), WinningTake(q)) ELSE 0
              IN  HoldLog(ledger'[v][b], w, h, FALSE) /\ Share(v, b, w)' = h
  <2>. DEFINE h == IF v = u THEN PartIn(b, CashTake(q), WinningTake(q)) ELSE 0
  <2>1. HoldLog(ledger[v][b], w, 0, FALSE) /\ ledger[v][b] \in Seq(Entry)
    BY <1>1 DEF LedgerHolds, RowHolds, Share, BooksOK, Books
  <2>2. h \in Nat
    BY <1>3 DEF PartIn
  <2>3. HoldLog(ledger'[v][b], w, h, FALSE)
    <3>1. CASE h = 0
      <4>1. ledger'[v][b] = ledger[v][b]
        BY <3>1, <1>5, <1>8
      <4>. QED
        BY <2>1, <3>1, <4>1
    <3>2. CASE h # 0
      <4>1. v = u /\ Adds(ledger[v][b], ledger'[v][b], m1, h)
        BY <3>2, <1>5, <1>8
      <4>. HIDE DEF h
      <4>2. PICK e \in Entry : /\ e.type = "WITHDRAWAL" /\ e.ref = w /\ e.amount = h
                               /\ e.direction = "DEBIT"
                               /\ ledger'[v][b] = Append(ledger[v][b], e)
        BY <4>1, <1>5 DEF Adds
      <4>. QED
        BY <2>1, <2>2, <3>2, <4>2, HoldLogPlaced
    <3>. QED
      BY <3>1, <3>2
  <2>4. ~(WdPresent(w)' /\ withdrawals'[w].user = v) => h = 0
    BY <1>10, <1>11
  <2>. HIDE DEF h
  <2>5. Share(v, b, w)' = h
    BY <2>3, <2>4, ShareAfter
  <2>. QED
    BY <2>3, <2>5 DEF h
<1>13. RowHolds(w)'
  <2>1. \A v \in User, b \in Bucket :
           HoldLog(ledger'[v][b], w, Share(v, b, w)', (WdPresent(w) /\ Back(w))')
    BY <1>11, <1>12
  <2>2. /\ Share(u, "CASH", w)' = CashTake(q) /\ Share(u, "WINNING", w)' = WinningTake(q)
        /\ \A b \in Bucket \ {"CASH", "WINNING"} : Share(u, b, w)' = 0
    BY <1>2, <1>12 DEF PartIn, Bucket
  <2>. QED
    BY <1>4, <1>10, <2>1, <2>2 DEF RowHolds
<1>14. \* the other rows
       ASSUME NEW v \in WdId \ {w}
       PROVE  RowHolds(v)' /\ \A x \in User, b \in Bucket : Share(x, b, v)' = Share(x, b, v)
  <2>1. RowHolds(v) /\ (WdPresent(v) => withdrawals[v].user \in User)
    BY <1>1, WdRowTypes DEF LedgerHolds
  <2>2. ASSUME NEW x \in User, NEW b \in Bucket
        PROVE  HoldLog(ledger'[x][b], v, Share(x, b, v), WdPresent(v) /\ Back(v))
    <3>1. /\ HoldLog(ledger[x][b], v, Share(x, b, v), WdPresent(v) /\ Back(v))
          /\ ledger[x][b] \in Seq(Entry)
      BY <1>1, <2>1 DEF RowHolds, BooksOK, Books
    <3>2. ledger'[x][b] = ledger[x][b] \/ \E a : Adds(ledger[x][b], ledger'[x][b], m1, a)
      BY <1>8
    <3>3. ASSUME NEW e \in Entry, e.ref = w, ledger'[x][b] = Append(ledger[x][b], e)
          PROVE  HoldLog(ledger'[x][b], v, Share(x, b, v), WdPresent(v) /\ Back(v))
      BY <3>1, <3>3, HoldLogOther
    <3>. QED
      BY <1>5, <3>1, <3>2, <3>3 DEF Adds
  <2>. QED
    BY <1>10, <2>1, <2>2, RowKept DEF WdPresent, Back
<1>. QED
  BY <1>2, <1>8, <1>9, <1>10, <1>11, <1>13, <1>14 DEF LedgerHolds

\* HeldIn reads the share of the row.
LEMMA HeldIsShare ==
    ASSUME WithdrawalTypeOK, LedgerHolds, NEW w \in WdId, WdPresent(w), NEW b \in Bucket
    PROVE  HeldIn(w, b) = Share(withdrawals[w].user, b, w)
<1>. DEFINE u == withdrawals[w].user
            log == ledger[u][b]
            h == Share(u, b, w)
            held == EntriesFor(u, b, "WITHDRAWAL", w)
<1>1. u \in User
  BY WdRowTypes
<1>2. HoldLog(log, w, h, WdPresent(w) /\ Back(w))
  BY <1>1 DEF LedgerHolds, RowHolds
<1>3. held = {i \in DOMAIN log : log[i].type = "WITHDRAWAL" /\ log[i].ref = w}
  BY DEF EntriesFor, EntriesIn
<1>4. HeldIn(w, b) = IF held = {} THEN 0 ELSE log[CHOOSE i \in held : TRUE].amount
  BY DEF HeldIn
<1>. HIDE DEF log, h, held
<1>5. CASE held = {}
  BY <1>2, <1>3, <1>4, <1>5 DEF HoldLog, h
<1>6. CASE held # {}
  <2>1. (CHOOSE i \in held : TRUE) \in held
    BY <1>6
  <2>. QED
    BY <1>2, <1>3, <1>4, <1>6, <2>1 DEF HoldLog, h
<1>. QED
  BY <1>5, <1>6

\* What goes back to a bucket is its share: the whole amount never goes to
\* WINNING instead, since the shares of a row are not both zero.
LEMMA ReturnIsShare ==
    ASSUME WithdrawalTypeOK, LedgerHolds, NEW w \in WdId, WdPresent(w),
           NEW b \in {"CASH", "WINNING"}
    PROVE  /\ ReturnTo(w, b) =
                Credit(withdrawals[w].user, b, Share(withdrawals[w].user, b, w),
                       "WITHDRAWAL_REVERSAL", w)
           /\ ReturnTo(w, b) \in Move
           /\ \A bk : ReturnTo(w, b).amount = 0 \/ CanMove(bk, ReturnTo(w, b))
<1>. DEFINE u == withdrawals[w].user
<1>1. /\ "CASH" \in Bucket /\ "WINNING" \in Bucket /\ u \in User
      /\ withdrawals[w].amount \in Nat \ {0}
  BY WdRowTypes DEF Bucket
<1>2. HeldIn(w, "CASH") = Share(u, "CASH", w) /\ HeldIn(w, "WINNING") = Share(u, "WINNING", w)
  BY <1>1, HeldIsShare
<1>3. Share(u, "CASH", w) + Share(u, "WINNING", w) = withdrawals[w].amount
  BY DEF LedgerHolds, RowHolds
<1>4. Share(u, "CASH", w) \in Nat /\ Share(u, "WINNING", w) \in Nat
  BY <1>1, ShareType
<1>5. ReturnTo(w, b) = Credit(u, b, HeldIn(w, b), "WITHDRAWAL_REVERSAL", w)
  <2>1. ~(HeldIn(w, "CASH") = 0 /\ HeldIn(w, "WINNING") = 0)
    BY <1>1, <1>2, <1>3, <1>4
  <2>. QED
    BY <2>1 DEF ReturnTo
<1>6. ReturnTo(w, b) = Credit(u, b, Share(u, b, w), "WITHDRAWAL_REVERSAL", w)
  BY <1>2, <1>5
<1>7. Share(u, b, w) \in Nat /\ w \in Ref
  BY <1>4, WithdrawalAssumption
<1>. HIDE DEF u
<1>8. ReturnTo(w, b) \in Move
  BY <1>1, <1>6, <1>7 DEF Credit, Move, Bucket, Direction, TxType
<1>9. \A bk : ReturnTo(w, b).amount = 0 \/ CanMove(bk, ReturnTo(w, b))
  BY <1>6, <1>7 DEF Credit, CanMove
<1>. QED
  BY <1>6, <1>8, <1>9 DEF u

\* A rejection or cancellation of a row that was not returned gives every
\* share back to the bucket it came from.
LEMMA HoldReturned ==
    ASSUME WithdrawalInv, NEW w \in WdId, WdPresent(w), ~Back(w), ReverseHold(w),
           NEW status \in {"REJECTED", "CANCELLED"},
           withdrawals' = [withdrawals EXCEPT ![w].status = status]
    PROVE  /\ WalletTypeOK' /\ LedgerExplainsBalance'
           /\ withdrawals' \in [WdId -> WdRow \union {NoWd}]
           /\ LedgerHolds'
           /\ \A v \in WdId, u \in User, b \in Bucket : Share(u, b, v)' = Share(u, b, v)
<1>. DEFINE m1 == ReturnTo(w, "CASH")
            m2 == ReturnTo(w, "WINNING")
<1>1. /\ WithdrawalTypeOK /\ WalletTypeOK /\ BooksOK(Books) /\ LedgerHolds
      /\ LedgerExplainsBalance
  BY DEF WithdrawalInv, WithdrawalTypeOK, WalletTypeOK
<1>2. PICK u \in User : u = withdrawals[w].user
  BY <1>1, WdRowTypes
<1>3. /\ m1 = Credit(u, "CASH", Share(u, "CASH", w), "WITHDRAWAL_REVERSAL", w)
      /\ m2 = Credit(u, "WINNING", Share(u, "WINNING", w), "WITHDRAWAL_REVERSAL", w)
      /\ m1 \in Move /\ m2 \in Move
      /\ m1.amount = 0 \/ CanMove(Books, m1)
      /\ m2.amount = 0 \/ CanMove(Books, m2)
  BY <1>1, <1>2, ReturnIsShare
<1>4. /\ Commit(PostSome(PostSome(Books, m1), m2)) /\ rowLock' = rowLock
  BY DEF ReverseHold
<1>. HIDE DEF m1, m2
<1>5. /\ m1.user = u /\ m2.user = u /\ m1.bucket = "CASH" /\ m2.bucket = "WINNING"
      /\ m1.type = "WITHDRAWAL_REVERSAL" /\ m2.type = "WITHDRAWAL_REVERSAL"
      /\ m1.ref = w /\ m2.ref = w /\ m1.direction = "CREDIT" /\ m2.direction = "CREDIT"
      /\ m1.amount = Share(u, "CASH", w) /\ m2.amount = Share(u, "WINNING", w)
  BY <1>3 DEF Credit
<1>6. /\ BooksOK(Books)'
      /\ LedgerExplainsBalance'
      /\ \A v \in User, b \in Bucket :
            LET part == PartIn(b, m1.amount, m2.amount)
            IN  /\ (v # m1.user \/ part = 0) => ledger'[v][b] = ledger[v][b]
                /\ (v = m1.user /\ part # 0) => Adds(ledger[v][b], ledger'[v][b], m1, part)
  BY <1>1, <1>3, <1>4, <1>5, TwoParts
<1>7. WalletTypeOK'
  BY <1>1, <1>4, <1>6 DEF WalletTypeOK
<1>8. withdrawals[w] \in WdRow
  BY <1>1, WdRowTypes
<1>9. /\ withdrawals' \in [WdId -> WdRow \union {NoWd}]
      /\ withdrawals'[w] = [withdrawals[w] EXCEPT !.status = status]
      /\ withdrawals'[w] \in WdRow
      /\ \A v \in WdId \ {w} : withdrawals'[v] = withdrawals[v]
  BY <1>1, <1>8 DEF WithdrawalTypeOK, WdRow, WdStatus
<1>10. /\ WdPresent(w)' /\ Back(w)'
       /\ withdrawals'[w].user = u /\ withdrawals'[w].amount = withdrawals[w].amount
  BY <1>2, <1>8, <1>9, WithdrawalAssumption DEF WdPresent, Back, WdRow
<1>11. \* the entries that name w
       ASSUME NEW v \in User, NEW b \in Bucket
       PROVE  /\ HoldLog(ledger'[v][b], w, Share(v, b, w), TRUE)
              /\ Share(v, b, w)' = Share(v, b, w)
  <2>. DEFINE h == Share(v, b, w)
  <2>1. /\ HoldLog(ledger[v][b], w, h, FALSE) /\ ledger[v][b] \in Seq(Entry)
        /\ h \in Nat
    BY <1>1, ShareType DEF LedgerHolds, RowHolds, BooksOK, Books
  <2>2. h = IF v = u THEN PartIn(b, m1.amount, m2.amount) ELSE 0
    <3>1. v # u => h = 0
      BY <1>2 DEF Share
    <3>2. v = u /\ b \notin {"CASH", "WINNING"} => h = 0
      BY <1>1, <1>2 DEF LedgerHolds, RowHolds
    <3>. QED
      BY <1>5, <3>1, <3>2 DEF PartIn
  <2>. HIDE DEF h
  <2>3. HoldLog(ledger'[v][b], w, h, TRUE)
    <3>1. CASE h = 0
      <4>1. ledger'[v][b] = ledger[v][b]
        BY <2>2, <3>1, <1>5, <1>6
      <4>. QED
        BY <2>1, <3>1, <4>1 DEF HoldLog
    <3>2. CASE h # 0
      <4>1. v = u /\ Adds(ledger[v][b], ledger'[v][b], m1, h)
        BY <2>2, <3>2, <1>5, <1>6
      <4>2. PICK e \in Entry : /\ e.type = "WITHDRAWAL_REVERSAL" /\ e.ref = w /\ e.amount = h
                               /\ e.direction = "CREDIT"
                               /\ ledger'[v][b] = Append(ledger[v][b], e)
        BY <4>1, <1>5 DEF Adds
      <4>. QED
        BY <2>1, <3>2, <4>2, HoldLogReturned
    <3>. QED
      BY <3>1, <3>2
  <2>4. ~(WdPresent(w)' /\ withdrawals'[w].user = v) => h = 0
    BY <1>10, <2>2
  <2>5. Share(v, b, w)' = h
    BY <2>3, <2>4, ShareAfter
  <2>. QED
    BY <2>3, <2>5 DEF h
<1>12. RowHolds(w)'
  <2>1. \A v \in User, b \in Bucket :
           HoldLog(ledger'[v][b], w, Share(v, b, w)', (WdPresent(w) /\ Back(w))')
    BY <1>10, <1>11
  <2>2. /\ Share(u, "CASH", w) + Share(u, "WINNING", w) = withdrawals[w].amount
        /\ \A b \in Bucket \ {"CASH", "WINNING"} : Share(u, b, w) = 0
    BY <1>1, <1>2 DEF LedgerHolds, RowHolds
  <2>3. /\ Share(u, "CASH", w)' + Share(u, "WINNING", w)' = withdrawals[w].amount
        /\ \A b \in Bucket \ {"CASH", "WINNING"} : Share(u, b, w)' = 0
    BY <1>11, <2>2 DEF Bucket
  <2>. QED
    BY <1>10, <2>1, <2>3 DEF RowHolds
<1>13. \* the other rows
       ASSUME NEW v \in WdId \ {w}
       PROVE  RowHolds(v)' /\ \A x \in User, b \in Bucket : Share(x, b, v)' = Share(x, b, v)
  <2>1. RowHolds(v) /\ (WdPresent(v) => withdrawals[v].user \in User)
    BY <1>1, WdRowTypes DEF LedgerHolds
  <2>2. ASSUME NEW x \in User, NEW b \in Bucket
        PROVE  HoldLog(ledger'[x][b], v, Share(x, b, v), WdPresent(v) /\ Back(v))
    <3>1. /\ HoldLog(ledger[x][b], v, Share(x, b, v), WdPresent(v) /\ Back(v))
          /\ ledger[x][b] \in Seq(Entry)
      BY <1>1, <2>1 DEF RowHolds, BooksOK, Books
    <3>2. ledger'[x][b] = ledger[x][b] \/ \E a : Adds(ledger[x][b], ledger'[x][b], m1, a)
      BY <1>6
    <3>3. ASSUME NEW e \in Entry, e.ref = w, ledger'[x][b] = Append(ledger[x][b], e)
          PROVE  HoldLog(ledger'[x][b], v, Share(x, b, v), WdPresent(v) /\ Back(v))
      BY <3>1, <3>3, HoldLogOther
    <3>. QED
      BY <1>5, <3>1, <3>2, <3>3 DEF Adds
  <2>. QED
    BY <1>9, <2>1, <2>2, RowKept DEF WdPresent, Back
<1>. QED
  BY <1>6, <1>7, <1>9, <1>11, <1>12, <1>13 DEF LedgerHolds

-----------------------------------------------------------------------------
(***************************************************************************)
(* Requests: their keys and their answers.                                 *)
(***************************************************************************)
\* A row of a request's user and key.
RowOf(q, w) ==
    WdPresent(w) /\ withdrawals[w].user = wreq[q].user /\ withdrawals[w].key = wreq[q].key

WdAnswerTrue(q) ==
    /\ wreq[q].answer \in {"created", "replayed"} =>
          \E w \in WdId : RowOf(q, w) /\ withdrawals[w].amount = wreq[q].amount
    /\ wreq[q].answer = "conflict" =>
          \E w \in WdId : RowOf(q, w) /\ withdrawals[w].amount # wreq[q].amount

LEMMA AnswersOneByOne == AnswersAreTrue <=> \A q \in WdReq : WdAnswerTrue(q)
  BY DEF AnswersAreTrue, WdAnswerTrue, RowOf

\* One request moves on.
RequestMoves(q) ==
    /\ wreq' \in [WdReq -> WdRequest]
    /\ \A p \in WdReq \ {q} : wreq'[p] = wreq[p]
    /\ wreq'[q].user = wreq[q].user
    /\ wreq'[q].key = wreq[q].key
    /\ wreq'[q].amount = wreq[q].amount

\* A request that moves on without a commit: it enters its transaction only
\* when its key is free, and an answer it gives is about a committed row.
LEMMA WdRequestAlone ==
    ASSUME WithdrawalInv, NEW q \in WdReq, UNCHANGED <<walletVars, withdrawals>>,
           RequestMoves(q),
           wreq'[q].stage = "debit" =>
              RowsWithKey(wreq[q].user, wreq[q].key) = {} /\ ~KeyHeld(q),
           wreq'[q].answer = wreq[q].answer \/ WdAnswerTrue(q)'
    PROVE  WithdrawalInv'
<1>1. /\ WithdrawalTypeOK /\ LedgerExplainsBalance /\ LedgerHolds /\ KeysExclusive
      /\ \A p \in WdReq : WdAnswerTrue(p)
  BY AnswersOneByOne DEF WithdrawalInv
<1>2. /\ withdrawals' = withdrawals /\ ledger' = ledger /\ wallets' = wallets
      /\ rowLock' = rowLock
  BY DEF walletVars
<1>3. WithdrawalTypeOK' /\ LedgerExplainsBalance'
  <2>1. BooksOK(Books)' /\ LedgerExplainsBalance'
    BY <1>1, <1>2
       DEF WithdrawalTypeOK, WalletTypeOK, BooksOK, Books, LedgerExplainsBalance,
           BooksExplained, ClosingBalance
  <2>. QED
    BY <2>1, <1>1, <1>2 DEF WithdrawalTypeOK, WalletTypeOK, RequestMoves
<1>4. LedgerHolds'
  BY <1>1, <1>2 DEF LedgerHolds, RowHolds, Share, WdPresent, Back
<1>5. KeysExclusive'
  <2>1. \A u, k : RowsWithKey(u, k)' = RowsWithKey(u, k)
    BY <1>2 DEF RowsWithKey, WdPresent
  <2>2. ASSUME NEW p \in WdReq, wreq'[p].stage = "debit"
        PROVE  RowsWithKey(wreq[p].user, wreq[p].key)' = {}
    BY <2>1, <2>2, <1>1 DEF RequestMoves, KeysExclusive
  <2>3. ASSUME NEW o \in WdReq, NEW p \in WdReq,
               wreq'[o].stage = "debit", wreq'[p].stage = "debit", wreq'[o].key # NoKey,
               wreq'[o].key = wreq'[p].key, wreq'[o].user = wreq'[p].user
        PROVE  o = p
    <3>1. /\ wreq'[o].key = wreq[o].key /\ wreq'[o].user = wreq[o].user
          /\ wreq'[p].key = wreq[p].key /\ wreq'[p].user = wreq[p].user
      BY DEF RequestMoves
    <3>2. CASE o # q /\ p # q
      BY <2>3, <3>1, <3>2, <1>1, ZenonT(60) DEF RequestMoves, KeysExclusive
    <3>3. CASE o = q /\ p # q
      BY <2>3, <3>1, <3>3 DEF RequestMoves, KeyHeld
    <3>4. CASE p = q /\ o # q
      BY <2>3, <3>1, <3>4 DEF RequestMoves, KeyHeld
    <3>. QED
      BY <3>2, <3>3, <3>4
  <2>4. \A v, w \in WdId :
          (WdPresent(v) /\ WdPresent(w) /\ withdrawals[v].key # NoKey
             /\ withdrawals[v].key = withdrawals[w].key
             /\ withdrawals[v].user = withdrawals[w].user)' => v = w
    BY <1>1, <1>2 DEF KeysExclusive, WdPresent
  <2>. QED
    BY <2>2, <2>3, <2>4 DEF KeysExclusive
<1>6. \A p \in WdReq : WdAnswerTrue(p)'
  BY <1>1, <1>2 DEF RequestMoves, WdAnswerTrue, RowOf, WdPresent
<1>7. AnswersAreTrue'
  BY <1>6 DEF AnswersAreTrue, WdAnswerTrue, RowOf
<1>. QED
  BY <1>3, <1>4, <1>5, <1>7 DEF WithdrawalInv

\* The commit of a request: nobody else has its key, so its row is the only
\* one of that key.
LEMMA RequestCommits ==
    ASSUME WithdrawalInv, NEW q \in WdReq, NEW w \in WdId, ~WdPresent(w),
           wreq[q].stage = "debit", HoldAndInsert(q, w), RequestMoves(q),
           wreq'[q].stage # "debit",
           wreq'[q].answer = wreq[q].answer \/ wreq'[q].answer \in {"created", "busy"}
    PROVE  WithdrawalInv'
<1>1. /\ WithdrawalTypeOK /\ KeysExclusive /\ \A p \in WdReq : WdAnswerTrue(p)
  BY AnswersOneByOne DEF WithdrawalInv
<1>2. /\ WalletTypeOK' /\ LedgerExplainsBalance' /\ LedgerHolds'
      /\ withdrawals' \in [WdId -> WdRow \union {NoWd}]
      /\ WdPresent(w)'
      /\ withdrawals'[w].user = wreq[q].user
      /\ withdrawals'[w].key = wreq[q].key
      /\ withdrawals'[w].amount = wreq[q].amount
      /\ \A v \in WdId \ {w} : withdrawals'[v] = withdrawals[v]
  BY HoldPlaced
<1>3. RowsWithKey(wreq[q].user, wreq[q].key) = {}
  BY <1>1 DEF KeysExclusive
<1>4. \A v \in WdId \ {w} : WdPresent(v)' <=> WdPresent(v)
  BY <1>2 DEF WdPresent
<1>5. KeysExclusive'
  <2>1. ASSUME NEW p \in WdReq, wreq'[p].stage = "debit"
        PROVE  RowsWithKey(wreq[p].user, wreq[p].key)' = {}
    <3>1. p # q /\ wreq'[p] = wreq[p] /\ wreq[p].stage = "debit"
      BY <2>1 DEF RequestMoves
    <3>2. RowsWithKey(wreq[p].user, wreq[p].key) = {}
      BY <3>1, <1>1 DEF KeysExclusive
    <3>3. wreq[p].key # NoKey => ~(wreq[p].key = wreq[q].key /\ wreq[p].user = wreq[q].user)
      BY <3>1, <1>1 DEF KeysExclusive
    <3>. QED
      BY <3>1, <3>2, <3>3, <1>2, <1>4 DEF RowsWithKey
  <2>2. ASSUME NEW o \in WdReq, NEW p \in WdReq,
               wreq'[o].stage = "debit", wreq'[p].stage = "debit", wreq'[o].key # NoKey,
               wreq'[o].key = wreq'[p].key, wreq'[o].user = wreq'[p].user
        PROVE  o = p
    <3>1. o # q /\ p # q /\ wreq'[o] = wreq[o] /\ wreq'[p] = wreq[p]
      BY <2>2 DEF RequestMoves
    <3>. QED
      BY <2>2, <3>1, <1>1 DEF KeysExclusive
  <2>3. ASSUME NEW x \in WdId, NEW y \in WdId, WdPresent(x)', WdPresent(y)',
               withdrawals'[x].key # NoKey, withdrawals'[x].key = withdrawals'[y].key,
               withdrawals'[x].user = withdrawals'[y].user
        PROVE  x = y
    <3>1. CASE x # w /\ y # w
      BY <2>3, <3>1, <1>1, <1>2, <1>4 DEF KeysExclusive
    <3>2. CASE x = w /\ y # w
      BY <2>3, <3>2, <1>2, <1>3, <1>4 DEF RowsWithKey
    <3>3. CASE x # w /\ y = w
      BY <2>3, <3>3, <1>2, <1>3, <1>4 DEF RowsWithKey
    <3>. QED
      BY <3>1, <3>2, <3>3
  <2>. QED
    BY <2>1, <2>2, <2>3 DEF KeysExclusive
<1>6. ASSUME NEW p \in WdReq PROVE WdAnswerTrue(p)'
  <2>1. /\ wreq'[p].user = wreq[p].user /\ wreq'[p].key = wreq[p].key
        /\ wreq'[p].amount = wreq[p].amount
    BY DEF RequestMoves
  <2>2. \A v \in WdId : RowOf(p, v) =>
           RowOf(p, v)' /\ withdrawals'[v].amount = withdrawals[v].amount
    <3>1. \A v \in WdId : WdPresent(v) => v # w
      OBVIOUS
    <3>. QED
      BY <1>2, <1>4, <2>1, <3>1 DEF RowOf
  <2>3. CASE wreq'[p].answer = wreq[p].answer
    BY <2>1, <2>2, <2>3, <1>1 DEF WdAnswerTrue
  <2>4. CASE p = q /\ wreq'[p].answer \in {"created", "busy"}
    <3>1. RowOf(q, w)' /\ withdrawals'[w].amount = wreq'[q].amount
      BY <1>2, <2>1, <2>4 DEF RowOf
    <3>. QED
      BY <2>4, <3>1 DEF WdAnswerTrue
  <2>. QED
    BY <2>3, <2>4 DEF RequestMoves
<1>7. AnswersAreTrue'
  BY <1>6 DEF AnswersAreTrue, WdAnswerTrue, RowOf
<1>. QED
  BY <1>2, <1>5, <1>7 DEF WithdrawalInv, WithdrawalTypeOK, RequestMoves

-----------------------------------------------------------------------------
(***************************************************************************)
(* The invariant holds at the start and survives every step.               *)
(***************************************************************************)
\* A request that ends, or retries, keeps its user, key and amount.
LEMMA FinishMoves ==
    ASSUME WithdrawalTypeOK, NEW q \in WdReq, NEW answer \in Answer, Finish(q, answer)
    PROVE  RequestMoves(q) /\ wreq'[q].stage = "done" /\ wreq'[q].answer = answer
<1>1. wreq \in [WdReq -> WdRequest] /\ wreq[q] \in WdRequest
  BY DEF WithdrawalTypeOK
<1>2. wreq' = [wreq EXCEPT ![q].stage = "done", ![q].answer = answer]
  BY DEF Finish
<1>. QED
  BY <1>1, <1>2 DEF RequestMoves, WdRequest

LEMMA WdRetryMoves ==
    ASSUME WithdrawalTypeOK, NEW q \in WdReq, RetryOrGiveUp(q)
    PROVE  /\ RequestMoves(q) /\ wreq'[q].stage # "debit"
           /\ wreq'[q].answer = wreq[q].answer \/ wreq'[q].answer = "busy"
<1>1. wreq \in [WdReq -> WdRequest] /\ wreq[q] \in WdRequest
  BY DEF WithdrawalTypeOK
<1>2. CASE wreq[q].key # NoKey /\ wreq[q].attempt < MaxAttempts
  <2>1. wreq' = [wreq EXCEPT ![q].stage = "lookup", ![q].attempt = @ + 1,
                             ![q].cash = 0, ![q].winning = 0]
    BY <1>2 DEF RetryOrGiveUp
  <2>2. wreq[q].attempt + 1 \in 0..MaxAttempts
    BY <1>1, <1>2, WithdrawalAssumption DEF WdRequest
  <2>. QED
    BY <1>1, <2>1, <2>2 DEF RequestMoves, WdRequest
<1>3. CASE ~(wreq[q].key # NoKey /\ wreq[q].attempt < MaxAttempts)
  <2>1. Finish(q, "busy")
    BY <1>3 DEF RetryOrGiveUp
  <2>. QED
    BY <2>1, FinishMoves DEF Answer
<1>. QED
  BY <1>2, <1>3

\* A key that is bound to a row answers truthfully.
LEMMA ReplayTrue ==
    ASSUME WithdrawalInv, NEW q \in WdReq, UNCHANGED <<walletVars, withdrawals>>,
           NEW w \in RowsWithKey(wreq[q].user, wreq[q].key), Replay(q, w)
    PROVE  WithdrawalInv'
<1>. DEFINE answer == IF withdrawals[w].amount = wreq[q].amount THEN "replayed" ELSE "conflict"
<1>1. WithdrawalTypeOK /\ answer \in Answer /\ Finish(q, answer)
  BY DEF WithdrawalInv, Answer, Replay
<1>2. RequestMoves(q) /\ wreq'[q].stage = "done" /\ wreq'[q].answer = answer
  BY <1>1, FinishMoves
<1>3. /\ w \in WdId /\ WdPresent(w) /\ withdrawals[w].user = wreq[q].user
      /\ withdrawals[w].key = wreq[q].key
  BY DEF RowsWithKey
<1>4. RowOf(q, w)' /\ withdrawals'[w].amount = withdrawals[w].amount
  BY <1>2, <1>3 DEF RequestMoves, RowOf, WdPresent
<1>5. WdAnswerTrue(q)'
  BY <1>2, <1>3, <1>4 DEF RequestMoves, WdAnswerTrue
<1>. QED
  BY <1>2, <1>5, WdRequestAlone

LEMMA RequestSteps ==
    ASSUME WithdrawalInv, NEW q \in WdReq
    PROVE  /\ SubmitWithdrawal(q) => WithdrawalInv'
           /\ RequestStep(q) => WithdrawalInv'
           /\ CommitResponseLost(q) => WithdrawalInv'
           /\ AttemptFails(q) => WithdrawalInv'
           /\ RequestDies(q) => WithdrawalInv'
<1>. WithdrawalTypeOK /\ wreq \in [WdReq -> WdRequest] /\ wreq[q] \in WdRequest
  BY DEF WithdrawalInv, WithdrawalTypeOK
<1>1. ASSUME SubmitWithdrawal(q) PROVE WithdrawalInv'
  <2>1. /\ wreq' = [wreq EXCEPT ![q].stage = "lookup", ![q].attempt = 1]
        /\ UNCHANGED <<walletVars, withdrawals>>
    BY <1>1 DEF SubmitWithdrawal
  <2>2. 1 \in 0..MaxAttempts
    BY WithdrawalAssumption
  <2>3. RequestMoves(q) /\ wreq'[q].stage = "lookup" /\ wreq'[q].answer = wreq[q].answer
    BY <2>1, <2>2 DEF RequestMoves, WdRequest
  <2>. QED
    BY <2>1, <2>3, WdRequestAlone
<1>2. ASSUME LookupKey(q) PROVE WithdrawalInv'
  <2>1. UNCHANGED <<walletVars, withdrawals>>
    BY <1>2 DEF LookupKey
  <2>2. CASE wreq' = [wreq EXCEPT ![q].stage = "insert"]
    <3>1. RequestMoves(q) /\ wreq'[q].stage = "insert" /\ wreq'[q].answer = wreq[q].answer
      BY <2>2 DEF RequestMoves, WdRequest
    <3>. QED
      BY <2>1, <3>1, WdRequestAlone
  <2>3. ASSUME NEW w \in RowsWithKey(wreq[q].user, wreq[q].key), Replay(q, w)
        PROVE  WithdrawalInv'
    BY <2>1, <2>3, ReplayTrue
  <2>. QED
    BY <1>2, <2>2, <2>3 DEF LookupKey
<1>3. ASSUME InsertAndRead(q) PROVE WithdrawalInv'
  <2>1. UNCHANGED <<walletVars, withdrawals>> /\ ~KeyHeld(q)
    BY <1>3 DEF InsertAndRead
  <2>2. ASSUME RowsWithKey(wreq[q].user, wreq[q].key) = {},
               wreq' = [wreq EXCEPT ![q].stage = "debit",
                                    ![q].cash = wallets[wreq[q].user]["CASH"],
                                    ![q].winning = wallets[wreq[q].user]["WINNING"]]
        PROVE  WithdrawalInv'
    <3>1. wallets[wreq[q].user]["CASH"] \in Nat /\ wallets[wreq[q].user]["WINNING"] \in Nat
      BY WdRequestTypes DEF WithdrawalTypeOK, WalletTypeOK, BooksOK, Books, Balances, Bucket
    <3>2. RequestMoves(q) /\ wreq'[q].answer = wreq[q].answer
      BY <2>2, <3>1 DEF RequestMoves, WdRequest
    <3>. QED
      BY <2>1, <2>2, <3>2, WdRequestAlone
  <2>3. ASSUME NEW w \in RowsWithKey(wreq[q].user, wreq[q].key), Replay(q, w)
        PROVE  WithdrawalInv'
    BY <2>1, <2>3, ReplayTrue
  <2>. QED
    BY <1>3, <2>2, <2>3 DEF InsertAndRead
<1>4. ASSUME DebitAndCommit(q) PROVE WithdrawalInv'
  <2>1. PICK w \in WdId : ~WdPresent(w) /\ HoldAndInsert(q, w) /\ Finish(q, "created")
    BY <1>4 DEF DebitAndCommit
  <2>2. RequestMoves(q) /\ wreq'[q].stage = "done" /\ wreq'[q].answer = "created"
    BY <2>1, FinishMoves DEF Answer
  <2>. QED
    BY <2>1, <2>2, RequestCommits DEF HoldAndInsert
<1>5. ASSUME CommitResponseLost(q) PROVE WithdrawalInv'
  <2>1. PICK w \in WdId : ~WdPresent(w) /\ HoldAndInsert(q, w) /\ RetryOrGiveUp(q)
    BY <1>5 DEF CommitResponseLost
  <2>2. /\ RequestMoves(q) /\ wreq'[q].stage # "debit"
        /\ wreq'[q].answer = wreq[q].answer \/ wreq'[q].answer = "busy"
    BY <2>1, WdRetryMoves
  <2>. QED
    BY <2>1, <2>2, RequestCommits DEF HoldAndInsert
<1>6. ASSUME RefuseInsufficient(q) PROVE WithdrawalInv'
  <2>1. Finish(q, "insufficient") /\ UNCHANGED <<walletVars, withdrawals>>
    BY <1>6 DEF RefuseInsufficient
  <2>2. RequestMoves(q) /\ wreq'[q].stage = "done" /\ wreq'[q].answer = "insufficient"
    BY <2>1, FinishMoves DEF Answer
  <2>. QED
    BY <2>1, <2>2, WdRequestAlone DEF WdAnswerTrue
<1>7. ASSUME AttemptFails(q) PROVE WithdrawalInv'
  <2>1. RetryOrGiveUp(q) /\ UNCHANGED <<walletVars, withdrawals>>
    BY <1>7 DEF AttemptFails
  <2>2. /\ RequestMoves(q) /\ wreq'[q].stage # "debit"
        /\ wreq'[q].answer = wreq[q].answer \/ wreq'[q].answer = "busy"
    BY <2>1, WdRetryMoves
  <2>. QED
    BY <2>1, <2>2, WdRequestAlone DEF WdAnswerTrue
<1>8. ASSUME RequestDies(q) PROVE WithdrawalInv'
  <2>1. Finish(q, "none") /\ UNCHANGED <<walletVars, withdrawals>>
    BY <1>8 DEF RequestDies
  <2>2. RequestMoves(q) /\ wreq'[q].stage = "done" /\ wreq'[q].answer = "none"
    BY <2>1, FinishMoves DEF Answer
  <2>. QED
    BY <2>1, <2>2, WdRequestAlone DEF WdAnswerTrue
<1>. QED
  BY <1>1, <1>2, <1>3, <1>4, <1>5, <1>6, <1>7, <1>8 DEF RequestStep

\* A step that changes no request, owner, key or amount keeps keys and answers.
LEMMA RequestsKept ==
    ASSUME WithdrawalInv, wreq' = wreq,
           \A w \in WdId :
              /\ WdPresent(w)' <=> WdPresent(w)
              /\ WdPresent(w) => /\ withdrawals'[w].user = withdrawals[w].user
                                 /\ withdrawals'[w].key = withdrawals[w].key
                                 /\ withdrawals'[w].amount = withdrawals[w].amount
    PROVE  KeysExclusive' /\ AnswersAreTrue'
<1>1. \A u, k : RowsWithKey(u, k)' = RowsWithKey(u, k)
  BY DEF RowsWithKey
<1>2. KeysExclusive'
  BY <1>1 DEF WithdrawalInv, KeysExclusive
<1>3. AnswersAreTrue'
  BY DEF WithdrawalInv, AnswersAreTrue
<1>. QED
  BY <1>2, <1>3

\* A decision about a row changes its status alone.
LEMMA StatusChanges ==
    ASSUME WithdrawalTypeOK, NEW w \in WdId, WdPresent(w), NEW status \in WdStatus,
           withdrawals' = [withdrawals EXCEPT ![w].status = status]
    PROVE  /\ withdrawals' \in [WdId -> WdRow \union {NoWd}]
           /\ withdrawals'[w].status = status
           /\ \A v \in WdId \ {w} : withdrawals'[v] = withdrawals[v]
           /\ \A v \in WdId :
                 /\ WdPresent(v)' <=> WdPresent(v)
                 /\ WdPresent(v) => /\ withdrawals'[v].user = withdrawals[v].user
                                    /\ withdrawals'[v].key = withdrawals[v].key
                                    /\ withdrawals'[v].amount = withdrawals[v].amount
<1>1. withdrawals[w] \in WdRow /\ withdrawals \in [WdId -> WdRow \union {NoWd}]
  BY WdRowTypes DEF WithdrawalTypeOK
<1>. DEFINE row == [withdrawals[w] EXCEPT !.status = status]
<1>2. /\ row \in WdRow /\ row.status = status /\ row.user = withdrawals[w].user
      /\ row.key = withdrawals[w].key /\ row.amount = withdrawals[w].amount
  BY <1>1 DEF WdRow
<1>3. withdrawals' = [withdrawals EXCEPT ![w] = row]
  OBVIOUS
<1>. HIDE DEF row
<1>4. /\ withdrawals'[w] = row
      /\ \A v \in WdId \ {w} : withdrawals'[v] = withdrawals[v]
      /\ withdrawals' \in [WdId -> WdRow \union {NoWd}]
  BY <1>1, <1>2, <1>3
<1>. QED
  BY <1>2, <1>4, WithdrawalAssumption DEF WdPresent

LEMMA CancelStep ==
    ASSUME WithdrawalInv, NEW w \in WdId, CancelWithdrawal(w)
    PROVE  WithdrawalInv'
<1>1. /\ WdPresent(w) /\ ~Back(w) /\ ReverseHold(w) /\ wreq' = wreq
      /\ withdrawals' = [withdrawals EXCEPT ![w].status = "CANCELLED"]
  BY DEF CancelWithdrawal, Back
<1>2. /\ WalletTypeOK' /\ LedgerExplainsBalance' /\ LedgerHolds'
      /\ withdrawals' \in [WdId -> WdRow \union {NoWd}]
  BY <1>1, HoldReturned
<1>3. KeysExclusive' /\ AnswersAreTrue'
  BY <1>1, StatusChanges, RequestsKept DEF WithdrawalInv, WdStatus
<1>. QED
  BY <1>1, <1>2, <1>3 DEF WithdrawalInv, WithdrawalTypeOK

LEMMA ReviewStep ==
    ASSUME WithdrawalInv, NEW w \in WdId, NEW action \in DOMAIN FlowFrom,
           ReviewWithdrawal(w, action)
    PROVE  WithdrawalInv'
<1>1. /\ WdPresent(w) /\ withdrawals[w].status \in FlowFrom[action] /\ wreq' = wreq
      /\ withdrawals' = [withdrawals EXCEPT ![w].status = FlowTo[action]]
      /\ IF action = "REJECT" THEN ReverseHold(w) ELSE UNCHANGED walletVars
  BY DEF ReviewWithdrawal
<1>2. /\ action \in {"APPROVE", "PROCESS", "PAID", "REJECT"}
      /\ withdrawals[w].status \in {"PENDING", "APPROVED", "PROCESSING"}
      /\ FlowTo[action] \in WdStatus
      /\ action = "REJECT" => FlowTo[action] = "REJECTED"
      /\ action # "REJECT" => FlowTo[action] \notin {"REJECTED", "CANCELLED"}
  BY <1>1 DEF FlowFrom, FlowTo, WdStatus
<1>3. KeysExclusive' /\ AnswersAreTrue'
  BY <1>1, <1>2, StatusChanges, RequestsKept DEF WithdrawalInv
<1>4. CASE action = "REJECT"
  <2>1. /\ WalletTypeOK' /\ LedgerExplainsBalance' /\ LedgerHolds'
        /\ withdrawals' \in [WdId -> WdRow \union {NoWd}]
    BY <1>1, <1>2, <1>4, HoldReturned DEF Back
  <2>. QED
    BY <1>1, <1>3, <2>1 DEF WithdrawalInv, WithdrawalTypeOK
<1>5. CASE action # "REJECT"
  <2>1. wallets' = wallets /\ ledger' = ledger /\ rowLock' = rowLock
    BY <1>1, <1>5 DEF walletVars
  <2>2. WithdrawalTypeOK /\ LedgerHolds /\ LedgerExplainsBalance
    BY DEF WithdrawalInv
  <2>3. /\ withdrawals' \in [WdId -> WdRow \union {NoWd}]
        /\ \A v \in WdId :
              /\ WdPresent(v)' <=> WdPresent(v)
              /\ WdPresent(v) => /\ withdrawals'[v].user = withdrawals[v].user
                                 /\ withdrawals'[v].amount = withdrawals[v].amount
                                 /\ Back(v)' = Back(v)
    <3>. DEFINE status == FlowTo[action]
    <3>1. status \in WdStatus /\ status \notin {"REJECTED", "CANCELLED"}
      BY <1>2, <1>5
    <3>2. withdrawals' = [withdrawals EXCEPT ![w].status = status]
      BY <1>1
    <3>. HIDE DEF status
    <3>3. /\ withdrawals' \in [WdId -> WdRow \union {NoWd}]
          /\ withdrawals'[w].status = status
          /\ \A v \in WdId \ {w} : withdrawals'[v] = withdrawals[v]
          /\ \A v \in WdId :
                /\ WdPresent(v)' <=> WdPresent(v)
                /\ WdPresent(v) => /\ withdrawals'[v].user = withdrawals[v].user
                                   /\ withdrawals'[v].amount = withdrawals[v].amount
      BY <1>1, <2>2, <3>1, <3>2, StatusChanges
    <3>4. ~Back(w) /\ ~Back(w)'
      BY <1>2, <3>1, <3>3 DEF Back
    <3>5. \A v \in WdId : Back(v)' = Back(v)
      BY <3>3, <3>4 DEF Back
    <3>. QED
      BY <3>3, <3>5
  <2>4. LedgerHolds'
    BY <2>1, <2>2, <2>3, RowsKept DEF Unnamed
  <2>5. WalletTypeOK' /\ LedgerExplainsBalance'
    BY <2>1, <2>2
       DEF WithdrawalTypeOK, WalletTypeOK, BooksOK, Books, LedgerExplainsBalance,
           BooksExplained, ClosingBalance
  <2>. QED
    BY <1>1, <1>3, <2>2, <2>3, <2>4, <2>5 DEF WithdrawalInv, WithdrawalTypeOK
<1>. QED
  BY <1>4, <1>5

\* Conversions and adjustments, and steps of other parts of the system.
LEMMA WdOtherStep ==
    ASSUME WithdrawalInv, (WalletStep \/ UNCHANGED walletVars) /\ UNCHANGED withdrawalVars
    PROVE  WithdrawalInv'
<1>1. /\ withdrawals' = withdrawals /\ wreq' = wreq
      /\ WithdrawalTypeOK /\ LedgerHolds /\ LedgerExplainsBalance
  BY DEF withdrawalVars, WithdrawalInv
<1>2. /\ WalletTypeOK' /\ LedgerExplainsBalance'
      /\ \A u \in User, b \in Bucket : Unnamed(ledger[u][b], ledger'[u][b])
  <2>1. CASE WalletStep
    BY <1>1, <2>1, WalletStepEffect DEF WithdrawalTypeOK
  <2>2. CASE UNCHANGED walletVars
    BY <1>1, <2>2
       DEF walletVars, WithdrawalTypeOK, WalletTypeOK, BooksOK, Books,
           LedgerExplainsBalance, BooksExplained, ClosingBalance, Unnamed
  <2>. QED
    BY <2>1, <2>2
<1>3. \A w \in WdId : (WdPresent(w)' <=> WdPresent(w)) /\ Back(w)' = Back(w)
  BY <1>1 DEF WdPresent, Back
<1>4. LedgerHolds'
  BY <1>1, <1>2, <1>3, RowsKept
<1>5. KeysExclusive' /\ AnswersAreTrue'
  BY <1>1, <1>3, RequestsKept
<1>. QED
  BY <1>1, <1>2, <1>4, <1>5 DEF WithdrawalInv, WithdrawalTypeOK

LEMMA WithdrawalInitial == ASSUME WithdrawalInit PROVE WithdrawalInv
<1>1. /\ wallets = Opening /\ ledger = [u \in User |-> [b \in Bucket |-> <<>>]]
      /\ rowLock = [u \in User |-> NoTxn] /\ withdrawals = [w \in WdId |-> NoWd]
      /\ wreq \in [WdReq ->
             [stage : {"new"}, user : User, key : WdKey \union {NoKey}, amount : WdAmount,
              attempt : {0}, cash : {0}, winning : {0}, answer : {"none"}]]
  BY DEF WithdrawalInit, WalletInit
<1>2. \A q \in WdReq : wreq[q] \in WdRequest /\ wreq[q].stage = "new" /\ wreq[q].answer = "none"
  <2>1. 0 \in 0..MaxAttempts
    BY WithdrawalAssumption
  <2>. QED
    BY <1>1, <2>1 DEF WdRequest, Answer
<1>3. WithdrawalTypeOK
  BY <1>1, <1>2, WalletAssumption
     DEF WithdrawalTypeOK, WalletTypeOK, BooksOK, Books
<1>4. LedgerExplainsBalance
  BY <1>1 DEF LedgerExplainsBalance, BooksExplained, Books, ClosingBalance
<1>5. LedgerHolds
  <2>1. \A w \in WdId : ~WdPresent(w)
    BY <1>1 DEF WdPresent
  <2>. QED
    BY <1>1, <2>1 DEF LedgerHolds, RowHolds, Share, HoldLog
<1>6. KeysExclusive
  <2>1. \A w \in WdId : ~WdPresent(w)
    BY <1>1 DEF WdPresent
  <2>. QED
    BY <1>2, <2>1 DEF KeysExclusive
<1>7. AnswersAreTrue
  BY <1>2 DEF AnswersAreTrue
<1>. QED
  BY <1>3, <1>4, <1>5, <1>6, <1>7 DEF WithdrawalInv

LEMMA WithdrawalNextKeeps ==
    ASSUME WithdrawalInv, [WithdrawalNext]_wdVars PROVE WithdrawalInv'
<1>1. ASSUME NEW q \in WdReq,
             SubmitWithdrawal(q) \/ RequestStep(q) \/ CommitResponseLost(q)
               \/ AttemptFails(q) \/ RequestDies(q)
      PROVE  WithdrawalInv'
  BY <1>1, RequestSteps
<1>2. ASSUME NEW w \in WdId, CancelWithdrawal(w) PROVE WithdrawalInv'
  BY <1>2, CancelStep
<1>3. ASSUME NEW w \in WdId, NEW action \in DOMAIN FlowFrom, ReviewWithdrawal(w, action)
      PROVE  WithdrawalInv'
  BY <1>3, ReviewStep
<1>4. CASE WalletStep /\ UNCHANGED withdrawalVars
  BY <1>4, WdOtherStep
<1>5. CASE UNCHANGED wdVars
  BY <1>5, WdOtherStep DEF wdVars
<1>. QED
  BY <1>1, <1>2, <1>3, <1>4, <1>5 DEF WithdrawalNext, WithdrawalStep

\* Whatever requests, retries, lost answers, cancellations, decisions and
\* adjustments do, in any order: the invariant holds.
THEOREM WithdrawalInductive == WithdrawalSpec => []WithdrawalInv
<1>1. WithdrawalInit => WithdrawalInv
  BY WithdrawalInitial
<1>2. WithdrawalInv /\ [WithdrawalNext]_wdVars => WithdrawalInv'
  BY WithdrawalNextKeeps
<1>. QED
  BY <1>1, <1>2, PTL DEF WithdrawalSpec

-----------------------------------------------------------------------------
(***************************************************************************)
(* The properties.                                                         *)
(***************************************************************************)
(* No request, conversion, adjustment or return overdraws a bucket, and    *)
(* every row and request stays well formed.                                *)
THEOREM WithdrawalTypes == WithdrawalSpec => []WithdrawalTypeOK
  BY WithdrawalInductive, PTL DEF WithdrawalInv

(* Reading the ledger explains the balances, holds and returns included.   *)
THEOREM WithdrawalLedger == WithdrawalSpec => []LedgerExplainsBalance
  BY WithdrawalInductive, PTL DEF WithdrawalInv

(* What a player is told about a request is true of the rows.              *)
THEOREM WithdrawalAnswers == WithdrawalSpec => []AnswersAreTrue
  BY WithdrawalInductive, PTL DEF WithdrawalInv

\* A set with at most one element has at most one element.
LEMMA AtMostOne ==
    ASSUME NEW S, \A x, y \in S : x = y
    PROVE  /\ Cardinality(S) <= 1
           /\ Cardinality(S) = IF S = {} THEN 0 ELSE 1
<1>1. CASE S = {}
  BY <1>1, FS_EmptySet
<1>2. CASE S # {}
  <2>1. PICK x \in S : S = {x}
    BY <1>2
  <2>. QED
    <3>1. Cardinality({x}) = 1
      BY FS_Singleton
    <3>. QED
      BY <1>2, <2>1, <3>1
<1>. QED
  BY <1>1, <1>2

\* HoldMatchesStatus of one row, from what the lists hold.
LEMMA HoldLogMatches ==
    ASSUME WithdrawalTypeOK, LedgerHolds
    PROVE  HoldMatchesStatus
<1>. SUFFICES ASSUME NEW w \in WdId, WdPresent(w)
              PROVE  LET u == withdrawals[w].user
                         back == withdrawals[w].status \in {"REJECTED", "CANCELLED"}
                     IN  /\ HeldIn(w, "CASH") + HeldIn(w, "WINNING") = withdrawals[w].amount
                         /\ \A b \in Bucket :
                               /\ Cardinality(EntriesFor(u, b, "WITHDRAWAL", w)) <= 1
                               /\ Cardinality(ReturnedIn(w, b)) =
                                     IF back /\ HeldIn(w, b) > 0 THEN 1 ELSE 0
                               /\ \A i \in ReturnedIn(w, b) : ledger[u][b][i].amount = HeldIn(w, b)
  BY DEF HoldMatchesStatus
<1>. DEFINE u == withdrawals[w].user
<1>1. /\ u \in User /\ "CASH" \in Bucket /\ "WINNING" \in Bucket
  BY WdRowTypes DEF Bucket
<1>2. \A b \in Bucket : HeldIn(w, b) = Share(u, b, w)
  BY HeldIsShare
<1>3. HeldIn(w, "CASH") + HeldIn(w, "WINNING") = withdrawals[w].amount
  BY <1>1, <1>2 DEF LedgerHolds, RowHolds
<1>4. ASSUME NEW b \in Bucket
      PROVE  /\ Cardinality(EntriesFor(u, b, "WITHDRAWAL", w)) <= 1
             /\ Cardinality(ReturnedIn(w, b)) = IF Back(w) /\ HeldIn(w, b) > 0 THEN 1 ELSE 0
             /\ \A i \in ReturnedIn(w, b) : ledger[u][b][i].amount = HeldIn(w, b)
  <2>. DEFINE log == ledger[u][b]
              h == HeldIn(w, b)
              held == EntriesFor(u, b, "WITHDRAWAL", w)
              back == EntriesFor(u, b, "WITHDRAWAL_REVERSAL", w)
  <2>1. HoldLog(log, w, h, Back(w)) /\ h \in Nat
    <3>1. HoldLog(log, w, h, WdPresent(w) /\ Back(w)) /\ h \in Nat
      BY <1>1, <1>2, ShareType DEF LedgerHolds, RowHolds
    <3>. HIDE DEF log, h
    <3>. QED
      BY <3>1 DEF HoldLog
  <2>2. /\ held = {i \in DOMAIN log : log[i].type = "WITHDRAWAL" /\ log[i].ref = w}
        /\ back = {i \in DOMAIN log : log[i].type = "WITHDRAWAL_REVERSAL" /\ log[i].ref = w}
    BY DEF EntriesFor, EntriesIn
  <2>3. ReturnedIn(w, b) = back
    BY DEF ReturnedIn
  <2>. HIDE DEF log, h, held, back
  <2>4. (\A i, j \in held : i = j) /\ (\A i, j \in back : i = j)
    BY <2>1, <2>2 DEF HoldLog
  <2>5. (back = {}) <=> ~(Back(w) /\ h > 0)
    BY <2>1, <2>2 DEF HoldLog
  <2>6. \A i \in back : log[i].amount = h
    BY <2>1, <2>2 DEF HoldLog
  <2>7. Cardinality(held) <= 1 /\ Cardinality(back) = IF back = {} THEN 0 ELSE 1
    BY <2>4, AtMostOne
  <2>. QED
    BY <2>3, <2>5, <2>6, <2>7 DEF log, h, held, back
<1>. QED
  BY <1>3, <1>4 DEF Back

(* The money of every row is held once and given back once, whoever        *)
(* decided it and however the hold was split.                              *)
THEOREM WithdrawalHoldsMatch == WithdrawalSpec => []HoldMatchesStatus
<1>1. WithdrawalInv => HoldMatchesStatus
  BY HoldLogMatches DEF WithdrawalInv
<1>. QED
  BY <1>1, WithdrawalInductive, PTL

-----------------------------------------------------------------------------
(***************************************************************************)
(* The withdrawals implement the abstract holds.                           *)
(***************************************************************************)
\* The abstract state of a row, and what it has taken, under the invariant.
LEMMA MappedTaken ==
    ASSUME WithdrawalTypeOK, LedgerHolds, NEW w \in WdId, NEW u \in User, NEW b \in Bucket
    PROVE  TakenFor(w)[u][b] = IF WdPresent(w) /\ Back(w) THEN 0 ELSE Share(u, b, w)
<1>1. HoldLog(ledger[u][b], w, Share(u, b, w), WdPresent(w) /\ Back(w))
  BY DEF LedgerHolds, RowHolds
<1>2. Share(u, b, w) \in Nat /\ (WdPresent(w) /\ Back(w)) \in BOOLEAN
  BY ShareType
<1>3. NetDebit(ledger[u][b], w) = IF WdPresent(w) /\ Back(w) THEN 0 ELSE Share(u, b, w)
  BY <1>1, <1>2, HoldLogNet
<1>. QED
  BY <1>3 DEF TakenFor

LEMMA MappedHold ==
    ASSUME WithdrawalTypeOK, NEW w \in WdId
    PROVE  /\ WdPresent(w) => /\ HoldOf(w) \in HoldRow /\ HoldOf(w) # NoWd
                              /\ HoldOf(w).owner = withdrawals[w].user
                              /\ HoldOf(w).key = withdrawals[w].key
                              /\ HoldOf(w).amount = withdrawals[w].amount
                              /\ HoldOf(w).state = StateOf(withdrawals[w].status)
           /\ ~WdPresent(w) => HoldOf(w) = NoWd
<1>1. ASSUME WdPresent(w) PROVE HoldOf(w) \in HoldRow
  BY <1>1, WdRowTypes DEF HoldOf, HoldRow, StateOf
<1>. QED
  BY <1>1, HoldAssumption DEF HoldOf

LEMMA MappedTakenAfter ==
    ASSUME WithdrawalTypeOK', LedgerHolds', NEW w \in WdId, NEW u \in User, NEW b \in Bucket
    PROVE  /\ TakenFor(w)'[u][b] = IF WdPresent(w)' /\ Back(w)' THEN 0 ELSE Share(u, b, w)'
           /\ Share(u, b, w)' \in Nat
<1>1. HoldLog(ledger'[u][b], w, Share(u, b, w)', WdPresent(w)' /\ Back(w)')
  BY DEF LedgerHolds, RowHolds
<1>2. Share(u, b, w)' \in Nat /\ (WdPresent(w)' /\ Back(w)') \in BOOLEAN
  <2>1. ledger'[u][b] \in Seq(Entry)
    BY DEF WithdrawalTypeOK, WalletTypeOK, BooksOK, Books
  <2>. QED
    BY <2>1, HeldType DEF Share
<1>3. NetDebit(ledger'[u][b], w) = IF WdPresent(w)' /\ Back(w)' THEN 0 ELSE Share(u, b, w)'
  BY <1>1, <1>2, HoldLogNet
<1>. QED
  BY <1>2, <1>3 DEF TakenFor

\* A row that is as it was, with the shares it had, is the same hold.
LEMMA MappedSame ==
    ASSUME WithdrawalInv, WithdrawalInv', NEW w \in WdId, withdrawals'[w] = withdrawals[w],
           \A u \in User, b \in Bucket : Share(u, b, w)' = Share(u, b, w)
    PROVE  HoldOf(w)' = HoldOf(w) /\ TakenFor(w)' = TakenFor(w)
<1>1. HoldOf(w)' = HoldOf(w)
  BY DEF HoldOf, WdPresent
<1>2. \A u \in User, b \in Bucket : TakenFor(w)'[u][b] = TakenFor(w)[u][b]
  BY MappedTaken, MappedTakenAfter DEF WithdrawalInv, WdPresent, Back
<1>3. TakenFor(w)' = [u \in User |-> [b \in Bucket |-> TakenFor(w)'[u][b]]]
  BY DEF TakenFor
<1>4. TakenFor(w) = [u \in User |-> [b \in Bucket |-> TakenFor(w)[u][b]]]
  BY DEF TakenFor
<1>. QED
  BY <1>1, <1>2, <1>3, <1>4

\* The commit of a request places its hold.
LEMMA CommitPlaces ==
    ASSUME WithdrawalInv, WithdrawalInv', NEW q \in WdReq, NEW w \in WdId, ~WdPresent(w),
           wreq[q].stage = "debit", HoldAndInsert(q, w)
    PROVE  Abstract!HoldNext
<1>1. PICK u \in User, k \in WdKey \union {NoKey}, a \in WdAmount :
         u = wreq[q].user /\ k = wreq[q].key /\ a = wreq[q].amount /\ a \in Nat
  BY WdRequestTypes DEF WithdrawalInv
<1>2. /\ WdPresent(w)' /\ ~Back(w)' /\ withdrawals'[w].status = "PENDING"
      /\ withdrawals'[w].user = u /\ withdrawals'[w].key = k /\ withdrawals'[w].amount = a
      /\ \A v \in WdId \ {w} :
            /\ withdrawals'[v] = withdrawals[v]
            /\ \A x \in User, b \in Bucket : Share(x, b, v)' = Share(x, b, v)
  BY <1>1, HoldPlaced
<1>. DEFINE held == [v \in WdId |-> HoldOf(v)]
            taken == [v \in WdId |-> TakenFor(v)]
<1>3. held[w] = NoWd
  BY DEF HoldOf
<1>4. k = NoKey \/ ~Abstract!KeyTaken(u, k)
  <2>1. SUFFICES ASSUME k # NoKey, NEW v \in WdId, held[v] # NoWd, held[v].owner = u,
                        held[v].key = k
                 PROVE  FALSE
    BY DEF Abstract!KeyTaken
  <2>2. v \in RowsWithKey(u, k)
    BY <2>1 DEF HoldOf, RowsWithKey
  <2>3. RowsWithKey(u, k) = {}
    BY <1>1 DEF WithdrawalInv, KeysExclusive
  <2>. QED
    BY <2>2, <2>3
<1>5. held' = [held EXCEPT ![w] = [owner |-> u, key |-> k, amount |-> a, state |-> "held"]]
  <2>1. HoldOf(w)' = [owner |-> u, key |-> k, amount |-> a, state |-> "held"]
    BY <1>2 DEF HoldOf, StateOf
  <2>2. \A v \in WdId \ {w} : HoldOf(v)' = HoldOf(v)
    BY <1>2, MappedSame
  <2>. QED
    BY <2>1, <2>2
<1>6. PICK part \in [Bucket -> Nat] : \A b \in Bucket : part[b] = Share(u, b, w)'
  <2>1. \A b \in Bucket : Share(u, b, w)' \in Nat
    BY MappedTakenAfter DEF WithdrawalInv
  <2>2. [b \in Bucket |-> Share(u, b, w)'] \in [Bucket -> Nat]
    BY <2>1
  <2>. QED
    BY <2>2
<1>7. /\ part["CASH"] + part["WINNING"] = a
      /\ \A b \in Bucket \ {"CASH", "WINNING"} : part[b] = 0
  BY <1>2, <1>6 DEF WithdrawalInv, LedgerHolds, RowHolds, Bucket
<1>8. "CASH" \in Bucket /\ "WINNING" \in Bucket /\ "CASH" # "WINNING"
  BY DEF Bucket
<1>9. part \in [Bucket -> 0..a]
  <2>1. \A b \in Bucket : part[b] \in 0..a
    BY <1>1, <1>6, <1>7, <1>8
  <2>. QED
    BY <1>6, <2>1
<1>10. Abstract!Splits(part, a)
  BY <1>7, <1>8 DEF Abstract!Splits
<1>11. taken' = [taken EXCEPT ![w] = [Abstract!Nothing EXCEPT ![u] = part]]
  <2>1. \A x \in User, b \in Bucket :
           TakenFor(w)'[x][b] = IF x = u THEN part[b] ELSE 0
    BY <1>2, <1>6, MappedTakenAfter DEF WithdrawalInv, Share
  <2>2. TakenFor(w)' = [Abstract!Nothing EXCEPT ![u] = part]
    <3>1. TakenFor(w)' = [x \in User |-> [b \in Bucket |-> TakenFor(w)'[x][b]]]
      BY DEF TakenFor
    <3>2. [Abstract!Nothing EXCEPT ![u] = part] =
             [x \in User |-> [b \in Bucket |-> IF x = u THEN part[b] ELSE 0]]
      BY <1>6 DEF Abstract!Nothing
    <3>. QED
      BY <2>1, <3>1, <3>2
  <2>3. \A v \in WdId \ {w} : TakenFor(v)' = TakenFor(v)
    BY <1>2, MappedSame
  <2>. QED
    BY <2>2, <2>3
<1>12. Abstract!Place(w, u, k, a)
  BY <1>3, <1>4, <1>5, <1>9, <1>10, <1>11 DEF Abstract!Place
<1>. QED
  BY <1>12 DEF Abstract!HoldNext

\* A decision that returns the money gives the hold back.
LEMMA ReturnGivesBack ==
    ASSUME WithdrawalInv, WithdrawalInv', NEW w \in WdId, WdPresent(w),
           withdrawals[w].status \in {"PENDING", "APPROVED", "PROCESSING"}, ReverseHold(w),
           NEW status \in {"REJECTED", "CANCELLED"},
           withdrawals' = [withdrawals EXCEPT ![w].status = status]
    PROVE  Abstract!HoldNext
<1>. DEFINE held == [v \in WdId |-> HoldOf(v)]
            taken == [v \in WdId |-> TakenFor(v)]
<1>1. /\ withdrawals'[w].status = status /\ WdPresent(w)'
      /\ withdrawals'[w].user = withdrawals[w].user /\ withdrawals'[w].key = withdrawals[w].key
      /\ withdrawals'[w].amount = withdrawals[w].amount
      /\ \A v \in WdId \ {w} : withdrawals'[v] = withdrawals[v]
  BY StatusChanges DEF WithdrawalInv, WdStatus
<1>2. \A v \in WdId, u \in User, b \in Bucket : Share(u, b, v)' = Share(u, b, v)
  BY HoldReturned DEF Back
<1>3. \A v \in WdId \ {w} : HoldOf(v)' = HoldOf(v) /\ TakenFor(v)' = TakenFor(v)
  BY <1>1, <1>2, MappedSame
<1>4. held[w] # NoWd /\ held[w].state = "held"
  BY MappedHold DEF WithdrawalInv, StateOf
<1>5. held' = [held EXCEPT ![w].state = "returned"]
  <2>1. HoldOf(w)' = [HoldOf(w) EXCEPT !.state = "returned"]
    BY <1>1 DEF HoldOf, StateOf
  <2>. QED
    BY <1>3, <2>1
<1>6. taken' = [taken EXCEPT ![w] = Abstract!Nothing]
  <2>1. \A u \in User, b \in Bucket : TakenFor(w)'[u][b] = 0
    BY <1>1, MappedTakenAfter DEF WithdrawalInv, Back
  <2>2. TakenFor(w)' = [u \in User |-> [b \in Bucket |-> TakenFor(w)'[u][b]]]
    BY DEF TakenFor
  <2>3. TakenFor(w)' = Abstract!Nothing
    BY <2>1, <2>2 DEF Abstract!Nothing
  <2>. QED
    BY <1>3, <2>3
<1>7. Abstract!GiveBack(w)
  BY <1>4, <1>5, <1>6 DEF Abstract!GiveBack, Abstract!Ends
<1>. QED
  BY <1>7 DEF Abstract!HoldNext

\* A decision that keeps the money pays the hold or is not visible.
LEMMA PayoutStep ==
    ASSUME WithdrawalInv, WithdrawalInv', NEW w \in WdId, WdPresent(w),
           NEW action \in {"APPROVE", "PROCESS", "PAID"}, ReviewWithdrawal(w, action)
    PROVE  Abstract!HoldNext \/ UNCHANGED Abstract!holdVars
<1>. DEFINE held == [v \in WdId |-> HoldOf(v)]
            taken == [v \in WdId |-> TakenFor(v)]
            status == FlowTo[action]
<1>1. /\ withdrawals[w].status \in {"PENDING", "APPROVED", "PROCESSING"}
      /\ status \in WdStatus
      /\ status = IF action = "PAID" THEN "PAID"
                  ELSE IF action = "APPROVE" THEN "APPROVED" ELSE "PROCESSING"
  BY DEF ReviewWithdrawal, FlowFrom, FlowTo, WdStatus
<1>2. /\ ledger' = ledger
      /\ withdrawals' = [withdrawals EXCEPT ![w].status = status]
  BY DEF ReviewWithdrawal, walletVars
<1>. HIDE DEF status
<1>3. /\ withdrawals'[w].status = status /\ WdPresent(w)'
      /\ withdrawals'[w].user = withdrawals[w].user /\ withdrawals'[w].key = withdrawals[w].key
      /\ withdrawals'[w].amount = withdrawals[w].amount
      /\ \A v \in WdId \ {w} : withdrawals'[v] = withdrawals[v]
  BY <1>1, <1>2, StatusChanges DEF WithdrawalInv
<1>4. taken' = taken
  BY <1>2 DEF TakenFor
<1>5. \A v \in WdId \ {w} : HoldOf(v)' = HoldOf(v)
  BY <1>3 DEF HoldOf, WdPresent
<1>6. held[w] # NoWd /\ held[w].state = "held"
  BY <1>1, MappedHold DEF WithdrawalInv, StateOf
<1>7. HoldOf(w)' = [HoldOf(w) EXCEPT !.state = StateOf(status)]
  BY <1>3 DEF HoldOf
<1>8. CASE action = "PAID"
  <2>1. held' = [held EXCEPT ![w].state = "paid"]
    BY <1>1, <1>5, <1>7, <1>8 DEF StateOf
  <2>2. Abstract!Pay(w)
    BY <1>4, <1>6, <2>1 DEF Abstract!Pay, Abstract!Ends
  <2>. QED
    BY <2>2 DEF Abstract!HoldNext
<1>9. CASE action # "PAID"
  <2>1. HoldOf(w)' = HoldOf(w)
    BY <1>1, <1>3, <1>9 DEF HoldOf, StateOf
  <2>. QED
    BY <1>4, <1>5, <2>1 DEF Abstract!holdVars
<1>. QED
  BY <1>8, <1>9

\* A step that changes no row, and no entry that names one, is not visible.
LEMMA HiddenStep ==
    ASSUME WithdrawalInv, WithdrawalInv', withdrawals' = withdrawals,
           \A u \in User, b \in Bucket : Unnamed(ledger[u][b], ledger'[u][b])
    PROVE  UNCHANGED Abstract!holdVars
<1>1. \A w \in WdId, u \in User, b \in Bucket : Share(u, b, w)' = Share(u, b, w)
  BY RowsKept DEF WithdrawalInv, WdPresent, Back
<1>2. \A w \in WdId : HoldOf(w)' = HoldOf(w) /\ TakenFor(w)' = TakenFor(w)
  BY <1>1, MappedSame
<1>. QED
  BY <1>2 DEF Abstract!holdVars

LEMMA MappedInitial == ASSUME WithdrawalInit PROVE Abstract!HoldInit
<1>1. WithdrawalInv /\ \A w \in WdId : ~WdPresent(w)
  BY WithdrawalInitial DEF WithdrawalInit, WdPresent
<1>2. \A w \in WdId, u \in User, b \in Bucket : TakenFor(w)[u][b] = 0
  BY <1>1, MappedTaken DEF WithdrawalInv, Share
<1>3. \A w \in WdId : TakenFor(w) = Abstract!Nothing
  <2>1. \A w \in WdId : TakenFor(w) = [u \in User |-> [b \in Bucket |-> TakenFor(w)[u][b]]]
    BY DEF TakenFor
  <2>. QED
    BY <1>2, <2>1 DEF Abstract!Nothing
<1>4. \A w \in WdId : HoldOf(w) = NoWd
  BY <1>1 DEF HoldOf
<1>. QED
  BY <1>3, <1>4 DEF Abstract!HoldInit

LEMMA MappedStep ==
    ASSUME WithdrawalInv, WithdrawalInv', [WithdrawalNext]_wdVars
    PROVE  Abstract!HoldNext \/ UNCHANGED Abstract!holdVars
<1>1. ASSUME UNCHANGED <<walletVars, withdrawals>> PROVE UNCHANGED Abstract!holdVars
  BY <1>1, HiddenStep DEF Unnamed, walletVars
<1>2. ASSUME NEW q \in WdReq,
             SubmitWithdrawal(q) \/ RequestStep(q) \/ CommitResponseLost(q)
               \/ AttemptFails(q) \/ RequestDies(q)
      PROVE  Abstract!HoldNext \/ UNCHANGED Abstract!holdVars
  <2>1. \/ UNCHANGED <<walletVars, withdrawals>>
        \/ \E w \in WdId : ~WdPresent(w) /\ HoldAndInsert(q, w)
    BY <1>2
       DEF SubmitWithdrawal, RequestStep, LookupKey, InsertAndRead, DebitAndCommit,
           RefuseInsufficient, CommitResponseLost, AttemptFails, RequestDies
  <2>. QED
    BY <1>1, <2>1, CommitPlaces DEF HoldAndInsert
<1>3. ASSUME NEW w \in WdId, CancelWithdrawal(w) PROVE Abstract!HoldNext
  BY <1>3, ReturnGivesBack DEF CancelWithdrawal
<1>4. ASSUME NEW w \in WdId, NEW action \in DOMAIN FlowFrom, ReviewWithdrawal(w, action)
      PROVE  Abstract!HoldNext \/ UNCHANGED Abstract!holdVars
  <2>1. /\ WdPresent(w) /\ action \in {"APPROVE", "PROCESS", "PAID", "REJECT"}
        /\ withdrawals[w].status \in {"PENDING", "APPROVED", "PROCESSING"}
        /\ withdrawals' = [withdrawals EXCEPT ![w].status = FlowTo[action]]
    BY <1>4 DEF ReviewWithdrawal, FlowFrom
  <2>2. CASE action = "REJECT"
    BY <1>4, <2>1, <2>2, ReturnGivesBack DEF ReviewWithdrawal, FlowTo
  <2>3. CASE action # "REJECT"
    BY <1>4, <2>1, <2>3, PayoutStep
  <2>. QED
    BY <2>2, <2>3
<1>5. CASE WalletStep /\ UNCHANGED withdrawalVars
  <2>1. \A u \in User, b \in Bucket : Unnamed(ledger[u][b], ledger'[u][b])
    BY <1>5, WalletStepEffect DEF WithdrawalInv, WithdrawalTypeOK
  <2>. QED
    BY <1>5, <2>1, HiddenStep DEF withdrawalVars
<1>6. CASE UNCHANGED wdVars
  BY <1>1, <1>6 DEF wdVars, withdrawalVars
<1>. QED
  BY <1>2, <1>3, <1>4, <1>5, <1>6 DEF WithdrawalNext, WithdrawalStep

(* The withdrawals implement the abstract holds: a player sees each hold   *)
(* placed once, together with its money, and ended once, paid or returned  *)
(* to the buckets it came from, whatever happens in between.               *)
THEOREM WithdrawalsImplementHolds == WithdrawalSpec => ImplementsHolds
<1>1. WithdrawalInit => Abstract!HoldInit
  BY MappedInitial
<1>2. WithdrawalInv /\ WithdrawalInv' /\ [WithdrawalNext]_wdVars
        => [Abstract!HoldNext]_Abstract!holdVars
  BY MappedStep
<1>. QED
  BY <1>1, <1>2, WithdrawalInductive, PTL
     DEF WithdrawalSpec, ImplementsHolds, Abstract!HoldSpec

-----------------------------------------------------------------------------
(***************************************************************************)
(* Sums.  The model adds amounts up with a fold over a set of rows.  Its   *)
(* value is the number of units the rows stand for, so that what cardinals *)
(* are known to do carries over to sums.                                   *)
(***************************************************************************)


\* The pairs of a row and one of its units.
Units(S) == UNION {{r} \X (1..r.amount) : r \in S}

IsTotals(g, S) ==
    g = [s \in SUBSET S |->
            IF s = {} THEN 0
            ELSE (CHOOSE x \in s : TRUE).amount + g[s \ {CHOOSE x \in s : TRUE}]]

Amounts(S) == \A r \in S : r.amount \in Nat

\* The fold is the recursive function that takes one chosen row at a time.
LEMMA TotalDef ==
    ASSUME NEW S
    PROVE  Total(S) = (CHOOSE g : IsTotals(g, S))[S]
  BY DEF Total, MapThenSumSet, MapThenFoldSet, IsTotals

\* Finitely many rows have finitely many units, and a row brings its own.
LEMMA UnitsAdd ==
    ASSUME NEW S, IsFiniteSet(S), Amounts(S), NEW x, x \notin S, x.amount \in Nat,
           IsFiniteSet(Units(S))
    PROVE  /\ IsFiniteSet(Units(S \union {x}))
           /\ Cardinality(Units(S \union {x})) = Cardinality(Units(S)) + x.amount
<1>. DEFINE own == {x} \X (1..x.amount)
<1>1. Units(S \union {x}) = Units(S) \union own
  BY DEF Units
<1>2. Units(S) \intersect own = {}
  BY DEF Units
<1>3. IsFiniteSet(1..x.amount) /\ Cardinality(1..x.amount) = x.amount
  <2>1. PICK n \in Nat : n = x.amount
    OBVIOUS
  <2>2. IsFiniteSet(1..n) /\ Cardinality(1..n) = IF 1 > n THEN 0 ELSE n - 1 + 1
    <3>1. 1 \in Int /\ n \in Int
      OBVIOUS
    <3>. QED
      BY <3>1, FS_Interval
  <2>3. Cardinality(1..n) = n
    BY <2>2
  <2>. QED
    BY <2>1, <2>2, <2>3
<1>4. IsFiniteSet({x}) /\ Cardinality({x}) = 1
  BY FS_Singleton
<1>5. IsFiniteSet(own) /\ Cardinality(own) = x.amount
  <2>1. Cardinality(own) = Cardinality({x}) * Cardinality(1..x.amount) /\ IsFiniteSet(own)
    BY <1>3, <1>4, FS_Product
  <2>. QED
    BY <2>1, <1>3, <1>4
<1>. HIDE DEF own
<1>6. Cardinality(Units(S) \intersect own) = 0
  BY <1>2, FS_EmptySet
<1>7. Cardinality(Units(S)) \in Nat
  BY FS_CardinalityType
<1>8. /\ IsFiniteSet(Units(S) \union own)
      /\ Cardinality(Units(S) \union own) =
            Cardinality(Units(S)) + Cardinality(own) - Cardinality(Units(S) \intersect own)
  BY <1>5, FS_Union
<1>9. Cardinality(Units(S) \union own) = Cardinality(Units(S)) + x.amount
  <2>. DEFINE all == Cardinality(Units(S) \union own)
              old == Cardinality(Units(S))
              new == Cardinality(own)
              both == Cardinality(Units(S) \intersect own)
  <2>1. all = old + new - both
    BY <1>8
  <2>2. old \in Nat /\ new = x.amount /\ both = 0
    BY <1>5, <1>6, <1>7
  <2>. HIDE DEF all, old, new, both
  <2>3. all = old + x.amount
    BY <2>1, <2>2
  <2>. QED
    BY <2>3 DEF all, old
<1>. QED
  BY <1>1, <1>8, <1>9

LEMMA UnitsFinite ==
    ASSUME NEW S, IsFiniteSet(S), Amounts(S)
    PROVE  IsFiniteSet(Units(S))
<1>. DEFINE part == [r \in S |-> {r} \X (1..r.amount)]
            parts == {part[r] : r \in S}
<1>1. part \in Surjection(S, parts)
  BY DEF Surjection
<1>2. IsFiniteSet(parts)
  BY <1>1, FS_Surjection
<1>3. \A T \in parts : IsFiniteSet(T)
  <2>. SUFFICES ASSUME NEW r \in S PROVE IsFiniteSet({r} \X (1..r.amount))
    OBVIOUS
  <2>1. IsFiniteSet(1..r.amount)
    BY FS_Interval DEF Amounts
  <2>2. IsFiniteSet({r})
    BY FS_Singleton
  <2>. QED
    BY <2>1, <2>2, FS_Product
<1>4. IsFiniteSet(UNION parts)
  BY <1>2, <1>3, FS_UNION
<1>. QED
  BY <1>4 DEF Units

\* The numbers of units satisfy the recursion of the fold.
LEMMA UnitsAreTotals ==
    ASSUME NEW S, IsFiniteSet(S), Amounts(S)
    PROVE  IsTotals([s \in SUBSET S |-> Cardinality(Units(s))], S)
<1>. DEFINE g == [s \in SUBSET S |-> Cardinality(Units(s))]
            c(s) == CHOOSE x \in s : TRUE
<1>1. ASSUME NEW s \in SUBSET S, s # {}
      PROVE  g[s] = c(s).amount + g[s \ {c(s)}]
  <2>. DEFINE t == s \ {c(s)}
  <2>1. c(s) \in s
    BY <1>1
  <2>2. /\ s = t \union {c(s)} /\ c(s) \notin t /\ t \in SUBSET S
    BY <2>1
  <2>3. IsFiniteSet(t) /\ Amounts(t) /\ c(s).amount \in Nat
    BY <2>1, FS_Subset DEF Amounts
  <2>. HIDE DEF t, c
  <2>4. IsFiniteSet(Units(t))
    BY <2>3, UnitsFinite
  <2>5. Cardinality(Units(t \union {c(s)})) = Cardinality(Units(t)) + c(s).amount
    BY <2>2, <2>3, <2>4, UnitsAdd
  <2>6. Cardinality(Units(t)) \in Nat
    BY <2>4, FS_CardinalityType
  <2>7. g[s] = Cardinality(Units(s)) /\ g[t] = Cardinality(Units(t))
    BY <2>2
  <2>8. g[s] = c(s).amount + g[t]
    <3>1. Cardinality(Units(s)) = Cardinality(Units(t)) + c(s).amount
      BY <2>2, <2>5
    <3>2. g[s] = g[t] + c(s).amount
      BY <3>1, <2>7
    <3>3. g[t] \in Nat
      BY <2>6, <2>7
    <3>. HIDE DEF g
    <3>. QED
      BY <3>2, <3>3, <2>3
  <2>. QED
    BY <2>8 DEF t
<1>2. g[{}] = 0
  BY FS_EmptySet DEF Units
<1>3. g = [s \in SUBSET S |-> IF s = {} THEN 0 ELSE c(s).amount + g[s \ {c(s)}]]
  BY <1>1, <1>2
<1>. QED
  BY <1>3 DEF IsTotals

\* The recursion has one solution: a smallest set on which two differ is one
\* on which they cannot.
LEMMA TotalsAlike ==
    ASSUME NEW S, IsFiniteSet(S), NEW g, NEW h, IsTotals(g, S), IsTotals(h, S)
    PROVE  g[S] = h[S]
<1>. SUFFICES ASSUME g[S] # h[S] PROVE FALSE
  OBVIOUS
<1>. DEFINE D == {s \in SUBSET S : g[s] # h[s]}
            c(s) == CHOOSE x \in s : TRUE
<1>1. D \subseteq FiniteSubsetsOf(S)
  BY FS_FiniteSubsetsOfFinite
<1>2. IsWellFoundedOn(StrictSubsetOrdering(S), FiniteSubsetsOf(S))
  BY FS_StrictSubsetOrderingWellFounded
<1>3. D # {}
  OBVIOUS
<1>4. PICK s \in D : \A t \in D : <<t, s>> \notin StrictSubsetOrdering(S)
  <2>. HIDE DEF D
  <2>. QED
    BY <1>1, <1>2, <1>3, WFMin
<1>5. s \in SUBSET S /\ g[s] # h[s]
  OBVIOUS
<1>6. /\ \A x \in SUBSET S : g[x] = IF x = {} THEN 0 ELSE c(x).amount + g[x \ {c(x)}]
      /\ \A x \in SUBSET S : h[x] = IF x = {} THEN 0 ELSE c(x).amount + h[x \ {c(x)}]
  BY DEF IsTotals
<1>7. s # {}
  BY <1>5, <1>6
<1>. DEFINE t == s \ {c(s)}
<1>8. c(s) \in s
  BY <1>7
<1>9. t \in SUBSET S /\ t \subseteq s /\ t # s
  BY <1>5, <1>8
<1>10. g[s] = c(s).amount + g[t] /\ h[s] = c(s).amount + h[t]
  BY <1>5, <1>6, <1>7
<1>11. <<t, s>> \in StrictSubsetOrdering(S)
  BY <1>5, <1>9 DEF StrictSubsetOrdering
<1>12. g[t] = h[t]
  BY <1>4, <1>9, <1>11
<1>. QED
  BY <1>5, <1>10, <1>12

\* So a sum is a number of units.
LEMMA TotalIsUnits ==
    ASSUME NEW S, IsFiniteSet(S), Amounts(S)
    PROVE  Total(S) = Cardinality(Units(S))
<1>. DEFINE g == [s \in SUBSET S |-> Cardinality(Units(s))]
            h == CHOOSE f : IsTotals(f, S)
<1>1. IsTotals(g, S)
  BY UnitsAreTotals
<1>2. IsTotals(h, S)
  BY <1>1
<1>3. g[S] = Cardinality(Units(S))
  OBVIOUS
<1>4. Total(S) = h[S]
  BY TotalDef
<1>. HIDE DEF g, h
<1>5. g[S] = h[S]
  BY <1>1, <1>2, TotalsAlike
<1>. QED
  BY <1>3, <1>4, <1>5

LEMMA TotalIsNat ==
    ASSUME NEW S, IsFiniteSet(S), Amounts(S)
    PROVE  Total(S) \in Nat
  BY TotalIsUnits, UnitsFinite, FS_CardinalityType

\* A sum of no rows, and of one row more.
LEMMA TotalAdds ==
    /\ Total({}) = 0
    /\ \A S, x : /\ IsFiniteSet(S)
                 /\ Amounts(S)
                 /\ x \notin S
                 /\ x.amount \in Nat
                 => /\ Total(S) \in Nat
                    /\ Total(S \union {x}) = Total(S) + x.amount
<1>1. Total({}) = 0
  <2>1. IsFiniteSet({}) /\ Amounts({}) /\ Units({}) = {} /\ Cardinality({}) = 0
    BY FS_EmptySet DEF Amounts, Units
  <2>. QED
    BY <2>1, TotalIsUnits
<1>2. ASSUME NEW S, NEW x, IsFiniteSet(S), Amounts(S), x \notin S, x.amount \in Nat
      PROVE  /\ Total(S) \in Nat
             /\ Total(S \union {x}) = Total(S) + x.amount
  <2>1. IsFiniteSet(Units(S))
    BY <1>2, UnitsFinite
  <2>2. /\ Total(S) = Cardinality(Units(S))
        /\ Cardinality(Units(S)) \in Nat
    BY <1>2, <2>1, TotalIsUnits, FS_CardinalityType
  <2>3. IsFiniteSet(S \union {x})
    BY <1>2, FS_AddElement
  <2>4. Amounts(S \union {x})
    BY <1>2 DEF Amounts
  <2>5. Total(S \union {x}) = Cardinality(Units(S \union {x}))
    BY <2>3, <2>4, TotalIsUnits
  <2>6. Cardinality(Units(S \union {x})) = Cardinality(Units(S)) + x.amount
    BY <1>2, <2>1, UnitsAdd
  <2>. QED
    BY <2>2, <2>5, <2>6
<1>. QED
  BY <1>1, <1>2

-----------------------------------------------------------------------------
(***************************************************************************)
(* The invariant.  A request that has locked the sender's row is alone     *)
(* with the sender's transfers, so what it read before the move is still   *)
(* true when it moves.                                                     *)
(***************************************************************************)
(* The locks a request needs for its stage are its own.                    *)
HoldsItsRows(q) ==
    /\ treq[q].stage = "lockSecond" => rowLock[FirstRow(q)] = q
    /\ treq[q].stage \in {"read", "move"} => rowLock[treq[q].sender] = q

(* What the lookup and the sum of a request about to move found still      *)
(* holds, a midnight later too.                                            *)
ReadStillTrue(q) ==
    treq[q].stage = "move" =>
        /\ RowsOfKey(q) = {}
        /\ SentSince(treq[q].sender, today) + treq[q].amount <= DailyLimit

AnswerTrue(q) ==
    /\ treq[q].answer \in {"sent", "replayed"} =>
          \E r \in transfers : /\ r.sender = treq[q].sender /\ r.key = treq[q].key
                               /\ r.recipient = treq[q].recipient /\ r.amount = treq[q].amount
    /\ treq[q].answer = "conflict" =>
          \E r \in transfers : /\ r.sender = treq[q].sender /\ r.key = treq[q].key
                               /\ ~(/\ r.recipient = treq[q].recipient
                                    /\ r.amount = treq[q].amount)

RequestOK(q) == HoldsItsRows(q) /\ ReadStillTrue(q) /\ AnswerTrue(q)

SentOn(u, day) == {r \in transfers : r.sender = u /\ r.day = day}

RowsOK ==
    /\ IsFiniteSet(transfers)
    /\ \A r \in transfers : r.day <= today
    /\ KeyPaysOnce
    /\ \A u \in User, day \in Nat : Total(SentOn(u, day)) <= DailyLimit

TransferInv ==
    /\ TransferTypeOK
    /\ LedgerExplainsBalance
    /\ RowsOK
    /\ \A q \in TrReq : RequestOK(q)

-----------------------------------------------------------------------------
(***************************************************************************)
(* Rows and requests.                                                      *)
(***************************************************************************)
LEMMA TransferTypes ==
    ASSUME TransferTypeOK, NEW q \in TrReq
    PROVE  /\ treq[q] \in TrRequest
           /\ treq[q].sender \in User /\ treq[q].recipient \in User
           /\ treq[q].amount \in Nat \ {0} /\ treq[q].key \in TrKey
           /\ treq[q].amount \in TrAmount
           /\ FirstRow(q) \in User /\ SecondRow(q) \in User
           /\ treq[q].sender \in {FirstRow(q), SecondRow(q)}
           /\ q # NoTxn /\ q \in Txn
<1>1. treq[q] \in TrRequest
  BY DEF TransferTypeOK
<1>2. /\ treq[q].sender \in User /\ treq[q].recipient \in User
      /\ treq[q].amount \in TrAmount /\ treq[q].key \in TrKey
  BY <1>1 DEF TrRequest
<1>3. treq[q].amount \in Nat \ {0} /\ q \in Txn /\ q # NoTxn
  BY <1>2, TransferAssumption, WalletAssumption
<1>. QED
  BY <1>1, <1>2, <1>3 DEF FirstRow, SecondRow

LEMMA RowAmounts ==
    ASSUME TransferTypeOK, NEW S \in SUBSET transfers
    PROVE  Amounts(S)
<1>1. \A r \in transfers : r.amount \in TrAmount
  BY DEF TransferTypeOK, TrRow
<1>. QED
  BY <1>1, TransferAssumption DEF Amounts



\* Nothing was sent after today.
LEMMA SentToday ==
    ASSUME TransferTypeOK, RowsOK, NEW u \in User
    PROVE  /\ {r \in transfers : r.sender = u /\ r.day >= today} = SentOn(u, today)
           /\ {r \in transfers : r.sender = u /\ r.day >= today + 1} = {}
<1>1. \A r \in transfers : r.day \in Nat /\ r.day <= today
  BY DEF TransferTypeOK, TrRow, RowsOK
<1>2. today \in Nat
  BY DEF TransferTypeOK
<1>. QED
  BY <1>1, <1>2 DEF SentOn

-----------------------------------------------------------------------------
(***************************************************************************)
(* The steps of a request.                                                 *)
(***************************************************************************)
\* A request moves on: what it asks for does not change.
Moves(q) ==
    /\ treq'[q] \in TrRequest
    /\ treq' \in [TrReq -> TrRequest]
    /\ \A p \in TrReq \ {q} : treq'[p] = treq[p]
    /\ treq'[q].sender = treq[q].sender /\ treq'[q].recipient = treq[q].recipient
    /\ treq'[q].amount = treq[q].amount /\ treq'[q].key = treq[q].key

\* It takes free rows and gives up its own.
OwnLocks(q) ==
    /\ rowLock' \in [User -> Txn \union {NoTxn}]
    /\ \A u \in User : rowLock[u] \in {NoTxn, q} \/ rowLock'[u] = rowLock[u]

LEMMA RowsInOrder == \A q \in TrReq :
    Moves(q) => FirstRow(q)' = FirstRow(q) /\ SecondRow(q)' = SecondRow(q)
  BY DEF Moves, FirstRow, SecondRow

\* A step of one request that writes no row leaves everyone else's facts alone.
LEMMA RequestAlone ==
    ASSUME TransferInv, NEW q \in TrReq,
           UNCHANGED <<wallets, ledger, transfers, active, today>>,
           Moves(q), OwnLocks(q),
           HoldsItsRows(q)', ReadStillTrue(q)', AnswerTrue(q)'
    PROVE  TransferInv'
<1>1. /\ TransferTypeOK /\ LedgerExplainsBalance /\ RowsOK
      /\ \A p \in TrReq : RequestOK(p)
  BY DEF TransferInv
<1>2. /\ wallets' = wallets /\ ledger' = ledger /\ transfers' = transfers
      /\ active' = active /\ today' = today
  OBVIOUS
<1>3. TransferTypeOK' /\ LedgerExplainsBalance'
  <2>1. /\ WalletTypeOK' /\ LedgerExplainsBalance'
    BY <1>1, <1>2
       DEF TransferTypeOK, WalletTypeOK, BooksOK, Books, LedgerExplainsBalance,
           BooksExplained, ClosingBalance, OwnLocks
  <2>. QED
    BY <2>1, <1>1, <1>2 DEF TransferTypeOK, Moves
<1>4. RowsOK'
  BY <1>1, <1>2 DEF RowsOK, KeyPaysOnce, SentOn
<1>5. ASSUME NEW p \in TrReq PROVE RequestOK(p)'
  <2>1. CASE p = q
    BY <2>1 DEF RequestOK
  <2>2. CASE p # q
    <3>1. treq'[p] = treq[p]
      BY <2>2 DEF Moves
    <3>2. HoldsItsRows(p)'
      <4>1. /\ FirstRow(p) \in User /\ treq[p].sender \in User /\ p # NoTxn
        BY <1>1, TransferTypes
      <4>2. \A u \in User : rowLock[u] = p => rowLock'[u] = p
        BY <2>2, <4>1 DEF OwnLocks
      <4>3. FirstRow(p)' = FirstRow(p)
        BY <3>1 DEF FirstRow
      <4>. QED
        BY <1>1, <3>1, <4>1, <4>2, <4>3 DEF RequestOK, HoldsItsRows
    <3>3. ReadStillTrue(p)'
      <4>1. \A u, day : SentSince(u, day)' = SentSince(u, day)
        BY <1>2 DEF SentSince
      <4>2. RowsOfKey(p)' = RowsOfKey(p)
        BY <1>2, <3>1 DEF RowsOfKey
      <4>. QED
        BY <1>1, <1>2, <3>1, <4>1, <4>2 DEF RequestOK, ReadStillTrue
    <3>4. AnswerTrue(p)'
      BY <1>1, <1>2, <3>1 DEF RequestOK, AnswerTrue
    <3>. QED
      BY <3>2, <3>3, <3>4 DEF RequestOK
  <2>. QED
    BY <2>1, <2>2
<1>. QED
  BY <1>3, <1>4, <1>5 DEF TransferInv

\* Locks are taken on free rows and released from own ones.
LEMMA LocksMove ==
    ASSUME TransferTypeOK, NEW q \in TrReq,
           \/ rowLock' = rowLock
           \/ rowLock' = Released(q)
           \/ \E u \in User : RowFree(u, q) /\ rowLock' = Locked(q, {u})
    PROVE  OwnLocks(q)
<1>1. rowLock \in [User -> Txn \union {NoTxn}] /\ q \in Txn
  BY TransferTypes DEF TransferTypeOK, WalletTypeOK
<1>. QED
  BY <1>1 DEF OwnLocks, Released, Locked, RowFree

Answers == {"none", "sent", "replayed", "conflict", "refused", "limit", "insufficient", "busy"}

LEMMA ReplyMoves ==
    ASSUME TransferTypeOK, NEW q \in TrReq, NEW a \in Answers, Reply(q, a)
    PROVE  /\ Moves(q) /\ OwnLocks(q)
           /\ treq'[q].stage = "done" /\ treq'[q].answer = a
           /\ treq'[q].attempt = treq[q].attempt
<1>1. treq' = [treq EXCEPT ![q].stage = "done", ![q].answer = a] /\ rowLock' = Released(q)
  BY DEF Reply
<1>2. treq \in [TrReq -> TrRequest]
  BY DEF TransferTypeOK
<1>3. treq[q] \in TrRequest
  BY <1>2
<1>4. treq'[q] = [treq[q] EXCEPT !.stage = "done", !.answer = a]
  BY <1>1, <1>2
<1>5. /\ treq'[q] \in TrRequest
      /\ treq'[q].stage = "done" /\ treq'[q].answer = a
      /\ treq'[q].sender = treq[q].sender /\ treq'[q].recipient = treq[q].recipient
      /\ treq'[q].amount = treq[q].amount /\ treq'[q].key = treq[q].key
      /\ treq'[q].attempt = treq[q].attempt
  BY <1>3, <1>4 DEF TrRequest, Answers
<1>6. Moves(q)
  BY <1>1, <1>2, <1>5 DEF Moves
<1>. QED
  BY <1>1, <1>5, <1>6, LocksMove

LEMMA GotoMoves ==
    ASSUME TransferTypeOK, NEW q \in TrReq,
           NEW stage \in {"preflight", "lock", "lockSecond", "read"}, Goto(q, stage)
    PROVE  /\ Moves(q)
           /\ treq'[q].stage = stage /\ treq'[q].answer = treq[q].answer
           /\ treq'[q].attempt = treq[q].attempt
<1>1. treq' = [treq EXCEPT ![q].stage = stage]
  BY DEF Goto
<1>2. treq \in [TrReq -> TrRequest]
  BY DEF TransferTypeOK
<1>3. treq[q] \in TrRequest
  BY <1>2
<1>4. treq'[q] = [treq[q] EXCEPT !.stage = stage]
  BY <1>1, <1>2
<1>5. /\ treq'[q] \in TrRequest
      /\ treq'[q].stage = stage /\ treq'[q].answer = treq[q].answer
      /\ treq'[q].sender = treq[q].sender /\ treq'[q].recipient = treq[q].recipient
      /\ treq'[q].amount = treq[q].amount /\ treq'[q].key = treq[q].key
      /\ treq'[q].attempt = treq[q].attempt
  BY <1>3, <1>4 DEF TrRequest
<1>. QED
  BY <1>1, <1>2, <1>5 DEF Moves

LEMMA RetryMoves ==
    ASSUME TransferTypeOK, NEW q \in TrReq, RetryTransfer(q)
    PROVE  /\ Moves(q) /\ OwnLocks(q)
           /\ \/ /\ treq'[q].stage = "preflight" /\ treq'[q].answer = treq[q].answer
                 /\ treq'[q].attempt = treq[q].attempt + 1
              \/ /\ treq'[q].stage = "done" /\ treq'[q].answer = "busy"
                 /\ treq'[q].attempt = treq[q].attempt
<1>1. treq \in [TrReq -> TrRequest]
  BY DEF TransferTypeOK
<1>2. treq[q] \in TrRequest /\ treq[q].attempt \in 0..TrAttempts
  BY <1>1 DEF TrRequest
<1>3. CASE treq[q].attempt < TrAttempts
  <2>1. /\ treq' = [treq EXCEPT ![q].stage = "preflight", ![q].attempt = @ + 1, ![q].sent = 0]
        /\ rowLock' = Released(q)
    BY <1>3 DEF RetryTransfer
  <2>2. treq'[q] = [treq[q] EXCEPT !.stage = "preflight", !.attempt = @ + 1, !.sent = 0]
    BY <2>1, <1>1
  <2>3. treq[q].attempt + 1 \in 0..TrAttempts
    BY <1>2, <1>3, TransferAssumption
  <2>4. /\ treq'[q] \in TrRequest
        /\ treq'[q].stage = "preflight" /\ treq'[q].answer = treq[q].answer
        /\ treq'[q].attempt = treq[q].attempt + 1
        /\ treq'[q].sender = treq[q].sender /\ treq'[q].recipient = treq[q].recipient
        /\ treq'[q].amount = treq[q].amount /\ treq'[q].key = treq[q].key
    <3>. DEFINE next == treq[q].attempt + 1
    <3>1. treq'[q] = [treq[q] EXCEPT !.stage = "preflight", !.attempt = next, !.sent = 0]
      BY <2>2
    <3>2. next \in 0..TrAttempts
      BY <2>3
    <3>3. treq'[q].attempt = next
      BY <1>2, <3>1 DEF TrRequest
    <3>. HIDE DEF next
    <3>4. treq'[q] \in TrRequest
      <4>1. [treq[q] EXCEPT !.stage = "preflight", !.attempt = next] \in TrRequest
        BY <1>2, <3>2 DEF TrRequest
      <4>2. treq'[q] = [[treq[q] EXCEPT !.stage = "preflight", !.attempt = next] EXCEPT !.sent = 0]
        BY <1>2, <3>1 DEF TrRequest
      <4>3. ASSUME NEW r \in TrRequest, NEW n \in Nat PROVE [r EXCEPT !.sent = n] \in TrRequest
        BY DEF TrRequest
      <4>. QED
        BY <4>1, <4>2, <4>3, ZenonT(60)
    <3>5. /\ treq'[q].stage = "preflight" /\ treq'[q].answer = treq[q].answer
          /\ treq'[q].sender = treq[q].sender /\ treq'[q].recipient = treq[q].recipient
          /\ treq'[q].amount = treq[q].amount /\ treq'[q].key = treq[q].key
      BY <1>2, <3>1 DEF TrRequest
    <3>. QED
      BY <3>3, <3>4, <3>5 DEF next
  <2>5. Moves(q)
    BY <1>1, <2>1, <2>4 DEF Moves
  <2>. QED
    BY <2>1, <2>4, <2>5, LocksMove
<1>4. CASE ~(treq[q].attempt < TrAttempts)
  <2>1. Reply(q, "busy")
    BY <1>4 DEF RetryTransfer
  <2>. QED
    BY <2>1, ReplyMoves DEF Answers
<1>. QED
  BY <1>3, <1>4

\* A request that ends with an answer that is true.
LEMMA ReplyStep ==
    ASSUME TransferInv, NEW q \in TrReq, NEW a \in Answers, Reply(q, a),
           UNCHANGED <<wallets, ledger, transfers, active, today>>,
           a \in {"sent", "replayed"} =>
              \E r \in RowsOfKey(q) : SameTransfer(q, r),
           a = "conflict" =>
              \E r \in RowsOfKey(q) : ~SameTransfer(q, r)
    PROVE  TransferInv'
<1>1. TransferTypeOK
  BY DEF TransferInv
<1>2. /\ Moves(q) /\ OwnLocks(q) /\ treq'[q].stage = "done" /\ treq'[q].answer = a
  BY <1>1, ReplyMoves
<1>3. HoldsItsRows(q)' /\ ReadStillTrue(q)'
  BY <1>2 DEF HoldsItsRows, ReadStillTrue
<1>4. AnswerTrue(q)'
  BY <1>2 DEF AnswerTrue, RowsOfKey, SameTransfer, Moves
<1>. QED
  BY <1>2, <1>3, <1>4, RequestAlone

\* A request that starts over, or gives up.
LEMMA RetryStep ==
    ASSUME TransferInv, NEW q \in TrReq, RetryTransfer(q),
           UNCHANGED <<wallets, ledger, transfers, active, today>>
    PROVE  TransferInv'
<1>1. TransferTypeOK /\ AnswerTrue(q)
  BY DEF TransferInv, RequestOK
<1>2. /\ Moves(q) /\ OwnLocks(q) /\ treq'[q].stage \in {"preflight", "done"}
      /\ treq'[q].answer \in {treq[q].answer, "busy"}
  BY <1>1, RetryMoves
<1>3. HoldsItsRows(q)' /\ ReadStillTrue(q)'
  BY <1>2 DEF HoldsItsRows, ReadStillTrue
<1>4. AnswerTrue(q)'
  BY <1>1, <1>2 DEF AnswerTrue, Moves
<1>. QED
  BY <1>2, <1>3, <1>4, RequestAlone

\* The stages before the read change no row, and take the two locks in turn.
LEMMA EarlyStep ==
    ASSUME TransferInv, NEW q \in TrReq,
           SubmitTransfer(q) \/ Preflight(q) \/ LockFirst(q) \/ LockSecond(q)
    PROVE  TransferInv'
<1>1. /\ TransferTypeOK /\ HoldsItsRows(q) /\ AnswerTrue(q)
      /\ treq \in [TrReq -> TrRequest] /\ treq[q] \in TrRequest
      /\ rowLock \in [User -> Txn \union {NoTxn}]
  BY DEF TransferInv, RequestOK, TransferTypeOK, WalletTypeOK
<1>2. CASE SubmitTransfer(q)
  <2>1. /\ treq' = [treq EXCEPT ![q].stage = "preflight", ![q].attempt = 1]
        /\ UNCHANGED <<walletVars, transfers, active, today>>
    BY <1>2 DEF SubmitTransfer
  <2>2. treq'[q] = [treq[q] EXCEPT !.stage = "preflight", !.attempt = 1]
    BY <1>1, <2>1
  <2>3. /\ treq'[q] \in TrRequest
        /\ treq'[q].stage = "preflight" /\ treq'[q].answer = treq[q].answer
        /\ treq'[q].sender = treq[q].sender /\ treq'[q].recipient = treq[q].recipient
        /\ treq'[q].amount = treq[q].amount /\ treq'[q].key = treq[q].key
    <3>1. 1 \in 0..TrAttempts
      BY TransferAssumption
    <3>. QED
      BY <1>1, <2>2, <3>1 DEF TrRequest
  <2>4. Moves(q)
    BY <1>1, <2>1, <2>3 DEF Moves
  <2>5. OwnLocks(q) /\ UNCHANGED <<wallets, ledger, transfers, active, today>>
    BY <1>1, <2>1, LocksMove DEF walletVars
  <2>6. HoldsItsRows(q)' /\ ReadStillTrue(q)'
    BY <2>3 DEF HoldsItsRows, ReadStillTrue
  <2>7. AnswerTrue(q)'
    BY <1>1, <2>3, <2>5 DEF AnswerTrue
  <2>. QED
    BY <2>4, <2>5, <2>6, <2>7, RequestAlone
<1>3. CASE Preflight(q)
  <2>1. UNCHANGED <<wallets, ledger, transfers, active, today>>
    BY <1>3 DEF Preflight
  <2>2. CASE Reply(q, "refused")
    BY <2>1, <2>2, ReplyStep DEF Answers
  <2>3. CASE Goto(q, "lock") /\ UNCHANGED rowLock
    <3>1. /\ Moves(q) /\ OwnLocks(q)
          /\ treq'[q].stage = "lock" /\ treq'[q].answer = treq[q].answer
      BY <1>1, <2>3, GotoMoves, LocksMove
    <3>2. HoldsItsRows(q)' /\ ReadStillTrue(q)'
      BY <3>1 DEF HoldsItsRows, ReadStillTrue
    <3>3. AnswerTrue(q)'
      BY <1>1, <2>1, <3>1 DEF AnswerTrue, Moves
    <3>. QED
      BY <2>1, <3>1, <3>2, <3>3, RequestAlone
  <2>. QED
    BY <1>3, <2>2, <2>3 DEF Preflight
<1>4. CASE LockFirst(q)
  <2>1. /\ Goto(q, "lockSecond") /\ RowFree(FirstRow(q), q)
        /\ rowLock' = Locked(q, {FirstRow(q)})
        /\ UNCHANGED <<wallets, ledger, transfers, active, today>>
    BY <1>4 DEF LockFirst, LockRow
  <2>2. FirstRow(q) \in User
    BY <1>1, TransferTypes
  <2>3. /\ Moves(q) /\ OwnLocks(q)
        /\ treq'[q].stage = "lockSecond" /\ treq'[q].answer = treq[q].answer
    BY <1>1, <2>1, <2>2, GotoMoves, LocksMove
  <2>4. HoldsItsRows(q)' /\ ReadStillTrue(q)'
    <3>1. rowLock'[FirstRow(q)] = q
      BY <2>1, <2>2 DEF Locked
    <3>2. FirstRow(q)' = FirstRow(q)
      BY <2>3, RowsInOrder
    <3>. QED
      BY <2>3, <3>1, <3>2 DEF HoldsItsRows, ReadStillTrue
  <2>5. AnswerTrue(q)'
    BY <1>1, <2>1, <2>3 DEF AnswerTrue, Moves
  <2>. QED
    BY <2>1, <2>3, <2>4, <2>5, RequestAlone
<1>5. CASE LockSecond(q)
  <2>1. /\ treq[q].stage = "lockSecond"
        /\ Goto(q, "read") /\ RowFree(SecondRow(q), q)
        /\ rowLock' = Locked(q, {SecondRow(q)})
        /\ UNCHANGED <<wallets, ledger, transfers, active, today>>
    BY <1>5 DEF LockSecond, LockRow
  <2>2. /\ FirstRow(q) \in User /\ SecondRow(q) \in User
        /\ treq[q].sender \in {FirstRow(q), SecondRow(q)}
    BY <1>1, TransferTypes
  <2>3. /\ Moves(q) /\ OwnLocks(q)
        /\ treq'[q].stage = "read" /\ treq'[q].answer = treq[q].answer
    BY <1>1, <2>1, <2>2, GotoMoves, LocksMove
  <2>4. HoldsItsRows(q)' /\ ReadStillTrue(q)'
    <3>1. rowLock[FirstRow(q)] = q
      BY <1>1, <2>1 DEF HoldsItsRows
    <3>2. rowLock'[FirstRow(q)] = q /\ rowLock'[SecondRow(q)] = q
      BY <2>1, <2>2, <3>1 DEF Locked
    <3>3. rowLock'[treq[q].sender] = q
      BY <2>2, <3>2
    <3>. QED
      BY <2>3, <3>3 DEF HoldsItsRows, ReadStillTrue, Moves
  <2>5. AnswerTrue(q)'
    BY <1>1, <2>1, <2>3 DEF AnswerTrue, Moves
  <2>. QED
    BY <2>1, <2>3, <2>4, <2>5, RequestAlone
<1>. QED
  BY <1>2, <1>3, <1>4, <1>5

\* The lookup and the sum, with the sender's row locked.
LEMMA ReadStep ==
    ASSUME TransferInv, NEW q \in TrReq, ReadUnderLock(q)
    PROVE  TransferInv'
<1>1. /\ TransferTypeOK /\ HoldsItsRows(q) /\ AnswerTrue(q) /\ RowsOK
      /\ treq \in [TrReq -> TrRequest] /\ treq[q] \in TrRequest
      /\ treq[q].stage = "read"
      /\ UNCHANGED <<wallets, ledger, transfers, active, today>>
  BY DEF TransferInv, RequestOK, TransferTypeOK, ReadUnderLock
<1>. DEFINE sent == SentSince(treq[q].sender, today)
<1>2. CASE \E r \in RowsOfKey(q) :
              Reply(q, IF SameTransfer(q, r) THEN "replayed" ELSE "conflict")
  <2>1. PICK r \in RowsOfKey(q) :
              Reply(q, IF SameTransfer(q, r) THEN "replayed" ELSE "conflict")
    BY <1>2
  <2>2. CASE SameTransfer(q, r)
    BY <1>1, <2>1, <2>2, ReplyStep DEF Answers
  <2>3. CASE ~SameTransfer(q, r)
    BY <1>1, <2>1, <2>3, ReplyStep DEF Answers
  <2>. QED
    BY <2>2, <2>3
<1>3. CASE Reply(q, "limit")
  BY <1>1, <1>3, ReplyStep DEF Answers
<1>4. CASE /\ RowsOfKey(q) = {}
           /\ sent + treq[q].amount <= DailyLimit
           /\ treq' = [treq EXCEPT ![q].stage = "move", ![q].sent = sent]
           /\ UNCHANGED rowLock
  <2>1. sent \in Nat
    <3>. DEFINE rows == {r \in transfers : r.sender = treq[q].sender /\ r.day >= today}
    <3>1. rows \in SUBSET transfers
      OBVIOUS
    <3>. HIDE DEF rows
    <3>2. IsFiniteSet(rows) /\ Amounts(rows)
      BY <1>1, <3>1, FS_Subset, RowAmounts DEF RowsOK
    <3>3. Total(rows) \in Nat
      BY <3>2, TotalIsNat
    <3>. QED
      BY <3>3 DEF rows, SentSince
  <2>2. PICK n \in Nat : n = sent
    BY <2>1
  <2>3. /\ treq'[q] \in TrRequest
        /\ treq'[q].stage = "move" /\ treq'[q].answer = treq[q].answer
        /\ treq'[q].sender = treq[q].sender /\ treq'[q].recipient = treq[q].recipient
        /\ treq'[q].amount = treq[q].amount /\ treq'[q].key = treq[q].key
    <3>1. treq'[q] = [treq[q] EXCEPT !.stage = "move", !.sent = n]
      BY <1>1, <1>4, <2>2
    <3>. HIDE DEF sent
    <3>. QED
      BY <1>1, <3>1 DEF TrRequest
  <2>4. Moves(q)
    <3>1. \A p \in TrReq \ {q} : treq'[p] = treq[p]
      BY <1>1, <1>4
    <3>2. treq' = [treq EXCEPT ![q] = treq'[q]]
      BY <1>1, <1>4
    <3>3. treq' \in [TrReq -> TrRequest]
      BY <1>1, <2>3, <3>2
    <3>. QED
      BY <2>3, <3>1, <3>3 DEF Moves
  <2>5. OwnLocks(q)
    BY <1>1, <1>4, LocksMove
  <2>6. HoldsItsRows(q)'
    BY <1>1, <1>4, <2>3 DEF HoldsItsRows
  <2>7. ReadStillTrue(q)'
    <3>1. \A u, day : SentSince(u, day)' = SentSince(u, day)
      BY <1>1 DEF SentSince
    <3>2. RowsOfKey(q)' = RowsOfKey(q)
      BY <1>1, <2>3 DEF RowsOfKey
    <3>. QED
      BY <1>1, <1>4, <2>3, <3>1, <3>2 DEF ReadStillTrue
  <2>8. AnswerTrue(q)'
    BY <1>1, <2>3 DEF AnswerTrue
  <2>. QED
    BY <1>1, <2>4, <2>5, <2>6, <2>7, <2>8, RequestAlone
<1>. QED
  BY <1>2, <1>3, <1>4 DEF ReadUnderLock

\* The two movements of a transfer.
LEMMA MoneyMoved ==
    ASSUME TransferTypeOK, LedgerExplainsBalance, NEW q \in TrReq, MoveMoney(q),
           rowLock' \in [User -> Txn \union {NoTxn}]
    PROVE  WalletTypeOK' /\ LedgerExplainsBalance'
<1>. DEFINE out == SendDebit(q)
            in == ReceiveCredit(q)
            mid == Post(Books, out)
<1>1. /\ CanMove(Books, out)
      /\ wallets' = Post(mid, in).bal /\ ledger' = Post(mid, in).log
  BY DEF MoveMoney, Commit
<1>2. out \in Move /\ in \in Move /\ in.amount > 0 /\ in.direction = "CREDIT"
  BY TransferTypes
     DEF SendDebit, ReceiveCredit, Debit, Credit, Move, Bucket, Direction, TxType
<1>3. BooksOK(Books) /\ BooksExplained(Books)
  BY DEF TransferTypeOK, WalletTypeOK, LedgerExplainsBalance
<1>. HIDE DEF out, in
<1>4. BooksOK(mid) /\ BooksExplained(mid)
  BY <1>1, <1>2, <1>3, PostBooks, PostExplained
<1>5. CanMove(mid, in)
  BY <1>2 DEF CanMove
<1>. HIDE DEF mid
<1>6. BooksOK(Post(mid, in)) /\ BooksExplained(Post(mid, in))
  BY <1>2, <1>4, <1>5, PostBooks, PostExplained
<1>7. Books' = [bal |-> Post(mid, in).bal, log |-> Post(mid, in).log]
  BY <1>1 DEF Books
<1>8. Post(mid, in) = [bal |-> Post(mid, in).bal, log |-> Post(mid, in).log]
  BY DEF Post
<1>. QED
  BY <1>6, <1>7, <1>8 DEF WalletTypeOK, LedgerExplainsBalance

\* The row of a transfer is the first of its key and fits under the limit.
LEMMA RowWritten ==
    ASSUME TransferTypeOK, RowsOK, NEW q \in TrReq, ReadStillTrue(q),
           treq[q].stage = "move", today' = today,
           NEW row \in TrRow, transfers' = transfers \union {row},
           row.sender = treq[q].sender, row.amount = treq[q].amount,
           row.key = treq[q].key, row.day = today
    PROVE  RowsOK'
<1>1. /\ RowsOfKey(q) = {}
      /\ SentSince(treq[q].sender, today) + treq[q].amount <= DailyLimit
  BY DEF ReadStillTrue
<1>2. row \notin transfers
  BY <1>1 DEF RowsOfKey
<1>3. IsFiniteSet(transfers')
  BY FS_AddElement DEF RowsOK
<1>4. \A r \in transfers' : r.day <= today'
  BY DEF RowsOK, TransferTypeOK
<1>5. KeyPaysOnce'
  BY <1>1 DEF RowsOK, KeyPaysOnce, RowsOfKey
<1>6. ASSUME NEW u \in User, NEW day \in Nat PROVE Total(SentOn(u, day)') <= DailyLimit
  <2>1. CASE u = row.sender /\ day = today
    <3>1. SentOn(u, day)' = SentOn(u, day) \union {row}
      BY <2>1 DEF SentOn
    <3>2. SentOn(u, day) \in SUBSET transfers /\ row \notin SentOn(u, day)
      BY <1>2 DEF SentOn
    <3>3. IsFiniteSet(SentOn(u, day)) /\ Amounts(SentOn(u, day))
      BY <3>2, FS_Subset, RowAmounts DEF RowsOK
    <3>4. row.amount \in Nat
      BY TransferTypes
    <3>5. Total(SentOn(u, day) \union {row}) = Total(SentOn(u, day)) + row.amount
      BY <3>2, <3>3, <3>4, TotalAdds
    <3>6. SentSince(treq[q].sender, today) = Total(SentOn(u, day))
      BY <2>1, SentToday DEF SentSince
    <3>. QED
      BY <1>1, <3>1, <3>5, <3>6
  <2>2. CASE ~(u = row.sender /\ day = today)
    <3>1. SentOn(u, day)' = SentOn(u, day)
      BY <2>2 DEF SentOn
    <3>. QED
      BY <3>1 DEF RowsOK
  <2>. QED
    BY <2>1, <2>2
<1>. QED
  BY <1>3, <1>4, <1>5, <1>6 DEF RowsOK

\* The move: the requests of other senders read nothing that it changes, and
\* no other request of the sender is past its locks.
LEMMA MoveStep ==
    ASSUME TransferInv, NEW q \in TrReq, MoveMoney(q), Moves(q), OwnLocks(q),
           treq'[q].stage \in {"preflight", "done"},
           treq'[q].answer \in {treq[q].answer, "busy", "sent"}
    PROVE  TransferInv'
<1>1. /\ TransferTypeOK /\ LedgerExplainsBalance /\ RowsOK
      /\ \A p \in TrReq : RequestOK(p)
      /\ HoldsItsRows(q) /\ ReadStillTrue(q) /\ AnswerTrue(q)
  BY DEF TransferInv, RequestOK
<1>. DEFINE row == [sender |-> treq[q].sender, recipient |-> treq[q].recipient,
                    amount |-> treq[q].amount, key |-> treq[q].key, day |-> today,
                    sentAt |-> Len(ledger[treq[q].sender]["CASH"]) + 1,
                    receivedAt |-> Len(ledger[treq[q].recipient]["CASH"]) + 1]
<1>2. /\ treq[q].stage = "move" /\ transfers' = transfers \union {row}
      /\ active' = active /\ today' = today
  BY DEF MoveMoney
<1>3. row \in TrRow
  <2>1. ledger \in [User -> [Bucket -> Seq(Entry)]] /\ "CASH" \in Bucket
    BY <1>1 DEF TransferTypeOK, WalletTypeOK, BooksOK, Books, Bucket
  <2>2. \A u \in User : Len(ledger[u]["CASH"]) + 1 \in Nat
    <3>. SUFFICES ASSUME NEW u \in User PROVE Len(ledger[u]["CASH"]) + 1 \in Nat
      OBVIOUS
    <3>1. ledger[u]["CASH"] \in Seq(Entry)
      BY <2>1
    <3>. QED
      BY <3>1
  <2>3. today \in Nat
    BY <1>1 DEF TransferTypeOK
  <2>4. /\ treq[q].sender \in User /\ treq[q].recipient \in User
        /\ treq[q].amount \in TrAmount /\ treq[q].key \in TrKey
    BY <1>1, TransferTypes
  <2>5. PICK m \in Nat, n \in Nat :
            /\ m = Len(ledger[treq[q].sender]["CASH"]) + 1
            /\ n = Len(ledger[treq[q].recipient]["CASH"]) + 1
    BY <2>2, <2>4
  <2>. QED
    BY <2>3, <2>4, <2>5 DEF TrRow
<1>4. /\ row.sender = treq[q].sender /\ row.recipient = treq[q].recipient
      /\ row.amount = treq[q].amount /\ row.key = treq[q].key /\ row.day = today
  OBVIOUS
<1>. HIDE DEF row
<1>5. WalletTypeOK' /\ LedgerExplainsBalance'
  BY <1>1, MoneyMoved DEF OwnLocks
<1>6. TransferTypeOK'
  BY <1>1, <1>2, <1>3, <1>5 DEF TransferTypeOK, Moves
<1>7. RowsOK'
  BY <1>1, <1>2, <1>3, <1>4, RowWritten
<1>8. ASSUME NEW p \in TrReq PROVE RequestOK(p)'
  <2>1. CASE p = q
    <3>1. HoldsItsRows(q)' /\ ReadStillTrue(q)'
      BY DEF HoldsItsRows, ReadStillTrue
    <3>2. AnswerTrue(q)'
      BY <1>1, <1>2, <1>4 DEF AnswerTrue, Moves
    <3>. QED
      BY <2>1, <3>1, <3>2 DEF RequestOK
  <2>2. CASE p # q
    <3>1. treq'[p] = treq[p] /\ RequestOK(p)
      BY <1>1, <2>2 DEF Moves
    <3>2. HoldsItsRows(p)'
      <4>1. /\ FirstRow(p) \in User /\ treq[p].sender \in User /\ p # NoTxn
        BY <1>1, TransferTypes
      <4>2. \A u \in User : rowLock[u] = p => rowLock'[u] = p
        BY <2>2, <4>1 DEF OwnLocks
      <4>3. FirstRow(p)' = FirstRow(p)
        BY <3>1 DEF FirstRow
      <4>. QED
        BY <3>1, <4>1, <4>2, <4>3 DEF RequestOK, HoldsItsRows
    <3>3. ASSUME treq[p].stage = "move" PROVE ReadStillTrue(p)'
      <4>1. treq[p].sender # row.sender
        BY <1>1, <1>2, <1>4, <2>2, <3>1, <3>3 DEF RequestOK, HoldsItsRows
      <4>2. RowsOfKey(p)' = RowsOfKey(p)
        BY <1>2, <3>1, <4>1 DEF RowsOfKey
      <4>3. PICK u : u = treq[p].sender
        OBVIOUS
      <4>4. SentSince(u, today)' = SentSince(u, today)
        <5>1. {r \in transfers' : r.sender = u /\ r.day >= today'}
                = {r \in transfers : r.sender = u /\ r.day >= today}
          BY <1>2, <4>1, <4>3
        <5>. QED
          BY <5>1 DEF SentSince
      <4>. QED
        BY <1>2, <3>1, <4>2, <4>3, <4>4 DEF RequestOK, ReadStillTrue
    <3>4. treq[p].stage # "move" => ReadStillTrue(p)'
      BY <3>1 DEF ReadStillTrue
    <3>5. AnswerTrue(p)'
      BY <1>2, <3>1 DEF RequestOK, AnswerTrue
    <3>. QED
      BY <3>2, <3>3, <3>4, <3>5 DEF RequestOK
  <2>. QED
    BY <2>1, <2>2
<1>. QED
  BY <1>5, <1>6, <1>7, <1>8 DEF TransferInv

\* The rest of a transaction's ends: the move with its answer heard or lost,
\* the overdraft, a transient error, a crash.
LEMMA LateStep ==
    ASSUME TransferInv, NEW q \in TrReq,
           \/ MoveAndCommit(q) \/ TransferResponseLost(q) \/ RefuseOverdraft(q)
           \/ TransferFails(q) \/ TransferDies(q)
    PROVE  TransferInv'
<1>1. TransferTypeOK
  BY DEF TransferInv
<1>2. CASE MoveAndCommit(q)
  <2>1. MoveMoney(q) /\ Reply(q, "sent")
    BY <1>2 DEF MoveAndCommit
  <2>. QED
    BY <1>1, <2>1, ReplyMoves, MoveStep DEF Answers
<1>3. CASE TransferResponseLost(q)
  <2>1. MoveMoney(q) /\ RetryTransfer(q)
    BY <1>3 DEF TransferResponseLost
  <2>2. /\ Moves(q) /\ OwnLocks(q) /\ treq'[q].stage \in {"preflight", "done"}
        /\ treq'[q].answer \in {treq[q].answer, "busy"}
    BY <1>1, <2>1, RetryMoves
  <2>. QED
    BY <2>1, <2>2, MoveStep
<1>4. CASE RefuseOverdraft(q)
  BY <1>4, ReplyStep DEF RefuseOverdraft, Answers
<1>5. CASE TransferFails(q)
  BY <1>5, RetryStep DEF TransferFails
<1>6. CASE TransferDies(q)
  BY <1>6, ReplyStep DEF TransferDies, Answers
<1>. QED
  BY <1>2, <1>3, <1>4, <1>5, <1>6

\* Conversions, adjustments and changes of a user's status touch no request
\* and no row.
LEMMA OtherStep ==
    ASSUME TransferInv, WalletStep \/ UNCHANGED walletVars,
           active' \subseteq User, UNCHANGED <<transfers, treq, today>>
    PROVE  TransferInv'
<1>1. /\ TransferTypeOK /\ LedgerExplainsBalance /\ RowsOK
      /\ \A p \in TrReq : RequestOK(p)
      /\ transfers' = transfers /\ treq' = treq /\ today' = today
  BY DEF TransferInv
<1>2. WalletTypeOK' /\ LedgerExplainsBalance' /\ rowLock' = rowLock
  <2>1. CASE WalletStep
    BY <1>1, <2>1, WalletStepEffect DEF TransferTypeOK
  <2>2. CASE UNCHANGED walletVars
    BY <1>1, <2>2
       DEF walletVars, TransferTypeOK, WalletTypeOK, BooksOK, Books,
           LedgerExplainsBalance, BooksExplained, ClosingBalance
  <2>. QED
    BY <2>1, <2>2
<1>3. TransferTypeOK' /\ RowsOK'
  BY <1>1, <1>2 DEF TransferTypeOK, RowsOK, KeyPaysOnce, SentOn
<1>4. ASSUME NEW p \in TrReq PROVE RequestOK(p)'
  <2>1. \A u, day : SentSince(u, day)' = SentSince(u, day)
    BY <1>1 DEF SentSince
  <2>2. RowsOfKey(p)' = RowsOfKey(p) /\ FirstRow(p)' = FirstRow(p)
    BY <1>1 DEF RowsOfKey, FirstRow
  <2>3. HoldsItsRows(p)' /\ ReadStillTrue(p)'
    BY <1>1, <1>2, <2>1, <2>2 DEF RequestOK, HoldsItsRows, ReadStillTrue
  <2>4. AnswerTrue(p)'
    BY <1>1 DEF RequestOK, AnswerTrue
  <2>. QED
    BY <2>3, <2>4 DEF RequestOK
<1>. QED
  BY <1>2, <1>3, <1>4 DEF TransferInv

\* Midnight: a sum read before it was for a day that is over, and nothing is
\* written for the new one yet.
LEMMA MidnightStep ==
    ASSUME TransferInv, NextDay
    PROVE  TransferInv'
<1>1. /\ TransferTypeOK /\ LedgerExplainsBalance /\ RowsOK
      /\ \A p \in TrReq : RequestOK(p)
      /\ transfers' = transfers /\ treq' = treq /\ active' = active /\ today' = today + 1
      /\ wallets' = wallets /\ ledger' = ledger /\ rowLock' = rowLock
  BY DEF TransferInv, NextDay, walletVars
<1>2. today \in Nat
  BY <1>1 DEF TransferTypeOK
<1>3. WalletTypeOK' /\ LedgerExplainsBalance'
  BY <1>1 DEF TransferTypeOK, WalletTypeOK, BooksOK, Books,
              LedgerExplainsBalance, BooksExplained, ClosingBalance
<1>4. TransferTypeOK'
  BY <1>1, <1>2, <1>3 DEF TransferTypeOK
<1>5. RowsOK'
  <2>1. \A r \in transfers' : r.day <= today'
    <3>1. \A r \in transfers : r.day \in Nat /\ r.day <= today
      BY <1>1 DEF RowsOK, TransferTypeOK, TrRow
    <3>. QED
      BY <1>1, <1>2, <3>1
  <2>. QED
    BY <1>1, <2>1 DEF RowsOK, KeyPaysOnce, SentOn
<1>6. ASSUME NEW p \in TrReq PROVE RequestOK(p)'
  <2>1. HoldsItsRows(p)' /\ AnswerTrue(p)'
    BY <1>1 DEF RequestOK, HoldsItsRows, AnswerTrue, FirstRow
  <2>2. ASSUME treq[p].stage = "move" PROVE ReadStillTrue(p)'
    <3>1. RowsOfKey(p)' = RowsOfKey(p)
      BY <1>1 DEF RowsOfKey
    <3>2. PICK u : u = treq[p].sender
      OBVIOUS
    <3>3. u \in User /\ treq[p].amount \in Nat
      BY <1>1, <3>2, TransferTypes
    <3>4. SentSince(u, today)' = 0
      <4>1. {r \in transfers' : r.sender = u /\ r.day >= today'} = {}
        BY <1>1, <3>3, SentToday
      <4>. QED
        BY <4>1, TotalAdds DEF SentSince
    <3>5. SentSince(u, today) \in Nat
      <4>1. SentOn(u, today) \in SUBSET transfers
        BY DEF SentOn
      <4>2. IsFiniteSet(SentOn(u, today)) /\ Amounts(SentOn(u, today))
        BY <1>1, <4>1, FS_Subset, RowAmounts DEF RowsOK
      <4>. QED
        BY <1>1, <3>3, <4>2, SentToday, TotalIsNat DEF SentSince
    <3>6. /\ RowsOfKey(p) = {}
          /\ SentSince(u, today) + treq[p].amount <= DailyLimit
      BY <1>1, <2>2, <3>2 DEF RequestOK, ReadStillTrue
    <3>7. 0 + treq[p].amount <= DailyLimit
      BY <3>3, <3>5, <3>6, TransferAssumption
    <3>. QED
      BY <1>1, <3>1, <3>2, <3>4, <3>6, <3>7 DEF ReadStillTrue
  <2>3. treq[p].stage # "move" => ReadStillTrue(p)'
    BY <1>1 DEF ReadStillTrue
  <2>. QED
    BY <2>1, <2>2, <2>3 DEF RequestOK
<1>. QED
  BY <1>3, <1>4, <1>5, <1>6 DEF TransferInv

LEMMA TransferInitial == ASSUME TransferInit PROVE TransferInv
<1>1. /\ wallets = Opening /\ ledger = [u \in User |-> [b \in Bucket |-> <<>>]]
      /\ rowLock = [u \in User |-> NoTxn]
      /\ transfers = {} /\ active = User /\ today = 0
      /\ treq \in [TrReq ->
             [stage : {"new"}, sender : User, recipient : User, amount : TrAmount,
              key : TrKey, attempt : {0}, sent : {0}, answer : {"none"}]]
  BY DEF TransferInit, WalletInit
<1>2. \A q \in TrReq : treq[q] \in TrRequest /\ treq[q].stage = "new" /\ treq[q].answer = "none"
  <2>1. 0 \in 0..TrAttempts
    BY TransferAssumption
  <2>. QED
    BY <1>1, <2>1 DEF TrRequest
<1>3. TransferTypeOK
  BY <1>1, <1>2, WalletAssumption DEF TransferTypeOK, WalletTypeOK, BooksOK, Books
<1>4. LedgerExplainsBalance
  BY <1>1 DEF LedgerExplainsBalance, BooksExplained, Books, ClosingBalance
<1>5. RowsOK
  <2>1. IsFiniteSet(transfers)
    BY <1>1, FS_EmptySet
  <2>2. \A u \in User, day \in Nat : SentOn(u, day) = {}
    BY <1>1 DEF SentOn
  <2>3. Total({}) = 0
    BY TotalAdds
  <2>4. \A u \in User, day \in Nat : Total(SentOn(u, day)) <= DailyLimit
    BY <2>2, <2>3, TransferAssumption
  <2>5. KeyPaysOnce /\ \A r \in transfers : r.day <= today
    BY <1>1 DEF KeyPaysOnce
  <2>. QED
    BY <2>1, <2>4, <2>5 DEF RowsOK
<1>6. \A q \in TrReq : RequestOK(q)
  BY <1>2 DEF RequestOK, HoldsItsRows, ReadStillTrue, AnswerTrue
<1>. QED
  BY <1>3, <1>4, <1>5, <1>6 DEF TransferInv

LEMMA TransferNextKeeps == ASSUME TransferInv, [TransferNext]_trVars PROVE TransferInv'
<1>1. ASSUME NEW q \in TrReq,
             \/ SubmitTransfer(q) \/ TransferRequestStep(q)
             \/ TransferResponseLost(q) \/ TransferFails(q) \/ TransferDies(q)
      PROVE  TransferInv'
  BY <1>1, EarlyStep, ReadStep, LateStep DEF TransferRequestStep
<1>2. ASSUME NEW u \in Moderated, SetUserStatus(u) PROVE TransferInv'
  <2>1. active \subseteq User /\ u \in User
    BY TransferAssumption DEF TransferInv, TransferTypeOK
  <2>2. active' \subseteq User /\ UNCHANGED <<walletVars, transfers, treq, today>>
    BY <1>2, <2>1 DEF SetUserStatus
  <2>. QED
    BY <2>2, OtherStep
<1>3. CASE NextDay
  BY <1>3, MidnightStep
<1>4. CASE WalletStep /\ UNCHANGED transferVars
  BY <1>4, OtherStep DEF transferVars, TransferInv, TransferTypeOK
<1>5. CASE UNCHANGED trVars
  BY <1>5, OtherStep DEF trVars, transferVars, TransferInv, TransferTypeOK
<1>. QED
  BY <1>1, <1>2, <1>3, <1>4, <1>5 DEF TransferNext, TransferStep

\* Whatever requests, retries, crashes, midnights and conversions do, in any
\* order: the invariant holds.
THEOREM TransferInductive == TransferSpec => []TransferInv
<1>1. TransferInit => TransferInv
  BY TransferInitial
<1>2. TransferInv /\ [TransferNext]_trVars => TransferInv'
  BY TransferNextKeeps
<1>. QED
  BY <1>1, <1>2, PTL DEF TransferSpec

-----------------------------------------------------------------------------
(***************************************************************************)
(* The properties of the transfers.                                        *)
(***************************************************************************)
(* No transfer or conversion overdraws a wallet.                           *)
THEOREM TransferTypesKept == TransferSpec => []TransferTypeOK
  BY TransferInductive, PTL DEF TransferInv

(* Reading the ledger explains the balances, transfers included.           *)
THEOREM TransferLedger == TransferSpec => []LedgerExplainsBalance
  BY TransferInductive, PTL DEF TransferInv

(* However many requests run, fail and straddle midnight, nobody sends     *)
(* more than the daily limit on one day.                                   *)
THEOREM TransferLimit == TransferSpec => []DailyLimitKept
<1>1. TransferInv => DailyLimitKept
  BY DEF TransferInv, RowsOK, SentOn, DailyLimitKept
<1>. QED
  BY <1>1, TransferInductive, PTL

(* A request id moves a sender's money at most once.                       *)
THEOREM TransferOncePerKey == TransferSpec => []KeyPaysOnce
<1>1. TransferInv => KeyPaysOnce
  BY DEF TransferInv, RowsOK
<1>. QED
  BY <1>1, TransferInductive, PTL

(* What a sender is told is true of the rows.                              *)
THEOREM TransferAnswers == TransferSpec => []TransferAnswersAreTrue
<1>1. TransferInv => TransferAnswersAreTrue
  BY DEF TransferInv, RequestOK, AnswerTrue, TransferAnswersAreTrue
<1>. QED
  BY <1>1, TransferInductive, PTL

-----------------------------------------------------------------------------
(***************************************************************************)
(* The page.  Its steps are steps of the transfers or change none of their *)
(* state, so what holds of the transfers holds behind the page.            *)
(***************************************************************************)
LEMMA PageStepAlone == [PageNext]_<<trVars, pageVars>> => [TransferNext]_trVars
<1>. SUFFICES ASSUME [PageNext]_<<trVars, pageVars>> PROVE [TransferNext]_trVars
  OBVIOUS
<1>1. ASSUME NEW q \in TrReq, confirm(q) PROVE TransferNext
  BY <1>1 DEF confirm, TransferNext, TransferStep
<1>2. CASE Hear \/ LoseAnswer \/ StartOver
  BY <1>2 DEF Hear, LoseAnswer, StartOver
<1>3. CASE UNCHANGED <<trVars, pageVars>>
  BY <1>3
<1>. QED
  BY <1>1, <1>2, <1>3 DEF PageNext

(* Whoever pays through the page pays under the rules of the transfers.    *)
THEOREM PageImplementsTransfers == PageSpec => TransferSpec
<1>1. PageInit => TransferInit
  BY DEF PageInit
<1>. QED
  BY <1>1, PageStepAlone, PTL DEF PageSpec, TransferSpec

-----------------------------------------------------------------------------
(***************************************************************************)
(* A form is paid once.  The invariant follows a request of the page: its  *)
(* key is its own, so a row with that key is its row; and if there is one, *)
(* the answer says so, unless the page missed it or the request had to be  *)
(* tried again.                                                            *)
(***************************************************************************)
Submitted(q) == treq[q].stage # "new"

\* An answer ends a request; an attempt has been made once it is sent.
Stages(q) ==
    /\ treq[q].answer # "none" => treq[q].stage = "done"
    /\ Submitted(q) => treq[q].attempt >= 1

RowOfRequest(r, q) ==
    /\ r.sender = treq[q].sender /\ r.key = treq[q].key
    /\ r.recipient = treq[q].recipient /\ r.amount = treq[q].amount

KeysOfPage ==
    \A p, q \in OfPage :
        Submitted(p) /\ Submitted(q) /\ treq[p].key = treq[q].key => p = q

RowsOfPage ==
    \A r \in transfers : r.sender = Payer =>
        \E q \in OfPage : Submitted(q) /\ RowOfRequest(r, q)

\* What a request whose row is there has come to.
PaymentShows(q) ==
    Paid(q) =>
        \/ treq[q].stage # "done" /\ treq[q].attempt > 1
        \/ /\ treq[q].stage = "done"
           /\ \/ treq[q].answer \in {"sent", "replayed", "busy", "none"}
              \/ treq[q].answer = "refused" /\ treq[q].attempt > 1

History ==
    /\ \A q \in TrReq : Stages(q)
    /\ KeysOfPage
    /\ RowsOfPage
    /\ \A q \in OfPage : Submitted(q) => PaymentShows(q)

\* The page has asked for q and no longer waits for it.
Settled(q) == asked[q] # 0 /\ page.request # q

\* The page has heard that q was paid.
Success(q) == Settled(q) /\ q \notin unheard /\ treq[q].answer \in {"sent", "replayed"}

Forms ==
    /\ page.form # 0
    /\ page.stage = "busy" => /\ page.request \in OfPage
                              /\ asked[page.request] = page.form
    /\ page.stage # "busy" => page.request = NoRequest
    /\ \A q \in TrReq : asked[q] # 0 => q \in OfPage /\ Submitted(q) /\ asked[q] <= page.form
    /\ \A q \in TrReq : Settled(q) /\ q \notin unheard => treq[q].answer # "none"
    /\ \A p, q \in TrReq : Success(p) /\ Success(q) /\ asked[p] = asked[q] => p = q
    /\ \A q \in TrReq : Success(q) /\ asked[q] = page.form => page.stage = "done"

PageInv == TransferInv /\ PageTypeOK /\ History /\ Forms

\* A request that acts was not done, and writes its own row if it writes one.
Acted(q) ==
    /\ Moves(q)
    /\ treq[q].stage # "done"
    /\ Submitted(q)' /\ Stages(q)'
    /\ \/ transfers' = transfers
       \/ /\ Submitted(q)
          /\ \E row : RowOfRequest(row, q) /\ transfers' = transfers \union {row}

LEMMA RequestActs ==
    ASSUME TransferInv, NEW q \in TrReq, Stages(q),
           \/ SubmitTransfer(q) \/ TransferRequestStep(q)
           \/ TransferResponseLost(q) \/ TransferFails(q) \/ TransferDies(q)
    PROVE  Acted(q)
<1>1. /\ TransferTypeOK /\ treq \in [TrReq -> TrRequest] /\ treq[q] \in TrRequest
      /\ treq[q].attempt \in 0..TrAttempts /\ TrAttempts \in Nat
  BY TransferAssumption DEF TransferInv, TransferTypeOK, TrRequest
<1>2. ASSUME NEW a \in Answers, Reply(q, a), treq[q].stage # "new", treq[q].stage # "done",
             transfers' = transfers
      PROVE  Acted(q)
  <2>1. /\ Moves(q) /\ treq'[q].stage = "done" /\ treq'[q].attempt = treq[q].attempt
    BY <1>1, <1>2, ReplyMoves
  <2>2. Stages(q)' /\ Submitted(q)'
    BY <1>2, <2>1 DEF Stages, Submitted
  <2>. QED
    BY <1>2, <2>1, <2>2 DEF Acted
<1>3. ASSUME NEW stage \in {"lock", "lockSecond", "read"}, Goto(q, stage),
             treq[q].stage # "new", treq[q].stage # "done", transfers' = transfers
      PROVE  Acted(q)
  <2>1. /\ Moves(q) /\ treq'[q].stage = stage /\ treq'[q].attempt = treq[q].attempt
        /\ treq'[q].answer = treq[q].answer
    BY <1>1, <1>3, GotoMoves
  <2>2. Stages(q)' /\ Submitted(q)'
    BY <1>3, <2>1 DEF Stages, Submitted
  <2>. QED
    BY <1>3, <2>1, <2>2 DEF Acted
<1>4. ASSUME RetryTransfer(q), treq[q].stage # "new", treq[q].stage # "done"
      PROVE  Moves(q) /\ Submitted(q)' /\ Stages(q)'
  <2>1. /\ Moves(q)
        /\ \/ /\ treq'[q].stage = "preflight" /\ treq'[q].answer = treq[q].answer
              /\ treq'[q].attempt = treq[q].attempt + 1
           \/ /\ treq'[q].stage = "done" /\ treq'[q].answer = "busy"
              /\ treq'[q].attempt = treq[q].attempt
    BY <1>1, <1>4, RetryMoves
  <2>3. treq[q].attempt >= 1 /\ treq[q].answer = "none"
    BY <1>4 DEF Stages, Submitted
  <2>4. treq'[q].attempt >= 1
    BY <1>1, <2>1, <2>3
  <2>. QED
    BY <2>1, <2>3, <2>4 DEF Stages, Submitted
<1>5. ASSUME MoveMoney(q) PROVE \E row : /\ RowOfRequest(row, q)
                                         /\ transfers' = transfers \union {row}
  <2>. DEFINE row == [sender |-> treq[q].sender, recipient |-> treq[q].recipient,
                      amount |-> treq[q].amount, key |-> treq[q].key, day |-> today,
                      sentAt |-> Len(ledger[treq[q].sender]["CASH"]) + 1,
                      receivedAt |-> Len(ledger[treq[q].recipient]["CASH"]) + 1]
  <2>1. RowOfRequest(row, q)
    BY DEF RowOfRequest
  <2>2. transfers' = transfers \union {row}
    BY <1>5 DEF MoveMoney
  <2>. QED
    BY <2>1, <2>2
<1>6. CASE SubmitTransfer(q)
  <2>1. /\ treq[q].stage = "new" /\ transfers' = transfers
        /\ treq' = [treq EXCEPT ![q].stage = "preflight", ![q].attempt = 1]
    BY <1>6 DEF SubmitTransfer
  <2>2. treq'[q] = [treq[q] EXCEPT !.stage = "preflight", !.attempt = 1]
    BY <1>1, <2>1
  <2>3. /\ treq'[q] \in TrRequest
        /\ treq'[q].stage = "preflight" /\ treq'[q].answer = treq[q].answer
        /\ treq'[q].attempt = 1
        /\ treq'[q].sender = treq[q].sender /\ treq'[q].recipient = treq[q].recipient
        /\ treq'[q].amount = treq[q].amount /\ treq'[q].key = treq[q].key
    <3>1. 1 \in 0..TrAttempts
      BY TransferAssumption
    <3>. QED
      BY <1>1, <2>2, <3>1 DEF TrRequest
  <2>4. Moves(q)
    BY <1>1, <2>1, <2>3 DEF Moves
  <2>5. Stages(q)' /\ Submitted(q)'
    BY <2>1, <2>3 DEF Stages, Submitted
  <2>. QED
    BY <2>1, <2>4, <2>5 DEF Acted
<1>7. CASE Preflight(q)
  BY <1>2, <1>3, <1>7 DEF Preflight, Answers
<1>8. CASE LockFirst(q) \/ LockSecond(q)
  BY <1>3, <1>8 DEF LockFirst, LockSecond, LockRow
<1>9. CASE ReadUnderLock(q)
  <2>1. treq[q].stage = "read" /\ transfers' = transfers
    BY <1>9 DEF ReadUnderLock
  <2>2. CASE \E r \in RowsOfKey(q) :
              Reply(q, IF SameTransfer(q, r) THEN "replayed" ELSE "conflict")
    BY <1>2, <2>1, <2>2 DEF Answers
  <2>3. CASE Reply(q, "limit")
    BY <1>2, <2>1, <2>3 DEF Answers
  <2>4. CASE treq' = [treq EXCEPT ![q].stage = "move",
                                  ![q].sent = SentSince(treq[q].sender, today)]
    <3>1. treq' \in [TrReq -> TrRequest]
      BY <1>9, ReadStep DEF TransferInv, TransferTypeOK
    <3>2. /\ \A p \in TrReq \ {q} : treq'[p] = treq[p]
          /\ treq'[q] = [treq[q] EXCEPT !.stage = "move",
                                        !.sent = SentSince(treq[q].sender, today)]
      BY <1>1, <2>4
    <3>3. /\ treq'[q].stage = "move" /\ treq'[q].answer = treq[q].answer
          /\ treq'[q].attempt = treq[q].attempt
          /\ treq'[q].sender = treq[q].sender /\ treq'[q].recipient = treq[q].recipient
          /\ treq'[q].amount = treq[q].amount /\ treq'[q].key = treq[q].key
      BY <1>1, <3>2 DEF TrRequest
    <3>4. Moves(q)
      BY <3>1, <3>2, <3>3 DEF Moves
    <3>5. Stages(q)' /\ Submitted(q)'
      BY <2>1, <3>3 DEF Stages, Submitted
    <3>. QED
      BY <2>1, <3>4, <3>5 DEF Acted
  <2>. QED
    BY <1>9, <2>2, <2>3, <2>4 DEF ReadUnderLock
<1>10. CASE MoveAndCommit(q)
  <2>1. MoveMoney(q) /\ Reply(q, "sent") /\ treq[q].stage = "move"
    BY <1>10 DEF MoveAndCommit, MoveMoney
  <2>2. /\ Moves(q) /\ treq'[q].stage = "done" /\ treq'[q].attempt = treq[q].attempt
    BY <1>1, <2>1, ReplyMoves DEF Answers
  <2>3. Stages(q)' /\ Submitted(q)'
    BY <2>1, <2>2 DEF Stages, Submitted
  <2>. QED
    BY <1>5, <2>1, <2>2, <2>3 DEF Acted, Submitted
<1>11. CASE TransferResponseLost(q)
  <2>1. MoveMoney(q) /\ RetryTransfer(q) /\ treq[q].stage = "move"
    BY <1>11 DEF TransferResponseLost, MoveMoney
  <2>. QED
    BY <1>4, <1>5, <2>1 DEF Acted, Submitted
<1>12. CASE RefuseOverdraft(q)
  BY <1>2, <1>12 DEF RefuseOverdraft, Answers
<1>13. CASE TransferFails(q)
  BY <1>4, <1>13 DEF TransferFails, Running, Acted
<1>14. CASE TransferDies(q)
  BY <1>2, <1>14 DEF TransferDies, Running, Answers
<1>. QED
  BY <1>6, <1>7, <1>8, <1>9, <1>10, <1>11, <1>12, <1>13, <1>14 DEF TransferRequestStep

\* What a step of a request of the page leaves behind when its row is there:
\* a lookup finds its own row, so it is a replay and never a conflict; after
\* the limit and the overdraft there is none.
LEMMA RequestShows ==
    ASSUME TransferInv, History, NEW q \in OfPage, Submitted(q),
           \/ TransferRequestStep(q)
           \/ TransferResponseLost(q) \/ TransferFails(q) \/ TransferDies(q)
    PROVE  PaymentShows(q)'
<1>1. /\ q \in TrReq /\ treq[q].sender = Payer
      /\ TransferTypeOK /\ treq[q] \in TrRequest
      /\ treq[q].attempt \in Nat /\ treq[q].attempt >= 1
      /\ ReadStillTrue(q) /\ PaymentShows(q)
  <2>1. q \in TrReq /\ treq[q].sender = Payer
    BY DEF OfPage
  <2>2. TransferTypeOK /\ ReadStillTrue(q) /\ PaymentShows(q) /\ treq[q].attempt >= 1
    BY <2>1 DEF TransferInv, RequestOK, History, Stages
  <2>3. treq[q] \in TrRequest
    BY <2>1, <2>2, TransferTypes
  <2>4. treq[q].attempt \in 0..TrAttempts
    BY <2>3 DEF TrRequest
  <2>. QED
    BY <2>1, <2>2, <2>3, <2>4, TransferAssumption
<1>2. ASSUME NEW r \in RowsOfKey(q) PROVE SameTransfer(q, r)
  <2>1. PICK p \in OfPage : Submitted(p) /\ RowOfRequest(r, p)
    BY <1>1 DEF RowsOfKey, History, RowsOfPage
  <2>2. p = q
    BY <2>1 DEF RowsOfKey, RowOfRequest, History, KeysOfPage
  <2>. QED
    BY <2>1, <2>2 DEF RowOfRequest, SameTransfer
<1>3. Paid(q) <=> RowsOfKey(q) # {}
  BY DEF Paid, RowsOfKey
<1>4. ASSUME NEW a \in Answers, Reply(q, a), transfers' = transfers
      PROVE  /\ treq'[q].stage = "done" /\ treq'[q].answer = a
             /\ treq'[q].attempt = treq[q].attempt
             /\ Paid(q)' <=> Paid(q)
  <2>1. /\ Moves(q) /\ treq'[q].stage = "done" /\ treq'[q].answer = a
        /\ treq'[q].attempt = treq[q].attempt
    BY <1>1, <1>4, ReplyMoves
  <2>. QED
    BY <1>4, <2>1 DEF Paid, Moves
<1>5. ASSUME NEW stage \in {"lock", "lockSecond", "read"}, Goto(q, stage),
             treq[q].stage # "done", transfers' = transfers
      PROVE  PaymentShows(q)'
  <2>1. /\ Moves(q) /\ treq'[q].stage = stage /\ treq'[q].attempt = treq[q].attempt
    BY <1>1, <1>5, GotoMoves
  <2>2. Paid(q)' <=> Paid(q)
    BY <1>5, <2>1 DEF Paid, Moves
  <2>. QED
    BY <1>1, <1>5, <2>1, <2>2 DEF PaymentShows
<1>6. ASSUME RetryTransfer(q) PROVE PaymentShows(q)'
  <2>1. \/ treq'[q].stage = "preflight" /\ treq'[q].attempt = treq[q].attempt + 1
        \/ treq'[q].stage = "done" /\ treq'[q].answer = "busy"
    BY <1>1, <1>6, RetryMoves
  <2>2. treq[q].attempt + 1 > 1
    BY <1>1
  <2>. QED
    BY <2>1, <2>2 DEF PaymentShows
<1>7. CASE Preflight(q)
  <2>1. treq[q].stage = "preflight" /\ transfers' = transfers
    BY <1>7 DEF Preflight
  <2>2. CASE Reply(q, "refused")
    BY <1>1, <1>4, <2>1, <2>2 DEF Answers, PaymentShows
  <2>3. CASE Goto(q, "lock")
    BY <1>5, <2>1, <2>3
  <2>. QED
    BY <1>7, <2>2, <2>3 DEF Preflight
<1>8. CASE LockFirst(q) \/ LockSecond(q)
  BY <1>5, <1>8 DEF LockFirst, LockSecond, LockRow
<1>9. CASE ReadUnderLock(q)
  <2>1. transfers' = transfers
    BY <1>9 DEF ReadUnderLock
  <2>2. CASE \E r \in RowsOfKey(q) :
              Reply(q, IF SameTransfer(q, r) THEN "replayed" ELSE "conflict")
    <3>1. Reply(q, "replayed")
      BY <1>2, <2>2
    <3>. QED
      BY <1>4, <2>1, <3>1 DEF Answers, PaymentShows
  <2>3. CASE RowsOfKey(q) = {}
    <3>1. ~Paid(q)
      BY <1>3, <2>3
    <3>2. /\ treq'[q].sender = treq[q].sender /\ treq'[q].key = treq[q].key
      BY <1>1, <1>9, RequestActs DEF TransferRequestStep, Acted, Moves, History
    <3>3. ~Paid(q)'
      BY <2>1, <3>1, <3>2 DEF Paid
    <3>. QED
      BY <3>3 DEF PaymentShows
  <2>. QED
    BY <1>9, <2>2, <2>3 DEF ReadUnderLock
<1>10. CASE MoveAndCommit(q)
  <2>1. treq'[q].stage = "done" /\ treq'[q].answer = "sent"
    BY <1>1, <1>10, ReplyMoves DEF MoveAndCommit, Answers
  <2>. QED
    BY <2>1 DEF PaymentShows
<1>11. CASE TransferResponseLost(q)
  BY <1>6, <1>11 DEF TransferResponseLost
<1>12. CASE RefuseOverdraft(q)
  <2>1. ~Paid(q)
    BY <1>1, <1>3, <1>12 DEF RefuseOverdraft, ReadStillTrue
  <2>. QED
    BY <1>4, <1>12, <2>1 DEF RefuseOverdraft, Answers, PaymentShows
<1>13. CASE TransferFails(q)
  BY <1>6, <1>13 DEF TransferFails
<1>14. CASE TransferDies(q)
  BY <1>4, <1>14 DEF TransferDies, Answers, PaymentShows
<1>. QED
  BY <1>7, <1>8, <1>9, <1>10, <1>11, <1>12, <1>13, <1>14 DEF TransferRequestStep

\* One request acts: the others keep their history.
LEMMA HistoryStep ==
    ASSUME TransferInv, History, NEW q \in TrReq, Acted(q),
           q \in OfPage =>
              IF Submitted(q) THEN PaymentShows(q)'
              ELSE FreshKey(q) /\ transfers' = transfers
    PROVE  History'
<1>1. /\ OfPage' = OfPage
      /\ \A p \in TrReq : /\ treq'[p].sender = treq[p].sender
                          /\ treq'[p].recipient = treq[p].recipient
                          /\ treq'[p].amount = treq[p].amount /\ treq'[p].key = treq[p].key
                          /\ Submitted(p) => Submitted(p)'
                          /\ p # q => treq'[p] = treq[p] /\ (Submitted(p)' <=> Submitted(p))
  BY DEF Acted, Moves, OfPage, Submitted
<1>2. \A p \in TrReq : Stages(p)'
  <2>. SUFFICES ASSUME NEW p \in TrReq, p # q PROVE Stages(p)'
    BY DEF Acted
  <2>. QED
    BY <1>1 DEF History, Stages, Submitted
<1>3. KeysOfPage'
  <2>. SUFFICES ASSUME NEW o \in OfPage, NEW p \in OfPage, Submitted(o)', Submitted(p)',
                       treq[o].key = treq[p].key, o # p
                PROVE  FALSE
    BY <1>1 DEF KeysOfPage, OfPage
  <2>1. o \in TrReq /\ p \in TrReq
    BY DEF OfPage
  <2>2. CASE Submitted(o) /\ Submitted(p)
    BY <2>2 DEF History, KeysOfPage
  <2>3. CASE ~Submitted(o)
    <3>1. o = q /\ FreshKey(q)
      BY <1>1, <2>1, <2>3
    <3>. QED
      BY <1>1, <2>1, <3>1 DEF FreshKey, Submitted
  <2>4. CASE ~Submitted(p)
    <3>1. p = q /\ FreshKey(q)
      BY <1>1, <2>1, <2>4
    <3>. QED
      BY <1>1, <2>1, <3>1 DEF FreshKey, Submitted
  <2>. QED
    BY <2>2, <2>3, <2>4
<1>4. RowsOfPage'
  <2>. SUFFICES ASSUME NEW r \in transfers', r.sender = Payer
                PROVE  \E p \in OfPage : Submitted(p)' /\ RowOfRequest(r, p)'
    BY <1>1 DEF RowsOfPage
  <2>1. CASE r \in transfers
    <3>1. PICK p \in OfPage : Submitted(p) /\ RowOfRequest(r, p)
      BY <2>1 DEF History, RowsOfPage
    <3>. QED
      BY <1>1, <3>1 DEF RowOfRequest, OfPage
  <2>2. CASE r \notin transfers
    <3>1. Submitted(q) /\ RowOfRequest(r, q)
      BY <2>2 DEF Acted
    <3>2. q \in OfPage
      BY <3>1 DEF OfPage, RowOfRequest
    <3>. QED
      BY <1>1, <3>1, <3>2 DEF RowOfRequest
  <2>. QED
    BY <2>1, <2>2
<1>5. ASSUME NEW p \in OfPage, Submitted(p)' PROVE PaymentShows(p)'
  <2>1. p \in TrReq /\ treq[p].sender = Payer
    BY DEF OfPage
  <2>2. CASE p = q /\ Submitted(q)
    BY <2>2
  <2>3. CASE p = q /\ ~Submitted(q)
    <3>1. ~Paid(q)
      <4>. SUFFICES ASSUME NEW r \in transfers, r.sender = Payer, r.key = treq[q].key
                    PROVE  FALSE
        BY <2>1, <2>3 DEF Paid
      <4>1. PICK o \in OfPage : Submitted(o) /\ RowOfRequest(r, o)
        BY DEF History, RowsOfPage
      <4>2. FreshKey(q) /\ o # q /\ o \in TrReq
        BY <2>3, <4>1 DEF OfPage
      <4>. QED
        BY <4>1, <4>2 DEF FreshKey, Submitted, RowOfRequest
    <3>2. ~Paid(q)'
      BY <1>1, <2>3, <3>1 DEF Paid
    <3>. QED
      BY <2>3, <3>2 DEF PaymentShows
  <2>4. CASE p # q
    <3>1. treq'[p] = treq[p] /\ Submitted(p) /\ PaymentShows(p)
      BY <1>1, <1>5, <2>1, <2>4 DEF History
    <3>2. Paid(p)' => Paid(p)
      <4>. SUFFICES ASSUME NEW r \in transfers', r \notin transfers,
                           r.sender = treq[p].sender, r.key = treq[p].key
                    PROVE  FALSE
        BY <3>1 DEF Paid
      <4>1. Submitted(q) /\ RowOfRequest(r, q)
        BY DEF Acted
      <4>2. q \in OfPage
        BY <2>1, <4>1 DEF OfPage, RowOfRequest
      <4>. QED
        BY <2>4, <3>1, <4>1, <4>2 DEF History, KeysOfPage, RowOfRequest
    <3>. QED
      BY <3>1, <3>2 DEF PaymentShows
  <2>. QED
    BY <2>2, <2>3, <2>4
<1>. QED
  BY <1>1, <1>2, <1>3, <1>4, <1>5 DEF History

-----------------------------------------------------------------------------
(***************************************************************************)
(* The steps of the page and those behind it.                              *)
(***************************************************************************)
\* What a page knows of a request that has ended stays as it is.
LEMMA FormsStay ==
    ASSUME PageInv, UNCHANGED pageVars, OfPage' = OfPage,
           \A p \in TrReq : /\ Submitted(p) => Submitted(p)'
                            /\ treq[p].stage = "done" => treq'[p] = treq[p]
    PROVE  Forms' /\ PageTypeOK'
<1>1. /\ Forms /\ PageTypeOK /\ page' = page /\ asked' = asked /\ unheard' = unheard
      /\ \A p \in TrReq : Stages(p)
  BY DEF PageInv, History, pageVars
<1>2. \A p \in TrReq : Settled(p)' <=> Settled(p)
  BY <1>1 DEF Settled
<1>3. ASSUME NEW p \in TrReq, Settled(p), p \notin unheard
      PROVE  treq'[p] = treq[p] /\ treq[p].answer # "none"
  BY <1>1, <1>3 DEF Forms, Stages
<1>4. \A p \in TrReq : Success(p)' <=> Success(p)
  BY <1>1, <1>2, <1>3 DEF Success
<1>5. \A p \in TrReq : Settled(p)' /\ p \notin unheard' => treq'[p].answer # "none"
  BY <1>1, <1>2, <1>3
<1>6. \A p, q \in TrReq : Success(p)' /\ Success(q)' /\ asked'[p] = asked'[q] => p = q
  BY <1>1, <1>4 DEF Forms
<1>7. \A q \in TrReq : Success(q)' /\ asked'[q] = page'.form => page'.stage = "done"
  BY <1>1, <1>4 DEF Forms
<1>8. \A q \in TrReq : asked'[q] # 0 => q \in OfPage' /\ Submitted(q)' /\ asked'[q] <= page'.form
  BY <1>1 DEF Forms
<1>9. /\ page'.form # 0
      /\ page'.stage = "busy" => page'.request \in OfPage' /\ asked'[page'.request] = page'.form
      /\ page'.stage # "busy" => page'.request = NoRequest
  BY <1>1 DEF Forms
<1>10. PageTypeOK'
  BY <1>1 DEF PageTypeOK
<1>. QED
  BY <1>5, <1>6, <1>7, <1>8, <1>9, <1>10 DEF Forms

LEMMA HistorySame ==
    ASSUME History, UNCHANGED <<transfers, treq>>
    PROVE  /\ History' /\ OfPage' = OfPage
           /\ \A p \in TrReq : Submitted(p)' <=> Submitted(p)
<1>1. /\ OfPage' = OfPage /\ transfers' = transfers /\ treq' = treq
      /\ \A p \in TrReq : Submitted(p)' <=> Submitted(p)
  BY DEF OfPage, Submitted
<1>2. \A p \in OfPage : p \in TrReq
  BY DEF OfPage
<1>3. (\A p \in TrReq : Stages(p)') /\ KeysOfPage'
  BY <1>1, <1>2 DEF History, Stages, KeysOfPage
<1>4. RowsOfPage'
  <2>1. \A r, p : RowOfRequest(r, p)' <=> RowOfRequest(r, p)
    BY <1>1 DEF RowOfRequest
  <2>. QED
    BY <1>1, <1>2, <2>1 DEF History, RowsOfPage
<1>5. \A p \in OfPage : Submitted(p)' => PaymentShows(p)'
  <2>1. \A p \in OfPage : Paid(p)' <=> Paid(p)
    BY <1>1 DEF Paid
  <2>. QED
    BY <1>1, <1>2, <2>1 DEF History, PaymentShows
<1>. QED
  BY <1>1, <1>3, <1>4, <1>5 DEF History

\* A step behind the page.
LEMMA BehindStep ==
    ASSUME PageInv, [TransferNext]_trVars, UNCHANGED pageVars,
           \A q \in OfPage : ~SubmitTransfer(q)
    PROVE  PageInv'
<1>1. TransferInv' /\ TransferInv /\ History
  BY TransferNextKeeps DEF PageInv
<1>2. ASSUME NEW q \in TrReq,
             \/ SubmitTransfer(q) \/ TransferRequestStep(q)
             \/ TransferResponseLost(q) \/ TransferFails(q) \/ TransferDies(q)
      PROVE  PageInv'
  <2>1. Acted(q)
    BY <1>1, <1>2, RequestActs DEF History
  <2>2. ASSUME q \in OfPage PROVE Submitted(q) /\ PaymentShows(q)'
    <3>1. \/ TransferRequestStep(q)
          \/ TransferResponseLost(q) \/ TransferFails(q) \/ TransferDies(q)
      BY <1>2, <2>2
    <3>2. Submitted(q)
      BY <3>1 DEF Submitted, TransferRequestStep, Preflight, LockFirst, LockSecond,
                  ReadUnderLock, MoveAndCommit, RefuseOverdraft, TransferResponseLost,
                  TransferFails, TransferDies, MoveMoney, Running
    <3>. QED
      BY <1>1, <2>2, <3>1, <3>2, RequestShows
  <2>3. History'
    BY <1>1, <2>1, <2>2, HistoryStep
  <2>4. /\ OfPage' = OfPage
        /\ \A p \in TrReq : /\ Submitted(p) => Submitted(p)'
                            /\ treq[p].stage = "done" => treq'[p] = treq[p]
    BY <2>1 DEF Acted, Moves, OfPage, Submitted
  <2>. QED
    BY <1>1, <2>3, <2>4, FormsStay DEF PageInv
<1>3. CASE UNCHANGED <<transfers, treq>>
  <2>1. /\ OfPage' = OfPage /\ History'
        /\ \A p \in TrReq : Submitted(p)' <=> Submitted(p)
    BY <1>1, <1>3, HistorySame
  <2>3. Forms' /\ PageTypeOK'
    BY <1>3, <2>1, FormsStay
  <2>. QED
    BY <1>1, <2>1, <2>3 DEF PageInv
<1>. QED
  BY <1>2, <1>3
     DEF TransferNext, TransferStep, SetUserStatus, NextDay, transferVars, trVars

LEMMA ConfirmStep ==
    ASSUME PageInv, NEW q \in TrReq, confirm(q)
    PROVE  PageInv'
<1>1. /\ TransferInv /\ History /\ Forms /\ PageTypeOK /\ Stages(q)
      /\ page.stage = "confirm" /\ q \in OfPage /\ FreshKey(q) /\ SubmitTransfer(q)
      /\ page' = [page EXCEPT !.stage = "busy", !.request = q]
      /\ asked' = [asked EXCEPT ![q] = page.form] /\ unheard' = unheard
      /\ treq[q].stage = "new" /\ transfers' = transfers
  BY DEF PageInv, History, confirm, SubmitTransfer
<1>2. TransferInv'
  BY <1>1, TransferNextKeeps DEF TransferNext, TransferStep
<1>3. Acted(q)
  BY <1>1, RequestActs
<1>4. History'
  BY <1>1, <1>3, HistoryStep DEF Submitted
<1>5. /\ OfPage' = OfPage
      /\ \A p \in TrReq : /\ Submitted(p) => Submitted(p)'
                          /\ p # q => treq'[p] = treq[p]
      /\ Submitted(q)'
  BY <1>3 DEF Acted, Moves, OfPage, Submitted
<1>6. /\ page \in PageRow /\ asked \in [TrReq -> Nat] /\ page.form \in Nat
  BY <1>1 DEF PageTypeOK, PageRow
<1>7. /\ page'.stage = "busy" /\ page'.request = q /\ page'.form = page.form
      /\ page' \in PageRow
  BY <1>1, <1>6 DEF PageRow
<1>8. /\ asked'[q] = page.form
      /\ \A p \in TrReq \ {q} : asked'[p] = asked[p]
      /\ asked' \in [TrReq -> Nat]
  BY <1>1, <1>6
<1>9. ASSUME NEW p \in TrReq, Settled(p)'
      PROVE  p # q /\ Settled(p) /\ (Success(p)' => Success(p))
  <2>1. p # q
    BY <1>7, <1>9 DEF Settled
  <2>2. page.request # p
    BY <1>1, PageAssumption DEF Forms
  <2>3. asked[p] # 0 /\ treq'[p] = treq[p]
    BY <1>5, <1>8, <1>9, <2>1 DEF Settled
  <2>. QED
    BY <1>1, <2>1, <2>2, <2>3 DEF Settled, Success
<1>10. Forms'
  <2>1. \A p \in TrReq : asked'[p] # 0 => p \in OfPage' /\ Submitted(p)' /\ asked'[p] <= page'.form
    BY <1>1, <1>5, <1>6, <1>7, <1>8 DEF Forms
  <2>2. \A p \in TrReq : Settled(p)' /\ p \notin unheard' => treq'[p].answer # "none"
    BY <1>1, <1>5, <1>9 DEF Forms
  <2>3. \A o, p \in TrReq : Success(o)' /\ Success(p)' /\ asked'[o] = asked'[p] => o = p
    <3>. SUFFICES ASSUME NEW o \in TrReq, NEW p \in TrReq,
                         Success(o)', Success(p)', asked'[o] = asked'[p]
                  PROVE  o = p
      OBVIOUS
    <3>1. o # q /\ p # q /\ Success(o) /\ Success(p)
      BY <1>9 DEF Success
    <3>. QED
      BY <1>1, <1>8, <3>1 DEF Forms
  <2>4. \A p \in TrReq : Success(p)' => asked'[p] # page'.form
    <3>. SUFFICES ASSUME NEW p \in TrReq, Success(p)', asked'[p] = page'.form PROVE FALSE
      OBVIOUS
    <3>1. p # q /\ Success(p)
      BY <1>9 DEF Success
    <3>. QED
      BY <1>1, <1>7, <1>8, <3>1 DEF Forms
  <2>. QED
    BY <1>1, <1>5, <1>7, <1>8, <2>1, <2>2, <2>3, <2>4 DEF Forms
<1>11. PageTypeOK'
  BY <1>1, <1>7, <1>8 DEF PageTypeOK
<1>. QED
  BY <1>2, <1>4, <1>10, <1>11 DEF PageInv

\* The page hears, misses, or starts a new form; nothing behind it changes.
LEMMA PageAlone ==
    ASSUME PageInv, Hear \/ LoseAnswer \/ StartOver
    PROVE  PageInv'
<1>1. /\ TransferInv /\ History /\ Forms /\ PageTypeOK
      /\ UNCHANGED trVars /\ asked' = asked
  BY DEF PageInv, Hear, LoseAnswer, StartOver
<1>2. treq' = treq /\ transfers' = transfers
  BY <1>1 DEF trVars, transferVars
<1>3. TransferInv'
  BY <1>1, TransferNextKeeps
<1>4. OfPage' = OfPage /\ \A p \in TrReq : Submitted(p)' <=> Submitted(p)
  BY <1>1, <1>2, HistorySame
<1>5. History'
  BY <1>1, <1>2, HistorySame
<1>6. /\ page \in PageRow /\ asked \in [TrReq -> Nat] /\ page.form \in Nat
      /\ page.stage = "busy" => page.request \in TrReq
      /\ \A p \in TrReq : asked[p] \in Nat
  BY <1>1 DEF PageTypeOK, PageRow, Forms, OfPage
<1>7. CASE Hear
  <2>. DEFINE r == page.request
              told == treq[r].answer
              next == IF told \in {"sent", "replayed"} THEN "done" ELSE "confirm"
  <2>1. /\ page.stage = "busy" /\ told # "none" /\ unheard' = unheard
        /\ page' = [page EXCEPT !.stage = next, !.request = NoRequest]
    BY <1>7 DEF Hear, Waiting
  <2>2. /\ page'.stage = next /\ page'.request = NoRequest /\ page'.form = page.form
        /\ page' \in PageRow /\ next # "busy"
    BY <1>6, <2>1 DEF PageRow
  <2>3. r \in TrReq /\ asked[r] = page.form
    BY <1>1, <1>6, <2>1 DEF Forms
  <2>4. \A p \in TrReq : Settled(p)' => p = r \/ Settled(p)
    BY <1>1 DEF Settled
  <2>5. \A p \in TrReq : Success(p)' => (p = r /\ next = "done") \/ Success(p)
    BY <1>2, <2>1, <2>4 DEF Success
  <2>6. \A p \in TrReq : Success(p) => asked[p] # page.form
    BY <1>1, <2>1 DEF Forms
  <2>. HIDE DEF next, r, told
  <2>7. \A o, p \in TrReq : Success(o)' /\ Success(p)' /\ asked[o] = asked[p] => o = p
    BY <1>1, <2>3, <2>5, <2>6 DEF Forms
  <2>8. \A p \in TrReq : Success(p)' /\ asked[p] = page.form => next = "done"
    BY <2>5, <2>6
  <2>9. \A p \in TrReq : Settled(p)' /\ p \notin unheard => treq[p].answer # "none"
    BY <1>1, <2>1, <2>4 DEF Forms, told
  <2>10. Forms'
    BY <1>1, <1>2, <1>4, <2>1, <2>2, <2>7, <2>8, <2>9 DEF Forms
  <2>11. PageTypeOK'
    BY <1>1, <2>1, <2>2 DEF PageTypeOK
  <2>. QED
    BY <1>3, <1>5, <2>10, <2>11 DEF PageInv
<1>8. CASE LoseAnswer
  <2>1. /\ page.stage = "busy" /\ unheard' = unheard \union {page.request}
        /\ page' = [page EXCEPT !.stage = "confirm", !.request = NoRequest]
    BY <1>8 DEF LoseAnswer, Waiting
  <2>2. /\ page'.stage = "confirm" /\ page'.request = NoRequest /\ page'.form = page.form
        /\ page' \in PageRow
    BY <1>6, <2>1 DEF PageRow
  <2>3. \A p \in TrReq : Settled(p)' /\ p \notin unheard' => Settled(p) /\ p \notin unheard
    BY <1>1, <2>1 DEF Settled
  <2>4. \A p \in TrReq : Success(p)' => Success(p)
    BY <1>2, <2>3 DEF Success
  <2>5. \A p \in TrReq : Settled(p)' /\ p \notin unheard' => treq[p].answer # "none"
    BY <1>1, <2>3 DEF Forms
  <2>6. \A o, p \in TrReq : Success(o)' /\ Success(p)' /\ asked[o] = asked[p] => o = p
    BY <1>1, <2>4 DEF Forms
  <2>7. \A p \in TrReq : ~(Success(p)' /\ asked[p] = page.form)
    BY <1>1, <2>1, <2>4 DEF Forms
  <2>8. Forms'
    BY <1>1, <1>2, <1>4, <2>2, <2>5, <2>6, <2>7 DEF Forms
  <2>9. PageTypeOK'
    BY <1>1, <1>6, <2>1, <2>2 DEF PageTypeOK
  <2>. QED
    BY <1>3, <1>5, <2>8, <2>9 DEF PageInv
<1>9. CASE StartOver
  <2>1. /\ page.stage = "done" /\ unheard' = unheard
        /\ page' = [page EXCEPT !.stage = "confirm", !.form = @ + 1]
    BY <1>9 DEF StartOver
  <2>2. /\ page'.stage = "confirm" /\ page'.request = page.request
        /\ page'.form = page.form + 1 /\ page' \in PageRow
    <3>1. PICK n \in Nat : n = page.form + 1
      BY <1>6
    <3>2. page' = [page EXCEPT !.stage = "confirm", !.form = n]
      BY <2>1, <3>1
    <3>3. page'.stage = "confirm" /\ page'.request = page.request /\ page'.form = n
      BY <1>6, <3>2 DEF PageRow
    <3>4. page' \in PageRow
      BY <1>6, <3>2 DEF PageRow
    <3>. QED
      BY <3>1, <3>3, <3>4
  <2>3. \A p \in TrReq : (Settled(p)' <=> Settled(p)) /\ (Success(p)' <=> Success(p))
    BY <1>1, <1>2, <2>1, <2>2 DEF Settled, Success
  <2>4. \A p \in TrReq : asked[p] # 0 => asked[p] <= page'.form /\ asked[p] # page'.form
    <3>. SUFFICES ASSUME NEW p \in TrReq, asked[p] # 0
                  PROVE  asked[p] <= page'.form /\ asked[p] # page'.form
      OBVIOUS
    <3>1. asked[p] <= page.form /\ asked[p] \in Nat
      BY <1>1, <1>6 DEF Forms
    <3>. QED
      BY <1>6, <2>2, <3>1
  <2>5. page'.form # 0
    BY <1>6, <2>2
  <2>6. \A p \in TrReq : Settled(p)' /\ p \notin unheard => treq[p].answer # "none"
    BY <1>1, <2>3 DEF Forms
  <2>7. \A o, p \in TrReq : Success(o)' /\ Success(p)' /\ asked[o] = asked[p] => o = p
    BY <1>1, <2>3 DEF Forms
  <2>8. \A p \in TrReq : Success(p) => asked[p] # page'.form
    BY <2>4 DEF Success, Settled
  <2>9. \A p \in TrReq : asked[p] # 0 => p \in OfPage /\ Submitted(p)
    BY <1>1 DEF Forms
  <2>10. page'.request = NoRequest
    BY <1>1, <2>1, <2>2 DEF Forms
  <2>11. Forms'
    BY <1>1, <1>2, <1>4, <2>1, <2>2, <2>3, <2>4, <2>5, <2>6, <2>7, <2>8, <2>9, <2>10 DEF Forms
  <2>12. PageTypeOK'
    BY <1>1, <2>1, <2>2 DEF PageTypeOK
  <2>. QED
    BY <1>3, <1>5, <2>11, <2>12 DEF PageInv
<1>. QED
  BY <1>7, <1>8, <1>9

LEMMA PageInitial == ASSUME PageInit PROVE PageInv
<1>1. /\ TransferInit /\ transfers = {}
      /\ page = [stage |-> "confirm", request |-> NoRequest, form |-> 1]
      /\ asked = [q \in TrReq |-> 0] /\ unheard = {}
      /\ treq \in [TrReq ->
             [stage : {"new"}, sender : User, recipient : User, amount : TrAmount,
              key : TrKey, attempt : {0}, sent : {0}, answer : {"none"}]]
  BY DEF PageInit, TransferInit
<1>2. \A q \in TrReq : treq[q].stage = "new" /\ treq[q].answer = "none"
  BY <1>1
<1>3. TransferInv
  BY <1>1, TransferInitial
<1>4. History
  BY <1>1, <1>2 DEF History, Stages, KeysOfPage, RowsOfPage, PaymentShows, Paid, Submitted, OfPage
<1>5. Forms
  BY <1>1 DEF Forms, Settled, Success
<1>6. PageTypeOK
  BY <1>1 DEF PageTypeOK, PageRow
<1>. QED
  BY <1>3, <1>4, <1>5, <1>6 DEF PageInv

\* Whatever the player clicks and the network loses: the invariant holds.
THEOREM PageInductive == PageSpec => []PageInv
<1>1. PageInit => PageInv
  BY PageInitial
<1>2. PageInv /\ [PageNext]_<<trVars, pageVars>> => PageInv'
  <2>. SUFFICES ASSUME PageInv, [PageNext]_<<trVars, pageVars>> PROVE PageInv'
    OBVIOUS
  <2>1. ASSUME NEW q \in TrReq, confirm(q) PROVE PageInv'
    BY <2>1, ConfirmStep
  <2>2. CASE Hear \/ LoseAnswer \/ StartOver
    BY <2>2, PageAlone
  <2>3. CASE /\ TransferNext /\ ~(\E q \in OfPage : SubmitTransfer(q))
             /\ UNCHANGED pageVars
    BY <2>3, BehindStep
  <2>4. CASE UNCHANGED <<trVars, pageVars>>
    <3>1. \A q \in OfPage : ~SubmitTransfer(q)
      <4>. SUFFICES ASSUME NEW q \in OfPage, SubmitTransfer(q) PROVE FALSE
        OBVIOUS
      <4>1. Acted(q) /\ treq' = treq
        BY <2>4, RequestActs DEF PageInv, History, OfPage, trVars, transferVars
      <4>. QED
        BY <4>1 DEF Acted, Submitted, SubmitTransfer
    <3>. QED
      BY <2>4, <3>1, BehindStep DEF pageVars
  <2>. QED
    BY <2>1, <2>2, <2>3, <2>4 DEF PageNext
<1>. QED
  BY <1>1, <1>2, PTL DEF PageSpec

(* Of the clicks of one form whose answers arrived and were clear at most  *)
(* one paid: the page leaves the form when it hears that a click has paid. *)
(* A click whose answer was lost or unclear may have paid besides.         *)
THEOREM PageFormPaidOnce == PageSpec => []FormPaidOnce
<1>1. PageInv => FormPaidOnce
  <2>. SUFFICES ASSUME PageInv, NEW p \in OfPage, NEW q \in OfPage, p # q, asked[p] # 0,
                       asked[p] = asked[q], Paid(p), Paid(q), ~Unclear(p), ~Unclear(q)
                PROVE  FALSE
    BY DEF FormPaidOnce
  <2>1. History /\ Forms /\ p \in TrReq /\ q \in TrReq
    BY DEF PageInv, OfPage
  <2>2. ASSUME NEW o \in OfPage, asked[o] # 0, Paid(o), ~Unclear(o), Settled(o)
        PROVE  Success(o)
    <3>1. o \in TrReq
      BY DEF OfPage
    <3>2. o \notin unheard /\ Submitted(o) /\ Stages(o) /\ treq[o].answer # "none"
      BY <2>1, <2>2, <3>1 DEF Unclear, Forms, History
    <3>3. PaymentShows(o) /\ treq[o].stage = "done"
      BY <2>1, <3>2 DEF History, Stages
    <3>. QED
      BY <2>2, <3>2, <3>3 DEF PaymentShows, Unclear, Success
  <2>3. CASE Settled(p) /\ Settled(q)
    BY <2>1, <2>2, <2>3 DEF Forms
  <2>4. CASE ~Settled(p)
    <3>1. page.request = p
      BY <2>4 DEF Settled
    <3>2. page.stage = "busy" /\ asked[p] = page.form
      BY <2>1, <3>1, PageAssumption DEF Forms
    <3>3. Settled(q)
      BY <3>1 DEF Settled
    <3>. QED
      BY <2>1, <2>2, <3>2, <3>3 DEF Forms
  <2>5. CASE ~Settled(q)
    <3>1. page.request = q
      BY <2>5 DEF Settled
    <3>2. page.stage = "busy" /\ asked[q] = page.form
      BY <2>1, <3>1, PageAssumption DEF Forms
    <3>3. Settled(p)
      BY <3>1 DEF Settled
    <3>. QED
      BY <2>1, <2>2, <3>2, <3>3 DEF Forms
  <2>. QED
    BY <2>3, <2>4, <2>5
<1>. QED
  BY <1>1, PageInductive, PTL
==============================================================================
