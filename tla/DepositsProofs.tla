--------------------------- MODULE DepositsProofs ---------------------------
(***************************************************************************)
(* Proofs about deposits, for every set of players, admins, rows, TIDs and *)
(* amounts: the tables keep their types and no wallet is overdrawn, the    *)
(* ledger explains the balances, each row is credited once, and decisions  *)
(* are final.                                                              *)
(*                                                                         *)
(* All four follow from one inductive invariant, DepositInv.  The type     *)
(* invariant is not inductive alone: the commit of an approval posts       *)
(* credits for the row it claimed, so it needs that the row is still       *)
(* there, still pending, claimed by nobody else, and that a reward it      *)
(* decided to pay has a referrer.                                          *)
(***************************************************************************)
EXTENDS DepositHistory, WalletProofs

\* The deposit credits of row d in a ledger.
CreditsIn(log, u, d) == EntriesIn(log, u, "CASH", "DEPOSIT", d)

Holds(a) == review[a].stage \in {"claimed", "credited"}

(* The row an open approval claimed is pending and claimed by it alone, and *)
(* the reward it will pay goes to a user.                                   *)
ClaimsHold ==
    \A a \in Admin :
        /\ review[a].stage # "idle" => review[a].dep \in DepId
        /\ Holds(a) =>
              /\ Pending(review[a].dep)
              /\ \A b \in Admin : (Holds(b) /\ review[b].dep = review[a].dep) => a = b
              /\ review[a].pays => Referrer[deposits[review[a].dep].user] # NoUser

\* Only users with a referrer have a referral row.
RewardRows == \A u \in User : Referrer[u] = NoUser => reward[u] = "NONE"

\* Rows that exist, or that the ledger credits, had their id issued.
RowsIssued ==
    \A d \in DepId :
        /\ Present(d) => d \in issued
        /\ \A u \in User : CreditsIn(ledger, u, d) # {} => d \in issued

OneCredit ==
    \A d \in DepId, u, v \in User :
        \A i \in CreditsIn(ledger, u, d), j \in CreditsIn(ledger, v, d) : u = v /\ i = j

\* Stronger than the property: an unapproved row has no credit for any user.
StatusMatches ==
    \A d \in DepId : Present(d) =>
        /\ deposits[d].status = "APPROVED" =>
              \E i \in CreditsIn(ledger, deposits[d].user, d) :
                  ledger[deposits[d].user]["CASH"][i].amount = deposits[d].amount
        /\ deposits[d].status # "APPROVED" =>
              \A u \in User : CreditsIn(ledger, u, d) = {}

CreditInv == RowsIssued /\ OneCredit /\ StatusMatches

DepositInv ==
    /\ DepositTypeOK
    /\ LedgerExplainsBalance
    /\ ClaimsHold
    /\ RewardRows
    /\ CreditInv

-----------------------------------------------------------------------------
(***************************************************************************)
(* The movements of an approval.                                           *)
(***************************************************************************)
LEMMA RowTypes ==
    ASSUME DepositTypeOK, NEW d \in DepId, Present(d)
    PROVE  /\ deposits[d] \in DepositRow
           /\ deposits[d].user \in User
           /\ deposits[d].amount \in DepAmount
           /\ deposits[d].amount \in Nat \ {0}
           /\ deposits[d].status \in DepositStatus
           /\ deposits[d].tid \in Tid
<1>1. deposits[d] \in DepositRow
  BY DEF DepositTypeOK, Present
<1>. QED
  BY <1>1, DepositAssumption DEF DepositRow

\* Splitting the type invariant into the facts the steps need.
LEMMA ReviewTypes ==
    ASSUME DepositTypeOK, NEW a \in Admin
    PROVE  /\ review[a] \in Review
           /\ review[a].stage \in {"idle", "claimed", "credited", "deleting"}
           /\ review[a].dep \in DepId \union {NoDep}
           /\ review[a].stamp \in Nat /\ review[a].min \in Nat
           /\ review[a].pays \in BOOLEAN
<1>1. review[a] \in Review
  BY DEF DepositTypeOK
<1>. QED
  BY <1>1 DEF Review

LEMMA DepositMove ==
    ASSUME DepositTypeOK, NEW d \in DepId, Present(d), NEW bk
    PROVE  /\ DepositCredit(d) \in Move
           /\ CanMove(bk, DepositCredit(d))
<1>1. /\ deposits[d].user \in User /\ deposits[d].amount \in Nat \ {0}
      /\ d \in Ref
  BY RowTypes, DepositAssumption
<1>. QED
  BY <1>1 DEF DepositCredit, Credit, Move, CanMove, Bucket, Direction, TxType

LEMMA RewardMove ==
    ASSUME NEW u \in User, Referrer[u] # NoUser, RewardAmount > 0, NEW bk
    PROVE  /\ RewardCredit(u) \in Move
           /\ CanMove(bk, RewardCredit(u))
<1>1. Referrer[u] \in User /\ u \in Ref /\ RewardAmount \in Nat
  BY DepositAssumption
<1>. QED
  BY <1>1 DEF RewardCredit, Credit, Move, CanMove, Bucket, Direction, TxType

-----------------------------------------------------------------------------
(***************************************************************************)
(* Steps that post nothing to a deposit row keep CreditInv: the credits of *)
(* every row stay as they are, and a row only appears under a fresh id,    *)
(* disappears, stays as it is or is decided without being approved.        *)
(***************************************************************************)
SameCredits(log1, log2) ==
    \A u \in User, d \in DepId :
        /\ CreditsIn(log2, u, d) = CreditsIn(log1, u, d)
        /\ \A i \in CreditsIn(log1, u, d) :
              log2[u]["CASH"][i].amount = log1[u]["CASH"][i].amount

RowStep(d) ==
    \/ deposits'[d] = deposits[d]
    \/ deposits'[d] = NoDep
    \/ d \notin issued /\ deposits'[d].status = "PENDING"
    \/ /\ Pending(d)
       /\ deposits'[d].status = "REJECTED"

LEMMA CreditFrame ==
    ASSUME DepositTypeOK, CreditInv, SameCredits(ledger, ledger'), issued \subseteq issued',
           \A d \in DepId : RowStep(d) /\ (Present(d)' => Present(d) \/ d \in issued')
    PROVE  CreditInv'
<1>. USE DEF CreditInv
<1>1. \A u \in User, d \in DepId : CreditsIn(ledger', u, d) = CreditsIn(ledger, u, d)
  BY DEF SameCredits
<1>2. RowsIssued'
  BY <1>1 DEF RowsIssued
<1>3. OneCredit'
  BY <1>1 DEF OneCredit
<1>4. ASSUME NEW d \in DepId, Present(d)'
      PROVE  /\ deposits'[d].status = "APPROVED" =>
                  \E i \in CreditsIn(ledger', deposits'[d].user, d) :
                      ledger'[deposits'[d].user]["CASH"][i].amount = deposits'[d].amount
             /\ deposits'[d].status # "APPROVED" =>
                  \A u \in User : CreditsIn(ledger', u, d) = {}
  <2>1. CASE Present(d) /\ deposits'[d] = deposits[d]
    <3>1. deposits[d].user \in User
      BY <2>1, RowTypes
    <3>2. StatusMatches
      OBVIOUS
    <3>. QED
      BY <2>1, <3>1, <3>2 DEF StatusMatches, SameCredits
  <2>2. CASE d \notin issued /\ deposits'[d].status = "PENDING"
    <3>1. \A u \in User : CreditsIn(ledger, u, d) = {}
      BY <2>2 DEF RowsIssued
    <3>. QED
      BY <2>2, <3>1, <1>1
  <2>3. CASE Pending(d) /\ deposits'[d].status = "REJECTED"
    <3>1. \A u \in User : CreditsIn(ledger, u, d) = {}
      BY <2>3 DEF StatusMatches, Pending
    <3>. QED
      BY <2>3, <3>1, <1>1
  <2>. QED
    BY <1>4, <2>1, <2>2, <2>3 DEF RowStep, Present
<1>. QED
  BY <1>2, <1>3, <1>4 DEF StatusMatches

(***************************************************************************)
(* A movement that is not a deposit's leaves the deposit credits alone.    *)
(***************************************************************************)
LEMMA OtherMove ==
    ASSUME NEW bk, BooksOK(bk), NEW m \in Move, CanMove(bk, m), m.type # "DEPOSIT"
    PROVE  SameCredits(bk.log, Post(bk, m).log)
<1>1. SUFFICES ASSUME NEW u \in User, NEW d \in DepId
               PROVE  /\ CreditsIn(Post(bk, m).log, u, d) = CreditsIn(bk.log, u, d)
                      /\ \A i \in CreditsIn(bk.log, u, d) :
                            Post(bk, m).log[u]["CASH"][i].amount = bk.log[u]["CASH"][i].amount
  BY DEF SameCredits
<1>2. "CASH" \in Bucket
  BY DEF Bucket
<1>. QED
  BY <1>2, PostEntries, SMTT(40) DEF CreditsIn

\* A deposit's movement adds one credit to its row and no other.
LEMMA OtherDeposits ==
    ASSUME NEW bk, BooksOK(bk), NEW m \in Move, CanMove(bk, m),
           m.type = "DEPOSIT", m.bucket = "CASH",
           NEW u \in User, NEW d \in DepId, u # m.user \/ d # m.ref
    PROVE  LET log == Post(bk, m).log
           IN  /\ CreditsIn(log, u, d) = CreditsIn(bk.log, u, d)
               /\ \A i \in CreditsIn(bk.log, u, d) :
                     log[u]["CASH"][i].amount = bk.log[u]["CASH"][i].amount
<1>1. m.user \in User /\ "CASH" \in Bucket
  BY DEF Move, Bucket
<1>. QED
  BY <1>1, PostEntries, SMTT(40) DEF CreditsIn

LEMMA DepositPosted ==
    ASSUME NEW bk, BooksOK(bk), NEW m \in Move, CanMove(bk, m),
           m.type = "DEPOSIT", m.bucket = "CASH"
    PROVE  LET n == Len(bk.log[m.user]["CASH"]) + 1
               log == Post(bk, m).log
           IN  /\ CreditsIn(log, m.user, m.ref) = CreditsIn(bk.log, m.user, m.ref) \union {n}
               /\ log[m.user]["CASH"][n].amount = m.amount
               /\ \A u \in User, d \in DepId : (u # m.user \/ d # m.ref) =>
                     /\ CreditsIn(log, u, d) = CreditsIn(bk.log, u, d)
                     /\ \A i \in CreditsIn(bk.log, u, d) :
                           log[u]["CASH"][i].amount = bk.log[u]["CASH"][i].amount
<1>. DEFINE n == Len(bk.log[m.user]["CASH"]) + 1
            log == Post(bk, m).log
<1>1. m.user \in User /\ "CASH" \in Bucket
  BY DEF Move, Bucket
<1>2. CreditsIn(log, m.user, m.ref) = CreditsIn(bk.log, m.user, m.ref) \union {n}
  BY PostedEntry DEF CreditsIn
<1>3. log[m.user]["CASH"][n] = NewEntry(bk, m)
  BY PostedEntry
<1>4. log[m.user]["CASH"][n].amount = m.amount
  BY <1>3, NewEntryType
<1>5. ASSUME NEW u \in User, NEW d \in DepId, u # m.user \/ d # m.ref
      PROVE  /\ CreditsIn(log, u, d) = CreditsIn(bk.log, u, d)
             /\ \A i \in CreditsIn(bk.log, u, d) :
                   log[u]["CASH"][i].amount = bk.log[u]["CASH"][i].amount
  BY <1>5, OtherDeposits
<1>. QED
  BY <1>2, <1>4, <1>5

-----------------------------------------------------------------------------
LEMMA InitDepositInv == DepositInit => DepositInv
<1>. SUFFICES ASSUME DepositInit PROVE DepositInv
  OBVIOUS
<1>. USE DEF DepositInit, WalletInit
<1>1. DepositTypeOK
  <2>1. WalletTypeOK
    BY WalletAssumption DEF WalletTypeOK, BooksOK, Books
  <2>2. \A a \in Admin : review[a] \in Review
    BY DEF Review, Idle
  <2>3. reward \in [User -> {"NONE", "PENDING", "CREDITED", "REJECTED"}]
    OBVIOUS
  <2>. QED
    BY <2>1, <2>2, <2>3, DepositAssumption DEF DepositTypeOK
<1>2. LedgerExplainsBalance
  BY DEF LedgerExplainsBalance, BooksExplained, ClosingBalance, Books
<1>3. ClaimsHold
  BY DEF ClaimsHold, Holds, Idle
<1>4. RewardRows
  BY DEF RewardRows
<1>5. \A u \in User, d \in DepId : CreditsIn(ledger, u, d) = {}
  BY DEF CreditsIn, EntriesIn, Bucket
<1>6. CreditInv
  BY <1>5 DEF CreditInv, RowsIssued, OneCredit, StatusMatches, Present
<1>. QED
  BY <1>1, <1>2, <1>3, <1>4, <1>6 DEF DepositInv

-----------------------------------------------------------------------------
(***************************************************************************)
(* One lemma per action.                                                   *)
(***************************************************************************)
LEMMA BooksAlone ==
    ASSUME DepositInv, wallets' = wallets, ledger' = ledger,
           rowLock' \in [User -> Txn \union {NoTxn}]
    PROVE  WalletTypeOK' /\ LedgerExplainsBalance' /\ SameCredits(ledger, ledger')
<1>1. WalletTypeOK'
  BY DEF DepositInv, DepositTypeOK, WalletTypeOK, BooksOK, Books
<1>2. LedgerExplainsBalance'
  BY DEF DepositInv, LedgerExplainsBalance, BooksExplained, ClosingBalance, Books
<1>. QED
  BY <1>1, <1>2 DEF SameCredits

LEMMA LockTypes ==
    ASSUME DepositInv, NEW a \in Admin, NEW us
    PROVE  /\ Locked(a, us) \in [User -> Txn \union {NoTxn}]
           /\ Released(a) \in [User -> Txn \union {NoTxn}]
<1>1. rowLock \in [User -> Txn \union {NoTxn}] /\ a \in Txn
  BY DepositAssumption DEF DepositInv, DepositTypeOK, WalletTypeOK
<1>. QED
  BY <1>1 DEF Locked, Released

LEMMA CreateStep ==
    ASSUME DepositInv, NEW u \in User, NEW t \in Tid, NEW amt \in DepAmount,
           CreateDeposit(u, t, amt)
    PROVE  DepositInv'
<1>. DEFINE row == [user |-> u, tid |-> t, amount |-> amt,
                    status |-> "PENDING", reviewedAt |-> 0]
<1>1. PICK d \in DepId \ issued :
          /\ deposits' = [deposits EXCEPT ![d] = row]
          /\ issued' = issued \union {d}
          /\ UNCHANGED <<walletVars, clock, review, reward, minFirst>>
  BY DEF CreateDeposit
<1>2. row \in DepositRow
  BY DEF DepositRow, DepositStatus
<1>3. WalletTypeOK' /\ LedgerExplainsBalance' /\ SameCredits(ledger, ledger')
  BY <1>1, BooksAlone DEF DepositInv, DepositTypeOK, WalletTypeOK, walletVars
<1>4. DepositTypeOK'
  BY <1>1, <1>2, <1>3 DEF DepositInv, DepositTypeOK
<1>5. \A x \in DepId : Present(x) => deposits'[x] = deposits[x]
  <2>1. ~Present(d)
    BY <1>1 DEF DepositInv, CreditInv, RowsIssued
  <2>. QED
    BY <1>1, <2>1 DEF DepositInv, DepositTypeOK
<1>6. ClaimsHold'
  BY <1>1, <1>5 DEF DepositInv, ClaimsHold, Holds, Pending, Present
<1>7. CreditInv'
  <2>1. ASSUME NEW x \in DepId
        PROVE  RowStep(x) /\ (Present(x)' => Present(x) \/ x \in issued')
    BY <1>1, <1>2 DEF RowStep, Present, DepositInv, DepositTypeOK
  <2>. QED
    BY <1>1, <1>3, <2>1, CreditFrame DEF DepositInv
<1>. QED
  BY <1>1, <1>3, <1>4, <1>6, <1>7 DEF DepositInv, RewardRows

LEMMA DecidedRow ==
    ASSUME NEW old \in DepositRow, NEW st \in DepositStatus, NEW n \in Nat
    PROVE  /\ Decided(old, st, n) \in DepositRow
           /\ Decided(old, st, n).status = st
           /\ Decided(old, st, n).user = old.user
           /\ Decided(old, st, n).amount = old.amount
<1>. DEFINE mid == [old EXCEPT !.status = st]
            row == [mid EXCEPT !.reviewedAt = n]
<1>1. mid \in DepositRow /\ mid.status = st /\ mid.user = old.user /\ mid.amount = old.amount
  BY DEF DepositRow
<1>. HIDE DEF mid
<1>2. /\ row \in DepositRow
      /\ row.status = st /\ row.user = old.user /\ row.amount = old.amount
  BY <1>1 DEF DepositRow
<1>. QED
  BY <1>2 DEF mid, Decided

LEMMA RejectStep ==
    ASSUME DepositInv, NEW d \in DepId, RejectDeposit(d)
    PROVE  DepositInv'
<1>. DEFINE row == Decided(deposits[d], "REJECTED", clock + 1)
<1>1. /\ Pending(d) /\ ~RowClaimed(d) /\ clock' = clock + 1
      /\ UNCHANGED <<walletVars, issued, review, reward, minFirst>>
  BY DEF RejectDeposit
<1>2. clock \in Nat /\ deposits \in [DepId -> DepositRow \union {NoDep}]
  BY DEF DepositInv, DepositTypeOK
<1>3. deposits[d] \in DepositRow
  BY <1>1, RowTypes DEF Pending, DepositInv
<1>4. row \in DepositRow /\ row.status = "REJECTED"
  <2>1. "REJECTED" \in DepositStatus /\ clock + 1 \in Nat
    BY <1>2 DEF DepositStatus
  <2>. QED
    BY <1>3, <2>1, DecidedRow
<1>5. deposits' = [deposits EXCEPT ![d] = row]
  BY <1>2 DEF RejectDeposit
<1>6. WalletTypeOK' /\ LedgerExplainsBalance' /\ SameCredits(ledger, ledger')
  BY <1>1, BooksAlone DEF DepositInv, DepositTypeOK, WalletTypeOK, walletVars
<1>7. DepositTypeOK'
  BY <1>1, <1>2, <1>4, <1>5, <1>6 DEF DepositInv, DepositTypeOK
<1>8. ClaimsHold'
  BY <1>1, <1>2, <1>5 DEF DepositInv, ClaimsHold, Holds, Pending, Present, RowClaimed
<1>9. CreditInv'
  <2>1. ASSUME NEW x \in DepId
        PROVE  RowStep(x) /\ (Present(x)' => Present(x) \/ x \in issued')
    BY <1>1, <1>2, <1>4, <1>5 DEF RowStep, Pending, Present
  <2>. QED
    BY <1>1, <1>6, <2>1, CreditFrame DEF DepositInv
<1>. QED
  BY <1>1, <1>6, <1>7, <1>8, <1>9 DEF DepositInv, RewardRows

\* A step of a's request that changes no row and no book.
LEMMA ReviewMoves ==
    ASSUME DepositInv, NEW a \in Admin, NEW r \in Review,
           review' = [review EXCEPT ![a] = r],
           rowLock' \in [User -> Txn \union {NoTxn}], clock' \in Nat,
           UNCHANGED <<wallets, ledger, deposits, issued, reward, minFirst>>,
           r.stage # "idle" => r.dep \in DepId,
           r.stage \in {"claimed", "credited"} =>
              /\ Pending(r.dep)
              /\ \A b \in Admin \ {a} : ~(Holds(b) /\ review[b].dep = r.dep)
              /\ r.pays => Referrer[deposits[r.dep].user] # NoUser
    PROVE  DepositInv'
<1>1. WalletTypeOK' /\ LedgerExplainsBalance' /\ SameCredits(ledger, ledger')
  BY BooksAlone
<1>2. review \in [Admin -> Review]
  BY DEF DepositInv, DepositTypeOK
<1>3. DepositTypeOK'
  BY <1>1, <1>2 DEF DepositInv, DepositTypeOK
<1>4. ClaimsHold'
  BY <1>2 DEF DepositInv, ClaimsHold, Holds, Pending, Present
<1>5. CreditInv'
  <2>1. \A x \in DepId : RowStep(x) /\ (Present(x)' => Present(x) \/ x \in issued')
    BY DEF RowStep, Present
  <2>. QED
    BY <1>1, <2>1, CreditFrame DEF DepositInv
<1>. QED
  BY <1>1, <1>3, <1>4, <1>5 DEF DepositInv, RewardRows

LEMMA ClaimStep ==
    ASSUME DepositInv, NEW a \in Admin, NEW d \in DepId, ClaimApproval(a, d)
    PROVE  DepositInv'
<1>. DEFINE r == [stage |-> "claimed", dep |-> d, stamp |-> clock + 1,
                  min |-> minFirst, pays |-> FALSE]
<1>1. clock \in Nat /\ minFirst \in Nat /\ rowLock \in [User -> Txn \union {NoTxn}]
  BY DEF DepositInv, DepositTypeOK, WalletTypeOK
<1>2. r \in Review
  BY <1>1 DEF Review
<1>3. \A b \in Admin : ~(Holds(b) /\ review[b].dep = d)
  BY DEF ClaimApproval, RowClaimed, Holds
<1>4. /\ review' = [review EXCEPT ![a] = r] /\ Pending(d)
      /\ rowLock' \in [User -> Txn \union {NoTxn}] /\ clock' \in Nat
      /\ UNCHANGED <<wallets, ledger, deposits, issued, reward, minFirst>>
  BY <1>1 DEF ClaimApproval, walletVars
<1>5. r.stage = "claimed" /\ r.dep = d /\ r.pays = FALSE
  OBVIOUS
<1>6. \A b \in Admin \ {a} : ~(Holds(b) /\ review[b].dep = r.dep)
  BY <1>3
<1>. HIDE DEF r
<1>. QED
  BY <1>2, <1>4, <1>5, <1>6, ReviewMoves

LEMMA CreditStep ==
    ASSUME DepositInv, NEW a \in Admin, CreditDepositor(a)
    PROVE  DepositInv'
<1>. DEFINE d == review[a].dep
            r == [review[a] EXCEPT !.stage = "credited", !.pays = RewardDue(a)]
<1>1. review[a] \in Review /\ review \in [Admin -> Review]
  BY DEF DepositInv, DepositTypeOK
<1>2. /\ Holds(a) /\ d \in DepId /\ Pending(d)
      /\ \A b \in Admin \ {a} : ~(Holds(b) /\ review[b].dep = d)
  BY DEF CreditDepositor, Holds, DepositInv, ClaimsHold
<1>3. RewardDue(a) \in BOOLEAN
  BY DEF RewardDue, FirstQualifying
<1>4. r \in Review /\ r.stage = "credited" /\ r.dep = d /\ r.pays = RewardDue(a)
  BY <1>1, <1>3 DEF Review
<1>5. review' = [review EXCEPT ![a] = r]
  BY <1>1, <1>3 DEF CreditDepositor, Review
<1>6. RewardDue(a) => Referrer[deposits[d].user] # NoUser
  <2>1. deposits[d].user \in User
    BY <1>2, RowTypes DEF DepositInv, Pending
  <2>. QED
    BY <2>1 DEF RewardDue, DepositInv, RewardRows
<1>7. rowLock' \in [User -> Txn \union {NoTxn}]
  BY LockTypes DEF CreditDepositor
<1>8. clock' \in Nat /\ UNCHANGED <<wallets, ledger, deposits, issued, reward, minFirst>>
  BY DEF CreditDepositor, DepositInv, DepositTypeOK
<1>. QED
  BY <1>2, <1>4, <1>5, <1>6, <1>7, <1>8, ReviewMoves

LEMMA IdleReview == Idle \in Review /\ Idle.stage = "idle"
  BY DEF Idle, Review

LEMMA AbortStep ==
    ASSUME DepositInv, NEW a \in Admin, AbortApproval(a)
    PROVE  DepositInv'
  BY IdleReview, LockTypes, ReviewMoves DEF AbortApproval, DepositInv, DepositTypeOK

LEMMA BeginDeleteStep ==
    ASSUME DepositInv, NEW a \in Admin, NEW d \in DepId, BeginDelete(a, d)
    PROVE  DepositInv'
<1>. DEFINE r == [Idle EXCEPT !.stage = "deleting", !.dep = d]
<1>1. r \in Review /\ r.stage = "deleting" /\ r.dep = d
  BY DEF Idle, Review
<1>. QED
  BY <1>1, ReviewMoves
     DEF BeginDelete, walletVars, DepositInv, DepositTypeOK, WalletTypeOK

LEMMA EndDeleteStep ==
    ASSUME DepositInv, NEW a \in Admin, EndDelete(a)
    PROVE  DepositInv'
<1>. DEFINE d == review[a].dep
<1>1. /\ d \in DepId /\ ~RowClaimed(d)
      /\ deposits' = [deposits EXCEPT ![d] = NoDep]
      /\ review' = [review EXCEPT ![a] = Idle]
      /\ UNCHANGED <<walletVars, issued, clock, reward, minFirst>>
  BY DEF EndDelete, DepositInv, ClaimsHold
<1>2. deposits \in [DepId -> DepositRow \union {NoDep}] /\ review \in [Admin -> Review]
  BY DEF DepositInv, DepositTypeOK
<1>3. WalletTypeOK' /\ LedgerExplainsBalance' /\ SameCredits(ledger, ledger')
  BY <1>1, BooksAlone DEF DepositInv, DepositTypeOK, WalletTypeOK, walletVars
<1>4. DepositTypeOK'
  BY <1>1, <1>2, <1>3, IdleReview DEF DepositInv, DepositTypeOK
<1>5. ClaimsHold'
  BY <1>1, <1>2, IdleReview
     DEF DepositInv, ClaimsHold, Holds, Pending, Present, RowClaimed
<1>6. CreditInv'
  <2>1. \A x \in DepId : RowStep(x) /\ (Present(x)' => Present(x) \/ x \in issued')
    BY <1>1, <1>2 DEF RowStep, Present
  <2>. QED
    BY <1>1, <1>3, <2>1, CreditFrame DEF DepositInv
<1>. QED
  BY <1>1, <1>3, <1>4, <1>5, <1>6 DEF DepositInv, RewardRows

(***************************************************************************)
(* The commit of an approval: one credit for the row it claimed, and maybe *)
(* the reward.                                                             *)
(***************************************************************************)
LEMMA CommitStep ==
    ASSUME DepositInv, NEW a \in Admin, CommitApproval(a)
    PROVE  DepositInv'
<1>1. PICK d \in DepId, u \in User : d = review[a].dep /\ u = deposits[d].user
  <2>1. review[a].dep \in DepId /\ Pending(review[a].dep)
    BY DEF CommitApproval, Holds, DepositInv, ClaimsHold
  <2>. QED
    BY <2>1, RowTypes DEF Pending, DepositInv
<1>. DEFINE m == DepositCredit(d)
            credited == Post(Books, m)
            rewards == review[a].pays /\ RewardAmount > 0
            final == IF rewards THEN Post(credited, RewardCredit(u)) ELSE credited
            row == Decided(deposits[d], "APPROVED", review[a].stamp)
            n == Len(ledger[u]["CASH"]) + 1
<1>2. /\ review[a].stage = "credited"
      /\ wallets' = final.bal /\ ledger' = final.log
      /\ deposits' = [deposits EXCEPT ![d] = row]
      /\ review' = [review EXCEPT ![a] = Idle]
      /\ rowLock' = Released(a)
      /\ UNCHANGED <<issued, clock, minFirst>>
      /\ reward' = IF ~review[a].pays THEN reward
                   ELSE [reward EXCEPT ![u] = IF RewardAmount > 0 THEN "CREDITED"
                                                                 ELSE "REJECTED"]
  BY <1>1 DEF CommitApproval, Commit
<1>3. /\ Holds(a) /\ Pending(d)
      /\ \A b \in Admin \ {a} : ~(Holds(b) /\ review[b].dep = d)
      /\ review[a].pays => Referrer[u] # NoUser
  BY <1>1, <1>2 DEF Holds, DepositInv, ClaimsHold
<1>4. /\ Present(d) /\ deposits[d] \in DepositRow
      /\ deposits[d].amount \in Nat \ {0} /\ deposits[d].status = "PENDING"
  BY <1>3, RowTypes DEF Pending, DepositInv
<1>5. /\ BooksOK(Books) /\ BooksExplained(Books)
      /\ review[a].stamp \in Nat /\ review[a].pays \in BOOLEAN
      /\ deposits \in [DepId -> DepositRow \union {NoDep}]
      /\ review \in [Admin -> Review]
      /\ reward \in [User -> {"NONE", "PENDING", "CREDITED", "REJECTED"}]
  BY ReviewTypes DEF DepositInv, DepositTypeOK, WalletTypeOK, LedgerExplainsBalance
<1>6. m \in Move /\ CanMove(Books, m)
  BY <1>3, <1>4, DepositMove DEF DepositInv
<1>7. BooksOK(credited) /\ BooksExplained(credited)
  BY <1>5, <1>6, PostBooks, PostExplained
<1>8. BooksOK(final) /\ BooksExplained(final) /\ SameCredits(credited.log, final.log)
  <2>1. CASE rewards
    <3>1. RewardCredit(u) \in Move /\ CanMove(credited, RewardCredit(u))
      BY <2>1, <1>3, <1>4, RewardMove
    <3>2. RewardCredit(u).type # "DEPOSIT"
      BY DEF RewardCredit, Credit
    <3>3. final = Post(credited, RewardCredit(u))
      BY <2>1
    <3>. HIDE DEF credited, final
    <3>. QED
      BY <3>1, <3>2, <3>3, <1>7, PostBooks, PostExplained, OtherMove
  <2>2. CASE ~rewards
    BY <2>2, <1>7 DEF SameCredits
  <2>. QED
    BY <2>1, <2>2
<1>. HIDE DEF final
<1>9. WalletTypeOK' /\ LedgerExplainsBalance'
  <2>1. BooksOK(Books)' /\ BooksExplained(Books)'
    BY <1>2, <1>8
       DEF BooksOK, BooksExplained, ClosingBalance, Books
  <2>. QED
    BY <2>1, <1>2, LockTypes DEF WalletTypeOK, LedgerExplainsBalance
<1>10. row \in DepositRow /\ row.status = "APPROVED" /\ row.user = u
       /\ row.amount = deposits[d].amount
  <2>1. "APPROVED" \in DepositStatus
    BY DEF DepositStatus
  <2>2. deposits[d] \in DepositRow /\ review[a].stamp \in Nat
    BY <1>4, <1>5
  <2>. QED
    BY <1>1, <2>1, <2>2, DecidedRow
<1>. HIDE DEF row
<1>11. DepositTypeOK' /\ RewardRows'
  <2>1. reward' \in [User -> {"NONE", "PENDING", "CREDITED", "REJECTED"}]
    BY <1>2, <1>4, <1>5
  <2>2. RewardRows'
    BY <1>2, <1>3, <1>4, <1>5 DEF RewardRows, DepositInv
  <2>. QED
    BY <1>2, <1>3, <1>5, <1>9, <1>10, <2>1, <2>2, IdleReview
       DEF DepositInv, DepositTypeOK
<1>12. ClaimsHold'
  BY <1>2, <1>3, <1>5, IdleReview DEF DepositInv, ClaimsHold, Holds, Pending, Present
<1>13. \* what the posting did
       /\ CreditsIn(credited.log, u, d) = CreditsIn(ledger, u, d) \union {n}
       /\ credited.log[u]["CASH"][n].amount = deposits[d].amount
       /\ \A v \in User, x \in DepId : (v # u \/ x # d) =>
             /\ CreditsIn(credited.log, v, x) = CreditsIn(ledger, v, x)
             /\ \A i \in CreditsIn(ledger, v, x) :
                   credited.log[v]["CASH"][i].amount = ledger[v]["CASH"][i].amount
  <2>1. /\ m.user = u /\ m.bucket = "CASH" /\ m.type = "DEPOSIT" /\ m.ref = d
        /\ m.amount = deposits[d].amount /\ Books.log = ledger
    BY <1>1 DEF DepositCredit, Credit, Books
  <2>. HIDE DEF m
  <2>2. BooksOK(Books)
    BY <1>5
  <2>. HIDE DEF n
  <2>3. CreditsIn(credited.log, m.user, m.ref) =
            CreditsIn(Books.log, m.user, m.ref) \union {Len(Books.log[m.user]["CASH"]) + 1}
    BY <1>6, <2>1, <2>2, DepositPosted, ZenonT(60)
  <2>4. credited.log[m.user]["CASH"][Len(Books.log[m.user]["CASH"]) + 1].amount = m.amount
    BY <1>6, <2>1, <2>2, DepositPosted
  <2>5. \A v \in User, x \in DepId : (v # m.user \/ x # m.ref) =>
           /\ CreditsIn(credited.log, v, x) = CreditsIn(Books.log, v, x)
           /\ \A i \in CreditsIn(Books.log, v, x) :
                 credited.log[v]["CASH"][i].amount = Books.log[v]["CASH"][i].amount
    <3>. SUFFICES ASSUME NEW v \in User, NEW x \in DepId, v # m.user \/ x # m.ref
                  PROVE  /\ CreditsIn(credited.log, v, x) = CreditsIn(Books.log, v, x)
                         /\ \A i \in CreditsIn(Books.log, v, x) :
                               credited.log[v]["CASH"][i].amount = Books.log[v]["CASH"][i].amount
      OBVIOUS
    <3>. QED
      BY <1>6, <2>1, <2>2, OtherDeposits
  <2>. HIDE DEF credited
  <2>. QED
    BY <2>1, <2>3, <2>4, <2>5 DEF n
<1>14. \* the credits of d
       /\ CreditsIn(credited.log, u, d) = {n}
       /\ credited.log[u]["CASH"][n].amount = deposits[d].amount
       /\ \A v \in User : v # u => CreditsIn(credited.log, v, d) = {}
  <2>1. \A v \in User : CreditsIn(ledger, v, d) = {}
    BY <1>3, <1>4 DEF DepositInv, CreditInv, StatusMatches
  <2>2. CreditsIn(credited.log, u, d) = CreditsIn(ledger, u, d) \union {n}
    BY <1>13
  <2>3. \A v \in User : v # u => CreditsIn(credited.log, v, d) = CreditsIn(ledger, v, d)
    BY <1>3, <1>13
  <2>. QED
    BY <1>4, <1>13, <2>1, <2>2, <2>3
<1>15. \* the credits of the other rows
       \A x \in DepId \ {d}, v \in User :
          /\ CreditsIn(credited.log, v, x) = CreditsIn(ledger, v, x)
          /\ \A i \in CreditsIn(ledger, v, x) :
                credited.log[v]["CASH"][i].amount = ledger[v]["CASH"][i].amount
  BY <1>13
<1>. HIDE DEF credited, n
<1>16. \A x \in DepId, v \in User :
          /\ CreditsIn(ledger', v, x) = CreditsIn(credited.log, v, x)
          /\ \A i \in CreditsIn(credited.log, v, x) :
                ledger'[v]["CASH"][i].amount = credited.log[v]["CASH"][i].amount
  BY <1>2, <1>8 DEF SameCredits
<1>17. RowsIssued'
  <2>1. d \in issued
    BY <1>3, <1>4 DEF DepositInv, CreditInv, RowsIssued
  <2>2. ASSUME NEW x \in DepId, x # d
        PROVE  /\ Present(x)' => x \in issued'
               /\ \A v \in User : CreditsIn(ledger', v, x) # {} => x \in issued'
    BY <2>2, <1>2, <1>15, <1>16 DEF DepositInv, CreditInv, RowsIssued, Present
  <2>. QED
    BY <1>2, <2>1, <2>2 DEF RowsIssued
<1>18. OneCredit'
  <2>1. \A v \in User : v # u => CreditsIn(ledger', v, d) = {}
    BY <1>3, <1>14, <1>16
  <2>2. CreditsIn(ledger', u, d) = {n}
    BY <1>3, <1>4, <1>14, <1>16
  <2>3. \A x \in DepId \ {d}, v \in User : CreditsIn(ledger', v, x) = CreditsIn(ledger, v, x)
    BY <1>15, <1>16
  <2>. QED
    BY <2>1, <2>2, <2>3 DEF OneCredit, DepositInv, CreditInv
<1>19. StatusMatches'
  <2>1. deposits'[d] = row
    BY <1>2, <1>3, <1>5
  <2>2. ledger'[u]["CASH"][n].amount = row.amount /\ n \in CreditsIn(ledger', u, d)
    BY <1>3, <1>4, <1>10, <1>14, <1>16
  <2>3. ASSUME NEW x \in DepId, x # d, Present(x)'
        PROVE  /\ deposits'[x].status = "APPROVED" =>
                    \E i \in CreditsIn(ledger', deposits'[x].user, x) :
                        ledger'[deposits'[x].user]["CASH"][i].amount = deposits'[x].amount
               /\ deposits'[x].status # "APPROVED" =>
                    \A v \in User : CreditsIn(ledger', v, x) = {}
    <3>1. deposits'[x] = deposits[x] /\ Present(x)
      BY <2>3, <1>2, <1>5 DEF Present
    <3>2. deposits[x].user \in User
      BY <3>1, RowTypes DEF DepositInv
    <3>. QED
      BY <2>3, <3>1, <3>2, <1>15, <1>16 DEF DepositInv, CreditInv, StatusMatches
  <2>4. deposits'[d].status = "APPROVED" /\ deposits'[d].user = u
        /\ \E i \in CreditsIn(ledger', deposits'[d].user, d) :
              ledger'[deposits'[d].user]["CASH"][i].amount = deposits'[d].amount
    BY <1>10, <2>1, <2>2
  <2>. QED
    BY <2>3, <2>4 DEF StatusMatches
<1>. QED
  BY <1>9, <1>11, <1>12, <1>17, <1>18, <1>19 DEF DepositInv, CreditInv

LEMMA ConvertStep ==
    ASSUME DepositInv, NEW u \in User, NEW x \in SpendAmounts,
           ConvertCashToCoins(u, x), UNCHANGED depositVars
    PROVE  DepositInv'
<1>. DEFINE debit == Debit(u, "CASH", x, "COIN_CONVERSION", NoRef)
            credit == Credit(u, "COINS", CoinsFor(x), "COIN_CONVERSION", NoRef)
            mid == Post(Books, debit)
            final == Post(mid, credit)
<1>1. /\ CanMove(Books, debit) /\ CanMove(mid, credit)
      /\ wallets' = final.bal /\ ledger' = final.log
      /\ rowLock' = rowLock
      /\ UNCHANGED <<deposits, issued, clock, review, reward, minFirst>>
  BY DEF ConvertCashToCoins, Commit, depositVars
<1>2. BooksOK(Books) /\ BooksExplained(Books) /\ Books.log = ledger
  BY DEF DepositInv, DepositTypeOK, WalletTypeOK, LedgerExplainsBalance, Books
<1>3. debit \in Move /\ credit \in Move
  <2>1. x \in Nat
    BY WalletAssumption
  <2>2. CoinsFor(x) \in Nat
    BY <2>1, WalletAssumption DEF CoinsFor
  <2>. QED
    BY <2>1, <2>2 DEF Debit, Credit, Move, Bucket, Direction, TxType
<1>4. debit.type # "DEPOSIT" /\ credit.type # "DEPOSIT"
  BY DEF Debit, Credit
<1>. HIDE DEF debit, credit
<1>5. BooksOK(mid) /\ BooksExplained(mid) /\ SameCredits(ledger, mid.log)
  BY <1>1, <1>2, <1>3, <1>4, PostBooks, PostExplained, OtherMove
<1>. HIDE DEF mid
<1>6. BooksOK(final) /\ BooksExplained(final) /\ SameCredits(mid.log, final.log)
  BY <1>1, <1>3, <1>4, <1>5, PostBooks, PostExplained, OtherMove
<1>. HIDE DEF final
<1>7. SameCredits(ledger, ledger')
  BY <1>1, <1>5, <1>6 DEF SameCredits
<1>8. WalletTypeOK' /\ LedgerExplainsBalance'
  <2>1. BooksOK(Books)' /\ BooksExplained(Books)'
    BY <1>1, <1>6 DEF BooksOK, BooksExplained, ClosingBalance, Books
  <2>. QED
    BY <2>1, <1>1 DEF WalletTypeOK, LedgerExplainsBalance, DepositInv, DepositTypeOK
<1>9. DepositTypeOK' /\ ClaimsHold' /\ RewardRows'
  BY <1>1, <1>8
     DEF DepositInv, DepositTypeOK, ClaimsHold, Holds, Pending, Present, RewardRows
<1>10. CreditInv'
  <2>1. \A d \in DepId : RowStep(d) /\ (Present(d)' => Present(d) \/ d \in issued')
    BY <1>1 DEF RowStep, Present
  <2>. QED
    BY <1>1, <1>7, <2>1, CreditFrame DEF DepositInv
<1>. QED
  BY <1>8, <1>9, <1>10 DEF DepositInv

LEMMA StutterStep ==
    ASSUME DepositInv, UNCHANGED depVars
    PROVE  DepositInv'
<1>1. /\ UNCHANGED <<wallets, ledger, rowLock>>
      /\ UNCHANGED <<deposits, issued, clock, review, reward, minFirst>>
  BY DEF depVars, walletVars, depositVars
<1>2. WalletTypeOK' /\ LedgerExplainsBalance' /\ SameCredits(ledger, ledger')
  BY <1>1, BooksAlone DEF DepositInv, DepositTypeOK, WalletTypeOK
<1>3. \A x \in DepId : RowStep(x) /\ (Present(x)' => Present(x) \/ x \in issued')
  BY <1>1 DEF RowStep, Present
<1>4. CreditInv'
  BY <1>1, <1>2, <1>3, CreditFrame DEF DepositInv
<1>. QED
  BY <1>1, <1>2, <1>4
     DEF DepositInv, DepositTypeOK, ClaimsHold, Holds, Pending, Present, RewardRows

LEMMA SettingStep ==
    ASSUME DepositInv, NEW k \in MinFirstChoice, SetReferralMin(k)
    PROVE  DepositInv'
<1>1. /\ UNCHANGED <<wallets, ledger, rowLock>>
      /\ UNCHANGED <<deposits, issued, clock, review, reward>> /\ minFirst' \in Nat
  BY DepositAssumption DEF SetReferralMin, walletVars
<1>2. WalletTypeOK' /\ LedgerExplainsBalance' /\ SameCredits(ledger, ledger')
  BY <1>1, BooksAlone DEF DepositInv, DepositTypeOK, WalletTypeOK
<1>3. \A x \in DepId : RowStep(x) /\ (Present(x)' => Present(x) \/ x \in issued')
  BY <1>1 DEF RowStep, Present
<1>4. CreditInv'
  BY <1>1, <1>2, <1>3, CreditFrame DEF DepositInv
<1>. QED
  BY <1>1, <1>2, <1>4
     DEF DepositInv, DepositTypeOK, ClaimsHold, Holds, Pending, Present, RewardRows

-----------------------------------------------------------------------------
(***************************************************************************)
(* The theorems.                                                           *)
(***************************************************************************)
LEMMA DepositNextKeeps == ASSUME DepositInv, [DepositNext]_depVars PROVE DepositInv'
<1>1. ASSUME NEW u \in User, NEW t \in Tid, NEW amt \in DepAmount,
             CreateDeposit(u, t, amt)
      PROVE  DepositInv'
  BY <1>1, CreateStep
<1>2. ASSUME NEW d \in DepId, RejectDeposit(d) PROVE DepositInv'
  BY <1>2, RejectStep
<1>3. ASSUME NEW a \in Admin, NEW d \in DepId, ClaimApproval(a, d) PROVE DepositInv'
  BY <1>3, ClaimStep
<1>4. ASSUME NEW a \in Admin, NEW d \in DepId, BeginDelete(a, d) PROVE DepositInv'
  BY <1>4, BeginDeleteStep
<1>5. ASSUME NEW a \in Admin, CreditDepositor(a) PROVE DepositInv'
  BY <1>5, CreditStep
<1>6. ASSUME NEW a \in Admin, CommitApproval(a) PROVE DepositInv'
  BY <1>6, CommitStep
<1>7. ASSUME NEW a \in Admin, AbortApproval(a) PROVE DepositInv'
  BY <1>7, AbortStep
<1>8. ASSUME NEW a \in Admin, EndDelete(a) PROVE DepositInv'
  BY <1>8, EndDeleteStep
<1>9. ASSUME NEW k \in MinFirstChoice, SetReferralMin(k) PROVE DepositInv'
  BY <1>9, SettingStep
<1>10. ASSUME NEW u \in User, NEW x \in SpendAmounts,
              ConvertCashToCoins(u, x), UNCHANGED depositVars
       PROVE  DepositInv'
  BY <1>10, ConvertStep
<1>11. CASE UNCHANGED depVars
  BY <1>11, StutterStep
<1>. QED
  BY <1>1, <1>2, <1>3, <1>4, <1>5, <1>6, <1>7, <1>8, <1>9, <1>10, <1>11
     DEF DepositNext, DepositStep

\* DepositInv is inductive: every action of reviews, deletions, settings and
\* conversions keeps it.
THEOREM DepositInductive == DepositSpec => []DepositInv
<1>1. DepositInit => DepositInv
  BY InitDepositInv
<1>2. DepositInv /\ [DepositNext]_depVars => DepositInv'
  BY DepositNextKeeps
<1>. QED
  BY <1>1, <1>2, PTL DEF DepositSpec

\* The tables keep their types; in particular no movement overdraws a wallet,
\* whatever the opening balances and amounts are (payment.service, moveBalance).
THEOREM DepositTypes == DepositSpec => []DepositTypeOK
<1>1. DepositInv => DepositTypeOK
  BY DEF DepositInv
<1>. QED
  BY <1>1, DepositInductive, PTL

\* Approvals, rewards and conversions leave a ledger that explains every balance.
THEOREM DepositLedger == DepositSpec => []LedgerExplainsBalance
<1>1. DepositInv => LedgerExplainsBalance
  BY DEF DepositInv
<1>. QED
  BY <1>1, DepositInductive, PTL

\* What the invariant says of a row and its credits.
LEMMA CreditedOnce == ASSUME DepositInv PROVE CreditedOncePerRow
<1>1. \A d \in DepId, u, v \in User :
          \A i \in CreditsFor(u, d), j \in CreditsFor(v, d) : u = v /\ i = j
  BY DEF DepositInv, CreditInv, OneCredit, CreditsFor, EntriesFor, CreditsIn
<1>2. ASSUME NEW d \in DepId, Present(d)
      PROVE  (deposits[d].status = "APPROVED")
                <=> (\E i \in CreditsFor(deposits[d].user, d) :
                       ledger[deposits[d].user]["CASH"][i].amount = deposits[d].amount)
  <2>1. deposits[d].user \in User
    BY <1>2, RowTypes DEF DepositInv
  <2>. QED
    BY <1>2, <2>1
       DEF DepositInv, CreditInv, StatusMatches, CreditsFor, EntriesFor, CreditsIn
<1>. QED
  BY <1>1, <1>2 DEF CreditedOncePerRow

\* A deposit row is credited once at most, and exactly when it is APPROVED, for
\* any number of concurrent reviews, retries and deletions.
THEOREM DepositCreditedOnce == DepositSpec => []CreditedOncePerRow
  BY CreditedOnce, DepositInductive, PTL

\* No step changes a row that is decided, except its deletion.
LEMMA DecisionKept ==
    ASSUME DepositInv, DepositNext, NEW d \in DepId,
           Present(d), deposits[d].status # "PENDING", Present(d)'
    PROVE  deposits'[d] = deposits[d]
<1>1. deposits \in [DepId -> DepositRow \union {NoDep}] /\ d \in issued
  BY DEF DepositInv, DepositTypeOK, CreditInv, RowsIssued
<1>2. ASSUME NEW u \in User, NEW t \in Tid, NEW amt \in DepAmount,
             CreateDeposit(u, t, amt)
      PROVE  deposits'[d] = deposits[d]
  BY <1>1, <1>2 DEF CreateDeposit
<1>3. ASSUME NEW x \in DepId, RejectDeposit(x) PROVE deposits'[d] = deposits[d]
  BY <1>1, <1>3 DEF RejectDeposit, Pending
<1>4. ASSUME NEW a \in Admin, CommitApproval(a) PROVE deposits'[d] = deposits[d]
  BY <1>1, <1>4 DEF CommitApproval, DepositInv, ClaimsHold, Holds, Pending
<1>5. ASSUME NEW a \in Admin, EndDelete(a) PROVE deposits'[d] = deposits[d]
  BY <1>1, <1>5 DEF EndDelete, DepositInv, ClaimsHold, Present
<1>. QED
  BY <1>2, <1>3, <1>4, <1>5
     DEF DepositNext, DepositStep, ClaimApproval, BeginDelete, CreditDepositor,
         AbortApproval, SetReferralMin, depositVars

\* No interleaving changes the decision on a row, its amount or its review time.
THEOREM DepositDecisions == DepositSpec => DecisionsAreFinal
<1>. DEFINE Final == \A d \in DepId :
                (Present(d) /\ deposits[d].status # "PENDING" /\ Present(d)')
                    => deposits'[d] = deposits[d]
<1>1. DepositInv /\ [DepositNext]_depVars => [Final]_depVars
  BY DecisionKept
<1>. QED
  BY <1>1, DepositInductive, PTL DEF DepositSpec, DecisionsAreFinal

-----------------------------------------------------------------------------
(***************************************************************************)
(* The reward.  An approval that has looked for other approvals holds the  *)
(* wallet row of its depositor, so what it found about the referral stays  *)
(* true until it ends.                                                     *)
(***************************************************************************)
\* The rewards in a ledger for the referral of u.
RewardsIn(log, u) == EntriesIn(log, Referrer[u], "BONUS", "REFERRAL_REWARD", u)

LocksHeld ==
    \A a \in Admin : review[a].stage = "credited" =>
        LET u == deposits[review[a].dep].user
        IN  /\ rowLock[u] = a
            /\ review[a].pays => reward[u] = "PENDING"

\* A referral row r is settled as the ledger says.
RewardSettled(log, u, r) ==
    /\ \A i, j \in RewardsIn(log, u) : i = j
    /\ (RewardsIn(log, u) # {}) <=> (r = "CREDITED")
    /\ RewardsIn(log, u) # {} => \E d \in DepId : CreditsIn(log, u, d) # {}

RewardInv == \A u \in User : Referrer[u] # NoUser => RewardSettled(ledger, u, reward[u])

\* Movements add to what the ledger records about deposits.
MoreCredits(log1, log2) ==
    \A u \in User, d \in DepId : CreditsIn(log1, u, d) \subseteq CreditsIn(log2, u, d)

LEMMA MoveCredits ==
    ASSUME NEW bk, BooksOK(bk), NEW m \in Move, CanMove(bk, m)
    PROVE  MoreCredits(bk.log, Post(bk, m).log)
<1>. SUFFICES ASSUME NEW u \in User, NEW d \in DepId
              PROVE  CreditsIn(bk.log, u, d) \subseteq CreditsIn(Post(bk, m).log, u, d)
  BY DEF MoreCredits
<1>1. "CASH" \in Bucket
  BY DEF Bucket
<1>. DEFINE old == EntriesIn(bk.log, u, "CASH", "DEPOSIT", d)
            new == EntriesIn(Post(bk, m).log, u, "CASH", "DEPOSIT", d)
            n == Len(bk.log[u]["CASH"]) + 1
            hit == u = m.user /\ "CASH" = m.bucket /\ "DEPOSIT" = m.type /\ d = m.ref
<1>2. (hit => new = old \union {n}) /\ (~hit => new = old)
  BY <1>1, PostEntries
<1>3. old \subseteq new
  <2>. HIDE DEF old, new, n, hit
  <2>. QED
    BY <1>2
<1>. QED
  BY <1>3 DEF CreditsIn

LEMMA EntriesElsewhere ==
    ASSUME NEW bk, BooksOK(bk), NEW m \in Move, CanMove(bk, m),
           NEW u \in User, NEW b \in Bucket, NEW type, NEW ref, type # m.type \/ ref # m.ref
    PROVE  EntriesIn(Post(bk, m).log, u, b, type, ref) = EntriesIn(bk.log, u, b, type, ref)
<1>. DEFINE old == EntriesIn(bk.log, u, b, type, ref)
            new == EntriesIn(Post(bk, m).log, u, b, type, ref)
            hit == u = m.user /\ b = m.bucket /\ type = m.type /\ ref = m.ref
<1>1. ~hit
  OBVIOUS
<1>2. ~hit => new = old
  BY PostEntries
<1>. QED
  BY <1>1, <1>2

\* A movement of another type is no reward.
LEMMA NoReward ==
    ASSUME NEW bk, BooksOK(bk), NEW m \in Move, CanMove(bk, m), m.type # "REFERRAL_REWARD",
           NEW u \in User, Referrer[u] # NoUser
    PROVE  RewardsIn(Post(bk, m).log, u) = RewardsIn(bk.log, u)
<1>1. Referrer[u] \in User /\ "BONUS" \in Bucket
  BY DepositAssumption DEF Bucket
<1>. QED
  BY <1>1, EntriesElsewhere DEF RewardsIn

\* The reward for the referral of v is one of v's, and of nobody else's.
LEMMA RewardPosted ==
    ASSUME NEW bk, BooksOK(bk), NEW v \in User, Referrer[v] # NoUser, RewardAmount > 0,
           NEW u \in User, Referrer[u] # NoUser
    PROVE  LET log == Post(bk, RewardCredit(v)).log
               n == Len(bk.log[Referrer[v]]["BONUS"]) + 1
           IN  /\ u = v => RewardsIn(log, u) = RewardsIn(bk.log, u) \union {n}
               /\ u # v => RewardsIn(log, u) = RewardsIn(bk.log, u)
<1>1. Referrer[u] \in User /\ "BONUS" \in Bucket
  BY DepositAssumption DEF Bucket
<1>. DEFINE m == RewardCredit(v)
<1>2. /\ m \in Move /\ CanMove(bk, m) /\ m.user = Referrer[v] /\ m.bucket = "BONUS"
      /\ m.type = "REFERRAL_REWARD" /\ m.ref = v
  BY RewardMove DEF RewardCredit, Credit
<1>. HIDE DEF m
<1>3. CASE u = v
  BY <1>1, <1>2, <1>3, PostedEntry DEF RewardsIn, m
<1>4. CASE u # v
  <2>1. RewardsIn(Post(bk, m).log, u) = RewardsIn(bk.log, u)
    BY <1>1, <1>2, <1>4, EntriesElsewhere DEF RewardsIn
  <2>. QED
    BY <1>4, <2>1 DEF m
<1>. QED
  BY <1>3, <1>4

\* What the commit of a's approval of row d, a deposit of u, writes.
ApprovalPosts(a, d, u) ==
    /\ MoreCredits(ledger, ledger')
    /\ CreditsIn(ledger', u, d) # {}
    /\ review[a].pays => Referrer[u] # NoUser /\ reward[u] = "PENDING"
    /\ reward' = IF ~review[a].pays THEN reward
                 ELSE [reward EXCEPT ![u] = IF RewardAmount > 0 THEN "CREDITED"
                                                               ELSE "REJECTED"]
    /\ \A v \in User : Referrer[v] # NoUser =>
          IF v = u /\ review[a].pays /\ RewardAmount > 0
          THEN \E n \in Nat : RewardsIn(ledger', v) = RewardsIn(ledger, v) \union {n}
          ELSE RewardsIn(ledger', v) = RewardsIn(ledger, v)

LEMMA CommitPosts ==
    ASSUME DepositInv, LocksHeld, NEW a \in Admin, CommitApproval(a),
           NEW d \in DepId, NEW u \in User, d = review[a].dep, u = deposits[d].user
    PROVE  ApprovalPosts(a, d, u)
<1>. DEFINE m == DepositCredit(d)
            credited == Post(Books, m)
            rewards == review[a].pays /\ RewardAmount > 0
            final == IF rewards THEN Post(credited, RewardCredit(u)) ELSE credited
<1>1. /\ review[a].stage = "credited" /\ ledger' = final.log
      /\ reward' = IF ~review[a].pays THEN reward
                   ELSE [reward EXCEPT ![u] = IF RewardAmount > 0 THEN "CREDITED"
                                                                 ELSE "REJECTED"]
  BY DEF CommitApproval, Commit
<1>2. /\ Present(d) /\ BooksOK(Books) /\ Books.log = ledger
      /\ review[a].pays => Referrer[u] # NoUser /\ reward[u] = "PENDING"
  BY <1>1 DEF LocksHeld, DepositInv, ClaimsHold, Holds, Pending, DepositTypeOK, WalletTypeOK, Books
<1>3. /\ m \in Move /\ CanMove(Books, m) /\ m.user = u /\ m.bucket = "CASH"
      /\ m.type = "DEPOSIT" /\ m.ref = d
  BY <1>2, DepositMove DEF DepositInv, DepositCredit, Credit
<1>. HIDE DEF m
<1>4. BooksOK(credited) /\ MoreCredits(Books.log, credited.log)
  BY <1>2, <1>3, PostBooks, MoveCredits
<1>5. CreditsIn(credited.log, u, d) # {}
  <2>1. CreditsIn(credited.log, m.user, m.ref) =
            CreditsIn(Books.log, m.user, m.ref) \union {Len(Books.log[m.user]["CASH"]) + 1}
    BY <1>2, <1>3, DepositPosted, ZenonT(60)
  <2>. QED
    BY <1>3, <2>1
<1>6. \A v \in User : Referrer[v] # NoUser =>
          RewardsIn(credited.log, v) = RewardsIn(Books.log, v)
  BY <1>2, <1>3, NoReward
<1>. HIDE DEF credited
<1>7. CASE rewards
  <2>1. RewardCredit(u) \in Move /\ CanMove(credited, RewardCredit(u))
    BY <1>2, <1>7, RewardMove
  <2>2. MoreCredits(credited.log, final.log) /\ final = Post(credited, RewardCredit(u))
    BY <1>4, <1>7, <2>1, MoveCredits
  <2>3. Len(credited.log[Referrer[u]]["BONUS"]) + 1 \in Nat
    <3>1. /\ credited.log \in [User -> [Bucket -> Seq(Entry)]]
          /\ Referrer[u] \in User /\ "BONUS" \in Bucket
      BY <1>2, <1>4, <1>7, DepositAssumption DEF BooksOK, Bucket
    <3>2. PICK log \in Seq(Entry) : log = credited.log[Referrer[u]]["BONUS"]
      BY <3>1
    <3>3. Len(log) + 1 \in Nat
      BY OneMore
    <3>. QED
      BY <3>2, <3>3
  <2>4. ASSUME NEW v \in User, Referrer[v] # NoUser
        PROVE  /\ v = u => \E n \in Nat : RewardsIn(final.log, v) = RewardsIn(credited.log, v) \union {n}
               /\ v # u => RewardsIn(final.log, v) = RewardsIn(credited.log, v)
    <3>. DEFINE n == Len(credited.log[Referrer[u]]["BONUS"]) + 1
    <3>. PICK bk : bk = credited
      OBVIOUS
    <3>1. /\ v = u => RewardsIn(Post(bk, RewardCredit(u)).log, v) =
                          RewardsIn(bk.log, v) \union {Len(bk.log[Referrer[u]]["BONUS"]) + 1}
          /\ v # u => RewardsIn(Post(bk, RewardCredit(u)).log, v) = RewardsIn(bk.log, v)
      <4>1. BooksOK(bk) /\ Referrer[u] # NoUser /\ RewardAmount > 0 /\ Referrer[v] # NoUser
        BY <1>2, <1>4, <1>7, <2>4
      <4>. QED
        BY ONLY <4>1, u \in User, v \in User, RewardPosted
    <3>2. /\ v = u => RewardsIn(final.log, v) = RewardsIn(credited.log, v) \union {n}
          /\ v # u => RewardsIn(final.log, v) = RewardsIn(credited.log, v)
      BY <2>2, <3>1
    <3>. HIDE DEF n
    <3>3. n \in Nat
      BY <2>3 DEF n
    <3>. QED
      BY <3>2, <3>3
  <2>5. MoreCredits(ledger, ledger') /\ CreditsIn(ledger', u, d) # {}
    BY <1>1, <1>2, <1>4, <1>5, <2>2 DEF MoreCredits
  <2>. HIDE DEF final
  <2>6. \A v \in User : Referrer[v] # NoUser =>
            IF v = u THEN \E n \in Nat : RewardsIn(ledger', v) = RewardsIn(ledger, v) \union {n}
                     ELSE RewardsIn(ledger', v) = RewardsIn(ledger, v)
    BY <1>1, <1>2, <1>6, <2>4
  <2>. QED
    BY <1>1, <1>2, <1>7, <2>5, <2>6 DEF ApprovalPosts
<1>8. CASE ~rewards
  <2>1. ledger' = credited.log
    BY <1>1, <1>8
  <2>. QED
    BY <1>1, <1>2, <1>4, <1>5, <1>6, <1>8, <2>1 DEF ApprovalPosts
<1>. QED
  BY <1>7, <1>8

-----------------------------------------------------------------------------
\* The step leaves the approval b, its row's owner and that owner's rows alone.
Untouched(b) ==
    LET u == deposits[review[b].dep].user
    IN  /\ review'[b] = review[b]
        /\ deposits'[review[b].dep].user = u
        /\ rowLock'[u] = rowLock[u]
        /\ reward'[u] = reward[u]

LEMMA LocksFrame ==
    ASSUME LocksHeld, \A b \in Admin : review'[b].stage = "credited" => Untouched(b)
    PROVE  LocksHeld'
  BY DEF LocksHeld, Untouched

\* Two open approvals that have credited are for different players.
LEMMA OtherOwner ==
    ASSUME DepositInv, LocksHeld, NEW a \in Admin, NEW b \in Admin, a # b,
           review[a].stage = "credited", review[b].stage = "credited"
    PROVE  deposits[review[a].dep].user # deposits[review[b].dep].user
  BY DEF LocksHeld

\* An open approval that has credited holds an existing row of a player.
LEMMA CreditedRow ==
    ASSUME DepositInv, NEW a \in Admin, Holds(a)
    PROVE  /\ review[a].dep \in DepId /\ Pending(review[a].dep) /\ Present(review[a].dep)
           /\ deposits[review[a].dep].user \in User
           /\ deposits[review[a].dep] \in DepositRow
           /\ a \in Txn /\ a # NoTxn
<1>1. review[a].dep \in DepId /\ Pending(review[a].dep)
  BY DEF DepositInv, ClaimsHold, Holds
<1>2. Present(review[a].dep)
  BY <1>1 DEF Pending
<1>. QED
  BY <1>1, <1>2, RowTypes, DepositAssumption, WalletAssumption DEF DepositInv

LEMMA CreditLocks ==
    ASSUME DepositInv, LocksHeld, NEW a \in Admin, CreditDepositor(a)
    PROVE  LocksHeld'
<1>. DEFINE u == deposits[review[a].dep].user
<1>1. /\ review[a].stage = "claimed" /\ RowFree(u, a) /\ rowLock' = Locked(a, {u})
      /\ review' = [review EXCEPT ![a].stage = "credited", ![a].pays = RewardDue(a)]
      /\ deposits' = deposits /\ reward' = reward
  BY DEF CreditDepositor
<1>2. u \in User /\ a # NoTxn
  BY <1>1, CreditedRow DEF Holds
<1>3. review \in [Admin -> Review] /\ review[a] \in Review
  BY DEF DepositInv, DepositTypeOK
<1>. DEFINE mid == [review[a] EXCEPT !.stage = "credited"]
            row == [mid EXCEPT !.pays = RewardDue(a)]
<1>4. row.dep = review[a].dep /\ row.pays = RewardDue(a)
  BY <1>3 DEF Review
<1>5. review' = [review EXCEPT ![a] = row]
  BY <1>1, <1>3
<1>. HIDE DEF row, mid
<1>6. /\ review'[a].dep = review[a].dep /\ review'[a].pays = RewardDue(a)
      /\ \A b \in Admin \ {a} : review'[b] = review[b]
  BY <1>3, <1>4, <1>5
<1>7. rowLock'[u] = a /\ \A v \in User \ {u} : rowLock'[v] = rowLock[v]
  BY <1>1, <1>2 DEF Locked
<1>8. review'[a].pays => reward[u] = "PENDING"
  BY <1>6 DEF RewardDue
<1>9. ASSUME NEW b \in Admin \ {a}, review[b].stage = "credited"
      PROVE  Untouched(b)
  <2>1. deposits[review[b].dep].user \in User /\ b # NoTxn
    BY <1>9, CreditedRow DEF Holds
  <2>2. rowLock[deposits[review[b].dep].user] = b
    BY <1>9 DEF LocksHeld
  <2>3. deposits[review[b].dep].user # u
    BY <1>1, <2>1, <2>2 DEF RowFree
  <2>. QED
    BY <1>1, <1>6, <1>7, <2>1, <2>3 DEF Untouched
<1>10. ASSUME NEW b \in Admin, review'[b].stage = "credited"
       PROVE  /\ rowLock'[deposits'[review'[b].dep].user] = b
              /\ review'[b].pays => reward'[deposits'[review'[b].dep].user] = "PENDING"
  <2>1. CASE b = a
    BY <1>1, <1>6, <1>7, <1>8, <2>1
  <2>2. CASE b # a
    <3>1. review'[b] = review[b] /\ review[b].stage = "credited"
      BY <1>6, <1>10, <2>2
    <3>2. /\ rowLock[deposits[review[b].dep].user] = b
          /\ review[b].pays => reward[deposits[review[b].dep].user] = "PENDING"
      BY <3>1 DEF LocksHeld
    <3>. QED
      BY <1>9, <2>2, <3>1, <3>2 DEF Untouched
  <2>. QED
    BY <2>1, <2>2
<1>. QED
  BY <1>10 DEF LocksHeld

\* The end of a's approval, committed or not, leaves the others alone.
LEMMA EndLocks ==
    ASSUME DepositInv, LocksHeld, NEW a \in Admin, Holds(a),
           review' = [review EXCEPT ![a] = Idle], rowLock' = Released(a),
           \/ reward' = reward
           \/ /\ review[a].stage = "credited"
              /\ \A v \in User : v # deposits[review[a].dep].user => reward'[v] = reward[v],
           \A d \in DepId : Present(d) => deposits'[d].user = deposits[d].user
    PROVE  LocksHeld'
<1>1. review \in [Admin -> Review]
  BY DEF DepositInv, DepositTypeOK
<1>2. ASSUME NEW b \in Admin, review'[b].stage = "credited"
      PROVE  Untouched(b)
  <2>1. b # a /\ review'[b] = review[b]
    BY <1>1, <1>2 DEF Idle
  <2>. DEFINE v == deposits[review[b].dep].user
  <2>2. review[b].dep \in DepId /\ Present(review[b].dep) /\ v \in User /\ b # NoTxn
    BY <1>2, <2>1, CreditedRow DEF Holds
  <2>3. rowLock'[v] = rowLock[v]
    BY <1>2, <2>1, <2>2 DEF LocksHeld, Released
  <2>4. reward'[v] = reward[v]
    BY <1>2, <2>1, <2>2, OtherOwner
  <2>. QED
    BY <2>1, <2>2, <2>3, <2>4 DEF Untouched
<1>. QED
  BY <1>2, LocksFrame

\* Steps that concern no approval that has credited.
LEMMA QuietLocks ==
    ASSUME DepositInv, LocksHeld, rowLock' = rowLock, reward' = reward,
           \A b \in Admin : review'[b].stage = "credited" => review'[b] = review[b],
           \A b \in Admin : Holds(b) => deposits'[review[b].dep] = deposits[review[b].dep]
    PROVE  LocksHeld'
  BY LocksFrame DEF Untouched, Holds

LEMMA DeletingStage ==
    ASSUME NEW d
    PROVE  [Idle EXCEPT !.stage = "deleting", !.dep = d].stage = "deleting"
<1>. DEFINE mid == [Idle EXCEPT !.stage = "deleting"]
<1>1. mid \in Review /\ mid.stage = "deleting"
  BY DEF Idle, Review
<1>. HIDE DEF mid
<1>2. [mid EXCEPT !.dep = d].stage = "deleting"
  BY <1>1 DEF Review
<1>. QED
  BY <1>2 DEF mid

LEMMA LocksStep == ASSUME DepositInv, LocksHeld, [DepositNext]_depVars PROVE LocksHeld'
<1>0. /\ review \in [Admin -> Review] /\ deposits \in [DepId -> DepositRow \union {NoDep}]
      /\ \A b \in Admin : Holds(b) => review[b].dep \in DepId /\ Pending(review[b].dep)
  BY DEF DepositInv, DepositTypeOK, ClaimsHold, Holds
<1>1. ASSUME NEW u \in User, NEW t \in Tid, NEW amt \in DepAmount, CreateDeposit(u, t, amt)
      PROVE  LocksHeld'
  <2>1. PICK d \in DepId \ issued, row \in DepositRow : deposits' = [deposits EXCEPT ![d] = row]
    BY <1>1 DEF CreateDeposit, DepositRow, DepositStatus
  <2>2. \A b \in Admin : Holds(b) => review[b].dep # d
    BY <1>0 DEF DepositInv, CreditInv, RowsIssued, Pending
  <2>. QED
    BY <1>0, <1>1, <2>1, <2>2, QuietLocks DEF CreateDeposit, walletVars
<1>2. ASSUME NEW d \in DepId, RejectDeposit(d) PROVE LocksHeld'
  <2>1. \A b \in Admin : Holds(b) => review[b].dep # d
    BY <1>2 DEF RejectDeposit, RowClaimed, Holds
  <2>. QED
    BY <1>0, <1>2, <2>1, QuietLocks DEF RejectDeposit, walletVars
<1>3. ASSUME NEW a \in Admin, NEW d \in DepId, ClaimApproval(a, d) \/ BeginDelete(a, d)
      PROVE  LocksHeld'
  <2>1. PICK row : review' = [review EXCEPT ![a] = row] /\ row.stage \in {"claimed", "deleting"}
    <3>1. CASE ClaimApproval(a, d)
      <4>. DEFINE row == [stage |-> "claimed", dep |-> d, stamp |-> clock + 1,
                          min |-> minFirst, pays |-> FALSE]
      <4>1. row.stage = "claimed"
        OBVIOUS
      <4>2. review' = [review EXCEPT ![a] = row]
        BY <3>1 DEF ClaimApproval
      <4>. HIDE DEF row
      <4>. QED
        BY <4>1, <4>2
    <3>2. CASE BeginDelete(a, d)
      BY <3>2, DeletingStage DEF BeginDelete
    <3>. QED
      BY <1>3, <3>1, <3>2
  <2>2. \A b \in Admin : review'[b].stage = "credited" => review'[b] = review[b]
    BY <1>0, <2>1
  <2>. QED
    BY <1>3, <2>2, QuietLocks DEF ClaimApproval, BeginDelete, walletVars
<1>4. ASSUME NEW a \in Admin, CreditDepositor(a) PROVE LocksHeld'
  BY <1>4, CreditLocks
<1>5. ASSUME NEW a \in Admin, CommitApproval(a) PROVE LocksHeld'
  <2>. DEFINE d == review[a].dep
  <2>1. /\ review[a].stage = "credited" /\ Holds(a)
        /\ review' = [review EXCEPT ![a] = Idle] /\ rowLock' = Released(a)
        /\ deposits' = [deposits EXCEPT ![d] = Decided(@, "APPROVED", review[a].stamp)]
    BY <1>5 DEF CommitApproval, Holds
  <2>2. d \in DepId /\ deposits[d] \in DepositRow /\ deposits[d].user \in User
    BY <2>1, CreditedRow
  <2>3. review[a].stamp \in Nat /\ "APPROVED" \in DepositStatus
    BY ReviewTypes DEF DepositInv, DepositStatus
  <2>4. Decided(deposits[d], "APPROVED", review[a].stamp).user = deposits[d].user
    BY <2>2, <2>3, DecidedRow
  <2>5. \A x \in DepId : Present(x) => deposits'[x].user = deposits[x].user
    BY <1>0, <2>1, <2>2, <2>4
  <2>6. \A v \in User : v # deposits[d].user => reward'[v] = reward[v]
    BY <1>5, <2>2 DEF CommitApproval, DepositInv, DepositTypeOK
  <2>. QED
    BY <2>1, <2>5, <2>6, EndLocks
<1>6. ASSUME NEW a \in Admin, AbortApproval(a) PROVE LocksHeld'
  BY <1>6, EndLocks DEF AbortApproval, Holds
<1>7. ASSUME NEW a \in Admin, EndDelete(a) PROVE LocksHeld'
  <2>1. \A b \in Admin : Holds(b) => review[b].dep # review[a].dep
    BY <1>7 DEF EndDelete, RowClaimed, Holds
  <2>2. \A b \in Admin : review'[b].stage = "credited" => review'[b] = review[b]
    BY <1>0, <1>7 DEF EndDelete, Idle
  <2>. QED
    BY <1>0, <1>7, <2>1, <2>2, QuietLocks DEF EndDelete, walletVars
<1>8. CASE /\ UNCHANGED <<rowLock, reward, review, deposits>>
  BY <1>8, QuietLocks
<1>9. \/ \E u \in User, t \in Tid, amt \in DepAmount : CreateDeposit(u, t, amt)
      \/ \E d \in DepId : RejectDeposit(d)
      \/ \E a \in Admin, d \in DepId : ClaimApproval(a, d) \/ BeginDelete(a, d)
      \/ \E a \in Admin :
             CreditDepositor(a) \/ CommitApproval(a) \/ AbortApproval(a) \/ EndDelete(a)
      \/ UNCHANGED <<rowLock, reward, review, deposits>>
  BY DEF DepositNext, DepositStep, SetReferralMin, ConvertCashToCoins, depVars, walletVars,
         depositVars
<1>. QED
  BY <1>1, <1>2, <1>3, <1>4, <1>5, <1>6, <1>7, <1>8, <1>9

\* The movements of a conversion add no reward and forget no deposit.
LEMMA ConvertPosts ==
    ASSUME DepositInv, NEW u \in User, NEW x \in SpendAmounts, ConvertCashToCoins(u, x)
    PROVE  /\ MoreCredits(ledger, ledger')
           /\ \A v \in User : Referrer[v] # NoUser => RewardsIn(ledger', v) = RewardsIn(ledger, v)
<1>. DEFINE debit == Debit(u, "CASH", x, "COIN_CONVERSION", NoRef)
            credit == Credit(u, "COINS", CoinsFor(x), "COIN_CONVERSION", NoRef)
            mid == Post(Books, debit)
            final == Post(mid, credit)
<1>1. /\ ledger' = final.log /\ CanMove(Books, debit) /\ CanMove(mid, credit)
      /\ BooksOK(Books) /\ Books.log = ledger
  BY DEF ConvertCashToCoins, Commit, DepositInv, DepositTypeOK, WalletTypeOK, Books
<1>2. debit \in Move /\ debit.type = "COIN_CONVERSION"
  BY WalletAssumption DEF Debit, Move, Bucket, Direction, TxType
<1>3. credit \in Move /\ credit.type = "COIN_CONVERSION"
  <2>1. CoinsFor(x) \in Nat
    BY WalletAssumption DEF CoinsFor
  <2>. QED
    BY <2>1 DEF Credit, Move, Bucket, Direction, TxType
<1>. HIDE DEF debit, credit
<1>4. /\ BooksOK(mid) /\ MoreCredits(Books.log, mid.log)
      /\ \A v \in User : Referrer[v] # NoUser => RewardsIn(mid.log, v) = RewardsIn(Books.log, v)
  BY <1>1, <1>2, PostBooks, MoveCredits, NoReward
<1>. HIDE DEF mid
<1>5. /\ MoreCredits(mid.log, final.log)
      /\ \A v \in User : Referrer[v] # NoUser => RewardsIn(final.log, v) = RewardsIn(mid.log, v)
  BY <1>1, <1>3, <1>4, MoveCredits, NoReward
<1>. HIDE DEF final
<1>. QED
  BY <1>1, <1>4, <1>5 DEF MoreCredits

LEMMA RewardFrame ==
    ASSUME RewardInv, reward' = reward, MoreCredits(ledger, ledger'),
           \A v \in User : Referrer[v] # NoUser => RewardsIn(ledger', v) = RewardsIn(ledger, v)
    PROVE  RewardInv'
<1>. SUFFICES ASSUME NEW u \in User, Referrer[u] # NoUser
              PROVE  RewardSettled(ledger', u, reward'[u])
  BY DEF RewardInv
<1>1. RewardSettled(ledger, u, reward[u])
  BY DEF RewardInv
<1>. QED
  BY <1>1 DEF RewardSettled, MoreCredits

LEMMA CommitReward ==
    ASSUME DepositInv, LocksHeld, RewardInv, NEW a \in Admin, CommitApproval(a)
    PROVE  RewardInv'
<1>1. review[a].stage = "credited"
  BY DEF CommitApproval
<1>2. PICK d \in DepId, u \in User : d = review[a].dep /\ u = deposits[d].user
  BY <1>1, CreditedRow DEF Holds
<1>3. ApprovalPosts(a, d, u)
  BY <1>2, CommitPosts
<1>4. reward \in [User -> {"NONE", "PENDING", "CREDITED", "REJECTED"}]
  BY DEF DepositInv, DepositTypeOK
<1>5. ASSUME NEW v \in User, Referrer[v] # NoUser
      PROVE  RewardSettled(ledger', v, reward'[v])
  <2>1. RewardSettled(ledger, v, reward[v])
    BY <1>5 DEF RewardInv
  <2>2. CASE v = u /\ review[a].pays /\ RewardAmount > 0
    <3>1. reward[u] = "PENDING" /\ reward'[u] = "CREDITED"
      BY <1>3, <1>4, <2>2 DEF ApprovalPosts
    <3>2. PICK n \in Nat : RewardsIn(ledger', v) = RewardsIn(ledger, v) \union {n}
      BY <1>3, <1>5, <2>2 DEF ApprovalPosts
    <3>3. RewardsIn(ledger, v) = {}
      BY <2>1, <2>2, <3>1 DEF RewardSettled
    <3>4. CreditsIn(ledger', v, d) # {}
      BY <1>3, <2>2 DEF ApprovalPosts
    <3>. QED
      BY <2>2, <3>1, <3>2, <3>3, <3>4 DEF RewardSettled
  <2>3. CASE ~(v = u /\ review[a].pays /\ RewardAmount > 0)
    <3>1. RewardsIn(ledger', v) = RewardsIn(ledger, v) /\ MoreCredits(ledger, ledger')
      BY <1>3, <1>5, <2>3 DEF ApprovalPosts
    <3>2. (reward'[v] = "CREDITED") <=> (reward[v] = "CREDITED")
      BY <1>3, <1>4, <2>3 DEF ApprovalPosts
    <3>. QED
      BY <2>1, <3>1, <3>2 DEF RewardSettled, MoreCredits
  <2>. QED
    BY <2>2, <2>3
<1>. QED
  BY <1>5 DEF RewardInv

LEMMA RewardStep ==
    ASSUME DepositInv, LocksHeld, RewardInv, [DepositNext]_depVars
    PROVE  RewardInv'
<1>1. ASSUME NEW a \in Admin, CommitApproval(a) PROVE RewardInv'
  BY <1>1, CommitReward
<1>2. ASSUME NEW u \in User, NEW x \in SpendAmounts, ConvertCashToCoins(u, x),
             UNCHANGED depositVars
      PROVE  RewardInv'
  BY <1>2, ConvertPosts, RewardFrame DEF depositVars
<1>3. CASE UNCHANGED <<ledger, reward>>
  BY <1>3 DEF RewardInv, RewardSettled
<1>4. \/ \E a \in Admin : CommitApproval(a)
      \/ \E u \in User, x \in SpendAmounts : ConvertCashToCoins(u, x) /\ UNCHANGED depositVars
      \/ UNCHANGED <<ledger, reward>>
  BY DEF DepositNext, DepositStep, CreateDeposit, RejectDeposit, ClaimApproval, BeginDelete,
         CreditDepositor, AbortApproval, EndDelete, SetReferralMin, depVars, walletVars,
         depositVars
<1>. QED
  BY <1>1, <1>2, <1>3, <1>4

LEMMA InitReward == DepositInit => LocksHeld /\ RewardInv
<1>. SUFFICES ASSUME DepositInit PROVE LocksHeld /\ RewardInv
  OBVIOUS
<1>1. LocksHeld
  BY DEF DepositInit, LocksHeld, Idle
<1>2. ASSUME NEW u \in User, Referrer[u] # NoUser
      PROVE  RewardsIn(ledger, u) = {} /\ reward[u] # "CREDITED"
  <2>1. Referrer[u] \in User
    BY <1>2, DepositAssumption
  <2>. QED
    BY <1>2, <2>1 DEF DepositInit, WalletInit, RewardsIn, EntriesIn, Bucket
<1>. QED
  BY <1>1, <1>2 DEF RewardInv, RewardSettled

\* A settled referral has one reward, an open one none.
LEMMA RewardsOnce == RewardInv => RewardPaidOnce
  BY DEF RewardInv, RewardSettled, RewardPaidOnce, RewardsFor, RewardsIn, CreditsFor, CreditsIn,
         EntriesFor

\* Racing approvals, retries and deletions pay the referrer of a settled referral
\* once, and never without a deposit of the referred player in the ledger.
THEOREM DepositRewardOnce == DepositSpec => []RewardPaidOnce
<1>1. DepositInit => LocksHeld /\ RewardInv
  BY InitReward
<1>2. DepositInv /\ LocksHeld /\ RewardInv /\ [DepositNext]_depVars => LocksHeld' /\ RewardInv'
  BY LocksStep, RewardStep
<1>3. RewardInv => RewardPaidOnce
  BY RewardsOnce
<1>. QED
  BY <1>1, <1>2, <1>3, DepositInductive, PTL DEF DepositSpec

-----------------------------------------------------------------------------
(***************************************************************************)
(* While referral.minFirstDeposit stays as it is, no reward is forgotten.  *)
(* An approval that reaches the minimum and decides not to pay has found   *)
(* the referral settled: were it pending, no other approval of the player  *)
(* would reach the minimum, and this one would be the first.               *)
(***************************************************************************)
MinKept ==
    /\ \A d \in DepId :
          (Present(d) /\ deposits[d].status = "APPROVED" /\ deposits[d].amount >= minFirst)
              => reward[deposits[d].user] # "PENDING"
    /\ \A a \in Admin : Holds(a) => review[a].min = minFirst
    /\ \A a \in Admin :
          LET d == review[a].dep
          IN  (/\ review[a].stage = "credited" /\ ~review[a].pays
               /\ deposits[d].amount >= minFirst) => reward[deposits[d].user] # "PENDING"

\* A settled referral is never pending again.
LEMMA SettledStays ==
    ASSUME DepositInv, [DepositNext]_depVars, NEW u \in User, reward[u] # "PENDING"
    PROVE  reward'[u] # "PENDING"
<1>1. reward \in [User -> {"NONE", "PENDING", "CREDITED", "REJECTED"}]
  BY DEF DepositInv, DepositTypeOK
<1>2. ASSUME NEW a \in Admin, CommitApproval(a) PROVE reward'[u] # "PENDING"
  <2>. DEFINE v == deposits[review[a].dep].user
              r == IF RewardAmount > 0 THEN "CREDITED" ELSE "REJECTED"
  <2>1. reward' = reward \/ reward' = [reward EXCEPT ![v] = r]
    BY <1>2 DEF CommitApproval
  <2>2. r # "PENDING"
    OBVIOUS
  <2>. HIDE DEF v, r
  <2>. QED
    BY <1>1, <2>1, <2>2
<1>. QED
  BY <1>2 DEF DepositNext, DepositStep, CreateDeposit, RejectDeposit, ClaimApproval,
      BeginDelete, CreditDepositor, AbortApproval, EndDelete, SetReferralMin, depVars,
      walletVars, depositVars

\* Steps that approve nothing and let no approval decide.
LEMMA QuietMin ==
    ASSUME DepositInv, MinKept, [DepositNext]_depVars, minFirst' = minFirst,
           \A d \in DepId :
              (Present(d)' /\ deposits'[d].status = "APPROVED") => deposits'[d] = deposits[d],
           \A a \in Admin :
              \/ review'[a] = review[a] /\ (Holds(a) => deposits'[review[a].dep] = deposits[review[a].dep])
              \/ review'[a].stage \in {"idle", "deleting"}
              \/ review'[a].stage = "claimed" /\ review'[a].min = minFirst
    PROVE  MinKept'
<1>1. ASSUME NEW d \in DepId, Present(d)', deposits'[d].status = "APPROVED",
             deposits'[d].amount >= minFirst
      PROVE  reward'[deposits'[d].user] # "PENDING"
  <2>1. deposits'[d] = deposits[d] /\ Present(d)
    BY <1>1 DEF Present
  <2>2. deposits[d].user \in User /\ reward[deposits[d].user] # "PENDING"
    BY <1>1, <2>1, RowTypes DEF MinKept, DepositInv
  <2>. QED
    BY <2>1, <2>2, SettledStays
<1>2. ASSUME NEW a \in Admin, Holds(a)' PROVE review'[a].min = minFirst
  BY <1>2 DEF MinKept, Holds
<1>3. ASSUME NEW a \in Admin, review'[a].stage = "credited", ~review'[a].pays,
             deposits'[review'[a].dep].amount >= minFirst
      PROVE  reward'[deposits'[review'[a].dep].user] # "PENDING"
  <2>1. review'[a] = review[a] /\ Holds(a) /\ deposits'[review[a].dep] = deposits[review[a].dep]
    BY <1>3 DEF Holds
  <2>2. deposits[review[a].dep].user \in User
    BY <2>1, CreditedRow
  <2>3. reward[deposits[review[a].dep].user] # "PENDING"
    BY <1>3, <2>1 DEF MinKept
  <2>. QED
    BY <2>1, <2>2, <2>3, SettledStays
<1>. QED
  BY <1>1, <1>2, <1>3 DEF MinKept

LEMMA CreditMin ==
    ASSUME DepositInv, MinKept, NEW a \in Admin, CreditDepositor(a)
    PROVE  MinKept'
<1>. DEFINE d == review[a].dep
            u == deposits[d].user
<1>1. /\ review[a].stage = "claimed" /\ Holds(a)
      /\ review' = [review EXCEPT ![a].stage = "credited", ![a].pays = RewardDue(a)]
      /\ deposits' = deposits /\ reward' = reward /\ minFirst' = minFirst
  BY DEF CreditDepositor, Holds
<1>2. d \in DepId /\ Pending(d) /\ Present(d) /\ u \in User /\ review[a].stamp \in Nat
  BY <1>1, CreditedRow, ReviewTypes DEF DepositInv
<1>3. review \in [Admin -> Review] /\ review[a] \in Review
  BY DEF DepositInv, DepositTypeOK
<1>. DEFINE mid == [review[a] EXCEPT !.stage = "credited"]
            row == [mid EXCEPT !.pays = RewardDue(a)]
<1>4. row.dep = d /\ row.pays = RewardDue(a) /\ row.min = review[a].min
  BY <1>3 DEF Review
<1>5. review' = [review EXCEPT ![a] = row]
  BY <1>1, <1>3
<1>. HIDE DEF row, mid
<1>6. /\ review'[a].dep = d /\ review'[a].pays = RewardDue(a) /\ review'[a].min = minFirst
      /\ \A b \in Admin \ {a} : review'[b] = review[b]
  BY <1>1, <1>3, <1>4, <1>5 DEF MinKept
<1>7. ASSUME ~RewardDue(a), deposits[d].amount >= minFirst, reward[u] = "PENDING"
      PROVE  FALSE
  <2>1. review[a].min = minFirst
    BY <1>1 DEF MinKept
  <2>2. d \in Qualifying(a)
    BY <1>2, <1>7, <2>1 DEF Qualifying
  <2>3. \A x \in Qualifying(a) : x = d
    BY <1>7, <2>1 DEF Qualifying, MinKept
  <2>4. ReviewTime(a, d) <= ReviewTime(a, d)
    BY <1>2 DEF ReviewTime
  <2>5. FirstQualifying(a)
    BY <2>2, <2>3, <2>4 DEF FirstQualifying
  <2>. QED
    BY <1>7, <2>5 DEF RewardDue
<1>8. ASSUME NEW b \in Admin, review'[b].stage = "credited", ~review'[b].pays,
             deposits'[review'[b].dep].amount >= minFirst
      PROVE  reward'[deposits'[review'[b].dep].user] # "PENDING"
  <2>1. CASE b = a
    BY <1>1, <1>6, <1>7, <1>8, <2>1
  <2>2. CASE b # a
    BY <1>1, <1>6, <1>8, <2>2 DEF MinKept
  <2>. QED
    BY <2>1, <2>2
<1>9. \A b \in Admin : Holds(b)' => review'[b].min = minFirst
  BY <1>6 DEF MinKept, Holds
<1>. QED
  BY <1>1, <1>8, <1>9 DEF MinKept, Present

LEMMA CommitMin ==
    ASSUME DepositInv, LocksHeld, MinKept, NEW a \in Admin, CommitApproval(a)
    PROVE  MinKept'
<1>. DEFINE d == review[a].dep
            u == deposits[d].user
            row == Decided(deposits[d], "APPROVED", review[a].stamp)
<1>1. /\ review[a].stage = "credited" /\ Holds(a)
      /\ review' = [review EXCEPT ![a] = Idle] /\ minFirst' = minFirst
      /\ deposits' = [deposits EXCEPT ![d] = row]
      /\ [DepositNext]_depVars
  BY DEF CommitApproval, Holds, DepositNext, DepositStep
<1>2. d \in DepId /\ deposits[d] \in DepositRow /\ u \in User
  BY <1>1, CreditedRow
<1>3. review[a].stamp \in Nat /\ "APPROVED" \in DepositStatus
  BY ReviewTypes DEF DepositInv, DepositStatus
<1>4. row.user = u /\ row.amount = deposits[d].amount
  BY <1>2, <1>3, DecidedRow
<1>. HIDE DEF row
<1>5. /\ review \in [Admin -> Review] /\ deposits \in [DepId -> DepositRow \union {NoDep}]
      /\ reward \in [User -> {"NONE", "PENDING", "CREDITED", "REJECTED"}]
  BY DEF DepositInv, DepositTypeOK
<1>6. deposits'[d] = row /\ \A x \in DepId \ {d} : deposits'[x] = deposits[x]
  BY <1>1, <1>2, <1>5
<1>7. ASSUME deposits[d].amount >= minFirst PROVE reward'[u] # "PENDING"
  <2>1. CASE review[a].pays
    <3>1. PICK r \in {"CREDITED", "REJECTED"} : reward' = [reward EXCEPT ![u] = r]
      BY <2>1 DEF CommitApproval
    <3>. QED
      BY <1>2, <1>5, <3>1
  <2>2. CASE ~review[a].pays
    <3>1. reward[u] # "PENDING"
      BY <1>1, <1>7, <2>2 DEF MinKept
    <3>. QED
      BY <1>1, <1>2, <3>1, SettledStays
  <2>. QED
    BY <2>1, <2>2
<1>8. ASSUME NEW x \in DepId, Present(x)', deposits'[x].status = "APPROVED",
             deposits'[x].amount >= minFirst
      PROVE  reward'[deposits'[x].user] # "PENDING"
  <2>1. CASE x = d
    BY <1>4, <1>6, <1>7, <1>8, <2>1
  <2>2. CASE x # d
    <3>1. deposits'[x] = deposits[x] /\ Present(x)
      BY <1>6, <1>8, <2>2 DEF Present
    <3>2. deposits[x].user \in User /\ reward[deposits[x].user] # "PENDING"
      BY <1>8, <3>1, RowTypes DEF MinKept, DepositInv
    <3>. QED
      BY <1>1, <3>1, <3>2, SettledStays
  <2>. QED
    BY <2>1, <2>2
<1>9. ASSUME NEW b \in Admin, Holds(b)'
      PROVE  review'[b].min = minFirst
  BY <1>1, <1>5, <1>9 DEF Holds, Idle, MinKept
<1>10. ASSUME NEW b \in Admin, review'[b].stage = "credited", ~review'[b].pays,
             deposits'[review'[b].dep].amount >= minFirst
      PROVE  reward'[deposits'[review'[b].dep].user] # "PENDING"
  <2>1. b # a /\ review'[b] = review[b]
    BY <1>1, <1>5, <1>10 DEF Idle
  <2>2. Holds(b) /\ review[b].dep \in DepId /\ review[b].dep # d
        /\ deposits[review[b].dep].user \in User
    BY <1>1, <1>10, <2>1, CreditedRow DEF Holds, DepositInv, ClaimsHold
  <2>3. deposits'[review[b].dep] = deposits[review[b].dep]
    BY <1>6, <2>2
  <2>4. reward[deposits[review[b].dep].user] # "PENDING"
    BY <1>10, <2>1, <2>3 DEF MinKept
  <2>. QED
    BY <1>1, <2>1, <2>2, <2>3, <2>4, SettledStays
<1>. QED
  BY <1>1, <1>8, <1>9, <1>10 DEF MinKept

LEMMA MinStep ==
    ASSUME DepositInv, LocksHeld, MinKept, [DepositNext]_depVars, minFirst' = minFirst
    PROVE  MinKept'
<1>0. /\ review \in [Admin -> Review] /\ deposits \in [DepId -> DepositRow \union {NoDep}]
      /\ \A b \in Admin : Holds(b) => review[b].dep \in DepId /\ Pending(review[b].dep)
  BY DEF DepositInv, DepositTypeOK, ClaimsHold, Holds
<1>1. ASSUME NEW u \in User, NEW t \in Tid, NEW amt \in DepAmount, CreateDeposit(u, t, amt)
      PROVE  MinKept'
  <2>. DEFINE row == [user |-> u, tid |-> t, amount |-> amt,
                      status |-> "PENDING", reviewedAt |-> 0]
  <2>1. PICK d \in DepId \ issued : deposits' = [deposits EXCEPT ![d] = row]
    BY <1>1 DEF CreateDeposit
  <2>2. row.status # "APPROVED"
    OBVIOUS
  <2>. HIDE DEF row
  <2>3. \A b \in Admin : Holds(b) => review[b].dep # d
    BY <1>0 DEF DepositInv, CreditInv, RowsIssued, Pending
  <2>4. \A x \in DepId :
            (Present(x)' /\ deposits'[x].status = "APPROVED") => deposits'[x] = deposits[x]
    BY <1>0, <2>1, <2>2
  <2>. QED
    BY <1>0, <1>1, <2>1, <2>3, <2>4, QuietMin DEF CreateDeposit
<1>2. ASSUME NEW d \in DepId, RejectDeposit(d) PROVE MinKept'
  <2>1. \A b \in Admin : Holds(b) => review[b].dep # d
    BY <1>2 DEF RejectDeposit, RowClaimed, Holds
  <2>. DEFINE row == Decided(deposits[d], "REJECTED", clock + 1)
  <2>2. deposits' = [deposits EXCEPT ![d] = row]
    BY <1>2 DEF RejectDeposit
  <2>3. deposits[d] \in DepositRow /\ clock + 1 \in Nat /\ "REJECTED" \in DepositStatus
    BY <1>2, RowTypes DEF RejectDeposit, Pending, DepositInv, DepositTypeOK, DepositStatus
  <2>4. row.status # "APPROVED"
    BY <2>3, DecidedRow
  <2>. HIDE DEF row
  <2>5. \A x \in DepId :
            (Present(x)' /\ deposits'[x].status = "APPROVED") => deposits'[x] = deposits[x]
    BY <1>0, <2>2, <2>4
  <2>. QED
    BY <1>0, <1>2, <2>1, <2>2, <2>5, QuietMin DEF RejectDeposit
<1>3. ASSUME NEW a \in Admin, NEW d \in DepId, ClaimApproval(a, d) PROVE MinKept'
  <2>. DEFINE row == [stage |-> "claimed", dep |-> d, stamp |-> clock + 1,
                      min |-> minFirst, pays |-> FALSE]
  <2>1. review' = [review EXCEPT ![a] = row] /\ deposits' = deposits
    BY <1>3 DEF ClaimApproval
  <2>2. row.stage = "claimed" /\ row.min = minFirst
    OBVIOUS
  <2>. HIDE DEF row
  <2>. QED
    BY <1>0, <2>1, <2>2, QuietMin
<1>4. ASSUME NEW a \in Admin, NEW d \in DepId, BeginDelete(a, d) PROVE MinKept'
  <2>. DEFINE row == [Idle EXCEPT !.stage = "deleting", !.dep = d]
  <2>1. review' = [review EXCEPT ![a] = row] /\ deposits' = deposits
    BY <1>4 DEF BeginDelete
  <2>2. row.stage = "deleting"
    BY DeletingStage
  <2>. HIDE DEF row
  <2>. QED
    BY <1>0, <2>1, <2>2, QuietMin
<1>5. ASSUME NEW a \in Admin, CreditDepositor(a) PROVE MinKept'
  BY <1>5, CreditMin
<1>6. ASSUME NEW a \in Admin, CommitApproval(a) PROVE MinKept'
  BY <1>6, CommitMin
<1>7. ASSUME NEW a \in Admin, AbortApproval(a) PROVE MinKept'
  <2>1. Idle.stage = "idle"
    BY DEF Idle
  <2>2. review' = [review EXCEPT ![a] = Idle] /\ deposits' = deposits
    BY <1>7 DEF AbortApproval
  <2>. QED
    BY <1>0, <2>1, <2>2, QuietMin
<1>8. ASSUME NEW a \in Admin, EndDelete(a) PROVE MinKept'
  <2>1. \A b \in Admin : Holds(b) => review[b].dep # review[a].dep
    BY <1>8 DEF EndDelete, RowClaimed, Holds
  <2>2. Idle.stage = "idle"
    BY DEF Idle
  <2>3. /\ review' = [review EXCEPT ![a] = Idle]
        /\ deposits' = [deposits EXCEPT ![review[a].dep] = NoDep]
    BY <1>8 DEF EndDelete
  <2>4. \A x \in DepId :
            (Present(x)' /\ deposits'[x].status = "APPROVED") => deposits'[x] = deposits[x]
    BY <1>0, <2>3 DEF Present
  <2>. QED
    BY <1>0, <2>1, <2>2, <2>3, <2>4, QuietMin
<1>9. CASE UNCHANGED <<reward, review, deposits>>
  BY <1>9, QuietMin
<1>10. \/ \E u \in User, t \in Tid, amt \in DepAmount : CreateDeposit(u, t, amt)
       \/ \E d \in DepId : RejectDeposit(d)
       \/ \E a \in Admin, d \in DepId : ClaimApproval(a, d) \/ BeginDelete(a, d)
       \/ \E a \in Admin :
              CreditDepositor(a) \/ CommitApproval(a) \/ AbortApproval(a) \/ EndDelete(a)
       \/ UNCHANGED <<reward, review, deposits>>
  <2>1. CASE DepositStep
    BY <2>1 DEF DepositStep, SetReferralMin, walletVars
  <2>2. CASE UNCHANGED depositVars
    BY <2>2 DEF depositVars
  <2>3. UNCHANGED depVars => UNCHANGED depositVars
    BY DEF depVars, walletVars, depositVars
  <2>. QED
    BY <2>1, <2>2, <2>3 DEF DepositNext
<1>. QED
  BY <1>1, <1>2, <1>3, <1>4, <1>5, <1>6, <1>7, <1>8, <1>9, <1>10

(* While the minimum first deposit has not been moved, an approved deposit *)
(* that reaches it has settled its player's referral, whichever of two     *)
(* racing approvals commits first (creditReferralRewardTx).                *)
THEOREM DepositRewardKept == HistorySpec => []RewardKeptUnlessMinMoved
<1>. DEFINE Kept == minMoved \in BOOLEAN /\ (~minMoved => MinKept)
<1>1. HistorySpec => DepositSpec
  <2>1. HistoryInit => DepositInit
    BY DEF HistoryInit
  <2>2. [HistoryNext]_<<depVars, minMoved>> => [DepositNext]_depVars
    BY DEF HistoryNext
  <2>. QED
    BY <2>1, <2>2, PTL DEF HistorySpec, DepositSpec
<1>2. HistoryInit => LocksHeld /\ Kept
  <2>. SUFFICES ASSUME HistoryInit PROVE LocksHeld /\ MinKept
    BY DEF HistoryInit
  <2>1. DepositInit
    BY DEF HistoryInit
  <2>2. \A d \in DepId : ~Present(d)
    BY <2>1 DEF DepositInit, Present
  <2>3. \A a \in Admin : review[a].stage = "idle"
    BY <2>1 DEF DepositInit, Idle
  <2>. QED
    BY <2>1, <2>2, <2>3, InitReward DEF MinKept, Holds
<1>3. DepositInv /\ LocksHeld /\ [HistoryNext]_<<depVars, minMoved>> => LocksHeld'
  BY LocksStep DEF HistoryNext
<1>4. DepositInv /\ LocksHeld /\ Kept /\ [HistoryNext]_<<depVars, minMoved>> => Kept'
  <2>. SUFFICES ASSUME DepositInv, LocksHeld, Kept, [HistoryNext]_<<depVars, minMoved>>
                PROVE  Kept'
    OBVIOUS
  <2>1. CASE HistoryNext
    <3>1. DepositNext /\ minMoved' \in BOOLEAN
      BY <2>1 DEF HistoryNext
    <3>2. ASSUME ~minMoved' PROVE ~minMoved /\ minFirst' = minFirst
      BY <2>1, <3>2 DEF HistoryNext
    <3>. QED
      BY <3>1, <3>2, MinStep
  <2>2. CASE UNCHANGED <<depVars, minMoved>>
    <3>1. UNCHANGED depVars /\ minMoved' = minMoved
      BY <2>2
    <3>2. minFirst' = minFirst
      BY <3>1 DEF depVars, depositVars
    <3>. QED
      BY <3>1, <3>2, MinStep
  <2>. QED
    BY <2>1, <2>2
<1>5. Kept => RewardKeptUnlessMinMoved
  BY DEF MinKept, RewardNotForgotten, RewardKeptUnlessMinMoved
<1>. QED
  <2>. HIDE DEF Kept
  <2>. QED
    BY <1>1, <1>2, <1>3, <1>4, <1>5, DepositInductive, PTL DEF HistorySpec

=============================================================================
