--------------------------- MODULE PaymentsProofs ---------------------------
(***************************************************************************)
(* Deposits, transfers and withdrawals together.  Each component's         *)
(* invariant survives the steps of the others, because these append ledger *)
(* entries of other types or for other entities and leave the wallet rows  *)
(* it has locked alone; and transfers, which lock in user-id order, never  *)
(* wait for one another in a circle.                                       *)
(***************************************************************************)
EXTENDS Payments, DepositsProofs, OutgoingProofs

-----------------------------------------------------------------------------
(***************************************************************************)
(* The ledger grows.                                                       *)
(***************************************************************************)
\* A list keeps its entries; what is new has one of the types and entities.
Grown(old, new, types, refs) ==
    /\ DOMAIN old \subseteq DOMAIN new
    /\ \A i \in DOMAIN old : new[i] = old[i]
    /\ \A i \in DOMAIN new \ DOMAIN old : new[i].type \in types /\ new[i].ref \in refs

LedgerGrown(log1, log2, types, refs) ==
    \A u \in User, b \in Bucket : Grown(log1[u][b], log2[u][b], types, refs)

LEMMA GrownSame ==
    ASSUME NEW log, NEW types, NEW refs
    PROVE  Grown(log, log, types, refs)
  BY DEF Grown

LEMMA GrownAppend ==
    ASSUME NEW log \in Seq(Entry), NEW e \in Entry, NEW types, NEW refs,
           e.type \in types, e.ref \in refs
    PROVE  Grown(log, Append(log, e), types, refs)
<1>. DEFINE new == Append(log, e)
            n == Len(log) + 1
<1>1. /\ DOMAIN new = DOMAIN log \union {n} /\ n \notin DOMAIN log
      /\ new[n] = e /\ DOMAIN log = 1..Len(log) /\ \A i \in 1..Len(log) : new[i] = log[i]
  BY OneMore
<1>. HIDE DEF new, n
<1>. QED
  BY <1>1 DEF Grown, new

LEMMA GrownTwice ==
    ASSUME NEW log1, NEW log2, NEW log3, NEW types, NEW refs,
           LedgerGrown(log1, log2, types, refs), LedgerGrown(log2, log3, types, refs)
    PROVE  LedgerGrown(log1, log3, types, refs)
<1>. SUFFICES ASSUME NEW u \in User, NEW b \in Bucket
              PROVE  Grown(log1[u][b], log3[u][b], types, refs)
  BY DEF LedgerGrown
<1>1. Grown(log1[u][b], log2[u][b], types, refs) /\ Grown(log2[u][b], log3[u][b], types, refs)
  BY DEF LedgerGrown
<1>. QED
  BY <1>1 DEF Grown

\* A movement adds one entry.
LEMMA PostGrows ==
    ASSUME NEW bk, BooksOK(bk), NEW m \in Move, CanMove(bk, m), NEW types, NEW refs,
           m.type \in types, m.ref \in refs
    PROVE  LedgerGrown(bk.log, Post(bk, m).log, types, refs)
<1>. SUFFICES ASSUME NEW u \in User, NEW b \in Bucket
              PROVE  Grown(bk.log[u][b], Post(bk, m).log[u][b], types, refs)
  BY DEF LedgerGrown
<1>1. CASE u # m.user \/ b # m.bucket
  <2>1. Post(bk, m).log[u][b] = bk.log[u][b]
    BY <1>1, PostElsewhere
  <2>. QED
    BY <2>1, GrownSame
<1>2. CASE u = m.user /\ b = m.bucket
  <2>1. bk.log[u][b] \in Seq(Entry)
    BY DEF BooksOK
  <2>2. NewEntry(bk, m) \in Entry /\ NewEntry(bk, m).type \in types /\ NewEntry(bk, m).ref \in refs
    BY NewEntryType
  <2>3. Post(bk, m).log[u][b] = Append(bk.log[u][b], NewEntry(bk, m))
    BY <1>2, PostBooks
  <2>. QED
    BY <2>1, <2>2, <2>3, GrownAppend
<1>. QED
  BY <1>1, <1>2

\* The entries of another type, or for another entity, stay as they are.
LEMMA GrownEntries ==
    ASSUME NEW log1, NEW log2, NEW types, NEW refs, LedgerGrown(log1, log2, types, refs),
           NEW u \in User, NEW b \in Bucket, NEW type, NEW ref, type \notin types \/ ref \notin refs
    PROVE  /\ EntriesIn(log2, u, b, type, ref) = EntriesIn(log1, u, b, type, ref)
           /\ \A i \in EntriesIn(log1, u, b, type, ref) : log2[u][b][i] = log1[u][b][i]
<1>1. Grown(log1[u][b], log2[u][b], types, refs)
  BY DEF LedgerGrown
<1>2. ASSUME NEW i \in EntriesIn(log2, u, b, type, ref)
      PROVE  i \in EntriesIn(log1, u, b, type, ref)
  BY <1>1, <1>2 DEF EntriesIn, Grown
<1>3. ASSUME NEW i \in EntriesIn(log1, u, b, type, ref)
      PROVE  i \in EntriesIn(log2, u, b, type, ref) /\ log2[u][b][i] = log1[u][b][i]
  BY <1>1, <1>3 DEF EntriesIn, Grown
<1>. QED
  BY <1>2, <1>3

-----------------------------------------------------------------------------
(***************************************************************************)
(* What each component adds.                                               *)
(***************************************************************************)
LEMMA LedgerSame ==
    ASSUME NEW types, NEW refs, ledger' = ledger
    PROVE  LedgerGrown(ledger, ledger', types, refs)
  BY GrownSame DEF LedgerGrown

LEMMA CommitGrows ==
    ASSUME DepositInv, NEW a \in Admin, CommitApproval(a)
    PROVE  LedgerGrown(ledger, ledger', {"DEPOSIT", "REFERRAL_REWARD"}, DepId \union User)
<1>1. review[a].stage = "credited"
  BY DEF CommitApproval
<1>2. PICK d \in DepId, u \in User : d = review[a].dep /\ u = deposits[d].user
  BY <1>1, CreditedRow DEF Holds
<1>. DEFINE types == {"DEPOSIT", "REFERRAL_REWARD"}
            refs == DepId \union User
            m == DepositCredit(d)
            credited == Post(Books, m)
            rewards == review[a].pays /\ RewardAmount > 0
            reward1 == RewardCredit(u)
            final == IF rewards THEN Post(credited, reward1) ELSE credited
<1>3. ledger' = final.log
  BY <1>2 DEF CommitApproval, Commit
<1>4. /\ Present(d) /\ BooksOK(Books) /\ Books.log = ledger
      /\ review[a].pays => Referrer[u] # NoUser
  BY <1>1, <1>2 DEF DepositInv, ClaimsHold, Holds, Pending, DepositTypeOK, WalletTypeOK, Books
<1>5. m \in Move /\ CanMove(Books, m) /\ m.type \in types /\ m.ref \in refs
  BY <1>4, DepositMove DEF DepositInv, DepositCredit, Credit
<1>6. rewards => /\ reward1 \in Move /\ CanMove(credited, reward1)
                 /\ reward1.type \in types /\ reward1.ref \in refs
  BY <1>4, RewardMove DEF RewardCredit, Credit
<1>. HIDE DEF m, reward1, types, refs
<1>7. BooksOK(credited) /\ LedgerGrown(ledger, credited.log, types, refs)
  BY <1>4, <1>5, PostBooks, PostGrows
<1>. HIDE DEF credited
<1>8. CASE rewards
  <2>1. LedgerGrown(credited.log, final.log, types, refs)
    BY <1>6, <1>7, <1>8, PostGrows
  <2>. HIDE DEF final
  <2>. QED
    BY <1>3, <1>7, <2>1, GrownTwice DEF types, refs
<1>9. CASE ~rewards
  BY <1>3, <1>7, <1>9 DEF types, refs
<1>. QED
  BY <1>8, <1>9

LEMMA DepositGrows ==
    ASSUME DepositInv, DepositStep
    PROVE  LedgerGrown(ledger, ledger', {"DEPOSIT", "REFERRAL_REWARD"}, DepId \union User)
<1>1. (\E a \in Admin : CommitApproval(a)) \/ ledger' = ledger
  BY DEF DepositStep, CreateDeposit, RejectDeposit, ClaimApproval, BeginDelete, CreditDepositor,
         AbortApproval, EndDelete, SetReferralMin, walletVars
<1>. QED
  BY <1>1, CommitGrows, LedgerSame

LEMMA TransferGrows ==
    ASSUME TransferInv, TransferStep
    PROVE  LedgerGrown(ledger, ledger', {"TRANSFER_SENT", "TRANSFER_RECEIVED"}, {NoRef})
<1>1. (\E q \in TrReq : MoveMoney(q)) \/ ledger' = ledger
  BY DEF TransferStep, SubmitTransfer, TransferRequestStep, Preflight, LockFirst, LockSecond,
         LockRow, ReadUnderLock, MoveAndCommit, RefuseOverdraft, TransferResponseLost,
         TransferFails, TransferDies, SetUserStatus, NextDay, walletVars
<1>2. ASSUME NEW q \in TrReq, MoveMoney(q)
      PROVE  LedgerGrown(ledger, ledger', {"TRANSFER_SENT", "TRANSFER_RECEIVED"}, {NoRef})
  <2>. DEFINE types == {"TRANSFER_SENT", "TRANSFER_RECEIVED"}
              refs == {NoRef}
              out == SendDebit(q)
              in == ReceiveCredit(q)
              mid == Post(Books, out)
  <2>1. CanMove(Books, out) /\ ledger' = Post(mid, in).log
    BY <1>2 DEF MoveMoney, Commit
  <2>2. BooksOK(Books) /\ Books.log = ledger
    BY DEF TransferInv, TransferTypeOK, WalletTypeOK, Books
  <2>3. /\ out \in Move /\ out.type \in types /\ out.ref \in refs
        /\ in \in Move /\ in.type \in types /\ in.ref \in refs
        /\ CanMove(mid, in)
    BY TransferTypes
       DEF TransferInv, SendDebit, ReceiveCredit, Debit, Credit, Move, CanMove, Bucket, Direction,
           TxType
  <2>. HIDE DEF out, in, types, refs
  <2>4. BooksOK(mid) /\ LedgerGrown(ledger, mid.log, types, refs)
    BY <2>1, <2>2, <2>3, PostBooks, PostGrows
  <2>. HIDE DEF mid
  <2>5. LedgerGrown(mid.log, ledger', types, refs)
    BY <2>1, <2>3, <2>4, PostGrows
  <2>. QED
    BY <2>4, <2>5, GrownTwice DEF types, refs
<1>. QED
  BY <1>1, <1>2, LedgerSame

LEMMA AddsGrows ==
    ASSUME NEW log \in Seq(Entry), NEW new, NEW m, NEW a, Adds(log, new, m, a),
           NEW types, NEW refs, m.type \in types, m.ref \in refs
    PROVE  Grown(log, new, types, refs)
  BY GrownAppend DEF Adds

\* The two parts of a hold, or of its return.
LEMMA PartsGrow ==
    ASSUME BooksOK(Books), NEW m1 \in Move, NEW m2 \in Move,
           m1.bucket = "CASH", m2.bucket = "WINNING", m1.user = m2.user,
           m1.type = m2.type, m1.ref = m2.ref, m1.direction = m2.direction,
           m1.amount = 0 \/ CanMove(Books, m1), m2.amount = 0 \/ CanMove(Books, m2),
           Commit(PostSome(PostSome(Books, m1), m2)),
           NEW types, NEW refs, m1.type \in types, m1.ref \in refs
    PROVE  LedgerGrown(ledger, ledger', types, refs)
<1>1. \A u \in User, b \in Bucket :
          LET part == PartIn(b, m1.amount, m2.amount)
          IN  /\ (u # m1.user \/ part = 0) => ledger'[u][b] = ledger[u][b]
              /\ (u = m1.user /\ part # 0) => Adds(ledger[u][b], ledger'[u][b], m1, part)
  BY TwoParts
<1>2. ASSUME NEW u \in User, NEW b \in Bucket
      PROVE  Grown(ledger[u][b], ledger'[u][b], types, refs)
  <2>1. \/ ledger'[u][b] = ledger[u][b]
        \/ Adds(ledger[u][b], ledger'[u][b], m1, PartIn(b, m1.amount, m2.amount))
    BY <1>1
  <2>2. ledger[u][b] \in Seq(Entry)
    BY DEF BooksOK, Books
  <2>. QED
    BY <2>1, <2>2, AddsGrows, GrownSame
<1>. QED
  BY <1>2 DEF LedgerGrown

LEMMA WithdrawalGrows ==
    ASSUME WithdrawalInv, WithdrawalStep
    PROVE  LedgerGrown(ledger, ledger', {"WITHDRAWAL", "WITHDRAWAL_REVERSAL"}, WdId)
<1>1. /\ WithdrawalTypeOK /\ LedgerHolds /\ BooksOK(Books)
  BY DEF WithdrawalInv, WithdrawalTypeOK, WalletTypeOK
<1>2. \/ \E q \in WdReq, w \in WdId : HoldAndInsert(q, w)
      \/ \E w \in WdId : WdPresent(w) /\ ReverseHold(w)
      \/ ledger' = ledger
  BY DEF WithdrawalStep, SubmitWithdrawal, RequestStep, LookupKey, InsertAndRead, DebitAndCommit,
         RefuseInsufficient, CommitResponseLost, AttemptFails, RequestDies, CancelWithdrawal,
         ReviewWithdrawal, walletVars
<1>3. ASSUME NEW q \in WdReq, NEW w \in WdId, HoldAndInsert(q, w)
      PROVE  LedgerGrown(ledger, ledger', {"WITHDRAWAL", "WITHDRAWAL_REVERSAL"}, WdId)
  <2>. DEFINE m1 == HoldCash(q, w)
              m2 == HoldWinning(q, w)
              u == wreq[q].user
  <2>1. /\ m1 \in Move /\ m2 \in Move
        /\ m1.user = u /\ m2.user = u /\ m1.bucket = "CASH" /\ m2.bucket = "WINNING"
        /\ m1.type = "WITHDRAWAL" /\ m2.type = "WITHDRAWAL" /\ m1.ref = w /\ m2.ref = w
        /\ m1.direction = "DEBIT" /\ m2.direction = "DEBIT"
        /\ (m1.amount = 0 \/ CanMove(Books, m1)) /\ (m2.amount = 0 \/ CanMove(Books, m2))
    BY <1>1, <1>3, HoldParts
  <2>2. Commit(PostSome(PostSome(Books, m1), m2))
    BY <1>3 DEF HoldAndInsert
  <2>. HIDE DEF m1, m2, u
  <2>. QED
    BY <1>1, <2>1, <2>2, PartsGrow
<1>4. ASSUME NEW w \in WdId, WdPresent(w), ReverseHold(w)
      PROVE  LedgerGrown(ledger, ledger', {"WITHDRAWAL", "WITHDRAWAL_REVERSAL"}, WdId)
  <2>. DEFINE m1 == ReturnTo(w, "CASH")
              m2 == ReturnTo(w, "WINNING")
              u == withdrawals[w].user
  <2>1. /\ m1 = Credit(u, "CASH", Share(u, "CASH", w), "WITHDRAWAL_REVERSAL", w)
        /\ m2 = Credit(u, "WINNING", Share(u, "WINNING", w), "WITHDRAWAL_REVERSAL", w)
        /\ m1 \in Move /\ m2 \in Move
        /\ m1.amount = 0 \/ CanMove(Books, m1)
        /\ m2.amount = 0 \/ CanMove(Books, m2)
    BY <1>1, <1>4, ReturnIsShare
  <2>2. Commit(PostSome(PostSome(Books, m1), m2))
    BY <1>4 DEF ReverseHold
  <2>. HIDE DEF m1, m2
  <2>3. /\ m1.user = u /\ m2.user = u /\ m1.bucket = "CASH" /\ m2.bucket = "WINNING"
        /\ m1.type = "WITHDRAWAL_REVERSAL" /\ m2.type = "WITHDRAWAL_REVERSAL"
        /\ m1.ref = w /\ m2.ref = w /\ m1.direction = "CREDIT" /\ m2.direction = "CREDIT"
    BY <2>1 DEF Credit
  <2>. HIDE DEF u
  <2>. QED
    BY <1>1, <2>1, <2>2, <2>3, PartsGrow
<1>. QED
  BY <1>2, <1>3, <1>4, LedgerSame

LEMMA WalletGrows ==
    ASSUME WalletTypeOK, WalletStep
    PROVE  LedgerGrown(ledger, ledger', {"COIN_CONVERSION", "ADMIN_CREDIT", "ADMIN_DEBIT"}, {NoRef})
<1>. SUFFICES ASSUME NEW u \in User, NEW b \in Bucket
              PROVE  Grown(ledger[u][b], ledger'[u][b],
                           {"COIN_CONVERSION", "ADMIN_CREDIT", "ADMIN_DEBIT"}, {NoRef})
  BY DEF LedgerGrown
<1>1. ledger[u][b] \in Seq(Entry)
  BY DEF WalletTypeOK, BooksOK, Books
<1>2. Unnamed(ledger[u][b], ledger'[u][b])
  BY WalletStepEffect
<1>3. ASSUME NEW e \in Entry, e.ref = NoRef,
             e.type \in {"COIN_CONVERSION", "ADMIN_CREDIT", "ADMIN_DEBIT"},
             ledger'[u][b] = Append(ledger[u][b], e)
      PROVE  Grown(ledger[u][b], ledger'[u][b],
                   {"COIN_CONVERSION", "ADMIN_CREDIT", "ADMIN_DEBIT"}, {NoRef})
  <2>. DEFINE types == {"COIN_CONVERSION", "ADMIN_CREDIT", "ADMIN_DEBIT"}
              refs == {NoRef}
  <2>1. e.type \in types /\ e.ref \in refs
    BY <1>3
  <2>. HIDE DEF types, refs
  <2>2. Grown(ledger[u][b], Append(ledger[u][b], e), types, refs)
    BY <1>1, <2>1, GrownAppend
  <2>. QED
    BY <1>3, <2>2 DEF types, refs
<1>. QED
  BY <1>2, <1>3, GrownSame DEF Unnamed

-----------------------------------------------------------------------------
(***************************************************************************)
(* What the others do leaves a component's invariant alone.                *)
(***************************************************************************)
\* The transactions of T keep the rows they hold and get no others.
RowsLeft(T) ==
    \A u \in User : (rowLock[u] \in T \/ rowLock'[u] \in T) => rowLock'[u] = rowLock[u]

DepositsOK == DepositInv /\ LocksHeld /\ RewardInv

LEMMA DepositsBehind ==
    ASSUME DepositsOK, UNCHANGED depositVars, WalletTypeOK', LedgerExplainsBalance',
           NEW types, NEW refs, LedgerGrown(ledger, ledger', types, refs),
           types \intersect {"DEPOSIT", "REFERRAL_REWARD"} = {}, RowsLeft(Admin)
    PROVE  DepositsOK'
<1>1. /\ DepositInv /\ LocksHeld /\ RewardInv /\ DepositTypeOK
      /\ UNCHANGED <<deposits, issued, clock, review, reward, minFirst>>
  BY DEF DepositsOK, DepositInv, depositVars
<1>2. SameCredits(ledger, ledger')
  <2>. SUFFICES ASSUME NEW u \in User, NEW d \in DepId
                PROVE  /\ CreditsIn(ledger', u, d) = CreditsIn(ledger, u, d)
                       /\ \A i \in CreditsIn(ledger, u, d) :
                             ledger'[u]["CASH"][i].amount = ledger[u]["CASH"][i].amount
    BY DEF SameCredits
  <2>1. "CASH" \in Bucket /\ "DEPOSIT" \notin types
    BY DEF Bucket
  <2>. QED
    BY <2>1, GrownEntries DEF CreditsIn
<1>3. \A v \in User : Referrer[v] # NoUser => RewardsIn(ledger', v) = RewardsIn(ledger, v)
  <2>. SUFFICES ASSUME NEW v \in User, Referrer[v] # NoUser
                PROVE  RewardsIn(ledger', v) = RewardsIn(ledger, v)
    OBVIOUS
  <2>1. Referrer[v] \in User /\ "BONUS" \in Bucket /\ "REFERRAL_REWARD" \notin types
    BY DepositAssumption DEF Bucket
  <2>. QED
    BY <2>1, GrownEntries DEF RewardsIn
<1>4. DepositInv'
  <2>1. \A x \in DepId : RowStep(x) /\ (Present(x)' => Present(x) \/ x \in issued')
    BY <1>1 DEF RowStep, Present
  <2>2. CreditInv'
    BY <1>1, <1>2, <2>1, CreditFrame DEF DepositInv
  <2>. QED
    BY <1>1, <2>2
       DEF DepositInv, DepositTypeOK, ClaimsHold, Holds, Pending, Present, RewardRows
<1>5. LocksHeld'
  <2>. SUFFICES ASSUME NEW a \in Admin, review'[a].stage = "credited"
                PROVE  Untouched(a)
    BY <1>1, LocksFrame
  <2>1. review[a].stage = "credited"
    BY <1>1
  <2>2. deposits[review[a].dep].user \in User
    BY <1>1, <2>1, CreditedRow DEF Holds
  <2>3. rowLock[deposits[review[a].dep].user] = a
    BY <1>1, <2>1 DEF LocksHeld
  <2>. QED
    BY <1>1, <2>2, <2>3 DEF Untouched, RowsLeft
<1>6. RewardInv'
  <2>1. MoreCredits(ledger, ledger')
    BY <1>2 DEF SameCredits, MoreCredits
  <2>. QED
    BY <1>1, <1>3, <2>1, RewardFrame
<1>. QED
  BY <1>4, <1>5, <1>6 DEF DepositsOK

LEMMA TransfersBehind ==
    ASSUME TransferInv, UNCHANGED transferVars, WalletTypeOK', LedgerExplainsBalance',
           RowsLeft(TrReq)
    PROVE  TransferInv'
<1>1. /\ TransferTypeOK /\ LedgerExplainsBalance /\ RowsOK
      /\ \A p \in TrReq : RequestOK(p)
      /\ transfers' = transfers /\ treq' = treq /\ today' = today /\ active' = active
  BY DEF TransferInv, transferVars
<1>2. TransferTypeOK' /\ RowsOK'
  BY <1>1 DEF TransferTypeOK, RowsOK, KeyPaysOnce, SentOn
<1>3. ASSUME NEW p \in TrReq PROVE RequestOK(p)'
  <2>1. \A u, day : SentSince(u, day)' = SentSince(u, day)
    BY <1>1 DEF SentSince
  <2>2. RowsOfKey(p)' = RowsOfKey(p) /\ FirstRow(p)' = FirstRow(p)
    BY <1>1 DEF RowsOfKey, FirstRow
  <2>3. FirstRow(p) \in User /\ treq[p].sender \in User
    BY <1>1, TransferTypes
  <2>4. HoldsItsRows(p)'
    BY <1>1, <2>2, <2>3 DEF RequestOK, HoldsItsRows, RowsLeft
  <2>5. ReadStillTrue(p)' /\ AnswerTrue(p)'
    BY <1>1, <2>1, <2>2 DEF RequestOK, ReadStillTrue, AnswerTrue
  <2>. QED
    BY <2>4, <2>5 DEF RequestOK
<1>. QED
  BY <1>2, <1>3 DEF TransferInv

\* Entries for other entities change nothing about a hold.
LEMMA HoldLogGrown ==
    ASSUME NEW log, NEW new, NEW types, NEW refs, Grown(log, new, types, refs),
           NEW w, w \notin refs, NEW h, NEW back, HoldLog(log, w, h, back)
    PROVE  HoldLog(new, w, h, back)
<1>1. \A i \in DOMAIN new : new[i].ref = w => i \in DOMAIN log /\ new[i] = log[i]
  BY DEF Grown
<1>2. \A i \in DOMAIN log : i \in DOMAIN new /\ new[i] = log[i]
  BY DEF Grown
<1>. QED
  BY <1>1, <1>2 DEF HoldLog

LEMMA WithdrawalsBehind ==
    ASSUME WithdrawalInv, UNCHANGED withdrawalVars, WalletTypeOK', LedgerExplainsBalance',
           NEW types, NEW refs, LedgerGrown(ledger, ledger', types, refs),
           refs \intersect WdId = {}
    PROVE  /\ WithdrawalInv'
           /\ \A w \in WdId, u \in User, b \in Bucket : Share(u, b, w)' = Share(u, b, w)
<1>1. /\ WithdrawalTypeOK /\ LedgerHolds /\ KeysExclusive /\ AnswersAreTrue
      /\ withdrawals' = withdrawals /\ wreq' = wreq
  BY DEF WithdrawalInv, withdrawalVars
<1>2. \A w \in WdId : (WdPresent(w)' <=> WdPresent(w)) /\ Back(w)' = Back(w)
  BY <1>1 DEF WdPresent, Back
<1>3. ASSUME NEW w \in WdId
      PROVE  RowHolds(w)' /\ \A u \in User, b \in Bucket : Share(u, b, w)' = Share(u, b, w)
  <2>1. RowHolds(w)
    BY <1>1 DEF LedgerHolds
  <2>2. ASSUME NEW u \in User, NEW b \in Bucket
        PROVE  HoldLog(ledger'[u][b], w, Share(u, b, w), WdPresent(w) /\ Back(w))
    <3>1. HoldLog(ledger[u][b], w, Share(u, b, w), WdPresent(w) /\ Back(w))
      BY <2>1 DEF RowHolds
    <3>2. Grown(ledger[u][b], ledger'[u][b], types, refs) /\ w \notin refs
      BY DEF LedgerGrown
    <3>. QED
      BY <3>1, <3>2, HoldLogGrown
  <2>3. WdPresent(w) => withdrawals[w].user \in User
    BY <1>1, WdRowTypes
  <2>. QED
    BY <1>1, <1>2, <2>1, <2>2, <2>3, RowKept
<1>4. KeysExclusive' /\ AnswersAreTrue'
  BY <1>1, <1>2, RequestsKept
<1>. QED
  BY <1>1, <1>3, <1>4 DEF WithdrawalInv, WithdrawalTypeOK, LedgerHolds

-----------------------------------------------------------------------------
(***************************************************************************)
(* The wallet rows.                                                        *)
(***************************************************************************)
\* An approval that holds a row has credited.
HeldByApprovals ==
    \A u \in User, a \in Admin : rowLock[u] = a => review[a].stage = "credited"

\* A transfer that holds a row has locked both, or waits for the second.
HeldByTransfers ==
    \A u \in User, q \in TrReq : rowLock[u] = q =>
        \/ treq[q].stage = "lockSecond" /\ u = FirstRow(q)
        \/ treq[q].stage \in {"read", "move"}

\* A transaction takes a free row, or gives its rows up.
RowsMove(x) ==
    \/ rowLock' = rowLock
    \/ rowLock' = Released(x)
    \/ \E u \in User : RowFree(u, x) /\ rowLock' = Locked(x, {u})

LEMMA OthersRows ==
    ASSUME NEW x \in Txn, RowsMove(x), NEW T \in SUBSET Txn, x \notin T
    PROVE  RowsLeft(T)
<1>1. NoTxn \notin T
  BY WalletAssumption
<1>. QED
  BY <1>1 DEF RowsMove, RowsLeft, Released, Locked, RowFree

LEMMA ApprovalRows ==
    ASSUME DepositInv, HeldByApprovals, DepositStep
    PROVE  HeldByApprovals' /\ RowsLeft(TrReq)
<1>1. /\ review \in [Admin -> Review]
      /\ \A a \in Admin : a \in Txn /\ a # NoTxn /\ a \notin TrReq
      /\ TrReq \in SUBSET Txn
  BY DepositAssumption, TransferAssumption, PaymentAssumption, WalletAssumption
     DEF DepositInv, DepositTypeOK
<1>2. CASE /\ rowLock' = rowLock
           /\ \A a \in Admin : review[a].stage = "credited" => review'[a].stage = "credited"
  BY <1>2 DEF HeldByApprovals, RowsLeft
<1>3. ASSUME NEW a \in Admin, CreditDepositor(a) PROVE HeldByApprovals' /\ RowsLeft(TrReq)
  <2>. DEFINE u == deposits[review[a].dep].user
  <2>1. /\ review[a].stage = "claimed" /\ RowFree(u, a) /\ rowLock' = Locked(a, {u})
        /\ review' = [review EXCEPT ![a].stage = "credited", ![a].pays = RewardDue(a)]
    BY <1>3 DEF CreditDepositor
  <2>2. u \in User
    BY <2>1, CreditedRow DEF Holds
  <2>3. RowsLeft(TrReq)
    BY <1>1, <2>1, <2>2, OthersRows DEF RowsMove
  <2>4. review'[a].stage = "credited" /\ \A b \in Admin \ {a} : review'[b] = review[b]
    <3>1. review[a] \in Review
      BY <1>1
    <3>. QED
      BY <1>1, <2>1, <3>1 DEF Review
  <2>. HIDE DEF u
  <2>5. HeldByApprovals'
    BY <2>1, <2>4 DEF HeldByApprovals, Locked
  <2>. QED
    BY <2>3, <2>5
<1>4. ASSUME NEW a \in Admin, review' = [review EXCEPT ![a] = Idle], rowLock' = Released(a)
      PROVE  HeldByApprovals' /\ RowsLeft(TrReq)
  <2>1. RowsLeft(TrReq)
    BY <1>1, <1>4, OthersRows DEF RowsMove
  <2>2. HeldByApprovals'
    BY <1>1, <1>4 DEF HeldByApprovals, Released
  <2>. QED
    BY <2>1, <2>2
<1>5. ASSUME NEW a \in Admin, NEW d \in DepId, ClaimApproval(a, d) \/ BeginDelete(a, d)
      PROVE  \A b \in Admin : review[b].stage = "credited" => review'[b].stage = "credited"
  <2>1. /\ review[a].stage = "idle"
        /\ \A b \in Admin \ {a} : review'[b] = review[b]
    BY <1>1, <1>5 DEF ClaimApproval, BeginDelete
  <2>. QED
    BY <2>1
<1>6. ASSUME NEW a \in Admin, EndDelete(a)
      PROVE  \A b \in Admin : review[b].stage = "credited" => review'[b].stage = "credited"
  BY <1>1, <1>6 DEF EndDelete
<1>7. \/ \E a \in Admin : CreditDepositor(a)
      \/ \E a \in Admin : review' = [review EXCEPT ![a] = Idle] /\ rowLock' = Released(a)
      \/ /\ rowLock' = rowLock
         /\ \/ \E a \in Admin, d \in DepId : ClaimApproval(a, d) \/ BeginDelete(a, d)
            \/ \E a \in Admin : EndDelete(a)
            \/ review' = review
  BY DEF DepositStep, CreateDeposit, RejectDeposit, ClaimApproval, BeginDelete, CommitApproval,
         AbortApproval, EndDelete, SetReferralMin, walletVars
<1>. QED
  BY <1>2, <1>3, <1>4, <1>5, <1>6, <1>7

\* A request that goes on to a stage without locks has given its rows up.
Ended(q) == rowLock' = Released(q) /\ \A p \in TrReq \ {q} : treq'[p] = treq[p]

LEMMA TransferRows ==
    ASSUME TransferInv, HeldByTransfers, TransferStep
    PROVE  HeldByTransfers' /\ RowsLeft(Admin)
<1>1. /\ TransferTypeOK /\ treq \in [TrReq -> TrRequest]
      /\ \A q \in TrReq : q \in Txn /\ q # NoTxn /\ q \notin Admin
      /\ Admin \in SUBSET Txn
  BY DepositAssumption, TransferAssumption, PaymentAssumption, WalletAssumption
     DEF TransferInv, TransferTypeOK
<1>2. CASE UNCHANGED <<rowLock, treq>>
  BY <1>2 DEF HeldByTransfers, RowsLeft, FirstRow
<1>3. ASSUME NEW q \in TrReq, Ended(q) PROVE HeldByTransfers' /\ RowsLeft(Admin)
  <2>1. RowsLeft(Admin)
    BY <1>1, <1>3, OthersRows DEF Ended, RowsMove
  <2>2. HeldByTransfers'
    BY <1>1, <1>3 DEF Ended, HeldByTransfers, Released, FirstRow
  <2>. QED
    BY <2>1, <2>2
<1>4. ASSUME NEW q \in TrReq, LockFirst(q) PROVE HeldByTransfers' /\ RowsLeft(Admin)
  <2>1. /\ treq[q].stage = "lock" /\ Goto(q, "lockSecond")
        /\ RowFree(FirstRow(q), q) /\ rowLock' = Locked(q, {FirstRow(q)})
    BY <1>4 DEF LockFirst, LockRow
  <2>2. Moves(q) /\ treq'[q].stage = "lockSecond"
    BY <1>1, <2>1, GotoMoves
  <2>3. FirstRow(q) \in User /\ FirstRow(q)' = FirstRow(q)
    BY <1>1, <2>2, TransferTypes, RowsInOrder
  <2>4. RowsLeft(Admin)
    BY <1>1, <2>1, <2>3, OthersRows DEF RowsMove
  <2>5. ASSUME NEW u \in User, NEW p \in TrReq, rowLock'[u] = p
        PROVE  \/ treq'[p].stage = "lockSecond" /\ u = FirstRow(p)'
               \/ treq'[p].stage \in {"read", "move"}
    <3>1. CASE p = q
      <4>1. rowLock[u] # q
        BY <2>1 DEF HeldByTransfers
      <4>2. u = FirstRow(q)
        BY <3>1, <4>1, <2>1, <2>5 DEF Locked
      <4>. QED
        BY <3>1, <4>2, <2>2, <2>3
    <3>2. CASE p # q
      <4>1. rowLock[u] = p /\ treq'[p] = treq[p]
        BY <3>2, <2>1, <2>2, <2>5 DEF Locked, Moves
      <4>2. FirstRow(p)' = FirstRow(p)
        BY <4>1 DEF FirstRow
      <4>. QED
        BY <4>1, <4>2 DEF HeldByTransfers
    <3>. QED
      BY <3>1, <3>2
  <2>. QED
    BY <2>4, <2>5 DEF HeldByTransfers
<1>5. ASSUME NEW q \in TrReq, LockSecond(q) PROVE HeldByTransfers' /\ RowsLeft(Admin)
  <2>1. /\ Goto(q, "read") /\ RowFree(SecondRow(q), q) /\ rowLock' = Locked(q, {SecondRow(q)})
    BY <1>5 DEF LockSecond, LockRow
  <2>2. Moves(q) /\ treq'[q].stage = "read"
    BY <1>1, <2>1, GotoMoves
  <2>3. SecondRow(q) \in User
    BY <1>1, TransferTypes
  <2>4. RowsLeft(Admin)
    BY <1>1, <2>1, <2>3, OthersRows DEF RowsMove
  <2>5. ASSUME NEW u \in User, NEW p \in TrReq, rowLock'[u] = p, p # q
        PROVE  \/ treq'[p].stage = "lockSecond" /\ u = FirstRow(p)'
               \/ treq'[p].stage \in {"read", "move"}
    <3>1. rowLock[u] = p /\ treq'[p] = treq[p]
      BY <2>1, <2>2, <2>5 DEF Locked, Moves
    <3>2. FirstRow(p)' = FirstRow(p)
      BY <3>1 DEF FirstRow
    <3>. QED
      BY <3>1, <3>2 DEF HeldByTransfers
  <2>. QED
    BY <2>2, <2>4, <2>5 DEF HeldByTransfers
<1>6. ASSUME NEW q \in TrReq,
             \/ SubmitTransfer(q) \/ Preflight(q) \/ ReadUnderLock(q) \/ RefuseOverdraft(q)
             \/ MoveAndCommit(q) \/ TransferResponseLost(q) \/ TransferFails(q)
             \/ TransferDies(q)
      PROVE  HeldByTransfers' /\ RowsLeft(Admin)
  <2>1. ASSUME NEW answer, Reply(q, answer) PROVE Ended(q)
    BY <1>1, <2>1 DEF Reply, Ended
  <2>2. ASSUME RetryTransfer(q) PROVE Ended(q)
    <3>1. CASE treq[q].attempt < TrAttempts
      BY <1>1, <2>2, <3>1 DEF RetryTransfer, Ended
    <3>. QED
      BY <2>1, <2>2, <3>1 DEF RetryTransfer
  <2>3. ASSUME rowLock' = rowLock, NEW r, treq' = [treq EXCEPT ![q] = r],
               \/ treq[q].stage \in {"new", "preflight"}
               \/ treq[q].stage = "read" /\ r.stage = "move" /\ r.sender = treq[q].sender
                  /\ r.recipient = treq[q].recipient
        PROVE  HeldByTransfers' /\ RowsLeft(Admin)
    BY <1>1, <2>3 DEF HeldByTransfers, RowsLeft, FirstRow
  <2>4. CASE SubmitTransfer(q)
    BY <1>1, <2>3, <2>4 DEF SubmitTransfer, walletVars
  <2>5. CASE Preflight(q)
    <3>1. CASE Goto(q, "lock") /\ rowLock' = rowLock
      BY <1>1, <2>3, <2>5, <3>1 DEF Preflight, Goto
    <3>. QED
      BY <1>3, <2>1, <2>5, <3>1 DEF Preflight
  <2>6. CASE ReadUnderLock(q)
    <3>. DEFINE sent == SentSince(treq[q].sender, today)
    <3>1. CASE /\ treq' = [treq EXCEPT ![q].stage = "move", ![q].sent = sent]
               /\ UNCHANGED rowLock
      <4>1. PICK n : n = sent
        OBVIOUS
      <4>. HIDE DEF sent
      <4>2. PICK mid : mid = [treq[q] EXCEPT !.stage = "move"]
        OBVIOUS
      <4>3. PICK r : r = [mid EXCEPT !.sent = n]
        OBVIOUS
      <4>4. mid.stage = "move" /\ mid.sender = treq[q].sender /\ mid.recipient = treq[q].recipient
            /\ mid \in TrRequest
        <5>1. treq[q] \in TrRequest
          BY <1>1
        <5>. QED
          BY <4>2, <5>1 DEF TrRequest
      <4>5. r.stage = "move" /\ r.sender = treq[q].sender /\ r.recipient = treq[q].recipient
        BY <4>3, <4>4 DEF TrRequest
      <4>6. treq' = [treq EXCEPT ![q] = r]
        BY <1>1, <3>1, <4>1, <4>2, <4>3
      <4>. QED
        BY <2>3, <2>6, <3>1, <4>5, <4>6 DEF ReadUnderLock
    <3>2. CASE \E answer : Reply(q, answer)
      BY <1>3, <2>1, <3>2
    <3>. QED
      BY <2>6, <3>1, <3>2 DEF ReadUnderLock
  <2>7. CASE RefuseOverdraft(q) \/ MoveAndCommit(q) \/ TransferDies(q)
    BY <1>3, <2>1, <2>7 DEF RefuseOverdraft, MoveAndCommit, TransferDies
  <2>8. CASE TransferResponseLost(q) \/ TransferFails(q)
    BY <1>3, <2>2, <2>8 DEF TransferResponseLost, TransferFails
  <2>. QED
    BY <1>6, <2>4, <2>5, <2>6, <2>7, <2>8
<1>7. ASSUME (\E u \in Moderated : SetUserStatus(u)) \/ NextDay
      PROVE  UNCHANGED <<rowLock, treq>>
  BY <1>7 DEF SetUserStatus, NextDay, walletVars
<1>. QED
  BY <1>2, <1>4, <1>5, <1>6, <1>7 DEF TransferStep, TransferRequestStep

-----------------------------------------------------------------------------
(***************************************************************************)
(* The invariant of the composition.                                       *)
(***************************************************************************)
PayInv ==
    /\ DepositsOK
    /\ TransferInv
    /\ WithdrawalInv
    /\ HeldByApprovals
    /\ HeldByTransfers

LEMMA PaymentInitial == ASSUME PaymentInit PROVE PayInv
<1>1. /\ DepositInit /\ TransferInit /\ WithdrawalInit
      /\ rowLock = [u \in User |-> NoTxn]
  BY DEF PaymentInit, DepositInit, WalletInit
<1>2. DepositsOK
  BY <1>1, InitDepositInv, InitReward DEF DepositsOK
<1>3. HeldByApprovals /\ HeldByTransfers
  <2>1. \A t \in Admin \union TrReq : t # NoTxn
    BY DepositAssumption, TransferAssumption, WalletAssumption
  <2>. QED
    BY <1>1, <2>1 DEF HeldByApprovals, HeldByTransfers
<1>. QED
  BY <1>1, <1>2, <1>3, TransferInitial, WithdrawalInitial DEF PayInv

\* A deadlock's victim takes a step of its own component.
LEMMA PaymentCases ==
    ASSUME [PaymentNext]_payVars
    PROVE  \/ DepositStep /\ UNCHANGED <<transferVars, withdrawalVars>>
           \/ TransferStep /\ UNCHANGED <<depositVars, withdrawalVars>>
           \/ WithdrawalStep /\ UNCHANGED <<depositVars, transferVars>>
           \/ WalletStep /\ UNCHANGED <<depositVars, transferVars, withdrawalVars>>
           \/ UNCHANGED payVars
<1>1. ASSUME DeadlockVictim
      PROVE  \/ DepositStep /\ UNCHANGED <<transferVars, withdrawalVars>>
             \/ TransferStep /\ UNCHANGED <<depositVars, withdrawalVars>>
  <2>1. \/ \E a \in Admin : AbortApproval(a) /\ UNCHANGED <<transferVars, withdrawalVars>>
        \/ \E q \in TrReq : TransferFails(q) /\ UNCHANGED <<depositVars, withdrawalVars>>
    BY <1>1 DEF DeadlockVictim
  <2>2. ASSUME NEW a \in Admin, AbortApproval(a) PROVE DepositStep
    BY <2>2 DEF DepositStep
  <2>3. ASSUME NEW q \in TrReq, TransferFails(q) PROVE TransferStep
    BY <2>3 DEF TransferStep
  <2>. QED
    BY <2>1, <2>2, <2>3
<1>. QED
  BY <1>1 DEF PaymentNext

LEMMA DepositMoves ==
    ASSUME PayInv, DepositStep, UNCHANGED <<transferVars, withdrawalVars>>
    PROVE  PayInv'
<1>. DEFINE types == {"DEPOSIT", "REFERRAL_REWARD"}
            refs == DepId \union User
<1>1. /\ DepositInv /\ LocksHeld /\ RewardInv /\ TransferInv /\ WithdrawalInv
      /\ HeldByApprovals /\ HeldByTransfers
  BY DEF PayInv, DepositsOK
<1>2. [DepositNext]_depVars
  BY DEF DepositNext
<1>3. DepositsOK'
  BY <1>1, <1>2, DepositNextKeeps, LocksStep, RewardStep DEF DepositsOK
<1>4. WalletTypeOK' /\ LedgerExplainsBalance'
  BY <1>3 DEF DepositsOK, DepositInv, DepositTypeOK
<1>5. HeldByApprovals' /\ RowsLeft(TrReq)
  BY <1>1, ApprovalRows
<1>6. LedgerGrown(ledger, ledger', types, refs) /\ refs \intersect WdId = {}
  BY <1>1, DepositGrows, PaymentAssumption
<1>. HIDE DEF types, refs
<1>7. TransferInv'
  BY <1>1, <1>4, <1>5, TransfersBehind
<1>8. WithdrawalInv'
  BY <1>1, <1>4, <1>6, WithdrawalsBehind
<1>9. HeldByTransfers'
  BY <1>1, <1>5 DEF HeldByTransfers, RowsLeft, FirstRow, transferVars
<1>. QED
  BY <1>3, <1>5, <1>7, <1>8, <1>9 DEF PayInv

LEMMA TransferMoves ==
    ASSUME PayInv, TransferStep, UNCHANGED <<depositVars, withdrawalVars>>
    PROVE  PayInv'
<1>. DEFINE types == {"TRANSFER_SENT", "TRANSFER_RECEIVED"}
            refs == {NoRef}
<1>1. /\ DepositsOK /\ TransferInv /\ WithdrawalInv
      /\ HeldByApprovals /\ HeldByTransfers
  BY DEF PayInv
<1>2. TransferInv'
  BY <1>1, TransferNextKeeps DEF TransferNext
<1>3. WalletTypeOK' /\ LedgerExplainsBalance'
  BY <1>2 DEF TransferInv, TransferTypeOK
<1>4. HeldByTransfers' /\ RowsLeft(Admin)
  BY <1>1, TransferRows
<1>5. /\ LedgerGrown(ledger, ledger', types, refs)
      /\ types \intersect {"DEPOSIT", "REFERRAL_REWARD"} = {}
      /\ refs \intersect WdId = {}
  BY <1>1, TransferGrows, WithdrawalAssumption, WalletAssumption
<1>. HIDE DEF types, refs
<1>6. DepositsOK'
  BY <1>1, <1>3, <1>4, <1>5, DepositsBehind
<1>7. WithdrawalInv'
  BY <1>1, <1>3, <1>5, WithdrawalsBehind
<1>8. HeldByApprovals'
  BY <1>1, <1>4 DEF HeldByApprovals, RowsLeft, depositVars
<1>. QED
  BY <1>2, <1>4, <1>6, <1>7, <1>8 DEF PayInv

LEMMA SameRows ==
    ASSUME HeldByApprovals, HeldByTransfers, rowLock' = rowLock,
           UNCHANGED <<depositVars, transferVars>>
    PROVE  /\ HeldByApprovals' /\ HeldByTransfers'
           /\ \A T : RowsLeft(T)
  BY DEF HeldByApprovals, HeldByTransfers, RowsLeft, FirstRow, depositVars, transferVars

LEMMA WithdrawalMoves ==
    ASSUME PayInv, WithdrawalStep, UNCHANGED <<depositVars, transferVars>>
    PROVE  PayInv'
<1>. DEFINE types == {"WITHDRAWAL", "WITHDRAWAL_REVERSAL"}
            refs == WdId
<1>1. /\ DepositsOK /\ TransferInv /\ WithdrawalInv
      /\ HeldByApprovals /\ HeldByTransfers
  BY DEF PayInv
<1>2. WithdrawalInv'
  BY <1>1, WithdrawalNextKeeps DEF WithdrawalNext
<1>3. WalletTypeOK' /\ LedgerExplainsBalance'
  BY <1>2 DEF WithdrawalInv, WithdrawalTypeOK
<1>4. rowLock' = rowLock
  BY DEF WithdrawalStep, SubmitWithdrawal, RequestStep, LookupKey, InsertAndRead, DebitAndCommit,
         RefuseInsufficient, CommitResponseLost, AttemptFails, RequestDies, CancelWithdrawal,
         ReviewWithdrawal, HoldAndInsert, ReverseHold, walletVars
<1>5. /\ HeldByApprovals' /\ HeldByTransfers'
      /\ RowsLeft(Admin) /\ RowsLeft(TrReq)
  BY <1>1, <1>4, SameRows
<1>6. /\ LedgerGrown(ledger, ledger', types, refs)
      /\ types \intersect {"DEPOSIT", "REFERRAL_REWARD"} = {}
  BY <1>1, WithdrawalGrows
<1>. HIDE DEF types, refs
<1>7. DepositsOK'
  BY <1>1, <1>3, <1>5, <1>6, DepositsBehind
<1>8. TransferInv'
  BY <1>1, <1>3, <1>5, TransfersBehind
<1>. QED
  BY <1>2, <1>5, <1>7, <1>8 DEF PayInv

LEMMA WalletMoves ==
    ASSUME PayInv, WalletStep, UNCHANGED <<depositVars, transferVars, withdrawalVars>>
    PROVE  PayInv'
<1>. DEFINE types == {"COIN_CONVERSION", "ADMIN_CREDIT", "ADMIN_DEBIT"}
            refs == {NoRef}
<1>1. /\ DepositsOK /\ TransferInv /\ WithdrawalInv /\ WalletTypeOK
      /\ HeldByApprovals /\ HeldByTransfers
  BY DEF PayInv, TransferInv, TransferTypeOK
<1>2. TransferInv' /\ WithdrawalInv'
  BY <1>1, TransferNextKeeps, WithdrawalNextKeeps DEF TransferNext, WithdrawalNext
<1>3. WalletTypeOK' /\ LedgerExplainsBalance'
  BY <1>2 DEF TransferInv, TransferTypeOK
<1>4. rowLock' = rowLock
  BY <1>1, WalletStepEffect
<1>5. HeldByApprovals' /\ HeldByTransfers' /\ RowsLeft(Admin)
  BY <1>1, <1>4, SameRows
<1>6. /\ LedgerGrown(ledger, ledger', types, refs)
      /\ types \intersect {"DEPOSIT", "REFERRAL_REWARD"} = {}
  BY <1>1, WalletGrows
<1>. HIDE DEF types, refs
<1>7. DepositsOK'
  BY <1>1, <1>3, <1>5, <1>6, DepositsBehind
<1>. QED
  BY <1>2, <1>5, <1>7 DEF PayInv

LEMMA PaymentNextKeeps == ASSUME PayInv, [PaymentNext]_payVars PROVE PayInv'
<1>1. CASE UNCHANGED payVars
  <2>1. /\ UNCHANGED depVars /\ UNCHANGED trVars /\ UNCHANGED wdVars
        /\ rowLock' = rowLock /\ UNCHANGED <<depositVars, transferVars>>
    BY <1>1 DEF payVars, depVars, trVars, wdVars, walletVars
  <2>2. DepositsOK'
    BY <2>1, DepositNextKeeps, LocksStep, RewardStep DEF PayInv, DepositsOK
  <2>3. TransferInv' /\ WithdrawalInv'
    BY <2>1, TransferNextKeeps, WithdrawalNextKeeps DEF PayInv
  <2>4. HeldByApprovals' /\ HeldByTransfers'
    BY <2>1, SameRows DEF PayInv
  <2>. QED
    BY <2>2, <2>3, <2>4 DEF PayInv
<1>. QED
  BY <1>1, PaymentCases, DepositMoves, TransferMoves, WithdrawalMoves, WalletMoves

-----------------------------------------------------------------------------
(***************************************************************************)
(* Circular waits.                                                         *)
(***************************************************************************)
\* A finite set that is not empty has an element of greatest rank.
LEMMA Greatest ==
    ASSUME NEW S, IsFiniteSet(S), S # {}, NEW rank, \A x \in S : rank[x] \in Nat
    PROVE  \E x \in S : \A y \in S : rank[y] <= rank[x]
<1>. DEFINE Top(s) == \E x \in s : \A y \in s : rank[y] <= rank[x]
            D == {s \in SUBSET S : s # {} /\ ~Top(s)}
<1>. SUFFICES ASSUME S \in D PROVE FALSE
  OBVIOUS
<1>1. D \subseteq FiniteSubsetsOf(S)
  BY FS_FiniteSubsetsOfFinite
<1>2. IsWellFoundedOn(StrictSubsetOrdering(S), FiniteSubsetsOf(S))
  BY FS_StrictSubsetOrderingWellFounded
<1>3. PICK s \in D : \A t \in D : <<t, s>> \notin StrictSubsetOrdering(S)
  <2>. HIDE DEF D
  <2>. QED
    BY <1>1, <1>2, WFMin
<1>4. PICK x \in s : TRUE
  OBVIOUS
<1>. DEFINE t == s \ {x}
<1>5. t # {}
  <2>. SUFFICES ASSUME t = {} PROVE FALSE
    OBVIOUS
  <2>1. s = {x} /\ rank[x] \in Nat
    OBVIOUS
  <2>. QED
    BY <2>1
<1>6. <<t, s>> \in StrictSubsetOrdering(S)
  BY DEF StrictSubsetOrdering
<1>7. PICK z \in t : \A y \in t : rank[y] <= rank[z]
  BY <1>3, <1>5, <1>6
<1>8. rank[x] \in Nat /\ \A y \in t : rank[y] \in Nat
  OBVIOUS
<1>9. CASE rank[x] <= rank[z]
  BY <1>7, <1>9
<1>10. CASE ~(rank[x] <= rank[z])
  <2>1. \A y \in t : rank[y] <= rank[x]
    BY <1>7, <1>8, <1>10
  <2>2. rank[x] <= rank[x]
    BY <1>8
  <2>. QED
    BY <2>1, <2>2
<1>. QED
  BY <1>9, <1>10

\* A transaction waited for by one that pays no referral holds a wallet row.
LEMMA WaitedForHolds ==
    ASSUME PayInv, NEW s \in Admin \union TrReq, NEW t, WaitsFor(s, t),
           s \in Admin => ~(review[s].stage = "credited" /\ review[s].pays)
    PROVE  \E u \in User : u \in Wants(s) /\ rowLock[u] = t
<1>1. PICK u \in Wants(s) : rowLock[u] = t
  BY DEF WaitsFor
<1>2. CASE s \in Admin
  <2>1. review[s].stage = "claimed" /\ u = deposits[review[s].dep].user
    BY <1>2 DEF Wants
  <2>2. u \in User
    BY <1>2, <2>1, CreditedRow DEF PayInv, DepositsOK, Holds
  <2>. QED
    BY <1>1, <2>2
<1>3. CASE s \notin Admin
  <2>1. u = FirstRow(s) \/ u = SecondRow(s)
    BY <1>3 DEF Wants
  <2>2. u \in User
    BY <1>3, <2>1, TransferTypes DEF PayInv, TransferInv
  <2>. QED
    BY <1>1, <2>2
<1>. QED
  BY <1>2, <1>3

\* A transaction that holds a row and still waits is a transfer with its first
\* row, whose second row comes after it.
LEMMA HolderWaits ==
    ASSUME PayInv, NEW t \in Admin \union TrReq, NEW u \in User, rowLock[u] = t,
           NEW t2, WaitsFor(t, t2),
           t \in Admin => ~(review[t].stage = "credited" /\ review[t].pays)
    PROVE  /\ t \in TrReq /\ u = FirstRow(t) /\ SecondRow(t) \in User
           /\ rowLock[SecondRow(t)] = t2
           /\ UserOrder[u] < UserOrder[SecondRow(t)]
<1>1. HeldByApprovals /\ HeldByTransfers /\ TransferTypeOK /\ \A p \in TrReq : RequestOK(p)
  BY DEF PayInv, TransferInv
<1>2. t \notin Admin
  <2>. SUFFICES ASSUME t \in Admin PROVE FALSE
    OBVIOUS
  <2>1. review[t].stage = "credited"
    BY <1>1 DEF HeldByApprovals
  <2>. QED
    BY <2>1 DEF WaitsFor, Wants
<1>3. /\ treq[t].stage = "lockSecond" /\ u = FirstRow(t)
      /\ rowLock[SecondRow(t)] = t2 /\ t # t2
  <2>1. \/ treq[t].stage = "lockSecond" /\ u = FirstRow(t)
        \/ treq[t].stage \in {"read", "move"}
    BY <1>1, <1>2 DEF HeldByTransfers
  <2>. QED
    BY <1>2, <2>1 DEF WaitsFor, Wants
<1>4. /\ treq[t].sender \in User /\ treq[t].recipient \in User /\ SecondRow(t) \in User
      /\ rowLock[FirstRow(t)] = t
  BY <1>1, <1>2, <1>3, TransferTypes DEF RequestOK, HoldsItsRows
<1>5. treq[t].sender # treq[t].recipient
  BY <1>3, <1>4 DEF FirstRow, SecondRow
<1>6. /\ UserOrder[treq[t].sender] \in Nat /\ UserOrder[treq[t].recipient] \in Nat
      /\ UserOrder[treq[t].sender] # UserOrder[treq[t].recipient]
  BY <1>4, <1>5, TransferAssumption
<1>7. UserOrder[FirstRow(t)] < UserOrder[SecondRow(t)]
  BY <1>5, <1>6 DEF FirstRow, SecondRow
<1>. QED
  BY <1>2, <1>3, <1>4, <1>7

\* In a circle without a paying approval the row that comes last is held by a
\* transfer that waits for one that comes later.
LEMMA NoCircle == ASSUME PayInv PROVE CirclesNeedReferral
<1>. SUFFICES ASSUME NEW T \in SUBSET (Admin \union TrReq), Deadlocked(T),
                     \A a \in T \intersect Admin :
                         ~(review[a].stage = "credited" /\ review[a].pays)
              PROVE  FALSE
  BY DEF CirclesNeedReferral
<1>1. T # {} /\ \A s \in T : \E t \in T : WaitsFor(s, t)
  BY DEF Deadlocked
<1>. DEFINE H == {u \in User : rowLock[u] \in T}
<1>2. H # {}
  <2>1. PICK s \in T, t \in T : WaitsFor(s, t)
    BY <1>1
  <2>. QED
    BY <2>1, WaitedForHolds
<1>3. IsFiniteSet(H)
  BY PaymentAssumption, FS_Subset
<1>4. \A u \in H : UserOrder[u] \in Nat
  BY TransferAssumption
<1>5. PICK u \in H : \A v \in H : UserOrder[v] <= UserOrder[u]
  <2>. HIDE DEF H
  <2>. QED
    BY <1>2, <1>3, <1>4, Greatest
<1>6. PICK t \in T : rowLock[u] = t
  OBVIOUS
<1>7. PICK t2 \in T : WaitsFor(t, t2)
  BY <1>1
<1>8. PICK v \in User : rowLock[v] = t2 /\ UserOrder[u] < UserOrder[v]
  BY <1>6, <1>7, HolderWaits
<1>9. v \in H /\ UserOrder[v] <= UserOrder[u]
  BY <1>5, <1>8
<1>. QED
  BY <1>4, <1>8, <1>9

-----------------------------------------------------------------------------
(***************************************************************************)
(* The theorems.                                                           *)
(***************************************************************************)
THEOREM PaymentInductive == PaymentSpec => []PayInv
<1>1. PaymentInit => PayInv
  BY PaymentInitial
<1>2. PayInv /\ [PaymentNext]_payVars => PayInv'
  BY PaymentNextKeeps
<1>. QED
  BY <1>1, <1>2, PTL DEF PaymentSpec

(* No mix of deposits, transfers, withdrawals, conversions and adjustments *)
(* leaves a balance that its ledger does not explain.                      *)
THEOREM PaymentLedger == PaymentSpec => []LedgerExplainsBalance
<1>1. PayInv => LedgerExplainsBalance
  BY DEF PayInv, TransferInv
<1>. QED
  BY <1>1, PaymentInductive, PTL

(* Every circular wait contains an approval that pays a referral, for any  *)
(* number of transfers and any order of the user ids.                      *)
THEOREM PaymentCircles == PaymentSpec => []CirclesNeedReferral
  BY NoCircle, PaymentInductive, PTL

(* What each component promises alone it keeps when the others move the    *)
(* same wallets: deposits and referrals are credited once, the daily limit *)
(* and the request ids of transfers hold, answers are true, and the hold   *)
(* of a withdrawal matches its status.                                     *)
THEOREM PaymentKeepsComponents ==
    PaymentSpec => [](/\ CreditedOncePerRow /\ RewardPaidOnce
                      /\ DailyLimitKept /\ KeyPaysOnce /\ TransferAnswersAreTrue
                      /\ HoldMatchesStatus /\ AnswersAreTrue)
<1>1. PayInv => CreditedOncePerRow /\ RewardPaidOnce
  BY CreditedOnce, RewardsOnce DEF PayInv, DepositsOK
<1>2. PayInv => DailyLimitKept /\ KeyPaysOnce
  BY DEF PayInv, TransferInv, RowsOK, SentOn, DailyLimitKept
<1>3. PayInv => TransferAnswersAreTrue
  BY DEF PayInv, TransferInv, RequestOK, AnswerTrue, TransferAnswersAreTrue
<1>4. PayInv => HoldMatchesStatus /\ AnswersAreTrue
  BY HoldLogMatches DEF PayInv, WithdrawalInv
<1>. QED
  BY <1>1, <1>2, <1>3, <1>4, PaymentInductive, PTL

(* Nothing another component does changes a decided deposit.               *)
THEOREM PaymentDecisions == PaymentSpec => DecisionsAreFinal
<1>. DEFINE Final == \A d \in DepId :
                (Present(d) /\ deposits[d].status # "PENDING" /\ Present(d)')
                    => deposits'[d] = deposits[d]
<1>1. PayInv /\ [PaymentNext]_payVars => [Final]_depVars
  <2>. SUFFICES ASSUME PayInv, [PaymentNext]_payVars, NEW d \in DepId,
                       Present(d), deposits[d].status # "PENDING", Present(d)'
                PROVE  deposits'[d] = deposits[d]
    OBVIOUS
  <2>1. DepositStep \/ deposits' = deposits
    BY PaymentCases DEF depositVars, payVars
  <2>. QED
    BY <2>1, DecisionKept DEF PayInv, DepositsOK, DepositNext
<1>. QED
  BY <1>1, PaymentInductive, PTL DEF PaymentSpec, DecisionsAreFinal

\* A step that is not a withdrawal's hides behind the same abstract state.
LEMMA HoldsUntouched ==
    ASSUME PayInv, PayInv',
           \/ DepositStep /\ UNCHANGED <<transferVars, withdrawalVars>>
           \/ TransferStep /\ UNCHANGED <<depositVars, withdrawalVars>>
    PROVE  UNCHANGED Abstract!holdVars
<1>1. /\ DepositInv /\ TransferInv /\ WithdrawalInv /\ WithdrawalInv'
      /\ WalletTypeOK' /\ LedgerExplainsBalance'
      /\ UNCHANGED withdrawalVars /\ withdrawals' = withdrawals
  BY DEF PayInv, DepositsOK, TransferInv, TransferTypeOK, withdrawalVars
<1>2. PICK types, refs : /\ LedgerGrown(ledger, ledger', types, refs)
                         /\ refs \intersect WdId = {}
  <2>1. CASE DepositStep
    BY <1>1, <2>1, DepositGrows, PaymentAssumption
  <2>2. CASE TransferStep
    <3>1. {NoRef} \intersect WdId = {}
      BY WithdrawalAssumption, WalletAssumption
    <3>. QED
      BY <1>1, <2>2, <3>1, TransferGrows
  <2>. QED
    BY <2>1, <2>2
<1>3. \A w \in WdId, u \in User, b \in Bucket : Share(u, b, w)' = Share(u, b, w)
  BY <1>1, <1>2, WithdrawalsBehind
<1>4. \A w \in WdId : HoldOf(w)' = HoldOf(w) /\ TakenFor(w)' = TakenFor(w)
  BY <1>1, <1>3, MappedSame
<1>. QED
  BY <1>4 DEF Abstract!holdVars

(* With deposits and transfers on the same wallets, withdrawals still      *)
(* implement the abstract holds.                                           *)
THEOREM PaymentsImplementHolds == PaymentSpec => ImplementsHolds
<1>1. PaymentInit => Abstract!HoldInit
  BY MappedInitial DEF PaymentInit
<1>2. PayInv /\ PayInv' /\ [PaymentNext]_payVars => [Abstract!HoldNext]_Abstract!holdVars
  <2>. SUFFICES ASSUME PayInv, PayInv', [PaymentNext]_payVars
                PROVE  Abstract!HoldNext \/ UNCHANGED Abstract!holdVars
    OBVIOUS
  <2>1. WithdrawalInv /\ WithdrawalInv'
    BY DEF PayInv
  <2>2. CASE \/ DepositStep /\ UNCHANGED <<transferVars, withdrawalVars>>
             \/ TransferStep /\ UNCHANGED <<depositVars, withdrawalVars>>
    BY <2>2, HoldsUntouched
  <2>3. CASE \/ WithdrawalStep
             \/ WalletStep /\ UNCHANGED withdrawalVars
             \/ UNCHANGED payVars
    <3>1. [WithdrawalNext]_wdVars
      BY <2>3 DEF WithdrawalNext, payVars, wdVars
    <3>. QED
      BY <2>1, <3>1, MappedStep
  <2>. QED
    BY <2>2, <2>3, PaymentCases
<1>. QED
  BY <1>1, <1>2, PaymentInductive, PTL DEF PaymentSpec, ImplementsHolds, Abstract!HoldSpec

=============================================================================
