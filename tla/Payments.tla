------------------------------ MODULE Payments ------------------------------
(***************************************************************************)
(* Deposits, withdrawals and transfers over one wallet table.              *)
(*                                                                         *)
(* The components meet in the wallet rows: a balance one of them has       *)
(* checked can be spent by another, and a transaction of one can wait for  *)
(* a row that another holds.  A transfer locks its two rows in user-id     *)
(* order, an approval that pays a referral locks the depositor's row and   *)
(* then the referrer's, whatever their order; the database resolves the    *)
(* circular waits this allows by aborting one of the transactions.         *)
(***************************************************************************)
EXTENDS Deposits, Transfers, Withdrawals

payVars == <<walletVars, depositVars, transferVars, withdrawalVars>>

\* Ids are cuids, so the rows of different tables never share one.
ASSUME PaymentAssumption ==
    /\ TrReq \intersect Admin = {}
    /\ WdId \intersect (DepId \union User) = {}
    /\ IsFiniteSet(User)

-----------------------------------------------------------------------------
\* The wallet row that transaction t asks for next.
Wants(t) ==
    IF t \in Admin THEN
         CASE review[t].stage = "claimed" -> {deposits[review[t].dep].user}
           [] review[t].stage = "credited" /\ review[t].pays /\ RewardAmount > 0
                -> {Referrer[deposits[review[t].dep].user]}
           [] OTHER -> {}
    ELSE CASE treq[t].stage = "lock" -> {FirstRow(t)}
           [] treq[t].stage = "lockSecond" -> {SecondRow(t)}
           [] OTHER -> {}

WaitsFor(s, t) == s # t /\ \E u \in Wants(s) : rowLock[u] = t

\* Every transaction of T waits for another one of T.
Deadlocked(T) == T # {} /\ \A s \in T : \E t \in T : WaitsFor(s, t)

\* PostgreSQL aborts one transaction of a circular wait (error 40P01).
DeadlockVictim ==
    \E T \in SUBSET (Admin \union TrReq) :
        /\ Deadlocked(T)
        /\ \/ \E a \in T \intersect Admin :
                  AbortApproval(a) /\ UNCHANGED <<transferVars, withdrawalVars>>
           \/ \E q \in T \intersect TrReq :
                  TransferFails(q) /\ UNCHANGED <<depositVars, withdrawalVars>>

PaymentInit == DepositInit /\ TransferInit /\ WithdrawalInit

PaymentNext ==
    \/ DepositStep /\ UNCHANGED <<transferVars, withdrawalVars>>
    \/ TransferStep /\ UNCHANGED <<depositVars, withdrawalVars>>
    \/ WithdrawalStep /\ UNCHANGED <<depositVars, transferVars>>
    \/ WalletStep /\ UNCHANGED <<depositVars, transferVars, withdrawalVars>>
    \/ DeadlockVictim

PaymentSpec == PaymentInit /\ [][PaymentNext]_payVars

\* Open transactions keep running, and the database breaks circular waits.
ApprovalStep(a) ==
    (CreditDepositor(a) \/ CommitApproval(a)) /\ UNCHANGED <<transferVars, withdrawalVars>>

PaymentFairness ==
    /\ \A a \in Admin : WF_payVars(ApprovalStep(a))
    /\ \A q \in TrReq :
           WF_payVars(TransferRequestStep(q) /\ UNCHANGED <<depositVars, withdrawalVars>>)
    /\ WF_payVars(DeadlockVictim)

FairPaymentSpec == PaymentSpec /\ PaymentFairness

-----------------------------------------------------------------------------
(* Transfers between players never wait for one another in a circle: every *)
(* circular wait on wallet rows contains an approval that pays a referral. *)
CirclesNeedReferral ==
    \A T \in SUBSET (Admin \union TrReq) : Deadlocked(T) =>
        \E a \in T \intersect Admin : review[a].stage = "credited" /\ review[a].pays

(* No transaction keeps a wallet row for ever, although approvals and      *)
(* transfers can wait for each other: the victim's locks are released and  *)
(* the others go on.                                                       *)
RowsAreReleased ==
    \A u \in User : rowLock[u] # NoTxn ~> rowLock[u] = NoTxn

=============================================================================
