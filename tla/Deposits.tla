------------------------------ MODULE Deposits ------------------------------
(***************************************************************************)
(* Manual deposits and the referral reward they trigger                    *)
(* (services/payment.service.ts, services/referral.service.ts).            *)
(*                                                                         *)
(* A player claims a payment by its transaction id (TID).  An admin        *)
(* approves it, which credits CASH and may pay the player's referrer in    *)
(* the same database transaction, or rejects it, or deletes the claim.     *)
(* Requests of several admins, or several clicks of one, run concurrently. *)
(*                                                                         *)
(* Approval is split where other transactions can be seen or waited for:   *)
(* the claim of the deposit row, which also fixes reviewedAt; the credit,  *)
(* which takes the depositor's wallet lock; and the commit, which may      *)
(* first wait for the referrer's wallet.  Deletion reads the status in one *)
(* step and deletes in another, as the code does.                          *)
(***************************************************************************)
EXTENDS Wallet

CONSTANTS
    DepId,          \* deposit row ids; a row's id is never used again
    NoDep,          \* no row
    Tid,            \* payment transaction ids
    Admin,          \* concurrent admin requests on deposits
    DepAmount,      \* deposit amounts between wallet.minDeposit and maxDeposit
    Referrer,       \* who referred a user
    NoUser,         \* the referrer of a user nobody referred
    RewardAmount,   \* rewardAmount stored on the referral row at registration
    MinFirstChoice, \* the values an admin gives referral.minFirstDeposit
    MaxClock        \* bound on the review decisions taken

VARIABLES
    deposits,   \* "deposits": the committed row of each id
    issued,     \* ids already given to a row
    clock,      \* server time, advanced by each reviewedAt taken
    review,     \* what each admin request has read and holds
    reward,     \* the referral row of each user, NONE for an unreferred one
    minFirst    \* the setting referral.minFirstDeposit

depositVars == <<deposits, issued, clock, review, reward, minFirst>>
depVars == <<walletVars, depositVars>>

DepositStatus == {"PENDING", "APPROVED", "REJECTED"}

DepositRow == [user : User, tid : Tid, amount : DepAmount,
               status : DepositStatus, reviewedAt : Nat]

Review == [stage : {"idle", "claimed", "credited", "deleting"},
           dep : DepId \union {NoDep}, stamp : Nat, min : Nat, pays : BOOLEAN]

Idle == [stage |-> "idle", dep |-> NoDep, stamp |-> 0, min |-> 0, pays |-> FALSE]

ASSUME DepositAssumption ==
    /\ NoDep \notin DepId
    /\ DepId \subseteq Ref /\ User \subseteq Ref
    /\ Admin \subseteq Txn
    /\ DepAmount \subseteq Nat \ {0}
    /\ NoUser \notin User
    /\ Referrer \in [User -> User \union {NoUser}]
    /\ \A u \in User : Referrer[u] # u
    /\ RewardAmount \in Nat
    /\ MinFirstChoice \subseteq Nat
    /\ MaxClock \in Nat

Present(d) == deposits[d] # NoDep

\* Mutant of Pending: only a rejection counts as a decision.
NotRejected(d) == Present(d) /\ deposits[d].status # "REJECTED"

Pending(d) == Present(d) /\ deposits[d].status = "PENDING"

\* Mutant of RowClaimed: the claim is given up before the wallet is credited.
RowClaimedUntilCredit(d) ==
    \E a \in Admin : review[a].stage = "claimed" /\ review[a].dep = d

\* The row lock an approval takes with its conditional claim.
RowClaimed(d) ==
    \E a \in Admin : review[a].stage \in {"claimed", "credited"} /\ review[a].dep = d

-----------------------------------------------------------------------------
(***************************************************************************)
(* createDeposit: the unique index on the TID admits one live claim.       *)
(***************************************************************************)
CreateDeposit(u, t, amt) ==
    /\ \A d \in DepId : Present(d) => deposits[d].tid # t
    /\ \E d \in DepId \ issued :
           /\ deposits' = [deposits EXCEPT ![d] =
                  [user |-> u, tid |-> t, amount |-> amt,
                   status |-> "PENDING", reviewedAt |-> 0]]
           /\ issued' = issued \union {d}
    /\ UNCHANGED <<walletVars, clock, review, reward, minFirst>>

\* The claim's UPDATE of a row.
Decided(row, status, at) == [row EXCEPT !.status = status, !.reviewedAt = at]

(***************************************************************************)
(* reviewDeposit.  A rejection touches the deposit row only.               *)
(***************************************************************************)
RejectDeposit(d) ==
    /\ Pending(d)
    /\ ~RowClaimed(d)
    /\ clock < MaxClock
    /\ clock' = clock + 1
    /\ deposits' = [deposits EXCEPT ![d] =
           Decided(@, "REJECTED", clock + 1)]
    /\ UNCHANGED <<walletVars, issued, review, reward, minFirst>>

\* The conditional claim; the status change is not visible before the commit.
ClaimApproval(a, d) ==
    /\ review[a].stage = "idle"
    /\ Pending(d)
    /\ ~RowClaimed(d)
    /\ clock < MaxClock
    /\ clock' = clock + 1
    /\ review' = [review EXCEPT ![a] =
           [stage |-> "claimed", dep |-> d, stamp |-> clock + 1,
            min |-> minFirst, pays |-> FALSE]]
    /\ UNCHANGED <<walletVars, deposits, issued, reward, minFirst>>

\* The approvals a's query sees: the committed ones and its own.
Qualifying(a) ==
    {d \in DepId :
        /\ Present(d)
        /\ deposits[d].user = deposits[review[a].dep].user
        /\ deposits[d].status = "APPROVED" \/ d = review[a].dep
        /\ deposits[d].amount >= review[a].min}

ReviewTime(a, d) == IF d = review[a].dep THEN review[a].stamp
                                         ELSE deposits[d].reviewedAt

\* Mutant of FirstQualifying: the player's first approval of any amount has to
\* be the qualifying one.
FirstOfAnyAmount(a) ==
    /\ review[a].dep \in Qualifying(a)
    /\ \A d \in DepId :
          (/\ Present(d) /\ deposits[d].status = "APPROVED"
           /\ deposits[d].user = deposits[review[a].dep].user) => d = review[a].dep

FirstQualifying(a) ==
    /\ review[a].dep \in Qualifying(a)
    /\ \A d \in Qualifying(a) : ReviewTime(a, review[a].dep) <= ReviewTime(a, d)

\* Mutant of RewardDue: the status of the referral row is not part of the claim.
RewardDueAgain(a) ==
    /\ FirstQualifying(a)
    /\ reward[deposits[review[a].dep].user] # "NONE"

\* creditReferralRewardTx finds a row to settle for the depositor.
RewardDue(a) ==
    /\ FirstQualifying(a)
    /\ reward[deposits[review[a].dep].user] = "PENDING"

CreditDepositor(a) ==
    LET u == deposits[review[a].dep].user
    IN  /\ review[a].stage = "claimed"
        /\ RowFree(u, a)
        /\ rowLock' = Locked(a, {u})
        /\ review' = [review EXCEPT ![a].stage = "credited",
                                    ![a].pays = RewardDue(a)]
        /\ UNCHANGED <<wallets, ledger, deposits, issued, clock, reward, minFirst>>

DepositCredit(d) ==
    Credit(deposits[d].user, "CASH", deposits[d].amount, "DEPOSIT", d)

RewardCredit(u) ==
    Credit(Referrer[u], "BONUS", RewardAmount, "REFERRAL_REWARD", u)

CommitApproval(a) ==
    LET d == review[a].dep
        u == deposits[d].user
        credited == Post(Books, DepositCredit(d))
        rewards == review[a].pays /\ RewardAmount > 0
    IN  /\ review[a].stage = "credited"
        /\ rewards => RowFree(Referrer[u], a)
        /\ Commit(IF rewards THEN Post(credited, RewardCredit(u)) ELSE credited)
        /\ reward' = IF ~review[a].pays THEN reward
                     ELSE [reward EXCEPT ![u] = IF RewardAmount > 0 THEN "CREDITED"
                                                                   ELSE "REJECTED"]
        /\ deposits' = [deposits EXCEPT ![d] =
               Decided(@, "APPROVED", review[a].stamp)]
        /\ review' = [review EXCEPT ![a] = Idle]
        /\ rowLock' = Released(a)
        /\ UNCHANGED <<issued, clock, minFirst>>

\* Mutant of AbortApproval: the rollback leaves the row locks behind.
AbortKeepsRows(a) ==
    /\ review[a].stage \in {"claimed", "credited"}
    /\ review' = [review EXCEPT ![a] = Idle]
    /\ UNCHANGED <<walletVars, deposits, issued, clock, reward, minFirst>>

\* A database error, a deadlock victim or a dead server process rolls the
\* open transaction back.  The retry of withIdempotentRetry, like a new click,
\* is another ClaimApproval.
AbortApproval(a) ==
    /\ review[a].stage \in {"claimed", "credited"}
    /\ review' = [review EXCEPT ![a] = Idle]
    /\ rowLock' = Released(a)
    /\ UNCHANGED <<wallets, ledger, deposits, issued, clock, reward, minFirst>>

(***************************************************************************)
(* deleteDeposit: the status is checked outside the transaction that       *)
(* deletes the row by its id.                                              *)
(***************************************************************************)
BeginDelete(a, d) ==
    /\ review[a].stage = "idle"
    /\ Present(d)
    /\ deposits[d].status # "APPROVED"
    /\ review' = [review EXCEPT ![a] = [Idle EXCEPT !.stage = "deleting", !.dep = d]]
    /\ UNCHANGED <<walletVars, deposits, issued, clock, reward, minFirst>>

\* A row that is gone fails the delete and changes nothing.
EndDelete(a) ==
    /\ review[a].stage = "deleting"
    /\ ~RowClaimed(review[a].dep)
    /\ deposits' = [deposits EXCEPT ![review[a].dep] = NoDep]
    /\ review' = [review EXCEPT ![a] = Idle]
    /\ UNCHANGED <<walletVars, issued, clock, reward, minFirst>>

SetReferralMin(m) ==
    /\ minFirst' = m
    /\ UNCHANGED <<walletVars, deposits, issued, clock, review, reward>>

-----------------------------------------------------------------------------
DepositInit ==
    /\ WalletInit
    /\ deposits = [d \in DepId |-> NoDep]
    /\ issued = {}
    /\ clock = 0
    /\ review = [a \in Admin |-> Idle]
    /\ reward = [u \in User |-> IF Referrer[u] = NoUser THEN "NONE" ELSE "PENDING"]
    /\ minFirst \in MinFirstChoice

DepositStep ==
    \/ \E u \in User, t \in Tid, amt \in DepAmount : CreateDeposit(u, t, amt)
    \/ \E d \in DepId : RejectDeposit(d)
    \/ \E a \in Admin, d \in DepId : ClaimApproval(a, d) \/ BeginDelete(a, d)
    \/ \E a \in Admin :
           \/ CreditDepositor(a) \/ CommitApproval(a)
           \/ AbortApproval(a) \/ EndDelete(a)
    \/ \E m \in MinFirstChoice : SetReferralMin(m)

DepositNext ==
    \/ DepositStep
    \/ \E u \in User, a \in SpendAmounts : ConvertCashToCoins(u, a) /\ UNCHANGED depositVars

DepositSpec == DepositInit /\ [][DepositNext]_depVars

-----------------------------------------------------------------------------
(* The tables keep their types; balances and amounts are natural numbers,  *)
(* so no wallet is ever overdrawn.                                         *)
DepositTypeOK ==
    /\ WalletTypeOK
    /\ deposits \in [DepId -> DepositRow \union {NoDep}]
    /\ issued \subseteq DepId
    /\ clock \in Nat
    /\ review \in [Admin -> Review]
    /\ reward \in [User -> {"NONE", "PENDING", "CREDITED", "REJECTED"}]
    /\ minFirst \in Nat

\* The deposit credits the ledger holds for row d in u's CASH bucket.
CreditsFor(u, d) == EntriesFor(u, "CASH", "DEPOSIT", d)

(* However reviews, retries and deletions of a row interleave, the ledger  *)
(* credits a deposit row at most once, and while the row exists it is      *)
(* credited, with its own amount, exactly when its status is APPROVED.     *)
CreditedOncePerRow ==
    \A d \in DepId :
        /\ \A u, v \in User : \A i \in CreditsFor(u, d), j \in CreditsFor(v, d) :
               u = v /\ i = j
        /\ Present(d) =>
              ((deposits[d].status = "APPROVED")
                  <=> (\E i \in CreditsFor(deposits[d].user, d) :
                         ledger[deposits[d].user]["CASH"][i].amount = deposits[d].amount))

\* The reward credits the ledger holds for the referral of user u.
RewardsFor(u) == EntriesFor(Referrer[u], "BONUS", "REFERRAL_REWARD", u)

(* Two approvals for one player may race, each unable to see the other:    *)
(* the referrer is still paid exactly once for a settled referral and not  *)
(* at all before, and never without a deposit of that player in the ledger.*)
RewardPaidOnce ==
    \A u \in User : Referrer[u] # NoUser =>
        /\ \A i, j \in RewardsFor(u) : i = j
        /\ (RewardsFor(u) # {}) <=> (reward[u] = "CREDITED")
        /\ RewardsFor(u) # {} => \E d \in DepId : CreditsFor(u, d) # {}

(* A decision on a deposit is final: an approved or rejected row keeps its *)
(* decision, amount and review time for as long as it exists.              *)
DecisionsAreFinal ==
    [][\A d \in DepId :
          (Present(d) /\ deposits[d].status # "PENDING" /\ Present(d)')
              => deposits'[d] = deposits[d]]_depVars

(* With a constant referral.minFirstDeposit a reward is never forgotten:   *)
(* once a deposit that reaches the minimum is approved, the referral of    *)
(* its player is settled, whichever of two racing approvals commits first. *)
RewardNotForgotten ==
    \A d \in DepId :
        (Present(d) /\ deposits[d].status = "APPROVED" /\ deposits[d].amount >= minFirst)
            => reward[deposits[d].user] # "PENDING"

=============================================================================
