----------------------------- MODULE Withdrawals ----------------------------
(***************************************************************************)
(* Withdrawals (services/payment.service.ts) and the retry discipline of   *)
(* lib/tx-conflict.ts around them.                                         *)
(*                                                                         *)
(* A request holds its amount by debiting CASH and then WINNING, in the    *)
(* transaction that creates the row.  With a client key it is retried on   *)
(* a transient error, even one that hides a commit, and a key already used *)
(* replays the original row; without a key it is never retried.  Admins    *)
(* move the row along the payout chain; a rejection or the player's own    *)
(* cancellation returns the held parts.                                    *)
(*                                                                         *)
(* A request is split where other transactions can interleave: the replay  *)
(* lookup outside the transaction, the insert followed by the unlocked     *)
(* read of the balances, and the debits.  The first debit takes the wallet *)
(* lock, so everything from there to the commit is one step.               *)
(***************************************************************************)
EXTENDS Wallet, FiniteSets

CONSTANTS
    WdId,        \* withdrawal row ids
    NoWd,        \* no row
    WdReq,       \* concurrent withdrawal requests
    WdKey,       \* client idempotency keys
    NoKey,       \* a request without one
    WdAmount,    \* amounts of at least wallet.minWithdrawal
    MaxAttempts  \* attempts of withIdempotentRetry

VARIABLES
    withdrawals,  \* "withdrawals": the committed row of each id
    wreq          \* the progress of each request

withdrawalVars == <<withdrawals, wreq>>
wdVars == <<walletVars, withdrawalVars>>

WdStatus == {"PENDING", "APPROVED", "PROCESSING", "PAID", "REJECTED", "CANCELLED"}

WdRow == [user : User, key : WdKey \union {NoKey}, amount : WdAmount,
          status : WdStatus]

Answer == {"none", "created", "replayed", "insufficient", "conflict", "busy"}

WdRequest == [stage : {"new", "lookup", "insert", "debit", "done"},
              user : User, key : WdKey \union {NoKey}, amount : WdAmount,
              attempt : 0..MaxAttempts, cash : Nat, winning : Nat,
              answer : Answer]

ASSUME WithdrawalAssumption ==
    /\ WdId \subseteq Ref
    /\ NoWd \notin WdId \union WdRow
    /\ NoKey \notin WdKey
    /\ WdAmount \subseteq Nat \ {0}
    /\ MaxAttempts \in Nat \ {0}

WdPresent(w) == withdrawals[w] # NoWd

\* The committed rows that a (userId, requestId) lookup finds.
RowsWithKey(u, k) ==
    {w \in WdId : /\ WdPresent(w) /\ withdrawals[w].user = u
                  /\ withdrawals[w].key = k /\ k # NoKey}

-----------------------------------------------------------------------------
(***************************************************************************)
(* requestWithdrawal                                                       *)
(***************************************************************************)
SubmitWithdrawal(q) ==
    /\ wreq[q].stage = "new"
    /\ wreq' = [wreq EXCEPT ![q].stage = "lookup", ![q].attempt = 1]
    /\ UNCHANGED <<walletVars, withdrawals>>

Finish(q, answer) ==
    wreq' = [wreq EXCEPT ![q].stage = "done", ![q].answer = answer]

\* Mutant of Replay: the amount of the original row is not compared.
ReplayAnyAmount(q, w) == Finish(q, "replayed")

\* A key that is bound to a row answers with it, or refuses another amount.
Replay(q, w) ==
    Finish(q, IF withdrawals[w].amount = wreq[q].amount THEN "replayed" ELSE "conflict")

LookupKey(q) ==
    LET rows == RowsWithKey(wreq[q].user, wreq[q].key)
    IN  /\ wreq[q].stage = "lookup"
        /\ \/ /\ rows = {}
              /\ wreq' = [wreq EXCEPT ![q].stage = "insert"]
           \/ \E w \in rows : Replay(q, w)
        /\ UNCHANGED <<walletVars, withdrawals>>

\* An open transaction holds its unique key; another insert of it waits.
KeyHeld(q) ==
    \E p \in WdReq \ {q} :
        /\ wreq[p].stage = "debit"
        /\ wreq[p].key # NoKey
        /\ wreq[p].key = wreq[q].key /\ wreq[p].user = wreq[q].user

\* The insert, then the wallet read that decides how the amount is split; a
\* key collision rolls back, reads the winning row and replays it.
InsertAndRead(q) ==
    LET u == wreq[q].user
        rows == RowsWithKey(u, wreq[q].key)
    IN  /\ wreq[q].stage = "insert"
        /\ ~KeyHeld(q)
        /\ \/ /\ rows = {}
              /\ wreq' = [wreq EXCEPT ![q].stage = "debit",
                                      ![q].cash = wallets[u]["CASH"],
                                      ![q].winning = wallets[u]["WINNING"]]
           \/ \E w \in rows : Replay(q, w)
        /\ UNCHANGED <<walletVars, withdrawals>>

Least(a, b) == IF a < b THEN a ELSE b

CashTake(q) == Least(wreq[q].cash, wreq[q].amount)
WinningTake(q) == Least(wreq[q].winning, wreq[q].amount - CashTake(q))

\* Post a movement whose amount may be zero, which the code skips.
PostSome(bk, m) == IF m.amount = 0 THEN bk ELSE Post(bk, m)

HoldCash(q, w) == Debit(wreq[q].user, "CASH", CashTake(q), "WITHDRAWAL", w)
HoldWinning(q, w) == Debit(wreq[q].user, "WINNING", WinningTake(q), "WITHDRAWAL", w)

\* The split covers the amount and neither bucket has dropped below its part.
Affordable(q) ==
    /\ CashTake(q) + WinningTake(q) = wreq[q].amount
    /\ wallets[wreq[q].user]["CASH"] >= CashTake(q)
    /\ wallets[wreq[q].user]["WINNING"] >= WinningTake(q)

HoldAndInsert(q, w) ==
    /\ wreq[q].stage = "debit"
    /\ RowFree(wreq[q].user, NoTxn)
    /\ Affordable(q)
    /\ Commit(PostSome(PostSome(Books, HoldCash(q, w)), HoldWinning(q, w)))
    /\ withdrawals' = [withdrawals EXCEPT ![w] =
           [user |-> wreq[q].user, key |-> wreq[q].key,
            amount |-> wreq[q].amount, status |-> "PENDING"]]
    /\ UNCHANGED rowLock

\* Mutant of RetryOrGiveUp: attempts are not counted.
RetryForever(q) ==
    IF wreq[q].key # NoKey THEN wreq' = [wreq EXCEPT ![q].stage = "lookup"]
                           ELSE Finish(q, "busy")

\* withIdempotentRetry / withoutBlindRetry after a transient error.
RetryOrGiveUp(q) ==
    IF wreq[q].key # NoKey /\ wreq[q].attempt < MaxAttempts
    THEN wreq' = [wreq EXCEPT ![q].stage = "lookup", ![q].attempt = @ + 1,
                              ![q].cash = 0, ![q].winning = 0]
    ELSE Finish(q, "busy")

DebitAndCommit(q) ==
    \E w \in WdId : ~WdPresent(w) /\ HoldAndInsert(q, w) /\ Finish(q, "created")

\* The commit succeeds but its response is lost with the connection.
CommitResponseLost(q) ==
    \E w \in WdId : ~WdPresent(w) /\ HoldAndInsert(q, w) /\ RetryOrGiveUp(q)

\* A debit that does not fit rolls the whole request back, row included.
RefuseInsufficient(q) ==
    /\ wreq[q].stage = "debit"
    /\ RowFree(wreq[q].user, NoTxn)
    /\ ~Affordable(q)
    /\ Finish(q, "insufficient")
    /\ UNCHANGED <<walletVars, withdrawals>>

\* A transient error before the commit: nothing was written.
AttemptFails(q) ==
    /\ wreq[q].stage \in {"lookup", "insert", "debit"}
    /\ RetryOrGiveUp(q)
    /\ UNCHANGED <<walletVars, withdrawals>>

\* The server process dies; an open transaction rolls back, no answer is sent.
RequestDies(q) ==
    /\ wreq[q].stage \in {"lookup", "insert", "debit"}
    /\ Finish(q, "none")
    /\ UNCHANGED <<walletVars, withdrawals>>

-----------------------------------------------------------------------------
(***************************************************************************)
(* cancelWithdrawal and reviewWithdrawal: each claims the row by its       *)
(* status, so of two racing decisions one finds it changed and stops.      *)
(***************************************************************************)
HeldIn(w, b) ==
    LET u == withdrawals[w].user
        held == EntriesFor(u, b, "WITHDRAWAL", w)
    IN  IF held = {} THEN 0 ELSE ledger[u][b][CHOOSE i \in held : TRUE].amount

\* Mutant of ReturnTo: the whole amount goes back to WINNING.
ReturnToWinning(w, b) ==
    Credit(withdrawals[w].user, b, IF b = "WINNING" THEN withdrawals[w].amount ELSE 0,
           "WITHDRAWAL_REVERSAL", w)

\* What goes back to a bucket: what it was debited, or, for a row with no
\* debit entries, the whole amount to WINNING.
ReturnTo(w, b) ==
    LET noDebits == HeldIn(w, "CASH") = 0 /\ HeldIn(w, "WINNING") = 0
        amt == IF noDebits /\ b = "WINNING" THEN withdrawals[w].amount ELSE HeldIn(w, b)
    IN  Credit(withdrawals[w].user, b, amt, "WITHDRAWAL_REVERSAL", w)

ReverseHold(w) ==
    /\ RowFree(withdrawals[w].user, NoTxn)
    /\ Commit(PostSome(PostSome(Books, ReturnTo(w, "CASH")), ReturnTo(w, "WINNING")))
    /\ UNCHANGED rowLock

CancelWithdrawal(w) ==
    /\ WdPresent(w)
    /\ withdrawals[w].status = "PENDING"
    /\ ReverseHold(w)
    /\ withdrawals' = [withdrawals EXCEPT ![w].status = "CANCELLED"]
    /\ UNCHANGED wreq

\* Mutant of FlowFrom: a payout can still be rejected.
FlowFromPaid ==
    [APPROVE |-> {"PENDING"}, PROCESS |-> {"APPROVED"}, PAID |-> {"PROCESSING"},
     REJECT |-> {"PENDING", "APPROVED", "PROCESSING", "PAID"}]

\* WITHDRAWAL_FLOW
FlowFrom == [APPROVE |-> {"PENDING"}, PROCESS |-> {"APPROVED"},
             PAID |-> {"PROCESSING"}, REJECT |-> {"PENDING", "APPROVED", "PROCESSING"}]
FlowTo == [APPROVE |-> "APPROVED", PROCESS |-> "PROCESSING",
           PAID |-> "PAID", REJECT |-> "REJECTED"]

ReviewWithdrawal(w, action) ==
    /\ WdPresent(w)
    /\ withdrawals[w].status \in FlowFrom[action]
    /\ IF action = "REJECT" THEN ReverseHold(w) ELSE UNCHANGED walletVars
    /\ withdrawals' = [withdrawals EXCEPT ![w].status = FlowTo[action]]
    /\ UNCHANGED wreq

-----------------------------------------------------------------------------
WithdrawalInit ==
    /\ WalletInit
    /\ withdrawals = [w \in WdId |-> NoWd]
    /\ wreq \in [WdReq ->
           [stage : {"new"}, user : User, key : WdKey \union {NoKey}, amount : WdAmount,
            attempt : {0}, cash : {0}, winning : {0}, answer : {"none"}]]

RequestStep(q) ==
    \/ LookupKey(q) \/ InsertAndRead(q)
    \/ DebitAndCommit(q) \/ RefuseInsufficient(q)

WithdrawalStep ==
    \/ \E q \in WdReq :
           \/ SubmitWithdrawal(q) \/ RequestStep(q) \/ CommitResponseLost(q)
           \/ AttemptFails(q) \/ RequestDies(q)
    \/ \E w \in WdId :
           CancelWithdrawal(w) \/ \E action \in DOMAIN FlowFrom : ReviewWithdrawal(w, action)

WithdrawalNext ==
    \/ WithdrawalStep
    \/ WalletStep /\ UNCHANGED withdrawalVars

WithdrawalSpec == WithdrawalInit /\ [][WithdrawalNext]_wdVars

\* A started request keeps running: Node schedules every pending continuation
\* and the database answers every statement; errors may or may not happen.
FairWithdrawalSpec ==
    WithdrawalSpec /\ \A q \in WdReq : WF_wdVars(RequestStep(q))

-----------------------------------------------------------------------------
(* Types; in particular no request, conversion or adjustment overdraws.    *)
WithdrawalTypeOK ==
    /\ WalletTypeOK
    /\ withdrawals \in [WdId -> WdRow \union {NoWd}]
    /\ wreq \in [WdReq -> WdRequest]

ReturnedIn(w, b) ==
    EntriesFor(withdrawals[w].user, b, "WITHDRAWAL_REVERSAL", w)

(* The money of a withdrawal is held once and given back once: the debits  *)
(* of a row add up to its amount, and each debited bucket has one reversal *)
(* of the same size exactly when the row is rejected or cancelled, whoever *)
(* decided it and however the hold was split.                              *)
HoldMatchesStatus ==
    \A w \in WdId : WdPresent(w) =>
        LET u == withdrawals[w].user
            back == withdrawals[w].status \in {"REJECTED", "CANCELLED"}
        IN  /\ HeldIn(w, "CASH") + HeldIn(w, "WINNING") = withdrawals[w].amount
            /\ \A b \in Bucket :
                  /\ Cardinality(EntriesFor(u, b, "WITHDRAWAL", w)) <= 1
                  /\ Cardinality(ReturnedIn(w, b)) = IF back /\ HeldIn(w, b) > 0 THEN 1 ELSE 0
                  /\ \A i \in ReturnedIn(w, b) : ledger[u][b][i].amount = HeldIn(w, b)

(* What a player is told is true: a request answered "created" or          *)
(* "replayed" has a row of its user, key and amount, and one answered      *)
(* "conflict" shares its key with a row of another amount.                 *)
AnswersAreTrue ==
    \A q \in WdReq :
        LET r == wreq[q]
            mine == {w \in WdId : /\ WdPresent(w) /\ withdrawals[w].user = r.user
                                 /\ withdrawals[w].key = r.key}
        IN  /\ r.answer \in {"created", "replayed"} =>
                   \E w \in mine : withdrawals[w].amount = r.amount
            /\ r.answer = "conflict" => \E w \in mine : withdrawals[w].amount # r.amount

(* Every submitted request ends: retries are bounded and no request waits  *)
(* forever for a key or a wallet row.                                      *)
RequestsEnd ==
    \A q \in WdReq : (wreq[q].stage # "new") ~> (wreq[q].stage = "done")

=============================================================================
