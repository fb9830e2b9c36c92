----------------------------- MODULE Transfers ------------------------------
(***************************************************************************)
(* Wallet transfers between players (services/transfer.service.ts).        *)
(*                                                                         *)
(* A request carries a client key and is retried on transient errors, even *)
(* after a commit whose response was lost.  Its transaction locks the two  *)
(* wallet rows in user-id order, and only then looks the key up, sums what *)
(* the sender sent today, and moves the money.                             *)
(*                                                                         *)
(* The two row locks are separate steps, so that lock waits show; the      *)
(* midnight that may pass between reading today's total and writing the    *)
(* row shows as a NextDay between the two steps that do so.                *)
(***************************************************************************)
EXTENDS Wallet, FiniteSets, FiniteSetsExt

CONSTANTS
    TrReq,       \* concurrent transfer requests
    TrKey,       \* client request ids
    TrAmount,    \* amounts between wallet.transferMin and transferMax
    DailyLimit,  \* wallet.transferDailyLimit
    UserOrder,   \* the order of user ids in the database
    TrAttempts,  \* attempts of withIdempotentRetry
    Moderated,   \* the users whose status admins change
    MaxDay       \* bound on the days that pass

VARIABLES
    transfers,  \* "wallet_transfers": the committed rows
    treq,       \* the progress of each request
    active,     \* the users whose status is ACTIVE
    today       \* the server's date

transferVars == <<transfers, treq, active, today>>
trVars == <<walletVars, transferVars>>

TrRow == [sender : User, recipient : User, amount : TrAmount, key : TrKey,
          day : Nat, sentAt : Nat, receivedAt : Nat]

TrRequest == [stage : {"new", "preflight", "lock", "lockSecond", "read", "move", "done"},
              sender : User, recipient : User, amount : TrAmount, key : TrKey,
              attempt : 0..TrAttempts, sent : Nat,
              answer : {"none", "sent", "replayed", "conflict", "refused", "limit",
                        "insufficient", "busy"}]

ASSUME TransferAssumption ==
    /\ TrReq \subseteq Txn
    /\ TrAmount \subseteq Nat \ {0}
    /\ DailyLimit \in Nat
    /\ UserOrder \in [User -> Nat]
    /\ \A u, v \in User : u # v => UserOrder[u] # UserOrder[v]
    /\ TrAttempts \in Nat \ {0}
    /\ Moderated \subseteq User
    /\ MaxDay \in Nat

\* Mutant of RowsOfKey: the index and the lookup include the amount.
RowsOfKeyAndAmount(q) ==
    {r \in transfers : /\ r.sender = treq[q].sender /\ r.key = treq[q].key
                       /\ r.amount = treq[q].amount}

RowsOfKey(q) ==
    {r \in transfers : r.sender = treq[q].sender /\ r.key = treq[q].key}

Total(rows) == MapThenSumSet(LAMBDA r : r.amount, rows)

SentSince(u, day) == Total({r \in transfers : r.sender = u /\ r.day >= day})

-----------------------------------------------------------------------------
SubmitTransfer(q) ==
    /\ treq[q].stage = "new"
    /\ treq' = [treq EXCEPT ![q].stage = "preflight", ![q].attempt = 1]
    /\ UNCHANGED <<walletVars, transfers, active, today>>

\* The end of a request; its transaction, if one is open, is over.
Reply(q, answer) ==
    /\ treq' = [treq EXCEPT ![q].stage = "done", ![q].answer = answer]
    /\ rowLock' = Released(q)

Goto(q, stage) == treq' = [treq EXCEPT ![q].stage = stage]

\* The checks made before the transaction; the accounts can change after it.
Preflight(q) ==
    LET r == treq[q]
    IN  /\ r.stage = "preflight"
        /\ IF r.sender # r.recipient /\ {r.sender, r.recipient} \subseteq active
           THEN Goto(q, "lock") /\ UNCHANGED rowLock
           ELSE Reply(q, "refused")
        /\ UNCHANGED <<wallets, ledger, transfers, active, today>>

\* Mutant of FirstRow: the sender's row is locked first.
SenderFirst(q) == treq[q].sender

FirstRow(q) ==
    IF UserOrder[treq[q].sender] < UserOrder[treq[q].recipient]
    THEN treq[q].sender ELSE treq[q].recipient

SecondRow(q) ==
    IF FirstRow(q) = treq[q].sender THEN treq[q].recipient ELSE treq[q].sender

\* Mutant of LockRow: a plain SELECT, without FOR UPDATE.
ReadRowUnlocked(q, u) == UNCHANGED <<walletVars, transfers, active, today>>

\* SELECT ... ORDER BY "userId" FOR UPDATE
LockRow(q, u) ==
    /\ RowFree(u, q)
    /\ rowLock' = Locked(q, {u})
    /\ UNCHANGED <<wallets, ledger, transfers, active, today>>

LockFirst(q) ==
    treq[q].stage = "lock" /\ LockRow(q, FirstRow(q)) /\ Goto(q, "lockSecond")

LockSecond(q) ==
    treq[q].stage = "lockSecond" /\ LockRow(q, SecondRow(q)) /\ Goto(q, "read")

\* Mutant of SameTransfer: a replay does not compare the amounts.
SameRecipient(q, r) == r.recipient = treq[q].recipient

SameTransfer(q, r) == r.recipient = treq[q].recipient /\ r.amount = treq[q].amount

\* Mutant of ReadUnderLock: the daily limit comes before the replay lookup.
ReadLimitFirst(q) ==
    LET over == SentSince(treq[q].sender, today) + treq[q].amount > DailyLimit
    IN  /\ treq[q].stage = "read"
        /\ \/ over /\ Reply(q, "limit")
           \/ ~over /\ \E r \in RowsOfKey(q) :
                  Reply(q, IF SameTransfer(q, r) THEN "replayed" ELSE "conflict")
           \/ ~over /\ RowsOfKey(q) = {} /\ Goto(q, "move") /\ UNCHANGED rowLock
        /\ UNCHANGED <<wallets, ledger, transfers, active, today>>

\* The replay lookup, then the daily limit.
ReadUnderLock(q) ==
    LET sent == SentSince(treq[q].sender, today)
    IN  /\ treq[q].stage = "read"
        /\ \/ \E r \in RowsOfKey(q) :
                  Reply(q, IF SameTransfer(q, r) THEN "replayed" ELSE "conflict")
           \/ /\ RowsOfKey(q) = {}
              /\ sent + treq[q].amount > DailyLimit
              /\ Reply(q, "limit")
           \/ /\ RowsOfKey(q) = {}
              /\ sent + treq[q].amount <= DailyLimit
              /\ treq' = [treq EXCEPT ![q].stage = "move", ![q].sent = sent]
              /\ UNCHANGED rowLock
        /\ UNCHANGED <<wallets, ledger, transfers, active, today>>

SendDebit(q) == Debit(treq[q].sender, "CASH", treq[q].amount, "TRANSFER_SENT", NoRef)
ReceiveCredit(q) ==
    Credit(treq[q].recipient, "CASH", treq[q].amount, "TRANSFER_RECEIVED", NoRef)

\* The two movements and the row that names their ledger entries.  The row's
\* createdAt is taken now.
MoveMoney(q) ==
    LET r == treq[q]
        paid == Post(Books, SendDebit(q))
    IN  /\ r.stage = "move"
        /\ CanMove(Books, SendDebit(q))
        /\ RowsOfKey(q) = {}
        /\ Commit(Post(paid, ReceiveCredit(q)))
        /\ transfers' = transfers \union
               {[sender |-> r.sender, recipient |-> r.recipient, amount |-> r.amount,
                 key |-> r.key, day |-> today,
                 sentAt |-> Len(ledger[r.sender]["CASH"]) + 1,
                 receivedAt |-> Len(ledger[r.recipient]["CASH"]) + 1]}
        /\ UNCHANGED <<active, today>>

\* withIdempotentRetry: the attempt's transaction is over, its locks are gone.
RetryTransfer(q) ==
    IF treq[q].attempt < TrAttempts
    THEN /\ treq' = [treq EXCEPT ![q].stage = "preflight", ![q].attempt = @ + 1,
                                 ![q].sent = 0]
         /\ rowLock' = Released(q)
    ELSE Reply(q, "busy")

MoveAndCommit(q) == MoveMoney(q) /\ Reply(q, "sent")

\* The commit succeeds but its response is lost with the connection.
TransferResponseLost(q) == MoveMoney(q) /\ RetryTransfer(q)

RefuseOverdraft(q) ==
    /\ treq[q].stage = "move"
    /\ ~CanMove(Books, SendDebit(q))
    /\ Reply(q, "insufficient")
    /\ UNCHANGED <<wallets, ledger, transfers, active, today>>

Running(q) == treq[q].stage \in {"preflight", "lock", "lockSecond", "read", "move"}

\* A transient error before the commit, a deadlock victim among them.
TransferFails(q) ==
    /\ Running(q)
    /\ RetryTransfer(q)
    /\ UNCHANGED <<wallets, ledger, transfers, active, today>>

\* The server process dies; an open transaction rolls back, no answer is sent.
TransferDies(q) ==
    /\ Running(q)
    /\ Reply(q, "none")
    /\ UNCHANGED <<wallets, ledger, transfers, active, today>>

-----------------------------------------------------------------------------
\* setUserStatus, as far as transfers see it.
SetUserStatus(u) ==
    /\ active' = IF u \in active THEN active \ {u} ELSE active \union {u}
    /\ UNCHANGED <<walletVars, transfers, treq, today>>

NextDay ==
    /\ today < MaxDay
    /\ today' = today + 1
    /\ UNCHANGED <<walletVars, transfers, treq, active>>

TransferInit ==
    /\ WalletInit
    /\ transfers = {}
    /\ treq \in [TrReq ->
           [stage : {"new"}, sender : User, recipient : User, amount : TrAmount,
            key : TrKey, attempt : {0}, sent : {0}, answer : {"none"}]]
    /\ active = User
    /\ today = 0

TransferRequestStep(q) ==
    \/ Preflight(q) \/ LockFirst(q) \/ LockSecond(q) \/ ReadUnderLock(q)
    \/ MoveAndCommit(q) \/ RefuseOverdraft(q)

TransferStep ==
    \/ \E q \in TrReq :
           \/ SubmitTransfer(q) \/ TransferRequestStep(q)
           \/ TransferResponseLost(q) \/ TransferFails(q) \/ TransferDies(q)
    \/ \E u \in Moderated : SetUserStatus(u)
    \/ NextDay

TransferNext ==
    \/ TransferStep
    \/ WalletStep /\ UNCHANGED transferVars

TransferSpec == TransferInit /\ [][TransferNext]_trVars

-----------------------------------------------------------------------------
(* Types; no transfer, conversion or adjustment overdraws a wallet.        *)
TransferTypeOK ==
    /\ WalletTypeOK
    /\ transfers \subseteq TrRow
    /\ treq \in [TrReq -> TrRequest]
    /\ active \subseteq User
    /\ today \in Nat

(* No player sends more than the daily limit on one day, with requests in  *)
(* parallel, retries, and transfers that straddle midnight.                *)
DailyLimitKept ==
    \A u \in User, day \in 0..MaxDay :
        Total({r \in transfers : r.sender = u /\ r.day = day}) <= DailyLimit

(* A sender's request id moves money at most once, although every attempt  *)
(* of every request that carries it may run, fail, or commit unheard.      *)
KeyPaysOnce ==
    \A r, s \in transfers : r.sender = s.sender /\ r.key = s.key => r = s

(* What a sender is told is true: "sent" and "replayed" have a row with the*)
(* request's own recipient and amount, "conflict" one that differs.        *)
TransferAnswersAreTrue ==
    \A q \in TrReq :
        LET same(r) == /\ r.sender = treq[q].sender /\ r.key = treq[q].key
                       /\ r.recipient = treq[q].recipient /\ r.amount = treq[q].amount
        IN  /\ treq[q].answer \in {"sent", "replayed"} => \E r \in transfers : same(r)
            /\ treq[q].answer = "conflict" =>
                   \E r \in transfers : /\ r.sender = treq[q].sender
                                        /\ r.key = treq[q].key /\ ~same(r)

=============================================================================
