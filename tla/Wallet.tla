------------------------------- MODULE Wallet -------------------------------
(***************************************************************************)
(* The wallet ledger (services/wallet.service.ts).                         *)
(*                                                                         *)
(* A player owns one wallet row with four balances and an append-only list *)
(* of ledger entries.  Every movement of money in the platform goes        *)
(* through moveBalance: one conditional UPDATE that takes the row lock,    *)
(* refuses to overdraw and returns the new balance, followed by one ledger *)
(* row holding the balance before and after.                               *)
(*                                                                         *)
(* The components that move money extend this module.  A transaction that  *)
(* has touched a wallet row keeps its lock until it commits or rolls back; *)
(* rowLock records the holder, and the uncommitted changes appear at the   *)
(* commit.  Amounts are whole numbers of the smallest unit.                *)
(***************************************************************************)
EXTENDS Integers, Sequences

CONSTANTS
    User,       \* the owners of a wallet row
    Txn,        \* the transactions that can hold wallet row locks across steps
    NoTxn,      \* the holder of a free row
    Ref,        \* the entity ids a ledger entry can point to
    NoRef,      \* the entity of an entry that points to none
    Opening,    \* the balances the wallets start with
    CoinRate,   \* wallet.coinConversionRate, as <<numerator, denominator>>
    SpendAmounts, \* the amounts of conversions and admin adjustments
    AdjustBuckets, \* the buckets admins adjust
    MaxPosts    \* bound on the entries that conversions and adjustments append to

VARIABLES
    wallets,    \* "wallets": the four balances of each user
    ledger,     \* "wallet_transactions", by user and bucket in commit order
    rowLock     \* the open transaction that holds each wallet row

walletVars == <<wallets, ledger, rowLock>>

Bucket == {"CASH", "COINS", "WINNING", "BONUS"}

TxType == {"DEPOSIT", "WITHDRAWAL", "WITHDRAWAL_REVERSAL", "REFERRAL_REWARD",
           "COIN_CONVERSION", "ADMIN_CREDIT", "ADMIN_DEBIT", "TRANSFER_SENT",
           "TRANSFER_RECEIVED", "ENTRY_FEE", "ENTRY_REFUND", "WINNING",
           "BONUS_CREDIT"}

Direction == {"CREDIT", "DEBIT"}

Balances == [User -> [Bucket -> Nat]]

Entry == [type : TxType, direction : Direction, amount : Nat \ {0},
          ref : Ref \union {NoRef}, before : Nat, after : Nat]

Move == [user : User, bucket : Bucket, direction : Direction,
         amount : Nat, type : TxType, ref : Ref \union {NoRef}]

ASSUME WalletAssumption ==
    /\ Opening \in Balances
    /\ NoTxn \notin Txn
    /\ NoRef \notin Ref
    /\ CoinRate \in (Nat \ {0}) \X (Nat \ {0})
    /\ SpendAmounts \subseteq Nat \ {0}
    /\ AdjustBuckets \subseteq Bucket
    /\ MaxPosts \in Nat

-----------------------------------------------------------------------------
(***************************************************************************)
(* moveBalance on the pair of tables [bal |-> balances, log |-> ledger].   *)
(* A transaction composes Post once per movement and commits the result.   *)
(***************************************************************************)
Books == [bal |-> wallets, log |-> ledger]

\* The WHERE clause of the UPDATE and the checks before it.
CanMove(bk, m) ==
    /\ m.amount > 0
    /\ m.direction = "DEBIT" => bk.bal[m.user][m.bucket] >= m.amount

NewBalance(bk, m) ==
    IF m.direction = "CREDIT" THEN bk.bal[m.user][m.bucket] + m.amount
                              ELSE bk.bal[m.user][m.bucket] - m.amount

\* Mutant of NewEntry: the balance before is read after the UPDATE.
NewEntryReadLate(bk, m) ==
    [type |-> m.type, direction |-> m.direction, amount |-> m.amount,
     ref |-> m.ref, before |-> NewBalance(bk, m), after |-> NewBalance(bk, m)]

NewEntry(bk, m) ==
    [type |-> m.type, direction |-> m.direction, amount |-> m.amount,
     ref |-> m.ref, before |-> bk.bal[m.user][m.bucket],
     after |-> NewBalance(bk, m)]

Post(bk, m) ==
    [bal |-> [bk.bal EXCEPT ![m.user][m.bucket] = NewBalance(bk, m)],
     log |-> [bk.log EXCEPT ![m.user][m.bucket] = Append(@, NewEntry(bk, m))]]

Commit(bk) ==
    /\ wallets' = bk.bal
    /\ ledger' = bk.log

\* A statement that updates or locks u's wallet row waits until this holds.
RowFree(u, t) == rowLock[u] \in {NoTxn, t}

Locked(t, us) == [u \in User |-> IF u \in us THEN t ELSE rowLock[u]]

Released(t) == [u \in User |-> IF rowLock[u] = t THEN NoTxn ELSE rowLock[u]]

-----------------------------------------------------------------------------
(***************************************************************************)
(* The operations of a single wallet.  Each is one transaction on one row. *)
(***************************************************************************)
Debit(u, b, a, type, ref) ==
    [user |-> u, bucket |-> b, direction |-> "DEBIT", amount |-> a,
     type |-> type, ref |-> ref]

Credit(u, b, a, type, ref) ==
    [user |-> u, bucket |-> b, direction |-> "CREDIT", amount |-> a,
     type |-> type, ref |-> ref]

CoinsFor(a) == (a * CoinRate[1]) \div CoinRate[2]

\* A conversion whose coins round down to zero is refused by the credit and
\* rolls its debit back.
ConvertCashToCoins(u, a) ==
    LET debit == Debit(u, "CASH", a, "COIN_CONVERSION", NoRef)
        credit == Credit(u, "COINS", CoinsFor(a), "COIN_CONVERSION", NoRef)
    IN  /\ RowFree(u, NoTxn)
        /\ Len(ledger[u]["COINS"]) < MaxPosts
        /\ CanMove(Books, debit)
        /\ CanMove(Post(Books, debit), credit)
        /\ Commit(Post(Post(Books, debit), credit))
        /\ UNCHANGED rowLock

AdjustBalance(u, b, dir, a) ==
    LET m == [user |-> u, bucket |-> b, direction |-> dir, amount |-> a,
              type |-> IF dir = "CREDIT" THEN "ADMIN_CREDIT" ELSE "ADMIN_DEBIT",
              ref |-> NoRef]
    IN  /\ RowFree(u, NoTxn)
        /\ Len(ledger[u][b]) < MaxPosts
        /\ CanMove(Books, m)
        /\ Commit(Post(Books, m))
        /\ UNCHANGED rowLock

WalletStep ==
    \E u \in User, a \in SpendAmounts :
        \/ ConvertCashToCoins(u, a)
        \/ \E b \in AdjustBuckets, dir \in Direction : AdjustBalance(u, b, dir, a)

WalletInit ==
    /\ wallets = Opening
    /\ ledger = [u \in User |-> [b \in Bucket |-> <<>>]]
    /\ rowLock = [u \in User |-> NoTxn]

-----------------------------------------------------------------------------
(***************************************************************************)
(* What every component that moves money keeps true of the books.          *)
(***************************************************************************)
BooksOK(bk) ==
    /\ bk.bal \in Balances
    /\ bk.log \in [User -> [Bucket -> Seq(Entry)]]

WalletTypeOK ==
    /\ BooksOK(Books)
    /\ rowLock \in [User -> Txn \union {NoTxn}]

\* The balance a bucket's entries add up to when they are read in order.
ClosingBalance(bk, u, b) ==
    LET log == bk.log[u][b]
    IN  IF log = <<>> THEN Opening[u][b] ELSE log[Len(log)].after

EntryFollows(e, balance) ==
    /\ e.before = balance
    /\ e.direction = "CREDIT" => e.after = e.before + e.amount
    /\ e.direction = "DEBIT" => e.before = e.after + e.amount

BooksExplained(bk) ==
    \A u \in User, b \in Bucket :
        LET log == bk.log[u][b]
        IN  /\ bk.bal[u][b] = ClosingBalance(bk, u, b)
            /\ \A i \in 1..Len(log) :
                   EntryFollows(log[i], IF i = 1 THEN Opening[u][b]
                                                 ELSE log[i - 1].after)

(* Reading a bucket's ledger in order explains its balance: each entry     *)
(* starts where the previous one ended, changes the balance by its amount, *)
(* and the last one ends at the balance the wallet row holds now.          *)
LedgerExplainsBalance == BooksExplained(Books)

\* The entries of u's bucket b that record a movement of a type for an entity.
EntriesIn(log, u, b, type, ref) ==
    {i \in DOMAIN log[u][b] : log[u][b][i].type = type /\ log[u][b][i].ref = ref}

EntriesFor(u, b, type, ref) == EntriesIn(ledger, u, b, type, ref)

=============================================================================
