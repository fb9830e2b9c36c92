---------------------------- MODULE WalletProofs ----------------------------
(***************************************************************************)
(* What moveBalance does to the books, whoever calls it: the facts that    *)
(* the proofs about the components rest on.                                *)
(***************************************************************************)
EXTENDS Wallet, TLAPS

\* A movement that its checks let through has the new balance the row gets:
\* a natural number, so no bucket goes below zero.
LEMMA NewBalanceType ==
    ASSUME NEW bk, BooksOK(bk), NEW m \in Move, CanMove(bk, m)
    PROVE  /\ bk.bal[m.user][m.bucket] \in Nat
           /\ m.amount \in Nat \ {0}
           /\ NewBalance(bk, m) \in Nat
           /\ m.direction = "CREDIT" =>
                 NewBalance(bk, m) = bk.bal[m.user][m.bucket] + m.amount
           /\ m.direction = "DEBIT" =>
                 bk.bal[m.user][m.bucket] = NewBalance(bk, m) + m.amount
<1>1. m.user \in User /\ m.bucket \in Bucket /\ m.amount \in Nat /\ m.direction \in Direction
  BY DEF Move
<1>2. bk.bal[m.user][m.bucket] \in Nat
  BY <1>1 DEF BooksOK, Balances
<1>3. m.amount \in Nat \ {0}
  BY <1>1 DEF CanMove
<1>. QED
  BY <1>1, <1>2, <1>3 DEF CanMove, NewBalance, Direction

LEMMA NewEntryType ==
    ASSUME NEW bk, BooksOK(bk), NEW m \in Move, CanMove(bk, m)
    PROVE  /\ NewEntry(bk, m) \in Entry
           /\ NewEntry(bk, m).type = m.type
           /\ NewEntry(bk, m).ref = m.ref
           /\ NewEntry(bk, m).amount = m.amount
           /\ NewEntry(bk, m).after = NewBalance(bk, m)
           /\ EntryFollows(NewEntry(bk, m), bk.bal[m.user][m.bucket])
<1>1. /\ m.type \in TxType /\ m.direction \in Direction
      /\ m.ref \in Ref \union {NoRef}
  BY DEF Move
<1>2. /\ bk.bal[m.user][m.bucket] \in Nat /\ m.amount \in Nat \ {0}
      /\ NewBalance(bk, m) \in Nat
  BY NewBalanceType
<1>3. NewEntry(bk, m) \in Entry
  BY <1>1, <1>2 DEF NewEntry, Entry
<1>. QED
  BY <1>3, NewBalanceType DEF NewEntry, EntryFollows

\* A list with one more entry.
LEMMA OneMore ==
    ASSUME NEW S, NEW s \in Seq(S), NEW e \in S
    PROVE  /\ Append(s, e) \in Seq(S)
           /\ Append(s, e) # <<>>
           /\ Len(s) \in Nat
           /\ DOMAIN s = 1..Len(s)
           /\ Len(Append(s, e)) = Len(s) + 1
           /\ DOMAIN Append(s, e) = (DOMAIN s) \union {Len(s) + 1}
           /\ Len(s) + 1 \notin DOMAIN s
           /\ Append(s, e)[Len(s) + 1] = e
           /\ \A i \in 1..Len(s) : Append(s, e)[i] = s[i]
  OBVIOUS

\* Post touches one bucket of one user and keeps the types of the books.
LEMMA PostBooks ==
    ASSUME NEW bk, BooksOK(bk), NEW m \in Move, CanMove(bk, m)
    PROVE  /\ BooksOK(Post(bk, m))
           /\ Post(bk, m).bal[m.user][m.bucket] = NewBalance(bk, m)
           /\ Post(bk, m).log[m.user][m.bucket] =
                 Append(bk.log[m.user][m.bucket], NewEntry(bk, m))
           /\ \A u \in User, b \in Bucket : (u # m.user \/ b # m.bucket) =>
                 /\ Post(bk, m).bal[u][b] = bk.bal[u][b]
                 /\ Post(bk, m).log[u][b] = bk.log[u][b]
<1>1. m.user \in User /\ m.bucket \in Bucket
  BY DEF Move
<1>2. NewBalance(bk, m) \in Nat /\ NewEntry(bk, m) \in Entry
  BY NewBalanceType, NewEntryType
<1>3. bk.bal \in [User -> [Bucket -> Nat]] /\ bk.log \in [User -> [Bucket -> Seq(Entry)]]
  BY DEF BooksOK, Balances
<1>4. Append(bk.log[m.user][m.bucket], NewEntry(bk, m)) \in Seq(Entry)
  BY <1>1, <1>2, <1>3
<1>5. Post(bk, m).bal = [bk.bal EXCEPT ![m.user][m.bucket] = NewBalance(bk, m)]
  BY DEF Post
<1>6. Post(bk, m).log =
        [bk.log EXCEPT ![m.user][m.bucket] = Append(@, NewEntry(bk, m))]
  BY DEF Post
<1>7. Post(bk, m).bal \in [User -> [Bucket -> Nat]]
  BY <1>1, <1>2, <1>3, <1>5
<1>8. Post(bk, m).log \in [User -> [Bucket -> Seq(Entry)]]
  BY <1>1, <1>3, <1>4, <1>6
<1>9. /\ Post(bk, m).bal[m.user][m.bucket] = NewBalance(bk, m)
      /\ Post(bk, m).log[m.user][m.bucket] =
            Append(bk.log[m.user][m.bucket], NewEntry(bk, m))
  <2>1. Post(bk, m).bal[m.user][m.bucket] = NewBalance(bk, m)
    BY <1>1, <1>3, <1>5
  <2>2. Post(bk, m).log[m.user][m.bucket] = Append(bk.log[m.user][m.bucket], NewEntry(bk, m))
    <3>1. ASSUME NEW f \in [User -> [Bucket -> Seq(Entry)]], NEW u \in User, NEW b \in Bucket, NEW e
          PROVE  [f EXCEPT ![u][b] = Append(@, e)][u][b] = Append(f[u][b], e)
      OBVIOUS
    <3>. DEFINE e == NewEntry(bk, m)
                f == bk.log
    <3>2. f \in [User -> [Bucket -> Seq(Entry)]] /\ m.user \in User /\ m.bucket \in Bucket
      BY <1>1, <1>3
    <3>3. Post(bk, m).log = [f EXCEPT ![m.user][m.bucket] = Append(@, e)]
      BY <1>6
    <3>. HIDE DEF e, f
    <3>4. Post(bk, m).log[m.user][m.bucket] = Append(f[m.user][m.bucket], e)
      BY <3>1, <3>2, <3>3
    <3>. QED
      BY <3>4 DEF e, f
  <2>. QED
    BY <2>1, <2>2
<1>10. ASSUME NEW u \in User, NEW b \in Bucket, u # m.user \/ b # m.bucket
       PROVE  /\ Post(bk, m).bal[u][b] = bk.bal[u][b]
              /\ Post(bk, m).log[u][b] = bk.log[u][b]
  BY <1>1, <1>3, <1>5, <1>6, <1>10
<1>. QED
  BY <1>7, <1>8, <1>9, <1>10 DEF BooksOK, Balances

LEMMA PostElsewhere ==
    ASSUME NEW bk, BooksOK(bk), NEW m \in Move, CanMove(bk, m),
           NEW u \in User, NEW b \in Bucket, u # m.user \/ b # m.bucket
    PROVE  Post(bk, m).log[u][b] = bk.log[u][b] /\ Post(bk, m).bal[u][b] = bk.bal[u][b]
<1>1. \A v \in User, c \in Bucket : (v # m.user \/ c # m.bucket) =>
          /\ Post(bk, m).bal[v][c] = bk.bal[v][c]
          /\ Post(bk, m).log[v][c] = bk.log[v][c]
  BY PostBooks, ZenonT(60)
<1>. QED
  BY <1>1

\* A movement keeps the ledger an explanation of the balances.
LEMMA PostExplained ==
    ASSUME NEW bk, BooksOK(bk), BooksExplained(bk), NEW m \in Move, CanMove(bk, m)
    PROVE  BooksExplained(Post(bk, m))
<1>. DEFINE pk == Post(bk, m)
            e == NewEntry(bk, m)
<1>1. SUFFICES ASSUME NEW u \in User, NEW b \in Bucket
               PROVE  /\ pk.bal[u][b] = ClosingBalance(pk, u, b)
                      /\ \A i \in 1..Len(pk.log[u][b]) :
                            EntryFollows(pk.log[u][b][i],
                                IF i = 1 THEN Opening[u][b] ELSE pk.log[u][b][i - 1].after)
  BY DEF BooksExplained
<1>2. /\ bk.bal[u][b] = ClosingBalance(bk, u, b)
      /\ \A i \in 1..Len(bk.log[u][b]) :
            EntryFollows(bk.log[u][b][i],
                IF i = 1 THEN Opening[u][b] ELSE bk.log[u][b][i - 1].after)
  BY DEF BooksExplained
<1>3. CASE ~(u = m.user /\ b = m.bucket)
  <2>1. pk.bal[u][b] = bk.bal[u][b] /\ pk.log[u][b] = bk.log[u][b]
    BY <1>3, PostBooks, ZenonT(60)
  <2>. QED
    BY <2>1, <1>2 DEF ClosingBalance
<1>4. CASE u = m.user /\ b = m.bucket
  <2>. DEFINE old == bk.log[u][b]
              new == pk.log[u][b]
  <2>1. pk.bal[u][b] = NewBalance(bk, m) /\ new = Append(old, e)
    BY <1>4, PostBooks
  <2>2. old \in Seq(Entry) /\ e \in Entry
    BY NewEntryType DEF BooksOK
  <2>3. /\ Len(new) = Len(old) + 1 /\ Len(old) \in Nat
        /\ new[Len(old) + 1] = e
        /\ \A i \in 1..Len(old) : new[i] = old[i]
    <3>. HIDE DEF old, new, e
    <3>. QED
      BY <2>1, <2>2, OneMore
  <2>4. e.after = NewBalance(bk, m) /\ EntryFollows(e, bk.bal[u][b])
    BY <1>4, NewEntryType
  <2>5. new # <<>>
    BY <2>1, <2>2, OneMore
  <2>6. pk.bal[u][b] = ClosingBalance(pk, u, b)
    BY <2>1, <2>3, <2>4, <2>5 DEF ClosingBalance
  <2>7. ASSUME NEW i \in 1..Len(new)
        PROVE  EntryFollows(new[i], IF i = 1 THEN Opening[u][b] ELSE new[i - 1].after)
    <3>1. CASE i <= Len(old)
      <4>1. i \in 1..Len(old) /\ (i # 1 => i - 1 \in 1..Len(old))
        BY <3>1, <2>3
      <4>2. new[i] = old[i] /\ (i # 1 => new[i - 1] = old[i - 1])
        BY <4>1, <2>3
      <4>. QED
        BY <4>1, <4>2, <1>2
    <3>2. CASE i = Len(old) + 1
      <4>1. new[i] = e
        BY <3>2, <2>3
      <4>2. CASE i = 1
        <5>1. old = <<>>
          BY <4>2, <3>2, <2>2, <2>3
        <5>2. bk.bal[u][b] = Opening[u][b]
          BY <5>1, <1>2 DEF ClosingBalance
        <5>. QED
          BY <4>1, <4>2, <5>2, <2>4
      <4>3. CASE i # 1
        <5>1. old # <<>> /\ i - 1 = Len(old) /\ Len(old) \in 1..Len(old)
          BY <4>3, <3>2, <2>2, <2>3
        <5>2. bk.bal[u][b] = new[i - 1].after
          BY <5>1, <1>2, <2>3 DEF ClosingBalance
        <5>. QED
          BY <4>1, <4>3, <5>2, <2>4
      <4>. QED
        BY <4>2, <4>3
    <3>. QED
      BY <3>1, <3>2, <2>3
  <2>. QED
    BY <2>6, <2>7
<1>. QED
  BY <1>3, <1>4

\* The entries of a type and entity after a movement.
LEMMA PostEntries ==
    ASSUME NEW bk, BooksOK(bk), NEW m \in Move, CanMove(bk, m),
           NEW u \in User, NEW b \in Bucket, NEW type, NEW ref
    PROVE  LET old == EntriesIn(bk.log, u, b, type, ref)
               new == EntriesIn(Post(bk, m).log, u, b, type, ref)
               n == Len(bk.log[u][b]) + 1
           IN  /\ (u = m.user /\ b = m.bucket /\ type = m.type /\ ref = m.ref) =>
                      new = old \union {n} /\ n \notin old
               /\ ~(u = m.user /\ b = m.bucket /\ type = m.type /\ ref = m.ref) => new = old
               /\ \A i \in old : Post(bk, m).log[u][b][i] = bk.log[u][b][i]
               /\ (u = m.user /\ b = m.bucket) => Post(bk, m).log[u][b][n] = NewEntry(bk, m)
<1>. DEFINE lg == bk.log[u][b]
            pg == Post(bk, m).log[u][b]
<1>1. lg \in Seq(Entry) /\ DOMAIN lg = 1..Len(lg) /\ Len(lg) \in Nat
  BY DEF BooksOK
<1>2. CASE ~(u = m.user /\ b = m.bucket)
  <2>1. pg = lg
    BY <1>2, PostBooks, ZenonT(60)
  <2>. QED
    BY <1>2, <2>1 DEF EntriesIn
<1>3. CASE u = m.user /\ b = m.bucket
  <2>. DEFINE n == Len(lg) + 1
              old == EntriesIn(bk.log, u, b, type, ref)
              new == EntriesIn(Post(bk, m).log, u, b, type, ref)
  <2>1. pg = Append(lg, NewEntry(bk, m))
    BY <1>3, PostBooks
  <2>2. NewEntry(bk, m) \in Entry
    BY NewEntryType
  <2>3. /\ DOMAIN pg = DOMAIN lg \union {n}
        /\ n \notin DOMAIN lg
        /\ pg[n] = NewEntry(bk, m)
    <3>. HIDE DEF pg, lg
    <3>. QED
      BY <2>1, <2>2, <1>1, OneMore
  <2>4. \A i \in DOMAIN lg : pg[i] = lg[i]
    <3>. HIDE DEF pg, lg
    <3>. QED
      BY <2>1, <2>2, <1>1, OneMore
  <2>5. pg[n].type = m.type /\ pg[n].ref = m.ref
    BY <2>3, NewEntryType
  <2>6. /\ old = {i \in DOMAIN lg : lg[i].type = type /\ lg[i].ref = ref}
        /\ new = {i \in DOMAIN pg : pg[i].type = type /\ pg[i].ref = ref}
    BY DEF EntriesIn
  <2>. HIDE DEF lg, pg, n, old, new
  <2>7. old \subseteq DOMAIN lg /\ n \notin old
    BY <2>3, <2>6
  <2>8. (type = m.type /\ ref = m.ref) => new = old \union {n}
    BY <2>3, <2>4, <2>5, <2>6
  <2>9. ~(type = m.type /\ ref = m.ref) => new = old
    BY <2>3, <2>4, <2>5, <2>6
  <2>10. \A i \in old : pg[i] = lg[i]
    BY <2>4, <2>7
  <2>. QED
    BY <1>3, <2>3, <2>7, <2>8, <2>9, <2>10 DEF lg, pg, n, old, new
<1>. QED
  BY <1>2, <1>3

\* The entry a movement adds, among those of its type and entity.
LEMMA PostedEntry ==
    ASSUME NEW bk, BooksOK(bk), NEW m \in Move, CanMove(bk, m)
    PROVE  LET n == Len(bk.log[m.user][m.bucket]) + 1
           IN  /\ EntriesIn(Post(bk, m).log, m.user, m.bucket, m.type, m.ref) =
                      EntriesIn(bk.log, m.user, m.bucket, m.type, m.ref) \union {n}
               /\ Post(bk, m).log[m.user][m.bucket][n] = NewEntry(bk, m)
<1>. DEFINE u == m.user
            b == m.bucket
            lg == bk.log[u][b]
            pg == Post(bk, m).log[u][b]
            n == Len(lg) + 1
<1>1. u \in User /\ b \in Bucket
  BY DEF Move
<1>2. lg \in Seq(Entry) /\ NewEntry(bk, m) \in Entry
  BY <1>1, NewEntryType DEF BooksOK
<1>3. pg = Append(lg, NewEntry(bk, m))
  BY PostBooks
<1>4. NewEntry(bk, m).type = m.type /\ NewEntry(bk, m).ref = m.ref
  BY NewEntryType
<1>. HIDE DEF lg, pg
<1>5. /\ DOMAIN lg = 1..Len(lg) /\ DOMAIN pg = DOMAIN lg \union {n} /\ n \notin DOMAIN lg
      /\ pg[n] = NewEntry(bk, m)
      /\ \A i \in 1..Len(lg) : pg[i] = lg[i]
  BY <1>2, <1>3, OneMore
<1>6. {i \in DOMAIN pg : pg[i].type = m.type /\ pg[i].ref = m.ref} =
          {i \in DOMAIN lg : lg[i].type = m.type /\ lg[i].ref = m.ref} \union {n}
  <2>. HIDE DEF n
  <2>. QED
    BY <1>4, <1>5
<1>. QED
  BY <1>5, <1>6 DEF EntriesIn, lg, pg

-----------------------------------------------------------------------------
(***************************************************************************)
(* Conversions and adjustments, which every component allows.              *)
(***************************************************************************)
\* A list is as it was, or has one more entry, which names no entity.
Unnamed(old, new) ==
    \/ new = old
    \/ \E e \in Entry :
          /\ e.ref = NoRef
          /\ e.type \in {"COIN_CONVERSION", "ADMIN_CREDIT", "ADMIN_DEBIT"}
          /\ new = Append(old, e)

\* A movement with no entity, of the types of a conversion or an adjustment.
LEMMA UnnamedPost ==
    ASSUME NEW bk, BooksOK(bk), NEW m \in Move, CanMove(bk, m), m.ref = NoRef,
           m.type \in {"COIN_CONVERSION", "ADMIN_CREDIT", "ADMIN_DEBIT"}
    PROVE  /\ BooksOK(Post(bk, m))
           /\ BooksExplained(bk) => BooksExplained(Post(bk, m))
           /\ Unnamed(bk.log[m.user][m.bucket], Post(bk, m).log[m.user][m.bucket])
           /\ \A u \in User, b \in Bucket : (u # m.user \/ b # m.bucket) =>
                 Post(bk, m).log[u][b] = bk.log[u][b]
<1>1. /\ NewEntry(bk, m) \in Entry /\ NewEntry(bk, m).ref = NoRef
      /\ NewEntry(bk, m).type \in {"COIN_CONVERSION", "ADMIN_CREDIT", "ADMIN_DEBIT"}
  BY NewEntryType
<1>2. Unnamed(bk.log[m.user][m.bucket], Post(bk, m).log[m.user][m.bucket])
  BY <1>1, PostBooks DEF Unnamed
<1>3. /\ BooksOK(Post(bk, m))
      /\ \A u \in User, b \in Bucket : (u # m.user \/ b # m.bucket) =>
            Post(bk, m).log[u][b] = bk.log[u][b]
  <2>1. BooksOK(Post(bk, m))
    BY PostBooks
  <2>2. ASSUME NEW u \in User, NEW b \in Bucket, u # m.user \/ b # m.bucket
        PROVE  Post(bk, m).log[u][b] = bk.log[u][b]
    BY <2>2, PostElsewhere
  <2>. QED
    BY <2>1, <2>2
<1>4. BooksExplained(bk) => BooksExplained(Post(bk, m))
  BY PostExplained
<1>. QED
  BY <1>2, <1>3, <1>4

\* Such a step overdraws nothing, leaves the ledger an explanation of the
\* balances, and touches no entry that names an entity.
LEMMA WalletStepEffect ==
    ASSUME WalletTypeOK, WalletStep
    PROVE  /\ WalletTypeOK'
           /\ LedgerExplainsBalance => LedgerExplainsBalance'
           /\ \A u \in User, b \in Bucket : Unnamed(ledger[u][b], ledger'[u][b])
           /\ UNCHANGED rowLock
<1>1. PICK u \in User, a \in SpendAmounts :
          \/ ConvertCashToCoins(u, a)
          \/ \E b \in AdjustBuckets, dir \in Direction : AdjustBalance(u, b, dir, a)
  BY DEF WalletStep
<1>2. BooksOK(Books) /\ Books.log = ledger /\ a \in Nat
  BY WalletAssumption DEF WalletTypeOK, Books
<1>3. Books' = [bal |-> wallets', log |-> ledger']
  BY DEF Books
<1>4. CASE ConvertCashToCoins(u, a)
  <2>. DEFINE debit == Debit(u, "CASH", a, "COIN_CONVERSION", NoRef)
              credit == Credit(u, "COINS", CoinsFor(a), "COIN_CONVERSION", NoRef)
              mid == Post(Books, debit)
              final == Post(mid, credit)
  <2>1. /\ CanMove(Books, debit) /\ CanMove(mid, credit)
        /\ wallets' = final.bal /\ ledger' = final.log /\ rowLock' = rowLock
    BY <1>4 DEF ConvertCashToCoins, Commit
  <2>2. CoinsFor(a) \in Nat
    BY <1>2, WalletAssumption DEF CoinsFor
  <2>3. /\ debit \in Move /\ credit \in Move
        /\ debit.user = u /\ credit.user = u /\ debit.bucket = "CASH" /\ credit.bucket = "COINS"
        /\ debit.ref = NoRef /\ credit.ref = NoRef
        /\ debit.type = "COIN_CONVERSION" /\ credit.type = "COIN_CONVERSION"
    BY <1>2, <2>2 DEF Debit, Credit, Move, Bucket, Direction, TxType
  <2>. HIDE DEF debit, credit
  <2>4. /\ BooksOK(mid)
        /\ BooksExplained(Books) => BooksExplained(mid)
        /\ Unnamed(Books.log[u]["CASH"], mid.log[u]["CASH"])
        /\ \A v \in User, b \in Bucket : (v # u \/ b # "CASH") => mid.log[v][b] = Books.log[v][b]
    BY <1>2, <2>1, <2>3, UnnamedPost
  <2>. HIDE DEF mid
  <2>5. /\ BooksOK(final)
        /\ BooksExplained(mid) => BooksExplained(final)
        /\ Unnamed(mid.log[u]["COINS"], final.log[u]["COINS"])
        /\ \A v \in User, b \in Bucket : (v # u \/ b # "COINS") => final.log[v][b] = mid.log[v][b]
    BY <2>1, <2>3, <2>4, UnnamedPost
  <2>. HIDE DEF final
  <2>6. WalletTypeOK' /\ (LedgerExplainsBalance => LedgerExplainsBalance')
    <3>1. BooksOK(Books)'
      BY <1>3, <2>1, <2>5 DEF BooksOK
    <3>2. BooksExplained(final) => LedgerExplainsBalance'
      BY <1>3, <2>1 DEF LedgerExplainsBalance, BooksExplained, ClosingBalance
    <3>3. LedgerExplainsBalance => BooksExplained(final)
      BY <2>4, <2>5 DEF LedgerExplainsBalance
    <3>. QED
      BY <2>1, <3>1, <3>2, <3>3 DEF WalletTypeOK
  <2>7. ASSUME NEW v \in User, NEW b \in Bucket
        PROVE  Unnamed(ledger[v][b], ledger'[v][b])
    <3>1. CASE v = u /\ b = "CASH"
      BY <3>1, <1>2, <2>1, <2>4, <2>5
    <3>2. CASE v = u /\ b = "COINS"
      BY <3>2, <1>2, <2>1, <2>4, <2>5
    <3>3. CASE v # u \/ b \notin {"CASH", "COINS"}
      <4>1. ledger'[v][b] = ledger[v][b]
        BY <3>3, <1>2, <2>1, <2>4, <2>5
      <4>. QED
        BY <4>1 DEF Unnamed
    <3>. QED
      BY <3>1, <3>2, <3>3
  <2>. QED
    BY <2>1, <2>6, <2>7
<1>5. ASSUME NEW b \in AdjustBuckets, NEW dir \in Direction, AdjustBalance(u, b, dir, a)
      PROVE  /\ WalletTypeOK'
             /\ LedgerExplainsBalance => LedgerExplainsBalance'
             /\ \A v \in User, c \in Bucket : Unnamed(ledger[v][c], ledger'[v][c])
             /\ UNCHANGED rowLock
  <2>. DEFINE m == [user |-> u, bucket |-> b, direction |-> dir, amount |-> a,
                    type |-> IF dir = "CREDIT" THEN "ADMIN_CREDIT" ELSE "ADMIN_DEBIT",
                    ref |-> NoRef]
              final == Post(Books, m)
  <2>1. /\ CanMove(Books, m) /\ rowLock' = rowLock
        /\ wallets' = final.bal /\ ledger' = final.log
    BY <1>5 DEF AdjustBalance, Commit
  <2>2. /\ m \in Move /\ m.user = u /\ m.bucket = b /\ m.ref = NoRef
        /\ m.type \in {"ADMIN_CREDIT", "ADMIN_DEBIT"}
    BY <1>2, WalletAssumption DEF Move, TxType
  <2>. HIDE DEF m
  <2>3. /\ BooksOK(final)
        /\ BooksExplained(Books) => BooksExplained(final)
        /\ Unnamed(Books.log[u][b], final.log[u][b])
        /\ \A v \in User, c \in Bucket : (v # u \/ c # b) => final.log[v][c] = Books.log[v][c]
    BY <1>2, <2>1, <2>2, UnnamedPost
  <2>. HIDE DEF final
  <2>4. WalletTypeOK' /\ (LedgerExplainsBalance => LedgerExplainsBalance')
    <3>1. BooksOK(Books)'
      BY <1>3, <2>1, <2>3 DEF BooksOK
    <3>2. BooksExplained(final) => LedgerExplainsBalance'
      BY <1>3, <2>1 DEF LedgerExplainsBalance, BooksExplained, ClosingBalance
    <3>3. LedgerExplainsBalance => BooksExplained(final)
      BY <2>3 DEF LedgerExplainsBalance
    <3>. QED
      BY <2>1, <3>1, <3>2, <3>3 DEF WalletTypeOK
  <2>5. \A v \in User, c \in Bucket : Unnamed(ledger[v][c], ledger'[v][c])
    BY <1>2, <2>1, <2>3 DEF Unnamed
  <2>. QED
    BY <2>1, <2>4, <2>5
<1>. QED
  BY <1>1, <1>4, <1>5

=============================================================================
