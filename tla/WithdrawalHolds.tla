--------------------------- MODULE WithdrawalHolds ---------------------------
(***************************************************************************)
(* The withdrawals implement the holds.  A row is a hold from the commit   *)
(* that inserts it; every stage of the payout before PAID is one abstract  *)
(* state; and what a hold has taken is read off the ledger: the one debit  *)
(* of a bucket that names the row, less the one credit that names it, in   *)
(* the ledger of every player.                                             *)
(***************************************************************************)
EXTENDS Withdrawals

StateOf(status) ==
    CASE status = "PAID" -> "paid"
      [] status \in {"REJECTED", "CANCELLED"} -> "returned"
      [] OTHER -> "held"

\* The abstract record of a row; no row is not one of them.
HoldRow == [owner : User, key : WdKey \union {NoKey}, amount : WdAmount,
            state : {"held", "paid", "returned"}]

ASSUME HoldAssumption == NoWd \notin HoldRow

HoldOf(w) ==
    IF WdPresent(w)
    THEN [owner |-> withdrawals[w].user, key |-> withdrawals[w].key,
          amount |-> withdrawals[w].amount, state |-> StateOf(withdrawals[w].status)]
    ELSE NoWd

\* The entries of a log that name the row, by direction.
Named(log, dir, w) == {i \in DOMAIN log : log[i].direction = dir /\ log[i].ref = w}

Sole(log, places) == IF places = {} THEN 0 ELSE log[CHOOSE i \in places : TRUE].amount

\* The net effect of a log on account of the row: at most one debit and one
\* credit; a second one of either is a hold that nothing explains.
NetDebit(log, w) ==
    IF \E dir \in Direction : \E i, j \in Named(log, dir, w) : i # j
    THEN -1
    ELSE Sole(log, Named(log, "DEBIT", w)) - Sole(log, Named(log, "CREDIT", w))

TakenFor(w) == [u \in User |-> [b \in Bucket |-> NetDebit(ledger[u][b], w)]]

Abstract == INSTANCE Holds WITH
    Hold <- WdId, None <- NoWd, Owner <- User, Source <- Bucket,
    Key <- WdKey, Keyless <- NoKey, Amount <- WdAmount,
    holds <- [w \in WdId |-> HoldOf(w)],
    taken <- [w \in WdId |-> TakenFor(w)]

(* Withdrawals implement the abstract holds: whatever requests, retries,   *)
(* lost answers and racing decisions do, a player sees each hold placed    *)
(* once with its money, and ended once, paid or returned to the buckets it *)
(* came from, with no state in between.                                    *)
ImplementsHolds == Abstract!HoldSpec
==============================================================================
