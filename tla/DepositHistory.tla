--------------------------- MODULE DepositHistory ---------------------------
(***************************************************************************)
(* Deposits with a history that only a property reads: whether an          *)
(* administrator has moved the setting referral.minFirstDeposit.           *)
(***************************************************************************)
EXTENDS Deposits

VARIABLE minMoved

HistoryInit == DepositInit /\ minMoved = FALSE
HistoryNext == DepositNext /\ minMoved' = (minMoved \/ minFirst' # minFirst)
HistorySpec == HistoryInit /\ [][HistoryNext]_<<depVars, minMoved>>

(* While referral.minFirstDeposit is left alone no reward is forgotten:     *)
(* racing approvals cannot each leave it to the other.                      *)
RewardKeptUnlessMinMoved == ~minMoved => RewardNotForgotten

=============================================================================
