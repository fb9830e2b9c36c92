---------------------------- MODULE MCWithdrawals ---------------------------
(* One player with money in both buckets and concurrent requests.          *)
EXTENDS WithdrawalHolds, TLC

CONSTANTS player, w1, w2, req1, req2, key1

MCUser == {player}
MCOpening == [u \in MCUser |->
    [b \in Bucket |-> CASE b = "CASH" -> 1 [] b = "WINNING" -> 2 [] OTHER -> 0]]
MCCoinRate == <<1, 1>>
=============================================================================
