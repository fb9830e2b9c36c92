----------------------------- MODULE MCPayments -----------------------------
(* One referred player and her referrer, one approval, one withdrawal and   *)
(* two transfers in opposite directions.  The referrer has the smaller user *)
(* id, so an approval takes the rows in the order transfers do not.         *)
EXTENDS Payments, TLC

CONSTANTS player, referrer, d1, tidA, admin1, t1, t2, k1, w1, req1

MCUser == {player, referrer}
MCRef == {d1, w1, player, referrer}
MCOpening ==
    [u \in MCUser |-> [b \in Bucket |-> IF u = player /\ b = "CASH" THEN 1 ELSE 0]]
MCReferrer == [u \in MCUser |-> IF u = player THEN referrer ELSE NoUser]
MCUserOrder == [u \in MCUser |-> IF u = referrer THEN 1 ELSE 2]
MCCoinRate == <<1, 1>>

\* Of the requests that are possible, two transfers that want each other's rows
\* and a withdrawal by the referred player.
ChosenRequests ==
    /\ wreq[req1].user = player
    /\ treq[t1].sender = player /\ treq[t1].recipient = referrer
    /\ treq[t2].sender = referrer /\ treq[t2].recipient = player

MCInit == PaymentInit /\ ChosenRequests
MCSpec == MCInit /\ [][PaymentNext]_payVars /\ PaymentFairness
=============================================================================
