----------------------------- MODULE MCTransfers ----------------------------
(* Two players who send to each other, alice from her page; user ids are    *)
(* ordered as they are listed.                                              *)
EXTENDS TransferPage, TLC

CONSTANTS alice, bob, t1, t2, key1, key2

MCUser == {alice, bob}
MCOpening == [u \in MCUser |-> [b \in Bucket |-> IF b = "CASH" THEN 3 ELSE 0]]
MCUserOrder == [u \in MCUser |-> IF u = alice THEN 1 ELSE 2]
MCCoinRate == <<1, 1>>
Symmetry == Permutations({t1, t2}) \union Permutations({key1, key2})
=============================================================================
