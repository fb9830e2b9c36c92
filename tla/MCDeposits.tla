----------------------------- MODULE MCDeposits -----------------------------
(* A player who was referred, her referrer, and two administrators.         *)
EXTENDS DepositHistory, TLC

CONSTANTS player, referrer, d1, d2, tidA, tidB, admin1, admin2

MCUser == {player, referrer}
MCRef == {d1, d2, player, referrer}
MCOpening == [u \in MCUser |-> [b \in Bucket |-> 0]]
MCReferrer == [u \in MCUser |-> IF u = player THEN referrer ELSE NoUser]
MCCoinRate == <<1, 2>>
Symmetry == Permutations({d1, d2}) \union Permutations({tidA, tidB})
                \union Permutations({admin1, admin2})
=============================================================================
