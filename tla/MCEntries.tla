------------------------------ MODULE MCEntries -----------------------------
(* Players ann and bob, who start as a duo where teams matter, and eve.     *)
EXTENDS Entries, TLC

CONSTANTS ann, bob, eve, cup, cup2, duo, duo2, j1, j2, s1

MCUser == {ann, bob, eve}
MCPair == {ann, bob}
MCOpening(us, cash) == [u \in us |-> [b \in Bucket |-> IF b = "CASH" THEN cash ELSE 0]]
Rich3 == MCOpening(MCUser, 3)
Rich2 == MCOpening(MCPair, 6)
Poor3 == [Rich3 EXCEPT ![bob]["CASH"] = 1]
MCCoinRate == <<1, 1>>
DuoFirst == [T \in {duo, duo2} |-> IF T = duo THEN [captain |-> ann, members |-> {ann, bob}]
                                   ELSE [captain |-> NoUser, members |-> {}]]
NoneFirst == [T \in Team |-> [captain |-> NoUser, members |-> {}]]
Symmetry == Permutations({j1, j2})

\* Bounds of entries_solo: a suspension is explored before the second join is submitted, and
\* not while the capacity changes; the second tournament is joined only with coupons, at its
\* first attempt, while nothing else goes on.
SoloBound ==
    /\ suspended # {} => /\ \A s \in Staff : staff[s] = StaffIdle
                         /\ \E j \in JoinReq : joins[j].stage = "new"
    /\ ~tours[cup2].deadlinePassed /\ tours[cup2].maxSlots = 1
    /\ tours[cup2].status # "DRAFT" =>
           tours[cup2].status = "REGISTRATION_OPEN" /\ \E j \in JoinReq : joins[j].tour = cup2
    /\ \A s \in Staff : staff[s].tour # cup2
    /\ (\E j \in JoinReq : joins[j].tour = cup2) =>
           /\ suspended = {} /\ \A s \in Staff : staff[s] = StaffIdle
           /\ \A j \in JoinReq : joins[j].coupon /\ joins[j].attempt < 2
           /\ \A t \in Tour : /\ ~tours[t].deadlinePassed
                              /\ tours[t].status # "LIVE"
                              /\ \A u \in User : regs[t][u].status # "REFUNDED"
=============================================================================
