------------------------------ MODULE MCResults ------------------------------
(* The duo of ann and bob, and eve, who plays alone.                       *)
EXTENDS Results, TLC

CONSTANTS ann, bob, eve, duo, lone, m1, m2, ad1, ad2

MCKey == [e \in Entry |-> IF e = duo THEN 2 ELSE 1]
MCRoster == [e \in Entry |-> IF e = duo THEN {ann, bob} ELSE {eve}]
MCOther == [e \in Entry |-> IF e = duo THEN {{ann, eve}} ELSE {}]
MCFormulas == {[place |-> <<3, 1>>, perKill |-> 1]}
MCClaims == {[placement |-> 2, kills |-> 3]}
MCSheets == {[placement |-> 1, kills |-> 1, adj |-> 0, absent |-> FALSE, prize |-> p] : p \in {Kept, 1}}
MCPrizes == <<[kind |-> "PLACEMENT", amount |-> 5, perKill |-> 0, cap |-> 5],
              [kind |-> "KILL_POOL", amount |-> 5, perKill |-> 2, cap |-> 5],
              [kind |-> "PLACEMENT", amount |-> 3, perKill |-> 0, cap |-> 3],
              [kind |-> "MVP", amount |-> 1, perKill |-> 0, cap |-> 1],
              [kind |-> "MVP", amount |-> 2, perKill |-> 0, cap |-> 2]>>

Symmetry == Permutations(Admin)

Begun == winners # {} \/ \E a \in Admin : dist[a] # [stage |-> "idle", awards |-> {}, attempt |-> 1]

\* A row is absent, or shows a prize without being played or in results under work.
SetAside ==
    \E m \in Match, e \in Entry :
        \/ rows[m][e].absent \/ passed[m] # {}
        \/ /\ rows[m][e].prize > 0
           /\ rows[m][e].status # "PLAYED" \/ matches[m].results = "DRAFT"

\* Bound: such rows are explored without a distribution, a cancellation and a
\* change of the team beside them.
MCBound == SetAside => ~Begun /\ tour.status = "LIVE" /\ members = Roster

==============================================================================
