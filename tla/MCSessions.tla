------------------------------ MODULE MCSessions ------------------------------
(* A phone with two tabs and a desktop with one; the tabs of the phone are  *)
(* alike, and so are the confirmations that follow the first link.          *)
EXTENDS Sessions, TLC

CONSTANTS phone, desk, p1, p2, d1, l1, l2, c1, c2, c3

MCHome == [i \in Tab |-> IF i = d1 THEN desk ELSE phone]

MCLinkOf == [c \in Confirmation |-> IF c = c3 THEN l2 ELSE l1]

MCSymmetry == {f @@ g : f \in Permutations(Tab \ {d1}), g \in Permutations({c1, c2})}

\* Bounds: a link that was followed or asked for, a suspended and a deleted account are
\* explored with the first tokens only; all interleavings of refreshes and other endings,
\* without them.
MCBound ==
    /\ (\E c \in Confirmation : confirm[c] # "idle") => Len(tokens) <= 1 /\ ~account.deleted
    /\ (\E l \in Link : link[l] = "asked") \/ (\A l \in Link : link[l] # "none")
          => Len(tokens) <= 1 /\ ~account.deleted
    /\ account.deleted => Len(tokens) <= 1
    /\ account.status # "ACTIVE" => Len(tokens) <= 2
    /\ ending.kind \in {"reset", "suspend"} => Len(tokens) <= 2
=============================================================================
