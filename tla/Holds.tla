-------------------------------- MODULE Holds --------------------------------
(***************************************************************************)
(* What a withdrawal promises a player about the money.                    *)
(*                                                                         *)
(* A hold takes an amount out of the owner's buckets in one step, together *)
(* with the record of it.  It ends once: paid, and the money is gone, or   *)
(* returned, and every bucket has back what it gave, in the same step.  A  *)
(* client key names at most one hold of its owner.  Nothing else moves     *)
(* money on account of a hold; requests, retries, lost answers, locks and  *)
(* the stages of a payout are not visible here.                            *)
(***************************************************************************)
EXTENDS Integers

CONSTANTS
    Hold,    \* identities of holds
    None,    \* a hold that was never placed
    Owner,   \* who money is held from
    Source,  \* the buckets money can be held from
    Key,     \* client keys
    Keyless, \* the key of a hold placed without one
    Amount   \* amounts that can be held

VARIABLES
    holds,   \* each hold: None, or its owner, key, amount and state
    taken    \* what each hold has taken out of each bucket of each owner

holdVars == <<holds, taken>>

Nothing == [o \in Owner |-> [b \in Source |-> 0]]

KeyTaken(o, k) ==
    \E h \in Hold : holds[h] # None /\ holds[h].owner = o /\ holds[h].key = k

\* The parts add up to the amount; two sources give, the others do not.
Splits(part, a) ==
    \E b, c \in Source :
        /\ b # c
        /\ part[b] + part[c] = a
        /\ \A d \in Source \ {b, c} : part[d] = 0

Place(h, o, k, a) ==
    /\ holds[h] = None
    /\ k = Keyless \/ ~KeyTaken(o, k)
    /\ holds' = [holds EXCEPT ![h] = [owner |-> o, key |-> k, amount |-> a, state |-> "held"]]
    /\ \E part \in [Source -> 0..a] :
           Splits(part, a) /\ taken' = [taken EXCEPT ![h] = [Nothing EXCEPT ![o] = part]]

Ends(h, state) ==
    /\ holds[h] # None
    /\ holds[h].state = "held"
    /\ holds' = [holds EXCEPT ![h].state = state]

Pay(h) == Ends(h, "paid") /\ UNCHANGED taken

GiveBack(h) == Ends(h, "returned") /\ taken' = [taken EXCEPT ![h] = Nothing]

HoldInit ==
    /\ holds = [h \in Hold |-> None]
    /\ taken = [h \in Hold |-> Nothing]

HoldNext ==
    \E h \in Hold :
        \/ \E o \in Owner, k \in Key \union {Keyless}, a \in Amount : Place(h, o, k, a)
        \/ Pay(h)
        \/ GiveBack(h)

HoldSpec == HoldInit /\ [][HoldNext]_holdVars
==============================================================================
