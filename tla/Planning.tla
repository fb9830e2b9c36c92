------------------------------ MODULE Planning ------------------------------
(***************************************************************************)
(* The plan of one tournament (createTournament, updateTournament and      *)
(* setTournamentStatus of services/admin.service.ts).                      *)
(*                                                                         *)
(* An edit reads the tournament and its registrations, checks its input    *)
(* against them, and writes the fields of its input in a transaction that  *)
(* looks at nothing again: the two are steps of their own.  Players take   *)
(* and leave seats in between.                                             *)
(***************************************************************************)
EXTENDS Capacity, FiniteSets

CONSTANTS
    Plans,          \* what the builder may send
    Edits,          \* what an edit may send: functions of some of the fields
    Editor,         \* administrators with an edit form
    Seat,           \* the numbers of seats
    LossThreshold,  \* pricing.lossWarningThreshold
    MaxClock        \* bounds the clock

VARIABLES
    plan,    \* "tournaments"
    seats,   \* "tournament_registrations": the team size each seat was sold with, 0 for a free one
    edit,    \* the edit each administrator has checked
    now,
    agreed,  \* whether the loss was confirmed (the audit row of the creation)
    crossed  \* whether anything was written while an edit was open: no action reads it

planVars == <<plan, seats, edit, now, agreed, crossed>>

Fields == {"slots", "perTeam", "minSlots", "fee", "start", "deadline"}

Plan == [status : {"NONE", "DRAFT", "REGISTRATION_OPEN", "LIVE", "COMPLETED", "CANCELLED"},
         type : Type, perTeam : Nat, slots : Nat, minSlots : Nat, fee : Nat, start : Nat,
         deadline : Nat]

NoEdit == [open |-> FALSE, input |-> <<>>]

ASSUME PlanningAssumption ==
    /\ Seat \subseteq Nat \ {0} /\ IsFiniteSet(Seat) /\ MaxClock \in Nat /\ LossThreshold \in Nat
    /\ \A c \in Plans :
          /\ c.type \in Type /\ c.perTeam \in Nat \union {Null} /\ c.publish \in BOOLEAN
          /\ c.confirmLoss \in BOOLEAN
          /\ \A f \in Fields \ {"perTeam"} : c[f] \in Nat
    /\ \A e \in Edits : DOMAIN e \subseteq Fields /\ \A f \in DOMAIN e : e[f] \in Nat

Overlay(e, p) == [f \in DOMAIN p |-> IF f \in DOMAIN e THEN e[f] ELSE p[f]]

\* The builder leaves the fill rate, bonuses and costs of computeEconomics at their defaults.
Economics(c) ==
    [type |-> c.type, fee |-> c.fee, slots |-> c.slots, prizes |-> c.prizes, fill |-> 100,
     perTeam |-> PlayersPerTeamFor(c.type, c.perTeam), bonus |-> 0, referral |-> 0,
     paymentCost |-> 0]

Open(a) == edit[a].open

Confirmed == {s \in Seat : seats[s] # 0}

Wrote == crossed' = (crossed \/ \E a \in Editor : Open(a))

-----------------------------------------------------------------------------
\* With the refinements of the builder's schema.
Acceptable(c) ==
    /\ c.start > now /\ c.deadline <= c.start /\ c.minSlots <= c.slots
    /\ c.type = "CUSTOM" => c.slots * PlayersPerTeamFor(c.type, c.perTeam) <= 2000
    /\ Priceable(Economics(c))
    /\ Safe(Economics(c), LossThreshold) \/ c.confirmLoss

CreateTournament(c) ==
    /\ plan.status = "NONE"
    /\ Acceptable(c)
    /\ plan' = [status |-> IF c.publish THEN "REGISTRATION_OPEN" ELSE "DRAFT",
                type |-> c.type, perTeam |-> PlayersPerTeamFor(c.type, c.perTeam),
                slots |-> c.slots, minSlots |-> c.minSlots, fee |-> c.fee, start |-> c.start,
                deadline |-> c.deadline]
    /\ agreed' = c.confirmLoss
    /\ UNCHANGED <<seats, edit, now, crossed>>

-----------------------------------------------------------------------------
\* Mutant: as many seats as are in use, whatever their numbers.
FloorOfCount(slots) == Cardinality(Confirmed) <= slots

\* No seat in use lies above the new capacity.
FloorKept(slots) == \A s \in Confirmed : s <= slots

Schedulable(e) ==
    LET next == Overlay(e, plan) IN
    {"start", "deadline"} \intersect DOMAIN e # {} =>
        /\ next.deadline <= next.start
        /\ "start" \in DOMAIN e /\ plan.status = "REGISTRATION_OPEN" => e.start > now

Admitted(e) ==
    /\ plan.status \in {"DRAFT", "REGISTRATION_OPEN", "LIVE"} /\ DOMAIN e # {}
    /\ "slots" \in DOMAIN e =>
          plan.status # "LIVE" /\ FloorKept(e.slots) /\ (Confirmed # {} => e.slots >= 1)
    /\ "perTeam" \in DOMAIN e => plan.type = "CUSTOM" /\ Confirmed = {}
    /\ "fee" \in DOMAIN e => plan.status # "LIVE"
    /\ Schedulable(e)
    /\ "minSlots" \in DOMAIN e => e.minSlots <= Overlay(e, plan).slots

CheckEdit(a, e) ==
    /\ ~Open(a) /\ Admitted(e)
    /\ edit' = [edit EXCEPT ![a] = [open |-> TRUE, input |-> e]]
    /\ UNCHANGED <<plan, seats, now, agreed, crossed>>

\* The update names the tournament by its id alone.
CommitEdit(a) ==
    /\ Open(a)
    /\ plan' = Overlay(edit[a].input, plan)
    /\ edit' = [edit EXCEPT ![a] = NoEdit]
    /\ crossed' = (crossed \/ \E b \in Editor \ {a} : Open(b))
    /\ UNCHANGED <<seats, now, agreed>>

-----------------------------------------------------------------------------
StatusAfter(s) ==
    CASE s = "DRAFT" -> {"REGISTRATION_OPEN", "CANCELLED"}
      [] s = "REGISTRATION_OPEN" -> {"LIVE", "CANCELLED"}
      [] s = "LIVE" -> {"COMPLETED", "CANCELLED"}
      [] OTHER -> {}

\* The row is locked and its status compared again; a cancellation refunds every seat.
SetStatus(s) ==
    /\ s \in StatusAfter(plan.status)
    /\ plan' = [plan EXCEPT !.status = s]
    /\ seats' = IF s = "CANCELLED" THEN [n \in Seat |-> 0] ELSE seats
    /\ Wrote
    /\ UNCHANGED <<edit, now, agreed>>

\* joinTournament and cancelRegistration; module Entries has their steps.  A join also compares
\* the start with the clock, on a row it read before.
TakeSeat(s) ==
    /\ plan.status = "REGISTRATION_OPEN" /\ now < plan.deadline
    /\ seats[s] = 0 /\ s <= plan.slots
    /\ seats' = [seats EXCEPT ![s] = PlayersPerTeamOf(plan.type, plan.perTeam)]
    /\ Wrote
    /\ UNCHANGED <<plan, edit, now, agreed>>

LeaveSeat(s) ==
    /\ seats[s] # 0
    /\ plan.status = "LIVE" \/ (plan.status = "REGISTRATION_OPEN" /\ now < plan.deadline)
    /\ seats' = [seats EXCEPT ![s] = 0]
    /\ Wrote
    /\ UNCHANGED <<plan, edit, now, agreed>>

Tick ==
    /\ now < MaxClock
    /\ now' = now + 1
    /\ UNCHANGED <<plan, seats, edit, agreed, crossed>>

PlanInit ==
    /\ plan = [status |-> "NONE", type |-> "SOLO", perTeam |-> 1, slots |-> 0, minSlots |-> 0,
               fee |-> 0, start |-> 0, deadline |-> 0]
    /\ seats = [s \in Seat |-> 0]
    /\ edit = [a \in Editor |-> NoEdit]
    /\ now = 0 /\ agreed = FALSE /\ crossed = FALSE

PlanNext ==
    \/ \E c \in Plans : CreateTournament(c)
    \/ \E a \in Editor : CommitEdit(a) \/ \E e \in Edits : CheckEdit(a, e)
    \/ \E s \in {"REGISTRATION_OPEN", "LIVE", "COMPLETED", "CANCELLED"} : SetStatus(s)
    \/ \E s \in Seat : TakeSeat(s) \/ LeaveSeat(s)
    \/ Tick

PlanSpec == PlanInit /\ [][PlanNext]_planVars

-----------------------------------------------------------------------------
PlanTypeOK ==
    /\ plan \in Plan
    /\ seats \in [Seat -> Nat]
    /\ edit \in [Editor -> [open : {TRUE}, input : Edits] \union {NoEdit}]
    /\ now \in 0..MaxClock /\ agreed \in BOOLEAN /\ crossed \in BOOLEAN

(* admin.service.ts:620, "recalculates capacity SAFELY": unless something  *)
(* is written between the check of an edit and its update, every player    *)
(* keeps a seat below the capacity with the team size that was sold, and   *)
(* registration closes at or before the start.                             *)
EditsKeepPlan ==
    ~crossed =>
        /\ plan.deadline <= plan.start
        /\ \A s \in Confirmed :
              s <= plan.slots /\ seats[s] = PlayersPerTeamOf(plan.type, plan.perTeam)
=============================================================================
