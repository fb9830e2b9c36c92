------------------------------ MODULE Capacity ------------------------------
(***************************************************************************)
(* What a seat of a tournament is (lib/capacity.ts) and what the event is  *)
(* expected to earn (services/tournament-economics.service.ts).            *)
(*                                                                         *)
(* Money is a whole number of hundredths, the unit round2 rounds to, and   *)
(* percentages are whole numbers.                                          *)
(***************************************************************************)
EXTENDS Integers, Sequences, FiniteSetsExt

Type == {"SOLO", "DUO", "SQUAD", "CLASH_SQUAD", "LONE_WOLF", "CLASH_SQUAD_1V1", "CUSTOM"}

\* The table of lib/capacity.ts, by which seats are sold.
MODE_TEAM_SIZE == [SOLO |-> 1, DUO |-> 2, SQUAD |-> 4, CLASH_SQUAD |-> 4, LONE_WOLF |-> 1,
                   CLASH_SQUAD_1V1 |-> 1, CUSTOM |-> 1]

\* The table of its own that tournament-economics.service.ts prices with.
TEAM_SIZE == [SOLO |-> 1, DUO |-> 2, SQUAD |-> 4, CLASH_SQUAD |-> 4, LONE_WOLF |-> 1,
              CLASH_SQUAD_1V1 |-> 1, CUSTOM |-> 4]

\* A players-per-team column or field that is null or left out.
Null == -1

Given(n, default) == IF n = Null THEN default ELSE n

Clamp(n, low, high) == IF n < low THEN low ELSE IF n > high THEN high ELSE n

\* playersPerTeamFor: what is stored.
PlayersPerTeamFor(t, custom) ==
    IF t = "CUSTOM" THEN Clamp(Given(custom, 4), 1, 8) ELSE MODE_TEAM_SIZE[t]

\* playersPerTeamOf: what a stored row means.
PlayersPerTeamOf(t, column) ==
    IF t = "CUSTOM"
    THEN IF Given(column, 1) < 1 THEN 1 ELSE Given(column, 1)
    ELSE MODE_TEAM_SIZE[t]

IsTeamMode(t, perTeam) == IF t = "CUSTOM" THEN perTeam > 1 ELSE MODE_TEAM_SIZE[t] > 1

CapacityOf(t, slots, column) ==
    LET size == PlayersPerTeamOf(t, column)
    IN  [seats |-> slots, playersPerTeam |-> size, totalPlayers |-> slots * size,
         teamMode |-> IsTeamMode(t, size)]

-----------------------------------------------------------------------------
\* The team size computeEconomics multiplies the fee by.
PricedTeamSize(t, custom) ==
    IF t = "CUSTOM" THEN Clamp(Given(custom, 4), 1, 8) ELSE TEAM_SIZE[t]

\* round2 of percent hundredths of an amount: a half is rounded up.
PercentOf(amount, percent) == (2 * percent * amount + 100) \div 200

\* A kill pool without a cap, or with a larger amount, is an unlimited liability.
PrizeAccepted(p) ==
    /\ p.amount >= 0
    /\ p.kind = "KILL_POOL" => p.cap > 0 /\ p.amount <= p.cap

\* A kill pool may cost its whole cap.
Liability(p) == IF p.kind = "KILL_POOL" THEN p.cap ELSE p.amount

RewardBudget(prizes) == MapThenSumSet(LAMBDA i : Liability(prizes[i]), DOMAIN prizes)

Collection(c) ==
    PercentOf(c.fee * PricedTeamSize(c.type, c.perTeam) * c.slots, Clamp(c.fill, 1, 100))

BonusBudget(c) == PercentOf(Collection(c), c.bonus)

PlatformGross(c) == Collection(c) - (RewardBudget(c.prizes) + BonusBudget(c))

EstimatedNetProfit(c) ==
    PlatformGross(c) - c.referral - PercentOf(Collection(c), c.paymentCost)

Priceable(c) ==
    /\ c.fee >= 0 /\ c.slots > 0
    /\ \A i \in DOMAIN c.prizes : PrizeAccepted(c.prizes[i])

Safe(c, lossThreshold) == EstimatedNetProfit(c) >= -lossThreshold
=============================================================================
