------------------------------ MODULE MCOffice ------------------------------
(* The plan of a tournament, fraud alerts, support tickets, accounts and    *)
(* the cached settings.                                                     *)
(* They share no table, so a behaviour moves one part, chosen at the start, *)
(* and the others stand still.                                              *)
EXTENDS TLC, Planning, Alerts, Tickets, Accounts, Settings

VARIABLE part

CONSTANTS ann, bob, f1, f2, f3, m1, m2, q1, q2, q3, google, apple, c1, c2, c3, c4, r1, e1, l1, l2, l3, p1, p2

officeVars == <<planVars, alertVars, ticketVars, accountVars, settingVars, part>>

-----------------------------------------------------------------------------
Draft == [type |-> "CUSTOM", perTeam |-> 2, slots |-> 2, minSlots |-> 1, fee |-> 2, start |-> 2,
          deadline |-> 1, publish |-> TRUE, confirmLoss |-> FALSE,
          prizes |-> <<[kind |-> "PLACEMENT", amount |-> 5, cap |-> 0],
                       [kind |-> "KILL_POOL", amount |-> 1, cap |-> 2]>>]

\* The second is a loss that is confirmed, the third one that is not.
MCPlans == {Draft,
            [Draft EXCEPT !.type = "SOLO", !.perTeam = Null, !.fee = 0, !.confirmLoss = TRUE,
                          !.publish = FALSE],
            [Draft EXCEPT !.fee = 0]}

MCEdits == {[slots |-> 1], [slots |-> 2, minSlots |-> 2], [perTeam |-> 3, fee |-> 1],
            [start |-> 1, deadline |-> 1], [deadline |-> 2]}

-----------------------------------------------------------------------------
Request3(t, a, m, n) == [table |-> t, account |-> a, mark |-> m, amount |-> n]

Three(one, two, three) == f1 :> one @@ f2 :> two @@ f3 :> three

\* Two accounts with one screenshot, payout account or claim, one account three times, and
\* the detectors with a single check.
MCFilings == {
    Three(Request3("deposit", ann, m1, 1), Request3("deposit", bob, m1, 1),
          Request3("deposit", ann, m1, 1)),
    Three(Request3("deposit", ann, NoMark, 1), Request3("deposit", ann, NoMark, 1),
          Request3("deposit", ann, NoMark, 4)),
    Three(Request3("withdrawal", ann, m1, 1), Request3("withdrawal", bob, m1, 2),
          Request3("claim", ann, m1, 0)),
    Three(Request3("withdrawal", ann, m1, 2), Request3("withdrawal", ann, m2, 1),
          Request3("transfer", ann, NoMark, 4)),
    Three(Request3("claim", ann, m1, 0), Request3("claim", bob, m1, 0),
          Request3("refused id", ann, m2, 1)),
    Three(Request3("rejected join", ann, NoMark, 0), Request3("rejected join", ann, NoMark, 0),
          Request3("replay", ann, NoMark, 0)),
    Three(Request3("registration", ann, m1, 0), Request3("registration", bob, m1, 0),
          Request3("replay", ann, NoMark, 0))}

MCBurst == [check \in {"deposits", "withdrawals", "rejected join", "registration", "transfer"} |->
               CASE check = "deposits" -> 2 [] check \in {"rejected join", "transfer"} -> 3
                 [] OTHER -> 1]

MCDeposited == ann :> 1 @@ bob :> 0

-----------------------------------------------------------------------------
MCWho == c1 :> google @@ c2 :> google @@ c3 :> apple @@ c4 :> apple

\* The account at Apple hides its address.
MCEmailOf == google :> e1 @@ apple :> NoEmail

MCAddress == r1 :> e1

\* The callbacks of one identity are alike.
Symmetry == Permutations({c1, c2}) \union Permutations({c3, c4})

-----------------------------------------------------------------------------
Asked(l) == lookup[l].stage # "new"

\* Bounds: one account at a time is suspended or archived; one request is dropped, and only
\* where a check asks for it; calls of getSetting, which are alike, begin in order.
MCBound ==
    /\ dropped \subseteq {f2}
    /\ dropped # {} => \/ Mine(f1).table = "withdrawal" /\ Mine(f1).account # Mine(f2).account
                       \/ Mine(f1).table = "deposit" /\ Mine(f1).mark = NoMark
    /\ Cardinality({u \in DOMAIN users : users[u].state # "ACTIVE"}) <= 1
    /\ (Asked(l2) => Asked(l1)) /\ (Asked(l3) => Asked(l2))

Still(p) ==
    /\ p # "alerts" => enabled /\ filing = CHOOSE g \in Filings : TRUE
    /\ p # "tickets" => /\ tickets = [t \in Ticket |-> "OPEN"]
                        /\ \A q \in Request : request[q].kind = "reply"
    /\ p # "settings" => \A l \in Lookup : lookup[l].process = p1
    /\ \A s \in Setter : setter[s].process = p1

OfficeInit ==
    /\ part \in {"plan", "alerts", "tickets", "accounts", "settings"}
    /\ PlanInit /\ AlertInit /\ TicketInit /\ AccountInit /\ SettingInit
    /\ Still(part)

OfficeNext ==
    /\ part' = part
    /\ part # "plan" => UNCHANGED planVars
    /\ part # "alerts" => UNCHANGED alertVars
    /\ part # "tickets" => UNCHANGED ticketVars
    /\ part # "accounts" => UNCHANGED accountVars
    /\ part # "settings" => UNCHANGED settingVars
    /\ \/ part = "plan" /\ PlanNext
       \/ part = "alerts" /\ AlertNext
       \/ part = "tickets" /\ TicketNext
       \/ part = "accounts" /\ AccountNext
       \/ part = "settings" /\ SettingNext

OfficeSpec == OfficeInit /\ [][OfficeNext]_officeVars
=============================================================================
