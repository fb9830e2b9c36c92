------------------------------ MODULE Results ------------------------------
(***************************************************************************)
(* Match results and prizes of one tournament (services/result.service.ts, *)
(* match.service.ts, and the match, scoring and status operations of       *)
(* admin.service.ts).                                                      *)
(*                                                                         *)
(* A participant row gets its result from staff (saveAdminResult) or from  *)
(* a player's submission that staff verify (reviewResult).  The results of *)
(* a match are reviewed, confirmed and published; when all matches are     *)
(* published an administrator distributes the prizes.  Distribution reads  *)
(* the standings, then the publication, and only then opens the            *)
(* transaction that locks the tournament and pays: each read is a step.    *)
(*                                                                         *)
(* An entry is a player or a team; the money of a winner row is kept in    *)
(* the row as the shares that moveBalance credited for it.                 *)
(***************************************************************************)
EXTENDS Integers, Sequences, FiniteSets, FiniteSetsExt, Functions

CONSTANTS
    User,
    Entry,         \* entries of the tournament: teams and lone players
    TeamEntry,     \* the entries that are teams
    Key,           \* the order of the entries' ids
    Roster,        \* the members of each entry when it was paid
    HasSnapshot,   \* the teams whose registrations carry that roster
    OtherMembers,  \* what the members of a team may be changed to
    Match,
    FirstMatches,  \* the matches that exist at the start
    Formulas,      \* the scoring formulas: placement points and points per kill
    Submitter,     \* the players who submit results
    Claims,        \* what is approved for a submission: placement and kills
    Sheets,        \* what staff enter: placement (0 for none), kills, adj, absent and prize
    Prizes,        \* the prizes of the tournament, by position
    Admin,         \* administrators who distribute prizes
    Attempts       \* attempts of withIdempotentRetry

VARIABLES
    tour,     \* "tournaments": status and scoring formula
    matches,  \* "matches"
    rows,     \* "match_participants", by match and entry
    subs,     \* "result_submissions": the status of each player's last one, by match
    regs,     \* the status of each entry's "tournament_registrations"
    members,  \* "team_members" of each entry
    winners,  \* "winners" with the ledger rows that credit them
    saving,   \* the saveAdminResult that has locked each match
    scoring,  \* the updateTournamentScoring under way
    dist,     \* the progress of each administrator's distribution
    late,     \* history: a result changed after a distribution had read it
    passed    \* history: the entries of each match whose rows showed a prize when the
              \* results were confirmed without them

resultVars == <<tour, matches, rows, subs, regs, members, winners, saving, scoring, dist,
                late, passed>>

Formula == [place : Seq(Nat), perKill : Nat]

\* The cap of a kill pool is its amount where none was given.
Prize == [kind : {"PLACEMENT", "KILL_POOL", "MVP", "BONUS"},
          amount : Nat, perKill : Nat, cap : Nat]

NoRow == [status |-> "NONE", placement |-> 0, kills |-> 0, adj |-> 0, absent |-> FALSE,
          points |-> 0, score |-> 0, prize |-> 0]

\* A placement of 0 is a null placement; adj is bonus minus penalty; prize is
\* the position of the prize whose amount the row shows, 0 for none.
Row == [status : {"NONE", "REGISTERED", "PLAYED", "DISQUALIFIED"}, placement : Nat,
        kills : Nat, adj : Int, absent : BOOLEAN, points : Nat, score : Nat, prize : Nat]

MatchRow == [status : {"NONE", "SCHEDULED", "LIVE", "COMPLETED", "CANCELLED"},
             results : {"DRAFT", "UNDER_REVIEW", "CONFIRMED", "PUBLISHED"},
             finalized : BOOLEAN]

Submission == {"NONE", "PENDING", "VERIFIED", "REJECTED"}

\* The position of a winner row is not always that of the prize.
Award == [prize : DOMAIN Prizes, position : Nat, entry : Entry, amount : Nat]

Winner == [award : Award, shares : [User -> Nat]]

Distribution == [stage : {"idle", "standings", "settle", "done"}, awards : SUBSET Award,
                 attempt : 0..Attempts]

NoSave == [entry |-> CHOOSE e \in Entry : TRUE, row |-> NoRow]

NoFormula == [place |-> << >>, perKill |-> 0]

\* The prize of a sheet whose field was not sent.
Kept == -1

ASSUME ResultAssumption ==
    /\ IsFiniteSet(User) /\ IsFiniteSet(Entry) /\ IsFiniteSet(Match)
    /\ TeamEntry \subseteq Entry /\ HasSnapshot \subseteq TeamEntry
    /\ Key \in [Entry -> Nat]
    /\ \A e, f \in Entry : Key[e] = Key[f] => e = f
    /\ Roster \in [Entry -> (SUBSET User) \ {{}}]
    /\ OtherMembers \in [Entry -> SUBSET SUBSET User]
    /\ FirstMatches \subseteq Match /\ Submitter \subseteq User
    /\ Formulas \subseteq Formula /\ NoFormula \notin Formulas
    /\ Claims \subseteq [placement : Nat \ {0}, kills : Nat]
    /\ Sheets \subseteq [placement : Nat, kills : Nat, adj : Int, absent : BOOLEAN,
                         prize : Nat \union {Kept}]
    /\ Prizes \in Seq(Prize) /\ Len(Prizes) \in 1..20
    /\ Attempts \in Nat \ {0}

-----------------------------------------------------------------------------
(***************************************************************************)
(* Scoring (lib/scoring.ts)                                                *)
(***************************************************************************)
placementPointsFor(placement, f) ==
    IF placement \in DOMAIN f.place THEN f.place[placement] ELSE 0

pointsFor(placement, kills, f) == placementPointsFor(placement, f) + kills * f.perKill

finalScoreFor(placement, kills, adj, f) ==
    Max({0, pointsFor(placement, kills, f) + adj})

\* rankByScore within the entries es of a match: the key decides last.
ScoredBefore(m, a, b) ==
    LET r == rows[m][a]
        s == rows[m][b]
    IN  \/ r.score > s.score
        \/ r.score = s.score /\ r.kills > s.kills
        \/ r.score = s.score /\ r.kills = s.kills /\ r.placement > s.placement
        \/ /\ r.score = s.score /\ r.kills = s.kills /\ r.placement = s.placement
           /\ Key[a] < Key[b]

rankByScore(m, es, e) == 1 + Cardinality({o \in es : ScoredBefore(m, o, e)})

-----------------------------------------------------------------------------
(***************************************************************************)
(* Matches and their participants                                          *)
(***************************************************************************)
MatchExists(m) == matches[m].status # "NONE"

\* No saveAdminResult holds the match row.
MatchFree(m) == saving[m] = NoSave

\* syncParticipants: a row for every confirmed entry that has none.
Synced(m) ==
    [rows EXCEPT ![m] = [e \in Entry |->
        IF regs[e] = "CONFIRMED" /\ @[e].status = "NONE"
        THEN [NoRow EXCEPT !.status = "REGISTERED"] ELSE @[e]]]

\* The participants follow outside the transaction that creates the match: a
\* stop in between leaves them to the change of its status.
createMatch(m) ==
    /\ ~MatchExists(m)
    /\ matches' = [matches EXCEPT ![m] =
           [status |-> "SCHEDULED", results |-> "DRAFT", finalized |-> FALSE]]
    /\ rows' \in {rows, Synced(m)}
    /\ UNCHANGED <<tour, subs, regs, members, winners, saving, scoring, dist>>

MatchTransitions == [NONE |-> {}, SCHEDULED |-> {"LIVE", "CANCELLED"},
                     LIVE |-> {"COMPLETED", "CANCELLED"}, COMPLETED |-> {}, CANCELLED |-> {}]

\* The way of a match through its rooms lies between SCHEDULED and LIVE.  A
\* match that goes live is synchronised again; a failure of that is swallowed.
setMatchStatus(m, status) ==
    /\ MatchFree(m)
    /\ status \in MatchTransitions[matches[m].status]
    /\ matches[m].results = "PUBLISHED" => status = "COMPLETED"
    /\ matches' = [matches EXCEPT ![m].status = status]
    /\ rows' \in IF status = "LIVE" THEN {rows, Synced(m)} ELSE {rows}
    /\ UNCHANGED <<tour, subs, regs, members, winners, saving, scoring, dist>>

\* assertTeamRosterMutable, for the operations of the team service.
RosterMutable(e) ==
    ~(regs[e] = "CONFIRMED" /\ tour.status \in {"REGISTRATION_OPEN", "LIVE"})

ChangeMembers(e) ==
    /\ e \in TeamEntry /\ RosterMutable(e)
    /\ \E us \in OtherMembers[e] : members' = [members EXCEPT ![e] = us]
    /\ UNCHANGED <<tour, matches, rows, subs, regs, winners, saving, scoring, dist>>

-----------------------------------------------------------------------------
(***************************************************************************)
(* Submissions of players and their verification                           *)
(***************************************************************************)
\* The participant rows of a player: alone, or through a present membership.
RowsOf(m, u) == {e \in Entry : rows[m][e].status # "NONE" /\ u \in members[e]}

\* What is claimed only guides the review, which may correct it.
submitResult(m, u) ==
    /\ matches[m].status = "COMPLETED"
    /\ \E e \in RowsOf(m, u) : rows[m][e].status # "DISQUALIFIED"
    /\ subs[m][u] \notin {"PENDING", "VERIFIED"}
    /\ subs' = [subs EXCEPT ![m][u] = "PENDING"]
    /\ UNCHANGED <<tour, matches, rows, regs, members, winners, saving, scoring, dist>>

\* The rows a review may decide: the submission is open, the row neither
\* verified nor disqualified.
Reviewable(m, u) ==
    {e \in RowsOf(m, u) : /\ subs[m][u] = "PENDING"
                          /\ rows[m][e].status \notin {"PLAYED", "DISQUALIFIED"}}

\* reviewResult with APPROVE: the claim, or what staff put in its place.
ApproveResult(m, u, claim) ==
    LET points == pointsFor(claim.placement, claim.kills, tour.formula)
    IN  /\ \E e \in Reviewable(m, u) :
               rows' = [rows EXCEPT ![m][e] = [@ EXCEPT
                   !.status = "PLAYED", !.placement = claim.placement,
                   !.kills = claim.kills, !.points = points, !.score = points]]
        /\ subs' = [subs EXCEPT ![m][u] = "VERIFIED"]
        /\ UNCHANGED <<tour, matches, regs, members, winners, saving, scoring, dist>>

\* reviewResult with REJECT or DISQUALIFY.
RejectResult(m, u, status) ==
    /\ status \in {"REGISTERED", "DISQUALIFIED"}
    /\ \E e \in Reviewable(m, u) :
           rows' = [rows EXCEPT ![m][e] = [@ EXCEPT
               !.status = status, !.placement = 0, !.kills = 0, !.points = 0]]
    /\ subs' = [subs EXCEPT ![m][u] = "REJECTED"]
    /\ UNCHANGED <<tour, matches, regs, members, winners, saving, scoring, dist>>

-----------------------------------------------------------------------------
(***************************************************************************)
(* Results entered by staff                                                *)
(***************************************************************************)
\* The row that saveAdminResult writes, computed from the row it read.  A
\* cleared placement leaves no points and a null score; a prize stays unless it is
\* typed or cleared.
SavedRow(row, sheet, status, f) ==
    [row EXCEPT
        !.placement = sheet.placement, !.kills = sheet.kills, !.adj = sheet.adj,
        !.absent = sheet.absent,
        !.points = IF sheet.placement = 0 THEN 0
                   ELSE pointsFor(sheet.placement, sheet.kills, f),
        !.score = IF sheet.placement = 0 THEN 0
                  ELSE finalScoreFor(sheet.placement, sheet.kills, sheet.adj, f),
        !.prize = IF sheet.prize = Kept THEN @ ELSE sheet.prize,
        !.status = status]

\* The match row is locked and the participant row read, which is not locked.
BeginSave(m, e, sheet, status) ==
    /\ MatchFree(m) /\ MatchExists(m)
    /\ matches[m].results \in {"DRAFT", "UNDER_REVIEW"}
    /\ rows[m][e].status # "NONE"
    /\ saving' = [saving EXCEPT ![m] =
           [entry |-> e, row |-> SavedRow(rows[m][e], sheet, status, tour.formula)]]
    /\ UNCHANGED <<tour, matches, rows, subs, regs, members, winners, scoring, dist>>

EndSave(m) ==
    /\ ~MatchFree(m)
    /\ rows' = [rows EXCEPT ![m][saving[m].entry] = saving[m].row]
    /\ saving' = [saving EXCEPT ![m] = NoSave]
    /\ UNCHANGED <<tour, matches, subs, regs, members, winners, scoring, dist>>

\* The slot board sets the state of a row until the results are published, and
\* leaves its result and its prize.
setParticipantState(m, e, status, absent) ==
    /\ MatchFree(m)
    /\ matches[m].results # "PUBLISHED"
    /\ rows[m][e].status # "NONE"
    /\ rows' = [rows EXCEPT ![m][e].status = status, ![m][e].absent = absent]
    /\ UNCHANGED <<tour, matches, subs, regs, members, winners, saving, scoring, dist>>

ResultTransitions == [DRAFT |-> {"UNDER_REVIEW"}, UNDER_REVIEW |-> {"DRAFT"},
                      CONFIRMED |-> {"DRAFT", "PUBLISHED"}, PUBLISHED |-> {}]

\* setResultsStatus, but for CONFIRMED: the update names the status it saw.
setResultsStatus(m, status) ==
    /\ MatchFree(m)
    /\ status \in ResultTransitions[matches[m].results]
    /\ status # "DRAFT" => matches[m].status = "COMPLETED"
    /\ matches' = [matches EXCEPT ![m].results = status,
                                  ![m].finalized = (status = "PUBLISHED")]
    /\ UNCHANGED <<tour, rows, subs, regs, members, winners, saving, scoring, dist>>

PlayedRows(m) == {e \in Entry : rows[m][e].status = "PLAYED" /\ ~rows[m][e].absent}
RankedRows(m) == {e \in PlayedRows(m) : rows[m][e].placement # 0}

PlacementPrizes == {i \in DOMAIN Prizes : Prizes[i].kind = "PLACEMENT"}

\* Mutant of ConfirmedRow: entries with one score share a rank.
ConfirmedRowShared(m, e) ==
    LET r == rows[m][e]
        rank == 1 + Cardinality({o \in RankedRows(m) : rows[m][o].score > r.score})
    IN  IF r.placement = 0 THEN [r EXCEPT !.points = 0, !.score = 0, !.prize = 0]
        ELSE [r EXCEPT !.score = finalScoreFor(r.placement, r.kills, r.adj, tour.formula),
                       !.prize = IF rank \in PlacementPrizes THEN rank ELSE 0]

\* The rank comes from the stored score, the score is computed again; the prize
\* is the one whose position is the rank.
ConfirmedRow(m, e) ==
    LET r == rows[m][e]
        rank == rankByScore(m, RankedRows(m), e)
    IN  IF r.placement = 0 THEN [r EXCEPT !.points = 0, !.score = 0, !.prize = 0]
        ELSE [r EXCEPT !.score = finalScoreFor(r.placement, r.kills, r.adj, tour.formula),
                       !.prize = IF rank \in PlacementPrizes THEN rank ELSE 0]

confirmStandings(m) ==
    /\ MatchFree(m)
    /\ matches[m].status = "COMPLETED" /\ matches[m].results = "UNDER_REVIEW"
    /\ RankedRows(m) # {}
    /\ rows' = [rows EXCEPT ![m] =
           [e \in Entry |-> IF e \in PlayedRows(m) THEN ConfirmedRow(m, e) ELSE @[e]]]
    /\ matches' = [matches EXCEPT ![m].results = "CONFIRMED"]
    /\ UNCHANGED <<tour, subs, regs, members, winners, saving, scoring, dist>>

-----------------------------------------------------------------------------
(***************************************************************************)
(* Tournament scoring and status                                           *)
(***************************************************************************)
\* updateTournamentScoring up to the second check, which locks nothing.
BeginScoring(f) ==
    /\ scoring = NoFormula
    /\ tour.status \notin {"COMPLETED", "CANCELLED"}
    /\ \A m \in Match : MatchExists(m) =>
           matches[m] = [status |-> "SCHEDULED", results |-> "DRAFT", finalized |-> FALSE]
    /\ scoring' = f
    /\ UNCHANGED <<tour, matches, rows, subs, regs, members, winners, saving, dist>>

EndScoring ==
    /\ scoring # NoFormula
    /\ tour' = [tour EXCEPT !.formula = scoring]
    /\ scoring' = NoFormula
    /\ UNCHANGED <<matches, rows, subs, regs, members, winners, saving, dist>>

TourTransitions == [LIVE |-> {"COMPLETED", "CANCELLED"}, COMPLETED |-> {}, CANCELLED |-> {}]

\* setTournamentStatus of a running tournament: cancelling refunds every entry.
setTournamentStatus(status) ==
    /\ status \in TourTransitions[tour.status]
    /\ tour' = [tour EXCEPT !.status = status]
    /\ regs' = IF status = "CANCELLED" THEN [e \in Entry |-> "REFUNDED"] ELSE regs
    /\ UNCHANGED <<matches, rows, subs, members, winners, saving, scoring, dist>>

-----------------------------------------------------------------------------
(***************************************************************************)
(* Standings and awards                                                    *)
(***************************************************************************)
Played(e) == {m \in Match : rows[m][e].status = "PLAYED"}
Standing == {e \in Entry : Played(e) # {}}
Ranked == {e \in Standing : \E m \in Played(e) : rows[m][e].placement # 0}

Points(e) == SumFunctionOnSet([m \in Match |-> rows[m][e].points], Played(e))
Kills(e) == SumFunctionOnSet([m \in Match |-> rows[m][e].kills], Played(e))

StandsBefore(a, b) ==
    \/ Points(a) > Points(b)
    \/ Points(a) = Points(b) /\ Kills(a) > Kills(b)
    \/ Points(a) = Points(b) /\ Kills(a) = Kills(b) /\ Key[a] < Key[b]

\* The place of a ranked entry in the standings.
Place(e) == 1 + Cardinality({o \in Ranked : StandsBefore(o, e)})

\* The placement prizes go to the ranked in their order, whatever lies between.
PrizeRank(i) == Cardinality({j \in PlacementPrizes : j <= i})

PlacementAwards ==
    {[prize |-> x[1], position |-> x[1], entry |-> x[2], amount |-> Prizes[x[1]].amount] :
        x \in {y \in PlacementPrizes \X Ranked : Place(y[2]) = PrizeRank(y[1])}}

KillPools ==
    {i \in DOMAIN Prizes :
        Prizes[i].kind = "KILL_POOL" /\ Prizes[i].perKill > 0 /\ Prizes[i].cap > 0}

Killers == {e \in Ranked : Kills(e) > 0}
KillMoney(i, e) == Prizes[i].perKill * Kills(e)
KillTotal(i) == SumFunctionOnSet([e \in Killers |-> KillMoney(i, e)], Killers)
KillPosition(e) == 100 + Cardinality({o \in Killers : StandsBefore(o, e)})

\* Mutant of KillShare: the amounts are not scaled to the cap.
KillShareUncapped(i, e) == KillMoney(i, e)

\* Each amount is scaled to the cap and rounded down, so the last one, which the
\* code also limits to what is left of the cap, always fits.
KillShare(i, e) ==
    IF KillTotal(i) > Prizes[i].cap
    THEN (KillMoney(i, e) * Prizes[i].cap) \div KillTotal(i) ELSE KillMoney(i, e)

KillAwards ==
    {[prize |-> x[1], position |-> KillPosition(x[2]), entry |-> x[2],
      amount |-> KillShare(x[1], x[2])] :
        x \in {y \in KillPools \X Killers : KillShare(y[1], y[2]) > 0}}

MvpPrizes == {i \in DOMAIN Prizes : Prizes[i].kind = "MVP"}

MvpAwards ==
    {[prize |-> x[1], position |-> 200, entry |-> x[2], amount |-> Prizes[x[1]].amount] :
        x \in {y \in MvpPrizes \X Ranked : Place(y[2]) = 1}}

Awards == PlacementAwards \union KillAwards \union MvpAwards

-----------------------------------------------------------------------------
(***************************************************************************)
(* distributePrizes                                                        *)
(***************************************************************************)
\* The standings are read, and nothing but the request remembers them.
ReadStandings(a) ==
    /\ dist[a].stage = "idle"
    /\ Awards # {}
    /\ dist' = [dist EXCEPT ![a].stage = "standings", ![a].awards = Awards]
    /\ UNCHANGED <<tour, matches, rows, subs, regs, members, winners, saving, scoring>>

FinishDistribution(a) == [dist EXCEPT ![a].stage = "done", ![a].awards = {}]

\* The publication and the winners are read, still without a lock: what is
\* refused here ends the request.
CheckPublication(a) ==
    LET open == /\ tour.status # "CANCELLED"
                /\ \A m \in Match : MatchExists(m) => matches[m].results = "PUBLISHED"
                /\ winners = {}
    IN  /\ dist[a].stage = "standings"
        /\ dist' = IF open THEN [dist EXCEPT ![a].stage = "settle"] ELSE FinishDistribution(a)
        /\ UNCHANGED <<tour, matches, rows, subs, regs, members, winners, saving, scoring>>

\* Awards of one position are met in this order: kill pools before the MVP
\* prizes, and those of a kind as the prizes follow one another.
Earlier(v, w) ==
    LET kind == [a \in {v, w} |-> Prizes[a.prize].kind]
    IN  \/ kind[v] = "KILL_POOL" /\ kind[w] = "MVP"
        \/ kind[v] = kind[w] /\ v.prize < w.prize

\* Whoever comes first to a position takes it.
Unskipped(awards) ==
    {w \in awards : \A v \in awards : v.position = w.position => ~Earlier(v, w)}

\* Mutant of Unpaid: the winner rows that exist are not looked up.
UnpaidUnchecked(awards) == Unskipped(awards)

\* The awards whose position has no winner row yet, one made for an award before
\* them in the same loop included.
Unpaid(awards) ==
    {w \in Unskipped(awards) : \A v \in winners : v.award.position # w.position}

\* Mutant of Recipients: the money of a team goes to its present members.
RecipientsLive(e) == members[e]

\* The roster frozen at payment, or the present members where there is none.
Recipients(e) ==
    IF e \notin TeamEntry \/ (e \in HasSnapshot /\ regs[e] = "CONFIRMED")
    THEN Roster[e] ELSE members[e]

\* The last recipient gets what rounding left over.
Shares(amount, us) ==
    LET base == amount \div Cardinality(us)
        last == CHOOSE u \in us : TRUE
    IN  [u \in User |-> IF u \notin us THEN 0
                        ELSE IF u = last THEN amount - base * (Cardinality(us) - 1)
                        ELSE base]

WinnerOf(award) == [award |-> award, shares |-> Shares(award.amount, Recipients(award.entry))]

\* moveBalance refuses a share of nothing, and the whole settlement with it.
Payable(award) ==
    LET us == Recipients(award.entry)
    IN  us # {} /\ \A u \in us : Shares(award.amount, us)[u] > 0

WriteWinners(a) ==
    LET unpaid == Unpaid(dist[a].awards)
    IN  /\ dist[a].stage = "settle"
        /\ unpaid # {} /\ \A w \in unpaid : Payable(w)
        /\ \A m \in Match : matches[m].finalized \/ MatchFree(m)
        /\ winners' = winners \union {WinnerOf(w) : w \in unpaid}
        /\ tour' = [tour EXCEPT !.status = "COMPLETED"]
        /\ matches' = [m \in Match |-> IF MatchExists(m)
                                       THEN [matches[m] EXCEPT !.finalized = TRUE]
                                       ELSE matches[m]]
        /\ UNCHANGED <<rows, subs, regs, members, saving, scoring>>

\* The transaction, under the lock of the tournament row.  Settlement marks the
\* matches finalized, so it waits for a save that has locked one.
Settle(a) ==
    /\ WriteWinners(a)
    /\ dist' = FinishDistribution(a)

RefuseSettlement(a) ==
    LET unpaid == Unpaid(dist[a].awards)
    IN  /\ dist[a].stage = "settle"
        /\ unpaid = {} \/ \E w \in unpaid : ~Payable(w)
        /\ dist' = FinishDistribution(a)
        /\ UNCHANGED <<tour, matches, rows, subs, regs, members, winners, saving, scoring>>

\* The whole of distributePrizesOnce is run again, from the standings on.
RetryDistribution(a) ==
    dist' = IF dist[a].attempt < Attempts
            THEN [dist EXCEPT ![a] = [stage |-> "idle", awards |-> {}, attempt |-> @.attempt + 1]]
            ELSE FinishDistribution(a)

\* The commit succeeds but its response is lost.
SettleResponseLost(a) ==
    /\ WriteWinners(a)
    /\ RetryDistribution(a)

SettlementFails(a) ==
    /\ dist[a].stage = "settle"
    /\ RetryDistribution(a)
    /\ UNCHANGED <<tour, matches, rows, subs, regs, members, winners, saving, scoring>>

-----------------------------------------------------------------------------
ResultInit ==
    /\ tour \in [status : {"LIVE"}, formula : Formulas]
    /\ matches = [m \in Match |->
           [status |-> IF m \in FirstMatches THEN "SCHEDULED" ELSE "NONE",
            results |-> "DRAFT", finalized |-> FALSE]]
    /\ regs = [e \in Entry |-> "CONFIRMED"]
    /\ members = Roster
    /\ rows = [m \in Match |-> [e \in Entry |->
           IF m \in FirstMatches THEN [NoRow EXCEPT !.status = "REGISTERED"] ELSE NoRow]]
    /\ subs = [m \in Match |-> [u \in Submitter |-> "NONE"]]
    /\ winners = {}
    /\ saving = [m \in Match |-> NoSave]
    /\ scoring = NoFormula
    /\ dist = [a \in Admin |-> [stage |-> "idle", awards |-> {}, attempt |-> 1]]
    /\ late = FALSE /\ passed = [m \in Match |-> {}]

MatchStep(m) ==
    \/ createMatch(m)
    \/ \E status \in {"LIVE", "COMPLETED", "CANCELLED"} : setMatchStatus(m, status)
    \/ \E e \in Entry, sheet \in Sheets, status \in {"REGISTERED", "PLAYED", "DISQUALIFIED"} :
           BeginSave(m, e, sheet, status)
    \/ EndSave(m)
    \/ \E e \in Entry, absent \in BOOLEAN, status \in {"REGISTERED", "PLAYED", "DISQUALIFIED"} :
           setParticipantState(m, e, status, absent)
    \/ \E status \in {"DRAFT", "UNDER_REVIEW", "PUBLISHED"} : setResultsStatus(m, status)
    \/ confirmStandings(m)

SubmissionStep(m, u) ==
    \/ submitResult(m, u)
    \/ \E claim \in Claims : ApproveResult(m, u, claim)
    \/ \E status \in {"REGISTERED", "DISQUALIFIED"} : RejectResult(m, u, status)

DistributionStep(a) ==
    \/ ReadStandings(a) \/ CheckPublication(a) \/ Settle(a) \/ RefuseSettlement(a)
    \/ SettleResponseLost(a) \/ SettlementFails(a)

ResultStep ==
    \/ \E m \in Match : MatchStep(m) \/ \E u \in Submitter : SubmissionStep(m, u)
    \/ \E e \in Entry : ChangeMembers(e)
    \/ \E f \in Formulas : BeginScoring(f)
    \/ EndScoring
    \/ \E status \in {"COMPLETED", "CANCELLED"} : setTournamentStatus(status)
    \/ \E a \in Admin : DistributionStep(a)

\* A distribution has read the standings, or has paid by them.
StandingsRead == winners # {} \/ \E a \in Admin : dist[a].stage \in {"standings", "settle"}

JustConfirmed(m) == matches[m].results # "CONFIRMED" /\ matches'[m].results = "CONFIRMED"

\* A confirmation leaves the prizes of the rows it does not rank.
PassedOver(m) == {e \in Entry \ PlayedRows(m) : rows[m][e].prize > 0}

ResultNext ==
    /\ ResultStep
    /\ late' = (late \/ (StandingsRead /\ rows' # rows))
    /\ passed' = [m \in Match |-> IF JustConfirmed(m) THEN PassedOver(m) ELSE passed[m]]

ResultSpec == ResultInit /\ [][ResultNext]_resultVars

-----------------------------------------------------------------------------
(* Types; a save in progress belongs to a match that may be edited.        *)
ResultTypeOK ==
    /\ tour \in [status : DOMAIN TourTransitions, formula : Formulas]
    /\ matches \in [Match -> MatchRow]
    /\ rows \in [Match -> [Entry -> Row]]
    /\ subs \in [Match -> [Submitter -> Submission]]
    /\ regs \in [Entry -> {"CONFIRMED", "REFUNDED"}]
    /\ members \in [Entry -> SUBSET User]
    /\ winners \subseteq Winner
    /\ saving \in [Match -> [entry : Entry, row : Row] \union {NoSave}]
    /\ scoring \in Formulas \union {NoFormula}
    /\ dist \in [Admin -> Distribution]
    /\ late \in BOOLEAN /\ passed \in [Match -> SUBSET Entry]
    /\ \A m \in Match : ~MatchFree(m) => matches[m].results \in {"DRAFT", "UNDER_REVIEW"}

PaidFor(w) == SumFunctionOnSet(w.shares, User)

(* However often and by however many administrators prizes are distributed,*)
(* with commits nobody heard of, a position has one winner row, and the    *)
(* credits of that row come to its amount to the last unit.                *)
SettlementsReconcile ==
    \A w \in winners :
        /\ PaidFor(w) = w.award.amount
        /\ \A v \in winners : v.award.position = w.award.position => v = w

(* Members who joined a team after the tournament, or left it, do not      *)
(* change who is paid: while the entry stands, the money of a team whose   *)
(* roster was frozen goes to that roster.                                  *)
PaidRosterIsPaid ==
    \A w \in winners : LET e == w.award.entry IN
        (e \in HasSnapshot /\ regs[e] = "CONFIRMED")
            => \A u \in User : w.shares[u] > 0 => u \in Roster[e]

WinnersOf(i) == {w \in winners : w.award.prize = i}

(* Unless a result changes after it was read, two administrators and their *)
(* retries pay what one would: the awards of the standings, each of them   *)
(* that keeps its position, and out of each kill pool no more than its cap. *)
StandingsArePaid ==
    (~late /\ winners # {}) =>
        /\ {w.award : w \in winners} = Unskipped(Awards)
        /\ \A i \in KillPools :
              SumFunctionOnSet([w \in WinnersOf(i) |-> w.award.amount], WinnersOf(i))
                  <= Prizes[i].cap

\* The rows of a match that show a prize.
PromisedPrizes(m) == {e \in RankedRows(m) : rows[m][e].prize > 0}

(* Once the results of a match are confirmed, two of its rows never show   *)
(* the same placement prize, whatever staff saved and typed before it, a   *)
(* save waited for, and whatever is reviewed or set on the slot board      *)
(* after it.  The exception is a row that showed a prize already and that  *)
(* the confirmation did not rank, as it was absent or not played then: it  *)
(* keeps that prize, and may be made a played row again.                   *)
PromisesFit ==
    \A m \in Match : matches[m].results \in {"CONFIRMED", "PUBLISHED"} =>
        \A e, f \in PromisedPrizes(m) \ passed[m] : rows[m][e].prize = rows[m][f].prize => e = f

(* result.service.ts:499, the lock is taken to serialize settlement        *)
(* "against cancellation/refunds": no cancelled tournament pays prizes.    *)
RefundedOrPaid == winners = {} \/ \A e \in Entry : regs[e] = "CONFIRMED"

=============================================================================
