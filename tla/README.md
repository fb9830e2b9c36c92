# Verification of the tournament platform

The repository is a Free Fire tournament platform: an Express and Prisma backend over
PostgreSQL (`src/backend`), a Next.js web client (`src/frontend`) and two mobile clients
(`src/mobile`). Nearly everything that can go wrong with money, a seat, a prize, a room or
a session goes wrong in the backend, where many requests run at once against one database
under READ COMMITTED with row locks. This directory models that part in TLA+, with the two
places of the web client whose order of steps matters, checks it with TLC on small
instances, and proves with TLAPS, for every instance, what it checks of the wallet, deposits,
withdrawals, transfers and the three together, entries, sessions, the day of an event, its
results and prizes, and the back office.

## 1. Inventory

| Component (source under `src/backend/src` unless said) | State it keeps | Operations | What makes it correct |
|---|---|---|---|
| Wallet and ledger (`services/wallet.service.ts`, `lib/prisma.ts`) | four balances per player, a ledger of movements with the balance before and after | `moveBalance` (inside other transactions), conversion, manual adjustment | no overdraft; every balance is the sum of its ledger, chained without a gap |
| Deposits (`services/payment.service.ts`) | deposit rows PENDING, APPROVED, REJECTED | create, review, delete | one credit per approved row; a decision is final |
| Referral rewards (`services/referral.service.ts`) | one reward row per referred player | paid inside the approval of the first qualifying deposit | paid once, and not lost |
| Withdrawals (`services/payment.service.ts`) | withdrawal rows with a status and an optional key | request, cancel, approve, process, pay, reject | what is held equals what the rows say; one hold per key |
| Transfers (`services/transfer.service.ts`) and the page that sends them (`src/frontend/src/app/(app)/wallet/transfer/page.tsx`) | transfer rows with a key; the stage of the page | send; click, hear or miss the answer, start over | daily limit, one payment per key, one payment per form |
| Transaction retry (`lib/tx-conflict.ts`) | none | `withIdempotentRetry`, `withoutBlindRetry` | a commit nobody heard of is not applied twice |
| Entries (`services/tournament.service.ts`) | registrations with seat, fee, roster; slot counter; coupon uses | join, cancel | one charge per entry, no seat sold twice |
| Seats (`services/slot.service.ts`) | seat, lock and team of a registration | assign, clear, lock, pair | seats disjoint, locks respected |
| Teams (`services/team.service.ts`) | captain and members | create, join, leave, remove, hand over | a paid roster does not change |
| Results and prizes (`services/result.service.ts`, `match.service.ts`, `lib/scoring.ts`) | matches, participants, submissions, winners | submit, review, enter, confirm, publish, distribute, score | the published standings are paid, once, to those who were paid for |
| Check-in (`services/checkin.service.ts`) | attendance marks, the window, audits | check in, mark, sweep | the absent are recorded and nobody else is named |
| Rooms (`services/room.service.ts`) | the room of a tournament with its release mark | save, hide, show, cancel, re-activate, release | released on time, once, not early; a cancelled room stays cancelled |
| Scheduler (`services/scheduler.service.ts`, `index.ts`) | the stamp of a reminder | a tick of three jobs | each job runs whether or not the one before failed; nothing is told twice |
| Sessions (`services/auth.service.ts`, `lib/tokens.ts`; `src/frontend/src/lib/client-api.ts`) | refresh tokens, the e-mailed links, the cookie and stored token of a browser | sign in, refresh, sign out, change a password, ask for a link, confirm an address | tabs that refresh in parallel stay signed in; ended sessions end; one bonus per link |
| Accounts and social sign-in (`services/auth.service.ts`, `oauth.service.ts`) | users, linked identities, referral rows | register, resolve an identity | one account per identity |
| Planning and capacity (`services/admin.service.ts`, `tournament-economics.service.ts`, `lib/capacity.ts`) | the plan of a tournament | create, edit, change its status, price it | an edit keeps the seats that are sold |
| Fraud alerts (`services/fraud.service.ts`) | alerts with a fingerprint and occurrences | detect, review | an event reaches staff |
| Support tickets (`services/support.service.ts`, `admin.service.ts`) | a ticket and its messages | reply, close | a player who waits is not forgotten |
| Settings (`services/settings.service.ts`) | a row per setting, a cache per process | read, change | a change takes effect within the lifetime of an entry |
| Finance, notifications and push, assistant, public pages, payment accounts, mail, uploads, HTTP layer, the rest of the clients | reports, messages, files, screens | reads and output | no modelled step depends on them (section 8) |

How they interact: nearly every service that handles money ends in `moveBalance`, always
inside the transaction of its caller, so the wallet row is the meeting point. A tournament
row is the second one: joins, seat changes, cancellations and the settlement of prizes lock
it first. Settings, the capacity of a tournament, its status and its standings are read
outside those locks by operations that write later. Deposits call referral rewards;
administration calls the same refund steps as a cancellation by the player. The scheduler
runs check-in and rooms beside the players who open the same pages. Detectors run after the
request they watch has committed.

What is hard here:
- **Interleaving**: two reviewers, a reviewer and a player who cancels, a join and a
  capacity change, pairing and a player who joins a team, two administrators who
  distribute, a sweep and a player who checks in, two tabs that refresh one session.
- **Check outside, act inside**: `deleteDeposit`, `updateTournament`, `distributePrizes`,
  the coupon of a join, `pairIndependentTeam`, the save of a room, the claim of its release,
  the reply to a ticket and the referral minimum read first and write later.
- **A commit nobody heard of**: `tx-conflict.ts` says that an error may hide a committed
  write; operations with a key are retried, the others answer "busy".
- **Stop half-way**: a reminder, a release and an audit are claimed or counted in one
  statement and told in the next.
- **Lock order**: a transfer locks two wallets in the order of the user ids, but an approval
  locks the depositor and then the referrer, and a team join charges its players in the
  order of the team's member list. `Entries` charges a join's players in one step, so lock
  waits between a join and another money transaction are not modelled.
- **Late answers**: a refresh of one tab is answered after another tab has rotated its
  token; the answer to a payment does not come.
- **Long histories**: a registration is one row per player and tournament, revived by the
  next join after a cancellation; an instant is re-armed by a save, an edit or a switch.

## 2. Plan

The order followed the money, then what the money depends on. Modules marked * exist.

1. `Wallet`*: balances, ledger, row locks, `moveBalance`.
2. `Deposits`*, `Withdrawals`*, `Transfers`*, `TransferPage`*: one component each.
3. `Payments`*: the three on shared wallets, with lock waits and deadlocks.
4. `Entries`*: joins, seats, teams, tournament administration.
5. `Results`*: matches, publication and distribution against cancellation with refunds.
6. `Sessions`*: refresh rotation with the grace chain; the e-mailed links and their bonus.
7. `EventDay`*, `CheckIn`*, `Rooms`* and `MatchDay`*, which composes them with the scheduler.
8. `Holds`* (a request is held, then returned or paid) and `WithdrawalHolds`*, the
   refinement mapping under which `Withdrawals` implements it.
9. `Capacity`*, `Planning`*, `Alerts`*, `Tickets`*, `Accounts`*, `Settings`*: the back office.
10. `WalletProofs`*, `DepositsProofs`*, `OutgoingProofs`* (withdrawals, transfers and the page),
    `PaymentsProofs`* (the composition), `SessionsProofs`*, `EntriesProofs`*, `EventProofs`* (the
    day of an event, and its results), and `OfficeProofs`* for the five parts of the back office.
11. Left: an abstract bank (a movement is one atomic
    step that never overdraws) implemented by `Wallet` under each service; the delivery of
    push messages and the windows of the fraud detectors in time; lock waits between joins
    and payments.

Runs are kept small on purpose: two players, two or three requests and at most two
members of staff, since each hazard above needs two actors and at most three transactions.

## 3. Modules and the code

All state variables are tables or the local state of a request, except a few histories that
only properties read and that are declared as such. A request is a record with a stage;
statements of one transaction that no other transaction can come between (because of a row
lock they hold, or because they are one statement) are one action. A transaction that keeps
locks over several statements has one action per lock it takes.

**`Wallet`**. `wallets` and `ledger` are the tables `wallets` and `wallet_transactions`,
`rowLock` says which open transaction wrote or locked a wallet row. `CanMove` is the guarded
UPDATE of `moveBalance`, `NewEntry` the ledger row, `Post` both; `ConvertCashToCoins` and
`AdjustBalance` are the two operations that need nothing else. The coin rate is a
fraction; the conversion rounds down to a hundredth, as the code does. Amounts are whole
numbers of that unit, one hundredth (the code keeps two decimals with `round2`).

**`Deposits`**. `ClaimApproval`, `CreditDepositor`, `CommitApproval` and `AbortApproval`
are the statements of `reviewDepositOnce`: the claim of the PENDING row, the credit, and
the status with the reward. The row claimed by an open approval blocks other writers
(`RowClaimed`) while readers outside a transaction still see PENDING, which is why
`BeginDelete` may pass while an approval is open. `review[a].stamp` is the review time the
approval took, which may be earlier than that of an approval that commits before it. Equal
review times are not modelled.

**`Withdrawals`**. `LookupKey`, `InsertAndRead`, `DebitAndCommit` and their failures are
`requestWithdrawalOnce`. The unique index on player and key makes a second insert wait
(`KeyHeld`). `CommitResponseLost` commits and lets the retry loop run again;
`AttemptFails` loses nothing but the attempt. A request without a key is never retried.
`ReviewWithdrawal` is the table `WITHDRAWAL_FLOW` with the reversal of the hold.

**`Holds`** is what a player is promised: a request that is answered holds its amount once,
and the hold ends by being returned in full or paid. **`WithdrawalHolds`** maps the rows to it: a row is held
while its status is before PAID, and what it has taken is the sum of the ledger rows that name it.
That a key holds at most once is part of the abstract step. A log that names a row more than
once in one direction counts as -1 (`NetDebit`), which no abstract step allows.

**`Transfers`**. `Preflight` is everything before the transaction, `LockFirst` and
`LockSecond` the ordered `FOR UPDATE`, `ReadUnderLock` replay and limit, `MoveAndCommit` the
movements. `NextDay` is midnight; a day of a row is the day it was written, the limit uses
the day the request reads.

**`TransferPage`** is the page in front of it, for one payer whose requests all come from one
page: a click sends a request with a new key, the answer is heard or missed, and only an
answer of success leaves the form. A form may be filled in again before it is done, so its
content is in the request; `asked` remembers the form of a request that was sent. Two tabs, a reload and an expired sign-in are left out.

**`Payments`** composes the three services. `Wants` and `WaitsFor` say who waits for which
wallet row; `DeadlockVictim` aborts one transaction of a circle, as PostgreSQL does with 40P01. The
ids of deposits, players and withdrawals differ (all are cuids).

**`Entries`**. A join has the stages of `runJoin`: `PreflightJoin` (outside the transaction),
`OpenJoin` (tournament and team locked, admission, seat), `CommitJoin` (coupon, charge,
rows). The tournament row is locked from `OpenJoin` to the end (`TourFree`), so staff
actions wait, while settings of the tournament read in `PreflightJoin` may be stale; the
seat search uses the stale `maxSlots`. Staff operations with a check outside the
transaction have a Begin and an End action. `CancelRegistration` and `SetTournamentStatus`
with its refunds are one action each, since they hold the tournament row. Left out: moved
deadlines and start times (`Planning` has them), invitations (they end in `JoinTeam`), the
flags for independent entry, the window and modes of a coupon, phone and identity checks,
`setRegistrationReady`. Fees and refunds are positive in the runs:
`ChargedOncePerEntry` counts ledger rows, and a refund of zero writes none.

**`Results`**. A participant row gets its result by `ApproveResult` (a submission that staff
verify) or by `BeginSave` and `EndSave`, the two halves of `saveAdminResult` around the lock
of the match, which may change the status of a row, keep the prize it shows or type one;
`setParticipantState` of the slot board changes the status of a row and leaves the rest. `BeginScoring` and `EndScoring` are the check and the update of a new formula.
`confirmStandings` writes the promised prizes of a match; `setResultsStatus` publishes.
Distribution is `ReadStandings`, `CheckPublication` and `Settle`: two reads outside
the transaction and the transaction, which locks the tournament and looks at the winners
again, with `RetryDistribution` and `SettleResponseLost` of the retry loop. Prizes have a kind, as
in the `prizes` table: `Awards` are what the standings give for placements, kill pools and MVP
prizes (a BONUS prize is never awarded), each with the position of its winner row. `Unskipped` is
what a loop over them creates, which passes over an award whose position is taken. A winner row
keeps the shares that were credited for it, by the frozen roster where the registration
has one. The prize a participant row shows is the position of that prize (`Row.prize`); `late` is a
history that only properties read: a result changed after a distribution had read it. So is `passed`: the
rows that showed a prize when the match was confirmed without them.

**`Sessions`**. Time is counted in graces. A refresh is `SendRefresh`, `ChooseToken` (the row
lock, and the newest live token if the presented one was just rotated), `CommitRefresh` and
`ReceiveAnswer` or `LoseAnswer`; `DenyRefresh`, `BeginReplay` and `DetectReplay` are the refusals.
`BeginEnding` and `EndSessions`, like `BeginReplay` and `DetectReplay`, are one statement that
revokes, split because its snapshot may be older than a token that commits meanwhile. `AskLink` and
`IssueLink` are `resendVerification`; `FindLink`, `MarkVerified`, `RevokeLink` and
`CreditBonus` are the four statements of `verifyEmail`, per link. The era of a token is the number of
endings before the sign-in of its session: a rotation passes on the era of the token that was
presented, also when it takes over another one. `history` remembers what a property needs to excuse
an ending: `overlap` (a sign-in or a refresh was under way), `fresh` (a sign-in since) and `revived`
(an ended session took over the token of a later sign-in).

**`EventDay`** is the tournament row, its registrations and the clock; **`CheckIn`** and
**`Rooms`** extend it and **`MatchDay`** runs the scheduler on both. `MarkAbsent` is the guarded
update of the sweep and `AuditAbsent` the audit of names read before it. A save of a room
(`BeginRoomSave`, `setTournamentRoom`) writes back columns it read; a claimer looks (`Look`),
claims (`claimRoomRelease`) and announces (`Announce`), and may fail at each step. A page needs a
seat to look; the sweep takes a room nobody holds a seat for (`Holders` says who holds one when the
day begins). SHOW and REACTIVATE clear the release mark (`setRoomStatus`) and, after that commit,
tell the audience themselves (`TellRecall`), or fail to (`RecallFails`); `recall` keeps which. An edit of
the start moves the instant of release with it (`MoveStart`; only while the event is OPEN, which
stands for every status before its end). A tick of a worker is the reminder, the no-show marks and the sweep of the
rooms in this order; `Fail` ends one job and lets the next run, `Restart` forgets the tick.
The start of the one match is fixed (`MatchAt`): its reminder compares with nothing else.

**`Capacity`** has the operators of `lib/capacity.ts` and of the estimate; **`Planning`** the
builder and the edits that use them, an edit being `CheckEdit` and `CommitEdit`.
**`Alerts`** follows a detector from the committed row (`File`) through its checks to the
search for an open alert and the write after it, and the review that writes back what it
read; the fingerprint of an alert contains the number in its title, since the code hashes
its first 120 bytes, and the burst windows contain every request of a run. `Drop` is a rejection or
a cancellation: the detectors skip rejected deposits and cancelled withdrawals (`dropped`). **`Tickets`** has
a reply as the read, the message and the status. **`Accounts`** resolves an identity by its
link, then its address, then a new account, each lookup and write a step of its own, beside
registrations. **`Settings`** is one setting and the cache of every process: a lookup asks,
finds the row and stores it, a change writes the row and then drops the entry of its own
process; values are numbered by the changes, a query ends within a tick, and a
restart empties a cache.

**`MC*`** modules give the constants their small sets, the symmetry sets and the bounds; each
`.cfg` is one question. `MCOffice` holds five parts that share no table; a behaviour
moves one of them, chosen at the start. **`DepositHistory`** adds to `Deposits` the one
history that `deposits` needs, whether the referral minimum was moved.

## 4. Runs

| Run | Question | Bounds |
|---|---|---|
| `deposits` | Is a deposit credited once if and only if it is approved, is a decision final, is the reward paid once and, while the minimum stays, never lost? | 2 deposits, 2 amounts, 2 administrators who review or delete, 4 review times, 2 minima, 1 conversion |
| `withdrawals` | Do the requests implement the abstract holds, do the holds match the rows, is an answer true, is every request that runs answered? | 2 requests, 1 key or none, 2 attempts, 2 amounts, 1 conversion or adjustment |
| `transfers` | Is the daily limit kept, does a key pay once, are answers true, does a form pay once although each click has a new key? | 2 requests, 2 keys, 2 amounts, 2 attempts, 2 days, the payer's page, a recipient who may be suspended |
| `payments` | Does the ledger explain every balance, which circles of lock waits exist, is every row released? | 1 approval with reward, 2 opposite transfers, 1 withdrawal, 1 conversion |
| `entries_duo` | Do the counter and the frozen rosters of a duo tournament hold? | 3 players of whom one cannot pay, 2 teams, 2 joins, pairing |
| `entries_solo` | Is a player charged once per entry, and a coupon overrun by fewer uses than the tournaments it is redeemed in? | 2 players, 2 joins with 2 attempts, coupon, suspension, capacity 1 or 2, a second tournament |
| `entries_seats` | Are seats disjoint, and do locked seats stay? | 2 players, 1 team, assign, clear, lock, pair |
| `results` | Are the published standings paid, once, in full, to those who were paid for, within the cap, and which rows are promised one prize? | a duo and a lone player, 1 match, 2 distributors with 2 attempts, 2 placement prizes, a kill pool above its cap, 2 MVP prizes; each status, a typed prize or none |
| `results_cancelled` (violation) | Is an event that was refunded never paid out? | as `results` |
| `sessions` | Do parallel tabs stay signed in, which sessions outlive an ending, does a link credit its bonus once? | 2 tabs and a second browser, 4 tokens, 1 ending, 1 grace elapsed, 2 links of the account, one visited twice |
| `matchday` | Are the absent recorded and nobody else, is a room released in time, not early, and told once, or twice when a switch brought it back, does a cancelled room stay so? | 2 players, who both hold a seat or neither, 1 worker, 1 viewer, 1 administrator, 2 start times, 2 releases, 1 failure or restart |
| `office` | The five parts of the back office, one at a time | see below |

`office` has: a plan of 2 seats at most, 3 first plans, 5 edits, 2 editors and 2 ticks; fraud
alerts with 3 requests in 7 scenarios, of which one may be rejected or cancelled, and one reviewer; a ticket with 3 requests; two identities of
one person, one of which hides its address, with 2 callbacks each and 1 registration; one
setting that is changed once, 2 processes and 3 reads.

Why the bounds are enough: each property relates the histories of at most two requests on
one row, or of one row over two entries. Two requests with two attempts already contain a
commit nobody heard of followed by its retry and by another request; two days contain a
transfer on each side of midnight; two slots and three players contain the last seat; two
distributors with retries contain each order of reads and settlement; three tabs and four
tokens contain a chain of two rotations beside another browser; two starts contain a move
in either direction around a release. `MaxPosts` bounds the conversions and adjustments,
`MaxClock` the times, `MaxDay` the days, `MaxAttempts`, `TrAttempts`, `JoinAttempts` and
`Attempts` the retries (the code tries three to five times, and the properties do not depend
on the number), `MaxTokens` and `MaxEndings` the tokens and the revocations, `MaxArmings` and
`MaxCrashes` the releases and failures, `MaxTicks` and `CacheTicks` the time and the lifetime of
a cached setting. `AlertWindow` is the number of open alerts a detector compares with: 1 in the
run, 25 in the code, so that the limit is reached.

State constraints cut some combinations and each says which: in `entries_solo` a suspension
is explored before the second join and not while the capacity changes, and the second tournament
is joined with coupons while nothing else goes on; in `sessions` the links,
a suspension and an archived account with the first tokens only; in `results` and `results_cancelled` rows that are absent,
or show a prize unplayed or in a draft, without a distribution, a cancellation or a change of the team;
in `matchday` attendance
without a room, a save, a failure or another start; in `office` one account that is
suspended or archived at a time, and reads of a setting that begin in order (they are
alike). The liveness properties of `matchday` are about the behaviours that stay within its bound.

`CHECK_DEADLOCK FALSE` is set everywhere because the system may stop: all requests answered,
all rows decided. Symmetry is used for identifiers that the module only compares, and only
in runs without a liveness property. `payments` starts from requests that do meet: two
transfers in opposite directions, a withdrawal by the player whose deposit is approved, and
a referrer without money of his own.

`ImplementsHolds` is a refinement and checks safety: each step of `Withdrawals` is a step
of `Holds` or leaves it alone (section 6 proves it too). The type invariants are stated in
their modules; the runs that search for deeper errors do not list them, since the proofs
contain them.

## 5. Fairness

Three runs need fairness, and it is weak fairness on the steps of something that has
started: the server runs a request to its answer, PostgreSQL grants a lock that is free, and
the timer of `index.ts` calls the tick every thirty seconds, each job of which runs to its end
or fails. `FairWithdrawalSpec` states it for the steps of a request, `PaymentFairness` for
the steps of an approval and of a transfer and for the victim of a circle of waits, which PostgreSQL
chooses after `deadlock_timeout`, and `DaySpec` for `TickStep` of each worker. No fairness is
assumed for a player, a viewer or an administrator who might start something, nor for
failures. A restart begins the tick again; restarts are bounded by `MaxCrashes`, since a
process that stops for ever at the same place records nothing. `withdrawals` needs no fairness for
retries: the attempts are bounded by the code, which is exactly what the mutant
`RetryForever` removes.

## 6. Proofs

Eight modules prove theorems about a dozen components and their composition, for any sets of users,
rows, keys, requests, tabs, teams, tournaments, staff and processes and any amounts, limits,
bounds and times that the assumptions below admit. Every safety invariant that a passing run
checks is a theorem, and so are `DecisionsAreFinal`, `LockedSeatStays`, `CancelHolds` and the refinement
`ImplementsHolds`.

The argument is the same each time: an invariant says what a request may rely on between
reading and writing, is shown to hold at the start and to survive each action, and implies
the property. A few of these properties are inductive themselves; what most of them need is below.

**`WalletProofs`** says what `Post` does, whoever calls it: it keeps the balances natural,
appends one chained entry and leaves every other bucket alone, and the ledger explains the
balances after it if it did before. `WalletStepEffect` says the same of conversion and adjustment.

**`DepositsProofs`**: `DepositTypes`, `DepositLedger`, `DepositCreditedOnce`, `DepositDecisions`,
`DepositRewardOnce`, `DepositRewardKept`. The commit of an approval posts credits for a row it
read earlier, so `DepositInv` says that an open approval has a PENDING row that nobody else
has claimed (`ClaimsHold`), that only a referred player has a referral row (`RewardRows`),
and that a row is credited, once and in full, exactly when it is APPROVED, and an id that was
never issued not at all (`CreditInv`). The reward needs `LocksHeld` besides: an approval that
has looked at the referral holds its depositor's wallet row, so that two approvals for one player
cannot both have found it pending; `RewardInv` is what the ledger then says.
`DepositRewardKept` is about `DepositHistory`: while the minimum has not been moved, an open approval has
read the present one, and if it credited a deposit that reaches it without the reward, the referral was
settled (`MinKept`).

**`OutgoingProofs`**, about withdrawals: `WithdrawalTypes`, `WithdrawalLedger`, `WithdrawalHoldsMatch`,
`WithdrawalAnswers`, `WithdrawalsImplementHolds`. `LedgerHolds` describes every list of the ledger by
row: nothing, or one debit of the share held and, when the row is rejected or cancelled, one
credit of the same amount; the two shares add up to the row. `KeysExclusive` says that a request
between insert and commit is alone with its key. The refinement maps a row to a hold and what
the lists say of it to what is taken; each step is shown to place, pay or return one hold or to
leave all of them alone.

**`OutgoingProofs`**, about transfers: `TransferTypesKept`, `TransferLedger`, `TransferLimit`, `TransferOncePerKey`,
`TransferAnswers`, `PageImplementsTransfers`, `PageFormPaidOnce`. `RequestOK` says that a request holds
the rows of its stage and that what it read under them, no row of its key and room below the
limit, is still so when it moves, a midnight later too. Sums over sets are cardinalities of sets of
units here, which the theorems on finite sets can reason about. A page step is a transfer
step or none; `PageInv` follows a form from click to answer. It excepts the clicks whose
answer was lost or unclear: each of them may pay. The proof showed that `FormPaidOnce`
must speak of requests the page has asked for (`asked[p] # 0`); a request nobody sent belongs to
no form.

**`PaymentsProofs`** puts the three on the same wallets: `PaymentLedger`, `PaymentCircles`,
`PaymentKeepsComponents`, `PaymentDecisions`, `PaymentsImplementHolds`. `LedgerGrown` states what a step
of each component adds to the ledger, entries of its own types for its own entities, and
`RowsLeft` that it leaves the locks of the others alone; with that, each component's invariant
survives the others' steps. `HeldByApprovals` and `HeldByTransfers` say who can hold a wallet row
at all. A circle without an approval that pays a referral would consist of transfers that
each hold their first row and want their second; the row of the circle with the greatest user id
is held by one that wants a greater one, and there is none.

**`SessionsProofs`**: `SessionChain`, `SessionReplay`, `SessionEnd`, `SessionBonus`. The last token lives
unless the sessions were ended (`LastLives`); nothing lives and nothing is chosen before the first sign-in
of an era, and a chosen token is of the present era unless a session was revived (`ErasKept`); one
confirmation at a time has found a link that was not raced for (`BonusInv`); and while nothing was lost or taken over the
newest token of a browser is in its jar or on its way (`Orderly`).

**`EntriesProofs`**: `EntrySeats`, `EntryCounter`, `EntryRosters`, `EntryCoupon`, `EntryBooks`, `EntryLocks`,
`EntryCharges`. `TourOK` is what a tournament, its registrations and the teams owe each other: disjoint
seats, rosters equal to the members and all of them in, a counter not below what is sold;
`JoinOK` and `PairOK` say what an open join or pairing found and keeps by the lock that `LockedOnce` is
about; `CouponInv` counts the joins that are about to redeem, one for each
tournament, and the tournaments that redeemed. `EntryCharges` has a hypothesis,
`RefundsCount`: every price that can be charged is refunded with more than zero, since a refund that rounds
to nothing writes no entry. The runs satisfy it.

**`EventProofs`**, about the day: `DayInductive`, `DayAudits`, `DayToldOnce`, `DayReleaseNotEarly`, `DayCancelHolds`.
Each step of the composition is first reduced to what it does to attendance, to the room and to the
tick, and each conjunct of `DayInv` is shown to survive those few effects. While nobody checked in
between the read and the mark of a pass (`crossed`), what a pass has read is still who is absent, unless
the event was cancelled (`ReadHolds`), so the seats it marks are those it will name, and each of
them waits for one pass (`MarkedHolds`). Whoever has claimed the reminder is alone (`ReminderInv`). A
version of the room is claimed once and announced once by its claim (`ArmingsInv`), because a claim and
the next arming both go through the release mark; versions to come are untouched. The word of a switch
about its version comes on top, once. That a release was announced is claimed while somebody holds
a seat, and who holds none gets none back (`SeatsKept`). What a page or a pass has
found unlocked is still so unless somebody moved the room meanwhile (`LookedInv`).

**`EventProofs`**, about results: `ResultTypes`, `ResultSettlements`, `ResultRosters`, `ResultStandings`,
`ResultPromises`. A sum is again a number of units (`SumIsUnits`), from which come that the shares of an
amount add up to it (`SharesAddUp`) and that a kill pool stays within its cap, since each share is
at most in proportion (`SumScales`) and distinct winners are distinct killers (`SumInjects`). Standings and
the ranking of a match are strict orders that the id of an entry completes, so a set of entries has no two of
one rank (`StandingsDiffer`, `RanksDiffer`). Two awards for one position are comparable by the order of the
loop (`AwardsComparable`), so one of them is not skipped and `SettlementsReconcile` holds although
positions collide. `StandingsInv` says that while no result changed too late, what each distribution
has read is what the standings say now, and what was paid too; so whoever comes second finds every
position taken. `PromisesInv` says what `PromisesFit` says of all rows, played or not, that the
confirmation did not pass over: then a review or the slot board, which keep the prize of a row, cannot
make two of them show one prize.

**`OfficeProofs`** has the five parts of the back office.
- Tickets (`TicketsKept`): on a ticket no two requests shared, at most one message waits for its
  status and it is the last (`OneWriter`).
- Planning (`PlanKept`, `PricedAsPlayed`): the input of an open edit still fits the seats while
  nothing crossed it (`PendingKept`), since `CommitEdit` looks at nothing again.
- Accounts (`AccountsOfIdentities`): an identity that shows its address is held to one account by the
  unique address (`ShownKept`); one that hides it by its link, or by the only sign-in that is about to
  make one (`HiddenKept`).
- Settings (`SettingTakesEffect`): what holds of answers holds of every entry and of every row a reader
  has found and not stored (`CacheKept`, `LookupsKept`): no value of an earlier tick replaced it.
- Alerts (`AlertsReach`): whoever has read an alert and not written is alone with its print (`Alone`) and
  what it read is still so (`WritesFit`, `ReviewsFit`), or the print is marked as disturbed; of two
  requests with a common mark the one looked at last raises it (`LastLookSees`), and no alert
  counts more events than happened (`NeverMore`), whatever overlapped.

The assumptions are those of the modules that declare the constants, and TLC evaluates each of
them in a run: sentinels are not elements of the sets they complete; amounts are positive and limits, times and
bounds natural; the coin rate is a positive fraction; user ids are ordered without ties; nobody
refers himself; an identity and a registration are not the same; users, tournaments, seats and
setters of a setting are finite, and there is a tournament; ids of different tables never coincide
(they are cuids), and neither do the names of approvals and transfers.

Only model-checked is liveness: `RequestsEnd`, `RowsAreReleased`, `AbsencesRecorded` and `RoomsReleased`. The provers
have no rule for fairness here.

## 7. Where the code and its comments disagree

One run ends with a counterexample. `RefundedOrPaid` (`results_cancelled`):
`distributePrizesOnce` reads the status of the tournament at `result.service.ts:401` and locks
the tournament at 502, where it looks at the winners and not at the status again. A
cancellation that commits in between refunds every entry, and the prizes are paid as well,
while the comment at 498 says that the lock serializes the settlement against cancellation.

Everything below was met while reading or modelling. The models have the behaviour, or say
that they leave it out, and the properties of the runs except it; none of it is a run.

Money and entries:
- A deposit that is approved after `deleteDeposit` has read its status is deleted with its
  credit kept (`payment.service.ts:715`, 723).
- When the referral minimum is lowered after an approval below it, the next qualifying
  approval is no longer the first and the reward stays pending (`payment.service.ts:670`, 673).
- A coupon used in two tournaments at once may pass its limit (`tournament.service.ts:506`,
  507); pairing and the team service share no lock, so a player may be in two teams of a
  mode (`slot.service.ts:341`, 342); pairing leaves players in their own seats, while
  `schema.prisma:747` says that the members of a team share its seat.
- The floor of a capacity change is read outside its transaction (`admin.service.ts:641`,
  668, 747). An edit of the number of teams alone may fall below the minimum to start, and the
  confirmation of a loss (`tournament-economics.service.ts:10`) is asked of the creation, not of an edit.
- Each click of the transfer page has a new key (`page.tsx:93`) though lines 3 and 4 say that
  double payment is blocked by the key; the page of the withdrawals keeps its key
  (`withdraw/page.tsx:94`). A transfer that committed unheard and is tried again after the
  recipient or the sender was suspended is answered "refused", though it was paid: the
  status of the account is checked before the key. The next click pays again. These are the
  cases `Unclear` excepts from `FormPaidOnce`.
- `finance.service.ts:106-125` and 195-215: a cancelled entry is no longer in the gross income,
  which counts CONFIRMED entries, and its refund is subtracted as well.

Results:
- An award whose position has a winner row is passed over as "already created"
  (`result.service.ts:546`), but all kill pools count their positions from 100 (464) and all MVP prizes
  have 200 (479). Of two MVP prizes, which the builder accepts and budgets
  (`tournaments/new/page.tsx:60-68`), the second is taken for the first and never paid:
  `StandingsArePaid` speaks of the awards `Unskipped`, and `results` has such prizes.
- "Published results are immutable" (`result.service.ts:918`) holds for staff entry and not
  for `reviewResult`. The formula of a tournament is changed after a check outside the
  transaction (`admin.service.ts:314`, 325).
- `confirmStandings` settles the unranked rows "so no stale points/prize survives from an earlier draft"
  (1079), but only among the rows played and present that it read (1026). A row that showed a prize and was
  saved back to REGISTERED, disqualified or set absent (876, `slot.service.ts:264`) keeps it, and when a
  review or the slot board makes it a played row again, two rows show one prize: `passed` excepts it.
- `confirmStandings` looks for the prize whose position is the rank (1070), the distribution gives
  the placement prizes to the ranked in their order (433-437): with a prize of another kind between two
  placements the amount shown is not the amount paid. A prize of kind BONUS is never awarded, though
  `TOURNAMENT_ENTRY_FLOW.md:255` lists "bonus" among the credits.

Accounts and sessions:
- A refresh that comes late within the grace takes over the newest live token even when it is
  another browser's, which is then logged out as a replay, with every session
  (`auth.service.ts:353`, 322). The same holds of a browser whose session was ended: when somebody
  signs in again within the grace, its cookie chains onto the new token and it lives on, though
  444-446 says that a replay of any sibling cookie "can never revive the session". The property
  `SessionsEndTogether` names this exception (`revived`).
- `resendVerification` issues one more link and leaves the earlier ones live (231-239), and
  `verifyEmail` asks neither whether the account is verified nor about other links: two links credit
  the welcome bonus twice, one after the other, though `prisma/seed.ts:167` calls it a "One-time
  bonus for new verified players". `BonusOncePerLink` therefore counts per link.
- `verifyEmail` makes the account ACTIVE whatever its status was (199-202). `deleteUser`
  leaves sessions live, and `setUserStatus` can restore the status of a deleted account.
- A registration that fails after the user row leaves no referral row (139, 160). An identity
  that hides its address may get two accounts from two callbacks at once (`oauth.service.ts:277`).

The day of the event:
- The audits of a no-show sweep name candidates read before the mark, so that a player who
  just checked in may be named (`checkin.service.ts:211-226`).
- A release whose announcement failed is not announced again, though `room.service.ts:810`
  says that the next tick of the scheduler retries. A reminder that was claimed before a stop is lost.
- A claim guarded by the release mark alone may stamp a room that was cancelled, hidden or
  re-armed since it was read. A save writes back a hidden flag it read.
- SHOW and REACTIVATE tell the audience that the room is unlocked (`room.service.ts:645-672`) and
  clear the release mark (608-611), so that the page or sweep that claims the same version tells it
  again, against "the audience is told once about each version" (410) and "told once about each version
  of the room" (`schema.prisma:710`). `ToldOnce` allows these versions one word more and no other any.
  The word is also sent of a room that is still locked, and by SHOW of one that is cancelled as well. `match.service.ts:443` notifies again.

The back office:
- The details of an alert are lost or doubled when detectors or a reviewer overlap, and alerts
  are deduplicated per number in their title, against "DEDUPLICATED" (`fraud.service.ts:13`).
  Rejected joins are counted one too many, and those for an insufficient balance too, though
  `fraud.service.ts:548` calls them normal (`tournament.service.ts:313-326`). A deposit that the unique index refuses raises no
  alert for its number (`payment.service.ts:207`, 186).
- "CLOSED tickets are immutable" (`support.service.ts:13`), but a reply by staff reopens one
  (`admin.service.ts:1237`).
- A read of a setting that overlaps its change and the drop of the entry stores the old value
  for another lifetime (`settings.service.ts:11-13`); `Overtaken` says so in the property.

## 8. Not modelled

- Of modelled components: the cache of player statistics, soft deletion of matches and tournaments,
  recipients whose wallet is gone, rounding of floating-point
  sums, the exchange with the identity providers, the lockout counter, the expiry of tokens,
  the back-off of the web client, the status cache of a room, the alert of its cancellation, the
  rooms of single matches and the rescheduling by `updateMatchRoom`, the numbers of rows the detectors and sweeps take
  at a time, the audits of a check-in, the detectors of failed logins and coupon guesses, the flags of
  a registration that nothing reads.
- Finance reports, public pages and the admin lists are reads. Notifications, push, mail and
  the assistant are output: who is told, and how often, is in `Rooms` and `MatchDay`. Uploads are
  file handling, payment accounts plain edits of reference rows.
- Validation (`validation/*.schema.ts`) and the HTTP layer appear only as the input sets.
- The clients are presentation, except the refresh of a tab and the page that sends money; a
  client that repeats a request is a second request here.

The definitions stand for about a seventh of the lines of the repository. Most of the others are the
screens of the three clients, seed data, scripts, tests, styles and queries that only read: they
have no state of their own that could go wrong in the sense of these models.
