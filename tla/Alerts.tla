------------------------------- MODULE Alerts -------------------------------
(***************************************************************************)
(* Fraud alerts (services/fraud.service.ts).                               *)
(*                                                                         *)
(* After a request has committed its row a detector looks at the rows of   *)
(* the moment, one check after another, and raises an alert for what it    *)
(* finds: it looks for an open alert with the same print, and adds to it   *)
(* or writes a new one.  Nothing holds the two together, and a review of   *)
(* an alert also writes back what it read, so detectors and reviewers      *)
(* interleave between any two statements.                                  *)
(*                                                                         *)
(* All requests fall into the windows of the bursts, and every number of   *)
(* rows a check takes is larger than the rows there are.                   *)
(***************************************************************************)
EXTENDS Integers, Sequences, FiniteSetsExt

CONSTANTS
    Filing,        \* requests
    Filings,       \* what each may be
    Account,
    Reviewer,
    BurstLimit,    \* the limit of each check that counts
    Multiplier,    \* security.unusualDepositMultiplier
    Deposited,     \* approved deposits of each account within the churn hours
    NewAccounts,   \* accounts younger than security.newAccountWithdrawalDays
    NoMark,        \* a request with nothing to compare
    AlertWindow    \* how many open alerts of a kind a detector looks at: 25 in the code

VARIABLES
    filing,    \* what each request is
    filed,     \* the requests whose row is committed
    dropped,   \* the deposits that were rejected, and the withdrawals that were cancelled
    detector,
    alerts,    \* "fraud_alerts", the newest last
    review,
    enabled,   \* security.fraudDetectionEnabled
    events,    \* what was written into an alert: the request, the check and the alert
    judged,    \* the events a review of each alert knew, {} before
    blurred    \* prints raised or reviewed twice at once, or beside too many others

alertVars == <<filing, filed, dropped, detector, alerts, review, enabled, events, judged, blurred>>

\* What an alert is about: the kind, the subject, and the number in its title.
Fingerprint(kind, subject, n) == [kind |-> kind, subject |-> subject, number |-> n]

NoFingerprint == Fingerprint("none", {}, 0)

Subject == Filing \union Account \union {g[f].mark : g \in Filings, f \in Filing}

Kinds == {"none", "REUSED_PROOF", "DUPLICATE_PROOF", "DEPOSIT_BURST", "UNUSUAL_DEPOSIT_AMOUNT",
          "WITHDRAWAL_BURST", "DEPOSIT_WITHDRAW_CHURN", "NEW_ACCOUNT_WITHDRAWAL",
          "SHARED_PAYOUT_ACCOUNT", "IDENTICAL_RESULT_CLAIMS", "REPEATED_JOIN_FAILURES",
          "MULTI_ACCOUNT_REGISTRATION", "DUPLICATE_TID", "REFRESH_TOKEN_REUSE",
          "HIGH_VALUE_TRANSFER"}

Prints == [kind : Kinds, subject : SUBSET Subject, number : Nat]

AlertRow == [print : Prints, status : {"OPEN", "DECIDED"}, occurrences : Nat \ {0}]

\* A detector in the check it has come to, and the alert it found with its occurrences.
DetectorRow == [stage : {"new", "check", "match", "write", "done"}, check : Nat, print : Prints,
                alert : Nat, seen : Nat, missed : BOOLEAN]

Event == [filing : Filing, check : Nat, alert : Nat \ {0}]

ReviewRow == [alert : Nat, seen : Nat, knows : SUBSET Event]

NoDetector == [stage |-> "new", check |-> 0, print |-> NoFingerprint, alert |-> 0, seen |-> 0,
               missed |-> FALSE]

NoReview == [alert |-> 0, seen |-> 0, knows |-> {}]

Checks == [t \in {"deposit", "withdrawal", "claim", "rejected join", "registration", "refused id",
                  "replay", "transfer"} |->
    CASE t = "deposit" -> <<"proof", "deposits", "amount">>
      [] t = "withdrawal" -> <<"withdrawals", "churn", "new account", "payout">>
      [] OTHER -> <<t>>]

ASSUME AlertAssumption ==
    /\ AlertWindow \in Nat \ {0} /\ Multiplier \in Nat
    /\ Deposited \in [Account -> Nat] /\ NewAccounts \subseteq Account
    /\ \A g \in Filings, f \in Filing :
          g[f].table \in DOMAIN Checks /\ g[f].account \in Account /\ g[f].amount \in Nat
    /\ BurstLimit \in [{"deposits", "withdrawals", "rejected join", "registration", "transfer"} -> Nat]

-----------------------------------------------------------------------------
Mine(f) == filing[f]

\* Committed requests of the kind of f, f included.
Peers(f) == {g \in filed : Mine(g).table = Mine(f).table}

OfAccount(f) == {g \in Peers(f) : Mine(g).account = Mine(f).account}

\* The same screenshot, payout account, claim or address.
SameMark(f) == {g \in Peers(f) : Mine(g).mark = Mine(f).mark /\ Mine(f).mark # NoMark}

AccountsOf(fs) == {Mine(g).account : g \in fs}

\* A cancelled withdrawal is not looked at; deposits and claims are, whatever became of them.
Counts(g) == Mine(g).table = "withdrawal" => g \notin dropped

Others(f) == {g \in SameMark(f) : Mine(g).account # Mine(f).account /\ Counts(g)}

When(condition, print) == IF condition THEN {print} ELSE {}

Burst(kind, subject, n, check) == When(n > BurstLimit[check], Fingerprint(kind, subject, n))

Unusual(f) ==
    LET prior == OfAccount(f) \ ({f} \union dropped)
        total == MapThenSumSet(LAMBDA g : Mine(g).amount, prior)
    IN  /\ Cardinality(prior) >= 2 /\ total > 0
        /\ Mine(f).amount * Cardinality(prior) >= total * Multiplier

\* detectDepositFraud; its look for a second row with the transaction id finds none, for the
\* id is unique.
OfDeposit(f, check) ==
    LET d == Mine(f) IN
    CASE check = "proof" ->
            IF Others(f) # {} THEN {Fingerprint("REUSED_PROOF", {d.mark}, 0)}
            ELSE When(SameMark(f) \ {f} # {},
                      Fingerprint("DUPLICATE_PROOF", {d.account, d.mark}, 0))
      [] check = "deposits" ->
            Burst("DEPOSIT_BURST", {d.account}, Cardinality(OfAccount(f)), check)
      [] check = "amount" -> When(Unusual(f), Fingerprint("UNUSUAL_DEPOSIT_AMOUNT", {f}, 0))

OfWithdrawal(f, check) ==
    LET w == Mine(f) IN
    CASE check = "withdrawals" ->
            Burst("WITHDRAWAL_BURST", {w.account}, Cardinality(OfAccount(f)), check)
      [] check = "churn" ->
            When(w.amount > 0 /\ w.amount <= Deposited[w.account],
                 Fingerprint("DEPOSIT_WITHDRAW_CHURN", {f}, 0))
      [] check = "new account" ->
            When(w.account \in NewAccounts, Fingerprint("NEW_ACCOUNT_WITHDRAWAL", {f}, 0))
      [] check = "payout" ->
            When(Others(f) # {}, Fingerprint("SHARED_PAYOUT_ACCOUNT", {w.mark},
                                       1 + Cardinality(AccountsOf(Others(f)))))

OfClaim(f) == When(Others(f) # {}, Fingerprint("IDENTICAL_RESULT_CLAIMS", {Mine(f).mark}, 0))

\* A rejected join is in the audit log before its detector counts, and it adds one more.
OfRejectedJoin(f) ==
    LET n == Cardinality(OfAccount(f)) + 1 IN
    When(n >= BurstLimit["rejected join"],
         Fingerprint("REPEATED_JOIN_FAILURES", {Mine(f).account}, n))

OfRegistration(f) ==
    Burst("MULTI_ACCOUNT_REGISTRATION", {Mine(f).mark}, Cardinality(AccountsOf(SameMark(f))),
          "registration")

\* A transaction id that another account claimed: no row is written for it.
OfRefusedId(f) == {Fingerprint("DUPLICATE_TID", {Mine(f).mark}, 0)}

OfReplay(f) == {Fingerprint("REFRESH_TOKEN_REUSE", {Mine(f).account}, 0)}

OfTransfer(f) ==
    When(Mine(f).amount >= BurstLimit["transfer"], Fingerprint("HIGH_VALUE_TRANSFER", {f}, 0))

Signal(f) ==
    LET t == Mine(f).table
        check == Checks[t][detector[f].check]
    IN  CASE t = "deposit" -> OfDeposit(f, check)
          [] t = "withdrawal" -> OfWithdrawal(f, check)
          [] t = "claim" -> OfClaim(f)
          [] t = "rejected join" -> OfRejectedJoin(f)
          [] t = "registration" -> OfRegistration(f)
          [] t = "refused id" -> OfRefusedId(f)
          [] t = "replay" -> OfReplay(f)
          [] t = "transfer" -> OfTransfer(f)

-----------------------------------------------------------------------------
Step(f, d) == detector' = [detector EXCEPT ![f] = d]

NextCheck(f) ==
    LET last == detector[f].check = Len(Checks[Mine(f).table])
    IN  [detector[f] EXCEPT !.stage = IF last THEN "done" ELSE "check",
                            !.check = IF last THEN 0 ELSE @ + 1,
                            !.print = NoFingerprint, !.alert = 0, !.seen = 0]

\* A detector or a review has read an alert of the print and not written yet.
Busy(p) ==
    \/ \E g \in Filing : detector[g].stage = "write" /\ detector[g].print = p
    \/ \E v \in Reviewer : review[v].alert # 0 /\ alerts[review[v].alert].print = p

File(f) ==
    /\ detector[f].stage = "new"
    /\ filed' = filed \union {f}
    /\ Step(f, [detector[f] EXCEPT !.stage = "check", !.check = 1])
    /\ UNCHANGED <<filing, dropped, alerts, review, enabled, events, judged, blurred>>

\* reviewDeposit with a rejection, cancelWithdrawal.
Drop(f) ==
    /\ f \in filed \ dropped /\ Mine(f).table \in {"deposit", "withdrawal"}
    /\ dropped' = dropped \union {f}
    /\ UNCHANGED <<filing, filed, detector, alerts, review, enabled, events, judged, blurred>>

\* The rows are read, and then the setting.
Check(f) ==
    /\ detector[f].stage = "check"
    /\ \/ Signal(f) = {} /\ Step(f, NextCheck(f))
       \/ \E p \in Signal(f) :
             Step(f, [detector[f] EXCEPT !.stage = "match", !.print = p])
    /\ UNCHANGED <<filing, filed, dropped, alerts, review, enabled, events, judged, blurred>>

\* Mutant of OpenAlerts: reviewed alerts are looked through as well.
AlertsOfKind(kind) == {i \in DOMAIN alerts : alerts[i].print.kind = kind}

OpenAlerts(kind) == {i \in DOMAIN alerts : alerts[i].print.kind = kind /\ alerts[i].status = "OPEN"}

\* The newest of them, as many as one query takes.
Window(kind) ==
    {i \in OpenAlerts(kind) : Cardinality({j \in OpenAlerts(kind) : j > i}) < AlertWindow}

Matching(p) == {i \in Window(p.kind) : alerts[i].print = p}

Match(f) ==
    LET p == detector[f].print IN
    /\ detector[f].stage = "match"
    /\ IF enabled
       THEN /\ Step(f, [detector[f] EXCEPT
                   !.stage = "write", !.alert = IF Matching(p) = {} THEN 0 ELSE Max(Matching(p)),
                   !.seen = IF Matching(p) = {} THEN 0 ELSE alerts[Max(Matching(p))].occurrences])
            /\ blurred' = IF Busy(p) \/ Cardinality(OpenAlerts(p.kind)) > AlertWindow
                          THEN blurred \union {p} ELSE blurred
       ELSE Step(f, [NextCheck(f) EXCEPT !.missed = TRUE]) /\ blurred' = blurred
    /\ UNCHANGED <<filing, filed, dropped, alerts, review, enabled, events, judged>>

\* An alert that was found keeps whatever status it has now.
Write(f) ==
    LET d == detector[f]
        at == IF d.alert = 0 THEN Len(alerts) + 1 ELSE d.alert IN
    /\ d.stage = "write"
    /\ alerts' = IF d.alert = 0
                 THEN Append(alerts, [print |-> d.print, status |-> "OPEN", occurrences |-> 1])
                 ELSE [alerts EXCEPT ![at].occurrences = d.seen + 1]
    /\ judged' = IF d.alert = 0 THEN Append(judged, {}) ELSE judged
    /\ events' = events \union {[filing |-> f, check |-> d.check, alert |-> at]}
    /\ Step(f, NextCheck(f))
    /\ UNCHANGED <<filing, filed, dropped, review, enabled, blurred>>

\* A failed statement inside raiseFraudAlert ends one alert, elsewhere the detector.
DetectorFails(f) ==
    /\ \/ detector[f].stage = "write" /\ Step(f, [NextCheck(f) EXCEPT !.missed = TRUE])
       \/ detector[f].stage \in {"check", "match"}
          /\ Step(f, [NoDetector EXCEPT !.stage = "done", !.missed = TRUE])
    /\ UNCHANGED <<filing, filed, dropped, alerts, review, enabled, events, judged, blurred>>

-----------------------------------------------------------------------------
EventsOf(i) == {e \in events : e.alert = i}

BeginReview(v, i) ==
    /\ review[v].alert = 0 /\ alerts[i].status = "OPEN"
    /\ review' = [review EXCEPT ![v] = [alert |-> i, seen |-> alerts[i].occurrences,
                                        knows |-> EventsOf(i)]]
    /\ blurred' = IF Busy(alerts[i].print) THEN blurred \union {alerts[i].print}
                  ELSE blurred
    /\ UNCHANGED <<filing, filed, dropped, detector, alerts, enabled, events, judged>>

\* The details read before are written back with the note.  REVIEWED and DISMISSED, the two
\* decisions, differ in name only.
CommitReview(v) ==
    LET i == review[v].alert IN
    /\ i # 0
    /\ alerts' = [alerts EXCEPT ![i].status = "DECIDED", ![i].occurrences = review[v].seen]
    /\ judged' = [judged EXCEPT ![i] = review[v].knows]
    /\ review' = [review EXCEPT ![v] = NoReview]
    /\ UNCHANGED <<filing, filed, dropped, detector, enabled, events, blurred>>

ReviewFails(v) ==
    /\ review[v].alert # 0
    /\ review' = [review EXCEPT ![v] = NoReview]
    /\ UNCHANGED <<filing, filed, dropped, detector, alerts, enabled, events, judged, blurred>>

SwitchDetection ==
    /\ enabled' = ~enabled
    /\ UNCHANGED <<filing, filed, dropped, detector, alerts, review, events, judged, blurred>>

AlertInit ==
    /\ filing \in Filings
    /\ filed = {} /\ dropped = {} /\ alerts = <<>> /\ judged = <<>> /\ events = {} /\ blurred = {}
    /\ detector = [f \in Filing |-> NoDetector]
    /\ review = [v \in Reviewer |-> NoReview]
    /\ enabled \in BOOLEAN

AlertNext ==
    \/ \E f \in Filing : File(f) \/ Drop(f) \/ Check(f) \/ Match(f) \/ Write(f) \/ DetectorFails(f)
    \/ \E v \in Reviewer :
          \/ \E i \in DOMAIN alerts : BeginReview(v, i)
          \/ CommitReview(v) \/ ReviewFails(v)
    \/ SwitchDetection

AlertSpec == AlertInit /\ [][AlertNext]_alertVars

-----------------------------------------------------------------------------
AlertTypeOK ==
    /\ filing \in Filings /\ filed \subseteq Filing /\ dropped \subseteq filed /\ enabled \in BOOLEAN
    /\ alerts \in Seq(AlertRow) /\ events \subseteq Event
    /\ judged \in Seq(SUBSET Event) /\ Len(judged) = Len(alerts)
    /\ detector \in [Filing -> DetectorRow] /\ review \in [Reviewer -> ReviewRow]
    /\ \A f \in Filing : detector[f].alert <= Len(alerts)
    /\ \A v \in Reviewer :
          review[v].alert <= Len(alerts) /\ (review[v].alert # 0 => review[v].seen # 0)

Shared == {"REUSED_PROOF", "SHARED_PAYOUT_ACCOUNT", "IDENTICAL_RESULT_CLAIMS"}

Settled(f) == detector[f].stage = "done" /\ ~detector[f].missed

\* Of two requests that each find the other, one was raised by a detector that saw both.
Raised ==
    \A f, g \in filed :
        g \in Others(f) /\ f \in Others(g) /\ Settled(f) /\ Settled(g)
        /\ Mine(f).table \in {"deposit", "withdrawal", "claim"} =>
            \E e \in events : e.filing \in {f, g} /\ alerts[e.alert].print.kind \in Shared

(* fraud.service.ts:13, of two requests of two accounts that share a       *)
(* screenshot, a payout account or a claim, whichever is looked at last    *)
(* raises it, however detectors and reviews interleave, unless it is of a  *)
(* withdrawal that was cancelled.  No alert counts more than happened.     *)
(* Every event counts in an alert that is open, or that a reviewer who     *)
(* knew the event decided, with one open alert for each print, unless two  *)
(* of a print are written at once or more alerts are open than a detector  *)
(* looks at.                                                               *)
EventsReachStaff ==
    /\ Raised
    /\ \A i \in DOMAIN alerts : alerts[i].occurrences <= Cardinality(EventsOf(i))
    /\ \A i \in DOMAIN alerts : alerts[i].print \notin blurred =>
          /\ alerts[i].occurrences = Cardinality(EventsOf(i))
          /\ alerts[i].status = "OPEN" \/ EventsOf(i) = judged[i]
          /\ \A j \in DOMAIN alerts :
                i # j /\ alerts[j].print = alerts[i].print =>
                    "OPEN" \notin {alerts[i].status} \intersect {alerts[j].status}
=============================================================================
