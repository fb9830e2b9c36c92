------------------------------ MODULE Sessions ------------------------------
(***************************************************************************)
(* The sessions of one account (services/auth.service.ts, lib/tokens.ts,   *)
(* setUserStatus and deleteUser of services/admin.service.ts) and the      *)
(* browsers that use them (frontend/src/lib/client-api.ts).                *)
(*                                                                         *)
(* A browser keeps one refresh cookie and one access token for all of its  *)
(* tabs; each tab has at most one refresh under way.  The server rotates   *)
(* the presented token in a transaction that locks its row, and a token    *)
(* revoked within the grace is chained onto the newest live token of the   *)
(* account.  A refresh is one step up to the choice of the token it will   *)
(* rotate, a second one from there to the commit, and its answer arrives   *)
(* in any order, or never.                                                 *)
(*                                                                         *)
(* Time is counted in graces: a token is replayed late when it was revoked *)
(* at an earlier tick.  Requests are served and answered within a tick.    *)
(***************************************************************************)
EXTENDS Integers, Sequences, FiniteSets, FiniteSetsExt

CONSTANTS
    Browser,
    Tab,
    Home,           \* the browser of each tab
    NoBrowser,
    Link,           \* e-mailed confirmation links
    Confirmation,   \* requests that follow a link
    LinkOf,         \* the link each of them follows
    StaffMoves,     \* what administrators do: some of "suspend", "restore", "delete"
    MaxTokens,      \* bounds the refresh tokens issued
    MaxEndings,     \* bounds the revocations of all sessions
    MaxClock        \* bounds the ticks

VARIABLES
    account,   \* "users": status, isVerified and deletedAt
    tokens,    \* "auth_tokens" of type REFRESH, in order of creation
    clock,
    jar,       \* the cookie of each browser: the number of a token, 0 for none
    access,    \* whether the browser stores an access token
    signin,    \* the browser whose login has checked the account and issued no token yet
    refresh,   \* the refresh of each tab
    ending,    \* the statement that revokes every session
    link,      \* the "auth_tokens" row of each link: asked for, live or revoked
    confirm,   \* the progress of each confirmation
    bonuses,   \* welcome bonuses credited through each link
    history    \* what the properties remember: no action reads it

sessionVars == <<account, tokens, clock, jar, access, signin, refresh, ending, link,
                 confirm, bonuses, history>>

Never == MaxClock + 1

\* The era is the number of revocations of all sessions before the sign-in of the session.
TokenRow == [revokedAt : 0..Never, home : Browser, era : Nat]

IdleRefresh == [stage |-> "idle", presented |-> 0, target |-> 0, reply |-> 0]

\* A reply of 0 is a refusal (401).
Refresh == [stage : {"idle", "sent", "chosen", "replay", "answered"}, presented : 0..MaxTokens,
            target : 0..MaxTokens, reply : 0..MaxTokens]

NotEnding == [kind |-> "none", browser |-> NoBrowser, seen |-> {}]

Ending == [kind : {"none", "logout", "password", "reset", "suspend"}, browser : Browser \union {NoBrowser},
           seen : SUBSET (1..MaxTokens)]

\* era counts the revocations; overlap, a session was issued while the last of them ran;
\* fresh, a sign-in since it; revived, a session that it ended took over the token of a
\* later sign-in; lost, an answer lost or overtaken; taken, a token taken over from another
\* browser; denied, a refresh refused within the grace; replayed, one taken for a replay;
\* raced, the links that two confirmations found before either revoked them.
History == [era : Nat, overlap : BOOLEAN, fresh : BOOLEAN, revived : BOOLEAN, lost : BOOLEAN,
            taken : BOOLEAN, denied : BOOLEAN, replayed : BOOLEAN, raced : SUBSET Link]

ASSUME SessionAssumption ==
    /\ Home \in [Tab -> Browser] /\ NoBrowser \notin Browser
    /\ LinkOf \in [Confirmation -> Link]
    /\ StaffMoves \subseteq {"suspend", "restore", "delete"}
    /\ MaxTokens \in Nat \ {0} /\ MaxEndings \in Nat /\ MaxClock \in Nat

-----------------------------------------------------------------------------
Live(t) == tokens[t].revokedAt = Never
LiveTokens == {t \in DOMAIN tokens : Live(t)}

\* Mutant of Recent: there is no grace.
RecentNever(t) == FALSE

\* Revoked, and within the grace.
Recent(t) == ~Live(t) /\ tokens[t].revokedAt = clock

\* The rows that the transactions of some refreshes hold.
Held(is) == {refresh[i].presented : i \in {j \in is : refresh[j].stage \in {"chosen", "replay"}}}

Locked == Held(Tab)

revoked(ts, seen) ==
    [t \in DOMAIN ts |-> IF t \in seen /\ ts[t].revokedAt = Never
                         THEN [ts[t] EXCEPT !.revokedAt = clock] ELSE ts[t]]

NewToken(b, era) == [revokedAt |-> Never, home |-> b, era |-> era]

-----------------------------------------------------------------------------
(***************************************************************************)
(* Sign-in.  The account is read before the token is issued; one sign-in   *)
(* is under way at a time, by a browser without an access token.           *)
(***************************************************************************)
BeginLogin(b) ==
    /\ signin = {} /\ ~access[b]
    /\ account.status = "ACTIVE" /\ ~account.deleted
    /\ signin' = {b}
    /\ UNCHANGED <<account, tokens, clock, jar, access, refresh, ending, link, confirm, bonuses, history>>

login(b) ==
    /\ b \in signin /\ Len(tokens) < MaxTokens
    /\ tokens' = Append(tokens, NewToken(b, history.era))
    /\ jar' = [jar EXCEPT ![b] = Len(tokens) + 1]
    /\ access' = [access EXCEPT ![b] = TRUE]
    /\ signin' = {}
    /\ history' = [history EXCEPT !.fresh = TRUE]
    /\ UNCHANGED <<account, clock, refresh, ending, link, confirm, bonuses>>

-----------------------------------------------------------------------------
(***************************************************************************)
(* Refresh                                                                 *)
(***************************************************************************)
\* doRefreshAccessToken: one at a time in a tab, and none without an access token.
\* A request without a cookie ends the session of the browser.
SendRefresh(i) ==
    LET b == Home[i]
    IN  /\ refresh[i].stage = "idle" /\ access[b]
        /\ refresh' = [refresh EXCEPT ![i] =
               IF jar[b] = 0 THEN [IdleRefresh EXCEPT !.stage = "answered"]
                             ELSE [IdleRefresh EXCEPT !.stage = "sent", !.presented = jar[b]]]
        /\ UNCHANGED <<account, tokens, clock, jar, access, signin, ending, link, confirm, bonuses, history>>

\* Mutant of Successors: the chain follows older tokens.
SuccessorsOlder(t) == {s \in LiveTokens : s < t}

\* The live tokens that a recently revoked token is chained onto.
Successors(t) == {s \in LiveTokens : s > t}

Target(t) == IF Live(t) THEN t ELSE Max(Successors(t))

\* refreshSession up to the choice of the token to rotate, under the lock of the
\* presented row.
ChooseToken(i) ==
    LET t == refresh[i].presented
    IN  /\ refresh[i].stage = "sent" /\ t \notin Locked
        /\ Live(t) \/ (Recent(t) /\ Successors(t) # {})
        /\ refresh' = [refresh EXCEPT ![i].stage = "chosen", ![i].target = Target(t)]
        /\ UNCHANGED <<account, tokens, clock, jar, access, signin, ending, link, confirm, bonuses, history>>

Refuse(i) == refresh' = [refresh EXCEPT ![i] = [IdleRefresh EXCEPT !.stage = "answered"]]

\* The chain has ended.
DenyRefresh(i) ==
    LET t == refresh[i].presented
    IN  /\ refresh[i].stage = "sent" /\ t \notin Locked
        /\ Recent(t) /\ Successors(t) = {}
        /\ Refuse(i)
        /\ history' = [history EXCEPT !.denied = TRUE]
        /\ UNCHANGED <<account, tokens, clock, jar, access, signin, ending, link, confirm, bonuses>>

\* A token revoked before the grace: every session of the account ends.  The statement
\* revokes what lived when it began, and waits for the rows that refreshes hold.
BeginReplay(i) ==
    LET t == refresh[i].presented
    IN  /\ refresh[i].stage = "sent" /\ t \notin Locked
        /\ ~Live(t) /\ ~Recent(t)
        /\ refresh' = [refresh EXCEPT ![i].stage = "replay", ![i].target = Len(tokens)]
        /\ history' = [history EXCEPT !.replayed = TRUE]
        /\ UNCHANGED <<account, tokens, clock, jar, access, signin, ending, link, confirm, bonuses>>

DetectReplay(i) ==
    LET seen == 1..refresh[i].target
    IN  /\ refresh[i].stage = "replay"
        /\ LiveTokens \intersect seen \intersect Locked = {}
        /\ tokens' = revoked(tokens, seen)
        /\ Refuse(i)
        /\ UNCHANGED <<account, clock, jar, access, signin, ending, link, confirm, bonuses, history>>

\* The chosen token is revoked, whatever became of it, and a new one issued, which
\* continues the session of the presented one.
Rotated(ts, t, b, era) ==
    Append([ts EXCEPT ![t].revokedAt = clock], NewToken(b, era))

\* The update of the chosen row waits for whoever holds it.  rotateRefreshChain
\* refuses an account that is suspended or banned, and all is rolled back.
CommitRefresh(i) ==
    LET r == refresh[i]
        b == Home[i]
        era == tokens[r.presented].era
    IN  /\ r.stage = "chosen" /\ r.target \notin Held(Tab \ {i})
        /\ IF account.status = "ACTIVE"
           THEN /\ Len(tokens) < MaxTokens
                /\ tokens' = Rotated(tokens, r.target, b, era)
                /\ refresh' = [refresh EXCEPT ![i] =
                       [IdleRefresh EXCEPT !.stage = "answered", !.reply = Len(tokens) + 1]]
                /\ history' = [history EXCEPT !.taken = @ \/ tokens[r.target].home # b,
                                             !.revived = @ \/ era < tokens[r.target].era]
           ELSE Refuse(i) /\ UNCHANGED <<tokens, history>>
        /\ UNCHANGED <<account, clock, jar, access, signin, ending, link, confirm, bonuses>>

\* Set-Cookie replaces whatever the browser holds; a refusal ends its session.
ReceiveAnswer(i) ==
    LET b == Home[i]
        reply == refresh[i].reply
    IN  /\ refresh[i].stage = "answered"
        /\ jar' = IF reply = 0 THEN jar ELSE [jar EXCEPT ![b] = reply]
        /\ access' = [access EXCEPT ![b] = (reply # 0)]
        /\ refresh' = [refresh EXCEPT ![i] = IdleRefresh]
        /\ history' = [history EXCEPT !.lost = @ \/ (reply # 0 /\ reply < jar[b])]
        /\ UNCHANGED <<account, tokens, clock, signin, ending, link, confirm, bonuses>>

LoseAnswer(i) ==
    /\ refresh[i].stage = "answered"
    /\ refresh' = [refresh EXCEPT ![i] = IdleRefresh]
    /\ history' = [history EXCEPT !.lost = TRUE]
    /\ UNCHANGED <<account, tokens, clock, jar, access, signin, ending, link, confirm, bonuses>>

\* A grace passes while no request is under way.
Tick ==
    /\ clock < MaxClock
    /\ \A i \in Tab : refresh[i].stage = "idle"
    /\ signin = {}
    /\ ending = NotEnding
    /\ clock' = clock + 1
    /\ UNCHANGED <<account, tokens, jar, access, signin, refresh, ending, link, confirm, bonuses, history>>

-----------------------------------------------------------------------------
(***************************************************************************)
(* The end of all sessions: logout, a changed or reset password, a         *)
(* suspension.  One statement revokes the tokens that were live when it    *)
(* began; it waits for the rows that refreshes have locked.  A reset also  *)
(* revokes the links.                                                      *)
(***************************************************************************)
BeginEnding(kind, b) ==
    /\ ending = NotEnding /\ history.era < MaxEndings
    /\ kind = "logout" => jar[b] # 0
    /\ kind = "password" => access[b] /\ account.status = "ACTIVE"
    /\ kind = "reset" => b = NoBrowser
    /\ kind = "suspend" => b = NoBrowser /\ "suspend" \in StaffMoves
    /\ ending' = [kind |-> kind, browser |-> b, seen |-> LiveTokens]
    /\ UNCHANGED <<account, tokens, clock, jar, access, signin, refresh, link, confirm, bonuses, history>>

\* Mutant of Ended: only the session of the browser that logs out.
EndedHere(ts) == {t \in ending.seen : ts[t].home = ending.browser}

\* The tokens the statement revokes.
Ended(ts) == {t \in ending.seen : t \in DOMAIN ts}

Overlapping ==
    \/ \E i \in Tab : refresh[i].stage = "chosen"
    \/ signin # {}
    \/ \E t \in LiveTokens : t \notin ending.seen

LinksRevoked == [l \in Link |-> IF link[l] = "live" THEN "revoked" ELSE link[l]]

EndSessions ==
    LET b == ending.browser
    IN  /\ ending # NotEnding
        /\ {t \in ending.seen : Live(t)} \intersect Locked = {}
        /\ tokens' = revoked(tokens, Ended(tokens))
        /\ account' = IF ending.kind = "suspend" THEN [account EXCEPT !.status = "SUSPENDED"]
                                                 ELSE account
        /\ jar' = IF b = NoBrowser THEN jar ELSE [jar EXCEPT ![b] = 0]
        /\ access' = IF ending.kind = "logout" THEN [access EXCEPT ![b] = FALSE] ELSE access
        /\ link' = IF ending.kind = "reset" THEN LinksRevoked ELSE link
        /\ ending' = NotEnding
        /\ history' = [history EXCEPT !.era = @ + 1, !.overlap = Overlapping,
                                     !.fresh = FALSE, !.revived = FALSE]
        /\ UNCHANGED <<clock, signin, refresh, confirm, bonuses>>

\* setUserStatus with ACTIVE.
RestoreUser ==
    /\ "restore" \in StaffMoves /\ account.status # "ACTIVE"
    /\ account' = [account EXCEPT !.status = "ACTIVE"]
    /\ UNCHANGED <<tokens, clock, jar, access, signin, refresh, ending, link, confirm, bonuses, history>>

\* The account is banned and archived; its sessions are left alone.
deleteUser ==
    /\ "delete" \in StaffMoves /\ ~account.deleted
    /\ account' = [account EXCEPT !.status = "BANNED", !.deleted = TRUE]
    /\ UNCHANGED <<tokens, clock, jar, access, signin, refresh, ending, link, confirm, bonuses, history>>

-----------------------------------------------------------------------------
(***************************************************************************)
(* resendVerification looks at the account and then issues one more link.  *)
(* verifyEmail: the link is found, the account updated, the link revoked   *)
(* and the bonus credited by separate statements, between which it may     *)
(* stop.  It neither looks at the account nor at the other links.          *)
(***************************************************************************)
AskLink(l) ==
    /\ link[l] = "none" /\ ~account.verified
    /\ link' = [link EXCEPT ![l] = "asked"]
    /\ UNCHANGED <<account, tokens, clock, jar, access, signin, refresh, ending, confirm, bonuses, history>>

IssueLink(l) ==
    /\ link[l] = "asked"
    /\ link' = [link EXCEPT ![l] = "live"]
    /\ UNCHANGED <<account, tokens, clock, jar, access, signin, refresh, ending, confirm, bonuses, history>>

Step(c, from, to) == confirm[c] = from /\ confirm' = [confirm EXCEPT ![c] = to]

\* The confirmations of c's link that have found it and not revoked it.
Finders(c) ==
    {d \in Confirmation : LinkOf[d] = LinkOf[c] /\ confirm[d] \in {"found", "verified"}}

FindLink(c) ==
    /\ link[LinkOf[c]] = "live" /\ Step(c, "idle", "found")
    /\ history' = [history EXCEPT !.raced = @ \union IF Finders(c) = {} THEN {} ELSE {LinkOf[c]}]
    /\ UNCHANGED <<account, tokens, clock, jar, access, signin, refresh, ending, link, bonuses>>

\* Whatever the status was, it becomes ACTIVE.
Verified(a) == [a EXCEPT !.verified = TRUE, !.status = "ACTIVE"]

MarkVerified(c) ==
    /\ Step(c, "found", "verified")
    /\ account' = Verified(account)
    /\ UNCHANGED <<tokens, clock, jar, access, signin, refresh, ending, link, bonuses, history>>

\* Mutant of LinkAfter: the link is not revoked.
LinkAfterKept(c) == link

LinkAfter(c) == [link EXCEPT ![LinkOf[c]] = "revoked"]

RevokeLink(c) ==
    /\ Step(c, "verified", "revoked")
    /\ link' = LinkAfter(c)
    /\ UNCHANGED <<account, tokens, clock, jar, access, signin, refresh, ending, bonuses, history>>

CreditBonus(c) ==
    /\ Step(c, "revoked", "done")
    /\ bonuses' = [bonuses EXCEPT ![LinkOf[c]] = @ + 1]
    /\ UNCHANGED <<account, tokens, clock, jar, access, signin, refresh, ending, link, history>>

StopConfirmation(c) ==
    /\ confirm[c] \in {"found", "verified", "revoked"}
    /\ confirm' = [confirm EXCEPT ![c] = "stopped"]
    /\ UNCHANGED <<account, tokens, clock, jar, access, signin, refresh, ending, link, bonuses, history>>

-----------------------------------------------------------------------------
\* Registration has issued the first link.
SessionInit ==
    /\ account = [status |-> "ACTIVE", verified |-> FALSE, deleted |-> FALSE]
    /\ tokens = <<>> /\ clock = 0
    /\ jar = [b \in Browser |-> 0]
    /\ access = [b \in Browser |-> FALSE] /\ signin = {}
    /\ refresh = [i \in Tab |-> IdleRefresh]
    /\ ending = NotEnding
    /\ \E first \in Link : link = [l \in Link |-> IF l = first THEN "live" ELSE "none"]
    /\ confirm = [c \in Confirmation |-> "idle"] /\ bonuses = [l \in Link |-> 0]
    /\ history = [era |-> 0, overlap |-> FALSE, fresh |-> FALSE, revived |-> FALSE, lost |-> FALSE,
                  taken |-> FALSE, denied |-> FALSE, replayed |-> FALSE, raced |-> {}]

\* What the server does for a refresh that was sent.
ServeRefresh(i) ==
    ChooseToken(i) \/ DenyRefresh(i) \/ BeginReplay(i) \/ DetectReplay(i) \/ CommitRefresh(i)

ConfirmationStep(c) ==
    FindLink(c) \/ MarkVerified(c) \/ RevokeLink(c) \/ CreditBonus(c) \/ StopConfirmation(c)

SessionNext ==
    \/ \E b \in Browser : \/ BeginLogin(b) \/ login(b)
                         \/ BeginEnding("logout", b) \/ BeginEnding("password", b)
    \/ BeginEnding("reset", NoBrowser) \/ BeginEnding("suspend", NoBrowser)
    \/ EndSessions
    \/ \E i \in Tab : SendRefresh(i) \/ ServeRefresh(i) \/ ReceiveAnswer(i) \/ LoseAnswer(i)
    \/ RestoreUser \/ deleteUser
    \/ \E l \in Link : AskLink(l) \/ IssueLink(l)
    \/ \E c \in Confirmation : ConfirmationStep(c)
    \/ Tick

SessionSpec == SessionInit /\ [][SessionNext]_sessionVars

-----------------------------------------------------------------------------
(* Types; a cookie names a token that was issued.                          *)
SessionTypeOK ==
    /\ account \in [status : {"ACTIVE", "SUSPENDED", "BANNED"}, verified : BOOLEAN, deleted : BOOLEAN]
    /\ tokens \in Seq(TokenRow) /\ Len(tokens) <= MaxTokens
    /\ clock \in 0..MaxClock
    /\ jar \in [Browser -> 0..Len(tokens)]
    /\ access \in [Browser -> BOOLEAN] /\ signin \subseteq Browser
    /\ refresh \in [Tab -> Refresh]
    /\ ending \in Ending
    /\ link \in [Link -> {"none", "asked", "live", "revoked"}]
    /\ confirm \in [Confirmation -> {"idle", "found", "verified", "revoked", "done", "stopped"}]
    /\ bonuses \in [Link -> Nat]
    /\ history \in History

(* auth.service.ts:321, no racer is left with a "successor vanished": as   *)
(* long as nobody ended the sessions, a refresh whose token was rotated    *)
(* within the grace finds a token to chain onto, whatever the interleaving *)
(* of the tabs and browsers.                                               *)
SuccessorNeverVanishes == history.denied => history.era > 0 \/ history.replayed

(* Tabs that refresh with one cookie, in any number and order, never look  *)
(* like a replay after the grace: that takes an answer that was lost or    *)
(* came late, a token taken over from another browser, or sessions ended   *)
(* elsewhere.                                                              *)
ReplayHasCause == history.replayed => history.lost \/ history.taken \/ history.era > 0

(* auth.service.ts:445 and admin.service.ts:208, "Logout ends the session  *)
(* everywhere", and so do a new password and a suspension: unless a        *)
(* sign-in or a refresh was under way, no token lives until the next       *)
(* sign-in, and then only sessions signed in since.  The exception is a    *)
(* session that takes over the token of such a sign-in, with a cookie      *)
(* revoked within the grace.                                               *)
SessionsEndTogether ==
    ~history.overlap =>
        /\ ~history.fresh => LiveTokens = {}
        /\ ~history.revived => \A t \in LiveTokens : tokens[t].era = history.era

(* A link credits the welcome bonus at most once however often it is       *)
(* followed and whichever other links of the account are live, unless two  *)
(* confirmations found this link before either revoked it (verifyEmail).   *)
BonusOncePerLink == \A l \in Link \ history.raced : bonuses[l] <= 1

=============================================================================
