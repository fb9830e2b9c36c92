--------------------------- MODULE SessionsProofs ---------------------------
(***************************************************************************)
(* The sessions of an account: that a refresh finds a token to chain onto, *)
(* what a replay must come from, which sessions outlive the end of all     *)
(* sessions, and that a link credits the welcome bonus once.               *)
(***************************************************************************)
EXTENDS Sessions, FiniteSetTheorems, TLAPS

\* A set of token numbers that is not empty has a greatest one.
LEMMA GreatestToken ==
    ASSUME NEW n \in Nat, NEW S \in SUBSET (1..n), S # {}
    PROVE  Max(S) \in S /\ \A s \in S : s <= Max(S)
<1>. DEFINE T == {n - s : s \in S}
<1>1. T \subseteq Nat /\ T # {}
  <2>1. \A s \in S : s \in 1..n /\ n - s \in Nat
    OBVIOUS
  <2>. QED
    BY <2>1
<1>2. PICK x \in T : \A y \in T : <<y, x>> \notin OpToRel(<, Nat)
  <2>. HIDE DEF T
  <2>. QED
    BY <1>1, NatLessThanWellFounded, WFMin
<1>3. PICK m \in S : x = n - m
  OBVIOUS
<1>4. \A s \in S : s <= m
  <2>. SUFFICES ASSUME NEW s \in S, ~(s <= m) PROVE FALSE
    OBVIOUS
  <2>1. n - s \in T /\ n - s \in Nat /\ n - s < x
    BY <1>3
  <2>2. <<n - s, x>> \in OpToRel(<, Nat)
    BY <1>1, <2>1 DEF OpToRel
  <2>. QED
    BY <1>2, <2>1, <2>2
<1>. QED
  BY <1>4 DEF Max

-----------------------------------------------------------------------------
(***************************************************************************)
(* The invariant.                                                          *)
(***************************************************************************)
\* What a refresh under way names was issued.
Serving ==
    \A i \in Tab :
        /\ refresh[i].stage \in {"sent", "chosen", "replay"} =>
              refresh[i].presented \in DOMAIN tokens
        /\ refresh[i].stage = "chosen" => refresh[i].target \in DOMAIN tokens
        /\ refresh[i].stage = "replay" => history.replayed
        /\ refresh[i].stage = "answered" => refresh[i].reply \in 0..Len(tokens)

\* A rotation issues a token when it revokes one, so the last token lives.
LastLives ==
    history.era = 0 /\ ~history.replayed /\ tokens # <<>> => Live(Len(tokens))

\* Nothing lives, and no refresh has chosen a token, before the first sign-in of an era;
\* after it, what lives and what is chosen is of the era unless a session was revived.
ErasKept ==
    /\ \A t \in DOMAIN tokens : tokens[t].era <= history.era
    /\ ~history.overlap =>
        /\ ~history.fresh => /\ LiveTokens = {}
                             /\ \A i \in Tab : refresh[i].stage # "chosen"
        /\ ~history.revived =>
              /\ \A t \in LiveTokens : tokens[t].era = history.era
              /\ \A i \in Tab : refresh[i].stage = "chosen" =>
                    tokens[refresh[i].target].era = history.era

\* The confirmations that have found the link l.
Following(l) == {c \in Confirmation : /\ LinkOf[c] = l
                                     /\ confirm[c] \in {"found", "verified", "revoked", "done"}}

Credited(l) == \E c \in Confirmation : LinkOf[c] = l /\ confirm[c] = "done"

\* A link that a confirmation has revoked stays so; at most one confirmation at a time
\* has found a link, and nobody finds it again.
LinkInv(l) ==
    /\ link[l] # "revoked" =>
          \A c \in Confirmation : LinkOf[c] = l => confirm[c] \notin {"revoked", "done"}
    /\ l \notin history.raced =>
          /\ \A c, d \in Following(l) : c = d
          /\ bonuses[l] = 0 \/ (bonuses[l] = 1 /\ Credited(l))

BonusInv == \A l \in Link : LinkInv(l)

\* Among the tokens ts, one of b that may still be presented: it lives, or was
\* revoked now.
Presentable(t, b, ts, now) ==
    /\ t \in DOMAIN ts
    /\ ts[t].home = b
    /\ ts[t].revokedAt \in {Never, now}

IsNewest(t, b, ts) ==
    /\ t \in DOMAIN ts
    /\ ts[t].home = b
    /\ \A s \in DOMAIN ts : ts[s].home = b => s <= t

\* The browser b has the token t or an answer on its way will bring it.
Comes(t, b) ==
    \/ jar[b] = t
    \/ \E i \in Tab : /\ Home[i] = b
                      /\ refresh[i].stage = "answered" /\ refresh[i].reply = t

\* The newest token of a browser lives, and the browser has it or will get it.
Orderly ==
    /\ \A b \in Browser :
          /\ jar[b] # 0 => Presentable(jar[b], b, tokens, clock)
          /\ \A t \in DOMAIN tokens :
                IsNewest(t, b, tokens) => tokens[t].revokedAt = Never /\ Comes(t, b)
    /\ \A i \in Tab :
          /\ refresh[i].stage = "sent" =>
                Presentable(refresh[i].presented, Home[i], tokens, clock)
          /\ refresh[i].stage = "answered" /\ refresh[i].reply # 0 =>
                Presentable(refresh[i].reply, Home[i], tokens, clock)

Undisturbed == ~history.lost /\ ~history.taken /\ history.era = 0

ReplayInv == Undisturbed => ~history.replayed /\ Orderly

SessionInv ==
    /\ SessionTypeOK
    /\ Serving
    /\ LastLives /\ SuccessorNeverVanishes
    /\ ErasKept
    /\ BonusInv
    /\ ReplayInv

-----------------------------------------------------------------------------
(***************************************************************************)
(* The list of tokens.                                                     *)
(***************************************************************************)
LEMMA TokenTypes ==
    ASSUME SessionTypeOK
    PROVE  /\ tokens \in Seq(TokenRow) /\ DOMAIN tokens = 1..Len(tokens)
           /\ Len(tokens) \in Nat /\ Len(tokens) <= MaxTokens
           /\ \A t \in DOMAIN tokens : /\ tokens[t] \in TokenRow
                                       /\ tokens[t].home \in Browser /\ tokens[t].era \in Nat
           /\ clock \in 0..Never /\ clock # Never /\ Never \in 0..Never
           /\ DOMAIN tokens \subseteq 1..MaxTokens
           /\ MaxTokens \in Nat /\ history.era \in Nat
           /\ (tokens = <<>> <=> Len(tokens) = 0)
<1>1. tokens \in Seq(TokenRow) /\ Len(tokens) <= MaxTokens /\ clock \in 0..MaxClock
  BY DEF SessionTypeOK
<1>2. DOMAIN tokens = 1..Len(tokens) /\ Len(tokens) \in Nat
  BY <1>1
<1>3. \A t \in DOMAIN tokens : tokens[t] \in TokenRow
  BY <1>1
<1>4. clock \in 0..Never /\ clock # Never /\ Never \in 0..Never /\ MaxTokens \in Nat
  BY <1>1, SessionAssumption DEF Never
<1>5. DOMAIN tokens \subseteq 1..MaxTokens
  BY <1>1, <1>2, <1>4
<1>6. history.era \in Nat
  BY DEF SessionTypeOK, History
<1>7. tokens = <<>> <=> Len(tokens) = 0
  BY <1>1
<1>. QED
  BY <1>1, <1>2, <1>3, <1>4, <1>5, <1>6, <1>7 DEF TokenRow

LEMMA NewTokenType ==
    ASSUME SessionTypeOK, NEW b \in Browser, NEW e \in Nat
    PROVE  NewToken(b, e) \in TokenRow
  BY TokenTypes DEF NewToken, TokenRow

\* One token more.
LEMMA TokenIssued ==
    ASSUME SessionTypeOK, NEW b \in Browser, NEW e \in Nat
    PROVE  LET ts == Append(tokens, NewToken(b, e))
           IN  /\ ts \in Seq(TokenRow) /\ Len(ts) = Len(tokens) + 1
               /\ DOMAIN ts = DOMAIN tokens \union {Len(tokens) + 1}
               /\ Len(tokens) + 1 \notin DOMAIN tokens
               /\ \A t \in DOMAIN tokens : ts[t] = tokens[t]
               /\ ts[Len(tokens) + 1] = NewToken(b, e)
               /\ ts # <<>>
<1>. DEFINE new == NewToken(b, e)
<1>1. new \in TokenRow /\ tokens \in Seq(TokenRow)
  BY TokenTypes, NewTokenType
<1>. HIDE DEF new
<1>2. LET ts == Append(tokens, new)
      IN  /\ ts \in Seq(TokenRow) /\ Len(ts) = Len(tokens) + 1
          /\ DOMAIN ts = DOMAIN tokens \union {Len(tokens) + 1}
          /\ Len(tokens) + 1 \notin DOMAIN tokens
          /\ \A t \in DOMAIN tokens : ts[t] = tokens[t]
          /\ ts[Len(tokens) + 1] = new
          /\ ts # <<>>
  BY <1>1
<1>. QED
  BY <1>2 DEF new

\* A revocation changes no number, home or era.
LEMMA TokensRevoked ==
    ASSUME SessionTypeOK, NEW seen
    PROVE  LET ts == revoked(tokens, seen)
           IN  /\ ts \in Seq(TokenRow) /\ Len(ts) = Len(tokens)
               /\ DOMAIN ts = DOMAIN tokens
               /\ \A t \in DOMAIN tokens :
                     /\ ts[t].home = tokens[t].home /\ ts[t].era = tokens[t].era
                     /\ ts[t].revokedAt = IF t \in seen /\ tokens[t].revokedAt = Never
                                          THEN clock ELSE tokens[t].revokedAt
<1>. DEFINE ts == revoked(tokens, seen)
<1>1. \A t \in DOMAIN tokens :
          /\ ts[t] \in TokenRow
          /\ ts[t].home = tokens[t].home /\ ts[t].era = tokens[t].era
          /\ ts[t].revokedAt = IF t \in seen /\ tokens[t].revokedAt = Never
                               THEN clock ELSE tokens[t].revokedAt
  BY TokenTypes DEF revoked, TokenRow
<1>2. DOMAIN ts = 1..Len(tokens) /\ ts = [t \in 1..Len(tokens) |-> ts[t]]
  BY TokenTypes DEF revoked
<1>. HIDE DEF ts
<1>3. ts \in Seq(TokenRow) /\ Len(ts) = Len(tokens)
  BY <1>1, <1>2, TokenTypes
<1>. QED
  BY <1>1, <1>2, <1>3, TokenTypes DEF ts

\* A rotation revokes the chosen token now and issues one of the given era.
LEMMA TokensRotated ==
    ASSUME SessionTypeOK, NEW t \in DOMAIN tokens, NEW b \in Browser, NEW e \in Nat
    PROVE  LET ts == Rotated(tokens, t, b, e)
               n == Len(tokens) + 1
           IN  /\ ts \in Seq(TokenRow) /\ Len(ts) = n /\ ts # <<>>
               /\ DOMAIN ts = DOMAIN tokens \union {n} /\ n \notin DOMAIN tokens
               /\ ts[n] = NewToken(b, e)
               /\ ts[t].revokedAt = clock
               /\ \A s \in DOMAIN tokens :
                     /\ ts[s].home = tokens[s].home /\ ts[s].era = tokens[s].era
                     /\ s # t => ts[s] = tokens[s]
<1>. DEFINE mid == [tokens EXCEPT ![t].revokedAt = clock]
            new == NewToken(b, e)
<1>1. /\ \A s \in DOMAIN tokens : /\ mid[s] \in TokenRow
                                  /\ mid[s].home = tokens[s].home /\ mid[s].era = tokens[s].era
                                  /\ s # t => mid[s] = tokens[s]
      /\ mid[t].revokedAt = clock
  BY TokenTypes DEF TokenRow
<1>2. DOMAIN mid = 1..Len(tokens) /\ mid = [s \in 1..Len(tokens) |-> mid[s]]
  BY TokenTypes
<1>3. new \in TokenRow
  BY TokenTypes, NewTokenType
<1>. HIDE DEF mid, new
<1>4. mid \in Seq(TokenRow) /\ Len(mid) = Len(tokens)
  BY <1>1, <1>2, TokenTypes
<1>5. LET ts == Append(mid, new)
      IN  /\ ts \in Seq(TokenRow) /\ Len(ts) = Len(mid) + 1 /\ ts # <<>>
          /\ DOMAIN ts = DOMAIN mid \union {Len(mid) + 1} /\ Len(mid) + 1 \notin DOMAIN mid
          /\ ts[Len(mid) + 1] = new
          /\ \A s \in DOMAIN mid : ts[s] = mid[s]
  BY <1>3, <1>4
<1>6. Rotated(tokens, t, b, e) = Append(mid, new)
  BY DEF Rotated, mid, new
<1>7. DOMAIN mid = DOMAIN tokens
  BY <1>2, TokenTypes
<1>. QED
  BY <1>1, <1>4, <1>5, <1>6, <1>7 DEF new

\* The token a refresh chooses lives, and is the presented one or a later one.
LEMMA ChosenLives ==
    ASSUME SessionTypeOK, NEW t \in DOMAIN tokens, Live(t) \/ Successors(t) # {}
    PROVE  Target(t) \in LiveTokens
<1>1. CASE Live(t)
  BY <1>1 DEF Target, LiveTokens
<1>2. CASE ~Live(t)
  <2>1. Successors(t) \in SUBSET (1..MaxTokens) /\ Successors(t) # {}
    BY <1>2, TokenTypes DEF Successors, LiveTokens
  <2>2. Max(Successors(t)) \in Successors(t)
    BY <2>1, TokenTypes, GreatestToken
  <2>. QED
    BY <1>2, <2>2 DEF Target, Successors
<1>. QED
  BY <1>1, <1>2

-----------------------------------------------------------------------------
(***************************************************************************)
(* Types.                                                                  *)
(***************************************************************************)
LEMMA IdleTypes ==
    /\ IdleRefresh \in Refresh /\ IdleRefresh.stage = "idle" /\ IdleRefresh.reply = 0
    /\ NotEnding \in Ending
  BY SessionAssumption DEF IdleRefresh, Refresh, NotEnding, Ending

\* A refusal, an answer and a request on its way.
LEMMA RefusedTypes ==
    LET r == [IdleRefresh EXCEPT !.stage = "answered"]
    IN  r \in Refresh /\ r.stage = "answered" /\ r.reply = 0
<1>1. [IdleRefresh EXCEPT !.stage = "answered"]
        = [stage |-> "answered", presented |-> 0, target |-> 0, reply |-> 0]
  BY DEF IdleRefresh
<1>2. 0 \in 0..MaxTokens
  BY SessionAssumption
<1>. QED
  BY <1>1, <1>2 DEF Refresh

LEMMA AnsweredTypes ==
    ASSUME NEW n \in 0..MaxTokens
    PROVE  LET r == [IdleRefresh EXCEPT !.stage = "answered", !.reply = n]
           IN  r \in Refresh /\ r.stage = "answered" /\ r.reply = n
<1>. DEFINE refused == [IdleRefresh EXCEPT !.stage = "answered"]
<1>1. refused \in Refresh /\ refused.stage = "answered"
  BY RefusedTypes
<1>2. [IdleRefresh EXCEPT !.stage = "answered", !.reply = n] = [refused EXCEPT !.reply = n]
  OBVIOUS
<1>. HIDE DEF refused
<1>. QED
  BY <1>1, <1>2 DEF Refresh

LEMMA SentTypes ==
    ASSUME NEW n \in 0..MaxTokens
    PROVE  LET r == [IdleRefresh EXCEPT !.stage = "sent", !.presented = n]
           IN  r \in Refresh /\ r.stage = "sent" /\ r.presented = n
<1>. DEFINE sent == [IdleRefresh EXCEPT !.stage = "sent"]
<1>1. sent \in Refresh /\ sent.stage = "sent"
  <2>1. sent = [stage |-> "sent", presented |-> 0, target |-> 0, reply |-> 0]
    BY DEF IdleRefresh
  <2>2. 0 \in 0..MaxTokens
    BY SessionAssumption
  <2>. QED
    BY <2>1, <2>2 DEF Refresh
<1>2. [IdleRefresh EXCEPT !.stage = "sent", !.presented = n] = [sent EXCEPT !.presented = n]
  OBVIOUS
<1>. HIDE DEF sent
<1>. QED
  BY <1>1, <1>2 DEF Refresh

\* Signing in.
LEMMA LoginTypes ==
    ASSUME SessionTypeOK, Serving, NEW b \in Browser, BeginLogin(b) \/ login(b)
    PROVE  SessionTypeOK' /\ Serving'
<1>1. CASE BeginLogin(b)
  BY <1>1 DEF BeginLogin, SessionTypeOK, Serving
<1>2. CASE login(b)
  <2>1. /\ tokens' = Append(tokens, NewToken(b, history.era))
        /\ jar' = [jar EXCEPT ![b] = Len(tokens) + 1]
        /\ access' = [access EXCEPT ![b] = TRUE] /\ signin' = {}
        /\ UNCHANGED <<account, clock, refresh, ending, link, confirm, bonuses>>
        /\ history' = [history EXCEPT !.fresh = TRUE]
        /\ Len(tokens) < MaxTokens
    BY <1>2 DEF login
  <2>7. history' \in History /\ history'.replayed = history.replayed
    BY <2>1 DEF SessionTypeOK, History
  <2>2. /\ tokens' \in Seq(TokenRow) /\ Len(tokens') = Len(tokens) + 1
        /\ DOMAIN tokens' = DOMAIN tokens \union {Len(tokens) + 1}
    BY <2>1, TokenIssued, TokenTypes
  <2>3. Len(tokens') <= MaxTokens /\ Len(tokens) \in Nat
    BY <2>1, <2>2, TokenTypes
  <2>4. jar' \in [Browser -> 0..Len(tokens')]
    BY <2>1, <2>2, <2>3 DEF SessionTypeOK
  <2>5. SessionTypeOK'
    BY <2>1, <2>2, <2>3, <2>4, <2>7 DEF SessionTypeOK
  <2>6. Serving'
    <3>1. 0..Len(tokens) \subseteq 0..Len(tokens')
      BY <2>2, <2>3
    <3>. QED
      BY <2>1, <2>2, <2>7, <3>1 DEF Serving
  <2>. QED
    BY <2>5, <2>6
<1>. QED
  BY <1>1, <1>2

\* The steps of a refresh that issue no token.
LEMMA RefreshStepTypes ==
    ASSUME SessionTypeOK, Serving, NEW i \in Tab,
           \/ SendRefresh(i) \/ ChooseToken(i) \/ DenyRefresh(i)
           \/ BeginReplay(i) \/ DetectReplay(i)
           \/ ReceiveAnswer(i) \/ LoseAnswer(i)
    PROVE  SessionTypeOK' /\ Serving'
<1>. DEFINE b == Home[i]
            Answered == [IdleRefresh EXCEPT !.stage = "answered"]
<1>1. /\ b \in Browser /\ refresh \in [Tab -> Refresh] /\ refresh[i] \in Refresh
      /\ jar \in [Browser -> 0..Len(tokens)] /\ jar[b] \in 0..Len(tokens)
      /\ 0 \in 0..Len(tokens)
  BY SessionAssumption, TokenTypes DEF SessionTypeOK
<1>2. Answered \in Refresh /\ Answered.stage = "answered" /\ Answered.reply = 0
  BY RefusedTypes
<1>. HIDE DEF Answered
<1>3. ASSUME NEW r \in Refresh, refresh' = [refresh EXCEPT ![i] = r], tokens' = tokens,
             history.replayed => history'.replayed,
             r.stage \in {"sent", "chosen", "replay"} => r.presented \in DOMAIN tokens,
             r.stage = "chosen" => r.target \in DOMAIN tokens,
             r.stage = "replay" => history'.replayed,
             r.stage = "answered" => r.reply \in 0..Len(tokens)
      PROVE  refresh' \in [Tab -> Refresh] /\ Serving'
  <2>1. /\ refresh' \in [Tab -> Refresh] /\ refresh'[i] = r
        /\ \A j \in Tab : j # i => refresh'[j] = refresh[j]
    BY <1>3, <1>1
  <2>. QED
    BY <1>3, <2>1 DEF Serving
<1>4. CASE SendRefresh(i)
  <2>1. CASE jar[b] = 0
    <3>1. /\ refresh' = [refresh EXCEPT ![i] = Answered] /\ tokens' = tokens
          /\ history' = history
      BY <1>4, <2>1 DEF SendRefresh, Answered
    <3>2. refresh' \in [Tab -> Refresh] /\ Serving'
      BY <1>1, <1>2, <1>3, <3>1
    <3>. QED
      BY <1>4, <3>2 DEF SendRefresh, SessionTypeOK
  <2>2. CASE jar[b] # 0
    <3>. DEFINE r == [IdleRefresh EXCEPT !.stage = "sent", !.presented = jar[b]]
    <3>1. refresh' = [refresh EXCEPT ![i] = r] /\ tokens' = tokens /\ history' = history
      BY <1>4, <2>2 DEF SendRefresh
    <3>2. jar[b] \in DOMAIN tokens /\ jar[b] \in 0..MaxTokens
      BY <1>1, <2>2, TokenTypes
    <3>3. r \in Refresh /\ r.stage = "sent" /\ r.presented = jar[b]
      BY <3>2, SentTypes
    <3>. HIDE DEF r
    <3>4. refresh' \in [Tab -> Refresh] /\ Serving'
      BY <1>3, <3>1, <3>2, <3>3
    <3>. QED
      BY <1>4, <3>4 DEF SendRefresh, SessionTypeOK
  <2>. QED
    BY <2>1, <2>2
<1>5. CASE ChooseToken(i)
  <2>. DEFINE t == refresh[i].presented
              r == [refresh[i] EXCEPT !.stage = "chosen", !.target = Target(t)]
  <2>1. /\ refresh[i].stage = "sent"
        /\ Live(t) \/ Successors(t) # {}
        /\ refresh' = [refresh EXCEPT ![i].stage = "chosen", ![i].target = Target(t)]
        /\ UNCHANGED <<account, tokens, clock, jar, access, signin, ending, link, confirm, bonuses, history>>
    BY <1>5 DEF ChooseToken
  <2>2. t \in DOMAIN tokens
    BY <2>1 DEF Serving
  <2>3. Target(t) \in DOMAIN tokens /\ Target(t) \in 0..MaxTokens
    BY <2>1, <2>2, ChosenLives, TokenTypes DEF LiveTokens
  <2>4. refresh' = [refresh EXCEPT ![i] = r]
    BY <1>1, <2>1
  <2>5. r \in Refresh /\ r.stage = "chosen" /\ r.presented = t /\ r.target = Target(t)
    BY <1>1, <2>3 DEF Refresh
  <2>. HIDE DEF r
  <2>6. refresh' \in [Tab -> Refresh] /\ Serving'
    BY <1>3, <2>1, <2>2, <2>3, <2>4, <2>5
  <2>. QED
    BY <2>1, <2>6 DEF SessionTypeOK
<1>6. CASE DenyRefresh(i)
  <2>1. /\ refresh' = [refresh EXCEPT ![i] = Answered] /\ tokens' = tokens
        /\ history' = [history EXCEPT !.denied = TRUE]
        /\ UNCHANGED <<account, tokens, clock, jar, access, signin, ending, link, confirm, bonuses>>
    BY <1>6 DEF DenyRefresh, Refuse, Answered
  <2>3. history' \in History /\ history'.replayed = history.replayed
    BY <2>1 DEF SessionTypeOK, History
  <2>2. refresh' \in [Tab -> Refresh] /\ Serving'
    BY <1>1, <1>2, <1>3, <2>1, <2>3
  <2>. QED
    BY <2>1, <2>2, <2>3 DEF SessionTypeOK
<1>10. CASE BeginReplay(i)
  <2>. DEFINE r == [refresh[i] EXCEPT !.stage = "replay", !.target = Len(tokens)]
  <2>1. /\ refresh[i].stage = "sent"
        /\ refresh' = [refresh EXCEPT ![i].stage = "replay", ![i].target = Len(tokens)]
        /\ history' = [history EXCEPT !.replayed = TRUE]
        /\ UNCHANGED <<account, tokens, clock, jar, access, signin, ending, link, confirm, bonuses>>
    BY <1>10 DEF BeginReplay
  <2>2. refresh[i].presented \in DOMAIN tokens
    BY <2>1 DEF Serving
  <2>3. history' \in History /\ history'.replayed
    BY <2>1 DEF SessionTypeOK, History
  <2>4. refresh' = [refresh EXCEPT ![i] = r]
    BY <1>1, <2>1
  <2>5. Len(tokens) \in 0..MaxTokens
    BY TokenTypes
  <2>6. r \in Refresh /\ r.stage = "replay" /\ r.presented = refresh[i].presented
    BY <1>1, <2>5 DEF Refresh
  <2>. HIDE DEF r
  <2>7. refresh' \in [Tab -> Refresh] /\ Serving'
    BY <1>3, <2>1, <2>2, <2>3, <2>4, <2>6
  <2>. QED
    BY <2>1, <2>3, <2>7 DEF SessionTypeOK
<1>7. CASE DetectReplay(i)
  <2>1. /\ refresh' = [refresh EXCEPT ![i] = Answered]
        /\ tokens' = revoked(tokens, 1..refresh[i].target)
        /\ UNCHANGED <<account, clock, jar, access, signin, ending, link, confirm, bonuses, history>>
    BY <1>7 DEF DetectReplay, Refuse, Answered
  <2>2. /\ tokens' \in Seq(TokenRow) /\ Len(tokens') = Len(tokens)
        /\ DOMAIN tokens' = DOMAIN tokens
    BY <2>1, TokensRevoked
  <2>4. refresh' \in [Tab -> Refresh] /\ refresh'[i] = Answered
        /\ \A j \in Tab : j # i => refresh'[j] = refresh[j]
    BY <1>1, <1>2, <2>1
  <2>5. Serving'
    BY <1>1, <1>2, <2>1, <2>2, <2>4 DEF Serving
  <2>. QED
    BY <2>1, <2>2, <2>4, <2>5 DEF SessionTypeOK
<1>8. CASE ReceiveAnswer(i)
  <2>. DEFINE reply == refresh[i].reply
  <2>1. /\ refresh[i].stage = "answered"
        /\ jar' = IF reply = 0 THEN jar ELSE [jar EXCEPT ![b] = reply]
        /\ access' = [access EXCEPT ![b] = (reply # 0)]
        /\ refresh' = [refresh EXCEPT ![i] = IdleRefresh]
        /\ history' = [history EXCEPT !.lost = @ \/ (reply # 0 /\ reply < jar[b])]
        /\ UNCHANGED <<account, tokens, clock, signin, ending, link, confirm, bonuses>>
    BY <1>8 DEF ReceiveAnswer
  <2>5. history' \in History /\ history'.replayed = history.replayed
    BY <2>1 DEF SessionTypeOK, History
  <2>2. refresh' \in [Tab -> Refresh] /\ Serving'
    BY <1>3, <2>1, <2>5, IdleTypes
  <2>3. reply \in 0..Len(tokens)
    BY <2>1 DEF Serving
  <2>4. jar' \in [Browser -> 0..Len(tokens)] /\ access' \in [Browser -> BOOLEAN]
    BY <1>1, <2>1, <2>3 DEF SessionTypeOK
  <2>. QED
    BY <2>1, <2>2, <2>4, <2>5 DEF SessionTypeOK
<1>9. CASE LoseAnswer(i)
  <2>1. /\ refresh' = [refresh EXCEPT ![i] = IdleRefresh]
        /\ history' = [history EXCEPT !.lost = TRUE]
        /\ UNCHANGED <<account, tokens, clock, jar, access, signin, ending, link, confirm, bonuses>>
    BY <1>9 DEF LoseAnswer
  <2>3. history' \in History /\ history'.replayed = history.replayed
    BY <2>1 DEF SessionTypeOK, History
  <2>2. refresh' \in [Tab -> Refresh] /\ Serving'
    BY <1>3, <2>1, <2>3, IdleTypes
  <2>. QED
    BY <2>1, <2>2, <2>3 DEF SessionTypeOK
<1>. QED
  BY <1>4, <1>5, <1>6, <1>7, <1>8, <1>9, <1>10

LEMMA CommitTypes ==
    ASSUME SessionTypeOK, Serving, NEW i \in Tab, CommitRefresh(i)
    PROVE  SessionTypeOK' /\ Serving'
<1>. DEFINE b == Home[i]
            t == refresh[i].target
            e == tokens[refresh[i].presented].era
            n == Len(tokens) + 1
            Answered == [IdleRefresh EXCEPT !.stage = "answered"]
<1>1. /\ b \in Browser /\ refresh \in [Tab -> Refresh] /\ refresh[i].stage = "chosen"
      /\ t \in DOMAIN tokens /\ refresh[i].presented \in DOMAIN tokens
      /\ UNCHANGED <<account, clock, jar, access, signin, ending, link, confirm, bonuses>>
  BY SessionAssumption DEF SessionTypeOK, CommitRefresh, Serving
<1>4. e \in Nat
  BY <1>1, TokenTypes
<1>2. CASE account.status = "ACTIVE"
  <2>. DEFINE r == [IdleRefresh EXCEPT !.stage = "answered", !.reply = n]
  <2>1. /\ Len(tokens) < MaxTokens /\ tokens' = Rotated(tokens, t, b, e)
        /\ refresh' = [refresh EXCEPT ![i] = r]
        /\ history' = [history EXCEPT !.taken = @ \/ tokens[t].home # b,
                                     !.revived = @ \/ e < tokens[t].era]
    BY <1>2 DEF CommitRefresh
  <2>. HIDE DEF e
  <2>2. /\ tokens' \in Seq(TokenRow) /\ Len(tokens') = n
        /\ DOMAIN tokens' = DOMAIN tokens \union {n}
    <3>. HIDE DEF t, b, r
    <3>1. tokens' = Rotated(tokens, t, b, e) /\ t \in DOMAIN tokens /\ b \in Browser /\ e \in Nat
      BY <1>1, <1>4, <2>1
    <3>. QED
      BY <3>1, TokensRotated, ZenonT(60)
  <2>3. n \in 0..MaxTokens /\ Len(tokens') <= MaxTokens /\ Len(tokens) \in Nat
    BY <2>1, <2>2, TokenTypes
  <2>4. r \in Refresh /\ r.stage = "answered" /\ r.reply = n
    BY <2>3, AnsweredTypes
  <2>. HIDE DEF r
  <2>5. /\ refresh' \in [Tab -> Refresh] /\ refresh'[i] = r
        /\ \A j \in Tab : j # i => refresh'[j] = refresh[j]
    BY <1>1, <2>1, <2>4
  <2>6. 0..Len(tokens) \subseteq 0..Len(tokens') /\ n \in 0..Len(tokens')
    BY <2>2, <2>3
  <2>8. history' \in History /\ history'.replayed = history.replayed
    BY <2>1 DEF SessionTypeOK, History
  <2>7. Serving'
    BY <2>2, <2>4, <2>5, <2>6, <2>8 DEF Serving
  <2>9. jar' \in [Browser -> 0..Len(tokens')]
    BY <1>1, <2>6 DEF SessionTypeOK
  <2>. QED
    BY <1>1, <2>2, <2>3, <2>5, <2>7, <2>8, <2>9 DEF SessionTypeOK
<1>3. CASE account.status # "ACTIVE"
  <2>1. refresh' = [refresh EXCEPT ![i] = Answered] /\ tokens' = tokens /\ history' = history
    BY <1>3 DEF CommitRefresh, Refuse
  <2>2. Answered \in Refresh /\ Answered.stage = "answered" /\ Answered.reply = 0
    BY RefusedTypes
  <2>. HIDE DEF Answered
  <2>3. /\ refresh' \in [Tab -> Refresh] /\ refresh'[i] = Answered
        /\ \A j \in Tab : j # i => refresh'[j] = refresh[j]
    BY <1>1, <2>1, <2>2
  <2>4. 0 \in 0..Len(tokens)
    BY TokenTypes
  <2>5. Serving'
    BY <2>1, <2>2, <2>3, <2>4 DEF Serving
  <2>. QED
    BY <1>1, <2>1, <2>3, <2>5 DEF SessionTypeOK
<1>. QED
  BY <1>2, <1>3

LEMMA EndingTypes ==
    ASSUME SessionTypeOK, Serving,
           \/ EndSessions
           \/ \E kind \in {"logout", "password"}, b \in Browser : BeginEnding(kind, b)
           \/ \E kind \in {"reset", "suspend"} : BeginEnding(kind, NoBrowser)
    PROVE  SessionTypeOK' /\ Serving'
<1>1. ASSUME NEW kind \in {"logout", "password", "reset", "suspend"},
             NEW b \in Browser \union {NoBrowser}, BeginEnding(kind, b)
      PROVE  SessionTypeOK' /\ Serving'
  <2>1. LiveTokens \in SUBSET (1..MaxTokens)
    BY TokenTypes DEF LiveTokens
  <2>2. ending' \in Ending
    BY <1>1, <2>1 DEF BeginEnding, Ending
  <2>. QED
    BY <1>1, <2>2 DEF BeginEnding, SessionTypeOK, Serving
<1>2. CASE EndSessions
  <2>. DEFINE b == ending.browser
  <2>1. /\ tokens' = revoked(tokens, Ended(tokens))
        /\ account' = IF ending.kind = "suspend" THEN [account EXCEPT !.status = "SUSPENDED"]
                                                 ELSE account
        /\ jar' = IF b = NoBrowser THEN jar ELSE [jar EXCEPT ![b] = 0]
        /\ access' = IF ending.kind = "logout" THEN [access EXCEPT ![b] = FALSE] ELSE access
        /\ link' = IF ending.kind = "reset" THEN LinksRevoked ELSE link
        /\ ending' = NotEnding
        /\ history' = [history EXCEPT !.era = @ + 1, !.overlap = Overlapping,
                                     !.fresh = FALSE, !.revived = FALSE]
        /\ UNCHANGED <<clock, signin, refresh, confirm, bonuses>>
    BY <1>2 DEF EndSessions
  <2>2. /\ tokens' \in Seq(TokenRow) /\ Len(tokens') = Len(tokens)
        /\ DOMAIN tokens' = DOMAIN tokens
    BY <2>1, TokensRevoked
  <2>3. account' \in [status : {"ACTIVE", "SUSPENDED", "BANNED"}, verified : BOOLEAN, deleted : BOOLEAN]
    BY <2>1 DEF SessionTypeOK
  <2>4. jar' \in [Browser -> 0..Len(tokens')]
    <3>1. 0 \in 0..Len(tokens) /\ Len(tokens') = Len(tokens) /\ jar \in [Browser -> 0..Len(tokens)]
      BY <2>2, TokenTypes DEF SessionTypeOK
    <3>2. CASE b = NoBrowser
      BY <2>1, <3>1, <3>2
    <3>3. CASE b # NoBrowser
      BY <2>1, <3>1, <3>3
    <3>. QED
      BY <3>2, <3>3
  <2>8. access' \in [Browser -> BOOLEAN]
    BY <2>1 DEF SessionTypeOK
  <2>5. history' \in History /\ history'.replayed = history.replayed
    <3>1. PICK e \in Nat : e = history.era + 1
      BY TokenTypes
    <3>2. Overlapping \in BOOLEAN
      BY DEF Overlapping
    <3>3. history' = [history EXCEPT !.era = e, !.overlap = Overlapping,
                                     !.fresh = FALSE, !.revived = FALSE]
      BY <2>1, <3>1
    <3>. QED
      BY <3>1, <3>2, <3>3 DEF SessionTypeOK, History
  <2>6. Serving'
    BY <2>1, <2>2, <2>5 DEF Serving
  <2>7. link' \in [Link -> {"none", "asked", "live", "revoked"}] /\ ending' \in Ending
    BY <2>1, IdleTypes DEF SessionTypeOK, LinksRevoked
  <2>. QED
    BY <2>1, <2>2, <2>3, <2>4, <2>5, <2>6, <2>7, <2>8 DEF SessionTypeOK
<1>. QED
  BY <1>1, <1>2

LEMMA OtherTypes ==
    ASSUME SessionTypeOK, Serving,
           \/ RestoreUser \/ deleteUser \/ Tick
           \/ \E l \in Link : AskLink(l) \/ IssueLink(l)
           \/ \E c \in Confirmation : ConfirmationStep(c)
    PROVE  SessionTypeOK' /\ Serving'
<1>1. CASE RestoreUser \/ deleteUser
  BY <1>1, ZenonT(60) DEF RestoreUser, deleteUser, SessionTypeOK, Serving
<1>2. CASE Tick
  <2>1. clock' \in 0..MaxClock
    BY <1>2, SessionAssumption DEF Tick, SessionTypeOK
  <2>. QED
    BY <1>2, <2>1 DEF Tick, SessionTypeOK, Serving
<1>4. ASSUME NEW l \in Link, AskLink(l) \/ IssueLink(l) PROVE SessionTypeOK' /\ Serving'
  <2>1. link' \in [Link -> {"none", "asked", "live", "revoked"}]
    BY <1>4 DEF AskLink, IssueLink, SessionTypeOK
  <2>. QED
    BY <1>4, <2>1 DEF AskLink, IssueLink, SessionTypeOK, Serving
<1>3. ASSUME NEW c \in Confirmation, ConfirmationStep(c) PROVE SessionTypeOK' /\ Serving'
  <2>1. ASSUME NEW from, NEW to \in {"found", "verified", "revoked", "done", "stopped"},
               Step(c, from, to)
        PROVE  confirm' \in [Confirmation -> {"idle", "found", "verified", "revoked", "done", "stopped"}]
    BY <2>1 DEF Step, SessionTypeOK
  <2>2. CASE FindLink(c)
    <3>1. LinkOf[c] \in Link
      BY SessionAssumption
    <3>2. history' \in History /\ history'.replayed = history.replayed
      BY <2>2, <3>1 DEF FindLink, SessionTypeOK, History
    <3>. QED
      BY <2>1, <2>2, <3>2 DEF FindLink, SessionTypeOK, Serving
  <2>3. CASE MarkVerified(c)
    <3>1. account' \in [status : {"ACTIVE", "SUSPENDED", "BANNED"}, verified : BOOLEAN, deleted : BOOLEAN]
      BY <2>3 DEF MarkVerified, Verified, SessionTypeOK
    <3>. QED
      BY <2>1, <2>3, <3>1 DEF MarkVerified, SessionTypeOK, Serving
  <2>4. CASE RevokeLink(c)
    <3>1. link' \in [Link -> {"none", "asked", "live", "revoked"}]
      BY <2>4 DEF RevokeLink, LinkAfter, SessionTypeOK
    <3>. QED
      BY <2>1, <2>4, <3>1 DEF RevokeLink, SessionTypeOK, Serving
  <2>5. CASE CreditBonus(c)
    <3>1. bonuses' \in [Link -> Nat]
      <4>1. LinkOf[c] \in Link /\ bonuses[LinkOf[c]] + 1 \in Nat
        BY SessionAssumption DEF SessionTypeOK
      <4>. QED
        BY <2>5, <4>1 DEF CreditBonus, SessionTypeOK
    <3>. QED
      BY <2>1, <2>5, <3>1 DEF CreditBonus, SessionTypeOK, Serving
  <2>6. CASE StopConfirmation(c)
    BY <2>6 DEF StopConfirmation, SessionTypeOK, Serving
  <2>. QED
    BY <1>3, <2>2, <2>3, <2>4, <2>5, <2>6 DEF ConfirmationStep
<1>. QED
  BY <1>1, <1>2, <1>3, <1>4

\* What a step does to the refresh of one tab and to the others.
LEMMA OneRefresh ==
    ASSUME SessionTypeOK, NEW i \in Tab, NEW r, refresh' = [refresh EXCEPT ![i] = r]
    PROVE  /\ refresh'[i] = r
           /\ \A j \in Tab : j # i => refresh'[j] = refresh[j]
  BY DEF SessionTypeOK

\* The steps that change neither tokens nor refreshes.
LEMMA QuietSteps ==
    ASSUME SessionTypeOK,
           \/ \E b \in Browser :
                 BeginLogin(b) \/ BeginEnding("logout", b) \/ BeginEnding("password", b)
           \/ BeginEnding("reset", NoBrowser) \/ BeginEnding("suspend", NoBrowser)
           \/ RestoreUser \/ deleteUser
           \/ \E l \in Link : AskLink(l) \/ IssueLink(l)
           \/ \E c \in Confirmation : ConfirmationStep(c)
    PROVE  /\ UNCHANGED <<tokens, clock, jar, refresh>>
           /\ history'.era = history.era /\ history'.overlap = history.overlap
           /\ history'.fresh = history.fresh /\ history'.revived = history.revived
           /\ history'.lost = history.lost /\ history'.taken = history.taken
           /\ history'.denied = history.denied /\ history'.replayed = history.replayed
<1>1. history \in History
  BY DEF SessionTypeOK
<1>2. ASSUME NEW c \in Confirmation, FindLink(c)
      PROVE  /\ UNCHANGED <<tokens, clock, jar, refresh>>
             /\ history'.era = history.era /\ history'.overlap = history.overlap
             /\ history'.fresh = history.fresh /\ history'.revived = history.revived
             /\ history'.lost = history.lost /\ history'.taken = history.taken
             /\ history'.denied = history.denied /\ history'.replayed = history.replayed
  BY <1>1, <1>2 DEF FindLink, History
<1>3. ASSUME NEW c \in Confirmation, ~FindLink(c), ConfirmationStep(c)
      PROVE  UNCHANGED <<tokens, clock, jar, refresh, history>>
  BY <1>3 DEF ConfirmationStep, MarkVerified, RevokeLink, CreditBonus, StopConfirmation
<1>4. ASSUME NEW b, NEW kind, BeginLogin(b) \/ BeginEnding(kind, b) \/ RestoreUser \/ deleteUser
      PROVE  UNCHANGED <<tokens, clock, jar, refresh, history>>
  BY <1>4 DEF BeginLogin, BeginEnding, RestoreUser, deleteUser
<1>5. ASSUME NEW l \in Link, AskLink(l) \/ IssueLink(l)
      PROVE  UNCHANGED <<tokens, clock, jar, refresh, history>>
  BY <1>5 DEF AskLink, IssueLink
<1>. QED
  BY <1>2, <1>3, <1>4, <1>5

-----------------------------------------------------------------------------
(***************************************************************************)
(* The chain of rotations does not break.                                  *)
(***************************************************************************)
ChainInv == LastLives /\ SuccessorNeverVanishes

\* The last token and the flags are what they were.
LEMMA ChainSame ==
    ASSUME ChainInv, tokens' = tokens, history'.era = history.era,
           history'.denied = history.denied, history'.replayed = history.replayed
    PROVE  ChainInv'
  BY DEF ChainInv, LastLives, SuccessorNeverVanishes, Live

LEMMA ChainGrows ==
    ASSUME ChainInv, tokens'[Len(tokens')].revokedAt = Never, history'.era = history.era,
           history'.denied = history.denied, history'.replayed = history.replayed
    PROVE  ChainInv'
  BY DEF ChainInv, LastLives, SuccessorNeverVanishes, Live

LEMMA ChainKept ==
    ASSUME SessionTypeOK, Serving, ChainInv, SessionNext
    PROVE  ChainInv'
<1>1. history \in History
  BY DEF SessionTypeOK
<1>2. ASSUME NEW b \in Browser, login(b) PROVE ChainInv'
  <2>1. /\ tokens' = Append(tokens, NewToken(b, history.era))
        /\ history'.era = history.era /\ history'.denied = history.denied
        /\ history'.replayed = history.replayed
    BY <1>1, <1>2 DEF login, History
  <2>2. tokens'[Len(tokens')] = NewToken(b, history.era)
    BY <2>1, TokenIssued, TokenTypes
  <2>. QED
    BY <2>1, <2>2, ChainGrows DEF NewToken
<1>3. ASSUME NEW i \in Tab, DenyRefresh(i) PROVE ChainInv'
  <2>. DEFINE t == refresh[i].presented
  <2>1. /\ refresh[i].stage = "sent" /\ ~Live(t) /\ Successors(t) = {}
        /\ history' = [history EXCEPT !.denied = TRUE] /\ tokens' = tokens
    BY <1>3 DEF DenyRefresh, Recent
  <2>2. t \in DOMAIN tokens
    BY <2>1 DEF Serving
  <2>3. history.era > 0 \/ history.replayed
    <3>. SUFFICES ASSUME ~(history.era > 0), ~history.replayed PROVE FALSE
      OBVIOUS
    <3>1. Live(Len(tokens)) /\ Len(tokens) \in DOMAIN tokens
      BY <2>2, TokenTypes DEF ChainInv, LastLives
    <3>2. t < Len(tokens)
      BY <2>1, <2>2, <3>1, TokenTypes
    <3>3. Len(tokens) \in Successors(t)
      BY <3>1, <3>2 DEF Successors, LiveTokens
    <3>. QED
      BY <2>1, <3>3
  <2>4. history'.era = history.era /\ history'.replayed = history.replayed
    BY <1>1, <2>1 DEF History
  <2>. QED
    BY <2>1, <2>3, <2>4 DEF ChainInv, LastLives, SuccessorNeverVanishes, Live
<1>4. ASSUME NEW i \in Tab, BeginReplay(i) \/ DetectReplay(i) PROVE ChainInv'
  <2>1. history'.replayed
    BY <1>1, <1>4 DEF BeginReplay, DetectReplay, Serving, History
  <2>. QED
    BY <2>1 DEF ChainInv, LastLives, SuccessorNeverVanishes
<1>5. ASSUME NEW i \in Tab, CommitRefresh(i) PROVE ChainInv'
  <2>. DEFINE t == refresh[i].target
              b == Home[i]
              e == tokens[refresh[i].presented].era
  <2>1. t \in DOMAIN tokens /\ b \in Browser /\ e \in Nat
    BY <1>5, SessionAssumption, TokenTypes DEF CommitRefresh, Serving
  <2>2. CASE account.status = "ACTIVE"
    <3>1. tokens' = Rotated(tokens, t, b, e)
          /\ history' = [history EXCEPT !.taken = @ \/ tokens[t].home # b,
                                       !.revived = @ \/ e < tokens[t].era]
      BY <1>5, <2>2 DEF CommitRefresh
    <3>. HIDE DEF e
    <3>2. tokens'[Len(tokens')] = NewToken(b, e)
      BY <2>1, <3>1, TokensRotated, TokenTypes
    <3>3. /\ history'.era = history.era /\ history'.denied = history.denied
          /\ history'.replayed = history.replayed
      BY <1>1, <3>1 DEF History
    <3>. QED
      BY <3>2, <3>3, ChainGrows DEF NewToken
  <2>3. CASE account.status # "ACTIVE"
    BY <1>5, <2>3, ChainSame DEF CommitRefresh
  <2>. QED
    BY <2>2, <2>3
<1>6. CASE EndSessions
  <2>1. history'.era > 0
    BY <1>1, <1>6 DEF EndSessions, History
  <2>. QED
    BY <2>1 DEF ChainInv, LastLives, SuccessorNeverVanishes
<1>7. ASSUME NEW i \in Tab,
             SendRefresh(i) \/ ChooseToken(i) \/ ReceiveAnswer(i) \/ LoseAnswer(i)
      PROVE  ChainInv'
  <2>1. /\ tokens' = tokens /\ history'.era = history.era
        /\ history'.denied = history.denied /\ history'.replayed = history.replayed
    BY <1>1, <1>7 DEF SendRefresh, ChooseToken, ReceiveAnswer, LoseAnswer, History
  <2>. QED
    BY <2>1, ChainSame
<1>8. CASE Tick
  BY <1>8, ChainSame DEF Tick
<1>. QED
  BY <1>2, <1>3, <1>4, <1>5, <1>6, <1>7, <1>8, QuietSteps, ChainSame
     DEF SessionNext, ServeRefresh

-----------------------------------------------------------------------------
(***************************************************************************)
(* Sessions end together.                                                  *)
(***************************************************************************)
\* No token comes to live and no refresh to have chosen.
LEMMA ErasSame ==
    ASSUME Serving, ErasKept, history'.era = history.era, history'.overlap = history.overlap,
           history.fresh => history'.fresh, history.revived => history'.revived,
           DOMAIN tokens' = DOMAIN tokens,
           \A t \in DOMAIN tokens : /\ tokens'[t].era = tokens[t].era
                                    /\ tokens'[t].revokedAt = Never => tokens[t].revokedAt = Never,
           \A j \in Tab : refresh'[j].stage = "chosen" =>
               refresh[j].stage = "chosen" /\ refresh'[j].target = refresh[j].target
    PROVE  ErasKept'
  BY DEF ErasKept, LiveTokens, Live, Serving

\* A token is issued, which is of the era unless a session is revived.
LEMMA ErasGrow ==
    ASSUME Serving, ErasKept, history'.era = history.era, history'.overlap = history.overlap,
           ~history.overlap => history'.fresh, history.revived => history'.revived,
           NEW n, DOMAIN tokens' = DOMAIN tokens \union {n},
           tokens'[n].era <= history.era,
           ~history.overlap /\ ~history'.revived => tokens'[n].era = history.era,
           \A t \in DOMAIN tokens : /\ tokens'[t].era = tokens[t].era
                                    /\ tokens'[t].revokedAt = Never => tokens[t].revokedAt = Never,
           \A j \in Tab : refresh'[j].stage = "chosen" =>
               refresh[j].stage = "chosen" /\ refresh'[j].target = refresh[j].target
    PROVE  ErasKept'
<1>1. \A t \in DOMAIN tokens' : tokens'[t].era <= history'.era
  BY DEF ErasKept
<1>2. ASSUME ~history'.overlap, ~history'.revived
      PROVE  /\ \A t \in LiveTokens' : tokens'[t].era = history'.era
             /\ \A i \in Tab : refresh'[i].stage = "chosen" =>
                   tokens'[refresh'[i].target].era = history'.era
  BY <1>2 DEF ErasKept, LiveTokens, Live, Serving
<1>. QED
  BY <1>1, <1>2 DEF ErasKept

\* What every step of a refresh but the choice does to it.
LEMMA NotChosen ==
    ASSUME SessionTypeOK, NEW i \in Tab,
           \/ SendRefresh(i) \/ DenyRefresh(i) \/ BeginReplay(i) \/ DetectReplay(i)
           \/ CommitRefresh(i) \/ ReceiveAnswer(i) \/ LoseAnswer(i)
    PROVE  \E r : refresh' = [refresh EXCEPT ![i] = r] /\ r.stage # "chosen"
<1>. DEFINE refused == [IdleRefresh EXCEPT !.stage = "answered"]
            sent(n) == [IdleRefresh EXCEPT !.stage = "sent", !.presented = n]
            answered(n) == [IdleRefresh EXCEPT !.stage = "answered", !.reply = n]
<1>1. refused.stage # "chosen" /\ IdleRefresh.stage # "chosen"
  BY RefusedTypes, IdleTypes
<1>2. ASSUME NEW n PROVE sent(n).stage # "chosen" /\ answered(n).stage # "chosen"
  BY DEF IdleRefresh
<1>3. CASE SendRefresh(i)
  <2>1. refresh' = [refresh EXCEPT ![i] = refused]
        \/ refresh' = [refresh EXCEPT ![i] = sent(jar[Home[i]])]
    BY <1>3 DEF SendRefresh
  <2>. HIDE DEF refused, sent
  <2>. QED
    BY <1>1, <1>2, <2>1
<1>4. CASE DenyRefresh(i) \/ DetectReplay(i)
  <2>1. refresh' = [refresh EXCEPT ![i] = refused]
    BY <1>4 DEF DenyRefresh, DetectReplay, Refuse
  <2>. HIDE DEF refused
  <2>. QED
    BY <1>1, <2>1
<1>5. CASE CommitRefresh(i)
  <2>1. refresh' = [refresh EXCEPT ![i] = refused]
        \/ refresh' = [refresh EXCEPT ![i] = answered(Len(tokens) + 1)]
    BY <1>5 DEF CommitRefresh, Refuse
  <2>. HIDE DEF refused, answered
  <2>. QED
    BY <1>1, <1>2, <2>1
<1>6. CASE ReceiveAnswer(i) \/ LoseAnswer(i)
  BY <1>1, <1>6 DEF ReceiveAnswer, LoseAnswer
<1>7. CASE BeginReplay(i)
  <2>. DEFINE r == [refresh[i] EXCEPT !.stage = "replay", !.target = Len(tokens)]
  <2>1. refresh \in [Tab -> Refresh] /\ refresh[i] \in Refresh
    BY DEF SessionTypeOK
  <2>2. refresh' = [refresh EXCEPT ![i] = r]
    BY <1>7, <2>1 DEF BeginReplay
  <2>3. r.stage = "replay"
    BY <2>1 DEF Refresh
  <2>. HIDE DEF r
  <2>. QED
    BY <2>2, <2>3
<1>. QED
  BY <1>3, <1>4, <1>5, <1>6, <1>7

LEMMA ErasStay ==
    ASSUME SessionTypeOK, Serving, ErasKept, SessionNext
    PROVE  ErasKept'
<1>1. history \in History /\ refresh \in [Tab -> Refresh]
  BY DEF SessionTypeOK
<1>2. ASSUME NEW b \in Browser, login(b) PROVE ErasKept'
  <2>. DEFINE n == Len(tokens) + 1
  <2>1. /\ tokens' = Append(tokens, NewToken(b, history.era)) /\ refresh' = refresh
        /\ history'.era = history.era /\ history'.overlap = history.overlap
        /\ history'.fresh /\ history'.revived = history.revived
    BY <1>1, <1>2 DEF login, History
  <2>2. /\ DOMAIN tokens' = DOMAIN tokens \union {n}
        /\ \A t \in DOMAIN tokens : tokens'[t] = tokens[t]
        /\ tokens'[n] = NewToken(b, history.era)
    BY <2>1, TokenIssued, TokenTypes
  <2>3. tokens'[n].era = history.era /\ history.era <= history.era
    BY <2>2, TokenTypes DEF NewToken
  <2>. HIDE DEF n
  <2>. QED
    BY <2>1, <2>2, <2>3, ErasGrow
<1>3. ASSUME NEW i \in Tab, ChooseToken(i) PROVE ErasKept'
  <2>. DEFINE t == refresh[i].presented
  <2>1. /\ refresh[i].stage = "sent" /\ tokens' = tokens /\ history' = history
        /\ Live(t) \/ Successors(t) # {}
        /\ refresh' = [refresh EXCEPT ![i].stage = "chosen", ![i].target = Target(t)]
    BY <1>3 DEF ChooseToken
  <2>2. Target(t) \in LiveTokens
    BY <2>1, ChosenLives DEF Serving
  <2>3. /\ refresh'[i].target = Target(t)
        /\ \A j \in Tab : j # i => refresh'[j] = refresh[j]
    BY <1>1, <2>1 DEF Refresh
  <2>4. LiveTokens' = LiveTokens
    BY <2>1 DEF LiveTokens, Live
  <2>5. ~history.overlap => /\ history.fresh
                            /\ ~history.revived => tokens[Target(t)].era = history.era
    BY <2>2 DEF ErasKept
  <2>. HIDE DEF t
  <2>. QED
    BY <2>1, <2>3, <2>4, <2>5 DEF ErasKept
<1>4. ASSUME NEW i \in Tab, NEW r, refresh' = [refresh EXCEPT ![i] = r], r.stage # "chosen"
      PROVE  \A j \in Tab : refresh'[j].stage = "chosen" =>
                 refresh[j].stage = "chosen" /\ refresh'[j].target = refresh[j].target
  BY <1>4, OneRefresh
<1>5. ASSUME NEW i \in Tab,
             \/ SendRefresh(i) \/ DenyRefresh(i) \/ BeginReplay(i)
             \/ ReceiveAnswer(i) \/ LoseAnswer(i)
      PROVE  ErasKept'
  <2>1. /\ tokens' = tokens /\ history'.era = history.era /\ history'.overlap = history.overlap
        /\ history'.fresh = history.fresh /\ history'.revived = history.revived
    BY <1>1, <1>5 DEF SendRefresh, DenyRefresh, BeginReplay, ReceiveAnswer, LoseAnswer, History
  <2>2. PICK r : refresh' = [refresh EXCEPT ![i] = r] /\ r.stage # "chosen"
    BY <1>5, NotChosen
  <2>. QED
    BY <1>4, <2>1, <2>2, ErasSame
<1>6. ASSUME NEW i \in Tab, DetectReplay(i) PROVE ErasKept'
  <2>1. tokens' = revoked(tokens, 1..refresh[i].target) /\ history' = history
    BY <1>6 DEF DetectReplay
  <2>2. PICK r : refresh' = [refresh EXCEPT ![i] = r] /\ r.stage # "chosen"
    BY <1>6, NotChosen
  <2>3. /\ DOMAIN tokens' = DOMAIN tokens
        /\ \A t \in DOMAIN tokens :
              /\ tokens'[t].era = tokens[t].era
              /\ tokens'[t].revokedAt = Never => tokens[t].revokedAt = Never
    BY <2>1, TokensRevoked, TokenTypes
  <2>. QED
    BY <1>4, <2>1, <2>2, <2>3, ErasSame
<1>7. ASSUME NEW i \in Tab, CommitRefresh(i) PROVE ErasKept'
  <2>. DEFINE t == refresh[i].target
              b == Home[i]
              e == tokens[refresh[i].presented].era
              n == Len(tokens) + 1
  <2>1. /\ t \in DOMAIN tokens /\ b \in Browser /\ refresh[i].stage = "chosen"
        /\ e \in Nat /\ e <= history.era /\ tokens[t].era \in Nat /\ history.era \in Nat
    BY <1>7, SessionAssumption, TokenTypes DEF CommitRefresh, Serving, ErasKept
  <2>2. PICK r : refresh' = [refresh EXCEPT ![i] = r] /\ r.stage # "chosen"
    BY <1>7, NotChosen
  <2>3. CASE account.status = "ACTIVE"
    <3>1. /\ tokens' = Rotated(tokens, t, b, e)
          /\ history'.era = history.era /\ history'.overlap = history.overlap
          /\ history'.fresh = history.fresh
          /\ history'.revived = (history.revived \/ e < tokens[t].era)
      BY <1>1, <1>7, <2>3 DEF CommitRefresh, History
    <3>. HIDE DEF e
    <3>2. /\ DOMAIN tokens' = DOMAIN tokens \union {n}
          /\ tokens'[n] = NewToken(b, e)
          /\ \A s \in DOMAIN tokens : /\ tokens'[s].era = tokens[s].era
                                      /\ s # t => tokens'[s] = tokens[s]
          /\ tokens'[t].revokedAt = clock /\ clock # Never
      <4>1. tokens'[t].revokedAt = clock /\ clock # Never
        BY <2>1, <3>1, TokensRotated, TokenTypes
      <4>2. /\ DOMAIN tokens' = DOMAIN tokens \union {n}
            /\ tokens'[n] = NewToken(b, e)
        BY <2>1, <3>1, TokensRotated
      <4>3. \A s \in DOMAIN tokens : /\ tokens'[s].era = tokens[s].era
                                     /\ s # t => tokens'[s] = tokens[s]
        BY <2>1, <3>1, TokensRotated
      <4>. QED
        BY <4>1, <4>2, <4>3
    <3>3. ~history.overlap => history'.fresh
      BY <2>1, <3>1 DEF ErasKept
    <3>4. \A s \in DOMAIN tokens : tokens'[s].revokedAt = Never => tokens[s].revokedAt = Never
      BY <3>2
    <3>5. tokens'[n].era = e
      BY <3>2 DEF NewToken
    <3>6. ASSUME ~history.overlap, ~history'.revived PROVE e = history.era
      <4>1. tokens[t].era = history.era
        BY <2>1, <3>1, <3>6 DEF ErasKept
      <4>2. ~(e < tokens[t].era)
        BY <3>1, <3>6
      <4>. QED
        BY <2>1, <4>1, <4>2
    <3>. HIDE DEF n
    <3>. QED
      BY <1>4, <2>1, <2>2, <3>1, <3>2, <3>3, <3>4, <3>5, <3>6, ErasGrow
  <2>4. CASE account.status # "ACTIVE"
    <3>1. tokens' = tokens /\ history' = history
      BY <1>7, <2>4 DEF CommitRefresh
    <3>. QED
      BY <1>4, <2>2, <3>1, ErasSame
  <2>. QED
    BY <2>3, <2>4
<1>8. CASE EndSessions
  <2>1. /\ tokens' = revoked(tokens, Ended(tokens)) /\ refresh' = refresh
        /\ history'.overlap = Overlapping /\ history'.era = history.era + 1
    BY <1>1, <1>8 DEF EndSessions, History
  <2>4. /\ DOMAIN tokens' = DOMAIN tokens
        /\ \A t \in DOMAIN tokens : tokens'[t].era = tokens[t].era
    BY <2>1, TokensRevoked
  <2>5. \A t \in DOMAIN tokens' : tokens'[t].era <= history'.era
    <3>. SUFFICES ASSUME NEW t \in DOMAIN tokens PROVE tokens[t].era <= history.era + 1
      BY <2>1, <2>4
    <3>1. tokens[t].era \in Nat /\ history.era \in Nat /\ tokens[t].era <= history.era
      BY TokenTypes DEF ErasKept
    <3>. QED
      BY <3>1
  <2>. SUFFICES ASSUME ~history'.overlap
                PROVE  /\ LiveTokens' = {}
                       /\ \A i \in Tab : refresh'[i].stage # "chosen"
    BY <2>5 DEF ErasKept
  <2>2. \A t \in DOMAIN tokens : tokens[t].revokedAt = Never => t \in Ended(tokens)
    BY <2>1 DEF Overlapping, LiveTokens, Live, Ended
  <2>3. \A t \in DOMAIN tokens : tokens'[t].revokedAt # Never
    BY <2>1, <2>2, TokensRevoked, TokenTypes
  <2>. QED
    BY <2>1, <2>3, <2>4 DEF LiveTokens, Live, Overlapping
<1>9. CASE Tick
  BY <1>9, ErasSame DEF Tick
<1>. QED
  BY <1>2, <1>3, <1>5, <1>6, <1>7, <1>8, <1>9, QuietSteps, ErasSame
     DEF SessionNext, ServeRefresh

-----------------------------------------------------------------------------
(***************************************************************************)
(* The welcome bonus.                                                      *)
(***************************************************************************)
\* Nothing the bonus depends on changes, but links may be revoked, asked for and issued.
LEMMA BonusSame ==
    ASSUME BonusInv, confirm' = confirm, bonuses' = bonuses, history'.raced = history.raced,
           \A l \in Link : link'[l] # "revoked" => link[l] # "revoked"
    PROVE  BonusInv'
  BY DEF BonusInv, LinkInv, Following, Credited

\* The links that c does not follow are as they were.
LEMMA OtherLinks ==
    ASSUME BonusInv, NEW c \in Confirmation,
           \A d \in Confirmation : d # c => confirm'[d] = confirm[d],
           \A l \in Link : l # LinkOf[c] => link'[l] = link[l] /\ bonuses'[l] = bonuses[l],
           history.raced \subseteq history'.raced
    PROVE  \A l \in Link : l # LinkOf[c] => LinkInv(l)'
<1>. SUFFICES ASSUME NEW l \in Link, l # LinkOf[c] PROVE LinkInv(l)'
  OBVIOUS
<1>1. Following(l)' = Following(l) /\ (Credited(l)' <=> Credited(l))
  BY DEF Following, Credited
<1>2. LinkInv(l) /\ (l \notin history'.raced => l \notin history.raced)
  BY DEF BonusInv
<1>. QED
  BY <1>1, <1>2 DEF LinkInv

LEMMA BonusKept ==
    ASSUME SessionTypeOK, BonusInv, NEW c \in Confirmation, ConfirmationStep(c)
    PROVE  BonusInv'
<1>. DEFINE l == LinkOf[c]
<1>1. /\ history \in History /\ link \in [Link -> {"none", "asked", "live", "revoked"}]
      /\ bonuses \in [Link -> Nat] /\ l \in Link
      /\ confirm \in [Confirmation -> {"idle", "found", "verified", "revoked", "done", "stopped"}]
  BY SessionAssumption DEF SessionTypeOK
<1>2. ASSUME NEW to, confirm' = [confirm EXCEPT ![c] = to]
      PROVE  confirm'[c] = to /\ \A d \in Confirmation : d # c => confirm'[d] = confirm[d]
  BY <1>1, <1>2
<1>8. LinkInv(l)
  BY <1>1 DEF BonusInv
<1>9. ASSUME LinkInv(l)', \A d \in Confirmation : d # c => confirm'[d] = confirm[d],
             \A k \in Link : k # l => link'[k] = link[k] /\ bonuses'[k] = bonuses[k],
             history.raced \subseteq history'.raced
      PROVE  BonusInv'
  BY <1>9, OtherLinks DEF BonusInv
<1>3. CASE FindLink(c)
  <2>1. /\ link[l] = "live" /\ link' = link /\ bonuses' = bonuses
        /\ confirm'[c] = "found" /\ \A d \in Confirmation : d # c => confirm'[d] = confirm[d]
        /\ history'.raced = history.raced \union (IF Finders(c) = {} THEN {} ELSE {l})
    BY <1>1, <1>2, <1>3 DEF FindLink, Step, History
  <2>2. \A d \in Confirmation : LinkOf[d] = l => confirm'[d] \notin {"revoked", "done"}
    BY <1>8, <2>1 DEF LinkInv
  <2>3. ASSUME l \notin history'.raced
        PROVE  (\A d \in Confirmation : d \in Following(l)' => d = c) /\ bonuses'[l] = 0
    <3>1. Finders(c) = {} /\ l \notin history.raced
      BY <2>1, <2>3
    <3>2. ASSUME NEW d \in Confirmation, d \in Following(l)', d # c PROVE FALSE
      BY <2>1, <2>2, <3>1, <3>2 DEF Following, Finders
    <3>3. ~Credited(l)
      BY <1>8, <2>1 DEF LinkInv, Credited
    <3>. QED
      BY <1>8, <2>1, <3>1, <3>2, <3>3 DEF LinkInv
  <2>4. LinkInv(l)'
    BY <2>2, <2>3 DEF LinkInv, Following
  <2>. HIDE DEF l
  <2>. QED
    BY <1>9, <2>1, <2>4
<1>4. CASE MarkVerified(c)
  <2>1. /\ link' = link /\ bonuses' = bonuses /\ history' = history
        /\ confirm[c] = "found"
        /\ confirm'[c] = "verified" /\ \A d \in Confirmation : d # c => confirm'[d] = confirm[d]
    BY <1>2, <1>4 DEF MarkVerified, Step
  <2>2. Following(l)' = Following(l)
    BY <2>1 DEF Following
  <2>3. \A d \in Confirmation : /\ confirm'[d] = "done" <=> confirm[d] = "done"
                                /\ confirm'[d] = "revoked" <=> confirm[d] = "revoked"
    BY <2>1
  <2>4. LinkInv(l)'
    BY <1>8, <2>1, <2>2, <2>3 DEF LinkInv, Credited
  <2>. HIDE DEF l
  <2>. QED
    BY <1>9, <2>1, <2>4
<1>5. CASE RevokeLink(c)
  <2>1. /\ link' = [link EXCEPT ![l] = "revoked"] /\ bonuses' = bonuses /\ history' = history
        /\ confirm[c] = "verified"
        /\ confirm'[c] = "revoked" /\ \A d \in Confirmation : d # c => confirm'[d] = confirm[d]
    BY <1>2, <1>5 DEF RevokeLink, LinkAfter, Step
  <2>2. Following(l)' = Following(l)
    BY <2>1 DEF Following
  <2>3. \A d \in Confirmation : confirm'[d] = "done" <=> confirm[d] = "done"
    BY <2>1
  <2>5. link'[l] = "revoked" /\ \A k \in Link : k # l => link'[k] = link[k]
    BY <1>1, <2>1
  <2>4. LinkInv(l)'
    BY <1>8, <2>1, <2>2, <2>3, <2>5 DEF LinkInv, Credited
  <2>. HIDE DEF l
  <2>. QED
    BY <1>9, <2>1, <2>4, <2>5
<1>6. CASE CreditBonus(c)
  <2>1. /\ link' = link /\ bonuses' = [bonuses EXCEPT ![l] = @ + 1] /\ history' = history
        /\ confirm[c] = "revoked"
        /\ confirm'[c] = "done" /\ \A d \in Confirmation : d # c => confirm'[d] = confirm[d]
    BY <1>2, <1>6 DEF CreditBonus, Step
  <2>2. Following(l)' = Following(l)
    BY <2>1 DEF Following
  <2>3. link[l] = "revoked"
    BY <1>8, <2>1 DEF LinkInv
  <2>6. bonuses'[l] = bonuses[l] + 1 /\ \A k \in Link : k # l => bonuses'[k] = bonuses[k]
    BY <1>1, <2>1
  <2>4. ASSUME l \notin history.raced PROVE bonuses'[l] = 1 /\ Credited(l)'
    <3>1. c \in Following(l)
      BY <2>1 DEF Following
    <3>2. ~Credited(l)
      <4>. SUFFICES ASSUME NEW d \in Confirmation, LinkOf[d] = l, confirm[d] = "done" PROVE FALSE
        BY DEF Credited
      <4>1. d \in Following(l)
        BY DEF Following
      <4>. QED
        BY <1>8, <2>1, <2>4, <3>1, <4>1 DEF LinkInv
    <3>3. bonuses[l] = 0
      BY <1>8, <2>4, <3>2 DEF LinkInv
    <3>. QED
      BY <2>1, <2>6, <3>3 DEF Credited
  <2>5. LinkInv(l)'
    BY <1>8, <2>1, <2>2, <2>3, <2>4 DEF LinkInv
  <2>. HIDE DEF l
  <2>. QED
    BY <1>9, <2>1, <2>5, <2>6
<1>7. CASE StopConfirmation(c)
  <2>1. /\ link' = link /\ bonuses' = bonuses /\ history' = history
        /\ confirm[c] \in {"found", "verified", "revoked"}
        /\ confirm'[c] = "stopped" /\ \A d \in Confirmation : d # c => confirm'[d] = confirm[d]
    BY <1>2, <1>7 DEF StopConfirmation
  <2>2. Following(l)' \subseteq Following(l)
    BY <2>1 DEF Following
  <2>3. \A d \in Confirmation : /\ confirm'[d] = "done" <=> confirm[d] = "done"
                                /\ confirm'[d] = "revoked" => confirm[d] = "revoked"
    BY <2>1
  <2>4. LinkInv(l)'
    BY <1>8, <2>1, <2>2, <2>3 DEF LinkInv, Credited
  <2>. HIDE DEF l
  <2>. QED
    BY <1>9, <2>1, <2>4
<1>. QED
  BY <1>3, <1>4, <1>5, <1>6, <1>7 DEF ConfirmationStep

\* The other steps leave the bonus alone; a reset revokes the links.
LEMMA BonusElsewhere ==
    ASSUME SessionTypeOK, BonusInv, SessionNext,
           ~\E c \in Confirmation : ConfirmationStep(c)
    PROVE  BonusInv'
<1>1. history \in History /\ link \in [Link -> {"none", "asked", "live", "revoked"}]
  BY DEF SessionTypeOK
<1>2. ASSUME NEW i, SendRefresh(i) \/ ServeRefresh(i) \/ ReceiveAnswer(i) \/ LoseAnswer(i)
      PROVE  BonusInv'
  <2>1. confirm' = confirm /\ bonuses' = bonuses /\ link' = link
    BY <1>2 DEF SendRefresh, ServeRefresh, ChooseToken, DenyRefresh, BeginReplay, DetectReplay,
                CommitRefresh, ReceiveAnswer, LoseAnswer
  <2>2. history'.raced = history.raced
    BY <1>1, <1>2 DEF SendRefresh, ServeRefresh, ChooseToken, DenyRefresh, BeginReplay,
                      DetectReplay, CommitRefresh, ReceiveAnswer, LoseAnswer, History
  <2>. QED
    BY <2>1, <2>2, BonusSame
<1>3. CASE EndSessions
  <2>1. /\ confirm' = confirm /\ bonuses' = bonuses /\ history'.raced = history.raced
        /\ link' = link \/ link' = LinksRevoked
    BY <1>1, <1>3 DEF EndSessions, History
  <2>2. \A l \in Link : link'[l] # "revoked" => link[l] # "revoked"
    BY <2>1 DEF LinksRevoked
  <2>. QED
    BY <2>1, <2>2, BonusSame
<1>4. ASSUME NEW b, NEW kind,
             BeginLogin(b) \/ login(b) \/ BeginEnding(kind, b) \/ RestoreUser \/ deleteUser \/ Tick
      PROVE  BonusInv'
  <2>1. confirm' = confirm /\ bonuses' = bonuses /\ link' = link
    BY <1>4 DEF BeginLogin, login, BeginEnding, RestoreUser, deleteUser, Tick
  <2>2. history'.raced = history.raced
    BY <1>1, <1>4 DEF BeginLogin, login, BeginEnding, RestoreUser, deleteUser, Tick, History
  <2>. QED
    BY <2>1, <2>2, BonusSame
<1>5. ASSUME NEW l \in Link, AskLink(l) \/ IssueLink(l) PROVE BonusInv'
  <2>1. confirm' = confirm /\ bonuses' = bonuses /\ history' = history
    BY <1>5 DEF AskLink, IssueLink
  <2>2. \A k \in Link : link'[k] # "revoked" => link[k] # "revoked"
    BY <1>1, <1>5 DEF AskLink, IssueLink
  <2>. QED
    BY <2>1, <2>2, BonusSame
<1>. QED
  BY <1>2, <1>3, <1>4, <1>5 DEF SessionNext

-----------------------------------------------------------------------------
(***************************************************************************)
(* A replay has a cause.                                                   *)
(***************************************************************************)
\* The tokens stay, and no browser is told of a token that is not its own.
LEMMA OrderlySame ==
    ASSUME SessionTypeOK, Orderly, tokens' = tokens, clock' = clock, jar' = jar,
           \A j \in Tab :
              /\ refresh'[j].stage = "sent" =>
                    Presentable(refresh'[j].presented, Home[j], tokens, clock)
              /\ (refresh'[j].stage = "answered" /\ refresh'[j].reply # 0)
                    <=> (refresh[j].stage = "answered" /\ refresh[j].reply # 0)
              /\ refresh[j].stage = "answered" /\ refresh[j].reply # 0
                    => refresh'[j].reply = refresh[j].reply
    PROVE  Orderly'
<1>1. \A t \in DOMAIN tokens : t # 0
  BY TokenTypes
<1>2. ASSUME NEW b \in Browser, NEW t \in DOMAIN tokens, Comes(t, b)
      PROVE  Comes(t, b)'
  BY <1>1, <1>2 DEF Comes
<1>. QED
  BY <1>2 DEF Orderly

\* A step that is not undisturbed says nothing.
LEMMA UndisturbedBefore ==
    ASSUME SessionTypeOK, SessionNext, Undisturbed'
    PROVE  Undisturbed
<1>1. history \in History
  BY DEF SessionTypeOK
<1>2. ASSUME NEW i, SendRefresh(i) \/ ServeRefresh(i) \/ ReceiveAnswer(i) \/ LoseAnswer(i)
      PROVE  Undisturbed
  <2>1. /\ history.lost => history'.lost
        /\ history.taken => history'.taken
        /\ history'.era = history.era
    BY <1>1, <1>2 DEF SendRefresh, ServeRefresh, ChooseToken, DenyRefresh, BeginReplay,
                      DetectReplay, CommitRefresh, ReceiveAnswer, LoseAnswer, History
  <2>. QED
    BY <2>1 DEF Undisturbed
<1>3. CASE EndSessions
  <2>1. history'.era # 0
    BY <1>1, <1>3 DEF EndSessions, History
  <2>. QED
    BY <2>1 DEF Undisturbed
<1>4. ASSUME NEW b \in Browser, login(b) PROVE Undisturbed
  BY <1>1, <1>4 DEF login, Undisturbed, History
<1>5. CASE Tick
  BY <1>5 DEF Tick, Undisturbed
<1>. QED
  BY <1>2, <1>3, <1>4, <1>5, QuietSteps DEF SessionNext, Undisturbed

\* A token issued to b: it becomes the newest one of b, which has it or will get it, and
\* the tokens of others are left alone.
LEMMA OrderlyGrows ==
    ASSUME SessionTypeOK, Orderly, clock' = clock, NEW b \in Browser, NEW n \in Nat,
           n # 0, \A t \in DOMAIN tokens : t < n,
           DOMAIN tokens' = DOMAIN tokens \union {n},
           tokens'[n].home = b, tokens'[n].revokedAt = Never,
           \A t \in DOMAIN tokens :
              /\ tokens'[t].home = tokens[t].home
              /\ tokens'[t].revokedAt \in {tokens[t].revokedAt, clock}
              /\ tokens[t].home # b => tokens'[t].revokedAt = tokens[t].revokedAt,
           Comes(n, b)',
           \A a \in Browser : jar'[a] = jar[a] \/ (a = b /\ jar'[a] = n),
           \A j \in Tab :
              \/ refresh'[j] = refresh[j]
              \/ Home[j] = b /\ refresh[j].stage # "answered"
                   /\ refresh'[j].stage = "answered" /\ refresh'[j].reply = n
    PROVE  Orderly'
<1>1. \A t, a : Presentable(t, a, tokens, clock) => Presentable(t, a, tokens', clock)
  BY DEF Presentable
<1>2. Presentable(n, b, tokens', clock)
  BY DEF Presentable
<1>3. ASSUME NEW a \in Browser PROVE jar'[a] # 0 => Presentable(jar'[a], a, tokens', clock)
  BY <1>1, <1>2 DEF Orderly
<1>4. ASSUME NEW a \in Browser, NEW t \in DOMAIN tokens', IsNewest(t, a, tokens')
      PROVE  tokens'[t].revokedAt = Never /\ Comes(t, a)'
  <2>1. CASE a = b
    <3>1. t \in DOMAIN tokens \/ t = n
      OBVIOUS
    <3>2. n <= t
      BY <1>4, <2>1 DEF IsNewest
    <3>3. t = n
      BY <3>1, <3>2, TokenTypes
    <3>. QED
      BY <2>1, <3>3
  <2>2. CASE a # b
    <3>1. t \in DOMAIN tokens /\ IsNewest(t, a, tokens) /\ tokens[t].home = a
      BY <1>4, <2>2 DEF IsNewest
    <3>2. tokens'[t].revokedAt = Never /\ Comes(t, a)
      BY <2>2, <3>1 DEF Orderly
    <3>3. Comes(t, a)'
      <4>1. CASE jar[a] = t
        BY <2>2, <4>1 DEF Comes
      <4>2. CASE jar[a] # t
        <5>1. PICK j \in Tab : Home[j] = a /\ refresh[j].stage = "answered" /\ refresh[j].reply = t
          BY <3>2, <4>2 DEF Comes
        <5>2. refresh'[j] = refresh[j]
          BY <2>2, <5>1
        <5>. QED
          BY <5>1, <5>2 DEF Comes
      <4>. QED
        BY <4>1, <4>2
    <3>. QED
      BY <3>2, <3>3
  <2>. QED
    BY <2>1, <2>2
<1>5. ASSUME NEW j \in Tab
      PROVE  /\ refresh'[j].stage = "sent" =>
                   Presentable(refresh'[j].presented, Home[j], tokens', clock)
             /\ refresh'[j].stage = "answered" /\ refresh'[j].reply # 0 =>
                   Presentable(refresh'[j].reply, Home[j], tokens', clock)
  <2>1. CASE refresh'[j] = refresh[j]
    BY <1>1, <2>1 DEF Orderly
  <2>2. CASE refresh'[j] # refresh[j]
    BY <1>2, <2>2
  <2>. QED
    BY <2>1, <2>2
<1>. QED
  BY <1>3, <1>4, <1>5 DEF Orderly

\* Signing in.
LEMMA LoginOrderly ==
    ASSUME SessionTypeOK, Orderly, NEW b \in Browser, login(b)
    PROVE  Orderly'
<1>1. PICK n \in Nat : n = Len(tokens) + 1
  BY TokenTypes
<1>2. /\ tokens' = Append(tokens, NewToken(b, history.era))
      /\ jar' = [jar EXCEPT ![b] = n]
      /\ clock' = clock /\ refresh' = refresh
  BY <1>1 DEF login
<1>3. /\ DOMAIN tokens' = DOMAIN tokens \union {n}
      /\ \A t \in DOMAIN tokens : tokens'[t] = tokens[t]
      /\ tokens'[n].home = b /\ tokens'[n].revokedAt = Never
      /\ \A t \in DOMAIN tokens : t < n
      /\ n # 0
  BY <1>1, <1>2, TokenIssued, TokenTypes DEF NewToken
<1>4. jar'[b] = n /\ \A a \in Browser : a # b => jar'[a] = jar[a]
  BY <1>2 DEF SessionTypeOK
<1>5. Comes(n, b)'
  BY <1>4 DEF Comes
<1>6. /\ \A t \in DOMAIN tokens :
            /\ tokens'[t].home = tokens[t].home
            /\ tokens'[t].revokedAt \in {tokens[t].revokedAt, clock}
            /\ tokens[t].home # b => tokens'[t].revokedAt = tokens[t].revokedAt
      /\ \A a \in Browser : jar'[a] = jar[a] \/ (a = b /\ jar'[a] = n)
      /\ \A j \in Tab : refresh'[j] = refresh[j]
  BY <1>2, <1>3, <1>4
<1>. QED
  BY <1>2, <1>3, <1>5, <1>6, OrderlyGrows

\* Rotating a token of the browser that asks.
LEMMA CommitOrderly ==
    ASSUME SessionTypeOK, Serving, Orderly, NEW i \in Tab, CommitRefresh(i), ~history'.taken
    PROVE  Orderly'
<1>. DEFINE b == Home[i]
            t == refresh[i].target
            e == tokens[refresh[i].presented].era
<1>1. /\ b \in Browser /\ refresh \in [Tab -> Refresh] /\ refresh[i].stage = "chosen"
      /\ t \in DOMAIN tokens /\ clock' = clock /\ jar' = jar
      /\ refresh[i].presented \in DOMAIN tokens
  BY SessionAssumption DEF SessionTypeOK, CommitRefresh, Serving
<1>4. e \in Nat
  BY <1>1, TokenTypes
<1>2. CASE account.status = "ACTIVE"
  <2>1. PICK n \in Nat : n = Len(tokens) + 1
    BY TokenTypes
  <2>. DEFINE r == [IdleRefresh EXCEPT !.stage = "answered", !.reply = n]
  <2>2. /\ tokens' = Rotated(tokens, t, b, e) /\ Len(tokens) < MaxTokens
        /\ refresh' = [refresh EXCEPT ![i] = r]
        /\ tokens[t].home = b
    BY <1>2, <2>1 DEF CommitRefresh, SessionTypeOK, History
  <2>. HIDE DEF e
  <2>3. n \in 0..MaxTokens
    BY <2>1, <2>2, TokenTypes
  <2>4. r.stage = "answered" /\ r.reply = n
    BY <2>3, AnsweredTypes
  <2>5. /\ DOMAIN tokens' = DOMAIN tokens \union {n}
        /\ tokens'[n] = NewToken(b, e)
        /\ tokens'[t].revokedAt = clock
        /\ \A s \in DOMAIN tokens : /\ tokens'[s].home = tokens[s].home
                                    /\ s # t => tokens'[s] = tokens[s]
    BY <1>1, <1>4, <2>1, <2>2, TokensRotated, ZenonT(60)
  <2>6. tokens'[n].home = b /\ tokens'[n].revokedAt = Never
    BY <2>5 DEF NewToken
  <2>7. n # 0 /\ \A s \in DOMAIN tokens : s < n
    BY <2>1, TokenTypes
  <2>. HIDE DEF r
  <2>8. refresh'[i] = r /\ \A j \in Tab : j # i => refresh'[j] = refresh[j]
    BY <1>1, <2>2
  <2>9. Comes(n, b)'
    BY <2>4, <2>8 DEF Comes
  <2>10. /\ \A s \in DOMAIN tokens :
               /\ tokens'[s].home = tokens[s].home
               /\ tokens'[s].revokedAt \in {tokens[s].revokedAt, clock}
               /\ tokens[s].home # b => tokens'[s].revokedAt = tokens[s].revokedAt
         /\ \A a \in Browser : jar'[a] = jar[a]
         /\ \A j \in Tab : \/ refresh'[j] = refresh[j]
                           \/ Home[j] = b /\ refresh[j].stage # "answered"
                                /\ refresh'[j].stage = "answered" /\ refresh'[j].reply = n
    BY <1>1, <2>2, <2>4, <2>5, <2>8
  <2>. QED
    BY <1>1, <2>5, <2>6, <2>7, <2>9, <2>10, OrderlyGrows
<1>3. CASE account.status # "ACTIVE"
  <2>. DEFINE r == [IdleRefresh EXCEPT !.stage = "answered"]
  <2>1. tokens' = tokens /\ refresh' = [refresh EXCEPT ![i] = r]
    BY <1>3 DEF CommitRefresh, Refuse
  <2>2. r.stage = "answered" /\ r.reply = 0
    BY RefusedTypes
  <2>. HIDE DEF r
  <2>3. refresh'[i] = r /\ \A j \in Tab : j # i => refresh'[j] = refresh[j]
    BY <1>1, <2>1
  <2>4. \A j \in Tab :
           /\ refresh'[j].stage = "sent" =>
                 Presentable(refresh'[j].presented, Home[j], tokens, clock)
           /\ (refresh'[j].stage = "answered" /\ refresh'[j].reply # 0)
                 <=> (refresh[j].stage = "answered" /\ refresh[j].reply # 0)
           /\ refresh[j].stage = "answered" /\ refresh[j].reply # 0
                 => refresh'[j].reply = refresh[j].reply
    BY <1>1, <2>2, <2>3 DEF Orderly
  <2>. QED
    BY <1>1, <2>1, <2>4, OrderlySame
<1>. QED
  BY <1>2, <1>3

\* A tab asks with the token its browser has.
LEMMA SendOrderly ==
    ASSUME SessionTypeOK, Orderly, NEW i \in Tab, SendRefresh(i)
    PROVE  Orderly'
<1>. DEFINE b == Home[i]
<1>1. /\ b \in Browser /\ refresh \in [Tab -> Refresh] /\ refresh[i].stage = "idle"
      /\ UNCHANGED <<tokens, clock, jar>>
      /\ jar[b] \in 0..MaxTokens
  <2>1. b \in Browser /\ refresh \in [Tab -> Refresh] /\ jar \in [Browser -> 0..Len(tokens)]
    BY SessionAssumption DEF SessionTypeOK
  <2>2. 0..Len(tokens) \subseteq 0..MaxTokens
    BY TokenTypes
  <2>. QED
    BY <2>1, <2>2 DEF SendRefresh
<1>2. PICK r \in Refresh :
          /\ refresh' = [refresh EXCEPT ![i] = r]
          /\ \/ r.stage = "answered" /\ r.reply = 0
             \/ r.stage = "sent" /\ Presentable(r.presented, b, tokens, clock)
  <2>1. CASE jar[b] = 0
    <3>. DEFINE r == [IdleRefresh EXCEPT !.stage = "answered"]
    <3>1. refresh' = [refresh EXCEPT ![i] = r]
      BY <2>1 DEF SendRefresh
    <3>2. r \in Refresh /\ r.stage = "answered" /\ r.reply = 0
      BY RefusedTypes
    <3>. HIDE DEF r
    <3>. QED
      BY <3>1, <3>2
  <2>2. CASE jar[b] # 0
    <3>. DEFINE r == [IdleRefresh EXCEPT !.stage = "sent", !.presented = jar[b]]
    <3>1. refresh' = [refresh EXCEPT ![i] = r]
      BY <2>2 DEF SendRefresh
    <3>2. r \in Refresh /\ r.stage = "sent" /\ r.presented = jar[b]
      BY <1>1, SentTypes
    <3>3. Presentable(jar[b], b, tokens, clock)
      BY <1>1, <2>2 DEF Orderly
    <3>. HIDE DEF r
    <3>. QED
      BY <3>1, <3>2, <3>3
  <2>. QED
    BY <2>1, <2>2
<1>3. refresh'[i] = r /\ \A j \in Tab : j # i => refresh'[j] = refresh[j]
  BY <1>1, <1>2
<1>4. \A j \in Tab :
          /\ refresh'[j].stage = "sent" =>
                Presentable(refresh'[j].presented, Home[j], tokens, clock)
          /\ (refresh'[j].stage = "answered" /\ refresh'[j].reply # 0)
                <=> (refresh[j].stage = "answered" /\ refresh[j].reply # 0)
          /\ refresh[j].stage = "answered" /\ refresh[j].reply # 0
                => refresh'[j].reply = refresh[j].reply
  BY <1>1, <1>2, <1>3 DEF Orderly
<1>. QED
  BY <1>1, <1>4, OrderlySame

\* A token is chosen, or the chain has ended.
LEMMA ServeOrderly ==
    ASSUME SessionTypeOK, Orderly, NEW i \in Tab, ChooseToken(i) \/ DenyRefresh(i)
    PROVE  Orderly'
<1>1. /\ refresh \in [Tab -> Refresh] /\ refresh[i].stage = "sent"
      /\ UNCHANGED <<tokens, clock, jar>>
  BY DEF SessionTypeOK, ChooseToken, DenyRefresh
<1>2. /\ refresh'[i].stage = "chosen" \/ (refresh'[i].stage = "answered" /\ refresh'[i].reply = 0)
      /\ \A j \in Tab : j # i => refresh'[j] = refresh[j]
  <2>1. CASE ChooseToken(i)
    BY <1>1, <2>1 DEF ChooseToken, Refresh
  <2>2. CASE DenyRefresh(i)
    <3>. DEFINE r == [IdleRefresh EXCEPT !.stage = "answered"]
    <3>1. refresh' = [refresh EXCEPT ![i] = r]
      BY <2>2 DEF DenyRefresh, Refuse
    <3>2. r.stage = "answered" /\ r.reply = 0
      BY RefusedTypes
    <3>. HIDE DEF r
    <3>. QED
      BY <1>1, <3>1, <3>2
  <2>. QED
    BY <2>1, <2>2
<1>3. \A j \in Tab :
          /\ refresh'[j].stage = "sent" =>
                Presentable(refresh'[j].presented, Home[j], tokens, clock)
          /\ (refresh'[j].stage = "answered" /\ refresh'[j].reply # 0)
                <=> (refresh[j].stage = "answered" /\ refresh[j].reply # 0)
          /\ refresh[j].stage = "answered" /\ refresh[j].reply # 0
                => refresh'[j].reply = refresh[j].reply
  BY <1>1, <1>2 DEF Orderly
<1>. QED
  BY <1>1, <1>3, OrderlySame

\* An answer that is not overtaken brings the newest token of the browser or a newer
\* one than it has.
LEMMA ReceiveOrderly ==
    ASSUME SessionTypeOK, Serving, Orderly, NEW i \in Tab, ReceiveAnswer(i), ~history'.lost
    PROVE  Orderly'
<1>. DEFINE b == Home[i]
            reply == refresh[i].reply
<1>1. /\ b \in Browser /\ refresh \in [Tab -> Refresh] /\ refresh[i].stage = "answered"
      /\ jar \in [Browser -> 0..Len(tokens)] /\ reply \in 0..Len(tokens)
      /\ tokens' = tokens /\ clock' = clock
      /\ jar' = IF reply = 0 THEN jar ELSE [jar EXCEPT ![b] = reply]
      /\ refresh' = [refresh EXCEPT ![i] = IdleRefresh]
      /\ ~(reply # 0 /\ reply < jar[b])
  BY SessionAssumption DEF SessionTypeOK, Serving, ReceiveAnswer, History
<1>2. refresh'[i] = IdleRefresh /\ \A j \in Tab : j # i => refresh'[j] = refresh[j]
  BY <1>1
<1>3. refresh'[i].stage = "idle"
  BY <1>2, IdleTypes
<1>4. \A t \in DOMAIN tokens : t # 0 /\ t \in Nat
  BY TokenTypes
<1>5. CASE reply = 0
  <2>1. \A j \in Tab :
            /\ refresh'[j].stage = "sent" =>
                  Presentable(refresh'[j].presented, Home[j], tokens, clock)
            /\ (refresh'[j].stage = "answered" /\ refresh'[j].reply # 0)
                  <=> (refresh[j].stage = "answered" /\ refresh[j].reply # 0)
            /\ refresh[j].stage = "answered" /\ refresh[j].reply # 0
                  => refresh'[j].reply = refresh[j].reply
    BY <1>1, <1>2, <1>3, <1>5 DEF Orderly
  <2>. QED
    BY <1>1, <1>5, <2>1, OrderlySame
<1>6. CASE reply # 0
  <2>1. jar'[b] = reply /\ \A a \in Browser : a # b => jar'[a] = jar[a]
    BY <1>1, <1>6
  <2>2. Presentable(reply, b, tokens, clock)
    BY <1>1, <1>6 DEF Orderly
  <2>3. \A a \in Browser : jar'[a] # 0 => Presentable(jar'[a], a, tokens, clock)
    BY <2>1, <2>2 DEF Orderly
  <2>4. ASSUME NEW a \in Browser, NEW t \in DOMAIN tokens, IsNewest(t, a, tokens)
        PROVE  tokens[t].revokedAt = Never /\ Comes(t, a)'
    <3>1. tokens[t].revokedAt = Never /\ Comes(t, a)
      BY <2>4 DEF Orderly
    <3>2. ASSUME NEW j \in Tab, j # i, Home[j] = a,
                 refresh[j].stage = "answered", refresh[j].reply = t
          PROVE  Comes(t, a)'
      BY <1>2, <3>2 DEF Comes
    <3>3. CASE a # b
      BY <2>1, <3>1, <3>2, <3>3 DEF Comes
    <3>4. CASE a = b
      <4>1. reply <= t
        BY <2>2, <2>4, <3>4 DEF IsNewest, Presentable
      <4>2. CASE reply = t
        <5>1. jar'[a] = t
          BY <2>1, <3>4, <4>2
        <5>. QED
          BY <3>1, <5>1 DEF Comes
      <4>3. CASE reply # t
        <5>1. jar[a] # t
          BY <1>1, <1>4, <1>6, <3>4, <4>1, <4>3
        <5>. QED
          BY <3>1, <3>2, <4>3, <5>1 DEF Comes
      <4>. QED
        BY <4>2, <4>3
    <3>. QED
      BY <3>1, <3>3, <3>4
  <2>5. \A j \in Tab :
            /\ refresh'[j].stage = "sent" =>
                  Presentable(refresh'[j].presented, Home[j], tokens, clock)
            /\ refresh'[j].stage = "answered" /\ refresh'[j].reply # 0 =>
                  Presentable(refresh'[j].reply, Home[j], tokens, clock)
    BY <1>2, <1>3 DEF Orderly
  <2>. QED
    BY <1>1, <2>3, <2>4, <2>5 DEF Orderly
<1>. QED
  BY <1>5, <1>6

\* When nothing is on its way every browser has its newest token, which lives.
LEMMA TickOrderly ==
    ASSUME SessionTypeOK, Orderly, Tick
    PROVE  Orderly'
<1>1. /\ \A i \in Tab : refresh[i].stage = "idle"
      /\ UNCHANGED <<tokens, jar, refresh>>
  BY DEF Tick
<1>2. ASSUME NEW b \in Browser, jar[b] # 0
      PROVE  Presentable(jar[b], b, tokens, clock')
  <2>. DEFINE mine == {t \in DOMAIN tokens : tokens[t].home = b}
  <2>1. jar[b] \in mine
    BY <1>2 DEF Orderly, Presentable
  <2>2. mine \in SUBSET (1..Len(tokens)) /\ Len(tokens) \in Nat
    BY TokenTypes
  <2>3. Max(mine) \in mine /\ \A s \in mine : s <= Max(mine)
    <3>. HIDE DEF mine
    <3>. QED
      BY <2>1, <2>2, GreatestToken
  <2>4. IsNewest(Max(mine), b, tokens)
    BY <2>3 DEF IsNewest
  <2>5. tokens[Max(mine)].revokedAt = Never /\ Comes(Max(mine), b)
    BY <2>3, <2>4 DEF Orderly
  <2>6. jar[b] = Max(mine)
    BY <1>1, <2>5 DEF Comes
  <2>. QED
    BY <2>1, <2>5, <2>6 DEF Presentable
<1>3. ASSUME NEW b, NEW t, Comes(t, b) PROVE Comes(t, b)'
  BY <1>1, <1>3 DEF Comes
<1>. QED
  BY <1>1, <1>2, <1>3 DEF Orderly

LEMMA ReplayKept ==
    ASSUME SessionTypeOK, Serving, ReplayInv, SessionNext
    PROVE  ReplayInv'
<1>. SUFFICES ASSUME Undisturbed' PROVE (~history.replayed /\ Orderly)'
  BY DEF ReplayInv
<1>1. Undisturbed /\ ~history.replayed /\ Orderly /\ history \in History
  BY UndisturbedBefore DEF ReplayInv, SessionTypeOK
<1>2. /\ ~history'.lost /\ ~history'.taken /\ history'.era = 0
  BY DEF Undisturbed
<1>3. ASSUME NEW i \in Tab, BeginReplay(i) \/ DetectReplay(i) PROVE FALSE
  <2>1. CASE BeginReplay(i)
    <3>1. /\ refresh[i].stage = "sent"
          /\ tokens[refresh[i].presented].revokedAt \notin {Never, clock}
      BY <2>1 DEF BeginReplay, Live, Recent
    <3>. QED
      BY <1>1, <3>1 DEF Orderly, Presentable
  <2>2. CASE DetectReplay(i)
    BY <1>1, <2>2 DEF DetectReplay, Serving
  <2>. QED
    BY <1>3, <2>1, <2>2
<1>4. ASSUME NEW i \in Tab, LoseAnswer(i) PROVE FALSE
  BY <1>1, <1>2, <1>4 DEF LoseAnswer, History
<1>5. CASE EndSessions
  BY <1>1, <1>2, <1>5 DEF EndSessions, History
<1>6. ASSUME NEW i \in Tab, ~BeginReplay(i), ~DetectReplay(i), ~LoseAnswer(i),
             SendRefresh(i) \/ ServeRefresh(i) \/ ReceiveAnswer(i)
      PROVE  (~history.replayed /\ Orderly)'
  <2>1. history'.replayed = history.replayed
    BY <1>1, <1>6 DEF SendRefresh, ServeRefresh, ChooseToken, DenyRefresh, CommitRefresh,
                      ReceiveAnswer, History
  <2>2. Orderly'
    BY <1>1, <1>2, <1>6, SendOrderly, ServeOrderly, CommitOrderly, ReceiveOrderly DEF ServeRefresh
  <2>. QED
    BY <1>1, <2>1, <2>2
<1>7. ASSUME NEW b \in Browser, login(b) PROVE (~history.replayed /\ Orderly)'
  BY <1>1, <1>7, LoginOrderly DEF login, History
<1>8. CASE Tick
  BY <1>1, <1>8, TickOrderly DEF Tick
<1>9. ASSUME UNCHANGED <<tokens, clock, jar, refresh>>, history'.replayed = history.replayed
      PROVE  (~history.replayed /\ Orderly)'
  <2>1. \A j \in Tab :
            refresh'[j].stage = "sent" =>
                Presentable(refresh'[j].presented, Home[j], tokens, clock)
    BY <1>1, <1>9 DEF Orderly
  <2>2. Orderly'
    BY <1>1, <1>9, <2>1, OrderlySame
  <2>. QED
    BY <1>1, <1>9, <2>2
<1>. QED
  BY <1>3, <1>4, <1>5, <1>6, <1>7, <1>8, <1>9, QuietSteps DEF SessionNext, ServeRefresh

-----------------------------------------------------------------------------
(***************************************************************************)
(* The theorems.                                                           *)
(***************************************************************************)
LEMMA SessionStart ==
    ASSUME SessionInit PROVE SessionInv
<1>. USE DEF SessionInit
<1>1. SessionTypeOK
  <2>1. account \in [status : {"ACTIVE", "SUSPENDED", "BANNED"}, verified : BOOLEAN, deleted : BOOLEAN]
        /\ history \in History
    BY DEF History
  <2>2. /\ tokens \in Seq(TokenRow) /\ Len(tokens) = 0 /\ 0 <= MaxTokens /\ clock \in 0..MaxClock
        /\ jar \in [Browser -> 0..Len(tokens)]
    BY SessionAssumption
  <2>3. refresh \in [Tab -> Refresh] /\ ending \in Ending
    BY IdleTypes
  <2>4. link \in [Link -> {"none", "asked", "live", "revoked"}] /\ bonuses \in [Link -> Nat]
    OBVIOUS
  <2>. QED
    BY <2>1, <2>2, <2>3, <2>4 DEF SessionTypeOK
<1>2. DOMAIN tokens = {} /\ \A i \in Tab : refresh[i].stage = "idle"
  BY IdleTypes
<1>3. Serving /\ LastLives /\ SuccessorNeverVanishes /\ ErasKept
  BY <1>2 DEF Serving, LastLives, SuccessorNeverVanishes, ErasKept, LiveTokens
<1>4. BonusInv
  BY DEF BonusInv, LinkInv, Following
<1>5. ReplayInv
  BY <1>2 DEF ReplayInv, Orderly
<1>. QED
  BY <1>1, <1>3, <1>4, <1>5 DEF SessionInv

LEMMA SessionStep ==
    ASSUME SessionInv, [SessionNext]_sessionVars PROVE SessionInv'
<1>1. CASE SessionNext
  <2>1. SessionTypeOK' /\ Serving'
    BY <1>1, LoginTypes, RefreshStepTypes, CommitTypes, EndingTypes, OtherTypes
       DEF SessionInv, SessionNext, ServeRefresh
  <2>2. LastLives' /\ SuccessorNeverVanishes'
    BY <1>1, ChainKept DEF SessionInv, ChainInv
  <2>3. ErasKept'
    BY <1>1, ErasStay DEF SessionInv
  <2>4. BonusInv'
    BY <1>1, BonusKept, BonusElsewhere DEF SessionInv
  <2>5. ReplayInv'
    BY <1>1, ReplayKept DEF SessionInv
  <2>. QED
    BY <2>1, <2>2, <2>3, <2>4, <2>5 DEF SessionInv
<1>2. CASE UNCHANGED sessionVars
  <2>1. SessionTypeOK' /\ Serving' /\ LastLives' /\ SuccessorNeverVanishes' /\ ErasKept'
    BY <1>2 DEF SessionInv, sessionVars, SessionTypeOK, Serving, LastLives,
                SuccessorNeverVanishes, ErasKept, LiveTokens, Live
  <2>2. BonusInv'
    BY <1>2, BonusSame DEF SessionInv, sessionVars
  <2>3. ReplayInv'
    <3>1. ASSUME NEW t, NEW b PROVE Comes(t, b)' <=> Comes(t, b)
      BY <1>2 DEF sessionVars, Comes
    <3>2. Orderly' <=> Orderly
      BY <1>2, <3>1 DEF sessionVars, Orderly
    <3>. QED
      BY <1>2, <3>2 DEF SessionInv, sessionVars, ReplayInv, Undisturbed
  <2>. QED
    BY <2>1, <2>2, <2>3 DEF SessionInv
<1>. QED
  BY <1>1, <1>2

\* The invariant of the sessions holds in every state: types, names that exist, the
\* chain of rotations, the eras of the live tokens, the links, and the order of cookies.
THEOREM SessionInductive == SessionSpec => []SessionInv
<1>. QED
  BY SessionStart, SessionStep, PTL DEF SessionSpec

\* Every variable keeps its type; a cookie names a token that was issued.
THEOREM SessionTypes == SessionSpec => []SessionTypeOK
<1>1. SessionInv => SessionTypeOK
  BY DEF SessionInv
<1>. QED
  BY <1>1, SessionInductive, PTL

\* As long as nobody ended the sessions, a refresh within the grace finds a token to
\* chain onto, for any number of tabs and browsers (refreshSession).
THEOREM SessionChain == SessionSpec => []SuccessorNeverVanishes
<1>1. SessionInv => SuccessorNeverVanishes
  BY DEF SessionInv
<1>. QED
  BY <1>1, SessionInductive, PTL

\* What looks like a replay follows a lost or overtaken answer, a token taken over from
\* another browser, or an end of the sessions.
THEOREM SessionReplay == SessionSpec => []ReplayHasCause
<1>1. SessionInv => ReplayHasCause
  BY TokenTypes DEF SessionInv, ReplayInv, Undisturbed, ReplayHasCause
<1>. QED
  BY <1>1, SessionInductive, PTL

\* Unless a sign-in or a refresh was under way, the end of all sessions (logout,
\* changePassword, resetPassword, setUserStatus) leaves no live token until the next
\* sign-in, and afterwards only sessions signed in since, except those that took over the
\* token of such a sign-in within the grace.
THEOREM SessionEnd == SessionSpec => []SessionsEndTogether
<1>1. SessionInv => SessionsEndTogether
  BY DEF SessionInv, ErasKept, SessionsEndTogether
<1>. QED
  BY <1>1, SessionInductive, PTL

\* However many links are issued and followed, each credits the welcome bonus at most
\* once, unless two confirmations found it before either revoked it (resendVerification,
\* verifyEmail).
THEOREM SessionBonus == SessionSpec => []BonusOncePerLink
<1>1. SessionInv => BonusOncePerLink
  BY DEF SessionInv, SessionTypeOK, BonusInv, LinkInv, BonusOncePerLink
<1>. QED
  BY <1>1, SessionInductive, PTL

=============================================================================
