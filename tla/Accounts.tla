------------------------------ MODULE Accounts ------------------------------
(***************************************************************************)
(* How accounts come to be: registration (services/auth.service.ts) and    *)
(* sign-in with an external provider (services/oauth.service.ts).          *)
(*                                                                         *)
(* A sign-in resolves a provider's identity to an account: by its link, by *)
(* its e-mail, or by a new account.  Each is a statement of its own and no *)
(* transaction holds them together; what stands against duplicates are the *)
(* unique e-mail and the unique link.                                      *)
(***************************************************************************)
EXTENDS Integers, Sequences, FiniteSets

CONSTANTS
    Identity,      \* accounts at the providers
    Callback,      \* sign-ins that came back from a provider
    Who,           \* the identity of each callback
    Email,
    NoEmail,       \* what an identity shows that hides its address
    EmailOf,       \* the address of each identity
    Registration,  \* registrations with a password
    Address,       \* the address of each registration
    Referred       \* the registrations with a referral code

VARIABLES
    users,      \* "users"
    links,      \* "oauth_accounts": the user of each identity, 0 for none
    callback,
    signup,
    rewards,    \* "referral_rewards": the users they are for
    sessions,   \* the sign-ins that issued tokens: identity and user
    disturbed   \* identities of which two callbacks ran at once or one stopped half-way

accountVars == <<users, links, callback, signup, rewards, sessions, disturbed>>

UserRow == [email : Email \union {NoEmail}, state : {"ACTIVE", "SUSPENDED", "DELETED"},
            origin : Identity \union Registration]



ASSUME AccountAssumption ==
    /\ NoEmail \notin Email /\ Identity \intersect Registration = {}
    /\ Who \in [Callback -> Identity] /\ EmailOf \in [Identity -> Email \union {NoEmail}]
    /\ Address \in [Registration -> Email] /\ Referred \subseteq Registration

\* The unique index on users.email; a hidden address is replaced by a random one.
EmailTaken(e) == e # NoEmail /\ \E u \in DOMAIN users : users[u].email = e

NewUser(e, origin) == Append(users, [email |-> e, state |-> "ACTIVE", origin |-> origin])

-----------------------------------------------------------------------------
\* Registration looks for the address, writes the user, and then the reward of its referrer.
CheckAddress(r) ==
    /\ signup[r].stage = "new"
    /\ signup' = [signup EXCEPT ![r].stage =
                      IF EmailTaken(Address[r]) THEN "refused" ELSE "checked"]
    /\ UNCHANGED <<users, links, callback, rewards, sessions, disturbed>>

CreateUser(r) ==
    /\ signup[r].stage = "checked"
    /\ IF EmailTaken(Address[r])
       THEN users' = users /\ signup' = [signup EXCEPT ![r].stage = "refused"]
       ELSE /\ users' = NewUser(Address[r], r)
            /\ signup' = [signup EXCEPT ![r] = [stage |-> "created", user |-> Len(users')]]
    /\ UNCHANGED <<links, callback, rewards, sessions, disturbed>>

CreateReward(r) ==
    /\ signup[r].stage = "created"
    /\ rewards' = IF r \in Referred THEN rewards \union {signup[r].user} ELSE rewards
    /\ signup' = [signup EXCEPT ![r].stage = "done"]
    /\ UNCHANGED <<users, links, callback, sessions, disturbed>>

RegistrationFails(r) ==
    /\ signup[r].stage = "created"
    /\ signup' = [signup EXCEPT ![r].stage = "refused"]
    /\ UNCHANGED <<users, links, callback, rewards, sessions, disturbed>>

-----------------------------------------------------------------------------
Going(c) == callback[c].stage \in {"create", "link", "session"}

\* Mutant of LinkedTo: the link is not looked up.
LinkedToNone(i) == 0

LinkedTo(i) == links[i]

\* The account of the identity: the linked one, or one with its address that is not archived.
Found(i) ==
    IF LinkedTo(i) # 0 THEN {LinkedTo(i)}
    ELSE {u \in DOMAIN users : /\ EmailOf[i] # NoEmail /\ users[u].email = EmailOf[i]
                               /\ users[u].state # "DELETED"}

Resolve(c) ==
    /\ callback[c].stage = "new"
    /\ \/ /\ Found(Who[c]) = {}
          /\ callback' = [callback EXCEPT ![c].stage = "create"]
       \/ \E u \in Found(Who[c]) :
             callback' = [callback EXCEPT ![c] =
                 IF users[u].state = "ACTIVE" THEN [stage |-> "link", user |-> u]
                 ELSE [stage |-> "refused", user |-> 0]]
    /\ disturbed' = IF \E d \in Callback : Who[d] = Who[c] /\ Going(d)
                    THEN disturbed \union {Who[c]} ELSE disturbed
    /\ UNCHANGED <<users, links, signup, rewards, sessions>>

\* The wallet and the profile are written with the user.
CreateSocialUser(c) ==
    /\ callback[c].stage = "create"
    /\ LET e == EmailOf[Who[c]] IN
       IF EmailTaken(e)
       THEN users' = users /\ callback' = [callback EXCEPT ![c].stage = "refused"]
       ELSE /\ users' = NewUser(e, Who[c])
            /\ callback' = [callback EXCEPT ![c] = [stage |-> "link", user |-> Len(users')]]
    /\ UNCHANGED <<links, signup, rewards, sessions, disturbed>>

\* An existing link is stamped, and keeps its user.
UpsertLink(c) ==
    /\ callback[c].stage = "link"
    /\ links' = [links EXCEPT ![Who[c]] = IF @ = 0 THEN callback[c].user ELSE @]
    /\ callback' = [callback EXCEPT ![c].stage = "session"]
    /\ UNCHANGED <<users, signup, rewards, sessions, disturbed>>

IssueSession(c) ==
    /\ callback[c].stage = "session"
    /\ sessions' = sessions \union {[identity |-> Who[c], user |-> callback[c].user]}
    /\ callback' = [callback EXCEPT ![c].stage = "done"]
    /\ UNCHANGED <<users, links, signup, rewards, disturbed>>

\* A lost connection, or a user name that another account took in between.
CallbackFails(c) ==
    /\ Going(c)
    /\ disturbed' = IF callback[c].stage = "link" THEN disturbed \union {Who[c]} ELSE disturbed
    /\ callback' = [callback EXCEPT ![c].stage = "refused"]
    /\ UNCHANGED <<users, links, signup, rewards, sessions>>

\* setUserStatus and deleteUser, which keeps the address.
SetUserState(u, s) ==
    /\ users[u].state \notin {"DELETED", s}
    /\ users' = [users EXCEPT ![u].state = s]
    /\ UNCHANGED <<links, callback, signup, rewards, sessions, disturbed>>

AccountInit ==
    /\ users = <<>>
    /\ links = [i \in Identity |-> 0]
    /\ callback = [c \in Callback |-> [stage |-> "new", user |-> 0]]
    /\ signup = [r \in Registration |-> [stage |-> "new", user |-> 0]]
    /\ rewards = {} /\ sessions = {} /\ disturbed = {}

AccountNext ==
    \/ \E r \in Registration :
          CheckAddress(r) \/ CreateUser(r) \/ CreateReward(r) \/ RegistrationFails(r)
    \/ \E c \in Callback :
          \/ Resolve(c) \/ CreateSocialUser(c) \/ UpsertLink(c) \/ IssueSession(c)
          \/ CallbackFails(c)
    \/ \E u \in DOMAIN users, s \in {"ACTIVE", "SUSPENDED", "DELETED"} : SetUserState(u, s)

AccountSpec == AccountInit /\ [][AccountNext]_accountVars

-----------------------------------------------------------------------------
(* Types; every number of a user is that of a row, 0 for none.             *)
AccountTypeOK ==
    /\ users \in Seq(UserRow)
    /\ links \in [Identity -> 0..Len(users)]
    /\ callback \in [Callback -> [stage : {"new", "create", "link", "session", "done", "refused"},
                                  user : 0..Len(users)]]
    /\ signup \in [Registration -> [stage : {"new", "checked", "created", "done", "refused"},
                                    user : 0..Len(users)]]
    /\ rewards \subseteq DOMAIN users
    /\ sessions \subseteq [identity : Identity, user : DOMAIN users]
    /\ disturbed \subseteq Identity

(* oauth.service.ts:277, an identity resolves "to exactly one account",    *)
(* whatever is registered, suspended or archived meanwhile: all its        *)
(* sessions are of one user, and it creates no second one.  An identity    *)
(* that hides its address needs for this that its sign-ins do not overlap  *)
(* and none stops before the link.                                         *)
OneAccountPerIdentity ==
    \A i \in Identity : (EmailOf[i] # NoEmail \/ i \notin disturbed) =>
        /\ \A s, t \in sessions : s.identity = i /\ t.identity = i => s.user = t.user
        /\ Cardinality({u \in DOMAIN users : users[u].origin = i}) <= 1
=============================================================================
