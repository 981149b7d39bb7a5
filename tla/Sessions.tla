------------------------------- MODULE Sessions -------------------------------
(***************************************************************************)
(* Accounts and the ways into them (AuthService, the sub-user handlers of  *)
(* ProfilesService, AdminService.updateUserStatus and the identity cache   *)
(* behind the JWT guard).  A handler that awaits between its read and its  *)
(* write is split there: `request[h]' is what handler h still has to do.   *)
(* Passwords and the bodies of access tokens are left out: a wrong         *)
(* password changes nothing, and an access token is not kept anywhere.     *)
(*                                                                         *)
(* `uses' is a history variable: how many logins (or password changes) a   *)
(* code and how many rotations a refresh token has given.                  *)
(***************************************************************************)
EXTENDS Logins

CONSTANTS
  Contacts,     \* the e-mail address and the phone number a login registers with
  MaxCode,      \* bound: one-time codes sent
  Token,        \* ids of refresh tokens; an expired one is used again
  LoginWindow,  \* how many recent codes verifyOtpAndLogin looks at (10)
  ResetWindow   \* how many recent codes passwordResetConfirm looks at (5)

Code    == 1 .. MaxCode     \* in the order of createdAt
Contact == UNION {Contacts[u] : u \in Login}

ASSUME SessionsAssumption ==
  /\ MaxCode \in Nat
  /\ Nobody \notin Code \cup Token
  /\ Code \cap Token = {}

VARIABLES
  account,   \* users
  code,      \* otp_sessions
  token,     \* refresh_tokens
  identity,  \* the cache entries auth:validate:<id>
  request,
  uses
sessionVars == <<account, code, token, identity, request, uses>>

AccountRow == [exists : BOOLEAN, removed : BOOLEAN, active : BOOLEAN, verified : BOOLEAN]
NoAccount  == [exists |-> FALSE, removed |-> FALSE, active |-> FALSE, verified |-> FALSE]

CodeRow == [kind : {"unsent", "registration", "password_reset"},
            owner : Login \cup {Nobody}, used : BOOLEAN, fresh : BOOLEAN]
NoCode  == [kind |-> "unsent", owner |-> Nobody, used |-> FALSE, fresh |-> FALSE]

TokenRow == [owner : Login \cup {Nobody}, live : BOOLEAN]
NoToken  == [owner |-> Nobody, live |-> FALSE]

Request == [at : {"idle", "insert", "code", "reset", "rotate", "issue", "fill"},
            who : Login \cup {Nobody}, what : Code \cup Token \cup {Nobody}, ok : BOOLEAN]
Idle    == [at |-> "idle", who |-> Nobody, what |-> Nobody, ok |-> FALSE]

SessionsInit ==
  /\ account = [u \in Login |-> NoAccount]
  /\ code = [c \in Code |-> NoCode]
  /\ token = [t \in Token |-> NoToken]
  /\ identity = [u \in Login |-> "none"]
  /\ request = [h \in Handler |-> Idle]
  /\ uses = [x \in Code \cup Token |-> 0]

Live(u)   == account[u].exists /\ ~account[u].removed
Usable(u) == Live(u) /\ account[u].active

Become(h, r) == request' = [request EXCEPT ![h] = r]
Doing(h, step) == request[h].at = step

(***************************************************************************)
(* Accounts.                                                               *)
(***************************************************************************)

\* ensureEmailPhoneAvailable: removed accounts do not count.
Available(u) == \A v \in Login : Live(v) => Contacts[u] \cap Contacts[v] = {}

\* The five register handlers and createSubUser check the addresses, then hash the
\* password.
Register(h, u) ==
  /\ Doing(h, "idle")
  /\ ~account[u].exists /\ \A g \in Handler : request[g].who # u
  /\ IsSub(u) => Live(RootOf[u])
  /\ Available(u)
  /\ Become(h, [Idle EXCEPT !.at = "insert", !.who = u])
  /\ UNCHANGED <<account, code, token, identity, uses>>

\* The unique keys on email and phone count every row, removed ones too.
KeyTaken(u) == \E v \in Login : account[v].exists /\ Contacts[u] \cap Contacts[v] # {}

Insert(h) ==
  LET u == request[h].who IN
  /\ Doing(h, "insert")
  /\ account' = IF KeyTaken(u) THEN account
                ELSE [account EXCEPT ![u] = [NoAccount EXCEPT !.exists = TRUE, !.active = TRUE,
                                                              !.verified = IsSub(u)]]
  /\ Become(h, Idle)
  /\ UNCHANGED <<code, token, identity, uses>>

SetUserStatus(u, active) ==
  /\ Live(u)
  /\ account' = [account EXCEPT ![u].active = active]
  /\ UNCHANGED <<code, token, identity, request, uses>>

RemoveSubUser(u) ==
  /\ IsSub(u) /\ Live(u)
  /\ account' = [account EXCEPT ![u].removed = TRUE, ![u].active = FALSE]
  /\ UNCHANGED <<code, token, identity, request, uses>>

(***************************************************************************)
(* One-time codes.                                                         *)
(***************************************************************************)
OwnerOf(a) ==
  IF \E u \in Login : Live(u) /\ a \in Contacts[u]
  THEN CHOOSE u \in Login : Live(u) /\ a \in Contacts[u] ELSE Nobody

SendCode(kind, owner) ==
  \E c \in Code :
    /\ code[c].kind = "unsent" /\ \A d \in Code : d < c => code[d].kind # "unsent"
    /\ code' = [code EXCEPT ![c] = [kind |-> kind, owner |-> owner,
                                    used |-> FALSE, fresh |-> TRUE]]
    /\ UNCHANGED <<account, token, identity, request, uses>>

\* A number nobody has registered yet gets a code too, filed under no user.
SendOtp(a) == SendCode("registration", OwnerOf(a))

PasswordResetRequest(a) == OwnerOf(a) # Nobody /\ SendCode("password_reset", OwnerOf(a))

Newest(S, n) == {c \in S : Cardinality({d \in S : d > c}) < n}

\* Mutant of Open: looks at codes already used.
OpenOrUsed(kind, owners) ==
  {c \in Code : code[c].kind = kind /\ code[c].fresh /\ code[c].owner \in owners}

Open(kind, owners) ==
  {c \in Code : /\ code[c].kind = kind /\ code[c].owner \in owners
                /\ ~code[c].used /\ code[c].fresh}

CheckCode(h, u, c) ==
  /\ Doing(h, "idle") /\ Live(u)
  /\ c \in Newest(Open("registration", {u, Nobody}), LoginWindow)
  /\ Become(h, [at |-> "code", who |-> u, what |-> c, ok |-> account[u].active])
  /\ UNCHANGED <<account, code, token, identity, uses>>

MarkUsed(h) == code' = [code EXCEPT ![request[h].what].used = TRUE]
CountUse(h) == uses' = [uses EXCEPT ![request[h].what] = @ + 1]

\* The code is spent whatever comes of it; a user who was not active when read is
\* turned away.
UseCode(h) ==
  /\ Doing(h, "code")
  /\ MarkUsed(h)
  /\ IF request[h].ok
     THEN /\ account' = [account EXCEPT ![request[h].who].verified = TRUE]
          /\ Become(h, [request[h] EXCEPT !.at = "issue"])
          /\ CountUse(h)
     ELSE Become(h, Idle) /\ UNCHANGED <<account, uses>>
  /\ UNCHANGED <<token, identity>>

CheckResetCode(h, u, c) ==
  /\ Doing(h, "idle") /\ Live(u)
  /\ c \in Newest(Open("password_reset", {u}), ResetWindow)
  /\ Become(h, [at |-> "reset", who |-> u, what |-> c, ok |-> TRUE])
  /\ UNCHANGED <<account, code, token, identity, uses>>

ResetPassword(h) ==
  /\ Doing(h, "reset")
  /\ MarkUsed(h) /\ CountUse(h)
  /\ Become(h, Idle)
  /\ UNCHANGED <<account, token, identity>>

ExpireCode(c) ==
  /\ code[c].fresh
  /\ code' = [code EXCEPT ![c].fresh = FALSE]
  /\ UNCHANGED <<account, token, identity, request, uses>>

(***************************************************************************)
(* Refresh tokens.                                                         *)
(***************************************************************************)
LogIn(h, u) ==
  /\ Doing(h, "idle") /\ Usable(u)
  /\ Become(h, [Idle EXCEPT !.at = "issue", !.who = u])
  /\ UNCHANGED <<account, code, token, identity, uses>>

\* The id of an expired token serves again once no handler holds it.
Issue(h) ==
  /\ Doing(h, "issue")
  /\ \E t \in Token :
       /\ token[t] = NoToken /\ \A g \in Handler : request[g].what # t
       /\ token' = [token EXCEPT ![t] = [owner |-> request[h].who, live |-> TRUE]]
       /\ uses' = [uses EXCEPT ![t] = 0]
  /\ Become(h, Idle)
  /\ UNCHANGED <<account, code, identity>>

\* Mutant of Welcome: does not look at the account.
AnyoneWelcome(u) == TRUE

Welcome(u) == Usable(u)

\* refresh reads the token with its user, revokes it, and then looks at the user.
CheckToken(h, t) ==
  /\ Doing(h, "idle") /\ token[t].live
  /\ Become(h, [at |-> "rotate", who |-> token[t].owner, what |-> t,
                ok |-> Welcome(token[t].owner)])
  /\ UNCHANGED <<account, code, token, identity, uses>>

Rotate(h) ==
  /\ Doing(h, "rotate")
  /\ token' = [token EXCEPT ![request[h].what].live = FALSE]
  /\ IF request[h].ok
     THEN Become(h, [request[h] EXCEPT !.at = "issue"]) /\ CountUse(h)
     ELSE Become(h, Idle) /\ UNCHANGED uses
  /\ UNCHANGED <<account, code, identity>>

\* logout with a token revokes that one, without a token every one of the user.
Logout(u, T) ==
  /\ account[u].exists
  /\ token' = [t \in Token |-> IF t \in T /\ token[t].owner = u
                               THEN [token[t] EXCEPT !.live = FALSE] ELSE token[t]]
  /\ UNCHANGED <<account, code, identity, request, uses>>

ExpireToken(t) ==
  /\ token[t] # NoToken
  /\ token' = [token EXCEPT ![t] = NoToken]
  /\ UNCHANGED <<account, code, identity, request, uses>>

(***************************************************************************)
(* The identity cache: the guard of every request answers from the entry,  *)
(* and reads the row only when there is none.                              *)
(***************************************************************************)
LookUp(h, u) ==
  /\ Doing(h, "idle") /\ account[u].exists
  /\ identity[u] = "none"
  /\ Become(h, [Idle EXCEPT !.at = "fill", !.who = u, !.ok = Usable(u)])
  /\ UNCHANGED <<account, code, token, identity, uses>>

\* A user not found is cached as well, as null.
StoreIdentity(h) ==
  /\ Doing(h, "fill")
  /\ identity' = [identity EXCEPT ![request[h].who] =
                    IF request[h].ok THEN "user" ELSE "null"]
  /\ Become(h, Idle)
  /\ UNCHANGED <<account, code, token, uses>>

\* Mutants of Lapses: one kind of entry is kept without a time to live.
LapsesUnlessUser(u) == identity[u] = "null"
LapsesUnlessNull(u) == identity[u] = "user"

Lapses(u) == identity[u] # "none"

\* 60 seconds pass.
ExpireIdentity(u) ==
  /\ Lapses(u)
  /\ identity' = [identity EXCEPT ![u] = "none"]
  /\ UNCHANGED <<account, code, token, request, uses>>

\* The process restarts, or Redis refuses the entry: what was left is not done.
Restart(h) ==
  /\ ~Doing(h, "idle")
  /\ Become(h, Idle)
  /\ UNCHANGED <<account, code, token, identity, uses>>

(***************************************************************************)
(* Everything.                                                             *)
(***************************************************************************)
AccountStep ==
  \/ \E u \in Login :
       \/ RemoveSubUser(u)
       \/ \E active \in BOOLEAN : SetUserStatus(u, active)
  \/ \E h \in Handler :
       \/ \E u \in Login : Register(h, u)
       \/ Insert(h)
       \/ Restart(h)

CodeStep ==
  \/ \E a \in Contact : SendOtp(a) \/ PasswordResetRequest(a)
  \/ \E c \in Code : ExpireCode(c)
  \/ \E h \in Handler :
       \/ UseCode(h)
       \/ ResetPassword(h)
       \/ \E u \in Login, c \in Code : CheckCode(h, u, c) \/ CheckResetCode(h, u, c)

TokenStep ==
  \/ \E u \in Login : Logout(u, Token) \/ \E t \in Token : Logout(u, {t})
  \/ \E t \in Token : ExpireToken(t)
  \/ \E h \in Handler :
       \/ Issue(h)
       \/ Rotate(h)
       \/ \E u \in Login : LogIn(h, u)
       \/ \E t \in Token : CheckToken(h, t)

IdentityStep ==
  \/ \E u \in Login : ExpireIdentity(u)
  \/ \E h \in Handler : StoreIdentity(h) \/ \E u \in Login : LookUp(h, u)

SessionsNext == AccountStep \/ CodeStep \/ TokenStep \/ IdentityStep

\* A handler that was started goes on, and time passes: tokens and cache entries
\* reach the end of their lives.
Proceed(h) == Insert(h) \/ UseCode(h) \/ ResetPassword(h) \/ Issue(h) \/ Rotate(h)
              \/ StoreIdentity(h)
SessionsFairness ==
  /\ \A h \in Handler : WF_sessionVars(Proceed(h))
  /\ \A t \in Token : WF_sessionVars(ExpireToken(t))
  /\ \A u \in Login : WF_sessionVars(ExpireIdentity(u))

SessionsSpec == SessionsInit /\ [][SessionsNext]_sessionVars /\ SessionsFairness

(***************************************************************************)
(* Properties.                                                             *)
(***************************************************************************)

\* Every variable has its type.
SessionsTypeOK ==
  /\ account \in [Login -> AccountRow]
  /\ code \in [Code -> CodeRow]
  /\ token \in [Token -> TokenRow]
  /\ identity \in [Login -> {"none", "user", "null"}]
  /\ request \in [Handler -> Request]
  /\ uses \in [Code \cup Token -> Nat]

\* A one-time code or a refresh token read before it is marked gives more than one
\* login only to requests that overlap: never more of them than the server works on
\* at one time.
LoginsBounded == \A x \in Code \cup Token : uses[x] <= Cardinality(Handler)

Gone(u) == account[u].exists /\ ~Usable(u)
HasAccess(u) == identity[u] = "user" \/ \E t \in Token : token[t].owner = u /\ token[t].live

\* "deactivated / soft-deleted users lose access quickly without needing an explicit
\* invalidate": a user who stays suspended or removed ends up with no identity in the
\* cache and no live refresh token, whatever was in flight.
AccessEnds == \A u \in Login : <>[]Gone(u) => <>[]~HasAccess(u)

\* And one who is let in again is not refused for ever: no cached null outlasts it.
AccessReturns == \A u \in Login : <>[]Usable(u) => <>[](identity[u] # "null")
=============================================================================
