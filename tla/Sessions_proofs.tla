---------------------------- MODULE Sessions_proofs ----------------------------
(***************************************************************************)
(* Proofs about accounts and sessions, for any number of logins, codes,    *)
(* tokens and requests at one time.                                        *)
(***************************************************************************)
EXTENDS Sessions, FiniteSetTheorems, TLAPS

(***************************************************************************)
(* Type correctness, with what a request under way holds in its hands.     *)
(***************************************************************************)
Holding ==
  /\ \A h \in Handler :
       /\ request[h].at # "idle" => request[h].who \in Login
       /\ request[h].at \in {"code", "reset"} => request[h].what \in Code
       /\ request[h].at = "rotate" => request[h].what \in Token
  /\ \A t \in Token : token[t].live => token[t].owner \in Login

TypeInv == SessionsTypeOK /\ Holding

\* The first state is well-typed.
LEMMA SessionsTypeInit == SessionsInit => TypeInv
<1>1. NoAccount \in AccountRow /\ NoCode \in CodeRow /\ NoToken \in TokenRow /\ Idle \in Request
  BY DEF NoAccount, AccountRow, NoCode, CodeRow, NoToken, TokenRow, Idle, Request
<1>2. Idle.at = "idle" /\ NoToken.live = FALSE
  BY DEF Idle, NoToken
<1> QED BY <1>1, <1>2 DEF SessionsInit, TypeInv, SessionsTypeOK, Holding

\* Whose address it is: a login, or nobody.
LEMMA OwnerIsLogin == \A a : OwnerOf(a) \in Login \cup {Nobody}
BY DEF OwnerOf

\* Every step writes well-typed values.
LEMMA SessionsTypeStep == TypeInv /\ [SessionsNext]_sessionVars => TypeInv'
<1> SUFFICES ASSUME TypeInv, [SessionsNext]_sessionVars PROVE TypeInv'
  OBVIOUS
<1> USE DEF TypeInv, SessionsTypeOK
<1>i. Idle \in Request
  BY DEF Idle, Request
\* A request that moves on keeps the others where they are.
<1>b. ASSUME NEW h \in Handler, NEW r \in Request, Become(h, r), token' = token,
             r.at # "idle" => r.who \in Login,
             r.at \in {"code", "reset"} => r.what \in Code,
             r.at = "rotate" => r.what \in Token
      PROVE  request' \in [Handler -> Request] /\ Holding'
  <2>1. request' \in [Handler -> Request]
    BY <1>b DEF Become
  <2>2. request'[h] = r /\ \A g \in Handler : g # h => request'[g] = request[g]
    BY <1>b DEF Become
  <2> QED BY <1>b, <2>1, <2>2 DEF Holding
<1>0. ASSUME NEW h \in Handler, Become(h, Idle), token' = token
      PROVE  request' \in [Handler -> Request] /\ Holding'
  <2>1. Idle.at = "idle"
    BY DEF Idle
  <2> QED BY <1>0, <1>b, <1>i, <2>1
<1>q. ASSUME request' = request, token' = token PROVE Holding'
  BY <1>q DEF Holding
<1>r. \A h \in Handler : request[h] \in Request
  OBVIOUS
<1>1. ASSUME NEW h \in Handler, NEW u \in Login, Register(h, u) PROVE TypeInv'
  <2>1. [Idle EXCEPT !.at = "insert", !.who = u] \in Request
    BY DEF Idle, Request
  <2> QED BY <1>1, <2>1, <1>b DEF Register, Idle
<1>2. ASSUME NEW h \in Handler, Insert(h) PROVE TypeInv'
  <2>1. [NoAccount EXCEPT !.exists = TRUE, !.active = TRUE, !.verified = IsSub(request[h].who)]
          \in AccountRow
    BY DEF NoAccount, AccountRow, IsSub
  <2>2. account' \in [Login -> AccountRow]
    BY <1>2, <2>1 DEF Insert
  <2> QED BY <1>2, <2>2, <1>0 DEF Insert
<1>3. ASSUME NEW u \in Login, NEW active \in BOOLEAN, SetUserStatus(u, active) PROVE TypeInv'
  <2>1. account' \in [Login -> AccountRow]
    BY <1>3 DEF SetUserStatus, AccountRow
  <2> QED BY <1>3, <2>1, <1>q DEF SetUserStatus
<1>4. ASSUME NEW u \in Login, RemoveSubUser(u) PROVE TypeInv'
  <2>1. account' \in [Login -> AccountRow]
    BY <1>4 DEF RemoveSubUser, AccountRow
  <2> QED BY <1>4, <2>1, <1>q DEF RemoveSubUser
<1>5. ASSUME NEW kind \in {"registration", "password_reset"}, NEW o \in Login \cup {Nobody},
             SendCode(kind, o)
      PROVE  TypeInv'
  <2>1. [kind |-> kind, owner |-> o, used |-> FALSE, fresh |-> TRUE] \in CodeRow
    BY DEF CodeRow
  <2>2. code' \in [Code -> CodeRow]
    BY <1>5, <2>1 DEF SendCode
  <2> QED BY <1>5, <2>2, <1>q DEF SendCode
<1>6. ASSUME NEW a, SendOtp(a) \/ PasswordResetRequest(a) PROVE TypeInv'
  BY <1>5, <1>6, OwnerIsLogin DEF SendOtp, PasswordResetRequest
<1>7. ASSUME NEW h \in Handler, NEW u \in Login, NEW c \in Code,
             CheckCode(h, u, c) \/ CheckResetCode(h, u, c)
      PROVE  TypeInv'
  <2>1. account[u].active \in BOOLEAN
    BY DEF AccountRow
  <2>2. /\ [at |-> "code", who |-> u, what |-> c, ok |-> account[u].active] \in Request
        /\ [at |-> "reset", who |-> u, what |-> c, ok |-> TRUE] \in Request
    BY <2>1 DEF Request
  <2> QED BY <1>7, <2>2, <1>b DEF CheckCode, CheckResetCode
<1>c. ASSUME NEW h \in Handler, MarkUsed(h) PROVE code' \in [Code -> CodeRow]
  BY <1>c DEF MarkUsed, CodeRow
<1>u. ASSUME NEW h \in Handler, CountUse(h) PROVE uses' \in [Code \cup Token -> Nat]
  <2> DEFINE x == request[h].what
  <2>1. uses' = [uses EXCEPT ![x] = uses[x] + 1]
    BY <1>u DEF CountUse
  <2>2. \A y \in Code \cup Token : uses[y] + 1 \in Nat
    OBVIOUS
  <2> HIDE DEF x
  <2> QED BY <2>1, <2>2
<1>s. ASSUME NEW h \in Handler, request[h].at # "idle"
      PROVE  /\ [request[h] EXCEPT !.at = "issue"] \in Request
             /\ [request[h] EXCEPT !.at = "issue"].at = "issue"
             /\ [request[h] EXCEPT !.at = "issue"].who \in Login
  <2>1. request[h].who \in Login
    BY <1>s DEF Holding
  <2>2. \A r \in Request : /\ [r EXCEPT !.at = "issue"] \in Request
                           /\ [r EXCEPT !.at = "issue"].at = "issue"
                           /\ [r EXCEPT !.at = "issue"].who = r.who
    BY DEF Request
  <2> QED BY <2>1, <2>2, <1>r
<1>8. ASSUME NEW h \in Handler, UseCode(h) PROVE TypeInv'
  <2>1. code' \in [Code -> CodeRow] /\ UNCHANGED <<token, identity>>
    BY <1>8, <1>c DEF UseCode
  <2>2. CASE request[h].ok
    <3>0. uses' \in [Code \cup Token -> Nat]
          /\ account' = [account EXCEPT ![request[h].who].verified = TRUE]
      BY <1>8, <2>2, <1>u DEF UseCode
    <3>1. account' \in [Login -> AccountRow] /\ uses' \in [Code \cup Token -> Nat]
      BY <3>0 DEF AccountRow
    <3>2. request' \in [Handler -> Request] /\ Holding'
      BY <1>8, <2>1, <2>2, <1>s, <1>b DEF UseCode, Doing
    <3> QED BY <2>1, <3>1, <3>2
  <2>3. CASE ~request[h].ok
    BY <1>8, <2>1, <2>3, <1>0 DEF UseCode
  <2> QED BY <2>2, <2>3
<1>9. ASSUME NEW h \in Handler, ResetPassword(h) PROVE TypeInv'
  BY <1>9, <1>c, <1>u, <1>0 DEF ResetPassword
<1>10. ASSUME NEW c \in Code, ExpireCode(c) PROVE TypeInv'
  <2>1. code' \in [Code -> CodeRow]
    BY <1>10 DEF ExpireCode, CodeRow
  <2> QED BY <1>10, <2>1, <1>q DEF ExpireCode
<1>11. ASSUME NEW h \in Handler, NEW u \in Login, LogIn(h, u) PROVE TypeInv'
  <2>1. [Idle EXCEPT !.at = "issue", !.who = u] \in Request
    BY DEF Idle, Request
  <2> QED BY <1>11, <2>1, <1>b DEF LogIn, Idle
<1>12. ASSUME NEW h \in Handler, Issue(h) PROVE TypeInv'
  <2>1. request[h].who \in Login
    BY <1>12 DEF Issue, Doing, Holding
  <2>2. PICK t \in Token : /\ token' = [token EXCEPT ![t] = [owner |-> request[h].who, live |-> TRUE]]
                           /\ uses' = [uses EXCEPT ![t] = 0]
    BY <1>12 DEF Issue
  <2>3. token' \in [Token -> TokenRow] /\ uses' \in [Code \cup Token -> Nat]
    BY <2>1, <2>2 DEF TokenRow
  <2>4. \A s \in Token : token'[s].live => token'[s].owner \in Login
    BY <2>1, <2>2 DEF Holding
  <2>5. request' \in [Handler -> Request] /\ request'[h] = Idle
        /\ \A g \in Handler : g # h => request'[g] = request[g]
    BY <1>12, <1>i DEF Issue, Become
  <2>6. Holding'
    BY <2>4, <2>5 DEF Holding, Idle
  <2> QED BY <1>12, <2>3, <2>5, <2>6 DEF Issue
<1>13. ASSUME NEW h \in Handler, NEW t \in Token, CheckToken(h, t) PROVE TypeInv'
  <2>1. token[t].owner \in Login
    BY <1>13 DEF CheckToken, Holding
  <2>2. Welcome(token[t].owner) \in BOOLEAN
    BY <2>1 DEF Welcome, Usable, Live, AccountRow
  <2>3. [at |-> "rotate", who |-> token[t].owner, what |-> t, ok |-> Welcome(token[t].owner)]
          \in Request
    BY <2>1, <2>2 DEF Request
  <2> QED BY <1>13, <2>1, <2>3, <1>b DEF CheckToken
<1>14. ASSUME NEW h \in Handler, Rotate(h) PROVE TypeInv'
  <2>1. token' = [token EXCEPT ![request[h].what].live = FALSE] /\ UNCHANGED <<account, code, identity>>
    BY <1>14 DEF Rotate
  <2>2. token' \in [Token -> TokenRow]
        /\ \A s \in Token : token'[s].live => token[s].live /\ token'[s].owner = token[s].owner
    BY <2>1 DEF TokenRow
  <2>3. uses' \in [Code \cup Token -> Nat]
    BY <1>14, <1>u DEF Rotate
  <2>4. \E r \in Request : Become(h, r) /\ r.at \in {"idle", "issue"} /\ (r.at # "idle" => r.who \in Login)
    BY <1>14, <1>s, <1>i DEF Rotate, Doing, Idle
  <2>5. request' \in [Handler -> Request] /\ Holding'
    BY <2>2, <2>4 DEF Become, Holding
  <2> QED BY <2>1, <2>2, <2>3, <2>5
<1>15. ASSUME NEW u \in Login, NEW T, Logout(u, T) PROVE TypeInv'
  <2>1. token' \in [Token -> TokenRow]
        /\ \A s \in Token : token'[s].live => token[s].live /\ token'[s].owner = token[s].owner
    BY <1>15 DEF Logout, TokenRow
  <2>2. Holding'
    BY <1>15, <2>1 DEF Logout, Holding
  <2> QED BY <1>15, <2>1, <2>2 DEF Logout
<1>16. ASSUME NEW t \in Token, ExpireToken(t) PROVE TypeInv'
  <2>1. token' \in [Token -> TokenRow]
        /\ \A s \in Token : token'[s].live => token[s].live /\ token'[s].owner = token[s].owner
    BY <1>16 DEF ExpireToken, TokenRow, NoToken
  <2>2. Holding'
    BY <1>16, <2>1 DEF ExpireToken, Holding
  <2> QED BY <1>16, <2>1, <2>2 DEF ExpireToken
<1>17. ASSUME NEW h \in Handler, NEW u \in Login, LookUp(h, u) PROVE TypeInv'
  <2>1. Usable(u) \in BOOLEAN
    BY DEF Usable, Live, AccountRow
  <2>2. [Idle EXCEPT !.at = "fill", !.who = u, !.ok = Usable(u)] \in Request
    BY <2>1 DEF Idle, Request
  <2> QED BY <1>17, <2>2, <1>b DEF LookUp, Idle
<1>18. ASSUME NEW h \in Handler, StoreIdentity(h) PROVE TypeInv'
  BY <1>18, <1>0 DEF StoreIdentity
<1>19. ASSUME NEW u \in Login, ExpireIdentity(u) PROVE TypeInv'
  BY <1>19, <1>q DEF ExpireIdentity
<1>20. ASSUME NEW h \in Handler, Restart(h) PROVE TypeInv'
  BY <1>20, <1>0 DEF Restart
<1>21. CASE UNCHANGED sessionVars
  BY <1>21, <1>q DEF sessionVars
<1> QED
  BY <1>1, <1>2, <1>3, <1>4, <1>6, <1>7, <1>8, <1>9, <1>10, <1>11, <1>12, <1>13, <1>14, <1>15,
     <1>16, <1>17, <1>18, <1>19, <1>20, <1>21
  DEF SessionsNext, AccountStep, CodeStep, TokenStep, IdentityStep

(***************************************************************************)
(* How often one code or token serves.  The requests that read it while it *)
(* was good are counted with the ones it has served: nobody joins them     *)
(* once one of them has marked it.                                         *)
(***************************************************************************)
Pending(x) ==
  {h \in Handler : request[h].at \in {"code", "reset", "rotate"} /\ request[h].what = x}
Unspent(x) == (x \in Code /\ ~code[x].used) \/ (x \in Token /\ token[x].live)

Served(x) ==
  /\ Unspent(x) => uses[x] = 0
  /\ uses[x] + Cardinality(Pending(x)) <= Cardinality(Handler)

\* A code nobody was sent is not used, and nobody holds it.
Sealed ==
  /\ \A c \in Code : code[c].kind = "unsent" => ~code[c].used
  /\ \A h \in Handler, c \in Code :
       request[h].at \in {"code", "reset"} /\ request[h].what = c => code[c].kind # "unsent"

UsesInv ==
  /\ TypeInv
  /\ Sealed
  /\ \A x \in Code \cup Token : Served(x)

\* Requests under way are requests.
LEMMA PendingBounded ==
  \A x : /\ IsFiniteSet(Pending(x)) /\ Cardinality(Pending(x)) \in Nat
         /\ Cardinality(Pending(x)) <= Cardinality(Handler)
<1> TAKE x
<1>1. Pending(x) \subseteq Handler
  BY DEF Pending
<1>2. IsFiniteSet(Handler)
  BY LoginAssumption
<1> QED BY <1>1, <1>2, FS_Subset, FS_CardinalityType

\* The bound survives a step that has no new request hold x, and counts a use only of a
\* request that lets go of it; or one after which x has not been used.
LEMMA ServedStep ==
  ASSUME UsesInv, NEW x \in Code \cup Token, uses'[x] \in Nat, Unspent(x)' => uses'[x] = 0,
         \/ uses'[x] = 0
         \/ uses'[x] = uses[x] /\ Pending(x)' \subseteq Pending(x)
         \/ /\ uses'[x] = uses[x] + 1
            /\ \E h \in Pending(x) : Pending(x)' \subseteq Pending(x) \ {h}
  PROVE  Served(x)'
<1> DEFINE before == Pending(x)
           after  == Pending(x)'
<1>1. /\ IsFiniteSet(before) /\ Cardinality(before) \in Nat
      /\ uses[x] \in Nat /\ uses[x] + Cardinality(before) <= Cardinality(Handler)
  BY PendingBounded DEF UsesInv, TypeInv, SessionsTypeOK, Served
<1>2. after \subseteq Handler /\ Cardinality(Handler) \in Nat /\ IsFiniteSet(Handler)
  BY LoginAssumption, FS_CardinalityType DEF Pending
<1>3. IsFiniteSet(after) /\ Cardinality(after) \in Nat /\ Cardinality(after) <= Cardinality(Handler)
  BY <1>2, FS_Subset, FS_CardinalityType
<1> HIDE DEF before, after
<1>4. CASE uses'[x] = 0
  BY <1>2, <1>3, <1>4 DEF Served, after
<1>5. CASE uses'[x] = uses[x] /\ after \subseteq before
  <2>1. Cardinality(after) <= Cardinality(before)
    BY <1>1, <1>5, FS_Subset
  <2> QED BY <1>1, <1>2, <1>3, <1>5, <2>1 DEF Served, after
<1>6. CASE uses'[x] = uses[x] + 1 /\ \E h \in before : after \subseteq before \ {h}
  <2>1. PICK h \in before : after \subseteq before \ {h}
    BY <1>6
  <2>2. /\ IsFiniteSet(before \ {h})
        /\ Cardinality(before \ {h}) = Cardinality(before) - 1
    BY <1>1, <2>1, FS_RemoveElement
  <2>3. Cardinality(after) <= Cardinality(before) - 1
    BY <2>1, <2>2, FS_Subset
  <2> QED BY <1>1, <1>2, <1>3, <1>6, <2>3 DEF Served, after
<1> QED BY <1>4, <1>5, <1>6 DEF before, after

\* It holds at first: nothing was used.
LEMMA UsesInit == SessionsInit => UsesInv
<1> SUFFICES ASSUME SessionsInit PROVE UsesInv
  OBVIOUS
<1>1. \A c \in Code : ~code[c].used
  BY DEF SessionsInit, NoCode
<1>2. \A x \in Code \cup Token : uses[x] = 0
  BY DEF SessionsInit
<1>3. Cardinality(Handler) \in Nat
  BY LoginAssumption, FS_CardinalityType
<1>4. \A x \in Code \cup Token : Served(x)
  BY <1>2, <1>3, PendingBounded DEF Served
<1>5. \A h \in Handler : request[h].at = "idle"
  BY DEF SessionsInit, Idle
<1> QED BY <1>1, <1>4, <1>5, SessionsTypeInit DEF UsesInv, Sealed

\* Every step keeps it.
LEMMA UsesStep == UsesInv /\ [SessionsNext]_sessionVars => UsesInv'
<1> SUFFICES ASSUME UsesInv, [SessionsNext]_sessionVars
             PROVE  Sealed' /\ \A x \in Code \cup Token : Served(x)'
  BY SessionsTypeStep DEF UsesInv
<1> DEFINE Bounded == \A x \in Code \cup Token : Served(x)'
<1> SUFFICES Sealed' /\ Bounded
  OBVIOUS
<1>t. /\ TypeInv /\ TypeInv'
      /\ code \in [Code -> CodeRow] /\ token \in [Token -> TokenRow]
      /\ request \in [Handler -> Request] /\ uses \in [Code \cup Token -> Nat]
      /\ uses' \in [Code \cup Token -> Nat] /\ Holding /\ Code \cap Token = {}
  BY SessionsTypeStep, SessionsAssumption DEF UsesInv, TypeInv, SessionsTypeOK
<1>o. \A x \in Code \cup Token : Unspent(x) => uses[x] = 0
  BY DEF UsesInv, Served
\* Nobody begins to hold anything, and nothing becomes good or is counted.
<1>q. ASSUME uses' = uses,
             \A x \in Code \cup Token : Unspent(x)' => Unspent(x),
             \A h \in Handler : request'[h] = request[h]
                                \/ request'[h].at \notin {"code", "reset", "rotate"}
      PROVE  Bounded
  <2> SUFFICES ASSUME NEW x \in Code \cup Token PROVE Served(x)'
    OBVIOUS
  <2>1. Pending(x)' \subseteq Pending(x)
    BY <1>q DEF Pending
  <2>2. Unspent(x)' => uses'[x] = 0
    BY <1>q, <1>o
  <2> QED BY <1>q, <1>t, <2>1, <2>2, ServedStep
\* A request that is started holds something good.
<1>n. ASSUME NEW h \in Handler, NEW y \in Code \cup Token, Unspent(y), uses' = uses,
             request[h].at = "idle", code' = code, token' = token,
             \A g \in Handler : g # h => request'[g] = request[g], request'[h].what = y
      PROVE  Bounded
  <2> SUFFICES ASSUME NEW x \in Code \cup Token PROVE Served(x)'
    OBVIOUS
  <2>1. Unspent(x)' => uses'[x] = 0
    BY <1>n, <1>o DEF Unspent
  <2>2. CASE x = y
    BY <1>n, <1>o, <1>t, <2>1, <2>2, ServedStep
  <2>3. CASE x # y
    <3>1. Pending(x)' \subseteq Pending(x)
      BY <1>n, <2>3 DEF Pending
    <3> QED BY <1>n, <1>t, <2>1, <3>1, ServedStep
  <2> QED BY <2>2, <2>3
\* One that is done marks what it held, and may count it.
<1>d. ASSUME NEW h \in Handler, request[h].at \in {"code", "reset", "rotate"},
             NEW y \in Code \cup Token, y = request[h].what, ~Unspent(y)',
             uses' = uses \/ uses' = [uses EXCEPT ![y] = @ + 1],
             \A x \in Code \cup Token : Unspent(x)' => Unspent(x),
             \A g \in Handler : g # h => request'[g] = request[g],
             request'[h].at \notin {"code", "reset", "rotate"}
      PROVE  Bounded
  <2> SUFFICES ASSUME NEW x \in Code \cup Token PROVE Served(x)'
    OBVIOUS
  <2>1. h \notin Pending(x)' /\ Pending(x)' \subseteq Pending(x) /\ h \in Pending(y)
    BY <1>d DEF Pending
  <2>2. CASE x = y /\ uses' # uses
    <3>1. uses'[x] = uses[x] + 1
      BY <1>d, <1>t, <2>2
    <3>2. Pending(x)' \subseteq Pending(x) \ {h} /\ h \in Pending(x)
      BY <2>1, <2>2
    <3> QED BY <1>d, <1>t, <2>2, <3>1, <3>2, ServedStep
  <2>3. CASE x # y \/ uses' = uses
    <3>1. uses'[x] = uses[x]
      BY <1>d, <1>t, <2>3
    <3>2. Unspent(x)' => uses'[x] = 0
      BY <1>d, <1>o, <3>1
    <3> QED BY <1>t, <2>1, <3>1, <3>2, ServedStep
  <2> QED BY <2>2, <2>3
<1>f. ASSUME \A c \in Code : code'[c].used = code[c].used /\ code'[c].kind = code[c].kind,
             \A h \in Handler : request'[h] = request[h] \/ request'[h].at \notin {"code", "reset"}
      PROVE  Sealed'
  BY <1>f DEF UsesInv, Sealed
<1>u. ASSUME code' = code, \A t \in Token : token'[t].live => token[t].live
      PROVE  \A x \in Code \cup Token : Unspent(x)' => Unspent(x)
  BY <1>u DEF Unspent
<1>1. ASSUME NEW h \in Handler,
             (\E u \in Login : Register(h, u)) \/ Insert(h) \/ Restart(h) \/ StoreIdentity(h)
             \/ (\E u \in Login : LogIn(h, u) \/ LookUp(h, u))
      PROVE  Sealed' /\ Bounded
  <2>1. UNCHANGED <<code, token, uses>>
    BY <1>1 DEF Register, Insert, Restart, StoreIdentity, LogIn, LookUp
  <2>2. \A g \in Handler : request'[g] = request[g]
                           \/ request'[g].at \notin {"code", "reset", "rotate"}
    <3>1. \E r : Become(h, r) /\ r.at \notin {"code", "reset", "rotate"}
      <4>1. CASE Insert(h) \/ Restart(h) \/ StoreIdentity(h)
        <5>1. Become(h, Idle) /\ Idle.at = "idle"
          BY <4>1 DEF Insert, Restart, StoreIdentity, Idle
        <5> QED BY <5>1
      <4>2. ASSUME NEW u \in Login, Register(h, u) \/ LogIn(h, u) \/ LookUp(h, u)
            PROVE  \E r : Become(h, r) /\ r.at \notin {"code", "reset", "rotate"}
        <5>1. \A ok : /\ [Idle EXCEPT !.at = "insert", !.who = u].at = "insert"
                      /\ [Idle EXCEPT !.at = "issue", !.who = u].at = "issue"
                      /\ [Idle EXCEPT !.at = "fill", !.who = u, !.ok = ok].at = "fill"
          BY DEF Idle
        <5> QED BY <4>2, <5>1 DEF Register, LogIn, LookUp
      <4> QED BY <1>1, <4>1, <4>2
    <3> QED BY <3>1, <1>t DEF Become
  <2> QED BY <2>1, <2>2, <1>f, <1>q, <1>u
<1>2. ASSUME (\E u \in Login : ExpireIdentity(u) \/ RemoveSubUser(u)
                               \/ \E active \in BOOLEAN : SetUserStatus(u, active))
             \/ UNCHANGED sessionVars
      PROVE  Sealed' /\ Bounded
  <2>1. UNCHANGED <<code, token, uses, request>>
    BY <1>2 DEF ExpireIdentity, RemoveSubUser, SetUserStatus, sessionVars
  <2> QED BY <2>1, <1>f, <1>q, <1>u
<1>3. ASSUME (\E a \in Contact : SendOtp(a) \/ PasswordResetRequest(a)) PROVE Sealed' /\ Bounded
  <2>1. PICK kind \in {"registration", "password_reset"}, o \in Login \cup {Nobody} : SendCode(kind, o)
    BY <1>3, OwnerIsLogin DEF SendOtp, PasswordResetRequest
  <2>2. PICK c \in Code : /\ code[c].kind = "unsent"
                          /\ code' = [code EXCEPT ![c] = [kind |-> kind, owner |-> o,
                                                          used |-> FALSE, fresh |-> TRUE]]
                          /\ UNCHANGED <<token, request, uses>>
    BY <2>1 DEF SendCode
  <2>3. ~code[c].used
    BY <2>2 DEF UsesInv, Sealed
  <2>4. \A x \in Code \cup Token : Unspent(x)' => Unspent(x)
    BY <2>2, <2>3, <1>t DEF Unspent
  <2>5. Sealed'
    BY <2>2, <1>t DEF UsesInv, Sealed
  <2> QED BY <2>2, <2>4, <2>5, <1>q
<1>4. ASSUME NEW h \in Handler, NEW u \in Login, NEW c \in Code,
             CheckCode(h, u, c) \/ CheckResetCode(h, u, c)
      PROVE  Sealed' /\ Bounded
  <2>1. Unspent(c)
    BY <1>4 DEF CheckCode, CheckResetCode, Newest, Open, Unspent
  <2>2. UNCHANGED <<code, token, uses>> /\ request[h].at = "idle"
    BY <1>4 DEF CheckCode, CheckResetCode, Doing
  <2>3. request'[h].what = c /\ \A g \in Handler : g # h => request'[g] = request[g]
    BY <1>4, <1>t DEF CheckCode, CheckResetCode, Become
  <2>4. code[c].kind # "unsent"
    BY <1>4 DEF CheckCode, CheckResetCode, Newest, Open
  <2>5. Sealed'
    BY <2>2, <2>3, <2>4 DEF UsesInv, Sealed
  <2> QED BY <2>1, <2>2, <2>3, <2>5, <1>n
<1>5. ASSUME NEW h \in Handler, UseCode(h) \/ ResetPassword(h) PROVE Sealed' /\ Bounded
  <2>1. PICK c \in Code : c = request[h].what /\ request[h].at \in {"code", "reset"}
    BY <1>5, <1>t DEF UseCode, ResetPassword, Doing, Holding
  <2>2. code' = [code EXCEPT ![c].used = TRUE] /\ token' = token
        /\ (uses' = uses \/ uses' = [uses EXCEPT ![c] = @ + 1])
    BY <1>5, <2>1 DEF UseCode, ResetPassword, MarkUsed, CountUse
  <2>3. request'[h].at \notin {"code", "reset", "rotate"}
        /\ \A g \in Handler : g # h => request'[g] = request[g]
    BY <1>5, <1>t DEF UseCode, ResetPassword, Become, Idle, Request
  <2>4. code'[c].used /\ c \notin Token
    BY <2>1, <2>2, <1>t DEF CodeRow
  <2>5. \A d \in Code : d # c => code'[d] = code[d]
    BY <2>2, <1>t
  <2>6. ~Unspent(c)' /\ \A x \in Code \cup Token : Unspent(x)' => Unspent(x)
    BY <2>2, <2>4, <2>5 DEF Unspent
  <2>7. Bounded
    BY <2>1, <2>2, <2>3, <2>6, <1>d
  <2>8. code[c].kind # "unsent"
    BY <2>1 DEF UsesInv, Sealed
  <2>9. \A d \in Code : code'[d].kind = code[d].kind
    BY <2>1, <2>2, <1>t DEF CodeRow
  <2>10. Sealed'
    BY <2>3, <2>5, <2>8, <2>9 DEF UsesInv, Sealed
  <2> QED BY <2>7, <2>10
<1>6. ASSUME NEW c \in Code, ExpireCode(c) PROVE Sealed' /\ Bounded
  <2>1. \A d \in Code : code'[d].used = code[d].used /\ code'[d].kind = code[d].kind
    BY <1>6, <1>t DEF ExpireCode, CodeRow
  <2>2. UNCHANGED <<token, request, uses>>
    BY <1>6 DEF ExpireCode
  <2>3. \A x \in Code \cup Token : Unspent(x)' => Unspent(x)
    BY <2>1, <2>2 DEF Unspent
  <2>4. Sealed'
    BY <2>1, <2>2, <1>f
  <2> QED BY <2>2, <2>3, <2>4, <1>q
<1>7. ASSUME (\E u \in Login : Logout(u, Token) \/ \E t \in Token : Logout(u, {t}))
             \/ \E t \in Token : ExpireToken(t)
      PROVE  Sealed' /\ Bounded
  <2>1. UNCHANGED <<code, request, uses>>
    BY <1>7 DEF Logout, ExpireToken
  <2>2. \A t \in Token : token'[t].live => token[t].live
    BY <1>7, <1>t DEF Logout, ExpireToken, NoToken, TokenRow
  <2> QED BY <2>1, <2>2, <1>f, <1>q, <1>u
<1>8. ASSUME NEW h \in Handler, NEW t \in Token, CheckToken(h, t) PROVE Sealed' /\ Bounded
  <2>1. Unspent(t)
    BY <1>8 DEF CheckToken, Unspent
  <2>2. UNCHANGED <<code, token, uses>> /\ request[h].at = "idle"
    BY <1>8 DEF CheckToken, Doing
  <2>3. request'[h].what = t /\ request'[h].at = "rotate"
        /\ \A g \in Handler : g # h => request'[g] = request[g]
    BY <1>8, <1>t DEF CheckToken, Become
  <2>4. Sealed'
    BY <2>2, <2>3, <1>f
  <2> QED BY <2>1, <2>2, <2>3, <2>4, <1>n
<1>9. ASSUME NEW h \in Handler, Rotate(h) PROVE Sealed' /\ Bounded
  <2>1. PICK t \in Token : t = request[h].what /\ request[h].at = "rotate"
    BY <1>9, <1>t DEF Rotate, Doing, Holding
  <2>2. token' = [token EXCEPT ![t].live = FALSE] /\ code' = code
        /\ (uses' = uses \/ uses' = [uses EXCEPT ![t] = @ + 1])
    BY <1>9, <2>1 DEF Rotate, CountUse
  <2>3. request'[h].at \notin {"code", "reset", "rotate"}
        /\ \A g \in Handler : g # h => request'[g] = request[g]
    BY <1>9, <1>t DEF Rotate, Become, Idle, Request
  <2>4. \A r \in Token : token'[r].live => token[r].live
    BY <2>2, <1>t DEF TokenRow
  <2>5. ~token'[t].live /\ t \notin Code
    BY <2>1, <2>2, <1>t DEF TokenRow
  <2>6. ~Unspent(t)' /\ \A x \in Code \cup Token : Unspent(x)' => Unspent(x)
    BY <2>2, <2>4, <2>5 DEF Unspent
  <2>7. Bounded
    BY <2>1, <2>2, <2>3, <2>6, <1>d
  <2> QED BY <2>2, <2>3, <2>7, <1>f
<1>10. ASSUME NEW h \in Handler, Issue(h) PROVE Sealed' /\ Bounded
  <2>1. PICK t \in Token : /\ \A g \in Handler : request[g].what # t
                           /\ token' = [token EXCEPT ![t] = [owner |-> request[h].who, live |-> TRUE]]
                           /\ uses' = [uses EXCEPT ![t] = 0]
    BY <1>10 DEF Issue
  <2>2. code' = code /\ request[h].at = "issue" /\ request'[h].at = "idle"
        /\ \A g \in Handler : g # h => request'[g] = request[g]
    BY <1>10, <1>t DEF Issue, Doing, Become, Idle
  <2>3. Sealed'
    BY <2>2, <1>f
  <2>4. ASSUME NEW x \in Code \cup Token PROVE Served(x)'
    <3>1. CASE x = t
      BY <2>1, <3>1, <1>t, ServedStep
    <3>2. CASE x # t
      <4>1. uses'[x] = uses[x] /\ (Unspent(x)' => Unspent(x))
        BY <2>1, <2>2, <3>2, <1>t DEF Unspent
      <4>2. Pending(x)' \subseteq Pending(x)
        BY <2>2 DEF Pending
      <4> QED BY <4>1, <4>2, <1>o, <1>t, ServedStep
    <3> QED BY <3>1, <3>2
  <2> QED BY <2>3, <2>4
<1> QED
  BY <1>1, <1>2, <1>3, <1>4, <1>5, <1>6, <1>7, <1>8, <1>9, <1>10
  DEF SessionsNext, AccountStep, CodeStep, TokenStep, IdentityStep

\* Whatever overlaps, dies or expires, a code or a refresh token serves at most as many
\* requests as the server works on at one time, and one after the other just once.
THEOREM UsesBounded == SessionsSpec => [](SessionsTypeOK /\ LoginsBounded)
<1>1. UsesInv => SessionsTypeOK /\ LoginsBounded
  <2> SUFFICES ASSUME UsesInv, NEW x \in Code \cup Token PROVE uses[x] <= Cardinality(Handler)
    BY DEF UsesInv, TypeInv, LoginsBounded
  <2>1. uses[x] \in Nat /\ Cardinality(Handler) \in Nat
    BY LoginAssumption, FS_CardinalityType DEF UsesInv, TypeInv, SessionsTypeOK
  <2> QED BY <2>1, PendingBounded DEF UsesInv, Served
<1> QED BY UsesInit, UsesStep, <1>1, PTL DEF SessionsSpec
=============================================================================
