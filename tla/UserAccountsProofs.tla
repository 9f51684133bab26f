------------------------- MODULE UserAccountsProofs -------------------------
(***************************************************************************)
(* Proofs about UserAccounts, for any users, browsers and lifetimes: its   *)
(* three safety invariants and where the power of admins comes from.  The  *)
(* first two are inductive together with the types; the third needs what a *)
(* login has left of its two tokens, the fourth that roles are current.    *)
(***************************************************************************)
EXTENDS UserAccounts, TLAPS

-----------------------------------------------------------------------------
(* Type correctness.                                                       *)

\* What a body holds, by its operation.
LEMMA BodyFields ==
  ASSUME NEW q \in Own \cup Admins \cup {[op |-> "none"]}
  PROVE  /\ q.op = "create" => /\ q.email \in Emails /\ q.role \in Roles
                               /\ q.password \in Passwords
         /\ q.op = "role" => q.user \in Users /\ q.role \in Roles
         /\ q.op = "delete" => q.user \in Users
BY AccountAssumption DEF Own, Admins

\* Every answer keeps the types, if the rows it leaves have theirs.
LEMMA AnswersType ==
  ASSUME TypeOK, NEW b \in Browsers,
         NEW w \in [Users -> Row \cup {NoRow}], Answers(b, w)
  PROVE  /\ row' \in [Users -> Row \cup {NoRow}]
         /\ browser' = browser /\ age' = age
         /\ req' \in [Browsers -> [step : {"idle", "admitted", "checked"},
                           body : Own \cup Admins \cup {[op |-> "none"]},
                           me : Row \cup {NoRow}, seen : Row \cup {NoRow}]]
         /\ revoked' \in [Browsers -> BOOLEAN]
<1>1. Idle \in [step : {"idle", "admitted", "checked"},
                body : Own \cup Admins \cup {[op |-> "none"]},
                me : Row \cup {NoRow}, seen : Row \cup {NoRow}]
  BY DEF Idle
<1>2. /\ row' = w /\ browser' = browser /\ age' = age
      /\ req' = [req EXCEPT ![b] = Idle]
  BY DEF Answers
<1>3. req' \in [Browsers -> [step : {"idle", "admitted", "checked"},
                           body : Own \cup Admins \cup {[op |-> "none"]},
                           me : Row \cup {NoRow}, seen : Row \cup {NoRow}]]
  BY <1>1, <1>2 DEF TypeOK
<1>4. revoked' \in [Browsers -> BOOLEAN]
  <2> DEFINE r(c) == /\ c # b /\ req[c] # Idle
                     /\ revoked[c] \/ (Entitled(row, c, req[c].body.op)
                                       /\ ~Entitled(w, c, req[c].body.op))
  <2>1. revoked' = [c \in Browsers |-> r(c)]
    BY Zenon DEF Answers
  <2>2. \A c \in Browsers : r(c) \in BOOLEAN
    BY Zenon
  <2> HIDE DEF r
  <2> QED BY <2>1, <2>2
<1> QED BY <1>2, <1>3, <1>4

\* The bounds on times are themselves times.
LEMMA Lifetimes == /\ LongestLogin \in Nat \ {0}
                   /\ AccessLife \in Nat \ {0} /\ RefreshLife \in Nat \ {0}
                   /\ LongestLogin = RefreshLife + AccessLife
BY AccountAssumption DEF LongestLogin

\* Nothing grows by getting older.
LEMMA OlderType == ASSUME NEW n \in Nat, NEW m \in 0 .. n
                   PROVE  Older(m) \in 0 .. n
BY DEF Older

\* Every step keeps the types.
LEMMA TypeStep == TypeOK /\ [Next]_vars => TypeOK'
<1> SUFFICES ASSUME TypeOK, [Next]_vars PROVE TypeOK'
  OBVIOUS
<1> USE DEF TypeOK
<1>1. ASSUME NEW b \in Browsers, NEW u \in Users, NEW p \in Passwords,
             Login(b, u, p)
      PROVE  TypeOK'
  <2>1. row[u].role \in Roles
    BY <1>1 DEF Login, Row
  <2>2. [sub |-> u, access |-> AccessLife, claim |-> row[u].role,
         refresh |-> RefreshLife] \in [sub : Users \cup {NoUser}, claim : Roles,
            access : 0 .. AccessLife, refresh : 0 .. RefreshLife]
    BY <2>1, AccountAssumption
  <2>3. age' \in [Browsers -> 0 .. LongestLogin]
    BY <1>1, Lifetimes DEF Login
  <2>4. browser' \in [Browsers -> [sub : Users \cup {NoUser}, claim : Roles,
                      access : 0 .. AccessLife, refresh : 0 .. RefreshLife]]
    BY <1>1, <2>2 DEF Login
  <2> QED BY <1>1, <2>3, <2>4 DEF Login
<1>2. ASSUME NEW b \in Browsers, Refresh(b) PROVE TypeOK'
  <2> DEFINE t == [sub |-> browser[b].sub, access |-> AccessLife,
                   claim |-> row[browser[b].sub].role,
                   refresh |-> browser[b].refresh]
  <2>1. row[browser[b].sub].role \in Roles
    BY <1>2 DEF Refresh, Row
  <2>2. t \in [sub : Users \cup {NoUser}, claim : Roles,
               access : 0 .. AccessLife, refresh : 0 .. RefreshLife]
    BY <2>1, Lifetimes
  <2>3. browser' = [browser EXCEPT ![b] = t]
    BY <1>2 DEF Refresh
  <2> HIDE DEF t
  <2> QED BY <1>2, <2>2, <2>3 DEF Refresh
<1>3. ASSUME NEW b \in Browsers, Logout(b) PROVE TypeOK'
  BY <1>3, AccountAssumption DEF Logout, LoggedOut, LongestLogin, Roles
<1>4. ASSUME NEW b \in Browsers, NEW q \in Own \cup Admins, Admit(b, q)
      PROVE  TypeOK'
  BY <1>4 DEF Admit, Entitled
<1>5. ASSUME NEW b \in Browsers, Check(b) PROVE TypeOK'
  <2> DEFINE q == req[b].body
             s == IF q.op \in {"role", "delete"} THEN row[q.user] ELSE NoRow
             r == [step |-> "checked", body |-> q, me |-> req[b].me, seen |-> s]
  <2>1. q.op \in {"role", "delete"} => q.user \in Users
    BY BodyFields
  <2>2. r \in [step : {"idle", "admitted", "checked"},
               body : Own \cup Admins \cup {[op |-> "none"]},
               me : Row \cup {NoRow}, seen : Row \cup {NoRow}]
    BY <2>1
  <2>3. req' = [req EXCEPT ![b] = r]
    BY <1>5 DEF Check
  <2> HIDE DEF r
  <2> QED BY <1>5, <2>2, <2>3 DEF Check
<1>6. ASSUME NEW b \in Browsers, Refuse(b) PROVE TypeOK'
  BY <1>6, AnswersType DEF Refuse
<1>7. ASSUME NEW b \in Browsers, NEW u \in Users, Create(b, u) PROVE TypeOK'
  <2> DEFINE q == req[b].body
             w == [row EXCEPT ![u] = [email |-> q.email, role |-> q.role,
                                      password |-> q.password]]
  <2>1. q.email \in Emails /\ q.role \in Roles /\ q.password \in Passwords
    BY <1>7, BodyFields DEF Create, Ready
  <2>2. w \in [Users -> Row \cup {NoRow}]
    BY <2>1 DEF Row
  <2>3. Answers(b, w) /\ born' = born \cup {u}
    BY <1>7 DEF Create
  <2> QED BY <2>2, <2>3, AnswersType
<1>8. ASSUME NEW b \in Browsers, CreateClashes(b) PROVE TypeOK'
  BY <1>8, AnswersType DEF CreateClashes
<1>9. ASSUME NEW b \in Browsers, SetRole(b) PROVE TypeOK'
  <2> DEFINE q == req[b].body
  <2>1. q.user \in Users /\ q.role \in Roles /\ row[q.user] \in Row
    BY <1>9, BodyFields DEF SetRole, Ready
  <2>2. [row EXCEPT ![q.user].role = q.role] \in [Users -> Row \cup {NoRow}]
    BY <2>1 DEF Row
  <2> QED BY <1>9, <2>2, AnswersType DEF SetRole
<1>10. ASSUME NEW b \in Browsers, RowVanished(b) PROVE TypeOK'
  BY <1>10, AnswersType DEF RowVanished
<1>11. ASSUME NEW b \in Browsers, Delete(b) PROVE TypeOK'
  <2>1. [row EXCEPT ![req[b].body.user] = NoRow]
          \in [Users -> Row \cup {NoRow}]
    BY DEF Row
  <2> QED BY <1>11, <2>1, AnswersType DEF Delete
<1>12. ASSUME NEW b \in Browsers, OwnAccount(b) PROVE TypeOK'
  BY <1>12, AnswersType DEF OwnAccount
<1>13. ASSUME NEW b \in Browsers, Fail(b) PROVE TypeOK'
  BY <1>13, AnswersType DEF Fail
<1>14. CASE Start \/ StartBlind
  <2>1. FirstAdmin \in Row
    BY AccountAssumption DEF FirstAdmin, Row, Roles
  <2>2. Stops
    BY <1>14 DEF Start, StartBlind, StartAddsNone, StartAddsAdmin
  <2>3. /\ row' \in [Users -> Row \cup {NoRow}] /\ born' \subseteq Users
    BY <1>14, <2>1 DEF Start, StartBlind, StartAddsNone, StartAddsAdmin
  <2>4. Idle \in [step : {"idle", "admitted", "checked"},
                  body : Own \cup Admins \cup {[op |-> "none"]},
                  me : Row \cup {NoRow}, seen : Row \cup {NoRow}]
    BY DEF Idle
  <2> QED BY <2>2, <2>3, <2>4 DEF Stops
<1>15. CASE Tick
  <2>1. browser' \in [Browsers -> [sub : Users \cup {NoUser}, claim : Roles,
                      access : 0 .. AccessLife, refresh : 0 .. RefreshLife]]
    <3>1. \A b \in Browsers : /\ Older(browser[b].access) \in 0 .. AccessLife
                              /\ Older(browser[b].refresh) \in 0 .. RefreshLife
      BY OlderType, Lifetimes
    <3> QED BY <1>15, <3>1 DEF Tick
  <2>2. age' \in [Browsers -> 0 .. LongestLogin]
    <3>1. \A n \in 0 .. LongestLogin :
            n # LongestLogin => n + 1 \in 0 .. LongestLogin
      BY Lifetimes
    <3>2. 0 \in 0 .. LongestLogin
      BY Lifetimes
    <3>3. \A b \in Browsers : age'[b] \in {0, age[b], age[b] + 1}
                              /\ (age'[b] = age[b] + 1 =>
                                   age[b] # LongestLogin \/ age'[b] = age[b])
      BY <1>15 DEF Tick
    <3>4. DOMAIN age' = Browsers /\ age' = [b \in Browsers |-> age'[b]]
      BY <1>15 DEF Tick
    <3> QED BY <3>1, <3>2, <3>3, <3>4
  <2> QED BY <1>15, <2>1, <2>2 DEF Tick
<1>16. CASE UNCHANGED vars
  BY <1>16 DEF vars
<1> QED
  BY <1>1, <1>2, <1>3, <1>4, <1>5, <1>6, <1>7, <1>8, <1>9, <1>10, <1>11,
     <1>12, <1>13, <1>14, <1>15, <1>16 DEF Next, Request

\* Every variable has its type in every reachable state.
THEOREM TypeCorrect == Spec => []TypeOK
<1>1. Init => TypeOK
  BY AccountAssumption
  DEF Init, TypeOK, FirstAdmin, Row, Roles, LoggedOut, Idle, LongestLogin
<1> QED BY <1>1, TypeStep, PTL DEF Spec

-----------------------------------------------------------------------------
(* One account for each email.                                             *)

\* Nothing that requests do makes two rows share an email: the one row that
\* changes keeps its email, goes, or takes one that nobody has.
LEMMA EmailStep ==
  ASSUME TypeOK, EmailNamesOneUser, NEW u \in Users, NEW w \in Row \cup {NoRow},
         row' = [row EXCEPT ![u] = w],
         w = NoRow \/ ~Taken(w.email)
           \/ (row[u] # NoRow /\ w.email = row[u].email)
  PROVE  EmailNamesOneUser'
<1>1. \A v \in Users : row'[v] = IF v = u THEN w ELSE row[v]
  BY DEF TypeOK
<1> QED BY <1>1 DEF EmailNamesOneUser, Taken

\* An email names at most one account in every reachable state.
THEOREM EmailsAreUnique == Spec => []EmailNamesOneUser
<1>1. Init => EmailNamesOneUser
  BY DEF Init, EmailNamesOneUser
<1>2. TypeOK /\ TypeOK' /\ EmailNamesOneUser /\ [Next]_vars => EmailNamesOneUser'
  <2> SUFFICES ASSUME TypeOK, TypeOK', EmailNamesOneUser, [Next]_vars
               PROVE  EmailNamesOneUser'
    OBVIOUS
  <2>1. CASE row' = row
    BY <2>1 DEF EmailNamesOneUser
  <2>2. ASSUME NEW b \in Browsers, NEW u \in Users, Create(b, u)
        PROVE  EmailNamesOneUser'
    <3> DEFINE q == req[b].body
               w == [email |-> q.email, role |-> q.role,
                     password |-> q.password]
    <3>1. q.email \in Emails /\ q.role \in Roles /\ q.password \in Passwords
      BY <2>2, BodyFields DEF Create, Ready, TypeOK
    <3>2. w \in Row
      BY <3>1 DEF Row
    <3>3. row' = [row EXCEPT ![u] = w] /\ ~Taken(w.email)
      BY <2>2 DEF Create, Answers
    <3> HIDE DEF w
    <3> QED BY <3>2, <3>3, EmailStep
  <2>3. ASSUME NEW b \in Browsers, SetRole(b) PROVE EmailNamesOneUser'
    <3> DEFINE q == req[b].body
               w == [row[q.user] EXCEPT !.role = q.role]
    <3>1. q.user \in Users /\ q.role \in Roles /\ row[q.user] \in Row
      BY <2>3, BodyFields DEF SetRole, Ready, TypeOK
    <3>2. w \in Row /\ w.email = row[q.user].email
      BY <3>1 DEF Row
    <3>3. row' = row \/ row' = [row EXCEPT ![q.user] = w]
      BY <2>3 DEF SetRole, Answers
    <3>4. row[q.user] # NoRow
      BY <2>3 DEF SetRole
    <3> HIDE DEF w, q
    <3> QED BY <2>1, <3>1, <3>2, <3>3, <3>4, EmailStep
  <2>4. ASSUME NEW b \in Browsers, Delete(b) PROVE EmailNamesOneUser'
    <3>1. req[b].body.user \in Users
      BY <2>4, BodyFields DEF Delete, Ready, TypeOK
    <3>2. row' = [row EXCEPT ![req[b].body.user] = NoRow]
      BY <2>4 DEF Delete, Answers
    <3> QED BY <3>1, <3>2, EmailStep
  <2>5. ASSUME NEW u \in Users, StartAddsAdmin(u) PROVE EmailNamesOneUser'
    <3>1. FirstAdmin \in Row /\ FirstAdmin.email = AdminEmail
      BY AccountAssumption DEF FirstAdmin, Row, Roles
    <3> QED BY <2>5, <3>1, EmailStep DEF StartAddsAdmin
  <2> QED BY <2>1, <2>2, <2>3, <2>4, <2>5
          DEF Next, Request, Login, Refresh, Logout, Admit, Check, Refuse,
              CreateClashes, RowVanished, OwnAccount, Fail, Answers, Start,
              StartAddsNone, StartBlind, Tick, vars
<1> QED BY <1>1, <1>2, TypeCorrect, PTL DEF Spec

-----------------------------------------------------------------------------
(* Roles count as they stand.                                              *)

\* An answer to one request leaves every other entitled, or marks it.
LEMMA AnswerMarks ==
  ASSUME TypeOK, LateOnlyIfRevoked, NEW b \in Browsers, NEW w, Answers(b, w)
  PROVE  LateOnlyIfRevoked'
<1> SUFFICES ASSUME NEW c \in Browsers, (req[c] # Idle)'
             PROVE  Entitled(row, c, req[c].body.op)' \/ revoked'[c]
  BY DEF LateOnlyIfRevoked
<1>1. row' = w /\ browser' = browser /\ req' = [req EXCEPT ![b] = Idle]
  BY DEF Answers
<1>2. c # b /\ req'[c] = req[c]
  BY <1>1 DEF TypeOK
<1>3. Entitled(row, c, req[c].body.op) \/ revoked[c]
  BY <1>2 DEF LateOnlyIfRevoked
<1>4. Entitled(row, c, req[c].body.op)' <=> Entitled(w, c, req[c].body.op)
  BY <1>1, <1>2 DEF Entitled
<1>5. revoked'[c] <=>
        (revoked[c] \/ (Entitled(row, c, req[c].body.op)
                        /\ ~Entitled(w, c, req[c].body.op)))
  BY <1>2, Zenon DEF Answers
<1> QED BY <1>3, <1>4, <1>5

\* A request that lacks its role was admitted with it, in every reachable
\* state.
THEOREM RolesAreCurrent == Spec => []LateOnlyIfRevoked
<1>1. Init => LateOnlyIfRevoked
  BY DEF Init, LateOnlyIfRevoked
<1>2. TypeOK /\ LateOnlyIfRevoked /\ [Next]_vars => LateOnlyIfRevoked'
  <2> SUFFICES ASSUME TypeOK, LateOnlyIfRevoked, [Next]_vars
               PROVE  LateOnlyIfRevoked'
    OBVIOUS
  <2>1. ASSUME NEW b \in Browsers,
               req[b] = Idle, req' = req, row' = row, revoked' = revoked,
               \A c \in Browsers \ {b} : browser'[c] = browser[c]
        PROVE  LateOnlyIfRevoked'
    BY <2>1 DEF LateOnlyIfRevoked, Entitled
  <2>2. ASSUME NEW b \in Browsers, NEW q \in Own \cup Admins, Admit(b, q)
        PROVE  LateOnlyIfRevoked'
    <3>1. \A c \in Browsers \ {b} : req'[c] = req[c]
      BY <2>2 DEF Admit, TypeOK
    <3>2. req'[b].body = q
      BY <2>2 DEF Admit, TypeOK
    <3> QED BY <2>2, <3>1, <3>2 DEF Admit, LateOnlyIfRevoked, Entitled
  <2>3. ASSUME NEW b \in Browsers, Check(b) PROVE LateOnlyIfRevoked'
    <3>1. req[b] # Idle
      BY <2>3 DEF Check, Idle
    <3>2. \A c \in Browsers \ {b} : req'[c] = req[c]
      BY <2>3 DEF Check, TypeOK
    <3>3. req'[b].body = req[b].body
      BY <2>3 DEF Check, TypeOK
    <3> QED BY <2>3, <3>1, <3>2, <3>3 DEF Check, LateOnlyIfRevoked, Entitled
  <2>4. ASSUME Stops PROVE LateOnlyIfRevoked'
    BY <2>4 DEF Stops, LateOnlyIfRevoked
  <2>5. CASE Tick
    <3>1. /\ req' = req /\ row' = row /\ revoked' = revoked
          /\ \A c \in Browsers : browser'[c].sub = browser[c].sub
      BY <2>5 DEF Tick
    <3> QED BY <3>1 DEF LateOnlyIfRevoked, Entitled
  <2>6. CASE UNCHANGED vars
    BY <2>6 DEF vars, LateOnlyIfRevoked, Entitled
  <2>7. ASSUME NEW b \in Browsers, NEW u \in Users, NEW p \in Passwords,
               Login(b, u, p)
        PROVE  LateOnlyIfRevoked'
    BY <2>1, <2>7 DEF Login, TypeOK
  <2>8. ASSUME NEW b \in Browsers, Refresh(b) \/ Logout(b)
        PROVE  LateOnlyIfRevoked'
    BY <2>1, <2>8 DEF Refresh, Logout, TypeOK
  <2>9. ASSUME NEW b \in Browsers, NEW w, Answers(b, w)
        PROVE  LateOnlyIfRevoked'
    BY <2>9, AnswerMarks
  <2>10. ASSUME NEW b \in Browsers, Request(b) PROVE LateOnlyIfRevoked'
    <3>1. \/ \E q \in Own \cup Admins : Admit(b, q)
          \/ Check(b)
          \/ \E w : Answers(b, w)
      BY <2>10 DEF Request, Refuse, Create, CreateClashes, SetRole, RowVanished,
                   Delete, OwnAccount, Fail
    <3> QED BY <3>1, <2>2, <2>3, <2>9
  <2> QED BY <2>4, <2>5, <2>6, <2>7, <2>8, <2>10
          DEF Next, Start, StartAddsAdmin, StartAddsNone, StartBlind
<1> QED BY <1>1, <1>2, TypeCorrect, PTL DEF Spec

-----------------------------------------------------------------------------
(* Logins end.                                                             *)

\* What is left of a login's tokens: the refresh token was issued with the
\* login, the access token while the refresh token lasted.
LeftOfLogin == \A b \in Browsers :
  /\ browser[b].refresh > 0 => age[b] + browser[b].refresh <= RefreshLife
  /\ browser[b].access > 0 => age[b] + browser[b].access <= LongestLogin

\* No step of a browser prolongs its login.
LEMMA LoginStep == TypeOK /\ LeftOfLogin /\ [Next]_vars => LeftOfLogin'
<1> SUFFICES ASSUME TypeOK, LeftOfLogin, [Next]_vars PROVE LeftOfLogin'
  OBVIOUS
<1>1. CASE browser' = browser /\ age' = age
  BY <1>1 DEF LeftOfLogin
<1>2. ASSUME NEW b \in Browsers, NEW t, NEW n,
             browser' = [browser EXCEPT ![b] = t], age' = [age EXCEPT ![b] = n],
             t.refresh > 0 => n + t.refresh <= RefreshLife,
             t.access > 0 => n + t.access <= LongestLogin
      PROVE  LeftOfLogin'
  BY <1>2 DEF LeftOfLogin, TypeOK
<1>3. ASSUME NEW b \in Browsers, NEW u \in Users, NEW p \in Passwords,
             Login(b, u, p)
      PROVE  LeftOfLogin'
  <2> DEFINE t == [sub |-> u, access |-> AccessLife, claim |-> row[u].role,
                   refresh |-> RefreshLife]
  <2>1. browser' = [browser EXCEPT ![b] = t] /\ age' = [age EXCEPT ![b] = 0]
    BY <1>3 DEF Login
  <2>2. 0 + t.refresh <= RefreshLife /\ 0 + t.access <= LongestLogin
    BY Lifetimes
  <2> HIDE DEF t
  <2> QED BY <1>2, <2>1, <2>2
<1>4. ASSUME NEW b \in Browsers, Refresh(b) PROVE LeftOfLogin'
  <2> DEFINE t == [sub |-> browser[b].sub, access |-> AccessLife,
                   claim |-> row[browser[b].sub].role,
                   refresh |-> browser[b].refresh]
  <2>1. browser' = [browser EXCEPT ![b] = t] /\ age' = [age EXCEPT ![b] = age[b]]
    BY <1>4 DEF Refresh, TypeOK
  <2>2. age[b] \in Nat /\ browser[b].refresh \in Nat
    BY Lifetimes DEF TypeOK
  <2>3. browser[b].refresh > 0 /\ age[b] + browser[b].refresh <= RefreshLife
    BY <1>4 DEF Refresh, LeftOfLogin
  <2>4. age[b] + t.refresh <= RefreshLife /\ age[b] + t.access <= LongestLogin
    BY <2>2, <2>3, Lifetimes
  <2> HIDE DEF t
  <2> QED BY <1>2, <2>1, <2>4
<1>5. ASSUME NEW b \in Browsers, Logout(b) PROVE LeftOfLogin'
  <2>1. LoggedOut.refresh = 0 /\ LoggedOut.access = 0
    BY DEF LoggedOut
  <2>2. /\ browser' = [browser EXCEPT ![b] = LoggedOut]
        /\ age' = [age EXCEPT ![b] = 0]
    BY <1>5 DEF Logout
  <2>3. /\ LoggedOut.refresh > 0 => 0 + LoggedOut.refresh <= RefreshLife
        /\ LoggedOut.access > 0 => 0 + LoggedOut.access <= LongestLogin
    BY <2>1
  <2> QED BY <1>2, <2>2, <2>3
<1>6. CASE Tick
  <2> SUFFICES ASSUME NEW b \in Browsers
      PROVE /\ browser'[b].refresh > 0 =>
                 age'[b] + browser'[b].refresh <= RefreshLife
            /\ browser'[b].access > 0 =>
                 age'[b] + browser'[b].access <= LongestLogin
    BY DEF LeftOfLogin
  <2>1. /\ browser'[b].refresh = Older(browser[b].refresh)
        /\ browser'[b].access = Older(browser[b].access)
    BY <1>6 DEF Tick
  <2>2. age'[b] \in {0, age[b], age[b] + 1}
    BY <1>6 DEF Tick
  <2>3. /\ age[b] \in Nat /\ browser[b].refresh \in 0 .. RefreshLife
        /\ browser[b].access \in 0 .. AccessLife
    BY Lifetimes DEF TypeOK
  <2>4. /\ browser[b].refresh > 0 => age[b] + browser[b].refresh <= RefreshLife
        /\ browser[b].access > 0 => age[b] + browser[b].access <= LongestLogin
    BY DEF LeftOfLogin
  <2> QED BY <2>1, <2>2, <2>3, <2>4, Lifetimes DEF Older
<1>7. ASSUME NEW b \in Browsers, Request(b) PROVE browser' = browser /\ age' = age
  BY <1>7 DEF Request, Admit, Check, Refuse, Create, CreateClashes, SetRole,
              RowVanished, Delete, OwnAccount, Fail, Answers
<1>8. CASE Start \/ StartBlind
  BY <1>8, <1>1 DEF Start, StartAddsAdmin, StartAddsNone, StartBlind, Stops
<1> QED BY <1>1, <1>3, <1>4, <1>5, <1>6, <1>7, <1>8 DEF Next, vars

\* A login is over after the refresh token of the login and one last access
\* token, in every reachable state.
THEOREM LoginsEnd == Spec => []LoginsRunOut
<1>1. Init => LeftOfLogin
  BY Lifetimes DEF Init, LeftOfLogin, LoggedOut
<1>2. TypeOK /\ LeftOfLogin => LoginsRunOut
  <2> SUFFICES ASSUME TypeOK, LeftOfLogin, NEW b \in Browsers,
                      browser[b].access > 0
               PROVE  age[b] < LongestLogin
    BY DEF LoginsRunOut
  <2>1. age[b] \in Nat /\ browser[b].access \in Nat
    BY Lifetimes DEF TypeOK
  <2> QED BY <2>1, Lifetimes DEF LeftOfLogin
<1> QED BY <1>1, <1>2, LoginStep, TypeCorrect, PTL DEF Spec

-----------------------------------------------------------------------------
(* The power of admins comes from admins.                                  *)

\* Ids are never used again, so no INSERT meets a row of its own id.
RowsAreBorn == \A u \in Users : row[u] # NoRow => u \in born

\* No step leaves a row whose id was not generated.
LEMMA BornStep == TypeOK /\ RowsAreBorn /\ [Next]_vars => RowsAreBorn'
<1> SUFFICES ASSUME TypeOK, RowsAreBorn, [Next]_vars PROVE RowsAreBorn'
  OBVIOUS
<1>1. ASSUME NEW u \in Users, NEW w, row' = [row EXCEPT ![u] = w],
             born \subseteq born', u \in born' \/ w = NoRow
      PROVE  RowsAreBorn'
  BY <1>1 DEF RowsAreBorn, TypeOK
<1>2. CASE row' = row /\ born' = born
  BY <1>2 DEF RowsAreBorn
<1>3. ASSUME NEW b \in Browsers, NEW u \in Users, Create(b, u)
      PROVE  RowsAreBorn'
  BY <1>1, <1>3 DEF Create, Answers
<1>4. ASSUME NEW b \in Browsers, SetRole(b) PROVE RowsAreBorn'
  <2> DEFINE q == req[b].body
             w == [row[q.user] EXCEPT !.role = q.role]
  <2>1. q.user \in Users /\ q.user \in born
    BY <1>4, BodyFields DEF SetRole, Ready, TypeOK, RowsAreBorn
  <2>2. born' = born /\ (row' = row \/ row' = [row EXCEPT ![q.user] = w])
    BY <1>4 DEF SetRole, Answers
  <2> HIDE DEF w, q
  <2> QED BY <1>1, <1>2, <2>1, <2>2
<1>5. ASSUME NEW b \in Browsers, Delete(b) PROVE RowsAreBorn'
  <2>1. req[b].body.user \in Users
    BY <1>5, BodyFields DEF Delete, Ready, TypeOK
  <2> QED BY <1>1, <1>5, <2>1 DEF Delete, Answers
<1>6. ASSUME NEW u \in Users, StartAddsAdmin(u) PROVE RowsAreBorn'
  BY <1>1, <1>6 DEF StartAddsAdmin
<1> QED BY <1>2, <1>3, <1>4, <1>5, <1>6
        DEF Next, Request, Login, Refresh, Logout, Admit, Check, Refuse,
            CreateClashes, RowVanished, OwnAccount, Fail, Answers, Start,
            StartAddsNone, StartBlind, Tick, vars

\* Only an admin has an admin's role.
LEMMA AdminRole == ASSUME NEW r \in Roles, HasRole(r, "admin")
                   PROVE  r = "admin"
BY DEF Roles, HasRole, Level

\* Whoever is entitled to an admin's operation is an admin.
LEMMA EntitledToRule ==
  ASSUME TypeOK, NEW b \in Browsers, NEW op,
         Needed(op) = "admin", Entitled(row, b, op)
  PROVE  /\ browser[b].sub \in Users
         /\ row[browser[b].sub] # NoRow /\ row[browser[b].sub].role = "admin"
<1>1. browser[b].sub \in Users /\ row[browser[b].sub] \in Row
  BY DEF TypeOK, Entitled
<1>2. row[browser[b].sub].role \in Roles
  BY <1>1 DEF Row
<1> QED BY <1>1, <1>2, AdminRole DEF Entitled

\* The sender of a request to demote or delete somebody else outlasts it as
\* an admin, unless revoked before.
LEMMA SenderRemains ==
  ASSUME TypeOK, LateOnlyIfRevoked, NEW b \in Browsers, ~revoked[b],
         Ready(b, "role") \/ Ready(b, "delete"),
         req[b].body.user # browser[b].sub,
         NEW w, row' = [row EXCEPT ![req[b].body.user] = w]
  PROVE  SomeAdmin'
<1> DEFINE u == browser[b].sub
<1>1. req[b] # Idle
  BY DEF Ready, Idle
<1>2. Needed(req[b].body.op) = "admin"
  BY DEF Ready, Needed
<1>3. Entitled(row, b, req[b].body.op)
  BY <1>1 DEF LateOnlyIfRevoked
<1>4. u \in Users /\ row[u] # NoRow /\ row[u].role = "admin"
  BY <1>2, <1>3, EntitledToRule
<1>5. row'[u] = row[u]
  BY <1>4 DEF TypeOK
<1> QED BY <1>4, <1>5 DEF SomeAdmin

\* The last admin goes by a request of their own or by a revoked one.
LEMMA PowerKept ==
  ASSUME TypeOK, LateOnlyIfRevoked, RowsAreBorn, [Next]_vars,
         SomeAdmin, ~SomeAdmin'
  PROVE  \E b \in Browsers : EndsOwnPower(b)
<1>1. PICK v \in Users : row[v] # NoRow /\ row[v].role = "admin"
  BY DEF SomeAdmin
<1>2. row'[v] = NoRow \/ row'[v].role # "admin"
  BY DEF SomeAdmin
<1>3. ASSUME NEW b \in Browsers, NEW u \in Users, Create(b, u) PROVE FALSE
  <2>1. u # v
    BY <1>1, <1>3 DEF RowsAreBorn, Create
  <2>2. row'[v] = row[v]
    BY <1>3, <2>1 DEF Create, Answers, TypeOK
  <2> QED BY <1>1, <1>2, <2>2
<1>4. ASSUME NEW u \in Users, StartAddsAdmin(u) PROVE FALSE
  BY <1>4 DEF StartAddsAdmin, AdminNeeded
<1>5. ASSUME NEW b \in Browsers, SetRole(b) \/ Delete(b)
      PROVE  EndsOwnPower(b)
  <2> DEFINE q == req[b].body
  <2>1. Ready(b, "role") \/ Ready(b, "delete")
    BY <1>5 DEF SetRole, Delete
  <2>2. q.op \in {"role", "delete"} /\ req[b] # Idle
    BY <2>1 DEF Ready, Idle
  <2>3. req'[b] = Idle
    BY <1>5 DEF SetRole, Delete, Answers, TypeOK
  <2>4. row' = row \/ \E w : row' = [row EXCEPT ![q.user] = w]
    BY <1>5 DEF SetRole, Delete, Answers
  <2>5. revoked[b] \/ q.user = browser[b].sub
    BY <1>1, <1>2, <2>1, <2>4, SenderRemains
  <2> QED BY <2>2, <2>3, <2>5 DEF EndsOwnPower
<1> QED BY <1>1, <1>2, <1>3, <1>4, <1>5
        DEF Next, Request, Login, Refresh, Logout, Admit, Check, Refuse,
            CreateClashes, RowVanished, OwnAccount, Fail, Answers, Start,
            StartAddsNone, StartBlind, Tick, vars

\* Without an admin, no step but a start that adds one ends that.
LEMMA PowerlessStays ==
  ASSUME TypeOK, [Next]_vars, Powerless, ~Start \/ Taken(AdminEmail)
  PROVE  Powerless'
<1>1. ASSUME NEW b \in Browsers, NEW op, Ready(b, op)
      PROVE  op \in {"profile", "password"}
  <2>1. req[b] # Idle /\ req[b].body.op = op
    BY <1>1 DEF Ready, Idle
  <2> QED BY <2>1 DEF Powerless, Needed
<1>2. ASSUME NEW b \in Browsers, Answers(b, row) PROVE Powerless'
  <2>1. row' = row /\ req' = [req EXCEPT ![b] = Idle]
    BY <1>2 DEF Answers
  <2> QED BY <2>1 DEF Powerless, SomeAdmin, TypeOK
<1>3. ASSUME NEW b \in Browsers, NEW q \in Own \cup Admins, Admit(b, q)
      PROVE  Powerless'
  <2>1. Needed(q.op) = "viewer"
    <3>1. Needed(q.op) \in {"viewer", "admin"}
      BY DEF Needed
    <3>2. Needed(q.op) # "admin"
      BY <1>3, EntitledToRule DEF Admit, Powerless, SomeAdmin
    <3> QED BY <3>1, <3>2
  <2>2. row' = row /\ \A c \in Browsers \ {b} : req'[c] = req[c]
    BY <1>3 DEF Admit, TypeOK
  <2>3. req'[b].body = q
    BY <1>3 DEF Admit, TypeOK
  <2> QED BY <2>1, <2>2, <2>3 DEF Powerless, SomeAdmin
<1>4. ASSUME NEW b \in Browsers, Check(b) PROVE Powerless'
  <2>1. req[b] # Idle
    BY <1>4 DEF Check, Idle
  <2>2. row' = row /\ \A c \in Browsers \ {b} : req'[c] = req[c]
    BY <1>4 DEF Check, TypeOK
  <2>3. req'[b].body = req[b].body
    BY <1>4 DEF Check, TypeOK
  <2> QED BY <2>1, <2>2, <2>3 DEF Powerless, SomeAdmin
<1>5. CASE StartAddsNone \/ StartBlind
  BY <1>5 DEF StartAddsNone, StartBlind, Stops, Powerless, SomeAdmin
<1>6. ASSUME NEW u \in Users PROVE ~StartAddsAdmin(u)
  BY DEF StartAddsAdmin, Start
<1>7. CASE row' = row /\ req' = req
  BY <1>7 DEF Powerless, SomeAdmin
<1>8. ASSUME NEW b \in Browsers, Request(b) PROVE Powerless'
  <2>1. /\ ~CreateClashes(b) /\ ~SetRole(b) /\ ~RowVanished(b) /\ ~Delete(b)
        /\ \A u \in Users : ~Create(b, u)
    BY <1>1 DEF CreateClashes, SetRole, RowVanished, Delete, Create
  <2> QED BY <1>2, <1>3, <1>4, <1>8, <2>1 DEF Request, Refuse, OwnAccount, Fail
<1> QED BY <1>5, <1>6, <1>7, <1>8
        DEF Next, Login, Refresh, Logout, Start, Tick, vars

\* The last admin goes only by their own doing, and who is admin afterwards
\* is decided by a start alone.
THEOREM AdminPowerIsHandedOn == Spec => AdminsComeFromAdmins
<1>1. Init => RowsAreBorn
  BY DEF Init, RowsAreBorn
<1>2. TypeOK /\ LateOnlyIfRevoked /\ RowsAreBorn /\ [Next]_vars =>
        [/\ SomeAdmin /\ ~SomeAdmin' => \E b \in Browsers : EndsOwnPower(b)
         /\ Powerless /\ (~Start \/ Taken(AdminEmail)) => Powerless']_vars
  BY PowerKept, PowerlessStays
<1> QED BY <1>1, <1>2, BornStep, TypeCorrect, RolesAreCurrent, PTL
        DEF Spec, AdminsComeFromAdmins

=============================================================================
