---------------------------- MODULE UserAccounts ----------------------------
(***************************************************************************)
(* User accounts, the tokens that speak for them, and the first admin:     *)
(* app/auth, app/users, the routes of app/api/v1/auth.py and users.py, and *)
(* _ensure_admin_user of app/main.py.                                      *)
(*                                                                         *)
(* A request is admitted by require_role, which reads the caller's row in  *)
(* a session of its own; its service then looks something up in the        *)
(* session of the request, and writes.  Anything may happen between the    *)
(* three.  Writing, refreshing and committing are one step: before the     *)
(* commit nobody sees the change, and whoever would collide with it waits. *)
(*                                                                         *)
(* The row that require_role hands out is detached: its session is closed. *)
(* Assigning to it changes no table, and refreshing it through another     *)
(* session raises.  is_active is left out: no route ever clears it.        *)
(* `Variant' marks bugs the code might have, as in TTLCache.               *)
(***************************************************************************)
EXTENDS Naturals

CONSTANTS
  Users,          \* ids that may be generated: an id is never used again
  Emails, AdminEmail,
  Passwords, AdminPassword,
  GivenRoles,     \* roles that bodies ask for
  Browsers,       \* each holds one login and sends one request at a time
  AccessLife, RefreshLife,   \* lifetimes of the two tokens
  NoUser, NoRow,
  Same,           \* a field absent from the body
  MayFail,        \* statements and commits can fail
  MayStop         \* the process can be started anew

Roles == {"viewer", "user", "admin"}

Row == [email : Emails, password : Passwords, role : Roles]

ASSUME AccountAssumption ==
  /\ GivenRoles \subseteq Roles
  /\ AdminEmail \in Emails /\ AdminPassword \in Passwords
  /\ AccessLife \in Nat \ {0} /\ RefreshLife \in Nat \ {0}
  /\ NoUser \notin Users /\ NoRow \notin Row /\ Same \notin Emails
  /\ MayFail \in BOOLEAN /\ MayStop \in BOOLEAN

VARIABLES
  row,      \* row[u]: the committed row of u, or NoRow
  born,     \* ids generated so far
  browser,  \* browser[b]: whose tokens b holds, and how long they last
  age,      \* age[b]: time since b logged in, 0 when its tokens have run out
            \* (bounded by LongestLogin)
  req,      \* req[b]: the request b has sent
  revoked   \* revoked[b]: b's right to its request was taken meanwhile

vars == <<row, born, browser, age, req, revoked>>

Level == [viewer |-> 0, user |-> 1, admin |-> 2]
HasRole(role, required) == Level[role] >= Level[required]

LongestLogin == RefreshLife + AccessLife

Own == [op : {"profile"}, email : Emails \cup {Same}]
         \cup [op : {"password"}, old : Passwords, new : Passwords]
Admins == [op : {"create"}, email : Emails, password : Passwords,
           role : GivenRoles]
            \cup [op : {"role"}, user : Users, role : GivenRoles]
            \cup [op : {"delete"}, user : Users]

LoggedOut == [sub |-> NoUser, access |-> 0, claim |-> "viewer", refresh |-> 0]
Idle == [step |-> "idle", body |-> [op |-> "none"], me |-> NoRow, seen |-> NoRow]

TypeOK ==
  /\ row \in [Users -> Row \cup {NoRow}]
  /\ born \subseteq Users
  /\ browser \in [Browsers -> [sub : Users \cup {NoUser}, claim : Roles,
                               access : 0 .. AccessLife,
                               refresh : 0 .. RefreshLife]]
  /\ age \in [Browsers -> 0 .. LongestLogin]
  /\ req \in [Browsers -> [step : {"idle", "admitted", "checked"},
                           body : Own \cup Admins \cup {[op |-> "none"]},
                           me : Row \cup {NoRow}, seen : Row \cup {NoRow}]]
  /\ revoked \in [Browsers -> BOOLEAN]

FirstAdmin == [email |-> AdminEmail, password |-> AdminPassword, role |-> "admin"]

Taken(e) == \E u \in Users : row[u] # NoRow /\ row[u].email = e

SomeAdmin == \E u \in Users : row[u] # NoRow /\ row[u].role = "admin"

\* The database as the first start leaves it.
Init == /\ \E u \in Users : /\ born = {u}
                            /\ row = [v \in Users |-> IF v = u THEN FirstAdmin
                                                              ELSE NoRow]
        /\ browser = [b \in Browsers |-> LoggedOut]
        /\ age = [b \in Browsers |-> 0]
        /\ req = [b \in Browsers |-> Idle]
        /\ revoked = [b \in Browsers |-> FALSE]

-----------------------------------------------------------------------------
(* Logins and tokens.                                                      *)

\* Variant: the two lifetimes are confused.
LoginSwapped(b, u, p) ==
  /\ req[b] = Idle
  /\ row[u] # NoRow /\ row[u].password = p
  /\ browser' = [browser EXCEPT ![b] =
       [sub |-> u, access |-> RefreshLife, claim |-> row[u].role,
        refresh |-> AccessLife]]
  /\ age' = [age EXCEPT ![b] = 0]
  /\ UNCHANGED <<row, born, req, revoked>>

Login(b, u, p) ==
  /\ req[b] = Idle
  /\ row[u] # NoRow /\ row[u].password = p
  /\ browser' = [browser EXCEPT ![b] =
       [sub |-> u, access |-> AccessLife, claim |-> row[u].role,
        refresh |-> RefreshLife]]
  /\ age' = [age EXCEPT ![b] = 0]
  /\ UNCHANGED <<row, born, req, revoked>>

\* Variant: the refresh token is renewed along with the access token.
RefreshRotates(b) ==
  /\ req[b] = Idle
  /\ browser[b].refresh > 0
  /\ browser[b].sub # NoUser /\ row[browser[b].sub] # NoRow
  /\ browser' = [browser EXCEPT ![b] =
       [sub |-> @.sub, access |-> AccessLife, claim |-> row[@.sub].role,
        refresh |-> RefreshLife]]
  /\ UNCHANGED <<row, born, age, req, revoked>>

Refresh(b) ==
  /\ req[b] = Idle
  /\ browser[b].refresh > 0
  /\ browser[b].sub # NoUser /\ row[browser[b].sub] # NoRow
  /\ browser' = [browser EXCEPT ![b] =
       [sub |-> @.sub, access |-> AccessLife, claim |-> row[@.sub].role,
        refresh |-> @.refresh]]
  /\ UNCHANGED <<row, born, age, req, revoked>>

\* The cookie is deleted, and the page forgets the access token.
Logout(b) == /\ req[b] = Idle
             /\ browser[b] # LoggedOut
             /\ browser' = [browser EXCEPT ![b] = LoggedOut]
             /\ age' = [age EXCEPT ![b] = 0]
             /\ UNCHANGED <<row, born, req, revoked>>

Older(n) == IF n = 0 THEN 0 ELSE n - 1

Tick == /\ browser' = [b \in Browsers |->
             LET t == browser[b] IN
             [sub |-> t.sub, claim |-> t.claim, access |-> Older(t.access),
              refresh |-> Older(t.refresh)]]
        /\ age' = [b \in Browsers |->
             CASE browser'[b].access = 0 /\ browser'[b].refresh = 0 -> 0
               [] age[b] = LongestLogin -> age[b]
               [] OTHER -> age[b] + 1]
        /\ UNCHANGED <<row, born, req, revoked>>

-----------------------------------------------------------------------------
(* Requests.                                                               *)

Needed(op) == IF op \in {"profile", "password"} THEN "viewer" ELSE "admin"

\* Whether b may do op, by the rows w.
Entitled(w, b, op) == LET u == browser[b].sub IN
  u # NoUser /\ w[u] # NoRow /\ HasRole(w[u].role, Needed(op))

\* Variant: the role is taken from the token, which carries it.
AdmitByClaim(b, q) ==
  /\ req[b] = Idle
  /\ browser[b].access > 0
  /\ row[browser[b].sub] # NoRow
  /\ HasRole(browser[b].claim, Needed(q.op))
  /\ req' = [req EXCEPT ![b] = [step |-> "admitted", body |-> q,
                                me |-> row[browser[b].sub], seen |-> NoRow]]
  /\ UNCHANGED <<row, born, browser, age, revoked>>

\* require_role: the token must be valid, the row must grant the role.
Admit(b, q) ==
  /\ req[b] = Idle
  /\ browser[b].access > 0
  /\ Entitled(row, b, q.op)
  /\ req' = [req EXCEPT ![b] = [step |-> "admitted", body |-> q,
                                me |-> row[browser[b].sub], seen |-> NoRow]]
  /\ UNCHANGED <<row, born, browser, age, revoked>>

\* What the service checks before it writes.
Refusal(me, q) ==
  \/ q.op = "create" /\ Taken(q.email)
  \/ q.op = "profile" /\ q.email \notin {Same, me.email} /\ Taken(q.email)
  \/ q.op = "password" /\ q.old # me.password
  \/ q.op \in {"role", "delete"} /\ row[q.user] = NoRow
  \/ q.op = "role" /\ me.role # "admin"

Check(b) ==
  LET q == req[b].body IN
  /\ req[b].step = "admitted"
  /\ ~Refusal(req[b].me, q)
  /\ req' = [req EXCEPT ![b] =
       [step |-> "checked", body |-> q, me |-> req[b].me,
        seen |-> IF q.op \in {"role", "delete"} THEN row[q.user] ELSE NoRow]]
  /\ UNCHANGED <<row, born, browser, age, revoked>>

\* The answer is sent, and the rows become w.
Answers(b, w) ==
  /\ row' = w
  /\ req' = [req EXCEPT ![b] = Idle]
  /\ revoked' = [c \in Browsers |->
       /\ c # b /\ req[c] # Idle
       /\ revoked[c] \/ (Entitled(row, c, req[c].body.op)
                         /\ ~Entitled(w, c, req[c].body.op))]
  /\ UNCHANGED <<browser, age>>

Refuse(b) == /\ req[b].step = "admitted"
             /\ Refusal(req[b].me, req[b].body)
             /\ Answers(b, row) /\ UNCHANGED born

Ready(b, op) == req[b].step = "checked" /\ req[b].body.op = op

\* Variant: no unique index on users.email.
CreateUnchecked(b, u) ==
  LET q == req[b].body IN
  /\ Ready(b, "create")
  /\ u \notin born
  /\ born' = born \cup {u}
  /\ Answers(b, [row EXCEPT ![u] = [email |-> q.email, role |-> q.role,
                                    password |-> q.password]])

Create(b, u) ==
  LET q == req[b].body IN
  /\ Ready(b, "create")
  /\ u \notin born /\ ~Taken(q.email)
  /\ born' = born \cup {u}
  /\ Answers(b, [row EXCEPT ![u] = [email |-> q.email, role |-> q.role,
                                    password |-> q.password]])

\* Somebody else has inserted the email since it was looked up.
CreateClashes(b) == /\ Ready(b, "create")
                    /\ Taken(req[b].body.email)
                    /\ Answers(b, row) /\ UNCHANGED born

\* set_role: no UPDATE is sent for the role that was read.
SetRole(b) ==
  LET q == req[b].body IN
  /\ Ready(b, "role")
  /\ row[q.user] # NoRow
  /\ Answers(b, IF q.role = req[b].seen.role THEN row
                ELSE [row EXCEPT ![q.user].role = q.role])
  /\ UNCHANGED born

\* The UPDATE matches no row, or there is no row to refresh from.
RowVanished(b) == /\ Ready(b, "role")
                  /\ row[req[b].body.user] = NoRow
                  /\ Answers(b, row) /\ UNCHANGED born

\* Deleting a row that is gone already is only a warning.
Delete(b) == /\ Ready(b, "delete")
             /\ Answers(b, [row EXCEPT ![req[b].body.user] = NoRow])
             /\ UNCHANGED born

\* update_profile and change_password: the flush finds nothing to write and
\* the refresh of the detached row raises.
OwnAccount(b) == /\ Ready(b, "profile") \/ Ready(b, "password")
                 /\ Answers(b, row) /\ UNCHANGED born

Fail(b) == /\ MayFail
           /\ req[b] # Idle
           /\ Answers(b, row) /\ UNCHANGED born

-----------------------------------------------------------------------------
(* The process stops and starts: _ensure_admin_user runs before any        *)
(* request is served.                                                      *)

Stops == /\ MayStop
         /\ req' = [b \in Browsers |-> Idle]
         /\ revoked' = [b \in Browsers |-> FALSE]
         /\ UNCHANGED <<browser, age>>

AdminNeeded == ~SomeAdmin

StartAddsAdmin(u) == /\ Stops
                     /\ AdminNeeded /\ ~Taken(AdminEmail)
                     /\ u \notin born
                     /\ born' = born \cup {u}
                     /\ row' = [row EXCEPT ![u] = FirstAdmin]

\* There is an admin, or the INSERT fails on the email: a logged warning.
StartAddsNone == /\ Stops
                 /\ ~AdminNeeded \/ Taken(AdminEmail)
                 /\ UNCHANGED <<row, born>>

\* The database cannot be reached: a logged warning too.
StartBlind == MayFail /\ Stops /\ UNCHANGED <<row, born>>

Start == StartAddsNone \/ \E u \in Users : StartAddsAdmin(u)

-----------------------------------------------------------------------------

Request(b) == \/ \E q \in Own \cup Admins : Admit(b, q)
              \/ Check(b) \/ Refuse(b)
              \/ \E u \in Users : Create(b, u)
              \/ CreateClashes(b)
              \/ SetRole(b) \/ RowVanished(b) \/ Delete(b)
              \/ OwnAccount(b)
              \/ Fail(b)

Next == \/ \E b \in Browsers :
             \/ \E u \in Users, p \in Passwords : Login(b, u, p)
             \/ Refresh(b) \/ Logout(b)
             \/ Request(b)
        \/ Start \/ StartBlind
        \/ Tick

Spec == Init /\ [][Next]_vars

-----------------------------------------------------------------------------
(* Properties.                                                             *)

\* create_user and _ensure_admin_user look first and insert later: however
\* registrations, deletions and starts interleave, an email names at most
\* one account.
EmailNamesOneUser ==
  \A u, v \in Users :
    row[u] # NoRow /\ row[v] # NoRow /\ row[u].email = row[v].email => u = v

\* A role counts as it stands in the database, not as the token of up to
\* fifteen minutes ago says: a request under way whose sender lacks the role
\* it needs was admitted before the role, or the account, was taken away.
LateOnlyIfRevoked ==
  \A b \in Browsers :
    req[b] # Idle => Entitled(row, b, req[b].body.op) \/ revoked[b]

\* However often a login is refreshed it is over when the refresh token of
\* the login and one last access token have run out.
LoginsRunOut ==
  \A b \in Browsers : browser[b].access > 0 => age[b] < LongestLogin

\* No admin is left, and none of their requests is under way.
Powerless ==
  /\ ~SomeAdmin
  /\ \A b \in Browsers : req[b] # Idle => Needed(req[b].body.op) = "viewer"

\* The request of b ends, and it was against its own sender, or from somebody
\* who had meanwhile lost the right to it.
EndsOwnPower(b) ==
  /\ req[b] # Idle /\ req'[b] = Idle
  /\ \/ revoked[b]
     \/ /\ req[b].body.op \in {"role", "delete"}
        /\ req[b].body.user = browser[b].sub

\* Admins may demote and delete themselves and each other, at once.  The last
\* one nevertheless goes only by a request of their own, or by one that was
\* under way when its sender ceased to be one: two admins who remove each
\* other.  From then on nobody becomes admin but by a start of the process,
\* and while ADMIN_EMAIL names an account not even by that: whoever demotes
\* that account and goes has locked the application for good.
AdminsComeFromAdmins ==
  [][/\ SomeAdmin /\ ~SomeAdmin' => \E b \in Browsers : EndsOwnPower(b)
     /\ Powerless /\ (~Start \/ Taken(AdminEmail)) => Powerless']_vars

=============================================================================
