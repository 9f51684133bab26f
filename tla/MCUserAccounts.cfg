\* Two browsers, three accounts, two emails: races, revocations and starts.
CONSTANTS
  u1 = u1
  u2 = u2
  u3 = u3
  e1 = e1
  e2 = e2
  p1 = p1
  p2 = p2
  Users = {u1, u2, u3}
  Emails = {e1, e2}
  AdminEmail = e1
  Passwords = {p1}
  AdminPassword = p1
  GivenRoles = {"viewer", "admin"}
  Browsers = {b1, b2}
  AccessLife = 1
  RefreshLife = 2
  NoUser = NoUser
  NoRow = NoRow
  Same = Same
  MayFail = TRUE
  MayStop = TRUE
SPECIFICATION Spec
SYMMETRY MCSymmetry
INVARIANTS
  TypeOK
  EmailNamesOneUser
  LateOnlyIfRevoked
  LoginsRunOut
PROPERTIES
  AdminsComeFromAdmins
