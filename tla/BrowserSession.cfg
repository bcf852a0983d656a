\* One tab, a user's key, a new key and an administrator's, one key form, two calls
\* in flight.
SPECIFICATION FairSpec
CONSTANTS
  u = u
  n = n
  adm = adm
  f1 = f1
  UserKeys = {u, n}
  AdminKeys = {adm}
  OldKeys = {u}
  Visits = {"/register", "/dashboard", "/keys", "/admin/users/:id"}
  Forms = {f1}
  MaxCalls = 2
  MaxActs = 4
INVARIANTS
  TypeOK
  StoredMatchesSession
  ConsoleForAdmins
  PageIsAddressed
PROPERTIES
  RoutingSettles
\* The user may stop.
CHECK_DEADLOCK FALSE
