\* One tab: tables of keys, webhooks, users and an empty one, the health page and
\* the logs; two requests in flight.
SPECIFICATION Spec
CONSTANTS
  k1 = k1
  k2 = k2
  w = w
  u = u
  Items <- MCItems
  AtFirst <- MCAtFirst
  Current = k1
  Account = u
  Expiring = {k1}
  Visits = {"/keys", "/webhooks", "/subscription", "/admin/users", "/admin/health",
            "/admin/logs"}
  MaxCalls = 2
  MaxViews = 1
  MaxActs = 4
INVARIANTS
  TypeOK
  TableFresh
  HealthWatched
PROPERTIES
  
  KeepsAccess
\* The user may stop.
CHECK_DEADLOCK FALSE
