CONSTANTS
  Tokens = {t1}
  Requests = {r1, r2}
  NoToken = NoToken
  NoRow = NoRow
  Ttl = 1
  MaxTime = 1
SPECIFICATION Spec
INVARIANT GrantedOnce
