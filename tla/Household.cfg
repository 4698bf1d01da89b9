\* Two users, one of them with a second tab; two requests in flight.
\* No symmetry: the run checks liveness.
CONSTANTS
  u1 = u1
  u2 = u2
  r1 = r1
  r2 = r2
  r3 = r3
  User = {u1, u2}
  Req = {r1, r2, r3}
  Caller <- TwoTabs
  Token = {t1, t2}
  NoToken = NoToken
  MaxInFlight = 2
  Events = {}
SPECIFICATION FairSpec
INVARIANTS ReferentialIntegrity IndInv
PROPERTIES ImplementsContract EveryRequestEnds
