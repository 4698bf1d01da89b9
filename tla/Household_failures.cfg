\* The same requests; any of them may be cut off, a deletion may fail and an
\* invitation may expire.
CONSTANTS
  u1 = u1
  u2 = u2
  r1 = r1
  r2 = r2
  r3 = r3
  User = {u1, u2}
  Req = {r1, r2, r3}
  Caller <- TwoTabs
  Token = {t1, t2}
  NoToken = NoToken
  MaxInFlight = 2
  Events = {"crash", "delete_fails", "expiry"}
SPECIFICATION Spec
INVARIANTS JoinedTokenIsConsumed EmptyOnlyByOverlap OneActiveToken ScopeIncludesSelf
SYMMETRY Alike
