\* Two users and the anonymous one, one household, three records of two products.
CONSTANTS
  u1 = u1
  u2 = u2
  User = {u1, u2}
  Nobody = nobody
  Household = {h1}
  NoHousehold = none
  Product = {1, 2}
  Day = {1, 2}
  Receipt <- MCReceipt
  Request = {r1}
  Limit = 1
  MaxId = 3
SPECIFICATION Spec
INVARIANTS QueriesAgree IndexWithinProducts
PROPERTY OnlyShared
