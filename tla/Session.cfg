\* One user, two tabs of one browser, two handlers at a time.
CONSTANTS
  ana = ana
  p1 = p1
  p2 = p2
  b1 = b1
  r1 = r1
  r2 = r2
  User = {ana}
  x = x
  Password = {x}
  Page = {p1, p2}
  Browser = {b1}
  In <- OneBrowser
  Req = {r1, r2}
  TTL = 1
  MaxTime = 2
  MaxToken = 2
  MaxFaults = 1
  None = None
SPECIFICATION Spec
INVARIANTS EndedIsOut UploadOwner
SYMMETRY Symmetry
CHECK_DEADLOCK FALSE
