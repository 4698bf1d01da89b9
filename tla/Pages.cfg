\* A box with two texts and two searches under way; a product with three
\* records and three URLs for its image.
CONSTANTS
  a = a
  b = b
  Query = {a, b}
  Blank = Blank
  Debounce = 2
  Slot = {1, 2}
  r1 = r1
  r2 = r2
  r3 = r3
  u1 = u1
  u2 = u2
  p1 = p1
  Record = {r1, r2, r3}
  Year <- MCYear
  Valid <- MCValid
  Rated <- MCRated
  Rate <- MCRate
  Url = {u1, u2}
  Page = {p1}
  Thumb <- MCThumb
  None = None
SPECIFICATION FairSpec
INVARIANTS RestShowsQuery HiddenIsDeleted IpcSinceFirst ImageIsStored
PROPERTIES SpinnersEnd
