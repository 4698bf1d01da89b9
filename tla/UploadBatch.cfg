\* Two members of a household, one of whom selects more files than a batch holds.
CONSTANTS
  c1 = c1
  c2 = c2
  f1 = f1
  f2 = f2
  f3 = f3
  f4 = f4
  bread = bread
  milk = milk
  Unreadable = Unreadable
  Client = {c1, c2}
  User = {c1, c2}
  File = {f1, f2, f3, f4}
  ClientRejects = {f4}
  Concurrency = 2
  MaxRounds = 1
  Rounds <- MCRounds
  Upload <- MCUpload
  FileOf <- MCFileOf
  Uploader <- MCUploader
  Home <- MCHome
  Lines <- MCLines
  Selections <- MCSelections
  Events = {"crash", "db_error", "mark_fails"}
SPECIFICATION ClientSpec
INVARIANTS ClientTypeOK TicketAllOrNothing MarkedWasImported OnceUnlessRaced OkMeansImported
PROPERTIES EveryUploadAnswered EverySelectionEnds
CHECK_DEADLOCK FALSE
