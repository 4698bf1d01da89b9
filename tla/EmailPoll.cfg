\* The ticker of the development server and its cron endpoint poll one account;
\* who is called again and again makes no difference to safety.
CONSTANTS
  u1 = u1
  u2 = u2
  b1 = b1
  b2 = b2
  b3 = b3
  User = {u1}
  Mailbox = {b1, b2}
  Poller = {ticker, cron}
  Ticker = {}
  Reachable = {b1}
  MaxUid = 2
  MaxId = 1
  Own <- MCOwn
  Size <- MCSize
  Pdfs <- MCPdfs
SPECIFICATION Spec
SYMMETRY MCPollers
INVARIANTS NoMailSkipped AgainIsExcused
CHECK_DEADLOCK FALSE
