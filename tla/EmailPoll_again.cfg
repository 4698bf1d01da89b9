\* One poller and an inbox without new messages.
CONSTANTS
  u1 = u1
  u2 = u2
  b1 = b1
  b2 = b2
  b3 = b3
  User = {u1}
  Mailbox = {b1}
  Poller = {ticker}
  Ticker = {ticker}
  Reachable = {b1}
  MaxUid = 2
  MaxId = 1
  Own <- MCOwn
  Size <- MCSize
  Pdfs <- MCPdfs
SPECIFICATION Spec
PROPERTY OnlyNewMail
CHECK_DEADLOCK FALSE
