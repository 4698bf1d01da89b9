\* Two products, a catalogue of two subcategories, the worker and a job.
CONSTANTS
  bags = bags
  oil = oil
  t1 = t1
  t2 = t2
  t3 = t3
  own = own
  Product = {bags, oil}
  Local <- MCLocal
  NoImage = NoImage
  Thumb = {t1, t2, t3, own}
  ByHand <- MCByHand
  Subcats = 2
  Entries <- MCEntries
  Worker = Worker
  j1 = j1
  Job = {j1}
  Events = {"api_error", "translator_error", "db_error", "stop"}
SPECIFICATION FairSpec
INVARIANTS ManualKept NoneForgotten
PROPERTIES TriedByRule EveryScheduledTried
CHECK_DEADLOCK FALSE
