\* Receipts of up to four items in both layouts, two lines lost or inserted.
CONSTANTS
  Layout = {"cells", "rows"}
  MaxItems = 4
  MaxDamage = 2
SPECIFICATION ParserSpec
INVARIANTS ParserTypeOK LossIsLocal PriceOfItsItem
CHECK_DEADLOCK FALSE
