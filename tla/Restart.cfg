\* A stop or crash at any moment and a database error, in two sales.
CONSTANTS
  Denominations <- MCDenominations
  BillValues <- MCBillValues
  Price = 3
  InitialChange <- MCInitialChange
  InitialStock = 2
  Transactions = {x1, x2}
  NoTx = NoTx
  Clicks = {c1}
  MaxCash = 5
  MaxFailures = 0
  Operations = {"checkout", "pickup", "timeout", "service", "recover"}
  MaxCrashes = 1
  MaxWriteFailures = 1
SPECIFICATION FairDurableSpec
\* The kiosk may stop: nobody owes it a bill or a click.
CHECK_DEADLOCK FALSE
INVARIANTS
  RestoredSaleBlocksSales
  BooksBalance
  NothingLeavesUnrecorded
PROPERTIES
  InterruptedCommandsAreReviewed
  WaitingSaleTimesOut
