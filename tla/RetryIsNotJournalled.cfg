\* The window fails to close at first and the customer clicks again.
CONSTANTS
  Denominations <- MCDenominations
  BillValues <- MCBillValues
  Price = 3
  InitialChange <- MCInitialChange
  InitialStock = 2
  Transactions = {x1}
  NoTx = NoTx
  Clicks = {c1}
  MaxCash = 3
  MaxFailures = 1
  Operations = {"checkout", "pickup"}
  MaxCrashes = 0
  MaxWriteFailures = 0
SPECIFICATION DurableSpec
\* The kiosk may stop: nobody owes it a bill or a click.
CHECK_DEADLOCK FALSE
INVARIANTS
  CriticalStepsAreJournalled
