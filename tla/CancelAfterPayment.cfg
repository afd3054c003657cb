\* A customer cancels while the payment is being confirmed.
CONSTANTS
  Denominations <- MCDenominations
  BillValues <- MCBillValues
  Price = 3
  InitialChange <- MCInitialChange
  InitialStock = 2
  Transactions = {x1}
  NoTx = NoTx
  Clicks = {c1}
  MaxCash = 5
  MaxFailures = 0
  Operations = {"checkout", "pickup", "cancel"}
SPECIFICATION Spec
\* The kiosk may stop: nobody owes it a bill or a click.
CHECK_DEADLOCK FALSE
INVARIANTS
  CancelledKeepsNothing
