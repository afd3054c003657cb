\* Two sales in a row without failures or cancellations, until the change runs out.
CONSTANTS
  Denominations <- MCDenominations
  BillValues <- MCBillValues
  Price = 3
  InitialChange <- MCInitialChange
  InitialStock = 2
  Transactions = {x1, x2}
  NoTx = NoTx
  Clicks = {c1, c2}
  MaxCash = 9
  MaxFailures = 0
  Operations = {"checkout", "pickup", "timeout"}
SPECIFICATION FairSpec
\* The kiosk may stop: nobody owes it a bill or a click.
CHECK_DEADLOCK FALSE
INVARIANTS
  CompletedExactly
  IdleWindowClosed
  PressKeepsItsSale
PROPERTIES
  PaymentSettles
  WindowCloses
