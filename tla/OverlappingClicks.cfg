\* Clicks that overlap, bills that arrive late and health conditions that come and go.
CONSTANTS
  Denominations <- MCDenominations
  BillValues <- MCBillValues
  Price = 3
  InitialChange <- MCInitialChange
  InitialStock = 2
  Transactions = {x1}
  NoTx = NoTx
  Clicks = {c1, c2}
  MaxCash = 5
  MaxFailures = 0
  Operations = {"checkout", "pickup", "cancel", "service", "recover", "late bill", "device_fault"}
SPECIFICATION Spec
SYMMETRY IdentitySymmetry
\* The kiosk may stop: nobody owes it a bill or a click.
CHECK_DEADLOCK FALSE
INVARIANTS
  AtMostOneVend
