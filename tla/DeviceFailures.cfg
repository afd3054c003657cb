\* Any one device failure, and bills that arrive late.
CONSTANTS
  Denominations <- MCDenominations
  BillValues <- MCBillValues
  Price = 3
  InitialChange <- MCInitialChange
  InitialStock = 2
  Transactions = {x1, x2}
  NoTx = NoTx
  Clicks = {c1, c2}
  MaxCash = 6
  MaxFailures = 1
  Operations = {"checkout", "pickup", "timeout", "late bill"}
SPECIFICATION Spec
\* The kiosk may stop: nobody owes it a bill or a click.
CHECK_DEADLOCK FALSE
INVARIANTS
  GivesAtMostWhatItTook
  ReservesAreHeld
  MismatchStopsSales
PROPERTIES
  DeliveredIsFinal
