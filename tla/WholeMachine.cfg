\* Every operation of customers, technicians and devices, one click at a time.
CONSTANTS
  Denominations <- MCDenominations
  BillValues <- MCBillValues
  Price = 3
  InitialChange <- MCInitialChange
  InitialStock = 2
  Transactions = {x1, x2}
  NoTx = NoTx
  Clicks = {c1}
  MaxCash = 5
  MaxFailures = 1
  Operations = {"checkout", "pickup", "timeout", "service", "recover", "cancel"}
SPECIFICATION Spec
SYMMETRY IdentitySymmetry
\* The kiosk may stop: nobody owes it a bill or a click.
CHECK_DEADLOCK FALSE
INVARIANTS
  TypeOK
  UnsafeStateBlocksSales
  ReservedIsCovered
