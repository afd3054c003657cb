\* Payouts one after another, any faults, one retry, an unavailable payout included.
CONSTANTS
  c1 = c1
  c2 = c2
  c3 = c3
  refund = refund
  change = change
  Calls <- MCCalls
  Keys <- MCKeys
  KeyOf <- MCKeyOf
  Requested <- MCRequested
  NonRetryableFaults <- MCNonRetryable
  RetryableFaults <- MCRetryableUnavailable
  Stocked = 2
  MaxAttempts = 2
  MaxInjected = 2
  Overlap = FALSE
SPECIFICATION FairDispenserSpec
\* The calls are all made and no more faults are injected.
CHECK_DEADLOCK FALSE
INVARIANTS
  DispenserTypeOK
  DrivenOncePerKey
  RaisedCallPaysNothing
  StockMatchesAnswers
  DrivenOncePerCall
PROPERTIES
  UnknownPayoutIsFinal
  EveryCallSettles
  KeepsItsWord
