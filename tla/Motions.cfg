\* Commands one after another, any faults, one retry.
CONSTANTS
  c1 = c1
  c2 = c2
  c3 = c3
  sale = sale
  other = other
  Calls <- MCCalls
  Keys <- MCKeys
  KeyOf <- MCKeyOf
  RetryableFaults <- MCRetryable
  NonRetryableFaults <- MCNonRetryable
  MaxAttempts = 2
  MaxInjected = 2
  Overlap = FALSE
SPECIFICATION ActuatorSpec
\* The calls are all made and no more faults are injected.
CHECK_DEADLOCK FALSE
INVARIANTS
  PerformedOncePerKey
  DoneWasPerformed
PROPERTIES
  KeepsItsWord
