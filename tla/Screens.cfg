\* Double presses of a technician and of a customer; everything with two mishaps.
CONSTANT
  Scopes <- MCScopes
SPECIFICATION FairSpec
\* Nobody owes the kiosk a press.
CHECK_DEADLOCK FALSE
INVARIANTS
  ServiceScreenNeedsServiceMode
PROPERTIES
  BlockersReachTheScreen
  DispensingScreenEnds
