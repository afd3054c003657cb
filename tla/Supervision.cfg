\* One life of the process, with one call that fails or one poll that gives up,
\* and events that wait behind a busy loop.
CONSTANTS
  StartupDisableAcceptance = TRUE
  FallbackDisableOnFault = TRUE
  MaxFaults = 1
  MaxEvents = 1
  MaxSales = 1
SPECIFICATION FairSpec
\* A kiosk that was stopped, or could not start, stays so.
CHECK_DEADLOCK FALSE
INVARIANTS
  PortBelongsToAdapter
  LoopsAreWatched
PROPERTIES
  SilentValidatorIsNoticed
  BillIsReported
  OpenDoorBlocksSales
