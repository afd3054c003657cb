\* Three lives of the program, two of which may end while the catalog is seeded.
CONSTANTS
  Configurations <- MCConfigurations
  LegacyProducts <- MCLegacyProducts
  LegacyNames <- MCLegacyNames
  MaxStarts = 3
  MaxReady = 2
SPECIFICATION Spec
\* Nobody owes the kiosk a press, and its lives are bounded.
CHECK_DEADLOCK FALSE
INVARIANTS
  SeedingSurvivesCrashes
  SelectionIsShown
  OffersAreInStock
