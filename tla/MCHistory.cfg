SPECIFICATION Spec
CONSTANTS
  Screens = {Shelf, Book}
  Shelf = Shelf
  Offered = 2
  TrailMax = 3
  MaxEntries = 4
  MaxSurfaces = 2
  MaxSteps = 1
  MaxPanels = 2
  MaxDocs = 2
INVARIANTS
  TypeOK
  
  TrailTells
  OwnTravelArrives
  NoDeadEntry
PROPERTIES
  BackTakesTheTop
CHECK_DEADLOCK FALSE
