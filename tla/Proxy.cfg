SPECIFICATION FairSpec
CONSTANTS
  Catalog <- MCCatalog
  Parent <- MCParent
  AlertTypes <- MCTypes
  Levels <- MCLevels
  Begin <- MCBegin
  Events <- MCEvents
  Workers = {w1}
  Ids <- MCIds
  PollEvery = 1
  RegionsEvery = 2
  RegionsRetry = 2
  StaleAfter = 0
  Start = 4
  Seeded = FALSE
  MaxTime = 1
  MaxChanges = 2
  MaxFlights = 1
  NoBody = NoBody
  NoRequest = NoRequest
INVARIANTS Inv NotModifiedIsTrue
PROPERTIES Reconciles
