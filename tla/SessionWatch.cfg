SPECIFICATION FairSpec
CONSTANTS
  Client = {c1, c2}
INVARIANTS
  TypeOK
  WatchedIsInMemory
  ArmedMeansUnwatched
  ActiveCountIsTrue
  SummaryReachesClients
  SavedIsShown
PROPERTIES
  EmptyIsCollected
CHECK_DEADLOCK FALSE
