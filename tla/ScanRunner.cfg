CONSTANTS
  Providers = {"aws", "docker", "kubernetes", "server"}
  ScannerOrder <- MCOrder
  Tallies <- MCTallies
SPECIFICATION Spec
INVARIANT TypeOK
INVARIANT CleanExitIsEarned
INVARIANT AffectedAreTheFailed
INVARIANT StaleReportMeansGivenUp
PROPERTY ImplementsContract
PROPERTY EventuallyExits
CHECK_DEADLOCK FALSE
