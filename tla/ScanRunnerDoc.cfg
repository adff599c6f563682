CONSTANTS
  Providers = {"aws", "docker", "kubernetes", "server"}
  ScannerOrder <- MCOrder
  Tallies <- MCTallies
SPECIFICATION Spec
INVARIANT ExitOneMeansThreshold
CHECK_DEADLOCK FALSE
