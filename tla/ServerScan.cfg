CONSTANTS
  HostStates <- MCHostStates
  InitialHosts <- MCInitialHosts
  MaxChanges = 2
  MaxTrouble = 2
  Patience = 1
SPECIFICATION Spec
INVARIANT TypeOK
INVARIANT SteadyRiskIsReported
INVARIANT TroubleShows
INVARIANT FirewallVerdictIsEarned
INVARIANT EmptyPasswordPathIsCorrelated
CHECK_DEADLOCK FALSE
