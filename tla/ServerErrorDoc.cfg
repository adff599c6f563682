CONSTANTS
  HostStates <- MCHostStates
  InitialHosts <- MCInitialHosts
  MaxChanges = 2
  MaxTrouble = 2
  Patience = 1
SPECIFICATION Spec
INVARIANT ErrorMeansUnseen
CHECK_DEADLOCK FALSE
