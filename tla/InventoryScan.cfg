SPECIFICATION Spec
CONSTANTS
  Worlds <- MCWorlds
  Values <- MCValues
  SecondPage <- MCSecondPage
  MaxChanges = 1
  MaxTrouble = 1
INVARIANTS
  TypeOK
  SteadyRiskIsReported
  NothingIsMadeUp
  TroubleShows
  PassIsEarned
  SteadyPairsAreCorrelated
CHECK_DEADLOCK FALSE
