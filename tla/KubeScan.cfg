CONSTANTS
  RoleKeys <- MCRoleKeys
  RuleSets <- MCRuleSets
  Bindings <- MCBindings
  Pods <- MCPods
  Accounts <- MCAccounts
  Policies <- MCPolicies
  InitialClusters <- MCInitialClusters
  MaxChanges = 2
  MaxFailures = 1
SPECIFICATION Spec
INVARIANT TypeOK
INVARIANT StableGrantIsReported
INVARIANT PassMeansSteadilySafe
INVARIANT StableExposureIsCorrelated
INVARIANT CorrelatedByIdentity
CHECK_DEADLOCK FALSE
