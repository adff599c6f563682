CONSTANTS
  RoleKeys <- MCRoleKeys
  RuleSets <- MCRuleSets
  Bindings <- MCBindings
  Pods <- MCPods
  Accounts <- MCAccounts
  Policies <- MCPolicies
  InitialClusters <- MCInitialClusters
  MaxChanges = 2
  MaxFailures = 1
SPECIFICATION Spec
INVARIANT ClusterAdminIsTopTier
CHECK_DEADLOCK FALSE
