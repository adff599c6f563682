CONSTANTS
  Catalog <- MCCatalog
  MaxFindings = 4
SPECIFICATION Spec
INVARIANT TypeOK
INVARIANT ResourceCorrelationsAreLocal
INVARIANT OneTierPerServiceAccount
PROPERTY OneMoreFindingNeverLowersTheScore
PROPERTY ReorderingOnlyReorders
PROPERTY NoEvidenceNoChange
CHECK_DEADLOCK FALSE
