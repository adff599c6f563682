CONSTANTS
  Accounts <- MCAccounts
  Denials <- MCDenials
  MaxChanges = 1
  MaxTime = 2
  MaxScans = 2
  MaxCrashes = 1
SPECIFICATION Spec
INVARIANT TypeOK
INVARIANT NoProcessSavesTwice
INVARIANT EmptyScanHasAReason
INVARIANT UndisturbedRequestSavesItsOwn
INVARIANT PageIsOfOneScan
INVARIANT AlertsFollowExposure
PROPERTY ImplementsStore
CHECK_DEADLOCK FALSE
