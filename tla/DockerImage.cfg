CONSTANTS
  Keys = {"a", "b", "c"}
  IdOrder <- MCIdOrder
  Records <- MCRecords
  Answers <- MCAnswers
  FileLists <- MCFileLists
  ChunkSize = 2
  PageLimit = 2
  PoolSize = 2
  Images = {"old", "new", "broken"}
  Inventory <- MCInventory
SPECIFICATION ImageSpec
INVARIANT TypeOK
INVARIANT PassIsEarned
INVARIANT MatchesAreComplete
INVARIANT NoFutureIsLost
PROPERTY Terminates
CHECK_DEADLOCK FALSE
