CONSTANTS
  Keys = {"a", "b", "c"}
  IdOrder <- MCIdOrder
  Records <- MCRecords
  Answers <- MCAnswers
  FileLists <- MCFileLists
  ChunkSize = 2
  PageLimit = 2
  PoolSize = 2
  Images = {"old", "new", "broken"}
  Inventory <- MCInventory
SPECIFICATION ImageSpec
INVARIANT EvidenceNamesTheScannedImage
CHECK_DEADLOCK FALSE
