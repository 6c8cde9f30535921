CONSTANTS
  fw1 = fw1
  fw2 = fw2
  Images <- MCFiles
  Bootable <- MCFiles
  Chunks = 2
  Erased = Erased
  None = None
SPECIFICATION MCSpec
INVARIANT InterruptedCopyIsRepeated
PROPERTIES StartsOldOrRecorded UnselectedStartsOld UpdateSucceeds
