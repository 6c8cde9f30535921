CONSTANTS
  fw1 = fw1
  fw2 = fw2
  bad = bad
  Images <- MCTwo
  Bootable <- MCOne
  Chunks = 2
  Erased = Erased
  None = None
SPECIFICATION FairSpec
INVARIANTS NoMixture FlagConsumed
PROPERTIES CrcOldOrNew BootSettles
