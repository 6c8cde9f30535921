CONSTANTS
  fw1 = fw1
  fw2 = fw2
  bad = bad
  Images <- MCImages
  Bootable <- MCBootable
  Chunks = 2
  Erased = Erased
  None = None
SPECIFICATION SoundSpec
PROPERTY BootRunsActiveBank
CHECK_DEADLOCK FALSE
