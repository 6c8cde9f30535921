CONSTANTS
  MaxBlocks = 3
  RegionBlocks = 2
  BlkMod = 5
  StartRetries = 2
  Retries = 2
  Cap = 3
SPECIFICATION Spec
INVARIANTS InOrder SuccessIsTrue
PROPERTIES CleanTransferCompletes SenderEnds
CHECK_DEADLOCK FALSE
