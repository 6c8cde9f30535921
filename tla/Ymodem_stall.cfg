CONSTANTS
  MaxBlocks = 3
  RegionBlocks = 2
  BlkMod = 5
  StartRetries = 2
  Retries = 2
  Cap = 3
SPECIFICATION Spec


CHECK_DEADLOCK FALSE
PROPERTY ReceiverReturns
