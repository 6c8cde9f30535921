CONSTANTS
  Nums <- MCNums
  Dens <- MCDens
  Half = 2
  Laps = 2
  MaxDebt = 5
  Requests <- MCRequests
  Unit = 2
  Accel = 1
  MaxSpeeds = {1, 3}
  IndexSpeeds = {0, 1}
  Targets <- MCTargets
  Jogs <- MCJogs
  CounterMod = 3
  LagHalf = 3
  Writes = 3
SPECIFICATION MotionSpec
INVARIANTS NoCountLost DebtKept
PROPERTIES NoDrift PulsesFollowDir MotorReaches
