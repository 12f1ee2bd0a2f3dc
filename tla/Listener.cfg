SPECIFICATION FairSpec
CONSTANTS
  None = None
  Delimiter = 9
  Checksum <- CalculateChecksum
  Bodies <- SomeBodies
  BadBodies <- SomeBadBodies
  NoiseBytes = {0, 9}
  Timeout = 2
  MaxNoise = 1
  MaxChanges = 1
  MaxLosses = 1
  MaxSends = 1
  MaxSplits = 1
INVARIANTS
  TypeOK
  TakenWasSent
  InStep
PROPERTIES
  Resynchronises
  LearnsOfSilence
CHECK_DEADLOCK FALSE
