SPECIFICATION Spec
CONSTANTS
  CheckpointEvery = 2
  RingCap = 1
  RotateLines = 2
  MaxRecords = 6
  Faults = {"cpLost"}
INVARIANT SelfVerifies
