SPECIFICATION Spec
CONSTANTS
  CheckpointEvery = 2
  RingCap = 1
  RotateLines = 2
  MaxRecords = 5
  Faults = {"write", "sync", "cpLost", "cpTorn"}
INVARIANTS
  EffectsDurable
  ReplaySucceeds
PROPERTY
  ImplementsLedger
