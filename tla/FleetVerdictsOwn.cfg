SPECIFICATION Spec
CONSTANTS
  Nodes = {n1, n2}
  Readers = {n1}
  TTL = 2
  MaxTime = 4
  LastWrite = 1
  MaxReads = 2
PROPERTY OwnVerdictKept
