SPECIFICATION Spec
CONSTANTS
  Nodes = {n1, n2}
  Readers = {n1}
  TTL = 1
  MaxTime = 4
  LastWrite = 2
  MaxReads = 2
INVARIANTS
  MarkGuards
PROPERTIES
  NoRollback
  Reclaimed
