SPECIFICATION Spec
CONSTANTS
  Subjects = {s1}
  RoleOperator = {op}
  RoleApprover = {approver}
  RoleDPO = {dpo}
  TornFile = TornFile
  TTL = 1
  Hold = 1
  MaxTime = 2
  MaxKeys = 2
  MaxRequests = 2
  MaxBoots = 1
INVARIANTS
  ErasedIsUnlinkable
  ErasureIsDeliberate
  TombstonesPersist
PROPERTY
  ErasureCompletes
CHECK_DEADLOCK FALSE
