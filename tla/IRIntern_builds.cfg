SPECIFICATION Spec
CONSTANTS
  Names = {1, 2}
  NameLength <- MCNameLength
  IntMax = 2
  Workloads <- MCWorkloads
  MaxOperands = 2
  MaxChildren = 3
  MaxBytes = 110
  FirstCapacity = 2
  FirstBuckets = 2
  ElementSize <- MCElementSize
INVARIANTS
  PoolsAreExact
  NodesAreCanonical
PROPERTIES
  ErrorsPublishNothing
