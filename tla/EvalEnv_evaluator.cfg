SPECIFICATION MCSpec
CONSTANTS
  x = x
  y = y
  z = z
  b1 = b1
  b2 = b2
  b3 = b3
  Names <- MCNames
  Blocks <- MCBlocks
  MaxObjects = 3
  MaxBindings = 2
  MaxOfKind = 3
  TableSize = 7
  TopDegree = 2
  Topics <- MCTopics
  MaxFanIn = 2
  None = none
  Unbound = unbound
  NoName = noname
SYMMETRY MCSymmetry
INVARIANTS
  UsersDieFirst
  RootsAreAlive
  TableIsSound
  NoGarbage
  NoCapture
  NothingDangles
  OperandsBelongTogether
CHECK_DEADLOCK FALSE
