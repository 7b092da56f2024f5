SPECIFICATION MCSpec
CONSTANTS
  n1 = n1
  n2 = n2
  m = m
  d1 = d1
  d2 = d2
  Sides = {"session"}
  Names <- MCNames
  Documents <- MCDocuments
  Temp = temp
  Backup = backup
  Absent = absent
  Torn = torn
  MaxFaults = 5
  ProbeMayFail = TRUE
  MayCrash = TRUE
  Suggestions <- MCSuggestions
  TypedNames <- MCTypedNames
  Drafts <- MCDocuments
  Blank = blank
  NoFile = nofile
  NoName = noname
  MaxFiles = 3
  MaxCells = 4
  TextCapacity = 2
  DetailCapacity = 2
  Columns = 1
  Canonical <- MCShort
INVARIANT SavedDocumentReopens
