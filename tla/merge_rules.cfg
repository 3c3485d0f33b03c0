SPECIFICATION EditorSpec
CONSTANTS
  Id = {i1}
  Dir = {d1}
  Old = 2
  Last = 3
INVARIANTS
  RulesHold
  NothingLost
  FoldersMerge
