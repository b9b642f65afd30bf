SPECIFICATION FairSpec
CONSTANTS
  a = a
  b = b
  main = main
  part = part
  Sources = {a, b}
  Contents = {0, 1, 2}
  Absent = Absent
  None = None
  Parts = {main, part}
  Makes <- MCMakes
  Surprises = {}
  Budgets <- MCBudgets
INVARIANTS
  TypeOK
  ArtifactsFollow
  AssetsCanBeLoaded
  NothingLeftBehind
PROPERTIES
  ImportsSettle
CHECK_DEADLOCK FALSE
