SPECIFICATION Spec
CONSTANTS
  mesh = mesh
  texture = texture
  Assets = {mesh, texture}
  Textures = {texture}
  Workers = {w1, w2}
  Size <- MCSize
  Budget = 2
  Broken = {2}
  MaxImports = 3
  MaxSources = 2
  Scenes = {}
  Waits = TRUE
SYMMETRY Alike
INVARIANTS
  TypeOK
  NoLoadIsLost
  WorkersReadTheirSource
  ShowsTheLatest
  MaterialsFollow
CHECK_DEADLOCK FALSE
