SPECIFICATION FairSpec
CONSTANTS
  mesh = mesh
  texture = texture
  Assets = {mesh, texture}
  Textures = {texture}
  Workers = {w1, w2}
  Size <- MCSize
  Budget = 2
  Broken = {2}
  MaxImports = 1
  MaxSources = 1
  Scenes = {}
  Waits = TRUE
PROPERTIES
  WaitForLoadsReturns
CHECK_DEADLOCK FALSE
