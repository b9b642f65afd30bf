SPECIFICATION FairSpec
CONSTANTS
  mesh = mesh
  texture = texture
  Assets = {mesh, texture}
  Textures = {texture}
  Workers = {w1, w2}
  Size <- MCSize
  Budget = 2
  Broken = {2}
  MaxImports = 2
  MaxSources = 1
  Scenes <- MCScenes
  Waits = FALSE
PROPERTIES
  BackgroundSceneArrives
CHECK_DEADLOCK FALSE
