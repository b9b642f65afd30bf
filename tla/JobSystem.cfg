SPECIFICATION FairSpec
CONSTANTS
  Main = Main
  Workers = {w1, w2}
  outer = outer
  inner = inner
  own = own
  import = import
  Jobs = {import}
  Loops = {outer, inner, own}
  NoLoop = NoLoop
  Count <- MCCount
  MainLoops = {own}
  JobLoop <- ImportCallsOuter
  BodyLoop <- MCBodyLoop
INVARIANTS Inv NoJobIsOverlooked
PROPERTIES LoopsAsPromised LoopsReturn IdleIsSeen DestructorEnds JobsStart
CHECK_DEADLOCK FALSE
