SPECIFICATION Spec
CONSTANTS
  Host = host1
  Players = {p1, p2}
  Entities = {e1}
  Methods = {shoot}
  AnyPeer = {}
  CallLocal = {shoot}
  Unreliable = {}
  Pausing = {}
  MaxClients = 2
  MaxLinks = 2
  MaxSessions = 2
  MaxGrants = 1
  MaxSends = 1
SYMMETRY Alike
VIEW WithoutEvents
INVARIANTS TypeOK NumbersAreUnique ViewsConverge NewsIsInOrder PassedCallsRun
CHECK_DEADLOCK FALSE
