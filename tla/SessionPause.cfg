SPECIFICATION Spec
CONSTANTS
  Host = host1
  Players = {p1}
  Entities = {e1}
  Methods = {shoot}
  AnyPeer = {}
  CallLocal = {shoot}
  Unreliable = {}
  Pausing = {host1}
  MaxClients = 1
  MaxLinks = 2
  MaxSessions = 1
  MaxGrants = 1
  MaxSends = 0
INVARIANT EventsGivenOnce
CHECK_DEADLOCK FALSE
