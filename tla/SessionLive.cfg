SPECIFICATION FairSpec
CONSTANTS
  Host = host1
  Players = {p1, p2}
  Entities = {e1}
  Methods = {shoot}
  AnyPeer = {}
  CallLocal = {shoot}
  Unreliable = {}
  Pausing = {host1}
  MaxClients = 2
  MaxLinks = 2
  MaxSessions = 1
  MaxGrants = 1
  MaxSends = 0
ACTION_CONSTRAINT PausesAlone
VIEW LiveView
PROPERTIES JoinEnds EventuallyAgreed NothingLostUnread
CHECK_DEADLOCK FALSE
