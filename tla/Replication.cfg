SPECIFICATION Spec
CONSTANTS
  Host = Host
  c1 = c1
  c2 = c2
  body = body
  spot = spot
  nest = nest
  hut = hut
  bird = bird
  cart = cart
  Root = Root
  Clients <- MCClients
  Synced = {body}
  Spawners = {spot, nest}
  Instances = {hut, bird, cart}
  SpawnerOf <- MCSpawnerOf
  Inside <- MCInside
  MaxLate = 1
  MaxLag = 2
  MaxPolled = 2
  Budgets <- MCBudgets
SYMMETRY Alike
INVARIANTS TypeOK SpawnsAgree OnlyOldNumbersDivide LeavesNothingBehind
CHECK_DEADLOCK FALSE
