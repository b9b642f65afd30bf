SPECIFICATION Spec
CONSTANTS
  s1 = s1
  s2 = s2
  Slots = {s1, s2}
  NoSlot = NoSlot
  MaxSaves = 4
  Limits <- MCLimits
INVARIANTS
  ReadsARecentSave
  ClockFollowsScene
PROPERTIES
  SlotsChangeWhenAsked
