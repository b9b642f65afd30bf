SPECIFICATION Spec
CONSTANTS
  p1 = p1
  p2 = p2
  Paths = {p1, p2}
  NoPath = NoPath
  SaveAsMay = {}
  Capacity = 1
  Limits <- MCLimits
SYMMETRY MCSymmetry
INVARIANTS
  TypeOK
  UnmodifiedIsSaved
  CopiesAreFound
PROPERTIES
  UnansweredCopiesStay
  NothingDroppedUnasked
  TabsAsPromised
