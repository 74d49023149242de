SPECIFICATION Spec
CONSTANTS
  j1 = j1
  w1 = w1
  w2 = w2
  w3 = w3
  s1 = s1
  s2 = s2
  s3 = s3
  h1 = h1
  h2 = h2
  None = None
  Jobs = {j1}
  Workers = {w1, w2, w3}
  ShiftIds = {}
  Slots <- OneSlot
  Horizon = 0
  MaxRecords = 0
  Handlers = {h1}
  Veterans = {}
  Starting = {"NONE"}
SYMMETRY WorkersAlike
INVARIANTS
  ReplacedStaysFlagged
PROPERTIES
  PlacesHandedOver
  EndedStaysEnded
