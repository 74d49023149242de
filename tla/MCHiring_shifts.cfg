SPECIFICATION Spec
CONSTANTS
  j1 = j1
  w1 = w1
  w2 = w2
  w3 = w3
  s1 = s1
  s2 = s2
  s3 = s3
  h1 = h1
  h2 = h2
  None = None
  Jobs = {j1}
  Workers = {w1, w2}
  ShiftIds = {s1, s2}
  Slots <- OneSlot
  Horizon = 1
  MaxRecords = 1
  Handlers = {h1, h2}
  Veterans = {w1, w2}
  Starting = {"NONE", "ACCEPTED"}
SYMMETRY PairsAlike
CONSTRAINT OneRaceOrOneAtATime
INVARIANTS
  TypeOK
  ShiftHasApplication
  StartedIsAttended
PROPERTIES
  OnlyPlacesMoveShifts
