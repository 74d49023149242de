SPECIFICATION FairSpec
CONSTANTS
  worker = worker
  recruiter = recruiter
  a1 = a1
  d1 = d1
  d2 = d2
  People <- MCPeople
  Phones = {a1}
  Owner <- MCOwner
  Active = {recruiter}
  Drafts = {d1, d2}
  Author <- MCAuthor
  TypedOn <- MCTypedOn
  MaxMessages = 2
  Handlers = {h1, h2}
  Nobody = Nobody
  Elsewhere = Elsewhere
INVARIANTS
  TypeOK
  ShownIsStored
  TickedIsRead
PROPERTIES
  OnlySendingMovesBack PhonesCatchUp
