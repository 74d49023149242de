SPECIFICATION Spec
CONSTANTS
  Users <- MCUsers
  Amounts <- MCAmounts
  TopUpIds = {t1, t2}
  Attempts = {a1}
  References = {r1}
  Handlers = {h1, h2}
  AutoApproves = TRUE
  None = None
SYMMETRY MCSymmetry
INVARIANTS OnlyConfirmedMoney
PROPERTIES CreditsLedger DecidedStays
CHECK_DEADLOCK FALSE
