SPECIFICATION LiveSpec
CONSTANTS
  Users <- MCUsers
  Amounts <- MCAmounts
  t1 = t1
  a1 = a1
  a2 = a2
  r1 = r1
  w1 = w1
  d1 = d1
  d2 = d2
  TopUpIds = {t1}
  Attempts = {a1, a2}
  References = {r1}
  Handlers = {d1}
  AutoApproves = FALSE
  None = None
  Workers = {w1}
  Desks = {d1, d2}
  Cron = Cron
  NoticeTicks = 1
  MaxNotices = 2
  MaxTicks = 2
  MaxFaults = 1
  NoErrand = NoErrand
INVARIANTS LiveTypeOK
PROPERTIES HeardIsNoticed WindowStands NoticeDecided
CHECK_DEADLOCK FALSE
