SPECIFICATION PartsSpec
CONSTANTS
  p1 = p1
  p2 = p2
  w1 = w1
  t1 = t1
  t2 = t2
  f1 = f1
  f2 = f2
  f3 = f3
  s1 = s1
  s2 = s2
  h1 = h1
  h2 = h2
  u1 = u1
  u2 = u2
  i1 = i1
  i2 = i2
  a1 = a1
  host = host
  guest = guest
  None = None
  Users = {1, 2}
  Amounts = {1, 2}
  PaymentIds = {p1, p2}
  WithdrawalIds = {w1}
  TopUpIds = {t1, t2}
  Phones = {a1}
  TokenCalls = {h1, h2}
  MaxTokens = 3
  NoToken = NoToken
  NoCall = NoCall
  Subjects = {u1, u2}
  Issuers = {i1, i2}
  Contents <- MCContents
  Approved = {i1}
  Filings = {h1, h2}
  MaxLength = 3
  Genesis = Genesis
  NoRow = NoRow
  NoFiling = NoFiling
  Nothing = Nothing
  Kinds = {"SELFIE", "TRADE_LICENSE"}
  Required = {"SELFIE"}
  Licence = "TRADE_LICENSE"
  Files = {f1, f2}
  SubmissionIds = {s1, s2}
  Handlers = {h1, h2}
  Plans = {"MONTHLY", "LIFETIME"}
  Price <- MCPrice
  Days <- MCDays
  Buyers = {h1, h2}
  Deposits = {1050200}
  CauseChecked = FALSE
  MaxEntries = 4
  MaxPlans = 3
  MaxDays = 2
  MaxDeaths = 1
  NoCharge = NoCharge
  NoCustomer = NoCustomer
  NoEnd = NoEnd
  Times = {1, 2}
  Calls = {h1, h2}
  MaxInterviews = 1
  Resting = Resting
  NoTime = NoTime
  People = {host, guest}
  Host = host
  Requests = {h1, h2}
  Slots <- MCSlots
  Shift = 2
  MaxRepeats = 2
  MaxMeetings = 3
  MaxStamps = 4
  Free = Free
  Never = Never
CONSTRAINTS ChecksThenDecisions RoomsOrOneCall
SYMMETRY PartsSymmetry
INVARIANTS
  TypesOK LedgerRule StatementsTrue MoneyAccountedFor SessionHolds LedgerLinked
  FileKept ReportFollowsFile OnlyConsoleStrands PlansAccountedFor TimeAgreed
  RoomSharedByCrossing ShownIsThere
PROPERTIES NoFalseTheft
CHECK_DEADLOCK FALSE
