SPECIFICATION FairTxSpec
CONSTANTS
  None = None
  p1 = p1
  p2 = p2
  w1 = w1
  t1 = t1
  c1 = c1
  c2 = c2
  Calls = {c1, c2}
  Users = {1, 2}
  Amounts = {1, 2}
  PaymentIds = {p1, p2}
  WithdrawalIds = {w1}
  TopUpIds = {t1}
  Requests <- EveryRequest
INVARIANT TxTypeOK
INVARIANT NoWaitCycle
INVARIANT NothingMovesUnderneath
INVARIANT AnswersTrue
PROPERTY Spec
PROPERTY RepeatOfPayOrTransfer
PROPERTY EveryCallAnswered
