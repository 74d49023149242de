SPECIFICATION PlansSpec
CONSTANTS
  b1 = b1
  Plans = {"MONTHLY", "LIFETIME"}
  Price <- MCPrice
  Days <- MCDays
  Buyers = {b1}
  Deposits = {50100}
  CauseChecked = TRUE
  MaxEntries = 3
  MaxPlans = 2
  MaxDays = 1
  MaxDeaths = 0
  NoCharge = NoCharge
  NoCustomer = NoCustomer
  NoEnd = NoEnd
INVARIANTS ChargeIsTaken
CHECK_DEADLOCK FALSE
