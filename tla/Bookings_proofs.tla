-------------------------- MODULE Bookings_proofs ---------------------------
(***************************************************************************)
(* What people agree on with one another, proved of three components that  *)
(* share nothing but this file: plans and what was paid for them,          *)
(* interviews and the calendar, and meetings.                              *)
(***************************************************************************)
EXTENDS Subscriptions, Interviews, Meetings, SequenceTheorems, FiniteSetTheorems, TLAPS

-----------------------------------------------------------------------------
(***************************************************************************)
(* Plans, proved for any number of buyers, plans and charges: every plan   *)
(* names a charge of its own, and what was charged for nothing is a call   *)
(* in hand or a call that died.                                            *)
(*                                                                         *)
(* What the proof turns on: charges no plan names are counted, not only    *)
(* found; a plan that is over when a call looks is over for good.          *)
(***************************************************************************)

\* The shapes of everything but the answers, which decide nothing.
RowsOK ==
  /\ today \in 0..MaxDays /\ deaths \in 0..MaxDeaths
  /\ funds \in Nat
  /\ statement \in Seq(StatementRow) /\ Len(statement) <= MaxEntries
  /\ sold \in Seq(SoldRow) /\ Len(sold) <= MaxPlans
  /\ buying \in [Buyers -> Purchase \cup {NoCustomer}]

Answers == {"nothing", "bought", "insufficient", "entry refused"}
Answered == told \in [Buyers -> Answers]

\* Every plan names a charge of its own price, no two the same.
Named ==
  \A i \in DOMAIN sold :
    /\ sold[i].paymentId \in Charges
    /\ statement[sold[i].paymentId].amount = -sold[i].price
    /\ statement[sold[i].paymentId].plan = sold[i].plan
    /\ \A j \in DOMAIN sold : sold[i].paymentId = sold[j].paymentId => i = j

\* The plans that were there when the call for a plan looked are over for good.
Overlooked == \A j \in DOMAIN sold : sold[j].seen < j /\ \A i \in 1..sold[j].seen : i \notin Current(sold)

\* So are those a call in hand has seen; a charge it made is its own, and unnamed.
HandTrue ==
  \A b \in Buyers :
    buying[b] # NoCustomer /\ buying[b].op = "buy" =>
      /\ buying[b].seen <= Len(sold) /\ \A i \in 1..buying[b].seen : i \notin Current(sold)
      /\ buying[b].charge # NoCharge =>
           /\ buying[b].charge \in Charges \ PaidBy
           /\ statement[buying[b].charge].amount = -Price[buying[b].plan]
           /\ statement[buying[b].charge].plan = buying[b].plan
           /\ \A c \in InHand : buying[c].charge = buying[b].charge => c = b

Counted == Cardinality(Charges \ PaidBy) = Cardinality(InHand) + deaths

PlansInv == RowsOK /\ Named /\ Overlooked /\ HandTrue /\ Counted

-----------------------------------------------------------------------------
(* The rows.                                                                *)

LEMMA RowsNumbered ==
  ASSUME RowsOK
  PROVE  /\ Len(sold) \in Nat /\ DOMAIN sold = 1..Len(sold) /\ Len(sold) <= MaxPlans
         /\ \A i \in DOMAIN sold : sold[i] \in SoldRow
         /\ Len(statement) \in Nat /\ DOMAIN statement = 1..Len(statement)
         /\ Len(statement) <= MaxEntries
         /\ \A e \in DOMAIN statement : statement[e] \in StatementRow
<1>1. /\ Len(sold) \in Nat /\ DOMAIN sold = 1..Len(sold) /\ Len(sold) <= MaxPlans
      /\ Len(statement) \in Nat /\ DOMAIN statement = 1..Len(statement)
      /\ Len(statement) <= MaxEntries
  BY LenProperties DEF RowsOK
<1> QED
  BY <1>1, ElementOfSeq DEF RowsOK

LEMMA PurchaseFields ==
  ASSUME RowsOK, NEW b \in Buyers, buying[b] # NoCustomer
  PROVE  /\ buying[b] \in Purchase
         /\ buying[b].op = "buy" =>
              /\ buying[b] \in [op : {"buy"}, plan : Plans, seen : 0..MaxPlans,
                                charge : 1..MaxEntries \cup {NoCharge}]
              /\ buying[b].plan \in Plans /\ buying[b].seen \in Nat /\ buying[b].seen \in 0..MaxPlans
              /\ buying[b].charge \in 1..MaxEntries \cup {NoCharge}
         /\ buying[b].op = "cancel" => buying[b].row \in 1..MaxPlans
<1>1. buying[b] \in Purchase
  BY DEF RowsOK
<1> QED
  BY <1>1, PlanBounds DEF Purchase

\* The sets counted are finite.
LEMMA CountsFinite ==
  ASSUME RowsOK
  PROVE  /\ IsFiniteSet(Charges) /\ IsFiniteSet(Charges \ PaidBy) /\ IsFiniteSet(InHand)
         /\ Cardinality(Charges \ PaidBy) \in Nat /\ Cardinality(InHand) \in Nat /\ deaths \in Nat
<1>1. IsFiniteSet(DOMAIN statement)
  <2>1. IsFiniteSet(1..Len(statement))
    BY RowsNumbered, FS_Interval
  <2> QED
    BY <2>1, RowsNumbered
<1>2. IsFiniteSet(Charges) /\ IsFiniteSet(Charges \ PaidBy)
  BY <1>1, FS_Subset DEF Charges
<1>3. IsFiniteSet(InHand)
  BY BuyersAssumption, FS_Subset DEF InHand
<1> QED
  BY <1>2, <1>3, FS_CardinalityType, PlanBounds DEF RowsOK

\* A plan that is over stays over.
LEMMA StaysOver ==
  ASSUME RowsOK, today' \in Nat, today <= today', DOMAIN sold \subseteq DOMAIN sold',
         \A i \in DOMAIN sold : sold'[i].ends = sold[i].ends /\ sold'[i].status \in {sold[i].status, "CANCELLED"}
  PROVE  \A i \in 1..Len(sold) : i \notin Current(sold) => i \notin Current(sold)'
<1> SUFFICES ASSUME NEW i \in 1..Len(sold), i \notin Current(sold), i \in Current(sold)'
             PROVE  FALSE
  OBVIOUS
<1>1. i \in DOMAIN sold /\ sold[i] \in SoldRow
  BY RowsNumbered
<1>3. sold'[i].status = "ACTIVE" /\ (sold'[i].ends = NoEnd \/ sold'[i].ends > today')
  BY DEF Current, Runs
<1>4. sold[i].status = "ACTIVE" /\ sold[i].ends = sold'[i].ends
  BY <1>1, <1>3
<1>5. sold[i].ends = NoEnd \/ (sold[i].ends \in Nat /\ sold[i].ends > today')
  BY <1>1, <1>3, <1>4 DEF SoldRow
<1>6. today \in Nat
  BY PlanBounds DEF RowsOK
<1> QED
  BY <1>1, <1>4, <1>5, <1>6 DEF Current, Runs

\* A line added to the statement names no plan yet.
LEMMA LineAdded ==
  ASSUME RowsOK, Named, NEW row \in StatementRow, Len(statement) < MaxEntries,
         statement' = Append(statement, row), sold' = sold
  PROVE  LET new == Len(statement) + 1 IN
         /\ statement' \in Seq(StatementRow) /\ Len(statement') <= MaxEntries
         /\ new \in 1..MaxEntries /\ new \notin DOMAIN statement /\ statement'[new] = row
         /\ \A e \in DOMAIN statement : statement'[e] = statement[e]
         /\ Charges \subseteq DOMAIN statement /\ PaidBy \subseteq Charges
         /\ PaidBy' = PaidBy /\ Named'
         /\ Charges' = IF row.type = "PAYMENT_SENT" THEN Charges \cup {new} ELSE Charges
<1> DEFINE new == Len(statement) + 1
<1>1. Len(statement) \in Nat /\ DOMAIN statement = 1..Len(statement) /\ MaxEntries \in Nat
  BY RowsNumbered, PlanBounds
<1>2. /\ statement' \in Seq(StatementRow) /\ Len(statement') = new
      /\ \A e \in 1..Len(statement) : statement'[e] = statement[e]
      /\ statement'[new] = row
  BY <1>1, AppendProperties DEF RowsOK
<1>3. DOMAIN statement' = 1..new
  BY <1>2, LenProperties
<1>4. new \in 1..MaxEntries /\ new \notin DOMAIN statement /\ DOMAIN statement' = DOMAIN statement \cup {new}
  BY <1>1, <1>3
<1> HIDE DEF new
<1>5. Charges \subseteq DOMAIN statement /\ PaidBy \subseteq Charges /\ PaidBy' = PaidBy
  BY DEF Charges, PaidBy, Named
<1>6. Charges' = IF row.type = "PAYMENT_SENT" THEN Charges \cup {new} ELSE Charges
  BY <1>1, <1>2, <1>4 DEF Charges
<1>7. Named'
  BY <1>1, <1>2, <1>5, <1>6 DEF Named
<1> QED
  BY <1>1, <1>2, <1>4, <1>5, <1>6, <1>7 DEF new

\* The plans, when no step touches them.
LEMMA RowsStill ==
  ASSUME RowsOK, Overlooked, sold' = sold, today' \in Nat, today <= today'
  PROVE  Overlooked' /\ \A i \in 1..Len(sold) : i \notin Current(sold) => i \notin Current(sold)'
<1>1. \A i \in 1..Len(sold) : i \notin Current(sold) => i \notin Current(sold)'
  BY StaysOver
<1>2. \A j \in DOMAIN sold : sold[j].seen \in 0..Len(sold)
  BY RowsNumbered DEF Overlooked, SoldRow
<1>3. ASSUME NEW j \in DOMAIN sold', NEW i \in 1..sold'[j].seen
      PROVE  sold'[j].seen < j /\ i \notin Current(sold)'
  BY <1>1, <1>2, RowsNumbered DEF Overlooked
<1>4. \A j \in DOMAIN sold' : sold'[j].seen < j
  BY DEF Overlooked
<1> QED
  BY <1>1, <1>3, <1>4 DEF Overlooked

\* No line and no plan written: what a call in hand holds stays true of it.
LEMMA CallsOnly ==
  ASSUME PlansInv, UNCHANGED <<today, funds, statement, sold>>, NEW b \in Buyers,
         buying' \in [Buyers -> Purchase \cup {NoCustomer}], deaths' \in 0..MaxDeaths,
         \A c \in Buyers : c # b => buying'[c] = buying[c],
         ~Buying(b, TRUE)',
         buying'[b] # NoCustomer /\ buying'[b].op = "buy" =>
           buying'[b].seen \in 0..Len(sold) /\ \A i \in 1..buying'[b].seen : i \notin Current(sold)'
  PROVE  /\ RowsOK' /\ Named' /\ Overlooked' /\ HandTrue'
         /\ Charges' = Charges /\ PaidBy' = PaidBy /\ InHand' = InHand \ {b}
<1>1. RowsOK' /\ Named' /\ Charges' = Charges /\ PaidBy' = PaidBy
  BY DEF PlansInv, RowsOK, Named, Charges, PaidBy
<1>2. InHand' = InHand \ {b}
  BY DEF InHand, Buying
<1>3. Overlooked' /\ \A i \in 1..Len(sold) : i \notin Current(sold) => i \notin Current(sold)'
  BY RowsStill, PlanBounds DEF PlansInv, RowsOK
<1>4. ASSUME NEW c \in Buyers, buying'[c] # NoCustomer, buying'[c].op = "buy"
      PROVE  /\ buying'[c].seen <= Len(sold') /\ \A i \in 1..buying'[c].seen : i \notin Current(sold)'
             /\ buying'[c].charge # NoCharge =>
                  /\ buying'[c].charge \in Charges' \ PaidBy'
                  /\ statement'[buying'[c].charge].amount = -Price[buying'[c].plan]
                  /\ statement'[buying'[c].charge].plan = buying'[c].plan
                  /\ \A d \in InHand' : buying'[d].charge = buying'[c].charge => d = c
  <2>1. CASE c = b
    BY <1>4, <2>1, RowsNumbered DEF Buying, PlansInv
  <2>2. CASE c # b
    <3>1. buying[c].seen \in 0..Len(sold) /\ \A i \in 1..buying[c].seen : i \notin Current(sold)
      BY <1>4, <2>2, PurchaseFields, RowsNumbered DEF PlansInv, HandTrue
    <3>2. \A i \in 1..buying[c].seen : i \notin Current(sold)'
      BY <1>3, <3>1, RowsNumbered DEF PlansInv
    <3>3. buying[c].charge # NoCharge =>
            /\ buying[c].charge \in Charges \ PaidBy
            /\ statement[buying[c].charge].amount = -Price[buying[c].plan]
            /\ statement[buying[c].charge].plan = buying[c].plan
            /\ \A d \in InHand : buying[d].charge = buying[c].charge => d = c
      BY <1>4, <2>2 DEF PlansInv, HandTrue
    <3>4. \A d \in InHand' : d \in InHand /\ buying'[d] = buying[d]
      BY <1>2 DEF InHand
    <3> QED
      BY <1>1, <2>2, <3>1, <3>2, <3>3, <3>4
  <2> QED
    BY <2>1, <2>2
<1>5. HandTrue'
  BY <1>4 DEF HandTrue
<1> QED
  BY <1>1, <1>2, <1>3, <1>5

-----------------------------------------------------------------------------
(* The steps.                                                              *)

LEMMA AskBuyKeeps ==
  ASSUME PlansInv, NEW b \in Buyers, NEW plan \in Plans, AskBuy(b, plan)
  PROVE  PlansInv'
<1> DEFINE ask == [op |-> "buy", plan |-> plan, seen |-> Len(sold), charge |-> NoCharge]
<1>1. Len(sold) \in 0..MaxPlans /\ DOMAIN sold = 1..Len(sold)
  BY RowsNumbered, PlanBounds DEF PlansInv
<1>2. ask \in Purchase
  BY <1>1 DEF Purchase
<1>3. ask.op = "buy" /\ ask.seen = Len(sold) /\ ask.charge = NoCharge
  OBVIOUS
<1>4. /\ buying[b] = NoCustomer /\ Current(sold) = {} /\ buying' = [buying EXCEPT ![b] = ask]
      /\ UNCHANGED <<today, funds, statement, sold>> /\ deaths' = deaths
  BY DEF AskBuy
<1> HIDE DEF ask
<1>5. /\ buying' \in [Buyers -> Purchase \cup {NoCustomer}] /\ buying'[b] = ask
      /\ \A c \in Buyers : c # b => buying'[c] = buying[c]
  BY <1>2, <1>4 DEF PlansInv, RowsOK
<1>6. ~Buying(b, TRUE)' /\ b \notin InHand
  BY <1>3, <1>4, <1>5 DEF Buying, InHand
<1>7. buying'[b].seen \in 0..Len(sold) /\ \A i \in 1..buying'[b].seen : i \notin Current(sold)'
  <2>1. Current(sold)' = {}
    BY <1>4 DEF Current, Runs
  <2> QED
    BY <1>1, <1>3, <1>5, <2>1
<1>8. /\ RowsOK' /\ Named' /\ Overlooked' /\ HandTrue'
      /\ Charges' = Charges /\ PaidBy' = PaidBy /\ InHand' = InHand \ {b}
  BY <1>1, <1>3, <1>4, <1>5, <1>6, <1>7, CallsOnly DEF PlansInv, RowsOK
<1>9. InHand' = InHand
  BY <1>6, <1>8
<1> QED
  BY <1>4, <1>8, <1>9 DEF PlansInv, Counted

LEMMA AskCancelPlanKeeps ==
  ASSUME PlansInv, NEW b \in Buyers, NEW i \in DOMAIN sold, AskCancelPlan(b, i)
  PROVE  PlansInv'
<1> DEFINE ask == [op |-> "cancel", row |-> i]
<1>1. i \in 1..MaxPlans
  BY RowsNumbered, PlanBounds DEF PlansInv
<1>2. ask \in Purchase
  BY <1>1 DEF Purchase
<1>3. ask.op = "cancel"
  OBVIOUS
<1>4. /\ buying[b] = NoCustomer /\ buying' = [buying EXCEPT ![b] = ask]
      /\ UNCHANGED <<today, funds, statement, sold>> /\ deaths' = deaths
  BY DEF AskCancelPlan
<1> HIDE DEF ask
<1>5. /\ buying' \in [Buyers -> Purchase \cup {NoCustomer}] /\ buying'[b] = ask
      /\ \A c \in Buyers : c # b => buying'[c] = buying[c]
  BY <1>2, <1>4 DEF PlansInv, RowsOK
<1>6. ~Buying(b, TRUE)' /\ b \notin InHand
  BY <1>3, <1>4, <1>5 DEF Buying, InHand
<1>8. /\ RowsOK' /\ Named' /\ Overlooked' /\ HandTrue'
      /\ Charges' = Charges /\ PaidBy' = PaidBy /\ InHand' = InHand \ {b}
  BY <1>1, <1>3, <1>4, <1>5, <1>6, CallsOnly DEF PlansInv, RowsOK
<1>9. InHand' = InHand
  BY <1>6, <1>8
<1> QED
  BY <1>4, <1>8, <1>9 DEF PlansInv, Counted

\* A call that goes back with nothing charged.
LEMMA GiveUpKeeps ==
  ASSUME PlansInv, NEW b \in Buyers, RefuseCharge(b) \/ GiveUp(b)
  PROVE  PlansInv'
<1>1. /\ Buying(b, FALSE) /\ buying' = [buying EXCEPT ![b] = NoCustomer]
      /\ UNCHANGED <<today, funds, statement, sold>> /\ deaths' = deaths
  BY DEF GiveUp, RefuseCharge
<1>2. /\ buying' \in [Buyers -> Purchase \cup {NoCustomer}] /\ buying'[b] = NoCustomer
      /\ \A c \in Buyers : c # b => buying'[c] = buying[c]
  BY <1>1 DEF PlansInv, RowsOK
<1>3. ~Buying(b, TRUE)' /\ b \notin InHand
  BY <1>1, <1>2 DEF Buying, InHand
<1>4. /\ RowsOK' /\ Named' /\ Overlooked' /\ HandTrue'
      /\ Charges' = Charges /\ PaidBy' = PaidBy /\ InHand' = InHand \ {b}
  BY <1>1, <1>2, <1>3, CallsOnly DEF PlansInv, RowsOK
<1>5. InHand' = InHand
  BY <1>3, <1>4
<1> QED
  BY <1>1, <1>4, <1>5 DEF PlansInv, Counted

LEMMA DieChargedKeeps ==
  ASSUME PlansInv, NEW b \in Buyers, DieCharged(b)
  PROVE  PlansInv'
<1>1. /\ Buying(b, TRUE) /\ buying' = [buying EXCEPT ![b] = NoCustomer]
      /\ UNCHANGED <<today, funds, statement, sold>> /\ deaths' = deaths + 1 /\ deaths < MaxDeaths
  BY DEF DieCharged
<1>2. /\ buying' \in [Buyers -> Purchase \cup {NoCustomer}] /\ buying'[b] = NoCustomer
      /\ \A c \in Buyers : c # b => buying'[c] = buying[c]
  BY <1>1 DEF PlansInv, RowsOK
<1>3. ~Buying(b, TRUE)' /\ b \in InHand
  BY <1>1, <1>2 DEF Buying, InHand
<1>4. deaths' \in 0..MaxDeaths
  BY <1>1, PlanBounds DEF PlansInv, RowsOK
<1>5. /\ RowsOK' /\ Named' /\ Overlooked' /\ HandTrue'
      /\ Charges' = Charges /\ PaidBy' = PaidBy /\ InHand' = InHand \ {b}
  BY <1>1, <1>2, <1>3, <1>4, CallsOnly
<1>6. Cardinality(InHand') = Cardinality(InHand) - 1
  BY <1>3, <1>5, CountsFinite, FS_RemoveElement DEF PlansInv
<1>7. Counted'
  BY <1>1, <1>5, <1>6, CountsFinite DEF PlansInv, Counted
<1> QED
  BY <1>5, <1>7 DEF PlansInv

LEMMA DayPassesKeeps ==
  ASSUME PlansInv, DayPasses
  PROVE  PlansInv'
<1>1. today' = today + 1 /\ UNCHANGED <<funds, statement, sold, buying, deaths>> /\ today' \in 0..MaxDays /\ today \in Nat
  BY PlanBounds DEF PlansInv, RowsOK, DayPasses
<1>2. RowsOK' /\ Named' /\ Counted'
  BY <1>1 DEF PlansInv, RowsOK, Named, Charges, PaidBy, Counted, InHand, Buying
<1>3. Overlooked' /\ \A i \in 1..Len(sold) : i \notin Current(sold) => i \notin Current(sold)'
  BY <1>1, RowsStill DEF PlansInv
<1>4. HandTrue'
  <2>1. \A c \in Buyers : buying[c] # NoCustomer /\ buying[c].op = "buy" => buying[c].seen \in 0..Len(sold)
    BY PurchaseFields, RowsNumbered DEF PlansInv, HandTrue
  <2> QED
    BY <1>1, <1>3, <2>1 DEF PlansInv, HandTrue, InHand, Buying, Charges, PaidBy
<1> QED
  BY <1>2, <1>3, <1>4 DEF PlansInv

LEMMA DepositKeeps ==
  ASSUME PlansInv, NEW amount \in Deposits, Deposit(amount)
  PROVE  PlansInv'
<1> DEFINE row == [type |-> "TOP_UP", amount |-> amount, causes |-> {"topUpId"}, plan |-> NoCharge]
<1>1. /\ Len(statement) < MaxEntries /\ statement' = Append(statement, row)
      /\ funds' = funds + amount /\ UNCHANGED <<today, sold, buying, deaths>>
  BY DEF Deposit
<1>2. row \in StatementRow /\ row.type = "TOP_UP" /\ amount \in Nat
  BY PlanBounds DEF StatementRow
<1> HIDE DEF row
<1>3. /\ statement' \in Seq(StatementRow) /\ Len(statement') <= MaxEntries
      /\ \A e \in DOMAIN statement : statement'[e] = statement[e]
      /\ Charges \subseteq DOMAIN statement
      /\ PaidBy' = PaidBy /\ Named' /\ Charges' = Charges
  BY <1>1, <1>2, LineAdded DEF PlansInv
<1>4. RowsOK'
  BY <1>1, <1>2, <1>3 DEF PlansInv, RowsOK
<1>5. Overlooked' /\ \A i \in 1..Len(sold) : i \notin Current(sold) => i \notin Current(sold)'
  BY <1>1, RowsStill, PlanBounds DEF PlansInv, RowsOK
<1>6. InHand' = InHand /\ Counted'
  BY <1>1, <1>3 DEF PlansInv, Counted, InHand, Buying
<1>7. HandTrue'
  <2>1. \A c \in Buyers : buying[c] # NoCustomer /\ buying[c].op = "buy" => buying[c].seen \in 0..Len(sold)
    BY PurchaseFields, RowsNumbered DEF PlansInv, HandTrue
  <2> QED
    BY <1>1, <1>3, <1>5, <1>6, <2>1 DEF PlansInv, HandTrue
<1> QED
  BY <1>3, <1>4, <1>5, <1>6, <1>7 DEF PlansInv

LEMMA ChargeToPlatformKeeps ==
  ASSUME PlansInv, NEW b \in Buyers, ChargeToPlatform(b)
  PROVE  PlansInv'
<1>1. PICK plan, new, row :
        /\ plan = buying[b].plan /\ new = Len(statement) + 1
        /\ row = Charge(plan)
  OBVIOUS
<1>2. /\ Buying(b, FALSE) /\ Len(statement) < MaxEntries /\ statement' = Append(statement, row)
      /\ funds >= Price[plan] /\ funds' = funds - Price[plan]
      /\ buying' = [buying EXCEPT ![b].charge = new] /\ UNCHANGED <<today, sold, deaths>>
  BY <1>1 DEF ChargeToPlatform
<1>3. /\ buying[b] # NoCustomer /\ buying[b].op = "buy" /\ buying[b].charge = NoCharge
      /\ plan \in Plans /\ Price[plan] \in Nat /\ buying[b].seen \in Nat
      /\ buying[b] \in [op : {"buy"}, plan : Plans, seen : 0..MaxPlans,
                        charge : 1..MaxEntries \cup {NoCharge}]
  BY <1>1, <1>2, PurchaseFields, PriceAssumption DEF Buying, PlansInv
<1>4. row \in StatementRow /\ row.type = "PAYMENT_SENT" /\ row.amount = -Price[plan] /\ row.plan = plan
  BY <1>1, <1>3 DEF StatementRow, Charge
<1>5. /\ statement' \in Seq(StatementRow) /\ Len(statement') <= MaxEntries
      /\ new \in 1..MaxEntries /\ new \notin DOMAIN statement /\ statement'[new] = row
      /\ \A e \in DOMAIN statement : statement'[e] = statement[e]
      /\ Charges \subseteq DOMAIN statement /\ PaidBy \subseteq Charges
      /\ PaidBy' = PaidBy /\ Named' /\ Charges' = Charges \cup {new}
  BY <1>1, <1>2, <1>4, LineAdded DEF PlansInv
<1>6. /\ buying'[b] \in Purchase /\ buying'[b] # NoCustomer /\ buying'[b].op = "buy"
      /\ buying'[b].plan = plan /\ buying'[b].seen = buying[b].seen /\ buying'[b].charge = new
      /\ new # NoCharge
      /\ buying' \in [Buyers -> Purchase \cup {NoCustomer}]
      /\ \A c \in Buyers : c # b => buying'[c] = buying[c]
  <2> DEFINE p == [buying[b] EXCEPT !.charge = new]
  <2>1. /\ p \in Purchase /\ p.op = "buy" /\ p.plan = plan /\ p.seen = buying[b].seen /\ p.charge = new
    BY <1>1, <1>3, <1>5 DEF Purchase
  <2>2. buying' = [buying EXCEPT ![b] = p]
    BY <1>2
  <2> HIDE DEF p
  <2> QED
    BY <1>5, <2>1, <2>2, BuyersAssumption DEF PlansInv, RowsOK
<1>7. RowsOK'
  BY <1>2, <1>3, <1>5, <1>6 DEF PlansInv, RowsOK
<1>8. Overlooked' /\ \A i \in 1..Len(sold) : i \notin Current(sold) => i \notin Current(sold)'
  BY <1>2, RowsStill, PlanBounds DEF PlansInv, RowsOK
<1>9. InHand' = InHand \cup {b} /\ b \notin InHand
  BY <1>2, <1>3, <1>6 DEF InHand, Buying
<1>10. Counted'
  <2>1. Charges' \ PaidBy' = (Charges \ PaidBy) \cup {new} /\ new \notin Charges \ PaidBy
    BY <1>5
  <2>2. Cardinality(Charges' \ PaidBy') = Cardinality(Charges \ PaidBy) + 1
    BY <2>1, CountsFinite, FS_AddElement DEF PlansInv
  <2>3. Cardinality(InHand') = Cardinality(InHand) + 1
    BY <1>9, CountsFinite, FS_AddElement DEF PlansInv
  <2> QED
    BY <1>2, <2>2, <2>3, CountsFinite DEF PlansInv, Counted
<1>11. HandTrue'
  <2> SUFFICES ASSUME NEW c \in Buyers, buying'[c] # NoCustomer, buying'[c].op = "buy"
               PROVE  /\ buying'[c].seen <= Len(sold') /\ \A i \in 1..buying'[c].seen : i \notin Current(sold)'
                      /\ buying'[c].charge # NoCharge =>
                           /\ buying'[c].charge \in Charges' \ PaidBy'
                           /\ statement'[buying'[c].charge].amount = -Price[buying'[c].plan]
                           /\ statement'[buying'[c].charge].plan = buying'[c].plan
                           /\ \A d \in InHand' : buying'[d].charge = buying'[c].charge => d = c
    BY DEF HandTrue
  <2>1. \A d \in InHand : d \in Buyers /\ d # b /\ buying'[d] = buying[d] /\ buying[d].charge \in Charges
    BY <1>6, <1>9 DEF InHand, Buying, PlansInv, HandTrue
  <2>2. CASE c = b
    <3>1. buying[b].seen <= Len(sold) /\ \A i \in 1..buying[b].seen : i \notin Current(sold)
      BY <1>3 DEF PlansInv, HandTrue
    <3>2. \A i \in 1..buying[b].seen : i \notin Current(sold)'
      BY <1>3, <1>8, <3>1, RowsNumbered DEF PlansInv
    <3>3. statement'[buying'[c].charge].amount = -Price[buying'[c].plan] /\ statement'[buying'[c].charge].plan = buying'[c].plan
      BY <1>4, <1>5, <1>6, <2>2
    <3>4. buying'[c].charge \in Charges' \ PaidBy'
      BY <1>5, <1>6, <2>2
    <3>5. \A d \in InHand' : buying'[d].charge = buying'[c].charge => d = c
      BY <1>5, <1>6, <1>9, <2>1, <2>2
    <3>6. buying'[c].seen <= Len(sold') /\ \A i \in 1..buying'[c].seen : i \notin Current(sold)'
      BY <1>2, <1>6, <2>2, <3>1, <3>2
    <3> QED
      BY <3>3, <3>4, <3>5, <3>6
  <2>3. CASE c # b
    <3>1. /\ buying[c].seen <= Len(sold) /\ \A i \in 1..buying[c].seen : i \notin Current(sold)
          /\ buying'[c] = buying[c] /\ buying[c].seen \in Nat
      BY <1>6, <2>3, PurchaseFields DEF PlansInv, HandTrue
    <3>2. \A i \in 1..buying[c].seen : i \notin Current(sold)'
      BY <1>8, <3>1, RowsNumbered DEF PlansInv
    <3>3. buying[c].charge # NoCharge =>
            /\ buying[c].charge \in Charges \ PaidBy
            /\ statement[buying[c].charge].amount = -Price[buying[c].plan]
            /\ statement[buying[c].charge].plan = buying[c].plan
            /\ \A d \in InHand : buying[d].charge = buying[c].charge => d = c
      BY <3>1 DEF PlansInv, HandTrue
    <3> QED
      BY <1>2, <1>5, <1>6, <1>9, <2>1, <3>1, <3>2, <3>3
  <2> QED
    BY <2>2, <2>3
<1> QED
  BY <1>5, <1>7, <1>8, <1>10, <1>11 DEF PlansInv

\* A plan is written with the charge of its call.
LEMMA CreateRowKeeps ==
  ASSUME PlansInv, NEW b \in Buyers, CreateRow(b)
  PROVE  PlansInv'
<1>1. PICK plan, paid, new, row :
        /\ plan = buying[b].plan /\ paid = buying[b].charge /\ new = Len(sold) + 1
        /\ row = [plan |-> plan, price |-> Price[plan], status |-> "ACTIVE",
                  ends |-> IF Days[plan] = NoEnd THEN NoEnd ELSE today + Days[plan],
                  paymentId |-> paid, seen |-> buying[b].seen]
  OBVIOUS
<1>2. /\ Buying(b, TRUE) /\ Len(sold) < MaxPlans /\ sold' = Append(sold, row)
      /\ buying' = [buying EXCEPT ![b] = NoCustomer] /\ UNCHANGED <<today, funds, statement, deaths>>
  BY <1>1 DEF CreateRow, Write
<1>3. /\ buying[b] # NoCustomer /\ buying[b].op = "buy" /\ paid # NoCharge
      /\ plan \in Plans /\ Price[plan] \in Nat /\ buying[b].seen \in 0..MaxPlans
      /\ paid \in 1..MaxEntries
  BY <1>1, <1>2, PurchaseFields, PriceAssumption DEF Buying, PlansInv
<1>4. /\ buying[b].seen <= Len(sold) /\ \A i \in 1..buying[b].seen : i \notin Current(sold)
      /\ paid \in Charges \ PaidBy /\ statement[paid].amount = -Price[plan]
      /\ statement[paid].plan = plan
      /\ \A c \in InHand : buying[c].charge = paid => c = b
  BY <1>1, <1>3 DEF PlansInv, HandTrue
<1>5. /\ row \in SoldRow /\ row.price = Price[plan] /\ row.plan = plan /\ row.paymentId = paid
      /\ row.seen = buying[b].seen
  <2>1. today \in Nat /\ (Days[plan] = NoEnd \/ Days[plan] \in Nat)
    BY <1>3, DaysAssumption, PlanBounds DEF PlansInv, RowsOK
  <2>2. (IF Days[plan] = NoEnd THEN NoEnd ELSE today + Days[plan]) \in Nat \cup {NoEnd}
    BY <2>1
  <2> QED
    BY <1>1, <1>3, <2>2 DEF SoldRow
<1>6. /\ Len(sold) \in Nat /\ DOMAIN sold = 1..Len(sold) /\ MaxPlans \in Nat
      /\ sold \in Seq(SoldRow)
  BY RowsNumbered, PlanBounds DEF PlansInv, RowsOK
<1>7. /\ sold' \in Seq(SoldRow) /\ Len(sold') = new /\ sold'[new] = row
      /\ \A i \in 1..Len(sold) : sold'[i] = sold[i]
  BY <1>1, <1>2, <1>5, <1>6, AppendProperties
<1>8. DOMAIN sold' = DOMAIN sold \cup {new} /\ new \notin DOMAIN sold /\ Len(sold') <= MaxPlans /\ new \in Nat
  <2>1. DOMAIN sold' = 1..new
    BY <1>7, LenProperties
  <2> QED
    BY <1>1, <1>2, <1>6, <1>7, <2>1
<1>9. /\ buying' \in [Buyers -> Purchase \cup {NoCustomer}] /\ buying'[b] = NoCustomer
      /\ \A c \in Buyers : c # b => buying'[c] = buying[c]
  BY <1>2 DEF PlansInv, RowsOK
<1>10. RowsOK'
  BY <1>2, <1>7, <1>8, <1>9 DEF PlansInv, RowsOK
<1>11. Charges' = Charges /\ PaidBy' = PaidBy \cup {paid}
  <2>1. Charges' = Charges
    BY <1>2 DEF Charges
  <2> QED
    BY <1>5, <1>6, <1>7, <1>8, <2>1 DEF PaidBy
<1>12. InHand' = InHand \ {b} /\ b \in InHand
  BY <1>2, <1>9 DEF InHand, Buying
<1>13. Named'
  <2>1. \A i \in DOMAIN sold : sold'[i] = sold[i] /\ sold[i].paymentId # paid
    BY <1>4, <1>6, <1>7 DEF PaidBy
  <2> QED
    BY <1>2, <1>4, <1>5, <1>7, <1>8, <1>11, <2>1 DEF PlansInv, Named
<1>14. \A i \in 1..Len(sold) : i \notin Current(sold) => i \notin Current(sold)'
  BY <1>2, <1>6, <1>7, <1>8, StaysOver, PlanBounds DEF PlansInv, RowsOK
<1>15. Overlooked'
  <2>1. ASSUME NEW j \in DOMAIN sold'
        PROVE  sold'[j].seen < j /\ \A i \in 1..sold'[j].seen : i \notin Current(sold)'
    <3>1. CASE j = new
      BY <1>1, <1>3, <1>4, <1>5, <1>6, <1>7, <1>14, <3>1
    <3>2. CASE j \in DOMAIN sold
      <4>1. /\ sold'[j] = sold[j] /\ sold[j].seen < j /\ sold[j].seen \in Nat /\ j <= Len(sold) /\ j \in Nat
            /\ \A i \in 1..sold[j].seen : i \notin Current(sold)
        BY <1>6, <1>7, <3>2, RowsNumbered DEF PlansInv, Overlooked, SoldRow
      <4> QED
        BY <1>6, <1>14, <4>1
    <3> QED
      BY <1>8, <3>1, <3>2
  <2> QED
    BY <2>1 DEF Overlooked
<1>16. Counted'
  <2>1. Charges' \ PaidBy' = (Charges \ PaidBy) \ {paid}
    BY <1>11
  <2>2. Cardinality(Charges' \ PaidBy') = Cardinality(Charges \ PaidBy) - 1
    BY <1>4, <2>1, CountsFinite, FS_RemoveElement DEF PlansInv
  <2>3. Cardinality(InHand') = Cardinality(InHand) - 1
    BY <1>12, CountsFinite, FS_RemoveElement DEF PlansInv
  <2> QED
    BY <1>2, <2>2, <2>3, CountsFinite DEF PlansInv, Counted
<1>17. HandTrue'
  <2> SUFFICES ASSUME NEW c \in Buyers, c # b, buying[c] # NoCustomer, buying[c].op = "buy"
               PROVE  /\ buying[c].seen <= Len(sold') /\ \A i \in 1..buying[c].seen : i \notin Current(sold)'
                      /\ buying[c].charge # NoCharge =>
                           /\ buying[c].charge \in Charges' \ PaidBy'
                           /\ statement'[buying[c].charge].amount = -Price[buying[c].plan]
                           /\ statement'[buying[c].charge].plan = buying[c].plan
                           /\ \A d \in InHand' : buying'[d].charge = buying[c].charge => d = c
    BY <1>9 DEF HandTrue
  <2>1. /\ buying[c].seen <= Len(sold) /\ \A i \in 1..buying[c].seen : i \notin Current(sold)
        /\ buying[c].seen \in Nat
    BY PurchaseFields DEF PlansInv, HandTrue
  <2>2. buying[c].seen <= Len(sold') /\ \A i \in 1..buying[c].seen : i \notin Current(sold)'
    BY <1>1, <1>6, <1>7, <1>14, <2>1
  <2>3. buying[c].charge # NoCharge =>
          /\ buying[c].charge \in Charges \ PaidBy
          /\ statement[buying[c].charge].amount = -Price[buying[c].plan]
          /\ statement[buying[c].charge].plan = buying[c].plan
          /\ \A d \in InHand : buying[d].charge = buying[c].charge => d = c
    BY DEF PlansInv, HandTrue
  <2>4. \A d \in InHand' : d \in InHand /\ buying'[d] = buying[d]
    BY <1>9, <1>12 DEF InHand
  <2>5. buying[c].charge # paid \/ buying[c].charge = NoCharge
    BY <1>1, <1>12, <2>3
  <2> QED
    BY <1>2, <1>11, <2>2, <2>3, <2>4, <2>5
<1> QED
  BY <1>10, <1>13, <1>15, <1>16, <1>17 DEF PlansInv

LEMMA CancelPlanKeeps ==
  ASSUME PlansInv, NEW b \in Buyers, CancelPlan(b)
  PROVE  PlansInv'
<1>1. PICK row : row = buying[b].row
  OBVIOUS
<1>2. /\ buying[b] # NoCustomer /\ buying[b].op = "cancel"
      /\ sold' = [sold EXCEPT ![row].status = "CANCELLED"]
      /\ buying' = [buying EXCEPT ![b] = NoCustomer] /\ UNCHANGED <<today, funds, statement, deaths>>
  BY <1>1 DEF CancelPlan
<1>3. /\ Len(sold) \in Nat /\ DOMAIN sold = 1..Len(sold) /\ sold \in Seq(SoldRow)
      /\ Len(sold) <= MaxPlans /\ \A i \in DOMAIN sold : sold[i] \in SoldRow
  BY RowsNumbered DEF PlansInv, RowsOK
<1>4. /\ sold' \in Seq(SoldRow) /\ Len(sold') = Len(sold) /\ DOMAIN sold' = DOMAIN sold
      /\ \A i \in DOMAIN sold :
           /\ sold'[i].ends = sold[i].ends /\ sold'[i].status \in {sold[i].status, "CANCELLED"}
           /\ sold'[i].plan = sold[i].plan /\ sold'[i].price = sold[i].price
           /\ sold'[i].paymentId = sold[i].paymentId /\ sold'[i].seen = sold[i].seen
  <2>1. CASE row \in DOMAIN sold
    <3> DEFINE new == [sold[row] EXCEPT !.status = "CANCELLED"]
    <3>1. /\ new \in SoldRow /\ new.ends = sold[row].ends /\ new.status = "CANCELLED"
          /\ new.plan = sold[row].plan /\ new.price = sold[row].price
          /\ new.paymentId = sold[row].paymentId /\ new.seen = sold[row].seen
      BY <1>3, <2>1 DEF SoldRow
    <3>2. sold' = [sold EXCEPT ![row] = new]
      BY <1>2
    <3> HIDE DEF new
    <3>3. /\ sold' \in Seq(SoldRow) /\ Len(sold') = Len(sold)
          /\ \A i \in 1..Len(sold) : sold'[i] = IF i = row THEN new ELSE sold[i]
      BY <1>3, <2>1, <3>1, <3>2, ExceptSeq
    <3>4. DOMAIN sold' = DOMAIN sold
      BY <1>3, <3>2
    <3> QED
      BY <1>3, <3>1, <3>3, <3>4
  <2>2. CASE row \notin DOMAIN sold
    <3>1. sold' = sold
      BY <1>2, <1>3, <2>2
    <3> QED
      BY <1>3, <3>1
  <2> QED
    BY <2>1, <2>2
<1>5. /\ buying' \in [Buyers -> Purchase \cup {NoCustomer}] /\ buying'[b] = NoCustomer
      /\ \A c \in Buyers : c # b => buying'[c] = buying[c]
  BY <1>2 DEF PlansInv, RowsOK
<1>6. RowsOK'
  BY <1>2, <1>3, <1>4, <1>5 DEF PlansInv, RowsOK
<1>7. Charges' = Charges /\ PaidBy' = PaidBy /\ InHand' = InHand
  <2>1. Charges' = Charges /\ InHand' = InHand
    BY <1>2, <1>5 DEF Charges, InHand, Buying
  <2> QED
    BY <1>4, <2>1 DEF PaidBy
<1>8. Named' /\ Counted'
  BY <1>2, <1>4, <1>7 DEF PlansInv, Named, Counted
<1>9. \A i \in 1..Len(sold) : i \notin Current(sold) => i \notin Current(sold)'
  <2>1. today' \in Nat /\ today <= today' /\ RowsOK
    BY <1>2, PlanBounds DEF PlansInv, RowsOK
  <2> QED
    BY <1>4, <2>1, StaysOver
<1>10. Overlooked'
  <2>1. \A j \in DOMAIN sold : sold[j].seen \in 0..Len(sold) /\ sold[j].seen < j
    BY <1>3 DEF PlansInv, Overlooked, SoldRow
  <2> QED
    BY <1>3, <1>4, <1>9, <2>1 DEF PlansInv, Overlooked
<1>11. HandTrue'
  <2>1. \A c \in Buyers : buying[c] # NoCustomer /\ buying[c].op = "buy" => buying[c].seen \in 0..Len(sold)
    BY <1>3, PurchaseFields DEF PlansInv, HandTrue
  <2>2. \A c \in InHand : buying'[c] = buying[c]
    BY <1>2, <1>5 DEF InHand, Buying
  <2> SUFFICES ASSUME NEW c \in Buyers, c # b, buying[c] # NoCustomer, buying[c].op = "buy"
               PROVE  /\ buying[c].seen <= Len(sold') /\ \A i \in 1..buying[c].seen : i \notin Current(sold)'
                      /\ buying[c].charge # NoCharge =>
                           /\ buying[c].charge \in Charges' \ PaidBy'
                           /\ statement'[buying[c].charge].amount = -Price[buying[c].plan]
                           /\ statement'[buying[c].charge].plan = buying[c].plan
                           /\ \A d \in InHand' : buying'[d].charge = buying[c].charge => d = c
    BY <1>5 DEF HandTrue
  <2>3. /\ buying[c].seen <= Len(sold) /\ \A i \in 1..buying[c].seen : i \notin Current(sold)
        /\ buying[c].charge # NoCharge =>
             /\ buying[c].charge \in Charges \ PaidBy
             /\ statement[buying[c].charge].amount = -Price[buying[c].plan]
             /\ statement[buying[c].charge].plan = buying[c].plan
             /\ \A d \in InHand : buying[d].charge = buying[c].charge => d = c
    BY DEF PlansInv, HandTrue
  <2>4. \A i \in 1..buying[c].seen : i \notin Current(sold)'
    BY <1>3, <1>9, <2>1, <2>3
  <2> QED
    BY <1>2, <1>4, <1>7, <2>2, <2>3, <2>4
<1> QED
  BY <1>6, <1>8, <1>10, <1>11 DEF PlansInv

-----------------------------------------------------------------------------
(* The invariant.                                                          *)

LEMMA PlansStart == PlansInit => PlansInv
<1> SUFFICES ASSUME PlansInit PROVE PlansInv
  OBVIOUS
<1>1. RowsOK
  BY PlanBounds DEF PlansInit, RowsOK
<1>2. Charges = {} /\ PaidBy = {} /\ InHand = {} /\ Charges \ PaidBy = {}
  BY DEF PlansInit, Charges, PaidBy, InHand, Buying
<1>3. Named /\ Overlooked /\ HandTrue
  BY <1>2 DEF PlansInit, Named, Overlooked, HandTrue
<1>4. Counted
  BY <1>2, FS_EmptySet DEF PlansInit, Counted
<1> QED
  BY <1>1, <1>3, <1>4 DEF PlansInv

LEMMA PlansStep == PlansInv /\ [PlansNext]_planVars => PlansInv'
<1> SUFFICES ASSUME PlansInv, [PlansNext]_planVars
             PROVE  PlansInv'
  OBVIOUS
<1>1. ASSUME NEW b \in Buyers, NEW plan \in Plans, AskBuy(b, plan) PROVE PlansInv'
  BY <1>1, AskBuyKeeps
<1>2. ASSUME NEW b \in Buyers, NEW i \in DOMAIN sold, AskCancelPlan(b, i) PROVE PlansInv'
  BY <1>2, AskCancelPlanKeeps
<1>3. ASSUME NEW b \in Buyers,
             \/ ChargeToPlatform(b) \/ RefuseCharge(b) \/ GiveUp(b)
             \/ CreateRow(b) \/ DieCharged(b) \/ CancelPlan(b)
      PROVE  PlansInv'
  BY <1>3, ChargeToPlatformKeeps, GiveUpKeeps, CreateRowKeeps, DieChargedKeeps, CancelPlanKeeps
<1>4. ASSUME NEW amount \in Deposits, Deposit(amount) PROVE PlansInv'
  BY <1>4, DepositKeeps
<1>5. CASE DayPasses
  BY <1>5, DayPassesKeeps
<1>6. CASE UNCHANGED planVars
  <2>1. UNCHANGED <<today, funds, statement, sold, buying, deaths>>
    BY <1>6 DEF planVars
  <2> QED
    BY <2>1 DEF PlansInv, RowsOK, Named, Overlooked, HandTrue, Counted, Charges, PaidBy, InHand,
                Buying, Current, Runs
<1> QED
  BY <1>1, <1>2, <1>3, <1>4, <1>5, <1>6 DEF PlansNext

\* subscribe (subscriptions.service.ts) in three transactions: whichever calls
\* cross and wherever they die, every plan names a charge of its own, and the
\* charges no plan names are as many as the calls in hand and the calls that died.
THEOREM PlansInvHolds == PlansSpec => []PlansInv
  BY PlansStart, PlansStep, PTL DEF PlansSpec

LEMMA AnsweredStep == Answered /\ [PlansNext]_planVars => Answered'
<1> SUFFICES ASSUME Answered, [PlansNext]_planVars PROVE Answered'
  OBVIOUS
<1>1. ASSUME NEW b \in Buyers, NEW answer \in Answers, Tell(b, answer) PROVE Answered'
  BY <1>1 DEF Answered, Tell
<1>2. ASSUME told' = told PROVE Answered'
  BY <1>2 DEF Answered
<1>3. ASSUME NEW b \in Buyers, NEW plan \in Plans, AskBuy(b, plan) PROVE Answered'
  BY <1>1, <1>3 DEF AskBuy, Answers
<1>4. ASSUME NEW b \in Buyers, RefuseCharge(b) PROVE Answered'
  <2>1. PICK answer \in Answers : Tell(b, answer)
    BY <1>4 DEF RefuseCharge, Answers
  <2> QED
    BY <1>1, <2>1
<1>5. ASSUME NEW b \in Buyers, CreateRow(b) PROVE Answered'
  BY <1>1, <1>5 DEF CreateRow, Write, Answers
<1>6. ASSUME NEW b \in Buyers,
             \/ \E i \in DOMAIN sold : AskCancelPlan(b, i)
             \/ ChargeToPlatform(b) \/ GiveUp(b) \/ DieCharged(b) \/ CancelPlan(b)
      PROVE  told' = told
  BY <1>6 DEF AskCancelPlan, ChargeToPlatform, GiveUp, DieCharged, CancelPlan
<1>7. ASSUME \/ \E amount \in Deposits : Deposit(amount)
             \/ DayPasses \/ UNCHANGED planVars
      PROVE  told' = told
  BY <1>7 DEF Deposit, DayPasses, planVars
<1> QED
  BY <1>2, <1>3, <1>4, <1>5, <1>6, <1>7 DEF PlansNext

\* The plans, the statement, the calls of one account and what they were answered
\* keep their shapes.
THEOREM PlansTyping == PlansSpec => []PlansTypeOK
<1>1. PlansInit => Answered
  BY DEF PlansInit, Answered, Answers
<1>2. PlansInv /\ Answered => PlansTypeOK
  BY DEF PlansInv, RowsOK, Answered, Answers, PlansTypeOK
<1> QED
  BY <1>1, <1>2, AnsweredStep, PlansInvHolds, PTL DEF PlansSpec

\* subscribe: every plan names the charge that paid for it, no two the same; every
\* other charge is in hand or its call died; and two plans are in force at once
\* only when the call for the second had looked before the first was written.
THEOREM PlansReconcile == PlansSpec => []PlansAccountedFor
<1>1. PlansInv => PlansAccountedFor
  <2> SUFFICES ASSUME PlansInv PROVE PlansAccountedFor
    OBVIOUS
  <2>1. ASSUME NEW i \in Current(sold), NEW j \in Current(sold), i < j PROVE sold[j].seen < i
    <3>1. i \in DOMAIN sold /\ j \in DOMAIN sold /\ i \in Nat /\ i # 0 /\ sold[j].seen \in Nat
      BY RowsNumbered DEF Current, SoldRow, PlansInv
    <3>2. \A k \in 1..sold[j].seen : k \notin Current(sold)
      BY <3>1 DEF PlansInv, Overlooked
    <3> QED
      BY <3>1, <3>2
  <2> QED
    BY <2>1 DEF PlansInv, Named, Counted, PlansAccountedFor
<1> QED
  BY <1>1, PlansInvHolds, PTL

-----------------------------------------------------------------------------
(***************************************************************************)
(* Interviews, proved for any number of interviews, calls and times: what  *)
(* was accepted is the time in the calendar, unless calls crossed, Google  *)
(* failed or somebody was brought back.                                    *)
(*                                                                         *)
(* What the proof turns on: over an interview nothing went wrong with there *)
(* is at most one call, and between its steps it is known how far the row  *)
(* and the calendar are apart.                                             *)
(***************************************************************************)

\* What an interview nobody works on has agreed: the last answer was to its own
\* time, and the calendar shows it at that time unless it was called off - by the
\* console, perhaps even then.
Agreed(id) ==
  /\ interviews[id].status = "ACCEPTED" => interviews[id].answered = interviews[id].time
  /\ interviews[id].status # "CANCELLED" =>
       calendar[id] = IF interviews[id].linked THEN interviews[id].time ELSE NoTime
  /\ interviews[id].status = "CANCELLED" =>
       \/ calendar[id] = NoTime
       \/ interviews[id].struck /\ interviews[id].linked /\ calendar[id] = interviews[id].time

\* How far from it a call in hand may be.
Midway(c, id) ==
  /\ work[c].at \in {"read", "linked"} => Agreed(id)
  /\ work[c].at = "created" =>
       /\ interviews[id].status = "SCHEDULED" /\ ~interviews[id].linked
       /\ calendar[id] = NoTime /\ interviews[id].time = work[c].time
  /\ work[c].at = "event" =>
       /\ interviews[id].status = "SCHEDULED" /\ ~interviews[id].linked
       /\ calendar[id] = interviews[id].time
  /\ work[c].at = "updated" /\ work[c].op = "reschedule" =>
       /\ interviews[id].status = "RESCHEDULED" /\ interviews[id].linked
       /\ calendar[id] # NoTime /\ interviews[id].time = work[c].time
  /\ work[c].at = "updated" /\ work[c].op = "cancel" => interviews[id].status = "CANCELLED"

\* An interview over which nothing went wrong has one call on it at most.
InOrder(id) ==
  id \notin upset =>
    /\ \A c, d \in Calls : WorksOn(c, id) /\ WorksOn(d, id) => c = d
    /\ \A c \in Calls : WorksOn(c, id) => Midway(c, id)
    /\ (\A c \in Calls : ~WorksOn(c, id)) => Agreed(id)

InterviewsInv ==
  /\ InterviewsTypeOK
  /\ \A c \in Calls, id \in InterviewId : WorksOn(c, id) => id \in DOMAIN interviews
  /\ \A id \in InterviewId \ DOMAIN interviews : calendar[id] = NoTime
  /\ \A id \in DOMAIN interviews : InOrder(id)

-----------------------------------------------------------------------------
(* Rows and calls.                                                          *)

LEMMA InterviewsNumbered ==
  ASSUME InterviewsTypeOK
  PROVE  /\ Len(interviews) \in Nat /\ DOMAIN interviews = 1..Len(interviews)
         /\ Len(interviews) <= MaxInterviews /\ DOMAIN interviews \subseteq InterviewId
         /\ \A id \in DOMAIN interviews : interviews[id] \in Interview
<1>1. /\ Len(interviews) \in Nat /\ DOMAIN interviews = 1..Len(interviews)
      /\ Len(interviews) <= MaxInterviews
  BY LenProperties DEF InterviewsTypeOK
<1> QED
  BY <1>1, ElementOfSeq, InterviewsAssumption DEF InterviewsTypeOK, InterviewId

\* What a call in hand can be.
LEMMA WorkFields ==
  ASSUME InterviewsTypeOK, NEW c \in Calls, work[c] # Resting
  PROVE  /\ work[c] \in Work
         /\ \/ work[c] \in [op : {"schedule"}, at : {"read"}, seen : ApplicationStatus]
            \/ work[c] \in [op : {"schedule"}, at : {"created", "event", "linked"},
                            seen : ApplicationStatus, id : InterviewId, time : Times]
            \/ work[c] \in [op : {"respond", "reschedule", "complete", "strike"}, at : {"read"}, id : InterviewId]
            \/ work[c] \in [op : {"cancel"}, at : {"read", "updated"}, id : InterviewId]
            \/ work[c] \in [op : {"reschedule"}, at : {"updated"}, id : InterviewId, time : Times]
         /\ "id" \in DOMAIN work[c] <=> ~(work[c].op = "schedule" /\ work[c].at = "read")
         /\ "id" \in DOMAIN work[c] => work[c].id \in InterviewId
         /\ work[c].at \in {"read", "created", "event", "linked", "updated"}
         /\ work[c].at \in {"created", "event", "linked"} => work[c].op = "schedule" /\ work[c].time \in Times
         /\ work[c].at = "updated" => work[c].op \in {"reschedule", "cancel"}
         /\ work[c].at = "updated" /\ work[c].op = "reschedule" => work[c].time \in Times
<1>1. work[c] \in Work
  BY DEF InterviewsTypeOK
<1>2. /\ \/ work[c] \in [op : {"schedule"}, at : {"read"}, seen : ApplicationStatus]
         \/ work[c] \in [op : {"schedule"}, at : {"created", "event", "linked"},
                            seen : ApplicationStatus, id : InterviewId, time : Times]
         \/ work[c] \in [op : {"respond", "reschedule", "complete", "strike"}, at : {"read"}, id : InterviewId]
         \/ work[c] \in [op : {"cancel"}, at : {"read", "updated"}, id : InterviewId]
         \/ work[c] \in [op : {"reschedule"}, at : {"updated"}, id : InterviewId, time : Times]
  BY <1>1 DEF Work
<1> QED
  BY <1>1, <1>2

\* A row rewritten.
LEMMA RowRewritten ==
  ASSUME InterviewsTypeOK, NEW id \in DOMAIN interviews, NEW row \in Interview,
         interviews' = [interviews EXCEPT ![id] = row]
  PROVE  /\ interviews' \in Seq(Interview) /\ Len(interviews') = Len(interviews)
         /\ DOMAIN interviews' = DOMAIN interviews /\ interviews'[id] = row
         /\ \A j \in DOMAIN interviews : j # id => interviews'[j] = interviews[j]
<1>1. /\ interviews \in Seq(Interview) /\ Len(interviews) \in Nat /\ DOMAIN interviews = 1..Len(interviews)
  BY InterviewsNumbered DEF InterviewsTypeOK
<1>2. /\ interviews' \in Seq(Interview) /\ Len(interviews') = Len(interviews)
      /\ \A j \in 1..Len(interviews) : interviews'[j] = IF j = id THEN row ELSE interviews[j]
  BY <1>1, ExceptSeq
<1> QED
  BY <1>1, <1>2

\* The update of a row.
LEMMA SetFacts ==
  ASSUME InterviewsTypeOK, NEW id \in DOMAIN interviews, NEW status \in InterviewStatus,
         NEW time \in Times, NEW answered \in Times \cup {NoTime}, Set(id, status, time, answered)
  PROVE  /\ interviews' \in Seq(Interview) /\ Len(interviews') = Len(interviews)
         /\ DOMAIN interviews' = DOMAIN interviews
         /\ interviews'[id].status = status /\ interviews'[id].time = time
         /\ interviews'[id].answered = answered /\ interviews'[id].linked = interviews[id].linked
         /\ \A j \in DOMAIN interviews : j # id => interviews'[j] = interviews[j]
         /\ upset \subseteq upset' /\ upset' \subseteq upset \cup {id}
         /\ id \notin upset' => interviews[id].status # "CANCELLED" \/ status = "CANCELLED"
<1> DEFINE row == [interviews[id] EXCEPT !.status = status, !.time = time,
                                         !.answered = answered, !.struck = FALSE]
<1>1. interviews[id] \in Interview
  BY InterviewsNumbered
<1>2. /\ row \in Interview /\ row.status = status /\ row.time = time /\ row.answered = answered
      /\ row.linked = interviews[id].linked
  BY <1>1 DEF Interview
<1>3. interviews' = [interviews EXCEPT ![id] = row]
  BY DEF Set
<1> HIDE DEF row
<1>4. /\ upset \subseteq upset' /\ upset' \subseteq upset \cup {id}
      /\ id \notin upset' => interviews[id].status # "CANCELLED" \/ status = "CANCELLED"
  BY DEF Set
<1> QED
  BY <1>2, <1>3, <1>4, RowRewritten

-----------------------------------------------------------------------------
(* Steps and what they leave alone.                                         *)

\* A step of the one call c, on the interview it works on.
LEMMA OneCallStep ==
  ASSUME InterviewsInv, InterviewsTypeOK', NEW c \in Calls, NEW id \in DOMAIN interviews, WorksOn(c, id),
         DOMAIN interviews' = DOMAIN interviews,
         \A j \in DOMAIN interviews : j # id => interviews'[j] = interviews[j],
         \A j \in InterviewId : j # id => calendar'[j] = calendar[j],
         upset \subseteq upset', upset' \subseteq upset \cup {id},
         \A d \in Calls : d # c => work'[d] = work[d],
         work'[c] = Resting \/ WorksOn(c, id)',
         id \notin upset' => (work'[c] = Resting /\ Agreed(id)') \/ (work'[c] # Resting /\ Midway(c, id)')
  PROVE  InterviewsInv'
<1>1. \A d \in Calls : d # c => \A j : WorksOn(d, j)' <=> WorksOn(d, j)
  BY DEF WorksOn
<1>2. \A j : j # id => ~WorksOn(c, j) /\ ~WorksOn(c, j)'
  BY DEF WorksOn
<1>3. DOMAIN interviews \subseteq InterviewId
  BY InterviewsNumbered DEF InterviewsInv
<1>4. ASSUME NEW j \in DOMAIN interviews, j # id PROVE InOrder(j)'
  <2>1. \A d \in Calls : (WorksOn(d, j)' <=> WorksOn(d, j)) /\ (WorksOn(d, j) => work'[d] = work[d])
    BY <1>1, <1>2, <1>4
  <2>2. interviews'[j] = interviews[j] /\ calendar'[j] = calendar[j]
    BY <1>3, <1>4
  <2>3. Agreed(j)' <=> Agreed(j)
    BY <2>2 DEF Agreed
  <2>4. \A d \in Calls : WorksOn(d, j) /\ Midway(d, j) => Midway(d, j)'
    BY <2>1, <2>2, <2>3 DEF Midway
  <2>5. j \in upset' <=> j \in upset
    BY <1>4
  <2> QED
    BY <2>1, <2>3, <2>4, <2>5 DEF InterviewsInv, InOrder
<1>5. InOrder(id)'
  <2> SUFFICES ASSUME id \notin upset'
               PROVE  /\ \A d, e \in Calls : WorksOn(d, id)' /\ WorksOn(e, id)' => d = e
                      /\ \A d \in Calls : WorksOn(d, id)' => Midway(d, id)'
                      /\ (\A d \in Calls : ~WorksOn(d, id)') => Agreed(id)'
    BY DEF InOrder
  <2>1. \A d \in Calls : WorksOn(d, id)' => d = c
    BY <1>1 DEF InterviewsInv, InOrder
  <2> QED
    BY <2>1 DEF WorksOn
<1>6. \A d \in Calls, j \in InterviewId : WorksOn(d, j)' => j \in DOMAIN interviews'
  BY <1>1, <1>2 DEF InterviewsInv
<1> QED
  BY <1>3, <1>4, <1>5, <1>6 DEF InterviewsInv

\* A step that touches no interview, nor the work on any.
LEMMA StillStep ==
  ASSUME InterviewsInv, InterviewsTypeOK', UNCHANGED <<interviews, calendar, upset>>,
         \A d \in Calls, j \in InterviewId :
           (WorksOn(d, j)' <=> WorksOn(d, j)) /\ (WorksOn(d, j) => work'[d] = work[d])
  PROVE  InterviewsInv'
<1>1. DOMAIN interviews \subseteq InterviewId
  BY InterviewsNumbered DEF InterviewsInv
<1>2. ASSUME NEW j \in DOMAIN interviews PROVE InOrder(j)'
  <2>1. \A d \in Calls : (WorksOn(d, j)' <=> WorksOn(d, j)) /\ (WorksOn(d, j) => work'[d] = work[d])
    BY <1>1
  <2>2. Agreed(j)' <=> Agreed(j)
    BY DEF Agreed
  <2>3. \A d \in Calls : WorksOn(d, j) /\ Midway(d, j) => Midway(d, j)'
    BY <2>1, <2>2 DEF Midway
  <2> QED
    BY <2>1, <2>2, <2>3 DEF InterviewsInv, InOrder
<1> QED
  BY <1>2 DEF InterviewsInv

\* A call that takes up an interview.
LEMMA BeginKeeps ==
  ASSUME InterviewsInv, NEW c \in Calls, NEW id \in DOMAIN interviews,
         NEW op \in {"respond", "reschedule", "complete", "cancel", "strike"}, Begin(c, op, id)
  PROVE  InterviewsInv'
<1> DEFINE w == [op |-> op, at |-> "read", id |-> id]
<1>1. id \in InterviewId /\ DOMAIN interviews \subseteq InterviewId
  BY InterviewsNumbered DEF InterviewsInv
<1>2. w \in Work /\ w # Resting /\ w.op = op /\ w.at = "read" /\ w.id = id /\ "id" \in DOMAIN w
  <2>1. w \in Work
    BY <1>1 DEF Work
  <2> QED
    BY <2>1, NoTimeAssumption
<1>3. /\ work[c] = Resting /\ work' = [work EXCEPT ![c] = w]
      /\ upset' = upset \cup Crossing(id) /\ UNCHANGED <<application, interviews, calendar>>
  BY DEF Begin
<1> HIDE DEF w
<1>4. /\ work' \in [Calls -> Work \cup {Resting}] /\ work'[c] = w
      /\ \A d \in Calls : d # c => work'[d] = work[d]
  BY <1>2, <1>3 DEF InterviewsInv, InterviewsTypeOK
<1>5. InterviewsTypeOK'
  BY <1>1, <1>3, <1>4 DEF InterviewsInv, InterviewsTypeOK, Crossing
<1>6. /\ \A d \in Calls : d # c => \A j : WorksOn(d, j)' <=> WorksOn(d, j)
      /\ \A j : ~WorksOn(c, j) /\ (WorksOn(c, j)' <=> j = id)
  BY <1>2, <1>3, <1>4 DEF WorksOn
<1>7. \A j \in DOMAIN interviews : Agreed(j)' <=> Agreed(j)
  BY <1>3 DEF Agreed
<1>8. ASSUME NEW j \in DOMAIN interviews, j # id PROVE InOrder(j)'
  <2>1. \A d \in Calls : (WorksOn(d, j)' <=> WorksOn(d, j)) /\ (WorksOn(d, j) => work'[d] = work[d])
    BY <1>3, <1>4, <1>6, <1>8
  <2>2. \A d \in Calls : WorksOn(d, j) /\ Midway(d, j) => Midway(d, j)'
    BY <1>3, <1>7, <2>1 DEF Midway
  <2>3. j \in upset' <=> j \in upset
    BY <1>3, <1>8 DEF Crossing
  <2> QED
    BY <1>7, <2>1, <2>2, <2>3 DEF InterviewsInv, InOrder
<1>9. InOrder(id)'
  <2> SUFFICES ASSUME id \notin upset'
               PROVE  /\ \A d, e \in Calls : WorksOn(d, id)' /\ WorksOn(e, id)' => d = e
                      /\ \A d \in Calls : WorksOn(d, id)' => Midway(d, id)'
                      /\ (\A d \in Calls : ~WorksOn(d, id)') => Agreed(id)'
    BY DEF InOrder
  <2>1. id \notin upset /\ \A d \in Calls : ~WorksOn(d, id)
    BY <1>3 DEF Crossing
  <2>2. Agreed(id)' /\ \A d \in Calls : WorksOn(d, id)' => d = c
    BY <1>6, <1>7, <2>1 DEF InterviewsInv, InOrder
  <2>3. Midway(c, id)'
    BY <1>2, <1>4, <2>2 DEF Midway
  <2> QED
    BY <2>2, <2>3
<1>10. \A d \in Calls, j \in InterviewId : WorksOn(d, j)' => j \in DOMAIN interviews'
  BY <1>3, <1>6 DEF InterviewsInv
<1> QED
  BY <1>3, <1>5, <1>8, <1>9, <1>10 DEF InterviewsInv

-----------------------------------------------------------------------------
(* schedule.                                                               *)

LEMMA AskInterviewKeeps ==
  ASSUME InterviewsInv, NEW c \in Calls, AskInterview(c)
  PROVE  InterviewsInv'
<1> DEFINE w == [op |-> "schedule", at |-> "read", seen |-> application]
<1>1. w \in Work /\ w # Resting /\ ~("id" \in DOMAIN w)
  <2>1. w \in Work
    BY DEF Work, InterviewsInv, InterviewsTypeOK
  <2> QED
    BY <2>1, NoTimeAssumption
<1>2. work[c] = Resting /\ work' = [work EXCEPT ![c] = w] /\ UNCHANGED <<application, interviews, calendar, upset>>
  BY DEF AskInterview
<1> HIDE DEF w
<1>3. /\ work' \in [Calls -> Work \cup {Resting}] /\ work'[c] = w
      /\ \A d \in Calls : d # c => work'[d] = work[d]
  BY <1>1, <1>2 DEF InterviewsInv, InterviewsTypeOK
<1>4. InterviewsTypeOK'
  BY <1>2, <1>3 DEF InterviewsInv, InterviewsTypeOK
<1> QED
  BY <1>1, <1>2, <1>3, <1>4, StillStep DEF WorksOn

LEMMA CreateInterviewKeeps ==
  ASSUME InterviewsInv, NEW c \in Calls, NEW time \in Times, CreateInterview(c, time)
  PROVE  InterviewsInv'
<1>1. PICK new, w, row :
        /\ new = Len(interviews) + 1
        /\ w = [op |-> "schedule", at |-> "created", seen |-> work[c].seen, id |-> new, time |-> time]
        /\ row = [status |-> "SCHEDULED", time |-> time, linked |-> FALSE, answered |-> NoTime,
                  struck |-> FALSE]
  OBVIOUS
<1>2. /\ Stands(c, "schedule", "read") /\ Len(interviews) < MaxInterviews
      /\ interviews' = Append(interviews, row) /\ work' = [work EXCEPT ![c] = w]
      /\ UNCHANGED <<application, calendar, upset>>
  BY <1>1 DEF CreateInterview
<1>3. /\ work[c] # Resting /\ work[c].op = "schedule" /\ work[c].at = "read"
      /\ ~("id" \in DOMAIN work[c]) /\ work[c].seen \in ApplicationStatus
  BY <1>2, WorkFields DEF Stands, InterviewsInv
<1>4. /\ Len(interviews) \in Nat /\ DOMAIN interviews = 1..Len(interviews) /\ interviews \in Seq(Interview)
      /\ DOMAIN interviews \subseteq InterviewId
  BY InterviewsNumbered DEF InterviewsInv, InterviewsTypeOK
<1>5. new \in InterviewId /\ new \notin DOMAIN interviews
  BY <1>1, <1>2, <1>4, InterviewsAssumption DEF InterviewId
<1>6. /\ w \in Work /\ w # Resting /\ "id" \in DOMAIN w /\ w.id = new /\ w.at = "created" /\ w.time = time
  <2>1. w \in Work
    BY <1>1, <1>3, <1>5 DEF Work
  <2> QED
    BY <1>1, <2>1, NoTimeAssumption
<1>7. row \in Interview /\ row.status = "SCHEDULED" /\ row.time = time /\ row.linked = FALSE
  BY <1>1 DEF Interview, InterviewStatus, Arranged, Waiting
<1>8. /\ interviews' \in Seq(Interview) /\ Len(interviews') = new /\ interviews'[new] = row
      /\ \A j \in DOMAIN interviews : interviews'[j] = interviews[j]
  BY <1>1, <1>2, <1>4, <1>7, AppendProperties
<1>9. DOMAIN interviews' = DOMAIN interviews \cup {new}
  BY <1>1, <1>4, <1>8, LenProperties
<1>10. /\ work' \in [Calls -> Work \cup {Resting}] /\ work'[c] = w
       /\ \A d \in Calls : d # c => work'[d] = work[d]
  BY <1>2, <1>6 DEF InterviewsInv, InterviewsTypeOK
<1>11. InterviewsTypeOK'
  BY <1>2, <1>4, <1>5, <1>8, <1>10, InterviewsAssumption DEF InterviewId, InterviewsInv, InterviewsTypeOK
<1>12. /\ \A d \in Calls : d # c => \A j : WorksOn(d, j)' <=> WorksOn(d, j)
       /\ \A j : ~WorksOn(c, j) /\ (WorksOn(c, j)' <=> j = new)
  BY <1>3, <1>6, <1>10 DEF WorksOn
<1>13. ASSUME NEW j \in DOMAIN interviews PROVE InOrder(j)'
  <2>1. \A d \in Calls : (WorksOn(d, j)' <=> WorksOn(d, j)) /\ (WorksOn(d, j) => work'[d] = work[d])
    BY <1>5, <1>10, <1>12
  <2>2. Agreed(j)' <=> Agreed(j)
    BY <1>2, <1>8 DEF Agreed
  <2>3. \A d \in Calls : WorksOn(d, j) /\ Midway(d, j) => Midway(d, j)'
    BY <1>2, <1>8, <2>1, <2>2 DEF Midway
  <2> QED
    BY <1>2, <2>1, <2>2, <2>3 DEF InterviewsInv, InOrder
<1>14. InOrder(new)'
  <2>1. \A d \in Calls : WorksOn(d, new)' => d = c
    BY <1>5, <1>12 DEF InterviewsInv
  <2>2. calendar'[new] = NoTime
    BY <1>2, <1>5 DEF InterviewsInv
  <2>3. Midway(c, new)'
    BY <1>6, <1>7, <1>8, <1>10, <2>2 DEF Midway
  <2>4. WorksOn(c, new)'
    BY <1>12
  <2> QED
    BY <2>1, <2>3, <2>4 DEF InOrder
<1>15. \A d \in Calls, j \in InterviewId : WorksOn(d, j)' => j \in DOMAIN interviews'
  BY <1>9, <1>12 DEF InterviewsInv
<1>16. \A j \in InterviewId \ DOMAIN interviews' : calendar'[j] = NoTime
  BY <1>2, <1>9 DEF InterviewsInv
<1> QED
  BY <1>9, <1>11, <1>13, <1>14, <1>15, <1>16 DEF InterviewsInv

\* A call that goes on to its next step.
LEMMA MovesOn ==
  ASSUME InterviewsTypeOK, NEW c \in Calls, work[c] # Resting,
         NEW at \in {"event", "linked", "updated"},
         \/ work[c].op = "schedule" /\ work[c].at # "read" /\ at # "updated"
         \/ work[c].op = "cancel" /\ at = "updated",
         work' = [work EXCEPT ![c].at = at]
  PROVE  /\ work' \in [Calls -> Work \cup {Resting}]
         /\ work'[c] # Resting /\ work'[c].at = at /\ work'[c].op = work[c].op
         /\ work'[c].id = work[c].id /\ "id" \in DOMAIN work'[c]
         /\ work[c].op = "schedule" => work'[c].time = work[c].time
         /\ \A d \in Calls : d # c => work'[d] = work[d]
<1> DEFINE w == [work[c] EXCEPT !.at = at]
<1>1. /\ w \in Work /\ w.at = at /\ w.op = work[c].op /\ w.id = work[c].id /\ "id" \in DOMAIN w
      /\ work[c].op = "schedule" => w.time = work[c].time
  BY WorkFields DEF Work
<1>2. work' = [work EXCEPT ![c] = w] /\ w # Resting
  BY <1>1, NoTimeAssumption
<1> HIDE DEF w
<1> QED
  BY <1>1, <1>2 DEF InterviewsTypeOK

LEMMA CallRests ==
  ASSUME InterviewsTypeOK, NEW c \in Calls, EndCall(c)
  PROVE  /\ work' \in [Calls -> Work \cup {Resting}] /\ work'[c] = Resting
         /\ \A d \in Calls : d # c => work'[d] = work[d]
  BY DEF InterviewsTypeOK, EndCall

\* The interview of a call: in place, if nothing went wrong over it.
LEMMA ItsInterview ==
  ASSUME InterviewsInv, NEW c \in Calls, work[c] # Resting, "id" \in DOMAIN work[c]
  PROVE  /\ WorksOn(c, work[c].id) /\ work[c].id \in DOMAIN interviews /\ work[c].id \in InterviewId
         /\ interviews[work[c].id] \in Interview
         /\ work[c].id \notin upset => Midway(c, work[c].id)
<1>1. WorksOn(c, work[c].id) /\ work[c].id \in InterviewId
  BY WorkFields DEF WorksOn, InterviewsInv
<1> QED
  BY <1>1, InterviewsNumbered DEF InterviewsInv, InOrder

LEMMA CreateMeetingKeeps ==
  ASSUME InterviewsInv, NEW c \in Calls, CreateMeeting(c)
  PROVE  InterviewsInv'
<1>1. PICK id : id = work[c].id
  OBVIOUS
<1>2. /\ work[c] # Resting /\ work[c].op = "schedule" /\ work[c].at = "created"
      /\ "id" \in DOMAIN work[c] /\ work[c].time \in Times
  BY WorkFields DEF CreateMeeting, Stands, InterviewsInv
<1>3. /\ WorksOn(c, id) /\ id \in DOMAIN interviews /\ id \in InterviewId /\ interviews[id] \in Interview
      /\ id \notin upset => Midway(c, id)
  BY <1>1, <1>2, ItsInterview
<1>4. PICK at \in {"event", "linked"} :
        /\ work' = [work EXCEPT ![c].at = at]
        /\ \/ at = "event" /\ calendar' = [calendar EXCEPT ![id] = work[c].time] /\ upset' = upset
           \/ at = "linked" /\ calendar' = calendar /\ upset' = upset
           \/ at = "linked" /\ calendar' = [calendar EXCEPT ![id] = work[c].time] /\ upset' = upset \cup {id}
        /\ UNCHANGED <<application, interviews>>
  BY <1>1 DEF CreateMeeting
<1>5. /\ work' \in [Calls -> Work \cup {Resting}]
      /\ work'[c] # Resting /\ work'[c].at = at /\ work'[c].id = id /\ "id" \in DOMAIN work'[c]
      /\ \A d \in Calls : d # c => work'[d] = work[d]
  BY <1>1, <1>2, <1>4, MovesOn DEF InterviewsInv
<1>6. /\ calendar' \in [InterviewId -> Times \cup {NoTime}]
      /\ at = "event" => calendar'[id] = work[c].time
      /\ at = "linked" /\ id \notin upset' => calendar'[id] = calendar[id]
      /\ \A j \in InterviewId : j # id => calendar'[j] = calendar[j]
  BY <1>2, <1>3, <1>4 DEF InterviewsInv, InterviewsTypeOK
<1>7. InterviewsTypeOK'
  BY <1>3, <1>4, <1>5, <1>6 DEF InterviewsInv, InterviewsTypeOK
<1>8. WorksOn(c, id)'
  BY <1>5 DEF WorksOn
<1>9. ASSUME id \notin upset' PROVE Midway(c, id)'
  <2>1. id \notin upset
    BY <1>4, <1>9
  <2>2. /\ interviews'[id].status = "SCHEDULED" /\ ~interviews'[id].linked
        /\ calendar[id] = NoTime /\ interviews'[id].time = work[c].time
    BY <1>2, <1>3, <1>4, <2>1 DEF Midway
  <2>3. at = "linked" => Agreed(id)'
    BY <1>6, <1>9, <2>2 DEF Agreed
  <2> QED
    BY <1>5, <1>6, <2>2, <2>3 DEF Midway
<1> QED
  BY <1>3, <1>4, <1>5, <1>6, <1>7, <1>8, <1>9, OneCallStep

LEMMA LinkMeetingKeeps ==
  ASSUME InterviewsInv, NEW c \in Calls, LinkMeeting(c)
  PROVE  InterviewsInv'
<1>1. PICK id : id = work[c].id
  OBVIOUS
<1>2. /\ work[c] # Resting /\ work[c].op = "schedule" /\ work[c].at = "event" /\ "id" \in DOMAIN work[c]
  BY WorkFields DEF LinkMeeting, Stands, InterviewsInv
<1>3. /\ WorksOn(c, id) /\ id \in DOMAIN interviews /\ id \in InterviewId /\ interviews[id] \in Interview
      /\ id \notin upset => Midway(c, id)
  BY <1>1, <1>2, ItsInterview
<1>4. /\ work' = [work EXCEPT ![c].at = "linked"] /\ interviews' = [interviews EXCEPT ![id].linked = TRUE]
      /\ UNCHANGED <<application, calendar, upset>>
  BY <1>1 DEF LinkMeeting
<1>5. /\ work' \in [Calls -> Work \cup {Resting}]
      /\ work'[c] # Resting /\ work'[c].at = "linked" /\ work'[c].id = id /\ "id" \in DOMAIN work'[c]
      /\ \A d \in Calls : d # c => work'[d] = work[d]
  BY <1>1, <1>2, <1>4, MovesOn DEF InterviewsInv
<1>6. /\ interviews' \in Seq(Interview) /\ Len(interviews') = Len(interviews)
      /\ DOMAIN interviews' = DOMAIN interviews
      /\ interviews'[id].linked = TRUE /\ interviews'[id].status = interviews[id].status
      /\ interviews'[id].time = interviews[id].time
      /\ \A j \in DOMAIN interviews : j # id => interviews'[j] = interviews[j]
  <2> DEFINE row == [interviews[id] EXCEPT !.linked = TRUE]
  <2>1. /\ row \in Interview /\ row.linked = TRUE /\ row.status = interviews[id].status
        /\ row.time = interviews[id].time
    BY <1>3 DEF Interview
  <2>2. interviews' = [interviews EXCEPT ![id] = row]
    BY <1>4
  <2> HIDE DEF row
  <2> QED
    BY <1>3, <2>1, <2>2, RowRewritten DEF InterviewsInv
<1>7. InterviewsTypeOK'
  BY <1>4, <1>5, <1>6 DEF InterviewsInv, InterviewsTypeOK
<1>8. WorksOn(c, id)'
  BY <1>5 DEF WorksOn
<1>9. ASSUME id \notin upset' PROVE Midway(c, id)'
  <2>1. interviews[id].status = "SCHEDULED" /\ calendar[id] = interviews[id].time
    BY <1>2, <1>3, <1>4, <1>9 DEF Midway
  <2>2. Agreed(id)'
    BY <1>4, <1>6, <2>1 DEF Agreed
  <2> QED
    BY <1>5, <2>2 DEF Midway
<1> QED
  BY <1>3, <1>4, <1>5, <1>6, <1>7, <1>8, <1>9, OneCallStep

\* A call that ends, with its interview as agreed.
LEMMA EndsAgreed ==
  ASSUME InterviewsInv, NEW c \in Calls, EndCall(c), UNCHANGED <<interviews, calendar>>,
         application' \in ApplicationStatus, work[c] # Resting, "id" \in DOMAIN work[c],
         \/ upset' = upset /\ work[c].at \in {"read", "linked"}
         \/ upset' = upset \cup {work[c].id}
  PROVE  InterviewsInv'
<1>1. PICK id : id = work[c].id
  OBVIOUS
<1>2. /\ WorksOn(c, id) /\ id \in DOMAIN interviews /\ id \in InterviewId
      /\ id \notin upset => Midway(c, id)
  BY <1>1, ItsInterview
<1>3. /\ work' \in [Calls -> Work \cup {Resting}] /\ work'[c] = Resting
      /\ \A d \in Calls : d # c => work'[d] = work[d]
  BY CallRests DEF InterviewsInv
<1>4. InterviewsTypeOK'
  BY <1>1, <1>2, <1>3 DEF InterviewsInv, InterviewsTypeOK
<1>5. id \notin upset' => Agreed(id)'
  BY <1>1, <1>2 DEF Midway, Agreed
<1> QED
  BY <1>1, <1>2, <1>3, <1>4, <1>5, OneCallStep

LEMMA ShortlistKeeps ==
  ASSUME InterviewsInv, NEW c \in Calls, Shortlist(c)
  PROVE  InterviewsInv'
<1>1. /\ work[c] # Resting /\ work[c].op = "schedule" /\ work[c].at = "linked" /\ "id" \in DOMAIN work[c]
  BY WorkFields DEF Shortlist, Stands, InterviewsInv
<1>2. application' \in ApplicationStatus
  BY DEF Shortlist, InterviewsInv, InterviewsTypeOK, ApplicationStatus
<1> QED
  BY <1>1, <1>2, EndsAgreed DEF Shortlist

LEMMA DropCallKeeps ==
  ASSUME InterviewsInv, NEW c \in Calls, DropCall(c)
  PROVE  InterviewsInv'
<1>1. work[c] # Resting /\ EndCall(c) /\ UNCHANGED <<application, interviews, calendar>>
  BY DEF DropCall
<1>2. CASE "id" \in DOMAIN work[c]
  BY <1>1, <1>2, EndsAgreed DEF DropCall, InterviewsInv, InterviewsTypeOK
<1>3. CASE ~("id" \in DOMAIN work[c])
  <2>1. upset' = upset
    BY <1>3 DEF DropCall
  <2>2. /\ work' \in [Calls -> Work \cup {Resting}] /\ work'[c] = Resting
        /\ \A d \in Calls : d # c => work'[d] = work[d]
    BY <1>1, CallRests DEF InterviewsInv
  <2>3. InterviewsTypeOK'
    BY <1>1, <2>1, <2>2 DEF InterviewsInv, InterviewsTypeOK
  <2> QED
    BY <1>1, <1>3, <2>1, <2>2, <2>3, StillStep DEF WorksOn
<1> QED
  BY <1>2, <1>3

-----------------------------------------------------------------------------
(* respond, reschedule, cancel, complete.                                  *)

\* A call that sets its interview and ends: the calendar stays right if the
\* interview had it right and is not called off, nor moved with an event.
LEMMA SetsAndEnds ==
  ASSUME InterviewsInv, NEW c \in Calls, EndCall(c), UNCHANGED <<application, calendar>>,
         work[c] # Resting, work[c].at = "read", NEW id \in DOMAIN interviews, WorksOn(c, id),
         NEW status \in InterviewStatus, NEW time \in Times, NEW answered \in Times \cup {NoTime},
         Set(id, status, time, answered),
         status = "ACCEPTED" => answered = time,
         status = "CANCELLED" \/ time # interviews[id].time => ~interviews[id].linked
  PROVE  InterviewsInv'
<1>1. id \in InterviewId
  BY InterviewsNumbered DEF InterviewsInv
<1>2. /\ interviews' \in Seq(Interview) /\ Len(interviews') = Len(interviews)
      /\ DOMAIN interviews' = DOMAIN interviews
      /\ interviews'[id].status = status /\ interviews'[id].time = time
      /\ interviews'[id].answered = answered /\ interviews'[id].linked = interviews[id].linked
      /\ \A j \in DOMAIN interviews : j # id => interviews'[j] = interviews[j]
      /\ upset \subseteq upset' /\ upset' \subseteq upset \cup {id}
      /\ id \notin upset' => interviews[id].status # "CANCELLED" \/ status = "CANCELLED"
  BY SetFacts DEF InterviewsInv
<1>3. /\ work' \in [Calls -> Work \cup {Resting}] /\ work'[c] = Resting
      /\ \A d \in Calls : d # c => work'[d] = work[d]
  BY CallRests DEF InterviewsInv
<1>4. InterviewsTypeOK'
  BY <1>1, <1>2, <1>3 DEF InterviewsInv, InterviewsTypeOK
<1>5. ASSUME id \notin upset' PROVE Agreed(id)'
  <2>1. Agreed(id)
    BY <1>2, <1>5 DEF InterviewsInv, InOrder, Midway
  <2> QED
    BY <1>2, <1>5, <2>1 DEF Agreed
<1> QED
  BY <1>1, <1>2, <1>3, <1>4, <1>5, OneCallStep

LEMMA AnswerInterviewKeeps ==
  ASSUME InterviewsInv, NEW c \in Calls, NEW accept \in BOOLEAN, AnswerInterview(c, accept)
  PROVE  InterviewsInv'
<1>1. PICK id : id = work[c].id
  OBVIOUS
<1>2. work[c] # Resting /\ work[c].op = "respond" /\ work[c].at = "read" /\ "id" \in DOMAIN work[c]
  BY WorkFields DEF AnswerInterview, Stands, InterviewsInv
<1>3. WorksOn(c, id) /\ id \in DOMAIN interviews /\ interviews[id] \in Interview
  BY <1>1, <1>2, ItsInterview
<1>4. PICK status \in {"ACCEPTED", "DECLINED"}, answered \in Times \cup {NoTime} :
        /\ Set(id, status, interviews[id].time, answered)
        /\ status = "ACCEPTED" => answered = interviews[id].time
  BY <1>1, <1>3 DEF AnswerInterview, Interview
<1>5. interviews[id].time \in Times /\ status \in InterviewStatus /\ status # "CANCELLED"
  BY <1>3 DEF Interview, InterviewStatus, Arranged, Waiting
<1> QED
  BY <1>2, <1>3, <1>4, <1>5, SetsAndEnds DEF AnswerInterview

LEMMA CompleteInterviewKeeps ==
  ASSUME InterviewsInv, NEW c \in Calls, NEW status \in {"COMPLETED", "NO_SHOW"}, CompleteInterview(c, status)
  PROVE  InterviewsInv'
<1>1. PICK id : id = work[c].id
  OBVIOUS
<1>2. work[c] # Resting /\ work[c].op = "complete" /\ work[c].at = "read" /\ "id" \in DOMAIN work[c]
  BY WorkFields DEF CompleteInterview, Stands, InterviewsInv
<1>3. WorksOn(c, id) /\ id \in DOMAIN interviews /\ interviews[id] \in Interview
  BY <1>1, <1>2, ItsInterview
<1>4. /\ interviews[id].time \in Times /\ status \in InterviewStatus /\ status \notin {"CANCELLED", "ACCEPTED"}
      /\ interviews[id].answered \in Times \cup {NoTime}
  BY <1>3 DEF Interview, InterviewStatus, Arranged, Waiting
<1> QED
  BY <1>1, <1>2, <1>3, <1>4, SetsAndEnds DEF CompleteInterview

LEMMA RescheduleKeeps ==
  ASSUME InterviewsInv, NEW c \in Calls, NEW time \in Times, Reschedule(c, time)
  PROVE  InterviewsInv'
<1>1. PICK id : id = work[c].id
  OBVIOUS
<1>2. work[c] # Resting /\ work[c].op = "reschedule" /\ work[c].at = "read" /\ "id" \in DOMAIN work[c]
  BY WorkFields DEF Reschedule, MoveTo, Stands, InterviewsInv
<1>3. /\ WorksOn(c, id) /\ id \in DOMAIN interviews /\ id \in InterviewId /\ interviews[id] \in Interview
      /\ id \notin upset => Midway(c, id)
  BY <1>1, <1>2, ItsInterview
<1>4. /\ interviews[id].answered \in Times \cup {NoTime} /\ "RESCHEDULED" \in InterviewStatus
      /\ interviews[id].linked \in BOOLEAN
  BY <1>3 DEF Interview, InterviewStatus, Arranged, Waiting
<1>5. Set(id, "RESCHEDULED", time, interviews[id].answered) /\ UNCHANGED <<application, calendar>>
  BY <1>1 DEF Reschedule, MoveTo
<1>6. CASE ~interviews[id].linked
  <2>1. EndCall(c)
    BY <1>1, <1>6 DEF Reschedule, MoveTo
  <2> QED
    BY <1>2, <1>3, <1>4, <1>5, <1>6, <2>1, SetsAndEnds
<1>7. CASE interviews[id].linked
  <2> DEFINE w == [op |-> "reschedule", at |-> "updated", id |-> id, time |-> time]
  <2>1. w \in Work /\ w # Resting /\ w.id = id /\ "id" \in DOMAIN w /\ w.at = "updated" /\ w.op = "reschedule" /\ w.time = time
    <3>1. w \in Work
      BY <1>3 DEF Work
    <3> QED
      BY <3>1, NoTimeAssumption
  <2>2. work' = [work EXCEPT ![c] = w]
    BY <1>1, <1>7 DEF Reschedule, MoveTo
  <2> HIDE DEF w
  <2>3. /\ work' \in [Calls -> Work \cup {Resting}] /\ work'[c] = w
        /\ \A d \in Calls : d # c => work'[d] = work[d]
    BY <2>1, <2>2 DEF InterviewsInv, InterviewsTypeOK
  <2>4. /\ interviews' \in Seq(Interview) /\ Len(interviews') = Len(interviews)
        /\ DOMAIN interviews' = DOMAIN interviews
        /\ interviews'[id].status = "RESCHEDULED" /\ interviews'[id].time = time
        /\ interviews'[id].linked = interviews[id].linked
        /\ \A j \in DOMAIN interviews : j # id => interviews'[j] = interviews[j]
        /\ upset \subseteq upset' /\ upset' \subseteq upset \cup {id}
        /\ id \notin upset' => interviews[id].status # "CANCELLED"
    BY <1>3, <1>4, <1>5, SetFacts DEF InterviewsInv
  <2>5. InterviewsTypeOK'
    BY <1>3, <1>5, <2>3, <2>4 DEF InterviewsInv, InterviewsTypeOK
  <2>6. WorksOn(c, id)'
    BY <2>1, <2>3 DEF WorksOn
  <2>7. ASSUME id \notin upset' PROVE Midway(c, id)'
    <3>1. Agreed(id)
      BY <1>2, <1>3, <2>4, <2>7 DEF Midway
    <3>2. calendar'[id] # NoTime
      BY <1>3, <1>5, <1>7, <2>4, <2>7, <3>1, NoTimeAssumption DEF Agreed, Interview
    <3> QED
      BY <1>7, <2>1, <2>3, <2>4, <3>2 DEF Midway
  <2> QED
    BY <1>3, <1>5, <2>1, <2>3, <2>4, <2>5, <2>6, <2>7, OneCallStep
<1> QED
  BY <1>4, <1>6, <1>7

LEMMA MoveMeetingKeeps ==
  ASSUME InterviewsInv, NEW c \in Calls, MoveMeeting(c)
  PROVE  InterviewsInv'
<1>1. PICK id : id = work[c].id
  OBVIOUS
<1>2. /\ work[c] # Resting /\ work[c].op = "reschedule" /\ work[c].at = "updated" /\ "id" \in DOMAIN work[c]
      /\ work[c].time \in Times
  BY WorkFields DEF MoveMeeting, Stands, InterviewsInv
<1>3. /\ WorksOn(c, id) /\ id \in DOMAIN interviews /\ id \in InterviewId
      /\ id \notin upset => Midway(c, id)
  BY <1>1, <1>2, ItsInterview
<1>4. /\ work' \in [Calls -> Work \cup {Resting}] /\ work'[c] = Resting
      /\ \A d \in Calls : d # c => work'[d] = work[d]
  BY CallRests DEF InterviewsInv, MoveMeeting
<1>5. UNCHANGED <<application, interviews>>
  BY DEF MoveMeeting
<1>6. CASE calendar' = [calendar EXCEPT ![id] = IF @ = NoTime THEN NoTime ELSE work[c].time] /\ upset' = upset
  <2>1. /\ calendar' \in [InterviewId -> Times \cup {NoTime}]
        /\ calendar'[id] = IF calendar[id] = NoTime THEN NoTime ELSE work[c].time
        /\ \A j \in InterviewId : j # id => calendar'[j] = calendar[j]
    BY <1>2, <1>3, <1>6 DEF InterviewsInv, InterviewsTypeOK
  <2>2. InterviewsTypeOK'
    BY <1>4, <1>5, <1>6, <2>1 DEF InterviewsInv, InterviewsTypeOK
  <2>3. ASSUME id \notin upset' PROVE Agreed(id)'
    <3>1. /\ interviews[id].status = "RESCHEDULED" /\ interviews[id].linked
          /\ calendar[id] # NoTime /\ interviews[id].time = work[c].time
      BY <1>2, <1>3, <1>6, <2>3 DEF Midway
    <3> QED
      BY <1>5, <2>1, <3>1 DEF Agreed
  <2> QED
    BY <1>3, <1>4, <1>5, <1>6, <2>1, <2>2, <2>3, OneCallStep
<1>7. CASE upset' = upset \cup {id} /\ calendar' = calendar
  BY <1>1, <1>2, <1>5, <1>7, EndsAgreed DEF InterviewsInv, InterviewsTypeOK, MoveMeeting
<1> QED
  BY <1>1, <1>6, <1>7 DEF MoveMeeting

LEMMA CancelInterviewKeeps ==
  ASSUME InterviewsInv, NEW c \in Calls, CancelInterview(c)
  PROVE  InterviewsInv'
<1>1. PICK id : id = work[c].id
  OBVIOUS
<1>2. work[c] # Resting /\ work[c].op = "cancel" /\ work[c].at = "read" /\ "id" \in DOMAIN work[c]
  BY WorkFields DEF CancelInterview, Stands, InterviewsInv
<1>3. /\ WorksOn(c, id) /\ id \in DOMAIN interviews /\ id \in InterviewId /\ interviews[id] \in Interview
      /\ id \notin upset => Midway(c, id)
  BY <1>1, <1>2, ItsInterview
<1>4. /\ interviews[id].answered \in Times \cup {NoTime} /\ "CANCELLED" \in InterviewStatus
      /\ interviews[id].linked \in BOOLEAN /\ interviews[id].time \in Times
  BY <1>3 DEF Interview, InterviewStatus, Arranged, Waiting
<1>5. Set(id, "CANCELLED", interviews[id].time, interviews[id].answered) /\ UNCHANGED <<application, calendar>>
  BY <1>1 DEF CancelInterview
<1>6. CASE ~interviews[id].linked
  <2>1. EndCall(c)
    BY <1>1, <1>6 DEF CancelInterview
  <2> QED
    BY <1>2, <1>3, <1>4, <1>5, <1>6, <2>1, SetsAndEnds
<1>7. CASE interviews[id].linked
  <2>1. work' = [work EXCEPT ![c].at = "updated"]
    BY <1>1, <1>7 DEF CancelInterview
  <2>2. /\ work' \in [Calls -> Work \cup {Resting}]
        /\ work'[c] # Resting /\ work'[c].at = "updated" /\ work'[c].op = "cancel"
        /\ work'[c].id = id /\ "id" \in DOMAIN work'[c]
        /\ \A d \in Calls : d # c => work'[d] = work[d]
    BY <1>1, <1>2, <2>1, MovesOn DEF InterviewsInv
  <2>3. /\ interviews' \in Seq(Interview) /\ Len(interviews') = Len(interviews)
        /\ DOMAIN interviews' = DOMAIN interviews
        /\ interviews'[id].status = "CANCELLED"
        /\ \A j \in DOMAIN interviews : j # id => interviews'[j] = interviews[j]
        /\ upset \subseteq upset' /\ upset' \subseteq upset \cup {id}
    BY <1>3, <1>4, <1>5, SetFacts DEF InterviewsInv
  <2>4. InterviewsTypeOK'
    BY <1>3, <1>5, <2>2, <2>3 DEF InterviewsInv, InterviewsTypeOK
  <2>5. WorksOn(c, id)' /\ Midway(c, id)'
    BY <2>2, <2>3 DEF WorksOn, Midway
  <2> QED
    BY <1>3, <1>5, <2>2, <2>3, <2>4, <2>5, OneCallStep
<1> QED
  BY <1>4, <1>6, <1>7

LEMMA CancelMeetingKeeps ==
  ASSUME InterviewsInv, NEW c \in Calls, CancelMeeting(c)
  PROVE  InterviewsInv'
<1>1. PICK id : id = work[c].id
  OBVIOUS
<1>2. work[c] # Resting /\ work[c].op = "cancel" /\ work[c].at = "updated" /\ "id" \in DOMAIN work[c]
  BY WorkFields DEF CancelMeeting, Stands, InterviewsInv
<1>3. /\ WorksOn(c, id) /\ id \in DOMAIN interviews /\ id \in InterviewId
      /\ id \notin upset => Midway(c, id)
  BY <1>1, <1>2, ItsInterview
<1>4. /\ work' \in [Calls -> Work \cup {Resting}] /\ work'[c] = Resting
      /\ \A d \in Calls : d # c => work'[d] = work[d]
  BY CallRests DEF InterviewsInv, CancelMeeting
<1>5. UNCHANGED <<application, interviews>>
  BY DEF CancelMeeting
<1>6. CASE calendar' = [calendar EXCEPT ![id] = NoTime] /\ upset' = upset
  <2>1. /\ calendar' \in [InterviewId -> Times \cup {NoTime}] /\ calendar'[id] = NoTime
        /\ \A j \in InterviewId : j # id => calendar'[j] = calendar[j]
    BY <1>3, <1>6 DEF InterviewsInv, InterviewsTypeOK
  <2>2. InterviewsTypeOK'
    BY <1>4, <1>5, <1>6, <2>1 DEF InterviewsInv, InterviewsTypeOK
  <2>3. id \notin upset' => Agreed(id)'
    BY <1>2, <1>3, <1>5, <1>6, <2>1 DEF Agreed, Midway
  <2> QED
    BY <1>3, <1>4, <1>5, <1>6, <2>1, <2>2, <2>3, OneCallStep
<1>7. CASE upset' = upset \cup {id} /\ calendar' = calendar
  BY <1>1, <1>2, <1>5, <1>7, EndsAgreed DEF InterviewsInv, InterviewsTypeOK, CancelMeeting
<1> QED
  BY <1>1, <1>6, <1>7 DEF CancelMeeting

\* The console calls an interview off, and the event stays at its time.
LEMMA StrikeKeeps ==
  ASSUME InterviewsInv, NEW c \in Calls, Strike(c)
  PROVE  InterviewsInv'
<1>1. PICK id : id = work[c].id
  OBVIOUS
<1>2. work[c] # Resting /\ work[c].op = "strike" /\ work[c].at = "read" /\ "id" \in DOMAIN work[c]
  BY WorkFields DEF Strike, Stands, InterviewsInv
<1>3. /\ WorksOn(c, id) /\ id \in DOMAIN interviews /\ id \in InterviewId /\ interviews[id] \in Interview
      /\ id \notin upset => Midway(c, id)
  BY <1>1, <1>2, ItsInterview
<1> DEFINE row == [interviews[id] EXCEPT !.status = "CANCELLED", !.struck = TRUE]
<1>4. /\ row \in Interview /\ row.status = "CANCELLED" /\ row.struck
      /\ row.time = interviews[id].time /\ row.linked = interviews[id].linked
  BY <1>3 DEF Interview, InterviewStatus
<1>5. /\ interviews' = [interviews EXCEPT ![id] = row] /\ EndCall(c)
      /\ UNCHANGED <<application, calendar, upset>>
  BY <1>1 DEF Strike
<1> HIDE DEF row
<1>6. /\ interviews' \in Seq(Interview) /\ Len(interviews') = Len(interviews)
      /\ DOMAIN interviews' = DOMAIN interviews /\ interviews'[id] = row
      /\ \A j \in DOMAIN interviews : j # id => interviews'[j] = interviews[j]
  BY <1>3, <1>4, <1>5, RowRewritten DEF InterviewsInv
<1>7. /\ work' \in [Calls -> Work \cup {Resting}] /\ work'[c] = Resting
      /\ \A d \in Calls : d # c => work'[d] = work[d]
  BY <1>5, CallRests DEF InterviewsInv
<1>8. InterviewsTypeOK'
  BY <1>5, <1>6, <1>7 DEF InterviewsInv, InterviewsTypeOK
<1>9. ASSUME id \notin upset' PROVE Agreed(id)'
  <2>1. Agreed(id)
    BY <1>2, <1>3, <1>5, <1>9 DEF Midway
  <2>2. calendar[id] = NoTime \/ (interviews[id].linked /\ calendar[id] = interviews[id].time)
    BY <1>3, <2>1 DEF Agreed, Interview
  <2>3. calendar'[id] = calendar[id]
    BY <1>5
  <2> QED
    BY <1>4, <1>6, <2>2, <2>3 DEF Agreed
<1> QED
  BY <1>3, <1>5, <1>6, <1>7, <1>8, <1>9, OneCallStep

-----------------------------------------------------------------------------
(* The invariant.                                                          *)

LEMMA InterviewsStart == InterviewsInit => InterviewsInv
<1> SUFFICES ASSUME InterviewsInit PROVE InterviewsInv
  OBVIOUS
<1>1. InterviewsTypeOK
  BY InterviewsAssumption DEF InterviewsInit, InterviewsTypeOK
<1> QED
  BY <1>1 DEF InterviewsInit, InterviewsInv, WorksOn

LEMMA InterviewsStep == InterviewsInv /\ [InterviewsNext]_interviewVars => InterviewsInv'
<1> SUFFICES ASSUME InterviewsInv, [InterviewsNext]_interviewVars
             PROVE  InterviewsInv'
  OBVIOUS
<1>1. ASSUME NEW c \in Calls, AskInterview(c) \/ CreateMeeting(c) \/ LinkMeeting(c) \/ Shortlist(c)
      PROVE  InterviewsInv'
  BY <1>1, AskInterviewKeeps, CreateMeetingKeeps, LinkMeetingKeeps, ShortlistKeeps
<1>2. ASSUME NEW c \in Calls, MoveMeeting(c) \/ CancelInterview(c) \/ CancelMeeting(c) \/ Strike(c)
                                \/ DropCall(c)
      PROVE  InterviewsInv'
  BY <1>2, MoveMeetingKeeps, CancelInterviewKeeps, CancelMeetingKeeps, StrikeKeeps,
     DropCallKeeps
<1>3. ASSUME NEW c \in Calls, NEW time \in Times, CreateInterview(c, time) \/ Reschedule(c, time)
      PROVE  InterviewsInv'
  BY <1>3, CreateInterviewKeeps, RescheduleKeeps
<1>4. ASSUME NEW c \in Calls, NEW accept \in BOOLEAN, AnswerInterview(c, accept)
      PROVE  InterviewsInv'
  BY <1>4, AnswerInterviewKeeps
<1>5. ASSUME NEW c \in Calls, NEW status \in {"COMPLETED", "NO_SHOW"}, CompleteInterview(c, status)
      PROVE  InterviewsInv'
  BY <1>5, CompleteInterviewKeeps
<1>6. ASSUME NEW c \in Calls, NEW id \in DOMAIN interviews,
             AskRespond(c, id) \/ AskReschedule(c, id) \/ AskCancelInterview(c, id)
               \/ AskComplete(c, id) \/ AskStrike(c, id)
      PROVE  InterviewsInv'
  BY <1>6, BeginKeeps DEF AskRespond, AskReschedule, AskCancelInterview, AskComplete, AskStrike
<1>7. ASSUME NEW status \in {"SHORTLISTED", "ACCEPTED"}, DecideApplication(status)
      PROVE  InterviewsInv'
  <2>1. application' = status /\ UNCHANGED <<interviews, calendar, work, upset>>
    BY <1>7 DEF DecideApplication
  <2>2. InterviewsTypeOK'
    BY <2>1 DEF InterviewsInv, InterviewsTypeOK, ApplicationStatus
  <2> QED
    BY <2>1, <2>2, StillStep DEF WorksOn
<1>8. CASE UNCHANGED interviewVars
  <2>1. UNCHANGED <<application, interviews, calendar, work, upset>>
    BY <1>8 DEF interviewVars
  <2>2. InterviewsTypeOK'
    BY <2>1 DEF InterviewsInv, InterviewsTypeOK
  <2> QED
    BY <2>1, <2>2, StillStep DEF WorksOn
<1> QED
  BY <1>1, <1>2, <1>3, <1>4, <1>5, <1>6, <1>7, <1>8 DEF InterviewsNext

\* Whatever order the steps of schedule, respond, reschedule and cancel
\* (interviews.service.ts) and of the console's cancel come in, an interview over which nothing went wrong has
\* at most one call on it, and the calendar is as far from the row as that call is.
THEOREM InterviewsHold == InterviewsSpec => []InterviewsInv
  BY InterviewsStart, InterviewsStep, PTL DEF InterviewsSpec

\* The interviews, the calendar and the calls in hand keep their shapes.
THEOREM InterviewsTyping == InterviewsSpec => []InterviewsTypeOK
<1>1. InterviewsInv => InterviewsTypeOK
  BY DEF InterviewsInv
<1> QED
  BY <1>1, InterviewsHold, PTL

\* reschedule and cancel: however many calls there are, an interview over which
\* none crossed, Google never failed and nobody brought back from the cancelled
\* reads ACCEPTED only for the time that was accepted, with the event at its time;
\* once called off it has no event, unless the console did it and left the event.
THEOREM TimesAgreed == InterviewsSpec => []TimeAgreed
<1>1. InterviewsInv => TimeAgreed
  <2> SUFFICES ASSUME InterviewsInv, NEW id \in DOMAIN interviews, Undisturbed(id)
               PROVE  /\ interviews[id].status = "ACCEPTED" => interviews[id].answered = interviews[id].time
                      /\ interviews[id].status \in Arranged =>
                           calendar[id] = IF interviews[id].linked THEN interviews[id].time ELSE NoTime
                      /\ interviews[id].status = "CANCELLED" =>
                           \/ calendar[id] = NoTime
                           \/ /\ interviews[id].struck
                              /\ calendar[id] = IF interviews[id].linked THEN interviews[id].time
                                                ELSE NoTime
    BY DEF TimeAgreed
  <2>1. Agreed(id)
    BY DEF InterviewsInv, InOrder, Undisturbed
  <2> QED
    BY <2>1 DEF Agreed, Arranged, Waiting
<1> QED
  BY <1>1, InterviewsHold, PTL

-----------------------------------------------------------------------------
(***************************************************************************)
(* Booking the room, proved for any number of people, requests, meetings   *)
(* and slots: nothing but two requests that crossed takes it twice.        *)
(*                                                                         *)
(* What the proof turns on: a booking only ever stops being one, so what a *)
(* request found free among the meetings it looked at stays free among     *)
(* them.                                                                   *)
(***************************************************************************)

Formed ==
  /\ meetings \in Seq(Meeting) /\ Len(meetings) <= MaxMeetings
  /\ request \in [Requests -> MeetingCall \cup {Free}]
  /\ stamps \in 0..MaxStamps

\* What a request to book has looked at is still free for it.
FoundFree(r) ==
  Has(r, "schedule") =>
    /\ request[r].seen <= Len(meetings)
    /\ ~request[r].video =>
         \A m \in 1..request[r].seen, i \in 1..request[r].count :
           Booked(m) => ~Overlap(meetings[m].slot, Occurrences(request[r].slot, request[r].count)[i])

RoomInv == Formed /\ (\A r \in Requests : FoundFree(r)) /\ RoomSharedByCrossing

-----------------------------------------------------------------------------
\* The meetings are numbered from 1.
LEMMA MeetingIndices ==
  ASSUME Formed
  PROVE  /\ Len(meetings) \in Nat /\ DOMAIN meetings = 1..Len(meetings)
         /\ \A m \in DOMAIN meetings : meetings[m] \in Meeting
BY LenProperties, ElementOfSeq DEF Formed

\* A request to book, as it was taken up.
LEMMA ScheduleFields ==
  ASSUME NEW e \in MeetingCall, e.op = "schedule"
  PROVE  /\ e.slot \in Slots /\ e.video \in BOOLEAN /\ e.count \in 1..MaxRepeats
         /\ e.seen \in 0..MaxMeetings
BY DEF MeetingCall

\* A step that books nothing keeps the room.
LEMMA NothingBooked ==
  ASSUME RoomInv, Formed', Len(meetings') = Len(meetings),
         \A m \in DOMAIN meetings :
           /\ meetings'[m].slot = meetings[m].slot /\ meetings'[m].seen = meetings[m].seen
           /\ Booked(m)' => Booked(m),
         \A r \in Requests : request'[r] = request[r] \/ FoundFree(r)'
  PROVE  RoomInv'
<1>1. DOMAIN meetings = 1..Len(meetings) /\ DOMAIN meetings' = 1..Len(meetings) /\ Len(meetings) \in Nat
  BY MeetingIndices, LenProperties DEF RoomInv, Formed
<1>2. ASSUME NEW r \in Requests PROVE FoundFree(r)'
  <2>1. CASE request'[r] = request[r] /\ Has(r, "schedule")
    <3>1. FoundFree(r) /\ request[r] \in MeetingCall /\ request[r].op = "schedule"
      BY <2>1 DEF RoomInv, Formed, Has
    <3>2. request[r].seen \in Nat /\ request[r].seen <= Len(meetings)
      BY <2>1, <3>1, ScheduleFields, MeetingBounds DEF FoundFree
    <3>3. 1..request[r].seen \subseteq DOMAIN meetings
      BY <1>1, <3>2
    <3> QED
      BY <2>1, <3>1, <3>3 DEF FoundFree, Has
  <2> QED
    BY <2>1 DEF FoundFree, Has
<1>3. RoomSharedByCrossing'
  BY <1>1 DEF RoomInv, RoomSharedByCrossing
<1> QED
  BY <1>2, <1>3 DEF RoomInv
\* A step of one request that leaves the meetings alone.
LEMMA OneRequest ==
  ASSUME RoomInv, NEW r \in Requests, NEW e \in MeetingCall \cup {Free},
         request' = [request EXCEPT ![r] = e], meetings' = meetings,
         stamps' \in 0..MaxStamps,
         e = Free \/ e.op # "schedule" \/ FoundFree(r)'
  PROVE  RoomInv'
<1>1. Formed'
  BY DEF RoomInv, Formed
<1>2. ASSUME NEW q \in Requests PROVE request'[q] = request[q] \/ FoundFree(q)'
  <2>1. CASE q = r
    <3>1. request'[r] = e
      BY DEF RoomInv, Formed
    <3> QED
      BY <2>1, <3>1 DEF FoundFree, Has
  <2>2. CASE q # r
    BY <2>2 DEF RoomInv, Formed
  <2> QED
    BY <2>1, <2>2
<1> QED
  BY <1>1, <1>2, NothingBooked DEF Booked

\* What a call about a meeting takes up is a call.
LEMMA CallMade ==
  ASSUME NEW m \in MeetingId, NEW p \in People
  PROVE  /\ [op |-> "leave", meeting |-> m, person |-> p] \in MeetingCall
         /\ \A done \in BOOLEAN : [op |-> "end", meeting |-> m, done |-> done] \in MeetingCall
         /\ \A stamp \in Stamp, pending \in BOOLEAN :
              [op |-> "join", meeting |-> m, person |-> p, stamp |-> stamp,
               pending |-> pending] \in MeetingCall
BY DEF MeetingCall

\* A request to book has looked at every meeting there is.
LEMMA AskMeetingKeeps ==
  ASSUME RoomInv, NEW r \in Requests, NEW slot \in Slots, NEW video \in BOOLEAN,
         NEW count \in 1..MaxRepeats, AskMeeting(r, slot, video, count)
  PROVE  RoomInv'
<1> DEFINE e == [op |-> "schedule", slot |-> slot, video |-> video, count |-> count,
                 seen |-> Len(meetings)]
<1>1. Formed /\ Len(meetings) \in 0..MaxMeetings /\ DOMAIN meetings = 1..Len(meetings)
  BY MeetingIndices, MeetingBounds DEF RoomInv, Formed
<1>2. e \in MeetingCall
  BY <1>1 DEF MeetingCall
<1>3. request' = [request EXCEPT ![r] = e] /\ meetings' = meetings /\ stamps' = stamps
  BY DEF AskMeeting, TakeUp
<1>4. request'[r] = e
  BY <1>1, <1>3 DEF Formed
<1>5. video \/ ~Busy(slot, count)
  BY DEF AskMeeting
<1>6. FoundFree(r)'
  BY <1>1, <1>3, <1>4, <1>5 DEF FoundFree, Has, Busy, Booked
<1> QED
  BY <1>1, <1>2, <1>3, <1>6, OneRequest DEF Formed

\* Joining, leaving and ending take up, go on with, or give back a request.
LEMMA CallsKeep ==
  ASSUME RoomInv, NEW r \in Requests,
         \/ Admit(r) \/ Leave(r) \/ EndRoom(r) \/ DropRequest(r)
         \/ \E m \in DOMAIN meetings : AskEnd(r, m) \/ \E p \in People : AskJoin(r, m, p) \/ AskLeave(r, m, p)
  PROVE  RoomInv'
<1>1. Formed /\ DOMAIN meetings \subseteq MeetingId
  BY MeetingIndices, MeetingBounds DEF RoomInv, Formed, MeetingId
<1>2. stamps \in 0..MaxStamps /\ (CanStamp => NextStamp \in 0..MaxStamps /\ NextStamp \in Stamp)
  BY <1>1, MeetingBounds DEF Formed, CanStamp, NextStamp, Stamp
<1>3. CASE Admit(r) \/ Leave(r) \/ EndRoom(r) \/ DropRequest(r)
  <2>1. /\ request' = [request EXCEPT ![r] = Free] /\ meetings' = meetings
        /\ stamps' \in 0..MaxStamps
    BY <1>2, <1>3 DEF Admit, Leave, EndRoom, DropRequest, Give
  <2> QED
    BY <2>1, OneRequest
<1>4. ASSUME NEW m \in DOMAIN meetings, AskEnd(r, m) PROVE RoomInv'
  <2> DEFINE e == [op |-> "end", meeting |-> m, done |-> FALSE]
  <2>1. e \in MeetingCall
    BY <1>1 DEF MeetingCall
  <2>2. request' = [request EXCEPT ![r] = e] /\ meetings' = meetings /\ stamps' = stamps
    BY <1>4 DEF AskEnd, TakeUp
  <2> QED
    BY <1>2, <2>1, <2>2, OneRequest
<1>5. ASSUME NEW m \in DOMAIN meetings, NEW p \in People, AskJoin(r, m, p) PROVE RoomInv'
  <2> DEFINE e == [op |-> "join", meeting |-> m, person |-> p, stamp |-> NextStamp,
                   pending |-> seats[<<m, p>>].response = "PENDING"]
  <2>1. e \in MeetingCall
    BY <1>1, <1>2, <1>5, CallMade DEF AskJoin
  <2>2. request' = [request EXCEPT ![r] = e] /\ meetings' = meetings /\ stamps' \in 0..MaxStamps
    BY <1>2, <1>5 DEF AskJoin, TakeUp
  <2> QED
    BY <2>1, <2>2, OneRequest
<1>6. ASSUME NEW m \in DOMAIN meetings, NEW p \in People, AskLeave(r, m, p) PROVE RoomInv'
  <2> DEFINE e == [op |-> "leave", meeting |-> m, person |-> p]
  <2>1. e \in MeetingCall
    BY <1>1, CallMade
  <2>2. request' = [request EXCEPT ![r] = e] /\ meetings' = meetings /\ stamps' = stamps
    BY <1>6 DEF AskLeave, TakeUp
  <2> QED
    BY <1>2, <2>1, <2>2, OneRequest
<1> QED
  BY <1>3, <1>4, <1>5, <1>6

\* A meeting that is called off or ended is not booked any more.
LEMMA EndingKeeps ==
  ASSUME RoomInv,
         \/ \E r \in Requests : End(r)
         \/ \E m \in DOMAIN meetings, wholeSeries \in BOOLEAN : Cancel(m, wholeSeries)
  PROVE  RoomInv'
<1>1. Formed /\ Len(meetings) \in Nat /\ DOMAIN meetings = 1..Len(meetings)
  BY MeetingIndices DEF RoomInv
<1>2. ASSUME NEW x \in Meeting, NEW status \in {"CANCELLED", "ENDED"}
      PROVE  LET y == [x EXCEPT !.status = status]
             IN  /\ y \in Meeting /\ y.slot = x.slot /\ y.seen = x.seen /\ y.video = x.video
                 /\ y.status = status
  BY DEF Meeting
<1>3. ASSUME NEW r \in Requests, End(r) PROVE RoomInv'
  <2> DEFINE m == request[r].meeting
             y == [meetings[m] EXCEPT !.status = "ENDED"]
             e == [request[r] EXCEPT !.done = TRUE]
  <2>1. meetings' = [meetings EXCEPT ![m] = y] /\ request' = [request EXCEPT ![r] = e]
    BY <1>3 DEF End
  <2>2. e \in MeetingCall /\ e.op = "end"
    <3>1. request[r] \in MeetingCall /\ request[r].op = "end"
      BY <1>1, <1>3 DEF Formed, End, Has
    <3>2. request[r] \in [op : {"end"}, meeting : MeetingId, done : BOOLEAN]
      BY <3>1 DEF MeetingCall
    <3>3. e \in [op : {"end"}, meeting : MeetingId, done : BOOLEAN]
      BY <3>2
    <3> QED
      BY <3>3 DEF MeetingCall
  <2>3. /\ DOMAIN meetings' = DOMAIN meetings
        /\ \A n \in DOMAIN meetings :
             /\ meetings'[n] \in Meeting
             /\ meetings'[n].slot = meetings[n].slot /\ meetings'[n].seen = meetings[n].seen
             /\ Booked(n)' => Booked(n)
    <3>1. ASSUME NEW n \in DOMAIN meetings, n # m
          PROVE  meetings'[n] = meetings[n] /\ meetings[n] \in Meeting
      BY <1>1, <2>1, <3>1, MeetingIndices
    <3>2. ASSUME NEW n \in DOMAIN meetings, n = m
          PROVE  meetings'[n] = y /\ y \in Meeting /\ y.status = "ENDED"
                 /\ y.slot = meetings[n].slot /\ y.seen = meetings[n].seen
      BY <1>1, <1>2, <2>1, <3>2, MeetingIndices
    <3> HIDE DEF y, m
    <3> QED
      BY <1>1, <2>1, <3>1, <3>2 DEF Booked
  <2>4. meetings' \in Seq(Meeting) /\ Len(meetings') = Len(meetings)
    <3>1. meetings \in Seq(Meeting)
      BY <1>1 DEF Formed
    <3>2. CASE m \in 1..Len(meetings)
      <4>1. y \in Meeting
        BY <1>1, <1>2, <3>2, MeetingIndices
      <4> HIDE DEF y, m
      <4> QED
        BY <2>1, <3>1, <3>2, <4>1, ExceptSeq
    <3>3. CASE m \notin 1..Len(meetings)
      <4>1. meetings = [n \in 1..Len(meetings) |-> meetings[n]]
        BY <1>1, <3>1
      <4>2. meetings' = [n \in 1..Len(meetings) |-> meetings[n]]
        BY <1>1, <2>1, <3>3
      <4> QED
        BY <3>1, <4>1, <4>2
    <3> QED
      BY <3>2, <3>3
  <2>5. stamps' \in 0..MaxStamps
    BY <1>1, <1>3, MeetingBounds DEF End, CanStamp, NextStamp, Formed
  <2>6. Formed'
    BY <1>1, <2>1, <2>2, <2>4, <2>5 DEF Formed
  <2>7. \A q \in Requests : request'[q] = request[q] \/ FoundFree(q)'
    BY <1>1, <2>1, <2>2 DEF Formed, FoundFree, Has
  <2> QED
    BY <2>3, <2>4, <2>6, <2>7, NothingBooked
<1>4. ASSUME NEW m \in DOMAIN meetings, NEW wholeSeries \in BOOLEAN, Cancel(m, wholeSeries)
      PROVE  RoomInv'
  <2>1. /\ DOMAIN meetings' = 1..Len(meetings)
        /\ \A n \in DOMAIN meetings :
             meetings'[n] = meetings[n] \/ meetings'[n] = [meetings[n] EXCEPT !.status = "CANCELLED"]
        /\ meetings' = [n \in 1..Len(meetings) |-> meetings'[n]]
    BY <1>1, <1>4 DEF Cancel
  <2>2. \A n \in DOMAIN meetings :
             /\ meetings'[n] \in Meeting
             /\ meetings'[n].slot = meetings[n].slot /\ meetings'[n].seen = meetings[n].seen
             /\ Booked(n)' => Booked(n)
    <3>1. ASSUME NEW n \in DOMAIN meetings
          PROVE  /\ meetings'[n] \in Meeting
                 /\ meetings'[n].slot = meetings[n].slot /\ meetings'[n].seen = meetings[n].seen
                 /\ Booked(n)' => Booked(n)
      <4>1. meetings[n] \in Meeting
        BY <1>1, MeetingIndices
      <4>2. CASE meetings'[n] = meetings[n]
        BY <4>1, <4>2 DEF Booked
      <4>3. CASE meetings'[n] = [meetings[n] EXCEPT !.status = "CANCELLED"]
        BY <1>2, <4>1, <4>3 DEF Booked
      <4> QED
        BY <2>1, <4>2, <4>3
    <3> QED
      BY <3>1
  <2>3. meetings' \in Seq(Meeting) /\ Len(meetings') = Len(meetings)
    <3>1. meetings' \in [1..Len(meetings) -> Meeting]
      BY <1>1, <2>1, <2>2
    <3> QED
      BY <1>1, <3>1, SeqDef, LenProperties
  <2>4. Formed'
    BY <1>1, <1>4, <2>3 DEF Formed, Cancel
  <2>5. request' = request
    BY <1>4 DEF Cancel
  <2> QED
    BY <2>2, <2>3, <2>4, <2>5, NothingBooked
<1> QED
  BY <1>3, <1>4
\* The occurrences of a series are meetings, and know what the request had seen.
LEMMA SeriesMade ==
  ASSUME NEW slot \in Slots, NEW video \in BOOLEAN, NEW count \in 1..MaxRepeats,
         NEW seen \in 0..MaxMeetings, NEW first \in MeetingId, NEW new,
         new = [i \in 1..count |->
                  [slot |-> Occurrences(slot, count)[i], video |-> video,
                   status |-> "SCHEDULED", series |-> first, seen |-> seen]]
  PROVE  /\ new \in Seq(Meeting) /\ Len(new) = count
         /\ \A i \in 1..count :
              /\ new[i].slot = Occurrences(slot, count)[i]
              /\ new[i].seen = seen /\ new[i].video = video
<1>1. count \in Nat /\ slot \in Nat \X Nat /\ Shift \in Nat
  BY MeetingBounds, SlotsAssumption
<1>2. ASSUME NEW i \in 1..count PROVE Occurrences(slot, count)[i] \in Nat \X Nat
  <2> DEFINE shifted == (i - 1) * Shift
  <2>1. i - 1 \in Nat
    BY <1>1
  <2>2. shifted \in Nat
    BY <1>1, <2>1
  <2>3. Occurrences(slot, count)[i] = <<slot[1] + shifted, slot[2] + shifted>>
    BY DEF Occurrences
  <2> HIDE DEF shifted
  <2> QED
    BY <1>1, <2>2, <2>3
<1>3. \A i \in 1..count : new[i] \in Meeting
  BY <1>2 DEF Meeting
<1>4. new \in [1..count -> Meeting]
  BY <1>3
<1> QED
  BY <1>1, <1>4, SeqDef, LenProperties

\* Of the meetings written together with a new one, and before it, none is among
\* those its request had looked at, and those it looked at leave the room free.
LEMMA CreateKeeps ==
  ASSUME RoomInv, NEW r \in Requests, CreateMeetings(r)
  PROVE  RoomInv'
<1> DEFINE made == request[r]
           first == Len(meetings) + 1
           new == [i \in 1..made.count |->
                     [slot |-> Occurrences(made.slot, made.count)[i], video |-> made.video,
                      status |-> "SCHEDULED", series |-> first, seen |-> made.seen]]
           n0 == Len(meetings)
<1>1. /\ Formed /\ n0 \in Nat /\ DOMAIN meetings = 1..n0
      /\ meetings \in Seq(Meeting)
  BY MeetingIndices DEF RoomInv, Formed
<1>2. /\ made \in MeetingCall /\ made.op = "schedule" /\ FoundFree(r) /\ Has(r, "schedule")
      /\ n0 + made.count <= MaxMeetings /\ meetings' = meetings \o new
      /\ request' = [request EXCEPT ![r] = Free] /\ stamps' = stamps
  BY DEF RoomInv, Formed, CreateMeetings, Has, Give
<1>3. /\ made.slot \in Slots /\ made.video \in BOOLEAN /\ made.count \in 1..MaxRepeats
      /\ made.seen \in 0..MaxMeetings /\ made.count \in Nat \ {0}
  BY <1>2, ScheduleFields, MeetingBounds
<1>4. first \in MeetingId
  BY <1>1, <1>2, <1>3, MeetingBounds DEF MeetingId
<1>5. /\ new \in Seq(Meeting) /\ Len(new) = made.count
      /\ \A i \in 1..made.count :
           /\ new[i].slot = Occurrences(made.slot, made.count)[i]
           /\ new[i].seen = made.seen /\ new[i].video = made.video
  BY <1>3, <1>4, SeriesMade
<1> HIDE DEF new
<1>6. /\ meetings' \in Seq(Meeting) /\ Len(meetings') = n0 + made.count
      /\ \A m \in 1..(n0 + made.count) :
           meetings'[m] = IF m <= n0 THEN meetings[m] ELSE new[m - n0]
  <2>1. meetings \in Seq(Meeting) /\ new \in Seq(Meeting)
    BY <1>1, <1>5
  <2>2. Len(new) = made.count /\ meetings' = meetings \o new
    BY <1>2, <1>5
  <2> QED
    BY <2>1, <2>2, ConcatProperties
<1>7. DOMAIN meetings' = 1..(n0 + made.count)
  BY <1>6, LenProperties
<1>8. /\ \A m \in 1..n0 : meetings'[m] = meetings[m]
      /\ \A m \in (n0 + 1)..(n0 + made.count) :
           m - n0 \in 1..made.count /\ meetings'[m] = new[m - n0]
  <2>1. PICK k \in Nat : k = made.count
    BY <1>3
  <2>2. ASSUME NEW m \in 1..n0 PROVE meetings'[m] = meetings[m]
    <3>1. m \in 1..(n0 + k) /\ m <= n0
      BY <1>1, <2>1
    <3> QED
      BY <1>6, <2>1, <3>1
  <2>3. ASSUME NEW m \in (n0 + 1)..(n0 + k)
        PROVE  m - n0 \in 1..k /\ meetings'[m] = new[m - n0]
    <3>1. m \in 1..(n0 + k) /\ ~(m <= n0) /\ m - n0 \in 1..k
      BY <1>1, <2>1
    <3> QED
      BY <1>6, <2>1, <3>1
  <2> QED
    BY <2>1, <2>2, <2>3
<1>9. Formed'
  BY <1>1, <1>2, <1>6 DEF Formed
<1>10. ASSUME NEW q \in Requests PROVE FoundFree(q)'
  <2>1. CASE q = r
    BY <1>1, <1>2, <2>1 DEF Formed, FoundFree, Has
  <2>2. CASE q # r /\ Has(q, "schedule")
    <3>1. request'[q] = request[q] /\ FoundFree(q) /\ request[q] \in MeetingCall
      BY <1>1, <1>2, <2>2 DEF RoomInv, Formed, Has
    <3>2. request[q].seen \in Nat /\ request[q].seen <= n0
      BY <2>2, <3>1, ScheduleFields, MeetingBounds DEF FoundFree, Has
    <3>3. \A m \in 1..request[q].seen : meetings'[m] = meetings[m]
      BY <1>1, <1>8, <3>2
    <3>4. request[q].seen <= Len(meetings')
      BY <1>1, <1>3, <1>6, <3>2
    <3> QED
      BY <2>2, <3>1, <3>3, <3>4 DEF FoundFree, Has, Booked
  <2>3. CASE q # r /\ ~Has(q, "schedule")
    BY <1>1, <1>2, <2>3 DEF Formed, FoundFree, Has
  <2> QED
    BY <2>1, <2>2, <2>3
<1>11. ASSUME NEW m \in DOMAIN meetings', NEW n \in DOMAIN meetings', m < n,
              Booked(m)', Booked(n)', Overlap(meetings'[m].slot, meetings'[n].slot)
       PROVE  meetings'[n].seen < m
  <2>1. CASE n <= n0
    <3>1. /\ m \in DOMAIN meetings /\ n \in DOMAIN meetings
          /\ meetings'[m] = meetings[m] /\ meetings'[n] = meetings[n]
      BY <1>1, <1>7, <1>8, <1>11, <2>1
    <3> QED
      BY <1>11, <3>1 DEF RoomInv, RoomSharedByCrossing, Booked
  <2>2. CASE n > n0
    <3> DEFINE i == n - n0
    <3>1. /\ i \in 1..made.count /\ meetings'[n] = new[i]
          /\ m \in Nat /\ m >= 1 /\ made.seen \in Nat
      BY <1>1, <1>3, <1>7, <1>8, <2>2, MeetingBounds
    <3> HIDE DEF i
    <3>2. /\ meetings'[n].seen = made.seen
          /\ meetings'[n].slot = Occurrences(made.slot, made.count)[i]
          /\ ~made.video
      BY <1>5, <1>11, <3>1 DEF Booked
    <3>3. made.seen <= n0 /\ n0 \in Nat
      BY <1>1, <1>2 DEF FoundFree
    <3>4. CASE m <= made.seen
      <4>1. m \in 1..made.seen /\ meetings'[m] = meetings[m]
        BY <1>1, <1>8, <3>1, <3>3, <3>4
      <4>2. Booked(m)
        BY <1>11, <4>1 DEF Booked
      <4>3. ~Overlap(meetings[m].slot, Occurrences(made.slot, made.count)[i])
        BY <1>2, <3>1, <3>2, <4>1, <4>2 DEF FoundFree
      <4> QED
        BY <1>11, <3>2, <4>1, <4>3
    <3> QED
      BY <3>1, <3>2, <3>4
  <2> QED
    BY <1>1, <1>3, <1>7, <2>1, <2>2
<1>12. RoomSharedByCrossing'
  BY <1>11 DEF RoomSharedByCrossing
<1> QED
  BY <1>9, <1>10, <1>12 DEF RoomInv

-----------------------------------------------------------------------------
(* The theorem.                                                            *)

LEMMA RoomKept ==
  ASSUME RoomInv, [MeetingsNext]_meetingVars
  PROVE  RoomInv'
<1>1. CASE \E r \in Requests, slot \in Slots, video \in BOOLEAN, count \in 1..MaxRepeats :
             AskMeeting(r, slot, video, count)
  BY <1>1, AskMeetingKeeps
<1>2. CASE \E r \in Requests : CreateMeetings(r)
  BY <1>2, CreateKeeps
<1>3. CASE \E r \in Requests :
             \/ Admit(r) \/ Leave(r) \/ EndRoom(r) \/ DropRequest(r)
             \/ \E m \in DOMAIN meetings :
                  AskEnd(r, m) \/ \E p \in People : AskJoin(r, m, p) \/ AskLeave(r, m, p)
  BY <1>3, CallsKeep
<1>4. CASE \/ \E r \in Requests : End(r)
           \/ \E m \in DOMAIN meetings, wholeSeries \in BOOLEAN : Cancel(m, wholeSeries)
  BY <1>4, EndingKeeps
<1>5. CASE /\ UNCHANGED <<meetings, request>>
           /\ stamps' = stamps \/ (CanStamp /\ stamps' = NextStamp)
  <2>1. Formed'
    BY <1>5, MeetingBounds DEF RoomInv, Formed, CanStamp, NextStamp
  <2> QED
    BY <1>5, <2>1, NothingBooked DEF Booked
<1>6. ASSUME \/ \E m \in DOMAIN meetings :
                  \/ \E p \in People, response \in {"ACCEPTED", "DECLINED"} : AnswerInvitation(m, p, response)
                  \/ CloseRoom(m)
             \/ \E s \in Seat : Connect(s) \/ Drop(s)
             \/ \E i \in DOMAIN news : Hear(i) \/ Miss(i)
             \/ UNCHANGED meetingVars
      PROVE  /\ UNCHANGED <<meetings, request>>
             /\ stamps' = stamps \/ (CanStamp /\ stamps' = NextStamp)
  BY <1>6 DEF AnswerInvitation, CloseRoom, Connect, Drop, Hear, Miss, meetingVars
<1> QED
  BY <1>1, <1>2, <1>3, <1>4, <1>5, <1>6 DEF MeetingsNext

\* assertRoomFree (meetings.service.ts) looks at the room before the transaction
\* that writes: whatever is called off, ended or repeated in a series, two bookings
\* share the room only if the later one was asked for before the earlier was written.
THEOREM RoomSharedOnlyByCrossing == MeetingsSpec => []RoomSharedByCrossing
<1>1. MeetingsInit => RoomInv
  <2>1. ASSUME MeetingsInit PROVE Formed
    BY <2>1, EmptySeq, MeetingBounds DEF MeetingsInit, Formed
  <2>2. ASSUME MeetingsInit PROVE RoomSharedByCrossing
    BY <2>2 DEF MeetingsInit, RoomSharedByCrossing
  <2> QED
    BY <2>1, <2>2 DEF MeetingsInit, RoomInv, FoundFree, Has
<1>2. RoomInv /\ [MeetingsNext]_meetingVars => RoomInv'
  BY RoomKept
<1>3. RoomInv => RoomSharedByCrossing
  BY DEF RoomInv
<1> QED
  BY <1>1, <1>2, <1>3, PTL DEF MeetingsSpec

-----------------------------------------------------------------------------
(***************************************************************************)
(* Who is shown in a call, proved for any number of people, devices' calls *)
(* and notifications: once all that LiveKit said of a person is heard, in  *)
(* the order it was said, the row tells where they are.                    *)
(*                                                                         *)
(* What the proof turns on: of what is still to be heard of a person, the  *)
(* last word is where they are; so nothing need be known of the words      *)
(* before it.                                                              *)
(***************************************************************************)

\* The variables of the call have their shapes, and only finitely many people
\* are connected.
Seated ==
  /\ seats \in [Seat -> SeatRow]
  /\ connected \subseteq Seat /\ IsFiniteSet(connected)
  /\ passes \subseteq Seat /\ disturbed \subseteq Seat
  /\ rooms \subseteq MeetingId
  /\ news \in Seq(News)

\* No time is ahead of the clock.
Past ==
  /\ \A s \in Seat :
       /\ seats[s].joinedAt # Never => seats[s].joinedAt <= stamps
       /\ seats[s].leftAt # Never => seats[s].leftAt <= stamps
  /\ \A r \in Requests : Has(r, "join") => request[r].stamp <= stamps

About(n, s) == n.meeting = s[1] /\ s[2] \in n.about

\* Somebody has ended the meeting, and the room is still to be closed.
Ending(m) == \E r \in Requests : Has(r, "end") /\ request[r].done /\ request[r].meeting = m

\* The row tells what LiveKit sees.
Tells(s) ==
  /\ s \in connected => InCall(s) \/ Ending(s[1])
  /\ InCall(s) => s \in connected \cup passes

Heard(s) == \A i \in DOMAIN news : ~Concerns(i, s)

\* Of what is still to be heard of somebody, the last word is where they are; when
\* all has been heard the row tells it.
Told(s) ==
  s \notin disturbed =>
    /\ \A i \in DOMAIN news :
         Concerns(i, s) /\ (\A j \in DOMAIN news : j > i => ~Concerns(j, s))
           => (news[i].kind = "joined" <=> s \in connected)
    /\ Heard(s) => Tells(s)

CallInv == RoomInv /\ Seated /\ Past /\ (\A s \in Seat : Told(s))

-----------------------------------------------------------------------------
\* The news is numbered from 1.
LEMMA NewsIndices ==
  ASSUME Seated
  PROVE  /\ Len(news) \in Nat /\ DOMAIN news = 1..Len(news)
         /\ \A i \in DOMAIN news : news[i] \in News
BY LenProperties, ElementOfSeq DEF Seated

\* A notice is news of one seat.
LEMMA NoticeAbout ==
  ASSUME NEW s \in Seat, NEW kind \in {"joined", "left"}
  PROVE  /\ Notice(kind, s) \in News /\ Notice(kind, s).kind = kind
         /\ \A t \in Seat : About(Notice(kind, s), t) <=> t = s
<1>1. s[1] \in MeetingId /\ s[2] \in People
  BY DEF Seat
<1>2. Notice(kind, s) \in News /\ Notice(kind, s).kind = kind
  BY <1>1 DEF Notice, News
<1>3. ASSUME NEW t \in Seat PROVE About(Notice(kind, s), t) <=> t = s
  BY DEF Notice, About, Seat
<1> QED
  BY <1>2, <1>3

\* A step that adds to the news (or leaves it) keeps what is told of a seat, if the
\* last of it is true, or if none of it is about the seat and the row still agrees.
LEMMA Telling ==
  ASSUME Seated, NEW s \in Seat, Told(s), disturbed \subseteq disturbed',
         NEW more \in Seq(News), news' = news \o more,
         \/ s \in disturbed'
         \/ /\ \E k \in 1..Len(more) : About(more[k], s)
            /\ \A k \in 1..Len(more) :
                 About(more[k], s) => (more[k].kind = "joined" <=> s \in connected')
         \/ /\ \A k \in 1..Len(more) : ~About(more[k], s)
            /\ s \in connected' <=> s \in connected
            /\ Tells(s) => Tells(s)'
  PROVE  Told(s)'
<1>0. PICK old \in Nat : old = Len(news)
  BY NewsIndices
<1>1. DOMAIN news = 1..old /\ Len(more) \in Nat
  BY <1>0, NewsIndices, LenProperties
<1>2. /\ news' \in Seq(News) /\ Len(news') = old + Len(more)
      /\ \A i \in 1..(old + Len(more)) :
           news'[i] = IF i <= old THEN news[i] ELSE more[i - old]
  BY <1>0, ConcatProperties DEF Seated
<1>3. DOMAIN news' = 1..(old + Len(more))
  BY <1>2, LenProperties
<1>4. /\ \A i \in 1..old : i \in DOMAIN news' /\ news'[i] = news[i]
      /\ \A k \in 1..Len(more) :
           old + k \in DOMAIN news' /\ news'[old + k] = more[k]
      /\ \A i \in DOMAIN news' :
           i \in 1..old \/ \E k \in 1..Len(more) : i = old + k
  <2>1. ASSUME NEW i \in 1..old PROVE i \in DOMAIN news' /\ news'[i] = news[i]
    BY <1>1, <1>2, <1>3
  <2>2. ASSUME NEW k \in 1..Len(more)
        PROVE  old + k \in DOMAIN news' /\ news'[old + k] = more[k]
    BY <1>1, <1>2, <1>3
  <2>3. ASSUME NEW i \in DOMAIN news', i \notin 1..old
        PROVE  \E k \in 1..Len(more) : i = old + k
    <3>1. i - old \in 1..Len(more) /\ i = old + (i - old)
      BY <1>1, <1>3, <2>3
    <3> QED
      BY <3>1
  <2> QED
    BY <2>1, <2>2, <2>3
<1>5. /\ \A i \in 1..old : Concerns(i, s)' <=> Concerns(i, s)
      /\ \A k \in 1..Len(more) :
           Concerns(old + k, s)' <=> About(more[k], s)
  BY <1>4 DEF Concerns, About
<1> SUFFICES ASSUME s \notin disturbed'
             PROVE  /\ \A i \in DOMAIN news' :
                         Concerns(i, s)' /\ (\A j \in DOMAIN news' : j > i => ~Concerns(j, s)')
                           => (news'[i].kind = "joined" <=> s \in connected')
                    /\ Heard(s)' => Tells(s)'
  BY DEF Told
<1>6. CASE /\ \E k \in 1..Len(more) : About(more[k], s)
           /\ \A k \in 1..Len(more) :
                About(more[k], s) => (more[k].kind = "joined" <=> s \in connected')
  <2>1. PICK k \in 1..Len(more) : About(more[k], s)
    BY <1>6
  <2>2. old + k \in DOMAIN news' /\ Concerns(old + k, s)'
    BY <1>4, <1>5, <2>1 DEF Concerns
  <2>3. ASSUME NEW i \in DOMAIN news', Concerns(i, s)',
               \A j \in DOMAIN news' : j > i => ~Concerns(j, s)'
        PROVE  news'[i].kind = "joined" <=> s \in connected'
    <3>1. i \notin 1..old
      <4>1. i \in 1..old => old + k > i
        BY <1>1
      <4> QED
        BY <2>2, <2>3, <4>1 DEF Concerns
    <3>2. PICK h \in 1..Len(more) : i = old + h
      BY <1>4, <2>3, <3>1
    <3>3. About(more[h], s) /\ news'[i] = more[h]
      BY <1>4, <1>5, <2>3, <3>2 DEF Concerns
    <3> QED
      BY <1>6, <3>3
  <2>4. ~Heard(s)'
    BY <2>2 DEF Heard, Concerns
  <2> QED
    BY <2>3, <2>4
<1>7. CASE /\ \A k \in 1..Len(more) : ~About(more[k], s)
           /\ s \in connected' <=> s \in connected
           /\ Tells(s) => Tells(s)'
  <2>1. s \notin disturbed
    OBVIOUS
  <2>2. ASSUME NEW i \in DOMAIN news', Concerns(i, s)',
               \A j \in DOMAIN news' : j > i => ~Concerns(j, s)'
        PROVE  news'[i].kind = "joined" <=> s \in connected'
    <3>1. i \in 1..old
      <4>1. ASSUME NEW k \in 1..Len(more), i = old + k PROVE FALSE
        BY <1>5, <1>7, <2>2, <4>1 DEF Concerns
      <4> QED
        BY <1>4, <2>2, <4>1
    <3>2. Concerns(i, s) /\ news'[i] = news[i]
      BY <1>4, <2>2, <3>1 DEF Concerns
    <3>3. ASSUME NEW j \in DOMAIN news, j > i PROVE ~Concerns(j, s)
      BY <1>1, <1>4, <2>2, <3>3 DEF Concerns
    <3> QED
      BY <1>1, <1>7, <2>1, <3>1, <3>2, <3>3 DEF Told
  <2>3. Heard(s)' => Heard(s)
    BY <1>1, <1>4 DEF Heard, Concerns
  <2> QED
    BY <1>7, <2>1, <2>2, <2>3 DEF Told
<1> QED
  BY <1>6, <1>7

\* The news without one piece of it.
LEMMA NewsWithout ==
  ASSUME Seated, NEW i \in DOMAIN news, NEW old \in Nat, old = Len(news)
  PROVE  /\ i \in 1..old /\ old - 1 \in Nat
         /\ Without(i) \in Seq(News) /\ DOMAIN Without(i) = 1..(old - 1)
         /\ \A j \in 1..(old - 1) : Without(i)[j] = IF j < i THEN news[j] ELSE news[j + 1]
<1> DEFINE front == SubSeq(news, 1, i - 1)
           back == SubSeq(news, i + 1, old)
<1>1. i \in 1..old /\ old - 1 \in Nat /\ news \in Seq(News) /\ old = Len(news)
  BY NewsIndices DEF Seated
<1>2. \A x \in 1..old : news[x] \in News
  BY <1>1, NewsIndices
<1>3. /\ front \in Seq(News) /\ Len(front) = i - 1
      /\ \A j \in 1..(i - 1) : front[j] = news[j]
  <2>1. i - 1 \in Int /\ 1 \in Int /\ \A j \in 1..(i - 1) : news[j] \in News
    BY <1>1, <1>2
  <2>2. /\ front \in Seq(News) /\ Len(front) = IF 1 <= i - 1 THEN (i - 1) - 1 + 1 ELSE 0
        /\ \A j \in 1..((i - 1) - 1 + 1) : front[j] = news[1 + j - 1]
    BY <2>1, SubSeqProperties
  <2> HIDE DEF front
  <2>3. Len(front) = i - 1
    BY <1>1, <2>2
  <2>4. ASSUME NEW j \in 1..(i - 1) PROVE front[j] = news[j]
    <3>1. j \in 1..((i - 1) - 1 + 1) /\ 1 + j - 1 = j
      BY <1>1
    <3> QED
      BY <2>2, <3>1
  <2> QED
    BY <2>2, <2>3, <2>4
<1>4. /\ back \in Seq(News) /\ Len(back) = old - i
      /\ \A j \in 1..(old - i) : back[j] = news[i + j]
  <2>1. i + 1 \in Int /\ old \in Int /\ \A j \in (i + 1)..old : news[j] \in News
    BY <1>1, <1>2
  <2>2. /\ back \in Seq(News) /\ Len(back) = IF i + 1 <= old THEN old - (i + 1) + 1 ELSE 0
        /\ \A j \in 1..(old - (i + 1) + 1) : back[j] = news[(i + 1) + j - 1]
    BY <2>1, SubSeqProperties
  <2> HIDE DEF back
  <2>3. Len(back) = old - i
    BY <1>1, <2>2
  <2>4. ASSUME NEW j \in 1..(old - i) PROVE back[j] = news[i + j]
    <3>1. j \in 1..(old - (i + 1) + 1) /\ (i + 1) + j - 1 = i + j
      BY <1>1
    <3> QED
      BY <2>2, <3>1
  <2> QED
    BY <2>2, <2>3, <2>4
<1>5. Without(i) = front \o back
  BY <1>1 DEF Without
<1> HIDE DEF front, back
<1>6. /\ Without(i) \in Seq(News) /\ Len(Without(i)) = (i - 1) + (old - i)
      /\ \A j \in 1..((i - 1) + (old - i)) :
           Without(i)[j] = IF j <= i - 1 THEN front[j] ELSE back[j - (i - 1)]
  BY <1>3, <1>4, <1>5, ConcatProperties
<1>7. (i - 1) + (old - i) = old - 1
  BY <1>1
<1>8. ASSUME NEW j \in 1..(old - 1)
      PROVE  Without(i)[j] = IF j < i THEN news[j] ELSE news[j + 1]
  <2>1. CASE j < i
    BY <1>1, <1>3, <1>6, <1>7, <2>1
  <2>2. CASE ~(j < i)
    <3>1. j - (i - 1) \in 1..(old - i) /\ i + (j - (i - 1)) = j + 1 /\ ~(j <= i - 1)
      BY <1>1, <2>2
    <3> QED
      BY <1>4, <1>6, <1>7, <2>2, <3>1
  <2> QED
    BY <2>1, <2>2
<1> QED
  BY <1>1, <1>6, <1>7, <1>8, LenProperties

\* A piece of news that is taken away keeps what is told of a seat, if it is not
\* about it, or if it is the first about it and, being the last, is written down.
LEMMA Hearing ==
  ASSUME Seated, NEW s \in Seat, Told(s), disturbed \subseteq disturbed',
         NEW i \in DOMAIN news, news' = Without(i), connected' = connected,
         \/ s \in disturbed'
         \/ ~Concerns(i, s) /\ (Tells(s) => Tells(s)')
         \/ /\ Concerns(i, s) /\ \A j \in 1..(i - 1) : ~Concerns(j, s)
            /\ (news[i].kind = "joined" <=> s \in connected) => Tells(s)'
  PROVE  Told(s)'
<1>0. PICK old \in Nat : old = Len(news)
  BY NewsIndices
<1>1. /\ i \in 1..old /\ old - 1 \in Nat /\ DOMAIN news = 1..old
      /\ DOMAIN news' = 1..(old - 1)
      /\ \A j \in 1..(old - 1) : news'[j] = IF j < i THEN news[j] ELSE news[j + 1]
  BY <1>0, NewsWithout, NewsIndices
<1> SUFFICES ASSUME s \notin disturbed'
             PROVE  /\ \A j \in DOMAIN news' :
                         Concerns(j, s)' /\ (\A k \in DOMAIN news' : k > j => ~Concerns(k, s)')
                           => (news'[j].kind = "joined" <=> s \in connected')
                    /\ Heard(s)' => Tells(s)'
  BY DEF Told
<1>2. /\ \A j \in 1..old : j < i =>
           /\ j \in DOMAIN news' /\ news'[j] = news[j]
           /\ Concerns(j, s)' <=> Concerns(j, s)
      /\ \A j \in 1..old : j > i =>
           /\ j - 1 \in DOMAIN news' /\ news'[j - 1] = news[j]
           /\ Concerns(j - 1, s)' <=> Concerns(j, s)
  <2>1. ASSUME NEW j \in 1..old, j < i
        PROVE  /\ j \in DOMAIN news' /\ news'[j] = news[j]
               /\ Concerns(j, s)' <=> Concerns(j, s)
    BY <1>1, <2>1 DEF Concerns
  <2>2. ASSUME NEW j \in 1..old, j > i
        PROVE  /\ j - 1 \in DOMAIN news' /\ news'[j - 1] = news[j]
               /\ Concerns(j - 1, s)' <=> Concerns(j, s)
    <3>1. j - 1 \in 1..(old - 1) /\ ~(j - 1 < i) /\ (j - 1) + 1 = j
      BY <1>1, <2>2
    <3>2. j - 1 \in DOMAIN news' /\ news'[j - 1] = news[j]
      BY <1>1, <3>1
    <3> QED
      BY <3>2 DEF Concerns
  <2> QED
    BY <2>1, <2>2
<1>3. \A j \in DOMAIN news' : \E k \in 1..old :
        \/ k < i /\ j = k
        \/ k > i /\ j = k - 1
  <2>1. ASSUME NEW j \in 1..(old - 1)
        PROVE  j \in 1..old /\ j + 1 \in 1..old /\ j = (j + 1) - 1 /\ (j < i \/ j + 1 > i)
    BY <1>1
  <2> QED
    BY <1>1, <2>1
<1>4. s \notin disturbed
  OBVIOUS
<1>5. ASSUME NEW j \in DOMAIN news', Concerns(j, s)',
             \A k \in DOMAIN news' : k > j => ~Concerns(k, s)'
      PROVE  news'[j].kind = "joined" <=> s \in connected'
  <2>1. PICK k \in 1..old : (k < i /\ j = k) \/ (k > i /\ j = k - 1)
    BY <1>3
  <2>2. Concerns(k, s) /\ news'[j] = news[k] /\ k # i
    BY <1>1, <1>2, <1>5, <2>1
  <2>3. k > i \/ ~Concerns(i, s)
    <3>1. Concerns(i, s) => \A h \in 1..(i - 1) : ~Concerns(h, s)
      BY <1>4
    <3>2. k < i => k \in 1..(i - 1)
      BY <1>1
    <3> QED
      BY <1>1, <2>1, <2>2, <3>1, <3>2
  <2>4. ASSUME NEW h \in 1..old, h > k PROVE ~Concerns(h, s)
    <3>1. CASE h = i
      BY <1>1, <2>3, <2>4, <3>1
    <3>2. CASE h < i
      <4>1. h > j /\ h \in DOMAIN news'
        BY <1>1, <1>2, <2>1, <2>4, <3>2
      <4> QED
        BY <1>2, <1>5, <3>2, <4>1
    <3>3. CASE h > i
      <4>1. h - 1 > j /\ h - 1 \in DOMAIN news'
        BY <1>1, <1>2, <2>1, <2>4, <3>3
      <4>2. ~Concerns(h - 1, s)'
        BY <1>5, <4>1
      <4> QED
        BY <1>2, <3>3, <4>2
    <3> QED
      BY <1>1, <3>1, <3>2, <3>3
  <2>5. news[k].kind = "joined" <=> s \in connected
    BY <1>1, <1>4, <2>2, <2>4 DEF Told
  <2> QED
    BY <2>2, <2>5
<1>6. ASSUME Heard(s)' PROVE Tells(s)'
  <2>1. \A k \in DOMAIN news' : ~Concerns(k, s)'
    BY <1>6 DEF Heard
  <2>2. \A k \in 1..old : k # i => ~Concerns(k, s)
    BY <1>1, <1>2, <2>1
  <2>3. CASE ~Concerns(i, s) /\ (Tells(s) => Tells(s)')
    BY <1>1, <1>4, <2>2, <2>3 DEF Told, Heard
  <2>4. CASE Concerns(i, s) /\ ((news[i].kind = "joined" <=> s \in connected) => Tells(s)')
    <3>1. \A k \in DOMAIN news : k > i => ~Concerns(k, s)
      BY <1>1, <2>2
    <3> QED
      BY <1>1, <1>4, <2>4, <3>1 DEF Told
  <2> QED
    BY <2>3, <2>4
<1> QED
  BY <1>5, <1>6

-----------------------------------------------------------------------------
\* A row that is as it was agrees as it did, as long as nobody goes away.
LEMMA RowKept ==
  ASSUME NEW s \in Seat,
         seats'[s].joinedAt = seats[s].joinedAt, seats'[s].leftAt = seats[s].leftAt,
         s \in connected' <=> s \in connected, s \in passes => s \in passes',
         s \in connected /\ Ending(s[1]) => Ending(s[1])',
         Tells(s)
  PROVE  Tells(s)'
BY DEF Tells, InCall

\* A meeting that is ending goes on ending until its own request is done.
LEMMA EndingKept ==
  ASSUME RoomInv, NEW r \in Requests, NEW e, request' = [request EXCEPT ![r] = e],
         NEW m, Ending(m),
         \/ ~(Has(r, "end") /\ request[r].done)
         \/ request[r].meeting # m
  PROVE  Ending(m)'
<1>1. PICK q \in Requests : Has(q, "end") /\ request[q].done /\ request[q].meeting = m
  BY DEF Ending
<1>2. q # r /\ request'[q] = request[q]
  BY <1>1 DEF RoomInv, Formed
<1> QED
  BY <1>1, <1>2 DEF Ending, Has

\* The times of the calls in hand are past.
LEMMA StampsKept ==
  ASSUME RoomInv, Past, NEW r \in Requests, NEW e, request' = [request EXCEPT ![r] = e],
         stamps' \in Nat, stamps <= stamps',
         e = Free \/ e.op # "join" \/ (e.stamp \in Nat /\ e.stamp <= stamps')
  PROVE  \A q \in Requests : Has(q, "join")' => request'[q].stamp <= stamps'
<1>1. stamps \in Nat
  BY MeetingBounds DEF RoomInv, Formed
<1>2. ASSUME NEW q \in Requests, Has(q, "join")' PROVE request'[q].stamp <= stamps'
  <2>1. CASE q = r
    <3>1. request'[r] = e
      BY DEF RoomInv, Formed
    <3> QED
      BY <1>2, <2>1, <3>1 DEF Has
  <2>2. CASE q # r
    <3>1. request'[q] = request[q] /\ Has(q, "join") /\ request[q].stamp <= stamps
      BY <1>2, <2>2 DEF RoomInv, Formed, Has, Past
    <3>2. request[q] \in MeetingCall /\ request[q].op = "join"
      BY <3>1 DEF RoomInv, Formed, Has
    <3>3. request[q].stamp \in Nat
      BY <3>2 DEF MeetingCall, Stamp
    <3> QED
      BY <1>1, <3>1, <3>3
  <2> QED
    BY <2>1, <2>2
<1> QED
  BY <1>2

\* The clock, and a row's times.
LEMMA ClockAndRows ==
  ASSUME CallInv
  PROVE  /\ stamps \in Nat /\ stamps < NextStamp /\ NextStamp \in Nat
         /\ CanStamp => NextStamp \in Stamp /\ NextStamp # Never
         /\ \A s \in Seat :
              /\ seats[s] \in SeatRow
              /\ seats[s].joinedAt # Never => seats[s].joinedAt \in Stamp /\ seats[s].joinedAt <= stamps
              /\ seats[s].leftAt # Never => seats[s].leftAt \in Stamp /\ seats[s].leftAt <= stamps
         /\ Stamp \subseteq Nat /\ Never \notin Stamp
<1>1. stamps \in 0..MaxStamps /\ MaxStamps \in Nat
  BY MeetingBounds DEF CallInv, RoomInv, Formed
<1>2. ASSUME NEW s \in Seat PROVE seats[s] \in SeatRow
  BY DEF CallInv, Seated
<1>3. ASSUME NEW s \in Seat
      PROVE  /\ seats[s].joinedAt # Never => seats[s].joinedAt \in Stamp /\ seats[s].joinedAt <= stamps
             /\ seats[s].leftAt # Never => seats[s].leftAt \in Stamp /\ seats[s].leftAt <= stamps
  BY <1>2 DEF CallInv, Past, SeatRow
<1> QED
  BY <1>1, <1>2, <1>3, NeverAssumption DEF NextStamp, CanStamp, Stamp

\* A step that leaves the news and LiveKit alone.
LEMMA QuietStep ==
  ASSUME CallInv, RoomInv', Seated', Past', news' = news, disturbed \subseteq disturbed',
         connected' = connected,
         \A s \in Seat : s \in disturbed' \/ (Tells(s) => Tells(s)')
  PROVE  CallInv'
<1>1. ASSUME NEW s \in Seat PROVE Told(s)'
  <2>1. Told(s)
    BY DEF CallInv
  <2>2. Heard(s)' <=> Heard(s)
    BY DEF Heard, Concerns
  <2> QED
    BY <2>1, <2>2 DEF Told, Concerns
<1> QED
  BY <1>1 DEF CallInv

-----------------------------------------------------------------------------
(* The list, and the calls.                                                *)

\* Booking, calling off, answering, and taking up a call change nothing a row
\* tells.
LEMMA ListKeeps ==
  ASSUME CallInv, RoomInv', Seated',
         UNCHANGED <<connected, news, passes, disturbed>>,
         stamps' \in Nat, stamps <= stamps',
         \A s \in Seat :
           seats'[s].joinedAt = seats[s].joinedAt /\ seats'[s].leftAt = seats[s].leftAt,
         \/ request' = request
         \/ \E r \in Requests, e \in MeetingCall \cup {Free} :
              /\ request' = [request EXCEPT ![r] = e]
              /\ ~Has(r, "end")
              /\ e = Free \/ e.op # "join" \/ (e.stamp \in Nat /\ e.stamp <= stamps')
  PROVE  CallInv'
<1>1. stamps \in Nat /\ RoomInv /\ Past
  BY ClockAndRows DEF CallInv
<1>2. \A q \in Requests : Has(q, "join")' => request'[q].stamp <= stamps'
  <2>1. CASE request' = request
    <3>1. ASSUME NEW q \in Requests, Has(q, "join")' PROVE request'[q].stamp <= stamps'
      <4>1. Has(q, "join") /\ request'[q] = request[q] /\ request[q].stamp <= stamps
        BY <1>1, <2>1, <3>1 DEF Past, Has
      <4>2. request[q] \in MeetingCall /\ request[q].op = "join"
        BY <1>1, <4>1 DEF RoomInv, Formed, Has
      <4>3. request[q].stamp \in Nat
        BY <4>2 DEF MeetingCall, Stamp
      <4> QED
        BY <1>1, <4>1, <4>3
    <3> QED
      BY <3>1
  <2>2. CASE \E r \in Requests, e \in MeetingCall \cup {Free} :
               /\ request' = [request EXCEPT ![r] = e]
               /\ e = Free \/ e.op # "join" \/ (e.stamp \in Nat /\ e.stamp <= stamps')
    BY <1>1, <2>2, StampsKept
  <2> QED
    BY <2>1, <2>2
<1>3. Past'
  <2>1. ASSUME NEW s \in Seat
        PROVE  /\ seats'[s].joinedAt # Never => seats'[s].joinedAt <= stamps'
               /\ seats'[s].leftAt # Never => seats'[s].leftAt <= stamps'
    <3>1. /\ seats[s].joinedAt # Never => seats[s].joinedAt \in Nat /\ seats[s].joinedAt <= stamps
          /\ seats[s].leftAt # Never => seats[s].leftAt \in Nat /\ seats[s].leftAt <= stamps
      BY ClockAndRows
    <3> QED
      BY <1>1, <3>1
  <2> QED
    BY <1>2, <2>1 DEF Past
<1>4. ASSUME NEW m, Ending(m) PROVE Ending(m)'
  <2>1. CASE request' = request
    BY <1>4, <2>1 DEF Ending, Has
  <2>2. CASE \E r \in Requests, e \in MeetingCall \cup {Free} :
               request' = [request EXCEPT ![r] = e] /\ ~Has(r, "end")
    BY <1>1, <1>4, <2>2, EndingKept
  <2> QED
    BY <2>1, <2>2
<1>5. ASSUME NEW s \in Seat, Tells(s) PROVE Tells(s)'
  BY <1>4, <1>5, RowKept
<1> QED
  BY <1>3, <1>5, QuietStep

LEMMA ListActions ==
  ASSUME CallInv, RoomInv',
         \/ \E r \in Requests :
              \/ \E slot \in Slots, video \in BOOLEAN, count \in 1..MaxRepeats :
                   AskMeeting(r, slot, video, count)
              \/ CreateMeetings(r)
              \/ \E m \in DOMAIN meetings : AskEnd(r, m) \/ \E p \in People : AskJoin(r, m, p)
         \/ \E m \in DOMAIN meetings :
              \/ \E wholeSeries \in BOOLEAN : Cancel(m, wholeSeries)
              \/ \E p \in People, response \in {"ACCEPTED", "DECLINED"} : AnswerInvitation(m, p, response)
         \/ UNCHANGED meetingVars
  PROVE  CallInv'
<1>1. RoomInv /\ Formed /\ Seated /\ DOMAIN meetings \subseteq MeetingId /\ Len(meetings) \in 0..MaxMeetings
  BY MeetingIndices, MeetingBounds DEF CallInv, RoomInv, Formed, MeetingId
<1>2. /\ stamps \in Nat /\ NextStamp \in Nat /\ stamps < NextStamp /\ (CanStamp => NextStamp \in Stamp)
      /\ stamps <= stamps /\ stamps <= NextStamp
  BY ClockAndRows
<1>3. ASSUME NEW r \in Requests, NEW slot \in Slots, NEW video \in BOOLEAN,
             NEW count \in 1..MaxRepeats, AskMeeting(r, slot, video, count)
      PROVE  CallInv'
  <2> DEFINE e == [op |-> "schedule", slot |-> slot, video |-> video, count |-> count,
                   seen |-> Len(meetings)]
  <2>1. e \in MeetingCall /\ e.op = "schedule"
    BY <1>1 DEF MeetingCall
  <2>2. /\ request' = [request EXCEPT ![r] = e] /\ ~Has(r, "end")
        /\ UNCHANGED <<seats, connected, rooms, news, passes, stamps, disturbed>>
    BY <1>3 DEF AskMeeting, TakeUp, Has
  <2>3. Seated'
    BY <1>1, <2>2 DEF Seated
  <2> HIDE DEF e
  <2> QED
    BY <1>2, <2>1, <2>2, <2>3, ListKeeps
<1>4. ASSUME NEW r \in Requests, NEW m \in DOMAIN meetings, AskEnd(r, m)
      PROVE  CallInv'
  <2> DEFINE e == [op |-> "end", meeting |-> m, done |-> FALSE]
  <2>1. e \in MeetingCall /\ e.op = "end"
    BY <1>1, CallMade, Zenon DEF MeetingCall
  <2>2. /\ request' = [request EXCEPT ![r] = e] /\ ~Has(r, "end")
        /\ UNCHANGED <<seats, connected, rooms, news, passes, stamps, disturbed>>
    BY <1>4 DEF AskEnd, TakeUp, Has
  <2>3. Seated'
    BY <1>1, <2>2 DEF Seated
  <2> HIDE DEF e
  <2> QED
    BY <1>2, <2>1, <2>2, <2>3, ListKeeps
<1>5. ASSUME NEW r \in Requests, NEW m \in DOMAIN meetings, NEW p \in People, AskJoin(r, m, p)
      PROVE  CallInv'
  <2> DEFINE e == [op |-> "join", meeting |-> m, person |-> p, stamp |-> NextStamp,
                   pending |-> seats[<<m, p>>].response = "PENDING"]
  <2>1. e \in MeetingCall /\ e.op = "join" /\ e.stamp = NextStamp
    BY <1>1, <1>2, <1>5, CallMade DEF AskJoin
  <2>2. /\ request' = [request EXCEPT ![r] = e] /\ ~Has(r, "end") /\ stamps' = NextStamp
        /\ UNCHANGED <<seats, connected, rooms, news, passes, disturbed>>
    BY <1>5 DEF AskJoin, TakeUp, Has
  <2>3. Seated'
    BY <1>1, <2>2 DEF Seated
  <2> HIDE DEF e
  <2>4. e.stamp \in Nat /\ e.stamp <= stamps' /\ stamps' \in Nat /\ stamps <= stamps'
    BY <1>2, <2>1, <2>2
  <2>5. /\ \A t \in Seat : seats'[t].joinedAt = seats[t].joinedAt /\ seats'[t].leftAt = seats[t].leftAt
        /\ UNCHANGED <<connected, news, passes, disturbed>>
    BY <2>2
  <2>6. /\ request' = [request EXCEPT ![r] = e] /\ ~Has(r, "end")
        /\ e = Free \/ e.op # "join" \/ (e.stamp \in Nat /\ e.stamp <= stamps')
        /\ e \in MeetingCall \cup {Free}
    BY <2>1, <2>2, <2>4
  <2> QED
    BY <2>3, <2>4, <2>5, <2>6, ListKeeps
<1>6. ASSUME NEW r \in Requests, CreateMeetings(r) PROVE CallInv'
  <2>1. /\ request' = [request EXCEPT ![r] = Free] /\ ~Has(r, "end")
        /\ UNCHANGED <<connected, rooms, news, passes, stamps, disturbed>>
    BY <1>6 DEF CreateMeetings, Give, Has
  <2>2. /\ seats' = [s \in Seat |-> seats'[s]]
        /\ \A s \in Seat : \/ seats'[s] = seats[s]
                           \/ seats'[s] = [seats[s] EXCEPT !.response = "ACCEPTED"]
    BY <1>6 DEF CreateMeetings
  <2>3. ASSUME NEW s \in Seat
        PROVE  /\ seats'[s] \in SeatRow
               /\ seats'[s].joinedAt = seats[s].joinedAt /\ seats'[s].leftAt = seats[s].leftAt
    <3>1. seats[s] \in SeatRow
      BY <1>1 DEF Seated
    <3> QED
      BY <2>2, <3>1 DEF SeatRow
  <2>4. Seated'
    <3>1. seats' \in [Seat -> SeatRow]
      BY <2>2, <2>3
    <3> QED
      BY <1>1, <2>1, <3>1 DEF Seated
  <2> QED
    BY <1>2, <2>1, <2>3, <2>4, ListKeeps
<1>7. ASSUME NEW m \in DOMAIN meetings, NEW wholeSeries \in BOOLEAN, Cancel(m, wholeSeries)
      PROVE  CallInv'
  <2>1. UNCHANGED <<seats, request, connected, rooms, news, passes, stamps, disturbed>>
    BY <1>7 DEF Cancel
  <2>2. Seated'
    BY <1>1, <2>1 DEF Seated
  <2> QED
    BY <1>2, <2>1, <2>2, ListKeeps
<1>8. ASSUME NEW m \in DOMAIN meetings, NEW p \in People, NEW response \in {"ACCEPTED", "DECLINED"},
             AnswerInvitation(m, p, response)
      PROVE  CallInv'
  <2>1. /\ seats' = [seats EXCEPT ![<<m, p>>].response = response]
        /\ UNCHANGED <<request, connected, rooms, news, passes, stamps, disturbed>>
    BY <1>8 DEF AnswerInvitation
  <2>2. <<m, p>> \in Seat
    BY <1>1 DEF Seat
  <2>3. ASSUME NEW s \in Seat
        PROVE  /\ seats'[s] \in SeatRow
               /\ seats'[s].joinedAt = seats[s].joinedAt /\ seats'[s].leftAt = seats[s].leftAt
    <3>1. seats[s] \in SeatRow /\ seats \in [Seat -> SeatRow]
      BY <1>1 DEF Seated
    <3>2. seats'[s] = seats[s] \/ seats'[s] = [seats[s] EXCEPT !.response = response]
      BY <2>1, <3>1
    <3> QED
      BY <3>1, <3>2 DEF SeatRow
  <2>4. Seated'
    <3>1. seats' \in [Seat -> SeatRow]
      BY <1>1, <2>1, <2>3 DEF Seated
    <3> QED
      BY <1>1, <2>1, <3>1 DEF Seated
  <2> QED
    BY <1>2, <2>1, <2>3, <2>4, ListKeeps
<1>9. CASE UNCHANGED meetingVars
  <2>1. UNCHANGED <<seats, request, connected, rooms, news, passes, stamps, disturbed>>
    BY <1>9 DEF meetingVars
  <2>2. Seated'
    BY <1>1, <2>1 DEF Seated
  <2> QED
    BY <1>2, <2>1, <2>2, ListKeeps
<1> QED
  BY <1>3, <1>4, <1>5, <1>6, <1>7, <1>8, <1>9

\* A call that is given back keeps the times of the others past.
LEMMA GivenBack ==
  ASSUME CallInv, NEW r \in Requests, request' = [request EXCEPT ![r] = Free],
         stamps' \in Nat, stamps <= stamps'
  PROVE  /\ \A q \in Requests : Has(q, "join")' => request'[q].stamp <= stamps'
         /\ \A m : Ending(m) /\ (~(Has(r, "end") /\ request[r].done) \/ request[r].meeting # m)
              => Ending(m)'
<1>1. RoomInv /\ Past
  BY DEF CallInv
<1>2. ASSUME NEW m, Ending(m), ~(Has(r, "end") /\ request[r].done) \/ request[r].meeting # m
      PROVE  Ending(m)'
  BY <1>1, <1>2, EndingKept
<1> QED
  BY <1>1, <1>2, StampsKept

\* Coming in is written with the time it was asked, unless a later one is there.
LEMMA AdmitKeeps ==
  ASSUME CallInv, RoomInv', NEW r \in Requests, Admit(r)
  PROVE  CallInv'
<1>1. /\ request[r] \in MeetingCall /\ request[r].op = "join" /\ Has(r, "join")
      /\ Seated /\ Past
  BY DEF CallInv, RoomInv, Formed, Admit, Has
<1>2. /\ request[r].meeting \in MeetingId /\ request[r].person \in People
      /\ request[r].stamp \in Stamp
  BY <1>1 DEF MeetingCall
<1>3. PICK s \in Seat : s = <<request[r].meeting, request[r].person>>
  BY <1>2 DEF Seat
<1>4. PICK t \in Stamp : t = request[r].stamp
  BY <1>2
<1>5. t \in Nat /\ t # Never /\ t <= stamps /\ stamps \in Nat
  BY <1>1, <1>4, ClockAndRows DEF Past
<1>6. PICK response \in {"PENDING", "ACCEPTED", "DECLINED"} :
        seats' = [seats EXCEPT ![s].joinedAt = t, ![s].response = response]
  <2>1. seats[s].response \in {"PENDING", "ACCEPTED", "DECLINED"}
    BY <1>1, ClockAndRows DEF SeatRow
  <2>2. seats' = [seats EXCEPT ![s].joinedAt = t,
                               ![s].response = IF request[r].pending THEN "ACCEPTED" ELSE @]
    BY <1>3, <1>4 DEF Admit
  <2>3. CASE request[r].pending
    BY <2>2, <2>3
  <2>4. CASE ~request[r].pending
    <3>1. seats' = [seats EXCEPT ![s].joinedAt = t, ![s].response = seats[s].response]
      BY <1>1, <2>1, <2>2, <2>4 DEF Seated
    <3> QED
      BY <2>1, <3>1
  <2> QED
    BY <2>3, <2>4
<1>7. /\ passes' = passes \cup {s}
      /\ disturbed' = IF seats[s].joinedAt # Never /\ seats[s].joinedAt > t
                      THEN disturbed \cup {s} ELSE disturbed
      /\ request' = [request EXCEPT ![r] = Free]
      /\ UNCHANGED <<connected, rooms, news, stamps>>
  BY <1>3, <1>4 DEF Admit, Give
<1>8. /\ \A u \in Seat \ {s} : seats'[u] = seats[u]
      /\ seats'[s].joinedAt = t /\ seats'[s].leftAt = seats[s].leftAt
      /\ seats' \in [Seat -> SeatRow]
  <2>1. seats \in [Seat -> SeatRow] /\ seats[s] \in SeatRow
    BY <1>1 DEF Seated
  <2>2. /\ seats'[s] = [seats[s] EXCEPT !.joinedAt = t, !.response = response]
        /\ \A u \in Seat \ {s} : seats'[u] = seats[u]
        /\ seats' = [u \in Seat |-> seats'[u]]
    BY <1>6, <2>1
  <2>3. seats'[s] \in SeatRow /\ seats'[s].joinedAt = t /\ seats'[s].leftAt = seats[s].leftAt
    BY <2>1, <2>2 DEF SeatRow
  <2>4. \A u \in Seat : seats'[u] \in SeatRow
    BY <2>1, <2>2, <2>3
  <2> QED
    BY <2>2, <2>3, <2>4
<1>9. Seated'
  BY <1>1, <1>7, <1>8 DEF Seated
<1>10. /\ \A q \in Requests : Has(q, "join")' => request'[q].stamp <= stamps'
       /\ \A m : Ending(m) => Ending(m)'
  <2>1. ~Has(r, "end") /\ stamps' \in Nat /\ stamps <= stamps'
    BY <1>1, <1>5, <1>7 DEF Has
  <2> QED
    BY <1>7, <2>1, GivenBack
<1>11. Past'
  BY <1>1, <1>5, <1>7, <1>8, <1>10 DEF Past
<1>12. ASSUME NEW u \in Seat, u \notin disturbed', Tells(u) PROVE Tells(u)'
  <2>1. CASE u # s
    BY <1>7, <1>8, <1>10, <1>12, <2>1, RowKept
  <2>2. CASE u = s
    <3>1. InCall(s) => InCall(s)'
      <4>1. /\ seats[s].joinedAt # Never => seats[s].joinedAt \in Nat
            /\ seats[s].leftAt # Never => seats[s].leftAt \in Nat
        BY ClockAndRows
      <4>2. seats[s].joinedAt # Never => ~(seats[s].joinedAt > t)
        BY <1>7, <1>12, <2>2
      <4> QED
        BY <1>5, <1>8, <4>1, <4>2 DEF InCall
    <3> QED
      BY <1>7, <1>10, <1>12, <2>2, <3>1 DEF Tells
  <2> QED
    BY <2>1, <2>2
<1> QED
  BY <1>7, <1>9, <1>11, <1>12, QuietStep

\* A row whose leave is written now does not show anybody.
LEMMA LeftNow ==
  ASSUME CallInv, NEW s \in Seat, CanStamp,
         \/ seats'[s] = [seats[s] EXCEPT !.leftAt = NextStamp]
         \/ seats[s].joinedAt = Never /\ seats'[s] = seats[s]
  PROVE  /\ seats'[s] \in SeatRow /\ seats'[s].joinedAt = seats[s].joinedAt
         /\ seats'[s].leftAt # Never => seats'[s].leftAt \in Nat /\ seats'[s].leftAt <= NextStamp
         /\ ~InCall(s)'
<1>1. /\ seats[s] \in SeatRow
      /\ stamps \in Nat /\ stamps < NextStamp /\ NextStamp \in Nat
      /\ NextStamp \in Stamp /\ NextStamp # Never
      /\ seats[s].joinedAt # Never => seats[s].joinedAt \in Nat /\ seats[s].joinedAt <= stamps
      /\ seats[s].leftAt # Never => seats[s].leftAt \in Nat /\ seats[s].leftAt <= stamps
  BY ClockAndRows
<1>2. CASE seats'[s] = [seats[s] EXCEPT !.leftAt = NextStamp]
  <2>1. /\ seats'[s] \in SeatRow /\ seats'[s].joinedAt = seats[s].joinedAt
        /\ seats'[s].leftAt = NextStamp
    BY <1>1, <1>2 DEF SeatRow
  <2> QED
    BY <1>1, <2>1 DEF InCall
<1>3. CASE seats[s].joinedAt = Never /\ seats'[s] = seats[s]
  BY <1>1, <1>3 DEF InCall
<1> QED
  BY <1>2, <1>3

\* Nobody is shown whose leave is written; whoever is there all the same is
\* disturbed.
LEMMA LeaveKeeps ==
  ASSUME CallInv, RoomInv', NEW r \in Requests, Leave(r)
  PROVE  CallInv'
<1>1. /\ request[r] \in MeetingCall /\ request[r].op = "leave" /\ Has(r, "leave")
      /\ Seated /\ Past /\ CanStamp
  BY DEF CallInv, RoomInv, Formed, Leave, Has
<1>2. request[r].meeting \in MeetingId /\ request[r].person \in People
  BY <1>1 DEF MeetingCall
<1>3. PICK s \in Seat : s = <<request[r].meeting, request[r].person>>
  BY <1>2 DEF Seat
<1>4. /\ seats' = [seats EXCEPT ![s].leftAt = NextStamp]
      /\ passes' = passes \ {s}
      /\ disturbed' = IF s \in connected THEN disturbed \cup {s} ELSE disturbed
      /\ stamps' = NextStamp
      /\ request' = [request EXCEPT ![r] = Free]
      /\ UNCHANGED <<connected, rooms, news>>
  BY <1>3 DEF Leave, Give
<1>5. stamps \in Nat /\ NextStamp \in Nat /\ stamps < NextStamp
  BY ClockAndRows
<1>6. /\ seats'[s] = [seats[s] EXCEPT !.leftAt = NextStamp]
      /\ \A u \in Seat \ {s} : seats'[u] = seats[u]
      /\ seats' = [u \in Seat |-> seats'[u]]
  BY <1>1, <1>4 DEF Seated
<1>7. /\ seats'[s] \in SeatRow /\ seats'[s].joinedAt = seats[s].joinedAt /\ ~InCall(s)'
      /\ seats'[s].leftAt # Never => seats'[s].leftAt \in Nat /\ seats'[s].leftAt <= NextStamp
  BY <1>1, <1>6, LeftNow
<1>8. Seated'
  <2>1. seats' \in [Seat -> SeatRow]
    BY <1>1, <1>6, <1>7 DEF Seated
  <2> QED
    BY <1>1, <1>4, <2>1 DEF Seated
<1>9. /\ \A q \in Requests : Has(q, "join")' => request'[q].stamp <= stamps'
      /\ \A m : Ending(m) => Ending(m)'
  <2>1. ~Has(r, "end") /\ stamps' \in Nat /\ stamps <= stamps'
    BY <1>1, <1>4, <1>5 DEF Has
  <2> QED
    BY <1>4, <2>1, GivenBack
<1>10. Past'
  <2>1. ASSUME NEW u \in Seat
        PROVE  /\ seats'[u].joinedAt # Never => seats'[u].joinedAt <= NextStamp
               /\ seats'[u].leftAt # Never => seats'[u].leftAt <= NextStamp
    <3>1. /\ seats[u].joinedAt # Never => seats[u].joinedAt \in Nat /\ seats[u].joinedAt <= stamps
          /\ seats[u].leftAt # Never => seats[u].leftAt \in Nat /\ seats[u].leftAt <= stamps
      BY ClockAndRows
    <3>2. CASE u = s
      BY <1>5, <1>7, <3>1, <3>2
    <3>3. CASE u # s
      BY <1>5, <1>6, <3>1, <3>3
    <3> QED
      BY <3>2, <3>3
  <2> QED
    BY <1>4, <1>9, <2>1 DEF Past
<1>11. ASSUME NEW u \in Seat, u \notin disturbed', Tells(u) PROVE Tells(u)'
  <2>1. CASE u # s
    <3>1. u \in passes => u \in passes'
      BY <1>4, <2>1
    <3> QED
      BY <1>4, <1>6, <1>9, <1>11, <2>1, <3>1, RowKept
  <2>2. CASE u = s
    BY <1>4, <1>7, <1>11, <2>2 DEF Tells
  <2> QED
    BY <2>1, <2>2
<1> QED
  BY <1>4, <1>8, <1>10, <1>11, QuietStep

\* Ending a meeting writes everybody's leave, before the room is closed.
LEMMA EndKeeps ==
  ASSUME CallInv, RoomInv', NEW r \in Requests, End(r)
  PROVE  CallInv'
<1>1. /\ request[r] \in MeetingCall /\ request[r].op = "end" /\ request[r] # Free
      /\ Seated /\ Past /\ CanStamp /\ request \in [Requests -> MeetingCall \cup {Free}]
  BY DEF CallInv, RoomInv, Formed, End, Has
<1>2. PICK m : m = request[r].meeting
  OBVIOUS
<1> DEFINE e == [request[r] EXCEPT !.done = TRUE]
<1>3. e.op = "end" /\ e.done /\ e.meeting = m /\ e # Free
  <2>1. request[r] \in [op : {"end"}, meeting : MeetingId, done : BOOLEAN]
    BY <1>1 DEF MeetingCall
  <2>2. e \in [op : {"end"}, meeting : MeetingId, done : BOOLEAN] /\ e.done /\ e.meeting = m
    BY <1>2, <2>1
  <2>3. e \in MeetingCall
    BY <2>2 DEF MeetingCall
  <2> QED
    BY <2>2, <2>3, NeverAssumption
<1>4. /\ seats' = [s \in Seat |->
           IF s[1] = m /\ seats[s].joinedAt # Never THEN [seats[s] EXCEPT !.leftAt = NextStamp]
           ELSE seats[s]]
      /\ stamps' = NextStamp
      /\ request' = [request EXCEPT ![r] = e]
      /\ UNCHANGED <<connected, rooms, news, passes, disturbed>>
      /\ ~request[r].done
  BY <1>2 DEF End, LeaveAll
<1> HIDE DEF e
<1>5. stamps \in Nat /\ NextStamp \in Nat /\ stamps < NextStamp
  BY ClockAndRows
<1>6. /\ \A s \in Seat : s[1] = m =>
           \/ seats'[s] = [seats[s] EXCEPT !.leftAt = NextStamp]
           \/ seats[s].joinedAt = Never /\ seats'[s] = seats[s]
      /\ \A s \in Seat : s[1] # m => seats'[s] = seats[s]
      /\ seats' = [s \in Seat |-> seats'[s]]
  BY <1>4
<1>7. ASSUME NEW s \in Seat, s[1] = m
      PROVE  /\ seats'[s] \in SeatRow /\ seats'[s].joinedAt = seats[s].joinedAt /\ ~InCall(s)'
             /\ seats'[s].leftAt # Never => seats'[s].leftAt \in Nat /\ seats'[s].leftAt <= NextStamp
  BY <1>1, <1>6, <1>7, LeftNow
<1>8. Seated'
  <2>1. ASSUME NEW s \in Seat PROVE seats'[s] \in SeatRow
    <3>1. seats[s] \in SeatRow
      BY ClockAndRows
    <3> QED
      BY <1>6, <1>7, <3>1
  <2>2. seats' \in [Seat -> SeatRow]
    BY <1>6, <2>1
  <2> QED
    BY <1>1, <1>4, <2>2 DEF Seated
<1>9. Past'
  <2>1. \A q \in Requests : Has(q, "join")' => request'[q].stamp <= stamps'
    <3>1. CallInv /\ RoomInv /\ stamps' \in Nat /\ stamps <= stamps'
      BY <1>4, <1>5 DEF CallInv
    <3> QED
      BY <1>1, <1>3, <1>4, <3>1, StampsKept
  <2>2. ASSUME NEW u \in Seat
        PROVE  /\ seats'[u].joinedAt # Never => seats'[u].joinedAt <= NextStamp
               /\ seats'[u].leftAt # Never => seats'[u].leftAt <= NextStamp
    <3>1. /\ seats[u].joinedAt # Never => seats[u].joinedAt \in Nat /\ seats[u].joinedAt <= stamps
          /\ seats[u].leftAt # Never => seats[u].leftAt \in Nat /\ seats[u].leftAt <= stamps
      BY ClockAndRows
    <3> QED
      BY <1>5, <1>6, <1>7, <3>1
  <2> QED
    BY <1>4, <2>1, <2>2 DEF Past
<1>10. Ending(m)'
  <2>1. request'[r] = e
    BY <1>1, <1>4
  <2> QED
    BY <1>3, <2>1 DEF Ending, Has
<1>11. ASSUME NEW u \in Seat, Tells(u) PROVE Tells(u)'
  <2>1. CASE u[1] # m
    <3>1. ASSUME Ending(u[1]) PROVE Ending(u[1])'
      <4>1. PICK n : n = u[1]
        OBVIOUS
      <4>2. Ending(n) /\ ~(Has(r, "end") /\ request[r].done) /\ RoomInv
        BY <1>4, <3>1, <4>1 DEF CallInv
      <4>3. Ending(n)'
        BY <1>4, <4>2, EndingKept
      <4> QED
        BY <4>1, <4>3
    <3>2. seats'[u] = seats[u]
      BY <1>6, <2>1
    <3> QED
      BY <1>4, <1>11, <3>1, <3>2, RowKept
  <2>2. CASE u[1] = m
    BY <1>7, <1>10, <2>2 DEF Tells
  <2> QED
    BY <2>1, <2>2
<1> QED
  BY <1>4, <1>8, <1>9, <1>11, QuietStep

\* A call that ends where it stands; the room of a meeting that has been ended
\* stays as it is, and its seats are disturbed.
LEMMA DropRequestKeeps ==
  ASSUME CallInv, RoomInv', NEW r \in Requests, DropRequest(r)
  PROVE  CallInv'
<1>1. /\ request[r] \in MeetingCall /\ request[r] # Free /\ Seated /\ Past
      /\ stamps \in Nat /\ stamps <= stamps
  BY ClockAndRows DEF CallInv, RoomInv, Formed, DropRequest
<1>2. /\ disturbed' = IF request[r].op = "end" /\ request[r].done
                      THEN disturbed \cup ({request[r].meeting} \X People) ELSE disturbed
      /\ request' = [request EXCEPT ![r] = Free]
      /\ UNCHANGED <<seats, connected, rooms, news, passes, stamps>>
  BY DEF DropRequest, Give
<1>3. Has(r, "end") /\ request[r].done => request[r].meeting \in MeetingId
  BY <1>1 DEF MeetingCall, Has
<1>4. Seated'
  BY <1>1, <1>2, <1>3 DEF Seated, Has, Seat
<1>5. /\ \A q \in Requests : Has(q, "join")' => request'[q].stamp <= stamps'
      /\ \A m : Ending(m) /\ (~(Has(r, "end") /\ request[r].done) \/ request[r].meeting # m)
           => Ending(m)'
  BY <1>1, <1>2, GivenBack
<1>6. Past'
  BY <1>1, <1>2, <1>5 DEF Past
<1>7. ASSUME NEW u \in Seat, u \notin disturbed', Tells(u) PROVE Tells(u)'
  <2>1. Ending(u[1]) => Ending(u[1])'
    <3>1. CASE Has(r, "end") /\ request[r].done
      <4>1. u[1] # request[r].meeting
        BY <1>2, <1>7, <3>1 DEF Has, Seat
      <4>2. PICK n : n = u[1]
        OBVIOUS
      <4>3. Ending(n) => Ending(n)'
        BY <1>5, <4>1, <4>2
      <4> QED
        BY <4>2, <4>3
    <3>2. CASE ~(Has(r, "end") /\ request[r].done)
      <4>1. PICK n : n = u[1]
        OBVIOUS
      <4>2. Ending(n) => Ending(n)'
        BY <1>5, <3>2
      <4> QED
        BY <4>1, <4>2
    <3> QED
      BY <3>1, <3>2
  <2> QED
    BY <1>2, <1>7, <2>1, RowKept
<1> QED
  BY <1>2, <1>4, <1>6, <1>7, QuietStep

-----------------------------------------------------------------------------
(* LiveKit, and what it tells.                                             *)

LEMMA OneNotice ==
  ASSUME Seated, NEW s \in Seat, Told(s), disturbed' = disturbed,
         NEW n \in News, news' = Append(news, n),
         \/ About(n, s) /\ (n.kind = "joined" <=> s \in connected')
         \/ ~About(n, s) /\ (s \in connected' <=> s \in connected) /\ (Tells(s) => Tells(s)')
  PROVE  Told(s)'
<1> DEFINE more == <<n>>
<1>1. /\ more \in Seq(News) /\ Len(more) = 1 /\ more[1] = n
      /\ \A k \in 1..Len(more) : more[k] = n
  OBVIOUS
<1>2. news' = news \o more
  BY AppendIsConcat DEF Seated
<1> HIDE DEF more
<1>3. CASE About(n, s) /\ (n.kind = "joined" <=> s \in connected')
  <2>1. /\ \E k \in 1..Len(more) : About(more[k], s)
        /\ \A k \in 1..Len(more) :
             About(more[k], s) => (more[k].kind = "joined" <=> s \in connected')
    BY <1>1, <1>3
  <2> QED
    BY <1>1, <1>2, <2>1, Telling
<1>4. CASE ~About(n, s) /\ (s \in connected' <=> s \in connected) /\ (Tells(s) => Tells(s)')
  <2>1. \A k \in 1..Len(more) : ~About(more[k], s)
    BY <1>1, <1>4
  <2> QED
    BY <1>1, <1>2, <1>4, <2>1, Telling
<1> QED
  BY <1>3, <1>4

\* ClockAndRows do not change in a step that takes none.
LEMMA PastKept ==
  ASSUME CallInv, UNCHANGED <<seats, stamps>>,
         \/ request' = request
         \/ \E r \in Requests, e \in MeetingCall \cup {Free} :
              request' = [request EXCEPT ![r] = e] /\ (e = Free \/ e.op # "join")
  PROVE  Past'
<1>1. Past /\ RoomInv /\ stamps \in Nat /\ stamps <= stamps /\ stamps' \in Nat /\ stamps <= stamps'
  BY ClockAndRows DEF CallInv
<1>2. \A q \in Requests : Has(q, "join")' => request'[q].stamp <= stamps'
  <2>1. CASE request' = request
    BY <1>1, <2>1 DEF Past, Has
  <2>2. CASE \E r \in Requests, e \in MeetingCall \cup {Free} :
               request' = [request EXCEPT ![r] = e] /\ (e = Free \/ e.op # "join")
    BY <1>1, <2>2, StampsKept
  <2> QED
    BY <2>1, <2>2
<1> QED
  BY <1>1, <1>2 DEF Past

\* The room sees somebody in.
LEMMA ConnectKeeps ==
  ASSUME CallInv, RoomInv', NEW s \in Seat, Connect(s)
  PROVE  CallInv'
<1>1. /\ connected' = connected \cup {s} /\ passes' = passes \ {s} /\ rooms' = rooms \cup {s[1]}
      /\ news' = Append(news, Notice("joined", s))
      /\ UNCHANGED <<meetings, seats, request, stamps, disturbed>>
  BY DEF Connect
<1>2. /\ Notice("joined", s) \in News /\ Notice("joined", s).kind = "joined"
      /\ \A u \in Seat : About(Notice("joined", s), u) <=> u = s
  BY NoticeAbout
<1>3. Seated'
  <2>1. IsFiniteSet(connected')
    BY <1>1, FS_AddElement DEF CallInv, Seated
  <2>2. s[1] \in MeetingId
    BY DEF Seat
  <2>3. news' \in Seq(News)
    BY <1>1, <1>2, AppendProperties DEF CallInv, Seated
  <2> QED
    BY <1>1, <2>1, <2>2, <2>3 DEF CallInv, Seated
<1>4. Past'
  BY <1>1, PastKept
<1>5. ASSUME NEW u \in Seat PROVE Told(u)'
  <2>0. Told(u) /\ Seated
    BY DEF CallInv
  <2>1. CASE u = s
    BY <1>1, <1>2, <2>0, <2>1, OneNotice
  <2>2. CASE u # s
    <3>1. Tells(u) => Tells(u)'
      <4>1. Ending(u[1]) => Ending(u[1])'
        BY <1>1 DEF Ending, Has
      <4> QED
        BY <1>1, <2>2, <4>1, RowKept
    <3> QED
      BY <1>1, <1>2, <2>0, <2>2, <3>1, OneNotice
  <2> QED
    BY <2>1, <2>2
<1> QED
  BY <1>3, <1>4, <1>5 DEF CallInv

\* The room sees somebody out: the line drops, or the page leaves.
LEMMA GoneOne ==
  ASSUME CallInv, RoomInv', NEW s \in Seat, Past',
         connected' = connected \ {s}, news' = Append(news, Notice("left", s)),
         UNCHANGED <<seats, rooms, passes, disturbed>>,
         \A m : Ending(m) => Ending(m)'
  PROVE  CallInv'
<1>2. /\ Notice("left", s) \in News /\ Notice("left", s).kind = "left"
      /\ \A u \in Seat : About(Notice("left", s), u) <=> u = s
  BY NoticeAbout
<1>3. Seated'
  <2>1. IsFiniteSet(connected')
    BY FS_RemoveElement DEF CallInv, Seated
  <2>3. news' \in Seq(News)
    BY <1>2, AppendProperties DEF CallInv, Seated
  <2> QED
    BY <2>1, <2>3 DEF CallInv, Seated
<1>5. ASSUME NEW u \in Seat PROVE Told(u)'
  <2>0. Told(u) /\ Seated
    BY DEF CallInv
  <2>1. CASE u = s
    BY <1>2, <2>0, <2>1, OneNotice
  <2>2. CASE u # s
    <3>1. Tells(u) => Tells(u)'
      <4>1. Ending(u[1]) => Ending(u[1])'
        <5>1. PICK m : m = u[1]
          OBVIOUS
        <5>2. Ending(m) => Ending(m)'
          OBVIOUS
        <5> QED
          BY <5>1, <5>2
      <4> QED
        BY <2>2, <4>1, RowKept
    <3> QED
      BY <1>2, <2>0, <2>2, <3>1, OneNotice
  <2> QED
    BY <2>1, <2>2
<1> QED
  BY <1>3, <1>5 DEF CallInv

LEMMA DropKeeps ==
  ASSUME CallInv, RoomInv', NEW s \in Seat, Drop(s)
  PROVE  CallInv'
<1>1. /\ connected' = connected \ {s} /\ news' = Append(news, Notice("left", s))
      /\ UNCHANGED <<seats, request, rooms, passes, stamps, disturbed>>
  BY DEF Drop
<1>2. Past'
  BY <1>1, PastKept
<1>3. ASSUME NEW m, Ending(m) PROVE Ending(m)'
  BY <1>1, <1>3 DEF Ending, Has
<1> QED
  BY <1>1, <1>2, <1>3, GoneOne

LEMMA AskLeaveKeeps ==
  ASSUME CallInv, RoomInv', NEW r \in Requests, NEW m \in DOMAIN meetings, NEW p \in People,
         AskLeave(r, m, p)
  PROVE  CallInv'
<1> DEFINE e == [op |-> "leave", meeting |-> m, person |-> p]
<1>1. m \in MeetingId /\ RoomInv
  BY MeetingIndices, MeetingBounds DEF CallInv, RoomInv, Formed, MeetingId
<1>2. e \in MeetingCall /\ e.op = "leave"
  BY <1>1, CallMade
<1>3. PICK s \in Seat : s = <<m, p>>
  BY <1>1 DEF Seat
<1>4. /\ connected' = connected \ {s}
      /\ news' = IF s \in connected THEN Append(news, Notice("left", s)) ELSE news
      /\ request' = [request EXCEPT ![r] = e] /\ ~Has(r, "end")
      /\ UNCHANGED <<seats, rooms, passes, stamps, disturbed>>
  BY <1>3 DEF AskLeave, TakeUp, Has
<1> HIDE DEF e
<1>5. Past'
  BY <1>2, <1>4, PastKept
<1>6. ASSUME NEW n, Ending(n) PROVE Ending(n)'
  BY <1>1, <1>4, <1>6, EndingKept
<1>7. CASE s \in connected
  BY <1>4, <1>5, <1>6, <1>7, GoneOne
<1>8. CASE s \notin connected
  <2>1. connected' = connected /\ news' = news
    BY <1>4, <1>8
  <2>2. Seated'
    BY <1>4, <2>1 DEF CallInv, Seated
  <2>3. ASSUME NEW u \in Seat, Tells(u) PROVE Tells(u)'
    <3>1. PICK n : n = u[1]
      OBVIOUS
    <3>2. Ending(n) => Ending(n)'
      BY <1>6
    <3> QED
      BY <1>4, <2>1, <2>3, <3>1, <3>2, RowKept
  <2> QED
    BY <1>4, <1>5, <2>1, <2>2, <2>3, QuietStep
<1> QED
  BY <1>7, <1>8

\* A room nobody is in is closed.
LEMMA CloseRoomKeeps ==
  ASSUME CallInv, RoomInv', NEW m \in DOMAIN meetings, CloseRoom(m)
  PROVE  CallInv'
<1> DEFINE n == [kind |-> "finished", meeting |-> m, about |-> People]
<1>1. m \in MeetingId
  BY MeetingIndices, MeetingBounds DEF CallInv, RoomInv, Formed, MeetingId
<1>2. /\ n \in News /\ n.kind = "finished"
      /\ \A u \in Seat : About(n, u) <=> u[1] = m
  BY <1>1 DEF News, About, Seat
<1>3. /\ \A p \in People : <<m, p>> \notin connected
      /\ rooms' = rooms \ {m} /\ news' = Append(news, n)
      /\ UNCHANGED <<seats, request, connected, passes, stamps, disturbed>>
  BY DEF CloseRoom
<1> HIDE DEF n
<1>4. Seated'
  <2>1. news' \in Seq(News)
    BY <1>2, <1>3, AppendProperties DEF CallInv, Seated
  <2> QED
    BY <1>3, <2>1 DEF CallInv, Seated
<1>5. Past'
  BY <1>3, PastKept
<1>6. ASSUME NEW u \in Seat PROVE Told(u)'
  <2>0. Told(u) /\ Seated
    BY DEF CallInv
  <2>1. CASE u[1] = m
    <3>1. u \notin connected'
      BY <1>3, <2>1 DEF Seat
    <3> QED
      BY <1>2, <1>3, <2>0, <2>1, <3>1, OneNotice
  <2>2. CASE u[1] # m
    <3>1. Ending(u[1]) => Ending(u[1])'
      BY <1>3 DEF Ending, Has
    <3>2. Tells(u) => Tells(u)'
      BY <1>3, <3>1, RowKept
    <3> QED
      BY <1>2, <1>3, <2>0, <2>2, <3>2, OneNotice
  <2> QED
    BY <2>1, <2>2
<1> QED
  BY <1>4, <1>5, <1>6 DEF CallInv

\* Whatever order the members of a finite set are taken in, all of them are.
LEMMA AllTaken ==
  ASSUME NEW S, IsFiniteSet(S), NEW order \in SetToSeqs(S)
  PROVE  /\ order \in Seq(S) /\ DOMAIN order = 1..Len(order)
         /\ \A x \in S : \E k \in 1..Len(order) : order[k] = x
<1> DEFINE D == 1..Cardinality(S)
<1>1. Cardinality(S) \in Nat
  BY FS_CardinalityType
<1>2. order \in [D -> S] /\ \A i, j \in D : i # j => order[i] # order[j]
  BY DEF SetToSeqs
<1>3. order \in Injection(D, S)
  BY <1>2 DEF Injection, IsInjective
<1>4. Cardinality(D) = Cardinality(S)
  BY <1>1, FS_Interval
<1>5. order \in Surjection(D, S)
  BY <1>3, <1>4, FS_Injection
<1>6. \A x \in S : \E k \in D : order[k] = x
  BY <1>5 DEF Surjection
<1>7. order \in Seq(S) /\ Len(order) = Cardinality(S)
  BY <1>1, <1>2, SeqDef, LenProperties
<1> QED
  BY <1>6, <1>7, LenProperties

\* Closing the room sends out everybody in it, and says so of each.
LEMMA EndRoomKeeps ==
  ASSUME CallInv, RoomInv', NEW r \in Requests, EndRoom(r)
  PROVE  CallInv'
<1>0. Seated /\ RoomInv /\ request[r] \in MeetingCall /\ request[r].op = "end" /\ request[r].done
  BY DEF CallInv, RoomInv, Formed, EndRoom, Has
<1>1. PICK m \in MeetingId : m = request[r].meeting
  BY <1>0 DEF MeetingCall
<1>2. PICK out : out = connected \cap ({m} \X People)
  OBVIOUS
<1>3. PICK order \in SetToSeqs(out) :
        news' = news \o [i \in DOMAIN order |-> Notice("left", order[i])]
  BY <1>1, <1>2 DEF EndRoom
<1>4. /\ connected' = connected \ out
      /\ request' = [request EXCEPT ![r] = Free]
      /\ UNCHANGED <<seats, rooms, passes, stamps, disturbed>>
  BY <1>1, <1>2 DEF EndRoom, Give
<1>5. IsFiniteSet(out) /\ IsFiniteSet(connected') /\ out \subseteq Seat
  BY <1>0, <1>2, <1>4, FS_Intersection, FS_Difference DEF Seated
<1>6. /\ order \in Seq(out) /\ DOMAIN order = 1..Len(order) /\ Len(order) \in Nat
      /\ \A k \in 1..Len(order) : order[k] \in out
      /\ \A x \in out : \E k \in 1..Len(order) : order[k] = x
  BY <1>5, AllTaken, LenProperties, ElementOfSeq
<1>7. PICK more : more = [i \in 1..Len(order) |-> Notice("left", order[i])]
  OBVIOUS
<1>8. /\ \A k \in 1..Len(order) :
           /\ more[k] \in News /\ more[k].kind = "left"
           /\ \A u \in Seat : About(more[k], u) <=> u = order[k]
      /\ news' = news \o more
  BY <1>3, <1>5, <1>6, <1>7, NoticeAbout
<1>9. more \in Seq(News) /\ Len(more) = Len(order)
  <2>1. more \in [1..Len(order) -> News]
    BY <1>7, <1>8
  <2> QED
    BY <1>6, <2>1, SeqDef, LenProperties
<1>10. Seated'
  <2>1. news' \in Seq(News)
    BY <1>0, <1>8, <1>9, ConcatProperties DEF Seated
  <2> QED
    BY <1>0, <1>4, <1>5, <2>1 DEF Seated
<1>11. Past'
  BY <1>4, PastKept
<1>12. ASSUME NEW u \in Seat PROVE Told(u)'
  <2>0. Told(u)
    BY DEF CallInv
  <2>1. CASE u \in out
    <3>1. PICK k \in 1..Len(more) : order[k] = u
      BY <1>6, <1>9, <2>1
    <3>2. About(more[k], u)
      BY <1>8, <1>9, <3>1
    <3>3. u \notin connected'
      BY <1>4, <2>1
    <3>4. \A j \in 1..Len(more) : About(more[j], u) => (more[j].kind = "joined" <=> u \in connected')
      BY <1>8, <1>9, <3>3
    <3> QED
      BY <1>0, <1>4, <1>8, <1>9, <2>0, <3>2, <3>4, Telling
  <2>2. CASE u \notin out
    <3>1. ASSUME NEW k \in 1..Len(more) PROVE ~About(more[k], u)
      <4>1. k \in 1..Len(order)
        BY <1>9
      <4>2. order[k] # u
        BY <1>6, <2>2, <4>1
      <4> QED
        BY <1>8, <4>1, <4>2
    <3>2. u \in connected' <=> u \in connected
      BY <1>4, <2>2
    <3>3. ASSUME Tells(u) PROVE Tells(u)'
      <4>1. PICK n : n = u[1]
        OBVIOUS
      <4>2. u \in connected => n # m
        BY <1>2, <2>2, <4>1 DEF Seat
      <4>3. n # m /\ Ending(n) => Ending(n)'
        BY <1>0, <1>1, <1>4, EndingKept
      <4>4. u \in connected /\ Ending(u[1]) => Ending(u[1])'
        BY <4>1, <4>2, <4>3
      <4> QED
        BY <1>4, <3>2, <3>3, <4>4, RowKept
    <3> QED
      BY <1>0, <1>4, <1>8, <1>9, <2>0, <3>1, <3>2, <3>3, Telling
  <2> QED
    BY <2>1, <2>2
<1> QED
  BY <1>10, <1>11, <1>12 DEF CallInv

\* News that is missed disturbs those it is about.
LEMMA MissKeeps ==
  ASSUME CallInv, RoomInv', NEW i \in DOMAIN news, Miss(i)
  PROVE  CallInv'
<1>1. /\ news' = Without(i)
      /\ disturbed' = disturbed \cup {s \in Seat : Concerns(i, s)}
      /\ UNCHANGED <<seats, request, connected, rooms, passes, stamps>>
  BY DEF Miss
<1>2. Seated
  BY DEF CallInv
<1>3. Seated'
  <2>1. PICK old \in Nat : old = Len(news)
    BY <1>2, NewsIndices
  <2>2. news' \in Seq(News)
    BY <1>1, <1>2, <2>1, NewsWithout
  <2> QED
    BY <1>1, <1>2, <2>2 DEF Seated
<1>4. Past'
  BY <1>1, PastKept
<1>5. ASSUME NEW u \in Seat PROVE Told(u)'
  <2>1. Told(u)
    BY DEF CallInv
  <2>2. ASSUME Tells(u) PROVE Tells(u)'
    <3>1. Ending(u[1]) => Ending(u[1])'
      BY <1>1 DEF Ending, Has
    <3> QED
      BY <1>1, <2>2, <3>1, RowKept
  <2>3. u \in disturbed' \/ ~Concerns(i, u)
    BY <1>1
  <2> QED
    BY <1>1, <1>2, <2>1, <2>2, <2>3, Hearing
<1> QED
  BY <1>3, <1>4, <1>5 DEF CallInv

\* News that is heard is written down; what overtakes disturbs.
LEMMA HearKeeps ==
  ASSUME CallInv, RoomInv', NEW i \in DOMAIN news, Hear(i)
  PROVE  CallInv'
<1>1. /\ news' = Without(i) /\ CanStamp /\ stamps' = NextStamp
      /\ disturbed' = disturbed \cup Overtaken(i)
      /\ UNCHANGED <<request, connected, rooms, passes>>
      /\ seats' = [s \in Seat |->
           IF ~Concerns(i, s) THEN seats[s]
           ELSE IF news[i].kind = "joined" THEN [seats[s] EXCEPT !.joinedAt = NextStamp]
           ELSE IF news[i].kind = "left" \/ seats[s].joinedAt # Never
           THEN [seats[s] EXCEPT !.leftAt = NextStamp]
           ELSE seats[s]]
  BY DEF Hear
<1>2. Seated /\ Past /\ RoomInv
  BY DEF CallInv
<1>3. /\ stamps \in Nat /\ stamps < NextStamp /\ NextStamp \in Nat /\ NextStamp \in Stamp
      /\ NextStamp # Never
  BY <1>1, ClockAndRows
<1>4. ASSUME NEW s \in Seat
      PROVE  /\ seats[s] \in SeatRow
             /\ seats[s].joinedAt # Never => seats[s].joinedAt \in Nat /\ seats[s].joinedAt <= stamps
             /\ seats[s].leftAt # Never => seats[s].leftAt \in Nat /\ seats[s].leftAt <= stamps
  BY ClockAndRows
<1>5. ASSUME NEW s \in Seat
      PROVE  /\ ~Concerns(i, s) => seats'[s] = seats[s]
             /\ Concerns(i, s) /\ news[i].kind = "joined" =>
                  seats'[s] = [seats[s] EXCEPT !.joinedAt = NextStamp]
             /\ Concerns(i, s) /\ news[i].kind # "joined" =>
                  \/ seats'[s] = [seats[s] EXCEPT !.leftAt = NextStamp]
                  \/ seats[s].joinedAt = Never /\ seats'[s] = seats[s]
  BY <1>1
\* A person who was heard to come in is shown, ...
<1>6. ASSUME NEW s \in Seat, seats'[s] = [seats[s] EXCEPT !.joinedAt = NextStamp]
      PROVE  /\ seats'[s] \in SeatRow /\ InCall(s)'
             /\ seats'[s].joinedAt = NextStamp /\ seats'[s].leftAt = seats[s].leftAt
  <2>1. /\ seats'[s] \in SeatRow
        /\ seats'[s].joinedAt = NextStamp /\ seats'[s].leftAt = seats[s].leftAt
    BY <1>3, <1>4, <1>6 DEF SeatRow
  <2>2. InCall(s)'
    BY <1>3, <1>4, <2>1 DEF InCall
  <2> QED
    BY <2>1, <2>2
\* ... and one who was heard to leave is not.
<1>7. ASSUME NEW s \in Seat,
             \/ seats'[s] = [seats[s] EXCEPT !.leftAt = NextStamp]
             \/ seats[s].joinedAt = Never /\ seats'[s] = seats[s]
      PROVE  /\ seats'[s] \in SeatRow /\ seats'[s].joinedAt = seats[s].joinedAt
             /\ seats'[s].leftAt # Never => seats'[s].leftAt \in Nat /\ seats'[s].leftAt <= NextStamp
             /\ ~InCall(s)'
  BY <1>1, <1>7, LeftNow
<1>8. ASSUME NEW s \in Seat
      PROVE  /\ seats'[s] \in SeatRow
             /\ seats'[s].joinedAt # Never => seats'[s].joinedAt <= NextStamp
             /\ seats'[s].leftAt # Never => seats'[s].leftAt <= NextStamp
  <2>1. CASE ~Concerns(i, s)
    <3>1. seats'[s] = seats[s]
      BY <1>5, <2>1
    <3> QED
      BY <1>3, <1>4, <3>1
  <2>2. CASE Concerns(i, s) /\ news[i].kind = "joined"
    <3>1. seats'[s] \in SeatRow /\ seats'[s].joinedAt = NextStamp /\ seats'[s].leftAt = seats[s].leftAt
      BY <1>5, <1>6, <2>2
    <3> QED
      BY <1>3, <1>4, <3>1
  <2>3. CASE Concerns(i, s) /\ news[i].kind # "joined"
    <3>1. /\ seats'[s] \in SeatRow /\ seats'[s].joinedAt = seats[s].joinedAt
          /\ seats'[s].leftAt # Never => seats'[s].leftAt <= NextStamp
      BY <1>5, <1>7, <2>3
    <3> QED
      BY <1>3, <1>4, <3>1
  <2> QED
    BY <2>1, <2>2, <2>3
<1>9. Seated'
  <2>1. PICK old \in Nat : old = Len(news)
    BY <1>2, NewsIndices
  <2>2. news' \in Seq(News)
    BY <1>1, <1>2, <2>1, NewsWithout
  <2>3. seats' \in [Seat -> SeatRow]
    BY <1>1, <1>8
  <2>4. disturbed' \subseteq Seat
    BY <1>1, <1>2 DEF Seated, Overtaken
  <2> QED
    BY <1>1, <1>2, <2>2, <2>3, <2>4 DEF Seated
<1>10. Past'
  <2>1. ASSUME NEW q \in Requests, Has(q, "join")' PROVE request'[q].stamp <= stamps'
    <3>1. Has(q, "join") /\ request'[q] = request[q] /\ request[q].stamp <= stamps
      BY <1>1, <1>2, <2>1 DEF Past, Has
    <3>2. request[q] \in MeetingCall /\ request[q].op = "join"
      BY <1>2, <3>1 DEF RoomInv, Formed, Has
    <3>3. request[q].stamp \in Nat
      BY <3>2 DEF MeetingCall, Stamp
    <3> QED
      BY <1>1, <1>3, <3>1, <3>3
  <2> QED
    BY <1>1, <1>8, <2>1 DEF Past
<1>11. ASSUME NEW u \in Seat PROVE Told(u)'
  <2>0. Told(u)
    BY DEF CallInv
  <2>1. CASE ~Concerns(i, u)
    <3>1. ASSUME Tells(u) PROVE Tells(u)'
      <4>1. Ending(u[1]) => Ending(u[1])'
        BY <1>1 DEF Ending, Has
      <4>2. seats'[u] = seats[u]
        BY <1>5, <2>1
      <4> QED
        BY <1>1, <3>1, <4>1, <4>2, RowKept
    <3> QED
      BY <1>1, <1>2, <2>0, <2>1, <3>1, Hearing
  <2>2. CASE Concerns(i, u) /\ \E j \in 1..(i - 1) : Concerns(j, u)
    <3>1. u \in disturbed'
      BY <1>1, <2>2 DEF Overtaken
    <3> QED
      BY <1>1, <1>2, <2>0, <3>1, Hearing
  <2>3. CASE Concerns(i, u) /\ \A j \in 1..(i - 1) : ~Concerns(j, u)
    <3>1. ASSUME news[i].kind = "joined" <=> u \in connected PROVE Tells(u)'
      <4>1. CASE news[i].kind = "joined"
        BY <1>1, <1>5, <1>6, <2>3, <3>1, <4>1 DEF Tells
      <4>2. CASE news[i].kind # "joined"
        BY <1>1, <1>5, <1>7, <2>3, <3>1, <4>2 DEF Tells
      <4> QED
        BY <4>1, <4>2
    <3> QED
      BY <1>1, <1>2, <2>0, <2>3, <3>1, Hearing
  <2> QED
    BY <2>1, <2>2, <2>3
<1> QED
  BY <1>9, <1>10, <1>11 DEF CallInv

-----------------------------------------------------------------------------
LEMMA CallKept ==
  ASSUME CallInv, [MeetingsNext]_meetingVars
  PROVE  CallInv'
<1>0. RoomInv'
  BY RoomKept DEF CallInv
<1>1. CASE \E r \in Requests :
             \/ Admit(r) \/ Leave(r) \/ End(r) \/ EndRoom(r) \/ DropRequest(r)
             \/ \E m \in DOMAIN meetings, p \in People : AskLeave(r, m, p)
  BY <1>0, <1>1, AdmitKeeps, LeaveKeeps, EndKeeps, EndRoomKeeps, DropRequestKeeps, AskLeaveKeeps
<1>2. CASE \/ \E s \in Seat : Connect(s) \/ Drop(s)
           \/ \E m \in DOMAIN meetings : CloseRoom(m)
           \/ \E i \in DOMAIN news : Hear(i) \/ Miss(i)
  BY <1>0, <1>2, ConnectKeeps, DropKeeps, CloseRoomKeeps, HearKeeps, MissKeeps
<1> QED
  BY <1>0, <1>1, <1>2, ListActions DEF MeetingsNext

\* handleWebhook, join, leave and end (meetings.service.ts) all write one row: of a
\* person whose news came in order, the last of it still to come is where they are,
\* and when none is to come the row tells.
THEOREM CallInvHolds == MeetingsSpec => []CallInv
<1>1. MeetingsInit => CallInv
  <2> SUFFICES ASSUME MeetingsInit PROVE CallInv
    OBVIOUS
  <2>1. RoomInv
    <3>1. Formed
      BY EmptySeq, MeetingBounds DEF MeetingsInit, Formed
    <3> QED
      BY <3>1 DEF MeetingsInit, RoomInv, FoundFree, Has, RoomSharedByCrossing
  <2>2. Seated
    BY EmptySeq, FS_EmptySet DEF MeetingsInit, Seated, SeatRow
  <2>3. Past
    BY DEF MeetingsInit, Past, Has
  <2>4. \A s \in Seat : Told(s)
    BY DEF MeetingsInit, Told, Heard, Tells, InCall
  <2> QED
    BY <2>1, <2>2, <2>3, <2>4 DEF CallInv
<1>2. CallInv /\ [MeetingsNext]_meetingVars => CallInv'
  BY CallKept
<1> QED
  BY <1>1, <1>2, PTL DEF MeetingsSpec

\* Every variable of the meetings keeps its shape.
THEOREM MeetingsTyping == MeetingsSpec => []MeetingsTypeOK
<1>1. CallInv => MeetingsTypeOK
  BY DEF CallInv, RoomInv, Formed, Seated, MeetingsTypeOK
<1> QED
  BY <1>1, CallInvHolds, PTL

\* isInCall: once everything LiveKit said of somebody has been heard, in the order
\* it was said, whoever is in the call is shown in it, and whoever is shown in it is
\* there or on the way, whatever calls and news crossed.
THEOREM ShownAreThere == MeetingsSpec => []ShownIsThere
<1>1. CallInv => ShownIsThere
  <2> SUFFICES ASSUME CallInv, NEW s \in Seat, Still(s)
               PROVE  /\ s \in connected => InCall(s)
                      /\ InCall(s) => s \in connected \cup passes
    BY DEF ShownIsThere
  <2>1. Tells(s)
    BY DEF CallInv, Told, Still, Heard
  <2>2. ~Ending(s[1])
    BY DEF Still, Ending, Has
  <2> QED
    BY <2>1, <2>2 DEF Tells
<1> QED
  BY <1>1, CallInvHolds, PTL

=============================================================================
