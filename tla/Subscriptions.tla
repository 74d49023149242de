--------------------------- MODULE Subscriptions ---------------------------
(***************************************************************************)
(* Plans of one account, bought from its wallet: SubscriptionsService, and   *)
(* the one transaction of WalletService it calls, chargeToPlatform.          *)
(*                                                                         *)
(* Buying is three steps with nothing around them: the account's plans are   *)
(* read, the wallet is charged, the plan is written. A call may die after    *)
(* any of them. Days pass in ticks; the day of a row orders nothing here, as *)
(* rows keep the order they were written in.                                 *)
(*                                                                         *)
(* The wallet's migration has the database refuse an entry without a cause,  *)
(* and the entry of a charge has none: where CauseChecked, as on every       *)
(* database made by the migrations, no charge goes through. Prisma does not  *)
(* model CHECK constraints: on a database made from its schema the rest of   *)
(* the service takes its course.                                            *)
(*                                                                         *)
(* An operator Name_Slip above Name is Name with a slip a programmer could   *)
(* make; nothing uses it.                                                    *)
(***************************************************************************)
EXTENDS Integers, Sequences, FiniteSets

CONSTANTS
  Plans,       \* the plans on sale ...
  Price, Days, \* ... what SUBSCRIPTION_PLANS says of each; no Days: for life
  Buyers,      \* calls of this account in hand at once
  Deposits,    \* amounts the wallet receives from elsewhere, in taka
  CauseChecked,  \* wallet_entries_one_cause_check is in force
  MaxEntries, MaxPlans, MaxDays, MaxDeaths,  \* bounds
  NoCharge, NoCustomer, NoEnd

ASSUME PriceAssumption == Price \in [Plans -> Nat \ {0}]
ASSUME DaysAssumption == Days \in [Plans -> (Nat \ {0}) \cup {NoEnd}] /\ NoEnd \notin Nat
ASSUME CauseCheckedAssumption == CauseChecked \in BOOLEAN
ASSUME PlanBounds ==
  /\ MaxEntries \in Nat /\ MaxPlans \in Nat /\ MaxDays \in Nat /\ MaxDeaths \in Nat
  /\ Deposits \subseteq Nat

VARIABLES
  today,
  funds,      \* wallets.balance
  statement,  \* wallet_entries of the account, oldest first; `plan` is history
  sold,       \* subscriptions, oldest first; `seen` is history
  buying,     \* what each call has read and done so far
  told,       \* what the last call of each buyer was answered
  deaths      \* history: calls that died between the charge and the row

planVars == <<today, funds, statement, sold, buying, told, deaths>>

-----------------------------------------------------------------------------
StatementRow ==
  [type : {"TOP_UP", "PAYMENT_SENT"}, amount : Int, causes : {{}, {"topUpId"}},
   plan : Plans \cup {NoCharge}]

\* "Every entry has exactly one cause."
Accepted(entry) == CauseChecked => Cardinality(entry.causes) = 1

\* seen: how many rows there were when the call that bought it looked.
SoldRow ==
  [plan : Plans, price : Nat, status : {"ACTIVE", "CANCELLED"}, ends : Nat \cup {NoEnd},
   paymentId : 1..MaxEntries, seen : 0..MaxPlans]

Purchase ==
  [op : {"buy"}, plan : Plans, seen : 0..MaxPlans, charge : 1..MaxEntries \cup {NoCharge}]
    \cup [op : {"cancel"}, row : 1..MaxPlans]

ASSUME BuyersAssumption ==
  IsFiniteSet(Buyers) /\ NoCharge \notin 1..MaxEntries /\ NoCustomer \notin Purchase

Runs(row) == row.ends = NoEnd \/ row.ends > today

\* currentOf: the rows in force.
Current(rows) == {i \in DOMAIN rows : rows[i].status = "ACTIVE" /\ Runs(rows[i])}

\* The debit of a plan: typed as a payment, and no payment's.
Charge(plan) ==
  [type |-> "PAYMENT_SENT", amount |-> -Price[plan], causes |-> {}, plan |-> plan]

Tell(b, answer) == told' = [told EXCEPT ![b] = answer]

Buying(b, charged) ==
  /\ buying[b] # NoCustomer /\ buying[b].op = "buy"
  /\ (buying[b].charge # NoCharge) = charged

-----------------------------------------------------------------------------
(* subscribe.                                                              *)

\* Refuses while one is still running, as far as was read. The request's own
\* requestId is not looked at.
AskBuy(b, plan) ==
  /\ buying[b] = NoCustomer
  /\ Current(sold) = {}
  /\ buying' = [buying EXCEPT ![b] =
       [op |-> "buy", plan |-> plan, seen |-> Len(sold), charge |-> NoCharge]]
  /\ Tell(b, "nothing")
  /\ UNCHANGED <<today, funds, statement, sold, deaths>>

\* chargeToPlatform: one transaction with the wallet locked; the id it gives
\* back is the newest entry's, found before it commits.
ChargeToPlatform(b) ==
  /\ Buying(b, FALSE)
  /\ Len(statement) < MaxEntries
  /\ LET plan == buying[b].plan
     IN  /\ funds >= Price[plan] /\ Accepted(Charge(plan))
         /\ funds' = funds - Price[plan]
         /\ statement' = Append(statement, Charge(plan))
  /\ buying' = [buying EXCEPT ![b].charge = Len(statement) + 1]
  /\ UNCHANGED <<today, sold, told, deaths>>

\* INSUFFICIENT_BALANCE, or the database refuses the entry and all goes back.
RefuseCharge(b) ==
  /\ Buying(b, FALSE)
  /\ LET plan == buying[b].plan
     IN  /\ ~(funds >= Price[plan] /\ Accepted(Charge(plan)))
         /\ Tell(b, IF funds < Price[plan] THEN "insufficient" ELSE "entry refused")
  /\ buying' = [buying EXCEPT ![b] = NoCustomer]
  /\ UNCHANGED <<today, funds, statement, sold, deaths>>

\* Any other failure before the money moved.
GiveUp(b) ==
  /\ Buying(b, FALSE)
  /\ buying' = [buying EXCEPT ![b] = NoCustomer]
  /\ UNCHANGED <<today, funds, statement, sold, told, deaths>>

\* The plan is written, with the charge that paid for it.
Write(b, paymentId) ==
  /\ Buying(b, TRUE)
  /\ Len(sold) < MaxPlans
  /\ LET plan == buying[b].plan
     IN  sold' = Append(sold,
           [plan |-> plan, price |-> Price[plan], status |-> "ACTIVE",
            ends |-> IF Days[plan] = NoEnd THEN NoEnd ELSE today + Days[plan],
            paymentId |-> paymentId, seen |-> buying[b].seen])
  /\ Tell(b, "bought")
  /\ buying' = [buying EXCEPT ![b] = NoCustomer]
  /\ UNCHANGED <<today, funds, statement, deaths>>

CreateRow_NewestEntry(b) == Write(b, Len(statement))
CreateRow(b) == Write(b, buying[b].charge)

\* The process dies, or the create fails, with the money taken.
DieCharged(b) ==
  /\ Buying(b, TRUE) /\ deaths < MaxDeaths
  /\ deaths' = deaths + 1
  /\ buying' = [buying EXCEPT ![b] = NoCustomer]
  /\ UNCHANGED <<today, funds, statement, sold, told>>

-----------------------------------------------------------------------------
(* cancel, and what happens around.                                        *)

AskCancelPlan(b, i) ==
  /\ buying[b] = NoCustomer
  /\ sold[i].status = "ACTIVE"
  /\ buying' = [buying EXCEPT ![b] = [op |-> "cancel", row |-> i]]
  /\ UNCHANGED <<today, funds, statement, sold, told, deaths>>

CancelPlan(b) ==
  /\ buying[b] # NoCustomer /\ buying[b].op = "cancel"
  /\ sold' = [sold EXCEPT ![buying[b].row].status = "CANCELLED"]
  /\ buying' = [buying EXCEPT ![b] = NoCustomer]
  /\ UNCHANGED <<today, funds, statement, told, deaths>>

\* Everything else the wallet does is WalletLedger's.
Deposit(amount) ==
  /\ Len(statement) < MaxEntries
  /\ funds' = funds + amount
  /\ statement' = Append(statement,
       [type |-> "TOP_UP", amount |-> amount, causes |-> {"topUpId"}, plan |-> NoCharge])
  /\ UNCHANGED <<today, sold, buying, told, deaths>>

DayPasses ==
  /\ today < MaxDays
  /\ today' = today + 1
  /\ UNCHANGED <<funds, statement, sold, buying, told, deaths>>

-----------------------------------------------------------------------------
PlansInit ==
  /\ today = 0
  /\ funds = 0
  /\ statement = <<>>
  /\ sold = <<>>
  /\ buying = [b \in Buyers |-> NoCustomer]
  /\ told = [b \in Buyers |-> "nothing"]
  /\ deaths = 0

PlansNext ==
  \/ \E b \in Buyers :
       \/ \E plan \in Plans : AskBuy(b, plan)
       \/ \E i \in DOMAIN sold : AskCancelPlan(b, i)
       \/ ChargeToPlatform(b) \/ RefuseCharge(b) \/ GiveUp(b)
       \/ CreateRow(b) \/ DieCharged(b) \/ CancelPlan(b)
  \/ \E amount \in Deposits : Deposit(amount)
  \/ DayPasses

PlansSpec == PlansInit /\ [][PlansNext]_planVars

-----------------------------------------------------------------------------
(* Properties.                                                             *)

\* Every variable has its shape.
PlansTypeOK ==
  /\ today \in 0..MaxDays /\ deaths \in 0..MaxDeaths
  /\ funds \in Nat
  /\ statement \in Seq(StatementRow) /\ Len(statement) <= MaxEntries
  /\ sold \in Seq(SoldRow) /\ Len(sold) <= MaxPlans
  /\ buying \in [Buyers -> Purchase \cup {NoCustomer}]
  /\ told \in [Buyers -> {"nothing", "bought", "insufficient", "entry refused"}]

Charges == {e \in DOMAIN statement : statement[e].type = "PAYMENT_SENT"}
PaidBy == {sold[i].paymentId : i \in DOMAIN sold}
InHand == {b \in Buyers : Buying(b, TRUE)}

\* "The wallet payment that bought it, so the two can be reconciled": every plan
\* names the charge of its own price, no two the same one; a charge is without a
\* plan only while its call is in hand, or because that call died; and two plans
\* are in force at once only when the call for the second had looked before the
\* first was written, so nobody pays "twice over the same fortnight" otherwise.
PlansAccountedFor ==
  /\ \A i \in DOMAIN sold :
       /\ sold[i].paymentId \in Charges
       /\ statement[sold[i].paymentId].amount = -sold[i].price
       /\ statement[sold[i].paymentId].plan = sold[i].plan
       /\ \A j \in DOMAIN sold : sold[i].paymentId = sold[j].paymentId => i = j
  /\ Cardinality(Charges \ PaidBy) = Cardinality(InHand) + deaths
  /\ \A i, j \in Current(sold) : i < j => sold[j].seen < i

\* "One debit and one ledger row, no counterparty", which "carries no payment
\* id": the ledger takes the charge of somebody who has the money.
ChargeIsTaken ==
  \A b \in Buyers : told[b] # "entry refused"

\* "What was paid for still runs to its end date."
PaidForRuns ==
  \A i \in DOMAIN sold : Runs(sold[i]) => Current(sold) # {}
=============================================================================
