---------------------------- MODULE WalletLedger ----------------------------
(***************************************************************************)
(* What the wallet promises: a ledger in which every movement of money is  *)
(* one indivisible step.  WalletService announces exactly this ("Every     *)
(* movement of money runs inside one database transaction that locks the   *)
(* wallet rows it touches"); module Wallet has the transactions, locks and *)
(* retries that are meant to deliver it, and implements this module.       *)
(*                                                                         *)
(* The state is the committed content of the wallet tables.  Rows are      *)
(* keyed by what makes them unique: a payment or a withdrawal by the       *)
(* requestId its app chose, a top-up by its id.  Amounts are whole taka.   *)
(*                                                                         *)
(* An operator Name_Slip above Name is Name with a slip a programmer could *)
(* make; nothing uses it.                                                  *)
(***************************************************************************)
EXTENDS Integers, Sequences, FiniteSets, Functions

CONSTANTS
  Users,          \* account ids, as numbers: the code compares them to order its locks
  PaymentIds,     \* requestIds of payments and transfers
  WithdrawalIds,  \* requestIds of withdrawals
  TopUpIds,       \* top-ups opened at the gateway or declared as deposits
  Amounts,        \* amounts a request may name
  None            \* an absent row

Causes == PaymentIds \cup WithdrawalIds \cup TopUpIds

ASSUME UsersAssumption == Users \subseteq Nat
ASSUME AmountsAssumption == Amounts \subseteq Nat \ {0}
ASSUME IdsAssumption ==
  /\ PaymentIds \cap WithdrawalIds = {}
  /\ PaymentIds \cap TopUpIds = {}
  /\ WithdrawalIds \cap TopUpIds = {}
ASSUME TablesAssumption ==
  /\ IsFiniteSet(Users) /\ IsFiniteSet(PaymentIds)
  /\ IsFiniteSet(WithdrawalIds) /\ IsFiniteSet(TopUpIds)

Row == [balance : Int, withdrawable : Int]

Payment == [payer : Users, payee : Users, amount : Amounts, forWork : BOOLEAN]

Withdrawal == [user : Users, amount : Amounts,
               status : {"PENDING", "PAID", "REJECTED", "CANCELLED"}]

\* OPEN stands for whichever statuses the caller of creditTopUp may claim
\* from; module TopUp tells them apart.
TopUp == [owner : Users, amount : Amounts, status : {"OPEN", "PAID"}]

EntryType == {"TOP_UP", "PAYMENT_SENT", "PAYMENT_RECEIVED",
              "WITHDRAWAL", "WITHDRAWAL_RETURNED"}

Entry == [type : EntryType, amount : Int, balanceAfter : Int, cause : Causes]

ASSUME NoneAssumption == None \notin Payment /\ None \notin Withdrawal

VARIABLES
  wallet,       \* wallets: balance and withdrawable of each account
  entries,      \* wallet_entries: each wallet's statement, oldest first
  payments,     \* wallet_payments by requestId
  withdrawals,  \* wallet_withdrawals by requestId
  topUps        \* wallet_top_ups

ledgerVars == <<wallet, entries, payments, withdrawals, topUps>>

-----------------------------------------------------------------------------
(* What one movement does to a wallet row.                                 *)

Lesser(a, b) == IF a <= b THEN a ELSE b
Greater(a, b) == IF a >= b THEN a ELSE b

\* Money in, `earned` of it withdrawable.
Gain_AllEarned(row, amount, earned) ==
  [balance |-> row.balance + amount, withdrawable |-> row.withdrawable + amount]
Gain(row, amount, earned) ==
  [balance |-> row.balance + amount, withdrawable |-> row.withdrawable + earned]

\* Money out for a job: added money is spent before earned money.
Spend(row, amount) ==
  [balance |-> row.balance - amount,
   withdrawable |-> Lesser(row.withdrawable, row.balance - amount)]

\* How much of a transfer comes out of the earned part of the sender's wallet.
EarnedPart(row, amount) ==
  Greater(0, amount - (row.balance - row.withdrawable))

\* Money out to another account: only the earned part moves as earned.
Send(row, amount) ==
  [balance |-> row.balance - amount,
   withdrawable |-> row.withdrawable - EarnedPart(row, amount)]

\* Money leaving the platform.
Draw(row, amount) ==
  [balance |-> row.balance - amount, withdrawable |-> row.withdrawable - amount]

\* The rule post() checks before it writes a row, and the table's CHECK
\* constraint repeats. It is no guard here: LedgerRule says it never fires.
LegalRow(row) ==
  /\ row.balance >= 0
  /\ row.withdrawable >= 0
  /\ row.withdrawable <= row.balance

\* The ledger row post() appends after a wallet changed from row to next.
EntryFor_NoCause(type, row, next, cause) ==
  [type |-> type, amount |-> next.balance - row.balance,
   balanceAfter |-> next.balance, cause |-> None]
EntryFor(type, row, next, cause) ==
  [type |-> type, amount |-> next.balance - row.balance,
   balanceAfter |-> next.balance, cause |-> cause]

\* One wallet's movement: the row and its entry, together.
PostOne(u, row, next, type, cause) ==
  /\ wallet' = [wallet EXCEPT ![u] = next]
  /\ entries' = [entries EXCEPT ![u] = Append(@, EntryFor(type, row, next, cause))]

\* Both sides of a payment.
PostBoth_PayerOnly(payer, row, next, payee, row2, next2, id) ==
  /\ wallet' = [wallet EXCEPT ![payer] = next, ![payee] = next2]
  /\ entries' = [entries EXCEPT
       ![payer] = Append(@, EntryFor("PAYMENT_SENT", row, next, id))]
PostBoth(payer, row, next, payee, row2, next2, id) ==
  /\ wallet' = [wallet EXCEPT ![payer] = next, ![payee] = next2]
  /\ entries' = [entries EXCEPT
       ![payer] = Append(@, EntryFor("PAYMENT_SENT", row, next, id)),
       ![payee] = Append(@, EntryFor("PAYMENT_RECEIVED", row2, next2, id))]

-----------------------------------------------------------------------------
(* The movements.                                                          *)

\* Pay someone for work, from the hired list or by naming the job: all of it
\* arrives as earnings.
PayForWork(id, payer, payee, amount) ==
  /\ payments[id] = None
  /\ payer # payee
  /\ wallet[payer].balance >= amount
  /\ payments' = [payments EXCEPT ![id] =
       [payer |-> payer, payee |-> payee, amount |-> amount, forWork |-> TRUE]]
  /\ PostBoth(payer, wallet[payer], Spend(wallet[payer], amount),
              payee, wallet[payee], Gain(wallet[payee], amount, amount), id)
  /\ UNCHANGED <<withdrawals, topUps>>

\* Send money to another account: only what was earned arrives as earned.
Transfer(id, payer, payee, amount) ==
  /\ payments[id] = None
  /\ payer # payee
  /\ wallet[payer].balance >= amount
  /\ payments' = [payments EXCEPT ![id] =
       [payer |-> payer, payee |-> payee, amount |-> amount, forWork |-> FALSE]]
  /\ PostBoth(payer, wallet[payer], Send(wallet[payer], amount),
              payee, wallet[payee],
              Gain(wallet[payee], amount, EarnedPart(wallet[payer], amount)), id)
  /\ UNCHANGED <<withdrawals, topUps>>

\* Ask for earnings to be sent out: they leave the wallet now.
TakeOut(id, user, amount) ==
  /\ withdrawals' = [withdrawals EXCEPT ![id] =
       [user |-> user, amount |-> amount, status |-> "PENDING"]]
  /\ PostOne(user, wallet[user], Draw(wallet[user], amount), "WITHDRAWAL", id)
  /\ UNCHANGED <<payments, topUps>>

Withdraw(id, user, amount) ==
  /\ withdrawals[id] = None
  /\ wallet[user].withdrawable >= amount
  /\ TakeOut(id, user, amount)

\* Cancelled by its owner or rejected by an admin: the money goes back.
PutBack(id, status) ==
  /\ withdrawals[id] # None
  /\ withdrawals' = [withdrawals EXCEPT ![id].status = status]
  /\ LET w == withdrawals[id]
     IN  PostOne(w.user, wallet[w.user], Gain(wallet[w.user], w.amount, w.amount),
                 "WITHDRAWAL_RETURNED", id)
  /\ UNCHANGED <<payments, topUps>>

Pending(id) == withdrawals[id] # None /\ withdrawals[id].status = "PENDING"
Return(id, status) == Pending(id) /\ PutBack(id, status)

\* An admin sent the transfer: no money moves, it left when asked for.
RecordPaid(id) ==
  /\ withdrawals[id] # None
  /\ withdrawals' = [withdrawals EXCEPT ![id].status = "PAID"]
  /\ UNCHANGED <<wallet, entries, payments, topUps>>

MarkPaid(id) == Pending(id) /\ RecordPaid(id)

\* A confirmed top-up: spendable, not withdrawable.
Credit(id) ==
  /\ topUps' = [topUps EXCEPT ![id].status = "PAID"]
  /\ LET t == topUps[id]
     IN  PostOne(t.owner, wallet[t.owner], Gain(wallet[t.owner], t.amount, 0),
                 "TOP_UP", id)
  /\ UNCHANGED <<payments, withdrawals>>

CreditTopUp(id) == topUps[id].status = "OPEN" /\ Credit(id)

Init ==
  /\ wallet = [u \in Users |-> [balance |-> 0, withdrawable |-> 0]]
  /\ entries = [u \in Users |-> <<>>]
  /\ payments = [id \in PaymentIds |-> None]
  /\ withdrawals = [id \in WithdrawalIds |-> None]
  /\ topUps \in [TopUpIds -> [owner : Users, amount : Amounts, status : {"OPEN"}]]

Next ==
  \/ \E id \in PaymentIds, payer, payee \in Users, amount \in Amounts :
       PayForWork(id, payer, payee, amount) \/ Transfer(id, payer, payee, amount)
  \/ \E id \in WithdrawalIds, user \in Users, amount \in Amounts :
       Withdraw(id, user, amount)
  \/ \E id \in WithdrawalIds, status \in {"CANCELLED", "REJECTED"} : Return(id, status)
  \/ \E id \in WithdrawalIds : MarkPaid(id)
  \/ \E id \in TopUpIds : CreditTopUp(id)

Spec == Init /\ [][Next]_ledgerVars

-----------------------------------------------------------------------------
(* Properties.                                                             *)

\* Every variable has its shape.
TypeOK ==
  /\ wallet \in [Users -> Row]
  /\ entries \in [Users -> Seq(Entry)]
  /\ payments \in [PaymentIds -> Payment \cup {None}]
  /\ withdrawals \in [WithdrawalIds -> Withdrawal \cup {None}]
  /\ topUps \in [TopUpIds -> TopUp]

\* No sequence of movements takes a wallet below zero or makes more of it
\* withdrawable than is there: the balance checks made before a movement are
\* enough, and post() never has to throw "Ledger rule broken".
LedgerRule == \A u \in Users : LegalRow(wallet[u])

\* The balance a statement ends on: zero before the first entry.
LastBalance(s) == IF s = <<>> THEN 0 ELSE s[Len(s)].balanceAfter

\* "A broken ledger shows up as a row whose balanceAfter minus amount is not
\* the previous row's balanceAfter": no statement has one, and it ends on the
\* balance the wallet row holds.
StatementChains ==
  \A u \in Users :
    /\ LastBalance(entries[u]) = wallet[u].balance
    /\ \A i \in 1..Len(entries[u]) :
         entries[u][i].balanceAfter - entries[u][i].amount =
           IF i = 1 THEN 0 ELSE entries[u][i - 1].balanceAfter

\* Whether a cause must have left an entry of this type on u's statement, ...
Due(u, type, cause) ==
  \/ /\ type = "PAYMENT_SENT" /\ cause \in PaymentIds
     /\ payments[cause] # None /\ payments[cause].payer = u
  \/ /\ type = "PAYMENT_RECEIVED" /\ cause \in PaymentIds
     /\ payments[cause] # None /\ payments[cause].payee = u
  \/ /\ type = "WITHDRAWAL" /\ cause \in WithdrawalIds
     /\ withdrawals[cause] # None /\ withdrawals[cause].user = u
  \/ /\ type = "WITHDRAWAL_RETURNED" /\ cause \in WithdrawalIds
     /\ withdrawals[cause] # None /\ withdrawals[cause].user = u
     /\ withdrawals[cause].status \in {"REJECTED", "CANCELLED"}
  \/ /\ type = "TOP_UP" /\ cause \in TopUpIds
     /\ topUps[cause].status = "PAID" /\ topUps[cause].owner = u

\* ... and for how much.
AmountOf(cause) ==
  IF cause \in PaymentIds THEN payments[cause].amount
  ELSE IF cause \in WithdrawalIds THEN withdrawals[cause].amount
  ELSE topUps[cause].amount

DueAmount(type, cause) ==
  IF type \in {"PAYMENT_SENT", "WITHDRAWAL"} THEN -AmountOf(cause) ELSE AmountOf(cause)

\* Every entry is explained by its cause, and no cause explains two entries of
\* one kind: nobody is charged, credited or refunded twice for one request,
\* and a paid-out withdrawal is never also returned.
EveryEntryOwed ==
  \A u \in Users : \A i \in 1..Len(entries[u]) :
    LET e == entries[u][i]
    IN  /\ Due(u, e.type, e.cause)
        /\ e.amount = DueAmount(e.type, e.cause)
        /\ \A j \in 1..Len(entries[u]) :
             entries[u][j].cause = e.cause /\ entries[u][j].type = e.type => i = j

\* And nothing owed is missing: a payment always has both of its sides, a
\* returned withdrawal always has its refund, a PAID top-up its credit.
EveryDebtEntered ==
  \A u \in Users, type \in EntryType, cause \in Causes :
    Due(u, type, cause) =>
      \E i \in 1..Len(entries[u]) :
        entries[u][i].cause = cause /\ entries[u][i].type = type

\* The statements, read as a whole, are true: they chain, they say nothing that
\* was not owed, and they leave nothing owed out.
StatementsTrue == StatementChains /\ EveryEntryOwed /\ EveryDebtEntered

\* What a withdrawal keeps out of the wallets, a top-up brought in, and a payment
\* gave for work.
OutFor(id) ==
  IF withdrawals[id] = None \/ withdrawals[id].status \in {"REJECTED", "CANCELLED"}
  THEN 0 ELSE withdrawals[id].amount
BroughtBy(id) == IF topUps[id].status = "PAID" THEN topUps[id].amount ELSE 0
EarnedBy(id) == IF payments[id] # None /\ payments[id].forWork THEN payments[id].amount ELSE 0

\* Money is neither made nor lost - what sits in the wallets or has been asked
\* out of them is what top-ups brought in - and "only money earned from work may
\* leave the platform": all that is or was withdrawable was once paid for work,
\* whatever transfers carried it around.
MoneyAccountedFor ==
  LET asked == SumFunction([id \in WithdrawalIds |-> OutFor(id)])
  IN  /\ SumFunction([u \in Users |-> wallet[u].balance]) + asked
           = SumFunction([id \in TopUpIds |-> BroughtBy(id)])
      /\ SumFunction([u \in Users |-> wallet[u].withdrawable]) + asked
           <= SumFunction([id \in PaymentIds |-> EarnedBy(id)])

\* A withdrawal that was paid, rejected or cancelled stays that way, as does a
\* PAID top-up; a payment row never changes once written.
Settled ==
  [][/\ \A id \in WithdrawalIds :
          withdrawals[id] # None /\ withdrawals[id].status # "PENDING"
            => withdrawals'[id] = withdrawals[id]
     /\ \A id \in TopUpIds : topUps[id].status = "PAID" => topUps'[id] = topUps[id]
     /\ \A id \in PaymentIds : payments[id] # None => payments'[id] = payments[id]
    ]_ledgerVars
=============================================================================
