------------------------- MODULE WalletLedger_proofs -------------------------
(***************************************************************************)
(* The ledger's safety properties, proved for any accounts, amounts, keys   *)
(* and length of history.  TypeOK comes first; LedgerRule, StatementChains, *)
(* EveryEntryOwed and EveryDebtEntered are each inductive on top of it, and *)
(* together are StatementsTrue. MoneyAccountedFor is inductive too, once it *)
(* is known how a sum over a finite set moves with one of its terms: that   *)
(* is proved from the definition of the sum, by the size of its domain.     *)
(***************************************************************************)
EXTENDS WalletLedger, FiniteSetTheorems, WellFoundedInduction, TLAPS

\* Every movement only ever appends, to statements whose entries are Entries.
LEMMA AppendFacts ==
  ASSUME NEW S, NEW s \in Seq(S), NEW e \in S
  PROVE  /\ Append(s, e) \in Seq(S)
         /\ Len(Append(s, e)) = Len(s) + 1
         /\ Append(s, e)[Len(s) + 1] = e
         /\ \A i \in 1..Len(s) : Append(s, e)[i] = s[i]
  OBVIOUS

\* What each movement does to a row keeps it a pair of integers.
LEMMA RowFacts ==
  ASSUME NEW row \in Row, NEW a \in Int, NEW b \in Int
  PROVE  /\ Gain(row, a, b) \in Row /\ Spend(row, a) \in Row
         /\ Send(row, a) \in Row /\ Draw(row, a) \in Row
         /\ EarnedPart(row, a) \in Int
  BY DEF Row, Gain, Spend, Send, Draw, EarnedPart, Lesser, Greater

\* Paying for work and sending money leave the payer with the same row: the
\* two formulas of the code say the same thing.
LEMMA SpendIsSend ==
  ASSUME NEW row \in Row, NEW a \in Nat
  PROVE  Spend(row, a) = Send(row, a)
  BY DEF Row, Spend, Send, EarnedPart, Lesser, Greater

\* What a movement appends is an Entry.
LEMMA EntryFacts ==
  ASSUME NEW row \in Row, NEW next \in Row, NEW type \in EntryType, NEW cause \in Causes
  PROVE  EntryFor(type, row, next, cause) \in Entry
  BY DEF Row, Entry, EntryFor

LEMMA PostOneType ==
  ASSUME TypeOK, NEW u \in Users, NEW next \in Row, NEW type \in EntryType,
         NEW cause \in Causes, PostOne(u, wallet[u], next, type, cause)
  PROVE  wallet' \in [Users -> Row] /\ entries' \in [Users -> Seq(Entry)]
<1>1. EntryFor(type, wallet[u], next, cause) \in Entry
  BY EntryFacts DEF TypeOK
<1>2. Append(entries[u], EntryFor(type, wallet[u], next, cause)) \in Seq(Entry)
  BY <1>1, AppendFacts DEF TypeOK
<1> QED
  BY <1>2 DEF TypeOK, PostOne

LEMMA PostBothType ==
  ASSUME TypeOK, NEW u \in Users, NEW v \in Users, u # v, NEW next \in Row,
         NEW next2 \in Row, NEW id \in PaymentIds,
         PostBoth(u, wallet[u], next, v, wallet[v], next2, id)
  PROVE  wallet' \in [Users -> Row] /\ entries' \in [Users -> Seq(Entry)]
<1> DEFINE sent == EntryFor("PAYMENT_SENT", wallet[u], next, id)
           received == EntryFor("PAYMENT_RECEIVED", wallet[v], next2, id)
<1>1. sent \in Entry /\ received \in Entry
  BY EntryFacts DEF TypeOK, EntryType, Causes
<1>2. Append(entries[u], sent) \in Seq(Entry) /\ Append(entries[v], received) \in Seq(Entry)
  BY <1>1, AppendFacts DEF TypeOK
<1> HIDE DEF sent, received
<1>3. entries' = [entries EXCEPT ![u] = Append(@, sent), ![v] = Append(@, received)]
  BY DEF PostBoth, sent, received
<1> QED
  BY <1>2, <1>3 DEF TypeOK, PostBoth

-----------------------------------------------------------------------------
\* The rows and statements keep their shape through every movement.
LEMMA TypeStep ==
  ASSUME TypeOK, [Next]_ledgerVars
  PROVE  TypeOK'
<1>a. \A amount \in Amounts : amount \in Int
  BY AmountsAssumption
<1>w. \A u \in Users : wallet[u] \in Row
  BY DEF TypeOK
<1>1. ASSUME NEW id \in PaymentIds, NEW payer \in Users, NEW payee \in Users,
             NEW amount \in Amounts, PayForWork(id, payer, payee, amount)
      PROVE  TypeOK'
  <2>1. Spend(wallet[payer], amount) \in Row /\ Gain(wallet[payee], amount, amount) \in Row
    BY <1>a, <1>w, RowFacts
  <2>2. wallet' \in [Users -> Row] /\ entries' \in [Users -> Seq(Entry)]
    BY <1>1, <2>1, PostBothType DEF PayForWork
  <2> QED
    BY <1>1, <2>2 DEF TypeOK, PayForWork, Payment
<1>2. ASSUME NEW id \in PaymentIds, NEW payer \in Users, NEW payee \in Users,
             NEW amount \in Amounts, Transfer(id, payer, payee, amount)
      PROVE  TypeOK'
  <2>1. /\ Send(wallet[payer], amount) \in Row
        /\ Gain(wallet[payee], amount, EarnedPart(wallet[payer], amount)) \in Row
    BY <1>a, <1>w, RowFacts
  <2>2. wallet' \in [Users -> Row] /\ entries' \in [Users -> Seq(Entry)]
    BY <1>2, <2>1, PostBothType DEF Transfer
  <2> QED
    BY <1>2, <2>2 DEF TypeOK, Transfer, Payment
<1>3. ASSUME NEW id \in WithdrawalIds, NEW user \in Users, NEW amount \in Amounts,
             Withdraw(id, user, amount)
      PROVE  TypeOK'
  <2>1. Draw(wallet[user], amount) \in Row
    BY <1>a, <1>w, RowFacts
  <2>2. wallet' \in [Users -> Row] /\ entries' \in [Users -> Seq(Entry)]
    BY <1>3, <2>1, PostOneType DEF Withdraw, TakeOut, EntryType, Causes
  <2> QED
    BY <1>3, <2>2 DEF TypeOK, Withdraw, TakeOut, Withdrawal
<1>4. ASSUME NEW id \in WithdrawalIds, NEW status \in {"CANCELLED", "REJECTED"},
             Return(id, status)
      PROVE  TypeOK'
  <2> DEFINE w == withdrawals[id]
  <2>0. w \in Withdrawal
    BY <1>4 DEF TypeOK, Return, Pending, PutBack
  <2>1. w.user \in Users /\ w.amount \in Amounts
    BY <2>0 DEF Withdrawal
  <2>2. Gain(wallet[w.user], w.amount, w.amount) \in Row
    BY <1>a, <1>w, <2>1, RowFacts
  <2>3. wallet' \in [Users -> Row] /\ entries' \in [Users -> Seq(Entry)]
    BY <1>4, <2>1, <2>2, PostOneType DEF Return, Pending, PutBack, EntryType, Causes
  <2>4. withdrawals' \in [WithdrawalIds -> Withdrawal \cup {None}]
    BY <1>4, <2>0 DEF TypeOK, Return, Pending, PutBack, Withdrawal
  <2> QED
    BY <1>4, <2>3, <2>4 DEF TypeOK, Return, Pending, PutBack
<1>5. ASSUME NEW id \in WithdrawalIds, MarkPaid(id)
      PROVE  TypeOK'
  <2>1. withdrawals[id] \in Withdrawal
    BY <1>5 DEF TypeOK, MarkPaid, Pending, RecordPaid
  <2>2. withdrawals' \in [WithdrawalIds -> Withdrawal \cup {None}]
    BY <1>5, <2>1 DEF TypeOK, MarkPaid, Pending, RecordPaid, Withdrawal
  <2> QED
    BY <1>5, <2>2 DEF TypeOK, MarkPaid, Pending, RecordPaid
<1>6. ASSUME NEW id \in TopUpIds, CreditTopUp(id)
      PROVE  TypeOK'
  <2> DEFINE t == topUps[id]
  <2>1. t \in TopUp /\ t.owner \in Users /\ t.amount \in Amounts
    BY DEF TypeOK, TopUp
  <2>2. Gain(wallet[t.owner], t.amount, 0) \in Row
    BY <1>a, <1>w, <2>1, RowFacts
  <2>3. wallet' \in [Users -> Row] /\ entries' \in [Users -> Seq(Entry)]
    BY <1>6, <2>1, <2>2, PostOneType DEF CreditTopUp, Credit, EntryType, Causes
  <2>4. topUps' \in [TopUpIds -> TopUp]
    BY <1>6, <2>1 DEF TypeOK, CreditTopUp, Credit, TopUp
  <2> QED
    BY <1>6, <2>3, <2>4 DEF TypeOK, CreditTopUp, Credit
<1>7. CASE UNCHANGED ledgerVars
  BY <1>7 DEF TypeOK, ledgerVars
<1> QED
  BY <1>1, <1>2, <1>3, <1>4, <1>5, <1>6, <1>7 DEF Next

\* The ledger's variables have their types, in every behaviour.
THEOREM Typing == Spec => []TypeOK
<1>1. Init => TypeOK
  BY NoneAssumption DEF Init, TypeOK, Row, TopUp, Payment, Withdrawal, Entry
<1>2. TypeOK /\ [Next]_ledgerVars => TypeOK'
  BY TypeStep
<1> QED
  BY <1>1, <1>2, PTL DEF Spec

\* A withdrawal keeps its decision, a top-up its credit and a payment its
\* content, through any later step.
THEOREM Settling == Spec => Settled
<1>1. TypeOK /\ [Next]_ledgerVars =>
        [/\ \A id \in WithdrawalIds :
              withdrawals[id] # None /\ withdrawals[id].status # "PENDING"
                => withdrawals'[id] = withdrawals[id]
         /\ \A id \in TopUpIds : topUps[id].status = "PAID" => topUps'[id] = topUps[id]
         /\ \A id \in PaymentIds : payments[id] # None => payments'[id] = payments[id]
        ]_ledgerVars
  BY DEF TypeOK, Next, PayForWork, Transfer, Withdraw, TakeOut, Return, Pending, PutBack,
         MarkPaid, RecordPaid, CreditTopUp, Credit
<1> QED
  BY <1>1, Typing, PTL DEF Spec, Settled

-----------------------------------------------------------------------------
\* The balance checks made before each movement keep every row legal.
THEOREM Legality == Spec => []LedgerRule
<1>1. Init => LedgerRule
  BY DEF Init, LedgerRule, LegalRow
<1>2. TypeOK /\ LedgerRule /\ [Next]_ledgerVars => LedgerRule'
  <2> SUFFICES ASSUME TypeOK, LedgerRule, [Next]_ledgerVars,
                      NEW u \in Users
               PROVE  LegalRow(wallet'[u])
    BY DEF LedgerRule, LegalRow
  <2> USE AmountsAssumption
  <2>0. \A x \in Users : wallet[x] \in Row /\ LegalRow(wallet[x])
    BY DEF TypeOK, LedgerRule
  <2>1. ASSUME NEW id \in PaymentIds, NEW payer \in Users, NEW payee \in Users,
               NEW amount \in Amounts, PayForWork(id, payer, payee, amount)
        PROVE  LegalRow(wallet'[u])
    BY <2>0, <2>1, SMTT(30)
       DEF TypeOK, LegalRow, PayForWork, PostBoth, Spend, Gain, Lesser, Row
  <2>2. ASSUME NEW id \in PaymentIds, NEW payer \in Users, NEW payee \in Users,
               NEW amount \in Amounts, Transfer(id, payer, payee, amount)
        PROVE  LegalRow(wallet'[u])
    <3>1. amount \in Nat /\ wallet[payer] \in Row /\ wallet[payee] \in Row
      BY <2>0
    <3>2. Send(wallet[payer], amount) = Spend(wallet[payer], amount)
      BY <3>1, SpendIsSend
    <3>3. LegalRow(Send(wallet[payer], amount))
      BY <2>0, <2>2, <3>1, <3>2 DEF LegalRow, Transfer, Spend, Lesser, Row
    <3>4. 0 <= EarnedPart(wallet[payer], amount) /\ EarnedPart(wallet[payer], amount) <= amount
      BY <2>0, <3>1 DEF LegalRow, EarnedPart, Greater, Row
    <3>5. EarnedPart(wallet[payer], amount) \in Int
      BY <3>1, RowFacts
    <3>6. LegalRow(Gain(wallet[payee], amount, EarnedPart(wallet[payer], amount)))
      BY <2>0, <3>1, <3>4, <3>5 DEF LegalRow, Gain, Row
    <3> QED
      BY <2>0, <2>2, <3>3, <3>6 DEF TypeOK, Transfer, PostBoth
  <2>3. ASSUME NEW id \in WithdrawalIds, NEW user \in Users, NEW amount \in Amounts,
               Withdraw(id, user, amount)
        PROVE  LegalRow(wallet'[u])
    BY <2>0, <2>3 DEF TypeOK, LegalRow, Withdraw, TakeOut, PostOne, Draw, Row
  <2>4. ASSUME NEW id \in WithdrawalIds, NEW status \in {"CANCELLED", "REJECTED"},
               Return(id, status)
        PROVE  LegalRow(wallet'[u])
    <3>1. withdrawals[id].user \in Users /\ withdrawals[id].amount \in Nat
      BY <2>4 DEF TypeOK, Return, Pending, PutBack, Withdrawal
    <3> QED
      BY <2>0, <2>4, <3>1 DEF TypeOK, LegalRow, Return, Pending, PutBack, PostOne, Gain, Row
  <2>5. ASSUME NEW id \in WithdrawalIds, MarkPaid(id)
        PROVE  LegalRow(wallet'[u])
    BY <2>0, <2>5 DEF MarkPaid, Pending, RecordPaid
  <2>6. ASSUME NEW id \in TopUpIds, CreditTopUp(id)
        PROVE  LegalRow(wallet'[u])
    <3>1. topUps[id].owner \in Users /\ topUps[id].amount \in Nat
      BY DEF TypeOK, TopUp
    <3> QED
      BY <2>0, <2>6, <3>1 DEF TypeOK, LegalRow, CreditTopUp, Credit, PostOne, Gain, Row
  <2>7. CASE UNCHANGED ledgerVars
    BY <2>0, <2>7 DEF ledgerVars
  <2> QED
    BY <2>1, <2>2, <2>3, <2>4, <2>5, <2>6, <2>7 DEF Next
<1> QED
  BY <1>1, <1>2, Typing, PTL DEF Spec

-----------------------------------------------------------------------------
(* Statements.  A step leaves a statement alone, or appends the entry of a  *)
(* cause that was not due before it and is due after it; and what was due   *)
(* stays due.                                                               *)

\* The entry a step appends to u's statement.
Appends(u, type, cause) ==
  /\ entries'[u] = Append(entries[u], EntryFor(type, wallet[u], wallet'[u], cause))
  /\ wallet'[u].balance - wallet[u].balance = DueAmount(type, cause)'
  /\ Due(u, type, cause)' /\ ~Due(u, type, cause)

LEMMA StepAppends ==
  ASSUME TypeOK, [Next]_ledgerVars, NEW u \in Users
  PROVE  \/ entries'[u] = entries[u] /\ wallet'[u].balance = wallet[u].balance
         \/ \E type \in EntryType, cause \in Causes : Appends(u, type, cause)
<1>a. \A amount \in Amounts : amount \in Int
  BY AmountsAssumption
<1>w. \A x \in Users : wallet[x] \in Row
  BY DEF TypeOK
<1>1. ASSUME NEW id \in PaymentIds, NEW payer \in Users, NEW payee \in Users,
             NEW amount \in Amounts, NEW earned \in Int, NEW forWork \in BOOLEAN,
             NEW next \in Row, next.balance = wallet[payer].balance - amount,
             payments[id] = None, payer # payee,
             payments' = [payments EXCEPT ![id] =
               [payer |-> payer, payee |-> payee, amount |-> amount, forWork |-> forWork]],
             PostBoth(payer, wallet[payer], next,
                      payee, wallet[payee], Gain(wallet[payee], amount, earned), id)
      PROVE  \/ entries'[u] = entries[u] /\ wallet'[u].balance = wallet[u].balance
             \/ \E type \in EntryType, cause \in Causes : Appends(u, type, cause)
  <2>0. id \in Causes /\ payments'[id] = [payer |-> payer, payee |-> payee,
                                          amount |-> amount, forWork |-> forWork]
    BY <1>1 DEF TypeOK, Causes
  <2>0a. Gain(wallet[payee], amount, earned) \in Row
    BY <1>a, <1>w, RowFacts
  <2>1. CASE u = payer
    <3>1. /\ entries'[u] = Append(entries[u], EntryFor("PAYMENT_SENT", wallet[u], wallet'[u], id))
          /\ wallet'[u] = next
      BY <1>1, <2>1 DEF TypeOK, PostBoth
    <3>2. wallet'[u].balance - wallet[u].balance = -amount
      BY <1>1, <1>a, <1>w, <2>1, <3>1 DEF Row
    <3>3. DueAmount("PAYMENT_SENT", id)' = -amount
      BY <2>0 DEF DueAmount, AmountOf
    <3>4. Due(u, "PAYMENT_SENT", id)' /\ ~Due(u, "PAYMENT_SENT", id)
      BY <1>1, <2>0, <2>1, NoneAssumption DEF Due, Payment
    <3>5. Appends(u, "PAYMENT_SENT", id)
      BY <3>1, <3>2, <3>3, <3>4 DEF Appends
    <3> QED
      BY <2>0, <3>5 DEF EntryType
  <2>2. CASE u = payee
    <3>1. /\ entries'[u] = Append(entries[u], EntryFor("PAYMENT_RECEIVED", wallet[u], wallet'[u], id))
          /\ wallet'[u] = Gain(wallet[payee], amount, earned)
      BY <1>1, <2>2 DEF TypeOK, PostBoth
    <3>2. wallet'[u].balance - wallet[u].balance = amount
      BY <1>a, <1>w, <2>2, <3>1 DEF Row, Gain
    <3>3. DueAmount("PAYMENT_RECEIVED", id)' = amount
      BY <2>0 DEF DueAmount, AmountOf
    <3>4. Due(u, "PAYMENT_RECEIVED", id)' /\ ~Due(u, "PAYMENT_RECEIVED", id)
      BY <1>1, <2>0, <2>2, NoneAssumption DEF Due, Payment
    <3>5. Appends(u, "PAYMENT_RECEIVED", id)
      BY <3>1, <3>2, <3>3, <3>4 DEF Appends
    <3> QED
      BY <2>0, <3>5 DEF EntryType
  <2>3. CASE u # payer /\ u # payee
    BY <1>1, <2>3 DEF TypeOK, PostBoth
  <2> QED
    BY <2>1, <2>2, <2>3
<1>2. ASSUME NEW id \in PaymentIds, NEW payer \in Users, NEW payee \in Users,
             NEW amount \in Amounts, PayForWork(id, payer, payee, amount)
      PROVE  \/ entries'[u] = entries[u] /\ wallet'[u].balance = wallet[u].balance
             \/ \E type \in EntryType, cause \in Causes : Appends(u, type, cause)
  <2>1. Spend(wallet[payer], amount) \in Row
    BY <1>a, <1>w, RowFacts
  <2>2. Spend(wallet[payer], amount).balance = wallet[payer].balance - amount
    BY DEF Spend
  <2> QED
    BY <1>1, <1>2, <1>a, <2>1, <2>2 DEF PayForWork
<1>3. ASSUME NEW id \in PaymentIds, NEW payer \in Users, NEW payee \in Users,
             NEW amount \in Amounts, Transfer(id, payer, payee, amount)
      PROVE  \/ entries'[u] = entries[u] /\ wallet'[u].balance = wallet[u].balance
             \/ \E type \in EntryType, cause \in Causes : Appends(u, type, cause)
  <2>1. Send(wallet[payer], amount) \in Row /\ EarnedPart(wallet[payer], amount) \in Int
    BY <1>a, <1>w, RowFacts
  <2>2. Send(wallet[payer], amount).balance = wallet[payer].balance - amount
    BY DEF Send
  <2> QED
    BY <1>1, <1>3, <2>1, <2>2 DEF Transfer
<1>4. ASSUME NEW o \in Users, NEW next \in Row, NEW type \in EntryType, NEW id \in Causes,
             PostOne(o, wallet[o], next, type, id),
             next.balance - wallet[o].balance = DueAmount(type, id)',
             Due(o, type, id)', ~Due(o, type, id)
      PROVE  \/ entries'[u] = entries[u] /\ wallet'[u].balance = wallet[u].balance
             \/ \E t \in EntryType, cause \in Causes : Appends(u, t, cause)
  <2>1. CASE u = o
    <3>1. /\ entries'[u] = Append(entries[u], EntryFor(type, wallet[u], wallet'[u], id))
          /\ wallet'[u] = next
      BY <1>4, <2>1 DEF TypeOK, PostOne
    <3>2. Appends(u, type, id)
      BY <1>4, <2>1, <3>1 DEF Appends
    <3> QED
      BY <3>2
  <2>2. CASE u # o
    BY <1>4, <2>2 DEF TypeOK, PostOne
  <2> QED
    BY <2>1, <2>2
<1>5. ASSUME NEW id \in WithdrawalIds, NEW user \in Users, NEW amount \in Amounts,
             Withdraw(id, user, amount)
      PROVE  \/ entries'[u] = entries[u] /\ wallet'[u].balance = wallet[u].balance
             \/ \E type \in EntryType, cause \in Causes : Appends(u, type, cause)
  <2>1. Draw(wallet[user], amount) \in Row
    BY <1>a, <1>w, RowFacts
  <2>2. Draw(wallet[user], amount).balance - wallet[user].balance = -amount
    BY <1>a, <1>w DEF Draw, Row
  <2>3. withdrawals'[id] = [user |-> user, amount |-> amount, status |-> "PENDING"]
    BY <1>5 DEF TypeOK, Withdraw, TakeOut
  <2>4. DueAmount("WITHDRAWAL", id)' = -amount
    BY <2>3, IdsAssumption DEF DueAmount, AmountOf
  <2>5. Due(user, "WITHDRAWAL", id)' /\ ~Due(user, "WITHDRAWAL", id)
    BY <1>5, <2>3, NoneAssumption DEF Due, Withdraw, TakeOut, Withdrawal
  <2> QED
    BY <1>4, <1>5, <2>1, <2>2, <2>4, <2>5 DEF Withdraw, TakeOut, EntryType, Causes
<1>6. ASSUME NEW id \in WithdrawalIds, NEW status \in {"CANCELLED", "REJECTED"},
             Return(id, status)
      PROVE  \/ entries'[u] = entries[u] /\ wallet'[u].balance = wallet[u].balance
             \/ \E type \in EntryType, cause \in Causes : Appends(u, type, cause)
  <2> DEFINE w == withdrawals[id]
  <2>0. w \in Withdrawal /\ w.user \in Users /\ w.amount \in Amounts
    BY <1>6 DEF TypeOK, Return, Pending, PutBack, Withdrawal
  <2>1. Gain(wallet[w.user], w.amount, w.amount) \in Row
    BY <1>a, <1>w, <2>0, RowFacts
  <2>2. Gain(wallet[w.user], w.amount, w.amount).balance - wallet[w.user].balance = w.amount
    BY <1>a, <1>w, <2>0 DEF Gain, Row
  <2>3. withdrawals'[id] = [w EXCEPT !.status = status]
    BY <1>6 DEF TypeOK, Return, Pending, PutBack
  <2>3a. /\ withdrawals'[id].user = w.user /\ withdrawals'[id].amount = w.amount
         /\ withdrawals'[id].status = status /\ withdrawals'[id] \in Withdrawal
    BY <2>0, <2>3 DEF Withdrawal
  <2>4. DueAmount("WITHDRAWAL_RETURNED", id)' = w.amount
    BY <2>3a, IdsAssumption DEF DueAmount, AmountOf
  <2>5. Due(w.user, "WITHDRAWAL_RETURNED", id)' /\ ~Due(w.user, "WITHDRAWAL_RETURNED", id)
    BY <1>6, <2>3a, NoneAssumption DEF Due, Return, Pending, PutBack
  <2> QED
    BY <1>4, <1>6, <2>0, <2>1, <2>2, <2>4, <2>5 DEF Return, Pending, PutBack, EntryType, Causes
<1>7. ASSUME NEW id \in TopUpIds, CreditTopUp(id)
      PROVE  \/ entries'[u] = entries[u] /\ wallet'[u].balance = wallet[u].balance
             \/ \E type \in EntryType, cause \in Causes : Appends(u, type, cause)
  <2> DEFINE t == topUps[id]
  <2>0. t \in TopUp /\ t.owner \in Users /\ t.amount \in Amounts
    BY DEF TypeOK, TopUp
  <2>1. Gain(wallet[t.owner], t.amount, 0) \in Row
    BY <1>a, <1>w, <2>0, RowFacts
  <2>2. Gain(wallet[t.owner], t.amount, 0).balance - wallet[t.owner].balance = t.amount
    BY <1>a, <1>w, <2>0 DEF Gain, Row
  <2>3. /\ topUps'[id].owner = t.owner /\ topUps'[id].amount = t.amount
        /\ topUps'[id].status = "PAID"
    BY <1>7, <2>0 DEF TypeOK, CreditTopUp, Credit, TopUp
  <2>4. DueAmount("TOP_UP", id)' = t.amount
    BY <2>3, IdsAssumption DEF DueAmount, AmountOf
  <2>5. Due(t.owner, "TOP_UP", id)' /\ ~Due(t.owner, "TOP_UP", id)
    BY <1>7, <2>3 DEF Due, CreditTopUp, Credit
  <2> QED
    BY <1>4, <1>7, <2>0, <2>1, <2>2, <2>4, <2>5 DEF CreditTopUp, Credit, EntryType, Causes
<1>8. ASSUME NEW id \in WithdrawalIds, MarkPaid(id)
      PROVE  entries'[u] = entries[u] /\ wallet'[u].balance = wallet[u].balance
  BY <1>8 DEF MarkPaid, Pending, RecordPaid
<1>9. CASE UNCHANGED ledgerVars
  BY <1>9 DEF ledgerVars
<1> QED
  BY <1>2, <1>3, <1>5, <1>6, <1>7, <1>8, <1>9 DEF Next

\* A payment or withdrawal once created stays, and stays its owner's.
LEMMA RowsStay ==
  ASSUME TypeOK, [Next]_ledgerVars
  PROVE  /\ \A id \in PaymentIds : payments[id] # None => payments'[id] = payments[id]
         /\ \A id \in WithdrawalIds : withdrawals[id] # None =>
              /\ withdrawals'[id] # None
              /\ withdrawals'[id].user = withdrawals[id].user
              /\ withdrawals'[id].amount = withdrawals[id].amount
              /\ withdrawals[id].status # "PENDING" => withdrawals'[id] = withdrawals[id]
<1>1. \A id \in PaymentIds : payments[id] # None => payments'[id] = payments[id]
  BY DEF TypeOK, Next, PayForWork, Transfer, Withdraw, TakeOut, Return, Pending, PutBack,
         MarkPaid, RecordPaid, CreditTopUp, Credit, ledgerVars
<1>2. ASSUME NEW id \in WithdrawalIds, withdrawals[id] # None
      PROVE  \/ withdrawals'[id] = withdrawals[id]
             \/ /\ withdrawals[id].status = "PENDING"
                /\ \E status \in {"CANCELLED", "REJECTED", "PAID"} :
                     withdrawals'[id] = [withdrawals[id] EXCEPT !.status = status]
  <2>1. CASE UNCHANGED withdrawals
    BY <2>1
  <2>2. ASSUME NEW w \in WithdrawalIds, NEW user \in Users, NEW amount \in Amounts,
               Withdraw(w, user, amount)
        PROVE  withdrawals'[id] = withdrawals[id]
    BY <1>2, <2>2 DEF TypeOK, Withdraw, TakeOut
  <2>3. ASSUME NEW w \in WithdrawalIds, NEW status \in {"CANCELLED", "REJECTED"},
               Return(w, status)
        PROVE  \/ withdrawals'[id] = withdrawals[id]
               \/ /\ withdrawals[id].status = "PENDING"
                  /\ withdrawals'[id] = [withdrawals[id] EXCEPT !.status = status]
    BY <2>3 DEF TypeOK, Return, Pending, PutBack
  <2>4. ASSUME NEW w \in WithdrawalIds, MarkPaid(w)
        PROVE  \/ withdrawals'[id] = withdrawals[id]
               \/ /\ withdrawals[id].status = "PENDING"
                  /\ withdrawals'[id] = [withdrawals[id] EXCEPT !.status = "PAID"]
    BY <2>4 DEF TypeOK, MarkPaid, Pending, RecordPaid
  <2>5. UNCHANGED withdrawals
        \/ (\E w \in WithdrawalIds, user \in Users, amount \in Amounts : Withdraw(w, user, amount))
        \/ (\E w \in WithdrawalIds, status \in {"CANCELLED", "REJECTED"} : Return(w, status))
        \/ (\E w \in WithdrawalIds : MarkPaid(w))
    BY DEF Next, PayForWork, Transfer, CreditTopUp, Credit, ledgerVars
  <2> QED
    BY <2>1, <2>2, <2>3, <2>4, <2>5
<1>3. ASSUME NEW id \in WithdrawalIds, withdrawals[id] # None
      PROVE  /\ withdrawals'[id] # None
             /\ withdrawals'[id].user = withdrawals[id].user
             /\ withdrawals'[id].amount = withdrawals[id].amount
             /\ withdrawals[id].status # "PENDING" => withdrawals'[id] = withdrawals[id]
  <2>1. withdrawals[id] \in Withdrawal
    BY <1>3 DEF TypeOK
  <2>2. \A status \in {"CANCELLED", "REJECTED", "PAID"} :
          /\ [withdrawals[id] EXCEPT !.status = status] \in Withdrawal
          /\ [withdrawals[id] EXCEPT !.status = status].user = withdrawals[id].user
          /\ [withdrawals[id] EXCEPT !.status = status].amount = withdrawals[id].amount
    BY <2>1 DEF Withdrawal
  <2> QED
    BY <1>2, <1>3, <2>2, NoneAssumption
<1> QED
  BY <1>1, <1>3

\* What was due stays due, for the same amount.
LEMMA DueStays ==
  ASSUME TypeOK, [Next]_ledgerVars, NEW u \in Users, NEW type \in EntryType,
         NEW cause \in Causes, Due(u, type, cause)
  PROVE  Due(u, type, cause)' /\ DueAmount(type, cause)' = DueAmount(type, cause)
<1>1. \A id \in PaymentIds : payments[id] # None => payments'[id] = payments[id]
  BY RowsStay
<1>2. \A id \in WithdrawalIds : withdrawals[id] # None =>
        /\ withdrawals'[id] # None
        /\ withdrawals'[id].user = withdrawals[id].user
        /\ withdrawals'[id].amount = withdrawals[id].amount
        /\ withdrawals[id].status # "PENDING" => withdrawals'[id] = withdrawals[id]
  BY RowsStay
<1>3. \A id \in TopUpIds : topUps[id].status = "PAID" => topUps'[id] = topUps[id]
  BY DEF TypeOK, Next, PayForWork, Transfer, Withdraw, TakeOut, Return, Pending, PutBack,
         MarkPaid, RecordPaid, CreditTopUp, Credit, ledgerVars
<1> QED
  BY <1>1, <1>2, <1>3, IdsAssumption DEF Due, DueAmount, AmountOf

\* What a step makes due, it enters.
LEMMA StepEnters ==
  ASSUME TypeOK, [Next]_ledgerVars, NEW u \in Users, NEW type \in EntryType,
         NEW cause \in Causes, Due(u, type, cause)', ~Due(u, type, cause)
  PROVE  \E row, next : entries'[u] = Append(entries[u], EntryFor(type, row, next, cause))
<1>1. ASSUME NEW id \in PaymentIds, NEW payer \in Users, NEW payee \in Users,
             NEW amount \in Amounts, NEW next, NEW next2,
             payer # payee, payments'[id].payer = payer, payments'[id].payee = payee,
             \A p \in PaymentIds : p # id => payments'[p] = payments[p],
             UNCHANGED <<withdrawals, topUps>>, payments[id] = None,
             PostBoth(payer, wallet[payer], next, payee, wallet[payee], next2, id)
      PROVE  \E row, after : entries'[u] = Append(entries[u], EntryFor(type, row, after, cause))
  <2>1. /\ cause = id
        /\ (type = "PAYMENT_SENT" /\ u = payer) \/ (type = "PAYMENT_RECEIVED" /\ u = payee)
    BY <1>1 DEF Due
  <2> QED
    BY <1>1, <2>1 DEF TypeOK, PostBoth
<1>2. ASSUME NEW o \in Users, NEW next, NEW t,
             u = o, type = t, PostOne(o, wallet[o], next, t, cause)
      PROVE  \E row, after : entries'[u] = Append(entries[u], EntryFor(type, row, after, cause))
  BY <1>2 DEF TypeOK, PostOne
<1>3. ASSUME NEW id \in PaymentIds, NEW payer \in Users, NEW payee \in Users,
             NEW amount \in Amounts,
             PayForWork(id, payer, payee, amount) \/ Transfer(id, payer, payee, amount)
      PROVE  \E row, after : entries'[u] = Append(entries[u], EntryFor(type, row, after, cause))
  <2>1. /\ payments'[id].payer = payer /\ payments'[id].payee = payee
        /\ \A p \in PaymentIds : p # id => payments'[p] = payments[p]
        /\ UNCHANGED <<withdrawals, topUps>> /\ payments[id] = None /\ payer # payee
    BY <1>3 DEF TypeOK, PayForWork, Transfer
  <2>2. \E next, next2 : PostBoth(payer, wallet[payer], next, payee, wallet[payee], next2, id)
    BY <1>3 DEF PayForWork, Transfer
  <2> QED
    BY <1>1, <2>1, <2>2
<1>4. ASSUME NEW id \in WithdrawalIds, NEW user \in Users, NEW amount \in Amounts,
             Withdraw(id, user, amount)
      PROVE  \E row, after : entries'[u] = Append(entries[u], EntryFor(type, row, after, cause))
  <2>1. cause = id /\ type = "WITHDRAWAL" /\ u = user
    BY <1>4 DEF Due, TypeOK, Withdraw, TakeOut
  <2> QED
    BY <1>2, <1>4, <2>1 DEF Withdraw, TakeOut
<1>5. ASSUME NEW id \in WithdrawalIds, NEW status \in {"CANCELLED", "REJECTED"},
             Return(id, status)
      PROVE  \E row, after : entries'[u] = Append(entries[u], EntryFor(type, row, after, cause))
  <2>1. /\ withdrawals[id] \in Withdrawal
        /\ withdrawals' = [withdrawals EXCEPT ![id] = [@ EXCEPT !.status = status]]
    BY <1>5 DEF TypeOK, Return, Pending, PutBack
  <2>2. withdrawals'[id].user = withdrawals[id].user
    BY <2>1 DEF TypeOK, Withdrawal
  <2>3. /\ UNCHANGED <<payments, topUps>>
        /\ \A w \in WithdrawalIds : w # id => withdrawals'[w] = withdrawals[w]
        /\ withdrawals[id] # None
    BY <1>5 DEF TypeOK, Return, Pending, PutBack
  <2>4. cause = id /\ type = "WITHDRAWAL_RETURNED" /\ u = withdrawals[id].user
    BY <2>2, <2>3 DEF Due
  <2>5. withdrawals[id].user \in Users
    BY <2>1 DEF Withdrawal
  <2> QED
    BY <1>2, <1>5, <2>4, <2>5 DEF Return, Pending, PutBack
<1>6. ASSUME NEW id \in TopUpIds, CreditTopUp(id)
      PROVE  \E row, after : entries'[u] = Append(entries[u], EntryFor(type, row, after, cause))
  <2>1. topUps[id] \in TopUp
    BY DEF TypeOK
  <2>2. topUps'[id].owner = topUps[id].owner /\ topUps[id].owner \in Users
    BY <1>6, <2>1 DEF TypeOK, CreditTopUp, Credit, TopUp
  <2>3. /\ UNCHANGED <<payments, withdrawals>>
        /\ \A t \in TopUpIds : t # id => topUps'[t] = topUps[t]
    BY <1>6 DEF TypeOK, CreditTopUp, Credit
  <2>4. cause = id /\ type = "TOP_UP" /\ u = topUps[id].owner
    BY <2>2, <2>3 DEF Due
  <2> QED
    BY <1>2, <1>6, <2>2, <2>4 DEF CreditTopUp, Credit
<1>7. ASSUME NEW id \in WithdrawalIds, MarkPaid(id)
      PROVE  FALSE
  <2>1. /\ withdrawals[id] \in Withdrawal /\ withdrawals[id] # None
        /\ withdrawals' = [withdrawals EXCEPT ![id] = [@ EXCEPT !.status = "PAID"]]
        /\ UNCHANGED <<payments, topUps>>
    BY <1>7 DEF TypeOK, MarkPaid, Pending, RecordPaid
  <2>2. withdrawals'[id].user = withdrawals[id].user /\ withdrawals'[id].status = "PAID"
    BY <2>1 DEF TypeOK, Withdrawal
  <2>3. \A w \in WithdrawalIds : w # id => withdrawals'[w] = withdrawals[w]
    BY <2>1 DEF TypeOK
  <2> QED
    BY <2>1, <2>2, <2>3 DEF Due
<1>8. CASE UNCHANGED ledgerVars
  BY <1>8 DEF Due, ledgerVars
<1> QED
  BY <1>3, <1>4, <1>5, <1>6, <1>7, <1>8 DEF Next

-----------------------------------------------------------------------------
\* Every statement adds up, entry by entry, to the balance of its wallet.
THEOREM Chaining == Spec => []StatementChains
<1>1. Init => StatementChains
  BY DEF Init, StatementChains, LastBalance
<1>2. TypeOK /\ TypeOK' /\ StatementChains /\ [Next]_ledgerVars => StatementChains'
  <2> SUFFICES ASSUME TypeOK, TypeOK', StatementChains, [Next]_ledgerVars, NEW u \in Users
               PROVE  /\ LastBalance(entries'[u]) = wallet'[u].balance
                      /\ \A i \in 1..Len(entries'[u]) :
                           entries'[u][i].balanceAfter - entries'[u][i].amount =
                             IF i = 1 THEN 0 ELSE entries'[u][i - 1].balanceAfter
    BY DEF StatementChains
  <2>1. CASE entries'[u] = entries[u] /\ wallet'[u].balance = wallet[u].balance
    BY <2>1 DEF StatementChains
  <2>2. ASSUME NEW type \in EntryType, NEW cause \in Causes, Appends(u, type, cause)
        PROVE  /\ LastBalance(entries'[u]) = wallet'[u].balance
               /\ \A i \in 1..Len(entries'[u]) :
                    entries'[u][i].balanceAfter - entries'[u][i].amount =
                      IF i = 1 THEN 0 ELSE entries'[u][i - 1].balanceAfter
    <3> DEFINE e == EntryFor(type, wallet[u], wallet'[u], cause)
               s == entries[u]
    <3>1. wallet[u] \in Row /\ wallet'[u] \in Row /\ s \in Seq(Entry)
      BY DEF TypeOK
    <3>2. e \in Entry
      BY <3>1, EntryFacts
    <3>3. /\ e.balanceAfter = wallet'[u].balance
          /\ e.balanceAfter - e.amount = wallet[u].balance
      BY <3>1 DEF EntryFor, Row
    <3>4. entries'[u] = Append(s, e)
      BY <2>2 DEF Appends
    <3>5. /\ LastBalance(s) = wallet[u].balance
          /\ \A i \in 1..Len(s) :
               s[i].balanceAfter - s[i].amount = IF i = 1 THEN 0 ELSE s[i - 1].balanceAfter
      BY DEF StatementChains
    <3> HIDE DEF e, s
    <3>6. /\ Len(Append(s, e)) = Len(s) + 1 /\ Append(s, e)[Len(s) + 1] = e
          /\ \A i \in 1..Len(s) : Append(s, e)[i] = s[i]
          /\ Append(s, e) # <<>> /\ Len(s) \in Nat
      BY <3>1, <3>2, AppendFacts
    <3>7. LastBalance(Append(s, e)) = wallet'[u].balance
      BY <3>3, <3>6 DEF LastBalance
    <3>8. ASSUME NEW i \in 1..Len(Append(s, e))
          PROVE  Append(s, e)[i].balanceAfter - Append(s, e)[i].amount =
                   IF i = 1 THEN 0 ELSE Append(s, e)[i - 1].balanceAfter
      <4>1. CASE i \in 1..Len(s)
        BY <3>5, <3>6, <4>1
      <4>2. CASE i = Len(s) + 1
        <5>1. CASE s = <<>>
          BY <3>3, <3>5, <3>6, <4>2, <5>1 DEF LastBalance
        <5>2. CASE s # <<>>
          <6>1. Len(s) \in 1..Len(s)
            BY <3>1, <5>2
          <6> QED
            BY <3>3, <3>5, <3>6, <4>2, <5>2, <6>1 DEF LastBalance
        <5> QED
          BY <5>1, <5>2
      <4> QED
        BY <3>6, <4>1, <4>2
    <3> QED
      BY <3>4, <3>7, <3>8
  <2> QED
    BY <2>1, <2>2, StepAppends
<1> QED
  BY <1>1, <1>2, Typing, PTL DEF Spec

\* No entry without its cause, and no cause entered twice.
THEOREM NothingTwice == Spec => []EveryEntryOwed
<1>1. Init => EveryEntryOwed
  BY DEF Init, EveryEntryOwed
<1>2. TypeOK /\ TypeOK' /\ EveryEntryOwed /\ [Next]_ledgerVars => EveryEntryOwed'
  <2> SUFFICES ASSUME TypeOK, TypeOK', EveryEntryOwed, [Next]_ledgerVars, NEW u \in Users,
                      NEW i \in 1..Len(entries'[u])
               PROVE  /\ \E t \in EntryType, c \in Causes :
                           /\ entries'[u][i].type = t /\ entries'[u][i].cause = c
                           /\ Due(u, t, c)' /\ entries'[u][i].amount = DueAmount(t, c)'
                      /\ \A j \in 1..Len(entries'[u]) :
                           entries'[u][j].cause = entries'[u][i].cause
                             /\ entries'[u][j].type = entries'[u][i].type => i = j
    BY SMTT(30) DEF EveryEntryOwed, Due, DueAmount, AmountOf
  <2> DEFINE s == entries[u]
  <2>0. s \in Seq(Entry) /\ Len(s) \in Nat
    BY DEF TypeOK
  <2>1. ASSUME NEW k \in 1..Len(s)
        PROVE  /\ \E t \in EntryType, c \in Causes :
                    /\ s[k].type = t /\ s[k].cause = c
                    /\ Due(u, t, c) /\ Due(u, t, c)' /\ s[k].amount = DueAmount(t, c)'
               /\ \A j \in 1..Len(s) :
                    s[j].cause = s[k].cause /\ s[j].type = s[k].type => k = j
    <3>0. s[k] \in Entry
      BY <2>0
    <3>1. PICK t \in EntryType, c \in Causes : s[k].type = t /\ s[k].cause = c
      BY <3>0 DEF Entry
    <3>2. /\ Due(u, t, c) /\ s[k].amount = DueAmount(t, c)
          /\ \A j \in 1..Len(s) : s[j].cause = s[k].cause /\ s[j].type = s[k].type => k = j
      BY <3>1 DEF EveryEntryOwed
    <3>3. Due(u, t, c)' /\ DueAmount(t, c)' = DueAmount(t, c)
      BY <3>2, DueStays
    <3> QED
      BY <3>1, <3>2, <3>3
  <2>2. CASE entries'[u] = s
    BY <2>1, <2>2
  <2>3. ASSUME NEW type \in EntryType, NEW cause \in Causes, Appends(u, type, cause)
        PROVE  /\ \E t \in EntryType, c \in Causes :
                    /\ entries'[u][i].type = t /\ entries'[u][i].cause = c
                    /\ Due(u, t, c)' /\ entries'[u][i].amount = DueAmount(t, c)'
               /\ \A j \in 1..Len(entries'[u]) :
                    entries'[u][j].cause = entries'[u][i].cause
                      /\ entries'[u][j].type = entries'[u][i].type => i = j
    <3> DEFINE e == EntryFor(type, wallet[u], wallet'[u], cause)
    <3>1. wallet[u] \in Row /\ wallet'[u] \in Row
      BY DEF TypeOK
    <3>2. e \in Entry
      BY <3>1, EntryFacts
    <3>3. e.type = type /\ e.cause = cause /\ e.amount = wallet'[u].balance - wallet[u].balance
      BY DEF EntryFor
    <3>3a. e.amount = DueAmount(type, cause)'
      BY <2>3, <3>3 DEF Appends
    <3>4. entries'[u] = Append(s, e)
      BY <2>3 DEF Appends
    <3>5. Due(u, type, cause)' /\ ~Due(u, type, cause)
      BY <2>3 DEF Appends
    <3> HIDE DEF e, s
    <3>6. /\ Len(Append(s, e)) = Len(s) + 1 /\ Append(s, e)[Len(s) + 1] = e
          /\ \A k \in 1..Len(s) : Append(s, e)[k] = s[k]
      BY <2>0, <3>2, AppendFacts
    <3>7. \A k \in 1..Len(s) : ~(s[k].type = type /\ s[k].cause = cause)
      BY <2>1, <3>5
    <3>8. CASE i \in 1..Len(s)
      <4>0. entries'[u][i] = s[i]
        BY <3>4, <3>6, <3>8
      <4>1. \E t \in EntryType, c \in Causes :
              /\ s[i].type = t /\ s[i].cause = c
              /\ Due(u, t, c)' /\ s[i].amount = DueAmount(t, c)'
        BY <2>1, <3>8
      <4>2. ASSUME NEW j \in 1..Len(entries'[u]), entries'[u][j].cause = entries'[u][i].cause,
                   entries'[u][j].type = entries'[u][i].type
            PROVE  i = j
        BY <2>0, <2>1, <3>3, <3>4, <3>6, <3>7, <3>8, <4>2
      <4> QED
        BY <4>0, <4>1, <4>2
    <3>9. CASE i = Len(s) + 1
      <4>1. entries'[u][i] = e
        BY <3>4, <3>6, <3>9
      <4>2. ASSUME NEW j \in 1..Len(entries'[u]), entries'[u][j].cause = cause,
                   entries'[u][j].type = type
            PROVE  i = j
        BY <2>0, <3>4, <3>6, <3>7, <3>9, <4>2
      <4> QED
        BY <3>3, <3>3a, <3>5, <4>1, <4>2
    <3> QED
      BY <2>0, <3>4, <3>6, <3>8, <3>9
  <2> QED
    BY <2>2, <2>3, StepAppends
<1> QED
  BY <1>1, <1>2, Typing, PTL DEF Spec

\* No cause without its entries.
THEOREM NothingMissing == Spec => []EveryDebtEntered
<1>1. Init => EveryDebtEntered
  BY DEF Init, EveryDebtEntered, Due, TopUp
<1>2. TypeOK /\ TypeOK' /\ EveryDebtEntered /\ [Next]_ledgerVars => EveryDebtEntered'
  <2> SUFFICES ASSUME TypeOK, TypeOK', EveryDebtEntered, [Next]_ledgerVars, NEW u \in Users,
                      NEW type \in EntryType, NEW cause \in Causes, Due(u, type, cause)'
               PROVE  \E i \in 1..Len(entries'[u]) :
                        entries'[u][i].cause = cause /\ entries'[u][i].type = type
    BY DEF EveryDebtEntered, Due
  <2> DEFINE s == entries[u]
  <2>0. s \in Seq(Entry) /\ Len(s) \in Nat
    BY DEF TypeOK
  <2>1. CASE Due(u, type, cause)
    <3>1. PICK i \in 1..Len(s) : s[i].cause = cause /\ s[i].type = type
      BY <2>1 DEF EveryDebtEntered
    <3>2. CASE entries'[u] = s
      BY <3>1, <3>2
    <3>3. ASSUME NEW t \in EntryType, NEW id \in Causes, Appends(u, t, id)
          PROVE  \E k \in 1..Len(entries'[u]) :
                   entries'[u][k].cause = cause /\ entries'[u][k].type = type
      <4> DEFINE e == EntryFor(t, wallet[u], wallet'[u], id)
      <4>1. wallet[u] \in Row /\ wallet'[u] \in Row
        BY DEF TypeOK
      <4>2. e \in Entry /\ entries'[u] = Append(s, e)
        BY <3>3, <4>1, EntryFacts DEF Appends
      <4> HIDE DEF e
      <4>3. i \in 1..Len(entries'[u]) /\ entries'[u][i] = s[i]
        BY <2>0, <4>2, AppendFacts
      <4> QED
        BY <3>1, <4>3
    <3> QED
      BY <3>2, <3>3, StepAppends
  <2>2. CASE ~Due(u, type, cause)
    <3>1. PICK row, next : entries'[u] = Append(s, EntryFor(type, row, next, cause))
      BY <2>2, StepEnters
    <3> DEFINE e == EntryFor(type, row, next, cause)
    <3>2. e.type = type /\ e.cause = cause
      BY DEF EntryFor
    <3> HIDE DEF e
    <3>3. Len(Append(s, e)) = Len(s) + 1 /\ Append(s, e)[Len(s) + 1] = e
      BY <2>0
    <3>4. Len(s) + 1 \in 1..Len(Append(s, e))
      BY <2>0, <3>3
    <3> QED
      BY <3>1, <3>2, <3>3, <3>4 DEF e
  <2> QED
    BY <2>1, <2>2
<1> QED
  BY <1>1, <1>2, Typing, PTL DEF Spec

\* The statements add up, and hold exactly what the payments, the returns and
\* the credited top-ups owe them.
THEOREM StatementsHold == Spec => []StatementsTrue
BY Chaining, NothingTwice, NothingMissing, PTL DEF StatementsTrue

-----------------------------------------------------------------------------
(* Sums over finite sets.                                                  *)

\* A set of numbers that has 0, and with a number the next, has all of them.
LEMMA AllNumbers ==
  ASSUME NEW G \in SUBSET Nat, 0 \in G, \A n \in G : n + 1 \in G
  PROVE  G = Nat
<1> DEFINE R == {ss \in Nat \X Nat : ss[1] < ss[2]}
<1>1. IsWellFoundedOn(R, Nat)
  <2>1. OpToRel(<, Nat) = R
    BY DEF OpToRel
  <2> QED
    BY <2>1, NatLessThanWellFounded
<1>2. ASSUME Nat \ G # {} PROVE FALSE
  <2>1. PICK n \in Nat \ G : \A k \in Nat \ G : <<k, n>> \notin R
    <3> HIDE DEF R
    <3> QED
      BY <1>1, <1>2, WFMin
  <2>2. \A k \in Nat \ G : ~(k < n)
    BY <2>1
  <2>3. n # 0 /\ n - 1 \in Nat /\ n - 1 < n
    BY <2>1
  <2>4. n - 1 \in G
    BY <2>2, <2>3
  <2>5. (n - 1) + 1 \in G /\ (n - 1) + 1 = n
    BY <2>3, <2>4
  <2> QED
    BY <2>1, <2>5
<1> QED
  BY <1>2

\* i gives every part of S the sum of f over it.
Term(i, f, T) == IF T = {} THEN 0 ELSE LET x == CHOOSE x \in T : TRUE IN f[x] + i[T \ {x}]
Adds(i, f, S) == i = [T \in SUBSET S |-> Term(i, f, T)]

\* A part of a finite set, and the part without the member that is taken first.
LEMMA Parts ==
  ASSUME NEW S, IsFiniteSet(S), NEW T \in SUBSET S
  PROVE  /\ IsFiniteSet(T) /\ Cardinality(T) \in Nat /\ Cardinality(T) <= Cardinality(S)
         /\ Cardinality(T) = 0 <=> T = {}
         /\ T # {} => LET x == CHOOSE x \in T : TRUE
                      IN  /\ x \in T /\ T \ {x} \in SUBSET S
                          /\ Cardinality(T \ {x}) = Cardinality(T) - 1
<1>1. IsFiniteSet(T) /\ Cardinality(T) <= Cardinality(S)
  BY FS_Subset
<1>2. Cardinality(T) \in Nat
  BY <1>1, FS_CardinalityType
<1>3. Cardinality(T) = 0 <=> T = {}
  BY <1>1, FS_EmptySet
<1>4. ASSUME T # {}
      PROVE  LET x == CHOOSE x \in T : TRUE
             IN  /\ x \in T /\ T \ {x} \in SUBSET S
                 /\ Cardinality(T \ {x}) = Cardinality(T) - 1
  <2> DEFINE x == CHOOSE x \in T : TRUE
  <2>1. x \in T
    BY <1>4
  <2> HIDE DEF x
  <2>2. T \ {x} \in SUBSET S /\ Cardinality(T \ {x}) = Cardinality(T) - 1
    BY <1>1, <2>1, FS_RemoveElement
  <2> QED
    BY <2>1, <2>2 DEF x
<1> QED
  BY <1>1, <1>2, <1>3, <1>4

\* Every finite sum there is exists.
LEMMA SumExists ==
  ASSUME NEW S, IsFiniteSet(S), NEW f
  PROVE  \E i : Adds(i, f, S)
<1> DEFINE Upto(n) == {T \in SUBSET S : Cardinality(T) <= n}
           G == {n \in Nat : \E i : i = [T \in Upto(n) |-> Term(i, f, T)]}
<1>1. 0 \in G
  <2> DEFINE i == [T \in Upto(0) |-> 0]
  <2>1. \A T \in Upto(0) : T = {}
    <3>1. ASSUME NEW T \in SUBSET S, Cardinality(T) <= 0 PROVE T = {}
      <4>1. Cardinality(T) \in Nat /\ (Cardinality(T) = 0 <=> T = {})
        BY Parts
      <4> QED
        BY <3>1, <4>1
    <3> QED
      BY <3>1
  <2>2. \A T \in Upto(0) : Term(i, f, T) = 0
    BY <2>1 DEF Term
  <2>3. i = [T \in Upto(0) |-> Term(i, f, T)]
    BY <2>2
  <2> QED
    BY <2>3
<1>2. ASSUME NEW n \in G PROVE n + 1 \in G
  <2>1. PICK i : i = [T \in Upto(n) |-> Term(i, f, T)]
    OBVIOUS
  <2> DEFINE j == [T \in Upto(n + 1) |-> Term(i, f, T)]
  <2>2. n \in Nat /\ n + 1 \in Nat
    OBVIOUS
  <2>3. ASSUME NEW T \in Upto(n + 1) PROVE Term(j, f, T) = Term(i, f, T)
    <3>1. CASE T = {}
      BY <3>1 DEF Term
    <3>2. CASE T # {}
      <4> DEFINE x == CHOOSE x \in T : TRUE
      <4>1. /\ T \ {x} \in SUBSET S /\ Cardinality(T \ {x}) = Cardinality(T) - 1
            /\ Cardinality(T) \in Nat
        BY <2>3, <3>2, Parts
      <4>2. T \ {x} \in Upto(n)
        <5> HIDE DEF x
        <5> QED
          BY <2>2, <2>3, <4>1
      <4>3. T \ {x} \in Upto(n + 1)
        <5> HIDE DEF x
        <5> QED
          BY <2>2, <4>1, <4>2
      <4>4. j[T \ {x}] = i[T \ {x}]
        <5>1. PICK U : U = T \ {x}
          OBVIOUS
        <5>2. U \in Upto(n) /\ U \in Upto(n + 1)
          BY <4>2, <4>3, <5>1
        <5> HIDE DEF x, Upto
        <5>3. i[U] = Term(i, f, U)
          BY <2>1, <5>2
        <5>4. j[U] = Term(i, f, U)
          BY <5>2
        <5> QED
          BY <5>1, <5>3, <5>4
      <4>5. /\ Term(j, f, T) = f[x] + j[T \ {x}]
            /\ Term(i, f, T) = f[x] + i[T \ {x}]
        <5> HIDE DEF j
        <5> QED
          BY <3>2 DEF Term
      <4> HIDE DEF x, j
      <4> QED
        BY <4>4, <4>5
    <3> QED
      BY <3>1, <3>2
  <2>4. j = [T \in Upto(n + 1) |-> Term(j, f, T)]
    BY <2>3
  <2> HIDE DEF j, Upto
  <2> QED
    BY <2>2, <2>4
<1>3. G = Nat
  <2> HIDE DEF G
  <2>1. G \in SUBSET Nat
    BY DEF G
  <2> QED
    BY <1>1, <1>2, <2>1, AllNumbers
<1>4. Cardinality(S) \in G
  <2> HIDE DEF G
  <2> QED
    BY <1>3, FS_CardinalityType
<1>5. Upto(Cardinality(S)) = SUBSET S
  <2>1. \A T \in SUBSET S : Cardinality(T) <= Cardinality(S)
    BY Parts
  <2> QED
    BY <2>1
<1> HIDE DEF Upto
<1> QED
  BY <1>4, <1>5 DEF Adds

\* The sum of a function with a finite domain.
LEMMA SumIs ==
  ASSUME NEW f, IsFiniteSet(DOMAIN f)
  PROVE  \E i : Adds(i, f, DOMAIN f) /\ SumFunction(f) = i[DOMAIN f]
<1>1. SumFunction(f) = (CHOOSE i : Adds(i, f, DOMAIN f))[DOMAIN f]
  BY Zenon DEF SumFunction, SumFunctionOnSet, FoldFunctionOnSet, MapThenFoldSet, Adds, Term
<1>2. Adds(CHOOSE i : Adds(i, f, DOMAIN f), f, DOMAIN f)
  BY SumExists, Zenon
<1> QED
  BY <1>1, <1>2

\* A sum takes any member of its part first.
LEMMA Taking ==
  ASSUME NEW f, NEW S, IsFiniteSet(S), NEW i, Adds(i, f, S), NEW T \in SUBSET S
  PROVE  /\ T = {} => i[T] = 0
         /\ T # {} => \E x \in T : /\ x = CHOOSE y \in T : TRUE
                                   /\ T \ {x} \in SUBSET S
                                   /\ Cardinality(T \ {x}) = Cardinality(T) - 1
                                   /\ i[T] = f[x] + i[T \ {x}]
<1>1. i[T] = Term(i, f, T)
  BY DEF Adds
<1>2. ASSUME T # {}
      PROVE  \E x \in T : /\ x = CHOOSE y \in T : TRUE
                          /\ T \ {x} \in SUBSET S
                          /\ Cardinality(T \ {x}) = Cardinality(T) - 1
                          /\ i[T] = f[x] + i[T \ {x}]
  <2>1. PICK x : x = CHOOSE y \in T : TRUE
    OBVIOUS
  <2>2. x \in T /\ T \ {x} \in SUBSET S /\ Cardinality(T \ {x}) = Cardinality(T) - 1
    BY <1>2, <2>1, Parts
  <2>3. i[T] = f[x] + i[T \ {x}]
    BY <1>1, <1>2, <2>1 DEF Term
  <2> QED
    BY <2>1, <2>2, <2>3
<1> QED
  BY <1>1, <1>2 DEF Term

\* A fact about every part of a finite set, built up from the empty one.
LEMMA ByParts ==
  ASSUME NEW S, IsFiniteSet(S), NEW Fine \in SUBSET (SUBSET S), {} \in Fine,
         \A T \in SUBSET S :
           T # {} /\ (\A U \in SUBSET S : Cardinality(U) = Cardinality(T) - 1 => U \in Fine)
             => T \in Fine
  PROVE  Fine = SUBSET S
<1> DEFINE G == {n \in Nat : \A T \in SUBSET S : Cardinality(T) = n => T \in Fine}
<1>1. 0 \in G
  BY Parts
<1>2. ASSUME NEW n \in G PROVE n + 1 \in G
  <2>1. ASSUME NEW T \in SUBSET S, Cardinality(T) = n + 1 PROVE T \in Fine
    <3>1. T # {} /\ n \in Nat /\ Cardinality(T) - 1 = n
      BY <1>2, <2>1, Parts
    <3>2. \A U \in SUBSET S : Cardinality(U) = n => U \in Fine
      BY <1>2
    <3> QED
      BY <3>1, <3>2
  <2> QED
    BY <1>2, <2>1
<1>3. G = Nat
  <2> HIDE DEF G
  <2>1. G \in SUBSET Nat
    BY DEF G
  <2> QED
    BY <1>1, <1>2, <2>1, AllNumbers
<1>4. ASSUME NEW T \in SUBSET S PROVE T \in Fine
  <2>1. Cardinality(T) \in Nat
    BY Parts
  <2>2. Cardinality(T) \in G
    <3> HIDE DEF G
    <3> QED
      BY <1>3, <2>1
  <2> QED
    BY <2>2
<1> QED
  BY <1>4

\* A sum of nothing but zeros.
LEMMA SumOfZeros ==
  ASSUME NEW f, IsFiniteSet(DOMAIN f), \A x \in DOMAIN f : f[x] = 0
  PROVE  SumFunction(f) = 0
<1> DEFINE S == DOMAIN f
<1>1. PICK i : Adds(i, f, S) /\ SumFunction(f) = i[S]
  BY SumIs
<1> DEFINE Fine == {T \in SUBSET S : i[T] = 0}
<1>2. {} \in Fine
  BY <1>1, Taking
<1>3. ASSUME NEW T \in SUBSET S, T # {},
             \A U \in SUBSET S : Cardinality(U) = Cardinality(T) - 1 => U \in Fine
      PROVE  T \in Fine
  <2>1. PICK x \in T : /\ T \ {x} \in SUBSET S
                       /\ Cardinality(T \ {x}) = Cardinality(T) - 1
                       /\ i[T] = f[x] + i[T \ {x}]
    BY <1>1, <1>3, Taking
  <2>2. i[T \ {x}] = 0 /\ f[x] = 0
    BY <1>3, <2>1
  <2> QED
    BY <2>1, <2>2
<1>4. Fine = SUBSET S
  <2>1. Fine \in SUBSET (SUBSET S)
    OBVIOUS
  <2> HIDE DEF Fine, S
  <2>2. IsFiniteSet(S)
    BY DEF S
  <2> QED
    BY <1>2, <1>3, <2>1, <2>2, ByParts
<1> QED
  BY <1>1, <1>4

\* A sum of integers, and one that differs from it in one place.
LEMMA SumMoves ==
  ASSUME NEW S, IsFiniteSet(S), NEW f \in [S -> Int], NEW g \in [S -> Int],
         NEW z \in S, \A x \in S \ {z} : g[x] = f[x]
  PROVE  /\ SumFunction(f) \in Int
         /\ SumFunction(g) = SumFunction(f) + (g[z] - f[z])
<1>1. PICK i : Adds(i, f, S) /\ SumFunction(f) = i[S]
  BY SumIs
<1>2. PICK j : Adds(j, g, S) /\ SumFunction(g) = j[S]
  BY SumIs
<1>3. PICK d \in Int : d = g[z] - f[z]
  OBVIOUS
<1> DEFINE Fine == {T \in SUBSET S : i[T] \in Int /\ j[T] = i[T] + (IF z \in T THEN d ELSE 0)}
<1>4. {} \in Fine
  <2>1. i[{}] = 0 /\ j[{}] = 0
    BY <1>1, <1>2, Taking
  <2> QED
    BY <2>1
<1>5. ASSUME NEW T \in SUBSET S, T # {},
             \A U \in SUBSET S : Cardinality(U) = Cardinality(T) - 1 => U \in Fine
      PROVE  T \in Fine
  <2>1. PICK x \in T : /\ x = CHOOSE y \in T : TRUE
                       /\ T \ {x} \in SUBSET S
                       /\ Cardinality(T \ {x}) = Cardinality(T) - 1
                       /\ i[T] = f[x] + i[T \ {x}]
    BY <1>1, <1>5, Taking
  <2>2. PICK y \in T : /\ y = CHOOSE w \in T : TRUE
                       /\ j[T] = g[y] + j[T \ {y}]
    BY <1>2, <1>5, Taking
  <2>3. j[T] = g[x] + j[T \ {x}]
    BY <2>1, <2>2
  <2>4. PICK U \in SUBSET S : U = T \ {x}
    BY <2>1
  <2>5. U \in Fine
    BY <1>5, <2>1, <2>4
  <2>6. i[U] \in Int /\ j[U] = i[U] + (IF z \in U THEN d ELSE 0)
    BY <2>5
  <2>7. f[x] \in Int /\ g[x] \in Int /\ i[T] = f[x] + i[U] /\ j[T] = g[x] + j[U]
    BY <2>1, <2>3, <2>4
  <2>8. CASE x = z
    <3>1. z \notin U /\ z \in T
      BY <2>4, <2>8
    <3>2. j[U] = i[U] /\ d = g[x] - f[x]
      BY <1>3, <2>6, <2>8, <3>1
    <3>3. j[T] = i[T] + d /\ i[T] \in Int
      BY <2>6, <2>7, <3>2
    <3> QED
      BY <3>1, <3>3
  <2>9. CASE x # z
    <3>1. (z \in U <=> z \in T) /\ g[x] = f[x]
      BY <2>4, <2>9
    <3>2. CASE z \in T
      <4>1. j[U] = i[U] + d
        BY <2>6, <3>1, <3>2
      <4>2. j[T] = i[T] + d /\ i[T] \in Int
        BY <2>6, <2>7, <3>1, <4>1
      <4> QED
        BY <3>2, <4>2
    <3>3. CASE z \notin T
      <4>1. j[U] = i[U]
        BY <2>6, <3>1, <3>3
      <4>2. j[T] = i[T] /\ i[T] \in Int
        BY <2>6, <2>7, <3>1, <4>1
      <4> QED
        BY <3>3, <4>2
    <3> QED
      BY <3>2, <3>3
  <2> QED
    BY <2>8, <2>9
<1>6. Fine = SUBSET S
  <2>1. Fine \in SUBSET (SUBSET S)
    OBVIOUS
  <2> HIDE DEF Fine
  <2> QED
    BY <1>4, <1>5, <2>1, ByParts
<1>7. S \in Fine
  <2> HIDE DEF Fine
  <2> QED
    BY <1>6
<1> QED
  BY <1>1, <1>2, <1>3, <1>7

-----------------------------------------------------------------------------
(* The money.                                                              *)

Balances == [u \in Users |-> wallet[u].balance]
Earnings == [u \in Users |-> wallet[u].withdrawable]
Asked == [id \in WithdrawalIds |-> OutFor(id)]
Brought == [id \in TopUpIds |-> BroughtBy(id)]
Earned == [id \in PaymentIds |-> EarnedBy(id)]

\* A sum whose terms are all as they were.
LEMMA SumStays ==
  ASSUME NEW S, IsFiniteSet(S), NEW f \in [S -> Int]
  PROVE  SumFunction(f) \in Int
<1>1. CASE S = {}
  <2>1. IsFiniteSet(DOMAIN f) /\ \A x \in DOMAIN f : f[x] = 0
    BY <1>1
  <2> QED
    BY <2>1, SumOfZeros
<1>2. CASE S # {}
  <2>1. PICK z \in S : TRUE
    BY <1>2
  <2> QED
    BY SumMoves
<1> QED
  BY <1>1, <1>2

\* A sum of which two terms move.
LEMMA SumMovesTwice ==
  ASSUME NEW S, IsFiniteSet(S), NEW f \in [S -> Int], NEW g \in [S -> Int],
         NEW y \in S, NEW z \in S, y # z, \A x \in S \ {y, z} : g[x] = f[x]
  PROVE  /\ SumFunction(f) \in Int
         /\ SumFunction(g) = SumFunction(f) + (g[y] - f[y]) + (g[z] - f[z])
<1> DEFINE h == [f EXCEPT ![y] = g[y]]
<1>1. h \in [S -> Int] /\ h[y] = g[y] /\ \A x \in S \ {y} : h[x] = f[x]
  OBVIOUS
<1>2. \A x \in S \ {z} : g[x] = h[x]
  BY <1>1
<1> HIDE DEF h
<1>3. SumFunction(f) \in Int /\ SumFunction(h) = SumFunction(f) + (h[y] - f[y])
  BY <1>1, SumMoves
<1>4. SumFunction(g) = SumFunction(h) + (g[z] - h[z])
  BY <1>1, <1>2, SumMoves
<1>5. h[y] = g[y] /\ h[z] = f[z] /\ f[y] \in Int /\ g[y] \in Int /\ f[z] \in Int /\ g[z] \in Int
  BY <1>1
<1> QED
  BY <1>3, <1>4, <1>5

SumsTyped ==
  /\ Balances \in [Users -> Int] /\ Earnings \in [Users -> Int]
  /\ Asked \in [WithdrawalIds -> Int] /\ Brought \in [TopUpIds -> Int]
  /\ Earned \in [PaymentIds -> Int]

LEMMA SumsAreInts == TypeOK => SumsTyped
<1> SUFFICES ASSUME TypeOK PROVE SumsTyped
  OBVIOUS
<1>1. \A amount \in Amounts : amount \in Int
  BY AmountsAssumption
<1>2. Balances \in [Users -> Int] /\ Earnings \in [Users -> Int]
  BY DEF TypeOK, Row, Balances, Earnings
<1>3. ASSUME NEW id \in WithdrawalIds PROVE OutFor(id) \in Int
  <2>1. withdrawals[id] = None \/ withdrawals[id].amount \in Int
    BY <1>1 DEF TypeOK, Withdrawal
  <2>2. OutFor(id) = 0 \/ (withdrawals[id] # None /\ OutFor(id) = withdrawals[id].amount)
    BY DEF OutFor
  <2> QED
    BY <2>1, <2>2
<1>4. ASSUME NEW id \in TopUpIds PROVE BroughtBy(id) \in Int
  <2>1. topUps[id].amount \in Int
    BY <1>1 DEF TypeOK, TopUp
  <2>2. BroughtBy(id) = 0 \/ BroughtBy(id) = topUps[id].amount
    BY DEF BroughtBy
  <2> QED
    BY <2>1, <2>2
<1>5. ASSUME NEW id \in PaymentIds PROVE EarnedBy(id) \in Int
  <2>1. payments[id] = None \/ payments[id].amount \in Int
    BY <1>1 DEF TypeOK, Payment
  <2>2. EarnedBy(id) = 0 \/ (payments[id] # None /\ EarnedBy(id) = payments[id].amount)
    BY DEF EarnedBy
  <2> QED
    BY <2>1, <2>2
<1> QED
  BY <1>2, <1>3, <1>4, <1>5 DEF SumsTyped, Asked, Brought, Earned

LEMMA SumsStayInts == TypeOK' => SumsTyped'
BY SumsAreInts, PTL

\* The five sums of a state, and what money being accounted for says of them.
LEMMA InSums ==
  ASSUME TypeOK
  PROVE  /\ SumFunction(Balances) \in Int /\ SumFunction(Earnings) \in Int
         /\ SumFunction(Asked) \in Int /\ SumFunction(Brought) \in Int
         /\ SumFunction(Earned) \in Int
         /\ MoneyAccountedFor <=>
              /\ SumFunction(Balances) + SumFunction(Asked) = SumFunction(Brought)
              /\ SumFunction(Earnings) + SumFunction(Asked) <= SumFunction(Earned)
<1>1. /\ SumFunction(Balances) \in Int /\ SumFunction(Earnings) \in Int
      /\ SumFunction(Asked) \in Int /\ SumFunction(Brought) \in Int
      /\ SumFunction(Earned) \in Int
  BY SumsAreInts, SumStays, TablesAssumption DEF SumsTyped
<1> QED
  BY <1>1 DEF MoneyAccountedFor, Balances, Earnings, Asked, Brought, Earned

\* One wallet's movement moves the sums of the wallets by what it moves the row.
LEMMA OneWalletMoves ==
  ASSUME TypeOK, TypeOK', NEW u \in Users, NEW next \in Row,
         wallet' = [wallet EXCEPT ![u] = next]
  PROVE  /\ SumFunction(Balances)' = SumFunction(Balances) + (next.balance - wallet[u].balance)
         /\ SumFunction(Earnings)' =
              SumFunction(Earnings) + (next.withdrawable - wallet[u].withdrawable)
<1>1. PICK f, g, h, k : f = Balances /\ g = Balances' /\ h = Earnings /\ k = Earnings'
  OBVIOUS
<1>2. /\ f \in [Users -> Int] /\ g \in [Users -> Int]
      /\ h \in [Users -> Int] /\ k \in [Users -> Int]
  BY <1>1, SumsAreInts, SumsStayInts DEF SumsTyped
<1>3. /\ wallet'[u] = next /\ \A v \in Users \ {u} : wallet'[v] = wallet[v]
  BY DEF TypeOK
<1>4. /\ \A v \in Users \ {u} : g[v] = f[v] /\ k[v] = h[v]
      /\ f[u] = wallet[u].balance /\ g[u] = next.balance
      /\ h[u] = wallet[u].withdrawable /\ k[u] = next.withdrawable
  BY <1>1, <1>3 DEF Balances, Earnings
<1>5. SumFunction(g) = SumFunction(f) + (g[u] - f[u])
  BY <1>2, <1>4, SumMoves, TablesAssumption
<1>6. SumFunction(k) = SumFunction(h) + (k[u] - h[u])
  BY <1>2, <1>4, SumMoves, TablesAssumption
<1> QED
  BY <1>1, <1>4, <1>5, <1>6

\* So do the two of a payment.
LEMMA BothWalletsMove ==
  ASSUME TypeOK, TypeOK', NEW u \in Users, NEW v \in Users, u # v,
         NEW next \in Row, NEW next2 \in Row,
         wallet' = [wallet EXCEPT ![u] = next, ![v] = next2]
  PROVE  /\ SumFunction(Balances)' = SumFunction(Balances)
              + (next.balance - wallet[u].balance) + (next2.balance - wallet[v].balance)
         /\ SumFunction(Earnings)' = SumFunction(Earnings)
              + (next.withdrawable - wallet[u].withdrawable)
              + (next2.withdrawable - wallet[v].withdrawable)
<1>1. PICK f, g, h, k : f = Balances /\ g = Balances' /\ h = Earnings /\ k = Earnings'
  OBVIOUS
<1>2. /\ f \in [Users -> Int] /\ g \in [Users -> Int]
      /\ h \in [Users -> Int] /\ k \in [Users -> Int]
  BY <1>1, SumsAreInts, SumsStayInts DEF SumsTyped
<1>3. /\ wallet'[u] = next /\ wallet'[v] = next2
      /\ \A w \in Users \ {u, v} : wallet'[w] = wallet[w]
  BY DEF TypeOK
<1>4. /\ \A w \in Users : f[w] = wallet[w].balance /\ g[w] = wallet'[w].balance
      /\ \A w \in Users : h[w] = wallet[w].withdrawable /\ k[w] = wallet'[w].withdrawable
  BY <1>1 DEF Balances, Earnings
<1>7. ASSUME NEW w \in Users \ {u, v}
      PROVE  g[w] = f[w] /\ k[w] = h[w]
  <2>1. w \in Users /\ wallet'[w] = wallet[w]
    BY <1>3
  <2>2. f[w] = wallet[w].balance /\ g[w] = wallet'[w].balance
    BY <1>4, <2>1
  <2>3. h[w] = wallet[w].withdrawable /\ k[w] = wallet'[w].withdrawable
    BY <1>4, <2>1
  <2> QED
    BY <2>1, <2>2, <2>3
<1>8. /\ g[u] = next.balance /\ g[v] = next2.balance
      /\ k[u] = next.withdrawable /\ k[v] = next2.withdrawable
  BY <1>3, <1>4
<1>5. SumFunction(g) = SumFunction(f) + (g[u] - f[u]) + (g[v] - f[v])
  BY <1>2, <1>7, SumMovesTwice, TablesAssumption
<1>6. SumFunction(k) = SumFunction(h) + (k[u] - h[u]) + (k[v] - h[v])
  BY <1>2, <1>7, SumMovesTwice, TablesAssumption
<1> QED
  BY <1>1, <1>4, <1>5, <1>6, <1>8

\* A row of a request that moves, or is written, moves its sum by its amount.
LEMMA OneRowMoves ==
  ASSUME TypeOK, TypeOK'
  PROVE  /\ \A id \in WithdrawalIds :
              (\A x \in WithdrawalIds \ {id} : withdrawals'[x] = withdrawals[x]) =>
                SumFunction(Asked)' = SumFunction(Asked) + (OutFor(id)' - OutFor(id))
         /\ \A id \in TopUpIds :
              (\A x \in TopUpIds \ {id} : topUps'[x] = topUps[x]) =>
                SumFunction(Brought)' = SumFunction(Brought) + (BroughtBy(id)' - BroughtBy(id))
         /\ \A id \in PaymentIds :
              (\A x \in PaymentIds \ {id} : payments'[x] = payments[x]) =>
                SumFunction(Earned)' = SumFunction(Earned) + (EarnedBy(id)' - EarnedBy(id))
<1>1. /\ Asked \in [WithdrawalIds -> Int] /\ Asked' \in [WithdrawalIds -> Int]
      /\ Brought \in [TopUpIds -> Int] /\ Brought' \in [TopUpIds -> Int]
      /\ Earned \in [PaymentIds -> Int] /\ Earned' \in [PaymentIds -> Int]
  BY SumsAreInts, SumsStayInts DEF SumsTyped
<1>2. ASSUME NEW id \in WithdrawalIds, \A x \in WithdrawalIds \ {id} : withdrawals'[x] = withdrawals[x]
      PROVE  SumFunction(Asked)' = SumFunction(Asked) + (OutFor(id)' - OutFor(id))
  <2>1. PICK f, g : f = Asked /\ g = Asked'
    OBVIOUS
  <2>2. /\ \A x \in WithdrawalIds \ {id} : g[x] = f[x]
        /\ f[id] = OutFor(id) /\ g[id] = OutFor(id)'
    BY <1>2, <2>1 DEF Asked, OutFor
  <2>3. SumFunction(g) = SumFunction(f) + (g[id] - f[id])
    BY <1>1, <2>1, <2>2, SumMoves, TablesAssumption
  <2> QED
    BY <2>1, <2>2, <2>3
<1>3. ASSUME NEW id \in TopUpIds, \A x \in TopUpIds \ {id} : topUps'[x] = topUps[x]
      PROVE  SumFunction(Brought)' = SumFunction(Brought) + (BroughtBy(id)' - BroughtBy(id))
  <2>1. PICK f, g : f = Brought /\ g = Brought'
    OBVIOUS
  <2>2. /\ \A x \in TopUpIds \ {id} : g[x] = f[x]
        /\ f[id] = BroughtBy(id) /\ g[id] = BroughtBy(id)'
    BY <1>3, <2>1 DEF Brought, BroughtBy
  <2>3. SumFunction(g) = SumFunction(f) + (g[id] - f[id])
    BY <1>1, <2>1, <2>2, SumMoves, TablesAssumption
  <2> QED
    BY <2>1, <2>2, <2>3
<1>4. ASSUME NEW id \in PaymentIds, \A x \in PaymentIds \ {id} : payments'[x] = payments[x]
      PROVE  SumFunction(Earned)' = SumFunction(Earned) + (EarnedBy(id)' - EarnedBy(id))
  <2>1. PICK f, g : f = Earned /\ g = Earned'
    OBVIOUS
  <2>2. /\ \A x \in PaymentIds \ {id} : g[x] = f[x]
        /\ f[id] = EarnedBy(id) /\ g[id] = EarnedBy(id)'
    BY <1>4, <2>1 DEF Earned, EarnedBy
  <2>3. SumFunction(g) = SumFunction(f) + (g[id] - f[id])
    BY <1>1, <2>1, <2>2, SumMoves, TablesAssumption
  <2> QED
    BY <2>1, <2>2, <2>3
<1> QED
  BY <1>2, <1>3, <1>4

\* What a table that is not touched sums to.
LEMMA TablesStay ==
  /\ UNCHANGED payments => SumFunction(Earned)' = SumFunction(Earned)
  /\ UNCHANGED withdrawals => SumFunction(Asked)' = SumFunction(Asked)
  /\ UNCHANGED topUps => SumFunction(Brought)' = SumFunction(Brought)
  /\ UNCHANGED wallet => /\ SumFunction(Balances)' = SumFunction(Balances)
                         /\ SumFunction(Earnings)' = SumFunction(Earnings)
<1>1. ASSUME UNCHANGED payments PROVE Earned' = Earned
  BY <1>1 DEF Earned, EarnedBy
<1>2. ASSUME UNCHANGED withdrawals PROVE Asked' = Asked
  BY <1>2 DEF Asked, OutFor
<1>3. ASSUME UNCHANGED topUps PROVE Brought' = Brought
  BY <1>3 DEF Brought, BroughtBy
<1>4. ASSUME UNCHANGED wallet PROVE Balances' = Balances /\ Earnings' = Earnings
  BY <1>4 DEF Balances, Earnings
<1> QED
  BY <1>1, <1>2, <1>3, <1>4

\* The sums of the next state, and what it takes to account for its money.
LEMMA InSumsNext ==
  ASSUME TypeOK'
  PROVE  /\ SumFunction(Balances)' \in Int /\ SumFunction(Earnings)' \in Int
         /\ SumFunction(Asked)' \in Int /\ SumFunction(Brought)' \in Int
         /\ SumFunction(Earned)' \in Int
         /\ MoneyAccountedFor' <=>
              /\ SumFunction(Balances)' + SumFunction(Asked)' = SumFunction(Brought)'
              /\ SumFunction(Earnings)' + SumFunction(Asked)' <= SumFunction(Earned)'
<1>1. /\ SumFunction(Balances') \in Int /\ SumFunction(Earnings') \in Int
      /\ SumFunction(Asked') \in Int /\ SumFunction(Brought') \in Int
      /\ SumFunction(Earned') \in Int
  BY SumsStayInts, SumStays, TablesAssumption DEF SumsTyped
<1> QED
  BY <1>1 DEF MoneyAccountedFor, Balances, Earnings, Asked, Brought, Earned

\* Money is accounted for after a step that moves the five sums by numbers that
\* balance.
LEMMA Balancing ==
  ASSUME TypeOK, TypeOK', MoneyAccountedFor,
         NEW b \in Int, NEW e \in Int, NEW a \in Int, NEW t \in Int, NEW w \in Int,
         SumFunction(Balances)' = SumFunction(Balances) + b,
         SumFunction(Earnings)' = SumFunction(Earnings) + e,
         SumFunction(Asked)' = SumFunction(Asked) + a,
         SumFunction(Brought)' = SumFunction(Brought) + t,
         SumFunction(Earned)' = SumFunction(Earned) + w,
         b + a = t, e + a <= w
  PROVE  MoneyAccountedFor'
BY InSums, InSumsNext

LEMMA MoneyStep ==
  ASSUME TypeOK, TypeOK', MoneyAccountedFor, [Next]_ledgerVars
  PROVE  MoneyAccountedFor'
<1>0. /\ \A amount \in Amounts : amount \in Int /\ amount >= 0
      /\ \A u \in Users : wallet[u] \in Row /\ wallet[u].balance \in Int
                          /\ wallet[u].withdrawable \in Int
  BY AmountsAssumption DEF TypeOK, Row
<1>z. /\ SumFunction(Balances) \in Int /\ SumFunction(Earnings) \in Int
      /\ SumFunction(Asked) \in Int /\ SumFunction(Brought) \in Int
      /\ SumFunction(Earned) \in Int
  BY InSums
<1>1. ASSUME NEW id \in PaymentIds, NEW payer \in Users, NEW payee \in Users,
             NEW amount \in Amounts, PayForWork(id, payer, payee, amount)
      PROVE  MoneyAccountedFor'
  <2> DEFINE p == [payer |-> payer, payee |-> payee, amount |-> amount, forWork |-> TRUE]
             next == Spend(wallet[payer], amount)
             next2 == Gain(wallet[payee], amount, amount)
  <2>1. /\ payments[id] = None /\ payer # payee /\ payments' = [payments EXCEPT ![id] = p]
        /\ wallet' = [wallet EXCEPT ![payer] = next, ![payee] = next2]
        /\ UNCHANGED <<withdrawals, topUps>>
    BY <1>1 DEF PayForWork, PostBoth
  <2>2. EarnedBy(id) = 0 /\ EarnedBy(id)' = amount
    <3>1. p \in Payment
      BY DEF Payment
    <3>2. payments'[id] = p /\ p # None /\ p.forWork /\ p.amount = amount
      BY <2>1, <3>1, NoneAssumption DEF TypeOK
    <3> QED
      BY <2>1, <3>2 DEF EarnedBy
  <2>3. /\ next \in Row /\ next2 \in Row
        /\ next.balance = wallet[payer].balance - amount
        /\ next2.balance = wallet[payee].balance + amount
        /\ next.withdrawable <= wallet[payer].withdrawable
        /\ next2.withdrawable = wallet[payee].withdrawable + amount
        /\ next.withdrawable \in Int
    BY <1>0 DEF Row, Spend, Gain, Lesser
  <2>4. \A x \in PaymentIds \ {id} : payments'[x] = payments[x]
    BY <2>1 DEF TypeOK
  <2>5. SumFunction(Earned)' = SumFunction(Earned) + amount
    BY <1>0, <2>2, <2>4, OneRowMoves
  <2> HIDE DEF p, next, next2
  <2>6. /\ SumFunction(Balances)' = SumFunction(Balances)
              + (next.balance - wallet[payer].balance) + (next2.balance - wallet[payee].balance)
        /\ SumFunction(Earnings)' = SumFunction(Earnings)
              + (next.withdrawable - wallet[payer].withdrawable)
              + (next2.withdrawable - wallet[payee].withdrawable)
    BY <2>1, <2>3, BothWalletsMove
  <2>7. PICK e \in Int : e = (next.withdrawable - wallet[payer].withdrawable) + amount
    BY <1>0, <2>3
  <2>8. /\ SumFunction(Balances)' = SumFunction(Balances) + 0
        /\ SumFunction(Earnings)' = SumFunction(Earnings) + e
        /\ e + 0 <= amount
    BY <1>0, <1>z, <2>3, <2>6, <2>7
  <2>9. SumFunction(Asked)' = SumFunction(Asked) + 0 /\ SumFunction(Brought)' = SumFunction(Brought) + 0
    BY <1>z, <2>1, TablesStay
  <2>10. 0 + 0 = 0 /\ 0 \in Int /\ amount \in Int
    BY <1>0
  <2> QED
    BY <2>5, <2>8, <2>9, <2>10, Balancing
<1>2. ASSUME NEW id \in PaymentIds, NEW payer \in Users, NEW payee \in Users,
             NEW amount \in Amounts, Transfer(id, payer, payee, amount)
      PROVE  MoneyAccountedFor'
  <2>0. PICK part : part = EarnedPart(wallet[payer], amount)
    OBVIOUS
  <2> DEFINE p == [payer |-> payer, payee |-> payee, amount |-> amount, forWork |-> FALSE]
             next == Send(wallet[payer], amount)
             next2 == Gain(wallet[payee], amount, part)
  <2>1. /\ payments[id] = None /\ payer # payee /\ payments' = [payments EXCEPT ![id] = p]
        /\ wallet' = [wallet EXCEPT ![payer] = next, ![payee] = next2]
        /\ UNCHANGED <<withdrawals, topUps>>
    BY <1>2, <2>0 DEF Transfer, PostBoth
  <2>2. EarnedBy(id) = 0 /\ EarnedBy(id)' = 0
    <3>1. payments'[id] = p /\ ~p.forWork
      BY <2>1 DEF TypeOK
    <3> QED
      BY <2>1, <3>1 DEF EarnedBy
  <2>3. /\ part \in Int
        /\ next \in Row /\ next2 \in Row
        /\ next.balance = wallet[payer].balance - amount
        /\ next2.balance = wallet[payee].balance + amount
        /\ next.withdrawable = wallet[payer].withdrawable - part
        /\ next2.withdrawable = wallet[payee].withdrawable + part
    <3>1. part \in Int
      BY <1>0, <2>0 DEF EarnedPart, Greater
    <3> QED
      BY <1>0, <2>0, <3>1 DEF Row, Send, Gain
  <2>4. \A x \in PaymentIds \ {id} : payments'[x] = payments[x]
    BY <2>1 DEF TypeOK
  <2>5. SumFunction(Earned)' = SumFunction(Earned) + 0
    BY <2>2, <2>4, OneRowMoves
  <2> HIDE DEF p, next, next2
  <2>6. /\ SumFunction(Balances)' = SumFunction(Balances)
              + (next.balance - wallet[payer].balance) + (next2.balance - wallet[payee].balance)
        /\ SumFunction(Earnings)' = SumFunction(Earnings)
              + (next.withdrawable - wallet[payer].withdrawable)
              + (next2.withdrawable - wallet[payee].withdrawable)
    BY <2>1, <2>3, BothWalletsMove
  <2>8. /\ SumFunction(Balances)' = SumFunction(Balances) + 0
        /\ SumFunction(Earnings)' = SumFunction(Earnings) + 0
    BY <1>0, <1>z, <2>3, <2>6
  <2>9. SumFunction(Asked)' = SumFunction(Asked) + 0 /\ SumFunction(Brought)' = SumFunction(Brought) + 0
    BY <1>z, <2>1, TablesStay
  <2>10. 0 + 0 = 0 /\ 0 \in Int /\ 0 + 0 <= 0
    OBVIOUS
  <2> QED
    BY <2>5, <2>8, <2>9, <2>10, Balancing
<1>3. ASSUME NEW id \in WithdrawalIds, NEW user \in Users, NEW amount \in Amounts,
             Withdraw(id, user, amount)
      PROVE  MoneyAccountedFor'
  <2> DEFINE w == [user |-> user, amount |-> amount, status |-> "PENDING"]
             next == Draw(wallet[user], amount)
  <2>1. /\ withdrawals[id] = None /\ withdrawals' = [withdrawals EXCEPT ![id] = w]
        /\ wallet' = [wallet EXCEPT ![user] = next]
        /\ UNCHANGED <<payments, topUps>>
    BY <1>3 DEF Withdraw, TakeOut, PostOne
  <2>2. OutFor(id) = 0 /\ OutFor(id)' = amount
    <3>1. w \in Withdrawal
      BY DEF Withdrawal
    <3>2. withdrawals'[id] = w /\ w # None /\ w.status = "PENDING" /\ w.amount = amount
      BY <2>1, <3>1, NoneAssumption DEF TypeOK
    <3> QED
      BY <2>1, <3>2 DEF OutFor
  <2>3. /\ next \in Row /\ next.balance = wallet[user].balance - amount
        /\ next.withdrawable = wallet[user].withdrawable - amount
    BY <1>0 DEF Row, Draw
  <2>4. \A x \in WithdrawalIds \ {id} : withdrawals'[x] = withdrawals[x]
    BY <2>1 DEF TypeOK
  <2>5. SumFunction(Asked)' = SumFunction(Asked) + amount
    BY <1>0, <2>2, <2>4, OneRowMoves
  <2> HIDE DEF w, next
  <2>6. /\ SumFunction(Balances)' = SumFunction(Balances) + (next.balance - wallet[user].balance)
        /\ SumFunction(Earnings)' =
             SumFunction(Earnings) + (next.withdrawable - wallet[user].withdrawable)
    BY <2>1, <2>3, OneWalletMoves
  <2>7. PICK d \in Int : d = -amount
    BY <1>0
  <2>8. /\ SumFunction(Balances)' = SumFunction(Balances) + d
        /\ SumFunction(Earnings)' = SumFunction(Earnings) + d
        /\ d + amount = 0 /\ d + amount <= 0 /\ amount \in Int /\ 0 \in Int
    BY <1>0, <1>z, <2>3, <2>6, <2>7
  <2>9. SumFunction(Earned)' = SumFunction(Earned) + 0 /\ SumFunction(Brought)' = SumFunction(Brought) + 0
    BY <1>z, <2>1, TablesStay
  <2> QED
    BY <2>5, <2>8, <2>9, Balancing
<1>4. ASSUME NEW id \in WithdrawalIds, NEW status \in {"CANCELLED", "REJECTED"},
             Return(id, status)
      PROVE  MoneyAccountedFor'
  <2>0. PICK w \in Withdrawal : w = withdrawals[id] /\ w.status = "PENDING" /\ w # None
    BY <1>4 DEF Return, Pending, TypeOK
  <2> DEFINE next == Gain(wallet[w.user], w.amount, w.amount)
             y == [w EXCEPT !.status = status]
  <2>1. /\ withdrawals' = [withdrawals EXCEPT ![id] = y]
        /\ wallet' = [wallet EXCEPT ![w.user] = next]
        /\ UNCHANGED <<payments, topUps>>
    BY <1>4, <2>0 DEF Return, PutBack, PostOne
  <2>a. w.user \in Users /\ w.amount \in Amounts /\ w.amount \in Int
    BY <1>0, <2>0 DEF Withdrawal
  <2>2. OutFor(id) = w.amount /\ OutFor(id)' = 0
    <3>1. withdrawals'[id] = y /\ y.status = status
      BY <2>0, <2>1 DEF TypeOK, Withdrawal
    <3> QED
      BY <2>0, <3>1 DEF OutFor
  <2>3. /\ next \in Row /\ next.balance = wallet[w.user].balance + w.amount
        /\ next.withdrawable = wallet[w.user].withdrawable + w.amount
    BY <1>0, <2>a DEF Row, Gain
  <2>4. \A x \in WithdrawalIds \ {id} : withdrawals'[x] = withdrawals[x]
    BY <2>1 DEF TypeOK
  <2>7. PICK d \in Int : d = 0 - w.amount
    BY <2>a
  <2>5. SumFunction(Asked)' = SumFunction(Asked) + d
    BY <2>2, <2>4, <2>7, OneRowMoves
  <2> HIDE DEF next, y
  <2>6. /\ SumFunction(Balances)' = SumFunction(Balances) + (next.balance - wallet[w.user].balance)
        /\ SumFunction(Earnings)' =
             SumFunction(Earnings) + (next.withdrawable - wallet[w.user].withdrawable)
    BY <2>1, <2>3, <2>a, OneWalletMoves
  <2>8. /\ SumFunction(Balances)' = SumFunction(Balances) + w.amount
        /\ SumFunction(Earnings)' = SumFunction(Earnings) + w.amount
        /\ w.amount + d = 0 /\ w.amount + d <= 0 /\ 0 \in Int
    BY <1>0, <1>z, <2>a, <2>3, <2>6, <2>7
  <2>9. SumFunction(Earned)' = SumFunction(Earned) + 0 /\ SumFunction(Brought)' = SumFunction(Brought) + 0
    BY <1>z, <2>1, TablesStay
  <2> QED
    BY <2>a, <2>5, <2>8, <2>9, Balancing
<1>5. ASSUME NEW id \in WithdrawalIds, MarkPaid(id)
      PROVE  MoneyAccountedFor'
  <2>0. PICK w \in Withdrawal : w = withdrawals[id] /\ w.status = "PENDING" /\ w # None
    BY <1>5 DEF MarkPaid, Pending, TypeOK
  <2> DEFINE y == [w EXCEPT !.status = "PAID"]
  <2>1. /\ withdrawals' = [withdrawals EXCEPT ![id] = y]
        /\ UNCHANGED <<wallet, payments, topUps>>
    BY <1>5, <2>0 DEF MarkPaid, RecordPaid
  <2>a. w.amount \in Int
    BY <1>0, <2>0 DEF Withdrawal
  <2>2. OutFor(id) = w.amount /\ OutFor(id)' = w.amount
    <3>1. y \in Withdrawal /\ y.status = "PAID" /\ y.amount = w.amount
      BY <2>0 DEF Withdrawal
    <3>2. withdrawals'[id] = y /\ y # None
      BY <2>0, <2>1, <3>1, NoneAssumption DEF TypeOK
    <3> QED
      BY <2>0, <3>1, <3>2 DEF OutFor
  <2>4. \A x \in WithdrawalIds \ {id} : withdrawals'[x] = withdrawals[x]
    BY <2>1 DEF TypeOK
  <2>5. SumFunction(Asked)' = SumFunction(Asked) + 0
    BY <2>a, <2>2, <2>4, OneRowMoves
  <2>9. /\ SumFunction(Earned)' = SumFunction(Earned) + 0 /\ SumFunction(Brought)' = SumFunction(Brought) + 0
        /\ SumFunction(Balances)' = SumFunction(Balances) + 0
        /\ SumFunction(Earnings)' = SumFunction(Earnings) + 0
    BY <1>z, <2>1, TablesStay
  <2>10. 0 + 0 = 0 /\ 0 \in Int /\ 0 + 0 <= 0
    OBVIOUS
  <2> QED
    BY <2>5, <2>9, <2>10, Balancing
<1>6. ASSUME NEW id \in TopUpIds, CreditTopUp(id)
      PROVE  MoneyAccountedFor'
  <2>0. PICK t \in TopUp : t = topUps[id] /\ t.status = "OPEN"
    BY <1>6 DEF CreditTopUp, TypeOK
  <2> DEFINE next == Gain(wallet[t.owner], t.amount, 0)
             y == [t EXCEPT !.status = "PAID"]
  <2>1. /\ topUps' = [topUps EXCEPT ![id] = y]
        /\ wallet' = [wallet EXCEPT ![t.owner] = next]
        /\ UNCHANGED <<payments, withdrawals>>
    BY <1>6, <2>0 DEF CreditTopUp, Credit, PostOne
  <2>a. t.owner \in Users /\ t.amount \in Amounts /\ t.amount \in Int
    BY <1>0, <2>0 DEF TopUp
  <2>2. BroughtBy(id) = 0 /\ BroughtBy(id)' = t.amount
    <3>1. topUps'[id] = y /\ y.status = "PAID" /\ y.amount = t.amount
      BY <2>0, <2>1 DEF TypeOK, TopUp
    <3> QED
      BY <2>0, <3>1 DEF BroughtBy
  <2>3. /\ next \in Row /\ next.balance = wallet[t.owner].balance + t.amount
        /\ next.withdrawable = wallet[t.owner].withdrawable
    BY <1>0, <2>a DEF Row, Gain
  <2>4. \A x \in TopUpIds \ {id} : topUps'[x] = topUps[x]
    BY <2>1 DEF TypeOK
  <2>5. SumFunction(Brought)' = SumFunction(Brought) + t.amount
    BY <2>2, <2>4, <2>a, OneRowMoves
  <2> HIDE DEF next, y
  <2>6. /\ SumFunction(Balances)' = SumFunction(Balances) + (next.balance - wallet[t.owner].balance)
        /\ SumFunction(Earnings)' =
             SumFunction(Earnings) + (next.withdrawable - wallet[t.owner].withdrawable)
    BY <2>1, <2>3, <2>a, OneWalletMoves
  <2>8. /\ SumFunction(Balances)' = SumFunction(Balances) + t.amount
        /\ SumFunction(Earnings)' = SumFunction(Earnings) + 0
        /\ t.amount + 0 = t.amount /\ 0 + 0 <= 0 /\ 0 \in Int
    BY <1>0, <1>z, <2>a, <2>3, <2>6
  <2>9. SumFunction(Earned)' = SumFunction(Earned) + 0 /\ SumFunction(Asked)' = SumFunction(Asked) + 0
    BY <1>z, <2>1, TablesStay
  <2> QED
    BY <2>a, <2>5, <2>8, <2>9, Balancing
<1>7. CASE UNCHANGED ledgerVars
  BY <1>7, InSums, InSumsNext, TablesStay DEF ledgerVars
<1> QED
  BY <1>1, <1>2, <1>3, <1>4, <1>5, <1>6, <1>7 DEF Next

\* "Only money earned from work may leave the platform" (wallet.service.ts): the
\* wallets and what was asked out of them hold what top-ups brought in, no more and
\* no less, and what is or was withdrawable was paid for work.
THEOREM MoneyHolds == Spec => []MoneyAccountedFor
<1>1. Init => MoneyAccountedFor
  <2> SUFFICES ASSUME Init PROVE MoneyAccountedFor
    OBVIOUS
  <2>1. TypeOK
    BY NoneAssumption DEF Init, TypeOK, Row, TopUp, Payment, Withdrawal, Entry
  <2>2. /\ \A u \in Users : Balances[u] = 0 /\ Earnings[u] = 0
        /\ \A id \in WithdrawalIds : Asked[id] = 0
        /\ \A id \in TopUpIds : Brought[id] = 0
        /\ \A id \in PaymentIds : Earned[id] = 0
    BY DEF Init, Balances, Earnings, Asked, Brought, Earned, OutFor, BroughtBy, EarnedBy
  <2>3. /\ DOMAIN Balances = Users /\ DOMAIN Earnings = Users /\ DOMAIN Asked = WithdrawalIds
        /\ DOMAIN Brought = TopUpIds /\ DOMAIN Earned = PaymentIds
    BY DEF Balances, Earnings, Asked, Brought, Earned
  <2>4. /\ SumFunction(Balances) = 0 /\ SumFunction(Earnings) = 0 /\ SumFunction(Asked) = 0
        /\ SumFunction(Brought) = 0 /\ SumFunction(Earned) = 0
    BY <2>2, <2>3, SumOfZeros, TablesAssumption
  <2> QED
    BY <2>1, <2>4, InSums
<1>2. TypeOK /\ TypeOK' /\ MoneyAccountedFor /\ [Next]_ledgerVars => MoneyAccountedFor'
  BY MoneyStep
<1> QED
  BY <1>1, <1>2, Typing, PTL DEF Spec
=============================================================================
