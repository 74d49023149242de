---------------------------- MODULE Wallet_proofs ----------------------------
(***************************************************************************)
(* The transactions of Wallet implement the ledger of WalletLedger, for any *)
(* number of calls, accounts and requests: every commit is one movement of  *)
(* the ledger, everything else a stutter.  The invariant that makes it so   *)
(* is lock discipline: SeesThePresent and NothingMovesUnderneath.           *)
(***************************************************************************)
EXTENDS Wallet, WalletLedger_proofs, FiniteSetTheorems, WellFoundedInduction

Discipline == TypeOK /\ TxTypeOK /\ SeesThePresent /\ NothingMovesUnderneath

LEMMA RequestFacts ==
  ASSUME NEW r \in Requests
  PROVE  /\ r.op \in KeyedOps \cup ClaimOps
         /\ r.user \in Users /\ r.payee \in Users /\ r.amount \in Amounts
         /\ r.id \in Causes
         /\ r.op \in PaymentOps => r.id \in PaymentIds
         /\ r.op \in {"withdraw", "cancel", "reject"} =>
              r.id \in WithdrawalIds /\ r.payee = r.user
         /\ r.op = "credit" => r.id \in TopUpIds
         /\ FirstLock(r) \in {r.user, r.payee} /\ SecondLock(r) \in {r.user, r.payee}
         /\ r.user # r.payee => {FirstLock(r), SecondLock(r)} = {r.user, r.payee}
         /\ r.user = r.payee => FirstLock(r) = r.user
<1>1. r \in Request
  BY RequestsAssumption
<1>2. /\ r.op \in KeyedOps \cup ClaimOps
      /\ r.user \in Users /\ r.payee \in Users /\ r.amount \in Amounts
      /\ r.id \in Causes
      /\ r.op \in PaymentOps => r.id \in PaymentIds
      /\ r.op \in {"withdraw", "cancel", "reject"} =>
           r.id \in WithdrawalIds /\ r.payee = r.user
      /\ r.op = "credit" => r.id \in TopUpIds
  BY <1>1 DEF Request, KeyedOps, ClaimOps, PaymentOps, Causes
<1>3. r.user \in Nat /\ r.payee \in Nat
  BY <1>2, UsersAssumption
<1> QED
  BY <1>2, <1>3 DEF FirstLock, SecondLock, LockOrder, Lesser, Greater

-----------------------------------------------------------------------------
\* A commit, worked out from rows read under the locks, is a movement of the
\* ledger; no other step of a call touches the ledger.
LEMMA StepImplements ==
  ASSUME Discipline, [TxNext]_vars
  PROVE  [Next]_ledgerVars
<1>a. \A amount \in Amounts : amount \in Int
  BY AmountsAssumption
<1>1. ASSUME NEW c \in Calls, pc[c] = "post", CommitPayment(c)
      PROVE  Next
  <2> DEFINE r == req[c]
  <2>1. r \in Requests /\ Keyed(c) /\ r.op \in PaymentOps
    BY <1>1 DEF Discipline, NothingMovesUnderneath, CountsOn, CommitPayment, Keyed, KeyedOps
  <2>2. r.user \in Users /\ r.payee \in Users /\ r.amount \in Amounts /\ r.id \in PaymentIds
    BY <2>1, RequestFacts
  <2>3. /\ r.user # r.payee /\ walletLock[r.user] = c /\ walletLock[r.payee] = c
        /\ payments[r.id] = None /\ Affordable(c)
    BY <1>1, <2>1 DEF Discipline, NothingMovesUnderneath, CountsOn, RowOf, InTransaction
  <2>4. saw[c][r.user] = wallet[r.user] /\ saw[c][r.payee] = wallet[r.payee]
    BY <2>2, <2>3 DEF Discipline, SeesThePresent
  <2>5. wallet[r.user].balance >= r.amount
    <3>1. r.amount <= saw[c][r.user].balance
      <4>1. r.op # "withdraw"
        BY <2>1 DEF PaymentOps
      <4> QED
        BY <2>3, <4>1 DEF Affordable
    <3>2. wallet[r.user] \in Row
      BY <2>2 DEF Discipline, TypeOK
    <3>3. wallet[r.user].balance \in Int
      BY <3>2 DEF Row
    <3>4. r.amount \in Int
      BY <1>a, <2>2
    <3> QED
      BY <2>4, <3>1, <3>3, <3>4
  <2>6. CASE r.op = "transfer"
    <3>1. Transfer(r.id, r.user, r.payee, r.amount)
      BY <1>1, <2>3, <2>4, <2>5, <2>6 DEF CommitPayment, Transfer
    <3> QED
      BY <2>2, <3>1 DEF Next
  <2>7. CASE r.op # "transfer"
    <3>1. PayForWork(r.id, r.user, r.payee, r.amount)
      BY <1>1, <2>3, <2>4, <2>5, <2>7 DEF CommitPayment, PayForWork
    <3> QED
      BY <2>2, <3>1 DEF Next
  <2> QED
    BY <2>6, <2>7
<1>2. ASSUME NEW c \in Calls, pc[c] = "post", CommitWithdrawal(c)
      PROVE  Next
  <2> DEFINE r == req[c]
  <2>1. r \in Requests /\ Keyed(c) /\ r.op = "withdraw"
    BY <1>2 DEF Discipline, NothingMovesUnderneath, CountsOn, CommitWithdrawal, Keyed, KeyedOps
  <2>2. r.user \in Users /\ r.amount \in Amounts /\ r.id \in WithdrawalIds
    BY <2>1, RequestFacts
  <2>3. walletLock[r.user] = c /\ withdrawals[r.id] = None /\ Affordable(c)
    BY <1>2, <2>1
       DEF Discipline, NothingMovesUnderneath, CountsOn, RowOf, PaymentOps
  <2>4. saw[c][r.user] = wallet[r.user]
    BY <2>2, <2>3 DEF Discipline, SeesThePresent
  <2>5. wallet[r.user].withdrawable >= r.amount
    <3>1. r.amount <= saw[c][r.user].withdrawable
      BY <2>1, <2>3 DEF Affordable
    <3>2. wallet[r.user] \in Row
      BY <2>2 DEF Discipline, TypeOK
    <3>3. wallet[r.user].withdrawable \in Int
      BY <3>2 DEF Row
    <3>4. r.amount \in Int
      BY <1>a, <2>2
    <3> QED
      BY <2>4, <3>1, <3>3, <3>4
  <2>6. Withdraw(r.id, r.user, r.amount)
    BY <1>2, <2>3, <2>4, <2>5 DEF CommitWithdrawal, Withdraw, TakeOut
  <2> QED
    BY <2>2, <2>6 DEF Next
<1>3. ASSUME NEW c \in Calls, pc[c] = "post", CommitReturn(c)
      PROVE  Next
  <2> DEFINE r == req[c]
  <2>1. r \in Requests /\ ~Keyed(c) /\ r.op \in {"cancel", "reject"}
    BY <1>3 DEF Discipline, NothingMovesUnderneath, CountsOn, CommitReturn, Keyed, KeyedOps,
                PaymentOps
  <2>2. r.id \in WithdrawalIds
    BY <2>1, RequestFacts
  <2>3. Claimable(r) /\ walletLock[Claimed(r)] = c
    BY <1>3, <2>1 DEF Discipline, NothingMovesUnderneath, CountsOn
  <2>4. /\ withdrawals[r.id] # None /\ withdrawals[r.id].status = "PENDING"
        /\ walletLock[withdrawals[r.id].user] = c
    BY <2>1, <2>3 DEF Claimable, Claimed
  <2>5. withdrawals[r.id].user \in Users
    BY <2>2, <2>4 DEF Discipline, TypeOK, Withdrawal
  <2>6. saw[c][withdrawals[r.id].user] = wallet[withdrawals[r.id].user]
    BY <2>4, <2>5 DEF Discipline, SeesThePresent
  <2>7. Return(r.id, IF r.op = "cancel" THEN "CANCELLED" ELSE "REJECTED")
    BY <1>3, <2>4, <2>6 DEF CommitReturn, Return, Pending, PutBack
  <2> QED
    BY <2>2, <2>7 DEF Next
<1>4. ASSUME NEW c \in Calls, pc[c] = "post", CommitCredit(c)
      PROVE  Next
  <2> DEFINE r == req[c]
  <2>1. r \in Requests /\ ~Keyed(c) /\ r.op = "credit"
    BY <1>4 DEF Discipline, NothingMovesUnderneath, CountsOn, CommitCredit, Keyed, KeyedOps,
                PaymentOps
  <2>2. r.id \in TopUpIds
    BY <2>1, RequestFacts
  <2>3. topUps[r.id].status = "OPEN" /\ walletLock[topUps[r.id].owner] = c
    BY <1>4, <2>1 DEF Discipline, NothingMovesUnderneath, CountsOn, Claimable, Claimed
  <2>4. topUps[r.id].owner \in Users
    BY <2>2 DEF Discipline, TypeOK, TopUp
  <2>5. saw[c][topUps[r.id].owner] = wallet[topUps[r.id].owner]
    BY <2>3, <2>4 DEF Discipline, SeesThePresent
  <2>6. CreditTopUp(r.id)
    BY <1>4, <2>3, <2>5 DEF CommitCredit, CreditTopUp, Credit
  <2> QED
    BY <2>2, <2>6 DEF Next
<1>5. ASSUME NEW c \in Calls, Commit(c)
      PROVE  Next
  BY <1>1, <1>2, <1>3, <1>4, <1>5 DEF Commit
<1>6. ASSUME NEW id \in WithdrawalIds, MarkWithdrawalPaid(id)
      PROVE  Next
  BY <1>6 DEF MarkWithdrawalPaid, MarkNow, Next
<1>7. ASSUME NEW c \in Calls,
             \/ \E r \in Requests : Receive(c, r)
             \/ AnswerRepeat(c) \/ Begin(c) \/ Refuse(c) \/ Retried(c) \/ Check(c)
             \/ Recover(c) \/ Takes(c) \/ Abort(c) \/ Finish(c)
      PROVE  UNCHANGED ledgerVars
  BY <1>7 DEF Receive, AnswerRepeat, Begin, Refuse, Retried, Check, Recover, Takes, Abort,
              Finish, LockFirst, LockSecond, LockOwner, Lock, Insert, Claim
<1>8. CASE UNCHANGED vars
  BY <1>8 DEF vars
<1> QED
  BY <1>5, <1>6, <1>7, <1>8 DEF TxNext, Step

-----------------------------------------------------------------------------
(* The discipline is inductive.                                            *)

\* Ending a transaction lets go of the caller's locks and of nobody else's.
LEMMA ReleaseFacts ==
  ASSUME TxTypeOK, NEW c \in Calls, Release(c)
  PROVE  /\ walletLock' \in [Users -> Calls \cup {None}]
         /\ rowLock' \in [Causes -> Calls \cup {None}]
         /\ \A u \in Users : walletLock'[u] # c
         /\ \A id \in Causes : rowLock'[id] # c
         /\ \A d \in Calls \ {c} :
              /\ \A u \in Users : walletLock'[u] = d <=> walletLock[u] = d
              /\ \A id \in Causes : rowLock'[id] = d <=> rowLock[id] = d
  BY NoneIsNoCall DEF TxTypeOK, Release

\* Whoever a claimed row belongs to is an account.
LEMMA ClaimedIsUser ==
  ASSUME TypeOK, NEW r \in Requests, r.op \in ClaimOps, Claimable(r)
  PROVE  Claimed(r) \in Users
<1>1. CASE r.op = "credit"
  <2>1. topUps[r.id] \in TopUp
    BY <1>1, RequestFacts DEF TypeOK
  <2> QED
    BY <1>1, <2>1 DEF Claimed, TopUp
<1>2. CASE r.op # "credit"
  <2>1. withdrawals[r.id] \in Withdrawal
    BY <1>2, RequestFacts DEF TypeOK, Claimable, ClaimOps
  <2> QED
    BY <1>2, <2>1 DEF Claimed, Withdrawal
<1> QED
  BY <1>1, <1>2

\* What a call that holds its locks counts on survives a step that leaves alone
\* the rows it has locked.
LEMMA FootingKept ==
  ASSUME TypeOK, TxTypeOK, NEW d \in Calls, CountsOn(d),
         pc'[d] = pc[d], req'[d] = req[d], saw'[d] = saw[d],
         \A u \in Users : walletLock'[u] = d <=> walletLock[u] = d,
         \A id \in Causes : rowLock'[id] = d <=> rowLock[id] = d,
         \A id \in PaymentIds :
           \/ payments'[id] = payments[id]
           \/ /\ rowLock[id] # d /\ walletLock[payments'[id].payer] # d,
         \A id \in WithdrawalIds : rowLock[id] = d => withdrawals'[id] = withdrawals[id],
         \A id \in TopUpIds : rowLock[id] = d => topUps'[id] = topUps[id]
  PROVE  CountsOn(d)'
<1>1. CASE pc[d] = "idle"
  BY <1>1 DEF CountsOn, InTransaction
<1>2. CASE pc[d] # "idle"
  <2>1. PICK r \in Requests : r = req[d] /\ r = req'[d]
    BY <1>2 DEF CountsOn
  <2>2. /\ r.user \in Users /\ r.payee \in Users /\ r.id \in Causes /\ FirstLock(r) \in Users
        /\ r.op \in KeyedOps \cup ClaimOps
        /\ r.op \in PaymentOps => r.id \in PaymentIds
        /\ r.op \in {"withdraw", "cancel", "reject"} => r.id \in WithdrawalIds
        /\ r.op = "credit" => r.id \in TopUpIds
    BY RequestFacts
  <2>3. Keyed(d)' = Keyed(d) /\ Affordable(d)' = Affordable(d)
    BY DEF Keyed, Affordable
  <2>4. pc[d] = "post" /\ Keyed(d) => RowOf(r)' = RowOf(r)
    BY <2>1, <2>2 DEF CountsOn, RowOf, Keyed, KeyedOps
  <2>5. pc[d] \in {"check", "insert"} /\ r.op \in {"pay", "transfer"} =>
          RowOf(r)' = None \/ OwnerOf(r)' # r.user
    <3> SUFFICES ASSUME pc[d] \in {"check", "insert"}, r.op \in {"pay", "transfer"}
                 PROVE  RowOf(r)' = None \/ OwnerOf(r)' # r.user
      OBVIOUS
    <3>1. r.op \in PaymentOps /\ Keyed(d) /\ r.id \in PaymentIds
      BY <2>1, <2>2 DEF PaymentOps, Keyed, KeyedOps
    <3>2. walletLock[r.user] = d /\ (RowOf(r) = None \/ OwnerOf(r) # r.user)
      BY <2>1, <3>1 DEF CountsOn
    <3> QED
      BY <3>1, <3>2 DEF RowOf, OwnerOf
  <2>6. pc[d] \in {"lockOwner", "post"} /\ ~Keyed(d) =>
          /\ Claimable(r)' = Claimable(r) /\ Claimed(r)' = Claimed(r)
    <3> SUFFICES ASSUME pc[d] \in {"lockOwner", "post"}, ~Keyed(d)
                 PROVE  Claimable(r)' = Claimable(r) /\ Claimed(r)' = Claimed(r)
      OBVIOUS
    <3>1. rowLock[r.id] = d /\ r.op \in ClaimOps
      BY <2>1, <2>2 DEF CountsOn, Keyed
    <3>2. CASE r.op = "credit"
      BY <2>2, <3>1, <3>2 DEF Claimable, Claimed
    <3>3. CASE r.op # "credit"
      <4>1. withdrawals'[r.id] = withdrawals[r.id]
        BY <2>2, <3>1, <3>3 DEF ClaimOps
      <4> QED
        BY <3>3, <4>1 DEF Claimable, Claimed
    <3> QED
      BY <3>2, <3>3
  <2>7. pc[d] = "post" /\ ~Keyed(d) => Claimed(r) \in Users
    BY <2>1, <2>2, ClaimedIsUser DEF CountsOn, Keyed
  <2>8. CountsOn(d)' <=>
          /\ pc[d] \notin InTransaction =>
               (\A u \in Users : walletLock'[u] # d) /\ (\A id \in Causes : rowLock'[id] # d)
          /\ pc[d] \in {"lockFirst", "lockSecond", "retried", "check", "insert", "recover"} =>
               Keyed(d)'
          /\ pc[d] = "lockOwner" => ~Keyed(d)'
          /\ pc[d] \in InTransaction /\ r.op \in PaymentOps => r.user # r.payee
          /\ pc[d] = "lockSecond" => r.op \in PaymentOps /\ walletLock'[FirstLock(r)] = d
          /\ pc[d] \in {"retried", "check", "insert", "post"} /\ Keyed(d)' =>
               walletLock'[r.user] = d /\ walletLock'[r.payee] = d
          /\ pc[d] \in {"check", "insert"} /\ r.op \in {"pay", "transfer"} =>
               RowOf(r)' = None \/ OwnerOf(r)' # r.user
          /\ pc[d] \in {"insert", "post"} /\ Keyed(d)' => Affordable(d)'
          /\ pc[d] = "post" /\ Keyed(d)' => rowLock'[r.id] = d /\ RowOf(r)' = None
          /\ pc[d] \in {"lockOwner", "post"} /\ ~Keyed(d)' => rowLock'[r.id] = d /\ Claimable(r)'
          /\ pc[d] = "post" /\ ~Keyed(d)' => walletLock'[Claimed(r)'] = d
    BY <1>2, <2>1 DEF CountsOn, RowOf, OwnerOf, Claimable, Claimed
  <2> QED
    BY <2>1, <2>2, <2>3, <2>4, <2>5, <2>6, <2>7, <2>8 DEF CountsOn
<1> QED
  BY <1>1, <1>2

\* What is left to show of a step of c that writes no table.
LEMMA LocalStep ==
  ASSUME Discipline, NEW c \in Calls, UNCHANGED ledgerVars, TxTypeOK',
         \A d \in Calls \ {c} :
           /\ pc'[d] = pc[d] /\ req'[d] = req[d] /\ saw'[d] = saw[d]
           /\ \A u \in Users : walletLock'[u] = d <=> walletLock[u] = d
           /\ \A id \in Causes : rowLock'[id] = d <=> rowLock[id] = d,
         \A u \in Users : walletLock'[u] = c => saw'[c][u] = wallet[u],
         CountsOn(c)'
  PROVE  Discipline'
<1>1. TypeOK'
  BY DEF Discipline, TypeOK, ledgerVars
<1>2. SeesThePresent'
  <2> SUFFICES ASSUME NEW d \in Calls, NEW u \in Users, walletLock'[u] = d
               PROVE  saw'[d][u] = wallet[u]
    BY DEF SeesThePresent, ledgerVars
  <2>1. CASE d = c
    BY <2>1
  <2>2. CASE d # c
    BY <2>2 DEF Discipline, SeesThePresent
  <2> QED
    BY <2>1, <2>2
<1>3. \A d \in Calls : CountsOn(d)'
  <2> SUFFICES ASSUME NEW d \in Calls, d # c PROVE CountsOn(d)'
    OBVIOUS
  <2> QED
    BY FootingKept DEF Discipline, NothingMovesUnderneath, ledgerVars
<1> QED
  BY <1>1, <1>2, <1>3 DEF Discipline, NothingMovesUnderneath

\* Steps that end a call, in or out of a transaction.
LEMMA EndingStep ==
  ASSUME Discipline, NEW c \in Calls, req[c] \in Requests, NEW l \in {"answered", "recover"},
         l = "recover" => Keyed(c),
         Goto(c, l), answer' \in [Calls -> Answer], UNCHANGED <<ledgerVars, req, saw>>,
         Release(c)
  PROVE  Discipline'
<1>1. TxTypeOK
  BY DEF Discipline
<1>2. TxTypeOK'
  BY <1>1, ReleaseFacts DEF TxTypeOK, Goto, PC
<1>3. pc'[c] = l /\ req'[c] = req[c] /\ \A d \in Calls \ {c} : pc'[d] = pc[d]
  BY <1>1 DEF Goto, TxTypeOK
<1>4. Keyed(c)' = Keyed(c)
  BY <1>3 DEF Keyed
<1>5. CountsOn(c)'
  BY <1>1, <1>3, <1>4, ReleaseFacts DEF CountsOn, InTransaction
<1> QED
  BY <1>1, <1>2, <1>3, <1>5, ReleaseFacts, LocalStep DEF ledgerVars


\* Steps from one point of a call to the next that take no lock.
LEMMA ForwardStep ==
  ASSUME Discipline, NEW c \in Calls, NEW l \in PC, Goto(c, l),
         req' = req, answer' \in [Calls -> Answer],
         UNCHANGED <<ledgerVars, saw, walletLock, rowLock>>, CountsOn(c)'
  PROVE  Discipline'
<1>1. TxTypeOK /\ SeesThePresent
  BY DEF Discipline
<1>2. TxTypeOK'
  BY <1>1 DEF TxTypeOK, Goto
<1>3. \A d \in Calls \ {c} : pc'[d] = pc[d]
  BY <1>1 DEF Goto, TxTypeOK
<1> QED
  BY <1>1, <1>2, <1>3, LocalStep DEF ledgerVars, SeesThePresent

\* Taking a wallet's lock.
LEMMA LockStep ==
  ASSUME Discipline, NEW c \in Calls, NEW u \in Users, NEW l \in PC, Goto(c, l), Lock(c, u),
         CountsOn(c)'
  PROVE  Discipline'
<1>1. TxTypeOK /\ TypeOK /\ SeesThePresent
  BY DEF Discipline
<1>2. TxTypeOK'
  <2>1. saw' \in [Calls -> [Users -> Row]]
    <3>1. wallet[u] \in Row /\ saw[c] \in [Users -> Row]
      BY <1>1 DEF TypeOK, TxTypeOK
    <3>2. [saw[c] EXCEPT ![u] = wallet[u]] \in [Users -> Row]
      BY <3>1
    <3>3. saw' = [saw EXCEPT ![c] = [saw[c] EXCEPT ![u] = wallet[u]]]
      BY DEF Lock
    <3> QED
      BY <1>1, <3>2, <3>3 DEF TxTypeOK
  <2> QED
    BY <1>1, <2>1 DEF TxTypeOK, Goto, Lock
<1>3. \A d \in Calls \ {c} :
        /\ pc'[d] = pc[d] /\ req'[d] = req[d] /\ saw'[d] = saw[d]
        /\ \A v \in Users : walletLock'[v] = d <=> walletLock[v] = d
        /\ \A id \in Causes : rowLock'[id] = d <=> rowLock[id] = d
  BY <1>1, NoneIsNoCall DEF Goto, TxTypeOK, Lock
<1>4. \A v \in Users : walletLock'[v] = c => saw'[c][v] = wallet[v]
  <2> SUFFICES ASSUME NEW v \in Users, walletLock'[v] = c PROVE saw'[c][v] = wallet[v]
    OBVIOUS
  <2>1. saw'[c] = [saw[c] EXCEPT ![u] = wallet[u]] /\ saw[c] \in [Users -> Row]
    BY <1>1 DEF TxTypeOK, Lock
  <2>2. CASE v = u
    BY <2>1, <2>2
  <2>3. CASE v # u
    BY <1>1, <2>1, <2>3 DEF TxTypeOK, Lock, SeesThePresent
  <2> QED
    BY <2>2, <2>3
<1> QED
  BY <1>2, <1>3, <1>4, LocalStep DEF Lock

\* Every step of a call before its commit keeps the discipline.
LEMMA StepsBeforeCommit ==
  ASSUME Discipline, NEW c \in Calls,
         \/ \E r \in Requests : Receive(c, r)
         \/ AnswerRepeat(c) \/ Begin(c) \/ Refuse(c) \/ Retried(c) \/ Check(c)
         \/ Recover(c) \/ Takes(c) \/ Abort(c) \/ Finish(c)
  PROVE  Discipline'
<1>0. TypeOK /\ TxTypeOK /\ CountsOn(c)
  BY DEF Discipline, NothingMovesUnderneath
<1>0a. pc[c] # "idle" => req[c] \in Requests
  BY <1>0 DEF CountsOn
<1>0b. \A l : Goto(c, l) => pc'[c] = l
  BY <1>0 DEF Goto, TxTypeOK
<1>0c. \A a \in Answer : answer' = [answer EXCEPT ![c] = a] => answer' \in [Calls -> Answer]
  BY <1>0 DEF TxTypeOK
<1>0d. AnswerByKey(req[c]) \in Answer
  BY DEF AnswerByKey, Answer
<1>1. ASSUME NEW r \in Requests, Receive(c, r) PROVE Discipline'
  <2>1. pc[c] = "idle" /\ pc'[c] = "asked" /\ req'[c] = r
    BY <1>0, <1>1 DEF Receive, Goto, TxTypeOK
  <2>2. CountsOn(c)'
    BY <1>0, <1>1, <2>1 DEF CountsOn, Receive, InTransaction
  <2>3. TxTypeOK'
    BY <1>0, <1>1 DEF TxTypeOK, Receive, Goto, PC
  <2>4. \A d \in Calls \ {c} : pc'[d] = pc[d] /\ req'[d] = req[d]
    BY <1>0, <1>1 DEF TxTypeOK, Receive, Goto
  <2> QED
    BY <1>1, <2>2, <2>3, <2>4, LocalStep DEF Receive, Discipline, SeesThePresent, ledgerVars
<1>2. CASE AnswerRepeat(c) \/ Refuse(c) \/ Recover(c)
  <2>1. /\ pc[c] \in {"asked", "recover"} /\ Goto(c, "answered")
        /\ UNCHANGED <<ledgerVars, req, saw, walletLock, rowLock>>
    BY <1>2 DEF AnswerRepeat, Refuse, Recover, Tell
  <2>2. answer' \in [Calls -> Answer]
    <3>1. \E a \in Answer : answer' = [answer EXCEPT ![c] = a]
      BY <1>2, <1>0d DEF AnswerRepeat, Refuse, Recover, Tell, Answer
    <3> QED
      BY <1>0c, <3>1
  <2>3. CountsOn(c)'
    BY <1>0, <1>0b, <2>1 DEF CountsOn, InTransaction
  <2> QED
    BY <2>1, <2>2, <2>3, ForwardStep DEF PC
<1>3. CASE Begin(c)
  <2>1. Goto(c, "lockFirst") /\ pc'[c] = "lockFirst" /\ pc[c] = "asked"
    BY <1>0b, <1>3 DEF Begin
  <2>2. req' = req /\ req[c] \in Requests /\ Keyed(c)'
        /\ (req[c].op \in PaymentOps => req[c].user # req[c].payee)
    BY <1>0a, <1>3, <2>1 DEF Begin, Keyed
  <2>3. CountsOn(c)'
    BY <1>0, <1>3, <2>1, <2>2 DEF CountsOn, InTransaction, Begin
  <2> QED
    BY <1>0, <1>3, <2>1, <2>3, ForwardStep DEF Begin, PC, InTransaction, TxTypeOK
<1>4. CASE LockFirst(c)
  <2> DEFINE r == req[c]
             l == IF r.op = "withdraw" THEN "check" ELSE "lockSecond"
  <2>1. /\ pc[c] = "lockFirst" /\ Goto(c, l) /\ Lock(c, FirstLock(r))
        /\ pc'[c] = l /\ r \in Requests /\ req' = req /\ Keyed(c)
    BY <1>0, <1>0a, <1>0b, <1>4 DEF LockFirst, Lock, CountsOn
  <2>2. FirstLock(r) \in Users /\ (r.op = "withdraw" => FirstLock(r) = r.user /\ r.payee = r.user)
    BY <2>1, RequestFacts
  <2>3. walletLock'[FirstLock(r)] = c
    BY <1>0, <2>1, <2>2 DEF Lock, TxTypeOK
  <2>4. r.op # "withdraw" => r.op \in PaymentOps
    BY <2>1 DEF Keyed, KeyedOps
  <2>5. r.op \in PaymentOps => r.user # r.payee
    BY <1>0, <2>1 DEF CountsOn, InTransaction
  <2>6. CountsOn(c)'
    BY <2>1, <2>2, <2>3, <2>4, <2>5 DEF CountsOn, InTransaction, Keyed, PaymentOps
  <2> QED
    BY <2>1, <2>2, <2>6, LockStep DEF PC, InTransaction
<1>5. CASE LockSecond(c)
  <2> DEFINE r == req[c]
             l == IF r.op = "payForJob" THEN "check" ELSE "retried"
  <2>1. /\ pc[c] = "lockSecond" /\ Goto(c, l) /\ Lock(c, SecondLock(r))
        /\ pc'[c] = l /\ r \in Requests /\ req' = req /\ Keyed(c)
        /\ r.op \in PaymentOps /\ walletLock[FirstLock(r)] = c /\ r.user # r.payee
    BY <1>0, <1>0a, <1>0b, <1>5 DEF LockSecond, Lock, CountsOn, InTransaction
  <2>2. /\ FirstLock(r) \in Users /\ SecondLock(r) \in Users
        /\ {FirstLock(r), SecondLock(r)} = {r.user, r.payee}
    BY <2>1, RequestFacts
  <2>3. walletLock'[FirstLock(r)] = c /\ walletLock'[SecondLock(r)] = c
    BY <1>0, <2>1, <2>2 DEF Lock, TxTypeOK
  <2>3a. walletLock'[r.user] = c /\ walletLock'[r.payee] = c
    BY <2>2, <2>3
  <2>4. l = "check" => r.op = "payForJob"
    OBVIOUS
  <2>5. CountsOn(c)'
    BY <2>1, <2>3a, <2>4 DEF CountsOn, InTransaction, Keyed
  <2> QED
    BY <2>1, <2>2, <2>5, LockStep DEF PC, InTransaction
<1>6. CASE LockOwner(c)
  <2> DEFINE r == req[c]
  <2>1. /\ pc[c] = "lockOwner" /\ Goto(c, "post") /\ Lock(c, Claimed(r))
        /\ pc'[c] = "post" /\ r \in Requests /\ req' = req /\ ~Keyed(c)
        /\ rowLock[r.id] = c /\ Claimable(r) /\ rowLock' = rowLock /\ UNCHANGED ledgerVars
    BY <1>0, <1>0a, <1>0b, <1>6 DEF LockOwner, Lock, CountsOn
  <2>2. Claimed(r) \in Users
    BY <1>0, <2>1, RequestFacts, ClaimedIsUser DEF Keyed
  <2>3. walletLock'[Claimed(r)] = c
    BY <1>0, <2>1, <2>2 DEF Lock, TxTypeOK
  <2>4. Claimable(r)' /\ Claimed(r)' = Claimed(r)
    BY <2>1 DEF Claimable, Claimed, ledgerVars
  <2>5. r.op \notin PaymentOps /\ r.op \notin {"pay", "transfer"} /\ ~Keyed(c)'
    BY <2>1 DEF Keyed, KeyedOps, PaymentOps
  <2>6. CountsOn(c)'
    BY <2>1, <2>3, <2>4, <2>5 DEF CountsOn, InTransaction
  <2> QED
    BY <2>1, <2>2, <2>6, LockStep DEF PC, InTransaction
<1>7. CASE Retried(c)
  <2>1. CASE Release(c)
    <3>1. Goto(c, "answered") /\ \E a \in Answer : answer' = [answer EXCEPT ![c] = a]
      <4>1. CASE RowOf(req[c]) # None
        BY <1>0d, <1>7, <4>1 DEF Retried, Tell
      <4>2. CASE RowOf(req[c]) = None
        <5>1. pc[c] = "retried" /\ Keyed(c) /\ walletLock[req[c].user] = c
              /\ UNCHANGED walletLock /\ req[c] \in Requests
          BY <1>0, <1>0a, <1>7, <4>2 DEF Retried, CountsOn
        <5> QED
          BY <1>0, <2>1, <5>1, ReleaseFacts, RequestFacts
      <4> QED
        BY <4>1, <4>2
    <3> QED
      BY <1>0a, <1>0c, <1>7, <2>1, <3>1, EndingStep DEF Retried
  <2>2. CASE ~Release(c)
    <3>1. /\ pc[c] = "retried" /\ Goto(c, "check") /\ pc'[c] = "check"
          /\ RowOf(req[c]) = None /\ UNCHANGED <<walletLock, rowLock, answer, ledgerVars, req, saw>>
      BY <1>0b, <1>7, <2>2 DEF Retried
    <3>2. RowOf(req[c])' = None /\ Keyed(c)' = Keyed(c)
      BY <3>1 DEF RowOf, Keyed, ledgerVars
    <3>3. CountsOn(c)'
      BY <1>0, <1>0a, <3>1, <3>2 DEF CountsOn, InTransaction
    <3> QED
      BY <1>0, <3>1, <3>3, ForwardStep DEF PC, InTransaction, TxTypeOK
  <2> QED
    BY <2>1, <2>2
<1>8. CASE Check(c)
  <2>1. CASE Affordable(c)
    <3>1. /\ pc[c] = "check" /\ Goto(c, "insert") /\ pc'[c] = "insert"
          /\ UNCHANGED <<walletLock, rowLock, answer, ledgerVars, req, saw>>
      BY <1>0b, <1>8, <2>1 DEF Check
    <3>2. /\ RowOf(req[c])' = RowOf(req[c]) /\ OwnerOf(req[c])' = OwnerOf(req[c])
          /\ Keyed(c)' = Keyed(c) /\ Affordable(c)'
      BY <2>1, <3>1 DEF RowOf, OwnerOf, Keyed, Affordable, ledgerVars
    <3>3. CountsOn(c)'
      BY <1>0, <1>0a, <3>1, <3>2 DEF CountsOn, InTransaction
    <3> QED
      BY <1>0, <3>1, <3>3, ForwardStep DEF PC, InTransaction, TxTypeOK
  <2>2. CASE ~Affordable(c)
    <3>1. /\ pc[c] = "check" /\ Goto(c, "answered") /\ Release(c)
          /\ answer' = [answer EXCEPT ![c] = "poor"] /\ UNCHANGED <<ledgerVars, req, saw>>
      BY <1>8, <2>2 DEF Check, Tell
    <3>2. answer' \in [Calls -> Answer]
      BY <1>0c, <3>1 DEF Answer
    <3> QED
      BY <1>0a, <3>1, <3>2, EndingStep
  <2> QED
    BY <2>1, <2>2
<1>9. CASE Insert(c)
  <2> DEFINE r == req[c]
  <2>0. pc[c] = "insert" /\ r \in Requests /\ Keyed(c) /\ r.id \in Causes /\ rowLock[r.id] = None
    BY <1>0, <1>0a, <1>9, RequestFacts DEF Insert, CountsOn
  <2>1. CASE RowOf(r) = None
    <3>1. /\ Goto(c, "post") /\ pc'[c] = "post"
          /\ rowLock' = [rowLock EXCEPT ![r.id] = c]
          /\ UNCHANGED <<walletLock, answer, ledgerVars, req, saw>>
      BY <1>0b, <1>9, <2>1 DEF Insert
    <3>2. rowLock'[r.id] = c
      BY <1>0, <2>0, <3>1 DEF TxTypeOK
    <3>3. RowOf(r)' = None /\ Keyed(c)' /\ Affordable(c)' = Affordable(c)
      BY <2>0, <2>1, <3>1 DEF RowOf, Keyed, Affordable, ledgerVars
    <3>4. CountsOn(c)'
      BY <1>0, <2>0, <3>1, <3>2, <3>3 DEF CountsOn, InTransaction
    <3>5. TxTypeOK'
      BY <1>0, <2>0, <3>1 DEF TxTypeOK, Goto, PC, InTransaction
    <3>6. \A d \in Calls \ {c} :
            pc'[d] = pc[d] /\ \A id \in Causes : rowLock'[id] = d <=> rowLock[id] = d
      BY <1>0, <2>0, <3>1, NoneIsNoCall DEF TxTypeOK, Goto
    <3>7. \A u \in Users : walletLock'[u] = c => saw'[c][u] = wallet[u]
      BY <3>1 DEF Discipline, SeesThePresent
    <3> QED
      BY <3>1, <3>4, <3>5, <3>6, <3>7, LocalStep DEF ledgerVars
  <2>2. CASE RowOf(r) # None
    <3>1. Goto(c, "recover") /\ Release(c) /\ UNCHANGED <<ledgerVars, req, saw, answer>>
      BY <1>9, <2>2 DEF Insert
    <3> QED
      BY <1>0, <2>0, <3>1, EndingStep DEF TxTypeOK
  <2> QED
    BY <2>1, <2>2
<1>10. CASE Claim(c)
  <2> DEFINE r == req[c]
  <2>0. /\ pc[c] = "asked" /\ r \in Requests /\ r.id \in Causes /\ rowLock[r.id] = None
        /\ r.op \in ClaimOps
    BY <1>0a, <1>10, RequestFacts DEF Claim
  <2>1. CASE Claimable(r)
    <3>1. /\ Goto(c, "lockOwner") /\ pc'[c] = "lockOwner"
          /\ rowLock' = [rowLock EXCEPT ![r.id] = c]
          /\ UNCHANGED <<walletLock, answer, ledgerVars, req, saw>>
      BY <1>0b, <1>10, <2>1 DEF Claim
    <3>2. rowLock'[r.id] = c
      BY <1>0, <2>0, <3>1 DEF TxTypeOK
    <3>3. Claimable(r)' /\ ~Keyed(c)' /\ r.op \notin PaymentOps
      BY <2>0, <2>1, <3>1 DEF Claimable, Keyed, KeyedOps, ClaimOps, PaymentOps, ledgerVars
    <3>4. CountsOn(c)'
      BY <1>0, <2>0, <3>1, <3>2, <3>3 DEF CountsOn, InTransaction
    <3>5. TxTypeOK'
      BY <1>0, <2>0, <3>1 DEF TxTypeOK, Goto, PC, InTransaction
    <3>6. \A d \in Calls \ {c} :
            pc'[d] = pc[d] /\ \A id \in Causes : rowLock'[id] = d <=> rowLock[id] = d
      BY <1>0, <2>0, <3>1, NoneIsNoCall DEF TxTypeOK, Goto
    <3>7. \A u \in Users : walletLock'[u] = c => saw'[c][u] = wallet[u]
      BY <3>1 DEF Discipline, SeesThePresent
    <3> QED
      BY <3>1, <3>4, <3>5, <3>6, <3>7, LocalStep DEF ledgerVars
  <2>2. CASE ~Claimable(r)
    <3>1. /\ Goto(c, "answered") /\ answer' = [answer EXCEPT ![c] = "refused"]
          /\ UNCHANGED <<ledgerVars, req, saw, walletLock, rowLock>>
      BY <1>10, <2>2 DEF Claim, Tell
    <3>2. answer' \in [Calls -> Answer]
      BY <1>0c, <3>1 DEF Answer
    <3>3. CountsOn(c)'
      BY <1>0, <1>0b, <2>0, <3>1 DEF CountsOn, InTransaction
    <3> QED
      BY <3>1, <3>2, <3>3, ForwardStep DEF PC
  <2> QED
    BY <2>1, <2>2
<1>11. CASE Abort(c)
  <2>1. /\ pc[c] \in InTransaction /\ Release(c) /\ Goto(c, "answered")
        /\ answer' = [answer EXCEPT ![c] = "failed"] /\ UNCHANGED <<ledgerVars, req, saw>>
    BY <1>11 DEF Abort, Tell
  <2>2. answer' \in [Calls -> Answer]
    BY <1>0c, <2>1 DEF Answer
  <2>3. req[c] \in Requests
    BY <1>0a, <2>1 DEF InTransaction
  <2> QED
    BY <2>1, <2>2, <2>3, EndingStep
<1>12. CASE Finish(c)
  <2>1. /\ pc[c] = "answered" /\ pc'[c] = "idle"
        /\ UNCHANGED <<ledgerVars, walletLock, rowLock>>
    BY <1>0b, <1>12 DEF Finish
  <2>2. CountsOn(c)'
    BY <1>0, <2>1 DEF CountsOn, InTransaction
  <2>3. NothingSeen \in [Users -> Row]
    BY DEF NothingSeen, Row
  <2>4. TxTypeOK'
    BY <1>0, <1>12, <2>3 DEF TxTypeOK, Finish, Goto, PC, Answer
  <2>5. \A d \in Calls \ {c} : pc'[d] = pc[d] /\ req'[d] = req[d] /\ saw'[d] = saw[d]
    BY <1>0, <1>12 DEF TxTypeOK, Finish, Goto
  <2>6. \A u \in Users : walletLock'[u] # c
    BY <1>0, <2>1 DEF CountsOn, InTransaction
  <2> QED
    BY <2>1, <2>2, <2>4, <2>5, <2>6, LocalStep DEF ledgerVars
<1> QED
  BY <1>1, <1>2, <1>3, <1>4, <1>5, <1>6, <1>7, <1>8, <1>9, <1>10, <1>11, <1>12 DEF Takes

-----------------------------------------------------------------------------
(* The commits.                                                            *)

\* A commit changes only what its call has locked.
LEMMA CommitTouches ==
  ASSUME Discipline, NEW c \in Calls, Commit(c)
  PROVE  /\ \A u \in Users : walletLock[u] # c => wallet'[u] = wallet[u]
         /\ \A id \in PaymentIds :
              \/ payments'[id] = payments[id]
              \/ /\ rowLock[id] = c /\ id = req[c].id /\ payments[id] = None
                 /\ walletLock[req[c].user] = c
                 /\ payments'[id].payer = req[c].user
         /\ \A id \in WithdrawalIds : rowLock[id] # c => withdrawals'[id] = withdrawals[id]
         /\ \A id \in TopUpIds : rowLock[id] # c => topUps'[id] = topUps[id]
         /\ Release(c) /\ pc'[c] = "answered" /\ answer' = [answer EXCEPT ![c] = "receipt"]
         /\ UNCHANGED <<req, saw>> /\ pc[c] = "post" /\ Goto(c, "answered")
<1> DEFINE r == req[c]
<1>0. TypeOK /\ TxTypeOK /\ CountsOn(c) /\ pc[c] = "post" /\ r \in Requests
  BY DEF Discipline, NothingMovesUnderneath, Commit, CountsOn
<1>1. /\ Release(c) /\ pc'[c] = "answered" /\ answer' = [answer EXCEPT ![c] = "receipt"]
      /\ UNCHANGED <<req, saw>> /\ Goto(c, "answered")
  BY <1>0 DEF Commit, Tell, Goto, TxTypeOK
<1>2. CASE CommitPayment(c)
  <2>1. Keyed(c) /\ r.id \in PaymentIds /\ r.user \in Users /\ r.payee \in Users
    BY <1>0, <1>2, RequestFacts DEF CommitPayment, Keyed, KeyedOps
  <2>2. /\ walletLock[r.user] = c /\ walletLock[r.payee] = c /\ rowLock[r.id] = c
        /\ payments[r.id] = None
    BY <1>0, <1>2, <2>1 DEF CountsOn, RowOf, CommitPayment
  <2>3. \A u \in Users : walletLock[u] # c => wallet'[u] = wallet[u]
    BY <1>0, <1>2, <2>1, <2>2 DEF CommitPayment, PostBoth, TypeOK
  <2>4. /\ payments'[r.id].payer = r.user
        /\ \A id \in PaymentIds : id # r.id => payments'[id] = payments[id]
        /\ UNCHANGED <<withdrawals, topUps>>
    BY <1>0, <1>2, <2>1 DEF CommitPayment, TypeOK
  <2> QED
    BY <1>0, <1>1, <2>2, <2>3, <2>4
<1>3. CASE CommitWithdrawal(c)
  <2>1. Keyed(c) /\ r.id \in WithdrawalIds /\ r.user \in Users
    BY <1>0, <1>3, RequestFacts DEF CommitWithdrawal, Keyed, KeyedOps
  <2>2. walletLock[r.user] = c /\ rowLock[r.id] = c
    BY <1>0, <2>1 DEF CountsOn
  <2>3. \A u \in Users : walletLock[u] # c => wallet'[u] = wallet[u]
    BY <1>0, <1>3, <2>1, <2>2 DEF CommitWithdrawal, PostOne, TypeOK
  <2>4. /\ \A id \in WithdrawalIds : id # r.id => withdrawals'[id] = withdrawals[id]
        /\ UNCHANGED <<payments, topUps>>
    BY <1>0, <1>3, <2>1 DEF CommitWithdrawal, TypeOK
  <2> QED
    BY <1>0, <1>1, <2>2, <2>3, <2>4
<1>4. CASE CommitReturn(c)
  <2>1. ~Keyed(c) /\ r.id \in WithdrawalIds
    BY <1>0, <1>4, RequestFacts DEF CommitReturn, Keyed, KeyedOps, PaymentOps
  <2>2. walletLock[withdrawals[r.id].user] = c /\ rowLock[r.id] = c
    BY <1>0, <1>4, <2>1 DEF CountsOn, Claimed, CommitReturn
  <2>3. \A u \in Users : walletLock[u] # c => wallet'[u] = wallet[u]
    BY <1>0, <1>4, <2>1, <2>2 DEF CommitReturn, PostOne, TypeOK
  <2>4. /\ \A id \in WithdrawalIds : id # r.id => withdrawals'[id] = withdrawals[id]
        /\ UNCHANGED <<payments, topUps>>
    BY <1>0, <1>4, <2>1 DEF CommitReturn, TypeOK
  <2> QED
    BY <1>0, <1>1, <2>2, <2>3, <2>4
<1>5. CASE CommitCredit(c)
  <2>1. ~Keyed(c) /\ r.id \in TopUpIds
    BY <1>0, <1>5, RequestFacts DEF CommitCredit, Keyed, KeyedOps, PaymentOps
  <2>2. walletLock[topUps[r.id].owner] = c /\ rowLock[r.id] = c
    BY <1>0, <1>5, <2>1 DEF CountsOn, Claimed, CommitCredit
  <2>3. \A u \in Users : walletLock[u] # c => wallet'[u] = wallet[u]
    BY <1>0, <1>5, <2>1, <2>2 DEF CommitCredit, PostOne, TypeOK
  <2>4. /\ \A id \in TopUpIds : id # r.id => topUps'[id] = topUps[id]
        /\ UNCHANGED <<payments, withdrawals>>
    BY <1>0, <1>5, <2>1 DEF CommitCredit, TypeOK
  <2> QED
    BY <1>0, <1>1, <2>2, <2>3, <2>4
<1> QED
  BY <1>2, <1>3, <1>4, <1>5 DEF Commit


LEMMA CommitKeeps ==
  ASSUME Discipline, NEW c \in Calls, Commit(c)
  PROVE  Discipline'
<1>0. TypeOK /\ TxTypeOK /\ CountsOn(c) /\ req[c] \in Requests
  BY CommitTouches DEF Discipline, NothingMovesUnderneath, CountsOn
<1>1. TypeOK'
  <2>1. TxNext
    BY DEF TxNext, Step
  <2> QED
    BY <1>0, <2>1, StepImplements, TypeStep
<1>2. TxTypeOK'
  <2>1. walletLock' \in [Users -> Calls \cup {None}] /\ rowLock' \in [Causes -> Calls \cup {None}]
    BY <1>0, CommitTouches, ReleaseFacts
  <2>2. pc' \in [Calls -> PC] /\ answer' \in [Calls -> Answer] /\ UNCHANGED <<req, saw>>
    BY <1>0, CommitTouches DEF TxTypeOK, Goto, PC, Answer
  <2> QED
    BY <1>0, <2>1, <2>2 DEF TxTypeOK
<1>3. \A d \in Calls \ {c} : pc'[d] = pc[d]
  BY <1>0, CommitTouches DEF TxTypeOK, Goto
<1>4. SeesThePresent'
  <2> SUFFICES ASSUME NEW d \in Calls, NEW u \in Users, walletLock'[u] = d
               PROVE  saw'[d][u] = wallet'[u]
    BY DEF SeesThePresent
  <2>1. d # c /\ walletLock[u] = d
    BY <1>0, CommitTouches, ReleaseFacts
  <2>2. saw'[d] = saw[d] /\ wallet'[u] = wallet[u]
    BY <2>1, CommitTouches
  <2> QED
    BY <2>1, <2>2 DEF Discipline, SeesThePresent
<1>5. ASSUME NEW d \in Calls PROVE CountsOn(d)'
  <2>1. CASE d = c
    <3>1. pc'[c] = "answered" /\ req'[c] = req[c]
      BY CommitTouches
    <3>2. (\A u \in Users : walletLock'[u] # c) /\ (\A id \in Causes : rowLock'[id] # c)
      BY <1>0, CommitTouches, ReleaseFacts
    <3> QED
      BY <1>0, <2>1, <3>1, <3>2 DEF CountsOn, InTransaction
  <2>2. CASE d # c
    <3>1. /\ \A u \in Users : walletLock'[u] = d <=> walletLock[u] = d
          /\ \A id \in Causes : rowLock'[id] = d <=> rowLock[id] = d
      BY <1>0, <2>2, CommitTouches, ReleaseFacts
    <3>2. \A id \in PaymentIds :
            \/ payments'[id] = payments[id]
            \/ rowLock[id] # d /\ walletLock[payments'[id].payer] # d
      BY <2>2, CommitTouches
    <3>3. /\ \A id \in WithdrawalIds : rowLock[id] = d => withdrawals'[id] = withdrawals[id]
          /\ \A id \in TopUpIds : rowLock[id] = d => topUps'[id] = topUps[id]
      BY <2>2, CommitTouches
    <3>4. req'[d] = req[d] /\ saw'[d] = saw[d] /\ CountsOn(d)
      BY CommitTouches DEF Discipline, NothingMovesUnderneath
    <3> QED
      BY <1>0, <1>3, <2>2, <3>1, <3>2, <3>3, <3>4, FootingKept
  <2> QED
    BY <2>1, <2>2
<1> QED
  BY <1>1, <1>2, <1>4, <1>5 DEF Discipline, NothingMovesUnderneath

LEMMA MarkPaidKeeps ==
  ASSUME Discipline, NEW id \in WithdrawalIds, MarkWithdrawalPaid(id)
  PROVE  Discipline'
<1>0. TypeOK /\ TxTypeOK
  BY DEF Discipline
<1>1. TypeOK'
  BY <1>0, TypeStep DEF MarkWithdrawalPaid, MarkNow, Next
<1>2. TxTypeOK' /\ SeesThePresent'
  BY DEF Discipline, TxTypeOK, SeesThePresent, MarkWithdrawalPaid, MarkNow, MarkPaid, Pending,
         RecordPaid, txVars
<1>3. /\ rowLock[id] = None
      /\ \A w \in WithdrawalIds : w # id => withdrawals'[w] = withdrawals[w]
  BY <1>0 DEF MarkWithdrawalPaid, MarkNow, MarkPaid, Pending, RecordPaid, TypeOK
<1>4. ASSUME NEW d \in Calls PROVE CountsOn(d)'
  <2>1. CountsOn(d) /\ UNCHANGED <<pc, req, saw, walletLock, rowLock, payments, topUps>>
    BY DEF Discipline, NothingMovesUnderneath, MarkWithdrawalPaid, MarkNow, MarkPaid, Pending,
           RecordPaid, txVars
  <2>2. \A w \in WithdrawalIds : rowLock[w] = d => withdrawals'[w] = withdrawals[w]
    BY <1>3, NoneIsNoCall
  <2> QED
    BY <1>0, <2>1, <2>2, FootingKept
<1> QED
  BY <1>1, <1>2, <1>4 DEF Discipline, NothingMovesUnderneath

-----------------------------------------------------------------------------
\* Every state of every run has the discipline.
LEMMA DisciplineHolds == TxSpec => []Discipline
<1>1. TxInit => Discipline
  <2> SUFFICES ASSUME TxInit PROVE Discipline
    OBVIOUS
  <2>1. TypeOK
    BY NoneAssumption DEF TxInit, Init, TypeOK, Row, TopUp, Payment, Withdrawal, Entry
  <2>2. TxTypeOK
    BY DEF TxInit, TxTypeOK, PC, Answer, NothingSeen, Row
  <2>3. SeesThePresent /\ NothingMovesUnderneath
    BY NoneIsNoCall DEF TxInit, SeesThePresent, NothingMovesUnderneath, CountsOn, InTransaction
  <2> QED
    BY <2>1, <2>2, <2>3 DEF Discipline
<1>2. Discipline /\ [TxNext]_vars => Discipline'
  <2> SUFFICES ASSUME Discipline, [TxNext]_vars PROVE Discipline'
    OBVIOUS
  <2>1. CASE UNCHANGED vars
    <3>1. /\ UNCHANGED <<pc, req, saw, walletLock, rowLock, answer>>
          /\ UNCHANGED <<wallet, entries, payments, withdrawals, topUps>>
      BY <2>1 DEF vars, ledgerVars, txVars
    <3>2. TypeOK' /\ TxTypeOK' /\ SeesThePresent'
      BY <3>1 DEF Discipline, TypeOK, TxTypeOK, SeesThePresent
    <3>3. \A d \in Calls : CountsOn(d)'
      BY <3>1, FootingKept DEF Discipline, NothingMovesUnderneath
    <3> QED
      BY <3>2, <3>3 DEF Discipline, NothingMovesUnderneath
  <2>2. ASSUME NEW c \in Calls,
               (\E r \in Requests : Receive(c, r)) \/ Step(c) \/ Abort(c) \/ Finish(c)
        PROVE  Discipline'
    BY <2>2, StepsBeforeCommit, CommitKeeps DEF Step
  <2>3. ASSUME NEW id \in WithdrawalIds, MarkWithdrawalPaid(id)
        PROVE  Discipline'
    BY <2>3, MarkPaidKeeps
  <2> QED
    BY <2>1, <2>2, <2>3 DEF TxNext
<1> QED
  BY <1>1, <1>2, PTL DEF TxSpec

\* Every variable of the calls, and of the ledger under them, keeps its shape.
THEOREM TxTyping == TxSpec => [](TypeOK /\ TxTypeOK)
<1>1. Discipline => TypeOK /\ TxTypeOK
  BY DEF Discipline
<1> QED
  BY <1>1, DisciplineHolds, PTL

\* Every call does its work on rows that are as it read them, and on keys nobody
\* else has used since it looked.
THEOREM LockDiscipline == TxSpec => [](SeesThePresent /\ NothingMovesUnderneath)
<1>1. Discipline => SeesThePresent /\ NothingMovesUnderneath
  BY DEF Discipline
<1> QED
  BY <1>1, DisciplineHolds, PTL

\* The transactions implement the ledger: what WalletLedger promises, and its
\* theorems, hold of every run of the service.
THEOREM ImplementsLedger == TxSpec => Spec
<1>1. TxInit => Init
  BY DEF TxInit
<1>2. Discipline /\ [TxNext]_vars => [Next]_ledgerVars
  BY StepImplements
<1> QED
  BY <1>1, <1>2, DisciplineHolds, PTL DEF TxSpec, Spec

\* So the books of the service balance, however its calls overlap and wherever they
\* die: no row is negative or holds more for withdrawal than at all, the statement
\* tells what happened, and the sums come out.
THEOREM BooksBalance == TxSpec => [](LedgerRule /\ StatementsTrue /\ MoneyAccountedFor)
  BY ImplementsLedger, Legality, StatementsHold, MoneyHolds, PTL

\* pay() and transfer() never tell a copy of a request that there is not enough
\* money for it once it has been carried out.
THEOREM RepeatsAnswered == TxSpec => RepeatOfPayOrTransfer
<1>1. Discipline /\ [TxNext]_vars => [~RepeatTurnedPoor({"pay", "transfer"})]_vars
  <2> SUFFICES ASSUME Discipline, NEW c \in Calls, pc[c] = "check",
                      req[c].op \in {"pay", "transfer"}
               PROVE  RowOf(req[c]) = None \/ OwnerOf(req[c]) # req[c].user
    BY DEF RepeatTurnedPoor
  <2>1. CountsOn(c)
    BY DEF Discipline, NothingMovesUnderneath
  <2> QED
    BY <2>1 DEF CountsOn
<1> QED
  BY <1>1, DisciplineHolds, PTL DEF TxSpec, RepeatOfPayOrTransfer

-----------------------------------------------------------------------------
(* No ring of calls.  A call that waits for a wallet waits for one that     *)
(* stands at its second lock and waits for a wallet further up, and among   *)
(* finitely many calls one waits furthest up.                               *)

LEMMA Furthest ==
  ASSUME NEW S, IsFiniteSet(S), S # {}, NEW h \in [S -> Nat]
  PROVE  \E x \in S : \A y \in S : h[y] <= h[x]
<1> DEFINE Above(x) == {y \in S : h[y] > h[x]}
           T == {Above(x) : x \in S}
<1>1. IsWellFoundedOn(StrictSubsetOrdering(S), SUBSET S)
  BY FS_StrictSubsetOrderingWellFounded, FS_FiniteSubsetsOfFinite
<1>2. T \subseteq SUBSET S /\ T # {}
  <2>1. \A x \in S : Above(x) \in SUBSET S
    OBVIOUS
  <2> HIDE DEF Above
  <2> QED
    BY <2>1
<1>3. PICK t \in T : \A s \in T : <<s, t>> \notin StrictSubsetOrdering(S)
  <2> HIDE DEF T
  <2> QED
    BY <1>1, <1>2, WFMin
<1>4. PICK x \in S : t = Above(x)
  BY <1>3
<1>5. ASSUME NEW y \in S, h[y] > h[x] PROVE FALSE
  <2>1. \A z \in S : h[z] \in Nat
    OBVIOUS
  <2>2. Above(y) \subseteq Above(x)
    BY <1>5, <2>1
  <2>3. y \in Above(x) /\ y \notin Above(y)
    BY <1>5, <2>1
  <2>4. <<Above(y), Above(x)>> \in StrictSubsetOrdering(S)
    BY <2>2, <2>3 DEF StrictSubsetOrdering
  <2> QED
    BY <1>3, <1>4, <2>4
<1> QED
  BY <1>5

\* Where a call stands when it holds a lock.
HoldsAt(c) ==
  /\ \A u \in Users : walletLock[u] = c =>
       \/ pc[c] = "lockSecond" /\ u = FirstLock(req[c])
       \/ pc[c] \in {"retried", "check", "insert", "post"}
  /\ \A id \in Causes : rowLock[id] = c =>
       pc[c] \in {"lockOwner", "post"} /\ id = req[c].id

LocksPlaced == \A c \in Calls : HoldsAt(c)

LEMMA PlacedStep ==
  ASSUME Discipline, LocksPlaced, TxNext
  PROVE  LocksPlaced'
<1>0. TxTypeOK
  BY DEF Discipline
<1>1. ASSUME NEW c \in Calls, Release(c), req' = req,
             \A d \in Calls \ {c} : pc'[d] = pc[d]
      PROVE  LocksPlaced'
  BY <1>0, <1>1, ReleaseFacts DEF LocksPlaced, HoldsAt
<1>2. ASSUME NEW c \in Calls, NEW l, Goto(c, l), req' = req,
             UNCHANGED <<walletLock, rowLock>>, HoldsAt(c)'
      PROVE  LocksPlaced'
  BY <1>0, <1>2 DEF LocksPlaced, HoldsAt, Goto, TxTypeOK
<1>3. ASSUME NEW c \in Calls, NEW l, NEW u, Goto(c, l), Lock(c, u), HoldsAt(c)'
      PROVE  LocksPlaced'
  <2>1. \A d \in Calls \ {c} :
          /\ pc'[d] = pc[d] /\ req'[d] = req[d] /\ rowLock' = rowLock
          /\ \A v \in Users : walletLock'[v] = d => walletLock[v] = d
    BY <1>0, <1>3 DEF Goto, Lock, TxTypeOK
  <2> QED
    BY <1>3, <2>1 DEF LocksPlaced, HoldsAt
<1>4. ASSUME NEW c \in Calls, NEW l, NEW id, Goto(c, l), req' = req, UNCHANGED walletLock,
             rowLock' = [rowLock EXCEPT ![id] = c], HoldsAt(c)'
      PROVE  LocksPlaced'
  <2>1. \A d \in Calls \ {c} :
          /\ pc'[d] = pc[d] /\ req'[d] = req[d] /\ walletLock' = walletLock
          /\ \A i \in Causes : rowLock'[i] = d => rowLock[i] = d
    BY <1>0, <1>4 DEF Goto, TxTypeOK
  <2> QED
    BY <1>4, <2>1 DEF LocksPlaced, HoldsAt
<1> SUFFICES ASSUME NEW c \in Calls,
                    (\E r \in Requests : Receive(c, r)) \/ Step(c) \/ Abort(c) \/ Finish(c)
             PROVE  LocksPlaced'
  BY DEF TxNext, MarkWithdrawalPaid, MarkNow, txVars, LocksPlaced, HoldsAt
<1>5. HoldsAt(c) /\ CountsOn(c) /\ \A l : Goto(c, l) => pc'[c] = l
  BY <1>0 DEF LocksPlaced, Discipline, NothingMovesUnderneath, Goto, TxTypeOK
<1>6. CASE (\E r \in Requests : Receive(c, r)) \/ Finish(c)
  <2>1. pc[c] \notin InTransaction /\ UNCHANGED <<walletLock, rowLock>>
    BY <1>6 DEF Receive, Finish, InTransaction
  <2>2. (\A u \in Users : walletLock'[u] # c) /\ (\A id \in Causes : rowLock'[id] # c)
    BY <1>5, <2>1 DEF CountsOn
  <2>3. \A d \in Calls \ {c} : pc'[d] = pc[d] /\ req'[d] = req[d]
    BY <1>0, <1>6 DEF Receive, Finish, Goto, TxTypeOK
  <2> QED
    BY <2>1, <2>2, <2>3 DEF LocksPlaced, HoldsAt
<1>7. CASE AnswerRepeat(c) \/ Begin(c) \/ Refuse(c) \/ Recover(c)
  <2>1. pc[c] \in {"asked", "recover"} /\ UNCHANGED <<req, walletLock, rowLock>>
        /\ \E l : Goto(c, l)
    BY <1>7 DEF AnswerRepeat, Begin, Refuse, Recover, Tell
  <2> QED
    BY <1>2, <1>5, <2>1 DEF HoldsAt
<1>8. CASE Retried(c) \/ Check(c)
  <2>1. pc[c] \in {"retried", "check"} /\ req' = req
        /\ \E l : /\ Goto(c, l)
                  /\ \/ Release(c)
                     \/ l \in {"check", "insert"} /\ UNCHANGED <<walletLock, rowLock>>
    BY <1>8 DEF Retried, Check, Tell
  <2>2. \A d \in Calls \ {c} : pc'[d] = pc[d]
    BY <1>0, <2>1 DEF Goto, TxTypeOK
  <2>3. HoldsAt(c)' \/ Release(c)
    BY <1>5, <2>1 DEF HoldsAt
  <2> QED
    BY <1>1, <1>2, <2>1, <2>2, <2>3
<1>9. CASE Commit(c) \/ Abort(c)
  <2>1. Release(c) /\ req' = req /\ Goto(c, "answered")
    BY <1>9 DEF Commit, Abort, Tell
  <2> QED
    BY <1>0, <1>1, <2>1 DEF Goto, TxTypeOK
<1>10. CASE LockFirst(c)
  <2>1. /\ pc[c] = "lockFirst" /\ Lock(c, FirstLock(req[c])) /\ req' = req /\ rowLock' = rowLock
        /\ Goto(c, IF req[c].op = "withdraw" THEN "check" ELSE "lockSecond")
    BY <1>10 DEF LockFirst, Lock
  <2>2. \A u \in Users : walletLock'[u] = c => u = FirstLock(req[c])
    BY <1>0, <1>5, <2>1 DEF Lock, HoldsAt, TxTypeOK
  <2>3. HoldsAt(c)'
    BY <1>5, <2>1, <2>2 DEF HoldsAt
  <2> QED
    BY <1>3, <2>1, <2>3
<1>11. CASE LockSecond(c)
  <2>1. /\ pc[c] = "lockSecond" /\ Lock(c, SecondLock(req[c])) /\ req' = req /\ rowLock' = rowLock
        /\ Goto(c, IF req[c].op = "payForJob" THEN "check" ELSE "retried")
    BY <1>11 DEF LockSecond, Lock
  <2>2. HoldsAt(c)'
    BY <1>5, <2>1 DEF HoldsAt
  <2> QED
    BY <1>3, <2>1, <2>2
<1>12. CASE LockOwner(c)
  <2>1. /\ pc[c] = "lockOwner" /\ Lock(c, Claimed(req[c])) /\ req' = req /\ rowLock' = rowLock
        /\ Goto(c, "post")
    BY <1>12 DEF LockOwner, Lock
  <2>2. HoldsAt(c)'
    BY <1>5, <2>1 DEF HoldsAt
  <2> QED
    BY <1>3, <2>1, <2>2
<1>13. CASE Insert(c)
  <2>1. pc[c] = "insert" /\ req' = req
        /\ \/ Goto(c, "post") /\ UNCHANGED walletLock
              /\ rowLock' = [rowLock EXCEPT ![req[c].id] = c]
           \/ Goto(c, "recover") /\ Release(c)
    BY <1>13 DEF Insert
  <2>2. CASE Release(c) /\ Goto(c, "recover")
    BY <1>0, <1>1, <2>1, <2>2 DEF Goto, TxTypeOK
  <2>3. CASE Goto(c, "post") /\ UNCHANGED walletLock
             /\ rowLock' = [rowLock EXCEPT ![req[c].id] = c]
    <3>1. \A id \in Causes : rowLock'[id] = c => id = req[c].id
      BY <1>0, <1>5, <2>1, <2>3 DEF HoldsAt, TxTypeOK
    <3>2. HoldsAt(c)'
      BY <1>5, <2>1, <2>3, <3>1 DEF HoldsAt
    <3> QED
      BY <1>4, <2>1, <2>3, <3>2
  <2> QED
    BY <2>1, <2>2, <2>3
<1>14. CASE Claim(c)
  <2>1. pc[c] = "asked" /\ req' = req /\ UNCHANGED walletLock
        /\ \/ Goto(c, "lockOwner") /\ rowLock' = [rowLock EXCEPT ![req[c].id] = c]
           \/ Goto(c, "answered") /\ UNCHANGED rowLock
    BY <1>14 DEF Claim, Tell
  <2>2. CASE Goto(c, "answered") /\ UNCHANGED rowLock
    BY <1>2, <1>5, <2>1, <2>2 DEF HoldsAt
  <2>3. CASE Goto(c, "lockOwner") /\ rowLock' = [rowLock EXCEPT ![req[c].id] = c]
    <3>1. \A id \in Causes : rowLock'[id] = c => id = req[c].id
      BY <1>0, <1>5, <2>1, <2>3 DEF HoldsAt, TxTypeOK
    <3>2. HoldsAt(c)'
      BY <1>5, <2>1, <2>3, <3>1 DEF HoldsAt
    <3> QED
      BY <1>4, <2>1, <2>3, <3>2
  <2> QED
    BY <2>1, <2>2, <2>3
<1> QED
  BY <1>6, <1>7, <1>8, <1>9, <1>10, <1>11, <1>12, <1>13, <1>14 DEF Step, Takes

\* In a ring without late copies nobody waits at an insert: whoever holds the
\* row under that id is claiming a withdrawal that is already there.
LEMMA NobodyAtInsert ==
  ASSUME Discipline, LocksPlaced, NEW S \in SUBSET {c \in Calls : ~LateCopy(c)}, Ring(S),
         NEW c \in S
  PROVE  pc[c] # "insert"
<1> SUFFICES ASSUME pc[c] = "insert" PROVE FALSE
  OBVIOUS
<1>1. PICK d \in S : WaitsFor(c, d)
  BY DEF Ring
<1>2. c \in Calls /\ d \in Calls /\ CountsOn(c) /\ CountsOn(d) /\ HoldsAt(d)
  BY DEF Discipline, NothingMovesUnderneath, LocksPlaced
<1>3. req[c] \in Requests /\ Keyed(c) /\ rowLock[req[c].id] = d
  BY <1>1, <1>2 DEF CountsOn, WaitsFor
<1>4. req[c].id \in Causes
  BY <1>3, RequestFacts
<1>5. pc[d] \in {"lockOwner", "post"} /\ req[d].id = req[c].id
  BY <1>2, <1>3, <1>4 DEF HoldsAt
<1>6. pc[d] = "lockOwner"
  BY <1>5 DEF Ring, WaitsFor
<1>7. req[d] \in Requests /\ ~Keyed(d) /\ Claimable(req[d])
  BY <1>2, <1>6 DEF CountsOn
<1>8. req[d].op \in ClaimOps
  BY <1>7, RequestFacts DEF Keyed
<1>9. req[c].op = "withdraw" /\ req[d].op \in {"cancel", "reject"}
  BY <1>3, <1>5, <1>7, <1>8, RequestFacts, IdsAssumption
     DEF Keyed, KeyedOps, ClaimOps
<1>10. withdrawals[req[c].id] # None
  BY <1>5, <1>7, <1>9 DEF Claimable
<1>11. LateCopy(c)
  BY <1>9, <1>10 DEF LateCopy, RowOf, PaymentOps
<1> QED
  BY <1>11

\* In such a ring, whoever holds a wallet that is waited for waits for a wallet
\* further up.
LEMMA WaitsFurtherUp ==
  ASSUME Discipline, LocksPlaced, NEW S \in SUBSET {c \in Calls : ~LateCopy(c)}, Ring(S),
         NEW d \in S, NEW u \in Users, walletLock[u] = d
  PROVE  pc[d] = "lockSecond" /\ SecondLock(req[d]) > u
<1>1. d \in Calls /\ CountsOn(d) /\ HoldsAt(d) /\ \E e \in S : WaitsFor(d, e)
  BY DEF Discipline, NothingMovesUnderneath, LocksPlaced, Ring
<1>2. pc[d] = "lockSecond" /\ u = FirstLock(req[d])
  BY <1>1, NobodyAtInsert DEF HoldsAt, WaitsFor
<1>3. req[d] \in Requests /\ req[d].user # req[d].payee
  BY <1>1, <1>2 DEF CountsOn, InTransaction
<1>4. req[d].user \in Nat /\ req[d].payee \in Nat
  BY <1>3, RequestFacts, UsersAssumption
<1> QED
  BY <1>2, <1>3, <1>4 DEF FirstLock, SecondLock, LockOrder, Lesser, Greater

LEMMA NoRing ==
  ASSUME Discipline, LocksPlaced
  PROVE  NoWaitCycle
<1> SUFFICES ASSUME NEW S \in SUBSET {c \in Calls : ~LateCopy(c)}, Ring(S)
             PROVE  FALSE
  BY DEF NoWaitCycle
<1> DEFINE Up == {c \in S : pc[c] = "lockSecond"}
<1>1. ASSUME NEW c \in S, NEW d \in S, WaitsFor(c, d),
             pc[c] \in {"lockFirst", "lockSecond", "lockOwner"}
      PROVE  d \in Up /\ (pc[c] = "lockSecond" => SecondLock(req[d]) > SecondLock(req[c]))
  <2>1. /\ c \in Calls /\ CountsOn(c) /\ req[c] \in Requests
    BY <1>1 DEF Discipline, NothingMovesUnderneath, CountsOn
  <2>2. FirstLock(req[c]) \in Users /\ SecondLock(req[c]) \in Users
    BY <2>1, RequestFacts
  <2>3. pc[c] = "lockOwner" => Claimed(req[c]) \in Users
    BY <2>1, RequestFacts, ClaimedIsUser DEF CountsOn, Keyed, Discipline
  <2> QED
    BY <1>1, <2>2, <2>3, WaitsFurtherUp DEF WaitsFor
<1>2. \A c \in S : pc[c] \in {"lockFirst", "lockSecond", "lockOwner"} \/
                   (pc[c] = "asked" /\ \E d \in S : pc[d] = "lockOwner")
  <2> SUFFICES ASSUME NEW c \in S, pc[c] \notin {"lockFirst", "lockSecond", "lockOwner"}
               PROVE  pc[c] = "asked" /\ \E d \in S : pc[d] = "lockOwner"
    OBVIOUS
  <2>1. PICK d \in S : WaitsFor(c, d)
    BY DEF Ring
  <2>2. pc[c] = "asked" /\ rowLock[req[c].id] = d
    BY <2>1, NobodyAtInsert DEF WaitsFor
  <2>3. c \in Calls /\ req[c] \in Requests /\ HoldsAt(d)
    BY <2>2 DEF Discipline, NothingMovesUnderneath, CountsOn, LocksPlaced
  <2>4. pc[d] \in {"lockOwner", "post"}
    BY <2>2, <2>3, RequestFacts DEF HoldsAt
  <2> QED
    BY <2>2, <2>4 DEF Ring, WaitsFor
<1>3. \E c \in S : pc[c] \in {"lockFirst", "lockSecond", "lockOwner"}
  BY <1>2 DEF Ring
<1>4. Up # {}
  BY <1>1, <1>3 DEF Ring
<1>5. IsFiniteSet(Up)
  BY CallsAssumption, FS_Subset
<1>6. \A c \in Up : SecondLock(req[c]) \in Nat
  <2>1. \A c \in Up : req[c] \in Requests
    BY DEF Discipline, NothingMovesUnderneath, CountsOn
  <2> QED
    BY <2>1, RequestFacts, UsersAssumption
<1>7. PICK c \in Up : \A d \in Up : SecondLock(req[d]) <= SecondLock(req[c])
  <2> DEFINE h == [e \in Up |-> SecondLock(req[e])]
  <2>1. h \in [Up -> Nat]
    BY <1>6
  <2>2. \E e \in Up : \A d \in Up : h[d] <= h[e]
    <3> HIDE DEF h, Up
    <3> QED
      BY <1>4, <1>5, <2>1, Furthest
  <2> QED
    BY <2>2
<1>8. PICK d \in S : WaitsFor(c, d)
  BY DEF Ring
<1>9. d \in Up /\ SecondLock(req[d]) > SecondLock(req[c])
  BY <1>1, <1>8
<1> QED
  BY <1>6, <1>7, <1>9

LEMMA PlacesHold == TxSpec => []LocksPlaced
<1>1. TxInit => LocksPlaced
  BY NoneIsNoCall DEF TxInit, LocksPlaced, HoldsAt
<1>2. Discipline /\ LocksPlaced /\ [TxNext]_vars => LocksPlaced'
  <2>1. LocksPlaced /\ UNCHANGED vars => LocksPlaced'
    BY DEF vars, txVars, LocksPlaced, HoldsAt
  <2> QED
    BY <2>1, PlacedStep
<1> QED
  BY <1>1, <1>2, DisciplineHolds, PTL DEF TxSpec

\* "Two people paying each other at the same moment cannot each hold one lock
\* and wait for the other", and no longer ring of calls forms, however many run,
\* but the one through a late copy of a withdrawal.
THEOREM NoRingForms == TxSpec => []NoWaitCycle
<1>1. Discipline /\ LocksPlaced => NoWaitCycle
  BY NoRing
<1> QED
  BY <1>1, DisciplineHolds, PlacesHold, PTL

\* What the rings that do not form mean for the calls: whichever are under way,
\* one of them waits for nobody.
UnderWay(c) == pc[c] \notin {"idle", "answered"}
Blocked(c) == \E d \in Calls : WaitsFor(c, d)

\* What a call needs for its next step is free: nothing, past its locks.
Free(c) ==
  \/ pc[c] \in {"retried", "check", "post", "recover"}
  \/ pc[c] = "asked" /\ Keyed(c)
  \/ pc[c] \in {"asked", "insert"} /\ rowLock[req[c].id] = None
  \/ pc[c] = "lockFirst" /\ walletLock[FirstLock(req[c])] = None
  \/ pc[c] = "lockSecond" /\ walletLock[SecondLock(req[c])] = None
  \/ pc[c] = "lockOwner" /\ walletLock[Claimed(req[c])] = None

\* The exception: a late copy of a withdrawal request, and whoever cancels or
\* rejects that withdrawal.
Crossed(c, d) ==
  /\ LateCopy(c) /\ WaitsFor(c, d)
  /\ pc[d] = "lockOwner" /\ req[d].op \in {"cancel", "reject"} /\ req[d].id = req[c].id

\* Whoever is waited for is in a transaction.
LEMMA WaitedForIsUnderWay ==
  ASSUME Discipline, NEW c \in Calls, NEW d \in Calls, WaitsFor(c, d)
  PROVE  UnderWay(c) /\ UnderWay(d)
<1>1. CountsOn(c) /\ CountsOn(d)
  BY DEF Discipline, NothingMovesUnderneath
<1>2. UnderWay(c) /\ req[c] \in Requests
  BY <1>1 DEF WaitsFor, UnderWay, CountsOn
<1>3. FirstLock(req[c]) \in Users /\ SecondLock(req[c]) \in Users /\ req[c].id \in Causes
  BY <1>2, RequestFacts
<1>4. pc[c] = "lockOwner" => Claimed(req[c]) \in Users
  BY <1>1, <1>2, RequestFacts, ClaimedIsUser DEF CountsOn, Keyed, Discipline
<1>5. (\E u \in Users : walletLock[u] = d) \/ (\E id \in Causes : rowLock[id] = d)
  BY <1>3, <1>4 DEF WaitsFor
<1>6. pc[d] \in InTransaction
  BY <1>1, <1>5 DEF CountsOn
<1> QED
  BY <1>2, <1>6 DEF UnderWay, InTransaction

\* A lock that nobody has is free.
LEMMA UnblockedIsFree ==
  ASSUME Discipline, NEW c \in Calls, UnderWay(c), ~Blocked(c)
  PROVE  Free(c)
<1>1. TxTypeOK /\ CountsOn(c) /\ pc[c] \in PC
  BY DEF Discipline, NothingMovesUnderneath, TxTypeOK
<1>2. req[c] \in Requests
  BY <1>1 DEF UnderWay, CountsOn
<1>3. FirstLock(req[c]) \in Users /\ SecondLock(req[c]) \in Users /\ req[c].id \in Causes
  BY <1>2, RequestFacts
<1>4. pc[c] = "lockOwner" => Claimed(req[c]) \in Users
  BY <1>1, <1>2, RequestFacts, ClaimedIsUser DEF CountsOn, Keyed, Discipline
<1>5. /\ \A u \in Users : walletLock[u] \in Calls \cup {None}
      /\ \A id \in Causes : rowLock[id] \in Calls \cup {None}
  BY <1>1 DEF TxTypeOK
<1>6. pc[c] = "asked" /\ ~Keyed(c) => req[c].op \in ClaimOps
  BY <1>2, RequestFacts DEF Keyed
<1> QED
  BY <1>1, <1>3, <1>4, <1>5, <1>6
  DEF UnderWay, Blocked, WaitsFor, Free, PC, InTransaction

LEMMA LateCopyCrosses ==
  ASSUME Discipline, LocksPlaced, NEW c \in Calls, NEW d \in Calls,
         LateCopy(c), WaitsFor(c, d), Blocked(d)
  PROVE  Crossed(c, d)
<1>1. CountsOn(c) /\ CountsOn(d) /\ HoldsAt(d)
  BY DEF Discipline, NothingMovesUnderneath, LocksPlaced
<1>2. req[c] \in Requests /\ req[c].op = "withdraw" /\ rowLock[req[c].id] = d
  BY <1>1 DEF LateCopy, WaitsFor, CountsOn
<1>3. req[c].id \in Causes
  BY <1>2, RequestFacts
<1>4. pc[d] \in {"lockOwner", "post"} /\ req[d].id = req[c].id
  BY <1>1, <1>2, <1>3 DEF HoldsAt
<1>5. pc[d] = "lockOwner"
  BY <1>4 DEF Blocked, WaitsFor
<1>6. req[d] \in Requests /\ ~Keyed(d)
  BY <1>1, <1>5 DEF CountsOn
<1>7. req[d].op \in {"cancel", "reject"}
  BY <1>2, <1>4, <1>6, RequestFacts, IdsAssumption DEF Keyed, KeyedOps, ClaimOps
<1> QED
  BY <1>4, <1>5, <1>7 DEF Crossed

LEMMA MoverExists ==
  ASSUME Discipline, LocksPlaced, \E c \in Calls : UnderWay(c)
  PROVE  (\E c \in Calls : Free(c)) \/ (\E c, d \in Calls : Crossed(c, d))
<1> SUFFICES ASSUME \A c \in Calls : UnderWay(c) => Blocked(c)
             PROVE  \E c, d \in Calls : Crossed(c, d)
  BY UnblockedIsFree
<1> DEFINE S == {c \in Calls : UnderWay(c)}
<1>1. \A c \in S : \E d \in S : WaitsFor(c, d)
  BY WaitedForIsUnderWay DEF Blocked
<1>2. Ring(S)
  BY <1>1 DEF Ring
<1>3. PICK c \in S : LateCopy(c)
  BY <1>2, NoRing DEF NoWaitCycle
<1>4. PICK d \in S : WaitsFor(c, d)
  BY <1>1
<1>5. Blocked(d)
  BY <1>4
<1> QED
  BY <1>3, <1>4, <1>5, LateCopyCrosses

\* However many calls are under way and whatever they have locked, what one of
\* them needs next is free - unless a late copy of a withdrawal request and whoever
\* cancels or rejects that withdrawal wait for one another, which the database
\* has to find out.
THEOREM SomebodyMoves ==
  TxSpec => []((\E c \in Calls : UnderWay(c))
                 => (\E c \in Calls : Free(c)) \/ (\E c, d \in Calls : Crossed(c, d)))
<1>1. Discipline /\ LocksPlaced =>
        ((\E c \in Calls : UnderWay(c))
           => (\E c \in Calls : Free(c)) \/ (\E c, d \in Calls : Crossed(c, d)))
  BY MoverExists
<1> QED
  BY <1>1, DisciplineHolds, PlacesHold, PTL

-----------------------------------------------------------------------------
(* Answers.                                                                *)

LEMMA AnswersStep ==
  ASSUME Discipline, Discipline', AnswersTrue, [TxNext]_vars
  PROVE  AnswersTrue'
<1>0. TypeOK /\ TxTypeOK /\ TypeOK' /\ [Next]_ledgerVars
  BY StepImplements DEF Discipline
\* What was found under a key is found again.
<1>1. ASSUME NEW r \in Requests, r.op \in KeyedOps, RowOf(r) # None
      PROVE  RowOf(r)' # None /\ OwnerOf(r)' = OwnerOf(r)
  <2>1. CASE r.op \in PaymentOps
    BY <1>0, <1>1, <2>1, RowsStay, RequestFacts DEF RowOf, OwnerOf
  <2>2. CASE r.op \notin PaymentOps
    <3>1. r.id \in WithdrawalIds
      BY <1>1, <2>2, RequestFacts DEF KeyedOps
    <3> QED
      BY <1>0, <1>1, <2>2, <3>1, RowsStay DEF RowOf, OwnerOf
  <2> QED
    BY <2>1, <2>2
\* A call that is left alone keeps its answer.
<1>2. ASSUME NEW d \in Calls, NEW r, r = req[d], r = req'[d], pc'[d] = pc[d],
             answer'[d] = answer[d]
      PROVE  /\ pc'[d] = "answered" /\ answer'[d] = "receipt" /\ r.op \in KeyedOps =>
                  RowOf(r)' # None /\ OwnerOf(r)' = r.user
             /\ pc'[d] = "recover" => RowOf(r)' # None
  <2>1. pc[d] # "idle" => r \in Requests
    BY <1>2 DEF Discipline, NothingMovesUnderneath, CountsOn
  <2>2. pc[d] = "recover" => r.op \in KeyedOps
    BY <1>2 DEF Discipline, NothingMovesUnderneath, CountsOn, Keyed
  <2>3. /\ pc[d] = "answered" /\ answer[d] = "receipt" /\ r.op \in KeyedOps =>
             RowOf(r) # None /\ OwnerOf(r) = r.user
        /\ pc[d] = "recover" => RowOf(r) # None
    BY <1>2 DEF AnswersTrue, RowOf, OwnerOf
  <2> QED
    BY <1>1, <1>2, <2>1, <2>2, <2>3
\* What is left to show of a step: the answers told of the requests they answer.
<1>2a. ASSUME \A d \in Calls : \A r : r = req'[d] =>
                /\ pc'[d] = "answered" /\ answer'[d] = "receipt" /\ r.op \in KeyedOps =>
                     RowOf(r)' # None /\ OwnerOf(r)' = r.user
                /\ pc'[d] = "recover" => RowOf(r)' # None
       PROVE  AnswersTrue'
  BY <1>2a DEF AnswersTrue, RowOf, OwnerOf
<1>3. CASE UNCHANGED vars \/ \E id \in WithdrawalIds : MarkWithdrawalPaid(id)
  <2>1. UNCHANGED <<pc, req, answer>>
    BY <1>3 DEF vars, txVars, MarkWithdrawalPaid, MarkNow
  <2> QED
    BY <1>2, <1>2a, <2>1
<1>4. ASSUME NEW c \in Calls,
             (\E r \in Requests : Receive(c, r)) \/ Step(c) \/ Abort(c) \/ Finish(c)
      PROVE  AnswersTrue'
  <2>1. \A d \in Calls \ {c} : pc'[d] = pc[d] /\ answer'[d] = answer[d] /\ req'[d] = req[d]
    BY <1>0, <1>4
       DEF TxTypeOK, Step, Takes, Receive, AnswerRepeat, Begin, Refuse, Retried, Check, Recover,
           Commit, LockFirst, LockSecond, LockOwner, Lock, Insert, Claim, Abort, Finish, Tell, Goto
  <2>2. ASSUME NEW r, r = req'[c]
        PROVE  /\ pc'[c] = "answered" /\ answer'[c] = "receipt" /\ r.op \in KeyedOps =>
                    RowOf(r)' # None /\ OwnerOf(r)' = r.user
               /\ pc'[c] = "recover" => RowOf(r)' # None
    <3>1. CASE (\E q \in Requests : Receive(c, q)) \/ Finish(c)
      BY <1>0, <3>1 DEF TxTypeOK, Receive, Finish, Goto
    <3>2. CASE Begin(c) \/ LockFirst(c) \/ LockSecond(c) \/ LockOwner(c)
      BY <1>0, <3>2 DEF TxTypeOK, Begin, LockFirst, LockSecond, LockOwner, Goto
    <3>3. CASE Refuse(c) \/ Claim(c) \/ Abort(c)
      BY <1>0, <3>3 DEF TxTypeOK, Refuse, Claim, Abort, Tell, Goto
    <3>4. CASE Check(c)
      BY <1>0, <3>4 DEF TxTypeOK, Check, Tell, Goto
    <3>5. CASE AnswerRepeat(c) \/ Retried(c) \/ Recover(c)
      <4>1. /\ pc[c] \in {"asked", "retried", "recover"} /\ r = req[c] /\ CountsOn(c)
            /\ r \in Requests
        BY <2>2, <3>5
           DEF AnswerRepeat, Retried, Recover, Discipline, NothingMovesUnderneath, CountsOn
      <4>2. r.op \in KeyedOps
        BY <3>5, <4>1 DEF AnswerRepeat, Retried, Recover, CountsOn, Keyed
      <4>3. CASE RowOf(r) # None
        <5>1. RowOf(r)' # None /\ OwnerOf(r)' = OwnerOf(r)
          BY <1>1, <4>1, <4>2, <4>3
        <5>2. \/ /\ pc'[c] = "answered" /\ answer'[c] = AnswerByKey(r)
              \/ pc'[c] = "check"
          BY <1>0, <4>1, <3>5, <4>3 DEF TxTypeOK, AnswerRepeat, Retried, Recover, Tell, Goto
        <5>3. AnswerByKey(r) = "receipt" => OwnerOf(r) = r.user
          BY DEF AnswerByKey
        <5> QED
          BY <4>1, <5>1, <5>2, <5>3
      <4>4. CASE RowOf(r) = None
        <5>1. ~Recover(c)
          BY <4>1, <4>4 DEF Recover, AnswersTrue
        <5>2. pc'[c] = "check"
          BY <1>0, <4>1, <3>5, <4>4, <5>1 DEF TxTypeOK, AnswerRepeat, Retried, Goto
        <5> QED
          BY <5>2
      <4> QED
        BY <4>3, <4>4
    <3>6. CASE Insert(c)
      <4>1. pc[c] = "insert" /\ r = req[c] /\ CountsOn(c) /\ UNCHANGED ledgerVars
        BY <2>2, <3>6 DEF Insert, Discipline, NothingMovesUnderneath
      <4>2. pc'[c] = "post" \/ (pc'[c] = "recover" /\ RowOf(r) # None)
        BY <1>0, <4>1, <3>6 DEF TxTypeOK, Insert, Goto
      <4>3. RowOf(r)' = RowOf(r)
        BY <4>1 DEF RowOf, ledgerVars
      <4> QED
        BY <4>1, <4>2, <4>3
    <3>7. CASE Commit(c)
      <4>1. pc[c] = "post" /\ r = req[c] /\ CountsOn(c) /\ pc'[c] = "answered"
        BY <2>2, <3>7, CommitTouches DEF Commit, Discipline, NothingMovesUnderneath
      <4>2. r \in Requests
        BY <4>1 DEF CountsOn
      <4>3. CASE CommitPayment(c)
        <5>1. r.op \in PaymentOps /\ r.id \in PaymentIds
          BY <4>1, <4>2, <4>3, RequestFacts DEF CommitPayment
        <5>2. payments'[r.id].payer = r.user /\ payments'[r.id] \in Payment
          <6>1. payments'[r.id] =
                  [payer |-> r.user, payee |-> r.payee, amount |-> r.amount,
                   forWork |-> r.op # "transfer"]
            BY <1>0, <4>1, <4>3, <5>1 DEF CommitPayment, TypeOK
          <6>2. r.user \in Users /\ r.payee \in Users /\ r.amount \in Amounts
            BY <4>2, RequestFacts
          <6> QED
            BY <6>1, <6>2 DEF Payment
        <5> QED
          BY <4>1, <5>1, <5>2, NoneAssumption DEF RowOf, OwnerOf
      <4>4. CASE CommitWithdrawal(c)
        <5>1. r.op = "withdraw" /\ r.id \in WithdrawalIds
          BY <4>1, <4>2, <4>4, RequestFacts DEF CommitWithdrawal
        <5>2. withdrawals'[r.id].user = r.user /\ withdrawals'[r.id] \in Withdrawal
          <6>1. withdrawals'[r.id] =
                  [user |-> r.user, amount |-> r.amount, status |-> "PENDING"]
            BY <1>0, <4>1, <4>4, <5>1 DEF CommitWithdrawal, TypeOK
          <6>2. r.user \in Users /\ r.amount \in Amounts
            BY <4>2, RequestFacts
          <6> QED
            BY <6>1, <6>2 DEF Withdrawal
        <5> QED
          BY <4>1, <5>1, <5>2, NoneAssumption DEF RowOf, OwnerOf, PaymentOps
      <4>5. CASE CommitReturn(c) \/ CommitCredit(c)
        BY <4>1, <4>5 DEF CommitReturn, CommitCredit, KeyedOps, PaymentOps
      <4> QED
        BY <3>7, <4>3, <4>4, <4>5 DEF Commit
    <3> QED
      BY <1>4, <3>1, <3>2, <3>3, <3>4, <3>5, <3>6, <3>7 DEF Step, Takes
  <2> QED
    BY <1>2, <1>2a, <2>1, <2>2
<1> QED
  BY <1>3, <1>4 DEF TxNext

\* A receipt names a row of one's own that is committed, and a call that ran into
\* a committed requestId finds it: however many calls there are and whenever
\* their transactions die.
THEOREM AnswersAreTrue == TxSpec => []AnswersTrue
<1>1. TxInit => AnswersTrue
  BY DEF TxInit, AnswersTrue
<1>2. Discipline /\ Discipline' /\ AnswersTrue /\ [TxNext]_vars => AnswersTrue'
  BY AnswersStep
<1> QED
  BY <1>1, <1>2, DisciplineHolds, PTL DEF TxSpec
=============================================================================
