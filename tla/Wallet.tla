------------------------------- MODULE Wallet -------------------------------
(***************************************************************************)
(* WalletService as it runs: concurrent API calls, each a database         *)
(* transaction at READ COMMITTED that locks wallet rows, reads them, and    *)
(* commits; with requests that are retried under the same requestId,        *)
(* callbacks that arrive together, and transactions that die half way.      *)
(*                                                                         *)
(* A call's own writes are applied at its commit: until then the rows are   *)
(* locked against other writers and other readers see the version before.   *)
(* The locks are the wallet rows (SELECT ... FOR UPDATE) and the rows       *)
(* inserted or claimed under an id (a second insert of a requestId, or a    *)
(* second claim of a withdrawal or top-up, waits for the first to end).     *)
(*                                                                          *)
(* An operator Name_Slip above Name is Name with a slip a programmer could  *)
(* make; nothing uses it.                                                   *)
(***************************************************************************)
EXTENDS WalletLedger

CONSTANTS
  Calls,     \* API calls in flight at once
  Requests   \* what the calls may ask for

PaymentOps == {"pay", "transfer", "payForJob"}
KeyedOps == PaymentOps \cup {"withdraw"}
ClaimOps == {"cancel", "reject", "credit"}

\* `user` pays, withdraws or cancels; `payee` is another account for a payment
\* and the same one otherwise.
Request ==
       [op : PaymentOps, user : Users, payee : Users, amount : Amounts, id : PaymentIds]
  \cup {r \in [op : {"withdraw", "cancel", "reject"}, user : Users, payee : Users,
               amount : Amounts, id : WithdrawalIds] : r.payee = r.user}
  \cup [op : {"credit"}, user : Users, payee : Users, amount : Amounts, id : TopUpIds]

ASSUME RequestsAssumption == Requests \subseteq Request
ASSUME CallsAssumption == IsFiniteSet(Calls)
ASSUME NoneIsNoCall == None \notin Calls
ASSUME NoneIsNoRequest == None \notin Requests

VARIABLES
  pc,          \* where each call stands
  req,         \* what it was asked
  saw,         \* the wallet rows it read when it locked them
  walletLock,  \* which call holds each wallet row
  rowLock,     \* which call holds the row under each id
  answer       \* what it told the app

txVars == <<pc, req, saw, walletLock, rowLock, answer>>
vars == <<ledgerVars, txVars>>

InTransaction == {"lockFirst", "lockSecond", "retried", "check", "insert",
                  "lockOwner", "post"}

PC == InTransaction \cup {"idle", "asked", "recover", "answered"}
Answer == {"none", "receipt", "refused", "poor", "failed"}

-----------------------------------------------------------------------------
(* Helpers.                                                                *)

\* The row a request's key finds, if any; its owner is who may be told of it.
RowOf(r) == IF r.op \in PaymentOps THEN payments[r.id] ELSE withdrawals[r.id]
OwnerOf(r) == IF r.op \in PaymentOps THEN payments[r.id].payer ELSE withdrawals[r.id].user

\* paymentByRequest, withdrawalByRequest: someone else's key is "not found".
AnswerByKey_Anyone(r) == "receipt"
AnswerByKey(r) == IF OwnerOf(r) = r.user THEN "receipt" ELSE "refused"

\* [payerId, payeeId].sort()
LockOrder_PayerFirst(r) == <<r.user, r.payee>>
LockOrder(r) == <<Lesser(r.user, r.payee), Greater(r.user, r.payee)>>
FirstLock(r) == LockOrder(r)[1]
SecondLock(r) == LockOrder(r)[2]

NothingSeen_Unset == <<>>
NothingSeen == [u \in Users |-> [balance |-> 0, withdrawable |-> 0]]

Goto(c, l) == pc' = [pc EXCEPT ![c] = l]

\* The end of a transaction lets go of everything it locked.
Release_WalletsOnly(c) ==
  /\ walletLock' = [u \in Users |-> IF walletLock[u] = c THEN None ELSE walletLock[u]]
  /\ UNCHANGED rowLock

Release(c) ==
  /\ walletLock' = [u \in Users |-> IF walletLock[u] = c THEN None ELSE walletLock[u]]
  /\ rowLock' = [id \in Causes |-> IF rowLock[id] = c THEN None ELSE rowLock[id]]

Tell(c, a) == Goto(c, "answered") /\ answer' = [answer EXCEPT ![c] = a]

\* SELECT ... FOR UPDATE: waits for the lock, then reads the row as committed.
Lock_WithoutForUpdate(c, u) ==
  /\ walletLock' = [walletLock EXCEPT ![u] = c]
  /\ saw' = [saw EXCEPT ![c][u] = wallet[u]]
  /\ UNCHANGED <<ledgerVars, req, rowLock, answer>>

Lock(c, u) ==
  /\ walletLock[u] = None
  /\ walletLock' = [walletLock EXCEPT ![u] = c]
  /\ saw' = [saw EXCEPT ![c][u] = wallet[u]]
  /\ UNCHANGED <<ledgerVars, req, rowLock, answer>>

-----------------------------------------------------------------------------
(* A call, step by step.                                                   *)

Receive(c, r) ==
  /\ pc[c] = "idle"
  /\ Goto(c, "asked")
  /\ req' = [req EXCEPT ![c] = r]
  /\ UNCHANGED <<ledgerVars, saw, walletLock, rowLock, answer>>

\* "A repeat is the same payment": the lookup every keyed call starts with.
AnswerRepeat(c) ==
  /\ pc[c] = "asked"
  /\ req[c].op \in KeyedOps
  /\ RowOf(req[c]) # None
  /\ Tell(c, AnswerByKey(req[c]))
  /\ UNCHANGED <<ledgerVars, req, saw, walletLock, rowLock>>

\* No such row yet, and every other check passed (hired, verified, active,
\* not oneself): the transaction begins.
Begin(c) ==
  /\ pc[c] = "asked"
  /\ req[c].op \in KeyedOps
  /\ RowOf(req[c]) = None
  /\ req[c].op \in PaymentOps => req[c].user # req[c].payee
  /\ Goto(c, "lockFirst")
  /\ UNCHANGED <<ledgerVars, req, saw, walletLock, rowLock, answer>>

\* One of those checks did not pass.
Refuse(c) ==
  /\ pc[c] = "asked"
  /\ req[c].op \in KeyedOps
  /\ RowOf(req[c]) = None
  /\ Tell(c, "refused")
  /\ UNCHANGED <<ledgerVars, req, saw, walletLock, rowLock>>

\* Wallets are locked in the order of their owners' ids; withdraw() locks the
\* one it needs, user and payee being the same.
LockFirst(c) ==
  /\ pc[c] = "lockFirst"
  /\ Lock(c, FirstLock(req[c]))
  /\ Goto(c, IF req[c].op = "withdraw" THEN "check" ELSE "lockSecond")

LockSecond_NoSecondLook(c) ==
  pc[c] = "lockSecond" /\ Lock(c, SecondLock(req[c])) /\ Goto(c, "check")

\* payForJob() goes straight on to the balance; pay() and transfer() look
\* again for a first copy of the request.
LockSecond(c) ==
  /\ pc[c] = "lockSecond"
  /\ Lock(c, SecondLock(req[c]))
  /\ Goto(c, IF req[c].op = "payForJob" THEN "check" ELSE "retried")

\* "A first copy of this request may have committed while this one waited for
\* the locks": answered from the first copy, or carry on.
Retried(c) ==
  /\ pc[c] = "retried"
  /\ \/ /\ RowOf(req[c]) # None
        /\ Tell(c, AnswerByKey(req[c]))
        /\ Release(c)
     \/ /\ RowOf(req[c]) = None
        /\ Goto(c, "check")
        /\ UNCHANGED <<walletLock, rowLock, answer>>
  /\ UNCHANGED <<ledgerVars, req, saw>>

Affordable(c) ==
  LET row == saw[c][req[c].user]
  IN  req[c].amount <= IF req[c].op = "withdraw" THEN row.withdrawable ELSE row.balance

\* The locked row covers the amount, or the call ends: INSUFFICIENT_BALANCE
\* or NOT_WITHDRAWABLE.
Check(c) ==
  /\ pc[c] = "check"
  /\ \/ /\ Affordable(c)
        /\ Goto(c, "insert")
        /\ UNCHANGED <<walletLock, rowLock, answer>>
     \/ /\ ~Affordable(c)
        /\ Tell(c, "poor")
        /\ Release(c)
  /\ UNCHANGED <<ledgerVars, req, saw>>

\* Creating the payment or withdrawal row. A requestId another transaction is
\* inserting is waited for; one that is committed is a unique violation, which
\* rolls this transaction back.
Insert(c) ==
  /\ pc[c] = "insert"
  /\ rowLock[req[c].id] = None
  /\ \/ /\ RowOf(req[c]) = None
        /\ rowLock' = [rowLock EXCEPT ![req[c].id] = c]
        /\ Goto(c, "post")
        /\ UNCHANGED walletLock
     \/ /\ RowOf(req[c]) # None
        /\ Goto(c, "recover")
        /\ Release(c)
  /\ UNCHANGED <<ledgerVars, req, saw, answer>>

\* "The unique requestId let exactly one through; answer the other with it."
Recover(c) ==
  /\ pc[c] = "recover"
  /\ Tell(c, IF RowOf(req[c]) = None THEN "failed" ELSE AnswerByKey(req[c]))
  /\ UNCHANGED <<ledgerVars, req, saw, walletLock, rowLock>>

\* updateMany ... WHERE status: who may be moved on, and by whom.
Claimable(r) ==
  IF r.op = "credit" THEN topUps[r.id].status = "OPEN"
  ELSE /\ withdrawals[r.id] # None
       /\ withdrawals[r.id].status = "PENDING"
       /\ r.op = "cancel" => withdrawals[r.id].user = r.user

\* Cancelling, rejecting and crediting start by claiming the row; what is not
\* there to claim is explained to the caller.
Claim(c) ==
  /\ pc[c] = "asked"
  /\ req[c].op \in ClaimOps
  /\ rowLock[req[c].id] = None
  /\ \/ /\ Claimable(req[c])
        /\ rowLock' = [rowLock EXCEPT ![req[c].id] = c]
        /\ Goto(c, "lockOwner")
        /\ UNCHANGED answer
     \/ /\ ~Claimable(req[c])
        /\ Tell(c, "refused")
        /\ UNCHANGED rowLock
  /\ UNCHANGED <<ledgerVars, req, saw, walletLock>>

Claimed(r) == IF r.op = "credit" THEN topUps[r.id].owner ELSE withdrawals[r.id].user

LockOwner(c) ==
  /\ pc[c] = "lockOwner"
  /\ Lock(c, Claimed(req[c]))
  /\ Goto(c, "post")

-----------------------------------------------------------------------------
(* The commits: the movement computed from the rows read under the locks.  *)

CommitPayment(c) ==
  LET r == req[c]
      payer == saw[c][r.user]
      payee == saw[c][r.payee]
      forWork == r.op # "transfer"
  IN  /\ r.op \in PaymentOps
      /\ payments' = [payments EXCEPT ![r.id] =
           [payer |-> r.user, payee |-> r.payee, amount |-> r.amount,
            forWork |-> forWork]]
      /\ PostBoth(r.user, payer,
                  IF forWork THEN Spend(payer, r.amount) ELSE Send(payer, r.amount),
                  r.payee, payee,
                  Gain(payee, r.amount,
                       IF forWork THEN r.amount ELSE EarnedPart(payer, r.amount)), r.id)
      /\ UNCHANGED <<withdrawals, topUps>>

CommitWithdrawal(c) ==
  LET r == req[c]
      row == saw[c][r.user]
  IN  /\ r.op = "withdraw"
      /\ withdrawals' = [withdrawals EXCEPT ![r.id] =
           [user |-> r.user, amount |-> r.amount, status |-> "PENDING"]]
      /\ PostOne(r.user, row, Draw(row, r.amount), "WITHDRAWAL", r.id)
      /\ UNCHANGED <<payments, topUps>>

CommitReturn(c) ==
  LET r == req[c]
      w == withdrawals[r.id]
      row == saw[c][w.user]
  IN  /\ r.op \in {"cancel", "reject"}
      /\ withdrawals' = [withdrawals EXCEPT ![r.id].status =
           IF r.op = "cancel" THEN "CANCELLED" ELSE "REJECTED"]
      /\ PostOne(w.user, row, Gain(row, w.amount, w.amount), "WITHDRAWAL_RETURNED", r.id)
      /\ UNCHANGED <<payments, topUps>>

CommitCredit(c) ==
  LET r == req[c]
      t == topUps[r.id]
      row == saw[c][t.owner]
  IN  /\ r.op = "credit"
      /\ topUps' = [topUps EXCEPT ![r.id].status = "PAID"]
      /\ PostOne(t.owner, row, Gain(row, t.amount, 0), "TOP_UP", r.id)
      /\ UNCHANGED <<payments, withdrawals>>

Commit(c) ==
  /\ pc[c] = "post"
  /\ CommitPayment(c) \/ CommitWithdrawal(c) \/ CommitReturn(c) \/ CommitCredit(c)
  /\ Release(c)
  /\ Tell(c, "receipt")
  /\ UNCHANGED <<req, saw>>

\* The transaction times out, its connection drops, or the process dies: the
\* database undoes it.
Abort(c) ==
  /\ pc[c] \in InTransaction
  /\ Release(c)
  /\ Tell(c, "failed")
  /\ UNCHANGED <<ledgerVars, req, saw>>

\* Which call c cannot move before.
WaitsFor(c, d) ==
  \/ pc[c] = "lockFirst" /\ walletLock[FirstLock(req[c])] = d
  \/ pc[c] = "lockSecond" /\ walletLock[SecondLock(req[c])] = d
  \/ pc[c] = "lockOwner" /\ walletLock[Claimed(req[c])] = d
  \/ pc[c] = "insert" /\ rowLock[req[c].id] = d
  \/ pc[c] = "asked" /\ req[c].op \in ClaimOps /\ rowLock[req[c].id] = d

\* A ring of calls of S, each waiting for another.
Ring(S) == S # {} /\ \A c \in S : \E d \in S : WaitsFor(c, d)

\* The database looks for such rings and undoes one of their transactions.
BreakRing(c) == Abort(c) /\ \E S \in SUBSET Calls : c \in S /\ Ring(S)

Finish(c) ==
  /\ pc[c] = "answered"
  /\ Goto(c, "idle")
  /\ answer' = [answer EXCEPT ![c] = "none"]
  /\ req' = [req EXCEPT ![c] = None]
  /\ saw' = [saw EXCEPT ![c] = NothingSeen]
  /\ UNCHANGED <<ledgerVars, walletLock, rowLock>>

\* markWithdrawalPaid: one UPDATE, which waits for a claim in progress.
MarkNow(id) == MarkPaid(id) /\ UNCHANGED txVars
MarkWithdrawalPaid(id) == rowLock[id] = None /\ MarkNow(id)

-----------------------------------------------------------------------------
TxInit ==
  /\ Init
  /\ pc = [c \in Calls |-> "idle"]
  /\ req = [c \in Calls |-> None]
  /\ saw = [c \in Calls |-> NothingSeen]
  /\ walletLock = [u \in Users |-> None]
  /\ rowLock = [id \in Causes |-> None]
  /\ answer = [c \in Calls |-> "none"]

Takes(c) == LockFirst(c) \/ LockSecond(c) \/ LockOwner(c) \/ Insert(c) \/ Claim(c)
Step(c) ==
  \/ AnswerRepeat(c) \/ Begin(c) \/ Refuse(c) \/ Retried(c) \/ Check(c)
  \/ Recover(c) \/ Commit(c) \/ Takes(c)

TxNext ==
  \/ \E c \in Calls : (\E r \in Requests : Receive(c, r)) \/ Step(c) \/ Abort(c) \/ Finish(c)
  \/ \E id \in WithdrawalIds : MarkWithdrawalPaid(id)

TxSpec == TxInit /\ [][TxNext]_vars

\* A call that can go on does; a lock is granted in the order it was asked for,
\* so a call is not passed over for ever; a deadlock is detected. Nothing else
\* forces an Abort, a new call or an admin's decision.
Fairness == \A c \in Calls :
  WF_vars(Step(c)) /\ SF_vars(Takes(c)) /\ WF_vars(BreakRing(c))
FairTxSpec == TxSpec /\ Fairness

-----------------------------------------------------------------------------
(* Properties.                                                             *)

TxTypeOK ==
  /\ pc \in [Calls -> PC]
  /\ req \in [Calls -> Requests \cup {None}]
  /\ saw \in [Calls -> [Users -> Row]]
  /\ walletLock \in [Users -> Calls \cup {None}]
  /\ rowLock \in [Causes -> Calls \cup {None}]
  /\ answer \in [Calls -> Answer]

\* A call that holds a wallet's lock still sees the row as it is committed:
\* what it computes from `saw` is computed from the present balance.
SeesThePresent ==
  \A c \in Calls, u \in Users : walletLock[u] = c => saw[c][u] = wallet[u]

\* What each step of a call counts on is still so when it is taken: the locks it
\* took are its own (and are let go of with the transaction), the balance it
\* found large enough still is, the row it is about to create or claim has not
\* been created or claimed by another, and a copy of a payment that pay() or
\* transfer() looked for has not appeared since.
Keyed(c) == req[c].op \in KeyedOps

CountsOn(c) ==
  LET r == req[c]
  IN  /\ pc[c] # "idle" => r \in Requests
      /\ pc[c] \notin InTransaction =>
           (\A u \in Users : walletLock[u] # c) /\ (\A id \in Causes : rowLock[id] # c)
      /\ pc[c] \in {"lockFirst", "lockSecond", "retried", "check", "insert", "recover"} =>
           Keyed(c)
      /\ pc[c] = "lockOwner" => ~Keyed(c)
      /\ pc[c] \in InTransaction /\ r.op \in PaymentOps => r.user # r.payee
      /\ pc[c] = "lockSecond" => r.op \in PaymentOps /\ walletLock[FirstLock(r)] = c
      /\ pc[c] \in {"retried", "check", "insert", "post"} /\ Keyed(c) =>
           walletLock[r.user] = c /\ walletLock[r.payee] = c
      /\ pc[c] \in {"check", "insert"} /\ r.op \in {"pay", "transfer"} =>
           RowOf(r) = None \/ OwnerOf(r) # r.user
      /\ pc[c] \in {"insert", "post"} /\ Keyed(c) => Affordable(c)
      /\ pc[c] = "post" /\ Keyed(c) => rowLock[r.id] = c /\ RowOf(r) = None
      /\ pc[c] \in {"lockOwner", "post"} /\ ~Keyed(c) => rowLock[r.id] = c /\ Claimable(r)
      /\ pc[c] = "post" /\ ~Keyed(c) => walletLock[Claimed(r)] = c

NothingMovesUnderneath == \A c \in Calls : CountsOn(c)

\* "Two people paying each other at the same moment cannot each hold one lock
\* and wait for the other" - nor can any longer ring of payments, withdrawals,
\* refunds and credits form, with one exception: a late copy of a withdrawal
\* request holds the wallet and waits for the withdrawal, while whoever cancels
\* or rejects that withdrawal holds it and waits for the wallet.
LateCopy(c) == pc[c] = "insert" /\ req[c].op = "withdraw" /\ RowOf(req[c]) # None
NoWaitCycle == \A S \in SUBSET {c \in Calls : ~LateCopy(c)} : ~Ring(S)

\* An answer is the truth: a receipt names a row of one's own that is committed
\* with its entries, and a call that ran into a committed requestId finds it.
AnswersTrue ==
  \A c \in Calls :
    /\ pc[c] = "answered" /\ answer[c] = "receipt" /\ req[c].op \in KeyedOps =>
         RowOf(req[c]) # None /\ OwnerOf(req[c]) = req[c].user
    /\ pc[c] = "recover" => RowOf(req[c]) # None

\* A copy of a request is told there is not enough money although the request
\* has been carried out: `ops` are the calls this is asked of.
RepeatTurnedPoor(ops) ==
  \E c \in Calls :
    /\ pc[c] = "check" /\ pc'[c] = "answered" /\ answer'[c] = "poor"
    /\ req[c].op \in ops
    /\ RowOf(req[c]) # None /\ OwnerOf(req[c]) = req[c].user

\* It never happens to pay() and transfer(): they take a second look after the
\* locks.
RepeatOfPayOrTransfer == [][~RepeatTurnedPoor({"pay", "transfer"})]_vars

\* The schema says it of every payment ("The app's key for this confirmation.
\* A repeat is the same payment.") and of every withdrawal ("A repeat is the
\* same withdrawal.").
RepeatIsTheSame == [][~RepeatTurnedPoor(PaymentOps \cup {"withdraw"})]_vars

\* Every call is answered: nobody waits on a lock for ever.
EveryCallAnswered ==
  \A c \in Calls : pc[c] = "asked" ~> pc[c] = "answered"
=============================================================================
