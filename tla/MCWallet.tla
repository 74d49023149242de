------------------------------ MODULE MCWallet ------------------------------
(* Small instances of Wallet: which requests the calls may carry.          *)
EXTENDS Wallet

CONSTANTS p1, p2, w1, t1, c1, c2

R(op, user, payee, amount, id) ==
  [op |-> op, user |-> user, payee |-> payee, amount |-> amount, id |-> id]

\* Payments both ways between two people, under keys that two calls may share.
PaymentRequests ==
  {R("credit", 1, 1, 1, t1)}
  \cup {R(op, 1, 2, 2, p1) : op \in {"pay", "transfer"}}
  \cup {R(op, 2, 1, 1, p2) : op \in {"pay", "transfer"}}
  \cup {R("payForJob", 2, 1, 1, p1)}

\* One worker's earnings asked out, called off and turned down.
WithdrawalRequests ==
  {R("credit", 1, 1, 1, t1), R("pay", 1, 2, 2, p1),
   R("withdraw", 2, 2, 1, w1), R("withdraw", 1, 1, 1, w1),
   R("cancel", 2, 2, 1, w1), R("reject", 1, 1, 1, w1), R("transfer", 2, 1, 1, p2)}

EveryRequest == PaymentRequests \cup WithdrawalRequests

\* A requestId used from two phones, on two entry points.
RepeatRequests ==
  {R("credit", 1, 1, 1, t1), R("payForJob", 1, 2, 2, p1),
   R("payForJob", 2, 1, 2, p1), R("withdraw", 2, 2, 2, w1)}
=============================================================================
