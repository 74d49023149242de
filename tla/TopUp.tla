------------------------------- MODULE TopUp --------------------------------
(***************************************************************************)
(* Adding money: payments opened at the gateway, and deposits a person      *)
(* sent by hand and then declared.  A top-up is driven by prompts that may  *)
(* be lost, repeated or come in any order - the payer's browser coming      *)
(* back, the gateway's notice (IPN), a poll of the top-up, which the API    *)
(* serves and no screen of the app makes today - and what a prompt says is  *)
(* never believed: the handler asks the gateway, waits, and only then moves *)
(* the row.  Handlers interleave and die with the process.                  *)
(*                                                                          *)
(* The ledger is WalletLedger's; creditTopUp is one transaction (module     *)
(* Wallet has its inside) and is one step here.  An operator Name_Slip      *)
(* above Name is the same step with a plausible mistake in it.              *)
(***************************************************************************)
EXTENDS Integers, Sequences, FiniteSets

CONSTANTS
  Users, Amounts,
  TopUpIds,      \* tranIds: random for a gateway payment, the app's requestId for a deposit
  Attempts,      \* val_ids: attempts to pay, at the gateway
  References,    \* transaction ids people find in their own payment apps
  Handlers,      \* requests the API serves at once
  AutoApproves,  \* WALLET_AUTO_APPROVE_DEPOSITS outside production
  None

ASSUME NoneIsNone == None \notin Attempts /\ None \notin References

VARIABLES
  topUp,     \* wallet_top_ups by tranId; "NONE" is a row not yet created
  wallet, entries,
  attempt,   \* the gateway's record of each attempt
  pages,     \* top-ups whose payment page has been handed to the payer
  task,      \* what each handler does next
  recent,    \* lastChecked: asked about in the last RECHECK_MS
  old        \* created longer than RECHECK_UNPAID_MS ago

vars == <<topUp, wallet, entries, attempt, pages, task, recent, old>>
ledger == <<wallet, entries>>

Ledger == INSTANCE WalletLedger WITH
  PaymentIds <- {}, WithdrawalIds <- {},
  payments <- [id \in {} |-> None], withdrawals <- [id \in {} |-> None],
  topUps <- [t \in TopUpIds |->
    [owner |-> topUp[t].owner, amount |-> topUp[t].amount,
     status |-> IF topUp[t].status = "PAID" THEN "PAID" ELSE "OPEN"]]

\* What the ledger assumes: numbered accounts, positive amounts, finite tables.
ASSUME LedgerAssumption ==
  /\ Users \subseteq Nat /\ Amounts \subseteq Nat \ {0}
  /\ IsFiniteSet(Users) /\ IsFiniteSet(TopUpIds)
  /\ None \notin Ledger!Payment /\ None \notin Ledger!Withdrawal

Status == {"NONE", "PENDING", "PAID", "FAILED", "CANCELLED", "HELD", "REJECTED"}
Settleable_PendingOnly == {"PENDING"}
Settleable == {"PENDING", "FAILED", "CANCELLED"}

TopUpRow ==
  [owner : Users, amount : Amounts, manual : BOOLEAN, reference : References,
   status : Status, reviewed : BOOLEAN]

\* fits: amount and currency are the top-up's; risky: risk_level 1.
Attempt ==
  [topUp : TopUpIds, status : {"PENDING", "VALID", "FAILED", "CANCELLED"},
   fits : BOOLEAN, risky : BOOLEAN]

Idle == [at |-> "idle"]
Task ==
  {Idle} \cup [at : {"session", "query", "autoCredit"}, topUp : TopUpIds]
    \cup [at : {"validate", "credit", "hold"}, topUp : TopUpIds, attempt : Attempts]
    \cup [at : {"unpaid"}, topUp : TopUpIds, status : {"FAILED", "CANCELLED"}]

Do(h, next) == task' = [task EXCEPT ![h] = next]
SetStatus(t, status) == topUp' = [topUp EXCEPT ![t].status = status]

-----------------------------------------------------------------------------
(* The gateway.                                                             *)

\* The payer, on the page they were sent to, makes an attempt ...
Pay(a, t, status, fits, risky) ==
  /\ t \in pages
  /\ attempt[a] = None
  /\ attempt' = [attempt EXCEPT ![a] =
       [topUp |-> t, status |-> status, fits |-> fits, risky |-> risky]]
  /\ UNCHANGED <<topUp, ledger, pages, task, recent, old>>

\* ... and one left open ends.
Conclude(a, status) ==
  /\ attempt[a] # None
  /\ attempt[a].status = "PENDING"
  /\ attempt' = [attempt EXCEPT ![a].status = status]
  /\ UNCHANGED <<topUp, ledger, pages, task, recent, old>>

AttemptsOn(t) == {a \in Attempts : attempt[a] # None /\ attempt[a].topUp = t}
StatusesOn(t) == {attempt[a].status : a \in AttemptsOn(t)}

-----------------------------------------------------------------------------
(* Opening a payment.                                                       *)

Create(h, t) ==
  /\ task[h] = Idle
  /\ ~topUp[t].manual
  /\ topUp[t].status = "NONE"
  /\ SetStatus(t, "PENDING")
  /\ Do(h, [at |-> "session", topUp |-> t])
  /\ UNCHANGED <<ledger, attempt, pages, recent, old>>

SessionOpened(h) ==
  /\ task[h].at = "session"
  /\ pages' = pages \cup {task[h].topUp}
  /\ Do(h, Idle)
  /\ UNCHANGED <<topUp, ledger, attempt, recent, old>>

\* The gateway refused or did not answer: nobody gets the page's address.
SessionRefused(h) ==
  /\ task[h].at = "session"
  /\ SetStatus(task[h].topUp, "FAILED")
  /\ Do(h, Idle)
  /\ UNCHANGED <<ledger, attempt, pages, recent, old>>

-----------------------------------------------------------------------------
(* Prompts.                                                                 *)

Known(t) == ~topUp[t].manual /\ topUp[t].status # "NONE"

\* A success return or a VALID notice, naming an attempt: this one, another
\* top-up's, or one that was never paid.
PromptPaid(h, t, a) ==
  /\ task[h] = Idle
  /\ Known(t)
  /\ Do(h, [at |-> "validate", topUp |-> t, attempt |-> a])
  /\ UNCHANGED <<topUp, ledger, attempt, pages, recent, old>>

\* A fail or cancel return, or a notice of either.
PromptUnpaid(h, t, status) ==
  /\ task[h] = Idle
  /\ Known(t)
  /\ Do(h, [at |-> "unpaid", topUp |-> t, status |-> status])
  /\ UNCHANGED <<topUp, ledger, attempt, pages, recent, old>>

Ask(h, t) ==
  /\ Do(h, [at |-> "query", topUp |-> t])
  /\ recent' = [recent EXCEPT ![t] = TRUE]
  /\ UNCHANGED <<topUp, ledger, attempt, pages, old>>

\* A success return that names no attempt asks in any case; ...
PromptBare_Validates(h, t) ==
  /\ task[h] = Idle
  /\ Known(t)
  /\ Do(h, [at |-> "validate", topUp |-> t, attempt |-> None])
  /\ UNCHANGED <<topUp, ledger, attempt, pages, recent, old>>
PromptBare(h, t) == task[h] = Idle /\ Known(t) /\ Ask(h, t)

\* ... get() of a top-up asks while that is worth it.
WorthAsking(t) ==
  \/ topUp[t].status = "PENDING"
  \/ topUp[t].status \in {"FAILED", "CANCELLED"} /\ ~old[t]

Poll(h, t) ==
  /\ task[h] = Idle
  /\ Known(t)
  /\ WorthAsking(t)
  /\ ~recent[t]
  /\ Ask(h, t)

-----------------------------------------------------------------------------
(* What a handler makes of the gateway's answer.                            *)

GaveUp(h) ==
  /\ Do(h, Idle)
  /\ UNCHANGED <<topUp, ledger, attempt, pages, recent, old>>

\* The gateway could not be asked: left as it is, the next look asks again.
NoAnswer(h) == task[h].at \in {"validate", "query"} /\ GaveUp(h)

\* "A real val_id from some other payment, posted against this reference."
Confirms_AnyTopUp(a, t) == attempt[a] # None /\ attempt[a].status = "VALID"
Confirms(a, t) ==
  attempt[a] # None /\ attempt[a].status = "VALID" /\ attempt[a].topUp = t

Creditable(a) == attempt[a].fits /\ ~attempt[a].risky

Validated(h) ==
  /\ task[h].at = "validate"
  /\ LET t == task[h].topUp
         a == task[h].attempt
     IN  \/ Confirms(a, t) /\ Creditable(a)
              /\ Do(h, [at |-> "credit", topUp |-> t, attempt |-> a])
         \/ Confirms(a, t) /\ ~Creditable(a)
              /\ Do(h, [at |-> "hold", topUp |-> t, attempt |-> a])
         \/ ~Confirms(a, t) /\ Do(h, Idle)
  /\ UNCHANGED <<topUp, ledger, attempt, pages, recent, old>>

\* Any confirmed attempt is settled; with none, and every attempt over, the
\* top-up is unpaid; otherwise nothing is known yet.
Queried(h) ==
  /\ task[h].at = "query"
  /\ LET t == task[h].topUp
         over == StatusesOn(t) # {} /\ StatusesOn(t) \subseteq {"FAILED", "CANCELLED"}
     IN  \/ \E a \in AttemptsOn(t) :
              /\ attempt[a].status = "VALID"
              /\ Do(h, [at |-> "validate", topUp |-> t, attempt |-> a])
         \/ over /\ Do(h, [at |-> "unpaid", topUp |-> t, status |->
              IF "CANCELLED" \in StatusesOn(t) THEN "CANCELLED" ELSE "FAILED"])
         \/ "VALID" \notin StatusesOn(t) /\ ~over /\ Do(h, Idle)
  /\ UNCHANGED <<topUp, ledger, attempt, pages, recent, old>>

-----------------------------------------------------------------------------
(* The updates, each with the statuses it may start from.                   *)

\* updateMany ... WHERE status = 'PENDING'
MarkUnpaid_AnyStatus(h) ==
  /\ task[h].at = "unpaid"
  /\ SetStatus(task[h].topUp, task[h].status)
  /\ Do(h, Idle)
  /\ UNCHANGED <<ledger, attempt, pages, recent, old>>
MarkUnpaid(h) ==
  /\ task[h].at = "unpaid"
  /\ IF topUp[task[h].topUp].status = "PENDING"
     THEN SetStatus(task[h].topUp, task[h].status)
     ELSE UNCHANGED topUp
  /\ Do(h, Idle)
  /\ UNCHANGED <<ledger, attempt, pages, recent, old>>

\* "Paid, but not creditable as it stands. A person decides."
Hold(h) ==
  /\ task[h].at = "hold"
  /\ IF topUp[task[h].topUp].status \in Settleable
     THEN SetStatus(task[h].topUp, "HELD")
     ELSE UNCHANGED topUp
  /\ Do(h, Idle)
  /\ UNCHANGED <<ledger, attempt, pages, recent, old>>

\* creditTopUp: claim the row from one of `from`, and credit its owner.
CreditTopUp_Unclaimed(t, from, reviewed) ==
  /\ topUp' = [topUp EXCEPT ![t].status = "PAID", ![t].reviewed = @ \/ reviewed]
  /\ LET row == wallet[topUp[t].owner]
     IN  Ledger!PostOne(topUp[t].owner, row, Ledger!Gain(row, topUp[t].amount, 0),
                        "TOP_UP", t)
CreditTopUp(t, from, reviewed) ==
  /\ topUp[t].status \in from
  /\ topUp' = [topUp EXCEPT ![t].status = "PAID", ![t].reviewed = @ \/ reviewed]
  /\ LET row == wallet[topUp[t].owner]
     IN  Ledger!PostOne(topUp[t].owner, row, Ledger!Gain(row, topUp[t].amount, 0),
                        "TOP_UP", t)

\* Credit, or find that another handler has already moved the row on.
Settle(h) ==
  /\ task[h].at = "credit"
  /\ \/ CreditTopUp(task[h].topUp, Settleable, FALSE)
     \/ topUp[task[h].topUp].status \notin Settleable /\ UNCHANGED <<topUp, ledger>>
  /\ recent' = [recent EXCEPT ![task[h].topUp] = FALSE]
  /\ Do(h, Idle)
  /\ UNCHANGED <<attempt, pages, old>>

-----------------------------------------------------------------------------
(* Deposits, and the admin.                                                 *)

ReferenceFree(r) ==
  \A t \in TopUpIds : topUp[t].manual /\ topUp[t].reference = r => topUp[t].status = "NONE"

\* A deposit is declared once: a repeat finds the first row, and a reference
\* used before is refused.
Declare(h, t) ==
  /\ task[h] = Idle
  /\ topUp[t].manual
  /\ topUp[t].status = "NONE"
  /\ ReferenceFree(topUp[t].reference)
  /\ SetStatus(t, "PENDING")
  /\ Do(h, IF AutoApproves THEN [at |-> "autoCredit", topUp |-> t] ELSE Idle)
  /\ UNCHANGED <<ledger, attempt, pages, recent, old>>

AutoApprove(h) ==
  /\ task[h].at = "autoCredit"
  /\ \/ CreditTopUp(task[h].topUp, {"PENDING"}, FALSE)
     \/ topUp[task[h].topUp].status # "PENDING" /\ UNCHANGED <<topUp, ledger>>
  /\ Do(h, Idle)
  /\ UNCHANGED <<attempt, pages, recent, old>>

\* Where an admin may decide: a declared deposit, or a payment that was held.
Decidable(t) == IF topUp[t].manual THEN "PENDING" ELSE "HELD"

Approve(t) ==
  /\ CreditTopUp(t, {Decidable(t)}, TRUE)
  /\ UNCHANGED <<attempt, pages, task, recent, old>>

Reject(t) ==
  /\ topUp[t].status = Decidable(t)
  /\ topUp' = [topUp EXCEPT ![t].status = "REJECTED", ![t].reviewed = TRUE]
  /\ UNCHANGED <<ledger, attempt, pages, task, recent, old>>

-----------------------------------------------------------------------------
(* Time, and restarts.                                                      *)

Recheckable(t) ==
  /\ recent[t]
  /\ recent' = [recent EXCEPT ![t] = FALSE]
  /\ UNCHANGED <<topUp, ledger, attempt, pages, task, old>>

GrowOld(t) ==
  /\ topUp[t].status # "NONE"
  /\ old' = [old EXCEPT ![t] = TRUE]
  /\ UNCHANGED <<topUp, ledger, attempt, pages, task, recent>>

\* A restart forgets the handlers and lastChecked.
Restart ==
  /\ task' = [h \in Handlers |-> Idle]
  /\ recent' = [t \in TopUpIds |-> FALSE]
  /\ UNCHANGED <<topUp, ledger, attempt, pages, old>>

-----------------------------------------------------------------------------
Init ==
  /\ topUp \in [TopUpIds -> {r \in TopUpRow : r.status = "NONE" /\ ~r.reviewed}]
  /\ wallet = [u \in Users |-> [balance |-> 0, withdrawable |-> 0]]
  /\ entries = [u \in Users |-> <<>>]
  /\ attempt = [a \in Attempts |-> None]
  /\ pages = {}
  /\ task = [h \in Handlers |-> Idle]
  /\ recent = [t \in TopUpIds |-> FALSE]
  /\ old = [t \in TopUpIds |-> FALSE]

Prompt(h, t) ==
  \/ Create(h, t) \/ Declare(h, t) \/ PromptBare(h, t) \/ Poll(h, t)
  \/ \E a \in Attempts : PromptPaid(h, t, a)
  \/ \E status \in {"FAILED", "CANCELLED"} : PromptUnpaid(h, t, status)

Step(h) ==
  \/ SessionOpened(h) \/ SessionRefused(h) \/ NoAnswer(h) \/ Validated(h) \/ Queried(h)
  \/ MarkUnpaid(h) \/ Hold(h) \/ Settle(h) \/ AutoApprove(h)

Next ==
  \/ \E h \in Handlers : Step(h) \/ \E t \in TopUpIds : Prompt(h, t)
  \/ \E a \in Attempts, t \in TopUpIds, fits, risky \in BOOLEAN,
        status \in {"PENDING", "VALID", "FAILED", "CANCELLED"} :
       Pay(a, t, status, fits, risky)
  \/ \E a \in Attempts, status \in {"VALID", "FAILED", "CANCELLED"} : Conclude(a, status)
  \/ \E t \in TopUpIds : Approve(t) \/ Reject(t) \/ Recheckable(t) \/ GrowOld(t)
  \/ Restart

Spec == Init /\ [][Next]_vars

\* A handler goes on unless the process dies, which does not happen at the
\* same point for ever, and the gateway asked again and again about the same
\* thing answers. No prompt is relied on, nor any admin: nothing in the code
\* makes one come.
ValidatedFor(h, a) == Validated(h) /\ task[h].attempt = a
Fairness ==
  \A h \in Handlers :
    /\ WF_vars(Step(h)) /\ SF_vars(Queried(h)) /\ SF_vars(Settle(h)) /\ SF_vars(Hold(h))
    /\ \A a \in Attempts : SF_vars(ValidatedFor(h, a))
FairSpec == Spec /\ Fairness

-----------------------------------------------------------------------------
(* Properties.                                                              *)

TypeOK ==
  /\ topUp \in [TopUpIds -> TopUpRow]
  /\ wallet \in [Users -> Ledger!Row]
  /\ attempt \in [Attempts -> Attempt \cup {None}]
  /\ pages \subseteq TopUpIds
  /\ task \in [Handlers -> Task]
  /\ recent \in [TopUpIds -> BOOLEAN]
  /\ old \in [TopUpIds -> BOOLEAN]

\* "Credits the wallet if - and only if - the gateway itself confirms a
\* payment for this top-up's reference, amount and currency", unless a person
\* looked at a confirmed payment and approved it; a declared deposit is
\* credited by a person, or where deposits are credited on sight. Nothing is
\* held, or turned down, that the gateway did not take.
MoneyConfirmed(t) ==
  /\ topUp[t].status \in {"PAID", "HELD", "REJECTED"} /\ ~topUp[t].manual =>
       \E a \in Attempts :
         /\ attempt[a] # None /\ attempt[a].topUp = t /\ attempt[a].status = "VALID"
         /\ topUp[t].status = "PAID" => Creditable(a) \/ topUp[t].reviewed
  /\ topUp[t].status = "PAID" /\ topUp[t].manual => topUp[t].reviewed \/ AutoApproves

OnlyConfirmedMoney == \A t \in TopUpIds : MoneyConfirmed(t)

\* Every movement of a top-up is one credit of the ledger or none: however
\* many prompts, handlers and admins meet on it, it is credited at most once.
CreditsLedger == Ledger!Spec

\* Callbacks "must never be able to cancel money the gateway says was paid":
\* what was PAID or REJECTED stays so, and only a person moves what was HELD.
DecidedStays ==
  [][\A t \in TopUpIds :
       /\ topUp[t].status \in {"PAID", "REJECTED"} => topUp'[t] = topUp[t]
       /\ topUp[t].status = "HELD" =>
            topUp'[t].status = "HELD" \/ topUp'[t].reviewed]_vars

\* A prompt that can lead to the money: one that has the gateway asked, or names a
\* confirmed attempt itself.
Looked(t) ==
  \E h \in Handlers :
    Poll(h, t) \/ PromptBare(h, t) \/ \E a \in Attempts : PromptPaid(h, t, a) /\ Confirms(a, t)

\* Money the gateway confirms is noticed if anybody keeps looking, whoever it is -
\* the gateway repeating its notice, the payer's browser, a poll: though handlers
\* die, the gateway cannot be asked, and callbacks have called the top-up failed or
\* cancelled, before the payment or after it. If nobody looks, nothing does.
HeardIsNoticed ==
  \A t \in TopUpIds :
    []<><<Looked(t)>>_vars =>
      ("VALID" \in StatusesOn(t) ~> topUp[t].status \in {"PAID", "HELD", "REJECTED"})
=============================================================================
