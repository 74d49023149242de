---------------------------- MODULE Live_proofs -----------------------------
(***************************************************************************)
(* Payments into wallets and the notices of bans: the two components that  *)
(* owe somebody something in the end, proved here of what they never do.   *)
(***************************************************************************)
EXTENDS MCLive, SequenceTheorems, FiniteSetTheorems, TLAPS

-----------------------------------------------------------------------------
(***************************************************************************)
(* Top-ups, for any number of top-ups, attempts and handlers.              *)
(*                                                                         *)
(* The strengthening is that a handler waiting to write remembers something *)
(* that stays true: what the gateway confirmed is confirmed for ever.      *)
(***************************************************************************)

\* What a handler's next step rests on.
TaskTrue(h) ==
  /\ task[h].at \in {"validate", "query", "unpaid", "session", "credit", "hold"} =>
       Known(task[h].topUp)
  /\ task[h].at \in {"credit", "hold"} => Confirms(task[h].attempt, task[h].topUp)
  /\ task[h].at = "credit" => Creditable(task[h].attempt)
  /\ task[h].at = "autoCredit" => topUp[task[h].topUp].manual /\ AutoApproves

TasksTrue == \A h \in Handlers : TaskTrue(h)

\* The part of TypeOK the argument needs.
Shape ==
  /\ topUp \in [TopUpIds -> TopUpRow]
  /\ attempt \in [Attempts -> Attempt \cup {None}]
  /\ task \in [Handlers -> Task]

Inv == Shape /\ TasksTrue /\ OnlyConfirmedMoney

\* What the gateway has confirmed, it goes on confirming.
GatewayKeeps ==
  \A a \in Attempts : attempt[a] # None /\ attempt[a].status = "VALID" =>
    attempt'[a] = attempt[a]

\* No row changes which kind of top-up it is, or is deleted.
RowsKeep ==
  \A t \in TopUpIds :
    /\ topUp'[t].manual = topUp[t].manual
    /\ topUp[t].status # "NONE" => topUp'[t].status # "NONE"

LEMMA ShapeStep ==
  ASSUME Shape, Next
  PROVE  Shape'
<1> USE DEF Shape, TopUpRow, Status, Attempt, Task, Idle, Do, SetStatus
<1>1. ASSUME NEW h \in Handlers, Step(h) PROVE Shape'
  <2>1. CASE SessionOpened(h) \/ NoAnswer(h)
    BY <2>1 DEF SessionOpened, NoAnswer, GaveUp
  <2>2. CASE SessionRefused(h)
    BY <2>2 DEF SessionRefused
  <2>3. CASE Validated(h)
    BY <2>3 DEF Validated
  <2>4. CASE Queried(h)
    BY <2>4 DEF Queried, AttemptsOn
  <2>5. CASE MarkUnpaid(h)
    <3>1. task[h] \in Task /\ task' = [task EXCEPT ![h] = Idle] /\ UNCHANGED attempt
      BY <2>5 DEF MarkUnpaid
    <3>2. task' \in [Handlers -> Task]
      BY <3>1
    <3>3. task[h].at = "unpaid" /\ (UNCHANGED topUp \/ SetStatus(task[h].topUp, task[h].status))
      BY <2>5 DEF MarkUnpaid
    <3>4. task[h].topUp \in TopUpIds /\ task[h].status \in Status
      BY <3>1, <3>3
    <3>5. topUp' \in [TopUpIds -> TopUpRow]
      BY <3>3, <3>4
    <3> QED
      BY <3>1, <3>2, <3>5
  <2>6. CASE Hold(h)
    BY <2>6 DEF Hold
  <2>7. CASE Settle(h)
    BY <2>7 DEF Settle, CreditTopUp
  <2>8. CASE AutoApprove(h)
    BY <2>8 DEF AutoApprove, CreditTopUp
  <2> QED
    BY <1>1, <2>1, <2>2, <2>3, <2>4, <2>5, <2>6, <2>7, <2>8 DEF Step
<1>2. ASSUME NEW h \in Handlers, NEW t \in TopUpIds, Prompt(h, t) PROVE Shape'
  <2>1. CASE Create(h, t)
    BY <2>1 DEF Create
  <2>2. CASE Declare(h, t)
    BY <2>2 DEF Declare
  <2>3. CASE PromptBare(h, t) \/ Poll(h, t)
    BY <2>3 DEF PromptBare, Poll, Ask
  <2>4. CASE \E a \in Attempts : PromptPaid(h, t, a)
    BY <2>4 DEF PromptPaid
  <2>5. CASE \E status \in {"FAILED", "CANCELLED"} : PromptUnpaid(h, t, status)
    BY <2>5 DEF PromptUnpaid
  <2> QED
    BY <1>2, <2>1, <2>2, <2>3, <2>4, <2>5 DEF Prompt
<1>3. ASSUME NEW a \in Attempts, NEW t \in TopUpIds, NEW fits \in BOOLEAN, NEW risky \in BOOLEAN,
             NEW status \in {"PENDING", "VALID", "FAILED", "CANCELLED"},
             Pay(a, t, status, fits, risky)
      PROVE  Shape'
  BY <1>3 DEF Pay
<1>4. ASSUME NEW a \in Attempts, NEW status \in {"VALID", "FAILED", "CANCELLED"}, Conclude(a, status)
      PROVE  Shape'
  BY <1>4 DEF Conclude
<1>5. ASSUME NEW t \in TopUpIds, Approve(t) \/ Reject(t) PROVE Shape'
  BY <1>5 DEF Approve, Reject, CreditTopUp
<1>6. ASSUME NEW t \in TopUpIds, Recheckable(t) \/ GrowOld(t) PROVE Shape'
  BY <1>6 DEF Recheckable, GrowOld
<1>7. CASE Restart
  BY <1>7 DEF Restart
<1> QED
  BY <1>1, <1>2, <1>3, <1>4, <1>5, <1>6, <1>7 DEF Next

-----------------------------------------------------------------------------
\* A step of a handler changes its own task only.
LEMMA OwnTask ==
  ASSUME Shape, NEW h \in Handlers, NEW next, Do(h, next), NEW d \in Handlers
  PROVE  task'[d] = IF d = h THEN next ELSE task[d]
BY DEF Shape, Do

\* A task stays true when the gateway and the rows keep what they said.
LEMMA TaskStays ==
  ASSUME Shape, TasksTrue, GatewayKeeps, RowsKeep, NEW d \in Handlers,
         task'[d] = task[d]
  PROVE  TaskTrue(d)'
<1>1. TaskTrue(d) /\ task[d] \in Task
  BY DEF TasksTrue, Shape
<1>2. CASE task[d].at \in {"credit", "hold"}
  <2>1. task[d].attempt \in Attempts /\ task[d].topUp \in TopUpIds
    BY <1>1, <1>2 DEF Task, Idle
  <2> QED
    BY <1>1, <1>2, <2>1 DEF TaskTrue, Known, Confirms, Creditable, GatewayKeeps, RowsKeep
<1>3. CASE task[d].at \in {"validate", "query", "unpaid", "session", "autoCredit"}
  <2>1. task[d].topUp \in TopUpIds
    BY <1>1, <1>3 DEF Task, Idle
  <2> QED
    BY <1>1, <1>3, <2>1 DEF TaskTrue, Known, RowsKeep
<1>4. CASE task[d].at = "idle"
  BY <1>4 DEF TaskTrue
<1> QED
  BY <1>1, <1>2, <1>3, <1>4 DEF Task, Idle

\* Money confirmed before is confirmed still.
LEMMA MoneyStays ==
  ASSUME Shape, GatewayKeeps, NEW t \in TopUpIds, topUp'[t] = topUp[t], MoneyConfirmed(t)
  PROVE  MoneyConfirmed(t)'
<1>1. ASSUME topUp[t].status \in {"PAID", "HELD", "REJECTED"}, ~topUp[t].manual
      PROVE  \E a \in Attempts :
               /\ attempt'[a] # None /\ attempt'[a].topUp = t /\ attempt'[a].status = "VALID"
               /\ topUp'[t].status = "PAID" => Creditable(a)' \/ topUp'[t].reviewed
  <2>1. PICK a \in Attempts :
          /\ attempt[a] # None /\ attempt[a].topUp = t /\ attempt[a].status = "VALID"
          /\ topUp[t].status = "PAID" => Creditable(a) \/ topUp[t].reviewed
    BY <1>1 DEF MoneyConfirmed
  <2>2. attempt'[a] = attempt[a]
    BY <2>1 DEF GatewayKeeps
  <2> QED
    BY <2>1, <2>2 DEF Creditable
<1> QED
  BY <1>1 DEF MoneyConfirmed

\* So a step has only to answer for the tasks and rows it writes.
LEMMA TopUpStepKeeps ==
  ASSUME Inv, Shape', GatewayKeeps, RowsKeep,
         \A d \in Handlers : task'[d] = task[d] \/ TaskTrue(d)',
         \A t \in TopUpIds : topUp'[t] = topUp[t] \/ MoneyConfirmed(t)'
  PROVE  Inv'
<1>1. ASSUME NEW d \in Handlers PROVE TaskTrue(d)'
  BY TaskStays DEF Inv
<1>2. ASSUME NEW t \in TopUpIds PROVE MoneyConfirmed(t)'
  BY MoneyStays DEF Inv, OnlyConfirmedMoney
<1> QED
  BY <1>1, <1>2 DEF Inv, TasksTrue, OnlyConfirmedMoney

\* A step of a handler that leaves the rows and the gateway alone.
LEMMA TaskMoves ==
  ASSUME Inv, Shape', NEW h \in Handlers, NEW next, Do(h, next),
         UNCHANGED <<topUp, attempt>>, TaskTrue(h)'
  PROVE  Inv'
<1>1. GatewayKeeps /\ RowsKeep
  BY DEF GatewayKeeps, RowsKeep
<1>2. \A d \in Handlers : task'[d] = task[d] \/ TaskTrue(d)'
  BY OwnTask DEF Inv
<1> QED
  BY <1>1, <1>2, TopUpStepKeeps

\* A step of a handler that ends its task with one row moved, or none.
LEMMA RowMoves ==
  ASSUME Inv, Shape', NEW h \in Handlers, Do(h, Idle), UNCHANGED attempt,
         NEW t \in TopUpIds,
         \A o \in TopUpIds : o # t => topUp'[o] = topUp[o],
         topUp'[t].manual = topUp[t].manual, topUp'[t].status # "NONE",
         MoneyConfirmed(t)'
  PROVE  Inv'
<1>1. GatewayKeeps /\ RowsKeep
  BY DEF GatewayKeeps, RowsKeep
<1>2. TaskTrue(h)'
  BY OwnTask DEF TaskTrue, Idle, Inv
<1>3. \A d \in Handlers : task'[d] = task[d] \/ TaskTrue(d)'
  BY <1>2, OwnTask DEF Inv
<1> QED
  BY <1>1, <1>3, TopUpStepKeeps

-----------------------------------------------------------------------------
LEMMA HandlerStep ==
  ASSUME Inv, Shape', NEW h \in Handlers, Step(h)
  PROVE  Inv'
<1>0. /\ TaskTrue(h) /\ task[h] \in Task
      /\ task'[h].at = "idle" => TaskTrue(h)'
      /\ \A t \in TopUpIds : topUp[t] \in TopUpRow /\ MoneyConfirmed(t)
  BY DEF Inv, TasksTrue, Shape, TaskTrue, OnlyConfirmedMoney
<1>h. \A next : Do(h, next) => task'[h] = next
  BY OwnTask DEF Inv
<1>1. CASE SessionOpened(h) \/ NoAnswer(h)
  <2>1. Do(h, Idle) /\ UNCHANGED <<topUp, attempt>>
    BY <1>1 DEF SessionOpened, NoAnswer, GaveUp
  <2> QED
    BY <1>0, <1>h, <2>1, TaskMoves DEF Idle
<1>2. CASE Validated(h)
  <2>0. PICK t \in TopUpIds, a \in Attempts : t = task[h].topUp /\ a = task[h].attempt
    BY <1>0, <1>2 DEF Validated, Task, Idle
  <2>1. Known(t) /\ UNCHANGED <<topUp, attempt>>
    BY <1>0, <1>2, <2>0 DEF Validated, TaskTrue, Task, Idle
  <2>2. CASE Confirms(a, t) /\ Creditable(a) /\ Do(h, [at |-> "credit", topUp |-> t, attempt |-> a])
    <3>1. TaskTrue(h)'
      BY <2>1, <2>2, <1>h DEF TaskTrue, Known, Confirms, Creditable
    <3> QED
      BY <2>1, <2>2, <3>1, TaskMoves
  <2>3. CASE Confirms(a, t) /\ Do(h, [at |-> "hold", topUp |-> t, attempt |-> a])
    <3>1. TaskTrue(h)'
      BY <2>1, <2>3, <1>h DEF TaskTrue, Known, Confirms, Creditable
    <3> QED
      BY <2>1, <2>3, <3>1, TaskMoves
  <2>4. CASE Do(h, Idle)
    BY <2>1, <2>4, <1>0, <1>h, TaskMoves DEF Idle
  <2> QED
    BY <1>2, <2>0, <2>2, <2>3, <2>4 DEF Validated
<1>3. CASE Queried(h)
  <2>0. PICK t \in TopUpIds : t = task[h].topUp
    BY <1>0, <1>3 DEF Queried, Task, Idle
  <2>1. Known(t) /\ UNCHANGED <<topUp, attempt>>
    BY <1>0, <1>3, <2>0 DEF Queried, TaskTrue, Task, Idle
  <2>2. CASE \E a \in AttemptsOn(t) : Do(h, [at |-> "validate", topUp |-> t, attempt |-> a])
    <3>1. PICK a \in AttemptsOn(t) : Do(h, [at |-> "validate", topUp |-> t, attempt |-> a])
      BY <2>2
    <3>2. TaskTrue(h)'
      BY <2>1, <3>1, <1>h DEF TaskTrue, Known
    <3> QED
      BY <2>1, <3>1, <3>2, TaskMoves
  <2>3. CASE \E status : Do(h, [at |-> "unpaid", topUp |-> t, status |-> status])
    <3>1. PICK status : Do(h, [at |-> "unpaid", topUp |-> t, status |-> status])
      BY <2>3
    <3>2. TaskTrue(h)'
      BY <2>1, <3>1, <1>h DEF TaskTrue, Known
    <3> QED
      BY <2>1, <3>1, <3>2, TaskMoves
  <2>4. CASE Do(h, Idle)
    BY <2>1, <2>4, <1>0, <1>h, TaskMoves DEF Idle
  <2> QED
    BY <1>3, <2>0, <2>2, <2>3, <2>4 DEF Queried
<1>4. CASE SessionRefused(h)
  <2>0. PICK t \in TopUpIds : t = task[h].topUp
    BY <1>0, <1>4 DEF SessionRefused, Task, Idle
  <2>1. /\ Do(h, Idle) /\ UNCHANGED attempt
        /\ topUp' = [topUp EXCEPT ![t].status = "FAILED"]
    BY <1>0, <1>4, <2>0 DEF SessionRefused, Task, Idle, SetStatus
  <2>2. topUp'[t] = [topUp[t] EXCEPT !.status = "FAILED"]
    BY <2>1 DEF Inv, Shape
  <2>3. MoneyConfirmed(t)'
    BY <2>2, <1>0, <2>1 DEF MoneyConfirmed, TopUpRow
  <2> QED
    BY <1>0, <2>1, <2>2, <2>3, RowMoves DEF Inv, Shape, TopUpRow
<1>5. CASE MarkUnpaid(h)
  <2>0. PICK t \in TopUpIds : t = task[h].topUp
    BY <1>0, <1>5 DEF MarkUnpaid, Task, Idle
  <2>1. /\ Do(h, Idle) /\ UNCHANGED attempt /\ Known(t)
        /\ task[h].status \in {"FAILED", "CANCELLED"}
        /\ \/ topUp' = [topUp EXCEPT ![t].status = task[h].status]
           \/ UNCHANGED topUp
    BY <1>0, <1>5, <2>0 DEF MarkUnpaid, Task, Idle, SetStatus, TaskTrue
  <2>2. CASE UNCHANGED topUp
    BY <2>1, <2>2, <1>0, <1>h, TaskMoves DEF Idle
  <2>3. CASE topUp' = [topUp EXCEPT ![t].status = task[h].status]
    <3>1. topUp'[t] = [topUp[t] EXCEPT !.status = task[h].status]
      BY <2>1, <2>3 DEF Inv, Shape
    <3>2. MoneyConfirmed(t)'
      BY <3>1, <1>0, <2>1 DEF MoneyConfirmed, TopUpRow
    <3> QED
      BY <1>0, <2>1, <2>3, <3>1, <3>2, RowMoves DEF Inv, Shape, TopUpRow
  <2> QED
    BY <2>1, <2>2, <2>3
<1>6. CASE Hold(h)
  <2>0. PICK t \in TopUpIds, a \in Attempts : t = task[h].topUp /\ a = task[h].attempt
    BY <1>0, <1>6 DEF Hold, Task, Idle
  <2>1. /\ Do(h, Idle) /\ UNCHANGED attempt
        /\ Confirms(a, t)
        /\ topUp' = [topUp EXCEPT ![t].status = "HELD"] \/ UNCHANGED topUp
    BY <1>0, <1>6, <2>0 DEF Hold, Task, Idle, SetStatus, TaskTrue
  <2>2. CASE UNCHANGED topUp
    BY <2>1, <2>2, <1>0, <1>h, TaskMoves DEF Idle
  <2>3. CASE topUp' = [topUp EXCEPT ![t].status = "HELD"]
    <3>1. topUp'[t] = [topUp[t] EXCEPT !.status = "HELD"]
      BY <2>1, <2>3 DEF Inv, Shape
    <3>2. MoneyConfirmed(t)'
      BY <3>1, <1>0, <2>1 DEF MoneyConfirmed, TopUpRow, Confirms
    <3> QED
      BY <1>0, <2>1, <2>3, <3>1, <3>2, RowMoves DEF Inv, Shape, TopUpRow
  <2> QED
    BY <2>1, <2>2, <2>3
<1>7. CASE Settle(h)
  <2>0. PICK t \in TopUpIds, a \in Attempts : t = task[h].topUp /\ a = task[h].attempt
    BY <1>0, <1>7 DEF Settle, Task, Idle
  <2>1. /\ Do(h, Idle) /\ UNCHANGED attempt
        /\ Confirms(a, t) /\ Creditable(a) /\ Known(t)
        /\ \/ topUp' = [topUp EXCEPT ![t].status = "PAID", ![t].reviewed = @ \/ FALSE]
           \/ UNCHANGED topUp
    BY <1>0, <1>7, <2>0 DEF Settle, CreditTopUp, Task, Idle, TaskTrue
  <2>2. CASE UNCHANGED topUp
    BY <2>1, <2>2, <1>0, <1>h, TaskMoves DEF Idle
  <2>3. CASE topUp' = [topUp EXCEPT ![t].status = "PAID", ![t].reviewed = @ \/ FALSE]
    <3>1. /\ topUp'[t].status = "PAID" /\ topUp'[t].manual = topUp[t].manual
          /\ \A o \in TopUpIds : o # t => topUp'[o] = topUp[o]
      BY <2>1, <2>3, <1>0 DEF Inv, Shape, TopUpRow
    <3>2. MoneyConfirmed(t)'
      BY <3>1, <2>1 DEF MoneyConfirmed, Confirms, Creditable, Known
    <3> QED
      BY <2>1, <3>1, <3>2, RowMoves
  <2> QED
    BY <2>1, <2>2, <2>3
<1>8. CASE AutoApprove(h)
  <2>0. PICK t \in TopUpIds : t = task[h].topUp
    BY <1>0, <1>8 DEF AutoApprove, Task, Idle
  <2>1. /\ Do(h, Idle) /\ UNCHANGED attempt
        /\ topUp[t].manual /\ AutoApproves
        /\ \/ topUp' = [topUp EXCEPT ![t].status = "PAID", ![t].reviewed = @ \/ FALSE]
           \/ UNCHANGED topUp
    BY <1>0, <1>8, <2>0 DEF AutoApprove, CreditTopUp, Task, Idle, TaskTrue
  <2>2. CASE UNCHANGED topUp
    BY <2>1, <2>2, <1>0, <1>h, TaskMoves DEF Idle
  <2>3. CASE topUp' = [topUp EXCEPT ![t].status = "PAID", ![t].reviewed = @ \/ FALSE]
    <3>1. /\ topUp'[t].status = "PAID" /\ topUp'[t].manual = topUp[t].manual
          /\ \A o \in TopUpIds : o # t => topUp'[o] = topUp[o]
      BY <2>1, <2>3, <1>0 DEF Inv, Shape, TopUpRow
    <3>2. MoneyConfirmed(t)'
      BY <3>1, <2>1 DEF MoneyConfirmed
    <3> QED
      BY <2>1, <3>1, <3>2, RowMoves
  <2> QED
    BY <2>1, <2>2, <2>3
<1> QED
  BY <1>1, <1>2, <1>3, <1>4, <1>5, <1>6, <1>7, <1>8 DEF Step

LEMMA PromptStep ==
  ASSUME Inv, Shape', NEW h \in Handlers, NEW t \in TopUpIds, Prompt(h, t)
  PROVE  Inv'
<1>0. topUp[t] \in TopUpRow
  BY DEF Inv, Shape
<1>h. \A next : Do(h, next) => task'[h] = next
  BY OwnTask DEF Inv
<1>1. CASE Create(h, t) \/ Declare(h, t)
  <2>1. /\ topUp'[t] = [topUp[t] EXCEPT !.status = "PENDING"]
        /\ \A o \in TopUpIds : o # t => topUp'[o] = topUp[o]
        /\ UNCHANGED attempt
    BY <1>1 DEF Create, Declare, SetStatus, Inv, Shape
  <2>2. topUp'[t].status = "PENDING" /\ topUp'[t].manual = topUp[t].manual
    BY <2>1, <1>0 DEF TopUpRow
  <2>3. GatewayKeeps /\ RowsKeep
    BY <2>1, <2>2 DEF GatewayKeeps, RowsKeep
  <2>4. TaskTrue(h)'
    <3>1. CASE Create(h, t)
      BY <3>1, <1>h, <2>2 DEF Create, TaskTrue, Known
    <3>2. CASE Declare(h, t)
      <4>1. topUp'[t].manual
        BY <3>2, <2>2 DEF Declare
      <4>2. CASE AutoApproves
        <5>1. task'[h] = [at |-> "autoCredit", topUp |-> t]
          BY <3>2, <4>2, <1>h DEF Declare
        <5> QED
          BY <4>1, <4>2, <5>1 DEF TaskTrue
      <4>3. CASE ~AutoApproves
        <5>1. task'[h] = Idle
          BY <3>2, <4>3, <1>h DEF Declare
        <5> QED
          BY <5>1 DEF TaskTrue, Idle
      <4> QED
        BY <4>2, <4>3
    <3> QED
      BY <1>1, <3>1, <3>2
  <2>5. \A d \in Handlers : task'[d] = task[d] \/ TaskTrue(d)'
    BY <1>1, <2>4, OwnTask DEF Create, Declare, Inv
  <2>6. MoneyConfirmed(t)'
    BY <2>2 DEF MoneyConfirmed
  <2> QED
    BY <2>1, <2>3, <2>5, <2>6, TopUpStepKeeps
<1>2. CASE PromptBare(h, t) \/ Poll(h, t)
  <2>1. /\ Known(t) /\ Do(h, [at |-> "query", topUp |-> t])
        /\ UNCHANGED <<topUp, attempt>>
    BY <1>2 DEF PromptBare, Poll, Ask
  <2>2. TaskTrue(h)'
    BY <2>1, <1>h DEF TaskTrue, Known
  <2> QED
    BY <2>1, <2>2, TaskMoves
<1>3. ASSUME NEW a \in Attempts, PromptPaid(h, t, a) PROVE Inv'
  <2>1. /\ Known(t) /\ Do(h, [at |-> "validate", topUp |-> t, attempt |-> a])
        /\ UNCHANGED <<topUp, attempt>>
    BY <1>3 DEF PromptPaid
  <2>2. TaskTrue(h)'
    BY <2>1, <1>h DEF TaskTrue, Known
  <2> QED
    BY <2>1, <2>2, TaskMoves
<1>4. ASSUME NEW status \in {"FAILED", "CANCELLED"}, PromptUnpaid(h, t, status) PROVE Inv'
  <2>1. /\ Known(t) /\ Do(h, [at |-> "unpaid", topUp |-> t, status |-> status])
        /\ UNCHANGED <<topUp, attempt>>
    BY <1>4 DEF PromptUnpaid
  <2>2. TaskTrue(h)'
    BY <2>1, <1>h DEF TaskTrue, Known
  <2> QED
    BY <2>1, <2>2, TaskMoves
<1> QED
  BY <1>1, <1>2, <1>3, <1>4 DEF Prompt

\* The gateway, the admin, time and restarts.
LEMMA OtherStep ==
  ASSUME Inv, Shape', UNCHANGED task,
         GatewayKeeps,
         \A t \in TopUpIds : topUp'[t] = topUp[t] \/ MoneyConfirmed(t)',
         RowsKeep
  PROVE  Inv'
BY TopUpStepKeeps

LEMMA DecisionStep ==
  ASSUME Inv, Shape', NEW t \in TopUpIds, Approve(t) \/ Reject(t)
  PROVE  Inv'
<1>0. topUp[t] \in TopUpRow /\ MoneyConfirmed(t)
  BY DEF Inv, Shape, OnlyConfirmedMoney
<1>1. /\ \A o \in TopUpIds : o # t => topUp'[o] = topUp[o]
      /\ topUp[t].status = Decidable(t)
      /\ topUp'[t].manual = topUp[t].manual /\ topUp'[t].reviewed
      /\ topUp'[t].status \in {"PAID", "REJECTED"}
      /\ UNCHANGED <<attempt, task>>
  BY <1>0 DEF Approve, Reject, CreditTopUp, Inv, Shape, TopUpRow
<1>2. MoneyConfirmed(t)'
  <2>1. CASE topUp[t].manual
    BY <1>1, <2>1 DEF MoneyConfirmed
  <2>2. CASE ~topUp[t].manual
    <3>1. topUp[t].status = "HELD"
      BY <1>1, <2>2 DEF Decidable
    <3>2. PICK a \in Attempts :
            attempt[a] # None /\ attempt[a].topUp = t /\ attempt[a].status = "VALID"
      BY <1>0, <2>2, <3>1 DEF MoneyConfirmed
    <3> QED
      BY <1>1, <2>2, <3>2 DEF MoneyConfirmed
  <2> QED
    BY <2>1, <2>2
<1>3. GatewayKeeps /\ RowsKeep
  BY <1>1 DEF GatewayKeeps, RowsKeep
<1> QED
  BY <1>1, <1>2, <1>3, OtherStep

LEMMA InvStep ==
  ASSUME Inv, [Next]_vars
  PROVE  Inv'
<1>1. CASE UNCHANGED vars
  BY <1>1 DEF vars, Inv, Shape, TasksTrue, TaskTrue, OnlyConfirmedMoney, MoneyConfirmed,
     Known, Confirms, Creditable
<1>2. CASE Next
  <2>0. Shape'
    BY <1>2, ShapeStep DEF Inv
  <2>1. ASSUME NEW h \in Handlers, Step(h) PROVE Inv'
    BY <2>0, <2>1, HandlerStep
  <2>2. ASSUME NEW h \in Handlers, NEW t \in TopUpIds, Prompt(h, t) PROVE Inv'
    BY <2>0, <2>2, PromptStep
  <2>3. ASSUME NEW t \in TopUpIds, Approve(t) \/ Reject(t) PROVE Inv'
    BY <2>0, <2>3, DecisionStep
  <2>4. ASSUME NEW a \in Attempts, NEW t \in TopUpIds, NEW fits \in BOOLEAN,
               NEW risky \in BOOLEAN, NEW status \in {"PENDING", "VALID", "FAILED", "CANCELLED"},
               Pay(a, t, status, fits, risky)
        PROVE  Inv'
    <3>1. GatewayKeeps /\ RowsKeep /\ UNCHANGED <<task, topUp>>
      BY <2>4 DEF Pay, Inv, Shape, GatewayKeeps, RowsKeep
    <3> QED
      BY <2>0, <3>1, OtherStep
  <2>5. ASSUME NEW a \in Attempts, NEW status \in {"VALID", "FAILED", "CANCELLED"},
               Conclude(a, status)
        PROVE  Inv'
    <3>1. GatewayKeeps /\ RowsKeep /\ UNCHANGED <<task, topUp>>
      BY <2>5 DEF Conclude, Inv, Shape, GatewayKeeps, RowsKeep
    <3> QED
      BY <2>0, <3>1, OtherStep
  <2>6. ASSUME NEW t \in TopUpIds, Recheckable(t) \/ GrowOld(t) PROVE Inv'
    <3>1. GatewayKeeps /\ RowsKeep /\ UNCHANGED <<task, topUp>>
      BY <2>6 DEF Recheckable, GrowOld, GatewayKeeps, RowsKeep
    <3> QED
      BY <2>0, <3>1, OtherStep
  <2>7. CASE Restart
    <3>1. GatewayKeeps /\ RowsKeep /\ UNCHANGED topUp
      BY <2>7 DEF Restart, GatewayKeeps, RowsKeep
    <3>2. \A d \in Handlers : TaskTrue(d)'
      BY <2>7 DEF Restart, TaskTrue, Idle
    <3> QED
      BY <2>0, <3>1, <3>2, TopUpStepKeeps
  <2> QED
    BY <1>2, <2>1, <2>2, <2>3, <2>4, <2>5, <2>6, <2>7 DEF Next
<1> QED
  BY <1>1, <1>2

LEMMA InvInit == Init => Inv
BY DEF Init, Inv, Shape, TasksTrue, TaskTrue, OnlyConfirmedMoney, MoneyConfirmed, Task,
   TopUpRow, Idle, Attempt

LEMMA InvHolds == Spec => []Inv
BY InvInit, InvStep, PTL DEF Spec

\* No payment is credited, or held for review, that the gateway did not
\* confirm for this very top-up; no deposit without a person, unless deposits
\* are credited on sight.
THEOREM ConfirmedBeforeCredit == Spec => []OnlyConfirmedMoney
BY InvHolds, PTL DEF Inv

-----------------------------------------------------------------------------
(* create() writes FAILED without looking at the row again. It may, because *)
(* until it answers nobody has the page, so nothing has been paid.          *)

Sessions ==
  /\ \A a \in Attempts : attempt[a] # None => attempt[a].topUp \in pages
  /\ \A t \in TopUpIds : topUp[t].status = "NONE" => t \notin pages
  /\ \A h \in Handlers : task[h].at = "session" =>
       /\ task[h].topUp \notin pages
       /\ \A d \in Handlers :
            task[d].at = "session" /\ task[d].topUp = task[h].topUp => d = h

\* No session starts for a top-up that has one.
LEMMA SessionsKept ==
  ASSUME Inv, Sessions, RowsKeep, UNCHANGED pages,
         \A a \in Attempts : attempt'[a] # None => attempt'[a].topUp \in pages,
         \A d \in Handlers : task'[d].at = "session" => task'[d] = task[d]
  PROVE  Sessions'
<1>1. \A t \in TopUpIds : topUp'[t].status = "NONE" => t \notin pages
  BY DEF Sessions, RowsKeep
<1>2. ASSUME NEW h \in Handlers, task'[h].at = "session"
      PROVE  /\ task'[h].topUp \notin pages
             /\ \A d \in Handlers :
                  task'[d].at = "session" /\ task'[d].topUp = task'[h].topUp => d = h
  BY <1>2 DEF Sessions
<1> QED
  BY <1>1, <1>2 DEF Sessions

LEMMA RowsKeepStep ==
  ASSUME Inv, Next
  PROVE  RowsKeep
<1> USE DEF RowsKeep
<1>0. \A t \in TopUpIds : topUp[t] \in TopUpRow
  BY DEF Inv, Shape
<1>1. ASSUME NEW h \in Handlers, Step(h) PROVE RowsKeep
  <2>1. CASE UNCHANGED topUp
    BY <2>1
  <2>2. CASE SessionRefused(h)
    BY <2>2, <1>0 DEF SessionRefused, SetStatus, Inv, Shape, TopUpRow
  <2>3. CASE MarkUnpaid(h)
    <3>1. task[h].status # "NONE"
      BY <2>3 DEF MarkUnpaid, Inv, Shape, Task, Idle
    <3> QED
      BY <2>3, <3>1, <1>0 DEF MarkUnpaid, SetStatus, Inv, Shape, TopUpRow
  <2>4. CASE Hold(h)
    BY <2>4, <1>0 DEF Hold, SetStatus, Inv, Shape, TopUpRow
  <2>5. CASE Settle(h) \/ AutoApprove(h)
    BY <2>5, <1>0 DEF Settle, AutoApprove, CreditTopUp, Inv, Shape, TopUpRow
  <2> QED
    BY <1>1, <2>1, <2>2, <2>3, <2>4, <2>5
    DEF Step, SessionOpened, NoAnswer, GaveUp, Validated, Queried
<1>2. ASSUME NEW h \in Handlers, NEW t \in TopUpIds, Prompt(h, t) PROVE RowsKeep
  <2>1. CASE UNCHANGED topUp
    BY <2>1
  <2>2. CASE SetStatus(t, "PENDING")
    BY <2>2, <1>0 DEF SetStatus, Inv, Shape, TopUpRow
  <2> QED
    BY <1>2, <2>1, <2>2
    DEF Prompt, Create, Declare, PromptBare, Poll, Ask, PromptPaid, PromptUnpaid
<1>3. ASSUME NEW t \in TopUpIds, Approve(t) \/ Reject(t) PROVE RowsKeep
  BY <1>3, <1>0 DEF Approve, Reject, CreditTopUp, Inv, Shape, TopUpRow
<1>4. ASSUME UNCHANGED topUp PROVE RowsKeep
  BY <1>4
<1> QED
  BY <1>1, <1>2, <1>3, <1>4 DEF Next, Pay, Conclude, Recheckable, GrowOld, Restart

LEMMA SessionsStep ==
  ASSUME Inv, Sessions, Next
  PROVE  Sessions'
<1>0. RowsKeep
  BY RowsKeepStep
<1>1. ASSUME NEW h \in Handlers, Step(h) PROVE Sessions'
  <2>1. CASE SessionOpened(h)
    <3>1. PICK t \in TopUpIds : t = task[h].topUp
      BY <2>1 DEF SessionOpened, Inv, Shape, Task, Idle
    <3>2. /\ task[h].at = "session" /\ pages' = pages \cup {t} /\ Do(h, Idle)
          /\ UNCHANGED <<topUp, attempt>>
      BY <2>1, <3>1 DEF SessionOpened
    <3>3. Known(t)
      BY <3>1, <3>2 DEF Inv, TasksTrue, TaskTrue
    <3>4. \A d \in Handlers : task'[d] = IF d = h THEN Idle ELSE task[d]
      BY <3>2, OwnTask DEF Inv
    <3>5. ASSUME NEW d \in Handlers, task'[d].at = "session"
          PROVE  /\ task'[d].topUp \notin pages'
                 /\ \A e \in Handlers :
                      task'[e].at = "session" /\ task'[e].topUp = task'[d].topUp => e = d
      BY <3>1, <3>2, <3>4, <3>5 DEF Sessions, Idle
    <3> QED
      BY <3>2, <3>3, <3>5 DEF Sessions, Known
  <2>2. CASE ~SessionOpened(h)
    <3>1. UNCHANGED <<pages, attempt>>
      BY <1>1, <2>2 DEF Step, SessionRefused, NoAnswer, GaveUp, Validated, Queried, MarkUnpaid,
         Hold, Settle, AutoApprove
    <3>2. \E next : Do(h, next) /\ next.at # "session"
      <4>1. CASE Do(h, Idle)
        BY <4>1 DEF Idle
      <4>2. CASE Validated(h)
        <5> DEFINE to(at) == [at |-> at, topUp |-> task[h].topUp, attempt |-> task[h].attempt]
        <5>1. Do(h, to("credit")) \/ Do(h, to("hold")) \/ Do(h, Idle)
          BY <4>2 DEF Validated
        <5> QED
          BY <5>1 DEF Idle
      <4>3. CASE Queried(h)
        <5>1. \/ \E a : Do(h, [at |-> "validate", topUp |-> task[h].topUp, attempt |-> a])
              \/ \E status : Do(h, [at |-> "unpaid", topUp |-> task[h].topUp, status |-> status])
              \/ Do(h, Idle)
          BY <4>3 DEF Queried
        <5>2. ASSUME NEW a, Do(h, [at |-> "validate", topUp |-> task[h].topUp, attempt |-> a])
              PROVE  \E next : Do(h, next) /\ next.at # "session"
          BY <5>2
        <5>3. ASSUME NEW status, Do(h, [at |-> "unpaid", topUp |-> task[h].topUp, status |-> status])
              PROVE  \E next : Do(h, next) /\ next.at # "session"
          BY <5>3
        <5> QED
          BY <5>1, <5>2, <5>3, <4>1
      <4> QED
        BY <1>1, <2>2, <4>1, <4>2, <4>3 DEF Step, SessionRefused, NoAnswer, GaveUp, MarkUnpaid,
           Hold, Settle, AutoApprove
    <3>3. \A d \in Handlers : task'[d].at = "session" => task'[d] = task[d]
      BY <3>2, OwnTask DEF Inv
    <3> QED
      BY <1>0, <3>1, <3>3, SessionsKept DEF Sessions
  <2> QED
    BY <2>1, <2>2
<1>2. ASSUME NEW h \in Handlers, NEW t \in TopUpIds, Prompt(h, t) PROVE Sessions'
  <2>1. UNCHANGED <<pages, attempt>>
    BY <1>2 DEF Prompt, Create, Declare, PromptBare, Poll, Ask, PromptPaid, PromptUnpaid
  <2>2. CASE Create(h, t)
    <3>1. \A d \in Handlers : task'[d] =
            IF d = h THEN [at |-> "session", topUp |-> t] ELSE task[d]
      BY <2>2, OwnTask DEF Create, Inv
    <3>2. t \notin pages
      BY <2>2 DEF Create, Sessions
    <3>3. ASSUME NEW d \in Handlers, task[d].at = "session" PROVE task[d].topUp # t
      BY <2>2, <3>3 DEF Create, Inv, TasksTrue, TaskTrue, Known
    <3>4. ASSUME NEW d \in Handlers, task'[d].at = "session"
          PROVE  /\ task'[d].topUp \notin pages
                 /\ \A e \in Handlers :
                      task'[e].at = "session" /\ task'[e].topUp = task'[d].topUp => e = d
      BY <3>1, <3>2, <3>3, <3>4 DEF Sessions
    <3>5. \A o \in TopUpIds : topUp'[o].status = "NONE" => o \notin pages
      BY <1>0 DEF RowsKeep, Sessions
    <3> QED
      BY <2>1, <3>4, <3>5 DEF Sessions
  <2>3. CASE ~Create(h, t)
    <3>1. \E next : Do(h, next) /\ next.at # "session"
      <4>1. CASE Declare(h, t)
        BY <4>1 DEF Declare, Idle
      <4>2. CASE PromptBare(h, t) \/ Poll(h, t)
        BY <4>2 DEF PromptBare, Poll, Ask
      <4>3. ASSUME NEW a \in Attempts, PromptPaid(h, t, a)
            PROVE  \E next : Do(h, next) /\ next.at # "session"
        BY <4>3 DEF PromptPaid
      <4>4. ASSUME NEW status \in {"FAILED", "CANCELLED"}, PromptUnpaid(h, t, status)
            PROVE  \E next : Do(h, next) /\ next.at # "session"
        BY <4>4 DEF PromptUnpaid
      <4> QED
        BY <1>2, <2>3, <4>1, <4>2, <4>3, <4>4 DEF Prompt
    <3>2. \A d \in Handlers : task'[d].at = "session" => task'[d] = task[d]
      BY <3>1, OwnTask DEF Inv
    <3> QED
      BY <1>0, <2>1, <3>2, SessionsKept DEF Sessions
  <2> QED
    BY <2>2, <2>3
<1>3. ASSUME NEW a \in Attempts, NEW t \in TopUpIds, NEW fits \in BOOLEAN, NEW risky \in BOOLEAN,
             NEW status \in {"PENDING", "VALID", "FAILED", "CANCELLED"},
             Pay(a, t, status, fits, risky)
      PROVE  Sessions'
  <2>1. \A b \in Attempts : attempt'[b] # None => attempt'[b].topUp \in pages
    BY <1>3 DEF Pay, Sessions, Inv, Shape
  <2> QED
    BY <1>0, <1>3, <2>1, SessionsKept DEF Pay
<1>4. ASSUME NEW a \in Attempts, NEW status \in {"VALID", "FAILED", "CANCELLED"}, Conclude(a, status)
      PROVE  Sessions'
  <2>1. \A b \in Attempts : attempt'[b] # None => attempt'[b].topUp \in pages
    BY <1>4 DEF Conclude, Sessions, Inv, Shape, Attempt
  <2> QED
    BY <1>0, <1>4, <2>1, SessionsKept DEF Conclude
<1>5. ASSUME UNCHANGED <<pages, attempt, task>> PROVE Sessions'
  BY <1>0, <1>5, SessionsKept DEF Sessions
<1>6. CASE Restart
  BY <1>0, <1>6, SessionsKept DEF Restart, Sessions, Idle
<1> QED
  BY <1>1, <1>2, <1>3, <1>4, <1>5, <1>6 DEF Next, Approve, Reject, Recheckable, GrowOld

\* The topUps the ledger sees, and what one of them may do in a step.
Moves(t) ==
  /\ topUp'[t].owner = topUp[t].owner /\ topUp'[t].amount = topUp[t].amount
  /\ topUp[t].status \in {"PAID", "REJECTED"} => topUp'[t] = topUp[t]
  /\ topUp[t].status = "HELD" => topUp'[t].status = "HELD" \/ topUp'[t].reviewed

\* A row that is moved within what it may do, without being credited.
Uncredited ==
  /\ \A t \in TopUpIds : Moves(t) /\ (topUp'[t].status = "PAID" => topUp[t].status = "PAID")
  /\ UNCHANGED ledger

\* Or one that is credited, with its owner's wallet.
Credited(t) ==
  /\ \A o \in TopUpIds : o # t => topUp'[o] = topUp[o]
  /\ Moves(t) /\ topUp[t].status \notin {"PAID", "REJECTED"} /\ topUp'[t].status = "PAID"
  /\ LET row == wallet[topUp[t].owner]
     IN  Ledger!PostOne(topUp[t].owner, row, Ledger!Gain(row, topUp[t].amount, 0), "TOP_UP", t)

\* creditTopUp, from any statuses it is called with.
LEMMA CreditMoves ==
  ASSUME Shape, NEW t \in TopUpIds, NEW from, NEW reviewed \in BOOLEAN,
         CreditTopUp(t, from, reviewed),
         from \cap {"PAID", "REJECTED"} = {}, "HELD" \in from => reviewed
  PROVE  Credited(t)
<1>1. /\ topUp[t] \in TopUpRow /\ topUp[t].status \in from
      /\ topUp' = [topUp EXCEPT ![t].status = "PAID", ![t].reviewed = @ \/ reviewed]
  BY DEF CreditTopUp, Shape
<1>2. /\ topUp'[t].owner = topUp[t].owner /\ topUp'[t].amount = topUp[t].amount
      /\ topUp'[t].status = "PAID"
      /\ \A o \in TopUpIds : o # t => topUp'[o] = topUp[o]
  BY <1>1 DEF Shape, TopUpRow
<1>3. reviewed => topUp'[t].reviewed
  BY <1>1 DEF Shape, TopUpRow
<1>4. Moves(t) /\ topUp[t].status \notin {"PAID", "REJECTED"}
  BY <1>1, <1>2, <1>3 DEF Moves
<1> QED
  BY <1>2, <1>4 DEF Credited, CreditTopUp

\* A row moved on from a status nobody decided, to one that is not PAID.
LEMMA StatusMoves ==
  ASSUME Shape, NEW t \in TopUpIds, NEW status \in Status \ {"PAID"},
         SetStatus(t, status), topUp[t].status \notin {"PAID", "REJECTED"},
         topUp[t].status = "HELD" => status = "HELD", UNCHANGED ledger
  PROVE  Uncredited
<1>1. /\ topUp'[t] = [topUp[t] EXCEPT !.status = status]
      /\ \A o \in TopUpIds : o # t => topUp'[o] = topUp[o]
      /\ \A o \in TopUpIds : topUp[o] \in TopUpRow
  BY DEF SetStatus, Shape
<1>2. /\ topUp'[t].owner = topUp[t].owner /\ topUp'[t].amount = topUp[t].amount
      /\ topUp'[t].status = status
  BY <1>1 DEF TopUpRow
<1> QED
  BY <1>1, <1>2 DEF Uncredited, Moves

LEMMA Untouched ==
  ASSUME UNCHANGED <<topUp, ledger>>
  PROVE  Uncredited
BY DEF Uncredited, Moves

LEMMA EveryStep ==
  ASSUME Inv, Sessions, [Next]_vars
  PROVE  Uncredited \/ \E t \in TopUpIds : Credited(t)
<1>s. Shape /\ \A o \in TopUpIds : topUp[o] \in TopUpRow
  BY DEF Inv, Shape
<1>1. CASE UNCHANGED <<topUp, ledger>>
  BY <1>1, Untouched
<1>2. ASSUME NEW h \in Handlers, SessionRefused(h) PROVE Uncredited
  <2>1. PICK t \in TopUpIds : t = task[h].topUp
    BY <1>2 DEF SessionRefused, Inv, Shape, Task, Idle
  <2>2. t \notin pages /\ Known(t) /\ SetStatus(t, "FAILED") /\ UNCHANGED ledger
    BY <1>2, <2>1 DEF SessionRefused, Sessions, Inv, TasksTrue, TaskTrue
  <2>3. topUp[t].status \notin {"PAID", "REJECTED", "HELD"}
    BY <2>2 DEF Inv, OnlyConfirmedMoney, MoneyConfirmed, Sessions, Known
  <2> QED
    BY <1>s, <2>2, <2>3, StatusMoves DEF Status
<1>3. ASSUME NEW h \in Handlers, MarkUnpaid(h) PROVE Uncredited
  <2>1. PICK t \in TopUpIds, status \in {"FAILED", "CANCELLED"} :
          t = task[h].topUp /\ status = task[h].status
    BY <1>3 DEF MarkUnpaid, Inv, Shape, Task, Idle
  <2>2. CASE topUp[t].status = "PENDING"
    BY <1>3, <1>s, <2>1, <2>2, StatusMoves DEF MarkUnpaid, Status
  <2> QED
    BY <1>3, <2>1, <2>2, Untouched DEF MarkUnpaid
<1>4. ASSUME NEW h \in Handlers, Hold(h) PROVE Uncredited
  <2>1. PICK t \in TopUpIds : t = task[h].topUp
    BY <1>4 DEF Hold, Inv, Shape, Task, Idle
  <2>2. CASE topUp[t].status \in Settleable
    BY <1>4, <1>s, <2>1, <2>2, StatusMoves DEF Hold, Status, Settleable
  <2> QED
    BY <1>4, <2>1, <2>2, Untouched DEF Hold
<1>5. ASSUME NEW h \in Handlers, Settle(h) \/ AutoApprove(h), ~UNCHANGED <<topUp, ledger>>
      PROVE  \E t \in TopUpIds : Credited(t)
  <2>0. task[h].at \in {"credit", "autoCredit"} /\ task[h] \in Task
    BY <1>5 DEF Settle, AutoApprove, Inv, Shape
  <2>1. PICK t \in TopUpIds : t = task[h].topUp
    BY <2>0 DEF Task, Idle
  <2>2. CreditTopUp(t, Settleable, FALSE) \/ CreditTopUp(t, {"PENDING"}, FALSE)
    BY <1>5, <2>1 DEF Settle, AutoApprove
  <2> QED
    BY <1>s, <2>2, CreditMoves DEF Settleable
<1>6. ASSUME NEW h \in Handlers, NEW t \in TopUpIds, Create(h, t) \/ Declare(h, t)
      PROVE  Uncredited
  BY <1>6, <1>s, StatusMoves DEF Create, Declare, Status
<1>7. ASSUME NEW t \in TopUpIds, Approve(t) PROVE Credited(t)
  <2>1. CreditTopUp(t, {Decidable(t)}, TRUE)
    BY <1>7 DEF Approve
  <2>2. Decidable(t) \in {"PENDING", "HELD"}
    BY DEF Decidable
  <2> QED
    BY <1>s, <2>1, <2>2, CreditMoves
<1>8. ASSUME NEW t \in TopUpIds, Reject(t) PROVE Uncredited
  <2>1. /\ topUp[t].status \in {"PENDING", "HELD"} /\ UNCHANGED ledger
        /\ topUp' = [topUp EXCEPT ![t].status = "REJECTED", ![t].reviewed = TRUE]
    BY <1>8 DEF Reject, Decidable
  <2>2. /\ \A o \in TopUpIds : o # t => topUp'[o] = topUp[o]
        /\ topUp'[t].status = "REJECTED" /\ topUp'[t].reviewed
        /\ topUp'[t].owner = topUp[t].owner /\ topUp'[t].amount = topUp[t].amount
    BY <2>1, <1>s DEF Shape, TopUpRow
  <2> QED
    BY <2>1, <2>2 DEF Uncredited, Moves
<1>9. ASSUME NEW h \in Handlers, Step(h)
      PROVE  Uncredited \/ \E t \in TopUpIds : Credited(t)
  BY <1>1, <1>2, <1>3, <1>4, <1>5, <1>9
  DEF Step, SessionOpened, NoAnswer, GaveUp, Validated, Queried
<1>10. ASSUME NEW h \in Handlers, NEW t \in TopUpIds, Prompt(h, t) PROVE Uncredited
  BY <1>6, <1>10, Untouched DEF Prompt, PromptBare, Poll, Ask, PromptPaid, PromptUnpaid
<1>11. CASE UNCHANGED vars
  BY <1>1, <1>11 DEF vars, ledger
<1> QED
  BY <1>1, <1>7, <1>8, <1>9, <1>10, <1>11
  DEF Next, Pay, Conclude, Recheckable, GrowOld, Restart

LEMMA SessionsHold == Spec => []Sessions
<1>1. Init => Sessions
  BY DEF Init, Sessions, Idle
<1>2. Inv /\ Sessions /\ [Next]_vars => Sessions'
  <2>1. Inv /\ Sessions /\ Next => Sessions'
    BY SessionsStep
  <2>2. Sessions /\ UNCHANGED vars => Sessions'
    BY DEF Sessions, vars
  <2> QED
    BY <2>1, <2>2
<1> QED
  BY <1>1, <1>2, InvHolds, PTL DEF Spec

-----------------------------------------------------------------------------
\* A top-up that is PAID or REJECTED stays so, and only a person moves one
\* that is HELD, whatever prompts come and however handlers interleave.
THEOREM DecisionsStand == Spec => DecidedStays
<1>1. Inv /\ Sessions /\ [Next]_vars =>
        [\A t \in TopUpIds :
           /\ topUp[t].status \in {"PAID", "REJECTED"} => topUp'[t] = topUp[t]
           /\ topUp[t].status = "HELD" =>
                topUp'[t].status = "HELD" \/ topUp'[t].reviewed]_vars
  BY EveryStep DEF Uncredited, Credited, Moves
<1> QED
  BY <1>1, InvHolds, SessionsHold, PTL DEF Spec, DecidedStays

\* Every behaviour of top-ups and deposits is one of the ledger: a top-up is
\* credited once, its own amount, to its own owner.
THEOREM TopUpsImplementLedger == Spec => CreditsLedger
<1>1. Init => Ledger!Init
  BY DEF Init, Ledger!Init, TopUpRow
<1>2. Inv /\ Sessions /\ [Next]_vars => [Ledger!Next]_(Ledger!ledgerVars)
  <2> SUFFICES ASSUME Inv, Sessions, [Next]_vars
               PROVE  [Ledger!Next]_(Ledger!ledgerVars)
    OBVIOUS
  <2>1. CASE Uncredited
    BY <2>1 DEF Uncredited, Moves, Ledger!ledgerVars, ledger
  <2>2. ASSUME NEW t \in TopUpIds, Credited(t) PROVE Ledger!CreditTopUp(t)
    BY <2>2 DEF Credited, Moves, Ledger!CreditTopUp, Ledger!Credit
  <2> QED
    BY <2>1, <2>2, EveryStep DEF Ledger!Next
<1> QED
  BY <1>1, <1>2, InvHolds, SessionsHold, PTL DEF Spec, CreditsLedger, Ledger!Spec

-----------------------------------------------------------------------------
(* The remaining shapes, and what the ledger's theorems say of top-ups.     *)

Marks ==
  /\ pages \subseteq TopUpIds
  /\ recent \in [TopUpIds -> BOOLEAN] /\ old \in [TopUpIds -> BOOLEAN]

LEMMA MarksStep ==
  ASSUME Shape, Marks, [Next]_vars
  PROVE  Marks'
<1> USE DEF Marks
<1>1. CASE UNCHANGED <<pages, recent, old>>
  BY <1>1
<1>2. ASSUME NEW h \in Handlers, Step(h) PROVE Marks'
  <2>1. CASE SessionOpened(h)
    <3>1. task[h] \in Task /\ task[h].at = "session"
      BY <2>1 DEF SessionOpened, Shape
    <3>2. task[h].topUp \in TopUpIds
      BY <3>1 DEF Task, Idle
    <3> QED
      BY <2>1, <3>2 DEF SessionOpened
  <2>2. CASE Settle(h)
    BY <2>2 DEF Settle
  <2> QED
    BY <1>1, <1>2, <2>1, <2>2
    DEF Step, SessionRefused, NoAnswer, GaveUp, Validated, Queried, MarkUnpaid, Hold, AutoApprove
<1>3. ASSUME NEW h \in Handlers, NEW t \in TopUpIds, Prompt(h, t) PROVE Marks'
  BY <1>3 DEF Prompt, Create, Declare, PromptBare, Poll, Ask, PromptPaid, PromptUnpaid
<1>4. ASSUME NEW t \in TopUpIds, Approve(t) \/ Reject(t) \/ Recheckable(t) \/ GrowOld(t)
      PROVE  Marks'
  BY <1>4 DEF Approve, Reject, Recheckable, GrowOld
<1>5. CASE Restart
  BY <1>5 DEF Restart
<1> QED
  BY <1>1, <1>2, <1>3, <1>4, <1>5 DEF Next, Pay, Conclude, vars

LEMMA WalletStep ==
  ASSUME Inv, Sessions, wallet \in [Users -> Ledger!Row], [Next]_vars
  PROVE  wallet' \in [Users -> Ledger!Row]
<1>1. CASE Uncredited
  BY <1>1 DEF Uncredited, ledger
<1>2. ASSUME NEW t \in TopUpIds, Credited(t) PROVE wallet' \in [Users -> Ledger!Row]
  <2> DEFINE owner == topUp[t].owner
  <2>1. owner \in Users /\ topUp[t].amount \in Int
    <3>1. topUp[t] \in TopUpRow
      BY DEF Inv, Shape
    <3>2. owner \in Users /\ topUp[t].amount \in Amounts
      BY <3>1 DEF TopUpRow
    <3>3. Amounts \subseteq Int
      BY LedgerAssumption
    <3> QED
      BY <3>2, <3>3
  <2>2. wallet[owner] \in Ledger!Row
    BY <2>1
  <2>3. Ledger!Gain(wallet[owner], topUp[t].amount, 0) \in Ledger!Row
    BY <2>1, <2>2 DEF Ledger!Gain, Ledger!Row
  <2>4. wallet' = [wallet EXCEPT ![owner] = Ledger!Gain(wallet[owner], topUp[t].amount, 0)]
    BY <1>2 DEF Credited, Ledger!PostOne
  <2> QED
    BY <2>3, <2>4
<1> QED
  BY <1>1, <1>2, EveryStep

\* Every variable keeps its shape.
THEOREM TopUpTyping == Spec => []TypeOK
<1>1. Init => Marks /\ wallet \in [Users -> Ledger!Row]
  BY DEF Init, Marks, Ledger!Row
<1>2. Shape /\ Marks /\ [Next]_vars => Marks'
  BY MarksStep
<1>3. Inv /\ Sessions /\ wallet \in [Users -> Ledger!Row] /\ [Next]_vars =>
        (wallet \in [Users -> Ledger!Row])'
  BY WalletStep
<1>4. Inv => Shape
  BY DEF Inv
<1>5. Shape /\ Marks /\ wallet \in [Users -> Ledger!Row] => TypeOK
  BY DEF Shape, Marks, TypeOK
<1> QED
  BY <1>1, <1>2, <1>3, <1>4, <1>5, InvHolds, SessionsHold, PTL DEF Spec

\* The ledger again, with its theorems.
Books == INSTANCE WalletLedger_proofs WITH
  PaymentIds <- {}, WithdrawalIds <- {},
  payments <- [id \in {} |-> None], withdrawals <- [id \in {} |-> None],
  topUps <- [t \in TopUpIds |->
    [owner |-> topUp[t].owner, amount |-> topUp[t].amount,
     status |-> IF topUp[t].status = "PAID" THEN "PAID" ELSE "OPEN"]]

LEMMA BooksAssume ==
  /\ Books!UsersAssumption /\ Books!AmountsAssumption /\ Books!IdsAssumption
  /\ Books!TablesAssumption /\ Books!NoneAssumption
<1>1. Books!IsFiniteSet({})
  BY FS_EmptySet DEF IsFiniteSet, Books!IsFiniteSet
<1>s. Books!IsFiniteSet(Users) /\ Books!IsFiniteSet(TopUpIds)
  BY LedgerAssumption DEF IsFiniteSet, Books!IsFiniteSet
<1>2. Books!UsersAssumption
  BY LedgerAssumption
<1>3. Books!AmountsAssumption
  BY LedgerAssumption
<1>4. Books!IdsAssumption
  OBVIOUS
<1>5. Books!TablesAssumption
  BY <1>1, <1>s
<1>6. Books!NoneAssumption
  BY LedgerAssumption DEF Ledger!Payment, Ledger!Withdrawal, Books!Payment, Books!Withdrawal
<1> QED
  BY <1>2, <1>3, <1>4, <1>5, <1>6

\* creditTopUp (wallet.service.ts) behind every prompt, handler and admin: no wallet
\* goes below zero, each statement chains and has one credit of each PAID top-up
\* and no other, and the wallets hold exactly what the PAID top-ups brought in.
THEOREM TopUpBooks ==
  Spec => [](Books!LedgerRule /\ Books!StatementsTrue /\ Books!MoneyAccountedFor)
<1>1. Ledger!Init => Books!Init
  BY DEF Ledger!Init, Books!Init
<1>2. [Ledger!Next]_(Ledger!ledgerVars) => [Books!Next]_(Books!ledgerVars)
  <2> SUFFICES ASSUME Ledger!Next PROVE Books!Next
    BY DEF Ledger!ledgerVars, Books!ledgerVars
  <2> PICK t \in TopUpIds : Ledger!CreditTopUp(t)
    BY DEF Ledger!Next
  <2>1. Books!CreditTopUp(t)
    BY DEF Ledger!CreditTopUp, Ledger!Credit, Ledger!PostOne, Ledger!EntryFor, Ledger!Gain,
      Books!CreditTopUp, Books!Credit, Books!PostOne, Books!EntryFor, Books!Gain
  <2> QED
    BY <2>1 DEF Books!Next
<1>3. Ledger!Spec => Books!Spec
  BY <1>1, <1>2, PTL DEF Ledger!Spec, Books!Spec
<1>4. Books!Spec => []Books!LedgerRule
  BY Books!Legality, BooksAssume
<1>5. Books!Spec => []Books!StatementsTrue
  BY Books!StatementsHold, BooksAssume
<1>6. Books!Spec => []Books!MoneyAccountedFor
  BY Books!MoneyHolds, BooksAssume
<1> QED
  BY TopUpsImplementLedger, <1>3, <1>4, <1>5, <1>6, PTL DEF CreditsLedger

-----------------------------------------------------------------------------
(***************************************************************************)
(* The window of a ban notice, proved for any number of workers, desks,    *)
(* notices and failures and any length of the window.                      *)
(*                                                                         *)
(* What the proof turns on: a notice is ripe once its time has come without *)
(* its having been cancelled before, and ripe is a thing it stays. Whoever *)
(* is about to apply a notice holds a ripe one, or one "ban now" was asked *)
(* for.                                                                    *)
(***************************************************************************)

Ripe(n) == now >= notices[n].due /\ notices[n].cancelled \notin 0..(notices[n].due - 1)

\* What a request, or the job, has in hand is there; only the job has a list.
InHand(r) ==
  desk[r] # NoErrand =>
    /\ r = Cron => desk[r].op \in {"apply", "sweep"}
    /\ desk[r].op \in {"cancel", "apply"} => desk[r].notice \in DOMAIN notices
    /\ r = Cron => desk[r].todo \subseteq DOMAIN notices

\* What is about to be applied may be applied.
HandRipe(r) ==
  desk[r] # NoErrand =>
    /\ desk[r].op = "apply" /\ desk[r].notice \notin byHand => Ripe(desk[r].notice)
    /\ r = Cron => \A n \in desk[r].todo : Ripe(n)

\* What was applied could be, and a running notice was not cancelled.
NoticeRipe(n) ==
  /\ notices[n].status = "EXECUTED" /\ n \notin byHand => Ripe(n)
  /\ Scheduled(n) => notices[n].cancelled = NoErrand

BansInv ==
  /\ BansTypeOK
  /\ \A r \in Runners : InHand(r) /\ HandRipe(r)
  /\ \A n \in DOMAIN notices : NoticeRipe(n)

-----------------------------------------------------------------------------
(* Notices.                                                                *)

\* The notices are numbered from 1, and each is a record of its fields.
LEMMA NoticeFields ==
  ASSUME BansTypeOK
  PROVE  /\ Len(notices) \in Nat /\ DOMAIN notices = 1..Len(notices)
         /\ now \in Nat
         /\ \A n \in DOMAIN notices :
              /\ notices[n] \in Notice
              /\ notices[n].worker \in Workers
              /\ notices[n].due \in Nat
              /\ notices[n].cancelled \in Nat \cup {NoErrand}
<1>1. Len(notices) \in Nat /\ DOMAIN notices = 1..Len(notices)
  BY LenProperties DEF BansTypeOK
<1>2. now \in Nat
  BY TicksAssumption DEF BansTypeOK
<1>3. ASSUME NEW n \in DOMAIN notices PROVE notices[n] \in Notice
  BY <1>1, ElementOfSeq DEF BansTypeOK
<1>4. ASSUME NEW x \in Notice
      PROVE  x.worker \in Workers /\ x.due \in Nat /\ x.cancelled \in Nat \cup {NoErrand}
  BY TicksAssumption DEF Notice
<1> QED
  BY <1>1, <1>2, <1>3, <1>4

\* Time only makes ripe notices riper.
LEMMA RipeStays ==
  ASSUME BansTypeOK, notices' = notices, now' \in Nat, now' >= now,
         NEW n \in DOMAIN notices, Ripe(n)
  PROVE  Ripe(n)'
BY NoticeFields DEF Ripe

\* A notice whose time and cancelling stay is as ripe as it was.
LEMMA RipeCopied ==
  ASSUME BansTypeOK, now' = now, NEW n \in DOMAIN notices,
         notices'[n].due = notices[n].due, notices'[n].cancelled = notices[n].cancelled
  PROVE  Ripe(n)' <=> Ripe(n)
BY DEF Ripe

-----------------------------------------------------------------------------
(* Errands.                                                                *)

\* What each errand holds.
LEMMA ErrandFields ==
  ASSUME NEW e \in Errand
  PROVE  /\ e.op \in {"schedule", "cancel", "apply", "sweep"}
         /\ e.op = "schedule" =>
              /\ e.worker \in Workers /\ [e EXCEPT !.looked = TRUE] \in Errand
              /\ [e EXCEPT !.looked = TRUE].op = "schedule"
         /\ e.op = "cancel" => e.notice \in NoticeId
         /\ e.op = "apply" =>
              /\ e.notice \in NoticeId /\ e.todo \subseteq NoticeId
              /\ LET f == [e EXCEPT !.read = TRUE]
                 IN  f \in Errand /\ f.op = "apply" /\ f.notice = e.notice /\ f.todo = e.todo
         /\ e.op = "sweep" => e.todo \subseteq NoticeId
<1>1. CASE e \in [op : {"schedule"}, worker : Workers, looked : BOOLEAN]
  BY <1>1 DEF Errand
<1>2. CASE e \in [op : {"cancel"}, notice : NoticeId]
  BY <1>2
<1>3. CASE e \in [op : {"apply"}, notice : NoticeId, read : BOOLEAN, todo : SUBSET NoticeId]
  BY <1>3 DEF Errand
<1>4. CASE e \in [op : {"sweep"}, todo : SUBSET NoticeId]
  BY <1>4
<1> QED
  BY <1>1, <1>2, <1>3, <1>4 DEF Errand

\* What the operations make is an errand.
LEMMA ErrandMade ==
  /\ \A w \in Workers : [op |-> "schedule", worker |-> w, looked |-> FALSE] \in Errand
  /\ \A n \in NoticeId : [op |-> "cancel", notice |-> n] \in Errand
  /\ \A n \in NoticeId, todo \in SUBSET NoticeId : Applying(n, todo) \in Errand
  /\ \A todo \in SUBSET NoticeId : [op |-> "sweep", todo |-> todo] \in Errand
BY DEF Errand, Applying
-----------------------------------------------------------------------------
(* Steps.                                                                  *)

\* A step keeps the invariant if it shrinks no list, takes no ripeness away, and
\* leaves every errand it touches in order.
LEMMA Kept ==
  ASSUME BansInv, now' \in 0..MaxTicks, suspended' \subseteq Workers, faults' \in 0..MaxFaults,
         notices' \in Seq(Notice), Len(notices') <= MaxNotices,
         byHand \subseteq byHand', byHand' \subseteq DOMAIN notices',
         \A n \in DOMAIN notices : n \in DOMAIN notices' /\ (Ripe(n) => Ripe(n)'),
         \A n \in DOMAIN notices' : NoticeRipe(n)',
         desk' \in [Runners -> Errand \cup {NoErrand}],
         \A r \in Runners : desk'[r] = desk[r] \/ (InHand(r) /\ HandRipe(r))'
  PROVE  BansInv'
<1>1. BansTypeOK'
  BY DEF BansInv, BansTypeOK
<1>2. ASSUME NEW r \in Runners PROVE InHand(r)' /\ HandRipe(r)'
  <2>1. CASE desk'[r] = desk[r] /\ desk[r] # NoErrand
    <3>1. InHand(r) /\ HandRipe(r)
      BY DEF BansInv
    <3>2. InHand(r)'
      BY <2>1, <3>1 DEF InHand
    <3>3. desk[r].op = "apply" /\ desk[r].notice \notin byHand' => Ripe(desk[r].notice)'
      BY <2>1, <3>1 DEF InHand, HandRipe
    <3>4. ASSUME r = Cron, NEW n \in desk[r].todo PROVE Ripe(n)'
      BY <2>1, <3>1, <3>4 DEF InHand, HandRipe
    <3> QED
      BY <2>1, <3>2, <3>3, <3>4 DEF HandRipe
  <2>2. CASE desk'[r] = NoErrand
    BY <2>2 DEF InHand, HandRipe
  <2>3. CASE (InHand(r) /\ HandRipe(r))'
    BY <2>3
  <2> QED
    BY <2>1, <2>2, <2>3
<1> QED
  BY <1>1, <1>2 DEF BansInv

\* A step of one runner that reads, and changes nothing but its own errand.
LEMMA OneErrand ==
  ASSUME BansInv, NEW r \in Runners, NEW e \in Errand \cup {NoErrand},
         desk' = [desk EXCEPT ![r] = e], now' = now, notices' = notices,
         suspended' = suspended, faults' \in 0..MaxFaults,
         byHand \subseteq byHand', byHand' \subseteq DOMAIN notices,
         (InHand(r) /\ HandRipe(r))'
  PROVE  BansInv'
<1>1. BansTypeOK
  BY DEF BansInv
<1>2. \A n \in DOMAIN notices : Ripe(n) <=> Ripe(n)'
  BY DEF Ripe
<1>3. \A n \in DOMAIN notices' : NoticeRipe(n)'
  BY <1>2 DEF BansInv, NoticeRipe, Scheduled
<1>4. desk' \in [Runners -> Errand \cup {NoErrand}]
  BY <1>1 DEF BansTypeOK
<1>5. \A q \in Runners : desk'[q] = desk[q] \/ (InHand(q) /\ HandRipe(q))'
  <2>1. \A q \in Runners : q # r => desk'[q] = desk[q]
    BY <1>1 DEF BansTypeOK
  <2> QED
    BY <2>1
<1> QED
  BY <1>1, <1>2, <1>3, <1>4, <1>5, Kept DEF BansTypeOK

\* The requests that only look.
LEMMA AskKeeps ==
  ASSUME BansInv, NEW d \in Desks,
         \/ \E w \in Workers : AskNotice(d, w)
         \/ LookForNotice(d)
         \/ \E n \in DOMAIN notices : AskCancel(d, n) \/ AskBanNow(d, n)
  PROVE  BansInv'
<1>1. BansTypeOK /\ d \in Runners /\ d # Cron /\ DOMAIN notices \subseteq NoticeId
  BY NoticeFields, CronAssumption, BoundsAssumption DEF BansInv, BansTypeOK, Runners, NoticeId
<1>2. desk'[d] # NoErrand =>
        (d = Cron => desk'[d].op \in {"apply", "sweep"} /\ desk'[d].todo \subseteq DOMAIN notices')
  BY <1>1
<1>3. ASSUME NEW w \in Workers, AskNotice(d, w) PROVE BansInv'
  <2> DEFINE e == [op |-> "schedule", worker |-> w, looked |-> FALSE]
  <2>1. e \in Errand
    BY ErrandMade
  <2>2. desk'[d] = e
    BY <1>1, <1>3 DEF AskNotice, BansTypeOK
  <2>3. InHand(d)' /\ HandRipe(d)'
    BY <1>1, <2>2 DEF InHand, HandRipe
  <2> QED
    BY <1>1, <1>3, <2>1, <2>3, OneErrand DEF AskNotice, BansTypeOK
<1>4. CASE LookForNotice(d)
  <2> DEFINE e == IF \E n \in DOMAIN notices : notices[n].worker = desk[d].worker /\ Scheduled(n)
                  THEN NoErrand ELSE [desk[d] EXCEPT !.looked = TRUE]
  <2>1. desk[d] \in Errand /\ desk[d].op = "schedule"
    BY <1>1, <1>4 DEF LookForNotice, Doing, BansTypeOK
  <2>2. e \in Errand \cup {NoErrand} /\ (e # NoErrand => e.op = "schedule")
    BY <2>1, ErrandFields
  <2>3. desk' = [desk EXCEPT ![d] = e]
    BY <1>4 DEF LookForNotice
  <2>4. InHand(d)' /\ HandRipe(d)'
    BY <1>1, <2>2, <2>3 DEF InHand, HandRipe, BansTypeOK
  <2> QED
    BY <1>1, <1>4, <2>2, <2>3, <2>4, OneErrand DEF LookForNotice, BansTypeOK
<1>5. ASSUME NEW n \in DOMAIN notices, AskCancel(d, n) PROVE BansInv'
  <2> DEFINE e == [op |-> "cancel", notice |-> n]
  <2>1. e \in Errand
    BY <1>1, ErrandMade
  <2>2. desk'[d] = e
    BY <1>1, <1>5 DEF AskCancel, BansTypeOK
  <2>3. InHand(d)' /\ HandRipe(d)'
    BY <1>1, <1>5, <2>2 DEF InHand, HandRipe, AskCancel
  <2> QED
    BY <1>1, <1>5, <2>1, <2>3, OneErrand DEF AskCancel, BansTypeOK
<1>6. ASSUME NEW n \in DOMAIN notices, AskBanNow(d, n) PROVE BansInv'
  <2>1. Applying(n, {}) \in Errand
    BY <1>1, ErrandMade
  <2>2. desk'[d] = Applying(n, {}) /\ byHand' = byHand \cup {n}
    BY <1>1, <1>6 DEF AskBanNow, BansTypeOK
  <2>3. InHand(d)' /\ HandRipe(d)'
    BY <1>1, <1>6, <2>2 DEF InHand, HandRipe, AskBanNow, Applying
  <2>4. byHand' \subseteq DOMAIN notices
    BY <1>1, <2>2 DEF BansTypeOK
  <2> QED
    BY <1>1, <1>6, <2>1, <2>2, <2>3, <2>4, OneErrand DEF AskBanNow, BansTypeOK
<1> QED
  BY <1>3, <1>4, <1>5, <1>6
\* A new notice is not yet cancelled and its time lies ahead.
LEMMA RaiseKeeps ==
  ASSUME BansInv, NEW d \in Desks, RaiseNotice(d)
  PROVE  BansInv'
<1> DEFINE new == [worker |-> desk[d].worker, status |-> "SCHEDULED",
                   due |-> now + NoticeTicks, cancelled |-> NoErrand]
<1>1. BansTypeOK /\ d \in Runners
  BY DEF BansInv, Runners
<1>2. new \in Notice
  <2>1. desk[d] \in Errand /\ desk[d].op = "schedule"
    BY <1>1 DEF RaiseNotice, Doing, BansTypeOK
  <2>2. desk[d].worker \in Workers
    BY <2>1, ErrandFields
  <2>3. now + NoticeTicks \in 1..MaxTicks
    BY <1>1, NoticeFields, TicksAssumption DEF RaiseNotice
  <2> QED
    BY <2>2, <2>3 DEF Notice
<1>3. /\ notices' = Append(notices, new)
      /\ notices' \in Seq(Notice) /\ Len(notices') = Len(notices) + 1
      /\ DOMAIN notices' = 1..(Len(notices) + 1)
      /\ \A n \in DOMAIN notices : n \in DOMAIN notices' /\ notices'[n] = notices[n]
      /\ notices'[Len(notices) + 1] = new
  <2>1. notices' = Append(notices, new)
    BY DEF RaiseNotice
  <2>2. notices \in Seq(Notice)
    BY <1>1 DEF BansTypeOK
  <2> HIDE DEF new
  <2> QED
    BY <2>1, <2>2, <1>2, AppendProperties, LenProperties
<1>4. Len(notices') <= MaxNotices
  BY <1>1, <1>3, NoticeFields, BoundsAssumption DEF RaiseNotice
<1>5. \A n \in DOMAIN notices : Ripe(n) <=> Ripe(n)'
  BY <1>3 DEF Ripe, RaiseNotice
<1>6. ASSUME NEW n \in DOMAIN notices' PROVE NoticeRipe(n)'
  <2>1. CASE n \in DOMAIN notices
    BY <2>1, <1>3, <1>5 DEF BansInv, NoticeRipe, Scheduled, RaiseNotice
  <2>2. CASE n = Len(notices) + 1
    BY <2>2, <1>3 DEF NoticeRipe, Scheduled
  <2> QED
    BY <2>1, <2>2, <1>1, <1>3, NoticeFields
<1>7. desk' \in [Runners -> Errand \cup {NoErrand}]
  BY <1>1 DEF RaiseNotice, BansTypeOK
<1>8. \A q \in Runners : desk'[q] = desk[q] \/ (InHand(q) /\ HandRipe(q))'
  BY <1>1 DEF RaiseNotice, BansTypeOK, InHand, HandRipe
<1> QED
  BY <1>1, <1>3, <1>4, <1>5, <1>6, <1>7, <1>8, Kept DEF RaiseNotice, BansTypeOK

\* A step that changes one notice, but not its time.
LEMMA OneNotice ==
  ASSUME BansInv, NEW n \in DOMAIN notices,
         NEW status \in {"CANCELLED", "EXECUTED"}, NEW cancelled \in 0..MaxTicks \cup {NoErrand},
         notices' = [notices EXCEPT ![n] = [@ EXCEPT !.status = status, !.cancelled = cancelled]]
  PROVE  /\ notices' \in Seq(Notice) /\ Len(notices') = Len(notices)
         /\ DOMAIN notices' = DOMAIN notices
         /\ \A m \in DOMAIN notices : m # n => notices'[m] = notices[m]
         /\ notices'[n].due = notices[n].due /\ notices'[n].status = status
         /\ notices'[n].cancelled = cancelled
<1> DEFINE x == [notices[n] EXCEPT !.status = status, !.cancelled = cancelled]
<1>1. notices \in Seq(Notice)
  BY DEF BansInv, BansTypeOK
<1>2. x \in Notice /\ x.due = notices[n].due /\ x.status = status /\ x.cancelled = cancelled
  BY NoticeFields DEF BansInv, Notice
<1>3. notices' = [notices EXCEPT ![n] = x]
  OBVIOUS
<1> HIDE DEF x
<1>4. n \in 1..Len(notices)
  BY NoticeFields DEF BansInv
<1>5. /\ notices' \in Seq(Notice) /\ Len(notices') = Len(notices)
      /\ \A m \in 1..Len(notices) : notices'[m] = IF m = n THEN x ELSE notices[m]
  BY <1>1, <1>2, <1>3, <1>4, ExceptSeq
<1>6. DOMAIN notices' = 1..Len(notices) /\ DOMAIN notices = 1..Len(notices)
  BY <1>1, <1>5, LenProperties
<1> QED
  BY <1>2, <1>4, <1>5, <1>6

\* A notice cancelled once it is ripe is ripe all the same.
LEMMA CancelKeeps ==
  ASSUME BansInv, NEW d \in Desks, Cancel(d)
  PROVE  BansInv'
<1> DEFINE n == desk[d].notice
<1>1. BansTypeOK /\ d \in Runners /\ n \in DOMAIN notices /\ InHand(d)
  BY DEF BansInv, Runners, InHand, Cancel, Doing
<1>2. now \in 0..MaxTicks /\ now' = now
  BY <1>1 DEF Cancel, BansTypeOK
<1>3. /\ notices' \in Seq(Notice) /\ Len(notices') = Len(notices)
      /\ DOMAIN notices' = DOMAIN notices
      /\ \A m \in DOMAIN notices : m # n => notices'[m] = notices[m]
      /\ notices'[n].due = notices[n].due /\ notices'[n].status = "CANCELLED"
      /\ notices'[n].cancelled = now
  BY <1>1, <1>2, OneNotice DEF Cancel
<1>4. ASSUME NEW m \in DOMAIN notices, Ripe(m) PROVE Ripe(m)'
  <2>1. CASE m = n
    BY <1>1, <1>2, <1>3, <1>4, <2>1, NoticeFields DEF Ripe
  <2>2. CASE m # n
    BY <1>2, <1>3, <1>4, <2>2 DEF Ripe
  <2> QED
    BY <2>1, <2>2
<1>5. ASSUME NEW m \in DOMAIN notices' PROVE NoticeRipe(m)'
  <2>1. CASE m = n
    BY <1>3, <2>1 DEF NoticeRipe, Scheduled
  <2>2. CASE m # n
    <3>1. NoticeRipe(m) /\ notices'[m] = notices[m]
      BY <1>3, <2>2 DEF BansInv
    <3> QED
      BY <1>2, <3>1 DEF NoticeRipe, Scheduled, Ripe, Cancel
  <2> QED
    BY <2>1, <2>2
<1>6. desk' \in [Runners -> Errand \cup {NoErrand}]
  BY <1>1 DEF Cancel, BansTypeOK
<1>7. \A q \in Runners : desk'[q] = desk[q] \/ (InHand(q) /\ HandRipe(q))'
  BY <1>1 DEF Cancel, BansTypeOK, InHand, HandRipe
<1> QED
  BY <1>1, <1>2, <1>3, <1>4, <1>5, <1>6, <1>7, Kept DEF Cancel, BansTypeOK
\* What is left of an errand is in order.
LEMMA RestInOrder ==
  ASSUME BansInv, NEW r \in Runners, Doing(r, "apply")
  PROVE  /\ Rest(r) \in Errand \cup {NoErrand}
         /\ Rest(r) # NoErrand =>
              /\ r = Cron /\ Rest(r).op = "sweep" /\ Rest(r).todo \subseteq DOMAIN notices
              /\ \A n \in Rest(r).todo : Ripe(n)
<1>1. desk[r] \in Errand /\ desk[r].op = "apply" /\ InHand(r) /\ HandRipe(r)
  BY DEF BansInv, BansTypeOK, Doing
<1>2. CASE r = Cron
  <2>1. desk[r].todo \in SUBSET NoticeId
    BY <1>1, ErrandFields
  <2>2. Rest(r) = [op |-> "sweep", todo |-> desk[r].todo]
    BY <1>2 DEF Rest
  <2>3. Rest(r) \in Errand
    BY <2>1, <2>2, ErrandMade
  <2>4. desk[r] # NoErrand
    BY DEF Doing
  <2> QED
    BY <1>1, <1>2, <2>2, <2>3, <2>4 DEF InHand, HandRipe
<1>3. CASE r # Cron
  BY <1>3 DEF Rest
<1> QED
  BY <1>2, <1>3

\* An applied notice was ripe, or asked for.
LEMMA ApplyKeeps ==
  ASSUME BansInv, NEW r \in Runners, Apply(r)
  PROVE  BansInv'
<1> DEFINE n == desk[r].notice
<1>1. /\ BansTypeOK /\ Doing(r, "apply") /\ now' = now /\ byHand' = byHand
      /\ n \in DOMAIN notices /\ (n \notin byHand => Ripe(n))
  BY DEF BansInv, InHand, HandRipe, Apply, Doing
<1>2. notices[n].cancelled \in 0..MaxTicks \cup {NoErrand} /\ notices[n].worker \in Workers
  BY <1>1, NoticeFields DEF Notice
<1>3. notices' = [notices EXCEPT ![n] =
                    [@ EXCEPT !.status = "EXECUTED", !.cancelled = notices[n].cancelled]]
  <2>1. [notices[n] EXCEPT !.status = "EXECUTED"]
          = [notices[n] EXCEPT !.status = "EXECUTED", !.cancelled = notices[n].cancelled]
    BY <1>1, NoticeFields DEF Notice
  <2> QED
    BY <2>1 DEF Apply
<1>4. /\ notices' \in Seq(Notice) /\ Len(notices') = Len(notices)
      /\ DOMAIN notices' = DOMAIN notices
      /\ \A m \in DOMAIN notices : m # n => notices'[m] = notices[m]
      /\ notices'[n].due = notices[n].due /\ notices'[n].status = "EXECUTED"
      /\ notices'[n].cancelled = notices[n].cancelled
  BY <1>1, <1>2, <1>3, OneNotice
<1>5. ASSUME NEW m \in DOMAIN notices PROVE Ripe(m) <=> Ripe(m)'
  BY <1>1, <1>4 DEF Ripe
<1>6. ASSUME NEW m \in DOMAIN notices' PROVE NoticeRipe(m)'
  <2>1. CASE m = n
    BY <1>1, <1>4, <1>5, <2>1 DEF NoticeRipe, Scheduled
  <2>2. CASE m # n
    BY <1>1, <1>4, <1>5, <2>2 DEF BansInv, NoticeRipe, Scheduled
  <2> QED
    BY <2>1, <2>2
<1>7. desk' = [desk EXCEPT ![r] = Rest(r)] /\ suspended' = suspended \cup {notices[n].worker}
  BY DEF Apply
<1>8. desk' \in [Runners -> Errand \cup {NoErrand}]
  BY <1>1, <1>7, RestInOrder DEF BansTypeOK
<1>9. (InHand(r) /\ HandRipe(r))'
  <2>1. desk'[r] = Rest(r)
    BY <1>1, <1>7 DEF BansTypeOK
  <2> QED
    BY <1>1, <1>4, <1>5, <2>1, RestInOrder DEF InHand, HandRipe
<1>10. \A q \in Runners : desk'[q] = desk[q] \/ (InHand(q) /\ HandRipe(q))'
  BY <1>1, <1>7, <1>9 DEF BansTypeOK
<1> QED
  BY <1>1, <1>2, <1>4, <1>5, <1>6, <1>7, <1>8, <1>10, Kept DEF Apply, BansTypeOK

\* The job takes up what is due, and what is due is ripe.
LEMMA SweepKeeps ==
  ASSUME BansInv, StartSweep \/ TakeNext
  PROVE  BansInv'
<1>1. BansTypeOK /\ Cron \in Runners /\ DOMAIN notices \subseteq NoticeId
  BY NoticeFields, BoundsAssumption DEF BansInv, BansTypeOK, Runners, NoticeId
<1>2. CASE StartSweep
  <2> DEFINE e == [op |-> "sweep", todo |-> Due]
  <2>1. Due \subseteq DOMAIN notices
    BY DEF Due
  <2>2. e \in Errand
    BY <1>1, <2>1, ErrandMade
  <2>3. desk'[Cron] = e
    BY <1>1, <1>2 DEF StartSweep, BansTypeOK
  <2>4. ASSUME NEW n \in Due PROVE Ripe(n)
    BY <1>1, <2>1, NoticeFields, NoErrandAssumption DEF Due, BansInv, NoticeRipe, Ripe
  <2>5. InHand(Cron)'
    BY <1>2, <2>1, <2>3 DEF InHand, StartSweep
  <2>6. HandRipe(Cron)'
    BY <1>2, <2>3, <2>4 DEF HandRipe, Ripe, StartSweep
  <2> QED
    BY <1>1, <1>2, <2>2, <2>5, <2>6, OneErrand DEF StartSweep, BansTypeOK
<1>3. CASE TakeNext
  <2> DEFINE todo == desk[Cron].todo
  <2>1. /\ desk[Cron] \in Errand /\ todo \subseteq DOMAIN notices
        /\ \A n \in todo : Ripe(n)
    BY <1>1, <1>3 DEF BansInv, BansTypeOK, InHand, HandRipe, TakeNext, Doing
  <2>2. ASSUME NEW n \in todo, desk' = [desk EXCEPT ![Cron] = Applying(n, todo \ {n})]
        PROVE  BansInv'
    <3>1. Applying(n, todo \ {n}) \in Errand
      BY <1>1, <2>1, ErrandMade
    <3>2. desk'[Cron] = Applying(n, todo \ {n})
      BY <1>1, <2>2 DEF BansTypeOK
    <3>3. InHand(Cron)'
      BY <1>3, <2>1, <3>2 DEF InHand, Applying, TakeNext
    <3>4. HandRipe(Cron)'
      BY <1>3, <2>1, <3>2 DEF HandRipe, Ripe, Applying, TakeNext
    <3> QED
      BY <1>1, <1>3, <2>2, <3>1, <3>3, <3>4, OneErrand DEF TakeNext, BansTypeOK
  <2>3. ASSUME desk' = [desk EXCEPT ![Cron] = NoErrand] PROVE BansInv'
    <3>1. InHand(Cron)' /\ HandRipe(Cron)'
      BY <1>1, <2>3 DEF InHand, HandRipe, BansTypeOK
    <3> QED
      BY <1>1, <1>3, <2>3, <3>1, OneErrand DEF TakeNext, BansTypeOK
  <2> QED
    BY <1>3, <2>2, <2>3 DEF TakeNext
<1> QED
  BY <1>2, <1>3

\* Looking once more changes nothing, and a failure only ends an errand.
LEMMA RereadKeeps ==
  ASSUME BansInv, NEW r \in Runners, Reread(r)
  PROVE  BansInv'
<1> DEFINE f == [desk[r] EXCEPT !.read = TRUE]
           e == IF Scheduled(desk[r].notice) THEN f ELSE Rest(r)
<1>1. /\ BansTypeOK /\ Doing(r, "apply") /\ desk[r] \in Errand /\ desk[r] # NoErrand
      /\ InHand(r) /\ HandRipe(r) /\ desk' = [desk EXCEPT ![r] = e]
  BY DEF BansInv, BansTypeOK, Reread, Doing
<1>2. f \in Errand /\ f.op = "apply" /\ f.notice = desk[r].notice /\ f.todo = desk[r].todo
  BY <1>1, ErrandFields DEF Doing
<1>3. e \in Errand \cup {NoErrand} /\ desk'[r] = e
  BY <1>1, <1>2, RestInOrder DEF BansTypeOK
<1>4. CASE e = f
  <2>1. InHand(r)'
    BY <1>1, <1>2, <1>3, <1>4 DEF InHand, Reread, Doing
  <2>2. HandRipe(r)'
    BY <1>1, <1>2, <1>3, <1>4 DEF HandRipe, Ripe, Reread, Doing
  <2> QED
    BY <1>1, <1>3, <2>1, <2>2, OneErrand DEF Reread, BansTypeOK
<1>5. CASE e = Rest(r)
  <2>1. InHand(r)'
    BY <1>1, <1>3, <1>5, RestInOrder DEF InHand, Reread
  <2>2. HandRipe(r)'
    BY <1>1, <1>3, <1>5, RestInOrder DEF HandRipe, Ripe, Reread
  <2> QED
    BY <1>1, <1>3, <2>1, <2>2, OneErrand DEF Reread, BansTypeOK
<1> QED
  BY <1>4, <1>5

LEMMA FailKeeps ==
  ASSUME BansInv, NEW r \in Runners, Fail(r)
  PROVE  BansInv'
<1>1. BansTypeOK /\ InHand(r) /\ desk[r] \in Errand /\ desk[r] # NoErrand /\ desk[r].op # "sweep"
  BY DEF BansInv, BansTypeOK, Fail
<1>2. /\ Rest(r) \in Errand \cup {NoErrand}
      /\ Rest(r) # NoErrand =>
           /\ r = Cron /\ Rest(r).op = "sweep" /\ Rest(r).todo \subseteq DOMAIN notices
           /\ \A n \in Rest(r).todo : Ripe(n)
  <2>1. CASE r = Cron
    BY <1>1, <2>1, RestInOrder DEF InHand, Doing
  <2>2. CASE r # Cron
    BY <2>2 DEF Rest
  <2> QED
    BY <2>1, <2>2
<1>3. desk'[r] = Rest(r)
  BY <1>1 DEF Fail, BansTypeOK
<1>4. InHand(r)'
  BY <1>2, <1>3 DEF InHand, Fail
<1>5. HandRipe(r)'
  BY <1>2, <1>3 DEF HandRipe, Ripe, Fail
<1>6. faults' \in 0..MaxFaults /\ byHand \subseteq byHand' /\ byHand' \subseteq DOMAIN notices
  BY <1>1, BoundsAssumption DEF Fail, BansTypeOK
<1> QED
  BY <1>2, <1>4, <1>5, <1>6, OneErrand DEF Fail

\* Going down, time, and the account screens.
LEMMA RestKeeps ==
  ASSUME BansInv,
         GoDown \/ Tick \/ (\E w \in Workers : SetAccountStatus(w)) \/ UNCHANGED banVars
  PROVE  BansInv'
<1>1. BansTypeOK /\ now \in Nat
  BY NoticeFields DEF BansInv
<1>2. /\ notices' = notices /\ byHand' = byHand /\ now' \in 0..MaxTicks /\ now' >= now
      /\ faults' \in 0..MaxFaults /\ suspended' \subseteq Workers
  BY <1>1, TicksAssumption, BoundsAssumption
    DEF GoDown, Tick, SetAccountStatus, banVars, BansTypeOK
<1>3. \A n \in DOMAIN notices : n \in DOMAIN notices' /\ (Ripe(n) => Ripe(n)')
  BY <1>1, <1>2, RipeStays, TicksAssumption
<1>4. \A n \in DOMAIN notices' : NoticeRipe(n)'
  BY <1>2, <1>3 DEF BansInv, NoticeRipe, Scheduled
<1>5. /\ desk' \in [Runners -> Errand \cup {NoErrand}]
      /\ \A r \in Runners : desk'[r] = desk[r] \/ (InHand(r) /\ HandRipe(r))'
  BY <1>1 DEF GoDown, Tick, SetAccountStatus, banVars, BansTypeOK, InHand, HandRipe
<1> QED
  BY <1>1, <1>2, <1>3, <1>4, <1>5, Kept DEF BansTypeOK

-----------------------------------------------------------------------------
(* The theorems.                                                           *)

\* Every step keeps what is about to be applied ripe.
LEMMA StepKeeps ==
  ASSUME BansInv, [BansNext]_banVars
  PROVE  BansInv'
<1>1. CASE \E d \in Desks :
             \/ \E w \in Workers : AskNotice(d, w)
             \/ LookForNotice(d)
             \/ \E n \in DOMAIN notices : AskCancel(d, n) \/ AskBanNow(d, n)
  BY <1>1, AskKeeps
<1>2. CASE \E d \in Desks : RaiseNotice(d) \/ Cancel(d)
  BY <1>2, RaiseKeeps, CancelKeeps
<1>3. CASE StartSweep \/ TakeNext
  BY <1>3, SweepKeeps
<1>4. CASE \E r \in Runners : Reread(r) \/ Apply(r) \/ Fail(r)
  BY <1>4, RereadKeeps, ApplyKeeps, FailKeeps
<1>5. CASE GoDown \/ Tick \/ (\E w \in Workers : SetAccountStatus(w)) \/ UNCHANGED banVars
  BY <1>5, RestKeeps
<1> QED
  BY <1>1, <1>2, <1>3, <1>4, <1>5 DEF BansNext

\* None of it is owed to fairness.
BansSafe == BansInit /\ [][BansNext]_banVars

LEMMA RipeAlways == BansSafe => []BansInv
<1>1. BansInit => BansInv
  BY TicksAssumption, BoundsAssumption
    DEF BansInit, BansInv, BansTypeOK, InHand, HandRipe, NoticeRipe
<1>2. BansInv /\ [BansNext]_banVars => BansInv'
  BY StepKeeps
<1> QED
  BY <1>1, <1>2, PTL DEF BansSafe

\* The invariant holds throughout.
THEOREM RipeThroughout == BansSpec => []BansInv
BY RipeAlways, PTL DEF BansSafe, BansSpec

\* Every variable keeps its shape.
THEOREM BansTyping == BansSpec => []BansTypeOK
BY RipeThroughout, PTL DEF BansInv

LEMMA WindowAlways == BansSafe => WindowStands
<1>1. ASSUME BansInv, BansNext, NEW n \in DOMAIN notices, n \notin byHand,
             notices'[n].status # notices[n].status
      PROVE  /\ notices'[n].status = "EXECUTED" => Ripe(n)
             /\ notices'[n].status = "CANCELLED" /\ now < notices[n].due => Scheduled(n)
  <2>1. BansTypeOK /\ n \in 1..Len(notices) /\ notices \in Seq(Notice)
    BY <1>1, NoticeFields DEF BansInv, BansTypeOK
  <2>2. now \in Nat /\ notices[n].due \in Nat
    BY <2>1, NoticeFields
  <2>3. notices[n].status \in {"SCHEDULED", "CANCELLED", "EXECUTED"}
    BY <2>1, NoticeFields DEF Notice
  <2>4. notices'[n].status = "CANCELLED" /\ now < notices[n].due => Scheduled(n)
    BY <1>1, <2>2, <2>3 DEF BansInv, NoticeRipe, Ripe, Scheduled
  <2>5. ASSUME notices'[n].status = "EXECUTED"
        PROVE  \E r \in Runners : Apply(r) /\ desk[r].notice = n
    <3>1. CASE \E d \in Desks : RaiseNotice(d)
      BY <1>1, <2>1, <2>5, <3>1, AppendProperties DEF RaiseNotice
    <3>2. CASE \E d \in Desks : Cancel(d)
      BY <1>1, <2>1, <2>5, <3>2 DEF Cancel
    <3>3. CASE \E r \in Runners : Apply(r)
      BY <1>1, <2>1, <2>5, <3>3 DEF Apply
    <3>4. CASE notices' = notices
      BY <1>1, <3>4
    <3> QED
      BY <1>1, <3>1, <3>2, <3>3, <3>4
        DEF BansNext, AskNotice, LookForNotice, AskCancel, AskBanNow, SetAccountStatus,
            StartSweep, TakeNext, Reread, Fail, GoDown, Tick
  <2>6. notices'[n].status = "EXECUTED" => Ripe(n)
    BY <1>1, <2>5 DEF BansInv, HandRipe, Apply, Doing
  <2> QED
    BY <2>4, <2>6
<1>2. BansInv /\ [BansNext]_banVars =>
        [\A n \in DOMAIN notices :
           n \notin byHand /\ notices'[n].status # notices[n].status =>
             /\ notices'[n].status = "EXECUTED" =>
                  now >= notices[n].due /\ notices[n].cancelled \notin 0..(notices[n].due - 1)
             /\ notices'[n].status = "CANCELLED" /\ now < notices[n].due => Scheduled(n)
        ]_banVars
  BY <1>1 DEF Ripe
<1> QED
  BY <1>2, RipeAlways, PTL DEF BansSafe, WindowStands

\* "They have the whole window to respond or appeal": without "ban now" a notice
\* takes effect only once its time has come and unless it was cancelled before
\* (backend/src/bans/bans.service.ts), whatever fails and whoever crosses whom.
THEOREM TheWindowStands == BansSpec => WindowStands
BY WindowAlways, PTL DEF BansSafe, BansSpec

-----------------------------------------------------------------------------
(* Side by side, as they are run.                                           *)

LEMMA LiveParts == LiveSpec => Spec /\ BansSafe
<1>1. LiveInit => Init /\ BansInit
  BY DEF LiveInit
<1>2. [LiveNext]_<<part, vars, banVars>> => [Next]_vars
  BY DEF LiveNext
<1>3. [LiveNext]_<<part, vars, banVars>> => [BansNext]_banVars
  BY DEF LiveNext
<1> QED
  BY <1>1, <1>2, <1>3, PTL DEF LiveSpec, Spec, BansSafe

\* Every variable of both keeps its shape, whichever of the two moves.
THEOREM LiveTyping == LiveSpec => []LiveTypeOK
<1>1. BansInv => BansTypeOK
  BY DEF BansInv
<1> QED
  BY <1>1, LiveParts, TopUpTyping, RipeAlways, PTL DEF LiveTypeOK

\* And what is promised of each on its own is kept beside the other.
THEOREM LiveKeeps == LiveSpec => []OnlyConfirmedMoney /\ DecidedStays /\ WindowStands
BY LiveParts, ConfirmedBeforeCredit, DecisionsStand, WindowAlways, PTL

=============================================================================
