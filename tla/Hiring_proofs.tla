---------------------------- MODULE Hiring_proofs ----------------------------
(***************************************************************************)
(* Hires, proved for any number of postings, people, shifts and handlers.   *)
(*                                                                         *)
(* What the proofs turn on: an assignment under way has its two rows locked *)
(* and knows what they hold, and nobody takes a shift from its owner but an *)
(* assignment of that owner's place. Every other step is gentle with a row: *)
(* it lets the marks of a hire stand.                                       *)
(***************************************************************************)
EXTENDS Hiring, SequenceTheorems, TLAPS

Assigning(h) == task[h].at = "assign"

\* What an assignment under way knows of its two rows and of the shifts it moves.
AssignHolds(h) ==
  Assigning(h) =>
    LET j == task[h].job  w == task[h].worker  r == task[h].replacement IN
    /\ r # w
    /\ OnTheJob(app[j][w]) /\ app[j][w].flagged
    /\ app[j][r].status = "SHORTLISTED"
    /\ \A s \in task[h].coming : shift[s] # None /\ shift[s].job = j /\ shift[s].worker = w

Rows(h) == {task[h].worker, task[h].replacement}

\* No two assignments of one posting share a row.
Apart ==
  \A h, k \in Handlers :
    h # k /\ Assigning(h) /\ Assigning(k) /\ task[h].job = task[k].job =>
      Rows(h) \cap Rows(k) = {}

\* A handler that is about to write a shift, or to cover one, read one that exists.
ShiftRead(h) ==
  /\ task[h].at \in {"checkIn", "checkOut", "cancel"} => shift[task[h].shift] # None
  /\ task[h].at = "cover" => shift[task[h].gap] # None

HiringInv ==
  /\ TypeOK
  /\ ReplacedStaysFlagged
  /\ ShiftHasApplication
  /\ Apart
  /\ \A h \in Handlers : AssignHolds(h) /\ ShiftRead(h)

-----------------------------------------------------------------------------
(* Tasks.                                                                  *)

\* What each task remembers.
LEMMA TaskFields ==
  ASSUME NEW t \in Task
  PROVE  /\ t.at \in {"apply", "interview"} => t.job \in Jobs /\ t.worker \in Workers
         /\ t.at = "assign" =>
              /\ t.job \in Jobs /\ t.worker \in Workers /\ t.replacement \in Workers
              /\ t.coming \subseteq ShiftIds
         /\ t.at = "cover" => t.gap \in ShiftIds /\ t.worker \in Workers
         /\ t.at = "checkIn" => t.shift \in ShiftIds /\ t.worker \in Workers
         /\ t.at = "checkOut" => t.shift \in ShiftIds /\ t.record \in 1..MaxRecords
         /\ t.at = "cancel" => t.shift \in ShiftIds
<1>1. CASE t = Idle
  BY <1>1 DEF Idle
<1>2. CASE t \in [at : {"apply", "interview"}, job : Jobs, worker : Workers]
  BY <1>2
<1>3. CASE t \in [at : {"assign"}, job : Jobs, worker : Workers, replacement : Workers,
                  coming : SUBSET ShiftIds]
  BY <1>3
<1>4. CASE t \in [at : {"cover"}, gap : ShiftIds, worker : Workers]
  BY <1>4
<1>5. CASE t \in [at : {"checkIn"}, shift : ShiftIds, worker : Workers]
  BY <1>5
<1>6. CASE t \in [at : {"checkOut"}, shift : ShiftIds, record : 1..MaxRecords]
  BY <1>6
<1>7. CASE t \in [at : {"cancel"}, shift : ShiftIds]
  BY <1>7
<1> QED
  BY <1>1, <1>2, <1>3, <1>4, <1>5, <1>6, <1>7 DEF Task

\* What the handlers take up is a task.
LEMMA TaskMade ==
  /\ Idle \in Task
  /\ \A j \in Jobs, w \in Workers :
       /\ [at |-> "apply", job |-> j, worker |-> w] \in Task
       /\ [at |-> "interview", job |-> j, worker |-> w] \in Task
       /\ \A r \in Workers, C \in SUBSET ShiftIds :
            [at |-> "assign", job |-> j, worker |-> w, replacement |-> r, coming |-> C] \in Task
  /\ \A s \in ShiftIds, w \in Workers :
       /\ [at |-> "cover", gap |-> s, worker |-> w] \in Task
       /\ [at |-> "checkIn", shift |-> s, worker |-> w] \in Task
  /\ \A s \in ShiftIds :
       /\ [at |-> "cancel", shift |-> s] \in Task
       /\ \A i \in 1..MaxRecords : [at |-> "checkOut", shift |-> s, record |-> i] \in Task
BY DEF Task

\* One handler's task changes.
LEMMA OneTask ==
  ASSUME TypeOK, NEW h \in Handlers, NEW t \in Task, Do(h, t)
  PROVE  /\ task' \in [Handlers -> Task] /\ task'[h] = t
         /\ \A k \in Handlers : k # h => task'[k] = task[k]
BY DEF TypeOK, Do

-----------------------------------------------------------------------------
(* Rows.                                                                   *)

\* Whoever's row is locked has it in one of two statuses.
LEMMA LockedStatus ==
  ASSUME HiringInv, NEW j \in Jobs, NEW w \in Workers, Locked(j, w)
  PROVE  app[j][w].status \in {"ACCEPTED", "SHORTLISTED"}
BY DEF HiringInv, AssignHolds, Assigning, Locked, OnTheJob

\* Writing one row.
LEMMA OneRow ==
  ASSUME TypeOK, NEW j \in Jobs, NEW w \in Workers, NEW row \in Row,
         app' = [app EXCEPT ![j][w] = row]
  PROVE  /\ app' \in [Jobs -> [Workers -> Row]]
         /\ app'[j][w] = row
         /\ \A k \in Jobs, v \in Workers : k # j \/ v # w => app'[k][v] = app[k][v]
BY DEF TypeOK

\* A step is gentle with a row if it leaves a locked one alone and lets the marks
\* of a hire stand; a flag may go while nobody has replaced the person.
Gentle(j, w) ==
  LET old == app[j][w]  new == app'[j][w] IN
  /\ Locked(j, w) => new = old
  /\ new.replacedBy = old.replacedBy
  /\ old.ended => new.ended
  /\ old.flagged /\ old.replacedBy # None => new.flagged
  /\ old.status # "NONE" => new.status # "NONE"

AppsGentle ==
  /\ app' \in [Jobs -> [Workers -> Row]]
  /\ \A j \in Jobs, w \in Workers : Gentle(j, w)

LEMMA RowGentle ==
  ASSUME TypeOK, NEW j \in Jobs, NEW w \in Workers, NEW row \in Row,
         app' = [app EXCEPT ![j][w] = row], ~Locked(j, w),
         row.replacedBy = app[j][w].replacedBy,
         app[j][w].ended => row.ended,
         app[j][w].flagged /\ app[j][w].replacedBy # None => row.flagged,
         app[j][w].status # "NONE" => row.status # "NONE"
  PROVE  AppsGentle /\ app'[j][w] = row
<1>1. /\ app' \in [Jobs -> [Workers -> Row]] /\ app'[j][w] = row
      /\ \A k \in Jobs, v \in Workers : k # j \/ v # w => app'[k][v] = app[k][v]
  BY OneRow
<1>2. Gentle(j, w)
  BY <1>1 DEF Gentle
<1>3. ASSUME NEW k \in Jobs, NEW v \in Workers, k # j \/ v # w PROVE Gentle(k, v)
  <2>1. app'[k][v] = app[k][v]
    BY <1>1, <1>3
  <2> QED
    BY <2>1 DEF Gentle
<1> QED
  BY <1>1, <1>2, <1>3 DEF AppsGentle

LEMMA SameRowsGentle ==
  ASSUME TypeOK, app' = app
  PROVE  AppsGentle
BY DEF TypeOK, AppsGentle, Gentle

\* A status is set, of a row that is not locked or that nobody has applied with.
LEMMA StatusGentle ==
  ASSUME HiringInv, NEW j \in Jobs, NEW w \in Workers,
         NEW status \in ApplicationStatus \ {"NONE"},
         ~Locked(j, w) \/ ~Applied(j, w), SetStatus(j, w, status)
  PROVE  AppsGentle /\ app'[j][w].status = status
<1> DEFINE row == [app[j][w] EXCEPT !.status = status]
<1>1. TypeOK /\ app[j][w] \in Row
  BY DEF HiringInv, TypeOK
<1>2. /\ row \in Row /\ row.status = status /\ row.ended = app[j][w].ended
      /\ row.flagged = app[j][w].flagged /\ row.replacedBy = app[j][w].replacedBy
  BY <1>1 DEF Row
<1>3. app' = [app EXCEPT ![j][w] = row]
  BY DEF SetStatus
<1> HIDE DEF row
<1>4. ~Locked(j, w)
  BY LockedStatus DEF Applied
<1>5. /\ row.status # "NONE" /\ row.replacedBy = app[j][w].replacedBy
      /\ app[j][w].ended => row.ended
      /\ app[j][w].flagged /\ app[j][w].replacedBy # None => row.flagged
  BY <1>2
<1>6. row \in Row
  BY <1>2
<1>7. AppsGentle /\ app'[j][w] = row
  BY <1>1, <1>3, <1>4, <1>5, <1>6, RowGentle
<1> QED
  BY <1>2, <1>7

\* Rows of applications that wait are promoted; no locked one waits.
LEMMA PromoteGentle ==
  ASSUME HiringInv, NEW j \in Jobs, NEW ws \in SUBSET Workers,
         NEW from \in SUBSET {"SUBMITTED", "VIEWED"},
         NEW to \in {"VIEWED", "SHORTLISTED"}, Promote(j, ws, from, to)
  PROVE  AppsGentle
<1>1. TypeOK
  BY DEF HiringInv
<1>2. ASSUME NEW w \in Workers
      PROVE  LET row == [app[j][w] EXCEPT !.status = to]
             IN  /\ row \in Row /\ row.status = to /\ row.ended = app[j][w].ended
                 /\ row.flagged = app[j][w].flagged /\ row.replacedBy = app[j][w].replacedBy
  <2>1. app[j][w] \in Row
    BY <1>1 DEF TypeOK
  <2>2. to \in ApplicationStatus
    BY DEF ApplicationStatus, Decisions
  <2> QED
    BY <2>1, <2>2 DEF Row
<1>3. ASSUME NEW w \in Workers
      PROVE  \/ app'[j][w] = app[j][w]
             \/ /\ app'[j][w] = [app[j][w] EXCEPT !.status = to]
                /\ app[j][w].status \in from
  BY <1>1 DEF Promote, TypeOK
<1>4. \A k \in Jobs, v \in Workers : k # j => app'[k][v] = app[k][v]
  BY <1>1 DEF Promote, TypeOK
<1>5. ASSUME NEW w \in Workers PROVE app'[j][w] \in Row /\ Gentle(j, w)
  <2>1. CASE app'[j][w] = app[j][w]
    BY <1>1, <2>1 DEF TypeOK, Gentle
  <2>2. CASE app'[j][w] = [app[j][w] EXCEPT !.status = to] /\ app[j][w].status \in from
    <3>1. ~Locked(j, w)
      BY <2>2, LockedStatus
    <3> QED
      BY <1>2, <2>2, <3>1 DEF Gentle
  <2> QED
    BY <1>3, <2>1, <2>2
<1>6. app' \in [Jobs -> [Workers -> Row]]
  <2>1. app'[j] = [w \in Workers |-> app'[j][w]]
    BY <1>1 DEF Promote, TypeOK
  <2>2. app'[j] \in [Workers -> Row]
    BY <1>5, <2>1
  <2>3. app' = [app EXCEPT ![j] = app'[j]]
    BY <1>1 DEF Promote, TypeOK
  <2> QED
    BY <1>1, <2>2, <2>3 DEF TypeOK
<1>7. \A k \in Jobs, v \in Workers : k # j => Gentle(k, v)
  BY <1>4 DEF Gentle
<1> QED
  BY <1>5, <1>6, <1>7 DEF AppsGentle

\* Marks of a hire are set and taken back on the job.
LEMMA MarksGentle ==
  ASSUME HiringInv, NEW j \in Jobs, NEW w \in Workers,
         Complete(j, w) \/ MarkUnavailable(j, w) \/ MarkAvailable(j, w)
  PROVE  AppsGentle
<1>1. TypeOK /\ app[j][w] \in Row /\ ~Locked(j, w)
  BY DEF HiringInv, TypeOK, Complete, MarkUnavailable, MarkAvailable
<1>2. CASE Complete(j, w)
  <2> DEFINE row == [app[j][w] EXCEPT !.ended = TRUE]
  <2>1. /\ row \in Row /\ row.status = app[j][w].status /\ row.ended
        /\ row.flagged = app[j][w].flagged /\ row.replacedBy = app[j][w].replacedBy
    BY <1>1 DEF Row
  <2>2. app' = [app EXCEPT ![j][w] = row]
    BY <1>2 DEF Complete
  <2> HIDE DEF row
  <2> QED
    BY <1>1, <2>1, <2>2, RowGentle
<1>3. CASE MarkUnavailable(j, w)
  <2> DEFINE row == [app[j][w] EXCEPT !.flagged = TRUE]
  <2>1. /\ row \in Row /\ row.status = app[j][w].status /\ row.ended = app[j][w].ended
        /\ row.flagged /\ row.replacedBy = app[j][w].replacedBy
    BY <1>1 DEF Row
  <2>2. app' = [app EXCEPT ![j][w] = row]
    BY <1>3 DEF MarkUnavailable
  <2> HIDE DEF row
  <2> QED
    BY <1>1, <2>1, <2>2, RowGentle
<1>4. CASE MarkAvailable(j, w)
  <2> DEFINE row == [app[j][w] EXCEPT !.flagged = FALSE]
  <2>1. /\ row \in Row /\ row.status = app[j][w].status /\ row.ended = app[j][w].ended
        /\ row.replacedBy = app[j][w].replacedBy
    BY <1>1 DEF Row
  <2>2. app' = [app EXCEPT ![j][w] = row] /\ app[j][w].replacedBy = None
    BY <1>4 DEF MarkAvailable, OnTheJob
  <2> HIDE DEF row
  <2> QED
    BY <1>1, <2>1, <2>2, RowGentle
<1> QED
  BY <1>2, <1>3, <1>4
-----------------------------------------------------------------------------
(* Steps.                                                                  *)

\* Shifts come and change status, and stay where and whose they are.
ShiftsGentle ==
  /\ shift' \in [ShiftIds -> Shift \cup {None}]
  /\ \A s \in ShiftIds : shift[s] # None =>
       /\ shift'[s] # None
       /\ shift'[s].job = shift[s].job /\ shift'[s].worker = shift[s].worker

\* What every step but the commit of an assignment does.
GentleStep == HiringInv' /\ AppsGentle /\ ShiftsGentle

\* A step that is gentle with rows and shifts, and takes up no assignment.
LEMMA GentleKeeps ==
  ASSUME HiringInv, AppsGentle, ShiftsGentle,
         \A s \in ShiftIds : shift[s] = None /\ shift'[s] # None =>
           app'[shift'[s].job][shift'[s].worker].status # "NONE",
         records' \in Seq(Record), Len(records') <= MaxRecords, now' \in 0..Horizon,
         task' \in [Handlers -> Task],
         \A h \in Handlers :
           task'[h] = task[h] \/ (task'[h].at # "assign" /\ ShiftRead(h)')
  PROVE  GentleStep
<1>1. TypeOK /\ TypeOK'
  BY DEF HiringInv, TypeOK, AppsGentle, ShiftsGentle
<1>2. ASSUME NEW j \in Jobs, NEW w \in Workers
      PROVE  app'[j][w].replacedBy # None =>
               app'[j][w].flagged /\ app'[j][w].ended /\ app'[j][w].replacedBy # w
  BY DEF HiringInv, ReplacedStaysFlagged, AppsGentle, Gentle
<1>3. ASSUME NEW s \in ShiftIds, shift'[s] # None
      PROVE  app'[shift'[s].job][shift'[s].worker].status # "NONE"
  <2>1. CASE shift[s] = None
    BY <1>3, <2>1
  <2>2. CASE shift[s] # None
    <3>1. /\ shift'[s].job = shift[s].job /\ shift'[s].worker = shift[s].worker
          /\ app[shift[s].job][shift[s].worker].status # "NONE"
      BY <2>2 DEF HiringInv, ShiftHasApplication, Applied, ShiftsGentle
    <3>2. shift[s].job \in Jobs /\ shift[s].worker \in Workers
      BY <1>1, <2>2 DEF TypeOK, Shift
    <3> QED
      BY <3>1, <3>2 DEF AppsGentle, Gentle
  <2> QED
    BY <2>1, <2>2
<1>4. ASSUME NEW h \in Handlers PROVE AssignHolds(h)' /\ ShiftRead(h)'
  <2>1. CASE task'[h] = task[h]
    <3>1. task[h] \in Task /\ AssignHolds(h) /\ ShiftRead(h)
      BY <1>1 DEF HiringInv, TypeOK
    <3>2. ShiftRead(h)'
      BY <2>1, <3>1, TaskFields DEF ShiftRead, ShiftsGentle
    <3>3. AssignHolds(h)'
      <4> SUFFICES ASSUME Assigning(h)' PROVE AssignHolds(h)'
        BY DEF AssignHolds
      <4> DEFINE j == task[h].job
                 w == task[h].worker
                 r == task[h].replacement
      <4>1. Assigning(h) /\ j \in Jobs /\ w \in Workers /\ r \in Workers /\ task[h].coming \subseteq ShiftIds
        BY <2>1, <3>1, TaskFields DEF Assigning
      <4>2. Locked(j, w) /\ Locked(j, r)
        BY <4>1 DEF Locked, Assigning
      <4>3. app'[j][w] = app[j][w] /\ app'[j][r] = app[j][r]
        BY <4>1, <4>2 DEF AppsGentle, Gentle
      <4>4. \A s \in task[h].coming :
              shift'[s] # None /\ shift'[s].job = j /\ shift'[s].worker = w
        BY <3>1, <4>1 DEF AssignHolds, ShiftsGentle
      <4> QED
        BY <2>1, <3>1, <4>1, <4>3, <4>4 DEF AssignHolds, OnTheJob
    <3> QED
      BY <3>2, <3>3
  <2>2. CASE task'[h].at # "assign" /\ ShiftRead(h)'
    BY <2>2 DEF AssignHolds, Assigning
  <2> QED
    BY <2>1, <2>2
<1>5. Apart'
  BY DEF HiringInv, Apart, Assigning, Rows
<1> QED
  BY <1>1, <1>2, <1>3, <1>4, <1>5
    DEF GentleStep, HiringInv, ReplacedStaysFlagged, ShiftHasApplication, Applied

\* A step that touches rows only.
LEMMA RowsOnly ==
  ASSUME HiringInv, AppsGentle, UNCHANGED <<shift, records, task, now>>
  PROVE  GentleStep
<1>1. ShiftsGentle
  BY DEF HiringInv, TypeOK, ShiftsGentle
<1> QED
  BY <1>1, GentleKeeps DEF HiringInv, TypeOK

\* A step of one handler that leaves the shifts alone.
LEMMA OneHandler ==
  ASSUME HiringInv, AppsGentle, NEW h \in Handlers, NEW t \in Task, Do(h, t),
         UNCHANGED <<shift, records, now>>,
         t.at # "assign" /\ ShiftRead(h)'
  PROVE  GentleStep
<1>1. ShiftsGentle
  BY DEF HiringInv, TypeOK, ShiftsGentle
<1>2. task' \in [Handlers -> Task] /\ task'[h] = t /\ \A k \in Handlers : k # h => task'[k] = task[k]
  BY OneTask DEF HiringInv
<1> QED
  BY <1>1, <1>2, GentleKeeps DEF HiringInv, TypeOK

LEMMA ApplicationsKeep ==
  ASSUME HiringInv, Applications
  PROVE  GentleStep
<1>1. TypeOK
  BY DEF HiringInv
<1>2. ASSUME NEW h \in Handlers, NEW j \in Jobs, NEW w \in Workers,
             ApplyRead(h, j, w) \/ InterviewRead(h, j, w)
      PROVE  GentleStep
  <2>1. AppsGentle
    BY <1>1, <1>2, SameRowsGentle DEF ApplyRead, InterviewRead
  <2>2. ASSUME NEW t \in Task, t.at \in {"apply", "interview"}, Do(h, t) PROVE GentleStep
    <3>1. ShiftRead(h)'
      BY <1>1, <2>2, OneTask DEF ShiftRead
    <3> QED
      BY <1>2, <2>1, <2>2, <3>1, OneHandler DEF ApplyRead, InterviewRead
  <2> QED
    BY <1>2, <2>2, TaskMade DEF ApplyRead, InterviewRead
<1>3. ASSUME NEW h \in Handlers, ApplyWrite(h) \/ InterviewWrite(h) PROVE GentleStep
  <2> DEFINE j == task[h].job
             w == task[h].worker
             status == IF task[h].at = "apply" THEN "SUBMITTED" ELSE "SHORTLISTED"
  <2>1. task[h] \in Task /\ task[h].at \in {"apply", "interview"}
    BY <1>1, <1>3 DEF TypeOK, ApplyWrite, InterviewWrite
  <2>2. j \in Jobs /\ w \in Workers
    BY <2>1, TaskFields
  <2>3. /\ ~Locked(j, w) /\ SetStatus(j, w, status) /\ Do(h, Idle)
        /\ UNCHANGED <<shift, records, now>>
    BY <1>3 DEF ApplyWrite, InterviewWrite
  <2>4. status \in ApplicationStatus \ {"NONE"}
    BY DEF ApplicationStatus, Decisions
  <2>5. AppsGentle
    BY <2>2, <2>3, <2>4, StatusGentle
  <2>6. Idle.at # "assign" /\ ShiftRead(h)'
    BY <1>1, <2>3, TaskMade, OneTask DEF Idle, ShiftRead
  <2> QED
    BY <2>3, <2>5, <2>6, TaskMade, OneHandler
<1>4. ASSUME NEW j \in Jobs, NEW w \in Workers,
             Withdraw(j, w) \/ \E status \in Decisions : Decide(j, w, status) \/ ConsoleDecide(j, w, status)
      PROVE  GentleStep
  <2>1. PICK status \in ApplicationStatus \ {"NONE"} :
          /\ ~Locked(j, w) /\ SetStatus(j, w, status) /\ UNCHANGED <<shift, records, task, now>>
    BY <1>4 DEF Withdraw, Decide, ConsoleDecide, ApplicationStatus, Decisions
  <2> QED
    BY <2>1, StatusGentle, RowsOnly
<1>5. ASSUME NEW j \in Jobs, View(j) \/ \E ws \in SUBSET Workers : ShortlistAll(j, ws)
      PROVE  GentleStep
  <2>1. UNCHANGED <<shift, records, task, now>>
    BY <1>5 DEF View, ShortlistAll, Promote
  <2>2. CASE View(j)
    <3>1. AppsGentle
      BY <2>2, PromoteGentle DEF View
    <3> QED
      BY <2>1, <3>1, RowsOnly
  <2>3. ASSUME NEW ws \in SUBSET Workers, ShortlistAll(j, ws) PROVE GentleStep
    <3>1. AppsGentle
      BY <2>3, PromoteGentle DEF ShortlistAll
    <3> QED
      BY <2>1, <3>1, RowsOnly
  <2> QED
    BY <1>5, <2>2, <2>3
<1> QED
  BY <1>2, <1>3, <1>4, <1>5 DEF Applications
\* What the commit of an assignment does to the rows of its posting.
LEMMA CommitEffect ==
  ASSUME HiringInv, NEW h \in Handlers, AssignCommit(h)
  PROVE  LET j == task[h].job  w == task[h].worker  r == task[h].replacement IN
         /\ Assigning(h) /\ j \in Jobs /\ w \in Workers /\ r \in Workers /\ r # w
         /\ OnTheJob(app[j][w]) /\ app[j][w].flagged /\ app[j][r].status = "SHORTLISTED"
         /\ app' \in [Jobs -> [Workers -> Row]]
         /\ app'[j][w] = [app[j][w] EXCEPT !.ended = TRUE, !.replacedBy = r]
         /\ app'[j][w].status = "ACCEPTED" /\ app'[j][w].ended /\ app'[j][w].flagged
         /\ app'[j][w].replacedBy = r
         /\ app'[j][r] = [Fresh("ACCEPTED") EXCEPT !.replaces = w]
         /\ app'[j][r].status = "ACCEPTED" /\ ~app'[j][r].ended
         /\ app'[j][r].replacedBy = None /\ app'[j][r].replaces = w
         /\ \A k \in Jobs, v \in Workers :
              k # j \/ v \notin {w, r} => app'[k][v] = app[k][v]
<1> DEFINE j == task[h].job
           w == task[h].worker
           r == task[h].replacement
           left == [app[j][w] EXCEPT !.ended = TRUE, !.replacedBy = r]
           came == [Fresh("ACCEPTED") EXCEPT !.replaces = w]
<1>1. TypeOK /\ task[h] \in Task /\ Assigning(h)
  BY DEF HiringInv, TypeOK, AssignCommit, Assigning
<1>2. j \in Jobs /\ w \in Workers /\ r \in Workers
  BY <1>1, TaskFields DEF Assigning
<1>3. r # w /\ OnTheJob(app[j][w]) /\ app[j][w].flagged /\ app[j][r].status = "SHORTLISTED"
  BY <1>1 DEF HiringInv, AssignHolds
<1>4. app[j][w] \in Row
  BY <1>1, <1>2 DEF TypeOK
<1>5. /\ left \in Row /\ left.status = "ACCEPTED" /\ left.ended = TRUE
      /\ left.flagged = app[j][w].flagged /\ left.replacedBy = r
  BY <1>2, <1>3, <1>4 DEF Row, OnTheJob
<1>6. /\ came \in Row /\ came.status = "ACCEPTED" /\ came.ended = FALSE
      /\ came.replacedBy = None /\ came.replaces = w
  BY <1>2 DEF Row, Fresh, ApplicationStatus, Decisions
<1>7. app' = [app EXCEPT ![j][w].ended = TRUE, ![j][w].replacedBy = r, ![j][r] = came]
  BY DEF AssignCommit
<1>8. app' \in [Jobs -> [Workers -> Row]] /\ app'[j][w] = left /\ app'[j][r] = came
  <2>1. app'[j] = [app[j] EXCEPT ![w] = left, ![r] = came]
    BY <1>1, <1>2, <1>3, <1>7 DEF TypeOK
  <2>2. app' = [app EXCEPT ![j] = app'[j]]
    BY <1>1, <1>2, <1>7 DEF TypeOK
  <2> HIDE DEF left, came
  <2>3. app'[j] \in [Workers -> Row] /\ app'[j][w] = left /\ app'[j][r] = came
    BY <1>1, <1>2, <1>3, <1>5, <1>6, <2>1 DEF TypeOK
  <2> QED
    BY <1>1, <1>2, <2>2, <2>3 DEF TypeOK
<1>9. \A k \in Jobs, v \in Workers : k # j \/ v \notin {w, r} => app'[k][v] = app[k][v]
  BY <1>1, <1>2, <1>7 DEF TypeOK
<1> QED
  BY <1>1, <1>2, <1>3, <1>5, <1>6, <1>8, <1>9

\* An assignment is taken up with its rows free.
LEMMA AssignReadKeeps ==
  ASSUME HiringInv, NEW h \in Handlers, NEW j \in Jobs, NEW w \in Workers, NEW r \in Workers,
         AssignRead(h, j, w, r)
  PROVE  GentleStep
<1> DEFINE t == [at |-> "assign", job |-> j, worker |-> w, replacement |-> r,
                 coming |-> Coming(j, w)]
<1>1. TypeOK /\ Coming(j, w) \in SUBSET ShiftIds
  BY DEF HiringInv, Coming
<1>2. t \in Task
  BY <1>1, TaskMade
<1>3. UNCHANGED <<app, shift, records, now>> /\ Do(h, t)
  BY DEF AssignRead
<1>4. task' \in [Handlers -> Task] /\ task'[h] = t /\ \A k \in Handlers : k # h => task'[k] = task[k]
  BY <1>1, <1>2, <1>3, OneTask
<1>5. TypeOK' /\ ReplacedStaysFlagged' /\ ShiftHasApplication'
  BY <1>3, <1>4 DEF HiringInv, TypeOK, ReplacedStaysFlagged, ShiftHasApplication, Applied
<1>6. AssignHolds(h)' /\ ShiftRead(h)'
  <2>1. \A s \in Coming(j, w) : shift[s] # None /\ shift[s].job = j /\ shift[s].worker = w
    BY DEF Coming, In
  <2> QED
    BY <1>3, <1>4, <2>1 DEF AssignRead, AssignHolds, ShiftRead, OnTheJob
<1>7. \A k \in Handlers : k # h => AssignHolds(k)' /\ ShiftRead(k)'
  BY <1>3, <1>4 DEF HiringInv, AssignHolds, Assigning, ShiftRead, OnTheJob
<1>8. Apart'
  <2>1. ASSUME NEW k \in Handlers, k # h, Assigning(k), task[k].job = j
        PROVE  {w, r} \cap Rows(k) = {}
    BY <2>1 DEF AssignRead, Locked, Assigning, Rows
  <2> SUFFICES ASSUME NEW i \in Handlers, NEW k \in Handlers, i # k, Assigning(i)', Assigning(k)',
                      task'[i].job = task'[k].job
               PROVE  Rows(i)' \cap Rows(k)' = {}
    BY DEF Apart
  <2>2. CASE i = h
    <3>1. Rows(i)' = {w, r} /\ Rows(k)' = Rows(k) /\ Assigning(k) /\ task[k].job = j
      BY <1>4, <2>2 DEF Rows, Assigning
    <3> QED
      BY <2>1, <2>2, <3>1
  <2>3. CASE k = h
    <3>1. Rows(k)' = {w, r} /\ Rows(i)' = Rows(i) /\ Assigning(i) /\ task[i].job = j
      BY <1>4, <2>3 DEF Rows, Assigning
    <3> QED
      BY <2>1, <2>3, <3>1
  <2>4. CASE i # h /\ k # h
    BY <1>4, <2>4 DEF HiringInv, Apart, Rows, Assigning
  <2> QED
    BY <2>2, <2>3, <2>4
<1>9. AppsGentle /\ ShiftsGentle
  BY <1>1, <1>3, SameRowsGentle DEF TypeOK, ShiftsGentle
<1> QED
  BY <1>5, <1>6, <1>7, <1>8, <1>9 DEF GentleStep, HiringInv

\* Its commit leaves the rows and the shifts of every other assignment alone.
LEMMA AssignCommitKeeps ==
  ASSUME HiringInv, NEW h \in Handlers, AssignCommit(h)
  PROVE  HiringInv'
<1> DEFINE j == task[h].job
           w == task[h].worker
           r == task[h].replacement
<1>1. /\ TypeOK /\ Assigning(h) /\ task[h] \in Task
      /\ UNCHANGED <<records, now>> /\ Do(h, Idle)
      /\ shift' = [s \in ShiftIds |->
           IF s \in task[h].coming THEN [shift[s] EXCEPT !.worker = r] ELSE shift[s]]
  BY DEF HiringInv, TypeOK, AssignCommit, Assigning
<1>2. /\ j \in Jobs /\ w \in Workers /\ r \in Workers /\ r # w
      /\ app' \in [Jobs -> [Workers -> Row]]
      /\ app'[j][w].status = "ACCEPTED" /\ app'[j][w].ended /\ app'[j][w].flagged
      /\ app'[j][w].replacedBy = r
      /\ app'[j][r].status = "ACCEPTED" /\ app'[j][r].replacedBy = None
      /\ \A k \in Jobs, v \in Workers : k # j \/ v \notin {w, r} => app'[k][v] = app[k][v]
  BY CommitEffect
<1>3. /\ task' \in [Handlers -> Task] /\ task'[h] = Idle
      /\ \A k \in Handlers : k # h => task'[k] = task[k]
  BY <1>1, TaskMade, OneTask
<1>4. ASSUME NEW s \in ShiftIds
      PROVE  \/ /\ s \in task[h].coming /\ shift[s] \in Shift
                /\ shift[s].job = j /\ shift[s].worker = w
                /\ shift'[s] = [shift[s] EXCEPT !.worker = r]
                /\ shift'[s] \in Shift /\ shift'[s].job = j /\ shift'[s].worker = r
             \/ s \notin task[h].coming /\ shift'[s] = shift[s]
  <2>1. CASE s \in task[h].coming
    <3>1. shift[s] \in Shift /\ shift[s].job = j /\ shift[s].worker = w
      BY <1>1, <2>1 DEF HiringInv, AssignHolds, TypeOK
    <3>2. shift'[s] = [shift[s] EXCEPT !.worker = r]
      BY <1>1, <2>1
    <3> QED
      BY <1>2, <2>1, <3>1, <3>2 DEF Shift
  <2>2. CASE s \notin task[h].coming
    BY <1>1, <2>2
  <2> QED
    BY <2>1, <2>2
<1>5. \A s \in ShiftIds : shift[s] # None => shift'[s] # None
  BY <1>4, NoneIsNoShift
<1>6. shift' \in [ShiftIds -> Shift \cup {None}]
  <2>1. \A s \in ShiftIds : shift'[s] \in Shift \cup {None}
    BY <1>1, <1>4 DEF TypeOK
  <2>2. shift' = [s \in ShiftIds |-> shift'[s]]
    BY <1>1
  <2> QED
    BY <2>1, <2>2
<1>7. TypeOK'
  BY <1>1, <1>2, <1>3, <1>6 DEF TypeOK
<1>8. ReplacedStaysFlagged'
  <2>1. ASSUME NEW k \in Jobs, NEW v \in Workers, app'[k][v].replacedBy # None
        PROVE  app'[k][v].flagged /\ app'[k][v].ended /\ app'[k][v].replacedBy # v
    <3>1. CASE k # j \/ v \notin {w, r}
      BY <1>2, <2>1, <3>1 DEF HiringInv, ReplacedStaysFlagged
    <3>2. CASE k = j /\ v = w
      BY <1>2, <3>2
    <3>3. CASE k = j /\ v = r
      BY <1>2, <2>1, <3>3
    <3> QED
      BY <3>1, <3>2, <3>3
  <2> QED
    BY <2>1 DEF ReplacedStaysFlagged
<1>9. ShiftHasApplication'
  <2>1. ASSUME NEW s \in ShiftIds, shift'[s] # None
        PROVE  app'[shift'[s].job][shift'[s].worker].status # "NONE"
    <3>1. CASE s \in task[h].coming
      BY <1>2, <1>4, <3>1
    <3>2. CASE s \notin task[h].coming
      <4>1. /\ shift[s] \in Shift /\ shift'[s] = shift[s]
            /\ app[shift[s].job][shift[s].worker].status # "NONE"
        BY <1>1, <1>4, <2>1, <3>2 DEF HiringInv, TypeOK, ShiftHasApplication, Applied
      <4>2. shift[s].job \in Jobs /\ shift[s].worker \in Workers
        BY <4>1 DEF Shift
      <4> QED
        BY <1>2, <4>1, <4>2
    <3> QED
      BY <3>1, <3>2
  <2> QED
    BY <2>1 DEF ShiftHasApplication, Applied
<1>10. ASSUME NEW k \in Handlers PROVE AssignHolds(k)' /\ ShiftRead(k)'
  <2>1. CASE k = h
    BY <1>3, <2>1 DEF AssignHolds, ShiftRead, Assigning, Idle
  <2>2. CASE k # h
    <3>1. task'[k] = task[k] /\ task[k] \in Task /\ AssignHolds(k) /\ ShiftRead(k)
      BY <1>1, <1>3, <2>2 DEF HiringInv, TypeOK
    <3>2. ShiftRead(k)'
      BY <1>5, <3>1, TaskFields DEF ShiftRead
    <3>3. ASSUME Assigning(k) PROVE AssignHolds(k)'
      <4> DEFINE i == task[k].job
                 v == task[k].worker
                 q == task[k].replacement
      <4>1. i \in Jobs /\ v \in Workers /\ q \in Workers /\ task[k].coming \subseteq ShiftIds
        BY <3>1, <3>3, TaskFields DEF Assigning
      <4>2. i = j => {v, q} \cap {w, r} = {}
        BY <1>1, <2>2, <3>3 DEF HiringInv, Apart, Rows
      <4>3. app'[i][v] = app[i][v] /\ app'[i][q] = app[i][q]
        <5>1. i # j \/ (v \notin {w, r} /\ q \notin {w, r})
          BY <4>2
        <5> QED
          BY <1>2, <4>1, <5>1
      <4>4. ASSUME NEW s \in task[k].coming
            PROVE  shift'[s] # None /\ shift'[s].job = i /\ shift'[s].worker = v
        <5>1. shift[s] # None /\ shift[s].job = i /\ shift[s].worker = v
          BY <3>1, <3>3, <4>4 DEF AssignHolds
        <5>2. s \notin task[h].coming
          BY <1>4, <4>1, <4>2, <4>4, <5>1
        <5> QED
          BY <1>4, <4>1, <4>4, <5>1, <5>2
      <4> QED
        BY <3>1, <3>3, <4>3, <4>4 DEF AssignHolds, Assigning, OnTheJob
    <3> QED
      BY <3>1, <3>2, <3>3 DEF AssignHolds, Assigning
  <2> QED
    BY <2>1, <2>2
<1>11. Apart'
  <2>1. ASSUME NEW k \in Handlers, Assigning(k)' PROVE k # h /\ task'[k] = task[k] /\ Assigning(k)
    BY <1>3, <2>1 DEF Assigning, Idle
  <2> QED
    BY <2>1 DEF HiringInv, Apart, Rows
<1> QED
  BY <1>7, <1>8, <1>9, <1>10, <1>11 DEF HiringInv

LEMMA HiresKeep ==
  ASSUME HiringInv, Hires, ~ \E h \in Handlers : AssignCommit(h)
  PROVE  GentleStep
<1>1. ASSUME NEW j \in Jobs, NEW w \in Workers,
             Complete(j, w) \/ MarkUnavailable(j, w) \/ MarkAvailable(j, w)
      PROVE  GentleStep
  <2>1. UNCHANGED <<shift, records, task, now>>
    BY <1>1 DEF Complete, MarkUnavailable, MarkAvailable
  <2> QED
    BY <1>1, <2>1, MarksGentle, RowsOnly
<1> QED
  BY <1>1, AssignReadKeeps DEF Hires

\* A step of one handler that is gentle with rows and shifts and ends its task.
LEMMA TaskEnds ==
  ASSUME HiringInv, AppsGentle, ShiftsGentle, NEW h \in Handlers, Do(h, Idle),
         \A s \in ShiftIds : shift[s] = None /\ shift'[s] # None =>
           app'[shift'[s].job][shift'[s].worker].status # "NONE",
         records' \in Seq(Record), Len(records') <= MaxRecords, now' = now
  PROVE  GentleStep
<1>1. /\ task' \in [Handlers -> Task] /\ task'[h] = Idle
      /\ \A k \in Handlers : k # h => task'[k] = task[k]
  BY TaskMade, OneTask DEF HiringInv
<1>2. ASSUME NEW k \in Handlers PROVE task'[k] = task[k] \/ (task'[k].at # "assign" /\ ShiftRead(k)')
  BY <1>1 DEF ShiftRead, Idle
<1> QED
  BY <1>1, <1>2, GentleKeeps DEF HiringInv, TypeOK

\* The status of a shift that exists is set.
LEMMA StatusOfShift ==
  ASSUME TypeOK, NEW s \in ShiftIds, shift[s] # None, NEW status \in ShiftStatus,
         SetShift(s, status)
  PROVE  /\ ShiftsGentle /\ shift'[s] # None /\ shift'[s].status = status
         /\ \A u \in ShiftIds : u # s => shift'[u] = shift[u]
<1> DEFINE row == [shift[s] EXCEPT !.status = status]
<1>1. shift[s] \in Shift
  BY DEF TypeOK
<1>2. row \in Shift /\ row.status = status /\ row.job = shift[s].job /\ row.worker = shift[s].worker
  BY <1>1 DEF Shift
<1>3. shift' = [shift EXCEPT ![s] = row]
  BY DEF SetShift
<1> HIDE DEF row
<1>4. row # None
  BY <1>2, NoneIsNoShift
<1>5. /\ shift' \in [ShiftIds -> Shift \cup {None}] /\ shift'[s] = row
      /\ \A u \in ShiftIds : u # s => shift'[u] = shift[u]
  BY <1>2, <1>3 DEF TypeOK
<1> QED
  BY <1>2, <1>4, <1>5 DEF ShiftsGentle

\* A shift is made where there was none.
LEMMA ShiftMade ==
  ASSUME TypeOK, NEW s \in ShiftIds, shift[s] = None, NEW row \in Shift,
         shift' = [shift EXCEPT ![s] = row]
  PROVE  /\ ShiftsGentle /\ shift'[s] = row /\ row # None
         /\ \A u \in ShiftIds : u # s => shift'[u] = shift[u]
<1>1. row # None
  BY NoneIsNoShift
<1>2. /\ shift' \in [ShiftIds -> Shift \cup {None}] /\ shift'[s] = row
      /\ \A u \in ShiftIds : u # s => shift'[u] = shift[u]
  BY DEF TypeOK
<1> QED
  BY <1>1, <1>2 DEF ShiftsGentle

\* A record is closed, if it is there.
LEMMA RecordClosed ==
  ASSUME TypeOK, NEW i, records' = [records EXCEPT ![i].open = FALSE]
  PROVE  /\ records' \in Seq(Record) /\ Len(records') = Len(records)
         /\ \A k \in 1..Len(records) : records'[k].shift = records[k].shift
<1>1. records \in Seq(Record) /\ Len(records) \in Nat /\ DOMAIN records = 1..Len(records)
  BY LenProperties DEF TypeOK
<1>2. CASE i \in 1..Len(records)
  <2> DEFINE closed == [records[i] EXCEPT !.open = FALSE]
  <2>1. records[i] \in Record
    BY <1>1, <1>2, ElementOfSeq
  <2>2. closed \in Record /\ closed.shift = records[i].shift
    BY <2>1 DEF Record
  <2>3. records' = [records EXCEPT ![i] = closed]
    OBVIOUS
  <2> HIDE DEF closed
  <2> DEFINE after == [records EXCEPT ![i] = closed]
  <2>4. /\ after \in Seq(Record) /\ Len(after) = Len(records)
        /\ \A k \in 1..Len(records) : after[k] = IF k = i THEN closed ELSE records[k]
    BY <1>1, <1>2, <2>2, ExceptSeq
  <2>5. records' = after
    BY <2>3
  <2> HIDE DEF after
  <2> QED
    BY <2>2, <2>4, <2>5
<1>3. CASE i \notin 1..Len(records)
  <2>1. records = [k \in 1..Len(records) |-> records[k]]
    BY <1>1
  <2>2. records' = [k \in 1..Len(records) |-> records[k]]
    BY <1>1, <1>3
  <2> QED
    BY <1>1, <2>1, <2>2
<1> QED
  BY <1>2, <1>3

LEMMA ShiftsKeep ==
  ASSUME HiringInv, Shifts
  PROVE  GentleStep
<1>1. TypeOK /\ \A h \in Handlers : task[h] \in Task /\ ShiftRead(h)
  BY DEF HiringInv, TypeOK
<1>2. ASSUME app' = app PROVE AppsGentle
  BY <1>1, <1>2, SameRowsGentle
<1>3. ASSUME NEW s \in ShiftIds, NEW j \in Jobs, NEW w \in Workers, NEW slot \in Slots,
             CreateShift(s, j, w, slot)
      PROVE  GentleStep
  <2> DEFINE row == [job |-> j, worker |-> w, slot |-> slot, status |-> "CONFIRMED"]
  <2>1. row \in Shift /\ row.job = j /\ row.worker = w
    BY DEF Shift, ShiftStatus
  <2>2. /\ shift[s] = None /\ shift' = [shift EXCEPT ![s] = row] /\ app' = app
        /\ app[j][w].status = "ACCEPTED" /\ UNCHANGED <<records, task, now>>
    BY <1>3 DEF CreateShift
  <2> HIDE DEF row
  <2>3. /\ ShiftsGentle /\ shift'[s] = row
        /\ \A u \in ShiftIds : u # s => shift'[u] = shift[u]
    BY <1>1, <2>1, <2>2, ShiftMade
  <2>4. \A u \in ShiftIds : shift[u] = None /\ shift'[u] # None =>
          app'[shift'[u].job][shift'[u].worker].status # "NONE"
    BY <2>1, <2>2, <2>3
  <2>5. AppsGentle
    BY <1>2, <2>2
  <2> QED
    BY <1>1, <2>2, <2>3, <2>4, <2>5, GentleKeeps DEF TypeOK
<1>4. ASSUME NEW h \in Handlers, NEW s \in ShiftIds,
             CheckInRead(h, s) \/ CheckOutRead(h, s) \/ CancelRead(h, s)
      PROVE  GentleStep
  <2>1. shift[s] # None /\ shift[s].worker \in Workers
    BY <1>1, <1>4 DEF CheckInRead, CheckOutRead, CancelRead, In, TypeOK, Shift
  <2>2. UNCHANGED <<app, shift, records, now>>
    BY <1>4 DEF CheckInRead, CheckOutRead, CancelRead
  <2>3. ASSUME NEW t \in Task, t.at \in {"checkIn", "checkOut", "cancel"}, t.shift = s, Do(h, t)
        PROVE  GentleStep
    <3>1. ShiftRead(h)'
      BY <1>1, <2>1, <2>2, <2>3, OneTask DEF ShiftRead
    <3> QED
      BY <1>2, <2>2, <2>3, <3>1, OneHandler
  <2>4. CASE CheckInRead(h, s)
    BY <2>1, <2>3, <2>4, TaskMade DEF CheckInRead
  <2>5. CASE CheckOutRead(h, s)
    <3>1. PICK i \in OpenRecords(s, shift[s].worker) :
            Do(h, [at |-> "checkOut", shift |-> s, record |-> i])
      BY <2>5 DEF CheckOutRead
    <3>2. i \in 1..MaxRecords
      <4>1. i \in 1..Len(records) /\ Len(records) \in Nat /\ Len(records) <= MaxRecords
        BY <1>1, <3>1, LenProperties DEF OpenRecords, TypeOK
      <4> QED
        BY <4>1, MaxRecordsAssumption
    <3> QED
      BY <2>3, <3>1, <3>2, TaskMade
  <2>6. CASE CancelRead(h, s)
    BY <2>3, <2>6, TaskMade DEF CancelRead
  <2> QED
    BY <1>4, <2>4, <2>5, <2>6
<1>5. ASSUME NEW h \in Handlers, CheckInWrite(h) \/ CheckOutWrite(h) \/ CancelWrite(h)
      PROVE  GentleStep
  <2> DEFINE s == task[h].shift
  <2>1. task[h].at \in {"checkIn", "checkOut", "cancel"}
    BY <1>5 DEF CheckInWrite, CheckOutWrite, CancelWrite
  <2>2. s \in ShiftIds /\ shift[s] # None
    BY <1>1, <2>1, TaskFields DEF ShiftRead
  <2>3. \E status \in ShiftStatus : SetShift(s, status)
    BY <1>5 DEF CheckInWrite, CheckOutWrite, CancelWrite, ShiftStatus
  <2>4. ShiftsGentle /\ \A u \in ShiftIds : u # s => shift'[u] = shift[u]
    BY <1>1, <2>2, <2>3, StatusOfShift
  <2>5. app' = app /\ now' = now /\ Do(h, Idle)
    BY <1>5 DEF CheckInWrite, CheckOutWrite, CancelWrite
  <2>6. records' \in Seq(Record) /\ Len(records') <= MaxRecords
    <3>1. CASE CheckInWrite(h)
      <4> DEFINE record == [shift |-> s, worker |-> task[h].worker, open |-> TRUE]
      <4>1. task[h].at = "checkIn" /\ Len(records) < MaxRecords /\ records' = Append(records, record)
        BY <3>1 DEF CheckInWrite
      <4>2. record \in Record
        BY <1>1, <2>2, <4>1, TaskFields DEF Record
      <4> HIDE DEF record
      <4>3. records' \in Seq(Record) /\ Len(records') = Len(records) + 1 /\ Len(records) \in Nat
        BY <1>1, <4>1, <4>2, AppendProperties, LenProperties DEF TypeOK
      <4> QED
        BY <4>1, <4>3, MaxRecordsAssumption
    <3>2. CASE CheckOutWrite(h)
      BY <1>1, <3>2, RecordClosed DEF CheckOutWrite, TypeOK
    <3>3. CASE CancelWrite(h)
      BY <1>1, <3>3 DEF CancelWrite, TypeOK
    <3> QED
      BY <1>5, <3>1, <3>2, <3>3
  <2> QED
    BY <1>2, <2>2, <2>4, <2>5, <2>6, TaskEnds
<1>6. ASSUME NEW i \in 1..MaxRecords, ConsoleCheckOut(i) PROVE GentleStep
  <2>1. /\ UNCHANGED <<app, shift, task, now>>
        /\ records' \in Seq(Record) /\ Len(records') <= MaxRecords
    BY <1>1, <1>6, RecordClosed DEF ConsoleCheckOut, TypeOK
  <2>2. ShiftsGentle
    BY <1>1, <2>1 DEF TypeOK, ShiftsGentle
  <2> QED
    BY <1>1, <1>2, <2>1, <2>2, GentleKeeps DEF TypeOK
<1> QED
  BY <1>3, <1>4, <1>5, <1>6 DEF Shifts

LEMMA CoverKeeps ==
  ASSUME HiringInv, Cover
  PROVE  GentleStep
<1>1. TypeOK /\ \A h \in Handlers : task[h] \in Task /\ ShiftRead(h)
  BY DEF HiringInv, TypeOK
<1>2. ASSUME NEW gap \in ShiftIds, NEW w \in Workers, Invite(gap, w) PROVE GentleStep
  <2>1. shift[gap].job \in Jobs
    BY <1>1, <1>2 DEF Invite, In, TypeOK, Shift
  <2>2. /\ ~Applied(shift[gap].job, w) /\ SetStatus(shift[gap].job, w, "VIEWED")
        /\ UNCHANGED <<shift, records, task, now>>
    BY <1>2 DEF Invite
  <2>3. AppsGentle
    BY <2>1, <2>2, StatusGentle DEF ApplicationStatus
  <2> QED
    BY <2>2, <2>3, RowsOnly
<1>3. ASSUME NEW h \in Handlers, NEW gap \in ShiftIds, NEW w \in Workers, CoverRead(h, gap, w)
      PROVE  GentleStep
  <2> DEFINE t == [at |-> "cover", gap |-> gap, worker |-> w]
  <2>1. t \in Task
    BY TaskMade
  <2>2. Do(h, t) /\ UNCHANGED <<app, shift, records, now>> /\ shift[gap] # None
    BY <1>3 DEF CoverRead, In
  <2>3. ShiftRead(h)'
    BY <1>1, <2>1, <2>2, OneTask DEF ShiftRead
  <2>4. AppsGentle
    BY <1>1, <2>2, SameRowsGentle
  <2> QED
    BY <2>1, <2>2, <2>3, <2>4, OneHandler
<1>4. ASSUME NEW h \in Handlers, NEW s \in ShiftIds, CoverWrite(h, s) PROVE GentleStep
  <2> DEFINE gap == task[h].gap
             w == task[h].worker
             j == shift[gap].job
             row == [job |-> j, worker |-> w, slot |-> shift[gap].slot, status |-> "CONFIRMED"]
  <2>1. task[h].at = "cover"
    BY <1>4 DEF CoverWrite
  <2>2. gap \in ShiftIds /\ w \in Workers /\ shift[gap] # None
    BY <1>1, <2>1, TaskFields DEF ShiftRead
  <2>3. shift[gap] \in Shift
    BY <1>1, <2>2 DEF TypeOK
  <2>4. j \in Jobs /\ row \in Shift /\ row.job = j /\ row.worker = w
    BY <2>2, <2>3 DEF Shift, ShiftStatus
  <2>5. /\ ~Locked(j, w) /\ SetStatus(j, w, "ACCEPTED") /\ Do(h, Idle)
        /\ shift[s] = None /\ shift' = [shift EXCEPT ![s] = row] /\ UNCHANGED <<records, now>>
    BY <1>4 DEF CoverWrite
  <2> HIDE DEF row
  <2>6. AppsGentle /\ app'[j][w].status = "ACCEPTED"
    BY <2>2, <2>4, <2>5, StatusGentle DEF ApplicationStatus, Decisions
  <2>7. /\ ShiftsGentle /\ shift'[s] = row
        /\ \A u \in ShiftIds : u # s => shift'[u] = shift[u]
    BY <1>1, <2>4, <2>5, ShiftMade
  <2>8. \A u \in ShiftIds : shift[u] = None /\ shift'[u] # None =>
          app'[shift'[u].job][shift'[u].worker].status # "NONE"
    BY <2>4, <2>6, <2>7
  <2> QED
    BY <1>1, <2>5, <2>6, <2>7, <2>8, TaskEnds DEF TypeOK
<1> QED
  BY <1>2, <1>3, <1>4 DEF Cover
\* Every step is gentle, or the commit of an assignment.
LEMMA StepKinds ==
  ASSUME HiringInv, [Next]_vars
  PROVE  GentleStep \/ \E h \in Handlers : AssignCommit(h)
<1>1. CASE Applications
  BY <1>1, ApplicationsKeep
<1>2. CASE Hires
  BY <1>2, HiresKeep
<1>3. CASE Shifts
  BY <1>3, ShiftsKeep
<1>4. CASE Cover
  BY <1>4, CoverKeeps
<1>5. CASE Tick \/ UNCHANGED vars
  <2>1. UNCHANGED <<app, shift, records, task>> /\ now' \in 0..Horizon
    BY <1>5, HorizonAssumption DEF HiringInv, TypeOK, Tick, vars
  <2>2. AppsGentle /\ ShiftsGentle
    BY <2>1, SameRowsGentle DEF HiringInv, TypeOK, ShiftsGentle
  <2> QED
    BY <2>1, <2>2, GentleKeeps DEF HiringInv, TypeOK
<1> QED
  BY <1>1, <1>2, <1>3, <1>4, <1>5 DEF Next

-----------------------------------------------------------------------------
(* The theorems about hires.                                               *)

\* The invariant holds throughout.
THEOREM HiresHold == Spec => []HiringInv
<1>1. Init => HiringInv
  <2> SUFFICES ASSUME Init PROVE HiringInv
    OBVIOUS
  <2>1. \A status \in Starting :
          /\ Fresh(status) \in Row /\ Fresh(status).replacedBy = None
    BY StartingAssumption DEF Fresh, Row
  <2>2. app \in [Jobs -> [Workers -> Row]]
    BY <2>1 DEF Init
  <2>3. TypeOK
    <3>1. records \in Seq(Record) /\ Len(records) <= MaxRecords
      BY EmptySeq, MaxRecordsAssumption DEF Init
    <3> QED
      BY <2>2, <3>1, TaskMade, HorizonAssumption DEF Init, TypeOK
  <2>4. ReplacedStaysFlagged
    BY <2>1 DEF Init, ReplacedStaysFlagged
  <2> QED
    BY <2>3, <2>4
      DEF Init, HiringInv, ShiftHasApplication, Apart, AssignHolds, Assigning, ShiftRead, Idle
<1>2. HiringInv /\ [Next]_vars => HiringInv'
  BY StepKinds, AssignCommitKeeps DEF GentleStep
<1> QED
  BY <1>1, <1>2, PTL DEF Spec

\* Every variable keeps its shape.
THEOREM HiringTyping == Spec => []TypeOK
BY HiresHold, PTL DEF HiringInv

\* Whoever was replaced was flagged, and stays flagged and ended, however late a
\* decision or an "available after all" reaches the row (hire-replacement.service.ts).
THEOREM ReplacedFlagged == Spec => []ReplacedStaysFlagged
BY HiresHold, PTL DEF HiringInv

\* Whoever has a shift has an application on its posting, under every writer of either.
THEOREM ShiftsHaveApplications == Spec => []ShiftHasApplication
BY HiresHold, PTL DEF HiringInv

\* assign() (hire-replacement.service.ts): a place goes over whole, from somebody on
\* the job to somebody on the shortlist, and nobody else joins or leaves with it.
THEOREM PlacesGoOverWhole == Spec => PlacesHandedOver
<1>1. ASSUME HiringInv, [Next]_vars, NEW j \in Jobs, NEW w \in Workers, NEW r \in Workers,
             app[j][w].replacedBy # r, app'[j][w].replacedBy = r
      PROVE  HandOver(j, w, r)
  <2>1. ~GentleStep
    BY <1>1 DEF GentleStep, AppsGentle, Gentle
  <2>2. PICK h \in Handlers : AssignCommit(h)
    BY <1>1, <2>1, StepKinds
  <2> DEFINE i == task[h].job
             v == task[h].worker
             q == task[h].replacement
  <2>3. /\ i \in Jobs /\ v \in Workers /\ q \in Workers /\ q # v
        /\ OnTheJob(app[i][v]) /\ app[i][q].status = "SHORTLISTED"
        /\ app'[i][v].ended /\ app'[i][v].replacedBy = q
        /\ app'[i][q].status = "ACCEPTED" /\ ~app'[i][q].ended
        /\ app'[i][q].replacedBy = None /\ app'[i][q].replaces = v
        /\ \A k \in Jobs, u \in Workers :
             k # i \/ u \notin {v, q} => app'[k][u] = app[k][u]
    BY <1>1, <2>2, CommitEffect
  <2>4. i = j /\ v = w /\ q = r
    BY <1>1, <2>3, NoneIsNone
  <2>5. OnJob(j)' = (OnJob(j) \ {w}) \cup {r}
    BY <1>1, <2>3, <2>4 DEF OnJob
  <2> QED
    BY <1>1, <2>3, <2>4, <2>5 DEF HandOver, OnJob, OnTheJob
<1>2. HiringInv /\ [Next]_vars =>
        [\A j \in Jobs, w \in Workers, r \in Workers :
           (app[j][w].replacedBy # r /\ app'[j][w].replacedBy = r) => HandOver(j, w, r)]_vars
  BY <1>1
<1> QED
  BY <1>2, HiresHold, PTL DEF Spec, PlacesHandedOver

\* An ended hire is opened again only by taking the person from the shortlist as a
\* replacement: no decision, re-application, interview or cover does it.
THEOREM EndedHiresStay == Spec => EndedStaysEnded
<1>1. ASSUME HiringInv, [Next]_vars, NEW j \in Jobs, NEW w \in Workers,
             app[j][w].ended, ~app'[j][w].ended
      PROVE  \E v \in Workers : app[j][v].replacedBy # w /\ app'[j][v].replacedBy = w
  <2>1. ~GentleStep
    BY <1>1 DEF GentleStep, AppsGentle, Gentle
  <2>2. PICK h \in Handlers : AssignCommit(h)
    BY <1>1, <2>1, StepKinds
  <2> DEFINE i == task[h].job
             v == task[h].worker
             q == task[h].replacement
  <2>3. /\ i \in Jobs /\ v \in Workers /\ q \in Workers
        /\ OnTheJob(app[i][v]) /\ app'[i][v].ended /\ app'[i][v].replacedBy = q
        /\ \A k \in Jobs, u \in Workers :
             k # i \/ u \notin {v, q} => app'[k][u] = app[k][u]
    BY <1>1, <2>2, CommitEffect
  <2>4. i = j /\ q = w
    BY <1>1, <2>3
  <2> QED
    BY <2>3, <2>4, NoneIsNone DEF OnTheJob
<1>2. HiringInv /\ [Next]_vars =>
        [\A j \in Jobs, w \in Workers :
           (app[j][w].ended /\ ~app'[j][w].ended) =>
             \E v \in Workers : app[j][v].replacedBy # w /\ app'[j][v].replacedBy = w]_vars
  BY <1>1
<1> QED
  BY <1>2, HiresHold, PTL DEF Spec, EndedStaysEnded

\* A shift changes hands only with the place it hangs off, and goes to whoever takes
\* that place; covering a cancelled one never moves it (replacement.service.ts).
THEOREM PlacesMoveShifts == Spec => OnlyPlacesMoveShifts
<1>1. ASSUME HiringInv, [Next]_vars, NEW s \in ShiftIds,
             shift[s] # None, shift'[s].worker # shift[s].worker
      PROVE  LET j == shift[s].job  w == shift[s].worker  r == shift'[s].worker IN
             app[j][w].replacedBy # r /\ app'[j][w].replacedBy = r
  <2>1. ~GentleStep
    BY <1>1 DEF GentleStep, ShiftsGentle
  <2>2. PICK h \in Handlers : AssignCommit(h)
    BY <1>1, <2>1, StepKinds
  <2>3. s \in task[h].coming
    BY <1>1, <2>2 DEF AssignCommit
  <2>4. /\ task[h].replacement \in Workers /\ OnTheJob(app[task[h].job][task[h].worker])
        /\ app'[task[h].job][task[h].worker].replacedBy = task[h].replacement
        /\ Assigning(h)
    BY <1>1, <2>2, CommitEffect
  <2>5. shift[s].job = task[h].job /\ shift[s].worker = task[h].worker /\ shift[s] \in Shift
    BY <1>1, <2>3, <2>4 DEF HiringInv, AssignHolds, TypeOK
  <2>6. shift'[s].worker = task[h].replacement
    BY <2>2, <2>3, <2>5 DEF AssignCommit, Shift
  <2> QED
    BY <2>4, <2>5, <2>6, NoneIsNone DEF OnTheJob
<1>2. HiringInv /\ [Next]_vars =>
        [\A s \in ShiftIds :
           (shift[s] # None /\ shift'[s].worker # shift[s].worker) =>
             LET j == shift[s].job  w == shift[s].worker  r == shift'[s].worker IN
             app[j][w].replacedBy # r /\ app'[j][w].replacedBy = r]_vars
  BY <1>1
<1> QED
  BY <1>2, HiresHold, PTL DEF Spec, OnlyPlacesMoveShifts

-----------------------------------------------------------------------------
(* Attendance.                                                             *)

\* Besides what StartedIsAttended says: records are of shifts there are, and whoever
\* is about to check out holds a record of the shift.
AttendanceInv ==
  /\ StartedIsAttended
  /\ \A i \in DOMAIN records : shift[records[i].shift] # None
  /\ \A h \in Handlers : task[h].at = "checkOut" =>
       task[h].record \in DOMAIN records /\ records[task[h].record].shift = task[h].shift

\* A step that starts or ends no shift: one may appear, or be called off, and a record
\* stays a record of its shift.
ShiftsQuiet ==
  \A s \in ShiftIds :
    /\ shift[s] # None =>
         shift'[s] # None /\ shift'[s].status \in {shift[s].status, "CANCELLED"}
    /\ shift[s] = None /\ shift'[s] # None => shift'[s].status = "CONFIRMED"

RecordsQuiet ==
  /\ DOMAIN records' = DOMAIN records
  /\ \A i \in DOMAIN records : records'[i].shift = records[i].shift

TasksQuiet ==
  \A h \in Handlers : task'[h].at = "checkOut" =>
    \/ task'[h] = task[h]
    \/ task'[h].record \in DOMAIN records /\ records[task'[h].record].shift = task'[h].shift

\* What a record names is a shift.
LEMMA RecordsShift ==
  ASSUME TypeOK, NEW i \in DOMAIN records
  PROVE  records[i].shift \in ShiftIds
<1>1. records[i] \in Record
  BY LenProperties, ElementOfSeq DEF TypeOK
<1> QED
  BY <1>1 DEF Record

LEMMA QuietKeeps ==
  ASSUME TypeOK, AttendanceInv, ShiftsQuiet, RecordsQuiet, TasksQuiet
  PROVE  AttendanceInv'
<1>1. \A i \in DOMAIN records' : shift'[records'[i].shift] # None
  BY RecordsShift DEF AttendanceInv, RecordsQuiet, ShiftsQuiet
<1>2. \A h \in Handlers : task'[h].at = "checkOut" =>
        task'[h].record \in DOMAIN records' /\ records'[task'[h].record].shift = task'[h].shift
  BY DEF AttendanceInv, RecordsQuiet, TasksQuiet
<1>3. ASSUME NEW s \in ShiftIds
      PROVE  LET attended == \E i \in DOMAIN records' : records'[i].shift = s IN
             /\ In(s, {"IN_PROGRESS", "COMPLETED"})' => attended
             /\ In(s, {"CONFIRMED"})' => ~attended
  <2> DEFINE before == \E i \in DOMAIN records : records[i].shift = s
             after == \E i \in DOMAIN records' : records'[i].shift = s
  <2>1. after <=> before
    BY DEF RecordsQuiet
  <2>2. CASE shift[s] = None
    <3>1. ~before
      BY <2>2 DEF AttendanceInv
    <3> QED
      BY <2>1, <2>2, <3>1 DEF In, ShiftsQuiet
  <2>3. CASE shift[s] # None
    <3>1. shift'[s].status \in {shift[s].status, "CANCELLED"}
      BY <2>3 DEF ShiftsQuiet
    <3>2. /\ shift[s].status \in {"IN_PROGRESS", "COMPLETED"} => before
          /\ shift[s].status = "CONFIRMED" => ~before
      BY <2>3 DEF AttendanceInv, StartedIsAttended, In
    <3> QED
      BY <2>1, <3>1, <3>2 DEF In
  <2> QED
    BY <2>2, <2>3
<1> QED
  BY <1>1, <1>2, <1>3 DEF AttendanceInv, StartedIsAttended

\* A handler turns to anything but a check-out.
LEMMA TurnsAway ==
  ASSUME TypeOK, NEW h \in Handlers, NEW t, t.at # "checkOut", Do(h, t)
  PROVE  TasksQuiet
BY DEF TypeOK, Do, TasksQuiet

\* Shifts and records are left alone.
LEMMA Elsewhere ==
  ASSUME UNCHANGED <<shift, records>>
  PROVE  ShiftsQuiet /\ RecordsQuiet
BY DEF ShiftsQuiet, RecordsQuiet

LEMMA ApplicationsQuiet ==
  ASSUME HiringInv, Applications
  PROVE  ShiftsQuiet /\ RecordsQuiet /\ TasksQuiet
<1>1. UNCHANGED <<shift, records>>
  BY DEF Applications, ApplyRead, InterviewRead, ApplyWrite, InterviewWrite, Withdraw, View,
         ShortlistAll, Promote, Decide, ConsoleDecide
<1>2. ASSUME NEW h \in Handlers, NEW t, t.at # "checkOut", Do(h, t) PROVE TasksQuiet
  BY <1>2, TurnsAway DEF HiringInv
<1>3. ASSUME NEW h \in Handlers, NEW j \in Jobs, NEW w \in Workers,
             ApplyRead(h, j, w) \/ InterviewRead(h, j, w)
      PROVE  TasksQuiet
  BY <1>2, <1>3 DEF ApplyRead, InterviewRead
<1>4. ASSUME NEW h \in Handlers, ApplyWrite(h) \/ InterviewWrite(h) PROVE TasksQuiet
  BY <1>2, <1>4 DEF ApplyWrite, InterviewWrite, Idle
<1>5. ASSUME UNCHANGED task PROVE TasksQuiet
  BY <1>5 DEF TasksQuiet
<1>6. TasksQuiet
  BY <1>3, <1>4, <1>5
    DEF Applications, Withdraw, View, ShortlistAll, Promote, Decide, ConsoleDecide
<1> QED
  BY <1>1, <1>6, Elsewhere

LEMMA HiresQuiet ==
  ASSUME HiringInv, Hires
  PROVE  ShiftsQuiet /\ RecordsQuiet /\ TasksQuiet
<1>1. CASE \E j \in Jobs, w \in Workers :
             Complete(j, w) \/ MarkUnavailable(j, w) \/ MarkAvailable(j, w)
  <2>1. UNCHANGED <<shift, records, task>>
    BY <1>1 DEF Complete, MarkUnavailable, MarkAvailable
  <2> QED
    BY <2>1, Elsewhere DEF TasksQuiet
<1>2. ASSUME NEW h \in Handlers, NEW j \in Jobs, NEW w \in Workers, NEW r \in Workers,
             AssignRead(h, j, w, r)
      PROVE  ShiftsQuiet /\ RecordsQuiet /\ TasksQuiet
  <2>1. UNCHANGED <<shift, records>>
    BY <1>2 DEF AssignRead
  <2>2. \E t : t.at # "checkOut" /\ Do(h, t)
    BY <1>2 DEF AssignRead
  <2> QED
    BY <2>1, <2>2, Elsewhere, TurnsAway DEF HiringInv
<1>3. ASSUME NEW h \in Handlers, AssignCommit(h)
      PROVE  ShiftsQuiet /\ RecordsQuiet /\ TasksQuiet
  <2>1. TasksQuiet /\ RecordsQuiet
    BY <1>3, TurnsAway DEF AssignCommit, HiringInv, Idle, RecordsQuiet
  <2>2. task[h].at = "assign" /\ task[h].replacement \in Workers
    BY <1>3, TaskFields DEF AssignCommit, HiringInv, TypeOK
  <2>3. ASSUME NEW s \in ShiftIds
        PROVE  \/ shift'[s] = shift[s]
               \/ shift[s] # None /\ shift'[s] # None /\ shift'[s].status = shift[s].status
    <3>1. CASE s \notin task[h].coming
      BY <1>3, <3>1 DEF AssignCommit
    <3>2. CASE s \in task[h].coming
      <4> DEFINE moved == [shift[s] EXCEPT !.worker = task[h].replacement]
      <4>1. shift[s] # None /\ shift[s] \in Shift
        BY <2>2, <3>2 DEF HiringInv, TypeOK, AssignHolds, Assigning
      <4>2. moved \in Shift /\ moved.status = shift[s].status
        BY <2>2, <4>1 DEF Shift
      <4>3. shift'[s] = moved
        BY <1>3, <3>2 DEF AssignCommit
      <4> QED
        BY <4>1, <4>2, <4>3, NoneIsNoShift
    <3> QED
      BY <3>1, <3>2
  <2> QED
    BY <2>1, <2>3 DEF ShiftsQuiet
<1> QED
  BY <1>1, <1>2, <1>3 DEF Hires

LEMMA CoverQuiet ==
  ASSUME HiringInv, Cover
  PROVE  ShiftsQuiet /\ RecordsQuiet /\ TasksQuiet
<1>1. CASE \E gap \in ShiftIds, w \in Workers : Invite(gap, w)
  BY <1>1, Elsewhere DEF Invite, TasksQuiet
<1>2. ASSUME NEW h \in Handlers, NEW gap \in ShiftIds, NEW w \in Workers, CoverRead(h, gap, w)
      PROVE  ShiftsQuiet /\ RecordsQuiet /\ TasksQuiet
  BY <1>2, Elsewhere, TurnsAway DEF CoverRead, HiringInv
<1>3. ASSUME NEW h \in Handlers, NEW s \in ShiftIds, CoverWrite(h, s)
      PROVE  ShiftsQuiet /\ RecordsQuiet /\ TasksQuiet
  <2> DEFINE row == [job |-> shift[task[h].gap].job, worker |-> task[h].worker,
                     slot |-> shift[task[h].gap].slot, status |-> "CONFIRMED"]
  <2>1. TasksQuiet /\ RecordsQuiet
    BY <1>3, TurnsAway DEF CoverWrite, HiringInv, Idle, RecordsQuiet
  <2>2. shift[s] = None /\ shift' = [shift EXCEPT ![s] = row] /\ row.status = "CONFIRMED"
    BY <1>3 DEF CoverWrite
  <2>3. \A u \in ShiftIds : shift'[u] = IF u = s THEN row ELSE shift[u]
    BY <2>2 DEF HiringInv, TypeOK
  <2> QED
    BY <2>1, <2>2, <2>3 DEF ShiftsQuiet
<1> QED
  BY <1>1, <1>2, <1>3 DEF Cover

\* Checking in is what makes a record, and goes with starting the shift.
LEMMA CheckInKeeps ==
  ASSUME HiringInv, AttendanceInv, NEW h \in Handlers, CheckInWrite(h)
  PROVE  AttendanceInv'
<1> DEFINE s == task[h].shift
           record == [shift |-> s, worker |-> task[h].worker, open |-> TRUE]
<1>1. TypeOK /\ task[h].at = "checkIn" /\ records' = Append(records, record) /\ Do(h, Idle)
  BY DEF CheckInWrite, HiringInv
<1>2. s \in ShiftIds /\ shift[s] # None /\ record \in Record
  BY <1>1, TaskFields DEF HiringInv, TypeOK, ShiftRead, Record
<1>3. /\ shift'[s] # None /\ shift'[s].status = "IN_PROGRESS"
      /\ \A u \in ShiftIds : u # s => shift'[u] = shift[u]
  BY <1>1, <1>2, StatusOfShift DEF CheckInWrite, ShiftStatus
<1>4. /\ DOMAIN records = 1..Len(records) /\ Len(records) \in Nat
      /\ DOMAIN records' = 1..(Len(records) + 1)
      /\ \A i \in DOMAIN records : records'[i] = records[i]
      /\ records'[Len(records) + 1].shift = s
  <2> HIDE DEF record
  <2>1. /\ records \in Seq(Record) /\ Len(records) \in Nat /\ DOMAIN records = 1..Len(records)
    BY <1>1, LenProperties DEF TypeOK
  <2>2. /\ records' \in Seq(Record) /\ Len(records') = Len(records) + 1
        /\ \A i \in 1..Len(records) : records'[i] = records[i]
        /\ records'[Len(records) + 1] = record
    BY <1>1, <1>2, <2>1, AppendProperties
  <2>3. DOMAIN records' = 1..Len(records')
    BY <2>2, LenProperties
  <2> QED
    BY <2>1, <2>2, <2>3 DEF record
<1> HIDE DEF record
<1>5. \A i \in DOMAIN records' : i \in DOMAIN records \/ i = Len(records) + 1
  BY <1>4
<1>6. DOMAIN records \subseteq DOMAIN records' /\ Len(records) + 1 \in DOMAIN records'
  BY <1>4
<1>7. \A i \in DOMAIN records' : shift'[records'[i].shift] # None
  BY <1>1, <1>3, <1>4, <1>5, RecordsShift DEF AttendanceInv
<1>8. \A k \in Handlers : task'[k].at = "checkOut" =>
        task'[k].record \in DOMAIN records' /\ records'[task'[k].record].shift = task'[k].shift
  <2>1. \A k \in Handlers : task'[k].at = "checkOut" => task'[k] = task[k]
    BY <1>1 DEF TypeOK, Do, Idle
  <2> QED
    BY <1>4, <1>6, <2>1 DEF AttendanceInv
<1>9. ASSUME NEW u \in ShiftIds
      PROVE  LET attended == \E i \in DOMAIN records' : records'[i].shift = u IN
             /\ In(u, {"IN_PROGRESS", "COMPLETED"})' => attended
             /\ In(u, {"CONFIRMED"})' => ~attended
  <2>1. CASE u = s
    BY <1>3, <1>4, <1>6, <2>1 DEF In
  <2>2. CASE u # s
    <3>1. (\E i \in DOMAIN records' : records'[i].shift = u)
            <=> (\E i \in DOMAIN records : records[i].shift = u)
      BY <1>4, <1>5, <1>6, <2>2
    <3>2. shift'[u] = shift[u]
      BY <1>3, <2>2
    <3> QED
      BY <3>1, <3>2 DEF In, AttendanceInv, StartedIsAttended
  <2> QED
    BY <2>1, <2>2
<1> QED
  BY <1>7, <1>8, <1>9 DEF AttendanceInv, StartedIsAttended

\* Checking out ends a shift of which there is a record.
LEMMA CheckOutKeeps ==
  ASSUME HiringInv, AttendanceInv, NEW h \in Handlers, CheckOutWrite(h)
  PROVE  AttendanceInv'
<1> DEFINE s == task[h].shift
<1>1. TypeOK /\ task[h].at = "checkOut" /\ Do(h, Idle)
  BY DEF CheckOutWrite, HiringInv
<1>2. s \in ShiftIds /\ shift[s] # None
  BY <1>1, TaskFields DEF HiringInv, TypeOK, ShiftRead
<1>3. /\ shift'[s] # None /\ shift'[s].status = "COMPLETED"
      /\ \A u \in ShiftIds : u # s => shift'[u] = shift[u]
  BY <1>1, <1>2, StatusOfShift DEF CheckOutWrite, ShiftStatus
<1>4. RecordsQuiet
  <2>1. /\ records' \in Seq(Record) /\ Len(records') = Len(records)
        /\ \A k \in 1..Len(records) : records'[k].shift = records[k].shift
    BY <1>1, RecordClosed DEF CheckOutWrite
  <2>2. DOMAIN records = 1..Len(records) /\ DOMAIN records' = 1..Len(records')
    BY <1>1, <2>1, LenProperties DEF TypeOK
  <2> QED
    BY <2>1, <2>2 DEF RecordsQuiet
<1>5. \A i \in DOMAIN records' : shift'[records'[i].shift] # None
  BY <1>1, <1>3, <1>4, RecordsShift DEF AttendanceInv, RecordsQuiet
<1>6. \A k \in Handlers : task'[k].at = "checkOut" =>
        task'[k].record \in DOMAIN records' /\ records'[task'[k].record].shift = task'[k].shift
  <2>1. \A k \in Handlers : task'[k].at = "checkOut" => task'[k] = task[k]
    BY <1>1 DEF TypeOK, Do, Idle
  <2> QED
    BY <1>4, <2>1 DEF AttendanceInv, RecordsQuiet
<1>7. task[h].record \in DOMAIN records /\ records[task[h].record].shift = s
  BY <1>1 DEF AttendanceInv
<1>8. ASSUME NEW u \in ShiftIds
      PROVE  LET attended == \E i \in DOMAIN records' : records'[i].shift = u IN
             /\ In(u, {"IN_PROGRESS", "COMPLETED"})' => attended
             /\ In(u, {"CONFIRMED"})' => ~attended
  <2>1. CASE u = s
    BY <1>3, <1>4, <1>7, <2>1 DEF In, RecordsQuiet
  <2>2. CASE u # s
    <3>1. (\E i \in DOMAIN records' : records'[i].shift = u)
            <=> (\E i \in DOMAIN records : records[i].shift = u)
      BY <1>4 DEF RecordsQuiet
    <3>2. shift'[u] = shift[u]
      BY <1>3, <2>2
    <3> QED
      BY <3>1, <3>2 DEF In, AttendanceInv, StartedIsAttended
  <2> QED
    BY <2>1, <2>2
<1> QED
  BY <1>5, <1>6, <1>8 DEF AttendanceInv, StartedIsAttended

LEMMA ShiftsAttended ==
  ASSUME HiringInv, AttendanceInv, Shifts
  PROVE  AttendanceInv'
<1>1. TypeOK /\ \A h \in Handlers : task[h] \in Task /\ ShiftRead(h)
  BY DEF HiringInv, TypeOK
<1>2. ASSUME NEW s \in ShiftIds, NEW j \in Jobs, NEW w \in Workers, NEW slot \in Slots,
             CreateShift(s, j, w, slot)
      PROVE  AttendanceInv'
  <2> DEFINE row == [job |-> j, worker |-> w, slot |-> slot, status |-> "CONFIRMED"]
  <2>1. /\ shift[s] = None /\ shift' = [shift EXCEPT ![s] = row] /\ row.status = "CONFIRMED"
        /\ UNCHANGED <<records, task>>
    BY <1>2 DEF CreateShift
  <2>2. \A u \in ShiftIds : shift'[u] = IF u = s THEN row ELSE shift[u]
    BY <1>1, <2>1 DEF TypeOK
  <2>3. ShiftsQuiet /\ RecordsQuiet /\ TasksQuiet
    BY <2>1, <2>2 DEF ShiftsQuiet, RecordsQuiet, TasksQuiet
  <2> QED
    BY <1>1, <2>3, QuietKeeps
<1>3. ASSUME NEW h \in Handlers, NEW s \in ShiftIds,
             CheckInRead(h, s) \/ CheckOutRead(h, s) \/ CancelRead(h, s)
      PROVE  AttendanceInv'
  <2>1. ShiftsQuiet /\ RecordsQuiet
    BY <1>3, Elsewhere DEF CheckInRead, CheckOutRead, CancelRead
  <2>2. ASSUME CheckInRead(h, s) \/ CancelRead(h, s) PROVE TasksQuiet
    BY <1>1, <2>2, TurnsAway DEF CheckInRead, CancelRead
  <2>3. ASSUME CheckOutRead(h, s) PROVE TasksQuiet
    <3>1. PICK i \in OpenRecords(s, shift[s].worker) :
            Do(h, [at |-> "checkOut", shift |-> s, record |-> i])
      BY <2>3 DEF CheckOutRead
    <3>2. i \in DOMAIN records /\ records[i].shift = s
      BY <3>1 DEF OpenRecords
    <3> QED
      BY <1>1, <3>1, <3>2 DEF TypeOK, Do, TasksQuiet
  <2> QED
    BY <1>1, <1>3, <2>1, <2>2, <2>3, QuietKeeps
<1>4. ASSUME NEW h \in Handlers, CancelWrite(h) PROVE AttendanceInv'
  <2> DEFINE s == task[h].shift
  <2>1. /\ task[h].at = "cancel" /\ SetShift(s, "CANCELLED") /\ Do(h, Idle) /\ UNCHANGED records
    BY <1>4 DEF CancelWrite
  <2>2. s \in ShiftIds /\ shift[s] # None
    BY <1>1, <2>1, TaskFields DEF ShiftRead
  <2>3. /\ shift'[s] # None /\ shift'[s].status = "CANCELLED"
        /\ \A u \in ShiftIds : u # s => shift'[u] = shift[u]
    BY <1>1, <2>1, <2>2, StatusOfShift DEF ShiftStatus
  <2>4. ShiftsQuiet /\ RecordsQuiet
    BY <2>1, <2>2, <2>3 DEF ShiftsQuiet, RecordsQuiet
  <2>5. TasksQuiet
    BY <1>1, <2>1, TurnsAway DEF Idle
  <2> QED
    BY <1>1, <2>4, <2>5, QuietKeeps
<1>5. ASSUME NEW i \in 1..MaxRecords, ConsoleCheckOut(i) PROVE AttendanceInv'
  <2>1. /\ records' \in Seq(Record) /\ Len(records') = Len(records)
        /\ \A k \in 1..Len(records) : records'[k].shift = records[k].shift
    BY <1>1, <1>5, RecordClosed DEF ConsoleCheckOut
  <2>2. DOMAIN records = 1..Len(records) /\ DOMAIN records' = 1..Len(records')
    BY <1>1, <2>1, LenProperties DEF TypeOK
  <2>3. ShiftsQuiet /\ RecordsQuiet /\ TasksQuiet
    BY <1>5, <2>1, <2>2 DEF ConsoleCheckOut, ShiftsQuiet, RecordsQuiet, TasksQuiet
  <2> QED
    BY <1>1, <2>3, QuietKeeps
<1> QED
  BY <1>2, <1>3, <1>4, <1>5, CheckInKeeps, CheckOutKeeps DEF Shifts

\* A shift has been started exactly if somebody has checked in to it: whatever crosses,
\* check-in makes the record and starts the shift in one transaction (shifts.service.ts).
THEOREM StartedAreAttended == Spec => []StartedIsAttended
<1>1. Init => AttendanceInv
  BY DEF Init, AttendanceInv, StartedIsAttended, In, Idle
<1>2. ASSUME HiringInv, AttendanceInv, [Next]_vars PROVE AttendanceInv'
  <2>1. TypeOK
    BY <1>2 DEF HiringInv
  <2>2. CASE Applications \/ Hires \/ Cover
    BY <1>2, <2>1, <2>2, ApplicationsQuiet, HiresQuiet, CoverQuiet, QuietKeeps
  <2>3. CASE Shifts
    BY <1>2, <2>3, ShiftsAttended
  <2>4. CASE Tick \/ UNCHANGED vars
    <3>1. ShiftsQuiet /\ RecordsQuiet /\ TasksQuiet
      BY <2>4, Elsewhere DEF Tick, vars, TasksQuiet
    <3> QED
      BY <1>2, <2>1, <3>1, QuietKeeps
  <2> QED
    BY <1>2, <2>2, <2>3, <2>4 DEF Next
<1>3. AttendanceInv => StartedIsAttended
  BY DEF AttendanceInv
<1> QED
  BY <1>1, <1>2, <1>3, HiresHold, PTL DEF Spec

=============================================================================
