------------------------------- MODULE Hiring -------------------------------
(***************************************************************************)
(* From application to worked shift.  A person has at most one application *)
(* row per posting; a hire is that row in status ACCEPTED, with marks on   *)
(* it: ended, flagged unavailable, replaced.  Shifts hang off hires.       *)
(*                                                                          *)
(* The rows are written by the applicant, the recruiter, the console and   *)
(* four services, some in one guarded UPDATE, some by a read and a later   *)
(* write.  A handler of the second kind is two steps here, with whatever   *)
(* it remembers in task.  A read and write that together do no more than   *)
(* the write alone could, whenever it runs, are one step.                  *)
(*                                                                          *)
(* An operator Name_Slip above Name is the same step with a plausible      *)
(* mistake in it.                                                          *)
(***************************************************************************)
EXTENDS Integers, Sequences, FiniteSets

CONSTANTS
  Jobs,          \* postings, all of one recruiter
  Workers,
  ShiftIds,
  Slots,         \* spans of time, [starts, ends]
  Horizon,       \* the clock stops here
  MaxRecords,    \* bound: attendance records ever opened
  Handlers,      \* requests the API serves at once
  Starting,      \* statuses the applications may be in at the start
  Veterans,      \* people who have worked on other postings of the recruiter
  None

ASSUME SlotsAssumption == Slots \subseteq [starts : Nat, ends : Nat]
ASSUME HorizonAssumption == Horizon \in Nat
ASSUME MaxRecordsAssumption == MaxRecords \in Nat
ASSUME NoneIsNone == None \notin Workers

VARIABLES
  app,       \* job_applications by posting and person
  shift,     \* shifts, None when not yet created
  records,   \* attendance_records, oldest first
  task,      \* what each handler does next
  now

vars == <<app, shift, records, task, now>>

Decisions == {"SHORTLISTED", "ACCEPTED", "REJECTED"}
ApplicationStatus == {"NONE", "SUBMITTED", "VIEWED", "WITHDRAWN"} \cup Decisions
ASSUME StartingAssumption == Starting \subseteq ApplicationStatus
ShiftStatus == {"CONFIRMED", "IN_PROGRESS", "COMPLETED", "CANCELLED"}

\* ended: completedAt; flagged: unavailableAt; replacedBy: replacedAt and
\* replacedByUserId, written together; replaces: replacesUserId.
Row ==
  [status : ApplicationStatus, ended : BOOLEAN, flagged : BOOLEAN,
   replacedBy : Workers \cup {None}, replaces : Workers \cup {None}]
Fresh(status) ==
  [status |-> status, ended |-> FALSE, flagged |-> FALSE,
   replacedBy |-> None, replaces |-> None]

Shift == [job : Jobs, worker : Workers, slot : Slots, status : ShiftStatus]
ASSUME NoneIsNoShift == None \notin Shift

Record == [shift : ShiftIds, worker : Workers, open : BOOLEAN]

Idle == [at |-> "idle"]
Task ==
  {Idle} \cup [at : {"apply", "interview"}, job : Jobs, worker : Workers]
    \cup [at : {"assign"}, job : Jobs, worker : Workers, replacement : Workers,
          coming : SUBSET ShiftIds]
    \cup [at : {"cover"}, gap : ShiftIds, worker : Workers]
    \cup [at : {"checkIn"}, shift : ShiftIds, worker : Workers]
    \cup [at : {"checkOut"}, shift : ShiftIds, record : 1..MaxRecords]
    \cup [at : {"cancel"}, shift : ShiftIds]

Do(h, next) == task' = [task EXCEPT ![h] = next]
SetStatus(j, w, status) == app' = [app EXCEPT ![j][w].status = status]
SetShift(s, status) == shift' = [shift EXCEPT ![s].status = status]

Applied(j, w) == app[j][w].status # "NONE"
In(s, statuses) == shift[s] # None /\ shift[s].status \in statuses

\* A row the open transaction of an assignment has written and not committed:
\* other writers of it wait, readers see it as it was.
Locked(j, w) ==
  \E h \in Handlers :
    /\ task[h].at = "assign"
    /\ task[h].job = j
    /\ w \in {task[h].worker, task[h].replacement}

\* mustBeOnTheJob
OnTheJob(row) == row.status = "ACCEPTED" /\ ~row.ended /\ row.replacedBy = None

-----------------------------------------------------------------------------
(* Applications.                                                            *)

\* A posting open and the applicant verified are inputs, true or not.
ApplyRead(h, j, w) ==
  /\ task[h] = Idle
  /\ app[j][w].status \in {"NONE", "WITHDRAWN"}
  /\ Do(h, [at |-> "apply", job |-> j, worker |-> w])
  /\ UNCHANGED <<app, shift, records, now>>

\* The application made anew.
ApplyWrite_Anew(h) ==
  /\ task[h].at = "apply"
  /\ ~Locked(task[h].job, task[h].worker)
  /\ app' = [app EXCEPT ![task[h].job][task[h].worker] = Fresh("SUBMITTED")]
  /\ Do(h, Idle)
  /\ UNCHANGED <<shift, records, now>>
\* The upsert creates the row or, of a row that is there, sets the status and
\* nothing else.
ApplyWrite(h) ==
  /\ task[h].at = "apply"
  /\ ~Locked(task[h].job, task[h].worker)
  /\ SetStatus(task[h].job, task[h].worker, "SUBMITTED")
  /\ Do(h, Idle)
  /\ UNCHANGED <<shift, records, now>>

\* The row deleted.
Withdraw_Deletes(j, w) ==
  /\ Applied(j, w) /\ app[j][w].status # "WITHDRAWN"
  /\ ~Locked(j, w)
  /\ app' = [app EXCEPT ![j][w] = Fresh("NONE")]
  /\ UNCHANGED <<shift, records, task, now>>
Withdraw(j, w) ==
  /\ Applied(j, w) /\ app[j][w].status # "WITHDRAWN"
  /\ ~Locked(j, w)
  /\ SetStatus(j, w, "WITHDRAWN")
  /\ UNCHANGED <<shift, records, task, now>>

\* Updates every row of the posting that is in one of these statuses.
Promote(j, ws, from, to) ==
  /\ \E w \in ws : app[j][w].status \in from
  /\ app' = [app EXCEPT ![j] = [w \in Workers |->
       IF w \in ws /\ app[j][w].status \in from
       THEN [app[j][w] EXCEPT !.status = to] ELSE app[j][w]]]
  /\ UNCHANGED <<shift, records, task, now>>

\* Opening the list of applicants; taking the suggested shortlist.
View(j) == Promote(j, Workers, {"SUBMITTED"}, "VIEWED")
ShortlistAll(j, ws) == Promote(j, ws, {"SUBMITTED", "VIEWED"}, "SHORTLISTED")

Decide(j, w, status) ==
  /\ app[j][w].status \notin {"NONE", "WITHDRAWN"}
  /\ ~Locked(j, w)
  /\ SetStatus(j, w, status)
  /\ UNCHANGED <<shift, records, task, now>>

ConsoleDecide(j, w, status) ==
  /\ Applied(j, w)
  /\ ~Locked(j, w)
  /\ SetStatus(j, w, status)
  /\ UNCHANGED <<shift, records, task, now>>

\* Arranging an interview reads the application, books a room at Google, and
\* shortlists somebody it read as still waiting.
InterviewRead(h, j, w) ==
  /\ task[h] = Idle
  /\ app[j][w].status \in {"SUBMITTED", "VIEWED"}
  /\ Do(h, [at |-> "interview", job |-> j, worker |-> w])
  /\ UNCHANGED <<app, shift, records, now>>

InterviewWrite(h) ==
  /\ task[h].at = "interview"
  /\ ~Locked(task[h].job, task[h].worker)
  /\ SetStatus(task[h].job, task[h].worker, "SHORTLISTED")
  /\ Do(h, Idle)
  /\ UNCHANGED <<shift, records, now>>

-----------------------------------------------------------------------------
(* Hires.                                                                   *)

Complete(j, w) ==
  /\ app[j][w].status = "ACCEPTED" /\ ~app[j][w].ended
  /\ ~Locked(j, w)
  /\ app' = [app EXCEPT ![j][w].ended = TRUE]
  /\ UNCHANGED <<shift, records, task, now>>

MarkUnavailable(j, w) ==
  /\ OnTheJob(app[j][w]) /\ ~app[j][w].flagged
  /\ ~Locked(j, w)
  /\ app' = [app EXCEPT ![j][w].flagged = TRUE]
  /\ UNCHANGED <<shift, records, task, now>>

\* The update believing the hire it read.
MarkAvailable_Unguarded(j, w) ==
  /\ app[j][w].flagged
  /\ ~Locked(j, w)
  /\ app' = [app EXCEPT ![j][w].flagged = FALSE]
  /\ UNCHANGED <<shift, records, task, now>>
MarkAvailable(j, w) ==
  /\ OnTheJob(app[j][w]) /\ app[j][w].flagged
  /\ ~Locked(j, w)
  /\ app' = [app EXCEPT ![j][w].flagged = FALSE]
  /\ UNCHANGED <<shift, records, task, now>>

Overlap(a, b) == a.starts < b.ends /\ b.starts < a.ends

\* busyIn, and the clash the assignment looks for.
Busy(w, slot) ==
  \E s \in ShiftIds :
    /\ In(s, {"CONFIRMED", "IN_PROGRESS"})
    /\ shift[s].worker = w
    /\ Overlap(shift[s].slot, slot)

Coming(j, w) ==
  {s \in ShiftIds : /\ In(s, {"CONFIRMED"})
                    /\ shift[s].job = j
                    /\ shift[s].worker = w
                    /\ shift[s].slot.starts > now}

\* The assignment's transaction up to its reads: both rows updated under
\* their guards, the shifts to move and the clash looked up.
AssignRead_AnyStatus(h, j, w, r) ==
  /\ task[h] = Idle
  /\ r # w
  /\ OnTheJob(app[j][w]) /\ app[j][w].flagged
  /\ Applied(j, r)
  /\ ~Locked(j, w) /\ ~Locked(j, r)
  /\ \A s \in Coming(j, w) : ~Busy(r, shift[s].slot)
  /\ Do(h, [at |-> "assign", job |-> j, worker |-> w, replacement |-> r,
            coming |-> Coming(j, w)])
  /\ UNCHANGED <<app, shift, records, now>>
AssignRead(h, j, w, r) ==
  /\ task[h] = Idle
  /\ r # w
  /\ OnTheJob(app[j][w]) /\ app[j][w].flagged
  /\ app[j][r].status = "SHORTLISTED"
  /\ ~Locked(j, w) /\ ~Locked(j, r)
  /\ \A s \in Coming(j, w) : ~Busy(r, shift[s].slot)
  /\ Do(h, [at |-> "assign", job |-> j, worker |-> w, replacement |-> r,
            coming |-> Coming(j, w)])
  /\ UNCHANGED <<app, shift, records, now>>

\* Its last update and COMMIT.  The shifts move by id, whatever has become of
\* them since they were read.
AssignCommit(h) ==
  LET j == task[h].job  w == task[h].worker  r == task[h].replacement IN
  /\ task[h].at = "assign"
  /\ app' = [app EXCEPT
       ![j][w].ended = TRUE,
       ![j][w].replacedBy = r,
       ![j][r] = [Fresh("ACCEPTED") EXCEPT !.replaces = w]]
  /\ shift' = [s \in ShiftIds |->
       IF s \in task[h].coming THEN [shift[s] EXCEPT !.worker = r] ELSE shift[s]]
  /\ Do(h, Idle)
  /\ UNCHANGED <<records, now>>

-----------------------------------------------------------------------------
(* Shifts.                                                                  *)

\* Read and write in one step: the hire may fall through between them, and
\* a shift outlives its hire in any case.
CreateShift(s, j, w, slot) ==
  /\ shift[s] = None
  /\ app[j][w].status = "ACCEPTED"
  /\ shift' = [shift EXCEPT ![s] =
       [job |-> j, worker |-> w, slot |-> slot, status |-> "CONFIRMED"]]
  /\ UNCHANGED <<app, records, task, now>>

OpenRecords(s, w) ==
  {i \in DOMAIN records : records[i] = [shift |-> s, worker |-> w, open |-> TRUE]}

CheckInRead(h, s) ==
  /\ task[h] = Idle
  /\ In(s, ShiftStatus \ {"CANCELLED"})
  /\ OpenRecords(s, shift[s].worker) = {}
  /\ Do(h, [at |-> "checkIn", shift |-> s, worker |-> shift[s].worker])
  /\ UNCHANGED <<app, shift, records, now>>

\* The shift updated in a transaction of its own.
CheckInWrite_ShiftOnly(h) ==
  /\ task[h].at = "checkIn"
  /\ SetShift(task[h].shift, "IN_PROGRESS")
  /\ Do(h, Idle)
  /\ UNCHANGED <<app, records, now>>
CheckInWrite(h) ==
  /\ task[h].at = "checkIn"
  /\ Len(records) < MaxRecords
  /\ records' = Append(records,
       [shift |-> task[h].shift, worker |-> task[h].worker, open |-> TRUE])
  /\ SetShift(task[h].shift, "IN_PROGRESS")
  /\ Do(h, Idle)
  /\ UNCHANGED <<app, now>>

\* The latest record, found or not.
CheckOutRead_Unchecked(h, s) ==
  /\ task[h] = Idle
  /\ shift[s] # None
  /\ Do(h, [at |-> "checkOut", shift |-> s, record |-> Len(records)])
  /\ UNCHANGED <<app, shift, records, now>>
CheckOutRead(h, s) ==
  /\ task[h] = Idle
  /\ shift[s] # None
  /\ \E i \in OpenRecords(s, shift[s].worker) :
       /\ \A k \in OpenRecords(s, shift[s].worker) : k <= i
       /\ Do(h, [at |-> "checkOut", shift |-> s, record |-> i])
  /\ UNCHANGED <<app, shift, records, now>>

CheckOutWrite(h) ==
  /\ task[h].at = "checkOut"
  /\ records' = [records EXCEPT ![task[h].record].open = FALSE]
  /\ SetShift(task[h].shift, "COMPLETED")
  /\ Do(h, Idle)
  /\ UNCHANGED <<app, now>>

CancelRead(h, s) ==
  /\ task[h] = Idle
  /\ In(s, ShiftStatus \ {"COMPLETED"})
  /\ Do(h, [at |-> "cancel", shift |-> s])
  /\ UNCHANGED <<app, shift, records, now>>

CancelWrite(h) ==
  /\ task[h].at = "cancel"
  /\ SetShift(task[h].shift, "CANCELLED")
  /\ Do(h, Idle)
  /\ UNCHANGED <<app, records, now>>

\* Ending, from the console, a check-in somebody forgot.
ConsoleCheckOut(i) ==
  /\ i \in DOMAIN records
  /\ records[i].open
  /\ records' = [records EXCEPT ![i].open = FALSE]
  /\ UNCHANGED <<app, shift, task, now>>

-----------------------------------------------------------------------------
(* Covering a cancelled shift.                                              *)

\* Somebody who has worked for the recruiter and never applied here is asked.
Invite(gap, w) ==
  /\ In(gap, {"CANCELLED"})
  /\ shift[gap].worker # w
  /\ w \in Veterans \/ \E s \in ShiftIds : In(s, {"COMPLETED"}) /\ shift[s].worker = w
  /\ ~Applied(shift[gap].job, w)
  /\ SetStatus(shift[gap].job, w, "VIEWED")
  /\ UNCHANGED <<shift, records, task, now>>

Covered(gap) ==
  \E s \in ShiftIds :
    /\ In(s, {"CONFIRMED", "IN_PROGRESS", "COMPLETED"})
    /\ shift[s].job = shift[gap].job
    /\ Overlap(shift[s].slot, shift[gap].slot)

CoverRead(h, gap, w) ==
  /\ task[h] = Idle
  /\ In(gap, {"CANCELLED"})
  /\ w # shift[gap].worker
  /\ ~Busy(w, shift[gap].slot)
  /\ ~Covered(gap)
  /\ Do(h, [at |-> "cover", gap |-> gap, worker |-> w])
  /\ UNCHANGED <<app, shift, records, now>>

\* The cancelled row put back to work under its new owner.
CoverWrite_Reassigns(h, s) ==
  LET gap == task[h].gap  w == task[h].worker  j == shift[gap].job IN
  /\ task[h].at = "cover"
  /\ ~Locked(j, w)
  /\ s = gap
  /\ SetStatus(j, w, "ACCEPTED")
  /\ shift' = [shift EXCEPT ![s] = [@ EXCEPT !.worker = w, !.status = "CONFIRMED"]]
  /\ Do(h, Idle)
  /\ UNCHANGED <<records, now>>
CoverWrite(h, s) ==
  LET gap == task[h].gap  w == task[h].worker  j == shift[gap].job IN
  /\ task[h].at = "cover"
  /\ ~Locked(j, w)
  /\ shift[s] = None
  /\ SetStatus(j, w, "ACCEPTED")
  /\ shift' = [shift EXCEPT ![s] =
       [job |-> j, worker |-> w, slot |-> shift[gap].slot, status |-> "CONFIRMED"]]
  /\ Do(h, Idle)
  /\ UNCHANGED <<records, now>>

-----------------------------------------------------------------------------
Tick == now < Horizon /\ now' = now + 1 /\ UNCHANGED <<app, shift, records, task>>

Init ==
  /\ app \in [Jobs -> [Workers -> {Fresh(status) : status \in Starting}]]
  /\ shift = [s \in ShiftIds |-> None]
  /\ records = <<>>
  /\ task = [h \in Handlers |-> Idle]
  /\ now = 0

Applications ==
  \/ \E h \in Handlers, j \in Jobs, w \in Workers : ApplyRead(h, j, w) \/ InterviewRead(h, j, w)
  \/ \E h \in Handlers : ApplyWrite(h) \/ InterviewWrite(h)
  \/ \E j \in Jobs, w \in Workers : Withdraw(j, w)
  \/ \E j \in Jobs : View(j)
  \/ \E j \in Jobs, ws \in SUBSET Workers : ShortlistAll(j, ws)
  \/ \E j \in Jobs, w \in Workers, status \in Decisions :
       Decide(j, w, status) \/ ConsoleDecide(j, w, status)

Hires ==
  \/ \E j \in Jobs, w \in Workers :
       Complete(j, w) \/ MarkUnavailable(j, w) \/ MarkAvailable(j, w)
  \/ \E h \in Handlers, j \in Jobs, w \in Workers, r \in Workers : AssignRead(h, j, w, r)
  \/ \E h \in Handlers : AssignCommit(h)

Shifts ==
  \/ \E s \in ShiftIds, j \in Jobs, w \in Workers, slot \in Slots : CreateShift(s, j, w, slot)
  \/ \E h \in Handlers, s \in ShiftIds :
       CheckInRead(h, s) \/ CheckOutRead(h, s) \/ CancelRead(h, s)
  \/ \E h \in Handlers : CheckInWrite(h) \/ CheckOutWrite(h) \/ CancelWrite(h)
  \/ \E i \in 1..MaxRecords : ConsoleCheckOut(i)

Cover ==
  \/ \E gap \in ShiftIds, w \in Workers : Invite(gap, w)
  \/ \E h \in Handlers, gap \in ShiftIds, w \in Workers : CoverRead(h, gap, w)
  \/ \E h \in Handlers, s \in ShiftIds : CoverWrite(h, s)

Next == Applications \/ Hires \/ Shifts \/ Cover \/ Tick
Spec == Init /\ [][Next]_vars

-----------------------------------------------------------------------------
(* What holds.                                                              *)

\* Rows, shifts, attendance and what handlers remember are well formed.
TypeOK ==
  /\ app \in [Jobs -> [Workers -> Row]]
  /\ shift \in [ShiftIds -> Shift \cup {None}]
  /\ records \in Seq(Record) /\ Len(records) <= MaxRecords
  /\ task \in [Handlers -> Task]
  /\ now \in 0..Horizon

\* Whoever has been replaced was flagged and stays flagged and ended, however
\* late a "they are available after all" or a decision reaches the row.
ReplacedStaysFlagged ==
  \A j \in Jobs, w \in Workers :
    app[j][w].replacedBy # None =>
      app[j][w].flagged /\ app[j][w].ended /\ app[j][w].replacedBy # w

OnJob(j) == {w \in Workers : app[j][w].status = "ACCEPTED" /\ ~app[j][w].ended}

\* Assigning is one transaction: the moment somebody is marked replaced they
\* leave the job and their replacement joins it, from the shortlist.  Nobody
\* else joins or leaves, so a place is never lost or doubled.
HandOver(j, w, r) ==
  /\ w \in OnJob(j) /\ r \notin OnJob(j)
  /\ OnJob(j)' = (OnJob(j) \ {w}) \cup {r}
  /\ app[j][r].status = "SHORTLISTED"
  /\ app'[j][r].replaces = w
PlacesHandedOver ==
  [][\A j \in Jobs, w \in Workers, r \in Workers :
       (app[j][w].replacedBy # r /\ app'[j][w].replacedBy = r) => HandOver(j, w, r)]_vars

\* An ended hire is opened again in one way: the person is taken from the
\* shortlist as somebody's replacement.  Deciding, re-applying, covering a
\* shift or being interviewed never does it.
EndedStaysEnded ==
  [][\A j \in Jobs, w \in Workers :
       (app[j][w].ended /\ ~app'[j][w].ended) =>
         \E v \in Workers : app[j][v].replacedBy # w /\ app'[j][v].replacedBy = w]_vars

\* A shift changes hands only together with the place it hangs off, and goes
\* to whoever takes that place.  Covering a cancelled shift never does it: who
\* pulled out stays on record.
OnlyPlacesMoveShifts ==
  [][\A s \in ShiftIds :
       (shift[s] # None /\ shift'[s].worker # shift[s].worker) =>
         LET j == shift[s].job  w == shift[s].worker  r == shift'[s].worker IN
         app[j][w].replacedBy # r /\ app'[j][w].replacedBy = r]_vars

\* A shift belongs to somebody with an application on its posting, so that
\* messages, payment and reviews find one.
ShiftHasApplication ==
  \A s \in ShiftIds : shift[s] # None => Applied(shift[s].job, shift[s].worker)

\* A shift has been started exactly if somebody has checked in to it; called
\* off, it may be either.
StartedIsAttended ==
  \A s \in ShiftIds :
    LET attended == \E i \in DOMAIN records : records[i].shift = s IN
    /\ In(s, {"IN_PROGRESS", "COMPLETED"}) => attended
    /\ In(s, {"CONFIRMED"}) => ~attended

-----------------------------------------------------------------------------
(* What the code or its comments say, and the code does not do.             *)

\* "Started shifts stay with whoever worked them."
StartedStays ==
  [][\A s \in ShiftIds :
       In(s, {"IN_PROGRESS", "COMPLETED"}) => shift'[s].worker = shift[s].worker]_vars

=============================================================================
