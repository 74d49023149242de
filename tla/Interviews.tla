----------------------------- MODULE Interviews -----------------------------
(***************************************************************************)
(* Interviews one candidate is offered over one job: InterviewsService, the  *)
(* recruiter's Google calendar, which it keeps in step (GoogleService), and  *)
(* the console, which calls interviews off without the calendar              *)
(* (ConsoleOperationsService).                                               *)
(*                                                                         *)
(* A call reads the row, changes it and then asks Google, with nothing       *)
(* around the three; Google may refuse or be away, and the process may die   *)
(* in between. Messages to the candidate, which follow and change nothing    *)
(* here, are left out.                                                       *)
(*                                                                         *)
(* An operator Name_Slip above Name is Name with a slip a programmer could   *)
(* make; nothing uses it.                                                    *)
(***************************************************************************)
EXTENDS Naturals, Sequences

CONSTANTS
  Times,          \* times an interview may be set for
  Calls,          \* calls the server has in hand at once
  MaxInterviews,  \* bound: interviews of this candidate and job
  Resting, NoTime

ASSUME InterviewsAssumption == MaxInterviews \in Nat

VARIABLES
  application,  \* status of the candidate's application
  interviews,   \* the interviews, in the order they were proposed
  calendar,     \* the recruiter's Google calendar: the event of each interview
  work,         \* what each call has read and done so far
  upset         \* history: interviews over which Google failed or calls crossed,
                \* and those revived after they were called off

interviewVars == <<application, interviews, calendar, work, upset>>

-----------------------------------------------------------------------------
InterviewId == 1..MaxInterviews
Waiting == {"SCHEDULED", "RESCHEDULED"}
Arranged == Waiting \cup {"ACCEPTED"}
InterviewStatus == Arranged \cup {"DECLINED", "CANCELLED", "COMPLETED", "NO_SHOW"}

\* linked: googleEventId is set. answered: the time the candidate said yes to.
\* struck: history, the last to write the status was the console, calling it off.
Interview ==
  [status : InterviewStatus, time : Times, linked : BOOLEAN, answered : Times \cup {NoTime},
   struck : BOOLEAN]

\* "VIEWED" goes with "SUBMITTED", and "ACCEPTED" stands for every later status.
ApplicationStatus == {"SUBMITTED", "SHORTLISTED", "ACCEPTED"}

Work ==
  [op : {"schedule"}, at : {"read"}, seen : ApplicationStatus]
    \cup [op : {"schedule"}, at : {"created", "event", "linked"},
          seen : ApplicationStatus, id : InterviewId, time : Times]
    \cup [op : {"respond", "reschedule", "complete", "strike"}, at : {"read"}, id : InterviewId]
    \cup [op : {"cancel"}, at : {"read", "updated"}, id : InterviewId]
    \cup [op : {"reschedule"}, at : {"updated"}, id : InterviewId, time : Times]

ASSUME NoTimeAssumption == NoTime \notin Times /\ Resting \notin Work

Stands(c, op, at) == work[c] # Resting /\ work[c].op = op /\ work[c].at = at
WorksOn(c, id) == work[c] # Resting /\ "id" \in DOMAIN work[c] /\ work[c].id = id
Crossing(id) == IF \E c \in Calls : WorksOn(c, id) THEN {id} ELSE {}

Begin(c, op, id) ==
  /\ work[c] = Resting
  /\ work' = [work EXCEPT ![c] = [op |-> op, at |-> "read", id |-> id]]
  /\ upset' = upset \cup Crossing(id)
  /\ UNCHANGED <<application, interviews, calendar>>

EndCall(c) == work' = [work EXCEPT ![c] = Resting]

\* The update of a row, whatever it has become since it was read.
Set(id, status, time, answered) ==
  /\ interviews' = [interviews EXCEPT ![id] =
       [@ EXCEPT !.status = status, !.time = time, !.answered = answered, !.struck = FALSE]]
  /\ upset' = IF interviews[id].status = "CANCELLED" /\ status # "CANCELLED"
              THEN upset \cup {id} ELSE upset

-----------------------------------------------------------------------------
(* schedule.                                                               *)

\* The application is read, and refused if an interview is arranged already.
AskInterview(c) ==
  /\ work[c] = Resting
  /\ \A id \in DOMAIN interviews : interviews[id].status \notin Arranged
  /\ work' = [work EXCEPT ![c] = [op |-> "schedule", at |-> "read", seen |-> application]]
  /\ UNCHANGED <<application, interviews, calendar, upset>>

CreateInterview(c, time) ==
  /\ Stands(c, "schedule", "read")
  /\ Len(interviews) < MaxInterviews
  /\ interviews' = Append(interviews,
       [status |-> "SCHEDULED", time |-> time, linked |-> FALSE, answered |-> NoTime,
        struck |-> FALSE])
  /\ work' = [work EXCEPT ![c] =
       [op |-> "schedule", at |-> "created", seen |-> work[c].seen,
        id |-> Len(interviews) + 1, time |-> time]]
  /\ UNCHANGED <<application, calendar, upset>>

\* createMeeting, for a video interview without a link of the recruiter's own: an
\* event is made at the time the row was created with, or not, or nobody hears of it.
CreateMeeting(c) ==
  /\ Stands(c, "schedule", "created")
  /\ LET id == work[c].id
     IN  \/ /\ calendar' = [calendar EXCEPT ![id] = work[c].time]
            /\ work' = [work EXCEPT ![c].at = "event"]
            /\ UNCHANGED upset
         \/ /\ work' = [work EXCEPT ![c].at = "linked"]
            /\ UNCHANGED <<calendar, upset>>
         \/ /\ calendar' = [calendar EXCEPT ![id] = work[c].time]
            /\ work' = [work EXCEPT ![c].at = "linked"]
            /\ upset' = upset \cup {id}
  /\ UNCHANGED <<application, interviews>>

LinkMeeting(c) ==
  /\ Stands(c, "schedule", "event")
  /\ interviews' = [interviews EXCEPT ![work[c].id].linked = TRUE]
  /\ work' = [work EXCEPT ![c].at = "linked"]
  /\ UNCHANGED <<application, calendar, upset>>

\* An application nobody had shortlisted when it was read is shortlisted now.
Shortlist(c) ==
  /\ Stands(c, "schedule", "linked")
  /\ application' = IF work[c].seen = "SUBMITTED" THEN "SHORTLISTED" ELSE application
  /\ EndCall(c)
  /\ UNCHANGED <<interviews, calendar, upset>>

-----------------------------------------------------------------------------
(* respond, reschedule, cancel, complete.                                  *)

AskRespond(c, id) == interviews[id].status \in Waiting /\ Begin(c, "respond", id)

\* The candidate has seen the time the row had when it was read; `answered` is
\* the time it has now, unless the two calls crossed.
AnswerInterview(c, accept) ==
  /\ Stands(c, "respond", "read")
  /\ LET id == work[c].id
     IN  Set(id, IF accept THEN "ACCEPTED" ELSE "DECLINED", interviews[id].time,
             IF accept THEN interviews[id].time ELSE NoTime)
  /\ EndCall(c)
  /\ UNCHANGED <<application, calendar>>

\* No status is looked at: whatever became of it, an interview can be moved.
AskReschedule(c, id) == Begin(c, "reschedule", id)

MoveTo(c, time, status) ==
  /\ Stands(c, "reschedule", "read")
  /\ LET id == work[c].id
         interview == interviews[id]
     IN  /\ Set(id, status, time, interview.answered)
         /\ IF interview.linked
            THEN work' = [work EXCEPT ![c] = [op |-> "reschedule", at |-> "updated",
                                              id |-> id, time |-> time]]
            ELSE EndCall(c)
  /\ UNCHANGED <<application, calendar>>

\* The candidate is asked again, because the time is new.
Reschedule_KeepsAnswer(c, time) ==
  /\ Stands(c, "reschedule", "read")
  /\ MoveTo(c, time, IF interviews[work[c].id].status = "ACCEPTED" THEN "ACCEPTED" ELSE "RESCHEDULED")
Reschedule(c, time) == MoveTo(c, time, "RESCHEDULED")

\* moveMeeting: an event that is gone, or a Google that fails, is only logged.
MoveMeeting(c) ==
  /\ Stands(c, "reschedule", "updated")
  /\ LET id == work[c].id
     IN  \/ /\ calendar' = [calendar EXCEPT ![id] = IF @ = NoTime THEN NoTime ELSE work[c].time]
            /\ UNCHANGED upset
         \/ upset' = upset \cup {id} /\ UNCHANGED calendar
  /\ EndCall(c)
  /\ UNCHANGED <<application, interviews>>

AskCancelInterview(c, id) == interviews[id].status # "COMPLETED" /\ Begin(c, "cancel", id)

CancelInterview(c) ==
  /\ Stands(c, "cancel", "read")
  /\ LET id == work[c].id
     IN  /\ Set(id, "CANCELLED", interviews[id].time, interviews[id].answered)
         /\ IF interviews[id].linked
            THEN work' = [work EXCEPT ![c].at = "updated"]
            ELSE EndCall(c)
  /\ UNCHANGED <<application, calendar>>

\* cancelMeeting, with the recruiter's token whichever side cancelled.
CancelMeeting(c) ==
  /\ Stands(c, "cancel", "updated")
  /\ \/ calendar' = [calendar EXCEPT ![work[c].id] = NoTime] /\ UNCHANGED upset
     \/ upset' = upset \cup {work[c].id} /\ UNCHANGED calendar
  /\ EndCall(c)
  /\ UNCHANGED <<application, interviews>>

AskComplete(c, id) == Begin(c, "complete", id)

CompleteInterview(c, status) ==
  /\ Stands(c, "complete", "read")
  /\ LET id == work[c].id
     IN  Set(id, status, interviews[id].time, interviews[id].answered)
  /\ EndCall(c)
  /\ UNCHANGED <<application, calendar>>

-----------------------------------------------------------------------------
(* ConsoleOperationsService.cancelInterview: "Call a meeting off".          *)

AskStrike(c, id) == interviews[id].status # "COMPLETED" /\ Begin(c, "strike", id)

\* The row and nothing else: Google is not told, and the event stays where it is.
Strike(c) ==
  /\ Stands(c, "strike", "read")
  /\ interviews' = [interviews EXCEPT ![work[c].id] =
       [@ EXCEPT !.status = "CANCELLED", !.struck = TRUE]]
  /\ EndCall(c)
  /\ UNCHANGED <<application, calendar, upset>>

-----------------------------------------------------------------------------
\* A query fails or the process dies: the call ends where it stands.
DropCall(c) ==
  /\ work[c] # Resting
  /\ upset' = IF "id" \in DOMAIN work[c] /\ work[c].at # "read" THEN upset \cup {work[c].id}
              ELSE upset
  /\ EndCall(c)
  /\ UNCHANGED <<application, interviews, calendar>>

\* The recruiter decides on the application meanwhile (JobsService).
DecideApplication(status) ==
  /\ status # application
  /\ application' = status
  /\ UNCHANGED <<interviews, calendar, work, upset>>

-----------------------------------------------------------------------------
InterviewsInit ==
  /\ application \in ApplicationStatus
  /\ interviews = <<>>
  /\ calendar = [id \in InterviewId |-> NoTime]
  /\ work = [c \in Calls |-> Resting]
  /\ upset = {}

InterviewsNext ==
  \/ \E c \in Calls :
       \/ AskInterview(c) \/ CreateMeeting(c) \/ LinkMeeting(c) \/ Shortlist(c)
       \/ MoveMeeting(c) \/ CancelInterview(c) \/ CancelMeeting(c) \/ Strike(c) \/ DropCall(c)
       \/ \E time \in Times : CreateInterview(c, time) \/ Reschedule(c, time)
       \/ \E accept \in BOOLEAN : AnswerInterview(c, accept)
       \/ \E status \in {"COMPLETED", "NO_SHOW"} : CompleteInterview(c, status)
       \/ \E id \in DOMAIN interviews :
            \/ AskRespond(c, id) \/ AskReschedule(c, id) \/ AskCancelInterview(c, id)
            \/ AskComplete(c, id) \/ AskStrike(c, id)
  \/ \E status \in {"SHORTLISTED", "ACCEPTED"} : DecideApplication(status)

InterviewsSpec == InterviewsInit /\ [][InterviewsNext]_interviewVars

-----------------------------------------------------------------------------
(* Properties.                                                             *)

\* Every variable has its shape.
InterviewsTypeOK ==
  /\ application \in ApplicationStatus
  /\ interviews \in Seq(Interview) /\ Len(interviews) <= MaxInterviews
  /\ calendar \in [InterviewId -> Times \cup {NoTime}]
  /\ work \in [Calls -> Work \cup {Resting}]
  /\ upset \subseteq InterviewId

\* Nobody is working on it, and nothing that went wrong touched it.
Undisturbed(id) == id \notin upset /\ \A c \in Calls : ~WorksOn(c, id)

\* "The candidate is asked again, because the time is new", and the event is
\* "removed from the recruiter's calendar with the interview": an undisturbed
\* interview reads ACCEPTED only for the time the candidate accepted, the recruiter's
\* calendar shows it at its own time until it is called off, and not after - unless
\* the console called it off, which leaves the event, at the interview's own time.
TimeAgreed ==
  \A id \in DOMAIN interviews :
    LET interview == interviews[id]
        event == IF interview.linked THEN interview.time ELSE NoTime
    IN  Undisturbed(id) =>
          /\ interview.status = "ACCEPTED" => interview.answered = interview.time
          /\ interview.status \in Arranged => calendar[id] = event
          /\ interview.status = "CANCELLED" =>
               \/ calendar[id] = NoTime
               \/ interview.struck /\ calendar[id] = event

\* "Two meetings for the same pair at overlapping times is somebody
\* double-booking by accident": one arranged interview at a time.
OneArranged ==
  \A i, j \in DOMAIN interviews :
    interviews[i].status \in Arranged /\ interviews[j].status \in Arranged => i = j
=============================================================================
