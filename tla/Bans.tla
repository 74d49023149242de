-------------------------------- MODULE Bans --------------------------------
(***************************************************************************)
(* The standalone console's ban notices: an administrator gives notice, the *)
(* worker is told, and a job that runs every minute suspends the account    *)
(* when the notice has run out, unless it was cancelled (BansService,       *)
(* BansCronService). "Ban now" applies a notice early, and an account can   *)
(* be suspended or restored with no notice at all (WorkersService).         *)
(*                                                                         *)
(* Every query is a step of its own, apart from apply's transaction, and    *)
(* any of them may fail. Time goes in ticks, NoticeTicks to the 24 hours.   *)
(* The messages to the worker, written last of all, are left out.           *)
(*                                                                         *)
(* An operator Name_Slip above Name is Name with a slip a programmer could  *)
(* make; nothing uses it.                                                   *)
(***************************************************************************)
EXTENDS Naturals, Sequences

CONSTANTS
  Workers,
  Desks,        \* administrators' requests served at once
  Cron,         \* the job's run, which no request delays
  NoticeTicks,  \* BAN_NOTICE_HOURS
  MaxNotices, MaxTicks, MaxFaults,  \* bounds: notices raised, time, failures
  NoErrand

ASSUME TicksAssumption == NoticeTicks \in Nat \ {0} /\ MaxTicks \in Nat
ASSUME BoundsAssumption == MaxNotices \in Nat /\ MaxFaults \in Nat
ASSUME CronAssumption == Cron \notin Desks
ASSUME NoErrandAssumption == NoErrand \notin Nat

VARIABLES
  now,        \* Date.now()
  suspended,  \* workers whose status is SUSPENDED
  notices,    \* scheduled_bans, in the order they were raised
  desk,       \* what each request, and the job, has read so far
  byHand,     \* history: notices "ban now" was asked for
  faults      \* history: failures so far

banVars == <<now, suspended, notices, desk, byHand, faults>>

-----------------------------------------------------------------------------
Runners == Desks \cup {Cron}
NoticeId == 1..MaxNotices
Notice ==
  [worker : Workers, status : {"SCHEDULED", "CANCELLED", "EXECUTED"},
   due : 1..MaxTicks, cancelled : 0..MaxTicks \cup {NoErrand}]

Errand ==
  [op : {"schedule"}, worker : Workers, looked : BOOLEAN]
    \cup [op : {"cancel"}, notice : NoticeId]
    \cup [op : {"apply"}, notice : NoticeId, read : BOOLEAN, todo : SUBSET NoticeId]
    \cup [op : {"sweep"}, todo : SUBSET NoticeId]

Doing(r, op) == desk[r] # NoErrand /\ desk[r].op = op
Scheduled(n) == notices[n].status = "SCHEDULED"

\* A run of the job goes on with the rest of its list; a request is over.
Rest(r) == IF r = Cron THEN [op |-> "sweep", todo |-> desk[r].todo] ELSE NoErrand
Applying(n, todo) == [op |-> "apply", notice |-> n, read |-> FALSE, todo |-> todo]

-----------------------------------------------------------------------------
(* Requests.                                                               *)

\* schedule: not suspended, ...
AskNotice(d, w) ==
  /\ desk[d] = NoErrand
  /\ w \notin suspended
  /\ desk' = [desk EXCEPT ![d] = [op |-> "schedule", worker |-> w, looked |-> FALSE]]
  /\ UNCHANGED <<now, suspended, notices, byHand, faults>>

\* ... and no notice running.
LookForNotice(d) ==
  /\ Doing(d, "schedule") /\ ~desk[d].looked
  /\ desk' = [desk EXCEPT ![d] =
       IF \E n \in DOMAIN notices : notices[n].worker = desk[d].worker /\ Scheduled(n)
       THEN NoErrand ELSE [@ EXCEPT !.looked = TRUE]]
  /\ UNCHANGED <<now, suspended, notices, byHand, faults>>

RaiseNotice(d) ==
  /\ Doing(d, "schedule") /\ desk[d].looked
  /\ Len(notices) < MaxNotices /\ now + NoticeTicks <= MaxTicks
  /\ notices' = Append(notices,
       [worker |-> desk[d].worker, status |-> "SCHEDULED",
        due |-> now + NoticeTicks, cancelled |-> NoErrand])
  /\ desk' = [desk EXCEPT ![d] = NoErrand]
  /\ UNCHANGED <<now, suspended, byHand, faults>>

\* cancel: only a notice that has not taken effect, as far as was read.
AskCancel(d, n) ==
  /\ desk[d] = NoErrand /\ Scheduled(n)
  /\ desk' = [desk EXCEPT ![d] = [op |-> "cancel", notice |-> n]]
  /\ UNCHANGED <<now, suspended, notices, byHand, faults>>

Cancel(d) ==
  /\ Doing(d, "cancel")
  /\ notices' = [notices EXCEPT ![desk[d].notice] =
       [@ EXCEPT !.status = "CANCELLED", !.cancelled = now]]
  /\ desk' = [desk EXCEPT ![d] = NoErrand]
  /\ UNCHANGED <<now, suspended, byHand, faults>>

\* executeNow.
AskBanNow(d, n) ==
  /\ desk[d] = NoErrand /\ Scheduled(n)
  /\ desk' = [desk EXCEPT ![d] = Applying(n, {})]
  /\ byHand' = byHand \cup {n}
  /\ UNCHANGED <<now, suspended, notices, faults>>

\* setStatus: the account screens suspend and restore at once.
SetAccountStatus(w) ==
  /\ suspended' = IF w \in suspended THEN suspended \ {w} ELSE suspended \cup {w}
  /\ UNCHANGED <<now, notices, desk, byHand, faults>>

-----------------------------------------------------------------------------
(* The job, and what it shares with "ban now".                             *)

\* applyDueBans: every notice still scheduled whose time has come. There is no
\* lower bound, so that a time the server was down for is made up.
Due_ThisMinute == {n \in DOMAIN notices : Scheduled(n) /\ notices[n].due = now}
Due_Early == {n \in DOMAIN notices : Scheduled(n) /\ notices[n].due <= now + 1}
Due == {n \in DOMAIN notices : Scheduled(n) /\ notices[n].due <= now}

StartSweep ==
  /\ desk[Cron] = NoErrand /\ Due # {}
  /\ desk' = [desk EXCEPT ![Cron] = [op |-> "sweep", todo |-> Due]]
  /\ UNCHANGED <<now, suspended, notices, byHand, faults>>

TakeNext ==
  /\ Doing(Cron, "sweep")
  /\ \/ \E n \in desk[Cron].todo :
          desk' = [desk EXCEPT ![Cron] = Applying(n, desk[Cron].todo \ {n})]
     \/ desk[Cron].todo = {} /\ desk' = [desk EXCEPT ![Cron] = NoErrand]
  /\ UNCHANGED <<now, suspended, notices, byHand, faults>>

\* apply reads the notice once more, and leaves it unless still scheduled.
Reread(r) ==
  /\ Doing(r, "apply") /\ ~desk[r].read
  /\ desk' = [desk EXCEPT ![r] =
       IF Scheduled(desk[r].notice) THEN [@ EXCEPT !.read = TRUE] ELSE Rest(r)]
  /\ UNCHANGED <<now, suspended, notices, byHand, faults>>

\* The account and the notice change together; neither is asked again.
Apply(r) ==
  /\ Doing(r, "apply") /\ desk[r].read
  /\ suspended' = suspended \cup {notices[desk[r].notice].worker}
  /\ notices' = [notices EXCEPT ![desk[r].notice].status = "EXECUTED"]
  /\ desk' = [desk EXCEPT ![r] = Rest(r)]
  /\ UNCHANGED <<now, byHand, faults>>

\* A query fails: a request ends there, a run goes on with the next notice. Or
\* the server goes down with everything in hand.
Fail(r) ==
  /\ faults < MaxFaults /\ desk[r] # NoErrand /\ desk[r].op # "sweep"
  /\ desk' = [desk EXCEPT ![r] = Rest(r)]
  /\ faults' = faults + 1
  /\ UNCHANGED <<now, suspended, notices, byHand>>

GoDown ==
  /\ faults < MaxFaults
  /\ desk' = [r \in Runners |-> NoErrand]
  /\ faults' = faults + 1
  /\ UNCHANGED <<now, suspended, notices, byHand>>

Tick ==
  /\ now < MaxTicks
  /\ now' = now + 1
  /\ UNCHANGED <<suspended, notices, desk, byHand, faults>>

-----------------------------------------------------------------------------
BansInit ==
  /\ now = 0
  /\ suspended = {}
  /\ notices = <<>>
  /\ desk = [r \in Runners |-> NoErrand]
  /\ byHand = {}
  /\ faults = 0

BansNext ==
  \/ \E d \in Desks, w \in Workers : AskNotice(d, w)
  \/ \E d \in Desks : LookForNotice(d) \/ RaiseNotice(d) \/ Cancel(d)
  \/ \E d \in Desks, n \in DOMAIN notices : AskCancel(d, n) \/ AskBanNow(d, n)
  \/ \E w \in Workers : SetAccountStatus(w)
  \/ StartSweep \/ TakeNext
  \/ \E r \in Runners : Reread(r) \/ Apply(r) \/ Fail(r)
  \/ GoDown
  \/ Tick

\* Time passes, the job runs every minute and gets on with what it has taken;
\* nothing is assumed of administrators.
BansFairness ==
  /\ WF_banVars(Tick)
  /\ WF_banVars(StartSweep)
  /\ WF_banVars(TakeNext)
  /\ WF_banVars(Reread(Cron))
  /\ WF_banVars(Apply(Cron))

BansSpec == BansInit /\ [][BansNext]_banVars /\ BansFairness

-----------------------------------------------------------------------------
(* Properties.                                                             *)

\* Every variable has its shape.
BansTypeOK ==
  /\ now \in 0..MaxTicks /\ faults \in 0..MaxFaults
  /\ suspended \subseteq Workers
  /\ notices \in Seq(Notice) /\ Len(notices) <= MaxNotices
  /\ desk \in [Runners -> Errand \cup {NoErrand}]
  /\ byHand \subseteq DOMAIN notices

\* "They have the whole window to respond or appeal", and "cancelling inside the
\* window genuinely stops the ban": unless an administrator asked for "ban now",
\* a notice suspends nobody before its time, and never after it was cancelled
\* in time; what takes effect and what is cancelled may cross only afterwards.
WindowStands ==
  [][\A n \in DOMAIN notices :
       n \notin byHand /\ notices'[n].status # notices[n].status =>
         /\ notices'[n].status = "EXECUTED" =>
              now >= notices[n].due /\ notices[n].cancelled \notin 0..(notices[n].due - 1)
         /\ notices'[n].status = "CANCELLED" /\ now < notices[n].due => Scheduled(n)
    ]_banVars

\* "Catching up on missed windows is intentional": every notice is decided in
\* the end, whatever failed and however long the server was down.
NoticeDecided ==
  \A n \in NoticeId :
    (n \in DOMAIN notices /\ Scheduled(n)) ~> (n \in DOMAIN notices /\ ~Scheduled(n))

\* "Cancelling inside the window genuinely stops the ban rather than having to
\* undo one": a notice cancelled before its time is not put into effect after.
CancelledIsCancelled ==
  [][\A n \in DOMAIN notices :
       notices[n].status = "CANCELLED" /\ notices[n].cancelled < notices[n].due
         => notices'[n].status = "CANCELLED"]_banVars
=============================================================================
