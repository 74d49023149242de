------------------------------ MODULE Identity ------------------------------
(***************************************************************************)
(* Proving who one is: the documents of one account, the checks a machine   *)
(* runs over them, and the people who decide.                               *)
(*                                                                         *)
(* OnboardingService stores a document's file, then its row, then removes   *)
(* the file the row named before, then queues the checks; AnalysisService   *)
(* runs them one after another in the memory of the process; the review     *)
(* queue (KycReviewService) and the console (ConsoleOperationsService,      *)
(* ConsoleWorkersService) decide. Every read and write of the database or   *)
(* of the storage is a step of its own, and a restart loses what the        *)
(* process had in hand.                                                     *)
(*                                                                         *)
(* An operator Name_Slip above Name is Name with a slip a programmer could  *)
(* make; nothing uses it.                                                   *)
(***************************************************************************)
EXTENDS Naturals, Sequences, FiniteSets

CONSTANTS
  Kinds,          \* kinds of document
  Required,       \* REQUIRED_DOCUMENTS, those a submission needs
  Licence,        \* TRADE_LICENSE, which makes an account a business
  Files,          \* storage keys, at most this many uploads
  SubmissionIds,  \* rows of kyc_submissions, at most this many
  Handlers,       \* requests served at once
  Nothing

ASSUME KindsAssumption == Required \subseteq Kinds /\ Licence \in Kinds

VARIABLES
  submitted,   \* onboardingSubmittedAt is set: the form is closed
  level,       \* verificationLevel
  document,    \* storageKey of each kind's row, or Nothing
  stored,      \* files in the storage
  minted,      \* keys built so far
  submission,  \* rows of kyc_submissions
  report,      \* documentAnalysis of each kind's row
  chain,       \* checks queued in AnalysisService
  analysing,   \* the one under way
  cut,         \* kinds whose upload or checks were cut short, not sent since
  task         \* what each request has read and where it stands

accountVars == <<submitted, level, submission>>
fileVars == <<document, stored, minted>>
checkVars == <<report, chain, analysing>>
identityVars == <<accountVars, fileVars, checkVars, cut, task>>

-----------------------------------------------------------------------------
Submission ==
  [status : {"PENDING_REVIEW", "ON_HOLD", "APPROVED", "REJECTED"},
   by : {"nobody", "queue", "console"}]

\* The verdict on a file that could be checked is DONE, whichever it is; FAILED is
\* "Automated checks could not complete". of: the file whose findings stand on the
\* row. run: history, the file of the run that wrote the status.
Report ==
  [status : {"RUNNING", "DONE", "FAILED"}, of : Files \cup {Nothing}, run : Files]

Analysing == [kind : Kinds, of : Files, at : {"read", "running", "unreadable", "checked"}]

Task ==
  [op : {"upload"}, kind : Kinds, file : Files, previous : Files \cup {Nothing},
   at : {"saved", "looked", "stored", "replaced"}]
  \cup [op : {"submit"}, at : {"looked"}]
  \cup [op : {"hold", "reject", "approve"}, id : SubmissionIds, licence : BOOLEAN,
        at : {"loaded", "looked"}]

ASSUME NothingAssumption == Nothing \notin Files \cup Submission \cup Report \cup Analysing \cup Task

\* getStatus: the form may be sent when no required document is missing.
Complete == \A k \in Required : document[k] # Nothing

IsOpen(id) ==
  submission[id] # Nothing /\ submission[id].status \in {"PENDING_REVIEW", "ON_HOLD"}

Take(h, t) == task[h] = Nothing /\ task' = [task EXCEPT ![h] = t]
At(h, op, at) == task[h] # Nothing /\ task[h].op = op /\ task[h].at = at
Goto(h, at) == task' = [task EXCEPT ![h].at = at]
Finish(h) == task' = [task EXCEPT ![h] = Nothing]

-----------------------------------------------------------------------------
(* uploadDocument.                                                         *)

\* assertNotSubmitted, then storage.save under a key no other upload has.
Save(h, k, f) ==
  /\ ~ submitted
  /\ f \notin minted
  /\ minted' = minted \cup {f}
  /\ stored' = stored \cup {f}
  /\ Take(h, [op |-> "upload", kind |-> k, file |-> f, previous |-> Nothing, at |-> "saved"])
  /\ UNCHANGED <<accountVars, document, checkVars, cut>>

LookUp(h) ==
  /\ At(h, "upload", "saved")
  /\ task' = [task EXCEPT ![h].previous = document[task[h].kind], ![h].at = "looked"]
  /\ UNCHANGED <<accountVars, fileVars, checkVars, cut>>

Upsert(h) ==
  /\ At(h, "upload", "looked")
  /\ document' = [document EXCEPT ![task[h].kind] = task[h].file]
  /\ Goto(h, "stored")
  /\ UNCHANGED <<accountVars, stored, minted, checkVars, cut>>

\* "Replacing a document should not leave the old file on disk."
RemoveOld_NamedNow(h) ==
  /\ At(h, "upload", "stored")
  /\ stored' = stored \ ({document[task[h].kind]} \ {task[h].file})
  /\ Goto(h, "replaced")
  /\ UNCHANGED <<accountVars, document, minted, checkVars, cut>>

RemoveOld(h) ==
  /\ At(h, "upload", "stored")
  /\ stored' = stored \ {task[h].previous}
  /\ Goto(h, "replaced")
  /\ UNCHANGED <<accountVars, document, minted, checkVars, cut>>

\* Not awaited: the answer goes out while the checks wait their turn.
Enqueue_UnlessRunning(h) ==
  /\ At(h, "upload", "replaced")
  /\ LET k == task[h].kind IN
       chain' = IF analysing # Nothing /\ analysing.kind = k THEN chain ELSE Append(chain, k)
  /\ cut' = cut \ {task[h].kind}
  /\ Finish(h)
  /\ UNCHANGED <<accountVars, fileVars, report, analysing>>

Enqueue(h) ==
  /\ At(h, "upload", "replaced")
  /\ chain' = Append(chain, task[h].kind)
  /\ cut' = cut \ {task[h].kind}
  /\ Finish(h)
  /\ UNCHANGED <<accountVars, fileVars, report, analysing>>

-----------------------------------------------------------------------------
(* AnalysisService: enqueue() links each run to the end of one promise.    *)

\* run() reads the row: the file it will check.
AnalysisRead ==
  /\ chain # <<>>
  /\ analysing = Nothing
  /\ chain' = Tail(chain)
  /\ analysing' = [kind |-> Head(chain), of |-> document[Head(chain)], at |-> "read"]
  /\ UNCHANGED <<accountVars, fileVars, report, cut, task>>

Analysis(at) == analysing # Nothing /\ analysing.at = at

\* The report says RUNNING; what an earlier file gave stays beside it.
AnalysisMark ==
  /\ Analysis("read")
  /\ report' = [report EXCEPT ![analysing.kind] =
                  [status |-> "RUNNING", of |-> IF @ = Nothing THEN Nothing ELSE @.of,
                   run |-> analysing.of]]
  /\ analysing' = [analysing EXCEPT !.at = "running"]
  /\ UNCHANGED <<accountVars, fileVars, chain, cut, task>>

\* storage.read throws when the file has been removed meanwhile; a file that is there
\* may not decode as an image, the card a selfie is compared with may be gone, and
\* the storage or the database may fail in between.
AnalysisOpen ==
  /\ Analysis("running")
  /\ \E at \in {"unreadable"} \cup (IF analysing.of \in stored THEN {"checked"} ELSE {}) :
       analysing' = [analysing EXCEPT !.at = at]
  /\ UNCHANGED <<accountVars, fileVars, report, chain, cut, task>>

\* The catch writes FAILED and no findings: an earlier file's stay on the row, and
\* nothing is queued again.
AnalysisWrite ==
  /\ \/ /\ Analysis("checked")
        /\ report' = [report EXCEPT ![analysing.kind] =
                        [status |-> "DONE", of |-> analysing.of, run |-> analysing.of]]
     \/ /\ Analysis("unreadable")
        /\ report' = [report EXCEPT ![analysing.kind].status = "FAILED"]
  /\ analysing' = Nothing
  /\ UNCHANGED <<accountVars, fileVars, chain, cut, task>>

\* The database does not answer: the run is given up and the chain goes on.
AnalysisDies ==
  /\ analysing # Nothing
  /\ cut' = cut \cup {analysing.kind}
  /\ analysing' = Nothing
  /\ UNCHANGED <<accountVars, fileVars, report, chain, task>>

-----------------------------------------------------------------------------
(* submit.                                                                 *)

\* assertNotSubmitted and getStatus.
SubmitRead(h) ==
  /\ ~ submitted
  /\ Complete
  /\ Take(h, [op |-> "submit", at |-> "looked"])
  /\ UNCHANGED <<accountVars, fileVars, checkVars, cut>>

SubmitWrite(h, id) ==
  /\ At(h, "submit", "looked")
  /\ submission[id] = Nothing
  /\ submitted' = TRUE
  /\ submission' = [submission EXCEPT ![id] = [status |-> "PENDING_REVIEW", by |-> "nobody"]]
  /\ Finish(h)
  /\ UNCHANGED <<level, fileVars, checkVars, cut>>

-----------------------------------------------------------------------------
(* KycReviewService: hold, reject and approve.                             *)

Decides(id, status, by) ==
  submission' = [submission EXCEPT ![id] = [status |-> status, by |-> by]]

\* load: "Two reviewers reaching a verdict on the same file should not silently
\* overwrite each other" - the status is looked at here and not again.
ReviewRead(h, op, id) ==
  /\ IsOpen(id)
  /\ Take(h, [op |-> op, id |-> id, licence |-> FALSE,
              at |-> IF op = "approve" THEN "loaded" ELSE "looked"])
  /\ UNCHANGED <<accountVars, fileVars, checkVars, cut>>

\* "The level follows the evidence": is there a trade licence?
LookForLicence(h) ==
  /\ At(h, "approve", "loaded")
  /\ task' = [task EXCEPT ![h].licence = document[Licence] # Nothing, ![h].at = "looked"]
  /\ UNCHANGED <<accountVars, fileVars, checkVars, cut>>

Approve(h) ==
  /\ At(h, "approve", "looked")
  /\ Decides(task[h].id, "APPROVED", "queue")
  /\ level' = IF task[h].licence THEN 2 ELSE 1
  /\ Finish(h)
  /\ UNCHANGED <<submitted, fileVars, checkVars, cut>>

Hold(h) ==
  /\ At(h, "hold", "looked")
  /\ Decides(task[h].id, "ON_HOLD", "queue")
  /\ Finish(h)
  /\ UNCHANGED <<submitted, level, fileVars, checkVars, cut>>

\* Clearing the timestamp reopens the form.
Reject_KeepsClosed(h) ==
  /\ At(h, "reject", "looked")
  /\ Decides(task[h].id, "REJECTED", "queue")
  /\ Finish(h)
  /\ UNCHANGED <<submitted, level, fileVars, checkVars, cut>>

Reject(h) ==
  /\ At(h, "reject", "looked")
  /\ Decides(task[h].id, "REJECTED", "queue")
  /\ submitted' = FALSE
  /\ Finish(h)
  /\ UNCHANGED <<level, fileVars, checkVars, cut>>

-----------------------------------------------------------------------------
(* The console, which asks no more than that the row is there.             *)

\* decideVerification
ConsoleApprove(id) ==
  /\ submission[id] # Nothing
  /\ Decides(id, "APPROVED", "console")
  /\ level' = 1
  /\ UNCHANGED <<submitted, fileVars, checkVars, cut, task>>

ConsoleReject(id) ==
  /\ submission[id] # Nothing
  /\ Decides(id, "REJECTED", "console")
  /\ UNCHANGED <<submitted, level, fileVars, checkVars, cut, task>>

\* ConsoleWorkersService.decide: 'verify'
ConsoleVerify ==
  /\ level' = 1
  /\ UNCHANGED <<submitted, submission, fileVars, checkVars, cut, task>>

-----------------------------------------------------------------------------
Queued == {chain[i] : i \in DOMAIN chain}

\* Stored, and the checks of it not queued yet.
Unqueued(k) ==
  \E h \in Handlers : /\ At(h, "upload", "stored") \/ At(h, "upload", "replaced")
                      /\ task[h].kind = k

UnderWay(k) == analysing # Nothing /\ analysing.kind = k

\* The process stops and starts: requests in hand, the chain and the run are gone.
Restart ==
  /\ cut' = cut \cup {k \in Kinds : k \in Queued \/ Unqueued(k) \/ UnderWay(k)}
  /\ chain' = <<>>
  /\ analysing' = Nothing
  /\ task' = [h \in Handlers |-> Nothing]
  /\ UNCHANGED <<accountVars, fileVars, report>>

IdentityInit ==
  /\ submitted = FALSE /\ level = 0
  /\ document = [k \in Kinds |-> Nothing]
  /\ stored = {} /\ minted = {}
  /\ submission = [id \in SubmissionIds |-> Nothing]
  /\ report = [k \in Kinds |-> Nothing]
  /\ chain = <<>> /\ analysing = Nothing
  /\ cut = {}
  /\ task = [h \in Handlers |-> Nothing]

Request(h) ==
  \/ \E k \in Kinds, f \in Files : Save(h, k, f)
  \/ LookUp(h) \/ Upsert(h) \/ RemoveOld(h) \/ Enqueue(h)
  \/ SubmitRead(h)
  \/ \E id \in SubmissionIds : SubmitWrite(h, id)
  \/ \E op \in {"hold", "reject", "approve"}, id \in SubmissionIds : ReviewRead(h, op, id)
  \/ LookForLicence(h) \/ Approve(h) \/ Hold(h) \/ Reject(h)

IdentityNext ==
  \/ \E h \in Handlers : Request(h)
  \/ AnalysisRead \/ AnalysisMark \/ AnalysisOpen \/ AnalysisWrite
  \/ AnalysisDies
  \/ \E id \in SubmissionIds : ConsoleApprove(id) \/ ConsoleReject(id)
  \/ ConsoleVerify
  \/ Restart

IdentitySpec == IdentityInit /\ [][IdentityNext]_identityVars

-----------------------------------------------------------------------------
(* What should hold.                                                       *)

\* Every variable has the shape of its table or of the service's memory.
IdentityTypeOK ==
  /\ submitted \in BOOLEAN /\ level \in 0..2
  /\ document \in [Kinds -> Files \cup {Nothing}]
  /\ stored \subseteq minted /\ minted \subseteq Files
  /\ submission \in [SubmissionIds -> Submission \cup {Nothing}]
  /\ report \in [Kinds -> Report \cup {Nothing}]
  /\ chain \in Seq(Kinds)
  /\ analysing \in Analysing \cup {Nothing}
  /\ cut \subseteq Kinds
  /\ task \in [Handlers -> Task \cup {Nothing}]

\* uploadDocument removes "the old file" by a key it read before its own upsert;
\* however uploads of one kind cross, and wherever a restart cuts them, the file a
\* row names is in the storage for the reviewer to open.
FileKept == \A k \in Kinds : document[k] # Nothing => document[k] \in stored

\* The report is of the document that is there: its checks gave the findings, or
\* they failed and it says so.
ReportCurrent(k) ==
  /\ report[k] # Nothing
  /\ report[k].run = document[k]
  /\ \/ report[k].status = "FAILED"
     \/ report[k].status = "DONE" /\ report[k].of = document[k]

\* What the reviewer reads is about the document that is there: findings of an
\* earlier file stand beside it only under a failure of its own checks. A report
\* that is still of an earlier file, failed on a removed one, is unfinished or
\* missing is about to be made again - unless a restart or a database error lost
\* that work, and then until the document is sent again.
ReportFollowsFile ==
  \A k \in Kinds :
    document[k] # Nothing =>
      \/ ReportCurrent(k)
      \/ Unqueued(k) \/ k \in Queued \/ UnderWay(k)
      \/ k \in cut

\* Someone whose form is closed has a submission that is open or was approved: they
\* wait for a person, or need nothing.
NotStuck ==
  submitted => \E id \in SubmissionIds :
                 submission[id] # Nothing /\ submission[id].status # "REJECTED"

\* Whatever two reviewers of the queue do to the submissions of one person, who may
\* have sent two at once, only a rejection from the console leaves them stuck.
OnlyConsoleStrands ==
  NotStuck \/ \E id \in SubmissionIds :
                submission[id] # Nothing /\ submission[id].by = "console"
=============================================================================
