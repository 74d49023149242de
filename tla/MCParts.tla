------------------------------ MODULE MCParts -------------------------------
(* The parts that work by themselves, side by side: `part` says which of them *)
(* a behaviour is of, the others stand still. Every part is explored in full,  *)
(* on an instance of its own.                                                 *)
EXTENDS WalletLedger, Sessions, Credentials, Identity, Subscriptions, Interviews, Meetings

CONSTANTS p1, p2, w1, t1, t2, f1, f2, f3, s1, s2, h1, h2, u1, u2, i1, i2, a1, host, guest

VARIABLE part

-----------------------------------------------------------------------------
\* Identity: the checks do not look at submissions nor the decisions at checks: from
\* the first submission on, states with checks in hand are not continued.
ChecksThenDecisions ==
  (\A id \in SubmissionIds : submission[id] = Nothing) \/ (chain = <<>> /\ analysing = Nothing)

\* Credentials: claims in Postgres's order, in another one, and none.
MCContents ==
  {[subject |-> u1, issuer |-> i1, claims |-> "sorted"],
   [subject |-> u1, issuer |-> i2, claims |-> "unsorted"],
   [subject |-> u2, issuer |-> i1, claims |-> "none"]}

\* Subscriptions: what SUBSCRIPTION_PLANS says, a month being a day long.
MCPrice == [MONTHLY |-> 50100, LIFETIME |-> 1000100]
MCDays == [MONTHLY |-> 1, LIFETIME |-> NoEnd]

\* Meetings: slots next to each other and on top of each other.
MCSlots == {<<1, 2>>, <<2, 4>>}

\* Either rooms are booked and nothing more, or one guest is in one call, with at
\* most three notifications on their way.
RoomsOrOneCall ==
  \/ /\ \A m \in DOMAIN meetings : ~meetings[m].video
     /\ stamps = 0
     /\ \A s \in Seat : s[2] # Host => seats[s].response = "PENDING"
  \/ /\ Len(meetings) = 1 /\ meetings[1].slot = <<1, 2>> /\ meetings[1].status # "CANCELLED"
     /\ \A r \in Requests : request[r] # Free =>
          request[r].op = "end" \/ (request[r].op # "schedule" /\ request[r].person # Host)
     /\ \A s \in Seat : seats[s].response # "DECLINED" /\ (s[2] = Host => seats[s].leftAt = Never)
     /\ Len(news) <= 3

-----------------------------------------------------------------------------
PartsInit ==
  /\ part \in {"ledger", "sessions", "credentials", "identity", "plans", "interviews", "meetings"}
  /\ Init /\ SessionsInit /\ CredentialsInit /\ IdentityInit
  /\ PlansInit /\ InterviewsInit /\ MeetingsInit
  /\ part # "ledger" =>
       topUps = [t \in TopUpIds |-> [owner |-> 1, amount |-> 1, status |-> "OPEN"]]
  /\ part # "interviews" => application = "SUBMITTED"

Rest(name) ==
  /\ part = name /\ UNCHANGED part
  /\ name # "ledger" => UNCHANGED ledgerVars
  /\ name # "sessions" => UNCHANGED sessionVars
  /\ name # "credentials" => UNCHANGED credentialVars
  /\ name # "identity" => UNCHANGED identityVars
  /\ name # "plans" => UNCHANGED planVars
  /\ name # "interviews" => UNCHANGED interviewVars
  /\ name # "meetings" => UNCHANGED meetingVars

PartsNext ==
  \/ Rest("ledger") /\ Next
  \/ Rest("sessions") /\ SessionsNext
  \/ Rest("credentials") /\ CredentialsNext
  \/ Rest("identity") /\ IdentityNext
  \/ Rest("plans") /\ PlansNext
  \/ Rest("interviews") /\ InterviewsNext
  \/ Rest("meetings") /\ MeetingsNext

PartsVars ==
  <<part, ledgerVars, sessionVars, credentialVars, identityVars, planVars, interviewVars, meetingVars>>

PartsSpec == PartsInit /\ [][PartsNext]_PartsVars

\* Every variable of every part has its shape.
TypesOK ==
  /\ part = "ledger" => TypeOK
  /\ part = "sessions" => SessionsTypeOK
  /\ part = "credentials" => CredentialsTypeOK
  /\ part = "identity" => IdentityTypeOK
  /\ part = "plans" => PlansTypeOK
  /\ part = "interviews" => InterviewsTypeOK
  /\ part = "meetings" => MeetingsTypeOK

\* One pair of handlers serves every part, so the parts share one symmetry.
PartsSymmetry == Permutations({h1, h2})
=============================================================================
