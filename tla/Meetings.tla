------------------------------ MODULE Meetings ------------------------------
(***************************************************************************)
(* Meetings of one host: booking a room for a series of slots, calling it    *)
(* off, and who is shown in a video call (MeetingsService). Whether somebody *)
(* is in it is LiveKit's to say, in notifications that may be late, lost or  *)
(* overtaken; the row only keeps when the last "joined" and the last "left"  *)
(* were written.                                                             *)
(*                                                                         *)
(* A call that checks and then writes does so in two steps. A stamp is a     *)
(* time: a later one is greater. A pass is used once: the page takes it out  *)
(* of its address and asks for another to come back (what LiveKit's client   *)
(* does to keep a connection up is left out). A call outside joinWindow      *)
(* changes nothing and is left out, as are messages, templates and rooms.    *)
(*                                                                         *)
(* An operator Name_Slip above Name is Name with a slip a programmer could   *)
(* make; nothing uses it.                                                    *)
(***************************************************************************)
EXTENDS Naturals, Sequences, FiniteSets, SequencesExt

CONSTANTS
  People,       \* the host and the guests on every list
  Host,
  Requests,     \* calls the server has in hand at once
  Slots,        \* <<startsAt, endsAt>> a meeting may be asked for
  Shift,        \* from one occurrence of a series to the next
  MaxRepeats,   \* occurrences of a series
  MaxMeetings, MaxStamps,  \* bounds: meetings written, times taken
  Free, Never

ASSUME HostAssumption == Host \in People
ASSUME SlotsAssumption ==
  /\ Slots \subseteq Nat \X Nat /\ Shift \in Nat
  /\ \A slot \in Slots : slot[1] < slot[2] /\ slot[2] - slot[1] <= Shift
ASSUME MeetingBounds ==
  MaxRepeats \in Nat /\ MaxMeetings \in Nat /\ MaxStamps \in Nat

VARIABLES
  meetings,   \* the meetings, in the order they were written
  seats,      \* meeting_participants: for each meeting, a row for each person
  request,    \* what each call has read and not yet written
  connected,  \* LiveKit: who is in which room ...
  rooms,      \* ... and which rooms are open
  news,       \* LiveKit's notifications that have not arrived yet, oldest first
  passes,     \* passes given out, and neither used nor given back
  stamps,     \* stamps written so far
  disturbed   \* history: seats for which news was missed or overtaken, a time was
              \* overwritten with an earlier one, a leave came after the return, or
              \* LiveKit did not close the room

meetingVars == <<meetings, seats, request, connected, rooms, news, passes, stamps, disturbed>>

-----------------------------------------------------------------------------
MeetingId == 1..MaxMeetings
Seat == MeetingId \X People
Stamp == 1..MaxStamps

\* seen: history, the number of meetings when the room was looked at.
Meeting ==
  [slot : Nat \X Nat, video : BOOLEAN, status : {"SCHEDULED", "CANCELLED", "ENDED"},
   series : MeetingId, seen : 0..MaxMeetings]

SeatRow ==
  [response : {"PENDING", "ACCEPTED", "DECLINED"}, joinedAt : Stamp \cup {Never},
   leftAt : Stamp \cup {Never}]

MeetingCall ==
  [op : {"schedule"}, slot : Slots, video : BOOLEAN, count : 1..MaxRepeats, seen : 0..MaxMeetings]
    \cup [op : {"leave"}, meeting : MeetingId, person : People]
    \cup [op : {"end"}, meeting : MeetingId, done : BOOLEAN]
    \cup [op : {"join"}, meeting : MeetingId, person : People, stamp : Stamp, pending : BOOLEAN]

ASSUME NeverAssumption == Never \notin Stamp /\ Free \notin MeetingCall

\* "room_finished" is about everybody in the meeting.
News == [kind : {"joined", "left"}, meeting : MeetingId, about : {{p} : p \in People}]
          \cup [kind : {"finished"}, meeting : MeetingId, about : {People}]
Notice(kind, s) == [kind |-> kind, meeting |-> s[1], about |-> {s[2]}]
Concerns(i, s) == news[i].meeting = s[1] /\ s[2] \in news[i].about

Has(r, op) == request[r] # Free /\ request[r].op = op
TakeUp(r, what) == request[r] = Free /\ request' = [request EXCEPT ![r] = what]
Give(r) == request' = [request EXCEPT ![r] = Free]

NextStamp == stamps + 1
CanStamp == stamps < MaxStamps

\* expandOccurrences.
Occurrences(slot, count) == [i \in 1..count |-> <<slot[1] + (i - 1) * Shift, slot[2] + (i - 1) * Shift>>]

Overlap(a, b) == a[1] < b[2] /\ b[1] < a[2]
Booked(m) == meetings[m].status = "SCHEDULED" /\ ~meetings[m].video

-----------------------------------------------------------------------------
(* The list.                                                               *)

\* schedule: the room is free for every occurrence, as far as was read.
Busy_FirstOnly(slot, count) ==
  \E m \in DOMAIN meetings : Booked(m) /\ Overlap(meetings[m].slot, slot)
Busy(slot, count) ==
  \E m \in DOMAIN meetings, i \in 1..count :
    Booked(m) /\ Overlap(meetings[m].slot, Occurrences(slot, count)[i])

AskMeeting(r, slot, video, count) ==
  /\ video \/ ~Busy(slot, count)
  /\ TakeUp(r, [op |-> "schedule", slot |-> slot, video |-> video, count |-> count,
              seen |-> Len(meetings)])
  /\ UNCHANGED <<meetings, seats, connected, rooms, news, passes, stamps, disturbed>>

\* All occurrences in one transaction, the host's seat accepted.
CreateMeetings(r) ==
  /\ Has(r, "schedule")
  /\ LET made == request[r]
         first == Len(meetings) + 1
         new == [i \in 1..made.count |->
                   [slot |-> Occurrences(made.slot, made.count)[i], video |-> made.video,
                    status |-> "SCHEDULED", series |-> first, seen |-> made.seen]]
     IN  /\ Len(meetings) + made.count <= MaxMeetings
         /\ meetings' = meetings \o new
         /\ seats' = [s \in Seat |->
              IF s[1] >= first /\ s[1] < first + made.count /\ s[2] = Host
              THEN [seats[s] EXCEPT !.response = "ACCEPTED"] ELSE seats[s]]
  /\ Give(r)
  /\ UNCHANGED <<connected, rooms, news, passes, stamps, disturbed>>

\* cancel: this meeting, whatever its status, or what is left of its series.
Cancel(m, wholeSeries) ==
  /\ meetings' = [n \in DOMAIN meetings |->
       IF \/ ~wholeSeries /\ n = m
          \/ /\ wholeSeries /\ meetings[n].series = meetings[m].series
             /\ meetings[n].status = "SCHEDULED" /\ meetings[n].slot[1] >= meetings[m].slot[1]
       THEN [meetings[n] EXCEPT !.status = "CANCELLED"] ELSE meetings[n]]
  /\ UNCHANGED <<seats, request, connected, rooms, news, passes, stamps, disturbed>>

AnswerInvitation(m, p, response) ==
  /\ p # Host
  /\ seats' = [seats EXCEPT ![<<m, p>>].response = response]
  /\ UNCHANGED <<meetings, request, connected, rooms, news, passes, stamps, disturbed>>

-----------------------------------------------------------------------------
(* The call.                                                               *)

\* join: the row is read and the time taken, ...
AskJoin(r, m, p) ==
  /\ meetings[m].video /\ meetings[m].status = "SCHEDULED"
  /\ CanStamp
  /\ TakeUp(r, [op |-> "join", meeting |-> m, person |-> p, stamp |-> NextStamp,
              pending |-> seats[<<m, p>>].response = "PENDING"])
  /\ stamps' = NextStamp
  /\ UNCHANGED <<meetings, seats, connected, rooms, news, passes, disturbed>>

\* ... the seat written and the pass handed out: "coming to the meeting is
\* accepting it".
Admit(r) ==
  /\ Has(r, "join")
  /\ LET s == <<request[r].meeting, request[r].person>>
     IN  /\ seats' = [seats EXCEPT ![s].joinedAt = request[r].stamp,
                                   ![s].response = IF request[r].pending THEN "ACCEPTED" ELSE @]
         /\ passes' = passes \cup {s}
         /\ disturbed' = IF seats[s].joinedAt # Never /\ seats[s].joinedAt > request[r].stamp
                         THEN disturbed \cup {s} ELSE disturbed
  /\ Give(r)
  /\ UNCHANGED <<meetings, connected, rooms, news, stamps>>

\* The page leaves the room and tells the server, which may hear of it late: by
\* then the person may be back.
AskLeave(r, m, p) ==
  /\ seats[<<m, p>>].joinedAt # Never
  /\ TakeUp(r, [op |-> "leave", meeting |-> m, person |-> p])
  /\ connected' = connected \ {<<m, p>>}
  /\ news' = IF <<m, p>> \in connected THEN Append(news, Notice("left", <<m, p>>)) ELSE news
  /\ UNCHANGED <<meetings, seats, rooms, passes, stamps, disturbed>>

Leave(r) ==
  /\ Has(r, "leave")
  /\ CanStamp
  /\ LET s == <<request[r].meeting, request[r].person>>
     IN  /\ seats' = [seats EXCEPT ![s].leftAt = NextStamp]
         /\ passes' = passes \ {s}
         /\ disturbed' = IF s \in connected THEN disturbed \cup {s} ELSE disturbed
  /\ stamps' = NextStamp
  /\ Give(r)
  /\ UNCHANGED <<meetings, connected, rooms, news>>

\* end: the row is read; meeting and seats change together; the room is closed.
AskEnd(r, m) ==
  /\ meetings[m].status = "SCHEDULED"
  /\ TakeUp(r, [op |-> "end", meeting |-> m, done |-> FALSE])
  /\ UNCHANGED <<meetings, seats, connected, rooms, news, passes, stamps, disturbed>>

LeaveAll(m) ==
  seats' = [s \in Seat |->
    IF s[1] = m /\ seats[s].joinedAt # Never THEN [seats[s] EXCEPT !.leftAt = NextStamp]
    ELSE seats[s]]

End(r) ==
  /\ Has(r, "end") /\ ~request[r].done
  /\ CanStamp
  /\ meetings' = [meetings EXCEPT ![request[r].meeting].status = "ENDED"]
  /\ LeaveAll(request[r].meeting)
  /\ stamps' = NextStamp
  /\ request' = [request EXCEPT ![r].done = TRUE]
  /\ UNCHANGED <<connected, rooms, news, passes, disturbed>>

\* LiveKit sends everybody out, and says so of each.
EndRoom(r) ==
  /\ Has(r, "end") /\ request[r].done
  /\ LET out == connected \cap ({request[r].meeting} \X People)
     IN  /\ connected' = connected \ out
         /\ \E order \in SetToSeqs(out) :
              /\ news' = news \o [i \in DOMAIN order |-> Notice("left", order[i])]
  /\ Give(r)
  /\ UNCHANGED <<meetings, seats, rooms, passes, stamps, disturbed>>

\* The call ends where it stands, or LiveKit does not answer, which is logged.
DropRequest(r) ==
  /\ request[r] # Free
  /\ disturbed' = IF request[r].op = "end" /\ request[r].done
                  THEN disturbed \cup ({request[r].meeting} \X People) ELSE disturbed
  /\ Give(r)
  /\ UNCHANGED <<meetings, seats, connected, rooms, news, passes, stamps>>

-----------------------------------------------------------------------------
(* LiveKit, and what it tells.                                             *)

Connect(s) ==
  /\ s \in passes
  /\ connected' = connected \cup {s}
  /\ passes' = passes \ {s}
  /\ rooms' = rooms \cup {s[1]}
  /\ news' = Append(news, Notice("joined", s))
  /\ UNCHANGED <<meetings, seats, request, stamps, disturbed>>

Drop(s) ==
  /\ s \in connected
  /\ connected' = connected \ {s}
  /\ news' = Append(news, Notice("left", s))
  /\ UNCHANGED <<meetings, seats, request, rooms, passes, stamps, disturbed>>

\* A room nobody is in is closed.
CloseRoom(m) ==
  /\ m \in rooms /\ \A p \in People : <<m, p>> \notin connected
  /\ rooms' = rooms \ {m}
  /\ news' = Append(news, [kind |-> "finished", meeting |-> m, about |-> People])
  /\ UNCHANGED <<meetings, seats, request, connected, passes, stamps, disturbed>>

Without(i) == SubSeq(news, 1, i - 1) \o SubSeq(news, i + 1, Len(news))
Overtaken(i) == {s \in Seat : Concerns(i, s) /\ \E j \in 1..(i - 1) : Concerns(j, s)}

\* handleWebhook: the time written is the time it is heard.
Hear(i) ==
  /\ CanStamp
  /\ seats' = [s \in Seat |->
       IF ~Concerns(i, s) THEN seats[s]
       ELSE IF news[i].kind = "joined" THEN [seats[s] EXCEPT !.joinedAt = NextStamp]
       ELSE IF news[i].kind = "left" \/ seats[s].joinedAt # Never
       THEN [seats[s] EXCEPT !.leftAt = NextStamp]
       ELSE seats[s]]
  /\ stamps' = NextStamp
  /\ news' = Without(i)
  /\ disturbed' = disturbed \cup Overtaken(i)
  /\ UNCHANGED <<meetings, request, connected, rooms, passes>>

Miss(i) ==
  /\ news' = Without(i)
  /\ disturbed' = disturbed \cup {s \in Seat : Concerns(i, s)}
  /\ UNCHANGED <<meetings, seats, request, connected, rooms, passes, stamps>>

-----------------------------------------------------------------------------
MeetingsInit ==
  /\ meetings = <<>>
  /\ seats = [s \in Seat |-> [response |-> "PENDING", joinedAt |-> Never, leftAt |-> Never]]
  /\ request = [r \in Requests |-> Free]
  /\ connected = {}
  /\ rooms = {}
  /\ news = <<>>
  /\ passes = {}
  /\ stamps = 0
  /\ disturbed = {}

MeetingsNext ==
  \/ \E r \in Requests :
       \/ \E slot \in Slots, video \in BOOLEAN, count \in 1..MaxRepeats :
            AskMeeting(r, slot, video, count)
       \/ CreateMeetings(r) \/ Admit(r) \/ Leave(r) \/ End(r) \/ EndRoom(r) \/ DropRequest(r)
       \/ \E m \in DOMAIN meetings :
            AskEnd(r, m) \/ \E p \in People : AskJoin(r, m, p) \/ AskLeave(r, m, p)
  \/ \E m \in DOMAIN meetings :
       \/ \E wholeSeries \in BOOLEAN : Cancel(m, wholeSeries)
       \/ \E p \in People :
            \E response \in {"ACCEPTED", "DECLINED"} : AnswerInvitation(m, p, response)
       \/ CloseRoom(m)
  \/ \E s \in Seat : Connect(s) \/ Drop(s)
  \/ \E i \in DOMAIN news : Hear(i) \/ Miss(i)

MeetingsSpec == MeetingsInit /\ [][MeetingsNext]_meetingVars
-----------------------------------------------------------------------------
(* Properties.                                                             *)

\* Every variable has its shape.
MeetingsTypeOK ==
  /\ meetings \in Seq(Meeting) /\ Len(meetings) <= MaxMeetings
  /\ seats \in [Seat -> SeatRow]
  /\ request \in [Requests -> MeetingCall \cup {Free}]
  /\ connected \subseteq Seat /\ passes \subseteq Seat /\ disturbed \subseteq Seat
  /\ rooms \subseteq MeetingId
  /\ news \in Seq(News)
  /\ stamps \in 0..MaxStamps

\* assertRoomFree: of two meetings booked into the room at one time, the later
\* one was asked for before the earlier one was written.
RoomSharedByCrossing ==
  \A m, n \in DOMAIN meetings :
    m < n /\ Booked(m) /\ Booked(n) /\ Overlap(meetings[m].slot, meetings[n].slot)
      => meetings[n].seen < m

\* isInCall: went in and has not left since. (That somebody is not in the call
\* for ever, IN_CALL_STALE_MS, is not counted here.)
InCall_NeverLeft(s) == seats[s].joinedAt # Never /\ seats[s].leftAt = Never
InCall(s) ==
  /\ seats[s].joinedAt # Never
  /\ seats[s].leftAt # Never => seats[s].leftAt < seats[s].joinedAt

Still(s) ==
  /\ s \notin disturbed
  /\ \A i \in DOMAIN news : ~Concerns(i, s)
  /\ \A r \in Requests : request[r] # Free =>
       /\ request[r].op \in {"join", "leave"} => <<request[r].meeting, request[r].person>> # s
       /\ request[r].op = "end" => request[r].meeting # s[1]

\* Once everything LiveKit said of somebody has been heard, in the order it was
\* said, whoever is in the call is shown in it, and whoever is shown in it is
\* there or holds a pass and is on the way, however calls and news interleave;
\* unless a join was written after a later one, or a leave after the return.
ShownIsThere ==
  \A s \in Seat : Still(s) =>
    /\ s \in connected => InCall(s)
    /\ InCall(s) => s \in connected \cup passes
=============================================================================
