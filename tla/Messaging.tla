------------------------------ MODULE Messaging ------------------------------
(***************************************************************************)
(* One thread between two people, and the phones showing it.  A message    *)
(* goes out over HTTP, is stored with a time taken before it is committed, *)
(* and is pushed to every phone of both over their sockets.  What was read *)
(* is one time per person: everything up to it counts as read, and carries *)
(* a second tick on its writer's phone.                                    *)
(*                                                                          *)
(* A phone keeps a copy of the thread, patched by pushes and answers and   *)
(* replaced whole by every fetch.  Between them sit the message bubbles it *)
(* has sent and not heard back about.                                      *)
(*                                                                          *)
(* A message's number is the time it was stored at; two messages of one    *)
(* millisecond are left out, and so is the second page of a thread.  An    *)
(* operator Name_Slip above Name is the same step with a plausible mistake *)
(* in it.                                                                   *)
(***************************************************************************)
EXTENDS Integers, Sequences, SequencesExt

CONSTANTS
  People,        \* the worker and the recruiter of the thread
  Phones,        \* those followed here; people may use others
  Owner,         \* whose phone it is
  Drafts,        \* what is typed, each once
  Author,
  TypedOn,       \* the phone a draft is typed on, or Elsewhere
  MaxMessages,   \* bound: attempts to store a message
  Active,        \* bound: the people who read over the socket, and block
  Handlers,      \* requests the API serves at once, thread fetches aside
  Nobody, Elsewhere

ASSUME PeopleAssumption == \E p, q \in People : p # q /\ People = {p, q}
ASSUME PhonesAssumption ==
  /\ Owner \in [Phones -> People]
  /\ Author \in [Drafts -> People]
  /\ TypedOn \in [Drafts -> Phones \cup {Elsewhere}]
  /\ \A d \in Drafts : TypedOn[d] \in Phones => Owner[TypedOn[d]] = Author[d]
  /\ Elsewhere \notin Phones
ASSUME BoundsAssumption == MaxMessages \in Nat /\ Active \subseteq People
ASSUME NobodyAssumption == Nobody \notin People

VARIABLES
  msgs,        \* messages by the time each was inserted
  readAt,      \* workerReadAt and recruiterReadAt
  reached,     \* the latest each of them has ever been
  blockedBy,
  task,        \* what each handler does next
  connected, wire,   \* sockets, and the pushes on their way over them
  fetch,       \* each phone's request for the whole thread
  view,        \* the thread as each phone holds it
  bubble       \* the outbox

server == <<msgs, readAt, reached, blockedBy>>
phone == <<connected, wire, fetch, view, bubble>>
vars == <<server, task, phone>>

Time == 0..MaxMessages
Message == [draft : Drafts, state : {"open", "stored", "gone"}]
Line == [id : Time \ {0}, seen : BOOLEAN]
Push ==
  [type : {"message:new"}, line : Line]
    \cup [type : {"conversation:read"}, by : People, at : Time]

Idle == [at |-> "idle"]
Task ==
  {Idle} \cup [at : {"insert"}, draft : Drafts, heard : BOOLEAN]
    \cup [at : {"store", "emit", "answer"}, draft : Drafts, id : Time \ {0}, heard : BOOLEAN]
    \cup [at : {"mark"}, who : People, newest : Time]
    \cup [at : {"unblock"}, who : People]
Fetch ==
  [at : {"none", "asked"}] \cup [at : {"reading"}, newest : Time, seen : Time]
    \cup [at : {"answered"}, lines : Seq(Line)]

AuthorOf(i) == Author[msgs[i].draft]
Other(p) == CHOOSE q \in People : q # p
Stored == {i \in DOMAIN msgs : msgs[i].state = "stored"}

\* The time it is, in place of the newest message's.
Newest_Now == Len(msgs) + 1
\* The newest message, 0 when there is none.
Newest == CHOOSE i \in Stored \cup {0} : \A k \in Stored : k <= i
Latest(a, b) == IF a >= b THEN a ELSE b

Do(h, next) == task' = [task EXCEPT ![h] = next]
SetBubble(d, state) == bubble' = [bubble EXCEPT ![d] = state]
Fail(h) == IF task[h].heard THEN SetBubble(task[h].draft, "failed") ELSE UNCHANGED bubble

\* To every socket either of them has open.
Emit(push) ==
  wire' = [ph \in Phones |-> IF connected[ph] THEN Append(wire[ph], push) ELSE wire[ph]]

\* upsertMessage: in place, or as the newest.
Upsert(lines, line) ==
  IF \E k \in DOMAIN lines : lines[k].id = line.id
  THEN [k \in DOMAIN lines |->
         IF lines[k].id # line.id THEN lines[k]
         ELSE [line EXCEPT !.seen = @ \/ lines[k].seen]]
  ELSE Append(lines, line)

-----------------------------------------------------------------------------
(* Sending.                                                                 *)

\* Sending a draft or trying a failed one again; the thread is read and found
\* open.
Send(h, d) ==
  /\ task[h] = Idle
  /\ bubble[d] \in {"unwritten", "failed"}
  /\ blockedBy = Nobody
  /\ SetBubble(d, "pending")
  /\ Do(h, [at |-> "insert", draft |-> d, heard |-> TypedOn[d] \in Phones])
  /\ UNCHANGED <<server, connected, wire, fetch, view>>

SendRefused(d) ==
  /\ bubble[d] = "unwritten" /\ TypedOn[d] \in Phones
  /\ blockedBy # Nobody
  /\ SetBubble(d, "failed")
  /\ UNCHANGED <<server, task, connected, wire, fetch, view>>

\* The message is inserted, and with it its time taken.
Insert(h) ==
  /\ task[h].at = "insert"
  /\ Len(msgs) < MaxMessages
  /\ msgs' = Append(msgs, [draft |-> task[h].draft, state |-> "open"])
  /\ Do(h, [at |-> "store", draft |-> task[h].draft, id |-> Len(msgs) + 1,
            heard |-> task[h].heard])
  /\ UNCHANGED <<readAt, reached, blockedBy, phone>>

\* Told to the phones before the transaction is over.
Store_EmitsFirst(h) ==
  /\ task[h].at = "store"
  /\ Emit([type |-> "message:new", line |-> [id |-> task[h].id, seen |-> FALSE]])
  /\ UNCHANGED <<server, task, connected, fetch, view, bubble>>
\* The thread is updated, writing counting as reading, and COMMIT.
Store(h) ==
  LET i == task[h].id IN
  /\ task[h].at = "store"
  /\ msgs' = [msgs EXCEPT ![i].state = "stored"]
  /\ readAt' = [readAt EXCEPT ![AuthorOf(i)] = i]
  /\ reached' = [reached EXCEPT ![AuthorOf(i)] = Latest(@, i)]
  /\ Do(h, [task[h] EXCEPT !.at = "emit"])
  /\ UNCHANGED <<blockedBy, phone>>

\* The request never arrives, its transaction fails, or the API goes down in
\* the middle of it.
RollBack(h) ==
  /\ task[h].at \in {"insert", "store"}
  /\ msgs' = IF task[h].at = "store" THEN [msgs EXCEPT ![task[h].id].state = "gone"] ELSE msgs
  /\ Fail(h)
  /\ Do(h, Idle)
  /\ UNCHANGED <<readAt, reached, blockedBy, connected, wire, fetch, view>>

\* To the other person, and to the sender's own phones.
EmitNew(h) ==
  /\ task[h].at = "emit"
  /\ Emit([type |-> "message:new", line |-> [id |-> task[h].id, seen |-> FALSE]])
  /\ Do(h, IF task[h].heard THEN [task[h] EXCEPT !.at = "answer"] ELSE Idle)
  /\ UNCHANGED <<server, connected, fetch, view, bubble>>

Answer(h) ==
  /\ task[h].at = "answer"
  /\ Do(h, Idle)
  /\ view' = [view EXCEPT ![TypedOn[task[h].draft]] =
       Upsert(@, [id |-> task[h].id, seen |-> FALSE])]
  /\ SetBubble(task[h].draft, "sent")
  /\ UNCHANGED <<server, connected, wire, fetch>>

\* The phone stops waiting; the API does not know.
LoseAnswer(h) ==
  /\ task[h].at \in {"insert", "store", "emit", "answer"}
  /\ task[h].heard
  /\ SetBubble(task[h].draft, "failed")
  /\ Do(h, IF task[h].at = "answer" THEN Idle ELSE [task[h] EXCEPT !.heard = FALSE])
  /\ UNCHANGED <<server, connected, wire, fetch, view>>

-----------------------------------------------------------------------------
(* Reading.                                                                 *)

\* Without the condition on the time that is there.
MoveTo_Unconditional(p, newest) ==
  /\ readAt' = [readAt EXCEPT ![p] = newest]
  /\ reached' = [reached EXCEPT ![p] = Latest(@, newest)]
  /\ Emit([type |-> "conversation:read", by |-> p, at |-> newest])
\* advanceRead's conditional update, and what it tells both sides.  The push
\* follows the update at some distance; nothing tells the two apart, since a
\* phone takes reads in any order.
MoveTo(p, newest) ==
  IF readAt[p] < newest
  THEN /\ readAt' = [readAt EXCEPT ![p] = newest]
       /\ reached' = [reached EXCEPT ![p] = Latest(@, newest)]
       /\ Emit([type |-> "conversation:read", by |-> p, at |-> newest])
  ELSE UNCHANGED <<readAt, reached, wire>>

\* Coming back to the thread, or a message landing in it, over the socket or
\* over HTTP.
MarkRead(h, p) ==
  /\ task[h] = Idle
  /\ readAt[p] < Newest
  /\ Do(h, [at |-> "mark", who |-> p, newest |-> Newest])
  /\ UNCHANGED <<server, phone>>

AdvanceRead(h) ==
  /\ task[h].at = "mark"
  /\ MoveTo(task[h].who, task[h].newest)
  /\ Do(h, Idle)
  /\ UNCHANGED <<msgs, blockedBy, connected, fetch, view, bubble>>

\* Only while the socket is down.
Ask_Disconnected(ph) ==
  /\ fetch[ph].at = "none"
  /\ ~connected[ph]
  /\ fetch' = [fetch EXCEPT ![ph] = [at |-> "asked"]]
  /\ UNCHANGED <<server, task, connected, wire, view, bubble>>
\* The thread fetched again, every minute or every quarter of one.
Ask(ph) ==
  /\ fetch[ph].at = "none"
  /\ fetch' = [fetch EXCEPT ![ph] = [at |-> "asked"]]
  /\ UNCHANGED <<server, task, connected, wire, view, bubble>>

\* thread() reads the row, with the newest message and both read times.
ReadRow(ph) ==
  /\ fetch[ph].at = "asked"
  /\ fetch' = [fetch EXCEPT ![ph] =
       [at |-> "reading", newest |-> Newest, seen |-> readAt[Other(Owner[ph])]]]
  /\ UNCHANGED <<server, task, connected, wire, view, bubble>>

\* The messages of the thread, oldest first.
InOrder == CHOOSE s \in [1..Cardinality(Stored) -> Stored] :
             \A k, l \in DOMAIN s : k < l => s[k] < s[l]
Lines(ph, seenTo) ==
  [k \in DOMAIN InOrder |->
     [id |-> InOrder[k], seen |-> AuthorOf(InOrder[k]) = Owner[ph] /\ InOrder[k] <= seenTo]]

\* It reads the messages and moves the read time.
ReadThread(ph) ==
  /\ fetch[ph].at = "reading"
  /\ fetch' = [fetch EXCEPT ![ph] = [at |-> "answered", lines |-> Lines(ph, fetch[ph].seen)]]
  /\ MoveTo(Owner[ph], fetch[ph].newest)
  /\ UNCHANGED <<msgs, blockedBy, task, connected, view, bubble>>

Show(ph) ==
  /\ fetch[ph].at = "answered"
  /\ view' = [view EXCEPT ![ph] = fetch[ph].lines]
  /\ fetch' = [fetch EXCEPT ![ph] = [at |-> "none"]]
  /\ UNCHANGED <<server, task, connected, wire, bubble>>

-----------------------------------------------------------------------------
(* The socket.                                                              *)

Disconnect(ph) ==
  /\ connected[ph]
  /\ connected' = [connected EXCEPT ![ph] = FALSE]
  /\ wire' = [wire EXCEPT ![ph] = <<>>]
  /\ UNCHANGED <<server, task, fetch, view, bubble>>

\* Coming back drops a fetch under way and starts another.
Connect(ph) ==
  /\ ~connected[ph]
  /\ connected' = [connected EXCEPT ![ph] = TRUE]
  /\ fetch' = [fetch EXCEPT ![ph] = [at |-> "asked"]]
  /\ UNCHANGED <<server, task, wire, view, bubble>>

\* Any read ticks them.
Ticked_ByAnyone(ph, lines, push) ==
  [k \in DOMAIN lines |->
     [lines[k] EXCEPT !.seen = @ \/ (AuthorOf(lines[k].id) = Owner[ph] /\ lines[k].id <= push.at)]]
\* The other side's read gives my messages up to it their second tick.
Ticked(ph, lines, push) ==
  IF push.by = Owner[ph] THEN lines
  ELSE [k \in DOMAIN lines |->
    [lines[k] EXCEPT !.seen = @ \/ (AuthorOf(lines[k].id) = Owner[ph] /\ lines[k].id <= push.at)]]

Receive(ph) ==
  /\ wire[ph] # <<>>
  /\ wire' = [wire EXCEPT ![ph] = Tail(@)]
  /\ view' = [view EXCEPT ![ph] =
       LET push == Head(wire[ph]) IN
       IF push.type = "message:new" THEN Upsert(@, push.line) ELSE Ticked(ph, @, push)]
  /\ UNCHANGED <<server, task, connected, fetch, bubble>>

-----------------------------------------------------------------------------
(* Blocking.                                                                *)

Block(p) ==
  /\ blockedBy' = p
  /\ UNCHANGED <<msgs, readAt, reached, task, phone>>

UnblockRead(h, p) ==
  /\ task[h] = Idle
  /\ blockedBy = p
  /\ Do(h, [at |-> "unblock", who |-> p])
  /\ UNCHANGED <<server, phone>>

\* Lifts whatever block is there by now.
Unblock(h) ==
  /\ task[h].at = "unblock"
  /\ blockedBy' = Nobody
  /\ Do(h, Idle)
  /\ UNCHANGED <<msgs, readAt, reached, phone>>

-----------------------------------------------------------------------------
Init ==
  /\ msgs = <<>>
  /\ readAt = [p \in People |-> 0]
  /\ reached = [p \in People |-> 0]
  /\ blockedBy = Nobody
  /\ task = [h \in Handlers |-> Idle]
  /\ connected = [ph \in Phones |-> TRUE]
  /\ wire = [ph \in Phones |-> <<>>]
  /\ fetch = [ph \in Phones |-> [at |-> "none"]]
  /\ view = [ph \in Phones |-> <<>>]
  /\ bubble = [d \in Drafts |-> "unwritten"]

Api ==
  \/ \E h \in Handlers, d \in Drafts : Send(h, d)
  \/ \E d \in Drafts : SendRefused(d)
  \/ \E h \in Handlers :
       \/ Insert(h) \/ Store(h) \/ RollBack(h) \/ EmitNew(h) \/ Answer(h) \/ LoseAnswer(h)
       \/ AdvanceRead(h) \/ Unblock(h)
  \/ \E h \in Handlers, p \in Active : MarkRead(h, p) \/ UnblockRead(h, p)
  \/ \E p \in Active : Block(p)

Phone ==
  \E ph \in Phones :
    \/ Ask(ph) \/ ReadRow(ph) \/ ReadThread(ph) \/ Show(ph)
    \/ Disconnect(ph) \/ Connect(ph) \/ Receive(ph)

Next == Api \/ Phone
Spec == Init /\ [][Next]_vars

\* A thread on screen is fetched again by the clock, and now and then a fetch
\* is not cut off by a reconnection before it is answered and shown.
FairSpec ==
  /\ Spec
  /\ \A ph \in Phones :
       /\ WF_vars(Ask(ph)) /\ WF_vars(ReadRow(ph))
       /\ SF_vars(ReadThread(ph)) /\ SF_vars(Show(ph))

-----------------------------------------------------------------------------
\* Messages, requests, pushes and what phones hold are well formed.
TypeOK ==
  /\ msgs \in Seq(Message) /\ Len(msgs) <= MaxMessages
  /\ readAt \in [People -> Time]
  /\ reached \in [People -> Time]
  /\ blockedBy \in People \cup {Nobody}
  /\ task \in [Handlers -> Task]
  /\ connected \in [Phones -> BOOLEAN]
  /\ wire \in [Phones -> Seq(Push)]
  /\ fetch \in [Phones -> Fetch]
  /\ view \in [Phones -> Seq(Line)]
  /\ bubble \in [Drafts -> {"unwritten", "pending", "failed", "sent"}]

\* A phone shows as sent only what is stored, and each message once, whichever
\* of its push, its answer and a fetch comes first.
ShownIsStored ==
  \A ph \in Phones :
    /\ \A k \in DOMAIN view[ph] : view[ph][k].id \in Stored
    /\ \A k, l \in DOMAIN view[ph] : view[ph][k].id = view[ph][l].id => k = l

\* A second tick is on a message of one's own, and only once the other side's
\* read time has been there: no push of one's own reading turns it.
TickedIsRead ==
  \A ph \in Phones : \A k \in DOMAIN view[ph] :
    LET line == view[ph][k] IN
    line.seen => AuthorOf(line.id) = Owner[ph] /\ line.id <= reached[Other(Owner[ph])]

\* "Two phones reading at once can never move it backwards": only sending a
\* message does, to that message's time.
OnlySendingMovesBack ==
  [][\A p \in People :
       readAt'[p] < readAt[p] =>
         /\ readAt'[p] \in Stored' \ Stored
         /\ AuthorOf(readAt'[p]) = p]_vars

\* "A reconnect refetches ... and cannot drift from the server": once nothing
\* new happens, every phone shows the thread as it is stored, ticks and all,
\* whatever was lost, overtaken or overwritten on the way.
Current(ph) ==
  LET lines == Lines(ph, readAt[Other(Owner[ph])]) IN
  /\ Len(view[ph]) = Len(lines)
  /\ \A k \in DOMAIN lines : view[ph][k].id = lines[k].id /\ view[ph][k].seen = lines[k].seen
PhonesCatchUp == <>[](\A ph \in Phones : Current(ph))

\* "A blocked thread takes no new messages from either side."
BlockedTakesNothing == [][blockedBy # Nobody => Stored' = Stored]_vars

=============================================================================
