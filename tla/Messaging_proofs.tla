-------------------------- MODULE Messaging_proofs --------------------------
(***************************************************************************)
(* The thread as phones show it, proved for any number of phones, drafts,  *)
(* messages and requests: what is shown is stored, once, and a second tick *)
(* has been earned.                                                        *)
(*                                                                         *)
(* What the proof turns on: nothing stored is ever taken back, and the     *)
(* furthest a read time has been never falls, so whatever a push, an       *)
(* answer or a fetch says stays true however late it is heard.             *)
(***************************************************************************)
EXTENDS Messaging, SequenceTheorems, FiniteSetTheorems, WellFoundedInduction, TLAPS

\* Lines that say nothing false, each of another message.
FirmLines(ph, lines) ==
  /\ \A k \in DOMAIN lines : lines[k].id \in Stored
  /\ \A k, l \in DOMAIN lines : lines[k].id = lines[l].id => k = l
  /\ \A k \in DOMAIN lines :
       lines[k].seen =>
         AuthorOf(lines[k].id) = Owner[ph] /\ lines[k].id <= reached[Other(Owner[ph])]

\* A request that has inserted its message has it to itself; one that has
\* stored it still finds it stored.
TaskTrue(h) ==
  /\ task[h].at = "store" =>
       /\ task[h].id \in DOMAIN msgs /\ msgs[task[h].id].state = "open"
       /\ \A g \in Handlers : task[g].at = "store" /\ task[g].id = task[h].id => g = h
  /\ task[h].at \in {"emit", "answer"} => task[h].id \in Stored

PushTrue(push) ==
  /\ push.type = "message:new" => push.line.id \in Stored /\ ~push.line.seen
  /\ push.type = "conversation:read" => push.at <= reached[push.by]

WireTrue(ph) == \A k \in DOMAIN wire[ph] : PushTrue(wire[ph][k])
FetchTrue(ph) ==
  /\ fetch[ph].at = "reading" => fetch[ph].seen <= reached[Other(Owner[ph])]
  /\ fetch[ph].at = "answered" => FirmLines(ph, fetch[ph].lines)
ViewTrue(ph) == FirmLines(ph, view[ph])

ThreadInv ==
  /\ TypeOK
  /\ \A p \in People : readAt[p] <= reached[p]
  /\ \A h \in Handlers : TaskTrue(h)
  /\ \A ph \in Phones : WireTrue(ph) /\ FetchTrue(ph) /\ ViewTrue(ph)

\* What is stored stays, by the same person, and no read time loses ground.
Keeps ==
  /\ Stored \subseteq Stored'
  /\ \A i \in Stored : AuthorOf(i)' = AuthorOf(i)
  /\ \A p \in People : reached[p] <= reached'[p]

-----------------------------------------------------------------------------
(* Numbers.                                                                 *)

\* Any numbers have a least.
LEMMA Least ==
  ASSUME NEW S \in SUBSET Nat, S # {}
  PROVE  \E n \in S : \A k \in S : n <= k
<1> DEFINE R == {ss \in Nat \X Nat : ss[1] < ss[2]}
<1>1. IsWellFoundedOn(R, Nat)
  <2>1. OpToRel(<, Nat) = R
    BY DEF OpToRel
  <2> QED
    BY <2>1, NatLessThanWellFounded
<1>2. PICK n \in S : \A k \in S : <<k, n>> \notin R
  <2> HIDE DEF R
  <2> QED
    BY <1>1, WFMin
<1>3. \A k \in S : ~(k < n)
  BY <1>2
<1>4. \A k \in S : n <= k
  BY <1>3
<1> QED
  BY <1>4

\* Bounded ones have a greatest.
LEMMA Greatest ==
  ASSUME NEW S \in SUBSET Nat, S # {}, NEW b \in Nat, \A k \in S : k <= b
  PROVE  \E n \in S : \A k \in S : k <= n
<1> DEFINE U == {u \in Nat : \A k \in S : k <= u}
<1>1. PICK n \in U : \A u \in U : n <= u
  <2>1. U \in SUBSET Nat /\ b \in U
    OBVIOUS
  <2> HIDE DEF U
  <2> QED
    BY <2>1, Least
<1>2. n \in S
  <2> SUFFICES ASSUME n \notin S PROVE FALSE
    OBVIOUS
  <2>1. \A k \in S : k <= n /\ k # n /\ k \in Nat /\ n \in Nat
    BY <1>1
  <2>2. \A k \in S : k <= n - 1
    BY <2>1
  <2>3. n - 1 \in U
    <3>1. PICK k \in S : k <= n - 1
      BY <2>2
    <3>2. n - 1 \in Nat
      BY <2>1, <3>1
    <3> QED
      BY <2>2, <3>2
  <2> QED
    BY <1>1, <2>3
<1> QED
  BY <1>1, <1>2

\* Finitely many can be put in order.
LEMMA Sorting ==
  ASSUME NEW b \in Nat, NEW S \in SUBSET (0..b)
  PROVE  \E s \in [1..Cardinality(S) -> S] : \A k, l \in DOMAIN s : k < l => s[k] < s[l]
<1> DEFINE InLine(s) == \A k, l \in DOMAIN s : k < l => s[k] < s[l]
           Hard(T) == \A s \in [1..Cardinality(T) -> T] : ~InLine(s)
           C == {n \in Nat : \E T \in SUBSET (0..b) : Cardinality(T) = n /\ Hard(T)}
<1>0. \A T \in SUBSET (0..b) : IsFiniteSet(T)
  <2>1. IsFiniteSet(0..b)
    BY FS_Interval
  <2> QED
    BY <2>1, FS_Subset
<1>1. SUFFICES ASSUME C # {} PROVE FALSE
  <2>1. Cardinality(S) \in Nat
    BY <1>0, FS_CardinalityType
  <2>2. ~Hard(S)
    BY <1>1, <2>1
  <2> QED
    BY <2>2
<1>2. PICK n \in C : \A k \in C : n <= k
  <2>1. C \in SUBSET Nat
    OBVIOUS
  <2> HIDE DEF C
  <2> QED
    BY <1>1, <2>1, Least
<1>3. PICK T \in SUBSET (0..b) : Cardinality(T) = n /\ Hard(T)
  BY <1>2
<1>4. n \in Nat
  BY <1>2
<1>5. T # {}
  <2> SUFFICES ASSUME T = {} PROVE FALSE
    OBVIOUS
  <2>1. Cardinality(T) = 0
    BY FS_EmptySet
  <2>2. [k \in 1..0 |-> k] \in [1..0 -> T] /\ InLine([k \in 1..0 |-> k])
    OBVIOUS
  <2> QED
    BY <1>3, <2>1, <2>2
<1>6. PICK m \in T : \A k \in T : k <= m
  <2>1. T \in SUBSET Nat /\ \A k \in T : k <= b
    BY <1>3
  <2> QED
    BY <1>5, <2>1, Greatest
<1> DEFINE U == T \ {m}
<1>7. IsFiniteSet(U) /\ Cardinality(U) = n - 1
  BY <1>0, <1>3, <1>6, FS_RemoveElement
<1>8. n - 1 \in Nat
  BY <1>7, FS_CardinalityType
<1>9. n - 1 \notin C
  BY <1>2, <1>4
<1>10. PICK s \in [1..(n - 1) -> U] : InLine(s)
  BY <1>3, <1>7, <1>8, <1>9
<1>11. [k \in 1..n |-> IF k = n THEN m ELSE s[k]] \in [1..n -> T]
  BY <1>4, <1>6, <1>10
<1>12. InLine([k \in 1..n |-> IF k = n THEN m ELSE s[k]])
  <2>1. ASSUME NEW k \in 1..(n - 1) PROVE s[k] \in Nat /\ s[k] < m
    <3>1. s[k] \in T /\ s[k] # m
      BY <1>10
    <3>2. s[k] <= m
      BY <1>6, <3>1
    <3>3. \A i \in T : i \in Nat
      BY <1>3
    <3>4. s[k] \in Nat /\ m \in Nat
      BY <1>6, <3>1, <3>3
    <3> QED
      BY <3>1, <3>2, <3>4
  <2> QED
    BY <1>4, <1>10, <2>1
<1> QED
  BY <1>3, <1>11, <1>12

\* The messages are numbered from 1, and none counts past the bound.
LEMMA Numbered ==
  ASSUME TypeOK
  PROVE  /\ Len(msgs) \in Nat /\ Len(msgs) <= MaxMessages /\ DOMAIN msgs = 1..Len(msgs)
         /\ Stored \subseteq Time \ {0} /\ Stored \subseteq DOMAIN msgs
         /\ \A i \in DOMAIN msgs : msgs[i] \in Message /\ AuthorOf(i) \in People
<1>1. Len(msgs) \in Nat /\ Len(msgs) <= MaxMessages /\ DOMAIN msgs = 1..Len(msgs)
  BY LenProperties DEF TypeOK
<1>2. \A i \in DOMAIN msgs : msgs[i] \in Message
  BY <1>1, ElementOfSeq DEF TypeOK
<1> QED
  BY <1>1, <1>2, BoundsAssumption, PhonesAssumption DEF Stored, Time, Message, AuthorOf

\* The other one is the other of the two.
LEMMA Others ==
  ASSUME NEW p \in People
  PROVE  Other(p) \in People /\ \A q \in People : q # p => q = Other(p)
<1>1. PICK a \in People, b \in People : a # b /\ People = {a, b}
  BY PeopleAssumption
<1>2. \E q \in People : q # p
  BY <1>1
<1> QED
  BY <1>1, <1>2 DEF Other

\* The newest message is one of them, or none.
LEMMA NewestIs ==
  ASSUME TypeOK
  PROVE  Newest \in Time
<1> DEFINE S == Stored \cup {0}
<1>1. S \in SUBSET Nat /\ S # {} /\ S \subseteq Time /\ \A k \in S : k <= MaxMessages
  BY Numbered, BoundsAssumption DEF Time
<1>2. PICK n \in S : \A k \in S : k <= n
  <2> HIDE DEF S
  <2> QED
    BY <1>1, Greatest, BoundsAssumption
<1>3. \E i \in Stored \cup {0} : \A k \in Stored : k <= i
  BY <1>2
<1>4. Newest \in Stored \cup {0}
  BY <1>3 DEF Newest
<1> QED
  BY <1>1, <1>4

\* What a fetch reads of the thread is a list of it, true up to a time the
\* other side has read to.
LEMMA LinesAreFirm ==
  ASSUME TypeOK, NEW ph \in Phones, NEW t \in Time
  PROVE  /\ Lines(ph, t) \in Seq(Line)
         /\ t <= reached[Other(Owner[ph])] => FirmLines(ph, Lines(ph, t))
<1> DEFINE n == Cardinality(Stored)
<1>1. Stored \in SUBSET (0..MaxMessages) /\ MaxMessages \in Nat
  BY Numbered, BoundsAssumption DEF Time
<1>2. \E s \in [1..n -> Stored] : \A k, l \in DOMAIN s : k < l => s[k] < s[l]
  BY <1>1, Sorting
<1>3. InOrder \in [1..n -> Stored] /\ \A k, l \in DOMAIN InOrder : k < l => InOrder[k] < InOrder[l]
  BY <1>2 DEF InOrder
<1>4. n \in Nat
  <2>1. IsFiniteSet(0..MaxMessages)
    BY <1>1, FS_Interval
  <2> QED
    BY <1>1, <2>1, FS_Subset, FS_CardinalityType
<1>5. \A k \in 1..n : InOrder[k] \in Stored /\ InOrder[k] \in Time \ {0}
  BY <1>3, Numbered
<1> HIDE DEF n
<1>6. DOMAIN InOrder = 1..n /\ DOMAIN Lines(ph, t) = 1..n
  BY <1>3 DEF Lines
<1>7. \A k \in 1..n :
        /\ Lines(ph, t)[k].id = InOrder[k]
        /\ Lines(ph, t)[k].seen = (AuthorOf(InOrder[k]) = Owner[ph] /\ InOrder[k] <= t)
        /\ Lines(ph, t)[k] \in Line
  BY <1>5, <1>6 DEF Lines, Line
<1>8. Lines(ph, t) \in [1..n -> Line]
  BY <1>6, <1>7 DEF Lines
<1>9. Lines(ph, t) \in Seq(Line)
  BY <1>4, <1>8, SeqDef
<1>10. ASSUME NEW k \in 1..n, NEW l \in 1..n, Lines(ph, t)[k].id = Lines(ph, t)[l].id
       PROVE  k = l
  <2>1. InOrder[k] = InOrder[l] /\ InOrder[k] \in Nat
    BY <1>5, <1>7, <1>10, BoundsAssumption DEF Time
  <2>2. ~(k < l) /\ ~(l < k)
    BY <1>3, <1>6, <2>1
  <2> QED
    BY <1>4, <2>2
<1>11. ASSUME t <= reached[Other(Owner[ph])], NEW k \in 1..n, Lines(ph, t)[k].seen
       PROVE  /\ AuthorOf(Lines(ph, t)[k].id) = Owner[ph]
              /\ Lines(ph, t)[k].id <= reached[Other(Owner[ph])]
  <2>1. reached[Other(Owner[ph])] \in Nat /\ InOrder[k] \in Nat /\ t \in Nat
    BY <1>5, Others, PhonesAssumption, BoundsAssumption DEF TypeOK, Time
  <2>2. AuthorOf(InOrder[k]) = Owner[ph] /\ InOrder[k] <= t
    BY <1>7, <1>11, Zenon
  <2>3. InOrder[k] <= reached[Other(Owner[ph])]
    BY <1>11, <2>1, <2>2
  <2> QED
    BY <1>7, <2>2, <2>3, Zenon
<1> QED
  BY <1>5, <1>6, <1>7, <1>9, <1>10, <1>11 DEF FirmLines

-----------------------------------------------------------------------------
(* What a phone does to its copy.                                           *)

\* A message put in place or at the end: no other line changes.
LEMMA UpsertIs ==
  ASSUME NEW lines \in Seq(Line), NEW line \in Line
  PROVE  /\ Upsert(lines, line) \in Seq(Line)
         /\ \A k \in DOMAIN Upsert(lines, line) :
              \/ /\ k \in DOMAIN lines /\ Upsert(lines, line)[k].id = lines[k].id
                 /\ Upsert(lines, line)[k].seen => lines[k].seen \/ line.seen
              \/ /\ k = Len(lines) + 1 /\ Upsert(lines, line)[k] = line
                 /\ \A l \in DOMAIN lines : lines[l].id # line.id
<1>1. Len(lines) \in Nat /\ DOMAIN lines = 1..Len(lines) /\ \A k \in DOMAIN lines : lines[k] \in Line
  BY LenProperties, ElementOfSeq
<1>2. CASE \E k \in DOMAIN lines : lines[k].id = line.id
  <2> DEFINE New(k) == IF lines[k].id # line.id THEN lines[k]
                       ELSE [line EXCEPT !.seen = @ \/ lines[k].seen]
  <2>1. Upsert(lines, line) = [k \in DOMAIN lines |-> New(k)]
    BY <1>2 DEF Upsert
  <2>2. ASSUME NEW k \in DOMAIN lines
        PROVE  /\ New(k) \in Line /\ New(k).id = lines[k].id
               /\ New(k).seen => lines[k].seen \/ line.seen
    <3>1. lines[k] \in Line
      BY <1>1
    <3> QED
      BY <3>1 DEF Line
  <2> HIDE DEF New
  <2>3. [k \in 1..Len(lines) |-> New(k)] \in Seq(Line)
    <3>1. [k \in 1..Len(lines) |-> New(k)] \in [1..Len(lines) -> Line]
      BY <1>1, <2>2
    <3> QED
      BY <1>1, <3>1, SeqDef
  <2> QED
    BY <1>1, <2>1, <2>2, <2>3
<1>3. CASE ~\E k \in DOMAIN lines : lines[k].id = line.id
  <2>1. Upsert(lines, line) = Append(lines, line)
    BY <1>3 DEF Upsert
  <2>2. /\ Append(lines, line) \in Seq(Line) /\ Len(Append(lines, line)) = Len(lines) + 1
        /\ \A k \in 1..Len(lines) : Append(lines, line)[k] = lines[k]
        /\ Append(lines, line)[Len(lines) + 1] = line
    BY AppendProperties
  <2>3. DOMAIN Append(lines, line) = 1..(Len(lines) + 1)
    BY <2>2, LenProperties
  <2> QED
    BY <1>1, <1>3, <2>1, <2>2, <2>3
<1> QED
  BY <1>2, <1>3

\* A read of the other side's turns ticks, on one's own messages up to it.
LEMMA TickedIs ==
  ASSUME NEW lines \in Seq(Line), NEW ph \in Phones,
         NEW push \in Push, push.type = "conversation:read"
  PROVE  /\ Ticked(ph, lines, push) \in Seq(Line)
         /\ DOMAIN Ticked(ph, lines, push) = DOMAIN lines
         /\ \A k \in DOMAIN lines :
              /\ Ticked(ph, lines, push)[k].id = lines[k].id
              /\ Ticked(ph, lines, push)[k].seen =>
                   \/ lines[k].seen
                   \/ push.by # Owner[ph] /\ AuthorOf(lines[k].id) = Owner[ph] /\ lines[k].id <= push.at
<1>1. Len(lines) \in Nat /\ DOMAIN lines = 1..Len(lines) /\ \A k \in DOMAIN lines : lines[k] \in Line
  BY LenProperties, ElementOfSeq
<1>2. CASE push.by = Owner[ph]
  <2>1. Ticked(ph, lines, push) = lines
    BY <1>2 DEF Ticked
  <2> QED
    BY <2>1
<1>3. CASE push.by # Owner[ph]
  <2> DEFINE Mine(k) == AuthorOf(lines[k].id) = Owner[ph] /\ lines[k].id <= push.at
             New(k) == [lines[k] EXCEPT !.seen = @ \/ Mine(k)]
  <2>1. Ticked(ph, lines, push) = [k \in DOMAIN lines |-> New(k)]
    BY <1>3 DEF Ticked
  <2>2. ASSUME NEW k \in DOMAIN lines
        PROVE  New(k) \in Line /\ New(k).id = lines[k].id /\ (New(k).seen => lines[k].seen \/ Mine(k))
    <3>1. lines[k] \in Line /\ Mine(k) \in BOOLEAN
      BY <1>1
    <3> HIDE DEF Mine
    <3> QED
      BY <3>1 DEF Line
  <2> HIDE DEF New
  <2>3. [k \in 1..Len(lines) |-> New(k)] \in Seq(Line)
    <3>1. [k \in 1..Len(lines) |-> New(k)] \in [1..Len(lines) -> Line]
      BY <1>1, <2>2
    <3> QED
      BY <1>1, <3>1, SeqDef
  <2> QED
    BY <1>1, <1>3, <2>1, <2>2, <2>3
<1> QED
  BY <1>2, <1>3

-----------------------------------------------------------------------------
(* Types.                                                                   *)

LEMMA TaskTyped ==
  ASSUME TypeOK, NEW h \in Handlers
  PROVE  /\ task[h] \in Task
         /\ task[h].at = "insert" => task[h].draft \in Drafts /\ task[h].heard \in BOOLEAN
         /\ task[h].at \in {"store", "emit", "answer"} =>
              task[h].draft \in Drafts /\ task[h].id \in Time \ {0} /\ task[h].heard \in BOOLEAN
         /\ task[h].at = "mark" => task[h].who \in People /\ task[h].newest \in Time
         /\ task[h].at = "unblock" => task[h].who \in People
<1>1. task[h] \in Task
  BY DEF TypeOK
<1> QED
  BY <1>1 DEF Task, Idle

LEMMA FetchTyped ==
  ASSUME TypeOK, NEW ph \in Phones
  PROVE  /\ fetch[ph] \in Fetch
         /\ fetch[ph].at = "reading" => fetch[ph].newest \in Time /\ fetch[ph].seen \in Time
         /\ fetch[ph].at = "answered" => fetch[ph].lines \in Seq(Line)
<1>1. fetch[ph] \in Fetch
  BY DEF TypeOK
<1> QED
  BY <1>1 DEF Fetch

LEMMA PushTyped ==
  ASSUME NEW push \in Push
  PROVE  /\ push.type \in {"message:new", "conversation:read"}
         /\ push.type = "message:new" => push.line \in Line
         /\ push.type = "conversation:read" => push.by \in People /\ push.at \in Time
BY DEF Push

LEMMA HandlerTyped ==
  ASSUME TypeOK, NEW h \in Handlers, NEW next \in Task, Do(h, next)
  PROVE  task' \in [Handlers -> Task]
BY DEF Do, TypeOK

LEMMA BubbleTyped ==
  ASSUME TypeOK, NEW d, NEW state \in {"pending", "failed", "sent"}, SetBubble(d, state)
  PROVE  bubble' \in [Drafts -> {"unwritten", "pending", "failed", "sent"}]
BY DEF SetBubble, TypeOK

LEMMA EmitTyped ==
  ASSUME TypeOK, NEW push \in Push, Emit(push)
  PROVE  wire' \in [Phones -> Seq(Push)]
<1>1. ASSUME NEW ph \in Phones PROVE Append(wire[ph], push) \in Seq(Push)
  BY AppendProperties DEF TypeOK
<1> QED
  BY <1>1 DEF Emit, TypeOK

LEMMA MoveToTyped ==
  ASSUME TypeOK, NEW p \in People, NEW newest \in Time, MoveTo(p, newest)
  PROVE  /\ readAt' \in [People -> Time] /\ reached' \in [People -> Time]
         /\ wire' \in [Phones -> Seq(Push)]
<1>1. CASE readAt[p] < newest
  <2> DEFINE push == [type |-> "conversation:read", by |-> p, at |-> newest]
  <2>1. push \in Push /\ Emit(push)
    BY <1>1 DEF Push, MoveTo
  <2>2. wire' \in [Phones -> Seq(Push)]
    <3> HIDE DEF push
    <3> QED
      BY <2>1, EmitTyped
  <2> QED
    BY <1>1, <2>2 DEF MoveTo, TypeOK, Latest
<1>2. CASE ~(readAt[p] < newest)
  BY <1>2 DEF MoveTo, TypeOK
<1> QED
  BY <1>1, <1>2

\* A message changes state where it is.
LEMMA StateTyped ==
  ASSUME TypeOK, NEW i, NEW state \in {"stored", "gone"}
  PROVE  /\ [msgs EXCEPT ![i].state = state] \in Seq(Message)
         /\ Len([msgs EXCEPT ![i].state = state]) = Len(msgs)
<1>1. Len(msgs) \in Nat /\ DOMAIN msgs = 1..Len(msgs) /\ \A k \in DOMAIN msgs : msgs[k] \in Message
  BY Numbered
<1>2. \A k \in DOMAIN msgs : [msgs[k] EXCEPT !.state = state] \in Message
  BY <1>1 DEF Message
<1>3. [msgs EXCEPT ![i].state = state] \in [1..Len(msgs) -> Message]
  BY <1>1, <1>2 DEF TypeOK
<1>4. [msgs EXCEPT ![i].state = state] \in Seq(Message)
  BY <1>1, <1>3, SeqDef
<1> QED
  BY <1>1, <1>3, <1>4, LenProperties

\* A push about a message, and an update of the outbox, where they are sent.
LEMMA NewPush ==
  ASSUME NEW id \in Time \ {0}
  PROVE  /\ [id |-> id, seen |-> FALSE] \in Line
         /\ [type |-> "message:new", line |-> [id |-> id, seen |-> FALSE]] \in Push
BY DEF Line, Push

LEMMA FailTyped ==
  ASSUME TypeOK, NEW h \in Handlers, Fail(h)
  PROVE  bubble' \in [Drafts -> {"unwritten", "pending", "failed", "sent"}]
BY BubbleTyped DEF Fail, TypeOK

LEMMA TypesKept ==
  ASSUME TypeOK, [Next]_vars
  PROVE  TypeOK'
<1> USE DEF server, phone
<1>1. ASSUME NEW h \in Handlers, NEW d \in Drafts, Send(h, d) PROVE TypeOK'
  <2>1. [at |-> "insert", draft |-> d, heard |-> TypedOn[d] \in Phones] \in Task
    BY DEF Task
  <2> QED
    BY <1>1, <2>1, HandlerTyped, BubbleTyped DEF Send, TypeOK
<1>2. ASSUME NEW d \in Drafts, SendRefused(d) PROVE TypeOK'
  BY <1>2, BubbleTyped DEF SendRefused, TypeOK
<1>3. ASSUME NEW h \in Handlers, Insert(h) PROVE TypeOK'
  <2> DEFINE m == [draft |-> task[h].draft, state |-> "open"]
  <2>1. task[h].draft \in Drafts /\ task[h].heard \in BOOLEAN /\ Len(msgs) \in Nat /\ Len(msgs) < MaxMessages
    BY <1>3, TaskTyped, Numbered DEF Insert
  <2>2. m \in Message /\ msgs' = Append(msgs, m)
    BY <1>3, <2>1 DEF Message, Insert
  <2>3. msgs' \in Seq(Message) /\ Len(msgs') <= MaxMessages
    <3> HIDE DEF m
    <3> QED
      BY <2>1, <2>2, AppendProperties, BoundsAssumption DEF TypeOK
  <2>4. [at |-> "store", draft |-> task[h].draft, id |-> Len(msgs) + 1, heard |-> task[h].heard] \in Task
    BY <2>1, BoundsAssumption DEF Task, Time
  <2> QED
    BY <1>3, <2>3, <2>4, HandlerTyped DEF Insert, TypeOK
<1>4. ASSUME NEW h \in Handlers, Store(h) PROVE TypeOK'
  <2> DEFINE i == task[h].id
  <2>1. i \in Time \ {0} /\ task[h] \in Task
    BY <1>4, TaskTyped DEF Store
  <2>2. msgs' \in Seq(Message) /\ Len(msgs') <= MaxMessages
    BY <1>4, <2>1, StateTyped DEF Store, TypeOK
  <2>3. readAt' \in [People -> Time] /\ reached' \in [People -> Time]
    BY <1>4, <2>1 DEF Store, TypeOK, Latest
  <2>4. [task[h] EXCEPT !.at = "emit"] \in Task
    BY <1>4, <2>1 DEF Store, Task, Idle
  <2> QED
    BY <1>4, <2>2, <2>3, <2>4, HandlerTyped DEF Store, TypeOK
<1>5. ASSUME NEW h \in Handlers, RollBack(h) PROVE TypeOK'
  <2>1. msgs' \in Seq(Message) /\ Len(msgs') <= MaxMessages
    BY <1>5, StateTyped DEF RollBack, TypeOK
  <2>2. Idle \in Task
    BY DEF Task
  <2> QED
    BY <1>5, <2>1, <2>2, HandlerTyped, FailTyped DEF RollBack, TypeOK
<1>6. ASSUME NEW h \in Handlers, EmitNew(h) PROVE TypeOK'
  <2>1. task[h].id \in Time \ {0} /\ task[h] \in Task
    BY <1>6, TaskTyped DEF EmitNew
  <2>2. wire' \in [Phones -> Seq(Push)]
    BY <1>6, <2>1, NewPush, EmitTyped DEF EmitNew
  <2>3. (IF task[h].heard THEN [task[h] EXCEPT !.at = "answer"] ELSE Idle) \in Task
    BY <1>6, <2>1 DEF EmitNew, Task, Idle
  <2> QED
    BY <1>6, <2>2, <2>3, HandlerTyped DEF EmitNew, TypeOK
<1>7. ASSUME NEW h \in Handlers, Answer(h) PROVE TypeOK'
  <2> DEFINE line == [id |-> task[h].id, seen |-> FALSE]
  <2>1. line \in Line
    BY <1>7, TaskTyped, NewPush DEF Answer
  <2>2. view' \in [Phones -> Seq(Line)]
    <3>1. \A ph \in Phones : Upsert(view[ph], line) \in Seq(Line)
      <4> HIDE DEF line
      <4> QED
        BY <2>1, UpsertIs DEF TypeOK
    <3> QED
      BY <1>7, <3>1 DEF Answer, TypeOK
  <2>3. Idle \in Task
    BY DEF Task
  <2> QED
    BY <1>7, <2>2, <2>3, HandlerTyped, BubbleTyped DEF Answer, TypeOK
<1>8. ASSUME NEW h \in Handlers, LoseAnswer(h) PROVE TypeOK'
  <2>1. task[h] \in Task
    BY TaskTyped
  <2>2. (IF task[h].at = "answer" THEN Idle ELSE [task[h] EXCEPT !.heard = FALSE]) \in Task
    BY <1>8, <2>1 DEF LoseAnswer, Task, Idle
  <2> QED
    BY <1>8, <2>2, HandlerTyped, BubbleTyped DEF LoseAnswer, TypeOK
<1>9. ASSUME NEW h \in Handlers, AdvanceRead(h) PROVE TypeOK'
  <2>1. Idle \in Task /\ task[h].who \in People /\ task[h].newest \in Time
    BY <1>9, TaskTyped DEF AdvanceRead, Task
  <2> QED
    BY <1>9, <2>1, HandlerTyped, MoveToTyped DEF AdvanceRead, TypeOK
<1>10. ASSUME NEW h \in Handlers, Unblock(h) PROVE TypeOK'
  <2>1. Idle \in Task
    BY DEF Task
  <2> QED
    BY <1>10, <2>1, HandlerTyped DEF Unblock, TypeOK
<1>11. ASSUME NEW h \in Handlers, NEW p \in Active, MarkRead(h, p) PROVE TypeOK'
  <2>1. [at |-> "mark", who |-> p, newest |-> Newest] \in Task
    BY NewestIs, BoundsAssumption DEF Task
  <2> QED
    BY <1>11, <2>1, HandlerTyped DEF MarkRead, TypeOK
<1>12. ASSUME NEW h \in Handlers, NEW p \in Active, UnblockRead(h, p) PROVE TypeOK'
  <2>1. [at |-> "unblock", who |-> p] \in Task
    BY BoundsAssumption DEF Task
  <2> QED
    BY <1>12, <2>1, HandlerTyped DEF UnblockRead, TypeOK
<1>13. ASSUME NEW p \in Active, Block(p) PROVE TypeOK'
  BY <1>13, BoundsAssumption DEF Block, TypeOK
<1>14. ASSUME NEW ph \in Phones, ReadRow(ph) PROVE TypeOK'
  <2>1. Newest \in Time /\ readAt[Other(Owner[ph])] \in Time
    BY NewestIs, Others, PhonesAssumption DEF TypeOK
  <2>2. [at |-> "reading", newest |-> Newest, seen |-> readAt[Other(Owner[ph])]] \in Fetch
    BY <2>1 DEF Fetch
  <2> QED
    BY <1>14, <2>2 DEF ReadRow, TypeOK
<1>15. ASSUME NEW ph \in Phones, ReadThread(ph) PROVE TypeOK'
  <2>1. fetch[ph].newest \in Time /\ fetch[ph].seen \in Time
    BY <1>15, FetchTyped DEF ReadThread
  <2>2. [at |-> "answered", lines |-> Lines(ph, fetch[ph].seen)] \in Fetch
    BY <2>1, LinesAreFirm DEF Fetch
  <2>3. /\ readAt' \in [People -> Time] /\ reached' \in [People -> Time]
        /\ wire' \in [Phones -> Seq(Push)]
    BY <1>15, <2>1, MoveToTyped, PhonesAssumption DEF ReadThread
  <2> QED
    BY <1>15, <2>2, <2>3 DEF ReadThread, TypeOK
<1>16. ASSUME NEW ph \in Phones, Ask(ph) \/ Show(ph) \/ Connect(ph) PROVE TypeOK'
  <2>1. [at |-> "asked"] \in Fetch /\ [at |-> "none"] \in Fetch
    BY DEF Fetch
  <2> QED
    BY <1>16, <2>1, FetchTyped DEF Ask, Show, Connect, TypeOK
<1>17. ASSUME NEW ph \in Phones, Disconnect(ph) PROVE TypeOK'
  <2>1. <<>> \in Seq(Push)
    BY EmptySeq
  <2> QED
    BY <1>17, <2>1 DEF Disconnect, TypeOK
<1>18. ASSUME NEW ph \in Phones, Receive(ph) PROVE TypeOK'
  <2>1. Head(wire[ph]) \in Push /\ Tail(wire[ph]) \in Seq(Push)
    BY <1>18, HeadTailProperties DEF Receive, TypeOK
  <2> DEFINE push == Head(wire[ph])
             new == IF push.type = "message:new" THEN Upsert(view[ph], push.line)
                    ELSE Ticked(ph, view[ph], push)
  <2>2. new \in Seq(Line)
    <3>1. view[ph] \in Seq(Line) /\ push \in Push
      BY <2>1 DEF TypeOK
    <3> HIDE DEF push
    <3> QED
      BY <3>1, PushTyped, UpsertIs, TickedIs
  <2>3. view' = [view EXCEPT ![ph] = new]
    BY <1>18 DEF Receive
  <2> HIDE DEF new
  <2> QED
    BY <1>18, <2>1, <2>2, <2>3 DEF Receive, TypeOK
<1>19. CASE UNCHANGED vars
  BY <1>19 DEF vars, TypeOK
<1> QED
  BY <1>1, <1>2, <1>3, <1>4, <1>5, <1>6, <1>7, <1>8, <1>9, <1>10, <1>11, <1>12, <1>13,
     <1>14, <1>15, <1>16, <1>17, <1>18, <1>19 DEF Next, Api, Phone

-----------------------------------------------------------------------------
(* What stays true.                                                         *)

LEMMA FirmKept ==
  ASSUME TypeOK, TypeOK', Keeps, NEW ph \in Phones, NEW lines \in Seq(Line), FirmLines(ph, lines)
  PROVE  FirmLines(ph, lines)'
<1>1. Owner[ph] \in People /\ Other(Owner[ph]) \in People
  BY PhonesAssumption, Others
<1>2. reached[Other(Owner[ph])] \in Nat /\ reached'[Other(Owner[ph])] \in Nat
  BY <1>1, BoundsAssumption DEF TypeOK, Time
<1>3. ASSUME NEW k \in DOMAIN lines PROVE lines[k].id \in Nat /\ lines[k].id \in Stored
  <2>1. lines[k] \in Line
    BY LenProperties, ElementOfSeq
  <2> QED
    BY <2>1, BoundsAssumption DEF Line, Time, FirmLines
<1>4. \A k \in DOMAIN lines : lines[k].id \in Stored'
  BY <1>3 DEF Keeps
<1>5. ASSUME NEW k \in DOMAIN lines, lines[k].seen
      PROVE  AuthorOf(lines[k].id)' = Owner[ph] /\ lines[k].id <= reached'[Other(Owner[ph])]
  <2>1. AuthorOf(lines[k].id) = Owner[ph] /\ lines[k].id <= reached[Other(Owner[ph])]
    BY <1>5 DEF FirmLines
  <2>2. AuthorOf(lines[k].id)' = AuthorOf(lines[k].id)
    BY <1>3 DEF Keeps
  <2>3. reached[Other(Owner[ph])] <= reached'[Other(Owner[ph])]
    BY <1>1 DEF Keeps
  <2> QED
    BY <1>2, <1>3, <2>1, <2>2, <2>3
<1> QED
  BY <1>4, <1>5 DEF FirmLines

LEMMA PushKept ==
  ASSUME TypeOK, TypeOK', Keeps, NEW push \in Push, PushTrue(push)
  PROVE  PushTrue(push)'
<1>1. CASE push.type = "message:new"
  BY <1>1 DEF PushTrue, Keeps
<1>2. CASE push.type = "conversation:read"
  <2>1. push.by \in People /\ push.at \in Time
    BY <1>2, PushTyped
  <2>2. reached[push.by] \in Nat /\ reached'[push.by] \in Nat /\ push.at \in Nat
    BY <2>1, BoundsAssumption DEF TypeOK, Time
  <2>3. push.at <= reached[push.by] /\ reached[push.by] <= reached'[push.by]
    BY <1>2, <2>1 DEF PushTrue, Keeps
  <2>4. push.at <= reached'[push.by]
    BY <2>2, <2>3
  <2> QED
    BY <1>2, <2>4 DEF PushTrue
<1> QED
  BY <1>1, <1>2, PushTyped

LEMMA WireKept ==
  ASSUME TypeOK, TypeOK', Keeps, NEW ph \in Phones, WireTrue(ph),
         \A k \in DOMAIN wire'[ph] : \/ \E l \in DOMAIN wire[ph] : wire'[ph][k] = wire[ph][l]
                                     \/ PushTrue(wire[ph][k])'
  PROVE  WireTrue(ph)'
<1>1. ASSUME NEW k \in DOMAIN wire'[ph], NEW l \in DOMAIN wire[ph], wire'[ph][k] = wire[ph][l]
      PROVE  PushTrue(wire[ph][k])'
  <2>1. wire[ph][l] \in Push
    <3>1. wire[ph] \in Seq(Push)
      BY DEF TypeOK
    <3> QED
      BY <3>1, LenProperties, ElementOfSeq
  <2>2. PushTrue(wire[ph][l])
    BY DEF WireTrue
  <2>3. \A q \in Push : PushTrue(q) => (q.type = "message:new" => q.line.id \in Stored' /\ ~q.line.seen)
                                     /\ (q.type = "conversation:read" => q.at <= reached'[q.by])
    BY PushKept DEF PushTrue
  <2> QED
    BY <1>1, <2>1, <2>2, <2>3 DEF PushTrue
<1> QED
  BY <1>1 DEF WireTrue

\* A push sent to everybody joins true ones.
LEMMA EmitKeeps ==
  ASSUME TypeOK, TypeOK', Keeps, NEW ph \in Phones, WireTrue(ph),
         NEW push \in Push, Emit(push), PushTrue(push)'
  PROVE  WireTrue(ph)'
<1>1. wire[ph] \in Seq(Push)
  BY DEF TypeOK
<1>2. wire'[ph] = wire[ph] \/ wire'[ph] = Append(wire[ph], push)
  BY DEF Emit
<1>3. ASSUME NEW k \in DOMAIN wire'[ph]
      PROVE  (\E l \in DOMAIN wire[ph] : wire'[ph][k] = wire[ph][l]) \/ wire'[ph][k] = push
  <2>1. CASE wire'[ph] = wire[ph]
    BY <2>1
  <2>2. CASE wire'[ph] = Append(wire[ph], push)
    <3>1. /\ Append(wire[ph], push) \in Seq(Push) /\ Len(Append(wire[ph], push)) = Len(wire[ph]) + 1
          /\ \A i \in 1..Len(wire[ph]) : Append(wire[ph], push)[i] = wire[ph][i]
          /\ Append(wire[ph], push)[Len(wire[ph]) + 1] = push
      BY <1>1, AppendProperties
    <3>2. /\ DOMAIN Append(wire[ph], push) = 1..(Len(wire[ph]) + 1)
          /\ Len(wire[ph]) \in Nat /\ DOMAIN wire[ph] = 1..Len(wire[ph])
      BY <1>1, <3>1, LenProperties
    <3> QED
      BY <2>2, <3>1, <3>2
  <2> QED
    BY <1>2, <2>1, <2>2
<1>4. ASSUME NEW k \in DOMAIN wire'[ph]
      PROVE  \/ \E l \in DOMAIN wire[ph] : wire'[ph][k] = wire[ph][l]
             \/ PushTrue(wire[ph][k])'
  BY <1>3 DEF PushTrue
<1> QED
  BY <1>4, WireKept

\* A step that leaves what a phone asked for, or shows, alone keeps it true.
LEMMA FetchKept ==
  ASSUME ThreadInv, TypeOK', Keeps, NEW ph \in Phones, fetch'[ph] = fetch[ph]
  PROVE  FetchTrue(ph)'
<1>1. FetchTrue(ph) /\ TypeOK
  BY DEF ThreadInv
<1>2. CASE fetch[ph].at = "reading"
  <2>1. Owner[ph] \in People /\ Other(Owner[ph]) \in People
    BY PhonesAssumption, Others
  <2>2. /\ fetch[ph].seen \in Nat /\ reached[Other(Owner[ph])] \in Nat
        /\ reached'[Other(Owner[ph])] \in Nat
    BY <1>1, <1>2, <2>1, FetchTyped, BoundsAssumption DEF TypeOK, Time
  <2>3. fetch[ph].seen <= reached'[Other(Owner[ph])]
    BY <1>1, <1>2, <2>1, <2>2 DEF FetchTrue, Keeps
  <2> QED
    BY <1>2, <2>3 DEF FetchTrue
<1>3. CASE fetch[ph].at = "answered"
  <2>1. fetch[ph].lines \in Seq(Line) /\ FirmLines(ph, fetch[ph].lines)
    BY <1>1, <1>3, FetchTyped DEF FetchTrue
  <2>2. FirmLines(ph, fetch[ph].lines)'
    BY <1>1, <2>1, FirmKept DEF FirmLines
  <2> QED
    BY <1>3, <2>2 DEF FetchTrue
<1> QED
  BY <1>2, <1>3 DEF FetchTrue

LEMMA ViewKept ==
  ASSUME ThreadInv, TypeOK', Keeps, NEW ph \in Phones, view'[ph] = view[ph]
  PROVE  ViewTrue(ph)'
<1>1. view[ph] \in Seq(Line) /\ FirmLines(ph, view[ph]) /\ TypeOK
  BY DEF ThreadInv, ViewTrue, TypeOK
<1> QED
  BY <1>1, FirmKept DEF FirmLines, ViewTrue

-----------------------------------------------------------------------------
(* The server's side of a step.                                             *)

ServerTrue ==
  /\ \A p \in People : readAt[p] <= reached[p]
  /\ \A h \in Handlers : TaskTrue(h)

\* Messages and read times left alone.
LEMMA StillKeeps ==
  ASSUME TypeOK, msgs' = msgs, reached' = reached
  PROVE  Keeps
<1>1. \A p \in People : reached[p] <= reached[p]
  BY BoundsAssumption DEF TypeOK, Time
<1> QED
  BY <1>1 DEF Keeps, Stored, AuthorOf

LEMMA MoveToKeeps ==
  ASSUME TypeOK, \A p \in People : readAt[p] <= reached[p],
         NEW p \in People, NEW newest \in Time, MoveTo(p, newest), msgs' = msgs
  PROVE  /\ Keeps /\ \A q \in People : readAt'[q] <= reached'[q]
         /\ \A q \in People : readAt[q] <= readAt'[q]
         /\ \/ wire' = wire
            \/ /\ newest <= reached'[p]
               /\ Emit([type |-> "conversation:read", by |-> p, at |-> newest])
<1>1. /\ newest \in Nat /\ \A q \in People : readAt[q] \in Nat /\ reached[q] \in Nat
      /\ readAt \in [People -> Time] /\ reached \in [People -> Time]
  BY BoundsAssumption DEF TypeOK, Time
<1>2. CASE readAt[p] < newest
  <2>1. /\ \A q \in People : reached'[q] = IF q = p THEN Latest(reached[p], newest) ELSE reached[q]
        /\ \A q \in People : readAt'[q] = IF q = p THEN newest ELSE readAt[q]
    BY <1>1, <1>2 DEF MoveTo
  <2>2. \A q \in People : reached[q] <= reached'[q] /\ readAt'[q] <= reached'[q] /\ readAt[q] <= readAt'[q]
    BY <1>1, <1>2, <2>1 DEF Latest
  <2>3. newest <= reached'[p]
    BY <1>1, <2>1, <2>2
  <2>4. Keeps
    BY <2>2 DEF Keeps, Stored, AuthorOf
  <2>5. Emit([type |-> "conversation:read", by |-> p, at |-> newest])
    BY <1>2 DEF MoveTo
  <2> QED
    BY <2>2, <2>3, <2>4, <2>5
<1>3. CASE ~(readAt[p] < newest)
  <2>1. readAt' = readAt /\ reached' = reached /\ wire' = wire
    BY <1>3 DEF MoveTo
  <2>2. \A q \in People : readAt[q] <= readAt[q]
    BY <1>1
  <2>3. Keeps
    BY <2>1, StillKeeps
  <2> QED
    BY <2>1, <2>2, <2>3
<1> QED
  BY <1>2, <1>3

\* A handler that takes up or puts down something else than a message.
LEMMA HandlersKept ==
  ASSUME TypeOK, \A h \in Handlers : TaskTrue(h), NEW h \in Handlers, NEW next \in Task, Do(h, next),
         msgs' = msgs,
         \/ next.at \notin {"store", "emit", "answer"}
         \/ /\ task[h].at = next.at /\ next.id = task[h].id
         \/ /\ task[h].at \in {"emit", "answer"} /\ next.at = "answer" /\ next.id = task[h].id
  PROVE  \A g \in Handlers : TaskTrue(g)'
<1>1. \A g \in Handlers : task'[g] = IF g = h THEN next ELSE task[g]
  BY DEF Do, TypeOK
<1>2. Stored' = Stored
  BY DEF Stored
<1> QED
  BY <1>1, <1>2 DEF TaskTrue

\* One message moves on, the one a handler has to itself.
LEMMA MessageMoves ==
  ASSUME TypeOK, \A h \in Handlers : TaskTrue(h), NEW h \in Handlers, task[h].at = "store",
         NEW state \in {"stored", "gone"}, msgs' = [msgs EXCEPT ![task[h].id].state = state],
         NEW next \in Task, Do(h, next),
         next = Idle \/ (state = "stored" /\ next.at = "emit" /\ next.id = task[h].id)
  PROVE  /\ \A g \in Handlers : TaskTrue(g)'
         /\ \A i \in DOMAIN msgs : AuthorOf(i)' = AuthorOf(i)
         /\ Stored' = Stored \cup (IF state = "stored" THEN {task[h].id} ELSE {})
         /\ task[h].id \in DOMAIN msgs /\ task[h].id \notin Stored
<1> DEFINE i == task[h].id
<1>1. i \in DOMAIN msgs /\ msgs[i].state = "open" /\ \A k \in DOMAIN msgs : msgs[k] \in Message
  BY Numbered DEF TaskTrue
<1>2. /\ DOMAIN msgs' = DOMAIN msgs
      /\ \A k \in DOMAIN msgs : k # i => msgs'[k] = msgs[k]
      /\ msgs'[i].state = state /\ msgs'[i].draft = msgs[i].draft
  BY <1>1 DEF TypeOK, Message
<1>3. Stored' = Stored \cup (IF state = "stored" THEN {i} ELSE {}) /\ i \notin Stored
  BY <1>1, <1>2 DEF Stored
<1>4. \A k \in DOMAIN msgs : AuthorOf(k)' = AuthorOf(k)
  BY <1>1, <1>2 DEF AuthorOf
<1>5. \A g \in Handlers : task'[g] = IF g = h THEN next ELSE task[g]
  BY DEF Do, TypeOK
<1>6. ASSUME NEW g \in Handlers PROVE TaskTrue(g)'
  <2>1. CASE g = h
    BY <1>3, <1>5, <2>1 DEF TaskTrue, Idle
  <2>2. CASE g # h
    <3>1. task'[g] = task[g] /\ TaskTrue(g) /\ TaskTrue(h)
      BY <1>5, <2>2
    <3>2. CASE task[g].at = "store"
      <4>1. task[g].id # i /\ task[g].id \in DOMAIN msgs' /\ msgs'[task[g].id].state = "open"
        BY <1>2, <2>2, <3>1, <3>2 DEF TaskTrue
      <4>2. \A f \in Handlers : task'[f].at = "store" /\ task'[f].id = task[g].id => f = g
        BY <1>5, <3>1, <3>2 DEF TaskTrue, Idle
      <4> QED
        BY <3>1, <3>2, <4>1, <4>2 DEF TaskTrue
    <3>3. CASE task[g].at # "store"
      BY <1>3, <3>1, <3>3 DEF TaskTrue
    <3> QED
      BY <3>2, <3>3
  <2> QED
    BY <2>1, <2>2
<1> QED
  BY <1>1, <1>3, <1>4, <1>6

\* A message inserted: it is open, and its own.
LEMMA InsertKeeps ==
  ASSUME ThreadInv, TypeOK', NEW h \in Handlers, Insert(h)
  PROVE  Keeps /\ ServerTrue'
<1> DEFINE m == [draft |-> task[h].draft, state |-> "open"]
           next == [at |-> "store", draft |-> task[h].draft, id |-> Len(msgs) + 1,
                    heard |-> task[h].heard]
<1>1. TypeOK /\ (\A g \in Handlers : TaskTrue(g)) /\ msgs \in Seq(Message)
  BY DEF ThreadInv, TypeOK
<1>2. Len(msgs) \in Nat /\ DOMAIN msgs = 1..Len(msgs)
  BY <1>1, Numbered
<1>3. m \in Message
  BY <1>1, TaskTyped DEF Insert, Message
<1>4. /\ DOMAIN msgs' = 1..(Len(msgs) + 1) /\ \A i \in DOMAIN msgs : msgs'[i] = msgs[i]
      /\ msgs'[Len(msgs) + 1] = m
  <2>1. msgs' = Append(msgs, m)
    BY DEF Insert
  <2> HIDE DEF m
  <2>2. /\ msgs' \in Seq(Message) /\ Len(msgs') = Len(msgs) + 1
        /\ \A i \in 1..Len(msgs) : msgs'[i] = msgs[i]
        /\ msgs'[Len(msgs) + 1] = m
    BY <1>1, <1>3, <2>1, AppendProperties
  <2> QED
    BY <1>2, <2>2, LenProperties
<1>5. Stored' = Stored
  BY <1>2, <1>4 DEF Stored
<1>6. Keeps
  <2>1. \A p \in People : reached[p] <= reached[p]
    BY <1>1, BoundsAssumption DEF TypeOK, Time
  <2> QED
    BY <1>4, <1>5, <2>1 DEF Keeps, Insert, Stored, AuthorOf
<1>7. \A g \in Handlers : task'[g] = IF g = h THEN next ELSE task[g]
  BY <1>1 DEF Insert, Do, TypeOK
<1>8. ASSUME NEW g \in Handlers PROVE TaskTrue(g)'
  <2>1. \A f \in Handlers : task[f].at = "store" => task[f].id # Len(msgs) + 1
    BY <1>1, <1>2 DEF TaskTrue
  <2>2. CASE g = h
    <3>1. Len(msgs) + 1 \in DOMAIN msgs'
      BY <1>2, <1>4
    <3> QED
      BY <1>4, <1>7, <2>1, <2>2, <3>1 DEF TaskTrue
  <2>3. CASE g # h
    <3>1. task'[g] = task[g] /\ TaskTrue(g)
      BY <1>1, <1>7, <2>3
    <3> QED
      BY <1>2, <1>4, <1>5, <1>7, <2>1, <3>1 DEF TaskTrue
  <2> QED
    BY <2>2, <2>3
<1> QED
  BY <1>6, <1>8 DEF ServerTrue, ThreadInv, Insert

LEMMA ServerSide ==
  ASSUME ThreadInv, TypeOK', [Next]_vars
  PROVE  Keeps /\ ServerTrue'
<1> USE DEF server, phone
<1>1. TypeOK /\ ServerTrue /\ (\A h \in Handlers : TaskTrue(h)) /\ (\A p \in People : readAt[p] <= reached[p])
  BY DEF ThreadInv, ServerTrue
<1>2. \A h \in Handlers : task[h] \in Task /\ task'[h] \in Task
  BY <1>1 DEF TypeOK
<1>3. CASE UNCHANGED <<msgs, readAt, reached, task>>
  BY <1>1, <1>3, StillKeeps DEF ServerTrue, TaskTrue, Stored
<1>4. ASSUME NEW h \in Handlers, NEW next \in Task, Do(h, next), UNCHANGED <<msgs, readAt, reached>>,
             \/ next.at \notin {"store", "emit", "answer"}
             \/ /\ task[h].at = next.at /\ next.id = task[h].id
             \/ /\ task[h].at \in {"emit", "answer"} /\ next.at = "answer" /\ next.id = task[h].id
      PROVE  Keeps /\ ServerTrue'
  BY <1>1, <1>4, StillKeeps, HandlersKept DEF ServerTrue
<1>5. Idle \in Task /\ Idle.at = "idle"
  BY DEF Task, Idle
<1>6. ASSUME NEW h \in Handlers, NEW d \in Drafts, Send(h, d) PROVE Keeps /\ ServerTrue'
  <2>1. [at |-> "insert", draft |-> d, heard |-> TypedOn[d] \in Phones] \in Task
    BY DEF Task
  <2> QED
    BY <1>4, <1>6, <2>1 DEF Send
<1>7. ASSUME NEW h \in Handlers, Insert(h) PROVE Keeps /\ ServerTrue'
  BY <1>7, InsertKeeps
<1>8. ASSUME NEW h \in Handlers, Store(h) PROVE Keeps /\ ServerTrue'
  <2> DEFINE i == task[h].id
  <2>1. [task[h] EXCEPT !.at = "emit"] \in Task /\ i \in Time \ {0}
    BY <1>1, <1>2, <1>8, TaskTyped DEF Store, Task, Idle
  <2>2. [task[h] EXCEPT !.at = "emit"].at = "emit" /\ [task[h] EXCEPT !.at = "emit"].id = i
    BY <1>2, <1>8 DEF Store, Task, Idle
  <2>3. /\ \A g \in Handlers : TaskTrue(g)'
        /\ \A k \in DOMAIN msgs : AuthorOf(k)' = AuthorOf(k)
        /\ Stored' = Stored \cup {i} /\ i \in DOMAIN msgs
    BY <1>1, <1>8, <2>1, <2>2, MessageMoves DEF Store
  <2>4. \A p \in People : reached[p] <= reached'[p] /\ readAt'[p] <= reached'[p]
    <3>1. \A p \in People : readAt[p] \in Nat /\ reached[p] \in Nat
      BY <1>1, BoundsAssumption DEF TypeOK, Time
    <3>2. i \in Nat
      BY <2>1, BoundsAssumption DEF Time
    <3>3. \A p \in People : /\ readAt'[p] = IF p = AuthorOf(i) THEN i ELSE readAt[p]
                            /\ reached'[p] = IF p = AuthorOf(i) THEN Latest(reached[p], i) ELSE reached[p]
      BY <1>1, <1>8 DEF Store, TypeOK
    <3> QED
      BY <1>1, <3>1, <3>2, <3>3 DEF Latest
  <2>5. Stored \subseteq DOMAIN msgs
    BY DEF Stored
  <2> QED
    BY <2>3, <2>4, <2>5 DEF Keeps, ServerTrue
<1>9. ASSUME NEW h \in Handlers, RollBack(h) PROVE Keeps /\ ServerTrue'
  <2>1. CASE task[h].at = "store"
    <3>1. /\ \A g \in Handlers : TaskTrue(g)'
          /\ \A k \in DOMAIN msgs : AuthorOf(k)' = AuthorOf(k)
          /\ Stored' = Stored
      <4>1. msgs' = [msgs EXCEPT ![task[h].id].state = "gone"] /\ Do(h, Idle)
        BY <1>9, <2>1 DEF RollBack
      <4> QED
        BY <1>1, <1>5, <2>1, <4>1, MessageMoves
    <3>2. \A p \in People : reached[p] <= reached[p]
      BY <1>1, BoundsAssumption DEF TypeOK, Time
    <3>3. Stored \subseteq DOMAIN msgs
      BY DEF Stored
    <3> QED
      BY <1>1, <1>9, <3>1, <3>2, <3>3 DEF Keeps, ServerTrue, RollBack
  <2>2. CASE task[h].at # "store"
    BY <1>4, <1>5, <1>9, <2>2 DEF RollBack
  <2> QED
    BY <2>1, <2>2
<1>10. ASSUME NEW h \in Handlers, EmitNew(h) PROVE Keeps /\ ServerTrue'
  <2> DEFINE next == IF task[h].heard THEN [task[h] EXCEPT !.at = "answer"] ELSE Idle
  <2>1. next \in Task /\ (next = Idle \/ (next.at = "answer" /\ next.id = task[h].id))
    BY <1>2, <1>10 DEF EmitNew, Task, Idle
  <2>2. Do(h, next) /\ UNCHANGED <<msgs, readAt, reached>> /\ task[h].at = "emit"
    BY <1>10 DEF EmitNew
  <2> HIDE DEF next
  <2> QED
    BY <1>4, <1>5, <2>1, <2>2
<1>11. ASSUME NEW h \in Handlers, Answer(h) \/ Unblock(h) PROVE Keeps /\ ServerTrue'
  BY <1>4, <1>5, <1>11 DEF Answer, Unblock
<1>12. ASSUME NEW h \in Handlers, LoseAnswer(h) PROVE Keeps /\ ServerTrue'
  <2> DEFINE next == IF task[h].at = "answer" THEN Idle ELSE [task[h] EXCEPT !.heard = FALSE]
  <2>1. /\ next \in Task
        /\ next = Idle \/ (next.at = task[h].at /\ (next.at # "insert" => next.id = task[h].id))
    BY <1>2, <1>12 DEF LoseAnswer, Task, Idle
  <2>2. Do(h, next) /\ UNCHANGED <<msgs, readAt, reached>>
    BY <1>12 DEF LoseAnswer
  <2> HIDE DEF next
  <2> QED
    BY <1>4, <1>5, <2>1, <2>2
<1>13. ASSUME NEW h \in Handlers, AdvanceRead(h) PROVE Keeps /\ ServerTrue'
  <2>1. task[h].who \in People /\ task[h].newest \in Time
    BY <1>1, <1>13, TaskTyped DEF AdvanceRead
  <2>2. Keeps /\ \A p \in People : readAt'[p] <= reached'[p]
    BY <1>1, <1>13, <2>1, MoveToKeeps DEF AdvanceRead
  <2>3. \A g \in Handlers : TaskTrue(g)'
    BY <1>1, <1>5, <1>13, HandlersKept DEF AdvanceRead
  <2> QED
    BY <2>2, <2>3 DEF ServerTrue
<1>14. ASSUME NEW h \in Handlers, NEW p \in Active, MarkRead(h, p) \/ UnblockRead(h, p)
       PROVE  Keeps /\ ServerTrue'
  <2>1. [at |-> "mark", who |-> p, newest |-> Newest] \in Task /\ [at |-> "unblock", who |-> p] \in Task
    BY <1>1, NewestIs, BoundsAssumption DEF Task
  <2> QED
    BY <1>4, <1>14, <2>1 DEF MarkRead, UnblockRead
<1>15. ASSUME NEW ph \in Phones, ReadThread(ph) PROVE Keeps /\ ServerTrue'
  <2>1. Owner[ph] \in People /\ fetch[ph].newest \in Time
    BY <1>1, <1>15, FetchTyped, PhonesAssumption DEF ReadThread
  <2>2. Keeps /\ \A p \in People : readAt'[p] <= reached'[p]
    BY <1>1, <1>15, <2>1, MoveToKeeps DEF ReadThread
  <2>3. \A g \in Handlers : TaskTrue(g)'
    BY <1>1, <1>15 DEF ReadThread, TaskTrue, Stored
  <2> QED
    BY <2>2, <2>3 DEF ServerTrue
<1>16. CASE \E d \in Drafts : SendRefused(d)
  BY <1>3, <1>16 DEF SendRefused
<1>17. CASE \E p \in Active : Block(p)
  BY <1>3, <1>17 DEF Block
<1>18. CASE \E ph \in Phones : Ask(ph) \/ ReadRow(ph) \/ Show(ph) \/ Disconnect(ph) \/ Connect(ph) \/ Receive(ph)
  BY <1>3, <1>18 DEF Ask, ReadRow, Show, Disconnect, Connect, Receive
<1>19. CASE UNCHANGED vars
  BY <1>3, <1>19 DEF vars
<1> QED
  BY <1>6, <1>7, <1>8, <1>9, <1>10, <1>11, <1>12, <1>13, <1>14, <1>15, <1>16, <1>17, <1>18, <1>19
     DEF Next, Api, Phone

-----------------------------------------------------------------------------
(* The phones' side.                                                        *)

\* A line put in place or added keeps the copy firm, if the message is stored.
LEMMA UpsertFirm ==
  ASSUME TypeOK, NEW ph \in Phones, NEW lines \in Seq(Line), FirmLines(ph, lines),
         NEW line \in Line, line.id \in Stored, ~line.seen
  PROVE  FirmLines(ph, Upsert(lines, line))
<1> DEFINE U == Upsert(lines, line)
<1>1. DOMAIN lines = 1..Len(lines) /\ Len(lines) \in Nat
  BY LenProperties
<1>2. \A k \in DOMAIN U :
        \/ k \in DOMAIN lines /\ U[k].id = lines[k].id /\ (U[k].seen => lines[k].seen)
        \/ /\ k = Len(lines) + 1 /\ U[k] = line
           /\ \A l \in DOMAIN lines : lines[l].id # line.id
  BY UpsertIs
<1> HIDE DEF U
<1>3. \A k \in DOMAIN U : U[k].id \in Stored
  BY <1>2 DEF FirmLines
<1>4. \A k, l \in DOMAIN U : U[k].id = U[l].id => k = l
  BY <1>1, <1>2 DEF FirmLines
<1>5. \A k \in DOMAIN U :
        U[k].seen => AuthorOf(U[k].id) = Owner[ph] /\ U[k].id <= reached[Other(Owner[ph])]
  BY <1>2 DEF FirmLines
<1>6. FirmLines(ph, U)
  BY <1>3, <1>4, <1>5 DEF FirmLines
<1> QED
  BY <1>6 DEF U

LEMMA TickedFirm ==
  ASSUME TypeOK, NEW ph \in Phones, NEW lines \in Seq(Line), FirmLines(ph, lines),
         NEW push \in Push, push.type = "conversation:read", PushTrue(push)
  PROVE  FirmLines(ph, Ticked(ph, lines, push))
<1> DEFINE U == Ticked(ph, lines, push)
<1> DEFINE Earned(k) ==
      push.by # Owner[ph] /\ AuthorOf(lines[k].id) = Owner[ph] /\ lines[k].id <= push.at
<1>1. /\ DOMAIN U = DOMAIN lines
      /\ \A k \in DOMAIN lines :
           U[k].id = lines[k].id /\ (U[k].seen => lines[k].seen \/ Earned(k))
  <2>1. DOMAIN U = DOMAIN lines
    BY TickedIs
  <2>2. ASSUME NEW k \in DOMAIN lines PROVE U[k].id = lines[k].id
    BY TickedIs
  <2>3. ASSUME NEW k \in DOMAIN lines, U[k].seen PROVE lines[k].seen \/ Earned(k)
    BY <2>3, TickedIs
  <2> QED
    BY <2>1, <2>2, <2>3
<1> HIDE DEF U
<1>2. push.by \in People /\ push.at \in Time /\ push.at <= reached[push.by]
  BY PushTyped DEF PushTrue
<1>3. ASSUME NEW k \in DOMAIN U, U[k].seen
      PROVE  AuthorOf(U[k].id) = Owner[ph] /\ U[k].id <= reached[Other(Owner[ph])]
  <2>1. CASE lines[k].seen
    BY <1>1, <2>1 DEF FirmLines
  <2>2. CASE Earned(k)
    <3>1. push.by = Other(Owner[ph])
      BY <1>2, <2>2, Others, PhonesAssumption
    <3>2. lines[k].id \in Nat /\ push.at \in Nat /\ reached[push.by] \in Nat
      <4>1. lines[k] \in Line
        BY <1>1, LenProperties, ElementOfSeq
      <4> QED
        BY <1>2, <4>1, BoundsAssumption DEF Line, Time, TypeOK
    <3> QED
      BY <1>1, <1>2, <2>2, <3>1, <3>2
  <2> QED
    BY <1>1, <1>3, <2>1, <2>2
<1>4. FirmLines(ph, U)
  BY <1>1, <1>3 DEF FirmLines
<1> QED
  BY <1>4 DEF U

\* A push received leaves a copy that is firm.
LEMMA ReceiveKeeps ==
  ASSUME ThreadInv, TypeOK', Keeps, NEW ph \in Phones, Receive(ph)
  PROVE  WireTrue(ph)' /\ ViewTrue(ph)'
<1> DEFINE push == Head(wire[ph])
           new == IF push.type = "message:new" THEN Upsert(view[ph], push.line)
                  ELSE Ticked(ph, view[ph], push)
<1>1. /\ TypeOK /\ WireTrue(ph) /\ FirmLines(ph, view[ph]) /\ view[ph] \in Seq(Line)
      /\ wire[ph] \in Seq(Push) /\ wire[ph] # <<>>
  BY DEF ThreadInv, ViewTrue, TypeOK, Receive
<1>2. Len(wire[ph]) \in Nat \ {0} /\ DOMAIN wire[ph] = 1..Len(wire[ph])
  BY <1>1, EmptySeq, LenProperties
<1>3. push = wire[ph][1] /\ push \in Push
  BY <1>1, HeadTailProperties
<1>4. PushTrue(push)
  <2>1. 1 \in DOMAIN wire[ph]
    BY <1>2
  <2> QED
    BY <1>1, <1>3, <2>1 DEF WireTrue
<1>5. /\ view'[ph] = new /\ wire'[ph] = Tail(wire[ph])
  BY DEF Receive, ThreadInv, TypeOK
<1>6. WireTrue(ph)'
  <2>1. /\ Tail(wire[ph]) \in Seq(Push) /\ Len(Tail(wire[ph])) = Len(wire[ph]) - 1
        /\ \A i \in 1..Len(Tail(wire[ph])) : Tail(wire[ph])[i] = wire[ph][i + 1]
    BY <1>1, HeadTailProperties
  <2>2. DOMAIN Tail(wire[ph]) = 1..(Len(wire[ph]) - 1)
    BY <2>1, LenProperties
  <2>3. \A k \in DOMAIN wire'[ph] : \E l \in DOMAIN wire[ph] : wire'[ph][k] = wire[ph][l]
    <3>1. \A k \in 1..(Len(wire[ph]) - 1) : k + 1 \in 1..Len(wire[ph]) /\ Tail(wire[ph])[k] = wire[ph][k + 1]
      BY <1>2, <2>1
    <3> QED
      BY <1>2, <1>5, <2>2, <3>1
  <2> QED
    BY <1>1, <2>3, WireKept
<1>7. new \in Seq(Line) /\ FirmLines(ph, new)
  <2> HIDE DEF push
  <2>1. CASE push.type = "message:new"
    <3>1. push.line \in Line /\ push.line.id \in Stored /\ ~push.line.seen
      BY <1>3, <1>4, <2>1, PushTyped DEF PushTrue
    <3> QED
      BY <1>1, <2>1, <3>1, UpsertIs, UpsertFirm
  <2>2. CASE push.type # "message:new"
    <3>1. push.type = "conversation:read"
      BY <1>3, <2>2, PushTyped
    <3> QED
      BY <1>1, <1>3, <1>4, <2>2, <3>1, TickedIs, TickedFirm
  <2> QED
    BY <2>1, <2>2
<1>8. ViewTrue(ph)'
  <2> HIDE DEF new
  <2>1. FirmLines(ph, new) => FirmLines(ph, view[ph])'
    BY <1>1, <1>5, <1>7, FirmKept DEF FirmLines
  <2> QED
    BY <1>7, <2>1 DEF ViewTrue
<1> QED
  BY <1>6, <1>8

\* A read time that moves is told truly.
LEMMA MoveToTells ==
  ASSUME ThreadInv, TypeOK', Keeps, NEW p \in People, NEW newest \in Time, MoveTo(p, newest),
         msgs' = msgs, NEW q \in Phones
  PROVE  WireTrue(q)'
<1> DEFINE push == [type |-> "conversation:read", by |-> p, at |-> newest]
<1>1. TypeOK /\ WireTrue(q) /\ \A r \in People : readAt[r] <= reached[r]
  BY DEF ThreadInv
<1>2. wire' = wire \/ (newest <= reached'[p] /\ Emit(push))
  BY <1>1, MoveToKeeps
<1>3. CASE wire' = wire
  BY <1>1, <1>3, WireKept
<1>4. CASE newest <= reached'[p] /\ Emit(push)
  <2>1. push \in Push /\ PushTrue(push)'
    BY <1>4 DEF Push, PushTrue
  <2> HIDE DEF push
  <2> QED
    BY <1>1, <1>4, <2>1, EmitKeeps DEF PushTrue
<1> QED
  BY <1>2, <1>3, <1>4

LEMMA PhoneSide ==
  ASSUME ThreadInv, TypeOK', Keeps, [Next]_vars, NEW q \in Phones
  PROVE  WireTrue(q)' /\ FetchTrue(q)' /\ ViewTrue(q)'
<1> USE DEF server, phone
<1>1. TypeOK /\ WireTrue(q) /\ FetchTrue(q) /\ FirmLines(q, view[q]) /\ view[q] \in Seq(Line)
  BY DEF ThreadInv, ViewTrue, TypeOK
<1>2. wire'[q] = wire[q] => WireTrue(q)'
  BY <1>1, WireKept
<1>3. fetch'[q] = fetch[q] => FetchTrue(q)'
  BY FetchKept
<1>4. view'[q] = view[q] => ViewTrue(q)'
  BY ViewKept
<1>5. CASE wire' = wire /\ fetch' = fetch /\ view' = view
  BY <1>2, <1>3, <1>4, <1>5
<1>6. ASSUME NEW h \in Handlers, EmitNew(h) PROVE WireTrue(q)' /\ FetchTrue(q)' /\ ViewTrue(q)'
  <2>0. PICK id \in Time \ {0} : id = task[h].id
    BY <1>1, <1>6, TaskTyped DEF EmitNew
  <2> DEFINE push == [type |-> "message:new", line |-> [id |-> id, seen |-> FALSE]]
  <2>1. push \in Push
    BY NewPush
  <2>2. id \in Stored /\ Emit(push)
    BY <1>6, <2>0 DEF EmitNew, ThreadInv, TaskTrue
  <2>3. PushTrue(push)'
    BY <2>2 DEF Keeps, PushTrue
  <2> HIDE DEF push
  <2>4. WireTrue(q)'
    BY <1>1, <2>1, <2>2, <2>3, EmitKeeps DEF PushTrue
  <2> QED
    BY <1>3, <1>4, <1>6, <2>4 DEF EmitNew
<1>7. ASSUME NEW h \in Handlers, AdvanceRead(h) PROVE WireTrue(q)' /\ FetchTrue(q)' /\ ViewTrue(q)'
  <2>1. task[h].who \in People /\ task[h].newest \in Time
    BY <1>1, <1>7, TaskTyped DEF AdvanceRead
  <2>2. WireTrue(q)'
    BY <1>7, <2>1, MoveToTells DEF AdvanceRead
  <2> QED
    BY <1>3, <1>4, <1>7, <2>2 DEF AdvanceRead
<1>8. ASSUME NEW h \in Handlers, Answer(h) PROVE WireTrue(q)' /\ FetchTrue(q)' /\ ViewTrue(q)'
  <2> DEFINE line == [id |-> task[h].id, seen |-> FALSE]
  <2>1. line \in Line /\ line.id \in Stored /\ ~line.seen
    BY <1>1, <1>8, TaskTyped, NewPush DEF Answer, ThreadInv, TaskTrue
  <2>2. view'[q] = view[q] \/ view'[q] = Upsert(view[q], line)
    BY <1>1, <1>8 DEF Answer, TypeOK
  <2> HIDE DEF line
  <2>3. Upsert(view[q], line) \in Seq(Line) /\ FirmLines(q, Upsert(view[q], line))
    BY <1>1, <2>1, UpsertIs, UpsertFirm
  <2>4. FirmLines(q, Upsert(view[q], line)) /\ view'[q] = Upsert(view[q], line) => ViewTrue(q)'
    BY <1>1, <2>3, FirmKept DEF FirmLines, ViewTrue
  <2> QED
    BY <1>2, <1>3, <1>4, <1>8, <2>2, <2>3, <2>4 DEF Answer
<1>9. ASSUME NEW ph \in Phones, Ask(ph) \/ Connect(ph) PROVE WireTrue(q)' /\ FetchTrue(q)' /\ ViewTrue(q)'
  <2>1. fetch'[q] = fetch[q] \/ fetch'[q].at = "asked"
    BY <1>1, <1>9 DEF Ask, Connect, TypeOK
  <2> QED
    BY <1>2, <1>3, <1>4, <1>9, <2>1 DEF Ask, Connect, FetchTrue
<1>10. ASSUME NEW ph \in Phones, ReadRow(ph) PROVE WireTrue(q)' /\ FetchTrue(q)' /\ ViewTrue(q)'
  <2>1. CASE q # ph
    BY <1>1, <1>2, <1>3, <1>4, <1>10, <2>1 DEF ReadRow, TypeOK
  <2>2. CASE q = ph
    <3>1. fetch'[q].at = "reading" /\ fetch'[q].seen = readAt[Other(Owner[q])] /\ reached' = reached
      BY <1>1, <1>10, <2>2 DEF ReadRow, TypeOK
    <3>2. readAt[Other(Owner[q])] <= reached[Other(Owner[q])]
      BY Others, PhonesAssumption DEF ThreadInv
    <3> QED
      BY <1>2, <1>4, <1>10, <3>1, <3>2 DEF FetchTrue, ReadRow
  <2> QED
    BY <2>1, <2>2
<1>11. ASSUME NEW ph \in Phones, ReadThread(ph) PROVE WireTrue(q)' /\ FetchTrue(q)' /\ ViewTrue(q)'
  <2>1. Owner[ph] \in People /\ fetch[ph].newest \in Time /\ fetch[ph].seen \in Time
    BY <1>1, <1>11, FetchTyped, PhonesAssumption DEF ReadThread
  <2>2. WireTrue(q)'
    BY <1>11, <2>1, MoveToTells DEF ReadThread
  <2>3. CASE q # ph
    BY <1>1, <1>3, <1>4, <1>11, <2>2, <2>3 DEF ReadThread, TypeOK
  <2>4. CASE q = ph
    <3> DEFINE lines == Lines(ph, fetch[ph].seen)
    <3>1. fetch'[q].at = "answered" /\ fetch'[q].lines = lines
      BY <1>1, <1>11, <2>4 DEF ReadThread, TypeOK
    <3>2. lines \in Seq(Line) /\ FirmLines(q, lines)
      BY <1>1, <1>11, <2>1, <2>4, LinesAreFirm DEF ReadThread, FetchTrue
    <3> HIDE DEF lines
    <3>3. FetchTrue(q)'
      BY <1>1, <3>1, <3>2, FirmKept DEF FirmLines, FetchTrue
    <3> QED
      BY <1>4, <1>11, <2>2, <3>3 DEF ReadThread
  <2> QED
    BY <2>3, <2>4
<1>12. ASSUME NEW ph \in Phones, Show(ph) PROVE WireTrue(q)' /\ FetchTrue(q)' /\ ViewTrue(q)'
  <2>1. CASE q # ph
    BY <1>1, <1>2, <1>3, <1>4, <1>12, <2>1 DEF Show, TypeOK
  <2>2. CASE q = ph
    <3>1. view'[q] = fetch[q].lines /\ fetch'[q].at = "none"
      BY <1>1, <1>12, <2>2 DEF Show, TypeOK
    <3>2. fetch[q].lines \in Seq(Line) /\ FirmLines(q, fetch[q].lines)
      BY <1>1, <1>12, <2>2, FetchTyped DEF Show, FetchTrue
    <3>3. ViewTrue(q)'
      BY <1>1, <3>1, <3>2, FirmKept DEF FirmLines, ViewTrue
    <3> QED
      BY <1>2, <1>12, <3>1, <3>3 DEF Show, FetchTrue
  <2> QED
    BY <2>1, <2>2
<1>13. ASSUME NEW ph \in Phones, Disconnect(ph) PROVE WireTrue(q)' /\ FetchTrue(q)' /\ ViewTrue(q)'
  <2>1. wire'[q] = wire[q] \/ wire'[q] = <<>>
    BY <1>1, <1>13 DEF Disconnect, TypeOK
  <2>2. wire'[q] = <<>> => WireTrue(q)'
    BY DEF WireTrue
  <2> QED
    BY <1>2, <1>3, <1>4, <1>13, <2>1, <2>2 DEF Disconnect
<1>14. ASSUME NEW ph \in Phones, Receive(ph) PROVE WireTrue(q)' /\ FetchTrue(q)' /\ ViewTrue(q)'
  <2>1. CASE q # ph
    BY <1>1, <1>2, <1>3, <1>4, <1>14, <2>1 DEF Receive, TypeOK
  <2>2. CASE q = ph
    BY <1>3, <1>14, <2>2, ReceiveKeeps DEF Receive
  <2> QED
    BY <2>1, <2>2
<1>15. CASE \E h \in Handlers : \/ \E d \in Drafts : Send(h, d)
                              \/ Insert(h) \/ Store(h) \/ RollBack(h) \/ LoseAnswer(h) \/ Unblock(h)
                              \/ \E p \in Active : MarkRead(h, p) \/ UnblockRead(h, p)
  BY <1>5, <1>15 DEF Send, Insert, Store, RollBack, LoseAnswer, Unblock, MarkRead, UnblockRead
<1>16. CASE (\E d \in Drafts : SendRefused(d)) \/ (\E p \in Active : Block(p))
  BY <1>5, <1>16 DEF SendRefused, Block
<1>17. CASE UNCHANGED vars
  BY <1>5, <1>17 DEF vars
<1> QED
  BY <1>6, <1>7, <1>8, <1>9, <1>10, <1>11, <1>12, <1>13, <1>14, <1>15, <1>16, <1>17
     DEF Next, Api, Phone

-----------------------------------------------------------------------------
LEMMA ThreadInit ==
  ASSUME Init
  PROVE  ThreadInv
<1>1. /\ <<>> \in Seq(Message) /\ <<>> \in Seq(Push) /\ <<>> \in Seq(Line)
      /\ Len(<<>>) = 0 /\ 0 \in Time /\ 0 <= 0 /\ MaxMessages >= 0
  BY EmptySeq, BoundsAssumption DEF Time
<1>2. Idle \in Task /\ [at |-> "none"] \in Fetch /\ Idle.at = "idle"
  BY DEF Task, Fetch, Idle
<1>3. TypeOK
  BY <1>1, <1>2 DEF Init, TypeOK
<1>4. \A p \in People : readAt[p] <= reached[p]
  BY <1>1 DEF Init
<1>5. \A h \in Handlers : TaskTrue(h)
  BY <1>2 DEF Init, TaskTrue
<1>6. \A ph \in Phones : WireTrue(ph) /\ FetchTrue(ph) /\ ViewTrue(ph)
  BY DEF Init, WireTrue, FetchTrue, ViewTrue, FirmLines
<1> QED
  BY <1>3, <1>4, <1>5, <1>6 DEF ThreadInv

LEMMA ThreadStep ==
  ASSUME ThreadInv, [Next]_vars
  PROVE  ThreadInv'
<1>1. TypeOK'
  BY TypesKept DEF ThreadInv
<1>2. Keeps /\ ServerTrue'
  BY <1>1, ServerSide
<1>3. \A ph \in Phones : WireTrue(ph)' /\ FetchTrue(ph)' /\ ViewTrue(ph)'
  BY <1>1, <1>2, PhoneSide
<1> QED
  BY <1>1, <1>2, <1>3 DEF ThreadInv, ServerTrue

\* The messages, requests, pushes and copies of a thread stay what they are
\* declared to be, and every request, push and answer under way says nothing
\* that has stopped being true by the time it is heard.
THEOREM ThreadHolds == Spec => []ThreadInv
<1>1. Init => ThreadInv
  BY ThreadInit
<1>2. ThreadInv /\ [Next]_vars => ThreadInv'
  BY ThreadStep
<1> QED
  BY <1>1, <1>2, PTL DEF Spec

THEOREM ThreadTyping == Spec => []TypeOK
<1>1. ThreadInv => TypeOK
  BY DEF ThreadInv
<1> QED
  BY <1>1, ThreadHolds, PTL

\* A phone shows only what the server has committed, and each message once,
\* however its push, its answer and a fetch cross (upsertMessage).
THEOREM NothingMadeUp == Spec => []ShownIsStored
<1>1. ThreadInv => ShownIsStored
  BY DEF ThreadInv, ViewTrue, FirmLines, ShownIsStored
<1> QED
  BY <1>1, ThreadHolds, PTL

\* No second tick before the other side has read that far, and none on what the
\* other side wrote (conversation:read on the phone, readUpToByOther in a fetch).
THEOREM TicksEarned == Spec => []TickedIsRead
<1>1. ThreadInv => TickedIsRead
  BY DEF ThreadInv, ViewTrue, FirmLines, TickedIsRead
<1> QED
  BY <1>1, ThreadHolds, PTL

\* Of everything a step may do to a read time, only a message of one's own
\* being stored can take it back, and then to that message.
LEMMA ReadsMove ==
  ASSUME ThreadInv, [Next]_vars, NEW p \in People, readAt'[p] < readAt[p]
  PROVE  readAt'[p] \in Stored' \ Stored /\ AuthorOf(readAt'[p]) = p
<1> USE DEF server, phone
<1>1. TypeOK /\ (\A h \in Handlers : TaskTrue(h)) /\ \A r \in People : readAt[r] <= reached[r]
  BY DEF ThreadInv
<1>2. readAt[p] \in Nat /\ \A n \in Nat : ~(n < n)
  BY <1>1, BoundsAssumption DEF TypeOK, Time
<1>3. readAt' # readAt
  BY <1>2
<1>4. ASSUME NEW r \in People, NEW newest \in Time, MoveTo(r, newest), msgs' = msgs PROVE FALSE
  <2>1. readAt[p] <= readAt'[p]
    BY <1>1, <1>4, MoveToKeeps
  <2>2. readAt'[p] \in Nat
    BY <1>1, <1>4, MoveToTyped, BoundsAssumption DEF Time
  <2> QED
    BY <1>2, <2>1, <2>2
<1>5. ASSUME NEW h \in Handlers, Store(h) PROVE readAt'[p] \in Stored' \ Stored /\ AuthorOf(readAt'[p]) = p
  <2> DEFINE i == task[h].id
  <2>1. readAt'[p] = IF p = AuthorOf(i) THEN i ELSE readAt[p]
    BY <1>1, <1>5 DEF Store, TypeOK
  <2>2. p = AuthorOf(i) /\ readAt'[p] = i
    BY <1>2, <2>1
  <2>3. task[h] \in Task /\ task[h].at = "store"
    BY <1>1, <1>5, TaskTyped DEF Store
  <2>4. /\ [task[h] EXCEPT !.at = "emit"] \in Task
        /\ [task[h] EXCEPT !.at = "emit"].at = "emit" /\ [task[h] EXCEPT !.at = "emit"].id = i
    BY <2>3 DEF Task, Idle
  <2>5. /\ \A k \in DOMAIN msgs : AuthorOf(k)' = AuthorOf(k)
        /\ Stored' = Stored \cup {i} /\ i \in DOMAIN msgs /\ i \notin Stored
    BY <1>1, <1>5, <2>3, <2>4, MessageMoves DEF Store
  <2> QED
    BY <2>2, <2>5 DEF AuthorOf
<1>6. ASSUME NEW h \in Handlers, AdvanceRead(h) PROVE FALSE
  BY <1>1, <1>4, <1>6, TaskTyped DEF AdvanceRead
<1>7. ASSUME NEW ph \in Phones, ReadThread(ph) PROVE FALSE
  BY <1>1, <1>4, <1>7, FetchTyped, PhonesAssumption DEF ReadThread
<1>8. CASE Api
  BY <1>3, <1>5, <1>6, <1>8 DEF Api, Send, SendRefused, Insert, RollBack, EmitNew, Answer, LoseAnswer,
     Unblock, MarkRead, UnblockRead, Block
<1>9. CASE Phone
  BY <1>3, <1>7, <1>9 DEF Phone, Ask, ReadRow, Show, Disconnect, Connect, Receive
<1> QED
  BY <1>3, <1>8, <1>9 DEF Next, vars

\* "Two phones reading at once can never move it backwards" (advanceRead):
\* only sending does.
THEOREM ReadsNeverLoseGround == Spec => OnlySendingMovesBack
<1>1. ThreadInv /\ [Next]_vars =>
        [\A p \in People :
           readAt'[p] < readAt[p] =>
             /\ readAt'[p] \in Stored' \ Stored
             /\ AuthorOf(readAt'[p]) = p]_vars
  BY ReadsMove
<1> QED
  BY <1>1, ThreadHolds, PTL DEF Spec, OnlySendingMovesBack
=============================================================================
