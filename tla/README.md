# WorkFlex BD in TLA+

WorkFlex BD is a job platform: people prove who they are, apply for jobs, are
hired, work shifts, are paid into a wallet and write to each other. The API
(`apps/api`, NestJS over PostgreSQL with Prisma) serves a mobile application and
an administration application; `backend/` is a second, standalone console with a
database of its own. This directory holds TLA+ models of the API's core, the TLC
configurations that check them and TLAPS proofs about them.

All paths below are relative to the repository; `wallet.service.ts:269` is a line
of the file of that name under `apps/api/src`. `PROJECT.json` lists for every
definition the lines it translates.

## How to run

    tlc -workers 2 -config MCWallet_calls.cfg MCWallet    (likewise the others)
    tlapm Wallet_proofs.tla

Each MC module is a small instance of the module or modules it extends; its
configurations are named after it. A run takes at most two minutes on two cores, a
proof module from half a minute to six.

# Inventory

The core of the system is twelve components. Each is described by its state, what
changes it, what makes it hard and what makes it right.

**Wallet and ledger** (`wallet/wallet.service.ts`). State: a row per account
(balance, the part of it that may be withdrawn), an append-only statement, and
payments, withdrawals and top-ups, the first two under a `requestId` the app
chooses. Operations: pay, pay for a job, transfer, withdraw, cancel, reject, mark
paid, credit a top-up. Hard: calls run at READ COMMITTED and take row locks; the
app repeats a request whose answer it did not get; withdrawals are decided by
several people. Right: no money made or lost, each request carried out once, no
deadlock, every answer true.

**Top-ups and deposits** (`wallet/top-up.service.ts`, `deposit.service.ts`,
`wallet-admin.service.ts`, `payment-callbacks.controller.ts`, `gateway/`). State:
the top-up row, what the gateway knows, and in memory which top-ups were asked
about lately. Operations: open a payment page, hear of a payment by the browser's
return, by the gateway's notice or by a poll, declare a deposit, approve, reject.
Hard: prompts are lost, repeated, forged and out of order, and each handler waits
for the gateway between reading the row and writing it. Right: credited exactly
when the gateway or a person confirms it, once, and in the end, if anybody asks.

**Applications, hires and shifts** (`jobs/`, `reviews/`, `shifts/`,
`interviews/`, `console/`). State: one application row per posting and person,
reused for ever and carrying the marks of a hire (ended, unavailable, replaced);
shifts; attendance records. Written by the applicant, the recruiter, the console
and several services. Hard: several writers read, wait and then write by id.
Right: a place is handed over whole, an ended hire does not come back by itself,
shifts change hands only with the place, attendance agrees with shifts.

**Messaging** (`messaging/`, `apps/mobile/src/lib/chat-socket.ts`, the thread
screen). State: messages, two times up to which each side has read, a block; on a
phone a copy of the thread, the messages not yet answered for, a socket. Hard: the
copy is patched by pushes and by answers and replaced by fetches, in any order,
and pushes to a closed socket are gone. Right: a phone shows what is stored, its
ticks are true, it catches up; a read time does not slip back.

**Identity** (`onboarding/`, `verification/analysis.service.ts`,
`admin/kyc-review.service.ts`, the verification screens of `console/`). State:
document rows, files in the storage, a report of automated checks per document,
submissions, a flag that closes the form, a level. Hard: uploads cross, checks run
one after another in memory for seconds while documents are replaced, some fail, the
process restarts, two sets of screens decide on the same submissions. Right: a row's
file is there, the report shown is about it, nobody is left with nothing to wait for.

**Sessions** (`auth/token.service.ts`, `auth/auth.service.ts`; on the phone
`apps/mobile/src/api/client.ts` and `store/auth-store.ts`). State: refresh tokens
in families, each usable once; on a phone the token in memory and in the keystore.
Operations: sign in, refresh, sign out, sign out everywhere. Hard: a rotation is
three queries, a refresh whose answer is lost has used up the only copy, the phone
may be killed between its two writes. Right: nobody is taken for a thief, and the
token a phone would go on with is one the server will take.

**Credentials** (`credentials/`). State: signed rows in a chain of hashes.
Operations: issue, revoke, list with the checks shown, check the whole ledger. Hard:
two issues at once follow the same head; a list is two queries. Right: the chain
links however issues cross, nothing in it is rewritten, and a list shows no break
that is not there.

**Subscriptions** (`subscriptions/`, `chargeToPlatform` of the wallet). State: plans
with an end, each naming the charge that paid for it. Operations: subscribe, cancel.
Hard: looking, charging and writing are three steps with nothing around them. Right:
every plan has its own charge and no charge is without a plan.

**Interviews** (`interviews/`, `google/`, one route of `console/`). State: the
interview, the event in the recruiter's calendar, the application it shortlists.
Operations: schedule, respond, move, cancel, complete, and the console's cancel.
Hard: row, calendar and application are written one after the other, Google may fail
in between, and the console does not tell it. Right: what is accepted is the time
accepted, and the calendar shows the interviews there are.

**Meetings** (`meetings/`). State: meetings, a seat per invited person with the times
of the last "joined" and "left". Operations: schedule a series, cancel, answer,
join, leave, end, and LiveKit's notifications. Hard: the room is looked at before
the rows are written; notifications come late, out of order or not at all. Right: a
room is booked once at a time, and whoever is shown in a call is in it.

**Bans** (`backend/src/bans`, the standalone console). State: notices with a due
time, accounts. Operations: give notice, cancel, ban now, the job of every minute,
suspending without notice. Hard: the job reads a notice and applies it later,
queries fail, the server is down for a while. Right: the notice is kept, a
cancelled one does not strike, and a due one does in the end.

**Everything else** is listed in `PROJECT.json` with the reason it is left out or
its place in the plan: one-time codes, mock tests, presence, refunds and
announcements of the standalone console (stateful and planned); profiles, reports,
reviews, support (single-row updates by one person); feeds, rankings, matching,
dashboards, drafts (read-only); the two applications, mail and SMS (screens and
external services).

**How they meet.** Hiring decides who may be paid for a job, messaged or reviewed,
by status of the application row; the wallet takes that as a check that passes or
not (`Begin`, `Refuse` of Wallet). Top-ups reach the wallet through one call,
`creditTopUp`. Cancelling a shift opens the cover flow, which writes applications
and shifts. Interviews write the application, which Hiring has as the action of
that service and Interviews as a variable others write to. Subscriptions take money
from the wallet by `chargeToPlatform`. A level gained through Identity is a
precondition of applying and of being paid; a suspended account gets no new tokens.
There are no queues or events between components: they share tables, so every
interaction is a race on rows.

# Modules

- `WalletLedger` is the abstract specification of the wallet: each movement of
  money one step on the tables. `PostOne`, `PostBoth` and `LegalRow` are `post()`;
  `Gain`, `Spend`, `Send`, `Draw` its arithmetic; one action per operation.
- `Wallet` EXTENDS it with the calls that implement it. `pc` is where a call
  stands: before its transaction, at the first or second lock, at the second look
  for a copy, at the balance check, the insert, the commit. `walletLock` and
  `rowLock` are the row locks of PostgreSQL; `saw` is what was read under them,
  from which the commit computes; `Abort` is every way a transaction dies.
- `TopUp` drives `CreditTopUp` by prompts. `task` is what a handler is waiting
  for; `attempt` is the gateway, external, which answers about an attempt with
  what it is at that moment. It INSTANCEs `WalletLedger` with its own rows as
  `topUps`.
- `Hiring` holds applications, hires, shifts, attendance and cover over one set of
  rows. A handler that reads first and writes later is two actions, XRead and
  XWrite, with what it read in `task`; a guarded UPDATE is one.
- `Messaging` is one thread, its API handlers and the phone of one of the two.
- `Identity` is one account: uploads step by step (`Save`, `LookUp`, `Upsert`,
  `RemoveOld`, `Enqueue`), the serial chain of checks (`AnalysisRead` to
  `AnalysisWrite`), submissions, reviewers, the console, restarts. A report has the
  file its findings are of (`of`) and, as history, the file of its last run (`run`):
  they differ when a run failed, for it writes FAILED and no findings. A run fails on a
  file removed meanwhile (`unreadable`), and may on any other: an image that does not
  decode, a card no longer there to compare with, a storage or database that is away.
- `Sessions` is one account: the queries of `TokenService` (`ReadToken`, `MintNext`,
  `RetireOld`, `RevokeFamily`) and the writes of its phones (`Keep`, `Adopt`) are
  steps of their own. `missed` remembers where an answer did not arrive.
- `Credentials` is the whole ledger; `filing` is what a call has read. A hash is the
  record of what was hashed, so that it is injective by construction.
- `Subscriptions` is one account's plans and as much of its wallet as they need:
  balance and statement. `CauseChecked` says whether the database enforces the
  check of the wallet's migration.
- `Interviews` is one candidate and one job, `work` the calls under way; `upset`
  remembers which interviews Google's failures or crossing calls touched. `Strike` is
  the console's cancel, which writes the row and tells Google nothing; `struck`
  remembers that it was the last to write the status.
- `Meetings` is one host's meetings, the seats, and LiveKit with the notifications
  it has under way (`news`); `disturbed` remembers the seats about which news was
  missed or overtaken.
- `Bans` is the notices, the requests at the desks and the job (`Cron`).
- `X_proofs`, for X one of WalletLedger, Wallet, Hiring and Messaging, extends X with
  theorems about it. The other components share: `Access_proofs` is about Sessions,
  Credentials and Identity, `Bookings_proofs` about Subscriptions, Interviews and
  Meetings, `Live_proofs` about TopUp and Bans, and about `MCLive`, which holds the
  two. `Parts_proofs` is about `MCParts` and cites the theorems of its parts. None of
  the components that share a proof module touches anything of another.

`MCParts` puts seven of these side by side: `part`, chosen in the initial state, says
which one a behaviour is of, and the others stand still. Nothing couples them, so
the run is the seven explorations one after the other, with one configuration to
read; two handlers serve every part, and are interchangeable in each. `MCLive` does
the same for the two modules with liveness that are small enough.

`Wallet` implements `WalletLedger` with the identity as refinement mapping: it
shares the variables of the tables, which change at commits only, and every other
step stutters; the abstract `Spec` is a PROPERTY of `wallet_calls`. `TopUp`
implements it with the mapping written in its INSTANCE (a row is PAID or OPEN to
the ledger), the PROPERTY `CreditsLedger` of `topup_mixed`. So what is proved of
the ledger holds of the services above it.

Definitions named `Name_Slip` are versions of `Name` with a mistake a programmer
could make there, kept beside it to show that the properties notice; nothing uses
them.

# What the runs show

`parts` - what the parts promise that work by themselves:

- the ledger, with two accounts, amounts 1 and 2, two payments, one withdrawal and
  two top-ups in every order. Two payments are enough for money to go round in a
  ring and for a transfer to carry earnings on; two top-ups for the earned and the
  added part to differ. `LedgerRule`: rows stay legal. `StatementsTrue`: each line
  starts from the balance the last one left, and entries and causes match one to
  one. `MoneyAccountedFor`: money is conserved, and only pay for work is ever
  withdrawable.
- sessions, with one phone, two calls and three tokens: the least in which one token
  is rotated, presented again and another issued. `NoFalseTheft`: a family is revoked
  for theft only after an answer missed the phone or it signed out during a refresh.
  `SessionHolds`: what an undisturbed phone holds is alive, in both of its places.
- credentials, with two institutions, three contents, two calls and three rows, one
  more than two crossing issues need. `LedgerLinked`.
- identity, with two kinds of document, two uploads and two submissions.
  `ChecksThenDecisions` stops where checks are under way and a submission exists: the
  two halves share only the document rows, which are read by both and written by
  neither. A slow upload that ends after a newer one takes a third file, an
  instance left to the proofs, which have any number. (`FileKept`,
  `ReportFollowsFile`, `OnlyConsoleStrands`)
- subscriptions, with two calls, four entries, three plans, two days and one death,
  without the migration's check. `PlansAccountedFor`: every plan has a charge of its
  own, a charge without a plan is in hand or its call died, and two plans are in
  force only if the second call looked before the first wrote.
- interviews, one of them, two times and two calls. `TimeAgreed`: unless calls
  crossed or Google failed, it is ACCEPTED only for the time that was accepted, and
  the calendar shows it at its time until it is called off and not after, but for what
  the console called off: that event stays, at the interview's own time.
- meetings, either rooms only (three meetings, series of two, slots that touch and
  that overlap) or one guest in one call with four stamps and at most three
  notifications on their way: `RoomsOrOneCall`. Four stamps are two joins and two
  leaves. `RoomSharedByCrossing`: a room is taken twice only by calls that crossed.
  `ShownIsThere`: once the notifications about somebody have come in order, whoever
  is in the call is shown in it and the other way round.

`live` - one top-up, two attempts so that one may fail and the other succeed, one
handler, restarts: `HeardIsNoticed`, which supposes that somebody looks at the top-up
again and again (`Looked`), whoever it is, for nothing in the code makes anybody look.
And one worker, two notices, two desks, two
ticks of a window that is one tick long, one failure of a query or of the server:
`WindowStands`, `NoticeDecided`. The second tick is the first minute after the window.

`wallet_calls` - two concurrent calls carrying any of the requests of `MCWallet`:
payments both ways, requests that share a key within and across operations,
withdrawals, their cancelling and rejecting, credits, with deaths at every point.
Both kinds of wait (on a wallet, on a row under a key) and every pair of
operations meet. Each
commit is a ledger movement (`Spec`), on rows that did not move underneath it
(`NothingMovesUnderneath`), no ring of waiting calls forms but the one the
property names (`NoWaitCycle`), receipts are true (`AnswersTrue`), a copy of a
carried-out payment is not called poor (`RepeatOfPayOrTransfer`) and every call is
answered (`EveryCallAnswered`).

`topup_mixed` - two top-ups, one attempt, two handlers, deposits credited on
sight. Two top-ups and one attempt let a notice name the wrong one; two handlers
let one hold old knowledge. (`OnlyConfirmedMoney`, `CreditsLedger`, `DecidedStays`)

`hiring_places` - three people on one posting and no shifts: enough for a chain of
replacements and for somebody replaced to come back. (`ReplacedStaysFlagged`,
`PlacesHandedOver`, `EndedStaysEnded`)

`hiring_shifts` - two people, two shifts in one slot, two handlers, one attendance
record, one tick of the clock. `OneRaceOrOneAtATime` bounds it: either two handlers
race over one shift, or one handler works on two. (`ShiftHasApplication`,
`StartedIsAttended`, `OnlyPlacesMoveShifts`)

`messaging_thread` - a message each way or one of them tried twice, two handlers,
the socket dropping, one phone followed and the other side on devices that are not;
the recruiter reads over the socket and blocks. (`ShownIsStored`, `TickedIsRead`,
`OnlySendingMovesBack`, `PhonesCatchUp`)

A type invariant is checked along with each module.

Five runs end in a violation, each of a sentence the repository says of itself:
`wallet_repeat`, `hiring_started`, `messaging_blocked`, `identity_console` and
`plans_charge`; see "Known disagreements".

Deadlock is checked except where a bound lets the model stop: `parts` (every key
used, every token issued, every meeting written), `live` and `topup_mixed` (every
top-up decided), `plans_charge` (every entry made).

# Fairness

- `Wallet`: a call that can go on does (WF of `Step`); a lock is granted in the
  order in which it was asked for, so that a call is not overtaken for ever (SF of
  `Takes`), which is how PostgreSQL queues row locks; a ring of waiting
  transactions is detected and broken (`BreakRing`, `deadlock_timeout`). No call is
  made to arrive, no administrator to decide, nothing to abort.
- `TopUp`: a handler goes on unless the process dies, which does not happen at the
  same point for ever; the gateway, asked again and again, answers. No prompt is
  relied on: not a callback, nor an administrator, nor a poll, which the API offers
  (`top-up.service.ts:161`) and no screen makes. What needs one says so in its premise.
- `Messaging`: a thread on screen is fetched again by the clock (`refetchInterval`,
  15 s or 60 s, of the thread screen) and not every fetch is cut off.
- `Bans`: time passes, the job starts every minute and gets on with its list
  (`backend/src/bans/bans.cron.ts`). Failures are not fair, and bounded by
  `MaxFaults`. Administrators may do nothing for ever.
- The other modules state safety only. In `live` the part that stands still is owed
  nothing.

# What is proved

The theorems hold for all values of the constants: any number of accounts, calls,
amounts, handlers, uploads. They rest on the named assumptions of the modules:
ids of different kinds are disjoint, accounts are comparable numbers, amounts are
positive, requests well formed, calls and buyers finitely many, the ids of the
wallet's tables too (`TablesAssumption`: a table has finitely many rows, and a sum over
it means something), a thread has two people (`PeopleAssumption`), the statuses to
start from are statuses, and the values that stand for "nothing" are nothing a table
holds (`NoneAssumption`, `NoAssumption`, `BuyersAssumption`, `NoTimeAssumption`,
`NeverAssumption`). Top-ups assume of their accounts, amounts and tables what the
ledger they credit assumes of its own (`LedgerAssumption`).

`WalletLedger_proofs`. `Typing` first; `Legality` (`LedgerRule` is inductive because
each guard bounds what its movement takes); `Chaining`; `NothingTwice` and
`NothingMissing`, whose common lemma says what one `PostOne` or `PostBoth` appends;
the three together are `StatementsHold`. `Settling` is an action property.
`MoneyHolds` is conservation. The five sums of `MoneyAccountedFor` are recursive, and
the library's induction theorems cannot be instantiated; its fact that a non-empty set
has a least member under a well-founded relation (`WFMin`) can, so the induction is
done by hand on the sizes of the parts of a finite set: `SumExists` (the recursion has
a solution, hence `SumIs`), `ByParts` (a fact that passes from parts one smaller holds
of every part), and from them that changing one value or two moves a sum by the
difference (`SumMoves`, `SumMovesTwice`). After that each movement adds to one sum what
it adds to another (`MoneyStep`); a payment to oneself is ruled out by its guard.

`Wallet_proofs`. The invariant is `Discipline`: types, `SeesThePresent` (whoever
holds a wallet's lock has read the row as it is committed) and
`NothingMovesUnderneath`, which says at each `pc` what a call relies on - its locks,
the balance it found enough, the absence of the row it is about to create. Neither
half is inductive alone: a commit keeps other calls' balances because they do not
hold its locks, and computes a legal row because its own is current. From it
`ImplementsLedger` (each commit is the ledger's action, everything else stutters)
and `RepeatsAnswered` follow. `AnswersTrue` is inductive given the discipline, since
a row once created stays its owner's. `NoRingForms` is about rings of any length:
`LocksPlaced` says where a call stands when it holds a lock; then whoever holds a
wallet that is waited for stands at its second lock and waits for a wallet further up
(`WaitsFurtherUp`), nobody waits for a row but for a claim that waits for a wallet
(`NobodyAtInsert` - here late copies of withdrawals are the exception), and among
finitely many calls one waits furthest up. So two concurrent calls in the run are
enough. `TxTyping` is a conjunct of the discipline, and `BooksBalance` is what the
ledger's theorems come to through the refinement: with calls overlapping and dying
anywhere, rows stay legal, statements true and the sums balanced.

That no ring forms does not yet say that something moves. `SomebodyMoves` does: while
any call is under way, there is one whose next lock or row is free (`Free`), unless a
late copy of a withdrawal, which holds the wallet and waits for the row, crosses the
cancelling or rejecting of that withdrawal, which holds the row and waits for the
wallet (`Crossed`) - the ring PostgreSQL breaks. For if all that are under way waited,
they would form a ring, a ring has a late copy in it, and whoever that waits for could
only wait for its wallet (`LateCopyCrosses`). No fairness is needed for this; that each
call is answered in the end is the scheduler's part, and TLC's.

`Live_proofs`, on top-ups. The invariant `Inv` says of each task what it knows: one about
to credit holds an attempt the gateway has confirmed for that top-up, one about to
mark unpaid has none. The gateway never takes a confirmation back
(`Conclude` leaves a VALID attempt alone), so what a handler knows stays true while
it waits. `ConfirmedBeforeCredit`, `DecisionsStand`, `TopUpsImplementLedger`. The last
makes the ledger's theorems theorems about top-ups: `Books` is the module of its proofs
under the same substitution, `BooksAssume` shows that its assumptions hold there, and
`TopUpBooks` is what `Legality`, `StatementsHold` and `MoneyHolds` then say. The shape
of the wallets needs it too, since the sum credited must be a number: hence
`TopUpTyping` comes after.

On bans. `WindowStands` is about the moment a notice takes effect, while the
job decided to apply it earlier, from a list read earlier still. `Ripe` - its time has
come, and it was not cancelled before - is what carries over: once ripe a notice
stays ripe (`RipeStays`), and whoever has one in hand to apply has a ripe one
(`HandRipe`), by hand excepted. Hence `TheWindowStands`. It needs none of the
fairness of `BansSpec` (`BansSafe`), so it holds in `LiveSpec` as well, where time may
stand still for good.

On both together. `LiveSpec` keeps each of the two specifications without its fairness
(`LiveParts`): `LiveTyping`, and with `LiveKeeps` all that `live` checks but what must
happen in the end.

`Hiring_proofs`. Two invariants. `HiringInv`: besides types and the two properties
that are its conjuncts, an assignment under way has its rows to itself (`Apart`),
finds them as it left them, and its shifts are still its worker's (`AssignHolds`).
`StepKinds` is the heart: every step of every writer is gentle - it leaves a locked
row alone, lets the marks of a hire stand and takes no shift from anybody - or is
the commit of an assignment, whose effect `CommitEffect` states. The action
properties `PlacesGoOverWhole`, `EndedHiresStay` and `PlacesMoveShifts` follow, since
a gentle step satisfies them idly. `AttendanceInv`: records are of shifts there are,
and whoever checks out holds a record of that shift; all steps but the two writes of
attendance are quiet about it (`QuietKeeps`). It gives `StartedAreAttended`.

`Messaging_proofs`. What the proof turns on is that nothing stored is taken back and
that the furthest a read time has been (`reached`) never falls (`Keeps`), so whatever a
push, an answer or a fetch says stays true however late it is heard. `ThreadInv` says
it of each place a word may be: a request about to store has its message to itself
(`TaskTrue`), pushes (`PushTrue`), fetches (`FetchTrue`) and copies (`ViewTrue`) name
stored messages only, each once, and tick what the other side has reached.
`NothingMadeUp`, `TicksEarned`, `ThreadTyping`; `ReadsNeverLoseGround` is the action
property. That finitely many messages can be put in the order a fetch has them
(`Sorting`) is proved from a least counterexample, again by `WFMin`.

`Access_proofs`, on identity. `Shape` adds to the types that a queued check has a row and a
running one a report. `FilesInv`: a file not yet named by a row is stored, is
nobody's and is not what any upload will remove (`FreshStored`, `FreshUnnamed`,
`FreshOnce`), and what an upload will remove is named by no row once its own upsert
is done (`OldUnnamed`). The last is the heart: at first only the row it was read
from may name it, and every upsert, one's own or another's, replaces it by a fresh
file. `ReportsInv` adds `RunOwed`: a run on a file the row has left is followed by
another, and past its mark the report is of the file it reads; so a failure, whatever
it comes from, is of the document that is there or about to be made good.
`OnlyConsoleStrands` is inductive given the types. `IdentityTyping`,
`FilesKept`, `ReportsFollow`, `ConsoleStrands`.

On sessions. A family of tokens is one phone's alone (`Apart`), and a
phone every answer has reached stands at one of four places: it rests, signs in,
refreshes or signs out (`Rests`, `Enters`, `Refreshes`, `Leaves`). In each it is known
which token of the family is alive and where the copies of it are; in the middle of a
rotation there may be two, the old one and its successor (`Succeeds`). `Steady` is
inductive with `Waits` and `Issued`, who waits for which call and that what is held was
issued. `SessionsHold` is its first place; `TheftNeverFalse` says that a phone at any
of them presents a token that is not used up, unless it was revoked from outside.
`RevokedForGood`: no rotation that read a token before it was revoked revives it, and
families stay apart, so what ends one phone's session is never another's.

On credentials. `LedgerInv` says the rows have their shape and link, each at its
index (`ChainHolds`): a filing commits only if the head it read is the head still
(`issuing.service.ts:122` runs it SERIALIZABLE). `OnlyMarks`: no step touches a row
but to mark it withdrawn, which is `NothingIsRewritten`. A list is two queries, so its
rows are earlier versions of the ledger's (`Later`, `ListInv`) and what it says of them
is true of both (`ListsAreTrue`).

`Bookings_proofs`, on plans. Charges without a plan are counted, not only found:
each is in the hand of a call, by itself (`HandTrue`), or of one that died (`Counted`).
What was over when a call looked is over for good (`Overlooked`), so two plans in force
mean that the second call looked too early. Together `PlansReconcile`, whether or not
the database enforces the migration's check.

On interviews. Over an interview nothing went wrong with there is at most one call,
and `Midway` says, between its writes to row and calendar, how far the two are apart;
with no call left they agree (`TimesAgreed`). After the console's cancel to agree means
no event, or one at the interview's time (`StrikeKeeps`). That a call off or on again starts from
agreement is what the inductive `InterviewsInv` adds.

On rooms. What a request found free among the meetings it looked at stays
free among them (`FoundFree`), because bookings only ever stop being bookings; so two
meetings in the room mean that the later was asked for before the earlier was written
(`RoomSharedOnlyByCrossing`). That the occurrences of one series do not overlap
rests on `SlotsAssumption`.

On who is in a call. Of what is still to be heard about a person whose notifications
come in order, the last word is where they are, and when all is heard their row tells
it (`Told`); nothing need be known of the words before. A meeting that has been ended
but whose room is still to be closed is the one exception, and `Past`, that no stored
time is ahead of the clock, is why a new join or leave is newer than what the row has.
`CallInvHolds`, `MeetingsTyping` and `ShownAreThere`.

`Parts_proofs`. A step of `parts` is a step of one part in which the six others stand
still (`OneMoves`), so each part's specification holds of every behaviour
(`PartsImplement`); what is proved of the parts, `PartsTyping` and `PartsKeep` then
collect. It shows that putting them side by side for TLC leaves nothing of the parts
out by an accident of shared constants: the theorems of all three proof modules apply
under the assumptions the run evaluates.

Only model-checked: everything that must eventually happen (`EveryCallAnswered`,
`PhonesCatchUp`, `HeardIsNoticed`, `NoticeDecided`), because liveness under fairness
is out of the prover's reach. Every invariant and every other action property of a
passing run is stated by a theorem.

# Known disagreements

Found by runs, and recorded as findings:

- A second copy of a job payment or of a withdrawal that waited for the lock is told
  there is not enough money (`wallet.service.ts:690` and `:376` against
  `schema.prisma:1117` and `:1171`). Run `wallet_repeat`.
- A shift somebody has checked in to is handed over with the place
  (`hire-replacement.service.ts:315` against `:290`). Run `hiring_started`.
- A message is stored in a thread that was blocked after its check
  (`messaging.service.ts:236` against `schema.prisma:1418`). Run `messaging_blocked`.
- A rejection from the console leaves the form closed with nothing to wait for
  (`console-operations.service.ts:184` against `kyc-review.service.ts:238`). Run
  `identity_console`; `OnlyConsoleStrands` shows it is the only way to get there.
- A charge for a plan is an entry without a cause, and the migration has the database
  refuse those (`wallet.service.ts:597` against `20260911201216_wallet/migration.sql:174`),
  so that no plan can be bought. Run `plans_charge`.

Seen while reading and modelling. The models do what the code does, and no property
claims otherwise:

- A second tap on Apply writes SUBMITTED over a decision made after its read
  (`jobs.service.ts:777`; the comment at `:766` says it is a no-op).
- Arranging an interview puts somebody hired meanwhile back on the shortlist
  (`interviews.service.ts:168`, comment at `:165`).
- Covering a shift sets ACCEPTED but leaves the marks of an ended or replaced hire,
  so the person is not on the job again (`replacement.service.ts:354`).
- Two confirmations of cover for one gap both succeed (`replacement.service.ts:334`).
- Calling off, checking in and checking out overwrite each other
  (`shifts.service.ts:237` and `:269`, `replacement.service.ts:306`).
- Two check-ins at once open two records (`shifts.service.ts:155`).
- The console's check-out ends the record and leaves the shift IN_PROGRESS and
  without pay (`console-operations.service.ts:458`; compare `shifts.service.ts:195`).
- The console's decision and a cover revive a withdrawn application
  (`console-jobs.service.ts:129`; the recruiter's own decision refuses,
  `jobs.service.ts:908`).
- Writing counts as having read messages that were never shown
  (`messaging.service.ts:264`).
- Of two people who block each other the second to do so can lift it for both
  (`messaging.service.ts:321`).
- On line and off line may be announced in the wrong order
  (`messaging.gateway.ts:152`).
- Two reviewers of the queue can both decide: the status is read in `load()` and not
  again (`kyc-review.service.ts:261`).
- The console's approval sets level 1 for somebody on level 2, and asks for no
  status (`console-operations.service.ts:172`).
- A trade licence cannot be added later as `kyc-review.service.ts:150` expects:
  uploads are refused once the form is closed (`onboarding.service.ts:297`).
- Checks that fail write FAILED and leave the findings of an earlier file on the row,
  and nothing is queued again (`analysis.service.ts:183`): the verdict is of the new
  file, what stands beside it of the old one.
- A selfie is compared with the identity card read at that moment, which may be
  replaced while the comparison runs (`analysis.service.ts:198`).
- An upload that passed the check lands after the submission
  (`onboarding.service.ts:185`).
- A candidate's acceptance of the old time is kept for the new one
  (`interviews.service.ts:198`, comment at `:228`).
- An interview the console calls off stays in the recruiter's calendar
  (`console-operations.service.ts:604`), where the recruiter's or the candidate's own
  cancel removes the event "whichever side cancelled" (`interviews.service.ts:293`).
- Nobody polls a top-up. The API does it "because the app polls while it waits"
  (`top-up.service.ts:309`), but `fetchTopUp` (`apps/mobile/src/api/wallet.ts:61`) is
  used by no screen, and the wallet's drops the id it is opened with (`wallet.tsx:50`,
  comment at `:37`). If every callback of a payment is lost it stays PENDING, however
  surely the gateway has the money; `HeardIsNoticed` holds only of what is looked at.
- Of two interviews arranged at once for one pair both are kept
  (`interviews.service.ts:121`). `OneArranged` states the promise.
- A notice cancelled while "ban now" or the job is applying it takes effect all the
  same, or is both (`backend/src/bans/bans.service.ts:304` and `:375`).
  `CancelledIsCancelled` states it for the window, where only "ban now" can do it.
- A meeting room is booked twice by requests that cross (`meetings.service.ts:229`),
  and by nothing else.
- Prices of plans are in paisa (`packages/shared/src/subscriptions.ts:12`), the wallet
  is in whole taka (`packages/shared/src/wallet.ts:11`), and the one is charged to the
  other: a hundred times what the page shows (`subscription-pay.tsx:89`).
- Cancelling a plan ends it at once (`subscriptions.service.ts:97`), where its comment
  says that what was paid for still runs to its end date. `PaidForRuns`.
- The `requestId` of a subscription is required and never looked at, so a repeat is a
  second purchase (`packages/shared/src/subscriptions.ts:58`); a process that dies
  between charge and plan has taken the money for nothing (`subscriptions.service.ts:75`).
- A ledger of credentials nobody has touched need not check out: claims are hashed in
  the order they were sent and read back in the order of jsonb
  (`credentials.service.ts:317`). `UneditedChecksOut`.
- A rotation that runs while everything is revoked writes a token that survives it
  (`token.service.ts:158`).

# Bounds and what the models leave out

All bounds are CONSTANTS: sets of ids in every module; `Horizon` and `MaxRecords`
in Hiring; `MaxMessages` and `Active` in Messaging; `Files` and `SubmissionIds` in
Identity are at most so many uploads and submissions. The theorems have none.

- Wallet: amounts are whole numbers without the ceiling of a database integer: past
  it PostgreSQL refuses the update and the transaction dies, as in `Abort`; minimum
  amounts, names and notes are part of the checks `Refuse` stands for. A charge for a
  plan is in Subscriptions. The pool of connections is not modelled.
- TopUp: page parameters, currencies and risk levels are the booleans `fits` and
  `risky`; a top-up opened at another gateway than the configured one is left alone
  by the code and left out.
- Hiring: one recruiter; who is verified or matches is a free choice; `Veterans` are
  people who worked on other postings of the same recruiter, whom a cover may
  invite; pay of a shift is left out.
- Messaging: the inbox, starting a thread, muting, typing and presence; two messages
  of one millisecond; older pages. A restart of the API is `RollBack`, `LoseAnswer`
  and `Disconnect`.
- Identity: the check that the form is open and the saving of the file are one step,
  as are the two reads of a submission, because nothing in between can tell them
  apart but an upload that lands late, which is there anyway. `cut` is a history
  variable: the documents whose upload or checks a restart or a database error cut
  short. A file that cannot be removed is left behind and harms nothing. What the
  checks find, profile fields and companies are left out.
- Sessions: access tokens; a token past its time is refused at any moment the model
  likes, as nothing tells it from a revoked one but the message; the codes sent by
  SMS and the sign-in of administrators.
- Credentials: SHA-256 does not collide; whether the signature is an institution's is
  external; registering institutions is an insert before the model starts.
- Subscriptions: days are ticks; two plans on sale. `CauseChecked` is off in `parts`
  because nothing is ever bought with it on, and on in `plans_charge`.
- Interviews: who may interview whom, rooms given by hand, and the messages that follow.
- Meetings: templates, physical rooms' addresses and messages; a pass to a call is
  used once, and LiveKit's own reconnecting is left out, with the eviction of a second
  connection under one identity; four stamps keep a second return that only LiveKit
  reports out of the run, not out of the theorem; left out is `joinWindow` too, since a
  call outside it changes nothing; a call that has not heard of somebody for
  `IN_CALL_STALE_MS` drops them from the list, which `InCall` does not count.
- Bans: the messages to the worker and the audit trail, written last. Two runs of the
  job that overlap meet as the job and a desk do.

# Not modelled

Reading lists, scores and drafts change no state. Profiles, reports, reviews, courses,
support and most of the standalone console are one row updated by one person, where a
model would restate an assignment. The screens of the applications hold no state that
races with the server but the thread and the tokens, which are modelled. Most of the
repository's lines are such screens, texts and schemas, so the share of it that the
modules cover stays small. What pictures and CVs contain is numerical work on data that
no property tells apart. `PROJECT.json` says it component by component.

# Plan

Done: WalletLedger, Wallet, TopUp, Hiring, Messaging and Identity first; then Sessions,
Credentials, Subscriptions, Interviews, Meetings and Bans; proofs about all twelve
and about the modules that put them side by side.

Next, the most valuable first:

1. One-time codes: attempts, expiry, two devices asking at once.
2. Mock tests: of two submits both may pass the look at `submittedAt`.
3. Presence of people in the chat, announced per socket.
4. Announcements of maintenance by the standalone console's job, with the stamps that
   keep one from being repeated; refunds linked to the payment they return.
5. The file of a CV as a second user of Identity's storage.
6. Liveness of calls by hand from `SomebodyMoves`, once the prover knows ENABLED: the
   number of steps each call has left is what would fall.

Components of the list are to join `MCParts`, and their proofs `Access_proofs` or
`Bookings_proofs`.
