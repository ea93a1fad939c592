# Skolara: specifications

Skolara is a multi-tenant school system: a NestJS API (`apps/api`) over one
Postgres database, a web application for schools and a mobile application for
parents, students and teachers. The API keeps no state of its own between
requests. Everything that can go wrong with state therefore goes wrong in the
same way: a request is a sequence of database calls at READ COMMITTED, each
`await` lets any other request in, and the process may die at any of them. Some
services decide inside one conditional statement, others read first and write
later. These modules model each service at that grain.

Paths below are relative to `src/apps/api/src` unless they start with `apps` or
`packages`.

## 1. The system

### Components

| component | state it keeps | operations | what is hard | what makes it correct |
|---|---|---|---|---|
| fee payments (`payments/`) | `Invoice`, `PaymentSubmission`, `PaymentReferenceSequence` | submit, review (verify, reject, ask), render a receipt, tell the family | two admins on one queue; the receipt is made after the transaction from a second read; a review dies half way | an invoice's total is the sum of its verified claims, whoever interleaves |
| invoices (`invoices/`) | `Invoice` | create | nothing but its part in the above | |
| bank statements (`bank-statement/`) | `BankStatementLine` | import, suggest matches, confirm | confirmations from old screens; greedy matching over two reads | a line is spent once, on a payment of its school and amount |
| payment gateway (`payment-gateway/`) | writes `Invoice` | open a checkout, handle Stripe's webhook | repeated deliveries; a total read, added to and written back; hundredths on one side, sums of doubles on the other | nothing is shown beyond what was verified and sent, but for what repeated calls credit again; total and status agree but for a named case of rounding; nothing is lost (which fails) |
| inventory (`inventory/`) | `InventoryItem`, `AssetAssignment` | create, update, remove, issue, return | checks a round trip before the write; a denormalised count | `unitsOut` is what the rows add up to |
| library (`library/`) | `Book`, `BookLoan` | create, borrow, return | last copy, double-tapped return; no CHECK constraint | shelf and loans add up to the copies owned |
| hostel (`hostel/`) | `HostelRoom`, `HostelAllocation` | create, resize, remove a room; allocate, vacate | a bounded retry loop over a race; capacity read earlier | nobody shares a bed, "full" means full |
| parent meetings (`meetings/`) | `MeetingSlot` | publish, book, give up, withdraw | two taps on a slot; withdrawal against booking | a booking is never overwritten |
| absences and attendance (`absences/`, `attendance/`) | `AbsenceRequest`, `AttendanceRecord` | request, review, cancel; mark a register | approval and register each read the other's table | a register says what the teacher said, but for approved absences |
| mobile offline queue (`apps/mobile/lib/offline-queue.ts`) | a list in local storage | enqueue, flush | enqueue during a flush; replays | no register is lost but by writers that cross or a list that cannot be read |
| leave (`leave/`) | `LeaveRequest` | request, review, cancel | balance read before the insert; review against withdrawal; a balance that counts from the first of January while nothing bounds a request's first day | the leave of a year fits its allowance, but for what the balance cannot see |
| quizzes (`quizzes/`) | `Quiz`, `QuizQuestion`, `QuizAttempt`, `QuizAnswer`, `GradeEntry` | edit, publish, remove, start, answer, submit, expire, grade | answers, deadlines and second settlements racing the grading; no job, only requests that meet an expired attempt; teachers keying marks into the same cell | one attempt at a time; marks add up; a settlement leaves the best attempt in the gradebook |
| sessions (`auth/`, `packages/api-client`, the clients' storage) | `RefreshToken`, the stored pair, a promise per tab | login, refresh, logout, revocation | rotation under concurrent 401s, lost answers, several tabs | one refresh at a time; nobody signed out without a reason; no request hangs |
| timetable (`timetable/`) | `Period`, `TimetableEntry` | periods; upsert, delete a lesson | two edits that both find the slot free | no teacher or room in two places |
| syllabus and plans (`lessons/`) | `SyllabusTopic`, `LessonPlan` | add, update, remove topics; plan, update, remove | positions and dates derived from a read; targets checked before the write | entered order is kept; a covered topic has its date; a plan is of its topic's course |
| marks and cards (`grades/`, `exams/`, `report-cards/`) | `GradeEntry`, generated cards | mark, comment, rank, make cards | ties; separate readings for each card; students who move; a card is of the term, a rank list of one type of exam | ranks are fair; a card places its student by the total of the term in the class it names |
| access templates (`role-templates/`, guards) | `RoleTemplate`, `User.roleTemplateId` | create, update, remove, assign, clear | each check looks at what the other writes | nobody is locked out but by a crossing |
| admissions (`students/`) | `User`, `StudentProfile`, links to parents | admit, link, unlink | a count, a slow hash, an insert | the plan's cap, but for admissions that race |
| tickets and complaints (`support/`, `complaints/`) | status, comments | raise, comment, change | pushes sent after the write; comments checked before it | the last push tells the status |
| devices (`devices/`, `notifications/`, the phone) | `DeviceToken`, what the phone stores | register, unregister, push, clean up | calls late or lost; the next user of the handset | notifications go to whoever is signed in |
| the rest | see `PROJECT.json` | single-row edits, reads, rendering, sending | | |

`PROJECT.json` lists every part of the repository with its status and, for what
is not modelled, the reason: reads and reports, single-row creation and edits
that relate no two rows, rendering and layout, outbound sends that swallow their
errors, user interfaces, and generated or configuration code.

### How they interact

Components do not send each other messages; they share tables. Reconciliation reads
and points at the submissions that reviews change. The gateway and the reviews write
the same columns of `Invoice`. Receipts and messages are produced by the review
request after its transaction. Registers look at absence requests and approved
absence requests rewrite registers. No two quizzes write the same gradebook cell, by
an index on `Quiz`, but a teacher's mark of the same subject, term and kind of exam
is the same row of `GradeEntry`: `Quizzes` has the teacher as a second writer of its
cell (`KeyIn`), and `Gradebook` has quizzes as writers beside the teachers
(`SyncGradebook`). Client and API meet in `Sessions` (tokens), in `Devices` (the
handset's token) and in `OfflineQueue`. The other services share no table that one
of them relies on.

## 2. The modules

| module | models | uses |
|---|---|---|
| `FeeLedger` | abstract: a claim is accepted once, for good, and adds its amount to one invoice | |
| `Payments` | payments and invoices | implements `FeeLedger` |
| `BankStatement` | reconciliation, beside the reviews | composes with `Payments` (EXTENDS it; shares `submission`) |
| `PaymentGateway` | Stripe checkout and webhook, beside the reviews | composes with `Payments` (shares `invoice`) |
| `StockPool` | abstract: never more units out than held, a loan comes back once and whole | |
| `Inventory`, `Library` | the two services that lend | each implements `StockPool` |
| `Hostel`, `Meetings` | the two services that hand out places | |
| `Registers` | absences and attendance | |
| `OfflineQueue` | the phone's queue of registers | ends where `Registers`' requests begin |
| `Quizzes`, `Leave` | a quiz from draft to gradebook; leave against an allowance | |
| `Sessions` | refresh tokens: the API's rotation and the client's joined refresh | |
| `Timetable`, `Lessons`, `Gradebook` | the staff room: lessons, syllabus and plans, marks and cards | |
| `RoleTemplates`, `Enrolment`, `Tickets`, `Devices` | access templates, admissions, matters raised, one handset | |
| `Reconciliation` | `BankStatement` and `PaymentGateway` at work on the same invoices and submissions | composes the two |
| `Services` | the lenders, `Hostel`, `Meetings`, `Registers` and `OfflineQueue` side by side | composes the six |
| `School` | `Quizzes` and `Leave` side by side | composes the two |
| `Office` | the staff room, `RoleTemplates`, `Enrolment`, `Tickets` and `Devices` side by side | composes the seven |
| `MCPayments`, `MCReconcile`, `MCServices`, `MCSchool`, `MCSessions`, `MCOffice` | small instances for TLC | restrict `Payments`, the compositions and `Sessions` |
| `PaymentsProofs`, `MoneyProofs`, `ServicesProofs`, `SchoolProofs`, `SessionsProofs`, `StaffRoomProofs`, `OfficeProofs` | theorems, for the module or composition of that name (`Reconciliation`: `MoneyProofs`) | TLAPS |
| `Counting` | lemmas on finite sets of numbers, their bounds and places in their order | TLAPS |

### How state and actions correspond to the code

*Tables* are functions from row ids to records, or sets of rows, with the
columns some decision depends on. A row that has not been inserted has a status
of its own (`NONE`). Ids that were deleted do not come back.

*One action is one round trip.* A single statement is one action. So is one
`$transaction` whose first statement is a conditional update: the row lock it
takes makes the rest of the transaction follow the state it saw. A handler that
reads and writes later is two or more actions, and what the first one learnt is
kept by the request. This is done in one of two ways:

- where what is remembered matters step by step, a variable holds the request
  and its program counter (`submit`, `review`, `delivery`, `load`, `allocate`),
  for a fixed set of clients that can overlap;
- where the write needs only to know that the check once succeeded, a growing set
  remembers it (`toIssue`, `toRemove`, `toResize`, `toDelete`, `toWithdraw`,
  `toRequest`, `toAnswer`, `toReview`, ...). Nothing is ever taken out: some request
  that made the check may still be about to write. This models any number of
  requests in flight. `shown` of `BankStatement` does the same for pairs on screens
  of any age. That a
  confirmation is of such a pair is what its amounts rest on: `confirmMatch` itself
  compares none.

*Failures.* The `Drop...` actions (and `EndAllocate`, `LoseAnswer`, `LoseCall`) end a
request between any two steps: a failed query, a lost connection, a restart.
What has been written stays written. `LoseReceipt` is the error the receipt
code catches. Requests that are refused without having written anything are no
action where they carry nothing over.

*Payments* step by step: `TakeReference` (find the invoice, increment the
counter), `CheckDuplicate`, `CreateSubmission` or `ClashOnReference`;
`ReadForReview`, then `Verify` (the transaction), `ClaimForReview` (a rejection or
question) or `RefuseReview`, then `ReadForReceipt`, `StoreReceipt` or
`LoseReceipt`, then `Notify`. A receipt is modelled by the one figure on it that
can be wrong, the paid-to-date. Amounts are small naturals; the schema's
decimals are exact, so nothing is lost by that. The sum of claims is the
cardinality of a set of units (`Credited`), which TLC evaluates and the prover
can reason about. The calendar year is fixed: it is part of the counter's key
and of the reference, so two years cannot interfere.

*Payment gateway* is optional: without Stripe keys the Noop provider takes no
step, and the system is `Payments` alone, which is what its theorems are about.
Stripe is external; it is modelled by what the handler relies on: a session over
a positive amount, a webhook for a paid session, at least once and possibly
again. Nothing recognises a repeated call, so each adds the session's amount
again; `CreditedAgain` is what they added. Amounts are whole numbers of
hundredths, as in the database and at Stripe. The handler counts in rupees: a
hundredths' quotient is rounded once, so that equal amounts are equal, and
`Math.round` finds the hundredths again (`UnitAmount`, `FromStripe`); but a sum of two
is rounded a second time and may fall short of the amount it equals (0.7 + 0.1 is
less than 0.8), which only the comparison with what is due can tell, the column
rounds it back. `FallsShort` is the set of pairs for which that happens, a constant;
of random splits of an amount with hundredths about one in nine is one.

*Inventory and library* are refinements of one store room. `StrikeOff` of
`StockPool` takes the loans along because the foreign key cascades: that is what
the code does.

*Hostel*: the loop of `allocate` is `ReadFreeBeds`, `ClaimBed` or `FailToClaim`,
`ExplainFailure`, `ReadFreeBeds`, ... with the attempt counted as in the code.
Only current residents are kept; past allocations are read by nobody modelled.
`settled` is a history variable, read by `FullMeansFull` and by no guard: it says
that since the request began nobody left the room, the student left no room, and
the room did not grow or go.

*Registers* has the two halves of one promise. `ReviewAbsence` is one transaction
that starts with a conditional update; `ReadExcused` and `TakeRegister` are the
read and the transaction of upserts of a register. LATE is treated as PRESENT
is, and is left out of the statuses. Dates are modelled by what is stored: an
absence's ends are midnights of UTC, a register's day is the midnight of the
clock it was taken by, `Offset` hours earlier, and `Covers` compares the two as
the queries do. `said` is a history variable: what the last register said,
before absences. Students stay in their class, so a row is found by student and
day. `Registers` calls students pupils, as the code does in one place, to
be distinct from `Students` of `Hostel` in one harness.

*OfflineQueue*: `ReadToPark` and `Park`, and `StartDrain` ... `EndDrain`, read the
stored list and write it back later; `seen` is what was read. Each register on
a drain's list is sent once: `Synced`, `Discarded` (4xx) or `StillQueued`, the
last whether or not it arrived. `Quit` leaves what is stored. Registers of a
sheet (a class on a day) are numbered in the order in which they are taken.
`parked` and `crossed` are history variables. `ReadsFail` says whether the stored
list may turn out unreadable: then `readQueue` takes it for an empty one, what is
parked next replaces it, and a drain ends at once. That a request reaches the school
after the phone has given up on it is modelled as arriving when the phone gives
up.

*Quizzes*: a quiz has one student's attempts as rows `attempt[s][n]`, and time is
what of it matters: where the moment lies in the quiz's window (`PassTime`) and
which attempts have run out (`RunOut`). A start is `FindOpen`, `ChooseNext`,
`Open`; a save is `CheckAttempt`, `SaveAnswer`; any request that settles an attempt
(`Submit`, `Expire`, `ExpireAndGoOn`, the last going on to the next attempt) is
`ReadAnswers`, `Settle`, `ReadBest`, `Finish`, and `DropGrader` where it dies.
`Rewrite` deletes the questions and, by the foreign key, their answers.
`KeyIn` is a teacher's mark for the same cell. `disturbed` and `keyed` are history
variables of the properties.

*Leave*: `CheckBalance` and `File`, `CheckToReview` and `Review`, `CheckToCancel`
and `Cancel` are the two halves of each request. Days are numbers, Sundays every
seventh. `NewYear` moves the day from which the balance counts: leave that began
in the old year is counted no more, as in the code. What was granted is measured
by the property itself, of each year by its own (`DaysHeld`), and not by the code's
query. `crowded`, and `asked` and `revived` of a row, are history.

*Sessions* has both ends of a refresh. A request that is refused with 401
(`Refused`) begins a flight or waits for the tab's: `inFlight` is the promise
`refreshInFlight`. The flight is `ReadRefreshToken` on the client, `FindToken`,
`Rotate` and `Issue` in the API, `StoreAccess` and `StoreRefresh` on the client
again; `Resume` wakes all who wait in one go, as promise callbacks run with
nothing in between. `LoseAnswer`, `Reopen` and `EndSession` are what the network,
the operating system and the API's other operations do to it. Tokens no tab
knows are used again, so that the model is finite without a bound on its length.

*Timetable*: `BeginEdit`, two `Look`s (teacher and room) in either order, then
`Write` under the unique indexes or `Refuse`. *Lessons*: `ReadLast` and
`CreateTopics`, `ReadTopic` and `WriteStatus`/`WriteTitle`/`WriteOrder`,
`CheckTargets` and `WritePlan`; a topic's and a period's removal leave the plan with
nulls, as the foreign keys say. *Gradebook*: `FindPupil` and `UpsertGrade`, or
`SyncGradebook` of a quiz; `AskForComment` and `WriteComment` around the AI service;
`BeginBatch`, then for each student `ReadPupil` (the student, with the class of the
moment) and `MakeCard` (the marks of that class), `EndBatch`. A row is of a student
and a cell, which is a subject and a type of exam. `RankList` and `PositionIn` are
the two algorithms that place a student, over every order in which the database may
return equals; the first reads the cells of one type of exam (`CellsOf`), the second
those of the term (`CellsOfTerm`). Percentages are compared by cross-multiplication;
what division in floating point rounds is left out. *RoleTemplates*, *Enrolment*,
*Tickets*: a check and a write in each request, and the push after it. *Devices*:
the phone (`SignIn`, `Registered`, `SignOut`, `Detached`, ...), the calls on their
way (`Register`, `Unregister`, `LoseCall`) and pushes (`LookUp`, `Send`,
`DropInvalid`). `muddled`, `crossed`, `doubtful`, `answered`, `strayed`, `late` and
`excused` are history variables, read by properties and by no guard, as `outdated`
of the cards is.

### Fairness

Only `Sessions` claims liveness. A request of a tab that has begun ends
(`RequestsEnd`), under weak fairness of `RequestStep` (the API answers a request, the
client reacts to the answer) and of `FlightStep` (the same for the refresh) of each
request. The code justifies it: `fetch` settles, by an answer or by an error of the
network, and the event loop runs what waits on it. Nothing is assumed of starting
requests, of losing answers, of closing tabs or of signing in. It is a property
about the shared promise: one that is never cleared, or that wakes its owner only,
leaves requests waiting for ever.

The other specifications assume no fairness, because the code justifies none. A
request that dies is not resumed; no job retries a receipt, a message or a webhook
of its own; a review ends only if an admin makes one; an attempt past its time is
settled only if somebody looks at it. What must hold wherever a request stops is
stated as safety instead. `CHECK_DEADLOCK` is off for the same reason: with every
row inserted and decided, most models have nothing left to do.

## 3. What the runs check

| run | instance | shows |
|---|---|---|
| `payments` | 2 schools, 2 invoices, 3 clients, 2 reviewers, 2 submissions of 1-2 units | money, status, receipts, messages and references stay right under every interleaving and every death of a request; the service implements `FeeLedger` |
| `payments_references` | the same | violated: references of two schools collide |
| `reconcile` | 1 school, 1 invoice, 1 reviewer, and either 2 submissions, 2 lines and 1 page load at a time, or 1 claim, 2 sessions and 3 webhook calls | matches are sound and final, the greedy loop is fair; no invoice shows more than verified claims, paid sessions and repeated credits; status and total agree but for exact payments that fall short |
| `gateway_lost` | the same | violated: a payment is overwritten |
| `services` | one service in each behaviour. Inventory: 2 items of up to 3 units, 3 assignments. Library: 2 titles of up to 2 copies, 3 loans. Hostel: 1 room of up to 2 beds, 3 students, 2 wardens. Meetings: 2 slots, 2 parents. Registers: 1 pupil, 2 days, 2 absences, 2 registers at once. Queue: 3 registers of 2 sheets, 2 submissions and 2 drains at once | counts agree with rows, both lenders implement `StockPool`; beds and bookings are exclusive, "full" means full; registers are honest; the queue loses nothing unless two writers cross or the list is unreadable |
| `registers_days` | the same, clocks 5 hours ahead | violated: an absence does not cover its first day |
| `queue_parked` | the same, 1 submission and 1 drain at once | violated: a saved register is lost |
| `school` | a quiz with 1 student, 2 papers, 2 attempts, 2 settlements at once; or leave with 1 member of staff, 3 requests, 2 filings at once, an allowance of 3 days, 4 ranges around a Sunday and New Year | one paper at a time; marks add up; a settlement leaves the best in the gradebook; leave of each year fits its allowance |
| `quiz_marked` | the same | violated: a saved answer is never marked |
| `sessions` | 3 requests of one tab, or one request of each of two tabs, 5 tokens | one refresh per tab; nobody is signed out without a reason; every request ends |
| `sessions_kept` | the same | violated: a good session is thrown away |
| `office` | one service in each behaviour: 3 classes, 2 teachers, 1 room, 1 period, 2 edits; 2 syllabi with 3 topics, 1 plan; 3 pupils in 2 classes with 2 exams of different types; 2 templates, 3 people, 3 requests; 3 students under a cap of 1, 2 clerks; a ticket or a complaint with 2 requests; 2 users of a handset, 3 calls, 2 pushes | the properties of the seven services, each but for the crossings it names |

`PaymentTablesOK`, `ReconcileTablesOK`, `ServicesTablesOK`, `SchoolTablesOK` and
`OfficeTablesOK` are what `Payments` and the compositions make of their components'
type invariants, with the index properties and the ownership of rows that belong
to them.
`OnlineTotalsHold`, `SyllabusTellsTheTruth`, `MattersAnswerTruly` and
`NotificationsFollowThePhone` are conjunctions of two named properties each, in their
modules.

Every property has a mutant in `PROJECT.json`: a broken variant of one
definition of the model, kept next to it and marked as such, under which the
run finds the property violated.

**Bounds, and why they are enough to be interesting.** The races are between two
requests, so each run has two of whatever races, and a third where a third could
matter (a client of another school, a third student for two beds). `payments`:
amounts up to 2 against a due of 2 give part payment, exact payment and overpayment;
`MaxSequence` lets the first school draw two references and the second one.
`reconcile`: two equal amounts make the order of the loop matter; three calls over
two sessions include a repeat, and `FallsShort` holds the pair of one and one, which
stand for amounts like 0.7 and 0.1. `services`: units up to 3 in lots make "some are
free" differ from "enough are free"; with two wardens and a named-bed request one
warden can lose each of its turns; two days and spans of up to two make a day
covered or not by either of two absences; two registers of one sheet and one of
another make "replaces" differ from "stacks". `school`: two papers without a common
question make a rewritten paper differ from the one sat on, two attempts have a best
and a last, a teacher's mark of 3 is none that the quiz gives, and the ranges make
overlapping leave, a Sunday and the turn of the year happen. `sessions`: three
requests are one that begins a refresh, one that joins it and one that comes after
it. `office`: three pupils have a tie and somebody else, two types of exam and a
quiz beside them make a card of the term differ from a rank list, three requests on
templates are the two that cross and the one that would have stopped them, two users
with three calls have one call that comes after the next sign-in.

`MCServices`, `MCReconcile`, `MCSchool` and `MCOffice` run one of their services per
behaviour. The compositions themselves let every service take its turn at any time;
that this adds nothing is proved (`ServicesKeepEach`, `SchoolKeepsEach`,
`OfficeKeepsEach`: a behaviour of the composition is one of each service, and for
the two ways of payment, which do share tables, `ReconcileInvHolds`). Using the same
ids for all of them keeps symmetry cheap. They restrict what the components allow
where the product would only be large, each restriction a conjunct with its reason:
in `MCReconcile` the due of 3 is for the gateway and the second submission for the
statement; in `MCSchool` a quiz is edited or removed, not both, and neither once a
teacher has keyed a mark in, and it closes before a student comes or not at all; in
`MCOffice` a syllabus is written, or plans are pinned to topics of two courses,
three marks are given, as quizzes give them, beside the cards, or teachers' marks
and comments are written for one student, and one matter is raised. Capacity 3 of
the hostel was tried as well and passes, in minutes rather than seconds. The passing
run has `Offset` 0, where most days are covered; the theorems hold for any. What the
bounds leave open is what the theorems are for.

**Symmetry** is used where ids are interchangeable and no order on them is used;
submission and line numbers are ordered and are not permuted. `MCSessions` has none,
since it checks liveness.

### Findings

Each is a run whose one property is a sentence of the repository:

- `payments_references`: the counter is per school, `referenceId` is unique over
  all schools, and the formatted reference does not name the school.
- `gateway_lost`: the webhook does what `payments.service.ts:152-158` explains one
  must not do.
- `registers_days`: two clients spell a day differently, and nothing in between
  translates.
- `queue_parked`: the drain writes back what it read before it went to the network.
- `quiz_marked`: an answer is stored after the attempt it belongs to was graded, and
  nobody grades it again.
- `sessions_kept`: every failure to refresh counts as a refusal, that of the network
  too.

The same patterns are in the models at other places, and have no run of their
own. They are behaviours the models allow, named here for the reader of the code:

- *A check a round trip before the write, on another table.* An inventory item is
  removed after an issue (`inventory.service.ts:88`), and a room shrinks below a bed
  just taken (`hostel.service.ts:58`): the row goes, or stays beyond the capacity. A
  meeting booked between the look and the withdrawal disappears. An absence is
  approved while a register that has found nothing approved is being written
  (`absences.service.ts:30`): the child stays ABSENT. A template changes its role
  while it is being assigned, so `role-templates.service.spec.ts:97` describes one
  request at a time. Two filings of leave both fit and together do not
  (`leave.service.ts:42`), which `AllowanceHolds` bounds by one allowance for each
  filing under way; a review and a withdrawal overwrite each other
  (`leave.service.ts:110`), and a request revived that way is in no bound.
  Admissions at one moment exceed the plan's cap. A comment lands on a closed
  ticket, and pushes of two changes arrive out of order.
- *An older register wins*: one parked on the phone overwrites a correction that
  was made online since (`apps/mobile/app/attendance/[classId].tsx:87`).
- *Leave that began last year* counts in no balance once the year has turned, and
  nothing bounds the first day of a request from below (`leave.service.ts:33-38`): leave
  dated in the old year can be filed and approved after New Year without limit, one
  filing after the other. `AllowanceHolds` is about leave asked for before the end of
  the year it begins in, and leaves the other out by name (`AskedInTime`).
- *One payment, credited twice*: Stripe calls the webhook again when it saw no
  answer, and no session is remembered (`payment-gateway.service.ts:33-51`).
  `NoMoneyInvented` counts what was sent once and adds what such calls credited again:
  it shows that nothing else inflates a total, and bounds the damage.
- *An exact payment that leaves an invoice open*: when the sum of doubles falls
  short of the amount due, the webhook writes the full total with PARTIALLY_PAID
  (`payment-gateway.service.ts:42-43`), and no further session can be opened for
  what remains, which is nothing. `StatusFollowsTotal` allows exactly this.
- *A teacher's mark and a quiz's* overwrite each other in the gradebook
  (`grades.service.ts:47-74`, `quizzes.service.ts:554-579`): a mark keyed in for the
  cell of a quiz replaces the best score, and the next settlement of that student
  replaces the mark. `GradebookShowsBest` promises the best score until a teacher
  writes.
- *An unreadable queue* on the phone is taken for an empty one, and the next
  register parked replaces what it held.
- *Cards and lists*: a rank list is of one type of exam, a card of the whole term,
  quizzes included (`exams.service.ts:36`, `report-cards.service.ts:135`): with two
  exams, or a quiz beside an exam, a card need not agree with any rank list, and
  `CardsPlaceByTerm` relates the two only where the class has marks of one type.
  Students of equal percentage share a rank in the list and have different positions
  on their cards; the cards of one batch are made from marks of different moments; a
  mark stays in the list of the class it was given in; a comment asked for before a
  mark was changed is written afterwards, over whatever a teacher has written.
- *The handset's next user* receives the notifications of the one before, when a
  detachment is lost or a registration late; the clean-up after a push removes a
  token whoever owns it by then.

## 4. What is proved

All theorems are for every value of the constants that the named assumptions
allow: any number of schools, admins, families, items, rooms and so on.

`PaymentsProofs`: `TypeCorrect` (with what makes it inductive: rows refer to rows
that exist, a request past its first read is about an existing row), then by
strengthening: `MoneyCounted` (only `Verify` changes a total or a set of units, and
it adds the same number to both: `VerifyCredits`), `StatusSettled` (from an
intermediate invariant that status follows the running total, which then equals
the sum), `ReviewsOwnTheirRows` and `ReceiptsAreHonest` (together inductive,
`ReceiptInv`: past the claim a review owns its row, and totals only grow, so what
was read for the receipt stays covered), `ToldTheTruth`, `VerificationIsFinal`,
`SchoolReferencesAreUnique` (strengthened by: every reference of a school in a row
or in flight was drawn from its counter) and `LedgerImplemented` (a refinement:
`Verify` is `Accept`, every other step stutters).

`PaymentTablesCorrect` puts the shape of rows and requests together with who owns
them.

`ServicesProofs` has a part for those that lend, one for those that hand out places
and one for the school day. `UnitsOutAgree` and `CopiesAddUp` need cardinalities of
unions of rectangles (`UnitsInPlus`, `UnitsInMinus`); agreement is inductive
together with the types, and it is what shows that the decrement of a return is
never skipped. From it follow the two refinements of `StockPool`.

Of the places, `BedsAreTheirs` follows from the indexes; `FullIsTrue`, the one about the
retry loop, from an invariant on each request (`Knows`): as long as nothing was
given up since it began, after k lost attempts the lowest k beds are taken, and
past capacity there is none. `BookingsAreKept` for meetings.

Of the school day, `RegistersAreHonest` needs that an excuse read by a register in
flight still stands when it is written (`ExcusesStand`), which holds because no
step takes an approval back (`ApprovalsLast`); nothing in it depends on the
clock. `LossIsByCrossing` needs that a drain accounts for what it read
(`DrainsAccount`): a write back from an up-to-date list then removes only what has
arrived or been refused. `ServicesTablesCorrect` is of all six
at once.

`MoneyProofs` stands on `PaymentsProofs`: every review step keeps what is proved
there, and a webhook call adds. `GatewayInv` says what the call that has read an
invoice is about to write: no more than the verified claims, what other calls have
added, and its own amount (`TotalsCovered`), with a status that fits it or falls
short as named (`StatusesFit`). Both sides of the first only grow (`KnownGrows`), so
that an invoice shows no more than its claims and its handled calls although a write
may be stale (`CallsCovered`). The units of the handled calls are then told apart: those
of the first call of each session map one to one into what families sent, the
others are what was credited again (`CallsAreSentOrRepeated`), which gives
`OnlineTotalsHoldAlways`.
`LineSpentOnceAlways` needs of `BankStatement` that a matched line was imported.
`MatchesAreSoundAlways` needs `BankInv`: whatever a load has read was filed with its
school (`LoadsFiled`), and what any screen shows, however old, is a line and a
submission of one school and amount (`ScreensFit`), because no step changes either
of an existing row. `SuggestionsAreFairAlways` says that the greedy loop gives the
n-th claim of an amount the n-th line of that amount, in any set of claims and
lines. The loop is a recursive function over the submissions in order; the proof
does not compute it. One turn adds what is fair for its submission
(`OfferIsFair`), so the fair matching satisfies the loop's equation, and by the
least submission at which they could differ no other function does (`LoopIsFair`).
`ReconcileTablesCorrect` and `MoneyFromOutsideAddsUp` are about both at work: a turn
of the gateway leaves claims as `BankInv` needs them, and the bank's turn is, for the
gateway, a review or nothing.

`SchoolProofs`: `AllowanceHoldsAlways` from `LeaveInv`: of each year, what is held
and what the filings in flight seek fits the limit together (`Fits`). A filing that
meets no other was checked against a balance that, for leave of the year in which it
was asked for, counts all that is held; one that meets others adds one allowance at
most, and there are no more of those than filings at once. For quizzes `Numbering`
says that a student's attempts are numbered 1, 2, ... without a gap and at most one
is in progress, and that a number about to be opened by a start, or by one that
settles an old attempt first, has been given out already or is the next while
nothing is in progress (`OnePaperAtATimeAlways`). `Books` follows a settlement
through its five steps: the answers it has read are the answers under the attempt,
the marks it wrote are the score, the best it read is the best there is
(`MarksAddUpAlways`, `GradebookShowsBestAlways`, the latter whatever the cell held
before and until a teacher writes to it). `SchoolTablesCorrect` is of the two
together.

`SessionsProofs`: `Links` says that a request waits for the flight its tab knows of
and that a tab knows of the flight under way in it, which gives
`OneRefreshPerTabAlways`. `Untroubled` says what a session to which nothing happened
looks like: no request is failing, one flight at most holds a token, which is the
stored one and good until it is exchanged, and what it is exchanged for is good.
From it follows `SignedOutForAReasonAlways`.

`StaffRoomProofs`, lessons: the type invariant is inductive with the shape of the
requests (`LessonShape`: an author or planner past its check remembers an id that
has been given out). `PlansFollowTheSyllabusAlways` needs that a planner whose
targets were checked still has a topic of its plan's course when it writes, if the
topic is still there (`PinnedRight`): a topic never changes its course, and ids do
not come back. `SyllabusTellsTheTruthAlways` needs `TruthInv`: two requests
that do the same to the same thing muddle it, so while a syllabus is not muddled
the one that adds to it starts past all its topics, and while a topic is not, the
one that updates it knows its status.

`StaffRoomProofs`, grades: `RanksAreFairAlways` is about every list and every order in
which the database may return equals. Comparing percentages is a weak order
(`AheadOrder`); in a list sorted by it the students ahead of a place are a prefix of
those before it, all of them where the percentage changes and otherwise those ahead
of the place before (`PlacesAhead`); so the scan, a recursive function, is one more
than their number, by the same two steps as the loop above (`RankListCounts`).
`CardsPlaceByTermAlways`: a position found by searching a sorted list lies among
those of the student's equals (`PlaceAmongEquals`); a card is made from one reading of
the marks of the class it names, and as long as no mark has come in since, these
are still the marks of that class, wherever the students have gone (`PlacesKept`).
Where all marks of a class are of one type of exam, the cells of the exam and of the
term count the same rows (`OneExamIsTheTerm`), and the position is at most as far from
the rank as there are equals (`PlacesSuffice`).

`OfficeProofs`: `NobodyIsInTwoPlaces` from the indexes alone, whatever edits looked
at before; `LockedOutOnlyByCrossing` from `TemplateInv` (a change and an assignment
that overlap know of each other; a change that met no assignment suits whoever holds
the template by then); `OverCapOnlyByRacers` from `RacersFit` (those enrolled and
those on the way in together are fewer than the cap and the number of clerks
together); `MattersAnswerTrulyAlways` from `TicketInv` (of a matter that is not
doubtful at most one change is still to be told, and it tells the status);
`NotificationsFollowThePhoneAlways` from `DeviceInv` (the row is the phone's user's
from the moment a registration arrives until an unregistration does, or something
was late). `OfficeTablesCorrect` is of all seven, those of the staff room included.

The assumptions are those the modules name: constants are disjoint from the values
that mean "none", bounds are naturals, requests whose number is counted are finitely
many, and `MaxTokens` is large enough that the API always has a token to issue.
`Lessons` assumes that null is no topic, period or syllabus, `Gradebook` that pupils
and cells are finitely many, `Leave` that filings at once are, `PaymentGateway` that
sessions and calls are and that a sum with nothing is exact (`FallsShort` has no
zero).

**What induction was needed** is over numbers: `Counting` derives that a set of
numbers has a least member from `<` being well-founded, and everything else from
least counterexamples (a finite set of numbers has a bound and a greatest member,
places in an order are 1, 2, ... without a gap). That is why the two algorithms
above are written as recursive functions on finite sets of numbers and not as folds
over sequences.

**Only model-checked**: the liveness property `RequestsEnd`, since liveness under
fairness and ENABLED are out of the prover's reach, and everything under
"violated". Every invariant and action property that a passing run checks is also
stated by a theorem.

## 5. What is not modelled, and why

- *Screens, wording, layout*: the pages of the web and mobile applications, the
  components, the translations (`packages/i18n`), PDF templates, certificates,
  exports and reports. They are more than half of the repository's lines, hold no
  shared state and decide nothing that a safety property could be about, but for
  the places named in the models: the age of a screen (`BankStatement`), the phone's
  queue, its push token and the clients' stored session.
- *Schemas, types and formatting* in `packages`: where the models' inputs come from.
  (`lessons/lessons.service.ts`, which `Lessons` models, has a NUL byte in line 165;
  tools that take it for a binary file need to be told to read it as text, as `grep
  -a` is.)
- *Single-row creation and edits* that relate no two rows and no two requests:
  schools and school groups, users, teachers, classes and exams, assignments and
  their submissions, study materials, notices, broadcasts, calendar, live classes,
  transport, payroll, API keys, messages. Where one of them writes what a modelled
  service reads, the write is in that service's model (a school that is barred, a
  password that is reset, a student who changes class).
- *Read-only code*: analytics, dashboards, search, AI summaries.
- *Outbound sends* that swallow their errors: mail, SMS, WhatsApp.

The map therefore covers about a tenth of the implementation's lines: the
services that change shared state, and the clients' code where it keeps state. A
larger share would mean translating code that has nothing to check.

What could be added: an abstract register (the latest mark of a pupil on a day,
with excuses applied) that `Registers` would implement up to the approval race;
the tokens of forgotten passwords; two kinds of leave in one request.
