# A verification project for claapo-backend

claapo-backend is a NestJS API over PostgreSQL (Prisma) with Redis and BullMQ. Production
companies create projects and book crew, cast, equipment vendors, locations and other
companies for days of them; booked parties invoice the companies; both chat. This directory
models the parts of the API whose correctness depends on more than one table, one actor or one
moment, checks the models with TLC, and proves the main results about them with TLAPS.

All paths below are relative to `src/apps/api/src/modules` unless they start with `prisma`.

## 1. The system

| Part | Source | State it keeps | What changes it |
|---|---|---|---|
| Booking requests | `bookings/bookings.service.ts` | `booking_requests` rows | createRequest, accept, decline, cancel, lock, lockAllProjectBookings, markBookingComplete, requestCancellation, respondToCancellation (requester side), respondToCompanyCancellation (target side) |
| Expiry job | `bookings/bookings-expire.processor.ts` | – | a repeatable queue job: pending rows past `expiresAt` become expired |
| Availability | `availability/availability.service.ts` | `availability_slots`: one status per user and day | bulkSet; both calendar reads, which free stale booked days; accept, agreeing to a cancellation, markBookingComplete, project update and removal write it too |
| Projects | `projects/projects.service.ts` | `projects`, roles, sub-user assignments | create, update (new shoot dates move bookings and slots), remove |
| Invoices | `invoices/invoices.service.ts` | `invoices`, line items, attachments | create, the two offline variants, update, send, cancel, decline, record payment, initiate payment, attachments |
| Webhook | `webhooks/webhooks.controller.ts` | – | a captured payment marks the invoice that names the order as paid |
| Authentication | `auth/auth.service.ts` | one-time codes, refresh tokens, a 60 s identity cache | registration, codes, login, refresh, logout, password reset |
| Notifications | `notifications/*` | `notifications`, unread-count cache | creation by every other part, read marks, the booking-created job |
| Chat | `chat/*` | conversations, messages, read marks, socket rooms | REST and socket handlers, the booking-created job |
| Profiles, sub-users | `profiles/profiles.service.ts` | users, profiles | column updates, creating, assigning and deleting sub-users |
| Equipment, properties | `equipment/*`, `properties/*` | items with quantity and own calendars | column updates, deletion |
| Search | `search/search.service.ts` | – | reads, filtered by dates, cities and pages in the database and in memory |
| Reviews | `reviews/reviews.service.ts` | `reviews`: one row per booking and reviewer | createReview; deleting a project takes its reviews along |
| Admin | `admin/*` | users' active flag | single updates |
| Storage, SMS, email, common | | Redis | external calls, cache-aside reads, wiring |

**How they interact.** Everything meets in the database: the booking engine, the calendar and
the projects service write each other's tables directly; the invoices service asks whether the
issuer is booked and the projects service whether invoices are paid. Notifications, chat
summaries and badges are effects after the fact. There are no events to be ordered except the
queue jobs and the payment webhook.

**What is hard.** Almost no handler runs in a transaction: it reads its row, checks it,
*awaits* other queries, and writes by primary key without looking again. So requests race with
each other, with the expiry job and with the webhook; a request that dies half-way leaves what
it wrote. The truth about a day is kept twice, in the bookings and in the calendar, and five
services repair or rewrite the second copy. Cancelling an agreed booking is a protocol between
two accounts of several logins each. What a login is *shown* (lists, badges, searches, sums) comes
from queries written apart from the guards that decide what it may do. PROJECT.json lists the
hazards at their lines.

**What makes each part correct.**
- *Bookings*: no resource is promised beyond capacity; nobody is bound without accepting; what is
  agreed ends only by both sides; a request settles; a row follows its lifecycle.
- *Calendar*: a person's day is booked exactly when an accepted or locked booking covers it.
- *Projects*: removing one leaves nothing behind and destroys no payment history.
- *Invoices*: paid means somebody paid at least the total; recorded sums are not lost or
  invented; what was sent stays what it was; a captured payment reaches its invoice.
- *Authentication*: a code or a refresh token works once, or as often as requests overlap on it; a
  deactivated user is out in the end, and a readmitted one is in.
- *Notifications*: the badge is right once the cache has expired; one event, one notification.
- *Chat*: only those with a place in a conversation write, read and hear in it; a booking brings
  its target a notification and a message; a message is unread until its recipient reads it.
- *Reviews*: a rating is backed by bookings that were agreed, one review of each side.
- *Search and lists*: items and cast shown as free can be had, leafing through the pages shows every
  match, and whatever a handler lets a login do, a list leads it there.

## 2. Modules

| Module | Models | Builds on |
|---|---|---|
| `BookingLifecycle` | what is promised of a booking's status, as an abstract specification | |
| `BookingRows` | the row types, the checks of the handlers and the columns they write; no variables | |
| `Bookings` | the booking engine, calendar, projects and expiry job, one request per step | `BookingRows`, `BookingLifecycle` |
| `BookingRaces` | the same handlers split at their awaits, several in flight, any of them may die | `Bookings` |
| `Search` | what the searches for equipment, properties and cast show for a city and days | `Bookings` |
| `Listings` | the lists of bookings and projects, the own calendar, the warning on a kit | `Bookings` |
| `Invoices` | invoices, payments, the webhook and the removal of their project, split at the awaits | |
| `InvoiceLists` | who is shown and may open which invoice; the sums of a project | `Invoices` |
| `Conversations` | chat, sub-users as far as chat depends on them, and the booking-created job | |
| `ChatLists` | the list of conversations, the messages, the search and the day panel | `Conversations` |
| `Logins` | users with their accounts, shared by the modules below | |
| `Sessions` | accounts, one-time codes, refresh tokens, the cached identity | `Logins` |
| `Notices` | notifications, the cached badge, preferences | `Logins` |
| `ChatSockets` | sockets, rooms, what is broadcast, pushed counts | `Logins` |
| `SearchPages` | a client leafing through a search | |
| `Catalogue` | items and windows that change under their bookings | `BookingRows` |
| `Numbering` | invoice numbers under two unique keys | |
| `Reviews` | reviews of a booking under a unique and a foreign key | `Logins`, `BookingLifecycle` |
| `..._proofs` | the theorems about `Bookings`, `BookingRaces`, `Listings` and `Search`, `Invoices` and `InvoiceLists`, `Conversations` and `ChatLists`, `Sessions`, `ChatSockets`; `Services_proofs` those about `Notices`, `Numbering`, `Catalogue`, `SearchPages` and `Reviews` | TLAPS |
| `MC...` | instances for TLC | |

`PROJECT.json` ("map") gives the lines each definition models.

### Bookings: state and actions

`rows[b]` is the row with id `b`; status `"absent"` means there is none. The columns no property
tells apart (rates, messages, role ids, addresses) are left out; `expiresAt` is the Boolean
`overdue`, set by `TimePasses`; `lockedAt` and the completion stamps are Booleans. `slot[u][d]`
is the calendar; a missing slot reads as available in the code, so it *is* available here.
`stage[p]` is the project's status. Shoot dates are a set of days: the arrays the DTOs accept may
hold a day twice, which no handler distinguishes.

Each handler is one action, with every write it makes: `Accept` sets the slots and the row,
`AcceptTooLate` is the branch that expires a late request, `CompleteByTarget` sweeps the slots
with its row, `RedateProject` moves rows and slots together, `RemoveProject` frees the slots and
deletes the rows. `AgreeToCancel` and `RefuseToCancel` stand for both endpoints that answer a
cancellation; `MayRespond` says which login each of them admits. Reading a calendar writes to it
(`HealCalendar`), as in the code. Inputs come from constants (`NewDays`, `LockDays`,
`SettableStatus`) so that instances can choose them and proofs leave them arbitrary.

Choices worth knowing:
- A project's window (start and end date) is not modelled. createRequest lets any dates through
  that pass it, so leaving it out only admits more requests.
- `RemoveProject` may be refused because of paid invoices; here that is simply a step not taken.
  The guard itself is modelled in `Invoices`.
- Users are active, and sub-user assignments are constant.
- A casting director may request on a project its company is hired onto; the code asks for an
  assignment only when the requester owns the project, and so does `MayRequest`.
- `disturbed` and `asked` (and `agreed` in `BookingRaces`) are history variables that no guard
  reads. `disturbed` collects the resource-days after an event since which the code no longer
  defends the day: a cancellation was asked for (accept ignores such a booking, refusing revives
  it), dates were rewritten in place by the project or by lock (no conflict check), or the
  target closed the booking (its slots become past work). Capacity and calendar properties are
  about the other days; what can happen on disturbed days is shown by the violation runs.

### BookingRaces

A request in flight is a record of its operation, the row *as it was read*, and the days it still
has to write. `Begin` reads and checks, `ReadSlots` and `ReadRivals` are accept's two further
queries, `WriteDay` one slot upsert or update, `WriteRow` the final update by id, applied to the
row as it is by then. markBookingComplete writes in one transaction, so it has no `WriteDay`.
`Fail` ends a request anywhere. The expiry job reads (`TickRead`) and then updates those still
pending (`TickWrite`). `createRequest` is split between its duplicate search and its insert, a
calendar read between slots, bookings and write-back. Projects are not changed here, and a
lock keeps the dates of its booking: new shoot dates are only in `Bookings`.

### Invoices

The module follows the invoices of one project. `inv[i]` holds the columns and the sum of the
line items, `orders` what the gateway knows of its orders, `hook[o]` a webhook call between its
search and its write. All updates by id are applied to the row as it is when they arrive; on a
row that is gone they fail (`Fail`). `Tax` is `computeTaxAmount` in integers. Attachments are a
count. Whether an issuer is booked is the booking engine's business, so a new invoice is always
possible; the recipient is the project's company (a billing override, the one other recipient, is
left out). The `overdue` status appears in a query of `remove` but nothing ever sets it, so it is
left out.
Numbers are in `Numbering`; PDFs, notifications and socket events are left out.

`recorded` (what was recorded by hand), `raced` (a payment written over another one), `late` (a
send or an edit that read the draft was written after the invoice had left it) and `torn` (an edit
died after deleting the lines, or ran next to another one) are history variables. They name the
races that the properties excuse: `PaidBacked` and `LedgerSound` without them would say that no
request ever meets another.

### Conversations and ChatLists

`convs` is the set of the unique keys (project and pair of participants) of the conversation rows:
the key *is* the row, since the database allows no second one. `msgs` holds client messages and,
per run of its job, the summary of a booking; `reader` says who turned `isRead` on, which the code
does not keep. `MayOpen` is the chain of grounds in createOrGetConversation, `CanAccess` is
canAccessConversation. `Open` is everything up to the double check, `Create` the insert, which the
unique or the foreign key may refuse. `Forward` and `Copy` are forwardMessage before and after its
check, so a message deleted in between is forwarded all the same. Sending and marking as read
check and write in one step: what admits a caller is never withdrawn while the conversation
exists. sendMessageToUserByUserId takes the most recent conversation; times are left out, so it is
any.

The job is split at each query of its handler. A unique-key or foreign-key failure in chat is
caught and loses the summary (`lost`); other database failures there are not modelled. `Crash`
stands for a worker that dies at any point, after which BullMQ starts the job over (once: its
default for stalled jobs), or for a process that dies while it runs the same code inline.
Accounts, assignments, bookings and the project's existence change under the chat's feet by the
handlers of other services, reduced to what chat reads of them. The role and main account of a
login never change, so the hour-long identity cache is left out. A handler does not check that its
caller is active; the model lets deactivated logins go on, as an open socket does.

`ChatLists` adds no variables: `Listed`, `Read`, `Found` and `OnPanel` are what each query shows in
a state of `Conversations`. getConversationWithUser answers with the latest conversation shared with
the other and no older one; times are left out, so `MayAnswer` is the set that the latest is in. The
day panel names partners and tells own messages in ways of its own (`PanelPartners`, `PanelOwn`).

### Search and Listings

Both read the rows and slots of `Bookings` and add no variables. `Search` has the searches for
equipment, properties and cast. The crew search is not among them: of the calendar it asks for
blocked days alone (`search.service.ts:267`), so it shows people who are booked on the days asked
for, and promises nothing about them. In `Search` days are numbers, because the searches compare
spans: a booking blocks from its first to its last day, and a job in
another city counts until `Buffer` days after it. `Covering` and `Latest` are the choice of the
city somebody is in. `Listings` has one operator per list and one per page that opens; `MayAct...`
collects the guards of the handlers of `BookingRows`, so that `WorkIsListed` compares the two.

### The service components

- *Sessions.* `request[h]` is what handler `h` has read and still has to write. A one-time code is
  read and then spent, a refresh token read and then revoked, an address looked up and then
  inserted under its unique key, an identity loaded and then cached. `Restart` ends a handler
  anywhere. `uses` counts what a secret has given (history). The id of an expired token is used
  again, so behaviours do not end.
- *Notices.* `desk[h]` is the delete of a cache key, or the storing of a count, that a request has
  not yet made. `excused` (history) marks entries whose staleness comes from a named race.
- *ChatSockets.* `rooms` pairs logins with conversations; `push[h]` is an unread count under way,
  which nobody waits for. `heard` are the events of the last step, `blurred` the accounts whose
  count is excused (both history). Conversations are there from the start, each on a project of its
  own, until the project is deleted (`gone`). `SidesOf` are their two columns as
  createOrGetConversation fills them: a sub-user, or the caller itself, may be on the other side.
  `OtherParticipant` is sendMessage's choice of whose count to push, right or wrong. `Forward` and
  `DeleteProject` change counts without pushing any.
- *Catalogue.* `BookingRows` with a quantity that is a variable: its owner changes, deletes and
  lists an item again while it is requested, accepted and given back.
- *Numbering.* A request reads the latest serial number, inserts, and on a conflict reads again, up
  to `RetryLimit`; or files a number chosen by hand. Deleting a project deletes rows.
- *SearchPages.* A visit has a fixed query; `Answer(p, pos)` is the page, `over` that there is no
  next. The queries sort by one column without a tie-breaker (`profileScore` for the crew,
  `search.service.ts:175`), and each page is a new query: so each request may get profiles that sort
  equal in another order, `pos`. `query.tied` says which are equal.
- *Reviews.* createReview query by query (`ReadBooking`, `SearchOwn`, `InsertReview`), next to the
  bookings it is about. Of these only the life is here, taken from `BookingLifecycle`, which the
  engine is proved to implement; an id serves once, and a booking that is deleted takes its reviews
  along by the foreign key. `DropPen` is an insert refused by a key, or a process that dies. Ratings
  and texts are left out. `agreed` (history) are the bookings that were accepted once.

## 3. Runs

| Run | Checks | Shows |
|---|---|---|
| `people` | `TypeOK`, `CalendarAgrees`, `LifecycleSpec` | one crew member, two bookings of two projects over two days; projects move their dates, lock widens them |
| `items` | `CapacityRespected`, `DuplicateOnlyAfterAsk`, `ItemsAndCastShownFree`, `WorkIsListed`, `WarningTrue`, `CancellationNeedsBothSides` | a kit of two units, a company and an agency that hire each other, a property, an actor: what is promised, answered, shown and listed |
| `races_single` | `ActiveDaysBooked`, `LifecycleSpec` | requests one after the other, each of which may die at any await |
| `races_pair` | `ConsentGiven`, `OverbookedByOverlap`, `JobSparesAnswered`, `OverdueSettled` | two requests and the expiry job interleaved at every await, on one booking of a person or on three requests for one unit of a kit |
| `invoices` | `TypeOK`, `PaidBacked`, `LedgerSound`, `AmountMatchesLines`, `CancelledStays`, `CapturedSettles`, `InvoiceWorkIsListed`, `StatsAddUp` | one invoice, a vendor and a company with a sub-user each, two gateway orders, overlapping requests that die |
| `conversations` | `TypeOK`, `OnlyAdmitted`, `CompaniesHaveStake`, `ListLeadsToChat`, `SearchAndPanelAgree`, `TargetIsTold` | a project, its company with a sub-user, a booked company, a vendor with a sub-user; one request and the job, which crashes, interleaved; and two projects on which the companies have talked |
| `services` | `TypesOK`, `LoginsBounded`, `AccessEnds`, `AccessReturns`, `BadgeStaleOnlyInRace`, `UnreadStaleOnlyInRace`, `HeardRight`, `MatchOncePerTie`, `RefusedOnlyWhenCrowded`, `OverbookedOnlyByLowering`, `RatingBacked` | each service component with two requests interleaved at their awaits |
| `double_booking` | violates `NoDoubleBooking` | finding 1 |
| `project_removal` | violates `RemovalFreesCalendar` | finding 2 |
| `cancel_race` | violates `CancellationNeedsBothSides` | finding 3 |
| `paid_removal` | violates `PaidInvoicesSurvive` | finding 4 |
| `read_marks` | violates `ReadByRecipient` | finding 5 |

Deadlock is not checked: a system where everyone is content, all ids are used and every request
is answered has nothing to do.

**Bounds, and why they are enough.** A conflict needs two bookings on one day (three for two
units); a wrong release of a day needs a second day that must stay. Two projects are needed for
two bookings of one person, since a project books a person once. Every status and every handler
is reached.

`items` keeps each behaviour to one *shape*, chosen at its start, so that the spaces add up
instead of multiplying: *units* (two units of a kit, three requests), *sides* (a company with a
sub-user, an agency it hires and that hires, with a sub-user assigned to nothing: every role
relation an answer to a cancellation distinguishes), *place* (one property), *items* (kit and
property, three days, out of town: spans with a gap and the days after a job; completions,
refusals of requests and expiry are left to the other shapes), *cast* (an actor and her calendar).

`services` keeps each behaviour to one component, or one side of one: who may register, codes,
tokens and the cached identity under suspension; badges and preferences; pages; units and windows;
numbers; rooms and pushes. Two handlers give every pair of overlapping requests; three logins are
a main account, its sub-user and a stranger; two codes or two tokens let one be spent while the
other is tried; windows of one recent code make "too old to be looked at" happen with two; four
profiles, any of which may sort equal to the one before it, and pages of one or two give first,
middle, last and empty pages, ties within a page and across two, and more than the three pages per
role of the directory; two units, three projects, two days let units be lowered under
accepted bookings; numbers up to three, two projects and two tries let a request be refused for
each reason; one booking with three ids for its reviews lets both parties review it, try twice, and
lose their reviews with it (reviews of different bookings never meet: both keys name the booking).
In *leaving* only the stranger's account is suspended, while others' tokens and
cached identities come and go; *numbering* has its two requests work for different projects, and
*pushing* has messages sent by REST only: how a message came does not change the count. It follows
one conversation at a time: of two accounts, of a main login with a sub-user of another account, or
of an account with itself.

`races_single` leaves `CapacityRespected` out: it needs three bookings to be at risk and is proved
for one request at a time (`SerialCapacity`); `items` checks it for whole handlers. In `races_pair`
(`MCRacesPair`) a behaviour is about one of two contests: *person*, where two requests and the job
on one row give every pair of overlapping handlers, a third adding no new kind of stale read; and
*unit*, where the three bookings are pending requests of three projects for the only unit of a kit
and are accepted, locked and withdrawn. Two of these accepts at once promise the unit twice, which
is all `OverbookedByOverlap` allows for two requests, and the third must be refused. `RaceTypeOK` is
proved (`RacesTyped`). In `invoices` two logins on either side suffice for every race of two
payments, of two edits, or of an edit with a send; a behaviour has three of the four logins
(`team`), at most two requests are in flight (`InFlight`), and there is a second order only where
the company has two logins to ask for it. The theorems of `Invoices_proofs` need none of these
bounds. Two subtotals make an edit that changes the amount, two orders an overwritten one. Tax at 18
% makes totals of 12 and 24 from 10 and 20; a partial payment is 12. In `conversations` the race
that loses a summary needs one request and the job; a second conversation gives forwarding a target
the caller may have no access to; the third account is the one that has no stake. Requests name the
booked company as the other side (`Named`), the sub-user of the owner is the login that is
deactivated or deleted (`Suspendable`), and users open one conversation (`MaxConvs`), next to that
of the job. `MCSpec` adds a second start, `Acquainted`, to the empty one: the booking has ended, and
the owner has talked to the booked company on each of two projects and the booked company to the
owner's sub-user, so that a partner is shared by two conversations and one is named by a sub-user.
From the empty start the second project is gone.

*Symmetry* is over bookings, projects, days (and workers): no handler depends on their identity
(the owner of all projects is the same company, and day sets offered as inputs are closed under
permutation). It is not used where liveness is checked. The *view* of the serial runs
identifies states that differ only in what no other step and no property reads: the columns of
closed rows, `doneByRequester`, and the calendars of companies and providers, which the
conflict check of accept never consults.

**Fairness.** `WF(ExpireTick)` (`TickRead`, `TickWrite` when split): the job is a BullMQ repeatable
job, installed when `QUEUE_ENABLED` is set; `OverdueSettled` is checked with the flag on, and
nothing is said of it off. `WF(HookRead)`, `WF(HookWrite)` per order: the gateway repeats a webhook
call until it gets a success, and the controller fails when the handler does. `WF(JobStep)` per
booking: a BullMQ worker takes what is queued, and an inline run goes on until its process dies.
`SessionsFairness`: a handler that has read goes on to write (or is ended by `Restart`), a cache
entry reaches its 60 s and a refresh token its expiry; that is what makes suspension take effect in
the end. `SessionsSpec` has the same fairness. Apart from that, no user, and no request in flight,
is ever obliged to go on.

## 4. Findings

1. *A refused cancellation double-books.* accept counts accepted and locked rivals only. While
   a cancellation is pending, the calendar read frees the day, another booking takes it, and
   then the refusal puts the first booking back unchecked (`double_booking`).
2. *Deleting a project leaves days booked.* The sweep in `remove` skips bookings whose
   cancellation is pending (`project_removal`). A later calendar read repairs it.
3. *One side cancels an accepted booking.* `cancel` checks "pending" on the row it read and
   updates by id (`cancel_race`).
4. *A project with paid invoices can be deleted.* `findFirst` may return an unpaid sent invoice,
   which passes the test meant for paid ones (`paid_removal`).
5. *A message is marked as read by its sender's side.* markAsRead spares only the caller's own
   messages: when a sub-user has written, its main account's glance at the conversation clears
   the unread mark before the recipient has seen it (`read_marks`).

Seen while modelling and not kept as runs, since no text of the repository promises the contrary or
the case is a smaller one of those above:

- *Bookings*, with two requests in flight: two concurrent accepts of bookings for one day both
  succeed (`CapacityRespected`, `LifecycleSpec` and `DuplicateOnlyAfterAsk` fail in `BookingRaces`
  with two workers). For a unit of an item the harm is bounded: one booking too many for each
  further request in flight (`OverbookedByOverlap`). For a person no bound is stated: while one
  accept is between its slots and its row, a calendar read frees the days it has written, and accept
  counts rivals only where a slot says booked. An accept that checked the expiry in time overwrites
  the job's "expired"; a calendar read frees a day an accept has just booked. An agency whose hire
  on a project has ended can still lock the bookings it made there, but not open the project.
- *Invoices*: two payments recorded at once lose one of them (that is why `LedgerSound` mentions
  `raced`). An edit that read the draft may be written after the invoice was sent, ordered for and
  paid, and then its total is no longer what was paid; a send that read the draft brings a cancelled
  invoice back (`late`). Two edits at once leave the lines of both under the total of one (`torn`).
  Asking for payment again overwrites the order on the invoice, and the webhook of the first order
  then finds none (`CapturedSettles` is about the order the invoice names). The properties excuse
  these races and so do not cover them. An invoice settled by the webhook keeps its `paidAmount`,
  and counts neither as paid nor as owed in the project's sums (`StatsAddUp` says when they add up).
  A sub-user that is not assigned to the project may decline an invoice or record a payment that no
  list shows it. A number chosen by hand that is the next serial number blocks automatic numbers
  until its invoice goes (`RefusedOnlyWhenCrowded`); deleting a project frees serial numbers for a
  second use.
- *Chat*: createOrGetConversation tells a sub-user that it talks to its own account; a message sent
  by REST reaches everybody in the room with the sender's `isSameAccount`; pushed counts go to the
  main login's room only, include messages of the account's own sub-users, and are not sent when an
  account clears its own sub-users' messages, when a message is forwarded, or when a project is
  deleted with its messages, although `chat/chat.gateway.ts:192` says of the push that it "replaces
  polling" (`UnreadStaleOnlyInRace` names each of these); in a conversation that names a sub-user
  the count is pushed to the wrong side or to nobody, and the day panel may name that sub-user as
  the partner of its own account; with several shared projects, asking for the messages with a
  partner reaches the latest conversation only; the search through messages finds nothing of the
  account's conversations for a sub-user; a booked company sees every conversation of the project on
  the day panel.
- *Notifications*: declining an invoice clears its alert behind the cached badge, which shows it for
  up to 30 s more; preferences that a request leaves out are dropped.
- *Authentication*: the address check ignores removed accounts while the unique keys count them, so
  that such a registration fails in the insert.
- *Search*: the crew search shows people who are booked on the days asked for; profiles that sort
  equal may come on two pages, or on none, where they spread over a page's end (`MatchOncePerTie`
  promises a match once only where all its equals are on one page); pages of the crew search by city
  or dates are cut before the filter, so that pages come out short and matches are missed
  (`PagedAfterFiltering` in `MatchOncePerTie` leaves them out); the
  directory shows at most three pages per role; a kit of several units disappears from a search
  after its first booking; a property searched with one date is shown although it is booked.
- *Items*: deleting an item leaves its bookings standing without an item; two edits of a window at
  once may leave it ending before it begins (each edit is one step here).

## 5. Proofs

Each theorem holds for any values of the constants that satisfy the named assumptions of the
modules. They say what the schema or the handlers that create the rows guarantee: a sub-user has its
main user's role, items belong to providers, projects to main accounts, one side of a conversation
is a main login, nobody books their own account; a table holds finitely many rows
(`InvoiceListsAssumption`, `CatalogueAssumption`, `ReviewsAssumption`), finitely many requests are
in flight (`WorkerAssumption`), `None` is no user, message or conversation
(`ConversationsAssumption`), and a date column has finitely many values (`SearchAssumption`). What a
theorem assumes beyond these stands in its `ASSUME`.

| Module | Theorem | States |
|---|---|---|
| `Bookings_proofs` | `TypeCorrect`, `NoOverbooking`, `CalendarFaithful` | `TypeOK`, `CapacityRespected`, `CalendarAgrees` |
| | `ImplementsLifecycle` | `LifecycleSpec`: the engine implements `BookingLifecycle` |
| | `BothSidesCancel`, `DuplicatesExplained` | `CancellationNeedsBothSides`, `DuplicateOnlyAfterAsk` |
| | `JobSettlesOverdue` | `OverdueSettled`, given `[]JobCanRun`, with the queue on |
| `Listings_proofs` | `WorkListed`, `WarningsTrue`, `ItemsAndCastFree` | `WorkIsListed`, `WarningTrue`, `ItemsAndCastShownFree` |
| `BookingRaces_proofs` | `RacesTyped`, `NobodyHeldUnasked`, `JobTakesNothingBack` | `RaceTypeOK`, `ConsentGiven`, `JobSparesAnswered`, for any number of requests in flight |
| | `OverbookingBounded` | `OverbookedByOverlap`, for any number of requests in flight |
| | `RacesSettleOverdue` | `OverdueSettled`, for any number of requests in flight, given `[]TickCanRun`, with the queue on |
| | `SerialCapacity`, `SerialDays` | `CapacityRespected`, `ActiveDaysBooked`, for one request at a time |
| | `SerialLifecycle` | `LifecycleSpec`, for one request at a time without the expiry job |
| `Invoices_proofs` | `InvoicesTyped`, `PaidIsBacked`, `LedgerIsSound` | `TypeOK`, `PaidBacked`, `LedgerSound` |
| | `LinesAddUp`, `CancelledStaysSo` | `AmountMatchesLines`, `CancelledStays` |
| | `CapturedSettle` | `CapturedSettles`, given `[]HookCanRun` |
| | `InvoiceWorkListed`, `StatsAgree` | `InvoiceWorkIsListed`, `StatsAddUp` |
| `Conversations_proofs` | `ChatTyped`, `ChatAdmits`, `NoProbing` | `TypeOK`, `OnlyAdmitted`, `CompaniesHaveStake` |
| | `TargetToldInTime` | `TargetIsTold`, for one or two runs of a job, given `[]JobCanGoOn` |
| | `ListsLead`, `QueriesAgree` | `ListLeadsToChat`, `SearchAndPanelAgree` |
| `Sessions_proofs` | `UsesBounded` | `SessionsTypeOK` and `LoginsBounded` |
| `ChatSockets_proofs` | `HearsRight`, `CountShownTrue` | `SocketsTypeOK` and `HeardRight`, `UnreadStaleOnlyInRace` |
| `Services_proofs` | `BadgeTrue` | `NoticesTypeOK` and `BadgeStaleOnlyInRace` |
| | `NumbersGiven` | `NumberingTypeOK` and `RefusedOnlyWhenCrowded` |
| | `AcceptNeverOverbooks`, `PagesComplete`, `ReviewsBacked` | `OverbookedOnlyByLowering`, `MatchOncePerTie`, `RatingBacked` |

*Bookings.* `IInv` is the conjunction of `TypeOK`, `CapacityRespected`, `CalendarAgrees` and
`AskedDaysDisturbed`: a booking under a cancellation request has its days disturbed. Neither
safety invariant is inductive without the others. accept looks at the rival bookings of a
person only if one of the days' slots says booked or blocked, so capacity rests on the calendar
being right; refusing a cancellation brings an active booking to days whose slots may have been
freed or given away, so both rest on those days being disturbed. The proof has one step per
action. An action that makes one booking active adds one user to the days of its resource
(`FS_AddElement`), and accept's check, or the free slot, makes the count before it smaller than
the capacity; every other action leaves the users of an undisturbed day as they were or makes
them fewer (`FS_Subset`). `DuplicatesExplained` needs that a booking under a cancellation request
was asked to be cancelled (`AskedRecorded`): it is the one that createRequest overlooks.

*The lifecycle.* A refused cancellation puts a booking back where `lockedAt` says it was, so the
refinement needs that the stamp agrees with the status (`StampsAgree`). `RowStep` lists what an
action may do to one row, and `RowFollows` maps each case to a step of `BookingLifecycle` or a
stutter; removing a project ends many bookings in one step, which the abstract step allows.
`BothSidesCancel` needs that requester and target act for different main accounts and that a
cancellation request has an author on one of the two sides (`SidesApart`).

*Lists and searches.* `RowsFit`: a booking's project exists, and its item is one of its target's.
With that and `SidesApart`, each guard of a handler is traced to the query that lists the row
(`WorkListed`), and the warning's count to accept's (`WarningsTrue`). `ItemsAndCastFree` follows
from `IInv`: the searches compare the first and last day of a booking with the window asked for, so
a booking that holds a day of the window overlaps it; a cast member's days are told by the calendar,
which agrees with the bookings where it is undisturbed.

*BookingRaces.* `FlightOK` says of each request what its stage and its operation imply; types need
no more. `ConsentInv` adds that a request that writes the status of an agreed booking began on one,
and that an agreed booking never becomes pending again: lock, a cancellation request and a refusal
write over whatever the row holds by then. The guarantees of the serial engine do not survive two
requests at once (section 4), so they are proved for one worker: `SerialInv` says that what the only
request in flight has read is still so (`Current`), but for what the expiry job may have written;
that the days an accept has yet to write have room; and that the days it has written say "booked". A
death at any await leaves an invariant that asks nothing of the dead request. For the lifecycle the
job must be off: with it, an accept that checked the expiry in time overwrites "expired".

*How far overlaps overbook.* `OverlapInv` counts as `Claimed` the bookings that hold an item's day
together with those that an accept past its count, or a lock, may yet make hold it (`MayTake`).
A lock begins on a booking that holds its days already. An accept joins the claims of a day only
when it has found fewer bookings there than the item has units, and the claims that are not bookings
at that moment belong to the other requests in flight: so there are always fewer claims than units
and requests together (`OverlapCount`). A write turns a claim into a booking (`OverlapWrite`); the
other steps claim nothing (`NoNewClaim`). What makes a booking active without a count, refusing a
cancellation, does so on days that are disturbed, because a cancellation was asked for; and a row
keeps its item and its days while a request that read it is in flight (`Known`, `Stays`), since in
`BookingRaces` nothing moves the dates of a row. The bound is sharp: in *unit* two accepts reach it.

*Liveness.* The prover applies the rules of weak fairness but cannot evaluate ENABLED. So each
liveness theorem has the one fact about ENABLED that it rests on as a hypothesis: the job can run
when a request is overdue (`JobCanRun`, `TickCanRun`), the two halves of a webhook call can run when
there is something to find or to write (`HookCanRun`), a job that is not over can go on
(`JobCanGoOn`). They say that a guard implies a step, and no cfg lists them; TLC confirms each of
them when it is added to the INVARIANTS of `BookingsPeople.cfg`, `RacesPair.cfg`, `Invoices.cfg`
and `Conversations.cfg`. What is proved is the argument about interleavings: that nothing
other than the step itself ends the waiting except by reaching the goal, and that the step reaches
it. For the split job that is the list it has read: an overdue request is either on the list or is
read when the list is written and empty (`TickMoves`). For the booking-created job, `RunInv` says
what a stage implies (the target is told before the conversation is looked for, and a summary is
posted only where there was a conversation), `StageMoves` that every step keeps a run in its stage,
takes it on, settles the matter or starts the next run, and `RunEnds` follows by fairness. The
number of runs is left to the case of BullMQ's default, at most two: a longer chain of runs needs an
induction inside a temporal formula.

*Invoices.* A handler decides on what it read and writes later, so `MoneyInv` says of every request,
order and webhook call in flight what of its read is still true: a payment being recorded fits the
total it read, that total is still the invoice's unless an edit came late, an order is over its
invoice's total, and a webhook call is about a captured order. Each request's write has a lemma of
its own (`RecordKeeps`, `EditKeeps`, `PayKeeps`, ...). `LinesInv` says how far the only edit of an
invoice has come and what its lines are at that point.

*Invoice lists and sums.* `InvoiceWorkListed` compares the guards with the queries in any state
(`ActsAsParty`). `StatsAgree` needs that sums add up (`SumRules`, `SumMonotone`), for the fold of
the community modules over any finite set. The fold is recursive over subsets; that it equals any
function that adds up (`SumAdds`), and that there is one (`SumExists`), is shown by looking at a
smallest set where it fails (`SmallestOf`).

*Conversations.* `OnlyAdmitted` (`AccessInv`) needs that whoever has a forward in flight still has a
place in its target, or that its project is gone: access is taken away only with the project, and
no conversation of a removed project comes back. `CompaniesHaveStake` (`StakeInv`) needs that an
`open` in flight has a stake, and that a job that has started has a booking: a booking leaves its
row behind however it ends. `ListsLead` needs that every message has a login as its sender
(`SenderInv`), and that a partner outside the account is the same in every conversation shared with
it (`PartnerNamed`). `QueriesAgree` needs `SenderInv` and `AccessInv`: search and panel look for
messages by participant and by project and ask nothing about access, and agree with the chat because
conversations go with their project and whoever wrote in one has a place in it.

*Sessions.* `UsesInv` counts the requests that have read a secret and not yet marked it together
with the uses it has had: the sum never exceeds the number of handlers, and an unspent secret has
had no use. Nobody joins those requests once one of them has marked it, and a code that was not
sent is neither used nor held (`Sealed`).

*Notices.* A count under way that is not late equals the rows; an entry that differs from the rows
is excused or has a delete coming. The step proofs follow the one box an action writes to.

*ChatSockets.* `SocketsInv` adds that whoever is in a room may enter the conversation, that a push
about to be emitted and not late carries the right count, and that a login without a socket was
shown nothing. `WroteStep` covers everything that changes messages, once for all four handlers: a
number that moves belongs to somebody who gets a push or is excused. That this is so of a message
between two accounts is the point (`SentStep`, `ReadStep`): the others' numbers stay
(`CountsElsewhere`), and sendMessage's comparison picks the receiving account (`PushedToOther`). In
the conversations it picks wrongly for, everybody who moves is excused.

*Numbering.* `CrowdInv`: a request at its k-th try has seen k - 1 invoices of others inserted, and
one more if its number is taken by an automatic one, unless it met a number chosen by hand.
`LargestSerial` shows that the latest serial number is the largest, so that a number read after it
was free then.

*Catalogue.* Only accept makes a booking active, and it counts the others against the units of that
moment; `AcceptNeverOverbooks` is a statement about steps, since units may be lowered at any time.

*SearchPages.* On one page stand the matches whose rank in that request's order (how many matches
come before them) lies in the page's range. Whatever the order of equals, the rank of a match is
between the number of matches before all of its equals and the number up to the last of them; so it
can only come on the pages these ranges meet, and comes on the page that holds them all. `Shown`
counts this page by page. Ranks are numbers from 0 without a gap, which is shown by looking at a
least counterexample.

*Reviews.* `ReviewsInv`: a review, stored or on its way, is by one party of an agreed booking about
the other, and the only stored one of its booking and reviewer. So the map from a user's reviews to
their bookings is an injection, and there are no more of the one than of the other.

*Model-checked only.* `AccessEnds` and `AccessReturns`: the handlers that still hold an old
identity, and the tokens that still admit a suspended account, have to run out one after the other,
which is an induction over their number inside a temporal formula. The facts about ENABLED named
above. `TypesOK` of `services` is the conjunction of the components' type invariants, each of which
is part of the invariant proved of its component. `CapacityRespected`, `ActiveDaysBooked` and
`LifecycleSpec` do not hold with two requests in flight, so that there is nothing to prove beyond
one. Induction over data by the library's theorems that take an operator as a parameter is out of
the provers' reach; where it was needed (sums, pages) a least counterexample takes its place. No
module uses recursive operators.

## 6. Not modelled

Storage, SMS and e-mail (external calls without state), what the crew search shows (it asks the
calendar only for blocked days; its pages are in `SearchPages`), the latest of several
conversations, column updates of profiles, listings of the administration, PDFs and summaries of
received payments, the list of notifications, typing and pins, project roles and the billing
override. Filters on names, skills, rates and looks narrow a result and are left out of the
searches. The seeds under `prisma/seeds` fill a development database.

What remains to be done: edits of windows and pins split at their awaits; the items of a profile's
work showcase.
