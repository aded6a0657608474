# styleUp backend: TLA+ models, checks and proofs

The backend (NestJS, Postgres, Redis, BullMQ) serves salon customers: they look
for shops, book specialists, pay with UPI through Razorpay and are told about it
on WhatsApp. This directory holds models of the parts whose correctness depends
on the order in which requests, workers and webhooks touch shared rows, the TLC
runs that check them on small instances, and TLAPS proofs for every instance.

## Inventory

| component | state it keeps | operations | interacts with | what is hard |
|---|---|---|---|---|
| Bookings (`modules/bookings`, `typeorm-booking.repository.ts`) | `bookings`, `booking_items`, `booking_timeline` | create, update reminder, cancel; quote, lists and confirmation only read | reminder queue, message dispatch, payments (same rows) | check-then-insert, whole-row saves of stale entities, cancel checks made outside its transaction |
| Booking reminders (`modules/notifications`) | the `booking-reminder` queue | schedule, cancel, process | bookings call it, it calls message dispatch | job removal against an active worker, retries |
| Payments (`modules/payments`, `infra/persistence/postgres/payments`) | `payments`, `payment_webhook_events` | pay, webhook captured/failed | Razorpay, bookings' rows, message dispatch | concurrent pay requests, duplicated and reordered events, version checks, stops between two tables |
| Message dispatch (`modules/messaging`) | `message_logs`, `messaging-dispatch` queue | create a log, send, write the outcome | called by the three above; MSG91 | send and write are two steps, retries |
| MSG91 delivery webhook | `message_logs` | delivered, read, failed reports | MSG91 | reports out of order, before the id is stored |
| WhatsApp inbound webhook (`modules/whatsapp`) | claims in Redis, `whatsapp-webhook` queue | accept a payload, claim and handle its events | Meta | claims made before the work they stand for, repeated payloads, jobs that start over |
| One-time codes (`auth.service.ts`, `redis-otp.store.ts`) | codes and rate-limit buckets in Redis | request, verify, resend | e-mail queue, SMS, accounts | read-modify-write of a code, three buckets counted one by one, expiry |
| Accounts (`auth.service.ts`, `typeorm-user.repository.ts`, profile update) | `users`, `user_identities` | sign-in by code, social login, change of contacts | one-time codes, sessions, Google, Apple | two first sign-ins at once, an account created and linked in two transactions |
| Sessions (`auth.service.ts`, `typeorm-session.repository.ts`, `auth.guard.ts`) | `user_sessions`, the blocklist in Redis | issue, refresh, logout, logout everywhere, purge, guard | every guarded route | rotation in separate statements, seconds against milliseconds |
| Availability and quote (`typeorm-availability.repository.ts`, `bookings.service.ts`) | none | dates, slots, quote, totals and items | bookings, shop hours, catalogue | zones, bounds of spans, the same sum computed twice |
| Discovery, shop profiles | none: static tables that operators edit | search, pins, quick booking, popular lists, profile, variants, packages | catalogue, hours | each query joins with conditions of its own |
| Rating queue (`modules/rating`) | a job per shop, `shops.avg_rating` | enqueue, recompute | reviews | a job that exists swallows the next; read and write in two statements |
| Payment methods, customer profile, health, configuration | single rows | reads, single-row updates | — | nothing that interleaves |

What makes them correct:

* a specialist's time is reserved at most once, only while it is free, and the
  slots offered are the ones a create accepts;
* a cancel is final, releases the slot and the reminder, and is on record;
* a customer is not in two places at once;
* a booking has one payment in flight, an order a client can pay stays on its row,
  and events change the payment they are about, along the state machine;
* a booking is paid and confirmed exactly when money was captured for it;
* a message log says what MSG91 said, and its job ends;
* a contact and an identity lead to one account; used and logged-out tokens are
  dead, and nothing else ends a session;
* a code that was guessed too often is gone, a limit holds for concurrent requests
  and opens again;
* an inbound event is handled once, and not silently left behind;
* a rating counts every review;
* what the app shows can be found, opened, quoted and booked at its price.

The hazards, each at its line, are in `PROJECT.json`.

## Modules

| module | models | EXTENDS |
|---|---|---|
| `BookingRows` | the Postgres rows, the two checks' SELECTs, the exclusion constraint, the inserts of a create, the creation of message logs | |
| `SlotCalendar` | abstract specification: slots reserved while free, released | |
| `ReminderQueue` | the reminder queue's producer and worker, the clock | `BookingRows` |
| `Bookings` | POST /bookings, PATCH reminder, DELETE, as processes | `ReminderQueue` |
| `Payments` | POST /bookings/:id/pay and the Razorpay webhook, as processes | `BookingRows` |
| `BookingSystem` | both over the same rows | `Bookings`, `Payments` |
| `Messages` | a message log: dispatch, its worker with retries and stalls, MSG91's reports, as processes | |
| `Paging` | ORDER BY with ties, LIMIT, OFFSET, page counts, rounding of prices | |
| `Openings` | opening hours, the dates and slots a shop offers, "open now" | |
| `BookingQueries` | the free slots and the tabs of GET /bookings, as operators on the rows | `Bookings`, `Openings`, `Paging` |
| `ShopHours` | one shop's hours while operators edit them and time passes | `Openings` |
| `Catalogue` | every query of discovery and of shop profiles, over rows that operators edit | `Paging` |
| `Quotes` | service lines, quote, total and items of a created booking | `Catalogue` |
| `RateWindow` | abstract specification: a fixed-window limit that opens again | |
| `OneTimeCodes` | request, verify and resend over Redis, one call per step | |
| `Accounts` | what an accepted code or provider token leads to; contacts of a profile update | |
| `AuthSessions` | token pairs, refresh, logouts, the blocklist, the guard, the purge | |
| `WhatsappInbound` | deliveries, their jobs, claims and handling | |
| `Ratings` | the rating job and its worker | |
| `MCBookings`, `MCPayments`, `MCBookingSystem`, `MCAuth`, `MCRedis`, `MCCatalogue` | instances for TLC | |
| `BookingsProofs`, `PaymentsProofs`, `MessagesProofs`, `AuthSessionsProofs`, `AccountsProofs` | theorems of `BookingsSpec`, `PaymentsSpec`, `MessagesSpec`, `AuthSpec`, `AccountsSpec` | the module they are about, `TLAPS` |
| `SystemProofs` | theorems of `SystemSpec` | `BookingSystem`, `BookingsProofs`, `PaymentsProofs` |
| `RedisProofs` | theorems of `OtpSpec`, `InboundSpec` and of the rating job | `OneTimeCodes`, `WhatsappInbound`, `Ratings`, `TLAPS` |
| `QueriesProofs` | theorems about what the queries answer | `BookingsProofs`, `BookingQueries`, `ShopHours`, `Quotes` |

**State.** `bookings` and `items` are functions from the ids inserted so far to
rows. All items of a booking are written together for one specialist and back to
back, so they are one item row with the booking's span; how that span is made of
items, and the prices, are in `Quotes`. `timeline` keeps the kinds of timeline rows
per booking and `messages` the message logs the flows asked for. Statuses that no
code writes (`in_progress`, `completed`, `no_show`, `refunded`) do not occur.
`users`, `identities`, `pairs` (a row of `user_sessions` with the access token
issued next to it), `otp` and `bucket` (Redis keys), `jobs` and `claimed` are such
functions too. A key with a TTL vanishes by an action of its own at any time; the
access tokens of `AuthSessions` alone are compared with a clock, because there the
code mixes seconds and milliseconds. Names, texts and images are left out.

Some variables keep what no table does and properties need: `signedIn`,
`refused` and `moved` (`Accounts`), `used`, `loggedOut` and `out`
(`AuthSessions`), `sent` and `admitted` (`OneTimeCodes`), `handled` and `lost`
(`WhatsappInbound`) and `late` (`Ratings`). No guard of the code's actions reads
them.

**Processes.** A request, a worker or a webhook delivery is an element of `Procs`,
`PayProcs`, `Hooks`, `AccountProcs`, `AuthProcs`, `OtpProcs`, `Workers` or
`Raters`; `req[p]`, `pay[q]`, `hook[h]`, `login[p]`, `act[p]`, `call[p]`,
`worker[w]` and `raters[w]` hold its program counter and what it has read and
still uses. One action is one database statement or transaction, one Redis or
queue call or one gateway call, with the early returns that follow it; the
transactions of create and cancel are one step each because the first shows
nothing before it commits and the second locks the booking's row. TypeORM's
`save` of an entity is modelled by what it does: it reads the row once more,
compares, and writes the entity's value of every column that differs
(`ReminderDiff`, `ReminderSave`, `HookSave`, `PatchDiff`, `PatchUpdate`). With
`Crashes`, `AccountCrashes`, `AuthCrashes`, `OtpCrashes` or `InboundCrashes` a
process may stop between any two of its steps: a crash, a lost connection, an
error answered with a 500.

**Queries.** Reads that are one statement are operators. A query whose ORDER BY
may tie is the set of lists the database may return, and a route's answer the set
of answers that follow, empty for a 404; the properties then speak of every answer.

**External.** The Razorpay gateway gives out orders, lets the customer try to pay
an order he was handed until one try is captured, and delivers an event per try,
in any order and any number of times. Of BullMQ the models use that adding an
existing job id does nothing, that a job a worker holds cannot be removed, that a
failed attempt is repeated up to `attempts`, and that the job of a worker that died
goes to another one once. `Dispatch` either creates a message log or fails, as its
callers see it. Meta repeats payloads at will. Edits of the catalogue, of the hours
and of `is_active`, and the writer of reviews are external too: nothing in the
service does them.

## Runs

Every run has `CHECK_DEADLOCK FALSE`: a service without requests, with its ids
used up and its clock at the bound, stops, and that is no error.

| run | instance | question |
|---|---|---|
| `bookings_slots` | 3 bookings, 2 specialists, 2 overlapping spans, 2 requests, crashes | are specialists' times exclusive and do the tables implement `SlotCalendar`; do cancelled bookings give their slots back; does the slot search offer what a create accepts |
| `bookings_reminders` | 1 booking, 2 requests, 2 options, 3 hours, 2 attempts, crashes, fairness | are reminders before their appointment, do they settle, is what looks cancelled on record, is what can be acted on in the upcoming tab and not dimmed |
| `payments_rows` | 1 booking, 2 payments, 2 orders of 2 tries, 2 pay requests, 2 deliveries, crashes | one payment in flight; payable orders stay on their row; payments end by their own events |
| `payments_applied` | as above with 1 try, 1 delivery, no crash, fairness | every capture reaches its booking and stays |
| `system_slots` | 2 bookings for one slot, cancels, reminder updates, payments, crashes | the same across both flows, late webhooks and stale writes included; no money, no confirmation |
| `messages_reports` | 1 log, 3 attempts, 3 messages, 2 report handlers, crashes, calls that take effect unheard, fairness | does a log ever say more than MSG91 did or go back, is a sent message sent again, does its job end |
| `auth_signin` | 2 requests; 2 accounts, a typed address and a made-up one, an identity with a verified address and one without any; or 2 token pairs of one user and 3 clock ticks; crashes | one account per contact and identity; used, logged-out and purged tokens |
| `redis_flows` | 2 processes; 2 codes for one contact, limits of 2 and 1; or 3 payloads that share events, 2 jobs, 2 attempts, crashes; or 2 reviews, 2 attempts; fairness | attempts, limits and codes; claims, retries and redeliveries; is every review counted in the end, and does the count fall only when a worker that lost its job writes |
| `catalogue_shown` | 3 shops, 2 specialists, 3 services, a package, 3 edits; or one shop's hours, up to 2 rows, and 7 days | do search, pins, quick booking, profile, quote and booking agree; do dates, slots and the open flag |
| `bookings_lost` | 1 booking, 2 requests | finding: a reminder update undoes a cancel |
| `payments_dropped` | 1 order, 2 tries, fairness | finding: the capture after a failed try is dropped |
| `system_late` | 2 bookings for one slot | finding: two confirmed bookings of one slot |

`auth_signin`, `redis_flows` and `catalogue_shown` each check components that
share no state: `focus`, chosen in the initial state, says which of them a
behaviour runs, so the run explores the sum of their states and not the product.

The largest is `auth_signin` with 2.4 million distinct states; the others have
between 8 500 (`payments_applied`) and 442 000 (`system_slots`).

**Why the bounds are enough.** The slot conflicts need two bookings that compete
and a third that is inserted after one of them was cancelled; two requests give
every interleaving of a check with another request's write, and a third request
could only repeat what one of the two does. Spans `[2,4)` and `[3,5)` overlap
without being equal, which the mutant that compares starts tells apart. The
payment races need a second order for the same booking (a failed payment is paid
again) and a second try of one order; two pay requests and two deliveries give
every interleaving of two. Three hours and two attempts let a reminder fire
before its appointment, fail and be retried while a cancel runs. The
composition keeps one booking request, one pay request and one delivery at a time,
because the races inside each flow are checked on their own and only those across
flows are new.

Message logs share nothing but the lookup by MSG91's id, which is unique, so one
log is enough; it has the three attempts of the producer, a message for each of
them, and two report handlers for the races between two reports. `BodyBound` is
TRUE there: the run is about `Msg91WebhookService` given the reports, as its tests
call it. The route declares its payload without `@Body()`, so in the running
service Nest hands it nothing and no report has any effect (`BodyBound = FALSE`).

Two accounts can collide in a contact only pairwise, and a sign-in that loses meets
one winner. The two identities are the two kinds socialLogin tells apart. Phones
take the paths of e-mails in other columns; the run leaves them out, and the
instance with one phone, one address and one identity (601 000 states) holds too.
A token pair and the pair it is exchanged for are enough for a rotation that races
with a logout; the clock has two parts to a second and runs past the end of a
token that lives one second. Two codes and two attempts let a resend and two wrong
attempts overwrite each other; the IP bucket is shared by the two methods, whose
limits differ. Three payloads cover an event repeated in another payload, a change
nobody handles, one whose value does not fit its field, and a malformed one; with
two jobs a payload is delivered twice. Two reviews let the second come while the
first is counted. A search result can differ from what the next query shows in a
row or two, so three edits reach every pair of rows and one more; the weekdays with
hours are the two on either side of a week's end, and seven days bring each of
them around.

**Fairness.** `BookingsFairSpec` assumes that the clock runs and that the worker
polls its queue while the service runs; nothing is assumed of requests.
`PaymentsFairSpec` assumes that the gateway sends an event until it was received
and that a delivery that started goes on; customers need not pay, and pay
requests need not arrive. `MessagesFairSpec` assumes that workers take jobs and go
on while they live; they may die at any step, and BullMQ gives up a job that
stalls a second time, so `JobSettles` needs nothing of MSG91 or of callers.
`OtpFairness` assumes that a request makes its next call and that Redis removes a
bucket whose TTL has passed; `InboundFairness` that workers poll their queue and
go on with a job they have, though they may die at any step; `RatingsFairness` the
same and that BullMQ notices a job whose worker is gone.

**Abstract specifications.** `SlotsAreReserved` shows that the booking tables
implement `SlotCalendar` (the items that are not cancelled are the reserved
slots), for bookings alone and together with payments. `LimitIsAWindow` shows that
the three Redis buckets implement `RateWindow`, where a bucket that several
contacts share has the largest of their limits.

## Findings

The three runs that end in a violation show where the code does something else
than the repository says; `PROJECT.json` quotes the line each time. In short:

1. `updateReminder` saves a whole entity without its version, so it can undo a
   cancel (`bookings_lost`).
2. A captured event after a failed try of the same order is refused by the state
   machine, and recorded (`payments_dropped`).
3. `markBookingPaid` confirms a booking whatever its status, apart from its items
   (`system_late`).

## Observations

What else the models show. The first group are definitions kept in the modules
that no run has, because they do not hold, or hold only as said; each is
reproduced by the change of a configuration named with it.

* `NoCustomerOverlap` (`INVARIANT`, in `MCBookings_slots.cfg`): `hasDoubleBooking`
  is a SELECT with no constraint behind it, so two concurrent creates book a
  customer with two specialists at once.
* `CancelledHasNoReminder` (`INVARIANT`, in `MCBookings_reminders.cfg`):
  `cancelReminder` runs after the cancel's commit and throws on a locked job, so
  the booking is cancelled and its reminder stays.
* `TransitionsAllowed` (`PROPERTY`, in `MCPayments_rows.cfg`): `markSuccess` and
  `markFailed` compare the version when they read and not when they write, so
  success and failed may overwrite each other. Likewise `PaidIsFinal`, with
  `Hooks = {h1, h2}` in `MCPayments_applied.cfg`: `markBookingPaymentFailed`
  decides on a read and then updates unconditionally.
* `SuccessReachesBooking` (`INVARIANT`, in `MCPayments_applied.cfg`) holds there,
  and with `Crashes = TRUE` does not: a delivery that stops between the payment and
  the booking is never resumed, because its event is recorded already.
* `LimitIsAWindow`, `StoredCodeWasSent` and `ExhaustedIsDropped`, with
  `OtpCrashes=TRUE` in `MCRedis_flows.cfg`: a request that stops between INCR and
  EXPIRE leaves a bucket that never opens again, one that stops between storing a
  code and delivering it leaves a code nobody was sent, and one that stops before it
  deletes a code that was guessed too often leaves it until it expires. That a limit
  is never exceeded holds with such stops too (`LimitsHold`).

The second group are facts about the code that the models contain and no property
is about:

* A message is sent twice when the write of its id fails or MSG91's answer is lost.
* A report that arrives before its message's id is stored is lost; with the route
  as it is (`BodyBound = FALSE`) every report is.
* An inbound event whose claim Redis made but did not answer, or whose worker died
  before handling it, is skipped by every later attempt (`lost`).
* A wrong attempt's write-back of a code may bring back a session that was deleted,
  or the code that a resend has replaced.
* Two concurrent refreshes with one token both succeed if both find it before
  either revokes it. Access tokens live on after a logout everywhere, apart from
  the one it was asked with.
* `socialLogin` issues tokens without looking at `is_active`; the next refresh
  refuses. An identity without an address whose first sign-in stopped before its
  link cannot sign in again, because its made-up address is taken.
* BullMQ ignores an add while a job with the id exists in any state, so a review
  that is written while the job is active, or while a failed one is kept, is not
  counted until the next (`rating-producer.service.ts:15` speaks of waiting and
  delayed jobs only). No code calls the producer yet.
* V7 says that its exclusion constraint keeps open windows of one shop, specialist
  and weekday apart; shop hours have no specialist, and NULLs never conflict, so
  they may overlap.
* Opening hours are not looked at when a booking is created, nor schedule
  exceptions and effective dates when slots are offered. `getTimeSlots` does not
  see items that cross midnight; `OfferedIffBookable` leaves such items out.
* The dates offered use the server's local weekday and the slots the UTC one: they
  agree for servers whose zone is not west of UTC (`ServerAhead` is at least 0).
* `resolveServiceLines` drops ids it does not know and ignores whether a package,
  a catalogue service or the shop is switched off; a category listed in a profile
  may have no variant; the least price on a pin ignores deleted catalogue services.
* The quote adds rounded prices and the booking rounds the sum, so they differ for
  prices that are no whole rupees; `BookingCostsItsQuote` bounds by how much.
* A search counts and pages in two queries, and lists of bookings are ordered by
  `scheduled_start` alone, so a row may move between pages.

## Proofs

`BookingsProofs` proves, for any sets of bookings, customers, specialists, spans
and requests, from the assumptions named in the modules (spans start before they
end, reminder options are positive, at least one attempt):

* `BookingsTypeCorrect`: `BookingsSpec => []BookingsTypeOK`. The type invariant
  says also that a request works on a row that exists, without which the writes of
  the later steps would not be well-formed. One lemma per operation, one case per
  action.
* `StaffTimeIsExclusive`: `BookingsSpec => []NoStaffOverlap`. It is inductive
  together with the types: only the create and the cancel transaction write items
  (`ItemWriters`), the first inserts where the exclusion constraint found the
  specialist free (`InsertKeepsStaffTime`), the second only releases.
* `CancelReleases`: `BookingsSpec => []CancelledIsReleased`. Not inductive as it
  stands, because a request may still hold a row it read; `ReleaseInv` adds that a
  cancelled status still to be written was read when the items were released
  already. TLC checked `ReleaseInv` on the instance of `bookings_slots` first.
* `BookingsImplementCalendar`: `BookingsSpec => SlotsAreReserved`. A create maps
  to `Reserve`, a cancel to `Release` or a stutter, every other step to a stutter.
* `CancelIsOnRecord`: `CancellationOnRecord`. `CancelsLogged` adds that a cancelled
  status a stale save is about to write was read after the cancel that logged it.
* `ReminderIsInTime`: `ReminderBeforeStart`. `DueBeforeStart` says the same of the
  times that requests have computed and not scheduled yet.

`PaymentsProofs` proves of `PaymentsSpec`, for any number of bookings, payments,
orders, tries, pay requests and deliveries, with stops anywhere:

* `PaymentsTypeCorrect`: `PaymentsTypeOK`, inductive with `FlowInv`. That one says
  what each program counter has established: the payment a request works on exists,
  its booking is the one the order was created for, and unless its version has
  changed the row still is as the request read it; a delivery works on a recorded
  event and with the payment of that event's order. TLC checked `FlowInv` on the
  instance of `payments_rows` first.
* `OnePaymentInFlight`, `IntentsAreRecorded`, `SettledByItsEvents`:
  `OneActivePayment`, `IntentIsRecorded`, `SettledByOwnEvent`. The partial unique
  index keeps the first where a row is inserted; no update makes a settled payment
  active again.
* `PaidIsCaptured`: `PaidOnlyIfCaptured`. `CapturedFirst` says it of every table
  a delivery writes (booking, items, timeline, message), and `FlowInv` that a
  delivery past the payment handles a capture of its booking's order.
* `PaidStaysPaid` and `PaymentsFollowMachine` assume `OneDelivery` (any two elements
  of `Hooks` are equal): with two deliveries at once `PaidIsFinal` and
  `TransitionsAllowed` do not hold (Observations).

`SystemProofs` proves of `SystemSpec`, where the booking requests and the payments
write the same rows, that the types, the three payment properties,
`PaidOnlyIfCaptured`, `ReleasedUnlessCaptured`, `NoStaffOverlap`,
`CancellationOnRecord`, `ReminderBeforeStart` and `SlotsAreReserved` hold for any
constants. It cites the lemmas of the two modules action by action and adds what
only the composition can break: a row that a reminder update holds may be older than
a capture or a cancel, so what it is going to write as paid or confirmed has
a capture behind it (`PaidInv`), and what it is going to write as cancelled has
released items or a capture (`ReleasedInv`). `SystemImplementsCalendar` maps the
confirmation of released items to `Reserve`; `ItemsHaveSpans` (an item has the
span of its booking, one of `Spans`) is the invariant this needs beyond the types.

`MessagesProofs` proves of `MessagesSpec`, for any number of logs, attempts, messages
and report handlers: `MessagesTypeCorrect`, `StatusIsReported` (`StatusHasReport`),
`DoneIsAccepted` (`DoneIsSent`), `SentIsNotRepeated` (`SendsOnlyUnsent`) and
`ReportsRaise` (`ReportsNeverLower`). `MessagesInv` carries them: a status that a log
has, or that a worker or a handler is about to write, has what it says behind it,
an accepted message or a report of the log's own message. TLC checked it on the
instance of `messages_reports`.

`RedisProofs` proves of the three flows over Redis:

* `CodesTypeCorrect`, `GuessedCodesGo` (`ExhaustedIsDropped`), `CodesAreSent`
  (`StoredCodeWasSent`) and `LimitsHold`, for any contacts, limits and number of
  requests. `CodesAreBacked` says that a code that is stored, or that a wrong
  attempt holds and will write back, was sent or has a request that is going to
  send it. `GuessedCodesGo` and `CodesAreSent` assume `~OtpCrashes`: with stops they
  do not hold (Observations). `LimitsHold` needs no such assumption; it is the
  safety half of `LimitIsAWindow`: the counter is never behind the requests admitted
  in its window (`AdmittedIsCounted`).
* `CountsGoBackLate`: `CountGoesBackLate`. One job per shop means one worker that has
  not lost its job (`RatingsInv`), and its count is one that was read after the
  count stored.
* `InboundTypeCorrect` and `EventsAreHandledOnce` (`HandledOnce`). `InboundInv` says
  that an event a worker is about to handle is claimed, not handled, and claimed by
  no other worker. The types of the events a payload is flattened into
  (`FlattenSeq`, a fold) need an induction over the length of a sequence; it is
  done by taking the shortest counterexample (`LeastNumber`), because the library's
  induction theorems take an operator as a parameter and no installed prover can
  instantiate them.

`InboundInv`, `CodesInv`, `CodesAreBacked` and `RatingsInv` were checked by TLC on
the instance of `redis_flows` first.

`AuthSessionsProofs` proves of `AuthSpec`, for any number of pairs, users and
requests, any length of a second and any lives of tokens that are at least one:

* `AuthTypeCorrect`: types; pair ids are given out in order (`Sequential`), so that
  a pair that is issued is new; and a request holds issued pairs only (`Holding`).
* `UsedTokensDie`: `RefreshTokensDie`. It needs that what a request is about to
  exchange is revoked when it issues, and that nobody works for a user who is
  logged out everywhere (`DeadBeforeUse`); and that a row that is not live never
  becomes live again (`DeadStaysDead`).
* `LoggedOutStaysBlocked`: `LoggedOutIsBlocked`. The invariant counts in parts of a
  second (`KeysEndWithTokens`: a key ends with its token); that a whole number of
  seconds has passed exactly when the quotient has reached it is `SecondsPass`.
* `PurgeSparesSessions`: `SessionsEndByRequest`, an action property, by cases.

`AccountsProofs` proves of `AccountsSpec`, for any contacts, accounts, identities and
requests, from the assumption that no phone number is an e-mail address:

* `AccountsTypeCorrect`: types, and a request works on accounts that exist.
* `ContactHasOneAccount`: `OneAccountPerContact`. The contacts alone are inductive
  with the types (`ContactsUnique`, from the two unique indexes); that no accepted
  code is refused needs `Undisturbed`: while no account was changed, the loser of a
  race finds an active winner.
* `IdentityHasOneAccount`: `IdentityLeadsToOneAccount`. `Undisturbed` says for it
  that links, and requests that are about to make one, have the account with the
  identity's address, which is one account by `ContactsUnique`.

`QueriesProofs` proves what the queries promise of the rows they read, for any
catalogue and calendar. The assumptions are that the days looked ahead are at least
one, that "any" is no specialist's name, that bookings, shops and services are
finitely many (the database counts and sorts them), and that some price and some
rating exist to fill the first rows with. The states are those of `BookingsSpec`,
of any edits of the hours (`HoursInv`: what the tables' checks let in) or of the
catalogue (`CatalogueInv`: rows keep their types); everything else is about the
operators.

* `OpenShopsHaveSlots`: `OpenShopHasSlots`. The local, the server's and the UTC
  weekday of a date agree because the zones are less than a day apart
  (`SameWeekday`), and a moment inside the hours falls into a slot (`SlotOf`).
* `OfferedIsBookable`: `OfferedIffBookable`. An item that overlaps a slot of a day
  lies in the window the search reads (`OverlapsInDay`).
* `ActionableIsShown`: `ActionableIsUpcoming`. The pages of a list together show
  every row once (`PagesShowAll`, `OnOnePage`), and what a cancelled booking held is
  free, which is `CancelReleases`: it holds because of the requests, not only because
  of the queries.
* `BookingsCostTheirQuotes`: `BookingCostsItsQuote`. A total is the last of the
  running sums (`TotalIsLastSum`; that they exist for a list of any length is
  `FoldExists`); sums of rounded prices stay within one unit per line of the rounded
  sum (`RoundedTotals`), and an item starts where the one before it ended
  (`DurationOfFirst`).
* `ShownCanBeBooked`: `ShownIsBookable`. One selected item resolves to one line
  (`OneServiceLine`, `OnePackageLine`), and the pin shows the least price of what quick
  booking offers (`PinIsLeast`), rounding included (`RoundedMonotone`).
* `FoundShopsOpen`: `FoundShopOpens`; whatever lists a shop has it approved and not
  deleted (`ListedShopsOpen`), and a category counts what it shows
  (`CountsWhatItShows`).
* `VariantsCanBeFound`: `VariantsAreFound`. A list that ORDER BY may return holds
  each hit once (`SearchLists`), and the pages cut it without a gap or a repetition.

TLC checked `HoursInv` and `CatalogueInv` on the instance of `catalogue_shown`. Where an
argument goes by induction (running sums, sorted lists, the pages before one) it
takes the least counterexample (`LeastNumber`).

Only model-checked: the liveness properties (`ReminderSettles`, `CaptureIsApplied`,
`JobSettles`, `AcceptedIsWorkedOff`, `RatingFollowsReviews` and the half of
`LimitIsAWindow` that says that buckets open again), which need fairness and
`ENABLED`. Every other property of the passing runs is proved. The type invariants
`SystemTypeOK`, `MessagesTypeOK`, `AccountsTypeOK`, `AuthTypeOK`, `OtpTypeOK` and
`InboundTypeOK` are in no run, because they are proved.

## Not modelled

* Payment methods: one SELECT of one table that nothing writes.
* Names, birth dates and avatars of the customer profile: written to a row of
  their own by single statements and read by nothing else.
* The search by name, the banner, the gallery, labels, distances as numbers: text
  and arithmetic of single queries.
* getConfirmation and getPaymentStatusForBooking: reads of one booking.
* Signature guards, the WhatsApp subscription handshake, OTP mail texts, providers'
  token verifiers, hashing: functions of their input that change no state.
* The health check, configuration, exception filter, interceptors and validation
  pipes: no state. Their limits and windows are CONSTANTS.
* Refunds, settlements and reviews: tables without code.
