# RainWood: a TLA+ model of the booking engine

RainWood is a hotel booking engine: a NestJS API over PostgreSQL (`src/backend`),
a Next.js front end (`src/frontend`) and a worker inside the API process. This
directory models the parts of it where several requests, editors or late answers
meet over shared state, checks them with TLC on small instances and proves with TLAPS, for
instances of any size, the safety and action properties the runs check but five (section 4
names them): rooms, money, documents, banquets, the outbox, prices, plans and the two pages.
Paths below are relative to the repository; `.../x.service.ts` stands for
`src/backend/src/modules/x/x.service.ts`.

## 1. The system

| component | state it keeps | operations | interacts with | hard because |
|---|---|---|---|---|
| Inventory ledger (`holds`, `reservations`, `hotels`, `axisrooms`) | `InventoryDay` rows: available, held, sold, groupBlocked, stopSell; holds; reservations and their nights | hold, expire, convert, cancel, rewrite the allotment | groups (same rows), worker, channel manager | counters must equal sums over records owned by others; three ways for a hold to leave; retries |
| Groups (`groups`) | group status, blocks and their nights, rooming list | block, resize, confirm, release, cancel, pickup, lifecycle sync | ledger, stays | block arithmetic over many orders; status written from a stale read |
| Stays and rooms (`reservations`, `housekeeping`, `maintenance`, `hotels`) | stayStatus, room assignments, `Room.status`, tasks, tickets | check-in, room change, check-out, no-show; accept/start/complete/cancel of tasks and tickets; management overrides | each other through `Room.status`; groups; night audit | five writers of one status, partly outside transactions |
| Payments and wallet (`payments`, `wallet`, `reservations`) | attempts, payments, webhook events, wallet balance and its transactions | orders, checkout verification, webhooks, manual and offline payments, recalculation, refunds | gateway (events lost, repeated, reordered), reservations, cashier shifts | idempotency across three paths to the same credit |
| Outbox worker (`jobs`, `reconciliation`) with `vouchers` | `OutboxJob` rows, sync status, vouchers | claim, deliver, retry, dead-letter, recover a lease, reconcile, release expired holds | channel manager, mail, vouchers, holds | a crash between doing a job and recording it; retries out of order |
| Folio, cashier shifts, night audit (`reservations`, `guest-services`, `supplementary-charges`, `cashier-shifts`, `night-audit`) | folio charges and orders, settlement, shifts, closed days | post, void, pay, verify, settle, open, close, close the day | payments, stays, tax documents | totals read while rows are added; charges posted outside the transaction that settles them |
| Tax documents (`tax-documents`) | invoices, credit notes, sequences | issue, cancel, credit, TDS | settlement, payments | status and totals read and written apart |
| Banquets (`banquets`) | events, functions, spaces, event orders (BEO) | create and edit each, finalize | none | only some of the writes are under the lock of the space |
| Rates (`rate-master`, `hotels`, `axisrooms`, `availability/rate-resolver`) | daily rates, category rates and periods, assignments of categories | grid, periods, bulk calendar, channel rates, imports; resolve | search, agent's rate book | five editors of one row; two resolvers of the same rows |
| Rate plans (`hotels`, `agents`, `users`) | plans, their assignments to room types, the agents that may book by them | create, rename, activate, remove; give to and take from an agent | search, rate book, catalogue | one read before the transaction, another in it, rows of two owners |
| Quotes and terms (`availability`, `common/agent-payment-terms`) | payment points of a booking | place a party, spread a discount, schedule, allocate payments | booking page, payments | cents; computed twice, by page and server |
| Booking page (`frontend/.../BookingFlow.tsx`) | form, rooms found, hold, reservation, order, busy flag | search, hold, submit, pay | holds, reservations, payments, rate book | answers late and in any order, holds expire under it |
| Banquet page (`frontend/.../BanquetsData.tsx`) | the event shown, the function chosen, a draft of each order, its dirty mark | open, edit, save, finalize, acknowledge, switch | banquets | late answers choose the tab and the function; drafts outlive the events they were made from; another desk |
| Auth; operations logbook, expenses; agents, corporates, guests, staff, users; inquiries, contact, files, site settings, features; reports, dashboards, forecast; other pages | rows of their own | edits, projections | read by or reading the above | see section 7 |

How they interact: every service shares one database. Most operations on rows run in a
`Serializable` transaction (`common/transactions.ts` repeats them on a serialization failure)
and lock the rows they change with `SELECT ... FOR UPDATE`; those are single actions here. The
exceptions are modelled as the code has them, in several steps: `syncLifecycle`, the rooming
list, the webhook's event ledger, slips recorded from a stale balance, the five writers of
`RoomOps` that read first and write later, charges and voids of a folio, cancellation and
credit of an invoice, event edits and finalized orders of banquets, the edit of a category's
assignment, everything on rate plans, the steps of an outbox job, the generation of a voucher,
and every request of the booking page and of the banquet page. Callbacks go one way: stay
operations and cancellations call the group synchronisation after their commit; the worker
calls `releaseExpired` before it takes jobs; requests enqueue jobs in their own transaction.

What makes each component correct: the ledger's counters are the sums of what their owners
have and never exceed the allotment; groups never take or give a room twice and a closed group
keeps none; a room has at most one party in it and a status that says so; money credited
equals money received, once; a job done is in effect, whatever crashed, and the channel
manager never falls back; a drawer holds what was put in it, and a payment is in one day; a
settled invoice leaves nothing to collect; a space has one function at a time; an agent one
rate plan of a hotel, all of it; a night one price, which is the one that was saved, searched
and listed; a quote's parts add up; the booking page shows what it holds and confirms what is
confirmed; the banquet page takes nothing for saved that is not.

## 2. Modules

| module | what it is |
|---|---|
| `RoomCount` | totals of rooms as cardinalities (no recursion, so that they can be proved about) |
| `BookingLedger` | abstract: claims on rooms, held, sold or gone, that never exceed the stock; no counters |
| `Inventory` | the ledger as the code has it; implements `BookingLedger` |
| `GroupBlocks` | groups, EXTENDS `Inventory` and adds the group operations to its next-state relation |
| `Payments` | gateway orders, webhooks, slips, the agent's wallet and the amounts of reservations |
| `RoomRegister` | abstract: who is in which room, which rooms are on offer; no statuses, tasks, tickets |
| `RoomOps` | `Room.status` and everybody who writes it; implements `RoomRegister` |
| `Outbox` | the jobs of one booking, the worker, its vouchers and what the channel manager heard |
| `Folio` | the money of one stay: charges, orders, payments, shifts, checkout, audited days |
| `TaxDocuments` | EXTENDS `Folio` by the stay's invoice and credit notes |
| `Banquets` | events, functions, spaces, event orders, and the clerks who edit them |
| `RatePlans` | plans of a hotel, their assignments to room types, the agents that have them |
| `RateBook` | rates of a plan and categories of an agent, the search's and the rate book's resolution |
| `PaymentTerms` | functions: milestones, schedule, allocation of payments, the page's own sum |
| `Quotes` | EXTENDS `PaymentTerms`: one request from quote to last payment |
| `BookingFlow` | the booking page with the part of the server it talks to |
| `BanquetDesk` | the banquet page with the event orders of the server and another desk |
| `MC*` | small instances; `MCRates` explores `RateBook` and `Quotes`, `MCBanquets` `Banquets` and `RatePlans`, and `MCWallet` the wallet's `Payments` and `BanquetDesk`, side by side: they share no variable |
| `LedgerProofs` | lemmas on totals; accounting and refinement of the ledger (`Inventory`); blocks and rows agree, and who may oversell (`GroupBlocks`) |
| `PaymentsProofs` | what reservations and the wallet show is what was paid |
| `RoomOpsProofs` | types, parties apart, occupancy, housekeeping, refinement |
| `OutboxProofs` | vouchers, and what the channel manager hears |
| `BackOfficeProofs` | drawers, audited days, documents (`Folio` and `TaxDocuments`) |
| `BanquetsProofs` | types; one clerk at work, and several |
| `RatesProofs` | one price a night, search and rate book (`RateBook`); one plan an agent, codes (`RatePlans`) |
| `PagesProofs` | the booking page (`BookingFlow`) and the banquet page (`BanquetDesk`) |

### Inventory

State: `inv` (rows), `holdStatus`, `lapsed` (holds past `expiresAt`), `nights`
(rooms of a hold's lines on each row; a converted hold and its reservation are
one booking and keep them), `res` (`Reservation.status`), `usedKeys`
(`CancellationRequest.idempotencyKey`, unique). One action per operation:

| action | code |
|---|---|
| `CreateHold` | `HoldsService.create`: lock, clear stale holds on the locked rows, quote on the cleared rows, test each night against the row *as locked*, guarded increment |
| `Lapse` | the clock passes `expiresAt` |
| `ReleaseExpired` | `release(id, 'EXPIRED')`, from the worker and from `get` |
| `ConvertHold` | `ReservationsService.createFromHold` (an agent's wallet may confirm it at once) |
| `ConfirmPaid` | `PaymentsService.recalculateTx` and due milestones, as far as the status goes |
| `Modify`, `MarkNoShow`, `Cancel` | the same names in `ReservationsService` |
| `SaveInventory`, `AxisInbound` | `HotelsService.saveInventory`, `AxisRoomsService.inbound` |

The table's CHECK (`0002_post_deploy_constraints`) is a guard of every write:
a transaction it refuses rolls back, and is a step that does not happen.

Abstractions: a hold has at most one line on a row; prices, guests, vouchers, the
audit log and the money of a cancellation are left out; `release(id,'RELEASED')`
has no caller; the worker's `take: 100` is a matter of several ticks; statuses no
code writes (`HELD`, `EXPIRED`, `COMPLETED`, ...) do not occur. `modify` of a
pending or already modified reservation changes nothing here. A stay's status is
not in this module, so `MarkNoShow` asks less than the code.

### GroupBlocks

State added: `group`, `block` (no block, draft, `inventoryCommitted`), `blocked`,
`pickedUp`, `released` per block and row, `entry` (rooming list; `CHECKED` is a
request that has tested the capacity and not yet written), `stay`, and `syncing`,
the status a `syncLifecycle` has computed and not yet written. Reservations
created by pickup are the members of `Entry` in `Inventory`, which cancels and
modifies them like any other.

`Pickup` may take a room from any committed block of the group with one left; the
code takes the oldest, and refuses a stay whose nights would mix rate plans. A
block night that does not exist is a night with no room blocked. Check-in and
check-out are here as far as `syncLifecycle` reads them: whether a physical room
is free is left open. At most one synchronisation of a group is between its read
and its write (bound). Dates and the spreadsheet import are left out.

### Payments

State: of a reservation `status`, `stay`, `payStatus`, `advance`, `balance`, `due`; of every
order, slip, draw (a payment from the wallet) and payment at check-out (`Till`) its `amount`,
attempt and payment record; `untold` (the payments at check-out that no later write of the
amounts has taken in); `wallet`, `credits` (recharge transactions), `refunded`; the gateway's
`captured` and `declined`; the events' `hook` status, the requests `handling` them
and those `answered`. A sum of amounts is a cardinality.

| action | code |
|---|---|
| `BookByWallet`, `BookUnpaid` | `createFromHold` as far as money goes |
| `MilestoneFallsDue`, `PayDue` | the payment terms' clock, `payDueMilestones` |
| `CreateOrder`, `VerifyCheckout` | `createOrder`, `createWalletRechargeOrder`; `verifyCheckoutPayment`, `verifyWalletCheckoutPayment` |
| `ReceiveEvent`, `ProcessSuccess`, `ProcessFailure`, `ProcessingFails` | `webhook`: the event is written first, then processed in a transaction that may fail |
| `BeginSlip`, `RecordSlip`, `VerifySlip` | `manual`, `submitOffline`, `submitOfflineWalletRecharge` (read, later write), `verify`, `verifyOfflineWalletRecharge` |
| `CheckIn`, `CheckOut`, `RecordCheckoutPayment` | the same names in `ReservationsService`: a payment at the desk is verified at once and writes neither advance nor balance; what a stay owes on top is at most `Extras` |
| `Cancel` | `ReservationsService.cancel`: refund, wallet part, payment status |
| `Decline`, `Capture`, `Restart` | external: the gateway, the API process |

Events may be lost (never received), late, repeated (`copy`) and reordered. Prices,
signatures, mails and the mock provider are left out; what a late cancellation
costs is nothing, the first night or everything. A booking may cost nothing: it stays
PENDING_PAYMENT. Of a payment at check-out the mode is left out (finding 50).

### RoomOps

State: `room` (`Room.status`), `reservation`, `stay`, `assigned` (the active
assignment of each booked room of a line), `task`, `ticket`, and `inFlight`, the
requests between their read and their write. A serializable transaction or a
conditional `updateMany` is one action: `CheckIn`, `RoomChange`, `CheckOut`,
`Cancel`, `Modify`, `AcceptTask`, `StartTask`, `CompleteTask`, `ReportIssue`,
`BoardSetsStatus`, `CreateTicket`, `AcceptTicket`, `StartTicket`, `ResolveTicket`,
`CancelTicket`, `TakeRoomOutOfOrder`. `updatePhysicalRoom`, `assign` and `cancel` of
a task, `assign` of a ticket and `markNoShow` are a `Read` and a later `Write`; the
last one's version test is modelled by dropping the request when `Cancel` or
`Modify` raise the version (`BumpVersion`) - `CheckIn` does not. `EnsureTasks` is
`ensureTaskForDirtyRoom`, its ON CONFLICT included.

A closed task or ticket nobody refers to gives its identity to the next one, so
two identities stand for any number of them over time. `Overlapping = FALSE` makes a
request that has read write before anything else happens; the properties that need
it (`StatusIsTrue`, `ImplementsRegister`) say so. The others name instead the steps they
except: `WritesStale(r)`, a write to the room of a request whose test no longer passes, and
`Overrides(r)`, that or a status set by hand over open work. All rooms start AVAILABLE
(`createPhysicalRoom` may create one in another status). Left out: who is assigned, dates (any stay may arrive; `Meeting` says
which overlap), whether the balance lets a guest go, room types, the `active` flag.

### Outbox

State: `booking` (version, status, syncStatus), `jobs` (status and attempts of each
row), `voucher` (by version), `worker` (the batch it claimed, the job it is on, how far
it got, what it read), `desk` (a voucher generated on request), `channel` (the version
the channel manager heard last).

| action | code |
|---|---|
| `Modify`, `Cancel`, `MarkNoShow` | the reservation's transactions as far as version, syncStatus and outbox go |
| `EnqueueReconcile`, `RetryJob` | the two controllers' upserts |
| `Tick` | abandoned leases become FAILED, open jobs are claimed |
| `Start`, `Deliver`, `Record`, `Succeed` | `process`: the payload is read, pushed, the sync status or the mail job written, the row marked |
| `Fail`, `RecordFailure` | the catch branch, from any point; a lost answer is a failure after `Deliver` |
| `Crash` | the process ends with jobs claimed |
| `DeskGenerate` | `VouchersService.generate`, read and write |

A booking begins with its push pending, its voucher's job, or both (as `createFromHold`
leaves it). A backoff is left out (a failed job may be due at once, or any time later); so are the
limit of ten jobs a claim and a worker that outlives its lease of ten minutes.

### Folio and TaxDocuments

State: `stay`, `settlement`, `charge` and `order`, `payment` (amount, cash, shift,
verified, the day it was paid), `balance`, `shift`, `day`, `closed` (the payments each
audited day counted), `requests` (between their read and their write), `invoice`,
`credited`. A charge is one unit, the room `RoomTotal`.

| action | code |
|---|---|
| `ReadCharge`, `WriteCharge` | `postFolioCharge`; supplementary charges post the same way |
| `ReadVoid`, `WriteVoid`, `WriteVoidOfOrder`, `Lose` | `voidFolioCharge`, which may be cut between its writes |
| `CreateOrder`, `VoidOrder` | `GuestServicesService` |
| `PayAtCheckout`, `PayManually`, `Verify` | `recordCheckoutPayment`, `manual`, `verify` with `recalculateTx` |
| `CheckOut` | `checkOut` with the settlement's snapshot and its override |
| `OpenShift`, `CloseShift`, `CloseDay`, `NextDay` | cashier shifts, night audit, the hotel's date |
| `Issue`, `ReadCancel`, `WriteCancel`, `ReadCredit`, `WriteCredit` | `TaxDocumentsService` |

Requests overlap freely. `manual` tests the balance before its transaction
(`payments.service.ts:274`) and is one step here; `Payments` has the two.

### Banquets

State: `event`, `fn` (functions), `available` (spaces), `beo`, `staff` (who is at work),
`desk` (each clerk's request between read and write). `ReadEvent`/`WriteEvent` are
`updateEvent`, `ReadFunction`/`WriteFunction` create and update a function (the second
half under the advisory lock of a space and day), `ReadFinalize`/`WriteFinalize`
`finalizeBeo`; the rest are one step each. TENTATIVE, CONFIRMED and IN_PROGRESS
functions are treated alike by the code and here.

### RatePlans

State: `master` (the hotel's plans: code, active), `plan` (the assignment of a plan to a
room type: code, active, has rates), `sold` (active room types), `access` (an agent's row
of an assignment), `task` (the request each editor has under way), `crossed` and
`reopened` (what a property has to exclude).

| action | code |
|---|---|
| `createRatePlanMaster`, `ReadMaster`/`updateRatePlanMaster`, `deleteRatePlanMaster` | the same names in `HotelsService` |
| `ReadForAssignment`, `ReadAssignment`, `createRatePlan` | what `assignRatePlan`, `updateRatePlanAssignment` and `createRatePlan` read or create before their transaction |
| `FindAgents`, `propagateAgentAccess`, `assignInactive` | that transaction: the agents of the plan are read, then their rows written |
| `CountDependencies`, `deleteRatePlanAssignment` | the count, then the removal |
| `assignAgentHotelRatePlan`, `mapRatePlans`, `FindOthers`, `switchAgent`, `removeAgentHotelRatePlan` | `UsersController`, `AgentsService` |
| `saveRates`, `updateRoom` | as far as a plan's removal and an agent's access depend on them |

`updateRatePlan` and `copyRatePlan` are sequences of these requests. Meal plans, names
and channel ids are copied with the code and stand behind it. What was removed is not
created again (bound).

### RateBook

State: `mapping` (assignments of a category of a hotel to an agent), `canonical` (has the
plan a master of kind CANONICAL_MEAL), `band` (periods of a category), `daily` (a category's rate of a night), `day` (the public row: amount, base,
double, override), `desk` (an assignment edit between read and write). `CreateMappings`
stands for create, bulk create and renewal; `ReadMapping`/`updateMapping` for the update,
whose transaction holds the lock of the hotel it writes to and tests again;
`UpdateBand`, `UpdateRack`, `GridRack`, `GridCategory`, `ChannelRate`, `BulkRates`,
`importRatePlanRates`, `SavePricebook` (`saveRates`) and `EditMealPlan` (a plan's master
changes kind) are one
transaction each; `BulkRates` reads its rows just before its own
(`hotels.service.ts:769`). `HotelRateImportService` writes as the grid does; the rates
`copyRatePlan` copies are left out. `RackPrice`, `Resolved` and `Offered` are what the search
says of any active plan, `Listed` what the rate book says, of canonical ones only.
Amounts are those of a double room and categories A-E are one.

### PaymentTerms and Quotes

`PaymentTerms` holds the functions of `agent-payment-terms.ts` in cents, hundredths of a
percent and half days. `Quotes` takes a request through `QuoteSelection` (party in rooms,
discount over nights), `Book` (the terms' points are fixed), `Pay` and `NextDay`.

### BookingFlow

State: `page` (what React keeps), `url`, `rateBook`, `calls` (requests under way),
`checkout` (the payment window), `holds` and `bookings` of the server. The user's clicks
are actions named as the handlers; `Serve` is the server's part, `Land` the answer or the
failure, which comes at any time: a closure of the page uses the values of the render
that sent the request. `mode` says whether the user is an agent, whether the user waits
while the page is busy, and which payment provider is configured. A guest whose stay costs
nothing (`Free`) goes from submission to the confirmation (`Costless`, line 606). An agent's
hotel picker is open at every step, `ShowTariff` is also the Back of the agent's summary, and
`Dismiss` is a payment window closed or a payment in it that failed. The rate book's effect
ignores answers to older questions, as the code's `active` flag does. The party and
amounts are left out; wallet bookings have the money.

### BanquetDesk

State: `shown` (the event and its orders as last loaded, the function chosen, the tab, a draft
of each function looked at, the dirty marks, busy), `order` (the server's), `sent` (requests
under way, each with the steps it still has to take and what the page showed when it was
sent), `waits` (does the editor wait for every answer?) and `parted`, the functions of which
the page cannot know what is saved: another desk changed them, an edit or a second write
overtook a request, a late answer chose a function of another event (`Strays`), or the page
turned to an order that was created meanwhile by a request whose answer was lost (`Missed`).

| action | code |
|---|---|
| `openEvent`, `clickTab`, `selectFunction`, `ensureBeo`, `saveBEO`, `finalizeBEO`, `updateRequirement`, `updateDraft` | the handlers of these names, to their first `await` |
| `changeEvent`, `changeFunction` | `updateEvent` and `changeStatus`, `saveFunction` and `cancelFunction`: here, requests that open the event again |
| `DeskServe`, `OtherDesk` | `BanquetsService`, one step a request |
| `eventLand`, `patchLand`, `postLand`, `otherLand` | what the handlers do after each `await` |
| `DeskFail` | a request fails before or after the server did it; a failed opening is caught in `openEvent`, and what called it goes on |

An order's contents are one text and one acknowledgement, and `rows` counts how often its
requirements were written anew, since a save gives them new ids. Left out: the list, spaces,
links, the forms of event and function, `createEvent`, printing, and orders of cancelled
functions. `finalizeBeo` reads the requirements before its update (`banquets.service.ts:164`);
that is one step here and two in `Banquets`. The buttons of an event's status are on every tab.

## 3. Runs

| run | instance | shows |
|---|---|---|
| `inventory` | 3 holds of 1..2 rooms, 1 row, allotment 0..3 | types and CHECK; `held` and `sold` are the sums of their owners; a hold in time can always be converted (`HoldsAreHonoured`, an ENABLED property); every step is a step of `BookingLedger`, so nothing comes back once gone; expired holds leave `held` |
| `inventory_double_cancel` | a client key | **violated**: `SoldAccounting`, finding 1 |
| `group_blocks` | 1 group, 2 blocks, an entry of 1 or 2 nights, a public hold, 2 rows of at most 1 room | `RowsMatchBlocks`: `groupBlocked` is what committed blocks have left, `sold` what reservations have, no deficit hidden by `Math.max`, a cancelled group keeps nothing; a pickup takes each room once and is never short of inventory that was not cut; only a cut oversells a row |
| `payments` | 1 reservation of 2 units, one of them due at booking; 2 orders of the balance, one with a failed first try; a manual payment and one taken at check-out, up to 1 unit more owed by then | `advance` and `balance` are what verified payments add up to, whatever the order, but for payments at check-out that nothing has taken in since; a late payment revives no cancelled reservation |
| `wallet_banquet_page` | 2 recharges, a booking and its milestone by wallet; and an event of 2 functions, another event, 2 requests under way, 6 acts of an editor who waits for every answer, 4 of one who does not, 1 act of another desk | `WalletIsSound`: never overdrawn, every unit accounted for, paid means confirmed, the wallet gets back no more than it paid; each recharge credited once, and at most once more where a try of it failed; `DeskIsHonest`: a draft without changes is what is saved, and an order is shown as it was loaded; `EditsAreKept`: changes stay, and stay marked, until they are saved |
| `rooms` | 2 stays, 2 rooms, 1 task, 2 tickets; one request at a time; management closes rooms but does not reopen them by hand | `StatusIsTrue`: a room is OCCUPIED exactly by one booked room of a stay in house, an active task is in a room that is dirty or being cleaned, a blocked room stays out of order until its last blocker closes; the desk implements `RoomRegister` |
| `rooms_races` | 2 overlapping stays, 2 rooms, 2 tasks, or a stay, a room, 2 tasks and 2 tickets; any status set on the board or requested, a slow writer | overlapping stays never share a room, stays in house have their rooms, a cancellation is not undone, one active task per room; `OnlyStaleWritesPart`: a room's status tells who is in it, and each step is one of `RoomRegister`, until a stale write; `OnlyOverridesUndoWork`: it agrees with tasks and tickets until somebody overrides them |
| `outbox` | 1 worker, 2 versions of a booking, 2 vouchers, 2 attempts, 1 fault | `ChannelCaughtUp`: when the pushes are recorded as done the channel manager has the latest version; it never goes back; one live voucher, mailed; every job ends (`OutboxDrains`) |
| `back_office` | 2 charges (1 ordered), 2 payments of 1..2 units, 1 shift, 2 days, 2 requests at once on the first day and 1 on the second (a note or a cancellation meets others of a stay settled by one payment) | `FolioIsSound`: a closed drawer matches its cash, no payment is in two days; a voided order is not charged; `DocumentsAgree`: nothing is left to collect of a settled invoice, and its credit stays within its lines but for notes and cancellations that overlap |
| `banquets_plans` | 2 events of 1..2 days, 2 functions, 1 space, 2 overlapping times, 1 or 2 clerks, 4 requests; and 2 plans, 2 room types, 2 codes, 1 agent, 1 or 2 editors, 3 requests | `OneClerkIsSafe`: spaces, dates and final orders; with two clerks a space is shared only through the late reopening of a closed event; `AgentsHaveWholePlans`: an agent has one plan, on every room type it is assigned to, in whatever order both came about; an assignment has its plan's code |
| `rates` | 2 hotels, 2 assignments, 2 administrators, 2 nights, 3 edits; and some 2,500 requests of up to 4 nights, 4 guests, 3 points | `OnePriceANight`; what the search offers of a canonical plan is in the rate book at that price; a saved public rate is the one sold; `RequestAddsUp`: rooms, nights, points and payments |
| `booking_flow` | 2 stays, one of them free, 1 hotel (in the rate book for one of them), guest or agent, both providers, up to 6 clicks of a patient guest, 5 of a patient agent, 4 of a user who does not wait | `PageIsConsistent`; a confirmation is earned; the page never stays busy without a request that will release it |

Bounds. Three holds are one stale, one rival and one newcomer; an allotment from 0 to the
number of rooms wanted gives full, short and spare rows; two rows are enough for a request
some of whose rows fail, and two blocks of one room for a pickup that mixes them. In
`Payments` an amount is at most 2 units (paid in part, in full, too much) and a success is
reported up to twice, and one payment at check-out meets each other kind before and after it;
in `RoomOps` one slow request at a time is enough for a write that is
stale by any number of steps, and two tickets for a room that one of them must keep closed (with
tickets about, the second stay and room, cancellations and tasks' reports are left to the run
`rooms`; without them, one of the two stays is neither modified nor closed). In `Outbox` two versions give a push that is overtaken by the
next, two vouchers a race between desk and worker, two attempts a retry and a dead letter. In
`Folio` two charges give one of each kind, two payments a whole and a partial one, two days a
payment on the border, two requests a note that another overtakes. In `Banquets` two functions are the least that clash, and four requests
reach: place both, close, reopen late. In `RatePlans` three requests reach: give a plan,
extend it, switch; a stocked hotel saves the first of them, and two editors overlap in every
pair of requests. In `RateBook` three edits reach: switch off, give away, switch on again; two nights give overlapping, touching and separate periods; in
`Quotes` the families were chosen so that shares round up and down, a night is free, terms
fall due before the booking and out of order, and rooms overflow. In `BookingFlow` six clicks
of a guest, or five of an agent, lead through search, hold, submission and payment with one
step back; a user who does not wait gets four. In `BanquetDesk` six acts lead through open,
create, edit, save and finalize, or through an edit, a switch with its save and back; four
without waiting are enough for an answer that lands on a page two steps further. Deadlock is
checked in every run of the ledger, the groups and the rooms (the allotment can always be
rewritten, a status be set again); the others may stop, when everything is paid, every job
done, or a bound on requests, edits or clicks is used up.

Fairness. In `Inventory` only `ReleaseExpired` is fair (`FairSpec`): the worker's interval
(`JobsService.tick`) calls `releaseExpired` on every tick and takes expired holds oldest
first, so each is reached as long as the worker runs. In `Outbox` the worker's `Tick` and
`Work` are weakly fair, because the interval timer fires again after whatever a tick did;
crashes and other faults are bounded. No request is assumed to happen.

## 4. Proofs

All theorems are about the specifications the runs check, for any number of rows, holds,
rooms, payments, workers and so on, from the assumption each module names (finitely many
identities, disjoint kinds of them). A hypothesis beyond that stands in the theorem and is
named here, with the case that it excludes.

Sums. An induction over owners or payments is not available to the prover, so every sum is the
cardinality of a set of units: `RoomsOf` in `RoomCount`, `Sum` in `Payments`, `Units` and
`Total` in `Folio`, `Sum` in `TaxDocuments`. Lemmas give the sum of one owner, of disjoint
unions, of an owner joining, leaving or changing; the accounting proofs cite them.

**Ledger** (`LedgerProofs`)

* `TypeCorrect`: types and CHECK.
* `HeldCorrect`: `held` equals the rooms of the active holds. Inductive as it
  stands with `TypeOK`: what clearing stale holds subtracts is
  `min(rooms, held)`, which by the invariant is `rooms`.
* `HoldsCovered`: an active hold's rooms are held on each of its nights and may become sold
  there. It is the guard of `ConvertHold`, which `HoldsAreHonoured` states by ENABLED.
* `SoldCorrect`: `sold` equals the rooms of live reservations **when clients send
  no idempotency keys** (`ClientKey = {}`). The strengthening is `SoldInv`: no
  booking is claimed twice (`OneClaim`) and a cancelled booking has used its
  default key (`CancelOnce`), which is what stops a second cancellation. Without
  the assumption it is false: that is the run `inventory_double_cancel`.
* `LedgerImplemented`: under the same assumption every behaviour of `Inventory` is
  one of `BookingLedger`, with a booking's claim computed from its hold and
  reservation status; each action maps to `Take`, `Settle`, `Restock` or a stutter.
* `HotelNeverOverbooked`: claims never exceed the allotment.

**Groups** (`LedgerProofs`; `ClientKey = {}`, since cancellations of picked-up rooms go
through the ledger)

* `RowsAndBlocksAgree` (`RowsMatchBlocks`) and `PickedUpOnce` (`PickupAccounting`). They hold
  only together: the inductive invariant `GroupInv` is their conjuncts with the types, `SoldInv`,
  that an entry has a reservation exactly once it was picked up, of one room a night
  (`EntryClaims`), that a block not yet added has no rooms (`FreshBlocks`), and that what was
  picked up and released never exceeds what was blocked (`HistoryFits`), so that no `Math.max`
  ever hides a deficit.
* `BlockedRoomsCanBeSold`: a room left in a block passes the test of the row, unless the row
  was cut below what it owes; the guard of the pickup, for `PickupNeverShort`.
* `OnlyCutsDo` (`OnlyCutsOversell`): every other operation leaves a row with no less than it
  owes; an action property, from `GroupInv` before and after the step.

**Payments and wallet** (`PaymentsProofs`)

* `AdvanceCorrect` (`AdvanceAccounting`), with client keys or without, bookings of nothing
  included: `advance` and `balance` are what all verified payments come to but the `untold`. `PayInv`
  adds that what was paid is confirmed (`PaidIsConfirmed`, of bookings that cost something), that an
  order not created has neither payment nor credit nor capture (`OrdersOpened`), that what pays for a
  reservation pays for one that exists (`Booked`), and that an event being handled was sent and
  written (`InFlight`).
* `CancelledForGood` (`CancelledStaysCancelled`): each of the paths that write a status
  keeps CANCELLED.
* `RechargesCredited` (`CreditedOnce`): a recharge is credited at most once, or twice if a try of
  it failed, whatever the gateway repeats or reorders. The invariant `CreditInv` ties each credit to
  the record it leaves (the attempt's success, the slip's approval) or to the failure that undid it.
* `WalletSound` (`WalletIsSound`) for `ClientKey = {}` (finding 13): `WalletInv` adds that
  nothing was given back for a reservation no request has cancelled (`RefundOnce`) and never
  more than was drawn (`RefundWithinPaid`), with which the balance of
  credits, refunds and draws (`WalletAccounting`) is inductive.

**Rooms** (`RoomOpsProofs`)

* `TypeCorrect`: types and the unique index on active tasks. Opening tasks
  (`EnsureTasks`) keeps it because only rooms without an active task get one.
* `PartiesApart` (`OnePartyPerRoom`) and `StaysHoused` hold **whatever requests
  overlap**: check-in and room change compare the assignments themselves, so a
  stale status offers an occupied room and still nobody is put into it. Both are
  inductive with the types; only three operations move guests (`StaySteps`).
* `ClosedForGood` (`ClosedReservationsStayClosed`), whatever requests overlap: the invariant
  `NoShowsAreCurrent` says that a no-show which has read and not yet written finds the
  reservation confirmed, because `cancel` and `modify` raise the version it compares.
* `OccupancyKept` and `RegisterKept`, together `RoomsKept` (`OnlyStaleWritesPart`), **whatever
  requests overlap** and whoever edits rooms: every step is one of the desk's three or sets the
  status of an empty room from and to something other than OCCUPIED, or it is a stale write
  (`DeskOrStatus`); the desk's map to `Enter`, `Move` and `Leave` of the register, the other to
  `Offer`. They say of every step what `StatusIsTrue` and `ImplementsRegister` say of runs in
  which no request overlaps another.
* `WorkHolds` (`OnlyOverridesUndoWork`), whatever requests overlap and whatever status is set
  by hand: from a room that agrees with its guests, tasks and tickets only an override leads to
  one whose tasks or tickets disagree. An active task needs its room dirty or being cleaned, and the
  proof goes through each writer of the status and each writer of a task or ticket.

**Outbox** (`OutboxProofs`)

* `VouchersKept` (`VouchersInOrder`) for any number of workers, with failures and crashes
  anywhere. `OutboxInv` says what a worker between two writes holds (`HandInv`): jobs that
  exist, versions that exist, and a voucher with its mail once it was recorded.
* `ChannelHearsAll` (`ChannelCaughtUp`) and the action property `ChannelOnlyAdvances`
  (`ChannelNeverGoesBack`) for **at most one worker**, which is how the process is run
  (finding 15 says what two do). `ChannelInv` relates the payload a worker has read to what
  the channel has heard: not more at the start of a delivery, at least that after it; a job of
  version n reads n or newer, since the payload is read when it is delivered and not when it
  is enqueued. That is why retries out of order do no harm.

**Folio and documents** (`BackOfficeProofs`)

* `FolioSound` (`FolioIsSound`) with all requests overlapping. `BackInv` has a part for each
  owner of state; `Standing` says what is left true of what a request has read when it comes to
  write (a row does not go back to "none", a voided charge of an order is not posted again),
  and `DayInv` that the payments of an audited day are of that day, so that no two days count one.
* `NothingLeft` (`NothingLeftForTds`), with all requests overlapping: a settlement
  was paid when it was made, verified payments only grow, and the invoice is for what was settled.
* `OvercreditsExplained`, and with `NothingLeft` `DocumentsSound` (`DocumentsAgree`), with all
  requests overlapping: a note or a cancellation finds its room when it reads (`ArrivingFinds`), a
  charge, void or payment never takes it away (`StandingStep`), and one that writes with its room
  still there stays within the invoice (`NoteWithin`, `CancelWithin`).

**Banquets** (`BanquetsProofs`)

* `BanquetsTyped` for any number of clerks; `BTypes` adds what each request between its read and
  write refers to.
* `OnlyReopeningDoes` (`OnlyReopeningClashes`), for any number of clerks: placing a function
  under the lock of its space takes none that is held, whatever was read before.
* `OneClerkSafe` (`OneClerkIsSafe`): `AloneInv` says that the one clerk's request is about the
  event and the functions as they are (`Current`). One clerk is the property's own condition,
  not a hypothesis; with two it is false (finding 23).

**Rates** (`RatesProofs`, on `RateBook`)

* `RatesStayApart`, that the following rest on: `RateInv` has the types, that two assignments
  of a hotel, and two periods of a category, that are active share no day (`MappingsApart`,
  `BandsApart`), and that what an administrator is about to write has its dates in order
  (`WritesOrdered`). An edit tests the dates when it writes and not when it reads, which is
  what makes the invariant inductive for any number of administrators at work.
* `OnePrice` (`OnePriceANight`): two rows apart leave at most one that covers a night.
* `SearchedAndListed` (`SearchedIsListed`): the two resolvers agree where the search offers a
  canonical plan; of the others see finding 49.
* `SavesTakeEffect` (`RackSavesTakeEffect`): an action property of the two editors it names.

**Rate plans** (`RatesProofs`, on `RatePlans`)

* `PlansHold`: `PlansInv` has what each editor's request knows between its read and its write
  (`Tasks`), that an assignment has its plan and an agent books by assignments, and the two
  properties. A request that meets another on the same agent or plan makes it `crossed`, by
  the property's own terms; of one that does not, what it read is still so when it writes.
* `WholePlanOrNone` (`AgentsHaveWholePlans`) and `CodesFollow` (`CodesFollowTheMaster`). The
  assumption that no agent is an assignment keeps the two kinds in `crossed` apart.

**Booking page** (`PagesProofs`, on `BookingFlow`)

* `FlowHolds`: `FlowInv` says that every hold, booking and order that the page, the payment
  window or a request under way names exists (`PageRefs`, `CallRefs`); what the server has done
  for a request that was served; that a hold becomes one booking (`Server`); that a user who
  waits has one request under way (`OneAtATime`); that a page that is busy has one at all.
* `PageHolds` (`PageIsConsistent`), `ConfirmationHolds` (`ConfirmationIsEarned`) and `BusyHolds`
  (`BusyIsReleased`), for any number of stays, hotels, clicks and requests under way, however
  late or out of order answers come. The first is stated for paths that no answer to `/hotels`
  crosses (finding 35), the second for a user who waits (finding 38); those are the
  properties' own conditions. A confirmation is earned by the server's, by a proof of payment,
  by terms that leave nothing due now, or by a stay that costs nothing (findings 39 and 48).

**Banquet page** (`PagesProofs`, on `BanquetDesk`)

* `DeskHolds`: `DeskInv` adds to the two parts of `DeskIsHonest` that what was seen of an
  order that has no draft yet is what is saved (`PageFresh`, and `Fresh` for the orders a
  request carries); that a draft on its way is the page's, or the untouched proposal of an
  order of which nothing is saved (`Saves`); that one request at a time writes an order
  (`OneWriter`); that the function chosen is of the event shown (`Chosen`). All but for
  functions in `parted`.
* `HonestDesk` (`DeskIsHonest`) and the action property `EditsHold` (`EditsAreKept`), for any
  number of requests under way, editors that wait or not, and other desks.
* The proof found a path longer than the run's bounds on which an order is shown without having
  been loaded (finding 42): `Missed` excepts it.

Only model-checked:

* rooms while requests do not overlap: `StatusIsTrue`, `ImplementsRegister` (what is proved says of
  every step what these say of a whole run);
* liveness: `ExpiredHoldsLeave`, `OutboxDrains`;
* ENABLED: `HoldsAreHonoured`, and `PickupNeverShort` of `PickupIsHonoured`: their guards are
  proved above, and so is the rest of `PickupIsHonoured` (`PickedUpOnce`);
* what the folds of `PaymentTerms` and `Quotes` compute for all inputs (induction over data):
  `RequestAddsUp`.

## 5. Findings

One has a run:

1. A second cancellation with another key gives the rooms back again
   (`reservations.service.ts:732`; `reservation-state.ts` lets a status reach itself).

These were met while modelling. Where a property is named, it is stated in the
module, and TLC finds it violated once it is named in the configuration, changed as
said; the others are readings of the source that the models take over as it is or
leave out.

Rooms, groups and payments:

2. `syncLifecycle` overwrites a cancellation with the status it had computed before
   (`groups.service.ts:89`): `CancelledIsFinal` in `GroupBlocks.cfg`.
3. The late failure of a customer's first try reopens a recharge that succeeded and
   its success credits it again (`payments.service.ts:229`). `CreditedOnce` bounds it: once more,
   whatever is repeated. With a bound of 1 for every recharge TLC refutes it in
   `PaymentsWallet.cfg`.
4. A check-in between the read and the write of a no-show leaves a no-show with a room
   (`reservations.service.ts:193`): `NoShowsHaveNoRoom` in `RoomOpsRaces.cfg`.
5. A hold request is refused by the held rooms of holds it has just expired
   (`holds.service.ts:36`): `StaleHoldsDoNotBlock` in `Inventory.cfg`.
6. A check-in between the read and the write of a room's edit leaves an occupied room
   with another status (`hotels.service.ts:116`): `InHouseRoomsAreOccupied` in
   `RoomOpsRaces.cfg`. Only such writes do: `OnlyStaleWritesPart`.
7. Management reopens a room that a ticket blocks (`housekeeping.service.ts:208`;
   RAINWOOD_DEMO_GUIDE.md:290): `WorkMatchesRooms` in `RoomOps.cfg` with
   `BoardStatus <- AnyStatus`. Work and rooms part in no other way than this one, an edit of
   the room's data or a stale write: `OnlyOverridesUndoWork`.
8. Management sets a room CLEANING past its task (`housekeeping.service.ts:210`;
   housekeeping-integrity.ts:13-14): `CleaningHasItsTask` in `RoomOps.cfg`.
9. A stale assignment reopens a completed task (`housekeeping.service.ts:180`):
   `DoneTasksStayDone` in `RoomOpsRaces.cfg`.
10. Two concurrent rooming-list requests both pass the capacity test
    (`groups.service.ts:289`): `RoomingListFits` in `GroupBlocks.cfg` with two entries.
11. A webhook whose processing failed is answered as a duplicate when it is sent
    again (`payments.service.ts:208`): `AnsweredIsRecorded` in `PaymentsWallet.cfg`.
12. The late failure of a first try sets a paid reservation's payment status to FAILED
    (`payments.service.ts:246`): `PaidStaysPaid` in `Payments.cfg`.
13. A second cancellation refunds the wallet again (`reservations.service.ts:732`):
    `WalletIsSound` in `PaymentsWallet.cfg` with a client key.

Outbox:

14. A no-show sets syncStatus PENDING and enqueues nothing, and reconciliation takes only
    CONFIRMED reservations that are FAILED or PENDING: a NO_SHOW, a MODIFIED reservation
    or one marked RETRY or DEAD_LETTER is never reconciled, and no code writes FAILED.
15. Two workers, or one that outlives its lease, may deliver two versions in the other
    order; with one worker within its lease they cannot (`ChannelCaughtUp`).
16. GENERATE_VOUCHER does not look at the status: it may draw a live voucher for a
    booking cancelled meanwhile. A payment that confirms a booking after its push enqueues
    no second push. A job that ends the process is claimed again without limit, since
    only a caught failure becomes a dead letter.

Folio, shifts, audit and documents:

17. A charge whose stay was read before the checkout lands after the settlement
    (`reservations.service.ts:626`); the settlement keeps its total, and an invoice is then
    refused because the lines no longer add up.
18. A crash between voiding a charge and voiding its order leaves the order POSTED
    (`reservations.service.ts:682`); the other direction cannot happen
    (`VoidedOrdersAreNotCharged`).
19. A payment or back-dated charge recorded after its day was closed is in no summary, a
    day that was missed can never be closed, and a shift can be opened for a day already
    audited. What is certain is that no payment is in two (`CountedInOneDay`).
20. `recordCheckoutPayment` (`reservations.service.ts:230`) does not recalculate advance and
    balance, which a manual payment is tested against, until another payment does:
    `AmountsAreCurrent` in `Payments.cfg`. `AdvanceAccounting` says by how much they are off.
21. TDS cannot be recorded: it takes a receivable above zero of an invoice, and an invoice
    is issued only for a stay settled in full (`NothingLeftForTds`).
22. Two credit notes of one invoice, or a note and the cancellation, that overlap are both
    tested against what they read (`tax-documents.service.ts:246`): `CreditWithinInvoice` in
    `BackOffice.cfg`. Nothing else takes more than there is: `OnlyOverlapsOvercredit`.

Banquets:

23. An event edit that read the event before somebody else cancelled it writes its old
    status back (`banquets.service.ts:131`); the space may have been given away meanwhile, and
    two functions hold it: `SpaceHeldOnce` in `Banquets.cfg`
    (docs/banquets-domain-audit.md:26 promises overlap-safe booking).
24. A function added to an event while it is cancelled stays active; an order may become
    FINAL without requirements when an edit meets its finalization; functions of a space taken
    out of service are counted but stay.

Rate plans:

25. "An agent can have only one commercial rate plan per hotel" (`users.controller.ts:190`)
    does not survive two requests for one agent that overlap: each switches off what it
    found. `OnePlanAnAgent` without `crossed`.
26. An agent who gets a plan while one of its room types is closed does not have that room
    type's assignment when it opens again (`agents.service.ts:28`). `WholePlans` without
    `reopened`.
27. An assignment made while its plan is renamed keeps the old code
    (`hotels.service.ts:610`). `CodesFollowTheMaster` without `crossed`.
28. `deleteRatePlanAssignment` (`hotels.service.ts:661`) counts rates, lines, hold lines,
    cancellation rules and agents; other rows that refer to the assignment go with it or
    lose the reference.

Rates, quotes and terms:

29. Once a row has a double price, the channel's rate and the calendar's SET_RATE no longer
    change what is quoted: they write `amount` and `baseAmount` (`axisrooms.service.ts:39`,
    `hotels.service.ts:784`; docs/rate-season-yield-policy.md:9). A plan's workbook leaves an
    override in place, and the pricebook saves a base that a double price or an override hides
    (`hotels.service.ts:347`, 952). `RackSavesTakeEffect` is stated for the grid and the periods.
30. The agent's rate book ignores an override by hand, which the search applies
    (`rate-master.service.ts:439`); a night with base 0 and a double price is offered by the
    search and refused by the quote.
31. A stale edit of an assignment reactivates one removed meanwhile, and the first day of a
    removed assignment can never be used again. `saveGrid`, the period update and the import
    take three different locks for the same rows.
32. Children that do not fit are counted as adults of the last room, and a party with
    children may be refused although another arrangement fits; a party of adults is refused
    only rightly (`PartyIsPlaced`).
33. A small discount over many nights may be rounded so that the last night alone bears the
    difference; the sum is exact (`NightsAddUp`).
34. The rate book is asked for check-in to check-out inclusive, so the night of departure must
    be listed too.

Booking page:

35. The answer to `/hotels` writes the dates of the address bar over those the user has chosen
    since; a search or hold that was already answered then belongs to other dates
    (`BookingFlow.tsx:402`). `ShownIsHeld` holds for every path that no such answer crosses.
36. Changing the party in the agent's rail at the guest step keeps a hold made for another
    party, and the rail's Book button, which is not disabled while busy, can make two holds.
37. A payment verified whose reload fails leaves a paid guest at the payment step.
38. A user who does not wait can reach "Booking confirmed" for an unpaid booking, by a second
    search whose answers overtake the submission: `ConfirmationIsEarned` without
    `mode.patient`, with six clicks for an agent who does not wait.
39. An agent's booking that needs no payment is PENDING_PAYMENT on the server
    (`reservations.service.ts:334`) while the page says confirmed (`booking-pricing.ts:37`); the
    server does not compare an agent's first payment with what is required at booking; the
    agent's automatic checkout asks for Razorpay under the demonstration provider too.
    `ShownAsItIs` in `BookingFlow.cfg`.

Banquet page:

40. A text edited while a save is under way loses its dirty mark with the answer
    (`BanquetsData.tsx:665`), so that a switch no longer asks to save it: `DraftsAreSaved`
    without `parted`, for an editor who does not wait.
41. A draft is made of the order once and never refreshed (`BanquetsData.tsx:788`): what
    another desk saved meanwhile is overwritten by the next save, and an acknowledgement made
    on this very page becomes PENDING again with it. A save by `selectFunction` reopens a FINAL
    order while the page still says FINAL, and gives the requirements new ids, so that
    acknowledging one of those shown fails.
42. A late switch, or an opening that failed, leaves the page with a function of another event
    chosen: the first function is shown, with the proposal for a new order instead of its own
    (`BanquetsData.tsx:239`), and Save writes it. So it is when a switch saves first
    (`BanquetsData.tsx:776-786`), was asked for before the order it turns to was created, and
    lands after an opening that shows that order: it loads the order as seen when it was asked
    for, which is none. `OrderIsLoaded` without `parted`.
43. The proposal shown after Create BEO is not saved by it (`BanquetsData.tsx:611`): it is
    printed, and the order cannot be finalized, as long as nothing is changed or saved. Edits of
    an order that another opening has loaded meanwhile are replaced by it.
44. No code sets `editingFunctionId` to a function (`BanquetsData.tsx:787`): saving the form of a
    function that was chosen to be edited adds a new one.

Other pages (by reading only):

45. `GroupsData.tsx`: after a group is created the form still holds the previous one, and
    saving writes it over the new group; the preview of a rooming list stays when another group
    is opened; the answer to an older opening shows the older group under the newer one's form.
46. `hotels/new/page.tsx`: saving one row loads the catalogue again and drops what other rows
    had unsaved; a saved draft row remains a draft and is created again by the next save; after
    a save the step is changed with the save state of before, which asks to discard.
47. Acknowledging and resolving a logbook entry, and the transitions of an expense, test a
    status read before the update: an acknowledgement may reopen an entry resolved meanwhile,
    and a cancellation cross a payment.

Met later, in parts described above:

48. A guest's booking whose balance is nothing goes from submission to "Booking confirmed"
    without an order (`BookingFlow.tsx:606`), while the server has it PENDING_PAYMENT and unpaid
    (`reservations.service.ts:334`, 350): `ShownAsItIs` in `BookingFlow.cfg`.
49. The rate book lists plans of CANONICAL_MEAL masters only (`rate-master.service.ts:437`), the
    search any active plan (`availability.service.ts:46`), and `createRatePlan` makes LEGACY
    ones: an agent may be offered a plan that his book does not have. `OfferedIsListed` in
    `Rates.cfg`. The grid and the lists of the rate master (lines 62, 125, 186) show canonical
    plans only as well, while its update of a period takes any.
50. A payment at check-out may be of mode WALLET (`CheckoutSettlementDialog.tsx:108`): it debits no
    wallet, but a cancellation of the reservation afterwards counts it among what the wallet
    paid and gives it back (`reservations.service.ts:230`, 738).

## 6. Plan

Done: the ledger, groups, payments, rooms, outbox, back office, banquets, rates, rate plans,
quotes and the two pages are modelled and checked; all but quotes are proved about. Next:

1. Proofs about `Quotes`, should a prover be at hand that does induction.
2. A second worker in `Outbox`, with the condition under which order survives.
3. `CreditWithinInvoice` as an invariant, if the service of tax documents takes a lock; and the
   mode of a payment at check-out in `Payments` (finding 50).

## 7. Not modelled

* Reports, dashboards, revenue forecast, reconciliation lists, night-audit summaries and the
  pages that show them (`RevenueForecast.tsx`, `OperationsLogbookData.tsx`, ...): they read rows
  and lay them out, post one form and load again; no step of theirs depends on an earlier one.
* `GroupsData.tsx` and `hotels/new/page.tsx`: forms over one group and one hotel. What goes wrong
  in them (findings 45 and 46) goes wrong in one or two steps of one user; what remains true of
  them is what the services check.
* Hotels, room types, amenities, images, policies, agents, corporates, guests, staff, users,
  inquiries, contact, files, site settings, features: single rows edited by one request.
* Operations logbook and expenses: lists of entries; each step tests a status it read and
  writes one row (finding 47).
* Authentication: credentials and tokens.
* The spreadsheets of imports, PDF and mail texts, taxes, promotions' choice, minimum stays.
* Times: timeouts, backoff and leases are "at any time later".
