# TLA+ models of the MealHi5 POS

The repository is an Electron and React point of sale for restaurants that works
offline on a local SQLite database. This directory holds TLA+ models of its
backend (`src/electron`, `src/shared`) and of the screens that drive it
(`src/src`), the TLC configurations that check them on small instances, and proofs,
checked by TLAPS, that hold for every value of the constants. All paths below are
relative to the repository unless they name a `.tla` or `.cfg` file.

    tlc -config kitchen.cfg MCKitchen      # a run (see the table of runs)
    tlapm KitchenProofs.tla                # the proofs of a module

`PROJECT.json` lists components, runs, mutants (a changed definition for which a
property must fail), the source lines of each definition, findings, hazards and
theorems.

## 1. How the program runs, and what that means for the models

There is one process (`requestSingleInstanceLock`,
`electron/main/app-lifecycle.ts:7`). The renderer calls handlers over IPC, the
handlers run on the main thread and `better-sqlite3` is synchronous. So:

* An operation without `await` is atomic towards other operations: one action.
* Operations interleave only at an `await`. Four places have one around
  database state: `SyncService.process`, `PrinterService.processQueue`,
  `EnterpriseService.createBackup` and the activation and runtime access requests.
* A crash can separate any two statements outside `db.transaction`. Kitchen
  tickets, settlement and the result of a sync request are in transactions; the
  edits of an order are not.
* Any screen may call any handler in any order. Screens hold stale data (a ticket
  that has moved on, an order that was settled), so the guards of the services
  are all that protects the data. The models of the services let every call come at
  any time; `Counter`, `Access` and the Retry button of `PrintQueue` model what the
  screens hold and what they offer to press.
* Every call of a screen is an `await`, and what the cashier does meanwhile is not
  blocked. Zustand stores outlive the screens and take every answer; the state of
  a component (`useState`) dies with it, and an answer for it is dropped.

## 2. Inventory

| Component | State | Operations | What is hard | What makes it correct |
|---|---|---|---|---|
| **Kitchen tickets** (`kot-service`, `kot-repository`) | `kot_tickets`, `kot_items`, `kot_status_history` | preview, create, cancel, mark started / ready / completed, reprint, set priority and station | What the kitchen holds is stored nowhere, each send replays all tickets; tickets cancel tickets; two screens move the same ticket | The kitchen is told the order, never more; a cancelled ticket is cancelled once; history and stamps tell the truth; what left the display stays away |
| **Order entry** (`order-service`, `order-repository`, `held-order-repository`) | `orders`, `order_items`, `held_orders` | create, edit items, discount, type, table, waiter, customer, hold, recall, list | Several statements per operation and no transaction; status kept in two tables | The stored total is that of the items; an order is found again, in one list |
| **Till** (`billing-service`, `shift-service` and their repositories) | `cash_shifts`, `bills`, `payments` | open, close, preview, settle | Orders change after settlement; figures stored at closing and computed again at reading | One open shift per terminal; closed books and paid bills stay; bills add up |
| **Cloud sync** (`sync-service`, migration 016) | `sync_outbox`, `sync_state` | triggers, configure, process, retry failed | Concurrent calls, lost answers, backoff, crash while a request is out | No double claim; at least once; every event settles |
| **Print queue** (`printer-service`, `printer-repository`) | `print_jobs`, `printer_profiles`, `printer_routes` | queue receipt / ticket / test / drawer, assign, process, retry | Processing without claims across awaits; crash between print and mark; retry of anything | What counts as printed was handed to a printer, every sheet is accounted for, documents go to the printer on record |
| **Stock and purchases** (`inventory-*`) | `stock_movements`, `purchases`, `recipes` | save item, adjust, purchase, cancel purchase | Cancelling what was used up; cost of the last purchase stays | Stock is the sum of its movements and is not negative |
| **Multi-outlet transfers** (`multi-outlet-*`) | `outlet_inventory_balances`, `stock_transfers` | create, send, receive, seed balances | Two kinds of books for the same stock | A transfer neither makes nor loses stock |
| **Runtime access, activation** (`electron/activation`) | two state files | activate, start trial, activate licence, verify, cached status, clear | State read before a request and used after it; timeouts; offline grace; the startup effect run twice | Nobody is let in beyond what the cloud allowed and the grace; startup goes on or says that it failed; disabled buttons come back |
| **Pricing** (`pricing-service`, `shared/money`) | none | totals of lines, tax, discount | Rounding, distribution of a discount | Shares add up, no line becomes negative |
| **Floor and tables** (`table-repository`) | `tables` | floor map, table of an order | Derived from orders and bills; two orders at one table; opening a table is a chain of calls | The chain ends with the order on the POS screen or with the tables enabled again |
| **Authentication** (`auth-service`, `session-store`) | one session in a file, `staff_sessions` | login, PIN login, restore, logout | Row, file and screen change one after the other, any of them may fail | The session on screen is the one on file, and its row is open unless its own logout stopped half-way |
| **Backups, enterprise** (`enterprise-service`) | backup rows, files | create backup, alerts | Row and file on both sides of an await | A row says whether the file is there |
| **CRM, staff, online orders, accounting, catalog, menu, customers, settings, reports** | their tables | save, list, dashboard | Little: single-row writes without a protocol | Row-level constraints |
| **Order screens** (`PosScreen`, `TablesScreen`, `RunningOrdersScreen`, `HeldOrdersScreen`, `BillingScreen` and their stores) | the order, floor map and bill in the stores; lists and disabled buttons in the screens | press a button, go to another screen, take an answer | Lists loaded earlier, answers that come after the screen was left, chains of calls | The bill shown is that of the order it was opened for, billing is never opened for an empty order, disabled buttons come back |
| **IPC bridge, other screens** | forms | calls | Any order of calls | Input is validated before a service sees it |
| **Cloud backend** (`cloud-backend`) | licences | activation endpoint | No sync endpoint in the repository | - |

How they meet: a kitchen ticket reads the order's items and leaves a print job;
settlement reads the stored total of an order and the open shift of the terminal,
and leaves a print job; triggers on orders, tickets and other tables fill the
sync outbox in the transaction of the change; the floor map reads orders and bills.
The screens meet in the order of the POS store: five of them read it, and opening a
table, a running order or a bill's order replaces it.

## 3. Modules

| Module | Models | State | Composition |
|---|---|---|---|
| `Kitchen` | `kot-service`, `kot-repository`, the item edits of `order-service` | `lines` (`order_items`), `tickets`, `kotItems`, `history`, `minted` (uuids used) | - |
| `Orders` | `order-service`, `order-repository`, `held-order-repository` | `orders` (headers, with what the items amount to), `held`, `torn` | - |
| `Cashier` | `billing-service`, `shift-service` and repositories, payment schema | `shifts`, `bills` with their payments | EXTENDS `Orders`: every order operation goes on before and after settlement |
| `Delivery` | abstract: what an outbox promises | `submitted`, `received`, `delivered` | - |
| `SyncOutbox` | `sync-service`, migration 016 | `outbox`, `calls` (calls of `process` under way), `cloud`, `configured` | implements `Delivery` |
| `Counter` | the order screens with `pos-store`, `billing-store`, `table-store`, and what the handlers of orders, tables and billing answer them | `recent`, `rows`, `paid` (stored), `calls` (under way), `shown`, `floor` (stores), `screen`, `added` (items so far) | renderer and main process in one |
| `Access` | `electron/activation`, `auth-service`, `session-store`, the screens from startup to login and the router | `activated`, `kept`, `session`, `rows` (outlive a restart), `halfOut` (history), `calls` (requests), `pc` (runs of the startup effect), `view`, `now` | renderer, main process and cloud in one |
| `PrintQueue` | `printer-service`, `printer-repository`, `queueReceipt`, the jobs of tickets | `printers`, `sent` (tickets on record), `jobs`, `runs` (calls of `processQueue` under way), `listed` (what the screen offers to retry) | - |
| `MCKitchen`, `MCOrders`, `MCCashier`, `MCCounter`, `MCAccess`, `MCPrintQueue` | symmetry sets for TLC | | EXTEND the module |
| `KitchenProofs`, `OrdersProofs`, `CashierProofs`, `SyncProofs`, `CounterProofs`, `AccessProofs`, `PrintQueueProofs` | the proofs | | EXTEND the module |
| `DataTheorems` | least elements, induction over finite sets and sequences, folds and sums, for the proofs | | extended by them |

### Kitchen

One order and its tickets. Orders share nothing but the ticket number, a count of
rows that are never deleted, so one order is enough. `KitchenNow` is
`currentKitchenState`: `Replayed` sorts the tickets as `listByOrder` does (clock,
then id) and leaves out reprints, `Apply` is the loop body; the replay is a fold over
the tickets that takes the `Newest` off last. `DeltaBetween` is
`buildDelta` with its five cases in the code's order. Lines of different items
commute in the replay, so a ticket holds one sequence of lines per item. A name,
variant and modifiers together are a *make*: `kot-service` compares them together
and an item whose make changed is cancelled and added. `Create`, `Cancel`,
`Transition` (the three marks), `Reprint`, `SetPriority` and `SetStation` are the
methods of `KotService`. The last two, and the board they sort, are called by
tests only (`tests/phase9-kds.test.ts`), no IPC handler reaches them; they are
modelled as part of the service. The wall clock is a value given to each
creation; `ClockRunsBack = FALSE` says it is never set back.

### Orders

A header, its row in `held_orders`, and of its items only whether there are any
and what `computeOrderTotals` makes of them (`filled`, `worth`); pricing is not in
this module, so an edit may lead to any total of `Totals`. Every operation is its
own writes followed by `recalculateAndBuild`, as one action; with `Crashes` the
operation may stop in between (`CutShort`). `torn` is a history variable: the
orders on which an operation was cut short since the last complete hold or recall.
It does not guard any action.

### Cashier

`Settle` is the transaction of `BillingService.settle` with `BillingRepository.create`
and `addPayments`; `OpenShift` and `CloseShift` are those of the shift service. The
terminal is the session's and so a parameter. `CashSales` is the query `cashSales`,
evaluated both when a shift is shown and when it is closed, as in the code.
`EditOrder` is any operation of `Orders`, on settled orders too: nothing in
`order-service` looks for a bill.

### SyncOutbox

`process` is `Claim` (select, mark syncing, post), the wait, and then `Complete` or
`Fail`. `Arrive` is the cloud: it receives the events and answers with some of them
as conflicts. `Fail` stands for an error answer, a lost answer and an unreachable
cloud, after or before the events arrived. A second call may start while the first
one waits: nothing in the service forbids it, and the sync store's `refresh` resets
the flag that disables the button. What an event says is left out.

### Counter

A press appends a call to `calls` (and may change the screen at once); an `Answer`
takes the oldest call, does what the handler does and what the store or the screen
does with the result, and sends the next call of the chain: creating a draft and then
editing it (`mutateOrder`), or creating one, making it dine-in, seating it, loading
the floor and leaving for the POS screen (`openTable`). Calls of one renderer are
handled in the order they were made and nothing else writes orders, so handling and
answering are one step. `Enter` mounts a screen: its own state starts afresh, answers
of lists for the screen that was left are dropped, and its effects send their calls.
`recent` holds the orders in the order of `updated_at`, which decides which order the
floor map shows at a table. An order is its items (each of price 1, numbered when the
button is pressed), its table and whether it is held. Types, waiters, modifiers and
discounts are left out, so `hold` and the changes that check them may be refused
(`MayRefuse`; `electron/services/order-service.ts:134` and `:205`). Settled orders keep
being edited, as in the code.

### Access

`Boot` is the effect of `StartupScreen`, step by step, once per run of the effect:
React's strict mode runs it twice in development. `Form` is a submission of the
activation or registration screen. A request is in `calls` with the runtime record as
it was read before; `CloudActs` is the cloud, and the caller then takes the answer
(`Verified`, `Register`, `Activate`) or fails, at any time, answered or not: a timeout
before or after the cloud acted, an error, a refusal. `Normalize` merges an answer with
the record read before the request. `Routed` is the router with the effect of the login
screen: where the renderer ends up. `allowedTill` is a history variable, what the cloud
has granted; it guards nothing. Password and PIN checks are a `Login` that may or may not
happen.

The files and the database may fail at any read or write. When the health, the activation
or the session cannot be read (`BootFails`), the run of the effect ends in its catch
branch: the screen says that startup failed if this run is the mounted one, and Retry
reads the health again and nothing else (`src/features/system-status/StartupScreen.tsx:44`).
Verification catches its errors itself, so a runtime store that cannot be read
(`BootVerifyFails`) leads to the registration screen. A logout writes three times, each on
its own: it closes the row, adds an audit row, and clears the session file. It may be
complete (`Logout`), stop at an error before or after the row is closed (`LogoutFails`; the
screen shows the login all the same), or be cut off by the end of the process
(`LogoutCutShort`). `halfOut` is a history variable, the sessions whose logout stopped with
the row closed and the file not cleared; it guards nothing. A restart, or a crash in the
middle of a login or logout, keeps what is on disk only.

### PrintQueue

`Start` is a call of `processQueue` up to its first wait: it routes pending receipts,
reads the due jobs with their printers, newest first, and fails those without an active
printer at once. Then for each job `HandOut` (the printer has it) and `SendSucceeds` or
`SendFails`, which mark it and go on with the list that was read. `sheets` counts what
was handed out, `cut` what a crash kept from being marked: both are history variables.
The mock printer takes a document at once and counts as one: paper here is what a
transport took.

A receipt gets its job whether there is a printer or not (`QueueReceipt`). A ticket is
made, reprinted or cancelled by a `SendTicket`, and its job with it, unless no kitchen
printer is active: `queueKot` then throws, the handler drops the error, and the ticket is
`sent` without a job. The process may also end between the two (`Crash`). `SavePrinter`
clears the other defaults of the role and writes the profile, each on its own, so the
second may be missing. What is printed is left out, the copy type of a job with it: the
payload of a receipt does not name it, so each copy of a bill prints as `RECEIPT`.
`Retry` presses a button of a list loaded earlier and has no guard, as in the code.

## 4. Runs

| Run | Instance | Distinct states | Shows |
|---|---|---|---|
| `kitchen` | 1 item, 2 makes, 2 notes, quantity up to 2, 3 tickets | 478,810 | `TypeOK`, `NothingCookedWithoutTicket`, `CancelUndoesLatestAdd`, `CancelPairs`, `HistoryTells`, `TicketChain`, `SendReachesKitchen`, `BoardNeverResurrects` |
| `kitchen_resend` | 1 item, 2 notes, 2 tickets | finding | `ResendRefused` is violated |
| `orders` | 2 orders, 2 types, a table, a waiter, 2 totals, crashes | 44,551 | `WholeRowsAgree`, `ListedOnce`, no deadlock |
| `orders_crash` | 1 order, crashes | finding | `OrderRowsAgree` is violated |
| `cashier` | 2 orders, 2 terminals, 2 shifts, 2 payments, 2 modes, amounts to 2 | 246,108 | `TypeOK`, `OneOpenShift`, `ClosedBooksStay`, `BillAddsUp`, `RecordsNeverChange` |
| `cashier_cash` | 1 order, 1 terminal, 1 shift, 1 cash payment | finding | `ExpectedIsInDrawer` is violated |
| `sync` | 3 events, 2 calls, batches of 2, fairness | 5,363 | `TypeOK`, `ClaimsExclusive`, `AtLeastOnce`, `SettlesUnlessStranded`, no deadlock |
| `sync_stranded` | 2 events, 1 call, fairness, crashes | finding | `EveryEventSettles` is violated |
| `counter` | 2 orders, 3 items in all, 1 table, 2 calls under way when a button is pressed | 1,061,253 | `TypeOK`, `BillingNeverEmpty`, `BillIsTrue`, `BusyHasCall` |
| `counter_settled` | the same | finding | `PaidForAll` is violated |
| `access` | 2 runs of the effect, 2 hours, 2 logins, 1 restart | 4,916,168 | `TypeOK`, `PastActivation`, `ShownSessionIsKept`, `StartupGoesOn`, `BusyHasRequest`, `LetInWithinGrace` |
| `print` | 2 calls, 2 jobs, 2 saved profiles, 1 crash | 2,487,922 | `TypeOK`, `PrintedOnPaper`, `EverySheetCounted`, `SentWhereRouted` |

What the properties say is in the comment above each of them.

**Bounds and why they are enough.** `MaxTickets = 3` lets a send, an edit and a
second send be followed by a cancellation, a reprint or a third send; the hazards
need a ticket, one that depends on it and one that sees the result. Quantities up
to 2 give every order of new, more, less and equal between order and kitchen. One
item is enough because items commute in the replay; that a ticket's header is shared by
items, and priorities and stations, matter only to `CancelPairs`, `HistoryTells`,
`TicketChain` and `BoardNeverResurrects`, which are proved for any number of them.
Two orders give one that is in a list and one that is not, and bills of two orders
in one shift; two terminals give two open shifts; two shifts a closed one and its
successor; two payments a split payment with change. Three events with batches of
two and two calls give overlapping calls with a row left over. In `counter` two calls
under way at a press, with the calls a screen makes when it is entered, give up to four
at once: the answers of two visits of the billing screen, or an edit and a table being
opened. Two orders give a shown and a billed one. In `access` an hour of grace and a
second hour give both sides of it, with a default of two; one restart gives a start with
a stored record; two logins a second session. In `print` two calls share both jobs or
meet in one, two saves give a profile that is switched off or replaced as default after a
job was routed. `Limit` is as large as `MaxJobs` there, so the limit of a call's list never
cuts in this run; the proofs hold for any `Limit`. `CHECK_DEADLOCK FALSE` is said where
the bounds themselves end the behaviour (all tickets and items, all shifts, all orders or
all jobs used up); `orders`, `sync` and `access` check for deadlock.

**Fairness** (`SyncOutbox`, only for liveness). Synchronisation is started by a
button; there is no scheduler. The liveness property therefore assumes that
somebody configures it and presses Sync again and again (weak fairness of `Claim`),
that a request ends (weak fairness per call; `fetch` ends with an answer or an
error), that backoff time passes, and that a cloud asked infinitely often answers in
the end (strong fairness of `Arrive` and `Complete`). Nobody has to press Retry, and
nothing is assumed of crashes: the process may end as often as it likes. The other modules
assume no fairness. Where something must go on (`BusyHasCall`, `BusyHasRequest`,
`StartupGoesOn`) the property says that a call is under way or a step is left that will
bring it about, and leaves open when; `StartupGoesOn` also allows the screen to say that
startup failed, after which only a restart helps.

## 5. Findings

Each is a run with one property, a line of the repository that says it, and a
counterexample that TLC prints.

1. `kitchen_resend`: when note *and* quantity of an item are edited between two
   sends, `buildDelta` (`electron/services/kot-service.ts:254`) emits an update to the
   full new quantity and the difference on top. The kitchen counts the difference
   twice and a second send, without an edit, is not refused. `SendReachesKitchen`
   holds with exactly this case excepted.
2. `orders_crash`: the writes of an order operation are not in a transaction
   (`electron/services/order-service.ts:282`), against the database design document. A
   crash leaves a stored total, which settlement charges, that is not that of the items.
   `WholeRowsAgree` says how far the damage goes.
3. `cashier_cash`: `cashSales` (`electron/repositories/shift-repository.ts:25`) subtracts
   the change from amounts that do not contain it; an honest count closes with a surplus.
4. `sync_stranded`: a row in `syncing` when the process ends is never selected again
   (`electron/services/sync-service.ts:76`). `SettlesUnlessStranded` shows that this is
   the only way to lose an event.
5. `counter_settled`: an order that was settled is still shown on the POS screen and
   accepts edits (`electron/services/order-service.ts:251`), against the database design
   document. What is added is never billed: settlement refuses a settled order, and the
   running list does not show it.

Two more disagreements are in the models without a run of their own:

* Logout closes the session row, adds an audit row and clears the session file one after
  the other (`electron/services/auth-service.ts:54`), and `getSession` never looks at the
  row. When a later step fails, or the process ends in between, the next start shows the
  application under the closed session, against `docs/electron/ipc-documentation.md:15`,
  which asks for an active staff session. `ShownSessionIsKept` excepts exactly this and
  shows that it is the only way to a closed session on screen.
* A ticket made while no kitchen printer is active gets no print job, and the error is
  dropped (`electron/ipc/kot-ipc.ts:34`, `SendTicket`): nothing shows as failed and nothing
  can be retried, against `docs/database/complete-database-design.md:332` ("Printer failure
  does not lose print intent") and `docs/ui-ux/ui-ux-design-system.md:357`.

## 6. Proofs

All theorems hold for any sets of items, orders, terminals, tables and calls, and for
any bounds, under the named assumptions of the modules (`KitchenAssumption`, ...), which
TLC evaluates in every run. Two of the assumptions ask for a finite set: `Calls` of
`PrintQueue` (calls under way are counted) and `Graces` of `Access` (one of them is the
longest). The bounds on tickets, jobs or items are any natural number. Every invariant and action
property of the passing runs is proved; four theorems on what the kitchen holds and on
the chain of tickets assume `~ClockRunsBack`, as the runs do: with the clock set back
the properties fail.

* **DataTheorems.** The induction theorems of the library take an operator, which the
  provers cannot instantiate. Here induction is stated over values: a nonempty set of
  numbers has a least element and a nonempty family of subsets of a finite set a smallest
  member, so what must hold for all is the *set* of the values that have it (`CountUp`,
  `BuildUp`, `AppendUp`). A fold is a function on the subsets of a set (`Folds`); it
  exists, is unique, is typed when its step is, and adding the largest element last is one
  step of it (`FoldExists`, `FoldsAgree`, `FoldTyped`, `FoldLonger`). `FoldIsSum` and
  `SumsAgree` say when the order of the elements does not matter. The folds of the
  community modules are then unfolded once for each use in the models.
* **KitchenProofs**, headers. `HeadersTyped` is the inductive type of tickets and history.
  `StepEffects` sorts every step, with the order edits, into *nothing on tickets
  changes*, *a ticket is appended* (with at most one older ticket set to cancelled)
  and *one ticket moves, or changes priority or station*. With it the proofs of
  `CancelPairsAlways`, `HistoryTellsAlways` and `BoardNeverResurrectsAlways` need one
  case per effect and not per operation. `CancelPairs` is inductive together with the types
  because cancel and move share the flag: what is cancelled no longer moves. `HistoryTells`
  is inductive ticket by ticket. `TicketChainAlways` needs `Clocked`, that tickets are
  stamped in the order of insertion: without it the newest ticket by clock is not the last
  one inserted, and TLC finds the chain broken.
* **KitchenProofs**, contents. `KitchenTypeOK` is the type of the lines: a difference or
  a replayed dish is positive or absent, with a clock that runs back too. For the rest
  `Replays` is the key: while tickets are `Clocked`, what the kitchen holds after ticket *n*
  is what it held after *n* - 1 with the lines of *n* applied, or the same after a reprint.
  `SendReachesKitchenAlways` is that step for the five cases of `DeltaBetween`; the one
  excepted case is the finding. `CancelUndoesLatestAddAlways` and
  `NothingCookedWithoutTicketAlways` speak of tickets cancelled long after they were sent,
  so the invariant `SendsOK` remembers what each was: a cancel ticket carries exactly the
  cancel lines of the earlier ticket it names (`TakesBack`), and each send the difference
  between what the kitchen then held and some order row (`SentFits`). A cancel ticket takes
  away at least what its ticket had added, and by `CancelPairs` a ticket that leaves the
  tickets in force has such a cancel ticket in the same step. `Ordered` is a sum over a set
  (`OrderedAddsUp`), so a step adds the portions of one ticket to it or takes them off.
* **OrdersProofs.** `OrdersInv` adds to `WholeRowsAgree` the types and that an order
  not yet created is in no list and has a total of zero. `ListedOnceAlways` follows
  from it. The theorems hold with and without crashes.
* **CashierProofs.** `Inv` has five parts. That a settled bill belongs to an existing
  shift, that an unsettled one is empty, and that a terminal has one open shift is what
  `ClosedBooksStay` needs: a payment goes into an open shift, so the sum of a closed
  one is over the same bills with the same payments (`SameCash`). No step of it looks into a
  sum. `RecordsNeverChangeAlways` follows from the same invariant. `TillTyped` does look: the
  expected cash is a number because only finitely many orders are settled in any state
  (`TillInv`), so nothing is assumed of `Orders`. `TillRunsOrders` shows that the till
  implements the specification of order entry, and with it `ChargedTotalAgrees` carries
  over: what settlement charges is the total of the items, wherever no operation was
  cut short.
* **SyncProofs.** `Inv` is types, `ClaimsExclusive` and *an answered call's rows are in
  the cloud*. The last one is what the refinement needs. `StepsDeliver` maps each step to
  a step of `Delivery` or a stutter and `OutboxDelivers` is `Spec => AtLeastOnce`.
* **CounterProofs.** The invariant says what the answers still to come may do to the
  screen. `CallsFit`: a call asks about a stored order, and its edit fits what its caller
  does next. `BusyWaits`: disabled buttons have a call whose chain leaves the screen.
  `ListFresh`: while an item is being removed, a running list is not loaded and its own
  answer comes later, so an order listed as filled is filled; that is why the billing screen
  it opens has an order with items (`BillingStays`). `BillArrives`: the bill on screen is
  right, or a preview of its order is under way, and no later call spoils it.
  `CounterInvariant` is proved one press and one answer at a time over the lemmas
  `SendInv` (a call is appended), `EnterInv` (a screen is mounted) and `StayInv` (the
  oldest call is taken and the screen stays).
* **AccessProofs.** `PathActivated` and `SessionOpen` strengthen `PastActivation` and
  `ShownSessionIsKept` by what the runs of the startup effect and a request hold: whoever is
  past activation found its record, and the session on disk is open unless its logout
  stopped half-way: the session restored at the next start is that one. `GraceCovered`
  is needed for `LetInWithinGrace`: the record on disk, each record read before a request and
  each answer on its way give the till no more time than the cloud has allowed.
* **PrintQueueProofs.** `OutOnPaper` (a job being sent has a sheet) is all that the
  other properties need besides each other. In `EverySheetCounted` a step takes a call from the
  set of those that hold a sheet and adds an attempt, or a crash empties the set and counts
  it in `cut`: cardinalities of a finite set. `CallGoesOn` and `OneJobInv` prove it once for
  the steps that share an effect.

**Only model-checked.** `SettlesUnlessStranded` is liveness under fairness, which the
provers do not reach. The violation runs (`ResendRefused`, `OrderRowsAgree`,
`ExpectedIsInDrawer`, `EveryEventSettles` and `PaidForAll`) are counterexamples of TLC.

## 7. What is not modelled

* Formatting, wording, ticket and order numbers, receipts and reports: data that no
  property speaks of. Numbers are integers of minor units without overflow: JavaScript
  keeps them exact far beyond any bill.
* Customers, names and the priority order of the kitchen display.
* SQLite itself: a transaction is atomic and durable.
* Quantities, variants and prices in `Counter` (two quick presses of "+" send the same
  quantity twice, which is one press for the order), the KOT dialog of the POS screen, and
  the lists of the kitchen screen, which leave out the tickets of settled orders.
* What is printed, with the copy type that a job keeps, and the routes of the print queue,
  which nothing reads.
* The loading flags of the login and activation stores: a read that rejects instead of
  answering leaves them set. `Access` has the flag of the runtime store, whose handlers
  answer every error.
* The components in the inventory without a module; PROJECT.json gives the reason for
  each. CRM, staff, accounting, catalog and the like are single-row writes without a
  protocol. Stock and transfers write a ledger in single transactions; pricing has no
  state.

## 8. Plan

Done: `Kitchen`, `Orders`, `Cashier`, `Delivery`, `SyncOutbox`, `Counter`, `Access` and
`PrintQueue`, and proofs of their invariants and action properties. Next, in this order:

1. Abstract specifications that the detailed ones implement: the kitchen as *what was
   asked for, less what was taken back*, and the drawer of a terminal as *one open shift
   at a time with a sum that grows*, with the refinement proved over the invariants above.
2. `Stock` with transfers: movements and balances, conservation of stock.
3. `Pricing` as operators over bounded inputs: shares of a discount add up.
4. Rejected events and the order of events of one entity in `SyncOutbox`.
