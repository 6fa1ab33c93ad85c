# Souko: a verification project

Souko is a Django REST backend for small shops: stores, products with stock,
customers, orders with items and payments, and reports, with Celery for mail and
daily metrics. This directory holds TLA+ models of it, the TLC configurations
that check them, and TLAPS proofs. Every definition is translated from the
source; `PROJECT.json` says which lines each one stands for.

- [The system](#the-system)
- [Modules](#modules)
- [Runs](#runs), [bounds](#bounds), [fairness](#fairness)
- [What is proved](#what-is-proved)
- [What is not modelled](#what-is-not-modelled)
- [Plan](#plan)

## The system

### What makes it concurrent

Requests are served by several sync gunicorn workers
(`src/ansible/env_vars/development.yml:16`), each one request at a time; Celery
runs further processes. They share a PostgreSQL database. Neither
`ATOMIC_REQUESTS` nor `transaction.atomic` nor `select_for_update` occurs in the
code: each statement commits by itself, so other requests run between any two of
a request's statements, and a worker that is killed leaves the statements it has
committed. Three habits of Django's ORM matter throughout:

- `instance.save()` writes **every** column, from memory. A column somebody else
  has changed since the row was read gets its old value back.
- It is an UPDATE and, when no row matched, an INSERT: a row deleted since it was
  read exists again, without the rows that were deleted along with it.
- Sums (`num_of_ordered_items`, `total_amount`, `amount_paid`) are worked out by
  the database at every use and never cached; a balance takes two queries.

### Components

| Component | State | Operations | What makes it correct |
|---|---|---|---|
| Order items and stock | `ProductStock.quantity`, `OrderItem` rows | POST, PUT, DELETE of items and stocks | a stock is not oversold, whatever interleaves |
| Order lifecycle | `Order.payment_status`, `paid_on`, `confirmed`; `Payment`; `OrderConfirmationCode` | POST, PUT, DELETE of orders; place and confirm; POST, PUT of payments | the status agrees with the balance; a paid order has its date; a customer can confirm, unless two orders share a code |
| Catalogue and subscriptions | `Product`, `ProductStock`; `Store`, `Admin.store`, `StorePeriodicTask`, `StoreSubscription`, `is_onboarded` | create, edit, (de)activate products; create stores, assign admins; the signal on new stores | the plan's limit holds up to concurrency; the store its POST gave an owner is complete |
| Customers | `Customer` | created and edited by an admin, found or created by placing an order | an address of a store leads to one customer |
| Accounts | `User`, `VerificationCode` | sign-up, verify, re-send, edit, password reset mail | an unconfirmed user can still be confirmed |
| Metric tasks | `OrdersTimestampedMetric`, `ProfitTimestampedMetric` | two Celery tasks for each store, every five minutes | the row of a day counts nothing that is not of that day, and catches up as long as it can be written |
| Scheduler | beat's heap, the broker's queue | `SmartScheduler.is_due` | a task is queued once; somebody's task is always queued again |
| Delivery | queue of mails | `send_email_async`, `Mailer.send` | no mail is sent more often than it was asked for, but for what the broker hands out again; each is dealt with in the end, unless the broker never stops |
| Reports | none | counts, sums and lists over periods | the two halves of a report speak of the same days; a window exists every day |

Interaction: order items name an order and a stock; a payment rewrites its order
row; deleting an order deletes its items, payments and codes, deleting a stock
the items taken from it; creating a store runs the signal that creates schedules
and a subscription; requests queue mails; tasks read orders and write metrics;
reports read everything.

The hazards, each at the line where it bites, are the list `hazards` of
`PROJECT.json`.

## Modules

| Module | Models | Checked with | Proved in |
|---|---|---|---|
| `OrderStock` | how order items draw on stocks | `MCOrderStock` | `OrderStockProofs` |
| `OrderLifecycle` | orders, payments, confirmation codes | `MCOrderLifecycle` | `OrderLifecycleProofs` |
| `Catalogue` | stores, admins, subscriptions and products | `MCCatalogue` | `CatalogueProofs` |
| `Customers` | customers and their addresses | `MCCustomers` | `CustomersProofs` |
| `Admission` | abstract: a limit that is checked before the write | through the two above | `AdmissionProofs` |
| `MetricTasks` | beat, broker, workers and the daily metrics | `MCMetricTasks` | `MetricTasksProofs` |
| `StoreReports` | the windows and halves of reports | `MCMetricTasks` | `StoreReportsProofs` |
| `MailDelivery` | the queue of mails and its couriers | through `Accounts` | `AccountsProofs` |
| `Accounts` | users, verification codes, the requests that mail; EXTENDS `MailDelivery` | `MCAccounts` | `AccountsProofs` |

In the modules a definition whose name has a suffix after `_` and whose comment
begins with "Mistake to be caught" is not part of the model. It is a plausible
mistake in the code, kept to see that a property notices it.

### OrderStock

Tables are a set of keys and a function for each column: `stocks`, `level`,
`productOf`; `items`, `at`, `of`, `qty`; `orders`. `older` is the order of
`created_at`. `req[w]` is what the request of worker `w` has in memory, with `pc`
the statement it executes next.

| Code | Actions |
|---|---|
| `OrderItemsEndpoint.create`, `OrderItemSerializer.create` | `PickStock`, `ValidateCreate`, `CheckCreate`, `InsertItem` |
| `OrderItemEndpoint` PUT, `OrderItemSerializer.update` | `LoadItem`, `FetchStock`, `CheckUpdate`, `SaveItem` |
| `OrderItemEndpoint` DELETE | `DeleteItem` |
| `ProductStocksEndpoint` POST, `ProductStockEndpoint` PUT and DELETE | `CreateStock`, `LoadStock`, `SaveStock`, `DeleteStock` |
| `OrdersEndpoint`, `OrderEndpoint` | `SaveOrder`, `DeleteOrder` (as far as items depend on them) |
| a worker killed by its master | `Kill` |

Abstractions. `Product.current_stock`, several queries, is read as one: which
stock it picks is not relied on afterwards. A quantity of `null`, which the sums
leave out, is the quantity 0. `OrderItem.cost` is left out: it does not touch
stock, and `OrderLifecycle` has its sum. `peak` is a history variable: the
largest quantity a stock was ever given.

### OrderLifecycle

An order is the row `[status, paidOn, confirmed]` and `total`, the sum of its
items' costs; payments and codes are tables as above. `req[w].row` is the row as
the request read it.

| Code | Actions |
|---|---|
| `OrdersEndpoint` POST | `CreateOrder` |
| `OrderEndpoint` PUT, DELETE | `LoadOrder`, `SaveOrder`; `DeleteOrder` |
| `CustomersPlaceOrderEndpoint` | `PlaceOrder`, `CreateCode` |
| `CustomersConfirmOrderEndpoint` | `FindCode`, `GetOrder`, `SaveConfirmed`, `DropCode` |
| `PaymentsEndpoint` POST, `PaymentEndpoint` PUT, `Payment.save` | `ValidatePayment`, `LoadPayment`, `SavePayment`, `FetchOrder`, `ReadTotal`, `ReadPaid`, `SaveStatus` |
| order item endpoints | `ChangeItems`: the total becomes another |
| a worker killed by its master | `Kill` |

`Payment.save` has two `if`s on `self.order.balance`; each evaluates the two sums
again, in the two rounds of `ReadTotal` and `ReadPaid`. When a PUT does not name
the order, the order is only read after the payment was saved (`FetchOrder`).
`AmountPaid(o)` is the sum of `amount` over `PaymentsOf(o)`, as the database has it.
Abstractions: the customer of an order is whether the store knew him; numbers,
fees and names are left out; a mail is not modelled.

The constants `Calls`, `LateItems`, `PutConfirmed`, `PutPaidOn` and `Killable`
say what the environment does, so that a property can be checked where it holds
and shown violated where it does not.

### Catalogue

| Code | Actions |
|---|---|
| `StoresEndpoint.create`, `StoreSerializer.save`, the signal of `signals.py` | `GetAdmin`, `InsertStore`, `ScheduleMetrics` (twice), `Subscribe`, `LinkAdmin`, `Onboard` |
| `StoreEndpoint` PUT | `LoadStore`, `SetAdmins` |
| `ProductsEndpoint` POST with `HasHitProductsLimit` | `CheckLimit`, `InsertProduct`, `InsertStock` |
| `ProductEndpoint` PUT, DELETE | `LoadProduct`, `SaveProduct`; `Deactivate` |
| a worker killed by its master | `Kill` |

`store.admins.set(...)` is one action, `AssignAdmins`: it takes the link away from
the admins that are not named, which leaves a store without any when its owner
makes a second one. `StoreEndpoint` asks for a user who is logged in and nothing
else: anybody may PUT any store, one whose own POST is under way or was killed too,
with any admins (`LoadStore`, `SetAdmins`; `test_update_store` does it with an admin of
no store). `assigned` is history: the users that a PUT was the last to give a store;
`OwnStoreComplete` promises them no complete store. `InsertStock` ends the request;
the row it inserts is `CreateStock` of `OrderStock`, where the endpoints of stocks are.
Names, prices and categories are left out; so are `upgrade` and `downgrade`, which are
empty, and the limits of orders and customers, which no code checks.

### Customers and Admission

| Code | Actions |
|---|---|
| `CustomersPlaceOrderEndpoint` up to the customer | `FindByEmail`, `FindByPhone`, `ValidateNew`, `InsertCustomer` |
| `CustomersEndpoint` POST | `PostCustomer`, `ValidateNew`, `InsertCustomer` |
| `CustomerEndpoint` PUT, `EditCustomerSerializer` | `LoadCustomer`, `ValidateEdit`, `SaveCustomer` |
| a worker killed by its master | `Kill` |

The validator of an edit looks at the store the row had when it was read
(`readStore`), and the validator of a new customer compares blank addresses too:
both are kept.

`Admission` is what the validator of an address and the permission on the number of
products have in common, and what they promise: workers admit keys to groups after
counting (`Admit`), write them later (`Settle`), and may write back what they read
(`Remember`); keys leave groups at any time (`Leave`). A group exceeds its limit by
one key less than there are workers, at most. The refinements:

| | `Catalogue` (`Limited`) | `Customers` (`Unique`) |
|---|---|---|
| group | a store | an address in a store |
| key | a product | a customer |
| limit | `products_limit` | 1 |
| `present` | the active products of the stores | the rows with the address |
| `held[w]` | what `w` inserts or saves next, if it is active | what `w` inserts or saves next, if it is an address |
| `Admit` | `CheckLimit` | `ValidateNew`, `ValidateEdit` |
| `Remember` | `LoadProduct` | `LoadCustomer` |
| `Settle` | `InsertProduct`, `SaveProduct`, `Kill` | `InsertCustomer`, `SaveCustomer`, `Kill` |
| `Leave` | `Deactivate` | |

All other actions are stutters. That a save writes back what was read long ago is
inside the promise, since what is read was once admitted. A payload that moves a
row or reactivates it is not: that is what the assumptions on the constants in
`ProductsBounded` and `EmailsBounded` exclude.

### MetricTasks

| Code | Actions |
|---|---|
| crontab `*/5` of `StorePeriodicTask` | `Slot` |
| `SmartScheduler.is_due`, `is_task_in_queue` | `IsDue` |
| the scheduler's `apply_entry` (a library) | `ApplyEntry` |
| `create_store_orders_metrics`, `create_store_profit_metrics` | `Reserve` (the worker fetches the message), `Take`, `GetMetric`, `CreateMetric`, `CountOrders`, `SaveMetric` |
| everything that writes an order's row, its items or their products | `InsertOrder`, `EditOrder`, `DeleteOrder` |
| the clock | `Midnight` |
| `CELERY_ACKS_LATE`, a worker that is lost | `KillWorker`: the message is handed out again, or acknowledged by the parent |
| the visibility timeout of the Redis broker | `HandOutAgain`: a message reserved for an hour is handed out again |

The two tasks are the same code but for the filter, which is `Counts`, and the sum of
profits, which raises an error when a delivery fee, a cost, a quantity or a buying price
is null (`Raises`; the column `priced` of an order says that none is). The task catches
it and the row is not saved. A row's number is abstracted to the set of orders it adds
up, so that what a row counted on another day can be told apart. `seen` is history: the
orders that ever qualified for a day; so is `born`: the days on which an order was
inserted, again after a deletion perhaps, and which a save of an old copy may write back.
Clients write any other column of any order at any time: a PUT may take a confirmation
back, move the order to another store or clear or set its payment date.

The commands start one worker for both queues (`run-worker`), so that a message of a
metric may be reserved behind a mail whose task waits for its provider: that is what
makes it overdue, and a worker is a place for a message, be it a process or prefetch.

### StoreReports

`WindowStart`, `InTime` and `InDates` are the periods and filters of `Store`'s report
methods, over a calendar with leap years (`Ordinal`); the actions are the two halves
of a report, each of which reads the clock (`ReadFirstHalf`, `ReadSecondHalf`), the
answer and `Tick`. `IsMoment` says what a moment is: a date of the calendar, with the length of
its month, and an hour.

### Accounts and MailDelivery

| Code | Actions |
|---|---|
| `UsersEndpoint` POST | `SignUp`, `InsertUser`, `CreateCode`, `MailCode` |
| `UserVerify` GET | `GetCode`, `GetUser`, `Confirm`, `DropCode` |
| `ResentVerificationCodeEndpoint` | `Resend`, `SendMail` |
| the password-reset signal | `RequestReset`, `SendMail` |
| `UserEndpoint` PUT | `LoadUser`, `SaveUser` |
| `send_email_async`, fetched and executed by a Celery worker | `TakeMail`, `StartSending`, `Acknowledge` |
| the visibility timeout of the Redis broker | `HandOutAgain` |
| `Mailer.send` | `ProviderAnswers`, `ProviderIsBusy`, `GiveUp` |
| workers killed | `Kill`, `KillCourier` |

A request puts a mail in the queue by `Delay` of `MailDelivery`. `Mailer.send` calls
itself after a minute when the provider is busy, so that the number of attempts is
bounded by Python's stack alone: `MaxDepth`. Tasks acknowledge late
(`src/soukoapi/celery.py:21`), and Redis hands a message out again that nobody has
acknowledged for an hour, the default as none is set: `Patience` is how many calls
fit into that time, and a message is `Overdue` when its task waits for longer, or when
it was prefetched and another task waits before it. An error of the provider that is not a
busy one ends the task, since `retry_backoff` and `retry_kwargs` do nothing without
`autoretry_for`; so `ProviderAnswers` stands for acceptance and refusal. `owed` is
history: how often a mail was asked for, or found overdue, less how often it was dealt
with. `harmed`
is history too: the users whose sign-up was cut short before the code, and those
whose row an edit gave another address or an older confirmation. The library's
confirmation of a password reset saves the whole row of its user too
(`src/api/urls.py:23`): it is the edit that changes neither column.

## Runs

| Run | Property | What it shows |
|---|---|---|
| `stock_race` | `OversellBounded` | two workers oversell a stock by at most one client quantity, rows deleted and saved again included |
| | `RequestsConsistent`, `PotentialBounded`, `SomeClaimFits`, `TypeOK` | the invariant the proof uses holds |
| `stock_serial` | `NoOversell` | with one worker the serializer's promise holds, over two stocks, if no quantity is negative and no item is moved |
| | `OverdrawnOnlyByAdmin` | under the same assumptions a stock turns from covered to overdrawn only when its quantity is lowered |
| `stock_oversell` | `NoOversell` **violated** | two creates pass the same check |
| `order_race` | `PaidHasDate`, `TypeOK` | whatever saves of old rows, deletes and kills do, a PAID order has its date |
| `order_serial` | `StatusMatchesBalance` | one worker at a time, the status is right after every request |
| `order_confirm` | `ConfirmableUnlessShared` | the code of an unconfirmed order finds it, or is about to be created, or another order has drawn the same one |
| | `ConfirmationEnds` | a confirmation that found its code confirms the order and uses the code up, or the order is deleted |
| `order_paid_race` | `StatusMatchesBalance` **violated** | the slower of two payments saves PARTIALLY_PAID over PAID |
| `order_unconfirmed` | `ConfirmableUnlessShared` **violated** | a payment's save takes a confirmation back |
| `catalogue` | `OwnStoreComplete`, `TypeOK` | the store its POST has given an owner has its schedules and its subscription, whatever was cut short and whoever edits stores |
| | `ProductsBounded`, `ImplementsAdmission` | the plan's limit is exceeded by one product for every worker but one at most; the permission refines `Admission` |
| `customers` | `EmailsBounded`, `ImplementsAdmission`, `TypeOK` | an address has at most one customer for every worker; the validators refine `Admission` |
| `metrics_beat` | `MetricsAreTrue`, `TypeOK` | no row counts an order on a day that was not its own, midnight in the middle of a task included |
| | `QueuedOnce` | one message of a kind in the queue, besides those handed out again after a kill or when overdue |
| | `MetricsSettle` (liveness) | once orders rest, the metric of a store that is served becomes right and stays so, or there are two rows, or the profit has an order without a number in it |
| | `SomeStoreIsServed` (liveness) | for each kind, some store's task is queued again and again |
| | `ReportHalvesAgree` | the halves of a report differ about the first day of the window, or days that begin or end meanwhile, only; a year is a year, but on 29 February |
| `accounts_mail` | `VerifiableUnlessHarmed`, `TypeOK` | an unconfirmed user who was not harmed has its code or is about to |
| | `SendsAreOwed` | a mail goes out as often as it was asked for, and once more for every kill and every time it was overdue |
| | `MailSettles` (liveness) | no mail stays in the queue or in hand for good, unless the broker never stops handing out what is overdue |

Variants worth running by hand, each of which TLC refutes; they delimit what the
passing runs assume:

- `Reassign = {s1, s2}` in `OrderStockSerial.cfg`: an item PUT that names another
  stock is checked against the old one (`NoOversell`).
- a `Quantities` with -1 in `OrderStockSerial.cfg` (defined in an MC module, with
  `<-`): a negative item makes room that is not there (`NoOversell`).
- `LateItems = TRUE` in `OrderLifecycleSerial.cfg`: items added to a paid order
  leave it PAID (`StatusMatchesBalance`).
- `"movePayment"` among the `Calls` of `OrderLifecycleSerial.cfg`: the order a
  payment was moved away from stays PAID (`StatusMatchesBalance`).
- `Killable = {w1}` in `OrderLifecycleSerial.cfg`: a request that is killed between the saves of
  the payment and of the order leaves the status as it was (`StatusMatchesBalance`).
- `Killable = {w1, w2}` in `OrderLifecycleConfirm.cfg`: an order whose request was
  killed before `CreateCode` cannot be confirmed (`ConfirmableUnlessShared`).
- `ConfirmableUnlessShared` without its third disjunct, in `OrderLifecycleConfirm.cfg`:
  two orders draw the same code, and neither can be confirmed (`src/api/views.py:523`).
- `"delete"` among the `Calls` of `OrderLifecyclePaidRace.cfg`, and
  `PaymentIds = {p1}`: a payment's `order.save()` inserts the deleted order
  again, paid in part without a payment (`StatusMatchesBalance`).
- `OwnStoreComplete` without `u \in assigned`, in `Catalogue.cfg`: a PUT gives an admin a
  store that is half made.
- `ForeignStores = TRUE`, `PutActive = {TRUE, FALSE}` or `PutStores = {s1, s2}` in
  `Catalogue.cfg`: products for, moved to, or reactivated in a store whose limit
  nobody counted. `ImplementsAdmission` is violated; `ProductsBounded` excludes these
  paths by `Clients`, and without that conjunct is violated as well.
- `PutStores = {s1, s2}` in `Customers.cfg`: a customer moved to another store takes
  the address along (`ImplementsAdmission`; `EmailsBounded` without its premise).
- `SomeStoreIsServed` with `\A s \in Stores` in place of `\E` (and `shown = "stores"` in
  `MCInit`): the beat can put off the entry of one store at every slot, because a task of
  the same name is queued for the other (`src/main/scheduler.py:46`). In the same way
  `MetricsSettle` fails without its premise that the store's tasks are queued.
- "no day has two rows" in `MetricTasks.cfg`: two first tasks of a day both miss in
  `get_or_create` (`src/main/tasks.py:48`), which is why `Doubled` is in
  `MetricsSettle`. Without `Spoilt` it is refuted by an order with a null in its profit
  (`src/main/models.py:1016`).
- `MailSettles` without its second disjunct, in `Accounts.cfg`: the provider stays busy, and
  each copy of a mail that waits is overdue and leaves another.

And some that pass, larger than the runs: `Kinds = {"orders"}` in `MetricTasks.cfg`, whose
filter is on the day an order was made (0.6 million states); `MaxDepth = 3` with
`Patience = 2` in `Accounts.cfg`.

### Bounds

Keys are never reused, so the key sets bound how often rows are created. Two
workers show every pair of requests interleaved; the theorem covers any number.
Three items of at most two units against levels 1 and 3 allow filling,
overfilling and refusing a stock, lowering it under what is ordered and raising
it again. Two payments of 0 or 1 and totals of 1 or 2 allow no payment, part,
exact and more than the total. `KeysLeft` is the only bound in a guard: no more
creates run than there are unused item keys. `CHECK_DEADLOCK FALSE` stands in
the `OrderLifecycle` configurations: when the keys are used up nobody calls. The
other runs check for deadlock.

In `catalogue` a limit of one product and three keys let the limit be exceeded, and
two users and two stores let admins be moved away and back. In `customers`, three
keys let an address be shared by two customers while a third is refused; two
addresses and one blank value let a stale save give an old address back.

In `metrics_beat` two workers show lost updates and two rows, two days show midnight in a
task, `MaxFaults = 1` shows a message handed out again, two stores show the beat putting
entries off. `MCMetricTasks` shows these by turns (`shown`): a behaviour has the reports,
which share no state with the tasks; or both stores on one day, without orders and
faults; or one store on one day, whose orders are edited freely; or one store at
midnight, whose orders are paid on the day it is and lack no number. Of the rows that no
count tells apart one is kept (`Telling`): to a store an order of another is like one
that is not confirmed, and to the profit one that is not paid is too. One order, and the
kind `profit`, whose filter depends on more columns and which alone can raise, are enough
for the invariants, which speak of one entry at a time. The moments of reports are both
sides of the edges of weeks, 30 days, years and leap days (`EdgeMoments`).

In `accounts_mail`, too, a behaviour has either one user, whose requests follow each other
and whose mails two couriers deliver, or two users and two workers, whose mails stay in the
queue, since what a courier does never changes a user: there two visits of a link, an edit
and a re-send happen at once, codes have two values and may collide, and an address that
one user gives up is another's. In the first one worker is enough to queue a mail while
another is waited for.
`MaxMails` bounds re-sends and resets; `MaxDepth = 2` stands for Python's stack, whose depth
the code does not control, and `Patience = 1` for the visibility timeout: the first wait is
within it, the second is not.

### Fairness

No call by a client, no kill, no redelivery and no midnight is assumed to happen or not to.

- `order_confirm`: weak fairness of `Continue(w)` for each worker, that is, a worker
  that has accepted a request executes its next statement. That is the operating
  system's scheduling of processes that do not wait for each other (there are no
  locks). The run has no kills, since a killed confirmation need not end.
- `metrics_beat`: weak fairness of `Slot` (five minutes pass), of `Beat` and of each
  worker's `Work`. The beat and the workers are endless loops that wait for the
  clock, the broker and the database only. Nothing says which store's message a
  worker takes first; the broker's order is left open.
- `accounts_mail`: weak fairness of each courier's `Deliver`. A call of the provider
  returns or raises; that it ever stops being busy is not assumed, as the nested
  calls come to an end by themselves. Nor is it assumed that the broker stops handing out
  what is overdue, or that it does so at once.

## What is proved

`OrderStockProofs`, for any finite sets of workers and items, any stocks,
products and orders:

- `TypeCorrect`: `Spec => []TypeOK`.
- `OversellIsBounded`: `Spec => []OversellBounded`, assuming that client
  quantities are naturals (`Quantities \subseteq Nat`) and that no item PUT
  names another stock (`Reassign = {}`). Both are needed (see the variants).
- `RequestsStayConsistent`, `PotentialIsBounded`, `SomeClaimAlwaysFits`: the parts of
  the inductive invariant, under the same assumptions.
- `SerialNeverOversells`: with one worker and under the same two assumptions,
  `Spec => []NoOversell`. The serializers enforce neither: with a negative quantity or an
  item moved to another stock one worker is enough to oversell (see the variants).

The argument. `Held(w, s)` are the units of `s` that the request of `w` may still
write: once its check has passed, what it will write; before, while it edits an
item, what it read and will be given back in the check. `Potential(s)` adds them
to what is sold. The inductive invariant `IInv` is `TypeOK`, `RequestsConsistent`
(requests agree with the tables they read) and

- `PotentialBounded`: `Potential(s)` has at most
  `peak[s] + (N - 1) * MaxQuantity` units, for N workers;
- `SomeClaimFits`: if every worker holds something of `s` that is not sold, then
  some granted worker's item still fits under the peak.

A step that writes moves units from held to sold, and a step that deletes or
refuses only removes; after either, the stepping worker holds nothing that is
not sold, so that `SomeClaimFits` is vacuous. The interesting step is a check.
If the item read is what the table holds, the grant fits under the peak, which
is `SomeClaimFits` for the worker itself, and each of the others adds at most
one quantity. If the item was lowered or deleted since, the grant may exceed the
peak by what is given back wrongly, at most one quantity: then either some other
worker holds nothing, and the remaining N - 2 add one quantity each; or all
hold something, and by `SomeClaimFits` one of the earlier grants fits under the
peak. Without `SomeClaimFits` the bound would be N quantities, not N - 1.

- `OnlyAdminsOverdraw`: with one worker and under the same two assumptions, which clients
  may break, `Spec => OverdrawnOnlyByAdmin`. The step that
  overdraws must be a write, and a write relies on a check made one or more statements
  earlier. `ChecksStand` says what the check leaves standing until then: nothing has
  changed since the item or the level was read, and what is wanted fits into what
  remains, or is no more than the item had.

`OrderLifecycleProofs`, for any constants satisfying `LifecycleAssumption`:

- `TypeCorrect`: `Spec => []TypeOK`.
- `PaidOrdersAreDated`: `Spec => []PaidHasDate`, assuming that no admin clears a
  date (`None \notin PutPaidOn`); any calls, any kills.
- `OrdersStayConfirmable`: `Spec => []ConfirmableUnlessShared`, assuming
  `NoStaleSave`: only placing, confirming, deleting, creating of confirmed orders
  and changes of items, and no kills. It does not say that codes differ: two orders may draw
  the same, and then neither can be confirmed while both are there. `order_unconfirmed` and the variant with
  kills show why.
- `StatusesAreDue`: `Spec => []StatusMatchesBalance`, assuming `OneAtATime(w)`: one worker,
  not killed; no items added to a paid order (`~LateItems`); no payment moved to
  another order (`"movePayment" \notin Calls`). The run `order_paid_race` and the variants
  with `LateItems`, `movePayment` and `Killable` show that each is needed.

`PaidHasDate` alone is not inductive, since a request may save an older copy of a
row, and a save may bring back the row of a deleted order: `DatesKept` says it of
the rows under every key, deleted or not, and of every copy in memory.
`ConfirmInv` says that an unconfirmed order has a code or is about to get one
(`AwaitsCode`), from which the property follows (`CodeFoundOrShared`), and that a request
about to drop a code is about an order that is confirmed or deleted, which lasts because a key that
was used is never used again. `StatusInv(w)` says that every order but the one whose
payment is being saved has the status that is due (`Due`), and what the worker knows of
that one: that the sum it holds is the order's total, that the second `if` of
`Payment.save` finds what the first has saved, and that the row it is about to save has the
status that is due. No induction over the payments is needed: an order's sum is only ever
compared with itself, and it stays the same function summed as long as the payments do
(`DueKept`).

`AdmissionProofs`, for any finite sets of workers (one at least) and keys, any groups
and limits:

- `AdmissionIsBounded`: `Spec => []Bounded`. What is stored alone is not inductive: when
  a worker writes, others may have been admitted since it counted. The invariant is
  `BoundedWithPending`, about what is stored or about to be. It can grow by an `Admit`
  only, and then what is stored, without the key, is below the limit, while what is
  pending has at most one key for each worker.

`CustomersProofs`, for any constants satisfying `CustomersAssumption`:

- `TypeCorrect`: `Spec => []TypeOK`, from `Typed`, which adds what a request knows at
  each statement.
- `Implementation`: `Spec => ImplementsAdmission`, assuming `PutStores = {}`. Each action
  maps to an action of `Admission` or to a stutter, as in the table above; the validator
  of an edit needs that the row it will write is in the store it looked at, which is
  the part of `Typed` that moving a customer breaks.
- `AddressesAreBounded`: `Spec => []EmailsBounded`, for at least one worker, from
  `Implementation` and `AdmissionIsBounded`.

`CatalogueProofs`, for any constants satisfying `CatalogueAssumption`:

- `TypeCorrect`: `Spec => []TypeOK`, from `Typed`, as above.
- `StoresAreComplete`: `Spec => []OwnStoreComplete`, any kills, and PUTs of any store by
  anybody. `StoreInv` adds what a request that makes a store has written when it comes to
  each statement (`DoneSoFar`): the link is made last. It stays true because rows of these
  tables are never deleted (`Growing`).
- `Implementation`: `Spec => ImplementsAdmission`, assuming `Clients`: nobody names another
  store, moves a product or reactivates one. The variants show that each is needed.
- `ProductsAreBounded`: `Spec => []ProductsBounded`, for at least one worker, from
  `Implementation` and `AdmissionIsBounded`.

`MetricTasksProofs`, for any constants satisfying `MetricsAssumption`:

- `TypeCorrect`: `Spec => []TypeOK`, from `Typed`, which also says that the row a task has
  found or made is the one of its store and of the day it began with.
- `MetricsTrue`: `Spec => []MetricsAreTrue`, any kills, any rows clients write, midnight at any
  step. Metrics alone are
  not inductive, since a task saves what it counted earlier. `SeenInv` adds that whatever
  qualifies now has been seen, and so has what a task holds at its save, for the task's own
  day, which need not be today.
- `NoDuplicatesQueued`: `Spec => []QueuedOnce`, of which kills and overdue messages are part. `QueueInv` adds that the messages of a kind are
  finitely many, which makes their number one, without any assumption on the set of stores.

`AccountsProofs`, for any constants satisfying `AccountsAssumption` and `MailAssumption`, any
kills and redeliveries:

- `TypeCorrect`: `Spec => []TypeOK`.
- `UsersAreVerifiable`: `Spec => []VerifiableUnlessHarmed`. The exceptions are the users whose
  sign-up a kill cut short, whom an edit gave another address, or whose confirmation the
  save of an older copy of the row took back, for which no kill is needed. `IInv` adds that addresses are unique
  (the column is, so that the INSERT fails); that codes and requests refer to users there
  are; and that what a request has read of a user that is not harmed still holds
  (`ReadingsHold`): a request that is about to confirm has found the code's own user, and
  one that is about to drop a code has confirmed the user the code was for. A code that
  two rows share confirms nobody and drops neither, and `GetUser` goes by the address;
  `Confirms` says when code and user belong together.
- `SendsStayOwed`: `Spec => []SendsAreOwed`, which is inductive with the types. The lemmas say
  what a courier's step does to the number of couriers that hold a mail. A message that is
  handed out again while its courier goes on adds one to what is owed and one to what is in
  transit.

`StoreReportsProofs`, for any set of moments satisfying `MomentsAssumption` (dates of the calendar
after the year 1, one of which is the first, at which the clock starts):

- `ReportsAgree`: `ReportSpec => []ReportHalvesAgree`. First the calendar: the day numbers of
  `Ordinal` grow with dates (`DatesGrow`, over the lengths of months and leap years); a year back
  from a date is 365 or 366 days as a leap day lies between (`YearsAreWhole`); a window that ends
  later does not begin earlier (`WindowsMove`). Then the invariant `ReportInv`: the clock does
  not run backwards, so that the half a report reads later was read at a later moment; two
  halves that are read at once differ in the edge days only.

### Only model-checked

Liveness: `ConfirmationEnds`, `MetricsSettle`, `SomeStoreIsServed` and `MailSettles`. TLAPS proves
neither ENABLED nor, with it, what follows from fairness. Every type invariant, safety
invariant, action property and refinement the passing runs check is a theorem above. Theorems
hold for the specifications `Spec` and `ReportSpec` of the modules; runs that add fairness, or
restrict the initial states, check behaviours of these.

## What is not modelled

- Passwords and tokens: requests are modelled once they are authenticated. What the
  library's confirmation of a reset does to the other columns is an edit (see above).
- `send_sms_async`: nothing in the repository calls it.
- The best selling product and the products with low stock, in the reports: sums over
  what `OrderStock` has, read product by product, of which nothing depends.
- Order numbers, names, prices, descriptions, categories and images; S3.
- Re-sending the code of an order, listings and detail views, which change nothing.
- The Django admin site, settings, migrations and Ansible roles.

`PROJECT.json` has a component `partly` or `not_modelled` for each of these.

## Plan

Done: every component that changes state by itself is modelled, and every safety property
the runs check is proved. Left:

1. Orders under kills: which unconfirmed orders cannot be confirmed any more is known for users
   (`harmed`), not yet for orders, so that `OrdersStayConfirmable` assumes that nobody is killed.
2. The part of `MailSettles` that is no liveness: that each step of a courier but
   `HandOutAgain` lowers a measure of the stages its mail has left.

The hazards of `PROJECT.json` that no property covers have a note that says why: they are
decisions of the code that a property would only restate.
