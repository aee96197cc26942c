# TLA+ models of the invoice and payment service

This directory models the service in `src/` (a Rust program on axum, sqlx and
PostgreSQL): invoices are created, opened and paid through a payment service
provider (PSP), and the outcome is announced to webhooks. The modules are
translated from the code; the documents (`README.md`, `DESIGN.md`) and the tests
are used only for what they promise. File names below are relative to the
repository's `src/` unless they name a module of this directory.

## 1. The system

| component | state it keeps | operations | module |
|---|---|---|---|
| state machine (`state_machine.rs`) | none | `apply`, `validate_transition`, `can_pay`, `payment_result_transition` | `InvoiceStateMachine` |
| payments (`handlers/payments.rs`) | `payment_attempts`, the invoice's state and version, the row lock | `process_payment` | `Payments` |
| opening (`handlers/invoices.rs`) | the invoice's state and version, the row lock | `open_invoice` | `Payments` |
| PSP client and mock PSP (`psp_client.rs`, `mock_psp.rs`) | none; what the PSP charged is history | `process_payment`, `process_mock_payment` | `PspGateway`, actions of `Payments` |
| creation and reads (`handlers/invoices.rs`) | `invoices`, `line_items` | `create_invoice`, `get_invoice`, `list_invoices` | `InvoiceCreation` |
| endpoints (`handlers/webhook_endpoints.rs`) | `webhook_endpoints` | register, delete, list | `Webhooks` |
| queue and worker (`webhooks.rs`, `worker.rs`) | `webhook_deliveries`; tasks and the worker's batch in memory | `enqueue_webhook`, `process_pending_webhooks`, `deliver_webhook` | `Webhooks` |
| businesses, API keys (`auth.rs`, `handlers/businesses.rs`) | `businesses`, `api_keys` | create, list, revoke, authenticate | `Tenants` |
| customers (`handlers/customers.rs`) | `customers` | create, get, list | `Tenants` |
| the process: handlers, tasks, worker and connection pool (`main.rs`) | ten connections | take, give back, crash | `InvoiceService`, which composes `Payments` and `Webhooks` |

How they interact: a handler is a future that the HTTP server polls; it talks to
the database (statement by statement, some inside a transaction) and, in
`process_payment`, to the PSP over HTTP while its transaction is open and holds
the invoice's row lock. After the commit it spawns a task that inserts one delivery
row per endpoint, each in a transaction of its own. One worker per process polls
the delivery rows every five seconds and posts them.

What is hard here:

- **Payments race.** The lookup of the idempotency key runs outside the
  transaction; correctness rests on the row lock, the unique constraint and the
  order of the checks.
- **The charge cannot be rolled back.** The transaction that records an attempt
  spans the PSP call, and can be lost after it: the handler is dropped when its
  client disconnects, a statement fails, the process dies, the reply of COMMIT
  does not arrive.
- **Two guards for one decision.** `can_pay` admits a payment before the charge,
  `payment_result_transition` decides after it.
- **The worker works from a stale batch**, while endpoints come and go, and counts
  attempts in statements that may fail after the POST they count.
- **Ten connections serve everything**, and a payment keeps one while it waits for the
  row lock and for the PSP.
- **A crash hits all parts at once**: transactions roll back, tasks and the worker's
  batch are lost, calls and POSTs already sent are not.
- **Keys are found by a prefix** that is not unique, revoked while requests are on
  their way, and created in a transaction apart from their business.
- **Widths and atomicity of creation**: i32 amounts, an i64 sum, a row and its
  items written together and read apart.

What makes the components correct: an invoice is settled once and exactly by a
stored success; a key of an invoice has one attempt and one answer; the ledger
agrees with the PSP; announcements are durable; every call returns, and handlers never all
wait for each other; deliveries
are tried a bounded number of times, end, and do not outlive their endpoint; receivers
hear of stored payments only, and events are lost only to a fault or a deletion;
everything that was started comes to rest; a key opens its own business and nothing
after its revocation; what a business stored is changed by its own requests only; an email
has one customer; a stored invoice is worth its lines, and a reader is given whole invoices
of one business. `PROJECT.json` lists the hazards with their lines and the properties that
watch them.

## 2. The modules

### InvoiceStateMachine and PspGateway

Pure operators, no variables. A Rust `Result<InvoiceState>` is a value that is a
state or an error of `TransitionError`. `MockAnswer` is the mock's answer per card
token, `ClientResult` what the client makes of an answer, `TimesOut` whether the
client's timer (35 s) runs out before the mock answers.

### Payments

A request is one run of a handler; `pc[r]` is the await it is suspended at:

| `pc` | suspended at | action that leaves it |
|---|---|---|
| `lookup` | SELECT by invoice and key | `RejectMissingKey`, `ReplayStored`, `LookupMiss` |
| `lock` | SELECT ... FOR UPDATE | `LockNotFound`, `LockRejected`, `LockGranted` |
| `update` | open_invoice's UPDATE | `UpdateOpened` |
| `insert` | INSERT of the attempt | `InsertConflict`, `InsertAttempt` |
| `call`, `await` | the PSP call, before and after it is sent | `CallPsp`; `PspAnswer`, `PspFailure` |
| `settle` | UPDATE of the attempt, then of the invoice | `SettleFailed`, `SettlePaid`, `SettleRefused` |
| `commit` | COMMIT | `Commit`, `CommitUnacknowledged` |

`DatabaseError` and `Drop` may happen at (almost) every await, `Crash` ends all handlers
at once, `PspHandle` is the PSP's own step and needs no client that still waits (nor,
for a PSP that `PSP_BASE_URL` names, the process that called it). Writes of an open transaction
live in `outcome[r]` and `write[r]` until `Publish`: at READ COMMITTED no other
transaction sees them. The two UPDATEs before a commit are one step, since both
touch rows only their own transaction can see or change; the errors of each are
kept apart in `DatabaseError`.

`CreateInvoice(i)` is the commit of `create_invoice` as this module sees it.
`void` and `uncollectible` are states of the state machine that no handler produces.
The key lookup (`handlers/payments.rs:35-43`) does not restrict the business, and neither
does the model, although DESIGN.md section 13 says that every query on payment attempts
does; no run is about it, and `Isolated` of `Tenants` does not cover it.

`LedgerMatchesPsp` says what the code keeps of the PSP's results. What is stored is true, and
what a request is answered with 200 is stored. It does not say that every charge is stored:
the pending row and the result are written in one transaction, so that a charge whose
transaction is lost leaves nothing behind, not even a pending row. That is the code's weak
point, which the runs `one_charge_per_key` and `charge_leaves_attempt` exhibit.

Abstractions: amounts, error texts and payloads are left out; a `psp_reference` is
the request that made the call; `completed_at` is one of two symbolic times. A lock
is freed at the moment the handler returns; sqlx rolls a dropped transaction back
a little later, which only lengthens the wait of others.

### PaymentLedger

The abstract specification: invoices and an append-only log of attempts, every
request an instant. `Payments!LedgerSpec` is this specification under the mapping
*state of the committed row* and *committed attempts*.

### Webhooks

`task[v]`/`todo[v]` are the task that runs `enqueue_webhook` for event `v` and the
endpoints it has read and not inserted for; `row[d]` is the delivery's row, `wpc`,
`batch` and `cur` the worker's place in `process_pending_webhooks`. `created` is the
order of `created_at`; it keeps the ids of rows that are gone, which no query returns
any more, because a row id is used once. `Oldest` is ORDER BY and LIMIT. Time is
abstracted to whether `scheduled_at` has passed (`due`, `Elapse`). A fault is a
failed statement or a crash; `Crash` loses tasks and the batch and keeps the tables.
`posts`, `acked` and `late` are history. Registering a url again keeps its row
(ON CONFLICT DO UPDATE), so endpoints with one url and business are not live
together; deleting an endpoint deletes its deliveries (ON DELETE CASCADE).

One process, and so one worker, is assumed, as `docker-compose.yml` runs it.
`retry_failed_webhooks` has no caller and is left out.

### WebhookPromise

The abstract specification of a delivery: announced, tried, delivered or given up, and
removed with its endpoint. `Webhooks!DeliverySpec` is this specification under a
mapping that reads the status off the row (failed and exhausted are both *given up*),
the tries and acceptances off the history, and *removed* off the endpoint. Statements,
tasks, batches, retries, faults and crashes are stutters or one of its steps.

### InvoiceService

One process: the variables and actions of `Payments` and `Webhooks`, both instantiated
unchanged, and the pool. An event has the name of the request that announces it, so
`Payments!spawned` and `Webhooks!task` meet in `HandlerStep`: the step of the handler
that spawns is `Webhooks!Spawn` as well. `conn` holds the requests whose transaction has
a connection: `Begin` takes it before the row lock is waited for, `Release` gives it
back when the handler has ended. Statements outside a transaction need a free
connection (`OnPool`) for themselves only and keep none; a POST needs none. `Crash` is
`Payments!Crash` and `Webhooks!Crash` together. `owed[r]`, a history variable, is the set
of endpoints registered when `r`'s attempt was stored. `size` is chosen at start from
`PoolSizes`. A timeout of a waiter for the pool is an answer 500, one of `Payments`'
failed statements. `CanGoOn(r)` says that the handler `r` has what its next statement
needs; TLC has found it to coincide with the enabledness of that step on the instance below.

### Tenants

`created[b]` is the place of `create_business` and the key it stores, which no other
handler makes; a key is identified with its business. `pc[r]` is the statement of an
authenticated request: `auth` (the SELECT by prefix), `handle`, `conflict` (the second
SELECT of `create_customer`). A credential is a prefix and a secret; a hash verifies
the one secret it was made of, and clients can send keys they were given and made-up
ones. `fetch_optional` on colliding prefixes is a choice between `Authenticate` and
`RefuseKey`. A statement may fail, or be executed and lose its reply (`Answer`). `gone[r]`
and `failed` are history.

### InvoiceCreation

`create_invoice` with its checks in order, its transaction and its losses, and the
two readers, which read rows first and the line items of each invoice in a
statement of its own. The widths are the parameters `I32Max` and `I64Max`; the cast
`total_cents as i32` wraps. `line_items.created_at` is the start of the one
transaction, so ORDER BY created_at leaves the order open and `ReadLines` returns
any. The running total of the code's loop, which stops at the first overflow, is the
recursive function `RunningTotal`; `Sums` is the same without widths.

### InvoiceBook

The abstract specification of invoices: an entry is written once and whole, and a reader
is given, in one instant, entries of one business, with their items in any order.
`InvoiceCreation!BookSpec` is this specification under the mapping `Written` (the committed
row with the committed items) and `Given` (a reader has its answer when it has the items
of every row it was given). `Commit` is `Write`, the last `ReadLines` of a reader is
`Read`, everything else stutters.

### Proof modules

`Payments_proofs`, `Webhooks_proofs`, `Tenants_proofs`, `InvoiceCreation_proofs` and
`InvoiceService_proofs` prove the properties of the modules they are named after,
`Promises_proofs` those of the three abstract specifications, and `RecursionTheorems` what
the proofs of `InvoiceCreation` need of recursive functions.

## 3. What is checked

Passing runs:

| run | instance | shows |
|---|---|---|
| `payments_safety` | 3 requests, 1 invoice, 2 businesses, 2 keys, an accepted and a declined card; symmetric in requests and keys | `TypeOK`, `SettledOnce`, `PaidIffSettled`, `OneAttemptPerKey`, `FreshSnapshot`, `ReplaysAgree`, `LedgerMatchesPsp`, `AnnouncedIsDurable`, `RefusedMeansUncharged`, `InvoiceSteps`, `LedgerSpec` |
| `webhooks` | 3 events, 1 endpoint that is registered and deleted, 2 attempts, batches of 2, 1 fault; under fairness | `TypeOK`, `PostsBounded`, `FinalIsEarned`, `LateAtMostOnce`, `NoOrphans`, `FinalIsFinal`, `DeliverySpec`, `EveryDeliveryEnds` |
| `service` | 2 requests (payments or openings) for 1 invoice, 1 endpoint, a pool of 1 or 2, 2 attempts, batches of 1, 1 fault; under fairness | `TypeOK`, `NotifiedIsStored`, `LostOnlyByFaults`, `SomeoneGoesOn`, `EveryCallReturns`, `ComesToRest` |
| `tenants` | 2 businesses with their keys, 2 requests, 2 prefixes, 1 email; symmetric in all but the email | `TypeOK`, `Isolated`, `RevokedIsRefused`, `AnsweredIsUsable`, `OneCustomerPerEmail`, `ConflictsAreReal`, `WritesAreOwn` |
| `creation` | 2 creations with up to 2 items of 5 kinds, 1 reader, 2 businesses with a customer each, widths 7 and 63; symmetric in requests | `TypeOK`, `TotalIsSum`, `WholeInvoices`, `RefusedIfBad`, `BookSpec` |

Why the bounds are enough: three requests are an opening and two racing payments,
or a payment, its retry and a rival; requests to different invoices share nothing
but the key lookup, which compares the invoice. In `webhooks` three
deliveries can be pending at once, one more than a batch takes, so that LIMIT leaves one out,
and a batch of two has an entry that grows stale while the other is posted; an endpoint
is deleted at any time, two attempts have a first and a last one, and a fault falls between
any two statements. An endpoint that is registered anew is another id and meets no row of
the old one. More endpoints, attempts and faults are left to the proofs, which bound none of
them. In `service` a pool of
one is the harshest: whoever needs a second connection, or waits for the row lock
without one, stops everything; with two, one handler can wait for the row lock the
other holds. One request must be an opening for the other to pay, so one event is
announced at a time there, and `webhooks` covers three. In `tenants` two
businesses and two prefixes are the fewest for a collision and for a difference; one
request revokes while the other presents the key, both create one customer, or one
business asks for a customer the other has created. In `creation` one item of 7 x 7 exceeds
the narrow width and wraps to 1, two exceed the wide one; with two businesses a request
may name the other's customer, and a list may mix up invoices of both. The proofs below
remove the bounds of every safety property of the five passing runs; only `MaxItems`
remains as a parameter, and it may be any number.

`MaxFaults` (Webhooks) and `MaxItems` (InvoiceCreation) are the only bounds
that are not in the code; `MaxAttempts`, `BatchLimit` and `PoolSizes` are the code's own
limits (5, 100 and 10), made parameters.

Deadlock is checked in all runs but `creation`, where requests and readers end.
`Payments` and `Tenants` end in `AllDone`; `Webhooks`, and with it `InvoiceService`, runs
for ever, as the worker polls.

Fairness. `Webhooks!Fairness`: the worker's interval ticks for ever and its POSTs have a
10 s timeout; tasks are polled; time passes. Receivers may fail every POST.
`InvoiceService!Fairness`: a connection that becomes free again and again goes to some
handler that waits (strong fairness of `Lookup`, `Begin` or `Lock` of *some* request, of
*some* task's statement, and of the worker's), because pool and row lock queue their
waiters; whoever holds what he needs proceeds (weak fairness of `InTransaction`, of POSTs
and of time), since the runtime polls ready tasks, statements return and the PSP client has
a timer. Nothing is assumed of clients, of the PSP, or of drops and crashes. That
some waiter proceeds suffices for all, as requests, tasks and
attempts are finite in number.

Where the code departs from what is written about it (each run finds one property
violated):

| run | what is written | what the code does |
|---|---|---|
| `payable_is_payable` | DESIGN.md:268, draft is payable | the card is charged, then the payment is refused and forgotten (`handlers/payments.rs:150`) |
| `one_charge_per_key` | README.md:410-412, a retry does not charge again | an attempt lost after the charge is charged again by the retry (`handlers/payments.rs:171`) |
| `charge_leaves_attempt` | DESIGN.md:457-467, a crash after the PSP's success leaves a pending attempt, which could be found and reconciled | the pending row is inserted in the transaction that is lost (`handlers/payments.rs:95`): nothing is left |
| `timeout_never_pays` | DESIGN.md:405, 5 s timeout | 35 s, longer than the mock's 30 s (`psp_client.rs:28`) |
| `other_body_rejected` | tests/idempotency.rs:116, 409 for another body | 200 with the stored attempt (`handlers/payments.rs:49`) |
| `stored_result_returned` | README.md:410, the stored result is returned | 409 for a retry that waited for the first (`handlers/payments.rs:84`) |
| `registered_are_notified` | README.md:203, a stored endpoint is used for events | deleting one endpoint makes a running task skip others (`webhooks.rs:69`) |

## 4. What is proved

Every invariant, action property and refinement of the runs `payments_safety`, `webhooks`,
`tenants`, `creation` and `service` is proved for all values of the constants, with the
assumptions the modules name (TLC evaluates them on every run). Hardly any of these
properties is inductive as it stands; each
component has an inductive invariant, `IInv` (for `InvoiceService` what it adds to those of
its parts), proved in layers that use the ones before.

**Payments_proofs** (any requests, invoices, businesses, keys and tokens). Assumed:
`Owner` maps invoices to businesses, tokens are card tokens, and `None` is none of the
values it stands beside. That an invoice is settled once depends on who holds the row
lock, on what was read under it, and on what was decided since:

1. `Typing`: `TypeOK` and `ControlInv`, which await belongs to which operation.
2. `Locking`: a request holds its invoice's lock exactly at the awaits of
   `Locked` (`LockInv`); hence nobody else writes the row and the snapshot stays
   fresh (`FreshSnapshot`) and admissible (`AdmittedInv`); what is about to be
   committed follows from it (`WriteInv`).
3. `LedgerInvariant`: no other attempt has the key of a request past its INSERT
   (`KeyFreeInv`), stored attempts belong to finished requests (`AttemptInv`), and so
   `PaidIffSettled`, `SettledOnce`, `OneAttemptPerKey` survive each commit.
4. `PspInvariant`: what the PSP did, what the client heard, what was recorded.
5. `AnswerInvariant`: answers refer to stored attempts, a request that called the PSP and was
   answered 200 to its own, and early refusals precede the PSP.

`Invariance` collects them as `Spec => []IInv`. From it follow `PaidOnce`, `PaidByAttempt`,
`SnapshotsAreFresh`, `KeysAreUnique`, `Idempotence`, `Reconciled`, `Announcements`,
`EarlyRefusals`, the action property `InvoiceHistory` and the refinement
`Implementation`: `Spec => LedgerSpec`, where `Commit` and `CommitUnacknowledged` are the
abstract steps and all others but `CreateInvoice` stutter. `TablesAgree` and
`GuardsDisagreeOnDraft` are about the state machine alone; the second pins down the
state behind the first row of the table above.

**Webhooks_proofs** (any events and endpoints, any `MaxAttempts`, `BatchLimit` and
`MaxFaults`: `LimitsAssumption`, `BusinessAssumption`).

1. `Typing`.
2. `RowLife` (`QueueInv`): a delivery is inserted once, and its row lives exactly until
   its endpoint is deleted. `NoDeliveryOutlives` follows.
3. `Claims` (`ClaimsInv`): what the worker read of a row still holds or the row is
   gone, as nobody else writes rows; no delivery is in its hands twice.
4. `Counting` (`CountsInv`): the attempt in a row, or in the worker's hands, differs from
   the POSTs made by at most the number of faults. `BoundedRetries` and `EarnedEnds` follow.
5. `LateInvariant`: an endpoint gets a POST after its deletion only if the worker was
   already at it. `OneLatePost` follows.

From `Invariance` follow `EndsAreFinal` (an action property) and `PromiseKept`: `Spec =>
DeliverySpec`. Its delicate steps are a deletion between a POST and the UPDATE after it
(the UPDATE finds no row, and the abstract delivery is removed already) and the two UPDATEs of
giving up, of which the first is the abstract step.

**Tenants_proofs** (any businesses, requests, prefixes and emails; `NoneAssumption`, and
`RowAssumption`: a row of customers is not a business). `Typing` with what each place of
a handler relies on (`HandlerInv`); `Isolation`; `KeysInvariant`: a key is stored once,
and once revoked stays revoked, from which `Revocation` and `KeysAreUsable`; `Ownership`,
an action property (`WritesAreOwn`): a step that changes what a business stored is made by
a request that presents its key, whatever ids are in it, because the business a handler
works for is the one whose key it was sent (`HandlerInv`, `Isolated`);
`CustomersInvariant`: a row is the work of a request that ended, and what a request ran
into is never deleted, from which `OneCustomer` and `TrueConflicts`.

**InvoiceService_proofs** (any of the above and any pool). A step of the process is a
step of `Payments` and a step of `Webhooks`, or leaves them alone
(`PaymentsImplemented`, `WebhooksImplemented`), so the theorems above hold of the
process, `LedgerKept` (`Spec => LedgerSpec` of the payments in it) among them.
They are cited from instances of the two proof modules,
whose definitions are first shown to be those of the instances the model uses
(`SamePayments`, `SameWebhooks`, `SameLedger`). New are `PoolInvariant` (the pool is not
overdrawn), `TieInvariant` (a request has a task exactly if it announced its payment,
which was its last step) and `OwedInvariant` (what is owed is queued or excused). Hence
`Typing`, `EventsAreQueued`, and `NoPhantomPayments`, which needs all three: a POST was
counted for a queued row, the row came from a task, the task from a stored attempt.


What the parts promise is thereby shown of the process as well: `PaymentsStaySafe` and
`WebhooksStaySafe` list the invariants of the parts, `PromiseKept` is `Spec => DeliverySpec`
of the webhooks in it.

`NoDeadlock` (`SomeoneGoesOn`): some running handler can always go on, whatever the size
of the pool, if it has a connection at all (`PoolAssumption`). A handler that holds a row
lock holds a connection too (`PoolInv`), so it needs neither (`HoldersGoOn`); if no lock
is held, whoever has a connection and waits for the lock can have it; and if nobody has a
connection, the pool is free. The argument needs `LockInv` of `Payments`: a lock that is
taken is taken by a handler that runs. Were the connection taken after the lock, or a
second one needed by its holder, it would fail.

**InvoiceCreation_proofs** (any requests, readers, customers, items, any bound on their
number, any widths of which the wide one holds a product of two narrow ones:
`WidthAssumption`, `MaxItemsAssumption`, `ItemsAssumption`, `NoneAssumption`). Three parts:

1. Arithmetic. `CheckedTotal`: for valid items, the loop with its two checked operations
   and the comparison with `i32::MAX` accept a request exactly if the exact sum fits, and
   then the cast stores that sum; no intermediate overflow can hide a total that fits,
   because no item is negative. `TotalInAnyOrder`: the sum is the same in any order of the
   items, by taking the last item out of an order (`ShorterOrder`), so that what a
   reader adds up does not depend on the order the code leaves open.
2. `Invariance`: `Spec => []IInv`, one lemma per action. `RunInv` is what a run has checked
   by the await it is at, `StoredInv` that what is stored is the work of a run that has
   returned, `ReadInv` that what was read is still stored, of one business, and that
   items were read in some order. From it follow `Typing`, `StoredTotals`, `Refusals` and
   `ReadsAreWhole`, the last with `TotalInAnyOrder`.
3. `Implementation`: `Spec => BookSpec`. That a reader's several statements are as
   good as one holds because rows and items are never changed once they are committed,
   which is `StoredInv` and `ReadInv`; with an operation that changed line items
   it would be false.

**RecursionTheorems.** The library's induction takes an operator as a parameter, which the
installed provers cannot instantiate. Here it is stated of a *set* of numbers
(`NatSubsetInduction`, from the well-foundedness of <), and the existence of a recursive
function of its step, a function too (`RecursiveFunction`). Both are cited for
`RunningTotal`, `Sums` and the orders.

**Promises_proofs.** The abstract specifications are short, but that they say what is
meant is not obvious. `LedgerPromise`: an invoice is paid exactly by one success, under keys
that have one attempt each. `DeliveryPromise`: an end is earned, and nothing is tried after
it. `BookPromise`: an answer is in the book, of one business, and stays true. By the
refinements, the code keeps all three.

Only model-checked: the liveness properties `EveryCallReturns`, `EveryDeliveryEnds` and
`ComesToRest`, as liveness under fairness, and ENABLED, are out of the prover's reach. For
the same reason `NoDeadlock` speaks of `CanGoOn` and not of ENABLED, and the agreement of
the two is checked and not proved.

## 5. Not modelled

- Start-up, routing, migrations, logging, `health_check`: wiring without state.
- Webhook signatures: a stateless computation that no control depends on.
- HTTP bodies and status codes of errors: the models keep the error variant.
- `with_timeout`, `retry_failed_webhooks`, `verify_signature`, `revoke_api_key`,
  `IdempotencyConflict`: never used by the program.
- Several processes on one database: `docker-compose.yml` runs one, and the worker's
  SELECT takes no lock, so two workers would post deliveries twice.
- The order of events of one invoice and of line items: no document promises one, so the
  models leave it open and no property forbids it. That totals and reads do not depend on
  the order of the items is proved (`TotalInAnyOrder`, `ReadsAreWhole`).
- That a replay repeats the first answer to the letter (`tests/idempotency.rs:56`):
  `completed_at` differs, as the model shows (`Commit`), and `ReplaysAgree` compares the
  rest.

## 6. Plan

Done: all modules of the first plan, their composition, the abstract specification of
invoices, and the proofs of every safety property.

Left, in this order:

1. `InvoiceService` composed with `Tenants` and `InvoiceCreation`: their statements
   compete for the same connections, but share no rows with payments except the invoice
   itself.
2. A second worker as a fault model of `Webhooks`, should the service be run in more than
   one process.
