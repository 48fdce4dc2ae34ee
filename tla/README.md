# SmartLedger: a TLA+ verification project

SmartLedger is a bookkeeping backend: FastAPI endpoints over async SQLAlchemy, a
PostgreSQL database, Redis, and an ARQ worker (`src/app`). Its business is a set
of running balances (money in accounts, quantities on hand, what customers and
suppliers owe) that many requests change at the same time. This project models
how those balances are changed and checks what the code promises of them.

    tlc -workers 2 -config MCAccounts.cfg MCAccounts     # model-check
    tlapm AccountsProofs.tla                             # check a module's proofs

## 1. Inventory

### How a request runs

Every component below shares one execution model (`core/database.py`,
`repositories/base.py`, the endpoints), and most of what can go wrong comes from it.

* One `AsyncSession` per request. The endpoint calls one service function, then
  awaits `db.commit()`. An exception or a lost connection rolls everything back.
  A session sees its own writes; others see them at the commit, all at once.
* Isolation is READ COMMITTED: each statement sees what is committed when it
  starts. A value read without a lock may be stale by the time it is used.
* `SELECT ... FOR UPDATE` (`get_with_lock`) and the `UPDATE` of a flush wait for
  the row's lock and hold it until the session ends. Sessions may wait in a
  cycle; PostgreSQL aborts one of them.
* The ORM has an identity map. As long as some variable or loaded relationship
  refers to an object, a later `SELECT` of its row, a locking one included,
  returns **that object with the attributes it had**. A lock taken after a plain
  read therefore protects a stale value.
* A flush writes only the attributes that differ from the loaded ones, with the
  absolute values the handler computed.

### Components

| component | state | operations | interactions | hard behaviour | what makes it correct |
|---|---|---|---|---|---|
| money accounts (`transaction_service`) | `accounts.current_balance`, `transactions`, `transfers` | create, update, deactivate, transfer, internal debit/credit hook | called by inventory (`adjust_stock`) and staff (salaries) in their own transaction | opposite transfers deadlock; deactivation reads without a lock; second leg fails after the first | no overdraft; balance = opening + rows; transfers whole; closed only at zero |
| stock ledger (`inventory_service`) | `items.current_stock`, `is_active`, `stock_movements` | create, delete, adjust, `_apply_stock_change` for all modules | every sale, purchase, return, void and production order | checks before locks; objects kept across a lock; several lines of one item; deletion | stock = sum of movements; never negative in normal flow |
| sales (`sale_service`) | `sale_invoices`, `sale_payments`, `sale_returns`, items | create, edit, void, pay, return, approve, reject, refund | moves stock, moves the customer's balance | unlocked status checks; payment against edit and void; approvals that overlap; lock orders invoice/customer differ | payments apply once, not beyond the total; dead invoices stay dead; no more returned than sold |
| customers (`customer_service`) | balance and direction, credit limit, `is_active`, payments | create, update, delete, pay, statement | written by sales too | sign crossing; stale objects; limit checked on a stale balance | every operation moves the balance by its amount |
| purchases (`purchase_service`) | `purchases`, payments, returns, items | create, edit, void, pay, return, approve, refund | stock in, supplier balance | as sales, and an edit computes the old due amount after the new one was written | as sales |
| suppliers (`supplier_service`) | balance and direction, payments | create, update, delete, pay, statement | written by purchases | as customers | as customers |
| production (`production_service`) | orders, material lines, labour, overhead, cost buckets | create, start, complete, cancel, add lines | takes materials, returns the product; labour from staff | unlocked status at completion; buckets recomputed from loaded collections | completed once; cost = sum of the lines |
| staff and payroll (`staff_service`) | salary structures, salaries, advances, piece work, attendance | disburse, advance, structures, attendance | debits an account; piece work allocated from production | one salary per month without a constraint behind it; advances deducted by two at once | paid once a month; an advance deducted once |
| roles and permissions (`rbac_service`, `core/rbac.py`) | roles, permissions, assignments; Redis cache with a version | assign, update, delete; `get_user_permissions` | every request | check-then-act of the last-administrator guard; cache filled while the version is bumped | an administrator remains; a revoked permission is not served again |
| authentication (`auth_service`) | refresh tokens, Redis blacklist, `revoked_before` | login, refresh, logout, revoke all | Redis | check-then-set of one-time tokens; Redis down | a refresh token works once |
| background jobs (`tasks/`) | `notifications`, materialized views, export files | low-stock alerts, due invoices, refresh, clean-up | ARQ: retries, shutdown | a run repeated after its commit; transaction begun twice | one alert per item and day |
| audit log (`audit_service`) | `audit_logs` | insert | in the transaction of the change | none | none of its own |
| reports, dashboard, search, export, WhatsApp | none | reads, formatting, one HTTP call | | none | pure functions of the database |

`PROJECT.json` lists the same components with their files and, under `hazards`,
each place in the code where one of the hard behaviours bites.

## 2. What is modelled

| module | models | checked by | proved in |
|---|---|---|---|
| `Accounts` | accounts, transfers and the internal hook, as concurrent sessions | `MCAccounts` | `AccountsProofs` |
| `AbstractBank` | what that component promises: a bank of one-step operations | refinement from `Accounts` | `AccountsProofs` |
| `Stock` | quantities on hand, and all ten kinds of request that move them | `MCStock` | `StockProofs` |
| `Sessions` | a request and its database session, shared by the modules below | with them | `SessionsProofs` (lemmas) |
| `Sales` | invoices, payments, returns, refunds; customers and their balances | `MCSales` | `SalesProofs` |
| `Purchases` | purchases, payments, returns, refunds; suppliers and their balances | `MCPurchases` | `SpendingProofs` |
| `Production` | orders, their lines, cost buckets and outputs | with `Payroll`, in `MCPayroll` | `SpendingProofs` |
| `Payroll` | staff, advances, salaries and piecework, on top of `Production` | `MCPayroll` | `SpendingProofs` |
| `Roles` | roles, permissions, users, assignments and their guards | with `Access` | `AccessProofs` |
| `Access` | `require_permission` and its versioned cache in Redis, on top of `Roles` | `MCAccess` | `AccessProofs` |
| `AbstractAccess` | what `require_permission` promises, caches or not | refinement from `Access` | `AccessProofs` |
| `Tokens` | pairs of tokens, the blacklist, the revocation, and time | `MCTokens` | `TokensProofs` |

`Sums` has no model in it: it holds the lemmas about sums over finite sets that the proofs
need. `SpendingProofs` has two halves, about what suppliers and about what staff is paid; the
definitions of `Payroll` that it uses beside those of `Purchases` are named apart (`PayrollInit`,
`PayrollNext`, `PayrollSpec`, `PayrollTypeOK`).

The modules share the execution model above. Each has committed rows, and for
every session the locks it holds, the objects it keeps and the writes it has not
committed. `Commit` publishes them in one step, `Rollback` discards them and may
happen at any moment. A lock is taken by an action that is enabled only while the row
is free. `Accounts` and `Stock` have variables of their own for this; the others
extend `Sessions`, where `db` holds the committed rows by key, `mine[r]` the versions
that session `r` has written, `held[r]` the rows it has locked, and `job[r]` the request
with the step it has reached. `Seen` is what a plain read returns, `Locked` what a locking
read returns to a session that may have an older object, `Flushed` what an UPDATE writes.

### Accounts and AbstractBank

A request is a walk of `pc[r]` through the awaits of its handler: the locking
reads `LockFrom` and `LockTo` (`get_with_lock` and `_active_account_or_404`), the
postings `DebitAccount` and `CreditAccount`, the unlocked `ReadAccount` and the
waiting `FlushAccount` of deactivate and update, and `Commit`. `view` is the
`current_balance` of the session's objects, `posted` the rows it inserted.
`DeadlockAbort` is PostgreSQL breaking a cycle.

`AbstractBank` has no sessions. `Open`, `Close`, `Post` and `Move` act on the true
state in one step. The refinement mapping is the identity on the committed rows:
a `Commit` is one abstract operation, every other step stutters.

### Stock

A request is a *program* of steps, built by an operator per handler
(`CreateSale`, `UpdatePurchase`, `CompleteOrder`, ...) in the order of the code:
`Read` (`get_or_404` and the caller's checks), `Pin` (a relationship that keeps an
item), `Move` (`_apply_stock_change`) and `Delete`. `objects[r][i]` is the object
the session has of item `i`. A `Read` drops the object the loop variable referred to
before, unless it is pinned; a `Move` on an item with an object computes from that
object, otherwise from the locked row. `fresh` is not a column: it marks rows whose
session had no older object of the item, so that properties can tell the two cases apart.

Where SQLAlchemy's behaviour is a matter of its version (`update_purchase`, whether
`purchase.items` survives the refresh of the header), both ways are modelled.

### Sales

`loaded` is the row as first read, `kept` the customer object that lives in the session,
`dues` what is still to be added to customers' balances, in order. `ApplyDue` stands for
every "lock the customer, compute, write" of the code (`apply_sale_to_balance` and its
copies): it computes from the kept object when there is one and writes only the attributes
that changed. `Owed` is the amount `create_sale`, `update_sale` and `void_sale` compute for
an invoice. `FlushUpdate` writes only the fields of the invoice that differ from what was
loaded. `FlushRefund` writes the absolute `received_amount` that the handler computed, or fails
where the text of the settlement does not fit its column. `update_customer` changes the credit limit and whether the customer is active;
`LedgerBalance` is the last row of `get_ledger`.

An invoice has one line of price 1, so that total and quantity are the same number.
`create_return` makes several reads in a row; they are one step, and what the model
claims of returns does not rest on the reads agreeing.

### Purchases

As `Sales`, with the differences of the code: an approval locks the purchase and sums the
returns under that lock; returns have a total of the client's (the unit price is part of the
request) and a penalty; a supplier has a catalogue that `update_supplier` replaces.
`update_purchase` is the sequence `FlushPatch`, `SettlePaid`, `Reapply`: the header is
flushed and refreshed first, so the old due amount is computed from the new values.
`record_payment` writes the purchase, locks the supplier and then fails, because the body it
passes on has no `note` (`supplier_service.py:319`): the model has the walk and the failure, and
`PaymentsRecorded` what the code says should have come of it.

### Production and Payroll

A labour line belongs to an order and a member of staff, and what is unpaid of the lines of
completed orders is what a piecework payment is allocated over (`Unpaid`, `Fifo`). The buckets
of an order are recomputed from the collections loaded before the new line (`Recomputed`).
`create_order` takes lists of labour lines and of costs; what a line of labour has earned is a
quantity with three decimals times a rate with two, so it is counted in thousandths of a
cent: `Cents` rounds each line in its own row (`LaborRow`) and the sum of the unrounded ones in
the header (`Created`), which therefore need not agree.
A payment reads pending advances and dues without a lock and commits later; `loaded` holds
what it read. The two modules share `db`, and their requests interleave.

### Roles, Access and AbstractAccess

`Roles` has the handlers of roles and users with their unlocked guards and the foreign keys
that the database does enforce (here the key locks matter, so they are modelled). `Access`
adds Redis: a change commits and then increments the version (`CommitChange`, `Announce`), and
a check reads the user, the version, the entry of that version, the database, and fills the entry
in two calls. Each call may fail where `Faults` says so. An absent version is read as 1,
which is also what the first increment gives. `AbstractAccess` has no cache: a request that
arrives while every change is in force is granted only to somebody who was active and who held
the permission since it arrived. The mapping (`Guard`) takes users and holders from the
committed rows and the answer from the request's step.

### Tokens

`now` counts ticks, `Ticks` to a second, because claims, TTLs and `revoked_before` are
truncated to seconds and what is left of a second matters. `Tick` may happen between any two
steps. `blacklist` and `revoked` hold the moment at which their key goes; a key is there while
`now` is before it. `CheckBlacklist`, `CheckRevoked` and `Consume` are separate calls of Redis;
`SkipChecks` is a Redis that cannot be reached, where the code goes on. `spent` and `cutoff` are
observers: what was ever blacklisted, and the revocation of the last committed change.

### How they compose

`Payroll` extends `Production` and `Access` extends `Roles`: one state, all handlers. Stock
against documents, and accounts against payroll or inventory, are not composed: a document's
handler and its stock moves commit together, a failure of one is a `Rollback` of the other, and a
`Rollback` is possible at every step of each module. What relates two of them (stock reversed
twice by two voids) is listed under the hazards.

### Steps that are taken together

A few handlers make several awaited reads that the modules take as one step, where no property
depends on what happens between them; the comment at each says so: the reads and the count of
`AssignUserRoles`, the user and its roles in `LoadUser`, the TTL and the SET of `Consume`, the lookups
of `CreateReturn`. `DeleteLinks` deletes rows by their keys, also those that another session has deleted and
inserted again while it waited, which a DELETE of PostgreSQL would pass over.

### Not modelled

* Names, texts, categories, units, prices, and the uniqueness of names.
* The share locks that foreign keys take (`FOR KEY SHARE`), outside `Roles`. They only make
  sessions wait, so the models have more behaviours than the code; a deadlock they cause ends
  in a `Rollback`, which is always possible. Whether requests get through in spite of them
  is not answered (see the hazards).
* `record_reference_transaction` (an insert that touches no balance), the account
  posting inside `adjust_stock`, `confirm_sale` and `confirm_purchase` (nothing is ever a
  draft, so they always refuse), the rows of payments, refunds and of the ledger.
* Attendance, salary structures and the report of a month's earnings: no payment reads them.
* Password hashing, token signatures, rate limits, `sync_permissions` at start-up.
* Background jobs: they insert notifications and refresh views that nothing else reads
  back. Their two hazards are listed without a property.
* Audit log, reports, dashboard, search, export, WhatsApp, application shell: a single
  insert, a read or a call, with no state that a property could be about. Schema migrations run
  once; the state that the roles migration leaves is `RolesInit`.

## 3. Runs

Bounds are constants of the modules, set in the `.cfg` files.

| run | properties | what it shows |
|---|---|---|
| `accounts` | `TypeOK`, `SessionInv`, `NoOverdraft`, `LedgerChain`, `TransferLegs`, `Conservation`, `BankSpec`, `RequestsEnd` | two accounts, two sessions, two transfers, three rows per account: every interleaving reconciles and refines the bank, and every request ends |
| `accounts_close` (violation) | `CloseOnlyAtZero` | `deactivate_account` reads balance 0 without a lock, a transfer commits, the account is closed with money in it |
| `stock` | `TypeOK`, `FreshRowsChain`, `MovementsAddUp`, `KeptSalesStayAboveZero`, `DeletedItemsRest` | two items (one created on the way), documents of one line, of the same item twice, of two items; ten kinds of request and deletion, two at a time |
| `stock_negative` (violation) | `NeverNegative` | two sales of the same stock |
| `sales` | `TypeOK`, `PaymentsApplyOnce`, `LockedBalanceMoves`, `DeadStaysDead` | one customer, one invoice, one return, two sessions, five requests of eleven kinds in any order |
| `sales_balance` (violation) | `SalesRaiseBalance` | a payment that commits between a sale's first look at the customer and its lock is overwritten |
| `sales_returns` (violation) | `ReturnsWithinSold` | two pending returns of everything are both approved |
| `purchases` | `TypeOK`, `OnlyVoidsDeadlock`, `MoneyMovesBalance`, `LastApprovalMarks`, `DeadStaysDead` | one supplier, one purchase, two returns, two sessions, five requests of eleven kinds |
| `payroll` | `PayrollTypeOK`, `AdvancesTakenBack`, `PaymentsAllocated`, `PaidWorkIsDone`, `OverpaidOnlyByRace`, `StatusAndCostsApart` | an order with two lines of labour and a cost, a member of staff with two advances and two payments, five requests, two at a time |
| `access` | `TypeOK`, `CacheAgrees`, `RolesInUseStay`, `GrantsAreJustified`, `LastSuperAdminOnlyByRace` | two users, two roles, three requests (changes and checks), every call of Redis may fail: the cached check implements `AbstractAccess` |
| `access_heals` | `CacheHeals` | with lost increments and writes, wrong entries expire |
| `tokens` | `TypeOK`, `ExchangedOnce`, `LoggedOutStaysOut`, `RevokedStaysOut` | one user, two pairs, two sessions, four requests, half-second ticks up to the fourth second, which is past the end of every key and token of the first ones |

### Further configurations

`PROJECT.json` lists the runs above. The configurations below are kept beside them: each checks one property
that quotes the code, its comments or its documents, and in each TLC finds it violated by what the
code does (section 5).

| configuration | of module | property | what happens |
|---|---|---|---|
| `MCStockChain.cfg` | `MCStock` | `EveryRowChains` | a sale subtracts from the object it read before its lock, over what was committed in between |
| `MCSalesRejection.cfg` | `MCSales` | `ApprovedReturnsStay` | a rejection overwrites an approval that was committed after its look at the status |
| `MCSalesRefunds.cfg` | `MCSales` | `RefundsCount` | of two refunds that overlap both are paid and one is counted |
| `MCSalesSettlement.cfg` | `MCSales` | `RefundsUpdateReturn` | a partial refund always fails: its status does not fit the column |
| `MCPurchasesPayments.cfg` | `MCPurchases` | `PaymentsRecorded` | a payment of a purchase fails after it has written the purchase and the balance |
| `MCProductionTotals.cfg` | `MCPayroll` | `LinesRecomputed` | a line is added and the header does not count it; one session is enough |
| `MCProductionLifecycle.cfg` | `MCPayroll` | `OrdersEndOnce` | one order is completed twice |
| `MCPayrollMonth.cfg` | `MCPayroll` | `OneSalaryPerMonth` | two payments that overlap pay one month twice |
| `MCPayrollAdvances.cfg` | `MCPayroll` | `AdvancesDeductedOnce` | two payments that overlap deduct one advance twice |
| `MCPayrollDue.cfg` | `MCPayroll` | `NeverOverpaid` | two payments that overlap are allocated over the same lines |
| `MCAccessAdmins.cfg` | `MCAccess` | `SuperAdminRemains` | two assignments that overlap each leave the other's user as the last Super Admin |
| `MCTokensRotation.cfg` | `MCTokens` | `NeverReused` | two refreshes that overlap exchange one token |

### What the properties say

* **Accounts.** `NoOverdraft`: no committed balance is negative. `LedgerChain`: each
  row's `balance_after` follows from the row before it and the last one is the current
  balance, so no update is lost. `TransferLegs`: a committed transfer has exactly its two
  rows, and no row points to a transfer that did not commit. `Conservation`: transfers
  create and destroy no money. `SessionInv` is the argument for the row locks; `BankSpec` the
  refinement.
* **Stock.** `MovementsAddUp`: each row adds its quantity to what it says was there
  before, and the stock is what the last row says. `FreshRowsChain`: a row computed
  from the row it locked continues the chain; together they say that an update can only be
  lost by a session with an older object. `KeptSalesStayAboveZero`: a sale never leaves a
  negative number behind an item whose object it checked and kept, which needs the check to
  add up the lines of one item. `DeletedItemsRest`: a deleted item gets no rows from sessions
  that first see it deleted.
* **Sales.** `PaymentsApplyOnce`: a committed payment raises `paid_amount` by its amount
  and never above the total, although edits, voids and other payments of the same
  invoice run at the same time. `LockedBalanceMoves`: payments and refunds move
  the customer's balance by exactly their amount, across zero too, and a payment moves the end of
  the customer's statement (`get_ledger`) alike. `DeadStaysDead`: no
  handler that goes by a status it read without a lock reopens a void or returned invoice.
* **Purchases.** `MoneyMovesBalance`: payments to a supplier and refunds from one move its
  balance, and the end of its ledger, by exactly their amount. `LastApprovalMarks`: approvals that overlap
  cannot miss each other, unlike in sales. `OnlyVoidsDeadlock`: every handler but
  `void_purchase` locks return, purchase and supplier in that order. `DeadStaysDead`: as for sales.
* **Production and payroll.** `StatusAndCostsApart`: no lock keeps the requests on one order apart,
  and each writes a header that it read earlier; that a line which is added undoes no start, completion
  or cancellation, and that these leave the buckets as the line left them, rests on which attributes each
  of them writes. `AdvancesTakenBack`: what is marked as
  deducted was deducted, though two payments may deduct the same advance. `PaymentsAllocated`:
  the entries of a piecework payment are for lines of its own staff and add up to its gross.
  `PaidWorkIsDone`: an order of which a line is paid has yielded an output, whatever its
  status became since. `OverpaidOnlyByRace`: a line is paid twice only by a payment that another
  one overtook, and a payment of what is due lowers what `get_unpaid_earnings` reports.
* **Access.** `CacheAgrees`: while every change has been announced, no entry that a request
  can find contradicts the database; the case to fear is a change that commits between a
  request's SELECT and its SADD. `GrantsAreJustified`: the refinement. `RolesInUseStay`: no
  assignment of a role that is gone. `LastSuperAdminOnlyByRace`: the guards fail only
  if two requests overlap, so that the one that commits began when others were Super Admins than
  are now. `CacheHeals`: after a failure of Redis too, the cache is right again
  and again.
* **Tokens.** `ExchangedOnce`: a refresh token that was consumed is exchanged again only by a
  request that had begun before, or while Redis fails. `LoggedOutStaysOut`: after a logout the
  access token is let in no more, but for the last second before its `exp`, when the key, whose TTL is rounded down, may
  be gone. `RevokedStaysOut`: after a change of password no older token is let in or exchanged
  that was issued before the second of the revocation, unless Redis failed or the token has
  expired since the request came.
* **The violated properties** of the last table and of the four violation runs state what the
  code, its comments or its documents say. Beside several of them stands a property of a passing run that says
  how far the damage goes: `EveryRowChains` fails only for rows that are not `fresh` (`FreshRowsChain`),
  `NeverOverpaid` and `SuperAdminRemains` only by a race (`OverpaidOnlyByRace`,
  `LastSuperAdminOnlyByRace`), `NeverReused` only for a request that had begun before (`ExchangedOnce`),
  and an advance may be deducted twice, but is not marked without being deducted (`AdvancesTakenBack`).

### Bounds, and why they are enough

* Two sessions. Every property relates one session's read to another's commit, and
  lock exclusion is pairwise. A deadlock of two is the shortest cycle; with two
  accounts there is no longer one. The proofs remove this bound, and those below, from
  every safety property.
* `MaxRows` (3 rows per account; in `Stock` requests stop arriving once 3 movement rows
  exist) leaves room for two overlapping writers on top of a history, which is what a lost
  update needs. Deletion is exempt in `Stock`, so that nothing is stuck at the bound.
* `MaxArrivals` counts requests: 5 in `sales`, `purchases` and `payroll` (document, return,
  approval, refund and one that races them; order, line, start, completion and a payment), 4 in
  `tokens`, 3 in `access` (a change, a second change or check that overlaps, a check that comes after).
  It is a counter of the models, so their system stops there and these runs do not check
  deadlock. `accounts` and `stock` do.
* `sales`: `Limits = {2}`, an opening balance of 1 and `Amounts = {1, 2}` let a sale on credit
  exceed the limit, a payment be a part or the whole, and a return or a customer payment cross zero.
  `purchases`: `Totals = {1, 2}`, `Penalties = {0, 1}`: an edit up or down, one return that
  covers the purchase or two that do so together, a refund reduced by the penalty.
* `payroll`: a line of labour earns 1.5 cents, so that its row says 2 and the header of an order created
  with two lines 3; payments are 1 (part of a line) or 3 (a line and a part of the next). One month: what a
  month decides, which advances are pending and whether a salary was paid, is then decided by the order
  of the requests alone; per-unit staff may be paid twice in it without a race.
* The configurations whose property is violated restrict `Ops` to the requests that the counterexample
  needs, which keeps it short.
* `access`: `FirstVersion = 0`, no version in Redis yet, which is the case in which the first
  increment is not seen. `access_heals` leaves out failed reads and failed EXPIREs: a failed
  read only bypasses the cache, and an entry whose EXPIRE failed stays until the next increment,
  after which property `CacheHeals` is not to be had (the code promises it for entries with a TTL).
* `tokens`: `Ticks = 2` is the least that puts a moment between two seconds. Lives of 2 and 3
  seconds keep the order of the configured ones, access < refresh = revocation, and `MaxTime = 8`
  outlives a pair issued at the start.
* Symmetry is used on sessions and on the keys of documents, in runs with no liveness
  property only.

### Fairness

`Accounts`: a handler runs on between its awaits
(weak fairness of its local steps and of `Commit`); PostgreSQL queues waiters of a row
lock, so a lock that becomes free again and again is granted (strong fairness of the
locking steps); the deadlock detector fires (weak fairness of `DeadlockAbort`). Nothing
is assumed of `Rollback` or of clients. `RequestsEnd` needs the deadlock detector: two
transfers in opposite directions do wait for each other.

`Access`: an open request goes on (weak fairness of its next step; Redis answers or fails
within its timeout), and an entry with a TTL expires (weak fairness of `Expire`). Nothing
is assumed of arrivals. `CacheHeals` needs both: an entry that a request is about to fill from
an old SELECT has to be filled before it can expire.

No other module states fairness: their properties are of safety.

## 4. What is proved

TLC checks the instances above. The theorems below hold for every value of the constants: any
sets of accounts, items, customers, staff, users and sessions, any amounts, any number of requests.
Every invariant and every action property of the passing runs is among them, and both refinements.

| module | theorem | property |
|---|---|---|
| `AccountsProofs` | `TypeCorrect` | `[]TypeOK` |
| | `LocksWork` | `[]SessionInv` |
| | `ImplementsBank` | `BankSpec`: the refinement of `AbstractBank` |
| | `NeverOverdrawn` | `[]NoOverdraft` |
| | `BalanceIsReconciled` | `[]LedgerChain` |
| | `MoneyIsConserved` | `[]Conservation` |
| | `TransfersAreWhole` | `[]TransferLegs` |
| `StockProofs` | `TypeCorrect` | `[]TypeOK` |
| | `FreshRowsContinue` | `[]FreshRowsChain` |
| | `MovementsAlwaysAddUp` | `[]MovementsAddUp` |
| | `KeptSalesHold` | `[]KeptSalesStayAboveZero` |
| | `DeletedItemsStay` | `DeletedItemsRest` |
| `SalesProofs` | `TypeCorrect` | `[]TypeOK` |
| | `DeadInvoicesStayDead` | `DeadStaysDead` |
| | `PaymentsCountOnce` | `PaymentsApplyOnce` |
| | `MoneyMovesBalances` | `LockedBalanceMoves` |
| `SpendingProofs` | `TypeCorrect` | `[]TypeOK` (of `Purchases`) |
| | `DeadPurchasesStayDead` | `DeadStaysDead` |
| | `VoidsAloneDeadlock` | `[]OnlyVoidsDeadlock` |
| | `ApprovalsMark` | `LastApprovalMarks` |
| | `MoneyMovesBalances` | `MoneyMovesBalance` |
| | `PayrollTypeCorrect` | `[]PayrollTypeOK` |
| | `StatusAndCostsKeptApart` | `StatusAndCostsApart` |
| | `AdvancesCorrect` | `[]AdvancesTakenBack` |
| | `PaymentsCorrect` | `[]PaymentsAllocated` |
| | `PaidWorkCorrect` | `[]PaidWorkIsDone` |
| | `OverpaymentIsRace` | `OverpaidOnlyByRace` |
| | `FifoAllocates` | what the allocation of a payment returns, for any lines in any order |
| `TokensProofs` | `TypeCorrect` | `[]TypeOK` |
| | `TokensExchangedOnce` | `ExchangedOnce` |
| | `LogoutsHold` | `LoggedOutStaysOut` |
| | `RevocationsHold` | `RevokedStaysOut` |
| `AccessProofs` | `TypeCorrect` | `[]TypeOK` |
| | `CacheIsTrue` | `[]CacheAgrees` |
| | `UsedRolesStay` | `[]RolesInUseStay` |
| | `LastSuperAdminByRace` | `LastSuperAdminOnlyByRace` |
| | `GuardIsKept` | `GrantsAreJustified`: the refinement of `AbstractAccess` |

### Assumptions

Each module names what it assumes of its constants, and TLC evaluates it in every run. They say
what the schemas impose (amounts are positive, documents have lines, a cap is a natural number),
what the configuration has (`TokensAssumption`: a refresh token lives no shorter than an access
token, and a revocation no shorter than a refresh token), and that values standing for "none" are not values of the code
(`NoTransfer`, `NoObject`, `NoDoc`, `NoKey`, `NoRow`; `SessionsAssumption`: no request is called
`"none"`). `TablesAssumption`, and `PayrollTablesAssumption`, say of the modules on `Sessions` that
a key belongs to one table, as the pair of a table and an id does; and tables that are summed over
are finite. Which requests may arrive (`Ops`) is left open.

### The argument, module by module

In each module the properties are consequences of one inductive invariant; `InitKeeps` or its like
shows that it holds at first, one lemma per action that the action preserves it, and the theorems
read the property off it. None of the properties is inductive alone, for they speak of committed
rows, and a commit writes what its session computed many steps earlier. What is needed is an
account of what a session knows *between* its reads and its commit, and why the others have not
made it false.

**Accounts.** `TypeOK /\ SessionInv` says, for each point of a handler, which rows the
session has locked (`MustHold`), what its objects show in terms of the balance committed
**now** (`MustSee`), and which rows it has inserted (`MustPost`); and that locks are
exclusive and keys handed out once. The lemma `Undisturbed` is the heart: a
step of one session leaves the `SessionOK` of another alone because it can only change
rows it has locked. With it, `LockStep`, `DebitStep`, `CreditStep`,
`PatchStep` and `BeginStep` treat the actions one by one. `CommitIsBankStep` shows that a
commit is one operation of `AbstractBank`, which gives the refinement; the other
properties are then read off the abstract steps (`ChainExtended`, `LegsKept`, `LegAdded`).
`Conservation` compares two sums: a step of the bank changes one term of each, or two by opposite
amounts.

**Sums.** An induction over sets is out of the provers' reach as a theorem with an operator
parameter, and so is what a recursive function computes. `Sums` goes around both: `LeastSubset`
finds, among the subsets of a finite set for which something fails, one from which no
element can be taken (a least counterexample, from the well-foundedness of `<`), and from it
follows that the fold behind `SumFunction` is defined, that its terms can be taken in any order
(`TakeOut`), and how sums change with a term, a concatenation, an extension, or when a set is taken
apart (`SumOfHalves`, `SumOfParts`).

**Stock.** `IInv` follows a session through its program. Of the rows it has inserted
(`RowsOK`): the item is locked, each row starts where the one before it ended, and if the session
kept no object, the first one starts at the committed stock of an active item; that stays true because
nobody else can change a locked item. Of a sale (`SaleOK`): what it has still to sell of an
item it keeps (`Sold`, a sum over the steps left) is no more than its object says is there.
A read establishes this, since the check covers the total of the lines; a move lowers both sides
alike; and while old lines come back, nothing is kept. `SaleOrder` states the shape of the programs
that this rests on, and `ProgramFacts` derives it from the operators that build them.

**Sales and Purchases.** `SessionInv` (in `SessionsProofs`, with one lemma for each thing that a
handler does to it) says that rows are locked by one session and that a session has written only
what it locked or inserted. On top of it, `VersionsOK` compares each
version a session has written with the committed row it will replace, which is what makes dead
documents stay dead although the handlers read the status without a lock: the flush writes
only changed attributes. `PayOK` says where the money of a payment is: applied to
the invoice and still due to the customer, or in the locked row of the customer. `LocksOK` (in
`SpendingProofs`) is the order of the locks, returns before purchases before suppliers; of
two sessions that wait for each other without a void, each would have to ask for a later kind of
row than it holds.

**Production and Payroll.** Nothing is locked before it is read here, so `PayrollInv` states of every
stale value what survives in it. Of an order, a session's version differs from the row that is committed
*now* only in what its operation writes (`Touches`): at first it differs so from the row that the session
has read, the flush carries over what has changed since, and from the flush on the row is locked; the commit
then gives `StatusAndCostsApart`. Rows of lines and outputs are only ever added (`RowsStay`). A status `completed` that is not yet
committed comes with an output of the same transaction (`WorkSound`), and outputs stay; that carries
`PaidWorkIsDone` although a later flush of an older header may take the status back. `TakesBack`
remembers the set of advances whose amounts a payment has deducted: what is already marked and
what is still to be marked (`dues`) is in it, so when the payment is committed, every advance newly marked
is covered by the deduction; those that another payment marked meanwhile are covered twice
(`SumOfParts`). `AdvancesTakenBack` is therefore an inequality, and no more than that is true of the code.

What `Fifo` returns for any sequence of lines is shown without an induction over the allocation:
`Share` gives the budget that is left at position `i` in terms of the sum over the lines before it, and
`SharesAddUp` takes a least position up to which the shares do not add up to the smaller of the
gross amount and what the lines so far have (`LeastNatural`). As `disburse_salary` has checked
that the gross is not more than the total, the shares come to the gross (`FifoAllocates`), and none exceeds
what its line had left when it was read; `Pays` carries both to the commit. So a line that goes below zero
had another remainder when it was read than it has at the commit (`OverpaidByRace`). That a payment lowers
the amount due (`DueFalls`) compares two sums over different sets of lines: the lines that are paid off
leave `Unpaid`, with nothing left (`SharesLowerDue`).

**Tokens.** `IInv` bounds each key in Redis by the token it is for: a key of the blacklist goes
less than a second before its token (`KeyOK`), a revocation stays for its whole life to the second
(`RevokedOK`); a request that passed a check it should have failed is therefore late
(`ChecksOK`), so late that the claim `exp` refuses it. `CountsOK` ties passwords to arrivals.

**Access.** `LinkOK` carries `RolesInUseStay` through the key locks: rows that an assignment in progress
refers to stay, and nobody has or gets what is about to be deleted. `LastOK` says what a
request that saw a single Super Admin, its own user, can still write. `CurrentOK` makes `CacheAgrees` inductive: not only the entries
of the current version are true, but also those which a request is about to fill in under it.
`NotTold` is what the refinement needs: while a request has not seen its user hold the permission,
neither an entry of its version nor a fill on its way can say so. `AskMaps`, `ChangeMaps`,
`CheckMaps` and `LeaveMaps` then show that each step is a step of `AbstractAccess` or a stutter.

### Only model-checked

* `RequestsEnd` and `CacheHeals`: liveness is out of the prover's reach.
* What the violation runs show: a counterexample is an instance.

## 5. Where the code and its documentation disagree

Items 1 to 4 are `violation` runs and findings in `PROJECT.json`; the others are shown by the
further configurations of section 3, and listed with the hazards. The comment above each property
quotes the text that it states.

1. `deactivate_account` can close an account with money in it (`transaction_service.py:201`).
2. Two overlapping sales make the stock negative (`sale_service.py:141`).
3. A credit sale can overwrite a customer payment that committed while it was
   running (`sale_service.py:121`).
4. Two pending returns of one invoice can both be approved (`sale_service.py:888`).
5. The locking read of `_apply_stock_change` may return an object from before the lock, so that a
   movement does not start from the current stock (`inventory_service.py:91`).
6. Of two refunds of a sale's return that overlap, `received_amount` counts one
   (`sale_service.py:1008`). `record_return_payment` of purchases reads without a lock as well.
7. A partial refund of a sale's return always fails: `partially_settled` does not fit the
   `String(10)` of `settlement_status` (`models/sale.py:229`).
8. A rejection can overwrite an approval of the same return (`sale_service.py:946`).
9. A payment of a purchase always fails: `supplier_service.record_payment` reads a `note` that
   the body does not have (`supplier_service.py:319`).
10. The buckets of a production order do not count the line that was just added
    (`production_service.py:460`).
11. A production order can be completed twice, or completed and cancelled (`production_service.py:320`).
12. A month's salary can be paid twice: the constraint that the module relies on was dropped by a
    migration (`staff_service.py:516`).
13. An advance can be deducted twice (`staff_service.py:545`).
14. A labour line can be paid more than it came to (`staff_service.py:528`).
15. The last two Super Admins can lose the role to two requests that overlap (`rbac_service.py:361`).
16. A refresh token can be exchanged twice (`auth_service.py:185`).

Items 7, 9 and 10 need no overlap: the property fails in a single request.

Noted while modelling, without a run of their own:

* With several lines of labour the header of an order sums what is then rounded once, and each line
  rounds its own cost (`production_service.py:146`, `models/production.py:141`): they may differ by a cent
  per line.
* The supplier statement is described as consistent with the balance (`supplier_service.py`,
  `get_ledger`), but it counts void purchases, counts as debits the supplier payments only, and
  gives the opening balance the sign of the balance of today. What does hold is in `MoneyMovesBalance`.
* `core/arq_pool.py:43` says no lock is needed, but awaits between its check and its assignment.
* `get_per_unit_earnings` compares the gross earnings of a month with net payments
  (`staff_service.py:420`).

## 6. Plan

What is left, in order of importance:

1. `Stock` with the locks of foreign keys: two sales of one item, and whether one of them gets
   through; double voids.
2. Invoices of several items in `Sales`: approvals of returns of different items do not wait for
   each other, so neither marks the invoice returned.
3. Background jobs: alerts and due-invoice notifications under retry.
