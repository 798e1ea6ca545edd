# Flowfolio: a verification development

TLA+ modules that model Flowfolio (a self-hosted investment tracker: FastAPI and
SQLite behind a Next.js front end), TLC configurations that check them on small instances, and
theorems about them that TLAPS proves for instances of every size.

Paths below are relative to `src/`; `app/` abbreviates `backend/app/`.

## 1. Inventory

### How the program runs

One process (`WEB_CONCURRENCY=1`) runs one asyncio event loop. It serves the HTTP requests and,
through APScheduler, the background jobs. Every request and every job owns a SQLAlchemy
`AsyncSession`; all of them share one SQLite file in WAL mode. Four facts decide which
interleavings exist:

* Code between two `await`s is atomic; every awaited statement lets another request run.
* A `SELECT` before a session's first write sees committed rows and holds no lock. The first
  `flush` takes SQLite's single write lock. It is held until commit or rollback, and others wait for
  it (and fail when the driver's busy timeout has passed).
* A session's identity map returns the object it loaded first: a later `SELECT` of the same row
  filters and orders by the table's columns but hands out the *old* object.
* A flush emits `UPDATE` for the columns that changed in the session, not for the whole row.

### Components

| component | state it keeps | operations | correct when | hard behaviour |
|---|---|---|---|---|
| Lot matching (`app/services/fifo.py`, `app/core/lot_semantics.py`) | `lot_alloc` | wipe and recompute a position | FIFO, nothing overdrawn, allocations a function of the live rows | order, ties, changed signs, shortage half-way |
| Transaction ledger (`app/routers/transactions.py`, `app/services/audit.py`) | `transaction`, `audit_log` | POST, PUT, DELETE | disposals covered, tombstones final, deletions audited | stale copies, races, refusal after a flush |
| Linked trades (`app/services/trades.py`) | `trade_pair_id` on two rows | create a pair, delete cascade | both legs live and die together | two recomputes in one transaction |
| Reconciliation (`app/services/reconciliation.py`) | `reconciliation_event` | preview, save an event | an accepted drift closes the gap | holdings read before the lock, partial failure |
| Daily accrual, job runs (`app/services/accrual.py`, `job_runs.py`) | `job_run`, yield rows | accrue a day, 90-day backfill | at most one yield a day and position; every day accounted for | crash, failure marker, retry |
| APY configuration (`app/routers/apy_config.py`) | rate periods | add, end, reopen | the rate of a day is well-defined | overlapping periods |
| FX rates (`app/services/fx.py`, `backfill.py`) | `fx_rate` | cache-first fetch, override, gap-fill | a stored rate is that of its date or of an earlier published day, and stays | concurrent misses, gaps in the history |
| Price fetching (`app/services/pricing/`, `app/routers/prices.py`) | price snapshots | override, fallback chain | an override wins; one failure harms one instrument | partial failure |
| Scheduler (`app/services/scheduler.py`) | none of its own | daily jobs, misfire handling | jobs do not overlap themselves | failure of one step |
| Authentication (`app/core/auth.py`, `throttle.py`, `app/routers/auth.py`) | token epoch, TOTP secret, throttle | login, password, second factor | an old session dies; a secret is never half enabled | cached epoch against the stored one |
| First-run setup (`app/services/setup_state.py`) | setup row | claim | one owner | two simultaneous claims |
| Key store (`app/services/key_store.py`) | encrypted keys, process cache | set, remove, read | cache and table agree | cache written before commit |
| Cost basis, realized gains (`cost_basis.py`, `realized.py`, `closed.py`) | none (read) | open lots at a date, gains | gains of closed positions partition the whole | dates before later edits |
| Net worth, performance (`networth.py`, `perf.py`, `date_cursor.py`) | none (read) | daily series, TWRR | cursor replay equals a scan | missing prices and rates |
| Allocation, concentration, tags | tag rows | groupings | shares add up | little |
| Accounts, instruments | rows the ledger refers to | create, edit, delete | nothing dangling | delete against use |
| Demo reset (`demo_reset.py`) | the database file | replace it | the process serves the new file | replacing a file under open sessions |
| Backup, restore (`scripts/*.sh`) | backup files | dump, rotate, restore | a restore never loses the data it replaces | interruption |
| Update check (`update_*`) | one row | fetch, dismiss | - | little |
| Migrations | schema | run once before serving | - | out of scope |
| Web front end (`frontend/`) | query cache, open dialog, form, cookie | open, type, submit, close, follow a redirect | success is reported for what was saved; lists catch up; its sums agree with the server's | dialogs outlived by their requests, lost answers, cached rows, redirects that loop |

Interactions. The ledger, linked trades and reconciliation all call
`recompute_fifo_for_pair` after they flushed their rows and before they commit: it is the one
writer of `lot_alloc`. All three, and accrual, write the transaction table. Cost basis, realized
gains and net worth read transactions and allocations. Ledger writes ask the FX service for a rate
of their date; the FX service never commits, its caller does. Accrual reads the balance and the APY
timeline and writes yields, which open no lots.

## 2. The modules

| module | stands for |
|---|---|
| `LotSemantics` | transaction types, sign convention, which rows open or consume lots, the order of rows, and the definition of the attribution |
| `LotAttribution` | the abstract recompute: attribute the whole position in one step, or refuse it |
| `FifoMatch` | `recompute_fifo_for_pair` and `match_lots_for_sell` as loops; implements `LotAttribution` |
| `Ledger` | the requests that change transactions, allocations, audit trail and reconciliation events, interleaved |
| `Accrual` | the nightly accrual with its backfill and run records, and the timeline of APY rates with the form, tab and `PATCH` that edit it |
| `Session` | claiming an instance, signing in, password and second factor: backend, middleware and pages together |
| `TxnScreens` | the transaction list of a tab with its add, edit and delete dialogs, against the ledger's answers |
| `ReconScreen` | the reconciliation page of an account, against the endpoint that saves an event |
| `Screens` | composes the two: one tab on either page |
| `Portfolio` | the figures the pages show of one ledger: holdings, pies and drill, headline, realized totals, net worth chart |
| `FxRates` | the rate table and all its writers: lookups, backfills, the nightly job, the override |
| `InstrumentScreens` | the catalog with its create and edit dialogs, manual prices, backfill and deletion |
| `Valuation` | composes the three: one of them at a time |
| `FifoMatch_proofs`, `Ledger_proofs`, `LedgerSerial_proofs`, `Accrual_proofs`, `Session_proofs`, `Screens_proofs`, `Valuation_proofs` | theorems about the module of that name |
| `Induction_proofs` | what those proofs share: least and greatest elements, sums over finite sets |
| `MC...` | small instances for TLC |

### FifoMatch

State: the rows of one (account, instrument) position, `alloc` (`lot_alloc` as a function of
consumer and lot; 0 is the absent row), `consumed` (`consumed_by_lot`), and the loop variables.
Actions: `Wipe` (the `DELETE` keyed by owner, then the `SELECT` of the consumers), `NextConsumer` (the outer
`for`), `VisitLot` (one round of the inner `for`: skip an exhausted lot or draw on it),
`ConsumerCovered` and `Refuse` (the break, and the `ValueError` on a shortage), `Finish`. The rows do
not change: the caller holds the write lock.

The initial states include allocations left behind under rows that were deleted or whose sign has
changed since, which is the state the keyed-by-owner wipe exists for. The code recomputes
`consumed_by_lot` for every consumer by a `SUM` over the allocations; the model keeps a running
total, and `ConsumedIsAllocated` checks that the two are the same. `created_at` orders rows of a day; rows of
one transaction share a timestamp and SQLite returns them by rowid, hence ids. Quantities are
integers: the code uses exact `Decimal`s, and division never occurs here. `realized_gain_eur` is a
product of the matched quantity and is left out.

`LotAttribution` says what the callers rely on, without a loop: lay lots and disposals end to end;
a disposal draws from a lot the length on which their segments overlap; the position is refused
when the disposals reach past the last lot. `ImplementsAttribution` checks that the loops do that,
with every intermediate state hidden by the refinement mapping.

### Ledger

State: `txns` (the transaction table in insertion order; a row's number is its id and creation
time), `matched` (per position, the rows its allocations were last computed from), `audit`,
`events`, `request` (what the request of a client has read so far), `lock` (SQLite's write lock) and
`staged` (the uncommitted view of the request that holds it).

`matched` is the step from `FifoMatch` to `Ledger`: since a recompute replaces a position's allocations
by a function of the rows it read, recording those rows says what the allocations are, whether
they are still right, and whether a refusal was due, without repeating the loops.

| request | actions | why so many |
|---|---|---|
| `POST /api/transactions` | `CreateTransaction` | nothing the properties depend on is read before the first flush |
| `POST /api/trades` | `CreateTrade` | likewise; two rows, two recomputes, one commit |
| `PUT /api/transactions/{id}` | `BeginUpdate`, `CommitUpdate` | the row is loaded and checked before the lock is taken |
| `DELETE /api/transactions/{id}` | `BeginDelete`, `CommitDelete` | likewise; the partner is looked up under the lock |
| `POST /api/reconciliation/events` | `BeginReconcile`, `StageEvent`, `StageDecision`, `StageRejected`, `CommitEvent`, `Rollback` | holdings are read before the lock; a refusal half-way must undo the adjustments made so far |
| any | `Abandon` | refused, timed out at the lock, client or process gone |

`CommitUpdate` follows the session closely, because that is where the code is delicate.
`Edited` is the session's object after `setattr`, `Written` the row after an `UPDATE` of the changed
columns only, `ViewInSession` what the recompute reads: rows chosen and ordered by the table, the
quantity of the edited row taken from the session's object. `PossibleDiffs` is `compute_field_diff`, which
compares the unsigned quantity of the body with the signed one of the row.

A crash loses what was not committed: it is `Rollback` or `Abandon` of every request in flight, in
any order, and nothing else in this model survives in memory.

Abstractions. `price` stands for `unit_price`, `fx_rate_to_eur` and the price currency and `notes` for
`notes` and `fee_eur`: they only decide whether a recompute runs and what the audit trail says, and whether their
value differs is left open. `cost_basis_eur` and the FX lookup are left out (a failed lookup is a `Rollback` or an `Abandon`). Yield rows are
entered by hand in this model; the accrual job will write the same rows.

### Accrual

State: the calendar (`today`), whether the process is `up`, `jobRuns` (the status of the accrual of
each day), `run` (the step and the day of the job in progress), `rates` (`apy_config`), `yields`
(transactions with source "accrual"), what balances and prices there are (`deposited`, `priced`) and what
each open APY tab has sent.

A run is `StartRun`, then per day `SkipDay`, or `ClaimDay` (the flush of the "running" marker, which
takes the write lock) and `AccrueDay` or `FailDay` with `MarkDay` (the second transaction that records
the failure). `Stop` may fall between any two, `TimeOutAtLock` at the two flushes; a time-out ends the
run, because the session refuses every later statement until it is rolled back. A night on which the process
is down is not made up for (`Midnight`). `ClearMarker` is the operator who deletes a failed record so that
the day is tried again. `ReadPrior` and `CommitRate` split the POST of a rate at its read of the
open row; `PatchRate`, `DeleteRate`, `DeleteYield` and `QuoteArrives` are what else changes under a run.

The amount of a yield is what it was computed from: its rate, and the days of the yields in the balance
(`on`). That is enough to say that none is missing, early or counted twice.

### Session

State: the backend's (`password`, stored `epoch`, `cached` epoch, `totp`), the throttle, and per browser its
`page`, `cookie`, request in flight and the Security section. A password is the set of claims that stored
it, a cookie is the epoch it was issued at, a secret is a number. Pages "to..." are a navigation under
way: `Arrive` is one hop through `middleware.ts`, which sees only whether there is a cookie, and asks the
backend whether it is claimed. `Serve` are the handlers, cut at their awaits: the claim's early check and
its gate (`INSERT ... ON CONFLICT DO NOTHING`), the password and the cookie of a login, the commit of a password
change and the publication of the cached epoch, the check and the write of an enrollment. `Expire` is the
page that meets a 401, `Restart` a new process (memory is lost, requests fail), `CookieDies` a token that
runs out before its cookie.

The code form holds its pre-auth token in the state of the page. `PreAuthDies` is that token past its five
minutes; 2FA may also be switched off, or its secret replaced, in another browser. The form knows nothing
of either: it sends the same token again (`SubmitCode`), gets the same 401, counts a strike each time, and
offers no way back (`login/page.tsx:104-108`). `Reload` is the owner's reload of the page, which forgets the
token; nothing on the page asks for it.

`Overlap` says whether requests of the Security section may overlap. The run has it FALSE: one person
uses all browsers, one request after the other, which the code does not enforce. With TRUE, two password changes can publish their epochs in the wrong order, and an
enrollment can overwrite the secret another browser has just confirmed: `EpochsAgree` and `OwnerHasTheSecret`
are then violated, since the code guards neither; the properties are claimed, and checked, without that overlap only.

### Screens

`TxnScreens` keeps the server's rows, the cached list with the fetch in flight, the cached row of the
edit dialog, the cached exchange rates, the one open dialog and the mutations sent. A mutation outlives
its dialog; its answer invalidates the list and closes *whatever* dialog of its kind is open by then. A trade is edited
by two PUTs of which one may be refused (`SucceedInPart`), and deleted by one request that cascades. The
form's values are what `defaultValues` read when it mounted, from cached rows of any age, with the rate
prefilled by `FxRateField`. A refetch drops the one in flight (`Invalidate`): a list read before a save
must not be shown after it.

`ReconScreen` keeps the page's preview, typed quantities, decisions, added rows and staged transactions,
and the body in flight. The server computes every quantity it writes when it commits (`Gap`), from the
holdings sent and the positions of that moment. Changes from elsewhere, retyping after a decision, changes
of the date and lost answers fall anywhere.

The server's side of both is one atomic step per request: its races are `Ledger`'s subject, the holdings that
`save_event` reads before it takes the lock among them (`ledger_stale_drift`). `Screens` follows a tab on
the page it opened, since leaving a page unmounts its forms.

### Valuation

`Portfolio`: the ledger's positions (`lots`, `yields`, `gains`, closing and latest quotes) under buys, disposals, yields
and quotes, and the state of the pages (the drill, the switch, the selection of the chart). The
definitions are the folds of the code: `OpenRow`, `ClosedRow`, `Attributed` (backend), `Aggregated`,
`Totals`, `InstrumentFigures` (browser), `Slice`, `LastPoint`. A closed row has an average cost only if some unit
disposed of had a cost, and the quote of the day of its last disposal, also when that is fetched later in the day. A unit bought is one entry of `lots`; a
figure that may be absent is a set of at most one element. `FiguresAgree` says that the five ways to show the same
money agree.

`FxRates`: `stored` maps a day to the day its rate was published for (or to a manual rate). A request
reads, awaits the provider, reads again and commits; the commit of a day that has a row by now fails as a
whole (`Conflict`). A weekend day is answered by a walk back, which also inserts the published day.

`InstrumentScreens`: creating an instrument with a first price takes two requests; the form hears of
the first only while it is mounted, and the answer to the second closes the dialog whatever it holds.
The edit dialog sends the whole instrument. Manual prices may be added to any instrument: the endpoint does not look
at its source, and the page that does (`canHaveManualNav`) may show one from before an edit. What the dialogs offer (`Offered`, `Modes`) and what the server
accepts (`Allowed`) are separate tables, as in the code.

The three write different tables and share no form; `Valuation` follows one at a time.

## 3. The runs

| run | instance | shows |
|---|---|---|
| `fifo` | every position of 4 rows over 2 days: buys, sells, trims, zero adjustments, top-ups, a yield, tombstones, leftover allocations; 563 thousand states | matching is FIFO on both sides, overdraws nothing, agrees with the signed holding, terminates, and implements `LotAttribution` |
| `ledger_serial` | one client, 2 positions, 2 days, 4 transactions of which one is an opening lot, one edit (a quantity, a date or the notes), one event; 2.0 million states | with one request at a time: allocations current, disposals covered, trades pairs that die together, deletions audited exactly once, tombstones frozen, the drifts accepted by a clean body closed |
| `ledger_races` | two interchangeable clients, 3 transactions, one edit, one event; 1.9 million states | what holds whatever races: both legs die together, allocations stem from live rows under present dates, deletions are audited and final |
| `ledger_stale_edit` | the same with two edits | a violation of `AllocationsCurrent` (section 4) |
| `ledger_stale_drift` | as `ledger_races` | a violation of `AcceptClosesGap` |
| `accrual` | 1 position, 4 days, backfill of 2, 2 faults, 2 rates, 1 tab; 463 thousand states | yields appear only with the "ok" of their day (`YieldsOfOkDaysOnly`), once a day and rate (`OneYieldPerRate`), on top of every earlier one (`YieldsCompound`), their rate stays (`YieldsKeepTheirRate`), and every day is accrued or marked in the end (`EveryDaySettled`) |
| `session` | 2 browsers, lock-out after 2, 1 password change, 2 secrets, 2 faults; 519 thousand states | one of two racing claims wins, the cached epoch is the stored one at rest, 2FA is on only with a secret the owner has, and every browser gets in again and again (`GetsIn`), with an owner who reloads a form that keeps refusing |
| `screens` | the list: 2 mutations, 1 fault, every kind of row; the reconciliation page: 1 instrument, 2 days, 2 events, 1 change from elsewhere; 513 thousand states | a dialog that reports success has saved all it sent, lists catch up with their own saves, a saved event leaves accepted and tidily rejected rows at the broker's figure |
| `screens_quantity` | the list with a row of 1000 units | a violation of `UntypedQuantityKept` |
| `recon_undo` | the reconciliation page, quantities to 2 | a violation of `AcceptedGapsClose` |
| `valuation` | 2 accounts, 2 instruments, 2 trades on no ledger or on two opening lots; 3 days of which one is not published, 2 interchangeable requests, a restart; 2 instruments ever, 3 types; 197 thousand states | the pages' figures agree, no stored rate is replaced but by an override, an instrument reported as created has the price typed for it |
| `realized_twice` | `Portfolio` from no ledger on, 4 trades | a violation of `RealizedCountedOnce` |

Bounds of the ledger. Four rows are the fewest with two lots and two disposals, which is what crossing, shared
and exhausted lots need; a fifth only repeats them (and the proofs cover any number). Two days give
ties and both orders of a back-dated row. Quantities 1 to 3 let a disposal take part of a lot, all of
it, or span two. In the ledger, two instruments of one account are the two legs of a trade; the opening
lot gives the first request something to consume, so that within four rows a trade can follow a
purchase, be deleted by either leg and be refused. `MaxTxns`, `MaxEdits` and `MaxEvents` bound the table,
the audited edits and the saved events; they are guards of the actions they bound. Races need two
clients: every hazard listed is between the check of one request and the commit of another.
Interchangeable clients (and requests, in `valuation`) are a symmetry; the runs that use it check no liveness.

Bounds of the others. `LastDay` is the end of the model's calendar: four days give a first day, a backfill
longer than one day, a night lost in the middle and a day after it; `Window` is `backfill_days`, and
`MaxFaults` may not exceed it, because a day missed for longer than the window *is* lost (the code's own limit).
`MaxRates` is two, the fewest that can overlap or be closed by one another. `Starts` and `Ends` are the dates the form
and the PATCH submit. In `Session` two faults let a lost answer meet a restart or a dead cookie;
`MaxChanges`, `MaxSecrets` and `Threshold` are the fewest with an old cookie, a replaced secret and a lock-out
that is not the first error. `MaxCalls` of two lets a mutation's answer fall into the life of the next dialog,
`MaxStaged`, `MaxTyped`, `MaxEvents` and `MaxOthers` do the same for the reconciliation page, where nothing is sent after the last event. `Opening` are the ledgers `Portfolio`
may start from, lots of earlier adjustments: after two of them, two trades are enough for an instrument held in
one account and sold out in another, for a realized gain beside two open rows (which of them carries it is then a
choice), or for a lot, a disposal or a yield of one position; the theorem `FiguresOfOneLedger` covers any number. A
stock, cash and metal have the three sets of modes a type can have. Three days with a weekend in the middle give the walk back a day to find and the job a gap to leave.

Deadlock checking is off where the system really stops, or the bounds make it: the matching loop ends, the
ledger runs out of transactions, the accrual out of days, the tab out of mutations. `session` checks
deadlock: there is always a way on.

Fairness. `FifoMatch` assumes `WF_vars(Next)`: the event loop resumes a coroutine whose awaited
statement has finished, and the loop waits for nothing else. `Accrual` assumes that time passes, that the
supervisor restarts the process (the compose file's restart policy) and that the job goes on; not that anyone clears a marker, edits
a rate or that a quote arrives. `Session` assumes that pages load, requests are answered, lock-outs
end, a 401 is noticed and the owner goes on signing in; nothing about the Security section. It also assumes,
of the owner and not of the code, that a login page that is refused again and again is reloaded at last
(`SF` of `Reload`; strong, because each new submission hides the error for a while). `GetsIn` needs it: without it
TLC finds the code form of a dead token to be a dead end. What it then shows is that everything behind
the reload is in order: the strikes and the lock-out the retries left, the middleware, the next token.
`TxnScreens` assumes that requests are served and answers handled, and nothing of the owner. The ledger, the reconciliation
page and the three parts of `Valuation` claim no liveness: a request that waits for the lock may time out,
a provider may not answer, and the code promises nothing more.

Every property is paired in `PROJECT.json` with a mutant, a plausible bug in one definition (a
dropped check, a forgotten partner, an unordered query, a whole-row write), under which the same run
must report that very property. The mutants stand beside the definition they replace.

## 4. Disagreements between the code and its documentation

* `ledger_stale_edit`. `fifo.py:7-8` says the allocations are "always a pure function of the current
  live transactions". Two PUTs of one row load it; the first changes the quantity and commits;
  the second changes the date. Its `UPDATE` leaves the new quantity alone, but its recompute matches with the old
  one, which its session still holds. The allocations stay wrong until the position is touched again.
* `ledger_stale_drift`. `reconciliation.py:215-217` says that accepting a drift "correctly closes the gap"
  to the broker's figure. The holdings are read before the write lock is taken; a transaction that commits in
  between is missing from the drift, and the adjusted holding is off by it.
* `recon_undo`. The same promise (`reconciliation.py:183`), broken by the page: undoing a decision
  (`ReconciliationForm.tsx:182`) or changing the date leaves the transaction that was staged for it in the
  queue. If the drift is accepted afterwards, the event writes both, and the position misses the broker's figure by the drift.
* `screens_quantity`. A quantity of 1000 or more is put into the edit form as "1,000"
  (`TxnForm.tsx:96`), and the schema takes a single comma for a decimal one: saving any change of the row
  makes it 1. Leaving the field does the same to a quantity the owner has typed (`TxnForm.tsx:277-285`, and the other
  forms), a new transaction's included; the property of the run is about untouched ones. `lib/__tests__/decimal-strings.test.ts:216` says that grouped thousands are rejected, which
  holds of its example only.
* `realized_twice`. `perf.py:582` warns of counting realized gains of an instrument twice; the open rows carry
  them once, but the closed rows that follow carry theirs again, and the headline of the
  instrument page adds both (`instrument-aggregation.ts:107`).

One more is only modelled (`PossibleDiffs` in `Ledger`): `audit.py:50` promises the "fields that
actually changed", but stored quantities of disposals are negative and those of a body positive, so that
re-sending an unchanged quantity is logged as a change.

## 5. What is proved

All theorems hold for every value of the constants, under the assumptions the modules name and TLC
evaluates on every instance: `IdsAssumption` and `RowChoicesAssumption` (ids are finitely many numbers; a
stored quantity has the sign `stored_quantity` gives its type), `LedgerAssumption`, `OpeningAssumption` (the
ledger starts from live, unlinked rows whose lots cover the disposals), `PayloadAssumption` (what the
request schema enforces), `AccrualAssumption`, `SessionAssumption`, `ScreensAssumption` and
`ValuationAssumption` (bounds are numbers, opening lots have no cost, instrument types are those of the enum, accounts and instruments
are finitely many). A theorem that needs more says so in its own `ASSUME`: `OneClient` and `~Overlap`, one
request at a time. The code enforces neither; findings and wider instances show what happens without.

Nearly every safety property of a passing run is a theorem; the last paragraph lists the rest.

**Induction_proofs.** The library's induction theorems take a predicate as a parameter and cannot be
used; induction here goes through the least element of the set of counterexamples (`LeastNatural`,
`LeastElement`, `GreatestElement`). On it rest recursive sums over finite sets: a sum exists and is
unique (`SumExists`, `SumUnique`), and how it changes when one term changes, when a term joins, when
terms are renamed, grouped or zero. Definitions that fold (`MapThenSumSet`) are tied to these sums in the
modules that use them.

**FifoMatch_proofs.** Three inductive invariants.
`IInv` gives `TypeCorrect`, `NoLotIsOverdrawn`, `FirstInFirstOut` (lots), `NothingCrosses` (disposals) and
`OnlyLiveRowsAreJoined`. It adds to them that as long as the
current disposal wants more, every lot the inner loop left behind is exhausted
(`VisitedLotsExhausted`), that allocations belong to disposals already reached and are part of what
is consumed of their lot (`AllocationsReached`), that disposals are reached in order and that the
current one is the latest. A draw then happens at the oldest lot with units left; were a later disposal
to draw on an older lot, that lot would have been exhausted when the earlier one passed it.
`AttributionInv` gives `Refinement`: every step of the loops is the one step of `LotAttribution` or a stutter.
With lots and disposals laid end to end, it says how far along the line the loops are (`Drawn`), that lots
are filled in order up to there (`FilledInOrder`) and that every allocation is the overlap of two segments as far as
they have got (`OverlapsAllocated`); at the end that is the attribution, and at a refusal the disposals
reach past the last lot. `HoldingInv` gives `ConsumedIsTheAllocations` and `HoldingsAgree`: columns of the
allocations add up to what is consumed, and all of it to `Drawn`.

**Ledger_proofs.** `Invariance`, `TradesDieWhole`, `TradesStayPairs`, `AllocationsStemFromLiveRows`,
`EveryDeletionAudited`, `NothingComesBack` and `TypeCorrect`, for any number of racing requests. The invariant says
what a request in flight may rely on although the table moves under it: a row never changes its
position, type or trade, and never comes back (`Continues`), so what a session remembers of
those columns stays true (`RequestOK`); and a write transaction has added only live, unlinked rows
to the committed table (`Extends`), so committing it neither loses the deletions of others nor joins a
trade. It says nothing of quantities, which is exactly what races can spoil; `TypeInv` adds only that
they are integers, the staged drifts being sums of such.

**LedgerSerial_proofs.** Assuming `OneClient`, requests come one at a time.
`SerialAllocationsCurrent` and `SerialDisposalsCovered`: committed (and staged) allocations are
current and covered, and the row an edit loaded is the row in the table
(`LoadedRowsCurrent`), the one fact a second client breaks, which is the finding
`ledger_stale_edit`. `SerialDeletionsAuditedOnce` and `SerialTombstonesFrozen` rest on the same fact: what is
about to be deleted or changed is still alive. `SerialCleanEventsClose` follows a
reconciliation through its decisions: the holdings it read are those of the table (`HoldingsRead`), and of each
accepted drift the staged holding is the snapshot's as soon as its decision has been worked off
(`DriftsWritten`). The property `AcceptClosesGap` is itself about events of clean bodies: no instrument accepted
twice, none that is both accepted and given a transaction of a rejected drift. The endpoint does not check
this, and the page can send an unclean body: that is the finding `recon_undo`, stated of the page as `AcceptedGapsClose`.

**Accrual_proofs.** `YieldsCommitWithTheirDay`, `NoDayAccruesTwice`, `YieldsBuildOnEarlierOnes`,
`RatesOfYieldsStay` and `TypeCorrect`, for any calendar, number of tabs and sequence of stops, time-outs and failures. The
strengthening is small: the day a run is accruing has no record yet (`RunOK`), and what it wrote
tonight is of days it has left (`RunGoesForward`).

**Session_proofs.** `OneVisitorClaims` holds for any number of racing visitors, because the write is
conditional. `CachedEpochAgrees` and `NobodyIsLockedOut` assume `~Overlap`: at most one
request of the Security section is under way (`OneAtATime`), so the epoch it publishes is the stored one (`EpochsFollow`) and the
secret whose code it has checked is still the pending one (`SecretsFollow`).

**Screens_proofs.** `SuccessIsNoLie`: of a mutation that was alone, each part answered as saved is in the table
(`SavedOK`), and a mutation stays alone only while nothing else is outstanding (`AloneOK`).
`ReconciliationCloses`: what a
saved event writes for an instrument on a day is a sum over the staged queue (`StagedSum`), whose value a tidy queue fixes: the
gap against what is recorded at the commit, once, on one day. The invariant is typing alone: the endpoint
reads the record it writes to in the same transaction.

**Valuation_proofs.** `RatesAreKept` from what each request and the job are about to write: rates published for
their day or an earlier one (`PlausibleRows`), inserted where the table has none, and replacing a row only with a rate the user
typed (`RequestOK`, `JobOK`). `ReportsAreTrue`
from the bookkeeping of the catalog (`CatalogInv`): ids are in reserve for the creates in flight, no
two entries share a name and a type, and at most one create is watched by the form. `TypeCorrect` for
ledger, rates and catalog together.
`FiguresOfOneLedger` states `FiguresAgree`, for any accounts, instruments, costs, quotes and sequence of trades.
Its invariant is small (`PositionsInv`: types, and a position that was never disposed of has no gains); the work is that each
page folds rows of its own. Each fold is first shown to be a sum (`TotalOf...`), then the sum over rows to be
one over the positions they stand for (`SumOverOpenRows`). What is left is when two such sums are equal:
a row per instrument adds up its positions at one quote (`ValuesOfOnePrice`, `ValuesByInstrument`), one row of an
instrument carries all its gains and the others none (`AttributedTotal`, which needs that the tie between rows of
equal value is decided: `RepresentativeFacts`), closed rows add no value to a drill, and absent values are absent
on both sides (`ValueOfAccountRows`, `ValueOfInstrumentRows`). The gains that no open row carries are those of the
closed positions of instruments nobody holds (`GainsOfOthers`).

Only model-checked. `Terminates`, `EveryDaySettled`, `GetsIn` and `ListsCatchUp` are liveness, which is out
of the prover's reach. Every other property of a passing run is stated by a theorem.

## 6. Not modelled, and what is left to do

Not modelled, because the state has no interaction to check, or lies outside the process:

* Key store: a table of encrypted keys and its copy in memory; the keys reach external clients only.
* Price providers and their fallback chains, alerts about a failing chain: external I/O. What they deliver is
  a quote (`Quote`, `QuoteArrives`, `Backfill`) that comes or not.
* Conversion between display currencies, the daily replay behind the chart and the time-weighted return: they divide and compound
  decimals along dates. The figures are modelled as of today and in euros.
* Tags and the concentration notice: rows and thresholds without interaction. Accounts: plain rows.
* Demo reset, backup and restore: files replaced from outside; a restore writes beside the live database. Update
  check: one row. Migrations: generated, run once before the process serves.
* Price history charts, markers, preferences, the data-source and update panels, routing and styling.

Left to do:

1. `cost_basis_eur` under racing edits in `Ledger`.
