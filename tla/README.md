# Verification of dinary in TLA+

dinary is a self-hosted expense tracker: a FastAPI server over one SQLite file, a
Vue PWA that works offline, a queue that turns scanned fiscal receipts into
classified expenses with the help of an LLM, and two queues that copy expenses and
income to Google Sheets. This directory holds TLA+ modules that model its queues, its
catalog, its rules, its rates and the way of an expense from the form to the table and
to the sheet, and the copies of the database with the ways back from them, TLC configurations that check them on small instances, and proofs that
TLAPS checks for every size of the parameters. Server paths below are relative to `src/dinary/`, those of
the PWA and the tools to the repository's root.

Contents

1. Inventory of the system
2. The modules and the code
3. The runs: what they show, and their bounds
4. Fairness
5. What is proved
6. Where the code and its documents disagree
7. What is only model-checked, and what is not modelled
8. Plan
9. How to run everything

## 1. Inventory of the system

One process runs the HTTP API and four background tasks on one asyncio loop. The
blocking part of a request or of a task runs in worker threads, each with a SQLite
connection of its own (WAL, a busy timeout, foreign keys on). Operators run `inv`
tasks from other processes against the same file. So the unit that nothing
interrupts is a SQLite transaction; between two of them, and across every `await`,
users, operators and the other tasks may act.

| component | code | state it keeps |
|---|---|---|
| receipt queue | `api/receipts.py`, `db/receipts.py`, `background/classification/` | tables `receipts`, `receipt_items`, `receipt_classification_jobs`; in memory an `asyncio.Event`, timers, the coroutines of one drain |
| expense logging | `background/sheet_logging/{task,sheet_logging,logging_jobs,sheets_write}.py` | table `sheet_logging_jobs`; the worksheet; in memory the snapshot of a sweep and the circuit breaker |
| income and its logging | `db/income.py`, `background/sheet_logging/income_sheet_logging.py` | tables `income`, `income_logging_jobs`; the Income worksheet; a breaker of its own |
| sheet mapping and reload | `sheets/sheet_mapping.py` | table `sheet_mapping`, the cached modified time of the map tab |
| classification rules, corrections, review | `db/classification_rules.py`, `api/controllers/{expense_corrections,correction_ratings,rules}.py` | table `classification_rules`, `confidence_level` of expenses |
| expense ingest and edits | `api/controllers/expenses.py`, `db/expenses.py` | tables `expenses`, `expense_tags` |
| PWA offline queues | `webapp/src/composables/flushQueue.js`, the stores that use it | IndexedDB queues, the in-flight promise |
| PWA caches and catalog snapshot | `webapp/src/composables/useStaleCache.js`, `webapp/src/stores/catalog.js` | last answer, dirty mark, catalog version |
| catalog and templates | `api/controllers/{catalog,catalog_writer*,category_templates}.py`, `db/{catalog,category_*}.py` | groups, categories, events, tags and a catalog version |
| store resolver | `background/classification/store_resolver.py` | table `stores` |
| exchange rates, prefetch | `adapters/rates/`, `background/rate_prefetch/` | table `exchange_rates` |
| LLM broker, receipt parsers | `adapters/receipts/`, `background/classification/` | none |
| storage, migrations, configuration | `db/storage.py`, `config.py` | schema version, the anchored accounting currency |
| backups and restores | `tasks/backups/` | Litestream's tree on each of two machines, the archive on Yandex.Disk, preserved database files |
| reports and views; desktop analytics; operations | `tasks/reports/`, `webapp/src/views/`, `src/dinary_analytics/`, `tasks/` | none of their own |

What each does, how it meets the others, what is hard, and what makes it correct:

**Receipt queue.** `POST /api/receipts` looks the client's id up, inserts receipt and
job in one transaction and sets the wakeup event. The drain loop claims every due
job (`pending` with its `retry_after` over, or `in_progress` with a stale claim),
then processes all of them at once: fetch and parse, save the items, resolve the
store, apply the rules, ask the LLM for what is left, persist expenses and delete the
job. A transient error releases the job under the claim token with a backoff, another
one poisons it, a cancelled await releases it as it was. Meanwhile the user resolves
receipts by hand or deletes them, and the operator re-queues them from another
process. Hard: a coroutine reads the receipt before an await of minutes and persists
after it; claims are told apart by a token, but not every statement compares it; a
crash leaves claims behind; a wakeup must not be lost between the end of a drain and
the wait. Correct when: a receipt has its job or its expenses, never both or neither;
the amount booked is the receipt's; what is booked stays; one coroutine per receipt;
every claim ends and every due job is picked up.

**Expense logging.** Whoever inserts an expense inserts its job in the same
transaction. `drain_pending` works the queue off in sweeps of at most `Cap` attempts:
read the keys of all rows into a snapshot, then for each job claim, project the
expense to a row (month, category, group), find a rate, find or insert the row,
compare the marker in column J, append to the formula of the row, delete the job. A
transient error ends the sweep and opens the circuit breaker, another one poisons
the job. Hard: the sheet has no transactions; a request that times out may have been
carried out; inserting a row shifts the positions of the snapshot; a row is inserted
and filled by two requests; the expense, its category and its receipt may change
between any two steps. Correct when: no expense is forgotten, none is added twice,
each is in its row, rows stay unique and sorted, the breaker is respected, the queue
moves.

**Income and its logging.** Income is summed by month: every change of a month sets its
job back to pending, a sweep takes the months one after the other, sums up, writes,
deletes the job. Hard: the sum is read in one transaction, written by a request and
cleared in another transaction; the worksheet is created in two requests, and the row of a month
is found by its number and a year that has to be read from a date. Correct when: a month without
a job is in the sheet with its sum and in no other row, and a pending month is tried.

**Sheet mapping.** A drain that finds a new modified time in Drive reads the map tab,
resolves its names against the catalog and swaps two tables; a thread of the preload
does the same at boot and is abandoned, but not stopped, after a timeout. Hard: the tab is
read by one request, its time by two others, the catalog in a transaction of its own and
the tables are written in yet another one; the projection exists twice, in Python and in
SQL. Correct when the cached time vouches for the tables, they refer to rows that exist,
both projections agree, and an edit of the tab reaches the tables.

**Rules, corrections, review.** A receipt looks its rules up, asks the LLM about the
lines that have none (which takes minutes, in no transaction), and books lines and learns
rules in one transaction. The user corrects expenses and their like, edits, approves,
confirms and reclassifies in between, and every correction of what a call of the LLM said
is reported as a rating of that call. Hard: whether a rule still speaks for the call that
made it, through every sequence of these; a shop whose chain two receipts ask for at the
same time; pages of a feed that runs over two lists. Correct when a booked rule is one the
feed shows and the next receipt finds, rules do not compete for a name, a call is rated
once per rule and only for its own answer, and what the user settled is replaced at most by
an answer that was asked for before.

**Expense ingest and edits; offline queues.** The PWA queues writes in IndexedDB and
posts them until they are answered; the endpoint is idempotent by client id. A POST checks
category, event and tags, converts the amount and inserts, in five transactions; it may be
repeated after a lost answer, by a second tab, beside the thread of the first one, after the
row was edited, half deleted or deleted, and after the catalog or the rate has changed.
Correct when what was saved is queued or recorded, has one row, a repetition passes the
checks and conflicts only for a cause, and the queue empties.

**Catalog, templates, snapshot.** Groups, events and tags are written by handlers that
compare a hash of the catalog before and after, categories and templates by handlers that
always move the version; every start reconciles the tables with the package. A device
patches its snapshot with what it asked for and takes over the version of the answer. Hard:
half of the rules about what may change is in the writers, half in what they count; a
version says "the same catalog" only if all of them agree on what is part of it. Correct
when nothing referenced disappears, a category in use stays active, one the user hid stays
hidden, every change moves the version, and a device with the server's version has the
server's catalog.

**Rates and prefetch.** `get_rate` looks for a rate of NBS day by day into the past,
bridges two currencies through RSD, falls back to NBP, and stores what it may under the day
it was asked for; failures are cached; the prefetch asks every morning until the rate of the day
is there. Correct when a rate is only stored under its day and the days off after it, is
never replaced, and the prefetch gets it.

**Backups and restores.** Litestream ships the database from VM1 to VM2; a timer on VM2 restores it
there every day, uploads it and prunes the archive by days, weeks, months and years. `restore-yadisk --prod`
and `restore-replica --prod` stop the services over SSH, put the old file aside, swap the new one in, wipe both
trees of Litestream and start the services from a `finally`; `replica-resync` does the part about the trees. Hard:
every command is a sequence of SSH calls, each of which may fail before or after it took effect, and the next command
starts from what is left; a tree of another database stops the replica silently, while the backup goes on uploading
the same old copy; a prune may be cut short anywhere. Correct when no write and no snapshot the retention
still owes is lost, prod runs again, and a status that is good is true.

The remaining components are listed in `PROJECT.json` with the reason why they are
not modelled: no state between two steps, pure input and output, sequential
start-up code, or HTTP and HTML parsing whose outcomes are choices of the models.

How the components are composed: `CatalogClient` extends `Catalog` and lets every writer of
the server run between the steps of a device. `ExpenseIngest` contains device, tabs, server
threads and the writers it meets. The other interactions are nondeterministic actions on
either side: `SheetLogging` has the deletes and corrections of the ingest, `SheetMapping` the
renames and deletes of the catalog and the rows of the drain, `ClassificationRules` the
give-up of a receipt at any step that `ReceiptQueue` decides.

The queues meet in the database: the receipt queue and the ingest create the jobs of
the expense logging; deletion and re-queueing of a receipt remove expenses, which
meets the rows that reference them (`sheet_logging_jobs` and `expense_tags`); the
operator's `reclassify-receipts` and `requeue-sheet-jobs` change the queues while the
server works on them.

`PROJECT.json` lists under `hazards` what is hard to test in this code, each at its
line, with the properties that would catch it, or why there is none.

## 2. The modules and the code

| module | what it is |
|---|---|
| `ReceiptQueue` | the receipt queue, its properties, the strengthening used in the proofs, the refinement mapping |
| `ReceiptLedger` | abstract specification: accepted, booked in one step, re-opened, deleted |
| `ReceiptQueueProofs` | theorems about `ReceiptQueue` |
| `SheetLogging` | the logging of expenses, with the refinement mapping |
| `ExpenseOutbox` | abstract specification: stored and owed, shown, settled, deleted |
| `IncomeLogging` | income and its logging |
| `SheetLoggingProofs` | theorems about `SheetLogging` and `IncomeLogging`: the two drains run one after the other in one task. No name is defined in both, so the module extends both |
| `Catalog` | groups, categories, events, tags, templates, the version, the start |
| `CatalogClient` | `Catalog` with a device, its snapshot and its requests |
| `CatalogClientProofs` | theorems about `Catalog` and `CatalogClient` |
| `ClassificationRules` | lines, rules, the store resolver, corrections, ratings, the review feed |
| `ClassificationRulesProofs` | theorems about `ClassificationRules` |
| `ExpenseIngest` | device queue, tabs, the POST of an expense, edits and deletes |
| `ExpenseIngestProofs` | theorems about `ExpenseIngest` |
| `ExchangeRates` | lookups, the table, the prefetch |
| `ExchangeRatesProofs` | theorems about `ExchangeRates` |
| `SheetMapping` | the map tab, its reload, the two projections |
| `SheetMappingProofs` | theorems about `SheetMapping` |
| `Backups` | the database, Litestream's trees, the archive, restores and the resync |
| `BackupsProofs` | theorems about `Backups` |
| `MC*` | instances for TLC: values of the constants |

`PROJECT.json` maps every definition to the lines it stands for. A definition marked
"mutant" in a module is no part of the model: it is the form the definition before or
after it would take with a plausible bug, and shows that a property notices it.

### ReceiptQueue

One action is one SQLite transaction or one await.

| variable | in the code |
|---|---|
| `receipt` | table `receipts` with the number of its `receipt_items`; `listed` is the history of what the fiscal service returned |
| `job` | table `receipt_classification_jobs`: status, claim token, retry count, whether `retry_after` is over (`due`), the age of the claim |
| `book` | the expenses of the receipt: none, lines and a correction, or a manual resolution |
| `held` | which other tables hold rows that reference these expenses |
| `drain` | where `receipt_classification_task` is: `wait`, `claim` (one claim after another), `run` (the `gather`), `dead`, `down` |
| `proc` | the `_process_job` coroutines, by claim token: the step, and what was read before the last await |
| `wake`, `timers` | the event, and the timers `_release_after_transient_error` starts |
| `api` | the POST handlers between their transactions |
| `crashes`, `promised` | a bound; and a history variable: the receipts whose creator undertook to wake the loop |

| action | in the code |
|---|---|
| `Lookup`, `InsertReceipt`, `InsertConflict`, `Requery`, `Notify` | the POST handler, the UNIQUE constraint and the second lookup |
| `Claim`, `ClaimedAll`, `ClaimRaises`, `DrainDone`, `WakeByEvent`, `WakeByTimeout` | the drain loop |
| `Parse`, `Save`, `EnsureStore`, `GetItems`, `RulesPass`, `LlmPass`, `Persist`, `Release`, `Poison`, `ReleaseCancelled` | the steps of `_process_job`, each with its failures |
| `Resolve`, `Delete`, `SheetLogged` | the user, and the logging queue letting go of an expense |
| `Requeue` | `inv reclassify-receipts`, `requeue_receipts` in one transaction of another process |
| `RetryDue`, `TimerFires`, `ClaimAges`, `Crash`, `Restart` | time and the process |

Prices are abstracted: each printed line costs 1, the declared total is the constant
`Total`, so losing a line, reading one twice and the correction that makes up for it are
visible as numbers. Categories, stores and rules are choices of outcome. Time is
relative. The age of a claim has three values because the code compares an ISO text
with a `T` to one with a blank: "old" is more than ten minutes, "day" also on an earlier
UTC date, and only the last is smaller as a text.

`ReceiptLedger` says what all of this is for: an accepted receipt is queued until it is
booked with a positive amount in one step, and stays booked until it is re-opened or
deleted. `ImplementsLedger` maps `receipt`, `book` to it; everything else is hidden.

### SheetLogging

One action is one SQLite transaction or one request to the Sheets API. The key of a
row is its rank in the sort order (0 while its cells are empty), a formula is how often
each expense is in it (2 stands for more than once), the marker is column J.

| variable | in the code |
|---|---|
| `expense` | table `expenses` with tags, and the row the map projects it to |
| `job` | table `sheet_logging_jobs` |
| `sheet` | the rows of the first worksheet |
| `view` | `_SheetView`, the snapshot of one sweep |
| `pc`, `todo`, `cur`, `target`, `row`, `tries`, `err` | the sweep: where it is, its listed jobs, the job in hand, the row found, attempts, the failure |
| `backoff` | the circuit breaker |

| action | in the code |
|---|---|
| `Create`, `DeleteReceipt`, `DeleteManual`, `Remap`, `Requeue` | ingest, the two ways to delete, a changed category or map tab, `inv requeue-sheet-jobs` |
| `StartSweep`, `OpenSheetView`, `SweepDone` | `drain_pending` around its loop |
| `ClaimJob`, `Resolve`, `Rate`, `ReadMarker`, `WriteRow`, `ClearJob` | `_drain_one_job` and `append_expense_atomic` |
| `InsertRow`, `FillRow`, `Reread` | `insert_logging_row` (two requests) and the refresh of the snapshot |
| `Release`, `Poison` | the exception handlers |
| `BackoffOver`, `ClaimAges`, `Crash`, `Restart` | time and the process |

Left out: claim tokens (one drain thread: a job in progress has its token, or one of an
earlier run of the server, which a new claim replaces); the wakeup of the task (a
notification only makes a sweep come earlier); the snapshot's years, which are taken to
be right; amounts and comments.

`ExpenseOutbox` says what is left when sweeps, claims, snapshots, failures and crashes are hidden: an expense
is owed to the sheet from the transaction that stores it; it is shown while it is owed, or after it was deleted from under
the drain's hands; it stops being owed by being shown or deleted, and neither is taken back. `ImplementsOutbox` maps the
state of `expense` to `stage`, the expenses with a job to `owed` and those in a formula to `shown`. A repeated append
changes nothing here, which is why `LoggedOnce` is a property of its own.

### IncomeLogging

One action is one transaction or request. A month is a number, later ones greater; `Year(m)` and `Number(m)` are what
the code has as its year and its month, with `InYear` months in a year (12, and fewer in an instance).

| variable | in the code |
|---|---|
| `income`, `monthJob` | the tables `income` and `income_logging_jobs` |
| `created`, `worksheet` | the worksheet "Income": whether it exists, and its rows, each with the month of columns A and E, the amount with its currency, and the marker of column F |
| `drain`, `due`, `month`, `cell`, `found` | the sweep: where it is, the months it has not come to, the one in hand, what it is about to write, and the row it found for it |
| `paused`, `failures`, `outages` | the circuit breaker, and the bounds |

Jobs have neither claim tokens nor a stale timeout, as in the code. The actions go the way of those for expenses: `Insert`, `Update`,
`Delete`, `RequeueMonths`, `StartIncomeDrain`, `ClaimIncomeJob`, `SumUp`, then `OpenWorksheet`, `AddWorksheet` and
`WriteHeader` for `_get_or_create_income_worksheet`, `LookUp`, `WriteMonth`, `ClearIncomeJob`,
`RaiseTransient`, `RaisePermanent`, `MarkPoisoned`, `IncomeDrainDone`, `PauseOver`, `Outage`, `ComeBack`.

The worksheet and its header are two requests, and a failure between them leaves a sheet without a header for good.
`Matches` is the comparison of `_find_income_row`: below row 1, the month by number, and its year unless the year
cannot be read (`Undated`, the months whose date in column A was edited into something else from the start). An update leaves
columns A and E alone, so a row keeps its month. Left out: the column of the rate, and rows the user adds or removes by hand.

### Catalog and CatalogClient

One action of `Catalog` is one handler, which is one `BEGIN IMMEDIATE` transaction; a handler that
refuses its request changes nothing and is not enabled.

| variable | in the code |
|---|---|
| `groups`, `categories`, `events`, `tags` | the tables; `auto_tags` of an event is a JSON list that no foreign key guards |
| `lastEvent`, `lastTag` | `AUTOINCREMENT`; groups have `MAX(id) + 1` instead, which is why their ids come back |
| `expenses`, `mapping` | what expenses and `sheet_mapping` refer to |
| `version`, `template`, `boots` | `app_metadata`, and which package is deployed |
| `arriving` | an expense between the check of its category, the activation and the insert |
| `snap`, `cver` | the device's snapshot and its version (`stores/catalog.js`) |
| `call`, `fetch` | its outstanding write (sent, served, answered), and its GET (version, groups and categories, events and tags, each read on its own) |
| `missed` | history: it took over a version across somebody else's change, or with the move of a category its snapshot does not have any more |

| action | in the code |
|---|---|
| `AddGroup`, `EditGroup`, `DeleteGroup`, `AddEvent`, ..., `DeleteTag` | `catalog_writer_*`, with `CommitWithBump` deciding by the hash `Hashed` |
| `Activate`, `Hide`, `Unhide`, `Rename`, `Move`, `Create`, `Apply` | `category_templates.py` and `db/{catalog,category_apply}.py`, which always `Bump` |
| `Boot` | `seed_category_templates`: upsert of vocabulary, groups and templates, retirement of what vanished |
| `CheckCategory`, `ActivateForExpense`, `RefuseExpense`, `InsertExpense`, `DeleteExpense`, `ReloadMapping` | who refers to the catalog |
| `Send`, `Serve`, `Answer`, `Fail`, `Receive` | a request of the device; `Patch` is what the store does to the snapshot |
| `Load`, `ReadVersion`, `ReadCategories`, `ReadEvents`, `Loaded`, `LoadFails` | the conditional GET, whose statements share no transaction |
| `Others`, `Restart` | other devices, the API and a start |

### ClassificationRules

A line is its normalised name and the key of its expense; the correction a short journal needs is
the expense of the receipt itself. `work[r].at` follows a receipt through `FindStore`,
`ResolveStore` (the LLM names the chain, `INSERT OR IGNORE` decides), `RulesPass`, `PersistAnswers` or
`PersistFallback`; `GiveUp` ends the attempt at any step. The user's `Correct`, `Edit` with its second
transaction `UpdateRule`, `Approve`, `Confirm`, `Reclassify` and `DeleteReceipt` come in between. `rules` is
`classification_rules` with source, alternatives and the call that made the rule; `answers` (history) is
what each accepted call said, `ratings` what the corrections reported. `FeedPage` is `build_rules_feed`.

### ExpenseIngest

| variable | in the code |
|---|---|
| `entered`, `queue`, `tab` | what the user saved, the IndexedDB store, the flush of each tab with its copy of the items |
| `req` | a thread of the server: which check of `create_expense_sync` comes next, and the tags and the rate it has computed. A thread goes on when its tab has given up |
| `rows`, `lastRow`, `deleting`, `deleted` | `expenses` with `expense_tags`; deletes between their two commits |
| `category`, `event`, `tag`, `auto`, `rate` | what the checks and the conversion find; `Catalog` and `ExchangeRates` have their writers |

`Serve` is the disjunction of the steps `CheckCategory`, `ActivateCategory`, `ValidateEvent`, `ValidateTags`,
`Convert`, `AttachTags`, `Insert`, `Compare`, `Unheard`; `FlushStart`, `Send`, `Answered` and `GiveUp` are `flushQueue.js`.

### ExchangeRates

A quote is the day NBS published it for, or NBP, per leg, so that "a stale rate under a newer day" is
visible. `look` is a lookup in a thread (`Ask`, then `TableHit`, `DayOff`, `Fetch`, `FetchFails` for one day of one leg,
`LookbackEnds`, `AskNbp`), `failed` the failures in the TTL cache, `task` the prefetch (`WakeUp`, `CheckToday`,
`LookupDone`). `Publish` is the bank, which may publish late.

### SheetMapping

| variable | in the code |
|---|---|
| `tab`, `modified` | the map tab, Drive's `modifiedTime`. A time is only ever compared, so one that nobody remembers may be given again |
| `name` | the catalog, id to name |
| `mapping`, `source` | `sheet_mapping` and its tags; history: the tab they were made from |
| `cache` | `_last_seen_modified_time` |
| `boot`, `reload` | whether the start waits for the preload; where the two reloading threads are |

`AskBefore`, `ReadTab`, `Parse`, `AtomicSwap`, `AskAfter` are the steps of `reload_now`; `AskDrive` and `Compare` those of
`ensure_fresh`; `Log` writes a row to the sheet, which moves `modified`. `ResolveProjection` and `LoggingProjection` are the
two implementations of the projection, translated each from its own source: `Scan` and `ParseRows` are the loops of the code
with their `continue`, as recursive functions over the rows; `Candidates` is what the query selects.

### Backups

A database is the set of the writes it holds and a number that changes when its file is replaced. One action is one
command over SSH or of the backup script; `Over(step, answered)` moves the command on or, when the answer is
lost, to the `finally`; `StepFails` is a command that failed with no effect.

| variable | in the code |
|---|---|
| `written`, `file`, `wal`, `base`, `preserved` | the production database: writes so far (history), `dinary.db` and its WAL, which database it is, the `.before-restore-*` files |
| `up` | what runs on VM1: `dinary`, `litestream` |
| `shadow`, `replica` | Litestream's trees on VM1 and VM2: the database each was built from, and what can be restored |
| `backup` | the run of `dinary-backup`: the restored copy, the snapshots it is going to delete |
| `archive`, `uploaded` | Yandex.Disk; all snapshots there ever were (history) |
| `op` | the operator's command: the step before it, what it is going to put in place, the step that failed |

`TakeSnapshot`, `Upload`, `Delete`, `BackupEnds` are the backup script with `pick_keepers`; `StopDinary`, `StopLitestream`,
`Preserve`, `UploadIncoming`, `Swap`, `WipeShadow`, `WipeReplica`, `StartLitestream`, `StartDinary` are `apply_restore_to_prod`, and
some of them `replica_resync`; `StatusOk` is `backup_status`. `Sync` is Litestream, which the code only configures: it goes on
only while both trees continue each other and the database. Snapshots are told apart by content instead of size, and a name
by a number instead of the minute; `mv` and `rm` of the swap are one SSH call and one step.

## 3. The runs: what they show, and their bounds

`Faults` (`Failures` in `IncomeLogging`) is a constant of the queue modules: the set of things that may go wrong. An instance
names the ones it lets happen, and section 6 says what changes when another one is added.

| run | instance | shows |
|---|---|---|
| `queue_faults` | 1 receipt, 2 POSTs of it at a time, 2 tokens, total 2, up to 3 lines, retry counter to 2, 1 crash; exceptions in every step, cancelled awaits, a dying loop, re-queues; both tables of referencing rows | `OneWorker`, `JobXorExpenses`, `BookedOnce`, and that the pipeline implements the ledger |
| `queue_live` | 2 receipts of 2 clients in the queue at once, 1 POST at a time, 2 tokens, total 1 and 1 line, retry counter to 1, 1 crash; every transient and permanent failure, no journal fallback, no cancelled awaits, links that do not carry the amount; `LiveSpec`, deadlock checked | `NoLostWakeup`, `ClaimsEnd`, `DueIsPickedUp` |
| `sheet_faults` | 2 expenses, 2 rows in 2 months, one without a rate, 2 failures of every kind, 1 crash, `FairSpec` | that the drain implements the outbox, `QueueMoves` |
| `sheet_retry` | 3 expenses, 3 rows in 2 months, 2 requests that are not carried out or whose answer is lost | `LoggedOnce`, `SheetInOrder`, `SnapshotCurrent` |
| `income_retry` | 2 records of amount 1 (sums 1 and 2), 2 months of the same number in two years (`InYear = 1`), 2 failures of every kind but `busy` and `thin`, 1 crash, every date readable, `FairIncomeSpec` | `SheetCurrent`, `PendingIsTried` |
| `catalog_server` | 3 factory categories (one matches `LIKE 'u_%'`), 1 of the user, 2 templates, 2 packages, 2 groups, 1 event, 1 tag, 1 expense, version to 4, 1 restart | `Consistent`, `VersionMarks`, `UsedStaysActive`, `HiddenSticky` |
| `catalog_device` | 1 factory and 1 user category, 1 group, 1 event, 1 tag, 1 template, version to 3, 1 restart | `CurrentUnlessMissed` |
| `rules_user` | 2 receipts of one shop (possibly stored without a chain), 3 lines, one without a name, one journal that is short; 2 LLM calls, 2 rules, 2 requests of the user | `Consistent`, `BookedRulesListed`, `RatedOnce`, `RatingsFair`, `FeedPagesComplete`, `SettledBeforePass` |
| `ingest` | 2 expenses, 2 tabs, 2 server threads, 3 rows, 1 lost request, answer or restart, 1 change of the catalog, the rate or a row; the category inactive and the rate stale at first; `FairSpec` | `NothingLost`, `RecordedOnce`, `ReplayPasses`, `ConflictHasCause`, `QueueEmpties` |
| `rates` | 3 days of which 2 are working days, a direct and a bridged pair, one other thread, a lookback of 3 days, 1 outage, `FairSpec` | `NothingMasquerades`, `RateOfTheDay` |
| `mapping` | 3 contents of the tab (one with a name the catalog lacks) and none, 2 edits, 1 change of the catalog, 1 failed request or restart, 5 times, `FairSpec` | `CacheVouches`, `MappingRefersToCatalog`, `ProjectionsAgree`, `EditReachesTables` |
| `restores` | 4 days in 3 weeks, 2 months and 2 years, 4 snapshots, 2 daily, 2 weekly and 1 monthly one kept, 1 write, 2 restores or resyncs; every step of them and of the backup may fail before or after it took effect | `HistoryKept`, `NothingWithoutTrace`, `ProdRunsAgain`, `StatusIsTrue` |

`Consistent` is the type invariant of its module with the one invariant over several tables that belongs to it
(`NoDangling`, `OneRulePerName`). The type invariants of the other modules are proved, alone or as part of the
inductive invariant (that of `Backups` is checked by hand, with `TypeOK` added to its cfg), so no run spends a property on
them. Nor does a run check what a theorem says of every instance and TLC could only repeat: `QuietInBackoff`,
`OneReceiptPerClient` and `HolderKeepsClaim` are proved, in section 5, and `NothingForgotten`, which `ImplementsOutbox` contains.

Why the bounds are enough.

- Receipts. A receipt meets others only in the claims of one drain, so one receipt with two
  tokens (`queue_faults`) shows what two coroutines, the user and the operator do to it. Two receipts of two
  clients (`queue_live`) show a drain with a coroutine for each, a newer receipt beside an older one that is
  retried, poisoned or left claimed by a crash, and an upload while both are at work. Three lines against a total of 2 give a journal that is
  short, exact and too long. One crash leaves every claim the system can be in.
  `LiveSpec` (in `MCReceiptQueue`) is `FairSpec` with three conditions on steps that keep `queue_live` small: tokens without a
  coroutine are taken in order, and so are clients without a receipt (`FirstFree`); no upload starts once every id is
  used, for nothing could be stored for it (`IdsLeft`); no journal fallback (`NoJournal`). None of them takes the last step from
  an action with a fairness condition.
- The sheet. Three rows in two months have an insertion before, between and after rows, in a
  month that exists and in one that does not. Two failures are a failure and a failure of its
  handler. `Cap = 2` with one expense without a rate is the smallest case where a sweep reaches
  a job behind one that does not succeed.
- Income. Two months of one number are what the lookup can mix up, each with its row, and which of them comes first in the
  sheet is open. Two records are a month with one, with two, and a move between months. Two failures and a crash are, for example, a
  header that fails, an answer that is lost after it and a crash with the month in hand.
- The catalog. Two groups let a category move, a group be deleted and its id come back; two
  packages let a factory category, a group and a template vanish; every row refers to at most one
  of each kind of other rows, so one of each shows a reference dangle. Version 4 allows three
  changes after the start, and the restart in addition: hide, apply, boot, unhide in any order.
- The device. Its request and its GET overlap in every order with two other changes.
- Rules. Two receipts with the same name in one shop are what can compete for a rule and for
  a chain; two calls and two requests of the user are a rule that is learned, settled and learned
  anew. Chains are symmetric: no definition compares them to anything but each other.
- Ingest. Two tabs are what a queue can be flushed by at once, two threads a POST and its
  repetition. One of the expenses has a tag, the other one an event, so that every check
  meets a change. One fault and one change are enough for each repetition to meet each change at
  each step (some 720 000 states, depth 50).
- Rates. Day 3 is a day off after a working day, so a lookup goes back from a day off, from a
  working day that is not published yet, and past both.
- Mapping. Two edits are one before and one during a reload; five times are those of the tab, the
  cache and two reloads, and a fresh one.

- Backups. Four days are two of one week, two of one month and a turn of the year; four snapshots are two more than
  the daily rule keeps. Of two commands the second one starts from everything that a failed first one can leave. One
  write is enough to tell an old copy from a new one (some 5 million states).

The bounds on rows, faults and changes only stop counters from growing; the proofs of section 5
are without them.

`CHECK_DEADLOCK FALSE` stands where an instance exhausts its bounds: everything is
booked or logged, no user acts, and the server just waits. `queue_live` checks for
deadlocks. Symmetry is used in runs without liveness only, over claim tokens, request
handlers and chains, which no definition compares to anything but each other.

Every property has a mutant in `PROJECT.json`: a definition of the model as a plausible
bug would change it (a claim that ignores the cutoff, a file put aside after the swap, a count
that leaves out inactive rows, a release that forgets the job, a marker that is not read, a
page that ignores the other list), for which the same run finds the property violated.

## 4. Fairness

`FairSpec` assumes of the code and of time, and of nobody else:

- the loops run: `WF(DrainStep)`, `WF(WakeByTimeout)` (the wait of both task loops has a
  timeout of 300 seconds, so the loop comes back without any notification). A crash is
  followed by a restart, because the service manager restarts the server;
- every coroutine and every POST handler goes on, for each separately:
  `WF(ProcessStep(t))`, `WF(RequestStep(a))`. The HTTP and LLM clients have time limits,
  so an await ends in an answer or an error;
- time passes: `WF(RetryDue(r))`, `WF(ClaimAges(r))`, `WF(BackoffOver)` (the breaker closes
  after half an hour at most).

Of the other modules:

- `ExpenseIngest`: a tab starts a flush again and again, because `App.vue` flushes on a timer of 30
  seconds while it is open; a flush sends its next item and takes the answer; a thread of the
  server goes on, also when nobody waits for it any more; the second statement of a delete
  follows the first one. A refused item ends every flush at its place, which is why `QueueEmpties`
  excepts queues with an item that is refused for good;
- `ExchangeRates`: the prefetch and its lookup go on, time passes, and a cached failure expires. The
  last one is strong fairness: the entry lives 15 minutes, whatever else is cached and asked in
  between, but a later failure puts it back, so it is not continuously enabled;
- `SheetMapping`: the thread of the preload goes on (also after the start gave up on it), and
  the drain runs on its interval. `EditReachesTables` assumes that rows are logged: without any row a
  drain has no reason to look.

`ClaimsEnd`, `DueIsPickedUp` and `PendingIsTried` say `[]<>~P`, which is the same as `P ~> ~P`.

There is no fairness for users, operators, faults, the event or the timers: liveness
holds when every notification is lost.

## 5. What is proved

For every value of the constants within their assumptions (any number of receipts,
tokens, requests, expenses, rows, failures and crashes):

| theorem | statement | assumes |
|---|---|---|
| `ReceiptQueueProofs!TypeCorrect` | `Spec => []TypeOK` | nothing |
| `ReceiptQueueProofs!NothingLost` | `Spec => []JobXorExpenses` | no re-queue between two claims of one drain |
| `ReceiptQueueProofs!BookedExactly` | `Spec => []BookedOnce` | the same |
| `ReceiptQueueProofs!ClaimsExclude` | `Spec => []OneWorker` | the same |
| `ReceiptQueueProofs!Refinement` | `Spec => ImplementsLedger` | the same |
| `ReceiptQueueProofs!NeverSleepsThrough` | `Spec => []NoLostWakeup` | nothing |
| `ReceiptQueueProofs!StoredOnce` | `Spec => []OneReceiptPerClient` | nothing |
| `ReceiptQueueProofs!HolderKeeps` | `Spec => HolderKeepsClaim` | nothing |
| `SheetLoggingProofs!TypeCorrect` | `Spec => []TypeOK` | nothing |
| `SheetLoggingProofs!NoneForgotten` | `Spec => []NothingForgotten` | nothing |
| `SheetLoggingProofs!NothingSentInBackoff` | `Spec => QuietInBackoff` | nothing |
| `SheetLoggingProofs!SnapshotStaysCurrent` | `Spec => []SnapshotCurrent` | no request is refused for good |
| `SheetLoggingProofs!RowsOrdered` | `Spec => []SheetInOrder` | the same, and no expense is projected to another row |
| `SheetLoggingProofs!AppendedOnce` | `Spec => []LoggedOnce` | requests fail by not arriving or by losing the answer only, no crash, no expense waits for a rate that comes later |
| `SheetLoggingProofs!OutboxKept` | `Spec => ImplementsOutbox` | nothing |
| `SheetLoggingProofs!SheetShowsSums` | `IncomeSpec => []SheetCurrent` | no month changes in the drain's hands, no record is deleted from a month that keeps others, a month with an unreadable date is the only one of its number |
| `CatalogClientProofs!NothingDangles` | `Spec => []Consistent` | nothing |
| `CatalogClientProofs!VersionTells` | `Spec => VersionMarks` | nothing |
| `CatalogClientProofs!UsedIsSpared` | `Spec => UsedStaysActive` | nothing |
| `CatalogClientProofs!HiddenStays` | `Spec => HiddenSticky` | nothing |
| `CatalogClientProofs!DeviceIsCurrent` | `ClientSpec => []CurrentUnlessMissed` | nothing |
| `CatalogClientProofs!ServerInside` | `ClientSpec => Spec` | nothing |
| `ClassificationRulesProofs!WellFormed` | `Spec => []Consistent` | nothing |
| `ClassificationRulesProofs!BookedListed` | `Spec => []BookedRulesListed` | nothing |
| `ClassificationRulesProofs!RatedAtMostOnce` | `Spec => []RatedOnce` | nothing |
| `ClassificationRulesProofs!RatedFairly` | `Spec => []RatingsFair` | nothing |
| `ClassificationRulesProofs!SettledStays` | `Spec => SettledBeforePass` | nothing |
| `ClassificationRulesProofs!FeedIsWhole` | `Spec => [](FeedPagesComplete /\ \A size \in Nat \ {0} : PagesComplete(size))` | nothing |
| `ExpenseIngestProofs!StaysUntilRecorded` | `Spec => []NothingLost` | nothing |
| `ExpenseIngestProofs!Once` | `Spec => []RecordedOnce` | nothing |
| `ExpenseIngestProofs!Replays` | `Spec => ReplayPasses` | nothing |
| `ExpenseIngestProofs!Conflicts` | `Spec => ConflictHasCause` | nothing |
| `ExchangeRatesProofs!TypeCorrect` | `Spec => []TypeOK` | nothing |
| `ExchangeRatesProofs!NoMasquerade` | `Spec => []NothingMasquerades` | nothing |
| `ExchangeRatesProofs!RatesStay` | `Spec => RateStays` | nothing |
| `SheetMappingProofs!Vouched` | `Spec => []CacheVouches` | nothing |
| `SheetMappingProofs!RefersToCatalog` | `Spec => []MappingRefersToCatalog` | nothing |
| `SheetMappingProofs!BothProject` | `Spec => []ProjectionsAgree` | nothing |
| `BackupsProofs!HistoryIsKept` | `Spec => []HistoryKept` | nothing |
| `BackupsProofs!ProdIsBack` | `Spec => []ProdRunsAgain` | nothing |
| `BackupsProofs!StatusTells` | `Spec => []StatusIsTrue` | nothing |
| `BackupsProofs!NothingLostInRestores` | `Spec => []NothingWithoutTrace` | services stop cleanly, no two restores in one minute |

The assumptions are of the form `"midclaim" \notin Faults`: they exclude behaviours of the
code, not data, and section 6 shows what happens without them.

**The receipt queue.** None of the three properties is inductive. A coroutine that works
on a receipt with a state the properties allow, but no run reaches, could book it
twice. `Inductive` (in `ReceiptQueue`) adds what is missing:

- `ClaimsHeld`: coroutines exist only between the first claim of a drain and its end;
  until the gather starts none has run, and their receipts cannot be claimed again. With
  it a new claim never meets an older coroutine, which gives `OneWorker`;
- `ItemsAsListed`: items come from the one save that sets `parsed_at`, or are discarded as
  a whole, so their number is what the service listed;
- `ReadsCurrent`: what a coroutine read before an await (whether the receipt is parsed,
  the fallback mark, the items) is still true after it, as long as the receipt lives.
  With the check for expenses inside the transaction of `persist`, it gives `BookedOnce`;
- `NoHalfRows`: an absent job has no token, an absent booking no lines.

The proof is one lemma per conjunct and one step per action. The steps of a coroutine
are split by what they change: a step that only moves a coroutine on, a return, an
abort by one of the handlers, and the ones that write.

`StoredOnce` and `HolderKeeps` do without the assumption: `Stored` says that an id never used has no job and a
missing job no token, and `ProcessRows` what a step of a coroutine can do to receipts and jobs at all. So the
token does its part even where the claims of section 6 overlap; what fails there is that persisting does not compare it.

`NeverSleepsThrough` does not need the assumption either. Its invariant `WakeInductive` ties each promise to what will
wake the loop: a job in its delay has a timer, and once the last claim of a drain is over every due one has the event
set, a timer, or a handler between its commit and `notify`. `promised` loses a receipt as soon as somebody claims it.

`Refinement` says the whole at once: under the mapping of `ImplementsLedger` the initial state is one of the ledger, and every
step is a step of the ledger or changes nothing it can see. Most steps do the latter, because no transaction but those of
`persist`, `resolve`, `requeue` and the deletion touches expenses; `Inductive` then says that the amount `persist` books is positive,
and that the receipt had no expenses before, which is what `Book` demands.

**Expense logging.** `NothingForgotten` alone says nothing of an append that is not
confirmed yet. `IInv` adds `Logged` (when the drain is about to clear a job, its expense is
in the sheet), `Markers` (a marker names an expense that is in its row, which is why a
retry that finds its own marker may skip the append), `Positions` (the row the drain
is going to write to exists), `Budget` and `Waits` (a sweep runs only with the breaker
closed, which gives `QuietInBackoff`). The sheet only grows: no step takes an expense out
of a row.

The other three are about more than one row, and need the assumptions that section 6 shows to be necessary.
`ViewCurrent` says at which steps the snapshot shows the rows: not between the two requests of an insertion, where the
view is shorter by the empty row; a transient failure there ends the sweep, and with it the view. `OrderInv` adds `Placed` (the row in hand
has the key of the expense, or every key above its place is smaller and every one below greater, also while an empty row
of a broken-off insertion lies in between; `PlaceSplits` proves it of `_find_insertion_row`) and `Keyed` (the key in hand is still that of the
expense). `AppendedOnce` is about column J, which names one expense only. `OnceInv` shows why that is enough while only answers get lost:
a sweep goes through the queue in order (`SweepOrder`), so an expense that is in the sheet and still has its job is the first that is
left (`OpenIsFirst`), nobody wrote to its row since, and the retry finds its own marker.

`OutboxKept` is the refinement of `ExpenseOutbox`, without any assumption. The step that has to be shown is `Settle`: a job goes only
when its expense is in the sheet (`Logged`) or gone. `OwedInHand` adds the other half: only live expenses have a job, so a
release, a poisoning or a re-queue, which update whatever row is there, never bring one back; and the expense in hand has its job
until it is cleared, or was deleted, so only an expense that is owed or deleted is ever added. `JobMoves`, `HandMoves` and `ShownStep` say what
a step of the drain can do to jobs, the hand and the sheet at all.

**Income.** One row per month is no part of the model, and not true of row 1. `IncomeInv` says where it comes from:
`OneRowBelow` (below row 1 each month has one row), `FoundRow` (the row in hand is the one of the month, and 0 only when it has none
below row 1, until the write is confirmed or given up), `NewWorksheet` (there are no rows while the worksheet or its header is being
created, so the header replaces nothing) and `MonthInHand` (what was summed up and not yet cleared is still the sum of the month).
`FindsMonth` proves it of the lookup: if every row of an unreadable year is the only one of its number (`DatesTellApart`), the rows
`Matches` accepts are those of the month (`MonthsApart`: number and year make a month, for every `InYear`). The last is what the
first two assumptions are for: a change in the drain's hands breaks `MonthInHand`, and a record deleted without a job breaks the sum.

**Catalog.** `NoDangling` is preserved because what a delete counts is what the inserts, the edits and the map reload
check, each in its own transaction. `IInv` adds what spans several: `ArrivingFound` (an expense that is on its way found its category,
and nothing deletes one), `VocabularyThere` (each start inserts what its release lists) and `NamesUnique`, for the device,
which finds its new row by name. Every handler is reduced to one of three shapes: `CommitWithBump` around
a change of one table, `Bump` after a change of categories, and neither (expenses, the map, a start). `VersionTells` is then about the first:
the hash leaves out columns, and `HashedGroups` and the lemmas `*Writes` show that what these handlers write, it covers.
For the action properties `CategoryEffect` says, handler by handler, what happens to `active` and `hidden` of a category.

**The device.** `CurrentUnlessMissed` is about the moment a version is taken over; the request was carried out earlier, and
the snapshot may have been replaced by a GET in between. `CInv` says what stays true meanwhile, always on the condition that the version did
not move: `FetchTrue` (what a GET has read is the catalog), `AnswerTrue` (what the answer shows is the catalog's) and `PatchTrue` (the
patch turns the snapshot, the catalog and what the GET is going to bring into the catalog, if they are of the version before the request).
`EventRequest`, `TagRequest` and `CategoryRequest` are the core: the store's patch does to a copy what the handler did to
the tables. The proof of the last one is where the move of a category without a row came up (section 6).
`ServerInside` carries the server's theorems over: beside any device, the catalog only takes steps of `Catalog`.

**Rules.** One invariant, `IInv`, for all five. `OneRulePerName` is preserved because every insert is behind `FindRule` in its
own transaction, and because the names one call brings are told apart (`RulesWritten`). `BookedRulesListed` needs
what happens between a receipt's lookup and its booking: `LinkedStored` (a linked receipt has a stored shop, and one past the lookup has
its chain), `PassTrue` (the rule of a hit is, if it still exists, a rule of that name and chain; what the pass missed was not settled then)
and `NothingBooked`. `RatedOnce` and `RatingsFair` relate a rule to a call of long ago: `Owes` says that a rule that can still cause a rating
has the category and the alternatives of its call, which was not rated for it yet; `CallsInOrder` that a new call has no ratings.
`FeedIsWhole` needs no invariant: the arithmetic of the pages is right for every pair of finite lists. `WholeFeed` is the feed
without pages; `PageLists` says that a page is the part of it at its offset, `PagesEnd` that `has_more` ends at a page that reaches
the end, and `PagesAreComplete` maps the places on the pages one to one to the places in the feed.
`SettledBeforePass` follows from `PassTrue`: persisting an answer writes to no rule that was settled when the pass looked.

**Ingest.** `IInv` is `Typed` with `RequestsSound` (a thread about to give an answer that settles the item
has a row for it, or the user deleted the row; one past the tags has computed them from the payload
and the event), `RowsSound` (a row refers to what exists, and one that nobody edited has the event of
its payload, and its tags and those of the event while these were not changed), `OneRow`, `Placed` (where there
is a row its category has a group), `AutoAtFirst` (what `retagged` does not list is unchanged) and `NothingLost`.
`Conflicts` needs nearly all of it: a thread that compares has to have computed the same tags as the
thread that inserted, possibly long before.

**Rates.** `NothingMasquerades` speaks of the table only; a lookup that is under way may be about to
store what it found. `IInv` adds `LooksSound`: a lookup for a day off that has not seen a working day
without a rate has passed days off only on its way back. `TableSound` says by inequalities what
`NothingMasquerades` says by the `CHOOSE` of `LastWorking`, so that the `CHOOSE` is met once.

**Sheet mapping.** `CacheVouches` is about three clocks that no transaction joins. `IInv` adds `Alone` (while the
start waits the drain is idle, and once the preload is over it stays idle), `RawCurrent` (what a thread has
read is the tab, if the time it noted before is still Drive's) and `SwapCurrent` (the same of the tables
after the swap). It needs `Cardinality(Times) > 4`: at most four times are remembered at once, so
a change can always get a new one; the assumption is about the abstraction of times and no
restriction of the program.

`BothProject` is about two loops over a tab of any length. Both projections are recursive functions of the number
of rows, and the library's induction takes an operator as a parameter; `RowByRow` states it for a set of numbers instead, and
its proof takes the least number outside of the set, found by `LeastExists`. `ScanFindsFirst` gives the closed form: a column
ends with the value of the first row that fits and has one (`FirstOf`). `Rowed` is the invariant that `sheet_mapping` and a reload in
progress hold a sequence of rows of ids, whatever the catalog did meanwhile; it rests on `RowParses` and `TabParses`, the same
induction over the parser. `Agree` then shows that the rows each loop goes on with are those the reference looks at.

**Backups.** `HistoryKept` is about all snapshots there ever were, while a prune sees those that are left. `DiskInv` (what is in
hand to be deleted is superfluous under each rule) needs the lemma that a snapshot superfluous among fewer ones is so among
more, and that a snapshot's successor in its year is kept or has one itself. `StatusIsTrue` adds `Numbered`: the two newest of all snapshots are
still there because every deleted one has two later ones. `NothingWithoutTrace` needs that between `preserve` and `swap`
nothing writes to the file, because both services are down, and that the WAL is empty by then; `ProdRunsAgain` that the trees are
empty or fit at each step of a command.

Liveness is not proved. A refinement is proved as a temporal formula, `Spec => ImplementsLedger` or `Spec => ImplementsOutbox`; neither the ledger nor the outbox has fairness.

## 6. Where the code and its documents disagree

None of these is hidden by a model: each is behaviour of the modules under the constants named here.
The runs leave the constant out, so that the rest can be checked.

The queues:

| what | how to see it |
|---|---|
| a re-queue between two claims of one drain puts two coroutines on a receipt, and every line is booked twice (`db/receipts.py:294`) | `queue_faults` with `Faults = {"requeue", "midclaim"}`: `BookedOnce` |
| the cutoff for stale claims compares two text formats, so a claim left by a crash is claimable on the next UTC date and not after ten minutes (`db/receipts.py:82`) | `OldClaimsAreStale` of `MCReceiptQueue` in `queue_faults` |
| an exception in `claim_next_job` ends the drain loop until the server restarts | `queue_live` with `drain_error` in `Faults` and `CHECK_DEADLOCK FALSE`: `DueIsPickedUp` |
| `reclassify-receipts` fails as a whole when an expense is referenced by a logging job or a tag | `Requeue` in `ReceiptQueue`: refused while `held` is not empty |
| the marker of column J names the expense appended last: when the answer of an append is lost and another expense goes to the same row before the retry, the retry appends again (`sheets_write.py:157`; `google-sheets-setup.md:67` says it is skipped) | `sheet_retry` with 2 expenses, 1 row, `Faults = {"lost", "norate"}`, `Unrated = {}`: `LoggedOnce`; a crash between append and clear does the same |
| after a refused request an inserted row is not in the snapshot, and the rest of the sweep is one row off (`sheet_logging.py:487`, against `:198`) | `sheet_retry` with `Faults = {"permanent"}`: `SnapshotCurrent` |
| expenses without a rate at the head of the queue starve the others | `sheet_faults` with `Cap = 1`: `QueueMoves` |
| an expense whose category changes, or a poisoned one that is re-queued, can be in two rows | `sheet_retry` with `remap` in `Faults`: `LoggedOnce` |
| a failed delete of a manual expense removes its tags (two committed statements) | `DeleteManual` in `SheetLogging`, `DeleteTags` in `ExpenseIngest` |
| the clearing of an income job deletes one that a change has just set back to pending (`income_sheet_logging.py:113`) | `income_retry` with `busy` in `Failures`: `SheetCurrent` |
| deleting one of several records of a month queues nothing | `income_retry` with `thin` in `Failures`: `SheetCurrent` |
| an income claim left by a crash is taken by nobody until the month changes again | add "a claimed month does not stay claimed" to `income_retry` |
| the worksheet of the income is created in two requests; when the second one fails there is no header for good, the first month lands in row 1, which the lookup passes over, and its next change appends a second row while the first stays (`income_sheet_logging.py:136`, `:150`, against "one row per calendar month" in its docstring) | `income_retry`: `OneRowPerMonth` of `MCIncomeLogging`; `SheetCurrent` is about the lower row |
| a row whose year cannot be read is taken for the month of any year, and that row is overwritten (`income_sheet_logging.py:155`) | `income_retry` with `Undated = {1}`: `SheetCurrent` |
| without a rate the income is written in the accounting currency as if converted | `income_retry`: `SheetCurrent` with `worksheet[i].cell.currency = "app"` demanded of the row |

The catalog:

- a change another device made between a device's snapshot and its own write is never picked up:
  the device takes over the version (`stores/catalog.js:258`) and is answered 304 from then on,
  though `frontend-cache.md` says the next refresh picks it up: `RefreshPicksUp` in `catalog_device`;
- a category whose group was deleted is not in the answer of a GET any more; a device that had asked to move it before takes over the
  version of the answer, but patches a row it does not have (`stores/catalog.js:310`), so the category stays invisible
  there until the next change: `CurrentUnlessMissed`, without `Unplaced` in `Receive`, in an instance with one category, two groups and
  versions to 5;
- deleting an unused group of the package and then applying a template or activating a category
  leaves an active category without a group, which `activate_category` calls never valid:
  `CategoryPlaced` in `catalog_server`;
- the reconciliation at a start moves no version, so what it changes reaches no device that is up
  to date (`missed` in `Restart`);
- `LIKE 'u_%'` (`category_seed.py`), meant for the user's codes, also spares `utilities` from
  retirement, since `_` is a wildcard (`MatchU`);
- `apply_template` overwrites a name the user gave; a retired category can be activated; a new group
  gets no code, so no template refers to it; ids of groups come back; the hash of the
  catalog leaves out `is_hidden` and `is_retired` (only writers that do not use the hash
  change these);
- between `_resolve_category_for_write`'s check and its activation the category may be
  hidden, which the activation undoes.

The rules:

- an answer of the LLM that was asked for before a correction replaces the rule of the correction
  (`classification_rules.py:107`, against `classification-pipeline.md`): `UserRuleStands` in `rules_user` with
  `MaxTouches = 1` and no symmetry. `SettledBeforePass` is what does hold;
- approving or confirming a rule keeps the alternatives of the LLM's answer it was made from
  (`conf` and source change, so no rating comes of it);
- a receipt that looked its rules up before an approval books the old category under the rule
  that has the new one;
- the correction of a line without a normalised name makes no rule.

Ingest and rates:

- an honest repetition is refused (409) after an edit, a change of `auto_tags`, or when the rate
  it was converted with was not an official one; one of a deleted expense records it anew;
- an item of an old version of the PWA without a category is removed from the queue with a message (`flushQueue.js:29`), and is
  then in no table: the items of `ExpenseIngest` all have a category, and `NothingLost` is about these;
- a refused item stops everything behind it until it is removed by hand; `refresh()` stands before
  the `try` of a flush (`flushQueue.js:24`), so an error there leaves the in-flight mark set until the
  page is reloaded;
- `_update_amount` asks the banks inside `BEGIN IMMEDIATE` (`api/controllers/expenses.py:322`), so a slow bank
  blocks every writer; an edit with a rule is two transactions;
- a bridged rate, and one of NBP, is stored under the day asked for however old its legs are (`AskNbp` and
  `FoundLeg` in `ExchangeRates`); `NothingMasquerades` is about the rates of NBS against RSD.

The mapping: a preload that outlives the patience of the start may swap an older tab in under a newer
time (`sheet_mapping.py:342`). The next row that is logged moves the time, and the drain after it
reloads: `CacheVouches` excepts that thread, `EditReachesTables` does not.

Backups and restores:

- `start_litestream` is in the `finally` before the start of `dinary` and checks that Litestream is active: when it
  fails, `dinary` stays down, and so it does when stopping Litestream fails before the `try`, against "a failure mid-swap must
  leave prod running rather than silently down" (`tasks/backups/restore_prod.py:65`): `ProdRunsAgain` without its exception
  for steps outside of `Protected`. `replica_resync` has no `finally` at all;
- the file put aside is the main file alone, so after a kill the writes in its WAL are in no copy, and its name has the
  minute, so a second restore within it replaces the first one's copy; against "The replaced database is preserved"
  (`docs/src/en/operations.md:395`): `restores` with `Faults = {"kill"}` or `{"minute"}`: `NothingWithoutTrace`;
- the number of expenses a restore drops is counted before `dinary` stops, and only from the newest date of the incoming
  copy on; what is entered while the prompt waits is not in it (`operations.md:393`);
- a good status compares the two newest snapshots only: after days without a backup the newest one may be hardly newer
  in content than the one before. `StatusIsTrue` says no more than that it moved.

Documents only: `docs/src/en/google-sheets-setup.md` mentions a setting, `DINARY_SHEET_LOGGING_DRAIN_MAX_AGE_DAYS`,
that no code reads (no job is too old to be tried), and a marker `[exp:<expense_id>]` where the
code writes the client's id to column J.

## 7. What is only model-checked, and what is not modelled

Only checked by TLC, on the instances of section 3: all liveness (`ClaimsEnd`, `DueIsPickedUp`, `QueueMoves`,
`PendingIsTried`, `QueueEmpties`, `RateOfTheDay`, `EditReachesTables`). The prover has no backend for `ENABLED`, so it
stays with TLC for good. Every safety property of the runs is a theorem.

`LoggedOnce` and `SheetInOrder` hold under the failures of `sheet_retry` only, as section 6 shows; `SheetCurrent` compares
amounts, not currencies; `NoLostWakeup` is about receipts whose creator undertook to wake the loop: a
cancelled await releases a job and wakes nobody, which the code leaves to the timeout.

`RateOfTheDay` says of the days of its bound that the prefetch keeps trying: an earlier day may pass without a rate, so only the last one
has to get its own. `save_db_rate` makes two inserts, of a rate and its inverse, in one `executemany`; the pair is one entry of the table in `ExchangeRates`.
Cancelled awaits are in `queue_faults` (safety) only, and so is the journal fallback.

Partly modelled: the PWA's queues. The one of expenses is in `ExpenseIngest`; the one of receipts has the same
flush and meets `ReceiptQueue` as repeated and concurrent POSTs.

Of the backups, a restore to a local file, the analytics backup and the setup of the machines are left out: each is run by one
person on files nobody else writes. Litestream and SQLite are external; downloads that fail their integrity check end the command.

Not modelled: contents (names, prices, comments), the LLM, HTML and HTTP, SQL plans, the event loop's own
scheduling within one step. A statement that meets a locked database fails as a whole. Clock changes
and two servers on one file are out of scope: the deployment has one. The TTL cache of the rates is
used by several threads without a lock; the model takes each access to be atomic. The remaining components,
with their reasons, are in `PROJECT.json`: the dirty marks of the PWA's cached lists, presentation,
the desktop notebook, shell commands, parsers, and start-up code that runs before anything else.

## 8. Plan

Done: the three queues with the abstract ledger and the abstract outbox; catalog, device, rules, ingest, rates, mapping
and backups; theorems about all of them, which state every property of the runs but the liveness of section 7, and both refinements.

Next, in this order:

1. The income and the expenses in one task: a composition whose breakers are shown not to disturb each other.
2. The outbox with a count: each expense added once, under `OnlyLostAnswers`, as a second refinement beside `AppendedOnce`.
3. From the ingest to the sheet: the jobs `ExpenseIngest` creates against `Create` of `SheetLogging`.
4. A model of the dirty mark of `useStaleCache`.

## 9. How to run everything

In this directory:

    tlasany MCSheetLogging.tla
    tlc -workers 2 -config MCSheetLogging_faults.cfg MCSheetLogging
    tlapm SheetLoggingProofs.tla

Each run of section 3 is `MC<module>_<instance>.cfg`; all of them together take some
fifteen minutes, the proofs a few more.
