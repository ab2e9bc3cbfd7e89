# A TLA+ model of yourmillionaire

The repository is a bookkeeping service for small Korean businesses: AWS Lambdas in TypeScript
(`apps/*`, `packages/*`), PostgreSQL with row-level security (`schema.sql`,
`infrastructure/lib/stacks/data/sql/migrations`), an SQS queue, a DynamoDB cache, and CDK stacks
that wire them (`infrastructure/lib`). Bank statements are fetched through CODEF, classified by a
language model into double-entry journal entries, reviewed by the user, and turned into reports
and tax filings. Paths below are relative to `src/`.

## Inventory

| Component | State it keeps | Operations | Talks to |
|---|---|---|---|
| Bank-transaction pipeline (`apps/codef`, `packages/journal-core`) | `raw_transactions` (with `dispatched_at`, `fetched_at`), `journal_entries`, TransactionCache, ClassifyTasksQueue + DLQ | scheduled fetch, SSE sync, classify worker | CODEF, SQS, the classifier, PostgreSQL |
| SSE sync run (`fs-sync-stream.lambda.ts`, `pg-sync-run.repository.ts`) | `sync_run`, `sync_run_account`, `tenant_bank_accounts.last_balance_krw`, the event stream | create, mark running, outcomes, complete, fail | the pipeline, the browser |
| Entry review (`apps/journal`) | `journal_entries.confidence_status`, `.status`, `journal_lines` | PATCH lines, confirm, discard | PostgreSQL |
| Identity and onboarding (`apps/identity`) | `users`, `tenants`, `tenant_members`, chart of accounts, Powertools idempotency records | GET /me, POST /tenants, list | Cognito, DynamoDB |
| Bank connections and accounts (`apps/identity`, `apps/fx`) | `tenant_bank_connections`, `tenant_bank_accounts` | connect a bank, add, register, discover, link, edit, deactivate | CODEF |
| Fetch windows (`codef-fetch.lambda.ts`, `fs-sync-stream.lambda.ts`) | the newest `fetched_at` of a tenant | choose the days to ask for, per job | the accounts, CODEF |
| FX rates and revaluation (`apps/fx`, `packages/fx-core`) | `fx_observations`, revaluation entries | look up, range, daily collector, revalue | ECOS, the journal |
| Tax filings (`apps/tax`) | `filing_obligation`, `holiday_cache`, drafts | generate obligations, list upcoming, recompute | KASI holidays, tax-core, journal |
| Law corpus and its administration (`apps/tax-knowledge`, `packages/law-corpus-core`) | S3 objects, `tax_law_chunk_meta`, `tax_law_sync_state`, `tax_rule_approval`, `tax_rule_review_request` | monthly sync, approve a rule, resolve a review | law.go.kr, S3, the knowledge base |
| Strategy agents (`packages/agent-core`, `tax-strategy.lambda.ts`, `fx-strategy.lambda.ts`) | a conversation, an event stream, a timer | the tool loop, its limits, heartbeats, the error boundary | Bedrock, the browser |
| Statements, views, tax arithmetic (`apps/journal`, `packages/reports-core`, `packages/tax-core`, `apps/tax`) | none of their own | statements, dashboard, the agent's financial statement, drafts, penalties, benefits | the journal |
| PostgreSQL pool, schema migrator, authentication, CDK stacks | a module-level pool; migration ledger | connect and refresh, apply | everything |

How they interact. A scheduled fetch (a Step Functions state per tenant) and an SSE sync (a
request of the browser) both upsert into `raw_transactions`. The upsert's `xmax = 0` decides which
of them was first, and only the first one classifies a row: the fetch by way of the queue and
the worker, the sync in its own loop. Both write entries through `packages/journal-core`.
Uncertain entries are then reviewed with the API of `apps/journal`. Certain entries are
projected to DynamoDB, summed into reports, and the reports feed tax drafts and obligations.

What is hard here. There are no locks: every use case reads in one transaction and writes in
another, under READ COMMITTED, and the guards are `ON CONFLICT` clauses, `WHERE status = ...`
and a deferred balance trigger. Delivery is at least once. A Lambda may be killed at its
timeout between any two awaits. Handlers swallow some failures and rethrow others. Times, dates
and windows are computed from what earlier runs left behind. `PROJECT.json` lists the hazards at
their lines, with the properties meant to notice each.

What makes each part correct:

- pipeline: a row has one owner, at most one entry, and is never lost once it is stored; FX rows
  stay out; the cache shows only committed, certain entries;
- sync run: counters, per-account outcomes, balances and the stream tell one story, and the
  stream ends;
- review: a verdict is given once and truthfully answered; lines are balanced and never lost; the
  lines of a confirmed entry do not change;
- onboarding: one personal tenant per user, whoever is told "created" is a member, one key gets
  one answer;
- filings: each statutory period has its obligation, due after the period ends and on a
  business day;
- accounts: an account carries a login of its own bank that has listed its accounts; one caller is
  told it created an account; no day of an account that is fetched regularly is left out;
- FX: a lookup answers with the newest rate there was; the collector leaves no hole; a
  revaluation that succeeds has overlooked no difference, one that is refused has a cause;
- law corpus: a row has its objects, one walk alone leaves open just the rows of the revision called
  current, whatever earlier ones left behind, a failure shows, an answered approval is recorded;
- agent loop: bounded, every tool call answered and told, one end of the stream;
- statements: different computations of one profit agree, builders throw only when they must,
  penalties do not fall with delay, two verdicts on one benefit differ for known reasons only;
- pool, migrator: every connection usable, every migration applied once.

## Modules

| Module | Models | Checked by | Proved in |
|---|---|---|---|
| `TxIngestion` | the pipeline: `codef-fetch.lambda.ts`, `fs-sync-stream.lambda.ts`, `codef-classify-worker.lambda.ts`, `classify-dispatcher.client.ts`, `pg-raw-transaction.repository.ts`, `pg-journal.repository.ts`, the queue of `ingestion.stack.ts` | `MCTxIngestion` | `TxIngestionProofs` |
| `JournalContract` | what the pipeline promises about rows, hand-over and entries | as property of `TxIngestion` | refinement in `TxIngestionProofs` |
| `EntryReview` | PATCH, confirm and discard: `apps/journal/src/application`, `pg-entries.repository.ts`, constraints of `journal_lines` | `MCEntryReview` | `JournalProofs` |
| `SyncRun` | one SSE sync seen from its audit tables and its stream: `fs-sync-stream.lambda.ts`, `pg-sync-run.repository.ts`, `process-foreign-account.ts` | `MCSyncRun` | `StreamProofs` |
| `Onboarding` | a user's first requests: `ensure-user-exists.use-case.ts`, `ensure-personal-tenant.use-case.ts`, `create-tenant.use-case.ts`, their repositories, the idempotency layer of `apps/identity/src/main.ts` | `MCOnboarding` | `OnboardingProofs` |
| `Filings` | the filing calendar of a tenant: `filing-obligation-generator.lambda.ts`, `holiday-roller.ts`, `pg-holiday-cache.repository.ts`, `pg-corporation-profile.repository.ts`, recompute in `filings.controller.ts` | `MCFilings` | `FilingsProofs` |
| `BankAccounts` | `connect-bank.use-case.ts`, `add-bank-account.use-case.ts`, `fx-accounts.controller.ts`, their repositories and clients | through `Banking` | `BankingProofs` |
| `Banking` | `BankAccounts` composed with the jobs that fetch from them and choose a window of days: `codef-fetch.lambda.ts`, `pg-raw-transaction.repository.ts` | `MCBanking` | `BankingProofs` |
| `FxBooks` | `get-exchange-rate.use-case.ts`, `collect-fx-rates.use-case.ts`, `revalue-foreign-balances.use-case.ts`, `packages/fx-core` | `MCFxBooks` | `FxBooksProofs` |
| `LawCorpus` | `sync-law-corpus.use-case.ts`, `packages/law-corpus-core`, the state machine of `legal-kb.construct.ts` | through `TaxKnowledge` | `TaxKnowledgeProofs` |
| `TaxKnowledge` | `LawCorpus` composed with `admin.controller.ts` and the triggers of migration 0012 | `MCTaxKnowledge` | `TaxKnowledgeProofs` |
| `AgentRun` | `agent-runner.ts`, `streaming-handler.ts`, `tax-strategy.lambda.ts` | itself | `StreamProofs` |
| `Ledger` | a tenant's journal as its readers sum it: `seed-accounts.ts`, `pg-reports.repository.ts` | through `Books` | `JournalProofs` |
| `Statements` | `build-reports.use-case.ts`, `packages/reports-core`, `pg-views.repository.ts` | through `Books` | `JournalProofs` |
| `TaxRules` | penalties and benefits: `packages/tax-core`, `apps/tax/src/application/tools` | through `Books` | `JournalProofs` |
| `Books` | the three above composed with `financial-statement.use-case.ts` and the drafts of `filings.controller.ts` | `MCBooks` | `JournalProofs` |

Operators under a comment "Deviation" are not part of the modelled program. Each is a plausible
slip in the definition that follows it; the mutants of `PROJECT.json` put it in that definition's
place to see that a property notices.

### TxIngestion

`raw`, `dispatched` and `entries` are the database: which account owns a stored row,
`dispatched_at`, and the committed entries. `cache` is the TransactionCache. `msg` and `receives`
are the SQS state of the one task that can name a row. The other variables are the locals of
Lambdas: `pending` (accounts still to process), `fresh` (`newRawTxIds`), `todo` (ids
still to send or classify), `cur` (the row at hand), `batch` and `failed` (the SQS event and
`batchItemFailures`). `seen` is a history variable: rows any upsert was given.

One action is one transaction or one external call, with everything the code does before it next
gives way. `ProcessAccount` is the upsert of one account: which part of the statement CODEF
returns is chosen freely, and the rows that come back with `xmax = 0` join `fresh`. `CheckRow` is
`existsBySourceRef`; `SaveEntry` the later COMMIT of the entry, its AI decision and
`markDispatched`. The classifier lies between the two. What it decides is a free choice of certain
or uncertain. `RowFails` is a ROLLBACK: a worker reports the record, a sync goes on. `Die` and
`KillWorker` are exceptions and timeouts. `Receive`, `ReceiveDuplicate`, `EndInvocation` and
`MoveToDlq` are the SQS event source as the stack configures it (batch size, `ReportBatchItemFailures`,
`maxReceiveCount`).

Step Functions retries appear as further elements of `FetchRuns`: a retried fetch starts over with
no memory of the first attempt.

### EntryReview

A request is validated (`Arrive`), reads the entry in one transaction (`Read`), writes in a second
(`UpdateStatus`, or `BeginReplace` and `CommitReplace`), and reads again for its answer
(`Refresh`). The header update is one guarded UPDATE, hence one action. Replacing lines takes two,
because a READ COMMITTED DELETE keeps the snapshot of its start and then waits for locks: rows a
second PATCH inserted meanwhile are not deleted. `Stored` is the conversion to `NUMERIC(18,2)`:
amounts of a request are half cents, amounts of the database cents, so that a body can balance
before rounding and not after. `Constraints` are the CHECK, the UNIQUE and the deferred balance
trigger.

### SyncRun

One action is one `withRlsContext`. A transaction of a faulty run may roll back (`HandlerThrows`), or
commit without the handler hearing of it (`Committed`, its second disjunct); the handler lands in
its catch block either way. `calls` numbers the answers of CODEF, so that a balance is identified
by the answer it comes from. `written` is history: whose balance UPDATE was committed. The branch of
the scheduled fetch that takes a `syncRunId` is not modelled: the state machine passes a
`tenantId` only (`infrastructure/lib/stacks/ingestion.stack.ts:276`).

### Filings

`filings` is `filing_obligation`, `cache` the holidays of `holiday_cache`, `profile` the columns of
`tenants` the generator reads, `now` the month a handler sees when it starts. A generator loads
the holidays (`LoadHolidays`), reads the tenant (`ReadTenant`) and inserts (`InsertFilings`) in
three transactions, so that edits, other generators and the turn of the month fall between them;
`Abort` is any exception or timeout. `runs` is history: the month and profile of committed runs.
The four `build...Obligations` functions are operators on months (12 * year + month - 1, the
arithmetic of `addMonths`) and Gregorian day numbers; what they return is a set, since the code
uses its list only to insert. A draft is a status: the amounts in it are not modelled.
`OnlyStatutoryFilings` states periods and due dates from the statute's side (from the month a
period ends in), independently of the operators that compute them. Its one exception, `LongYear`, is
the corporate filing of two years that a fiscal year from January gets, the default of
`schema.sql:93`; `AllStatutory` is the same property without it (see Disagreements found).

### Onboarding

One user, whose requests run concurrently. `registered`, `tenants` and `members` are the rows of
`users`, `tenants` and `tenant_members`; a tenant is named after the request that inserted it, since
a request inserts one at most, and `birth` orders the tenants by `created_at` (PostgreSQL's `now()`, the start
of the inserting transaction, hence `BeginTenant` apart from `InsertTenant`). One action is one transaction:
`FindUser`, `LookAgain` and `InsertUser` are the SELECT of the use case, the SELECT of the upsert and its INSERT,
apart because another request may create the user in between; the conflict is then an UPDATE
that `users_update_self` refuses.

`records` is the idempotency table around POST /tenants, modelled from how the Powertools library is used
(`Claim`, `Replay`, `Complete`, `Release`, `StoreFails`). A record in progress may be taken over when it
has expired, which the library sets to the holder's remaining time: so its holder has `Ended`. The
one-day expiry of completed records is not modelled. `Fail` is a transaction, KMS or a validation that
throws, or a transaction that was committed without the handler hearing of it, `Kill` the timeout. A
retry of a client is a further request with the same input.

### BankAccounts and Banking

In `BankAccounts` a connectedId is named after the request it was issued to, and a row of
`tenant_bank_accounts` after the bank's organisation code and the account number (or after the
request that entered it by hand). Each request is its use case cut where it gives way: POST
/bank-connections asks CODEF for an id, lists the accounts with it and stores it
(`CreateAccount`, `ListAccounts`, `UpsertConnection`); adding and linking read the stored id, list
foreign accounts if need be, and insert (`ReadConnection`, `ListForeign`, `InsertAccount`); edits and
deactivation read the row and write it in one transaction without a lock (`ReadAccount`,
`WriteAccount`). `listed` is history: what CODEF has listed accounts for. A login may `Expire`.
Balances are left out.

`Banking` adds the jobs: a scheduled fetch, or a sync, reads the active accounts (`LoadAccounts`),
chooses its days from the newest row of the whole tenant (`ResolveDateRange`), and asks for each
account with the id it has read (`FetchAccount`). `covered` are the days of an account of which
everything is stored: today is not, its later transactions are still to come. `track` is history
about windows that were answered, in default windows. Days before day 0 are negative.

### FxBooks

Amounts are integers: KRW in cents, a rate in parts of a cent (`Parts`), so that a difference may be
less than a cent. One action is one query or one call of ECOS: a lookup that misses the cache
walks back one call per day (`Walk`) and the day found is stored (`UpsertMany`), which may be after others
have stored theirs. `ListRange` answers from the cache as soon as any day of the range is there.
A revaluation is one transaction with the calls inside it; its read and its walk are apart, since
bookings commit and rates are published meanwhile. It never stores an entry: the INSERT
(`revalue-foreign-balances.use-case.ts:95-100`) names no `posting_date`, which `schema.sql:284` declares
NOT NULL without a default, so that `Post` answers 200 when there are no lines and otherwise rolls back
with a 500. `balance` is the ledger, of lines of every date. `known` and `sweep` are history.
The collector's retries are further requests; dates in the future are not modelled.

### LawCorpus and TaxKnowledge

A run walks the registry; each law in the six `Steps` of `syncOne`, each step one call or one
transaction that may fail (`StepFails`, then `RecordFailure`) or be the last of the Lambda
(`Die`). Rows of `tax_law_chunk_meta` are counted: every article of a revision is registered in
one statement, and since paragraph and item are NULL the conflict clause never fires, so
a walk adds a copy. The S3 objects are put one at a time (`PutChunk`), chunk before metadata.
`outcome` and `crossed` are history: a law is `crossed` once two runs are at it at one time, until
a run comes to it alone.

`TaxKnowledge` adds the administrators. An approval is one transaction: an insert waits for the
one with the same key (`Conflict`), the trigger counts what its snapshot sees, and a second
approver makes it write `tax_rule_change_log`, which row security refuses. `ResolveReview` opens the
gate of a law, `kb_chunk_active`. What nothing in `src/` does, closing a gate and asking for a review, is
`Detect`. No search reads the gate, so that no property is about it.

### AgentRun

One action is what runs between two awaits. The conversation is a sequence of messages with the
tool calls they carry or the results they bring; the stream a sequence of event types. The model's
turn is a free choice of text, calls and stop reason. `Throw` is any error that reaches
`withStreamingErrorBoundary`; an error in a tool does not (`ToolEnds`). The heartbeat is a timer and
may fire between any two steps while it is set.

### Ledger, Statements, TaxRules and Books

`Ledger` has the default chart, one account of each sort that a query tells apart, and
entries that are saved, confirmed or discarded; its sums are folds over entries joined with their lines
(`Joined`), as in the SQL. A statement is its queries, one transaction each (`Query`), and then its
builder (`Build`). `TaxRules` are the two implementations of penalties and benefits. `Books` puts both beside the agent's
financial statement and the drafts of filings, each transcribed from its own SQL: the profit of a
period is computed in four of them. What the agent tells its benefit tool of a company (`AsTold`) has
the revenue of that statement (`RevenueRead`), while the rule engine is given that of the year before.
Ages are whole years and industries two digits, and
floating-point error is left out.

## Runs

| Run | Bounds | What it shows |
|---|---|---|
| `TxIngestion` | a fetch, a sync, two workers, all faulty; two KRW rows, one FX row; SendBatch 1, BatchSize 2, MaxReceive 2; no duplicate delivery | custody of dispatched rows, one entry per row, the cache, the refinement of `JournalContract` |
| `TxIngestionLive` | two KRW rows, a fetch and a sync that do not fail, two workers of which one is faulty, one duplicate delivery; fair | every stored KRW row gets its entry or its task is in the DLQ, and it always has an owner on the way |
| `EntryReview` | one entry, three requests of any kind, four bodies | finality and truth of verdicts, whole entries |
| `SyncRun` | one run, two KRW accounts, one foreign; rollback, lost acknowledgement and kill | counters = outcome rows = accounts, flags, the final event |
| `Filings` | two generators, December 2025 and January 2026; a personal and an exempt tenant, an exempt corporation with a fiscal year from April, and one whose fiscal year (January by default, or December), cadence and VAT regime change; one holiday that is announced and withdrawn; drafts of income tax | statutory periods and due dates but for the two years from January, nothing missing for eleven months, harmless reruns |
| `Onboarding` | three requests of six inputs (GET /me, the list, POST with two keys or none, one registration number or none), all faulty, the user known or not | one key one tenant, created means owner, one tenant per registration number |
| `Banking` | two requests of fourteen orders, two jobs, two banks with three accounts, connected before or not; three days, lookback 1, initial lookback 2 | ids belong to their bank, one creator of an account, no day missed |
| `FxBooks` | two requests of any kind, four days, walk back 1 and window 1, two bookings on a USD and another account | the newest rate is answered, no hole behind the collector, a successful revaluation has overlooked nothing, refusals for cause |
| `TaxKnowledge` | three runs over two laws with two revisions, of which two overlap, one a law of prefaces only; three administrators of whom one is unknown, four calls | rows have their objects, a walk alone leaves just the current revision's rows open, gaps show, approvals are recorded |
| `AgentRun` | three turns of up to two calls, one tool and one misnamed, one heartbeat; fair | one end of the stream, calls answered and told, every run ends |
| `Books` | four entries on two years, two periods, months of two days, seventeen delays, profiles of three industries, ages, regions and revenues, with R&D or without | builders that throw, four profits, penalties by delay, the two verdicts on a benefit |
| `BooksYear` | as `Books` | violation: last year's and uncertain amounts in the year to date |

Why the bounds are enough to meet the cases. Two KRW rows with SendBatch 1 make a fetch that dies
between two batches; BatchSize 2 puts both rows in one invocation, so that one fails while the
other succeeds. MaxReceive 2 lets a message be received, fail, be received and go to the DLQ.
A fetch and a sync are the two kinds of owners, two workers the smallest number that can share a
duplicate. Three requests on an entry are a PATCH
caught between two verdicts, or two PATCHes and a confirm. Four bodies are: the line numbers of
the original, other numbers, balanced only before rounding, not balanced. Entries do not interact
(no action reads a second entry), so one is enough; the proofs hold for any number.
For filings the turn of the year is the boundary: the December run must reach VAT and withholding of
the next calendar year, January's run looks back. `Horizon` bounds the clock, `DraftKinds` the
filings that get a draft (drafting one kind is enough to see a rerun touch it).
For onboarding three requests are a holder of a key, its retry and a rival with another key or without, or
two logins and the list. One registration number suffices: requests with different numbers do not meet.

Two members and two jobs are the smallest races over accounts; the third day of `Banking` makes an
account fail for as long as the lookback and for longer. The constraint `Stage` of `MCBanking` keeps the
product down: two requests race before anything is fetched, one beside running jobs, two jobs race
alone. A job reads the accounts in one step and carries their ids, so a second request beside it adds no
new order of reads and writes. The proofs in `BankingProofs` need no such constraint.
In `FxBooks` four days with a walk back of one give a run of days without a rate that is bridged and
one that is not; a window of one, a hole that closes and one that would not. Rates of 10, 12, 11 and 5
quarters of a cent make gains, losses, differences below a cent, and none at all. `Stage` keeps lookups
and bookings apart, which share no variable but the rates. `Stage` of `MCTaxKnowledge` lets
two runs overlap and a third come after them, to repair what they left; reviews are asked for and
resolved after a single run, and rules approved while no law is walked: approvals share nothing
with the corpus, and reviews only the gate. The second law has no article, the first a unit
without a number. In `AgentRun` three turns are a first, a middle and a last, two calls a first
and a last. `Books` has one entry per hazard: last year's sales; one whose lines touch cash that
the dashboard excludes, income tax and a second revenue code; an expense on credit; a loss on a contra
account. Last year's sales, 90 billion won, take the revenue that the agent reads beyond its tool's limit of 80;
the amounts of this year are such that no step of a penalty is lost in rounding. The delays are both
sides of every step.

The bounds are constants: `MaxDuplicates` in the guard of `ReceiveDuplicate`, `MaxReceive` from the
code, `MaxDay`, `MaxBookings`, `MaxRevision`, `MaxBeats`, `MaxUses`, `Horizon`; runs and requests end,
so no other counter grows. `CHECK_DEADLOCK FALSE` is set
where invocations, requests and days are finite: the system comes to rest.

Symmetry is used for interchangeable workers, KRW rows, requests, jobs and runs, in runs without
liveness.

Ten modules have a type invariant that is a theorem (see Proofs), which their configurations therefore
leave out.

### Fairness

`TxIngestion!FairSpec` and `SyncRun!FairSpec` say that a started Lambda goes on (weak fairness of its
steps: its event loop runs until it returns), and that SQS delivers. Delivery of one message
needs strong fairness: its worker may be busy with others again and again, and SQS still comes back
to a visible message. Nobody is obliged to start a run, and no fault is fair: a kill may happen or
not. `EveryRowSettled` holds although the worker may fail each time, because the receive count ends
the retries in the DLQ; it needs fetch and sync to survive (see Disagreements found).
`AgentRun!Spec` has weak fairness of `Step`: the calls of the model, the database and a tool return or
time out, since their clients have timeouts and the Lambda has one. The heartbeat is not fair.

## Disagreements found

One is a run of its own (`BooksYear`, with the finding in `PROJECT.json`): the agent's income statement
of the year to date sums the lines of every day and status. Eight more were found and are not run by
default. Each is a property that the module defines and the code does not have:

| What happens | How to see it | What the repository says |
|---|---|---|
| a duplicate delivery writes a second entry for one row (`codef-classify-worker.lambda.ts:84`) | `TxIngestion.cfg` with `MaxDuplicates = 1`: `OneEntryPerRow` | migration `0023-unify-journal-entries.sql:2`: "Every transaction the user has is represented by exactly one row in journal_entries" |
| a fetch that dies before it sends, or a failed classification in a sync, strands a row (`codef-fetch.lambda.ts:404`) | `TxIngestion.cfg` with `INVARIANT NoStrandedRow` | the same line |
| equal rows of two accounts collapse into one (`codef-bank.client.ts:44`, `schema.sql:433`) | `Accounts = {krw, krw2}`, `Keys = {k1}`, `Rows <- MCTwins`, `INVARIANT EveryRowStored` | the same line |
| a PATCH rewrites an entry that was confirmed after it was read (`update-entry-lines.use-case.ts:56`) | `EntryReview.cfg` with `PROPERTY CertainIsImmutable` | its line 1: "Certain entries must be reversed first." |
| a fiscal year from January gets a corporate filing of two years (`filing-obligation-generator.lambda.ts:172`) | `Filings.cfg` with `INVARIANT AllStatutory` | its line 18, `CORP_FINAL_DUE_MONTHS_AFTER_YE = 3`: a due date three months after the end of a year |
| two concurrent first logins get two personal tenants (`ensure-personal-tenant.use-case.ts:17`) | `Onboarding.cfg` with `Inputs <- MCLogin`, `INVARIANT MeIsIdempotent` | its line 1, and `docs/03-identity-api.ko.md:12` |
| a revaluation that has anything to post is refused, for want of a `posting_date` (`revalue-foreign-balances.use-case.ts:95`, `schema.sql:284`) | `FxBooks.cfg` with `INVARIANT RatesSuffice` | its line 1: "posts unrealised gain/loss entry" |
| the agent's penalty tool tells less after 1 month than after none (`compute-penalty-scenario.tool.ts:63`) | `Books.cfg` with `INVARIANT WaitingNeverPays` | its line 1: "to quote exact penalty figures instead of guessing" |

Met while modelling, by component. Pipeline, sync and review:

- `completeSyncRun` and `failSyncRun` do not ask for the present status. After a COMMIT whose
  acknowledgement is lost, a completed run turns into a failed one
  (`pg-sync-run.repository.ts:185`; migration 0019:24 describes the two as terminal).
- A killed SSE Lambda leaves its `sync_run` in 'running'; nothing sweeps it.
- Two overlapping syncs of a tenant may store the older of two balances last (`schema.sql:158`).
- `processForeignAccount` updates the KRW balance before it finds that a rate is missing; the
  transaction commits and the account is reported as an error (`process-foreign-account.ts:149`).
- Two overlapping PATCHes with different line numbers leave the lines of both in the entry. The
  entry stays balanced.
- `schema.sql:317` says one raw row may have several entries; migration 0023:2 says exactly one.
- Filings are not rolled forward for holidays announced after they were inserted, though migration
  0014:40 says "rolled forward over weekends/holidays via holiday_cache" (`InsertFilings` keeps the row).
- A corporation with a fiscal year from December that is first processed in January gets no filing
  for the year that ended in November (`Overlooked` in `Filings`). Likewise what falls due in the
  month of a tenant's first run, other than VAT, is missing: the withholding of the month before.
- After an edit of cadence, VAT regime or fiscal year the pending filings of the old profile stay
  beside those of the new one; no code withdraws or files one.
- The upcoming list (`filings.controller.ts`) takes the 20 earliest pending filings without a lower
  bound of the date, and nothing sets 'filed': in time it lists only overdue ones, and a recomputed
  filing ('drafted') leaves it.
- Migration 0014:42 says drafts are "rebuilt on transaction edits"; only recompute writes them.
- A POST /tenants that dies between its two transactions leaves a tenant without owner. A retry with
  the registration number gets 409 for ever, one without it creates a second tenant, and GET /me goes on
  naming the first, of which the user is no member. `create-tenant.use-case.ts:1` says "in one operation".
- `docs/03-identity-api.ko.md:86` says a double click makes no duplicate, because the registration number is
  unique; without a number (it is optional) and without a key two tenants are created.
- Two concurrent first requests of a user: the later upsert is refused by row security, a 500.
- The roll-forward of a due date in the year after next finds no holidays: the generator loads those
  of last year, this and the next only.

Accounts and fetch windows:

- `codef-error-messages.ts:26` asks the user to connect the bank again when its login has expired.
  The connection then gets a new id, but the rows of accounts keep the old one
  (`pg-bank-connection.repository.ts:38`), and fetches go on with it (`BankAccounts!ReconnectRepairs`).
- An account that was linked and deactivated is shown as not linked (`docs/API_LIST.md:596`), and linking
  it answers 409: the inactive row still holds the key.
- POST /bank-accounts takes number and kind from the body without asking the bank.
- An account that fails for longer than the lookback loses the days in between, if others succeeded:
  the window is the tenant's (`NoDayIsMissed` holds for accounts that do not).

FX:

- Nothing under `src/` but the revaluation writes `journal_lines.fcy_*`, though `schema.sql:347`
  defines them for entries in foreign currency: the open balances it reads come from elsewhere.
- Every revaluation with lines fails: of the writers of `journal_entries`, the journal's repository sets
  `posting_date` (`pg-journal.repository.ts:52`, 91), the revaluation does not.
- Were it stored, a second revaluation of a date would count the gain again: the query of the booked amounts
  leaves lines of revaluations out.
- A range is answered from the cache as soon as one day of it is there, without the others.
- One balance in another currency than USD makes every revaluation of the tenant fail.
- `upsertMany` sends BEGIN and COMMIT through the pool, not through one client.
- The prompt of the FX agent calls "today's rate" what is the newest of thirty days
  (`fx-strategy-templates.ts:198`).

Law corpus and administration:

- A rule never gets its second approval: the trigger's INSERT into `tax_rule_change_log` is refused by
  row security, which has a policy for SELECT only (migration 0012:129 and 164), so the second approver gets
  a 500 each time. Two approvals at one time see only themselves and both answer 200.
- `paragraph` and `item` are NULL, so that ON CONFLICT never fires (0013:40, 51): a walk adds copies of rows.
- A run that searched before an amendment and closes after a newer run leaves the older revision open.
- Old rows are closed before the rule is approved twice, which 0013:54 asks for; `kb_chunk_active` is
  written and never read by a search (0013:23); the metadata in S3 keeps `effectiveTo` 'open'.
- Staleness is judged by `MAX(last_synced_at)` over all laws, so that one fresh law hides the stale ones.
- `filings.controller.ts:160` selects `law_name` from `tax_law_chunk_meta`, which has no such column, and
  its `allApproved` (line 173) is true as soon as rows exist, whatever their `approved_at`.

Agents:

- At the turn limit `final` may tell an empty answer, and the `done` after an error counts no calls.
- A tool call of the model without a name or id is left out of the results.

Statements and tax arithmetic:

- The balance sheet has no line for the income of the period, and `balance-sheet-builder.ts:55` throws when
  the sides differ: books with a certain profit or loss get no balance sheet (`SheetLacksIncome`).
- Accounts whose normal side is not that of their type (1402, 2103) are added where they should be
  subtracted, and the loss on exchange 5701 is added to the net income.
- The VAT quarters of the agent's statement and the VAT draft look for codes the chart does not have
  (2551, 1351; prefixes 41 and 42, while sales are 4001), and the draft counts uncertain and
  discarded entries.
- "All entries are confirmed." may accompany uncertain amounts: it is one query, the sums another
  (`build-reports.use-case.ts:29`).
- The cash of the dashboard leaves 1004 out; nothing sets `receivable_status` when an entry is saved.
- The penalty tool gives no reduction after 0 months, or when the months are not told, and one of 90 percent
  after 1 (`WaitingNeverPays`).
- The agent's tool and the rule engine differ (`VerdictsDifferForCause`): revenue up to 80 or 5 billion won, of
  the year to date or of the year before; the capital region at half the rate or not at all; for the R&D
  credit a positive expense (`check-benefit-eligibility.tool.ts:135`), or revenue and industry
  (`rnd-tax-credit.ts:48`). The rate for the capital region in the rule engine is never reached.
- The savings of a benefit may exceed the tax.

## Proofs

`TxIngestionProofs` (for any accounts, rows, runs, workers, batch sizes and, where stated, any
number of duplicate deliveries). None of the properties is inductive by itself. The strengthening
is a conjunction of named parts, defined at the end of `TxIngestion` so that TLC could check them
first:

- `Ownership`: `fresh` sets are disjoint, inside the stored rows, and contain what a run has still to
  do; a fetch has queued nothing of what it still has to send. This is why `SingleOwner` holds.
- `KrwOnly`: everything queued, delivered, or at hand is a stored KRW row. It needs `SourceAssumption`
  (codef_bank and codef_fx keys differ) and gives `FxNeverJournaled`.
- `Progress`: a record of a worker's event is waiting, at hand, reported as failed, or journaled;
  a deleted task's row is journaled. It gives `DispatchedNotLost`.
- `Projection`: only a process that saved a certain entry reaches the projection. It gives
  `CacheIsPosted`.
- `Custody`: without duplicates each queued row is in the hands of one worker. It gives
  `OneEntryPerRow` and, with the others, the refinement of `JournalContract`: each step is a `Store`,
  a `Settle`, a `Journal` or a stutter.

- `Kept`: a KRW row that is neither queued nor journaled belongs to a run that may fail or has not come to
  it yet (`Ahead`). It gives `NoStrandedRow`.

`OneEntryPerRow` and the refinement assume `MaxDuplicates = 0`, `NoStrandedRow` that no run is in `Faulty`
(workers may be); the other theorems do not. Both properties are false without (see Disagreements found).

`JournalProofs` shows of `EntryReview`, for any entries, requests and bodies, `TypeOK`, `BalancedEntries` with
`NeverEmptied`, `PostedIffCertain`, `VerdictIsFinal` and `OkMeansDone`. The inductive part `Reviewed`
relates a request's control state to the entry it has read: a request that answers 200 to a verdict
found or made it, and verdicts are final.

Of `Books` it shows, for any finite set of balanced entries, any periods, delays and companies, `BooksTypeOK`,
`NeverRefused`, `SheetLacksIncome`, `ProfitsAgree`, `LaterCostsMore` and `VerdictsDifferForCause`. Only the first two
depend on an order of steps: the inductive invariant is the type, `NeverRefused` and `SeenWhole`, that what
a trial balance has been told so far is of whole entries. A cash flow needs no such part, because its
builder puts down to the working capital whatever is left (`NothingOff`). The others hold of any journal, so
that they are shown of a state and then boxed. They need arithmetic on sums:

- `SetInduction`: a set of subsets of a finite set that has the empty one and grows by one element has the whole.
  The property is a set, so that no operator is a parameter; it rests on the well-foundedness of < on Nat.
- `SumRemove`, `SumAdd`, `SumParts`, `SumIs`: the sum of `Functions` is a fold that takes elements in
  the order CHOOSE gives them. It exists, depends on the values only, and any element may be taken first;
  so sums over parts add up, and a function that grows by the summand is the sum.
- `Net(B, C)`, debits less credits of the entries `B` at the accounts `C`, is additive in both and 0 at
  all accounts. Each view is then some net: of account types (dashboard), of code ranges (trend), of
  natural amounts (balances), of prefixes (draft). `ProfitAccounts` shows that these name the same accounts,
  `DaysOfMonths` that the days of months are those of the drafted period. What a balance sheet is short of
  is the net at the profit accounts, since the whole chart nets to 0.
- `FirstStepFalls`: the discount that `FirstStep` finds, a CHOOSE of the next step, falls with the delay;
  rounding, products and sums keep that order (`PenaltyGrows`, `ScenarioGrows`). The tool's step from no
  month to some is excepted up to 24 months; past them no reduction is left, and the penalty is larger
  than without delay.
- `RevenueReadIs`, `ToolSays`, `RulesSay`: the revenue read is an integer, and each verdict is a condition on the
  profile and on it; where the two conditions differ, one of the reasons holds.

`FilingsProofs` shows, for any profiles, holidays, generators and clock, `TypeOK` (which contains the
unique key), `RerunsAreHarmless`, and `OnlyStatutoryFilings`. A corporate fiscal year that starts in January is
in it: `CorpSound` shows that each filing is statutory or a `LongYear`. `NoGap` is shown under `QuarterEndsOpen`: in
January, April, July and October some day from the 25th on is a business day. Otherwise the roll-forward of a VAT
filing leaves its month, and with it the horizon, one month too early. The calendar
lemmas come first: days are natural numbers, months follow one another and `MonthOf` gives the month of a
day; the roll-forward finds a business day, the first one (its minimality argument is the well-foundedness
of < on Nat). For each kind of filing a lemma says that the
computed filings are records of the table, statutory, and no two for one period. The invariant
is strengthened by `Clocks`: months are past the second year, so that looking back stays in Nat. `Owed` is what
`NoGap` says of one run, of any set of filings: a lemma per kind shows it of what a run computes
(`RunCovers`), and filings that are only added keep it (`OwedKept`).

`OnboardingProofs` shows, for any requests, keys, registration numbers and any set of faulty requests,
`TypeOK`, `SameKeySameTenant`, `CreatedMeansOwner` and `OneTenantPerBrn`. The invariant `Onboarded` adds three
parts to them. `Custody`: a keyed request past its claim holds the record of its key, so that no other
request writes it. `Recorder`: what a keyed request was told is what the record says for good. `Owned`:
a recorded tenant, and one about to be answered, has its owner. Two lemmas carry the proof: `Calm`, for
steps that write no table, and `Writes`, for the three writes of a record; the rest is a case per action.

`BankingProofs` shows, for any banks, accounts, orders, requests and jobs, `TypeOK`, `IdsOfTheirBank`,
`OneCreator` and `NoDayIsMissed`. The accounts and the fetch windows have an invariant each. `AccountsInv`
says of a request (`Ordered`) that the id it holds was listed at its bank before it stores it. `Created`
says that a request which was told 201 has its row; `RowsStay` is the lemma that no other request
overwrites or removes a row. `Windows` says that a window that was not asked for ends at or
before today and begins at least a lookback before its end: `latest` is never of a later day. With it a
day that is left out of `covered` would have to lie before the last answer by more than the lookback,
which `track` excludes.

`FxBooksProofs` shows, for any rates, bookings, walk back and window, `TypeOK`, `AnswersTheNewest`,
`NothingToPost`, `RefusedForCause` and `NoHole`, and that the cache holds only what ECOS has published
(`ObservationsAreEcos`, which no run checks). `IInv` says how far a request's walk has come: no rate known when it
came lies between its cursor and the day asked for, so that a rate found is the newest (`IsNewest`). Since a
rate is published for today only, publications during a walk do not enter it. `NoDelta` is the arithmetic of a
difference, `Quiet` and `QuietNext` carry it to the answer of a revaluation. `Past` bounds the latest sweep
by today, for `NoHole`.

`TaxKnowledgeProofs` shows, for any laws, registry, revisions, runs, administrators and requests, `TypeOK`,
`RowsHaveObjects`, `SettledIsCurrent`, `GapIsSeen` and `AnsweredIsRecorded`, and that the revision named
as current is registered (`CurrentIsRegistered`). `Progress` says of each step of a walk what the steps
before it have made: objects stored, other revisions closed, the revision open. That needs no assumption
on what earlier runs left, so that one walk alone repairs it. Another run
may undo it, but only at the same law, which is then `crossed`; `Alone` says that all other laws have
one walker at a time. `Settled` is what `Progress` leaves behind when a walk ends, and `Rows` that rows only
follow objects. The administrators' part (`Asked`) meets the walks in one place, the gate of a law:
`GateOnly` shows that a step which changes nothing else keeps everything said of walks, and
`WalkKeeps` that walks keep what is said of approvals.

`StreamProofs` shows of `AgentRun`, for any tools and limits, `TypeOK`, `EndsOnce`, `CallsAnswered` and
`CallsTold`. `Ending` says that
neither verdict nor `done` is in a stream before the run has told its end, and that the timer is off
from then on. `Turn` relates the conversation to the tools at work: the calls of the last message are
those executed and those still to do. `Tally` counts the stream: results lag calls by the one tool at work,
and `done` tells the number of results.

Of `SyncRun` it shows, for any accounts, answers and overlapping runs, `SyncTypeOK`, `CountsMatchOutcomes`,
`FlagMeansWritten` and `DoneMeansCompleted`. `RunsInv` says of each run what its phase has behind it. `Processed`:
there is one result for each account that is neither waiting nor at hand. `Completed`: a completed row was
counted from these results, when all were there. `Updated`: a result says `updated` only of a balance that was
written. `Heeded`: the final event is the last one, and `done` follows a completed run.

The assumptions are those the modules declare: `AccountsAssumption`, `SourceAssumption`,
`ProcsAssumption`, `BoundsAssumption`, `LinesAssumption`, `ProfilesAssumption`, `ClockAssumption`,
`HolidaysAssumption`, `RequestsAssumption`, `InputsAssumption`, `ConstantsAssumption`,
`NoneAssumption`, `BankAssumption`, `OrdersAssumption`, `NamesAssumption`, `WindowAssumption`, `RatesAssumption`,
`BooksAssumption` (one of `FxBooks`, one of `Books`), `BookingsAssumption`, `LawsAssumption`,
`AdminsAssumption`, `AgentAssumption`. TLC evaluates each of them in a run. `BookingsAssumption` is what
`schema.sql` asks of a line (one side, an account of the chart) and the controllers of an entry
(balanced), of finitely many entries; `BooksAssumption` says that a filing's period is of whole
months, which the generator makes it, here within the trend's year.

Only model-checked: liveness (`EveryRowSettled`, `StreamEnds`, `Ends`), because it rests on fairness.
All other properties of passing runs are theorems, those under an assumption with that assumption.

## Not modelled

- The PostgreSQL pool (`pg-pool.client.ts`): a token refresh ends the pool other requests of the same
  instance may hold. A Lambda instance handles one request at a time, so that only `Promise.all`
  within a request is exposed.
- The schema migrator: migrations run in order, one transaction each, in one custom resource that
  CloudFormation does not start twice at a time.
- The receivables board: one UPDATE per request on a column nothing else reads.
- Prompts, heuristics and the verdicts of language models (a free choice), the text of reports.
- Request formats of CODEF, ECOS, KASI and law.go.kr, verification of tokens, mapping of errors,
  CDK resource declarations (their timeouts, batch sizes and retry counts are constants of `TxIngestion`).
- Code no handler reaches: `find-applicable-benefits.use-case.ts` other than its arithmetic,
  `search-tax-law.use-case.ts`, the benefits cache, the staleness reader, and the VAT, corporate tax
  and withholding calculators of `packages/tax-core`, which only tests call.
- The branch of the scheduled fetch that takes a `syncRunId`, which nothing passes.
