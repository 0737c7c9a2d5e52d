# Formal verification of nomina-be

TLA+ models, TLC runs and TLAPS proofs for the personal-finance backend in
`src/` (NestJS, Drizzle on PostgreSQL, Redis). What matters in it is money that
stays right while HTTP requests and cron jobs interleave on shared rows, and
sessions, caches and memberships that do not depend on who is faster. That is
what is modelled; HTTP, validation of shapes, formatting and logging are not.

Contents: 1 the system; 2 modules and code; 3 runs and bounds; 4 fairness;
5 proofs; 6 disagreements with the code; 7 known behaviour no run judges;
8 not modelled; 9 plan.

## 1 The system

Paths are under `src/src/`.

| part | state it keeps | operations | whom it interacts with |
|---|---|---|---|
| Balance ledger: `modules/transaction`, `modules/account`, their repositories in `infra/databases/drizzle/repositories` | `accounts.balance`, `credit_limit`; `transactions`; `balance_movements` | create, edit, delete, change status, pay an invoice, buy in instalments, settle; open, edit and delete an account | row locks of PostgreSQL; the three jobs; the report cache, bumped after each commit |
| Recurring generation job: `transaction/jobs/generate-recurring-transactions` | `recurring_transactions`; `lock:recurring:<day>` and `processed:recurring:<day>` in Redis | generate the due occurrences of every active rule | inserts transactions of the ledger; the rule handlers write the rows it has copied |
| Card settlement job: `transaction/jobs/settle-card-installments` | none | complete the due planned rows of cards | the ledger's status change; the report cache |
| Reconciliation job: `transaction/jobs/reconcile-balances` | none | compare `SUM(delta)` with `balance` | reads the ledger |
| Scripts: `../scripts` | opening movements; `installment_count`; the directory `drizzle/` | give old accounts an opening, old rules their count, migrations their number | the ledger and the rule handlers, which go on meanwhile |
| Card invoices: `account/valueObjects/Invoice*.ts` | none: computed from rows | which invoice a day belongs to, statement, carry, limit left | rows of the ledger, the card's stored balance |
| Auth sessions: `modules/user` | `auth_sessions`, `refresh_tokens` | login, refresh (rotation, recovery, reuse detection), logout | cookies of browsers, several tabs at once |
| Report cache: `shared/cache/report-cache.ts`, `infra/cache/redis`, `modules/report` | a generation counter and cached reports in Redis | read through, bump after a commit | every writer of the ledger |
| Workspaces: `modules/workspace` | workspaces, memberships, the default flag, invites | create, invite, accept, add, remove, change role, set default, delete | login takes its claims from the default workspace |
| Instalments and projection: `utils/installmentSchedule.ts`, `report/valueObjects/MonthProjection.ts`, `FixedBills.ts`, `installment-position.ts` | none: computed from rules and rows | dates of a plan, its end, its count, the number of a row, the expected total of the month | rules, the generation job, rows of the ledger |
| Reports: `report/features` | none: computed from rows and balances | series of balances, cash flow, sums of the month, top categories | rows and accounts of the ledger, the report cache |
| Subscription limits: `modules/subscription` | subscriptions | count, then allow | creation of workspaces, invites, accounts |
| Idempotency guard: `providers/auth/guards` | one lock per key in Redis | refuse a repeated request | the four creating handlers of the ledger |
| Redis provider: `infra/cache/redis` | the connection | get, set, counters, owned locks | all of the above |

### What is hard in it

* *Interleaving.* Every handler reads before it locks. The repositories lock
  the transaction, then the accounts in id order; an account deletion locks the
  account first and meets the transactions afterwards.
* *Copies.* The recurring job works on a batch it read earlier and writes
  columns back; so do rule edits, `UpdateAccount` and the change of a role.
* *Overlap.* The jobs' lock lives 300 seconds, the settlement job has none.
* *Partial failure.* Rows, balances and movements in one transaction; the
  bump of the cache after it; the two halves of a session revocation.
* *Two stories.* A card's balance is stored, its invoice is computed; the job
  generates occurrences, the projection of the month anticipates them.

The lines where each of these bites are the `hazards` of `PROJECT.json`, each
with the properties that would catch it going wrong.

### What makes each part correct

| part | promise | property |
|---|---|---|
| ledger | the movements of an account add up to its balance | `MovementsExplainBalance` |
| | each transaction has moved each account by what its row says, once | `EffectsAppliedOnce` |
| | cash and investments are never overdrawn; only a settlement takes a card out of 0..limit | `NoOverdraft`, `CardBand` |
| | every operation takes effect at one instant | `ImplementsAtomicLedger` |
| | no request waits for ever | `NoWaitCycle`, `EveryRequestEnds` |
| recurring job | no date is lost, none is invented, each comes | `GeneratedOnSchedule`, `EveryDateComes` |
| | one run a day unless a lock was outlived | `OneRunADay` |
| settlement job | one run settles (and counts) a row; reports are renewed; due rows settle | `OneRunSettles`, `RenewalIsOwed`, `DueSettles` |
| invoices | each day in one invoice; the invoice agrees with the balance; debt carries over; paid stays paid | `CycleTiles`, `InvoiceMatchesCard`, `DebtCarriesOver`, `PaidStaysPaid` |
| sessions | one chain; racing tabs are not thieves; a revoked session gets nothing; reuse ends it | `ChainIsLinear`, `NoFalseAlarm`, `RevokedStaysOut`, `ReuseEndsSession` |
| instalments | a count and an end agree; a plan becomes its instalments and its total, no more and no less | `CountNamesEnd`, `PlanDelivers` |
| projection | what is expected of the month does not move when the job does its part | `ProjectionAnticipates` |
| | a new expense counts once: on top of the estimate, or in the place of a bill that was expected | `ExpenseCountsOnce` |
| reports | the balances of past days are those the ledger had; four reports tell one story; past days stand still | `SeriesReplayLedger`, `ReportsAgree`, `PastStandsStill` |
| report cache | a report asked for after a write shows it; stale ones fade | `FreshAfterWrite`, `StaleFades` |
| idempotency guard | one key commits once | `OneCommitAKey` |
| workspaces | one member per code; one default; no more workspaces than the plan allows; late removals spare the readmitted; the default is not deleted | `InviteAdmitsOne`, `OneDefault`, `FoundedWithinPlan`, `RemovalSparesTheReadmitted`; `DefaultNeverDeleted`, which the code breaks |
| scripts | what reconciliation reports is what escaped the ledger; a clean run leaves no account out; the openings are invisible to the ledger | `DriftIsEscape`, `CleanRunCovers`, `ImplementsOpenedLedger` |
| | no migration loses its files, and a directory the script calls in order is | `MigrationsKeepFiles` |

## 2 Modules and code

`PROJECT.json` maps every definition to the lines it stands for.

### Ledger: `LedgerRules`, `AtomicLedger`, `Ledger`

`LedgerRules` holds the rules of the entities as operators: the effect of a row
on an account (`Effect`, `Delta`) and when an account refuses it (`Admits`). A
row keeps the columns that decide balances. `planned` is "recurringId is set",
on which the settlement's exemption from the card limit depends.

`AtomicLedger` is the abstract specification: one action per operation, each at
one instant. `balance_movements` is kept as two sums, `moved[a]` (what the
reconciliation job computes) and `net[t][a]` (the part that names transaction
`t`), so that a lost, doubled or misplaced movement shows.

`Ledger` is the code at READ COMMITTED. A request looks at rows nobody has
locked (`Start...`), locks its row (`LockRow`, or `RowMissed`), locks the
accounts in id order (`LockAccount`) and commits (`Commit...`), is refused
(`Reject`) or cancelled (`Abort`: a lock timeout, a lost connection, a
deadlock victim). `StartDrop .. CommitDrop` delete an account: the row lock,
then those of the transactions the foreign keys cascade to or set to NULL.
Writes become visible at the commit. `Ledger` extends `AtomicLedger`, its data
variables are the same, and `ImplementsAtomicLedger` says that with the locks
left out every step is one of the abstract ledger or none.

The job that generates occurrences appears as `InsertOccurrence`: it inserts
pending rows, which move nothing. What happens around it is module
`RecurringJob`.

### Jobs: `RecurringJob`, `SettlementJob`

`RecurringJob` follows `GenerateRecurringTransactionsJobService` step by step:
the mark, the lock with its token, one page of rules at a time past the keyset
cursor, `Generate` for the next rule of the page (rows with their unique index,
then `lastGenerated` and `active` from the copy), the mark of the day, the
release by token. `NextDay`, `LockExpires`, `Crash` and faults of Redis and of
queries surround it. Clients read a rule, change their copy and write every
column back (`Load`, `Save`), delete rules and rows, and break a transfer by
deleting its destination. Dates are days and a rule recurs every so many; the
calendar stops at `LastDay` while days go on, which keeps the instance finite
without stopping the job.

`SettlementJob` lists at most `BatchSize` due rows and settles them one by one:
the conditional UPDATE (`Settle`), a miss and the second query that asks why
(`Miss`, `Resolve`), an error, the time budget, the renewal of reports, death
anywhere. Users create, reopen, complete, edit and delete the rows. The
initial rows are those of cards with a link to a rule or a group, for no code
creates a row of a group any more while the job's filter and its tests still
know it. The two counts of its log line are left out.

### Cards: `InvoiceCalendar`, `CardInvoices`

`InvoiceCalendar` takes the calendar itself as a parameter: `FirstDay[m]`, any
months of any lengths. An invoice key is the month of its due date.
`CardInvoices` puts the stored balance (every handler through undo and apply,
the settlement with no check, a deleted source account with no effect at all)
beside the invoice computed from the rows. One row is one movement of the card:
`charge`, `refund`, `payment`, and two kinds whose destination no check has
looked at, for only a transfer has its destination checked
(`create-transaction.service.ts:102`): `stray`, a row of another account that
names the card, and `looped`, an expense of the card that names the card
itself. `entryKindOf` takes both for payments, while the balance stays or rises.
Each call is one step, as `Ledger` shows it is. `InvoiceMatchesCard` says by how
much the two differ then (`Misread`, and `dropped` for what a deleted account
had paid) and leaves out one case: rows of days to come completed by hand
(`NoneAhead`). A card may have no limit (`NoLimit`); once it has one, no update
takes it away.

### Instalments: `Calendar`, `InstallmentSchedule`, `MonthProjection`

`Calendar` is what both date modules stand on: months of any lengths, and
`AddMonths`, which clamps to the last day as dayjs does. `InstallmentSchedule`
has the three computations that must agree: the step of the job
(`NextOccurrence`), the jump to the end of a plan (`EndDate`) with its inverse
(`InferCount`), and the number SQL gives a row from its date (`Position`).

`MonthProjection` is one rule with its rows. It is created amount by amount,
from a total, or as a purchase whose first row comes with it; updated, with the
count inferred again when the schedule changes; paused, and deleted when no row
names it. Rows are completed, deleted and moved, the job runs, days pass.
`born` and `plan` are history: what was generated, and what was asked for until
somebody edits. `Expected` is the sum that the summary of the month shows:
completed rows, pending rows, and `NotYetGenerated`, which walks the schedule
on its own and leaves out the dates that have a row. Two limits of the code are
assumptions: a calendar that goes on past the end of any plan
(`ProjectionAssumption`), and a loop of the projection that passes the month
before its cap of 1000 steps (`StepsAssumption`).

A day stands for every instant of it: rules and rows are written at midnight of
their account's zone and the job works in one zone. Conversions to a transfer,
which leave the projection, and changes of a row's amount are left out.

`scripts/backfill-recurring-installment-count.ts` works on the same rule: it
reads the dates (`ReadCandidate`), infers a count and writes it where there is
still none (`WriteCount`), while the rule is edited. A count that was inferred
from dates which are not the rule's any more is `stale`, the one exception that
`CountNamesEnd` makes.

`VariableEstimate` has the other half of the expected total: the fixed bills
detected in the months before and not yet settled by a row (`FixedBills`,
`FixedBillsDue`), and the median of what was spent on the remaining days of
past months (`VariableWindow`). The code sorts before it takes the closest row,
the largest candidate or the middle amount; the module names what the sorting is
for: the one row that comes before all others (`Closest`, `Largest`; the ids of
rows are a primary key) and the k-th smallest amount (`Ranked`). Its rows are
the plain expenses, for the others only add up. The run puts the two halves side by side: a workspace has a
rule and no history, for which nothing is estimated, or a history and no rule.

### Reports: `LedgerReports`

Extends `AtomicLedger` with dates, days that pass and the categories of rows,
and computes the reports from the same rows: three series, each with its filter
(`Filter`), its classification (`Resolve`) and today's balance walked back
(`StartBalance`, `BalanceOn`); the cash flow, the sums of the month with their
headline, and the top categories. `LedgerOn` is the reference: balances without
what the ledger's own rules say later rows did. `Untold` lists the transfers
that a series has no word for.

### Openings: `MovementsBackfill`

Extends `AtomicLedger` as it was before `balance_movements`: `Legacy` accounts
with balances and rows, and no movement. Runs of the script go over their list
one account and one transaction at a time: read (`Read`), insert under the
unique index (`Insert`), compare (`Check`), `Commit`; they fail, die, meet and
are repeated. `Escape` is a write that records no movement, which
`Divergences` and `Uncovered`, the report of the reconciliation job, are there
to find.

### Migrations: `MigrationNumbering`

The directory `drizzle/` as journal, SQL files and snapshots, `AddMigration` of
drizzle-kit, and the three writes of `scripts/rename-drizzle-migration.ts` with
a kill between any two.

### Sessions: `RefreshTokens`

One session. Rotation is deterministic (an HMAC of the raw token), so token `n`
has the one possible successor `n + 1`, and a loser of a race computes what the
winner gave out: at most `Hops` successors away, within the grace. Every query
is a step. Answers are lost, processes die, browsers show any token they were
ever given, at any time. `graceEnd` and `elapsed` are marks along the chain for
the 60 seconds and for `expires_at`. The two updates of a revocation run in
parallel, and the one on tokens reaches those stored when its statement began.

### Cache: `ReportCache`

The generation is read before anything else and is part of the key. The counter
can be evicted and then starts from the clock. A command that fails may have
been carried out or not. A report has several queries outside a transaction;
the oldest state one of them saw is what `seen` keeps. `announced` is the last
commit whose bump has succeeded: the promise is about those.

`IdempotentWrites` extends it with the guard in front of the writers: one key,
whose token `holder` is, taken by `Admit`, given back by `Release` when a
handler ends in an error, lost by its TTL (`KeyExpires`). A command of Redis
that fails may have taken effect, and a COMMIT may arrive without its answer
(`CommitInDoubt`). `lapses` counts how often the key let a request in although
an earlier one was running or had committed. Without the key its steps are
those of `ReportCache`.

### Members: `Workspaces`

Statement by statement: what a handler read is kept in `req[p]`, its writes come
later. The transactions that move a default see the old defaults in one
statement and take effect at the commit. A request is of any user, and nobody
waits: two requests may be of one user, for nothing in the code stops him. Two
histories say when that matters: `crossed` has the users two of whose calls that
move the default were under way at once, after each had read the old one
(`Moves`), and `beside[u]` is the most workspaces `u` was ever founding at once.
VIEWER is treated as USER, for neither may manage. `MayFound` and `Within` are
the counts the guard of the plan takes before the handler runs; -1 is no limit.

## 3 Runs and bounds

TLC, two workers. States are distinct states.

| run | instance | states | shows |
|---|---|---|---|
| `ledger` | a wallet and a card, 2 transactions, 2 requests, an invoice payment and a planned instalment, 2 openings, a limit or none | 130 thousand | everything of the ledger's table, with the refinement and liveness |
| `tokens` | 2 requests, 1 of them mortal, 2 hops, 3 tokens | 1.0 million | the promises of sessions, and that reuse ends one |
| `recurring` | 3 casts: 1 run and 2 rules in pages of 1, one of which may break, cap 1; 2 runs and 1 rule whose rows are deleted, cap 2; 1 run, 1 rule and 1 client, cap 2; 2 days, 1 look-ahead day, faults on the first | 258 thousand | the anchor, the schedule, the lock, and that every date comes |
| `writes_and_reports` | 2 requests under one key, 1 reader, 3 commits, clock to 3, 1 lapse | 212 thousand | one commit a key; freshness, and the fading of what a lost bump leaves |
| `workspaces` | 2 users, 2 requests, a plan of 2 workspaces and 2 members; 2 casts: 2 workspaces, 1 code, members, 4 memberships; 3 workspaces, owners and admins, 3 memberships | 2.8 million | the promises of workspaces |
| `workspace_delete` | the same | violation | the default is deleted after a set-default |
| `settlement` | 2 rows, 2 runs, 2 days, 1 edit, 1 fault | 760 thousand | the promises of the job |
| `settlement_group` | the same with 1 run, no fault | violation | a row of a group is forgotten by an edit |
| `card_invoices` | 3 rows of 5 kinds, 3 days of 5 short months, 2 cycles, unit amounts, limit 2 or none, 1 deleted account | 71 thousand | the agreement of invoices and balance |
| `month_projection` | 1 rule, 6 days of months of 3, 2, 2 days, weeks of 2, years of 2 months, weekly, monthly and yearly, 2 or 3 instalments of a total of 5, cap 2, look-ahead 1, today from day 2 to 4, 1 edit, 1 run of the backfill; or 17 histories of 3 short months, 2 plain expenses of 3 amounts in 2 categories, 3 days | 187 thousand | counts, plans and the projection; what an expense changes of the estimate |
| `reports` | an account, an investment and a card, 2 rows of 6 kinds, 3 days, a period of 1 day, 2 categories and room for 1 | 33 thousand | the reports against the ledger and each other |
| `scripts` | 2 legacy accounts, 1 transfer, 2 runs, 2 escapes, 1 fault; or 2 journals with a gap, up to 6 entries, 2 names | 2.3 million | openings beside traffic; numbers and files of migrations |

Why these are enough to be worth it:

* *Two requests* meet in every pair of steps, and a circle of account locks, a
  lost update or a stale read needs two. That more requests add nothing is
  proved (`Implements`, `NeverInCircle`, `ChainStaysLinear`, `ReportsAreFresh`,
  `KeyCommitsOnce`).
* *Amounts* 1, 2 and limit 3: one opening affords the payment, the other does
  not; one charge fits in the limit, two do not.
* *Hops* below the length of the chain, so that the head can be out of reach.
* *Batches* smaller than the work: one page does not hold the rules, one run's
  cap does not reach the threshold.
* *Casts* of `recurring` say who takes part in a behaviour, so that one run can
  ask for safety and liveness: what rules do to each other needs two rules and
  one run, the lock two runs, a stale copy one client. Two runs and a client at
  the same rule (2.5 million states) agree with the safety properties too.
* *Casts* of `workspaces` keep apart what needs four memberships (removed and
  admitted again while another request waits) from what needs three workspaces
  (founding past the plan).
* *Months of 2 and 3 days* make a due day that some months lack, and closings
  in the month before; in `month_projection` a plan that starts on the third day
  drifts to the second, a month ends while days pass, and the cap stops a run
  before the threshold does. The theorems cover every calendar.
* *A total of 5* leaves a cent over whether it is split in 2 or in 3.
* *One edit* of the rule or of a row's date: with it every state that can be
  edited is followed by every run, toggle and day. `LastDate` bounds the dates
  that are generated and asked for (no run looks further from the last day);
  walks and ends look past it, and `MaxSteps` is the least that lets them.
* *Faults and edits* are bounded in `settlement` (`MaxFaults`, `MaxEdits`)
  because without a bound errors could starve a row for ever, which the job
  does not claim to survive.
* *Two escapes and one fault* in `scripts`: one write may escape before the
  opening of an account and one after it, in either run's reach.
* *Histories* of `month_projection` hold bills alike and not quite, other
  expenses of the same category, empty months, and too little for an estimate;
  amounts 4, 5 and 6 are like each other under a ratio of 3/2 and 1 is not.
* *A journal with a gap* is the one thing that made the script necessary: the
  next number of drizzle-kit is the last idx plus one and lies in the gap.

`CHECK_DEADLOCK FALSE` stands where bounds let the system stop: ids, tokens,
memberships or commits run out.

Each property has a mutant of a mapped definition, a plausible bug, that makes
TLC report it violated (`mutants` in `PROJECT.json`; the mutated operators stand
in the modules just before the definitions they replace).

## 4 Fairness

* `Ledger`: strong fairness of each request's own steps. PostgreSQL queues
  waiters of a row lock in order of arrival, so a lock that is released again
  and again is obtained; weak fairness would not say that. `DeadlockVictim` is
  weakly fair: the detector of the server cancels one request of a circle.
  Nothing makes a request start.
* `RefreshTokens`: weak fairness of each step of a request in `FairSpec`. A
  process that dies between the halves of a revocation does not finish it, so
  the promise is about those that live.
* `RecurringJob`: the cron calls every day, steps are taken, locks reach their
  TTL, days pass. Faults end at `LastFault`: a promise that something comes is
  about a Redis that answers in the end. A rule broken for good fails for ever,
  and a request that is always about to write a copy back could always set the
  anchor back: `EveryDateComes` excuses the dates of these.
* `SettlementJob`: the cron calls again and a run goes on. Nothing about users.
* `ReportCache` (`LiveSpec`) and `IdempotentWrites` (`IdempotentLiveSpec`):
  reports are answered, TTLs of reports run out. No fairness of the bump, which
  may fail for ever, nor of a client's requests.
* `MovementsBackfill`, `LedgerReports`, `MonthProjection`, `MigrationNumbering`
  and the others promise nothing that must come.

## 5 Proofs

TLAPS. Every safety invariant and every action property of the
passing runs is a theorem for all values of the constants, and so are the three
refinements. Nothing is assumed but
the assumptions on constants that the modules name and, in `NeverInCircle`, a
hypothesis of its own that is named below.

* `DataLemmas`: what the other modules need about finite sets, remainders and
  sums. `SumFunctionOnSet` of the community modules is a fold that chooses its
  elements one by one; `SumChosen` shows that there is such a fold, and
  `SumTypeAndRemove` that any element may be taken first. From that: `SumEmpty`,
  `SumChange` (one argument changes), `SumParts`, `SumPlus`, `SumConstant`,
  `SumSwap` (a double sum in either order) and `SumGroups` (a sum over the values
  of a key of the sums of each group). `NaturalsFromZero` and `SubsetsFromEmpty`
  are induction for one named set at a time, which needs no operator parameter.
* `AtomicLedgerProofs`: `TypeCorrect`, `MovementsExplain`, `AppliedOnce`,
  `NeverOverdrawn`, `NamesLiveAccounts` (no row names an account that is gone,
  `RowsNameLiveAccounts`, which no run checks by itself), `BandKept`. The
  inductive invariant adds to the promises that an account never opened has been
  moved by nobody, that an id without a row holds `NoRow`, and that no planned
  transfer pays a card (or a settlement, which skips the checks, could).
  `ReplaceStep` proves the common core of create, update, delete and status once.
* `LedgerProofs`: `LedgerTypeCorrect`, `Implements`, `ReadsStayCurrent`,
  `LedgerPromises`, `NeverInCircle`, for any number of requests, accounts and
  transactions. `ReadsStayCurrent` (`ReadsAreCurrent`: whoever is about to write
  still sees what it read) is proved and not run. The invariant `LInv` ties each
  lock to the request that thinks it holds it and says that what was read under a
  lock is still so (`Undisturbed` shows that nobody else's step changes it);
  under it every commit is the abstract operation (`...Refines`). `LocksInOrder`
  says that the accounts still to lock have greater ids than those held, and
  `OrderBreaksCycles` that of waiting requests the one that wants the greatest
  account waits for none of the others (the ids of accounts have some upper
  bound, the hypothesis of `NeverInCircle`).
* `LedgerViewsProofs`, about what is computed from the ledger or catches up with
  it:
  * `SeriesReplayTheLedger`, `ReportsAlwaysAgree`, `ThePastStandsStill`. A
    balance is its opening plus the effects of the completed rows (from
    `AtomicLedgerProofs`), so a series that goes backwards from the balances
    agrees with the ledger read forwards; that is a sum over rows exchanged with
    one over accounts (`SumSwap`) and grouped by day (`SumGroups`). The
    invariant adds that no transfer leads to its own account.
  * `BackfillTypeCorrect`, `DriftHasEscaped`, `CleanRunHasCovered`,
    `BackfillIsInvisible`, for any number of runs beside the ledger's traffic.
    `HoldsOpening`: between its insert and its commit one run alone has an
    opening of the account, and once its check has passed what the opening
    leaves unexplained is what escaped since. `Accounted`: a run loses no
    account of its list. `DataMoves` is all the proof needs of the ledger: no
    operation changes the difference between a balance and its movements.
    The refinement maps `moved` to what the movements and an opening to come
    explain.
* `AccessProofs`:
  * `ChainTypeCorrect`, `ChainStaysLinear`, `RacingTabsAreForgiven`,
    `RevocationIsFinal`, for any number of requests and hops. The invariant says
    what a request may conclude from what it has loaded while the chain grows
    (`ChainGrows`): a rotated token has a stored successor, a candidate is stored
    and within the hops, a session loaded as revoked is.
  * `WorkspaceTypeCorrect`, `OneUserForACode`, `LateRemovalSpares`, for any
    number of users and requests that race. `CallSound` says of each request
    what it may still count on of what it read, and `Grows` is what the steps of
    others can do to it: codes stay used, ids are not given twice.
  * `OneDefaultEach` and `PlanIsKept`, with no hypothesis on who waits for
    whom. `OwnCall` says of a call that moves a default that what it has seen of
    its user's rows is still so unless he has crossed himself: nobody else moves
    his default, makes him a founder or, while he changes his own role, does
    more to his row than remove it. For the plan, the workspaces founded and
    those on their way into the table are together within the bound that
    `beside` sets.
* `JobProofs`:
  * `TypeCorrect`, `RunsTakeTurns` (a working run holds the lock of its day or
    has outlived it, `LockHeld`), and `AnchorNeverAhead`, for any number of runs,
    clients and rules. `Scheduled` says that every anchor, and every old copy
    that a run holds of one (`CopiesGood`), is a date up to which everything has
    been generated, so that writing an old copy back never skips a date.
  * `OneRunCounts`, `RenewalIsHeld` and `JobTypeCorrect` of the settlement job,
    for any batch, number of runs and rows. Of any finite number of due rows
    there is a k-th by date and id (`DueInOrderIs`, by the pigeonhole principle),
    so a run lists rows and a batch of them at most; a run that asks why its
    UPDATE missed still has the row at hand (`RunTyped`).
* `InfraProofs`:
  * `CacheTypeCorrect`, `ReportsAreFresh`, for any numbers of writers and
    readers, as long as the clock is past a counter that is lost. No generation
    in use is ahead of the counter (`Used`), and whoever shares a generation read
    it while the same writes were announced (`Agree`), so that a report stored
    late is as fresh as those who find it need.
  * `WritesImplementCache` (every step of a write under a key is one of the
    cache's or none, so that `ReportsAreFresh` is about those writes too),
    `WritesTypeCorrect`, and `KeyCommitsOnce`, for any number of requests and
    repetitions. `KeyInv` counts: commits, handlers that may still commit, and
    one if the key would let another in, are together at most one more than the
    lapses.
  * `NumberingTypeCorrect` and `MigrationFilesKept`, for any journal with its
    numbers in order and a gap that drizzle-kit's own numbering does not reach
    (`NumberingAssumption`). `FilesInv` says which files an entry owns while its
    renaming is half done, and that one killed half-way blocks its target, so
    that no later run renames anything; `UnusedInv` keeps files from bearing a
    number that is still to be given.
* `CalendarProofs`, for every calendar of months and every history of rows:
  * `StepIsNextInstallment`, `EndIsLastInstallment`, `EndNamesItsPlan`: clamping
    never leaves the month (`ClampStays`), a month holds a day alone
    (`MonthUnique`), and n steps of b months divide to n (`DivSteps`).
    `CountAlwaysNamesEnd` follows with the invariant that the rule is a record
    of its columns; the steps of the backfill are among those it covers.
  * `ProjectionTypeCorrect` and `PlanAlwaysDelivers`. `OnSchedule(s, i, d)`
    describes the i-th date without walking to it: its month is exact, its day
    only ever gets smaller. A run generates a prefix of the walk (`DueIs`), which
    numbers on from what is there (`JobNumbers`), and `UnderWay` says that the
    dates generated are numbered 1 to k without a hole, the last of them being
    `lastGenerated`. The end of the plan is the n-th date or later and before the
    one after it (`EndOnSchedule`), so the job stops after n.
  * `ProjectionAlwaysAnticipates`. After a run the walk starts where the old one
    had come to (`WalkShift`), so the dates ahead before it are those it took
    and those ahead after it, and none is left when it met the end
    (`RunTakesDue`); what the run adds to the rows is what it takes from the
    expectation (`JobKeeps`). `StepsAssumption` is needed: the projection's loop
    stops at 1000 steps (`MonthProjection.ts:56`), which no rule reaches that
    starts within some nineteen years of the month.
  * `InvoicesPartition`, `AllocationClosedLast`, `CycleAlwaysTiles`: due days grow
    with months, and so do closings.
  * `CardTypeCorrect`, `InvoiceAndCardAgree`, `DebtIsCarried`,
    `PaidRemainsPaid`: `CardInv` says that the balance is the sum of the effects
    of the rows that are there, less what went with deleted accounts; an invoice
    cuts that sum by date (`PeriodFacts`, `SumOfParts`), and the kinds whose
    destination nobody has checked make up the difference (`CardMatches`).
  * `EstimateTypeCorrect`, `RowSettlesOneBill`, `ExpenseAlwaysCountsOnce`, for
    any past months, bills and rows. `ClosestIs` and `LargestIs` show that there
    is exactly one such row, for no two share an id (`EstimateInv`: the ids of
    the rows differ, and the rows are finitely many). With one row more in the
    pool, a bill takes the same row as before, or the new one and leaves its old
    one to the next bill (`TakeExchanges`): the two pools differ by one row from
    bill to bill until one bill more is settled. A row that no bill is like goes
    through unseen (`OtherRowsDueSame`), and so does a change of status
    (`DueIgnoresStatus`). What was spent today takes no more from the window than
    itself, halves and rounding included (`WindowShrinks`; `MedianIs` for the
    medians). The bills may be any sequence of amounts that the past months give
    rise to (`FixedBillsAre`): that they are the right ones is in the definition
    of `Detect` alone.

Only model-checked, every liveness property of the runs:

* everything under fairness: `EveryRequestEnds`,
  `ReuseEndsSession`, `EveryDateComes`, `StaleFades`, `DueSettles`. TLAPS has no
  rules for ENABLED, and so none for fairness.

Type invariants stand in every module; where there are proofs they are theorems,
and no run lists one.

## 6 Disagreements with the code

* `settlement_group`: `update-transaction.service.ts:126` rebuilds the row and
  forgets `installmentGroupId`. Any edit of a group's row writes NULL there, and
  the row stays pending for ever.
* `workspace_delete`: `delete-workspace.service.ts` checks `isDefault` on a
  membership it read earlier (:50) and deletes in a later statement (:54). A
  set-default in between, and the owner's default is deleted, although
  `workspace/errors/index.ts:58` says that this is not possible.

## 7 Known behaviour no run judges

No document says what should happen, or a run is still to come:

* The recurring job writes `active` and `lastGenerated` from a copy read a batch
  earlier: a pause or a new start committed in between is undone in part.
* A row moved to a later day after the settlement job listed it is settled all
  the same, with the limit waived.
* Two calls of one user that move his default and run side by side leave two of
  them (`crossed` in `Workspaces`): two set-defaults, one beside the creation of
  a default workspace, or a change of role, which writes back the `isDefault` it
  has read (`workspace-user.repository.ts:129`). Readers take the first they find.
* A user can be left without a default, so that his login is refused: a manager
  removes him from it, its owner deletes it, or his set-default clears the old
  one after he was removed from the new. `OneDefault` says one at most.
* `splitIntoInstallments` rounds down: a recurrence created from a total falls
  short of it by the remainder, which its comment accepts
  (`MoneyUtils.ts:137`); `PlanDelivers` says by how much.
* After the destination of a pending transfer is deleted the transfer completes
  and debits the source only.
* The generation counter relies on one clock; instances whose clocks differ by
  more than the writes in between could meet a used generation.
* With Redis disabled every lock is granted, and the idempotency guard lets
  every request in.
* A client that repeats a request which has already succeeded gets 409, not the
  answer of the first (`Idempotency.guard.ts`).
* After the account that paid a card is deleted (`delete-account.handler.ts:30`)
  its payments go with it by the foreign key while the card's balance stays:
  the invoice is open again for money the card refuses as too much
  (`dropped` in `CardInvoices`).
* An expense that names a card as its destination is taken for a payment by the
  invoice (`get-credit-card-invoice.handler.ts:66`): one of another account makes
  the invoice ask for less than the card is owed, one of the card itself for less
  by twice its amount (`Misread` in `CardInvoices`).
* The series of balances have no word for some transfers (`Untold`): between two
  investments, out of a card, to an account that is gone. An invoice paid from
  an investment is an expense of two series and one expense of the cash flow.
* Workspaces asked for at once can pass the plan's limit together, as the guard
  counts before the handler writes; `FoundedWithinPlan` says by how many.
* A count that the backfill infers while the rule is edited stays wrong until
  the next edit of its dates (`stale` in `MonthProjection`).
* A renaming of a migration that is killed half-way makes every later run of the
  script refuse until the directory is repaired by hand; nothing is lost
  (`MigrationsKeepFiles`). `db:generate:raw` repeated often enough reaches the
  numbers behind the gap and collides there; `NumberingAssumption` leaves room.
* The limit of members counts members, not codes: neither accepting a code nor
  adding a member by hand looks at it, so that a workspace gets past it.
* The limit of accounts is declared on the class of the controller and the guard
  looks at the handler, so it is never checked.

## 8 Not modelled

The listing of categories (a sorted list under a cache of its own that nothing
invalidates, for no request changes a category); registration and login (one
transaction each); claims and role guards (stateless); throttling (a library);
the time zone cache (of a value that never changes); what migrations do to
tables; presenters, cryptography, dates and observability; in reports the
percentages, the saving rate and the comparison with the month before; the
limit of accounts, which is never checked; names, currencies and pages.
Two simplifications of the reports: the queries of one report run side by side
without a snapshot, so that a write may fall between them, and `LedgerReports`
and `MonthProjection` read them from one state (`ReportCache` keeps the oldest
state a report has seen); and accounts and workspaces may have different time
zones, which decide a row's day and the report's today, while the models have
one local day.
`recurring_transaction_id` is NO ACTION, so that an account or rule with such
rows may be refused by the database: a refused deletion changes nothing and is
left out of `Ledger`.

## 9 Plan

Done: `LedgerRules` -> `AtomicLedger` -> `Ledger` (refinement), `AtomicLedger`
-> `LedgerReports`, `AtomicLedger` -> `MovementsBackfill` (refinement),
`ReportCache` -> `IdempotentWrites` (refinement), `RefreshTokens`,
`RecurringJob`, `SettlementJob`, `Workspaces`, `Calendar` -> `InvoiceCalendar`
-> `CardInvoices`, `Calendar` -> `InstallmentSchedule` -> `MonthProjection`
with `VariableEstimate`, `MigrationNumbering`. To come:

1. Cross-module refinement: `SettlementJob` with `Ledger`'s settlement.
2. Runs for the first two items of section 7, once a document says what they
   should show.
