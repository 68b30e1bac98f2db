# The Haushaltsauktion in TLA+

Haushaltsauktion ("household auction") lets a family trade its chores: a chore
is offered on a market, members volunteer for it and earn points, a sweep draws
somebody when nobody does, a member who was drawn may buy herself out, and an
administrator may move, reject or cancel whatever is under way. Points buy
rewards. The server is a TypeScript process (`apps/api`) over PostgreSQL, the
client a web application (`apps/web`) that keeps a cache of what it has read.

This directory holds TLA+ modules of the system, TLC configurations that
check them on small instances, and proofs for the TLA+ proof system. Paths below
are relative to `apps/api/src/` unless they start with `apps/` or `packages/`.

## 1. The system

### Components, their state and operations

| Component | State | Operations | What makes it correct |
|---|---|---|---|
| Task state machine `domain/task/state-machine.ts` | `task_instances.status` | `resolve(status, event)` | Only the listed moves; every handler that bypasses the table must agree with it |
| Worker slots `domain/task/worker-slots.ts` | none (computed from active rows) | minimum, maximum, admin reservation | Slots exclusive, headcount within the mode, status agrees with the rows |
| Takeover, completion, return `app/tasks/volunteerForTask.ts`, `completeTask.ts`, `app/assignment/reopen.ts` | `task_assignments`, cached slot count, value, history | volunteer, accept, complete, release, revoke | Rows only ever close; what is paid follows the row's pinned configuration |
| Buyout `app/buyout/*`, `domain/buyout/*` | value, `BOUGHT_OUT` row, ledger | quote, buy out | Balance floor; value ceiling; a quote holds until it is used |
| Rejection and cancellation `app/tasks/rejectCompletion.ts`, `cancelInstance.ts` | the same | reassign, re-offer, cancel | Rewards taken back once; a redo belongs to the one who did it |
| Assignment sweep `app/assignment/runAssignmentSweep.ts`, `infra/jobs/worker.ts` | the same, `next_due_at`, `carried_value` | create (T1), publish (T2), remind (T3, T19), draw (T4/T5), expire (T16-T18) | One deadline acts once; every deadline is acted on; one occurrence per due date; one reminder per holder |
| Draw `app/assignment/candidates.ts`, `domain/assignment/*` | none | eligibility, relaxation, weights, strategies | Nobody is drawn against a house rule that could be kept |
| Value growth `app/assignment/runValueGrowthSweep.ts`, `domain/task/value.ts` | `current_value`, its anchor | grow, increase, reset, carry over | Between base value and ceiling; each interval paid once; each band told once |
| Configuration `app/config/*`, `domain/config/resolve.ts`, `packages/shared/src/config/*` | append-only versions, pinned by instance and row | validate, preview, save, roll back, resolve | No save is lost; a change never alters what was agreed; what was previewed comes true |
| Formulas `packages/shared/src/formula/*` | none | tokenize, parse, evaluate, probe | The parser is the grammar of its header; what was probed can be priced |
| Points ledger `app/points/*`, `domain/points/ledger-math.ts` | `point_transactions`, `points_cache` | post, claw back, adjust, verify, repair | One chain per member, a cache that follows it, keys used once, damage noticed |
| Row locks `app/tx.ts` | database locks | lock by level 0 to 3 (10, 11) | No deadlock that stops an occurrence |
| Reward shop `app/rewards/*`, `domain/effects/multiplier.ts` | redemptions, effects and their charges | purchase, fulfil, use a charge | No overdraft; fulfilled once; points and charges match what was bought |
| Completion streak `app/streak/*`, `domain/streak/*` | three columns of the member | extend, break, pay, roll back | A bonus is earned; a completion is never lost to the sweep |
| Recurrence and time `domain/recurrence/*`, `packages/shared/src/time/*` | `next_due_at` | next occurrence, civil days | The series keeps its step over clock changes; nothing is asked twice for one day |
| Todoist `app/integrations/*`, `infra/jobs/todoist-worker.ts` | connections, outbox, links | connect, reconcile, dispatch, disconnect | Each owned chore appears once, and goes away |
| Push `app/notifications/*`, `infra/jobs/push-outbox-worker.ts`, `infra/http/routes/pushSubscriptions.ts` | outbox rows, subscriptions on the server and in browsers | enqueue, dispatch, subscribe, unsubscribe | The last subscriber is pushed; repeats only after a failure; the outbox empties |
| Accounts and sessions `infra/http/context.ts`, `routes/auth.ts`, `register.ts`, parts of `routes/admin.ts` | users, members, sessions | register, log in, switch, change and reset passwords, edit members | Old passwords open nothing; a household keeps an administrator |
| Queries `app/queries/*` | none | task views, lists, pages | What is offered is accepted and what is free is offered; a scroll misses nothing |
| Simulation `simulation/simulate.ts` | one simulated household | one cycle | Its own books balance; the least loaded is drawn |
| Web client `apps/web/src/api/*`, `router.tsx`, `sw.ts`, `components/VersionMismatchOverlay` | query cache, requests under way, build, service worker | queries, mutations, invalidation, forced reload | A page shows what its own buttons did; a stale view is overcome; a page ends on the server's build |
| Operator console `infra/http/routes/operator.ts`, `app/operator/*` | none | counters | - |

### How they interact

Every use-case is one interactive database transaction at READ COMMITTED
(`withTransaction`). It first takes a row lock on the occurrence (level 1), then
on assignment rows (2), then on members (3); the sweep first takes an advisory
lock on the household (0). Handlers call `postTransaction` and `clawback` for
points and emit history, audit and notification rows in the same transaction.
The sweep is called by a timer and by a route; it runs one transaction for each
occurrence. Configuration is read within the transaction, at the version pinned
by the instance or by the row. Push and Todoist are fed by outbox rows or by
comparing desired with actual tasks, and sent later without a transaction open.
Most of `routes/admin.ts`, registration and sessions are outside this scheme: chains
of statements without a transaction or a lock. The client sends the version it
has seen; the server answers 409 if it is not the newest.

### What is hard about it

*Interleavings* of several workers, sweeps, administrators and requests;
*stale reads* (a definition read before the lock, the cached slot count, a role
read when the request was admitted, a page in a browser); *protocol sequences* that were
written for one worker and now meet several (pause, expiry, the draw's bound);
*configuration changes* between takeover and return or between a quote and its
use; *partial failure*, a transaction that rolls back after posting, a pass cut
off before it deletes; *deadlocks* through locks nobody wrote down, those
PostgreSQL takes for foreign keys; *repeats* of sweeps and requests; *order*, of
a streak's sweep and a completion, of pages and writers; *numbers* at their
edges, hours that do not exist, poles of a formula, values at the ceiling; and
*liveness*, whether a deadline, a row of an outbox or a stale tab is acted on at all.
`PROJECT.json` lists each at its line, with the property that covers it.

## 2. Modules

| Module | Stands for | Used by |
|---|---|---|
| `TaskEvents` | the transition table | `TaskMarket`, `SoloTask` |
| `TaskMarket` | occurrences, rows, points of one definition; every handler and sweep step that moves them | `TaskViews`, `MarketClaims`, `TaskMarketProofs` |
| `TaskViews` | what a member sees of the market, and the buttons of the task page | `MCTaskMarket` |
| `SoloTask` | abstract: what an occurrence for one worker promises | refined by `TaskMarket` |
| `MarketClaims` | sentences of the repository about the market that do not hold | the run `expiry_orphans` (extends `MCTaskMarket`) |
| `RowLocks` | every handler as the sequence of locks it takes | `MCRowLocks`, `OverlapProofs` |
| `PointsLedger` | the ledger under concurrent transactions, and the cache repair | `MCPointsLedger`, `PointsProofs` |
| `RewardShop` | purchases, effects, completions that use charges, streaks and their sweep | `MCRewardShop`, `RewardShopProofs` |
| `Accounts` | users, members and sessions under concurrent requests | `MCAccounts`, `AccountsProofs` |
| `Catalogue` | definitions and configuration versions under two administrators and two sweeps | `MCCatalogue`, `CatalogueProofs` |
| `TodoistOutbox` | one member's Todoist account: reconciler, dispatcher, connect, disconnect, Todoist itself | `MCTodoistOutbox`, `OutboxProofs` |
| `PushOutbox` | web push from the notification to the browser | `MCPushOutbox`, `OutboxProofs` |
| `WebClient` | one browser tab: cache, requests, mutations, build | the run `client`, `AccountsProofs` |
| `Lists` | filter, sort and sum of JavaScript, without recursive operators | `DrawRules`, `LedgerChecks` |
| `DrawRules`, `ValueRules`, `LedgerChecks` | pure rules: who may be drawn, what a chore is worth, what makes a ledger sound | the next ones |
| `Draws` | rows of a household and the draws made from them | `MCHouseRules`, `AccountsProofs` |
| `Simulation` | the simulator, over `DrawRules`, `LedgerChecks` and `ConfigRules` | `MCHouseRules`, `PointsProofs` |
| `Formulas` | the formula language, typed one character at a time | `MCHouseRules` |
| `ConfigRules`, `Prices` | which configurations are accepted, and the price of one chore under them over time | `MCHouseRules`, `PointsProofs` |
| `Audit` | the integrity check against one damage, over `LedgerChecks` | `MCHouseRules`, `PointsProofs` |
| `Series` | the due dates of a recurring chore over civil time | `MCHouseRules` |
| `Pages` | a scroll over a listing while rows are written | `MCHouseRules`, `OverlapProofs` |
| `Reminders` | due-soon reminders by overlapping sweeps | `MCHouseRules`, `OverlapProofs` |
| `MC...` | instances for TLC (values, symmetry) | |
| `TaskMarketProofs`, `RewardShopProofs`, `CatalogueProofs` | theorems about the module of that name | |
| `AccountsProofs` | theorems about the members: `Accounts`, `WebClient`, `Draws` | |
| `OutboxProofs` | theorems about the two outboxes, `TodoistOutbox` and `PushOutbox` | |
| `OverlapProofs` | theorems about what overlaps: `RowLocks`, `Reminders`, `Pages` | |
| `PointsProofs` | theorems about points: `PointsLedger`, `Prices`, `Audit`, `Simulation` | |
| `RunningTotals` | lemmas on sums over the rows of a table and on ranks in a set | every module of theorems but `CatalogueProofs` and `OverlapProofs` |

The modules look at one system at several grains. `RowLocks` keeps the locks and
forgets the data. `PointsLedger` keeps one table's transactions, with drafts,
commits and rollbacks, and forgets why anybody posts. `TaskMarket` and `RewardShop`
keep the data and make a handler one step; this is justified because every such
handler locks the occurrence or the member before it reads anything it decides on
and keeps the lock until it commits. Where the code reads outside the lock and uses
the result later, there are two steps: the definition read before an occurrence
is created, the instant of a completion, the sweep's list. `Accounts`, `Catalogue`
and `PushOutbox` are about code that takes no such lock, and make every statement
that somebody could overtake a step. The modules under `MCHouseRules` are
sequential: rules whose hazard is a long sequence of legal inputs, run by a
machine that makes the inputs the program would meet.

### TaskMarket and the code

`status`, `value`, `slotCount` and `penalised` are columns of `task_instances`
(the last is the existence of an `EXPIRY_PENALTY` history event), `asg` the
`task_assignments` rows, `ledger` the postings by the assignment in their key,
`balance` the `points_cache`, `carried` the definition's `carried_value`,
`version` the newest configuration version (`RewardRules` has the reward settings of
each: enabled, timing, multiplier in tenths, rounding), `offer` the start value a
request has read and not used, `charges` what a member may still spend on multiplied
completions, and `spent` the points that went into multipliers.

| Action | Code |
|---|---|
| `ReadDefinition`, `MaterializeDue`, `SkipDue` | sweep T1: due list, lock, recount, create |
| `ReadDefinition`, `AdminMaterialize` | the materialize route, count and create in separate statements |
| `Publish`, `Pause`, `Resume` | the instance routes (version compared on write), and T2 |
| `Volunteer`, `Complete`, `Buyout`, `Release`, `Revoke`, `RejectReassign`, `RejectReoffer`, `Cancel` | the use-case of that name |
| `Draw` | T4/T5, with the loop that fills every missing slot in one transaction |
| `Expire`, `ExpirePenalty` | T16-T18 |
| `Grow` | one interval of the value-growth sweep |
| `SaveConfig` | a new configuration version, with another reward rule |
| `BuyMultiplier`, `EffectExpires` | `purchaseReward.ts` of a MULTIPLIER, and the end of its time |

Abstractions. The clock is not a variable: a window or deadline may pass between
any two steps, so a guard on the time is a step not yet taken. Who is absent,
excluded, immune, too young or over a weekly cap changes as freely, so the draw
chooses among any set of members without a slot; `Draws` has what is left out here.
Of the configuration, the four reward settings differ from version to version, for they
decide what a row pinned to one is paid; `Prices` has the other settings. Histories,
notifications and audit rows are left out, except the one event the sweep reads. There is one kind of
multiplier on sale and its charges are counted by member; effects of several kinds, the rest
of the shop and the streak bonus are in `RewardShop`. The model's balance is the
opening balance plus the entries it has.

`TaskViews` computes every offer a second time, as `taskDto.ts` and
`TaskDetailPage.tsx` do, apart from the guard of the use-case behind it:
`HasOpenSlot`, `CanVolunteer`, `AvailableTasks` and `AssignedToMe` are the DTO and
its lists, `...Button` is what the page shows. Its properties compare the two in
every state of the market.

### RowLocks and the code

A handler is started with the list of locks it will ask for on a run that ends
normally: `FOR UPDATE` by name, and `FOR KEY SHARE` where a row it inserts has a
foreign key (assignments, ledger entries, history, audit, notifications). A
`findMany` without an order may give any order. `Acquire` waits as PostgreSQL
does, `Commit` lets go of everything, and `DeadlockVictim` is error 40P01, which
the server neither maps nor retries. A shared lock on a row the transaction has
locked already is left out, being nothing new.

### PointsLedger and the code

`entries` and `cache` are what is committed; a transaction has a `draft` of its
inserts and a `view` of the balance on each row it has locked. `Lock` is
`lockMember`, `Post` is `postTransaction` (known key, zero amount, tail, insert,
cache), `Reward`, `ReverseIfPresent`, `Spend`, `Fine` and `Adjust` are its callers with
the guards they check under the lock, `Commit` and `Abort` end it. The
`seq` column is a sequence: a value used by a transaction that rolls back is
gone. `ReadRows`, `ReadCaches`, `RepairCache`, `EndAudit` are the integrity check
with repair; they run in `AuditedSpec` only. Purchases, buyouts and fines have
floors of their own in the code and share `Floor` here; the amounts are what the
callers may ask for, so a caller posts more freely than any handler does.

### RewardShop and the code

| Action | Code |
|---|---|
| `Purchase` | `purchaseReward.ts`: price, floor, redemption, and an effect that is active at once |
| `Fulfil`, `EditReward` | `fulfillRedemption.ts` by compare-and-set; price and availability edited by an administrator |
| `Assign`, `BeginComplete`, `Complete` | a chore of either kind; the instant a completion reads; the reward, the charge it uses, the streak and its bonus |
| `Reject` | `rejectCompletion.ts`: both payments back, and the streak where the outcome says so |
| `SweepScan`, `SweepMember`, `SweepDies` | `runStreakSweep.ts`: its day and candidates, then one transaction for each member |
| `ToggleStreak`, `Midnight` | a configuration version; the household's civil day |

### Accounts and the code

A request `c` is admitted once (`Admit`, `context.ts`), and what it has read rides
along while others run. `RegisterStart/Commit`, `LoginStart`, `LoginMembership`,
`IssueSession`, `Logout`, `SwitchHousehold` are `register.ts` and `auth.ts`;
`ChangePassword`, `ResetPassword`, `StorePassword`, `RevokeSessions` the two ways to a
new password with the hash computed in between; `AddStart`, `AddUser`, `AddMember`,
`PatchCheck`, `PatchWrite` the member routes of `admin.ts`. `Crash` forgets every
request. A password is a number that grows when one is chosen; the hash is not
computed with.

### Catalogue and the code

`EditDefinition`, `Archive...`, `Reactivate...`, `Materialize...` are routes of
`admin.ts`, the second half a statement that trusts the first; `OpenForm`, `Save...`
and `RollbackCheck` are `updateConfig.ts`; `ReplaceDelete/Commit` the lists that are
replaced as a whole; `CompleteStart/Commit` the completion of the last slot, which takes
the time and reads the recurrence of a definition it does not lock, and then writes its
next due date; `SweepStart`, `SweepCount`, `SweepCreate` two passes of
the sweep's T1, the creation under the advisory lock. `Midnight` is the calendar,
with one due date a day.

### TodoistOutbox and the code

The integration never sees the market's events: it compares what a member owns
with what is open in Todoist and queues the difference. `owned` is all the module
knows of the market. `conn` is the row of `member_integrations`, `row` the newest
`integration_outbox` row of each enqueue key, `recent` and `dead` what the
cooldown and cap reads see of the older ones, `link` the open
`integration_task_links`. `todo` and `made` are Todoist's: the open tasks, and
what the newest CREATE command, whose uuid is the row's id, has made. `worker` is
the tick with all it has read so far.

| Action | Code |
|---|---|
| `ReadDesired`, `ReadLinks`, `MakePlan`, `WritePlan` | `runReconciliation`: the queries in their order, `reconcile` and `decide`, the writing transaction |
| `Claim` | Tx A of `dispatchOutbox` |
| `SkipRow`, `KeyUnavailable`, `TakeRow` | the check before a call, and the token that cannot be opened |
| `CreateAnswered`, `CreateUnanswered`, `CloseAnswered`, `CloseUnanswered`, `CallFails` | the HTTP call, no transaction open: run and answered, run and the answer lost or without an id, not run |
| `RecordCreated`, `RecordOrphaned`, `RecordClosed`, `RecordBadToken`, `RecordBadRequest`, `RecordTransient` | Tx B and `applyFailure` |
| `Connect`, `FlushLinks`, `Disconnect`, `TestFindsBadToken` | `connectTodoist.ts`; a disconnect is two steps, its HTTP calls and its transaction |
| `OwnershipChanges`, `MemberToggled` | the market, the triggers, the household switch, and a member made inactive |
| `BackoffEnds`, `CooldownEnds`, `DeadRowAges` | the clock reaching `nextAttemptAt`, the cooldown and the cap window |
| `Crash` | the process stops; rows and links are all it remembers |

Abstractions. The queries for the desired set are one step, the three suppression
reads another: they are made in one go and what changes between them only makes
the plan older. `dead` keeps the rows of the window in order, each with the
notifications its stamp stands for. A batch of 20 never fills and the order
within it is free. Payload, project, priority and the exact delays are left out.
A `CLOSE_TASK` row without an id cannot occur, so its branch is left out. The
attempt counter stops at `MaxAttempts`; beyond it the code only compares. There is
one worker: `todoist-worker.ts` says that a second one is unsafe and that the
operator must not start it. Todoist's side is modelled from what the code expects
of it, that a command uuid is run once; `writtenOff` and `left` are history
variables for the properties.

### PushOutbox and the code

`Emit` is `notify` in a use-case's transaction. A pass (`PushTick`, `ReadEnabled`,
`LoadSubscriptions`, `Send`, `DeleteRows`, `HouseholdFails`, `EndPass`) is
`dispatchPushOutbox` statement by statement; the worker and the process that is
being replaced by a deployment may each have one under way. `SubscribeBrowser`, `PostSubscription`,
`PostFails` (the POST is lost, or only its answer), `Unsubscribe` are the switch of the account page and its route, `Login`,
`Logout` and `ForcedReload` what else the browser does to its subscription. A dead
endpoint answers 410 and is deleted. `sent`, `hurt` and `subscriber` are history.

### WebClient and the code

What an answer shows (`DashboardAnswer`, `DefinitionAnswer`, ...) and what a mutation writes
(`SweepWrites`, `CategoryWrites`, ...) are sets of kinds of data, taken from the server's handlers.
A query's entry is abstracted to what it lacks: the mutations of the tab itself and
the changes by others that happened after the server read it. `Mount`, `Refresh`,
`ServerReads`, `Arrive`, `FetchFails` are the life of a request as TanStack Query
runs it; `Decide`, `Press`, `ServerDoes`, `ServerDoesHalf`, `CallLost`, `Succeeds`,
`Fails` that of a mutation of `hooks.ts`, with its own cancellations, invalidations
and writes to the cache; `LoginSucceeds`, `LogoutSucceeds`, `SessionExpires`,
`Redirect` the session; `BellPolls`, `WorkerTakesOver`, `PurgeAndReload`, `Deploy` the
change of build. `ServerDoesHalf` is the reordering of categories, several requests of which
some fail. Left out are the list's household tab and two queries the detail page mounts for
the own assignment only, its quote, asked anew every thirty seconds, and its explanation (`hooks.ts:196`):
no mutation invalidates either.

### The house rules

`MCHouseRules` runs one machine at a time, its *topic*; the others rest in one of their
initial states. They share `DrawRules` and `ValueRules`, written once for all.

| Module | Machine | Code |
|---|---|---|
| `Draws` | rows appear by takeover (`Takes`) and by `Draw`, close, days pass; members are away or shielded | `candidates.ts`, `eligibility.ts` with its relaxation ladder, `weights.ts`, `strategies.ts`, the fill loop |
| `Simulation` | a cycle ends with a task left, taken, drawn, or drawn and bought out | `simulate.ts` |
| `Formulas` | characters are typed | `tokenizer.ts`, `parser.ts`, `evaluator.ts`, the probe |
| `Prices` | `Saves`, `Seeds`, `Grows`, `Assigns`, `BuysOut`, `Returns`, `Completes`, `Passes` | `updateConfig.ts`, `validateConfig.ts`, `schema.ts` and `defaults.ts` (in `ConfigRules`), `resolve.ts`, `load.ts`, `quote.ts`, `cost.ts`, `rules.ts`, `value.ts`, the growth sweep |
| `Audit` | postings, one damage, a repair | `ledger-math.ts`, `verifyLedgerIntegrity.ts` |
| `Series` | the sweep and completions move `next_due_at`; cancellations, expiries, the clock | `next-occurrence.ts`, `week.ts`, T1, `completeTask.ts` |
| `Pages` | rows inserted, committed, rolled back or read while pages are fetched | `reads.ts` |
| `Reminders` | two passes, each clock, scan, configuration and locks apart; workers, edits, time | T19 in `runAssignmentSweep.ts` |

Numbers. A configured decimal is in tenths and a result of a formula an exact
fraction; the code computes in doubles. A weight of the draw carries a common
factor, which changes no comparison and no probability. In `Formulas` a name is
one character; the formulas of the drafts in `Prices` have closed forms, and an
assumption of `MCHouseRules` has TLC compare them with the parser and the evaluator. In `Series` an instant is an hour of UTC, and the database of time
zones is two clock changes.

### "wrong" definitions

A definition marked `\* wrong` is a plausible bug of the definition that follows
it (a dropped guard, an off-by-one, a moved lock). No other definition uses it.
`PROJECT.json` pairs each property of a passing run with one of them; in its
place the property fails, so the property does speak about the code.

## 3. What is checked

| Run | Instance | Shows |
|---|---|---|
| `solo` | 2 occurrences, EXACTLY(1), 2 members, 2 rows, an administrator's draft, value kept and growing under a ceiling, three versions of the reward rule, penalties | returned work earns nothing, no double fine; implements `SoloTask` |
| `pair` | EXACTLY(2), 3 members, one of them the admin a slot is kept for, another with points for a multiplier, 3 rows, three versions of the reward rule, fair expiry | teams add up; completions are paid by the pinned rule and what the page shows, multiplied where a charge is open; offers are honoured and free slots offered; every deadline is acted on |
| `locks` | 2 transactions, 2 members, 2 occurrences, all handlers | what is left of the lock order |
| `points` | 2 transactions, 2 members, 1 key, amounts 1 and 2, 4 entries | chain, keys, floor |
| `shop` | 1 member, 4 days, 3 chores, 1 purchase, 1 edit, a multiplier of 1 charge | points and charges match; bonuses are earned; the sweep spares the active |
| `accounts` | 2 users, 2 households, 2 requests, 2 sessions, 3 memberships, 3 passwords, 2 edits (of the role, the activity, or both) | old passwords, the last administrator |
| `catalogue` | 1 definition, 2 requests (edits, saves, materializations, completions), 2 sweeps, 2 midnights, 2 occurrences, 2 versions, 2 under way, 2 edits | what overlap can do and nothing else can |
| `todoist` | 1 chore, 2 attempts, cap of 2 dead rows, 3 troubles | at most one task; shown or cleared in the end |
| `push` | 2 members of 2 households, 1 browser, 2 passes, 2 notes, 2 endpoints, 1 trouble, fair passes | who is pushed and how often; the outbox drains |
| `client` | 6 pages, 1 change by others, 1 press, 1 visit, 1 trouble, fair network | honest caches; a stale view is overcome; the server's build is reached |
| `rules` | the eight topics of `MCHouseRules` | eleven properties of the house rules |
| `expiry_orphans` | EXACTLY(2) | the counterexample below |

Each property is described above its definition; the least obvious are these.

* `TeamsAddUp` is the conjunction of slots being exclusive, the headcount being
  within the mode and the status agreeing with the rows; `PointsAddUp` that of
  takeovers paid at least what their pinned rule promised, or that times a multiplier, and of
  the cache being the ledger's sum. They are one property
  each because one bug breaks several of them.
* `OnlyOverlapMisleads`, `LastAdminIsLostToARace`, `OnlyEditsStrand`,
  `FreeSlotsAreOffered`, `PromisedIsPaid`, `OneChangeIsReported` and `CachesAreHonest` state what holds
  *and* list the ways in which it does not: the exceptions are what the code really does, named
  in the formula, and any other way is a violation.
* `GrowthPaysAndTellsOnce` compares growth at any beat of the sweep with one sweep
  over the whole time, and with the next rise a card discloses (`DisclosedRise`). The
  proof showed where that stops: at the largest integer the code counts with
  (`clampToSafe`), a card discloses a rise that does not come, and the property says so.
  The values of `rules` are far below it;
  `ParserIsTheGrammar` compares the recursive descent with a grammar written as sets of sentences; `PreviewComesTrue` compares what the
  administrator is shown on saving with the buyouts that follow.
* `ImposesTheLeast` says of the relaxation ladder not how it is climbed but whom
  it may hurt. A cooldown counts in it as far as the draw reads: of a chore's random rows the latest
  50 (`candidates.ts:149`), while the schema allows a cooldown of up to 52. The
  constant is `RecentRows`; it is 1 in `rules`, so that a cooldown of two is cut short there as one
  of 52 is in the code.

Bounds. Two occurrences are enough for everything that crosses occurrences
(carried value, cap, points of one reversed after those of another). Three
rows allow a full team of two and, after its expiry, a return (by an administrator, who
may revoke) or a rejection, one more worker; two rows take and return and take again, or one chore after the other.
Three versions of the reward rule are in full on completion, two fifths on acceptance, which
the rounding makes 0 points of 1 and 1 of 2, and none: the three outcomes of `value.ts:270`, each before and
after a takeover. The multiplier of 1.5 pays 2 for 1, and its one charge is there, spent or run out when a completion looks.
`MaxAssignments` is explicit: handlers that need a new row are disabled when none is
left, which is why `solo` and `pair` have `CHECK_DEADLOCK FALSE`: a finished
occurrence without a row or a request left has nothing to do. The same holds of
`shop` (three chores done), `client` (a tab nobody uses) and `rules` (a text is
full, the last day is over). `locks`, `points`, `accounts`, `catalogue`, `todoist` and
`push` check deadlock: somebody can always go on, time can pass or the process
can crash. Two transactions, requests, sweeps or passes suffice for the hazards between
them, which are all between pairs; the theorems about locks and ledger cover any
number. `points` bounds the `seq` column by `MaxEntries`: four entries hold a
reward, its reversal, a repeat and a posting of the other member. `shop` has one
member because nothing in it relates two: a redemption, a charge and a streak
belong to one row; four days are an active day, an idle one, and a day on either
side. In `accounts` two users in two households allow a founder, an added account, a
demotion of each other and an account with two memberships; three passwords are
one before, one at and one after a change.

`todoist` has one chore: the rows, links and tasks of two chores never meet except
in the queue, whose order is free. `Trouble` bounds what goes wrong in all: calls
that fail or lose their answer, tokens found bad or unreadable, crashes, and
disconnects. Three are enough to reach the cap of two dead rows, tell the member,
age one row and fail again. In `push` one trouble cuts a pass off or fails a household,
and the other pass or household shows what that costs. In `client` one press,
one foreign change and one failure are what a race of a mutation needs; logins
and logouts are not counted as presses.

`rules`: a week of two days and a window of two make a cap and its end fit into three
rows; five cycles of the simulation hold a draw, takeovers, a buyout and what they
do to the next draws; the loads are watched in two configurations of their own, with cooldowns of one and two and
nothing earned, for nine cycles: a gap of two is reached by then with a cooldown of two (after eight), and
the bound is exceeded by then where a cooldown runs one cycle too long (`InCooldownThrough`); six
characters hold a function with an argument, a nested sign or a decimal,
and the limit of depth is 2 so that it is met; 18 minutes in steps of 3 put
the sweep before, at and after intervals of five; prices start at the value the
preview starts at; the probe tries fewer values than the code, but 0, the largest and a pole
are among them; four rows allow each of the five damages at a chain's beginning, middle and
end; two weeks of hours in steps of two hold both changes of the clocks,
east and west of Greenwich, and the end of a month; four rows and pages of 0 (raised to 1), 1,
the default and too many cover a page's end at, before and after the last row; two
passes, a team of one or two and three holdings a return and a second takeover between
scan and lock.

Fairness. `pair`, `todoist`, `push` and `client` use some. `DeadlinesPass` is weak
fairness of expiry for each occurrence: the worker runs the sweep on an interval
(`infra/jobs/worker.ts`), the sweep considers every open occurrence, one
household's error does not stop it, and time reaches every deadline. Weak
fairness is enough, because expiry stays enabled while an occurrence is open; it
assumes nothing of members or administrators. It is about chores with a due
date: without one `MayExpire` is never reached in the code. In `todoist` the worker
goes on (`setInterval`, and a failed tick does not stop the next), and back-off,
cooldown and the cap window end, as the clock does not stand still; one weak
fairness condition each, enabled until taken. Nothing is assumed of the member or of
Todoist, whose failures `Trouble` bounds: `WantedIsShown` and `UnwantedIsCleared` say
that the pair recovers once they cease. In `push` the timer fires and a pass goes on
(`push-outbox-worker.ts`). In `client` requests are answered or fail, the
bell polls every thirty seconds, timers fire, and a member who means to press a button
presses it; the answer for the occurrence gets strong fairness, because a conflict
restarts its request and the member does not press each time before an answer is
there.

### Disagreements with what the repository says

`expiry_orphans` finds this one: a partly staffed `AVAILABLE` occurrence expires and
its active rows stay active (`runAssignmentSweep.ts:467`), although the comment three lines above
says that an expiring instance closes every active slot.

Five more have their definitions in the modules and no run of their own. A .cfg with
the given constants finds the counterexample:

* `DrawSpec` and the property `StarvedDrawIsRetried` (`MarketClaims`, the constants of
  `expiry_orphans.cfg`, no symmetry, `CHECK_DEADLOCK FALSE`): a random draw that fills some slots is never continued, because
  the rows it made count as prior draws (`runAssignmentSweep.ts:887`; the comment at
  1152 says "retries later").
* the property `ScreenMatchesLedger` (`MarketClaims`, the constants of `pair.cfg` with `SPECIFICATION Spec`,
  `CHECK_DEADLOCK FALSE`): a member who takes work over, buys a multiplier and completes is paid a multiple of
  what the page showed (`completeTask.ts:178`), although `taskDto.ts:285` says that the number on the
  screen and the number in the ledger cannot disagree. `PromisedIsPaid` says how far they do.
* the invariant `CompletionAndBuyoutNeverDeadlock` (`MCRowLocks`, `UseCases = {"complete", "buyout"}`):
  they do deadlock, through the key shares of the notifications each inserts for the
  other's member (`completeTask.ts:463`).
* `AuditedSpec` and the invariant `RepairSparesLedger` (`MCPointsLedger`, `MaxEntries = 2`,
  `Amounts = {1}`): the cache repair writes a stale sum when a posting commits
  between its two reads, and the next posting breaks the chain
  (`verifyLedgerIntegrity.ts:99`).
* the invariant `OpenLinkIsDeliverable` (`MCTodoistOutbox`, `Spec`, `Trouble = 2`): a dispatch whose call is
  under way while the member disconnects records an open link on an account without
  a token (`dispatchOutbox.ts:211`), the state `connectTodoist.ts:193` calls
  unrecoverable.

Seen while modelling. Those marked *named* are exceptions spelled out in a property.

Market and sweep

* `pause` is allowed from `AVAILABLE`, which may hold workers, although
  `runReconciliation.ts:106` says a paused occurrence cannot; their rows stay active and
  the occurrence is off their list (*named*, `FreeSlotsAreOffered`).
* The admins on the job are looked up among candidates who are not on it, so a
  reservation is shown although it is met (`queries/taskDto.ts:205`, *named*).
* A redo leaves the cached slot count at 0 while a slot is taken, so the listing
  (`queries/taskDto.ts:247`) offers a slot nobody can take (*named*,
  `OffersAreHonoured`); with several slots the page offers neither completion nor
  return to the members of a team that is short.
* Under `ON_ACCEPT` a redo is paid neither when it is handed back nor when it is
  completed (`rejectCompletion.ts:278`); its comment promises the normal reward. The page
  shows a reward on completion for rows already paid on acceptance.
* Two materialize requests, or a sweep and a request, pass the open-occurrence cap
  together (`routes/admin.ts:653`, *named*, `OnlyOverlapMisleads`); two overlapping
  sweeps materialize one due date twice (*named*); two saves of one list may leave
  the union of both (*named*).
* PUT on a definition that makes it recurring leaves `next_due_at` null
  (`routes/admin.ts:439`, *named*, `OnlyEditsStrand`).
* Expiry keeps a reward that was paid on acceptance; the planning document's T17
  asks for a clawback.
* A rejection reopens an occurrence although the next one may be open, so more
  are open than the cap allows (`rejectCompletion.ts:29` argues it is not).
* The carried value is read before the lock, so an occurrence may start at a
  value that a cancellation has discarded meanwhile (`runAssignmentSweep.ts:228`).
* An admin deficit larger than the remaining slots lets a team complete with too
  few admins after admins leave (`worker-slots.ts:121`).
* `acceptAssignment` locks the assignment first and then shares the occurrence,
  against the order `tx.ts` states, and can deadlock with a completion;
  `cancelInstance` locks members in the order of slots, not of ids; a volunteer
  paid on acceptance shares her row and then locks it, so two takeovers by one member can
  deadlock; `adjustPoints.ts:5` says an adjustment can never be the waiting half of a
  cycle, and its audit row waits for the administrator's row.
* Holders of a team that is short get no due-soon reminder; a slow pass, which keeps the
  clock it started with, may remind after the due date.

House rules

* Completing sets `next_due_at` to the next occurrence after *now*
  (`completeTask.ts:335`), although `next-occurrence.ts:7` says that the anchor is the scheduled occurrence:
  completing shifts every series that has no day of its own, and completing before the hour skips that day.
  A month without a day drifts from the 31st to the 28th. An hour that does
  not exist becomes the one before it west of the change, and midnight may fall on the day
  before (no such zone is in `rules`). A caught-up occurrence is born overdue and
  its holder is charged at the next sweep.
* Growth that is disabled and enabled again pays the time between
  (`runValueGrowthSweep.ts:80`); a step over two bands tells the wrong starting value.
* `probe.ts:115` evaluates its samples outside the `try`, so a formula with a pole on
  one answers 500 instead of a refusal; a pole elsewhere is accepted and fails when
  it is met, against the comment at `probe.ts:4`. The preview throws in the same way.
* The header of `parser.ts` allows one sign, the parser any number of them.
* The cooldown of a draw counts random rows of the definition, not offers, as
  `eligibility.ts:65` and the simulation do; the ladder may record a rung that
  helped nobody.
* The simulation never resets the buyouts of a chore or of a week, although its header says
  it does as the API would.
* A member's latest row changed before a cache repair is not noticed by the integrity check
  (*named*, `OneChangeIsReported`). Nor is a predecessor id changed to one nobody else names,
  as the check looks only for two rows with one predecessor
  (`ledger-math.ts:363`); `Audit` does not have that damage.
* A member may be drawn again inside a cooldown of 51 or 52 cycles, which the schema allows: the
  draw reads 50 rows (`candidates.ts:149`; *named*, `ImposesTheLeast`).
* Pages of notifications drop ties at a page's end (*named*,
  `ScrollMissesNothing`); a history row that commits out of order is skipped.

Points, accounts, outboxes, client

* Two streak bonuses may be paid on one day after a rejection (`streak.ts:17`); "day 1
  pays 0 by construction" fails for a base rate of 1; a completion read before midnight and committed
  after sets the streak back; the sweep ends the streak of a member whose
  completion was pinned to a version without streaks.
* Two demotions pass `LAST_ADMIN` together (*named*, `LastAdminIsLostToARace`); a temporary
  password may be shown for an account another household created first, and is lost
  for ever if the process stops after the upsert.
* A retry recorded after a disconnect revives a row the disconnect has skipped
  (`dispatchOutbox.ts:339`); it is skipped again, unless the member reconnects.
* A roll-back of the configuration may enable push on a server without keys.
* A forced reload unregisters the service worker and silently ends push on that
  browser; after a change of member on a shared browser, pushes go on to the first
  one until the second subscribes.
* The pairs of mutation and query that no hook invalidates are the set `Unshown` of `WebClient`
  (*named*, `CachesAreHonest`), most of all the list of members after anything that moves points.
  `state.next` of the router and `?next` of the login page do not meet.

## 4. What is proved

The theorems hold for every value of the constants the assumptions allow: any
household, any number of occurrences, rows, workers, transactions and keys.

**TaskMarket** (`TaskMarketProofs`, from `MarketAssumption`).
`TypeSafety` and `RowsOnlyEverClose` follow from the type invariant alone; the
draw, which writes many rows in one step, has a lemma of its own (`DrawRows`).
`RandomWorkNeverPays` and `ReturnedWorkIsEven` do not: that returned work is even
depends on what was paid while it was held, which depends on the rule pinned
when it was taken. The inductive invariant `SettledInv` says, for each status of
a row, what its ledger entry may hold: nothing reversed while it is held, a
reward while held only if it was pinned to `ON_ACCEPT`, none for random work, and
reward equal to reversal once it is given back. `PointsFollowRows` is that
invariant as a theorem.

Who is on a chore is a second invariant, `TeamInv`: active rows of an occurrence
lie in different slots, within the maximum of its mode, and the status says
whether there are enough of them. The states the properties do not mention are
what makes it inductive: a paused occurrence is short of people too, so that
resuming it may call it available. `TeamsAlwaysAddUp` is its visible part. On it rest
`DeadlineIsChargedOnce` (`DeadlineInv`: no row of an occurrence is fined before it is
penalised), `CountsAreHonest` (`CountInv`: the stored slot count equals the number of
active rows except while a redo is under way, never exceeds it, and is not looked
at after an expiry), and from the two what the pages show: `OffersAreAlwaysHonoured`
and `FreeSlotsAreAlwaysOffered`. `PromisesAreKept` needs only `SettledInv`: nothing is
paid before completion when the row pays on completion. What completing posts is then what the
page showed, multiplied if the member has a charge, and a charge goes just when
that is more than nothing.

`OneWorkerMarketIsSolo` is the refinement: for one worker per occurrence, each
action of the market maps to the action of `SoloTask` it is meant to be, or to a
stutter. It needs `SoloInv`, that a completed occurrence has one completed row and
any other none, for the doer of `SoloTask` to be well defined.

`BalancesAreLedgerSums` and `PointsAlwaysAddUp` are about sums of any number of rows. A
sum is a recursive function, and the induction theorems of the library are out of
reach of the provers; `RunningTotals` argues instead with the smallest index at which
two sums differ, which well-foundedness of the naturals gives. Its lemmas say
that a sum exists, is unique and moves by what one entry moves, and every action
changes the entries of at most the rows it names. What a member spent on multipliers is counted apart.
For what completed takeovers were paid, `PointsAlwaysAddUp` compares amounts of two moments: the value only
rises while a row is held, and rounding and multiplying keep that order (`RewardsRise`,
`MultiplesRise`), so the reward is at least what was promised at the takeover, whatever the
pinned multiplier and rounding; where the rule pays on acceptance or nothing, it is exactly that.

**RewardShop** (`RewardShopProofs`, from `ShopAssumption`). `StreaksAreEarned` is
inductive with the types. `SweepAlwaysSparesTheActive` needs `LastInv`, that a streak
under way was last extended by the completion counted last: the sweep, which chose
its members and its day earlier, looks at the streak again under the lock, and
`LastInv` carries that look over to the completions. `PointsAndChargesAlwaysMatch`
has `PointsOf`, a member's points are what the rows paid minus what the purchases
cost, with the sums of `RunningTotals`, and `ChargesInv`: the charges left and the
completions that spent one add up for each effect, and an effect spent by a row
belongs to its member. `RowsInv` numbers the rows: an active one has no
place in the order of completions and has spent nothing, any other has a place among those counted.

**Catalogue** (`CatalogueProofs`, from `CatalogueAssumption`).
`EditsAlwaysBuildOnWhatWasSeen` needs what the requests under way remember
(`Remembers`): a save waiting to insert names at most the next version and the one
before it as its base, so the unique key on the version lets one of two savers in.
`OnlyEditsEverStrand` has `ScheduleInv`, about inactive definitions too, because
reactivation makes them active again. A completion schedules by the rule it read before an
edit; `scheduledAs` remembers which, so that `ScheduleInv` outlives it. `OnlyOverlapEverMisleads` has three parts:
mixed rules need finite sets only (`RulesInv`); for the cap, `ScanInv` says what a
sweep has counted; for repeated occurrences, `SeriesInv` says that without an
overlap whatever the sweep made of a definition lies before its next due date, and no
two of its occurrences share a date; a completion that took the time before a midnight and
commits after it is an overlap too.

**Accounts** (`AccountsProofs`, from `AccountsAssumption`). The types come with the unique
keys and the foreign keys of the tables (`KeysInv`), for member rows are found by
user and household. `OldPasswordsNeverOpen` is inductive with `LoginsInv`, a login that goes on
knows the current password or was overtaken by a change, and `SparedInv`, a session
that a revocation under way is to spare is its own, was opened with the current
password, or falls to another revocation under way.
`LastAdminOnlyLostToARace` has `ChecksInv`: a PATCH that was checked and takes an
administrator away had counted at least two, or had not found its target to be
one. The assumptions
are that there are finitely many users and households, that nobody is listed as the founder
of one household twice (the unique key of `HouseholdMember`), and that the bound on passwords leaves
room for one.

**WebClient** (`AccountsProofs`, from `ClientAssumption` and `PagesAreKnown`: the pages of an
instance are pages of the client, among them the login, the dashboard and a task).
`CachesAreAlwaysHonest` rests on `ShownInv`: an own write a copy lacks is one whose
mutation is still to settle, or the copy is marked for a new request, or every page that
has both the button and the query is excused by a pair of `Unshown`; an answer under way
has no second way out, for nobody will mark it. A write enters by the first way, and
`SettledShown` leads it to the others when the handlers run: a copy on the page is hit or
need not show it, and a request under way for a copy that is hit is restarted. That
every hook hits what its pages show is `HooksSeeTo`, the table of `hooks.ts` and of
the pages looked up page by page; a key a hook forgets makes it false.
`LogoutInv` says that after a logout nothing is cached or read but the session until
somebody logs in, so that the login that marks what is old finds nothing to mark.

**Draws** (`AccountsProofs`, from `WindowCoversAWeek` and `RosterIsASequence`).
`DrawsAlwaysImposeTheLeast` needs no more of the state than its types, but of the code
everything between the rows and the draw. `CountedAsSeen` says that what
`loadCandidates` counts is what the household counts afterwards: the rows of the week lie in
the window (which is why the window must cover a week), and a member's index in the
rows of a chore that are read, latest first, is the number of rows after the member's last, if
that one is read at all (`CyclesAreRowsAfter`); how many are read is `RecentRows`, of which nothing is assumed but
that it is a number. `RungsDropped` unrolls the ladder: a rule is dropped only when nobody is
eligible, and the cap only when nobody is eligible without the cooldown either or the
cooldown stood against nobody. `SelectedIsEligible` holds of every strategy, for the
weights only choose among the eligible. `Filtered` (`Lists`) is `Array.filter` without recursion; its
elements are found by how many were kept up to them (`RankGrows`).

**RowLocks** (`OverlapProofs`, from `LocksAssumption`). `KnotsAreAboveOccurrences`
is what remains of the argument in `tx.ts` once foreign keys take locks too. The
invariant `LevelInv` says that whatever a transaction holds is of a lower level
than each *early* lock it still asks for, the sweep lock or `FOR UPDATE` on an
occurrence. A waiter of that kind then holds nothing another such knot could want,
so it is never part of a deadlock: the deadlocks that remain are among members'
rows, assignments and the shares of occurrences.

**PointsLedger** (`PointsProofs`, from `LedgerAssumption`).
`ChainsStayLinked`, `CacheFollowsLedger`, `KeysPostOnce`, `ReversalsAreExact` and
`DebitsStayCovered`. None is inductive alone: a commit merges a draft with what
others have committed meanwhile. `LedgerInv` states that what each transaction
*sees* (committed entries and its own) is sound as a whole and ends, for each
member it has locked, at the balance it sees, and that only the owner of a
member's lock has entries of that member under way. `NextEntrySound` extends one
sound view by one entry; `MergeLinks` merges two views whose drafts are of
different members; the lock makes them so.

**TodoistOutbox** (`OutboxProofs`, from `OutboxAssumption`). `OutboxTypeSafety` needs that whatever is live, planned or claimed has room
for one more dead row (`RoomForDead`), which `decide` leaves. `NoTaskIsForgotten`
and `NoSecondTask` hold until the member first disconnects;
`OpenLinkIsDeliverable` shows why not after. Their invariant has two halves.
`Books`: an open link and a live or orphaned CREATE row exclude each other, a live
CLOSE row carries the id of its open link, every task is accounted for. `Duties`:
the links the reconciler has read are still the links when it writes, although no
lock is held, because only the same worker changes them; what is claimed stays
live; and an answer that waits to be recorded fits its row. `GivenUp`, `SentAgain`
and `TaskOnLiveRow` carry `Books` over the three kinds of outcome.

**PushOutbox** (`OutboxProofs`, from `PushAssumption`). `PushesAlwaysReachTheirOwnerOnce`
has three parts. `BrowsersInv`: no two browsers have the same endpoint and one
that was not given out yet has no row, so that an upsert never takes a row from somebody
else's browser. `OnePassInv`: the in-process flag lets one pass at a time be under way, and what it
has claimed is still stored, for only passes delete. `SentInv`: whatever was pushed
was pushed once, and either its row is gone or some pass is past sending it
(`PastSending`) and about to delete it, unless a pass that had claimed it was cut off.

**Reminders** (`OverlapProofs`). Nothing is assumed of estimates, multipliers, due date or the number of passes.
`HoldersAlwaysRemindedOnce` needs `OwedInv`, what a pass still owes is true of the state
*now* although the pass read it earlier: the holder is still active, the team
full, the due date ahead of the pass's own clock, and the lead time ripe by today's
estimate and multiplier or by those it has read, which are the same. The transaction that looks again
under the lock then cannot find a reason not to remind, or finds that another pass was
first.

**Pages** (`OverlapProofs`, from `PagesAssumption`: limits are integers, the maximum is
positive). `ScrollsNeverMiss` is inductive with `CursorInv`, that only whole pages were
shown, that the cursor is the key of the last row and no shown row lies below it, and
`FrozenInv`, that a member's rows are written one at a time (the member lock), so what
the scroll of her statement has still to show was there at its first page. The
next page is a sorted selection; `FetchedPage` says what it is, and the rest
argues with keys only.

**Prices** (`PointsProofs`, from `PricesAssumption`). `QuotesAreHonoured`,
`GrowthAlwaysPaysAndTellsOnce` and `PreviewsComeTrue` share `PriceInv`. `QuoteInv` is the
quote a holder was shown, at the version her row pinned; it survives saves because versions
are only appended. `ClockInv` says that the anchor of the growth clock is a whole
number of intervals after the start of its spell, that the value is what those
intervals paid, and that the clock stands still at the ceiling only. That growing `j`
intervals and then `k` is growing `j + k`, with the ceiling and the largest integer
in between, is an arithmetic lemma of its own; the sweep's division by the interval is the other half. For the
previews, `TrailInv` records of each buyout what its version computes of the value before; that
buyout `i` is the chain's step `i` is shown by the smallest `i` where
it is not, as the library's induction cannot be used. `PricesAssumption` asks that the base value
is within the integers the code counts with, and that a custom formula of a draft has a
fraction or an error for every value, base value and number of buyouts a buyout of the
model may have, which for the evaluator is the type of its result. What the
configurations allow, percentages, multipliers, increments and ceilings up to the
limits of the schema, is taken from `ConfigRules` as it is.

**Audit** (`PointsProofs`, from `AmountsAreWhole`). `OneChangeIsAlwaysReported` says for
any number of rows that none of the model's five damages to a row (lost, another amount, balances shifted, moved to
another member, amount and balance rewritten together) escapes the integrity check, but for one of an owner's
latest row, once a repair has believed it. The invariant `AuditInv` has a half for each
side of the damage. `WhileIntact` is `SoundBooks`: rows are numbered by their posting, within the sign
rules, linked by balance and by id, and the cache stands where the last one ended.
Nothing is then found, because the check's walk over the sorted rows and the relation of a row to
the next of its owner are one thing (`SortedNeighbours`), and linked rows sum to the balance after
the last of them (`LinkedRowsSum`). `OnceDamaged`: the rows alone show the
damage, or it was to a latest row and the cache shows it until it is repaired. A repair changes only
the caches, so the first disjunct outlives it; a damage establishes one of the two by `GapIsFound`,
where a row left its owner's list (lost, or moved to another member), or `MisfitIsFound`,
where it was changed in place. That no row has the amount 0 is needed there: a
lost row of amount 0 would leave the sum as it was. `SortedById` orders rows by the
rank of their ids, as `Filtered` does positions, and one `RankGrows` serves both.

**Simulation** (`PointsProofs`, from `SimulationAssumption`). `SimulatedLedgersAreSound` is the first
half of the invariant `SimulationIsSound`: whatever the random generator returns, the
ledger of the run verifies at every cycle, and without debts nobody falls below the minimum. `SimInv` says
that the books are `SoundBooks`, the invariant the audit's ledger has, with the simulator's own
balances as the caches and its own tails as the last rows (`TailIs`). `PostingKeepsSound` is the step both
ledgers share; a cycle posts a reward above zero or a cost below it, because a cost is never
less than one point (`CostIsPositive`), and only for a member whose balance bears it, because
that is the last of the buyout rules and every earlier one has another name
(`MayBuyOutMeans`). That values stay among the integers the code counts with comes from the arithmetic of
`Prices`. The assumption asks for sections a configuration may have, for formulas
that do not fail on an offer (a failing one ends the run with an exception), and for a minimum of at most
zero where debts are not allowed: members start at zero, so above it the warning is there before
the first cycle.

Where a theorem names a property a run checks (`PROJECT.json`), the run shows it on
a small instance and the theorem for all. `RowsOnlyClose`, `CacheIsBalance`,
`ReversalsCancel` and `EveryTaskAccounted` are stated by theorems only.

## 5. What is not proved, or not modelled

Liveness under fairness and `ENABLED` stay with TLC. Of the safety properties, those of
these modules are only checked:

* `Formulas` (`ParserIsTheGrammar`): recursive by nature, and what a recursive definition computes for
  every input needs induction over data.
* `Simulation` (`LoadsStayTogether`, the second half of `SimulationIsSound`): that the loads stay
  within the cooldown, or within one without it, is a bound for two chores, three members and nine cycles;
  nothing in the code says that it holds for many chores, each with its cooldown.
* `Series` (`SweptSeriesKeepsStep`, `CompletionDropsTheMissed`): calendar arithmetic over tables of months and
  two changes of the clock, with `CHOOSE` over dates.

Not modelled, and why:

* The operator console reads counters; its session is one token that no step of the server changes.
* In `routes/admin.ts`: categories, exclusion and restriction lists as data, rewards as a catalogue, the
  audit log. They are plain writes of a row or a list; the race between two
  replacements of a list is in `Catalogue`.
* Parsing of requests, cookies, CSRF, rate limits and the table of error codes: I/O
  around the guards, which the modules have.
* The dashboard's sums, the list of members and the explanation of a draw: sums and
  texts over one read, which no interleaving parts. On the client, the queries of the own
  assignment's quote and explanation, and the household tab of the list.
* In the configuration: the normalisation of names of earlier releases, and the
  preview of a decay that no job carries out.
* In the client: layout, forms, texts, the operator's pages and the mock server.
* Todoist's and the push service's own behaviour, the browser's, TanStack Query's and
  PostgreSQL's are modelled as far as the code relies on them, and are marked
  external in the map.
* The sweep worker's loop over the households: an error in
  one only delays the others to the next beat.

## 6. Plan

1. *Done.* The market (`TaskEvents`, `TaskMarket`, `SoloTask`), `RowLocks`,
   `PointsLedger`, `TodoistOutbox` and their first theorems.
2. *Done.* What surrounds the market: `TaskViews`, `RewardShop`, `Accounts`, `Catalogue`,
   `PushOutbox`, `WebClient`.
3. *Done.* The house rules under `MCHouseRules`.
4. *Done.* Theorems about teams, deadlines, counts, pages, points and the
   refinement of `SoloTask`; about `RewardShop`, `Catalogue` and `Accounts`.
5. *Done.* Theorems about `PushOutbox`, `Reminders`, `Pages`, `Prices`, `WebClient`, `Draws`,
   `Audit` and `Simulation`.

## 7. Running

    tlc -workers 2 -config solo.cfg MCTaskMarket.tla
    tlc -workers 2 -config rules.cfg MCHouseRules.tla
    tlapm PointsProofs.tla

`PROJECT.json` names the module of each .cfg. Each run takes less than three minutes on
two cores.
