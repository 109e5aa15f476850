# Verification of the transaction monitoring service

TLA+ models of the service in `src/` (NestJS, PostgreSQL through TypeORM, Redis,
RabbitMQ), the TLC configurations that check them on small instances, and TLAPS
proofs of their invariants for every value of the constants.

Paths below are relative to `src/src/` unless they start with `src/`.

## 1. The system

A client submits transactions for an organization. Each is stored, the rules of
the organization are evaluated on it, and every rule that fires sends an alert
event through a RabbitMQ queue to a consumer, which opens an alert or counts a
hit on an open one. Analysts block and void transactions and change the status
of alerts. Rules, the templates they inherit from and the overrides of templates
are edited through CRUD services; the engine reads them through a Redis cache.
Several instances of the process may run against the same three stores.

| component | state | operations | interacts with |
|---|---|---|---|
| Transactions (`transactions/`) | rows, flags `isBlocked`, `isVoided` | `createAndEvaluate`, `update`, the queue consumer | calls the engine; emits to the `alerts` queue |
| Engine (`engine/engine.service.ts`) | none | `evaluate`, `evaluateRule`, `getCachedRules` | rule cache, rules service, facts |
| Facts, operators (`engine/facts`, `engine/operators`) | none | history, account and list facts; aggregation, list and geolocation operators | read transactions and lists |
| Rule cache (`engine/rule-cache.service.ts`) | Redis key per organization, `isConnected` | `get`, `set`, `invalidate`, subscriber | called by the engine and by events of the CRUD services; pub/sub between instances |
| Rules, templates, overrides | their tables | create, update, remove, `getMergedConfig`, `getEffectiveConfig` | foreign keys between them; invalidation events |
| Alerts (`alerts/`) | `alerts` rows | `processAlertEvent`, `updateStatus`, `handleAlertEvent` | consumes the `alerts` queue; rows fall with their rule |
| Action handlers (`alerts/actions`) | none | `execute` (stubs) | called after the save of an alert |
| Lists (`lists/`) | list entries with expiry | `create`, `remove`, `isInList`, `removeExpired` (no caller) | read by the list fact; rows fall with their organization |
| Organizations (`organizations/`) | rows | CRUD | the foreign key of list entries |
| Schema (`database/migrations`) | tables, indexes, foreign keys | run at start | everything |
| Deep merge (`common/utils`) | none | `deepMerge` | rules and overrides |
| Bootstrap, config, guards, filters, health | none | start, validation | - |

### What is hard

Everything that is hard here comes from the awaits. Each database, Redis or
broker call suspends the handler, the code takes no lock and opens no
transaction around a read and the write that depends on it, and TypeORM's
`save()` of an entity with an id is itself two queries, a SELECT and an UPDATE of
the columns that differ. The `alerts` consumer has no prefetch limit, so that all
queued events may be in progress at once, even in one process. Around this:
redelivery after a crash, an acknowledgement whatever happened (fail-open),
messages published without the persistent option and without waiting, Redis
pub/sub that delivers at most once, a cache that instances may fill while others
invalidate it. `PROJECT.json` lists each hazard at its line with the
properties that cover it, or the reason why none does.

### What makes each part correct

- Alerts: one active alert per key, a hit count that counts, decisions of
  analysts that stay, no event lost before it is dealt with.
- Rule cache: what Redis holds is what the tables hold, or there is a known reason
  and it ends; the cache never stops an evaluation.
- Engine: a rule that throws hides no other; what is published was answered.
- Rules, templates, overrides: links lead somewhere, an organization has one override of a
  template, a removed row stays removed, an edit changes what it may.
- Schema: whatever version of the database an instance finds, it migrates it.
- Transactions: a burst cannot slip through a velocity rule, no rule fires
  without cause, a stored transaction is answered, an alert event is not
  forgotten, a PATCH changes what it names.
- From end to end: an event a client was told of is on an alert or there is a known reason,
  and a transaction that is sent twice is alerted once.
- Lists: of equal entries posted at once one is created, what a client was told is
  what the table holds, organizations do not touch each other's entries, an expired
  entry does not count.

## 2. Modules

| module | models | uses |
|---|---|---|
| `Alerts` | broker queue, `AlertsConsumer`, `processAlertEvent`, `updateStatus`, cascade of a rule deletion | `AlertBook` |
| `AlertBook` | abstract: alerts whose opening, hits and decisions are one step each unless operations on a key meet | - |
| `RuleCache` | `RuleCacheService`, `getCachedRules`, the CRUD services as writers, several instances | `EffectiveConfig` |
| `Transactions` | `TransactionsService`, a velocity rule through `TransactionHistoryFact`, the binding of the queue consumer | `Operators` |
| `Lists` | `ListsService`, the list fact, the deletion of organizations | `Registry` |
| `Catalog` | the services of rules, templates, overrides and organizations, with indexes and foreign keys | `Registry` |
| `Engine` | `evaluate`, `evaluateRule`, the assembly and publication of events | - |
| `DedupWindow` | `calculateWindowKey` (pure) | - |
| `Pipeline` | from POST to alert: the engine, the client of the queue, the alert side | `Engine`, `DedupWindow`, `Alerts` |
| `Schema` | the migrations and how TypeORM runs and reverts them | - |
| `EffectiveConfig` | `deepMerge`, `getMergedConfig`, `getEffectiveConfig` (pure) | - |
| `Operators` | the operators of the rule engine (pure) | - |
| `Registry` | abstract: a table with one row per slot, whose creation is one step | - |
| `MCAlerts`, `MCRuleCache`, `MCTransactions`, `MCLists`, `MCCatalog`, `MCPipeline`, `MCSchema` | small instances for TLC | the module each is named after |
| `AlertsProofs`, `RuleCacheProofs`, `TransactionsProofs`, `ListsProofs`, `CatalogProofs`, `EngineProofs`, `DedupWindowProofs`, `PipelineProofs` | theorems and proofs | the module each is named after; `PipelineProofs` also `EngineProofs`, `DedupWindowProofs` and, by INSTANCE, `AlertsProofs` |

Conventions. `pc[x]` (in `Engine`, `stage[e]`) says at which await the operation `x` is; an
action is what runs between two awaits. Variables marked ghost record history that only
properties use. Before some actions stands a definition marked `Fault:`, the
action with a plausible mistake in it. It is never part of `Next`; putting it in
the place of the action must break the property `PROJECT.json` pairs it with,
which shows that the property depends on that code. `InitWithout(off)` starts an instance
without the operations in `off`, so that one run explores several small instances one
beside the other and not their product. The pure modules have no state: what they state is an
invariant of the modules that extend them, asked of the initial states.

### Alerts

`Run` is one delivery of one event, `<<m, n>>` the n-th of `m`. A run goes
`find` (`findOne`), then `insert`, or `reload` and `update` (the SELECT and the
UPDATE inside `save()`), then `ack`. A status request of an analyst
(`RequestStatus`, `updateStatus`) goes through the same `Reload` and `Update`, which is
where it meets the handlers. `copy` is the entity in memory and `dirty` the
columns the SELECT found different. An alert is named by the run that inserted it.
`findOne` may return any active alert of the key when there are several, as the
query has no order.

Failures: `DbFails` (any query throws), `KeyFails` (a window of `"0h"` makes
`calculateWindowKey` throw before any query), `Kill` (a process dies, what it held
is queued again), `LoseChannel` (the same with the handler still running, so that
two runs of an event go on at once), `BrokerRestarts` (queue durable, messages not
persistent), `DeleteRule` with its cascade. `Throw` is the catch block: the event
is logged and acknowledged.

The key of an event and the rule of a key are constants: what
`calculateDedupKey` computes is not needed to say what deduplication promises,
only that equal keys are equal. `Pipeline` supplies what is computed. `Publish` is the arrival
of an event in the queue; in the runs of `Alerts` alone every event may arrive at any time. Metrics, logs and the action handlers (stubs that
keep no state) are left out, as are the two timestamps of an alert.

`AlertBook` is what the alerts promise to whoever reads the table: as long as no two operations on a key are
open at once (`met`), an event opens the one alert of its key or adds one hit to an active one, an analyst sets a
status and nothing else, and the number of hits is the number of saves. Where operations met, late writes may lose hits and
put back statuses (`LateWrite`), and no more. `Alerts` implements it with up to three queries for a step (`KeepsTheBook`); its saves are
the runs `counted` on an alert, and `met` is `overlapped`.

### RuleCache

Data are versions: one counter for the rule rows of an organization, one for its
override, one for the template all share. A cached set records the versions it was computed from.
An evaluation is `get`, then on a miss `rules`, `template`, `override`, `set`, each a
query of its own; a request is a save (one of four actions), then `emit` (DEL) and
`publish`. `SaveTemplate` and `RemoveTemplate` end at once: `RuleTemplatesService`
emits nothing. Removing a template unlinks its rules (`SET NULL`) and deletes
its overrides (`CASCADE`), so an evaluation may find it gone (`ReadTemplateGone`).
The model has one template and reads it once where the code reads it for each
linked rule.
An instance whose `onModuleInit` failed runs without a connection: `get` misses,
`set` and `invalidate` return. Pub/sub messages are a set, handled in any order.
`lost` remembers organizations with an invalidation that was skipped, failed or
died; any later DEL of the key removes them. `raced` marks a load, or the entry it became,
after which a DEL of the key came.

### Transactions

A submission is stored (`Store`), loads the rules, counts the history, publishes
and answers. The rule is the kind whose result depends on other requests: at
least `Threshold` transactions of the account in the window, counted by a query
that leaves out voided rows. `Recent` is the set of transactions inside the
window; time does not pass during an instance, and a transaction submitted as
deleted, which no query counts and no operation restores, is simply not recent.
PATCH and PUT go through `findOne`, an assignment and `save()`, in three actions.
`outbox` is what `emit()` was given and the client has not written. A queued
submission is discarded: `TransactionsConsumer` is listed as a provider, so
that NestJS does not bind its handler.

### Lists

A row of `list_entries` is named by the POST that inserted it, and what it lists (list
type, entity type, value) is one `Value`. A POST looks for an equal entry
(`CreateRefused`, 409, or `CreateFindNone`) and then inserts; `CreateInsert` is the INSERT
with the unique index and the foreign key, which answer with an exception that is no
`HttpException` and so with a 500. A DELETE finds a row by id and organization, holds
it in `target`, and deletes it by id, whether it is still there or not. `CreateFails` and
`RemoveFails` are queries that throw, before or after they took effect. `RemoveOrganization`
cascades over `FK_list_entries_organization`, the only foreign key to organizations the
migrations create. `IsInList` takes any entry of the value: its first alternative
asks for `expiresAt: null`, which TypeORM 0.3 leaves out of the WHERE. `removeExpired`
has no caller and therefore no action.

### Catalog

`row[x]` is what the columns of a row are told apart by: the link of a rule to its template, the
template of an override, the name of a template or organization. A row bears the name of
the POST that inserted it. `PatchFind`, `PatchReload`, then `PatchUpdate` or, when the row is
gone by then, `PatchInsert` are `findOne`, `Object.assign` and the queries inside `save()`, which the four
services share; `DeleteFind` and `DeleteRow` are `findOne` and `remove`. `Admitted` is what unique
indexes and foreign keys let through. `findOne` loads the template of a rule as an object beside the
column `idTemplate`, and `save()` takes the link from the object (`Saved`), whatever the body names:
a PATCH links a rule that had no template and moves none that had.
A write that the database carries out ends in `Written`: it is answered ok, or its answer is lost with the connection or the process
and the row is as written all the same. `Refused` is one that a key or an index refuses, `Fails` any query that fails and writes nothing. `Tenant` is not `Org`: the header
that names the organization is not looked up.

### Engine

An evaluation is `Call` (the store of a submission), `Load`, the end of each rule in any order, and `Finish`
(`allSettled`, `buildResult`, `publishAlertEvents`). Configurations of a rule are numbered; `Load` may return
any the rule has or had, deleted rules included, which is all that `RuleCache` promises. The library that
evaluates conditions is external: a rule fires, is silent or throws. `LoadFails` answers an empty result with
`success: true`, as `evaluate` does, although no rule was looked at. `NamedIn` is the rule that the event of
a rule names: its params are spread after `ruleId`, and may replace it.

### DedupWindow, Pipeline

`DedupWindow` counts time in hours on a calendar of the configuration's making (`HoursPerDay`, `DaysPerWeek`, the year and
month of each day). A window is `<<n, unit>>`, with units for the forms `calculateWindowKey` treats apart. A key is the tuple of fields the text
prints. Zero days or weeks make an invalid date whose fields print as `NaN`, one bucket for ever; zero hours throw.

`Pipeline` joins `Engine` and `Alerts` (`A == INSTANCE Alerts WITH Msg <- Event`) over one table of rules. The events of
`Alerts` are those of the engine, their keys what `DedupKey` computes from the configuration each evaluation ran with. `Delete` is
a step of both; `Send` moves an event from the outbox of the client to the queue, `Lose` drops it with the process.
A submission is of a transaction of a client (`TxOf`): a client may send one again, and nothing recognizes it.

### Schema

An instance selects what has been executed, sorts the rest by timestamp and runs it in one transaction, which a failing statement rolls back;
it starts again up to `MaxTries` times (ten by the default of `@nestjs/typeorm`). The database it finds is new or
was left by any earlier version of the application. `Revert` is `migration:revert`. Of a migration counts which table it creates
and which ones its foreign keys name.

### EffectiveConfig, Operators, Registry

`EffectiveConfig` takes a JSON object as a function on the names of its properties and everything else as a leaf. Objects
have up to `Depth` levels, of up to `Names[n]` properties where n levels are left; `deepMerge` is a recursive function on their pairs. The
reference walks down a path in each of the three layers and says which of them decides there. `Operators` takes a JSON value as
`<<kind, content>>` and evaluates the operators on every pair of kinds, since neither conditions nor facts are validated; `Transactions` counts
with one of them (`Reached`).
`Registry` is the abstract specification of a table with one row per slot: a POST takes a free slot or is refused, in
one step, and where the client hears of an error the row may be there all the same; a row that ever was there (`ever`) may be restored, whatever
its POST was answered. `Lists` implements it with two queries and a unique index (`CreatesAtOnce`), `Catalog` with three
queries, a unique index and saves that may restore removed rows (`OverridesAtOnce`).

## 3. Runs

| run | instance | states | shows |
|---|---|---|---|
| `alerts` | two events of a key, or one beside a malformed one, or one beside one of another key and rule; one redelivered, 1 request, 1 failure | 0.3 M | safety of the alert part under races, redelivery, death, rule deletion; it implements `AlertBook`; every event ends acknowledged |
| `alerts_single` | 2 events, no failure | - | two active alerts of one key |
| `rule_cache` | 1 organization, 2 instances, 1 evaluation, 2 requests, 1 failure, 1 restart | 0.1 M | every stale entry, and every stale load, has one of three reasons; evaluations end; the cache becomes current; layers of a config |
| `rule_cache_race` | 2 organizations, no failure | - | a fill overtaken by an invalidation leaves a stale entry |
| `rule_cache_template` | 2 organizations, no failure | - | template changes do not reach the cache |
| `transactions` | 3 submissions (1 queued) and a PATCH, or 1 and two PATCHes; threshold 2, 1 failure | 0.2 M | bursts are detected, nothing fires below the threshold, stored is answered, fired is published, PATCHes change what they name; operators and their negations |
| `transactions_queue` | 3 transactions, one of them queued | - | a queued transaction is consumed and not stored |
| `lists` | 2 organizations, 1 value, 4 POSTs, 2 DELETEs, 1 lookup, 1 failure | 0.2 M | one POST of equal ones is created, answers match rows, tenants are apart, creation is one step, whose refusals have a cause |
| `lists_expiry` | 1 POST with an expiry, 1 lookup, no failure | - | an expired entry is still listed |
| `catalog` | 1 rule, 2 templates, 2 overrides of one slot, 1 organization row, 2 PATCHes, and a DELETE with 1 failure or lost answer, or 2 DELETEs (one of a stranger) without | 1.9 M | links exist, what is gone, which link a PATCH may change; creation of an override is one step, of which one at a time exists, also where answers are lost |
| `pipeline` | 1 transaction sent twice while its rule is edited; or 1 submission, 2 rules, 1 failure; or one evaluation of a rule alone | 0.3 M | failing rules are isolated, published is answered, a retry is absorbed, an event told to a client is on its way, counted or excepted, and ends on an alert; buckets |
| `schema` | 2 instances on a database of any version | - | a database without the alerts, an empty one or one of an earlier version, cannot be migrated |

The runs with states pass. Of the six others, five find the violation of a sentence of
`src/ARCHITECTURE.md` (lines 87, 395, 98, 471-472 and 379) and `schema` that of the setup steps of
`src/README.md` (lines 82-91); `PROJECT.json` quotes each under "findings" with the code that causes it. The passing properties
state what the code does keep in the same place: `UniqueUnlessRaced` for the first,
`StaleIsExplained` and `EventuallyCurrent` for the next two.

Bounds, and why they are enough:

- `MaxAttempts = 2`, `Redelivered`: two deliveries of an event give an old and a
  new run at once, which is all that redelivery adds; more only repeat it. An event outside
  `Redelivered` is delivered once. In `pipeline` all are: what redelivery does is the
  matter of `alerts`, and `ImplementsAlerts` carries its theorems over.
- Two events of one key are the smallest race, and with redelivery there are three
  runs on one key. An event of another key and rule shows that keys do not disturb each other.
- `MaxFailures`, `MaxCrashes = 1`: one failure may fall at any await of any
  operation; a second would hit an operation the first has left alone. In the first instance of `pipeline` none is left to fail,
  so that the retry alone is explored.
- Two instances and two requests: a reader, a writer and a subscriber that are not
  the same process, and a second writer between the steps of the first.
- `Threshold = 2` with a burst of two: the least at which two submissions must see each other. Two PATCHes of one
  transaction are the smallest race of their kind, and need no second submission.
- Three POSTs of one value are one that is created and two that are refused, by the search
  and by the index; the POST and the DELETE of the other organization name the same value,
  so that only the organization keeps them apart. One tick lets the entry with an expiry expire.
- `catalog`: two overrides of one slot, since the index is about two; two PATCHes to overlap on a row, and with a
  DELETE between their steps bring it back; two templates, so that a link has somewhere to move; a DELETE of a stranger, which may take
  templates only, and which has an instance of its own in which nothing fails. The one failure may be a lost answer: the POST of an override
  that is stored and answered with a 500, its removal and its return by a PATCH are within these bounds.
- `pipeline`: two configurations of the edited rule with different windows, so that the two submissions may get equal
  or different keys; `r2` fires as `r1`. The calendar has days of four hours, weeks of two days and months of three and two
  days in two years, so that hours, days, weeks and months that do not divide the next unit all occur within ten days; windows
  run from 0 to 5.
- Objects in `rule_cache` are two levels deep (`Depth`), two names on the first, one on the second (`Names`), with two leaves: `deepMerge` treats
  each level alike, and the proof is for any number. Values in `transactions` are of every kind,
  with a text in two cases, three numbers and `NaN`, and arrays of at most two elements.
- Symmetry is used in `catalog` only, which has no liveness property: no constant tells its two overrides apart, nor its two PATCHes.

`CHECK_DEADLOCK FALSE` stands in every configuration: an instance has finitely many
events and requests, and the behaviour stops when they have ended.

Fairness. `Alerts` and `Pipeline`: the client sends, the broker delivers, or the event loop resumes a handler whose
answer has arrived, as long as one of them can (`WF(Progress)`). Each handler has finitely many steps and each event finitely many
deliveries, so that nothing has to be fair to each of them. `RuleCache`: steps of requests and evaluations that
have begun, handling of messages, and the expiry of an entry, which Redis carries
out after the TTL. `Transactions`: steps of each submission and PATCH, and the client's
write of what it was given. No failure, crash, deletion or request is ever obliged to
happen, and none is forbidden. A query that never answers is outside the model.

## 4. Proofs

All theorems hold for all constants that satisfy the assumption of the
module (`ConstantsAssumption`; `EngineAssumption`, `PipelineAssumption` and `CalendarAssumption`), which says what kinds of
things they are (`KeyOf` maps events to keys, bounds are natural numbers, names of different kinds differ). `OperatorsAssumption` says that `NaN` is no
number and that the mapping to upper case is of texts, `ConfigAssumption` that no object is a leaf and that the names of a level may stand on the level above.
`CalendarAssumption` has the days in order, each in the month of the one before, the next month or the first of the next year.
Finiteness is assumed of the rules in `Engine`, whose number an answer counts, and of the days of a calendar.

Induction over data. The induction theorems of the library take an operator as a parameter, which the provers cannot
instantiate. What they can use is that strict inclusion of finite sets is well-founded: the sets `0..n` give that every set of naturals that has an element
has a least one (`Least` in `DedupWindowProofs`), and that a set which has 0 and with each number the next has all of them (`Induction` in
`RuleCacheProofs`). From these come the proofs by induction on time, on the levels of an object and on the length of a path, and the proof that a recursive
function is what its definition says (`NestedIs`, `MergedIs`, `Strides`).

`AlertsProofs`. `TypeCorrect` is inductive alone. The safety invariants are
proved together from `Inv`:

- `Numbered`: a run whose number is beyond `attempts` has not begun, and an event that is out
  was delivered; with it `OneOutstandingDelivery` is inductive.
- `Requests`, `Rows`: what a request or a handler holds is an alert of its own key; a
  run that has not inserted has no row; the runs counted on an alert are of its
  key and are over their write.
- `AcksAreSettled`: a run that is at its ack was saved, dropped, or lost its rule. This is
  what `AckedIsAccountedFor` needs one step earlier.
- `CopiesNotAhead`: a handler's count in memory is at most one above the number of
  saved runs, a request's not above it; it gives `HitsNeverOverstated` under all races.
- `Alone`: on a key outside `overlapped` at most one operation is open. From it
  `CopiesCurrent` (the one copy agrees with the row), hence `ExactUnlessRaced` and
  `DecisionsStick`, and `NoneFound` (while a run is about to insert, the key has no
  active alert), hence `UniqueUnlessRaced`: at most one alert of the key is active beside those in `reopened`, each of which a request of an
  analyst opened again after it was closed, for which `updateStatus` looks at no other alert of the key; and `FoundActive` (what a run
  found was active, and is so in its memory).

Each conjunct has a lemma that goes through the actions by group
(`BrokerKeeps`, `RowsKeep`, `AcksKeep`, `HitsKeep`, `AloneKeeps`, `ExactKeeps`, `UniqueKeeps`, `FoundKeeps`).
`BookKept` is a step simulation from this invariant: `Insert` maps to `Open`, `Update` to `Hit`, `Decide` or `LateWrite` (`BookUpdate`), the
first await of an operation that meets another to `Meet`, everything else to a stutter (`BookStep`).
`BookPromises` is about `AlertBook` alone: what a reader would ask of an alert book is an inductive invariant of it, so that the
book which the handlers keep is one worth keeping.

`RuleCacheProofs`. `Inv` is `TypeOK`, `StaleIsExplained` and `LoadIsExplained`. The last says
of a load in memory what the first says of an entry in Redis: it is never ahead of the tables, and
one that is behind was overtaken by a DEL, has a DEL to come, or an invalidation of its
organization was lost. `Set` turns the explanation of the load into that of the entry, so that
neither is inductive without the other. `StaleExplained` and `LoadExplained` follow.
`LastLayerDecidesAlways` is about `deepMerge`. By induction on levels `merged` is the function its definition describes, on objects of every level (`MergedIs`),
and its values are objects of no more levels (`MergedNests`). `MergeDecides` walks along a path through target, source and result at once and keeps `Parallel`: as
long as the source is at an object, the result is at the merge of the two objects or at the source's; where the source has a leaf or is cut off by one,
the result is as the source; where the source is silent, the result is as the target, or neither has a value. Two merges give three layers (`Layers`).

`TransactionsProofs`. The invariant says that `last` is stored and recent, that a stored
transaction has left `idle`, that a voided row is in `everVoided`, that the table is finite, and
that what an evaluation has counted was stored.
`LastTransactionSeesAll` follows because the count comes after the store. `BurstDetected`
needs no more: the last transaction of the burst has counted all of it. `FiredJustified`
needs that rows are never deleted and that finite sets grow with their subsets' cardinality.
`FlagsAsAsked` has an invariant of its own, `PatchInv`: a transaction outside `overlapped` is held by
at most one PATCH, and the entity that PATCH holds differs from the row in flags its body names only.
`OperatorsSplitAll` goes through the operators by family (`Comparisons`, `Negations`); `AtThreshold` ties the count of the rule to its operator.

`ListsProofs`. `Inv` joins `Indexed` (no two rows of one value in an organization), `Ended` (a row
is of a POST that has ended, so it is never inserted twice), `ErrorsHaveCause` (a POST of an existing
organization is answered with 500 only after a failure or for an equal entry) to the
properties themselves. Two lemmas carry the step: `Quiet`, for steps that end no POST
and only move rows to `removed`, and `PostEnds`. `OneCreated` follows: if no POST had its row, each was
refused for a row that was there, which is of a POST of the value and has not been removed.
`Tenants` rests on `AnsweredOnce` and on `HoldsOwn`, a DELETE holds an entry of its own organization.
`CreatesAreAtomic` is a step simulation: the search that refuses, the INSERT, and a failure map to `Refuse`, `Take` or
`Refuse` or `Fail`, and `Fail` of the registry, deletions to `Drop`, everything else to a stutter.

`CatalogProofs`. `TypeOK` is inductive only as part of `Shape`. `Shape` adds to it that a request under way holds a row that is or was there, one of its own organization (`Holds`), that a PATCH saves a value
of the row's kind (`Keeps`) and plans nothing outside its save (`Idle`), and that a row which ever was has a POST that ended (`AnsweredOnce`, `WasPosted`). On them rest `OneEach`, `Linked` (which need only what `Admitted` and the cascade do) and `Caught`: a row that was
removed and has a save under way was caught when it was removed. `LinksStay` adds that the template object in memory is the row's link while
one PATCH alone is open. `OverridesAreAtomic` is a step simulation in which an INSERT (`SlotWrite`) is `Take`, or `Fail` when its answer is lost, and `PatchInsert` is `Restore`,
whatever the POST of the row was answered; what leaves the overrides alone is a stutter (`SlotQuiet`).

`EngineProofs`. `Inv` joins the types, `LoadsLate` (nothing is loaded before its step), `FailureIsIsolated` and `EmittedIsAnswered`; the
step that matters is `Finish`, whose result is computed from outcomes that no step changes any more.

`DedupWindowProofs`. Each field of a date is a counter that goes on by one, or starts over when the field above it does (`GoesOn`; `HoursBegin`, `DaysBegin`,
`MonthsBegin`). Such a counter never comes back to a bucket it has left (`Grows`), and two instants share one exactly when none starts between them
(`Buckets`). `WindowsOfAnyLength` applies this to each unit and any length, weeks being days counted by the days of a week (`QuotientOfQuotient`), and
`BucketsAreCutEverywhere` follows.

`PipelineProofs`. Every step of the composition is a step of the engine or leaves it alone (`ImplementsEngine`), and the same
of the alert side (`ImplementsAlerts`). From the first, the theorems of `EngineProofs` hold of the pipeline as they stand. For the second,
`AP == INSTANCE AlertsProofs` gives the theorems of `Alerts` for the keys `Pipeline` computes, once `AlertsAssumption` is shown of them;
`AlertsAreUnique` is `Unique` carried over and `PipelineBookKept` is `BookKept`; `RetryAbsorbed` follows, as equal transactions, rules and windows have equal keys.
The other direction is `AlertsCountTogether`: events counted on one alert have one key, hence one rule and one account, and by `BucketsAreCutEverywhere`
no window begins between them. `NothingForgotten` goes the whole way from the client to the row: an answered event was published
(`FiredIsEmitted`), a published one was sent to the queue or its message was lost (`EmittedIsSent`), and what was sent is in the broker, with a
handler, or accounted for (`AckedIsAccountedFor`, carried over from `Alerts`). The run finds that an ack before the save breaks it.

### Only model-checked

Liveness under fairness (`EventuallyAcked`, `EvaluationsEnd`, `EventuallyCurrent`, `StoredIsAnswered`,
`FiredIsPublished`, `FiredIsAlerted`), which the prover does not reach. Every other property of a passing run is also a theorem.
`NeverOverstated`, `Refusals`, `AlertsAreUnique`, `PipelineBookKept`, `AlertsCountTogether`, `BucketsAreCutEverywhere`, `BookPromises`, `OneOverrideEach` and the two `Implements` theorems are
proved and belong to no run of their own.

### Not modelled

- Action handlers: stubs that log. Health, metrics, error filters, DTO validation: no state, and a request that fails validation
  changes nothing.
- Reads page by page change nothing and promise no order across pages.
- Aggregations other than the count differ from it in one SQL expression, whose arithmetic is PostgreSQL's; the account
  fact is a stub that returns `undefined`.
- Settings of organizations, descriptions, priorities, `isDefault`: columns that a PATCH replaces and no operation of the
  models reads. `enabled` is part of what a version of `RuleCache` stands for; `Engine` has no disabled rules.
- The evaluation of conditions by json-rules-engine is external.
- In `Alerts` a rule that was deleted stays deleted. That a PATCH under way may insert it again with its old id is in `Catalog` (`GoneStaysGone`);
  its alerts, which the cascade took, stay gone either way.

## 5. What could follow

1. A bounded-stale view of the tables that `RuleCache` implements, with a refinement mapping.
2. `evaluate` answers `success: true` when the rules could not be loaded (`engine/engine.service.ts:188`), where `src/ARCHITECTURE.md:481` names
   `success: false`. `LoadFails` models it; no run shows it yet.
3. `RuleCache` under `Catalog`: loads that meet rows brought back by a save.
