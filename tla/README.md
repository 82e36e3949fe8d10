# goshared: TLA+ models

`goshared` is a Go library of shared building blocks: a sharding layer over
GORM, Kafka consumers and producers over sarama, caches, an HTTP client and
HTTP middleware, and utilities. This directory holds TLA+ models of the parts
whose correctness depends on the order in which things happen, the TLC
configurations that check them on small instances, and TLAPS proofs of their
main invariants for every value of the constants. Paths below are relative to
the root of the repository.

Run TLC with `tlc -config X.cfg M` and the proofs with `tlapm M_proofs.tla`.

## 1. Inventory

### 1.1 Sharding (`db/internal/dbsp`, `db/dbspi`, `db/dbhelper`)

| component | state | operations | correct when |
|---|---|---|---|
| routing (`sharding_table_store.go`) | none; reads the entity, the id, the query and the `ShardingKey` of the context | `resolveForEntity`, `resolveForId`, `resolveForQuery`, `resolveForEntityAndQuery` | all sources agree on one table, or the call is refused |
| sharded table store | rows of the physical tables | `Create` .. `FirstOrCreate`, `Find`, `Count`, `GetById` | a row can be found by the columns it was stored under; a routed query sees all rows it describes |
| scatter-gather (`FindAll`, `CountAll`) | goroutine per table, errgroup, cursors | `fetchAllFromShard` | complete or an error, nothing twice, always ends, nobody left behind |
| GORM adapter (`gorm.go`) | none | conditions, statements | a statement changes the rows its query describes |
| expression rules (`sharding_expr_rule.go`, `expr/`) | none | expand, compute, template; `ShardName`, `EnumerateDbNames` | what a rule can resolve to is what it enumerates |
| manager and transactions (`sharding_factory.go`) | database entries, one transaction | `For`, `Transaction` | statements in a transaction hit its database or are refused |
| auto-fill, facade | none | | |

The store asks the rules for a database key and a table name, looks the key
up in its targets, and runs one statement of `GormTableStore` there. `FindAll`
and `CountAll` bypass routing and visit every table of every target. Inside
`Manager.Transaction` the database rule is bound to the one database of the
transaction.

### 1.2 Messages (`mq`)

| component | state | operations | correct when |
|---|---|---|---|
| advanced consumer | marks and batch of a claim; offset of the group and the logs at the broker | `consumeClaimSingle`, `consumeClaimBatch`, `sendRetry`, `sendDLQ` | no message is passed over that was neither processed, republished nor sent to the DLQ; retries are counted and end |
| manual consumer | session and its mark, `msgChan`, closed flag | `consumeLoop`, `ConsumeClaim`, `Consume`, `Confirm`, `ColdRetry`, `DLQ`, `Close` | nothing nobody handled is committed, everything is handled, `Close` returns |
| producer | closed flag and lock, sarama's two producers | `Produce`, `BatchProduce`, `AsyncProduce`, `handleAsync*`, `Close` | no send to a closed channel; results and callbacks are true and come |

The advanced consumer republishes to the topic it reads from, so its output is
its own later input; the group coordinator may take the partition away at any
step. The manual consumer's channel outlives its sessions: what one session
delivered is confirmed under another. The producer's handlers and sarama's
`Close` read the same result channels.

### 1.3 Everything else

| component | state | operations | correct when |
|---|---|---|---|
| rate limiter (`http/httphelper/ratelimit.go`) | map of visitors behind a mutex | `allow`, `cleanup` | a key gets `rate` requests per window, whatever cleanup deletes |
| HTTP client (`http/internal/httpsp`) | a shared client, one derived client per request | `New`, builder methods, `Receive`, `Request` | requests do not mix; attempts are alike; results are true; bodies are closed |
| caches (`cache/internal/cachesp`) | keys with TTL | reads, writes, `SetNX`, `GetAndDelete`, `Incr`, `Load`, `LoadMany` | values stay with their keys; what belongs to one caller is given to one; deletes hold |
| Snowflake ids (`util/idutil/id.go`) | two atomics | `Next` | ids are unique and increase |
| `syncutil`, `retry` | goroutines, timers | `Parallel`, `Fan`, `Debounce`, `Do` | all end, no result lost |
| remaining utilities, logger | none | pure functions | unit tests cover them |

### 1.4 What is hard here

* pages of a scan are separate statements with other writers in between, and
  one table may fail while others read;
* routing merges up to four sources, which may disagree, and checks values one
  column at a time;
* `FirstOrCreate` and the consumer's failure loop are several remote steps,
  each of which may fail or be the last before a crash;
* the lines of a rule come in any order and read each other, and what a rule
  resolves to must be what it enumerates;
* the stores of a transaction are made from a copy of an entry that is bound to
  one database, next to others that are not;
* a rebalance makes two handlers work on the same records;
* a message waits in the manual consumer's channel while its session ends and
  others read it again; `Confirm` marks on the session it came with;
* `AsyncProduce` may block, with the lock `Close` needs, on a channel `Close`
  closes; results are read by two readers while the producer closes;
* a cache call is several commands with other clients, lost replies, expiry and
  crashes in between; a loader's answers are matched to keys by position;
* goroutines derive clients from one shared client, and every attempt of a
  request builds its body again;
* the ids come from two atomics that no lock joins;
* `cleanup` deletes state that requests of the same key rely on.

`PROJECT.json` lists each of them at its line with the property that watches it.

## 2. Modules and how they correspond to the code

| module | models | state | actions |
|---|---|---|---|
| `ShardRouting` | column sources, the same-target check, rule lookup | constants only | operators named after the code |
| `ShardedStore` (EXTENDS `ShardRouting`) | CRUD of `shardedTableStore` | rows per table; pending `FirstOrCreate` inserts | one per method; `FirstOrCreate` is two |
| `LogicalTable` | what `ShardedStore` promises: one table, whose rows are told apart by home and id | the table | `Insert`, `Replace`, `Change`, `Remove` |
| `ScatterGather` | `FindAll`, `CountAll`, `fetchAllFromShard` | tables, goroutines, cursors, results, context | `Begin`, `Go`, `Fetch`, `FetchError`, `FetchCancelled`, `Wait`, `CancelCaller`; writers |
| `Expr` | `expr/`: values, functions, `Eval`, templates | constants only | operators |
| `TopoSort` | `topoSortComputes` | in-degrees, queue and result of the sort | `Pop` per round of the loop, `SortEnds` |
| `ExprRules` (EXTENDS `Expr`, `TopoSort`) | `ParseExpands`, `autoInferIdentityComputes`, both rules | the lines in their order; the rule; the row last routed | `Sort` and `Finish` (those of `TopoSort`), `Route` |
| `Transactions` | `Manager.Transaction`, `For` with and without `WithTx` | rows, open transaction and pending statement of each client, how transactions ended | `Begin`, `Commit`, `CommitFails`, `Rollback`, `Cancel`; `WriteInTx`, `WritePlain`, `Run`, `StatementError`, `TxDone` |
| `AtomicWrites` | what `Transactions` promises: the rows of a transaction appear together or never | rows, open clients, what they wrote, how they ended | `Open`, `Write`, `Apply`, `Lose`, `Undo`, `WriteAlone` |
| `AdvancedConsumer` | one partition of `SaramaAdvancedConsumer` | log, DLQ, group offset, start and owner, each handler | receive, process, each send with and without an error, mark, return; publish; join, commit, leave, expel, crash |
| `RateLimiter` / `RequestQuota` | `rateLimiter` / what it promises a key | visitors, clock | `allow` in its three outcomes, `cleanup`, `Tick` |
| `Snowflake` | `snowflakeGenerator.Next` | two atomics, locals of each goroutine, clock | one per atomic operation |
| `ManualConsumer` | one partition of `SaramaManualConsumer` and the application's loop | group offset and owner; session, mark, `msgChan`, worker and status of each member | `Publish`; `consumeLoop`, `Rebalance`, `Cancelled`, `Expel`, `Crash`; `Take`, `Push`, `Returns`; `Consume` .. `Confirm`, `Close` |
| `GroupOffset` | what both consumers promise about their group's offset | end of the partition, settled records, where the group started, offset | `Settle`, `Start`, `Pass` |
| `Producer` | `SaramaProducer` over sarama's synchronous and asynchronous producer | steps of callers and of `Close` calls, read lock, fate of each message, callbacks, topic | one per step of `Produce`, `AsyncProduce` and `Close`; `Acknowledged`, `Swallow`, `handleAsyncSuccesses`, `handleAsyncErrors` |
| `Cachespi` | what both caches share: entries, loaders, calls | entries, data source, the call of each client | calls, `LoaderReturns`, `LoaderFails`, filling, `Expires` |
| `RistrettoCache`, `RedisCache` (EXTEND `Cachespi`) | the two implementations | | one per look or write; one per Redis command, with its failures |
| `Caches` | either of them behind the interface | which one | those of its backend (`INSTANCE`) |
| `HttpClient` | `httpClient`, shared and derived | options, fields and header maps of the clients; attempts, outcomes, open bodies, result | `New`, builder methods, `Receive`, `Send`, `DoAnswers`, `DoFails`, `Retry`, `Decode` |

`MCShardedStore`, `MCExprRules`, `MCTransactions`, `MCCaches` and
`MCHttpClient` give the constants or the symmetry of their instances;
`*_proofs` modules hold theorems and their invariants.

Four modules are specifications that others implement, each by an `INSTANCE`
with a refinement mapping and checked as a `PROPERTY` named `Implements...`:

* `RateLimiter` implements `RequestQuota`.
* `ShardedStore` implements `LogicalTable`: the logical table is the union of
  the physical ones (`AllRows`), the place of a row its `Home`. A call whose
  effect is nothing, and the `SELECT` of `FirstOrCreate`, are stutters. That a
  statement by query reaches *all* rows described is not part of it (a
  statement is confined to one place); `RoutedReadsComplete` says so.
* `Transactions` implements `AtomicWrites`: a client's rows are those under the
  number of its transaction, and connections, pools, pending statements, bound
  entries and dead contexts are forgotten.
* `AdvancedConsumer` and `ManualConsumer` implement `GroupOffset`: settled is
  what is `Accounted` for, and what was handled.

Abstractions, by module:

* **ShardRouting.** A rule is a function from sharding keys to targets: what
  its expressions compute is data. The order of conditions and of the values of
  an `IN` is the caller's, so any value may be the one met first. `resolve`
  returns the set of tables a call may go to, empty when it is refused.
* **ShardedStore.** A table is a set of rows. A refused call and a rejected
  statement change nothing and are not steps. `IsNull` is a condition "eq"
  with the null, `IsNotNull` a "noteq"; the rows of the instance hold no null.
  The database gives an id to a
  row stored without one. GORM's refusal of `UPDATE` and `DELETE` without a
  condition is a guard. Soft deletion and restoring are updates of the deleted
  column. `Raw`, `Exec` and `Shard(key)` run what the caller wrote.
* **ScatterGather.** A table is the set of ids of matching rows. `CountAll` is
  the call with batch size 0. Each page is atomic, as a statement is. The
  cursor is what `extractFieldValue` finds in the scanned row: nil where the
  entity has no such field, zero where the query's `Select` leaves the id out
  (`gorm.go:363`, `:856`). Only the first page can leave it out, since `And`
  (`:912`) drops the selection of the others. So the first page of such a call
  is read twice, and `NoRowInvented` allows its rows two copies and no more;
  `rows` counts to three. The rows of a goroutine that fails are dropped at
  once, as no result has them.
* **Expr, ExprRules.** Rules start from syntax trees. A value is what its
  `String()` returns: the code's integers and strings behave alike, since
  arithmetic parses strings. Integers are unbounded in the arithmetic and
  bounded by `MaxInt` where strings are parsed; the instance stays below it.
  FNV-1a, `ToLower` and `ToUpper` are given as functions. Sharding columns have
  the types `anyToValue` (`expr/eval.go:66`) takes. A rule that panics at
  startup is "rejected". The code evaluates at most one name per call, so the
  only state a rule keeps is what the sort built.
* **Transactions.** A statement is the insertion of a row; a statement inside a
  transaction becomes visible with its `COMMIT`. Routing is that of
  `ShardRouting` seen from one sharding key: the rule of a group leads a key to
  a target, `TableOf` an entity and a key to a table. A connection is held from
  `Begin` until the function returned or its context ended. `CommitFails` is a
  `COMMIT` whose answer is an error: it may have taken effect. A store of
  another group inside a transaction is the code's error store: no step.
* **AdvancedConsumer.** `consumeClaimSingle` is the batch of one. A send that
  reports an error may have arrived. A handler that was expelled goes on, and
  may take messages from its claim's channel, until `Return`: it learns of its
  end between batches. `Commit` is sarama's auto-commit; the marks of a session
  are lost when it is expelled or crashes and committed when it leaves in order.
* **Both consumers: the start of a group.** The constructors leave
  `Consumer.Offsets.Initial` at sarama's default, `OffsetNewest`
  (`advanced_consumer.go:43`, `manual_consumer.go:48`). A group that has never
  committed therefore starts at the end of the partition, and starts there anew
  with each owner (`Resume`): what an owner received before a crash without a
  commit is skipped by the next one, and later commits pass it. `first` is the
  start that the first commit made the last one (`Begun`), and everything the
  models promise is about the records after it.
* **ManualConsumer.** One worker per consumer runs the loop that
  `mq/mqspi/spi.go:20-41` shows: `Consume`, process, or `ColdRetry` or `DLQ`
  until one succeeds, `Confirm`. Several workers per consumer would confirm out
  of order, and the mark of a later message would cover an earlier one.
  `Confirm` answers nil also when the commit failed or the session is gone.
  A publication to the retry topic counts as handling: no code of `mq` reads
  that topic, although `spi.go:50` speaks of messages consumed again.
  `ColdRetry` and `DLQ` do not look at the closed flag: `SendAfterClose`.
* **Producer.** Sarama holds `Capacity` messages before `Input()` blocks. A
  synchronous send that reports an error may have arrived. Callbacks return
  and do not call the producer: one that called `AsyncProduce` while a `Close`
  waits for the lock could wait for itself. The results sarama's `Close`
  drains are lost to the handlers (`Swallow`). `SendPanics` is a `Produce` that
  read the closed flag before `Close` ran to its end.
* **Caches.** Callers keep one kind of thing under a key: data that loaders
  fetch, counters, or tokens that `SetNX` places and `GetAndDelete` takes.
  Values marshal, and may not fit a receiver. Expirations are the two constants
  of `cachespi` and a positive duration. Expiry and eviction may come at any
  time; Ristretto may turn a new key away without saying so. A failed Redis
  command may have run. Commands of a pipeline run one after the other.
  What `Set` and `SetMany` store is fixed when they are called (`args`):
  callers hand over what the source has at that moment, and it may be old by
  the time it is written. `Incr` takes any of `Deltas`, negative ones and zero
  too; numbers do not overflow. A write to Ristretto is seen from its `Wait` on.
* **HttpClient.** A value carries the call it was set for, so that a request
  tells where its parts come from. Header maps are references. Encodings of
  structs and the text of URLs and bodies are abstract. That the wait between
  attempts does not watch the context shows only in time.
* **RateLimiter.** The mutex makes `allow` and `cleanup` atomic. The clock is
  discrete; the HTTP answer is its status.
* **Snowflake.** An id is its timestamp and sequence; the shifts keep different
  pairs different. `sequence` is kept at `SeqLimit` once there: from then on
  the code only compares it. The clock is `time.Now`, which may go back.

## 3. Runs

| run | instance | shows |
|---|---|---|
| `store` | databases by region, tables by shop, 3 values per column, 6 entities, 7 queries, 3 contexts | every row lies where its columns route it (`Placement`), and an accepted query sees all it describes (`RoutedReadsComplete`) under all sequences of calls; `ImplementsLogicalTable`: no call loses, doubles or alters a row it did not name |
| `scan` | 2 tables, 3 ids, with and without the id selected, batch sizes 0, 1, 2, limits none and 1, 2 writes; 1.6 million states | `NoRowLost`, `NoRowInvented`, `NoGoroutineLeft`, and under fairness `CallEnds` |
| `expr` | 14 rules (those of the sharding guide and variations: ranges not from 0, hashes, enums, two declarations, cycles, division by zero, unknown functions), every order of their lines, 15 rows | `SortedOrRefused`: the sort finds an order whenever there is one, and refuses otherwise; `ResolvesAsWritten`: names are what the lines say without any order; `EnumeratedOrRefused` |
| `transactions` | 2 clients, 2 groups, 2 shards, 3 entity types, 3 keys (one that leads nowhere), pools of 1, 2 transactions, 3 statements | `AllOrNothing`, `WrittenWhereRouted`, `ImplementsAtomicWrites`, and under fairness `TransactionEnds` |
| `consumer` | 2 consumers, one without a DLQ topic, batch 2, 1 retry, 2 messages, 1 failed send, 1 revocation, fairness; 1.8 million states | `RetriesBeforeDLQ` (and no retry twice while no owner lost its partition), `ImplementsGroupOffset` (nothing after the start of the group is passed that is not accounted for), and `Drained`: the group's offset reaches the end of the log for good |
| `manual_consumer` | 2 consumers, one that closes, 2 messages, a channel for 1, 2 rebalances or crashes, 1 failure, fairness; 0.9 million states | `ImplementsGroupOffset` (nothing after the start of the group is passed that nobody handled), `AllHandled`, `CloseReturns` |
| `producer` | 2 callers, 2 calls of `Close`, batches of up to 2, room for 1, 3 messages, fairness | `NoSendOnClosedInput`, `TrueResults`, `Answered`, `CloseReturns` |
| `cache` | 2 clients, 2 data, a counter, a token, 2 versions, deltas -1, 0 and 1, calls up to weight 6, 1 failure or crash; on either backend | `OwnValues`, `FilledOrRemoved`, `NothingOlderThanDelete`, `ForeverOnlyAsAsked`; `ExclusiveAnswers` on Redis |
| `http_client` | 2 goroutines, `WithRetry` of -1 and 1, 2 builder calls, 2 requests | `OwnRequest`, `SameEachAttempt`, `TrueResult`, `NoBodyLeft` |
| `limiter` | 2 keys, rate 2, window 1, clock to 5 | `TwiceRatePerWindow`, and `ImplementsQuota`: the limiter refines `RequestQuota` |
| `snowflake` | 2 goroutines, 3 sequence numbers, clock 1..3, 4 ids | `Increasing` while one goroutine calls, `OneOpener` |
| `snowflake_race` | the same | violation of `Unique` |

Why the bounds are enough. Two tables show every confusion between tables
that a third could; three values per column give two that share a table and
one that does not, and a region without a database. Three ids with pages of 1
and 2 give a first, middle and last page and a page that is full at the end of
its table; with two writes a row can be inserted behind and removed before the
cursor. One failed send and one revocation at any step already give two
handlers on the same records, a retry published twice and a message on its
last retry; batches of two have a neighbour that did not fail. A revocation
before the first commit starts the group anew, one after it does not; the
second rebalance of `manual_consumer` lets both happen. Rate 2 with
window 1 gives a visitor at, below and above its limit and windows that touch.
Three sequence numbers run out within four ids.
Three lines that read each other have every shape of dependency (chain, fork,
join, cycle, none), and all of their orders are initial states. Three
statements are two of one transaction and one of another writer; a pool of one
is the smallest and the only one where a second connection cannot be had.
A channel for one message with two messages on their way has one in the
channel, one in the worker and one in the claim's hand, of two sessions. Two
closers and room for one message let a caller block with the lock while one
`Close` waits and the other returns at once. A weight of 6 admits two calls
on data that overlap, or three on a token; two data and a loader that leaves
results out shift every result by one. Deltas of 1 and -1 bring a counter
back to a number it has had. Two builder calls are two settings of
one request or one of each of two; one retry gives a first, a last and an only
attempt.

Fairness. `ScatterGather`: goroutines are scheduled, a ready `g.Go` and
`g.Wait` go on, statements return with rows or, under a cancelled context,
an error; calling, cancelling, writing and failing are optional.
One weak fairness over all of these is enough, since a call has finitely many
of them to take.
`Transactions`: the function of a transaction returns, and a statement that has
its connection, or whose transaction is over, returns; beginning, writing,
failing and cancelling are optional. Nothing is assumed of a statement that
waits for a connection: `TransactionEnds` is that none does, as long as the
functions use stores made `WithTx` (`PlainInside` is `FALSE`).
`AdvancedConsumer`: processors and sends return, the auto-commit timer fires,
the group assigns a free partition, an expelled handler returns; failures,
crashes and new messages are optional. `ManualConsumer`: the group assigns a
free partition, goroutines run, processors and sends return; rebalances,
crashes, failures, new messages and the call of `Close` are optional. For each
of the two consumers this is again one weak fairness: something is done as long
as anything can be. `Producer`: goroutines run, the broker answers, callbacks
return; nobody has to produce or to close, and nothing is assumed of `Swallow`.
All is weak fairness of actions of the code. `Caches` and `HttpClient` are
checked for safety only.

Deadlock is checked except where the system really stops: in `consumer` and
`manual_consumer` when everything is committed or closed, in `producer` when all
is produced and closed, in `cache` and `http_client` when the calls are used up,
in `expr` when a rule is rejected, in `transactions` when its bounds are used
up and all is answered. That nobody waits for ever there is what the liveness
properties say.

### Where code and documents differ

`snowflake_race` is the finding of `PROJECT.json`: ids drawn by racing
goroutines may be equal. The following differences are built into the models
and their assumptions:

* a batch goes to the table of its first entity
  (`sharding_table_store.go:755`), while `db/docs/sharding_guide.md:817` names
  the entity's fields as a source of `BatchCreate` and `:823` says that the
  values of all sources are checked for the same shard: `Disciplined`, and
  the batches of `store` share a table;
* `IN` lists over several sharding columns are compared with the first target
  one value at a time (`:275`); `sharding_guide.md:495` says that all values
  are checked to lead to one physical target, which fails when a rule combines
  columns: `Rectangular`;
* the id of an entity with an embedded struct is not found by
  `extractFieldValue` (`:930`), so that a page of `FindAll` is fetched for
  ever, although `db/dbspi/spi.go:116` sets no such condition: `IdExtractable`;
* a `Select` without the id column makes `FindAll` read its first page twice
  (`sharding_table_store.go:912`, `:931`), although `db/dbspi/spi.go:116` sets
  no such condition: stated inside `NoRowInvented`;
* `IsNull` is extracted as the value nil (`gorm.go:132`, `:424`), which the
  rules refuse, while `sharding_guide.md:830` says that it is not extracted;
* a group without a committed offset starts at the end of the partition, anew
  with each owner. No document of `mq` says where it starts, so this is no
  disagreement; it is where the promises of both consumers begin;
* an inferred identity computation (`autoInferIdentityComputes`) is appended
  behind the sorted ones, so a database rule one of whose lines reads the
  inferred variable resolves no row, although `expr/expand.go:51` says that
  computations are sorted by their dependencies: stated inside
  `ResolvesAsWritten`;
* `cachespi/spi.go:41` says that `GetAndDelete` is atomic; Ristretto's
  `SetNX`, `GetAndDelete` and `Incr` look and write in two steps, and two callers
  may both win: `ExclusiveAnswers` is stated for Redis, and of `Incr` it says
  that a number is given once while the counter counts up;
* in Redis, a `GetMany` with no keys is an error and a `LoadMany` with none is
  not;
* `Produce` may panic when a `Close` runs to its end behind its look at the
  closed flag, and `Close` may take results away from callbacks: `SendPanics`,
  and the exception in `Answered`. The second of two `Close` calls returns
  while the first still drains;
* `BodyJSON` followed by `BodyForm` sends JSON under the form's content type:
  `SameEachAttempt` asks for the right type where the body was set in one way;
* the context of an attempt is cancelled (`client.go:369`) before the body is
  decoded, so a decoding may fail for a body that had not arrived yet: one of
  the reasons in `Decode`.

## 4. Proofs

| module | theorem | argument |
|---|---|---|
| `Sharding_proofs`: `ShardedStore` | `TypeCorrect` | inductive as it stands; each statement keeps ids unique in its table |
| | `PlacementCorrect` | strengthened by: the row a client is about to insert belongs to the table it remembers. Needs `Disciplined`: no updater writes a sharding column, a batch shares a table, an id that is a sharding column is set by the caller |
| | `RoutedReadsCorrect` | from `Placement`, for `Restrictive` queries (an OR chooses between values of one column) and `Rectangular` rules (the keys of a target form a box): without them a row may lie in a table the query is not sent to |
| | `ShardingIsTransparent` | refinement of `LogicalTable`, under the hypotheses of `PlacementCorrect` and from its invariant: as every row is at home, writing one table leaves the rows of every other place alone (`PutRows`), and what a statement selects in its table is what its condition describes at that place (`SelectsAt`); no update moves a row or changes its id. It also says that home and id name one row of the whole store |
| `Sharding_proofs`: `ScatterGather` | `ScanTypeCorrect`, `NoRowIsLost`, `NoRowIsInvented`, `NoGoroutineIsLeft` | `ScanInv`: while a goroutine reads, the rows it has are those up to its cursor; when it is done it has all stable rows; a call that is over has no reader. For a query without the id it counts copies: a goroutine that reads on has at most one of each row its cursor has not passed again, and two of the others |
| `Sharding_proofs`: `TopoSort` | `SortInvariant`, `SortIsRight` | `SortInv`: what is taken or queued is so once, exactly the computations whose in-degree is 0; the in-degree counts what a computation waits for that was not taken; what is taken stands behind all it waits for. All taken is an order; if some were not, the first of them in any order would wait for taken ones only, have in-degree 0 and be queued, but the queue is empty |
| `AdvancedConsumer_proofs` | `TypeCorrect`, `NoRecordLostSilently`, `RetriesComeFirst` | `LossInv`: every record between the start of the group and a mark is accounted for, and so is every record of a batch the failure loop has passed; the log only grows, so what is accounted for stays so. `RetriesComeFirst` adds `OnceInv`: while no ownership was taken away one consumer did all the work, every retry in the log is that of a record it has passed, and so a record it comes to has no retry yet |
| | `AdvancedImplementsGroupOffset` | `OwnerInv`: the offset is at most what its owner was given or marked. Only `Join` makes an owner and only the owner commits, so the offset never goes back, whatever expelled handlers go on doing. A `Join` before the first commit is a `Start`. `NoSilentLoss` is what this promise says of one state, so no run checks it by itself |
| `Http_proofs`: `RateLimiter` | `LimiterTypeCorrect`, `LimiterImplementsQuota` | each step maps to one of `RequestQuota`, `cleanup` to a stutter |
| | `AtMostTwiceTheRate` | `WindowInv`: among the `Rate` requests that follow a request one has opened a window; those before it are earlier, and `Rate` requests after it its window is over. So `2 * Rate + 1` requests in a row span more than a window |
| `Http_proofs`: `HttpClient` | `HttpClientInvariant`, `EveryRequestItsOwn`, `EveryAttemptTheSame`, `EveryResultTrue`, `EveryBodyClosed` | `HttpInv`: a derived client's header map is one no other client refers to; fields and headers carry marks of their own call or of the shared client; every attempt on the way is the request as it was built; attempts and outcomes agree place by place; a body is open exactly while its answer is in use. `OwnRequest` alone is not inductive: it says nothing of the clients whose requests are still to be built |
| `Transactions_proofs` | `TypeCorrect`, `AllOrNothingCorrect`, `WrittenWhereRoutedCorrect` | `TxInv`: rows carry the number of the transaction that wrote them; an open transaction has its own number, none of its rows is in a database, and its connection's work is all it wrote while it is live; every pending statement is routed as the manager's entry would route it (`BoundDestination`: what the bound rule accepts, the unbound one sends to the same target). `AllOrNothing` alone is not inductive: a later `COMMIT` could bring rows of a transaction that has ended |
| | `TransactionsImplementAtomicWrites` | refinement of `AtomicWrites`; `TxInv` says that the rows of a transaction lie in the one database it was opened on, so a `COMMIT` applies what the client wrote, all of it, and a row that runs is one nobody else has written |
| `Snowflake_proofs` | `TypesAreCorrect`, `SingleGoroutineIncreasing` | every issued id is below the pair of the atomics, or the goroutine is between its swap and its reset |
| | `OneOpenerPerMillisecond` | `OpenInv`: the goroutine between its swap and its reset is the one whose swap set the present time or one before it, and swaps only raise it: two openers have different times |
| `Producer_proofs` | `TypeCorrect`, `NobodySendsOnClosedInput` | `LockInv`: whoever is between the flag and `Input()` holds the read lock, and a `Close` behind the write lock has seen none of them, while newcomers see the flag |
| | `ResultsAreTrue` | `FreshInv` and `ResultInv`: messages belong to one call and are new to sarama until `Input()` takes them; the callbacks of a message are determined by its fate; the topic has of a batch what was sent without error and at most the message that is being sent |
| `ManualConsumer_proofs` | `TypeCorrect`, `NothingIsSkipped` | worker, channel and hand of a member hold ever later messages of its session (`InOrder`), and every message the session delivered since the start of the group was handled or is with one of them (`Covered`): so a message that is confirmed has only handled ones below it. Entries of earlier sessions carry a smaller number and mark nothing |
| | `ManualImplementsGroupOffset` | the same invariant and its own `OwnerInv`: the owner's session has marked at least what the group has committed, so the `Confirm` that commits never goes back; one that outlives its session commits nothing. A session that starts before the first commit is a `Start`. `NothingSkipped` is again what the promise says of one state |
| `Caches_proofs` | `CacheInvariant`, `EveryValueOwn`, `EveryReceiverFilledOrRemoved`, `NothingOlderAfterDelete`, `ForeverWasAskedFor`, `AnswersAreExclusive` | `CacheInv`, for either backend: of every call, the keys its loops are done with are the keys whose receivers are filled, and a result at a place belongs to the key at that place and is no older than the last Delete its fill does not overlap, and so is an argument of `Set` and `SetMany` that is still to be stored (`TaskOK`); an entry is a value of its key and no older than that Delete (`EntriesFresh`); on Redis a token that was handed out cannot be handed out again, and since its last `Incr` that did not count up a counter is at least the numbers it gave (`Exclusive`) |

`RateLimiter` and `HttpClient`, and `ShardedStore`, `ScatterGather` and
`TopoSort`, share a proof module but no variable: each has its own
specification, and no theorem is about two of them.

The type invariants are theorems (`TypeCorrect` and its like), the base of the
invariants above them; of the runs only `snowflake` checks one on its own.

The assumptions are the named `ASSUME`s of the modules, on the shape of the
constants; they put no bound on the number of tables, ids, consumers, keys,
goroutines, computations or writes. `CacheAssumption` has finitely many data,
since the order in which a call meets its missing keys is a list of them.

Only model-checked: the liveness properties `CallEnds`, `Drained`,
`TransactionEnds`, `AllHandled`, `Answered` and both `CloseReturns` (fairness is
out of the prover's reach); `ResolvesAsWritten` and `EnumeratedOrRefused` of
`ExprRules`, because `Nodes`, `Eval` and `Meaning` recurse over syntax trees, and
facts about recursive operators need an induction the installed provers cannot
do: that is why the sort is a module of its own. `Unique` is refuted.

## 5. Not modelled

`PROJECT.json` says for each component why. In short: rendering of SQL, DSNs,
connections and text parsing are data or I/O; auto-fill, facades, options and
stateless utilities have no order of events to get wrong. `syncutil` and `retry`
wrap the standard library and nothing in the repository calls them. Of the
modelled components: `Raw`, `Exec` and `Shard(key)` run what the caller wrote;
reads inside a transaction and `Manager`'s start-up; `Check` of the message
clients and `Ping` of the caches ask a server and change nothing; several
workers on one manual consumer, callbacks that use the producer, and several
kinds of value under one cache key are uses the documents do not show.

## 6. Plan

1. *Done*: routing and CRUD, scatter-gather, advanced consumer, rate limiter,
   ids, transactions, expression rules; manual consumer, producer, caches, HTTP
   client.
2. *Done*: proofs of every safety property of these but two of `ExprRules`,
   and of all five refinements. Next: the single-key calls of `RedisCache` as
   an implementation of an atomic map.
3. Models: a composition that gives `ShardedStore` the function an `ExprRules`
   rule computes; `FindAll` over the bound entry of a transaction; entities
   whose generated id is their sharding column.
