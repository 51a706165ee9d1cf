# Verification of city-picks

TLA+ specifications of city-picks, a Go backend for local shops: flash sales
of vouchers through Redis and a Redis stream, a cache of shops in front of
MySQL, logins with a verification code, the data access code they share, and the
process around them, from `main()` to its exit. The specifications are checked
with TLC on small instances; all of their safety properties are proved with
TLAPS for every value of the constants, the refinements included. File and line references are to the
repository beside this directory (`src/`).

## 1. The system

Every process of the program (a *server* below) runs a gin HTTP server and one
consumer goroutine. Servers share one MySQL and one Redis; nothing a server has in
memory survives it unless it has been written to one of these.

| Part | Source | State it keeps | Operations |
|---|---|---|---|
| Voucher service | `internal/handler/voucher.go`, `internal/service/voucher.go`, `internal/repository/voucher_repo.go` | rows of `tb_voucher`, `tb_seckill_voucher` (MySQL); `seckill:stock:v` (Redis, no TTL) | create an ordinary or a seckill voucher; buy a seckill voucher |
| Seckill script | `internal/service/seckill_lua.go` | `seckill:stock:v`, the set `seckill:order:v`, `stream:orders` | check stock and buyer, decrement, remember the buyer, enqueue the order: one atomic script |
| Order id generator | `pkg/sonyflake/sonyflake.go` | its last id, per process | `NextID`; every process has machine id 1 |
| Message queue | `internal/repository/message_queue.go` | `stream:orders`, the group `group:orders` with its position and pending list, `stream:orders:dead` | XADD, XGROUP CREATE, XREADGROUP, XACK |
| Order consumer | `internal/mq/order_consumer.go` | the message in hand | create the group; read one message; insert the order and decrement the stock in one transaction; requeue with a higher `retry_count`; move to the dead letters; acknowledge |
| Shop service | `internal/service/shop.go`, `internal/repository/shop_repo.go` | `tb_shop`; `cache:shop:i` with a TTL (two hours, ten minutes for a shop that does not exist); the singleflight group of the process | read through the cache; create; update or delete, then delete the key |
| Shop types | same | `tb_shop_type`; the list `cache:shopType:` without a TTL | read the list, or read the table and append it |
| Generated data access | `dal/query`, `dal/model` | per query, the objects of its tables, each bound to a pool or to a transaction's connection | builders (`WithContext`, `Where`, `Omit`, ...), `Create`, `Updates`, `Delete`, `Transaction` |
| Adapters | `internal/adapter/persistent/mysql.go`, `internal/adapter/cache/redis.go` | the pool of connections of MySQL, the Redis client | open, ping, close |
| Configuration | `internal/config/config.go` | viper's last parse; the global options | read the file, watch it, replace the options |
| Router, response codes | `internal/router/router.go`, `pkg/code` | the table of routes; the registered codes with their status | answer |
| JWT | `internal/middleware/jwt.go` | none | make a token from the global options |
| Logger | `pkg/logger/slog.go` | the level | set it |
| Process | `cmd/main.go`, `cmd/wire.go` | the clients that are open, the goroutines, `err` | start, serve, shut down, clean up |
| User service | `internal/handler/login.go`, `internal/service/user.go` | `tb_user` (unique phone); `phone:p` with a TTL of five minutes | make a code; log in with a code or a password |

How the parts interact. A purchase goes from the HTTP handler through the
script into Redis; the user is answered with an order id there and then. The
script's XADD is the only link to the consumer, of whichever server, which
later writes the order and MySQL's stock. The stock is therefore kept twice,
by different processes at different times. The voucher's creation links them
in the other direction: the transaction first, then a SET of the stock in
Redis, in the same request. The shop and user services touch neither. All of
them reach MySQL through the generated objects and one pool of connections per
process, so requests and the consumer of a process wait for each other's
connections, and workers of any process for each other's row locks. All are started
and stopped by `main()`; a login also reads the options, which the watcher of the
configuration file replaces.

What is hard about it: two copies of every stock; requests and consumers of
several servers interleaving on Redis and MySQL; commands that fail before or
after they are executed, and that go-redis sends again (`MaxRetries` is left at
its default in `internal/adapter/cache/redis.go`); transactions that commit
while the client sees an error; crashes between any two commands; entries that
stay pending; a cache filled by a reader that a writer has overtaken; transactions
whose statements must all go through one connection; options replaced while they
are read; a shutdown that races with its own goroutines. The `hazards` of
`PROJECT.json` list each at its line.

## 2. The modules

| Module | What it is |
|---|---|
| `SeckillScript` | the Lua script and the stream commands as pure operators |
| `Seckill` | voucher service, queue, consumers and processes composed |
| `FlashSale` | the abstract sale: open, reserve, fulfil |
| `VoucherStore` | the abstract store of vouchers and orders: what the sale asks of MySQL |
| `SeckillRefinement` | the refinement mappings from `Seckill` to `FlashSale` and to `VoucherStore` |
| `ShopCache` | shops, their cache and the singleflight of each server |
| `ShopTypes` | the list of shop types and its cache |
| `Login` | verification codes, users and logins |
| `Tables` | the tables as the generated code has them, and which INSERTs MySQL refuses |
| `DataAccess` | the repository methods as statements; transactions, connections, row locks |
| `DataAccessRefinement` | the refinement mapping from `DataAccess` to `VoucherStore` |
| `Responses` | codes, statuses, routes |
| `Server` | one process: configuration, `InitApp`, goroutines, a login, shutdown |
| `SeckillProofs`, `SeckillStockProofs`, `SeckillQueueProofs` | theorems about the sale: users; stocks and the refinements; the queue and the ids |
| `LoginProofs`, `ShopCacheProofs`, `ShopTypesProofs`, `DataAccessProofs`, `ServerProofs` | theorems about the modules they are named after, `DataAccessProofs` about the refinement too |
| `MC...` | instances for TLC: sets of faults by name, symmetry |

`VoucherStore` is where the sale and the data access meet. To `Seckill` a
transaction is one step, to `DataAccess` it is Begin, statements and COMMIT on a
connection that may break; both implement `VoucherStore`, on the same tables. What
`Seckill` takes for granted of a transaction is so what `DataAccess` shows of it.
`Server` takes a login as one step that succeeds or is answered with a code of
its route; `Login` says which. Its crash in `Seckill` is what the end of `Server` is to
the consumer.

In `Seckill`, `ShopCache`, `ShopTypes` and `Login` one step is one command to Redis or
one transaction of MySQL together with the code up to the next one, because these are the only points
where processes meet. A script, a MULTI/EXEC and a transaction are one step.
Go code between two of them reads and writes only the memory of its request.
In `DataAccess` a step is a statement, in `Server` a read or write of what goroutines
share.

**Faults.** The constant `FaultKinds` says what may go wrong in a model, so that
a property is stated together with the faults it survives:

| Fault | Meaning |
|---|---|
| `refused` | a Redis command is not executed, the client gets an error |
| `replyLost` | it is executed, the client gets an error |
| `resent` | it is executed, the reply is lost, go-redis sends it again |
| `dbFailed` | a MySQL statement or transaction has no effect, the client gets an error |
| `commitLost` | it is committed, the client gets an error |
| `crash` | the process stops between two steps (in `Login` and `ShopTypes` also: the client goes away) |
| `failed` | (`DataAccess`) a statement is an error and changes nothing: a lock wait timed out, the request was cancelled |
| `connLost` | (`DataAccess`) a connection breaks and MySQL rolls its transaction back |

`Server` has no such constant: constructors, `Bind` and the consumer may fail, handlers may
hang, signals may come and the file may be saved in any form at any time.

**Slips.** A definition whose comment begins "Slip:" is a form of the next
definition with a bug someone might plausibly write. No specification uses
it; each shows that some property would notice the bug.

### 2.1 Seckill

| Variables | In the system |
|---|---|
| `kind`, `dbStock`, `orders` | MySQL: which rows voucher `v` has, `tb_seckill_voucher.stock`, `tb_voucher_order` |
| `cacheStock`, `buyers` | Redis: `seckill:stock:v` (or no key), `seckill:order:v` |
| `stream`, `group`, `delivered`, `pel`, `dead` | Redis: the stream, whether the group exists, its position, its pending list, the dead letters by `original_id` |
| `listed`, `caching` | memory of the creating request: the stock it lists, and the server that still has to SET it |
| `issued`, `calls` | memory: ids each generator has issued, purchases whose script has not been answered |
| `replies` | what purchases were answered |
| `consumer` | each server's consumer: where it is, and the message in hand |

| Action | Code |
|---|---|
| `CreateOrdinaryVoucher`, `CreateSeckillVoucher` | the transaction of `CreateVoucher` |
| `SetVoucherStockCache` | the SET that follows it |
| `SeckillVoucher` | `NextID` of sonyflake; the call is about to run the script |
| `ExecScript` | EVAL and the answer (`RunScript`, `ScriptResult`, `Reply`) |
| `CreateGroup` | `Start`: XGROUP CREATE from "0"; BUSYGROUP is fine, another error panics, which stops the process |
| `ReadPendingMessages` | XREADGROUP COUNT 1 of ">" |
| `HandleOrderMsg` | the attempt: the transaction of `CreateVoucherOrderAndReduceStock` |
| `RequeueMessage` | XADD of the entry with `retry_count + 1` |
| `MoveToDLQ` | XADD to the dead letters, for an entry whose `retry_count` has reached `maxRetries` |
| `Ack` | XACK as the code sends it, group and id exchanged |
| `Crash`, `Restart` | the process |

An entry is named by its position in the stream instead of by the id Redis
generates; the stream is never trimmed in the code. All consumers call
themselves "consumer-1" and the code uses the name for nothing else, so the
model has one pending list. The handler takes voucher and user ids from the
request (the JWT middleware is commented out), so `SeckillVoucher` takes any user
and any voucher, those that were never created included.

The reply of `ExecScript` is lost in a crash: the call then disappears without an
entry in `replies`.

### 2.2 ShopCache

A row is known by its version: `history[i][k]` says whether shop `i` has a row in
version `k`. `cache[i]` is the version that the key holds, 0 for none. A negative
entry is a version without a row. `flight` is the singleflight of each server,
`reader` and `writer` the requests. `excuse` is a history variable: what may have
made the present entry stale. `GetShopCache`, `JoinFlight`, `QueryShop`, `FillCache`,
`LandFlight` are the steps of `GetShopByID`; `CreateShop`, `ChangeShop` (update or
delete) and `DeleteShopCache` those of the writes; `Expire` is the TTL.

### 2.3 ShopTypes

`cached` is the Redis list itself, `request` each request with the answer it was
last given. `failures` counts failed Redis commands, so that `CopiesBounded` can
charge each surplus copy of the table to its cause.

### 2.4 Login

`issues[p]` is the sequence of codes made for a phone, `stored[p]` which of them the
key holds. Two issues may draw the same code. `users` is `tb_user`, with its unique
key in the guard of `CreateUser`. `answers` are the logins that got a token, with the
issue they used. A failed comparison leaves no trace and is not a step.

### 2.5 Tables and DataAccess

`Tables` has the fields and columns of every data access object (`dal/query`) and of
every model's tags what tells gorm which columns an INSERT names. A value is the set of
its columns that are not zero.

| Variables of `DataAccess` | In the system |
|---|---|
| `db` | MySQL: the committed rows, named by table and unique key |
| `image`, `lock`, `session` | MySQL: what a connection's transaction has written, who holds a row, the state of a connection |
| `assigned` | MySQL: the AUTO_INCREMENT ids of vouchers |
| `worker` | each goroutine: its job, the statement it is at, its connection, its query |
| `answered` | who has just been answered without an error |

`CreateSeckillVoucher`, `CreateVoucherOrderAndReduceStock` and so on are the sequences of
statements the methods of those names make of a query; `Program` chooses one.
`Clone` is what `Transaction` hands to its callback. A worker goes through `Submit`,
`Begin`, `Execute` (or `Fail`) per statement, `Commit` or `Rollback`. A method that is one
statement is `ExecuteAlone`, gorm's own transaction around it; the same action shows
what a statement of an object that was not cloned would do. Reads, and the INSERT of a
user, are in `Login` and the caches and not here: each is one statement, and no transaction
contains one.

### 2.6 Responses and Server

`Responses` is the table of registered codes, what `WriteResponse` makes of one, and the
codes each handler gives. `Server` has a variable for each thing that goroutines share:
the file, viper's parse of it, `options`, the level, `clients`, `err`; and a program
counter per goroutine. `snapshot` are the options `NewOptions` returned, which the
constructors use while requests read the globals. The file is known by its version
and its form: whole, empty (truncated before it is written), broken, of a wrong type,
or gone (which stops the watcher, at the latest when its callback is through; the model
stops it at once). A read of `err` after an assignment gives what was assigned or what the
other goroutine has left there meanwhile (`Read`): nothing orders the two. The condition of
`main.go:34` reads `err` twice, and each read is a step: `CheckListen` (`err != nil`) and
`CheckServerClosed` (`errors.Is`).

## 3. What is checked

`CHECK_DEADLOCK` is off in every run: the environment need not ask for anything,
and ids, versions and codes are bounded, so a state where all is done has no
successor.

| Run | Faults | Properties | Shows |
|---|---|---|---|
| `SeckillSale` | refused, replyLost, dbFailed, crash | `TypeOK`, `StockReconciles`, `AttemptsInOrder`, `DeadLetterUnfulfilled`, `PromiseDeliverable`, `ImplementsFlashSale`, `ImplementsVoucherStore` | the sale of two vouchers by one server, one voucher possibly listed with 0 |
| `SeckillResent` | all | `OneOrderPerUser`, `AnswerHonoured`, `DbNeverOversold` | what survives every fault, a SET or XADD executed twice included |
| `SeckillCluster` | dbFailed, commitLost | `ReservationTracked`, `ReservationSettled` | two servers, one order id between them: their consumers compete and their ids collide |
| `ShopCache` | refused, dbFailed, commitLost, crash | `TypeOK`, `StaleExplained`, `FlightHasLeader`, `ReadAnswered`, `EventuallyFresh` | two servers, two readers, two writers |
| `ShopTypes` | refused, resent, dbFailed, crash | `TypeOK`, `AnswersWhole`, `CopiesBounded` | three concurrent requests |
| `LoginCodes` | all | `TypeOK`, `OneAccountPerPhone`, `SpentCodeRefused` | three concurrent logins |
| `DataAccess` | failed, commitLost, connLost, crash | `TypeOK`, `VoucherHasItsStock`, `NothingLeftBehind`, `NoCircle`, `InsertsAccepted`, `ImplementsVoucherStore`, `AnsweredIsStored`, `CallsEnd` | a handler and a consumer that share the one connection of their process, and the consumer of another process |
| `Server` | all of its own | `TypeOK`, `TokenCurrent`, `DrainedBeforeClose`, `NoHandlerCutOff`, `EditTakesEffect`, `StopCompletes` | one process from start to exit, a login, a file saved twice |

The properties, in words:

- `OneOrderPerUser`: at most one row of `tb_voucher_order` per user and voucher. No
  table enforces it; it rests on the Redis set.
- `AnswerHonoured`: a user is told at most once that a voucher is his, and his row
  has the id he was told.
- `DbNeverOversold`: orders plus MySQL's stock are what was listed, and no order
  takes the stock below zero.
- `StockReconciles`: the stock in Redis, plus the reservations without an order, is
  the stock in MySQL.
- `AttemptsInOrder`: copies of a message are attempts in increasing order, at most
  `MaxRetries + 1`.
- `DeadLetterUnfulfilled`: a dead letter is an order that was not made. It is false
  under `commitLost`: the retries of a committed order all fail on the primary key
  and end as a dead letter (so is `AttemptsInOrder` under `resent`).
- `ReservationTracked`: a reservation without an order is ahead in the stream, in a
  consumer's hands or a dead letter. It needs Redis not to fail the consumer: with a
  crash, a lost reply or a refused XADD an entry is left pending for good.
- `PromiseDeliverable`: as long as its user has no order, the transaction of any entry of
  the stream finds a unit of stock and a free id. So the consumer fails for what MySQL
  does and never for what Redis promised. Two servers with one machine id break it.
- `ReservationSettled`: a reservation leads to an order or a dead letter.
- `ImplementsVoucherStore` (of `Seckill` and of `DataAccess`): MySQL sees vouchers created
  once, with their stock, and orders that each take a unit; nothing by halves.
- `StaleExplained`: a stale entry of the shop cache was filled by an overtaken
  reader, or its DEL failed, was never sent or is still to come, or it says "no such
  shop" of a shop created since.
- `ReadAnswered`: a read of a shop comes to an answer, as long as its process runs.
- `FlightHasLeader`: per server and shop at most one reader queries MySQL or fills
  the cache, and whoever waits waits for one that exists.
- `EventuallyFresh`: after the last write, the cache comes to agree with MySQL.
- `AnswersWhole`: no client is given part of the list of types, or its rows out of
  order (repeated whole, it may be).
- `CopiesBounded`: the list has at most one copy per concurrent request and one per
  failure of Redis. One failed LRANGE is enough for a copy that stays.
- `OneAccountPerPhone`: all tokens for one phone carry one user id.
- `SpentCodeRefused`: a code that an existing user's login was answered with is not
  accepted again.

- `VoucherHasItsStock`: a voucher has type 1 if and only if it has a row of stock.
- `NothingLeftBehind`: a session that is not idle has one worker in a transaction, and a
  row lock an open session: no path of the code keeps a connection or a lock.
- `NoCircle`: workers do not wait for each other in a circle, of connections, of rows or
  of both. `CallsEnd` cannot see a circle of row locks where statements may fail (a lock
  wait that times out ends it); this can.
- `InsertsAccepted`: no INSERT of the repositories has a zero time or lacks its key.
- `AnsweredIsStored`: who is answered without an error finds the order in MySQL.
- `CallsEnd`: no worker waits for ever for a connection or for a row.
- `TokenCurrent`: the fields of a token were in force since the request came, and the
  secret is not older than the claims. That all are of one version does not hold: a reload
  may fall between their reads.
- `DrainedBeforeClose`: the clients are not closed under a handler unless `Shutdown` gave up
  after five seconds.
- `NoHandlerCutOff`: a process that ends of itself, by `main()` or by `os.Exit`, cuts no
  handler off unless `Shutdown` gave up. This is what the race on `err` cannot break: while
  `Shutdown` waits, both reads of the listener give `ErrServerClosed`. What it can break is the
  cleanup. When `main()` assigns nil between the two reads, `errors.Is` is false and `os.Exit(1)`
  leaves both clients open, although `Shutdown` was in time; and `main()` may read
  `ErrServerClosed` back and panic, though its cleanup still runs. So neither "a shutdown in time
  closes the clients" nor "it exits with 0" holds of this code, and neither is claimed.
- `EditTakesEffect`: a whole file, saved once the logger is set up, comes into force.
- `StopCompletes`: a shutdown ends although handlers may hang.

### Where the code does not do what its comments say

| Run | Property | |
|---|---|---|
| `SeckillAck` | `AckTakesOffPending` | `message_queue.go:70` passes the message id where XACK takes the group. Redis answers 0 without an error; the pending list keeps every message. |
| `SeckillUnacked` | `UnackedIsClaimed` | `order_consumer.go:171` leaves a message unacknowledged so that another consumer claims it; no consumer claims. |
| `SeckillIds` | `OrderIDsUnique` | every node has machine id 1 (`sonyflake.go:21`): two servers tell two users the same order id. |
| `LoginReuse` | `CodeUsedOnce` | `user.go:84` deletes the code "to prevent it from being used again"; the branch of a new user returns before it. |

### Bounds

- *Two users, at most two vouchers.* Every guard of the sale compares one user
  with the set of buyers, or one voucher with its own rows: two users show a
  stranger, a repetition and the last unit being contested. Stocks 0, 1 and 2 are
  sold out at once, after one and never.
- *Order ids* (`OrderIDs`): one per purchase, so they bound the purchases of a
  server. Two let two users compete, or one come back after a refusal or a lost answer.
  One id and two servers is the smallest case of a collision.
- *`MaxRetries`* is 3 in the code. 1 and 2 reach every branch (first attempt,
  a retry that succeeds, a retry that fails, dead letter); the theorems have any.
- *`MaxStream`* bounds only the XADD that is sent again. Without it, the length of
  the stream is bounded by ids and retries.
- *Two servers* where servers compete: consumers for the stream, generators for ids,
  singleflights for a row.
- *`MaxVersion`* 3: an entry can be one or two versions behind, and a shop can exist,
  not exist and exist again.
- *`MaxIssues`* 2: an old code, a new one, and the DEL of the first reaching the
  second. *`MaxFailures`* 2 with three requests: the bound of `CopiesBounded` is met.
- `DataAccess` has three workers and two connections: two workers of one process with one
  connection wait for it, the third waits for their row locks. It has one voucher: the
  statements of an order lock the row of the stock, then that of the order, whichever
  voucher it is, so no circle of locks needs a second one. Two order ids and one stock of 1
  contest the last unit and the primary key. Larger instances cost the liveness check too
  much; the theorems have any number of workers and connections.
- `Server` has one login, because logins share nothing but what a reload replaces, and
  *`MaxEdits`* 2: a file saved again while the first is being read, in any two forms.
- Symmetry (users and ids) is used in `SeckillResent` only, whose properties are
  invariants and whose specification tells none of these values apart.

### Fairness

`Seckill` assumes weak fairness of each consumer, of each running purchase and of
each SET that is due: a goroutine that can run runs, the consumer loops without end
and handlers have no lock to wait for. It assumes none for requests, crashes and
restarts, and no strong fairness: a transaction may fail every time, which is why a
reservation is only settled, not fulfilled, when the database may fail.
`ShopCache` assumes it of each read, of each DEL that is due and of the TTL, which
every key has. `LandFlight` belongs to the read of its leader: a follower's answer
depends on the leader's progress, as in singleflight.
`DataAccess` assumes strong fairness of each worker: one that waits for a connection or a
row, which comes and goes, gets it in the end. InnoDB grants the locks of a row to those who
queue for it, and `database/sql` hands a connection that is returned to one of those who wait;
neither promises a strict order, but both leave nobody out for ever (`database/sql` with
probability one, where it picks a waiter at random).
`Server` assumes weak fairness of `main()` and of the watcher only. No handler is assumed to
end: `StopCompletes` rests on the five seconds alone, which are the second disjunct of
`Shutdown`.

## 4. What is proved

The theorems hold for any sets of users, vouchers, servers, ids, phones, shops, requests,
workers and connections, any stocks, bounds, tables of shop types and lengths of the
stream. They assume of the
constants what the modules declare as named ASSUMEs: that a stock is an integer, a bound a
natural number, that the value for "nobody" or "no key" is none of the others, that the
sets of phones, shops and servers are not empty where a variable starts with a member of
them, that the table of shop types is not empty (an empty one is never cached,
`shop_repo.go:95`) and its requests are finitely many, and,
in `DataAccess`, that processes do not share connections.

| Theorem | Property | Faults |
|---|---|---|
| `TypeCorrect` | `Seckill!TypeOK` | all |
| `OneOrder` | `OneOrderPerUser` | all |
| `Answers` | `AnswerHonoured` | all |
| `NeverOversold` | `DbNeverOversold` | all |
| `StocksReconcile` | `StockReconciles` | without `resent` |
| `Attempted` | `AttemptsInOrder` | without `resent` |
| `DeadLetters` | `DeadLetterUnfulfilled` | without `resent`, `commitLost` |
| `Tracked` | `ReservationTracked` | `dbFailed`, `commitLost` |
| `Promises` | `PromiseDeliverable` | without `resent`, one server |
| `UniqueIDs` | `OrderIDsUnique` | all, one server |
| `Refinement` | `ImplementsFlashSale` | without `resent` |
| `StoreRefinement` | `Seckill` implements `VoucherStore` | all |
| `LoginTypes`, `OneAccount`, `SpentCode` | `Login!TypeOK`, `OneAccountPerPhone`, `SpentCodeRefused` | all |
| `ShopCacheTypes`, `Staleness`, `Flights` | `ShopCache!TypeOK`, `StaleExplained`, `FlightHasLeader` | all |
| `ShopTypesTypes`, `WholeAnswers`, `BoundedCopies` | `ShopTypes!TypeOK`, `AnswersWhole`, `CopiesBounded` | all |
| `DataAccessTypes`, `WholeVouchers` | `DataAccess!TypeOK`, `VoucherHasItsStock` | all |
| `Inserts`, `Leftovers`, `Stored` | `InsertsAccepted`, `NothingLeftBehind`, `AnsweredIsStored` | all |
| `NoDeadlock` | `NoCircle` | all |
| `Implements` | `DataAccess` implements `VoucherStore` | all |
| `ServerTypes`, `CurrentTokens`, `Drains`, `EndsDrained` | `Server!TypeOK`, `TokenCurrent`, `DrainedBeforeClose`, `NoHandlerCutOff` | all |

The hypotheses are needed: a SET sent again by go-redis gives back what has been sold in
between, an XADD sent again makes two entries of one attempt, a committed order whose
sender saw an error is retried into the dead letters, a crash or a refused XADD leaves an
entry pending for good, and two servers repeat each other's ids.

Each follows from an inductive invariant. Of the sale:

- `TypeInv` adds to `TypeOK` that nothing is delivered, and no consumer reads, before the
  group exists (`GroupFirst`). Without it, creating the group could move the position
  back behind a message in hand.
- `OrderInv`: every entry is of a buyer; all entries of one user and voucher carry one
  id; every order and every "taken" answer comes from an entry; one order, one answer.
  An entry is written for a user who becomes a buyer in the same step, or copies an
  earlier one. So whichever copy a consumer handles, on whichever server, carries the
  one id, and the primary key lets one row in. An id issued twice makes an order fail,
  never a second one succeed.
- `StockInv`: a voucher that is no seckill voucher has no stock and no order, and the sets
  of orders are finite (an order's insertion then adds one to their cardinality).
- `SaleInv`: before the SET there are no buyers and MySQL's stock is the listed one; a SET
  is due only while there is no key; the stocks reconcile. A reservation moves a user into
  `Pending` and lowers Redis' stock; an order moves him out and lowers MySQL's. That he
  was in `Pending` is `AppliesToPending`, from `OrderInv`: with the primary key free for his
  only id he has no order yet.
- `AttemptInv`: an entry that is ahead in the stream or in a consumer's hands (`Live`) is the
  last copy of its message (`LiveIsLast`), no two consumers have one entry (`OneWorker`), and
  only an entry with attempts left is requeued (`RetryLeft`). A requeue appends behind the
  last copy and lets go of it, so the order of the copies follows.
- `DeadInv` adds that a live entry has no order, and that a dead letter is the last copy
  and no longer live: nobody can make its order any more.
- `Tracked` needs no more than `TypeInv` and `OrderInv`: whatever a consumer does to the entry
  it holds, it makes the order, adds a copy, or makes it a dead letter, and only then lets go.
- `IdInv`: entries of one id are of one order, and an entry with the id of a call in flight
  is of that call (whose script may be about to be sent again), which holds when one
  generator issued them all. Answers come from entries and an order is answered once, so
  `UniqueIDs` follows: the run `SeckillIds` is about the second server alone. With `SoldFromCache` (an entry is of a voucher on sale) and
  `SaleInv`, an entry without an order has its unit and its id.
- `Refinement` uses `OrderInv` and `SaleInv`: a SET is `Open`, a script that takes a unit
  `Reserve`, a commit `Fulfil` (again `AppliesToPending`), and all else leaves the mapped
  variables unchanged. `StoreRefinement` needs types alone.

Of the others:

- `AccountInv`: a phone has one row of `tb_user`, and every answer is of a row; rows are never
  removed. `SpentInv`: no request or answer is about an issue that has not been made, and an
  issue that an existing user's login was answered with is not what the key holds; a code
  once replaced or deleted does not come back.
- `ReadersBehind`: a reader carries no version MySQL has not had, which makes `ShopCache!TypeOK`
  inductive. `StaleExplained` and `FlightInv` (a reader in one of the leader's steps is its
  flight's leader, one who waits has a flight, a flight's leader is such a reader) are then
  inductive by themselves.
- `Sanity` of `DataAccess`: a worker that runs has a job and is at one of its statements; it has
  a connection exactly when its job is a transaction, and then all objects of its query are
  bound to it. `Tidy`: a session is not idle if and only if one worker holds its connection,
  and locks are those of open sessions. `Pending`: a worker about to commit an order has the
  row in its connection's image, as long as the session is open; no other worker's step
  touches that image, because connections are not shared.
- `Guarded`: only the connection that holds a row's lock has an image of it. `Drafts`: what an
  open transaction has written are the rows of the statements its worker has executed (`First`,
  `Second`), with the values they gave them over the committed ones. The committed ones cannot
  change meanwhile, because the rows are locked; a connection that is handed out has written
  nothing (`BlankUnlessOpen`). `Pending` is the special case `AnsweredIsStored` needs.
- So a step does to the committed rows one of four things (`Effect`): nothing but to shops, an
  ordinary voucher, a seckill voucher with its stock, an order with its unit. A COMMIT has
  executed both statements of its draft or is none. `VoucherHasItsStock` and `Implements`
  follow from `Effect`, which is what makes a step of `VoucherStore` of it, and the types of
  what is committed from those of the drafts.
- `Marked` is the converse of `Guarded`: a locked row has been written by the transaction that
  locks it. Hence one that holds a lock and still waits is between its statements: it holds
  `First` and waits for `Second`. Vouchers come before stocks and stocks before orders, so a
  chain of such transactions has an end: one that does not wait. And a worker that waits for
  a connection has none and holds no lock, so nobody waits for him.
- `ListInv` of `ShopTypes`: the cached list is whole copies of the table (`WholeCopies`), because
  one MULTI/EXEC appends the whole table and an answer is the whole list; and its length, with
  one copy for each request that has found no list and not yet answered (`Filling`), is at
  most one copy per request and per failure (`CopiesCharged`). A request enters `Filling`
  only while the list is empty or by a failure that is counted.
- `TokenInv`: versions only grow (`Monotone`: the file's is the latest, then viper's, then those
  of the options), so what is read later is not older. `StopInv`: which clients are open,
  whether the listener may accept, and that until `Shutdown` returns `err` holds what the
  listener assigned; so a listener that calls `os.Exit` has `Shutdown` behind it or has never
  accepted anyone.

Model-checked only: the liveness properties (`ReservationSettled`, `ReadAnswered`,
`EventuallyFresh`, `CallsEnd`, `EditTakesEffect`, `StopCompletes`), since neither they nor
`ENABLED` are in reach of the prover. `NoCircle` is the part of `CallsEnd` that is an invariant.

## 5. What is not modelled

- `JWT()` and `ParseToken` of the middleware, `ClaimMessage`, `HasUserPurchasedVoucher`,
  `GetSeckillVoucherByID`, `GetVoucherStockCache`, `NewRedsync`, `InitLogger`, and the methods
  of the generated code that no repository uses: nobody calls them.
- `pkg/json_time`: a parser and a printer without state.
- The begin and end of a sale: they are stored, and no code compares them with anything
  (`voucher.go:127`; a version that did is commented out, lines 87-90). No action can depend
  on them.
- `JWT_SECRET`: taken as not set, so a section of the options is there if the file has it.
- Loss of data in Redis over a restart: persistence is configured outside the repository.
- What becomes of a message in hand when the process ends is the crash of `Seckill`; `Server`
  says when that happens.
- The empty string of a negative entry is no JSON, so a hit on it is answered with a decoding
  error (`shop_repo.go:62`). `ShopCache` has the entry, and tells answers apart no further.
- The content of vouchers, shops and users; what is logged.

## 6. Plan

1. *Done:* the flash sale (`SeckillScript`, `Seckill`), its abstract specifications, refinements
   and theorems; the caches; logins; the data access code with `VoucherStore` between it and
   the sale; the process with its configuration and its end.
2. *Done:* theorems for every safety property of the runs, and for the refinements.
3. `DataAccess` with the reads of the repositories, so that `Login` and the caches rest on it as
   `Seckill` does.
