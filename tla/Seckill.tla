------------------------------ MODULE Seckill ------------------------------
(***************************************************************************)
(* The flash sale ("seckill") of city-picks: the HTTP side that creates    *)
(* vouchers and sells them against Redis, and the consumer goroutine that  *)
(* turns the entries of the Redis stream "stream:orders" into rows of      *)
(* MySQL.  Every process of the program (a server) runs both; the servers  *)
(* share one Redis and one MySQL.                                          *)
(*                                                                         *)
(*   voucher service     CreateOrdinaryVoucher, CreateSeckillVoucher,      *)
(*                       SetVoucherStockCache, SeckillVoucher, ExecScript  *)
(*   order consumer      CreateGroup, ReadPendingMessages, MoveToDLQ,      *)
(*                       HandleOrderMsg, RequeueMessage, Ack               *)
(*   the process         Crash, Restart                                    *)
(*                                                                         *)
(* One step of a server is one command to Redis or one transaction of      *)
(* MySQL with the code up to the next one.  What may go wrong with it is   *)
(* chosen by FaultKinds:                                                   *)
(*   "refused"     a Redis command is not executed, the client gets an     *)
(*                 error                                                   *)
(*   "replyLost"   it is executed, the client gets an error                *)
(*   "resent"      it is executed, the reply is lost and go-redis sends it *)
(*                 again (its MaxRetries is left at the default)           *)
(*   "dbFailed"    a transaction is rolled back, the client gets an error  *)
(*   "commitLost"  it is committed, the client gets an error               *)
(*   "crash"       the process stops between any two steps                 *)
(***************************************************************************)
EXTENDS SeckillScript, FiniteSets

CONSTANTS
    Users,          \* user ids a purchase request may carry
    Vouchers,       \* voucher ids, those not created yet included
    Servers,        \* processes of the program
    OrderIDs,       \* ids a sonyflake generator can issue
    Stocks,         \* values of the Stock field of a CreateVoucher request
    MaxRetries,     \* maxRetries of the consumer
    MaxStream,      \* bound: XADD is sent again only below this length
    FaultKinds,     \* what may go wrong, see above
    Nobody          \* no server

ASSUME StocksAssumption     == Stocks \subseteq Int
ASSUME MaxRetriesAssumption == MaxRetries \in Nat
ASSUME NobodyAssumption     == Nobody \notin Servers

VARIABLES
    kind,       \* MySQL: which rows voucher v has
    dbStock,    \* MySQL: tb_seckill_voucher.stock
    orders,     \* MySQL: tb_voucher_order
    cacheStock, \* Redis: seckill:stock:v
    buyers,     \* Redis: seckill:order:v, the users with a reservation
    stream,     \* Redis: stream:orders, never trimmed
    group,      \* Redis: group:orders exists
    delivered,  \* Redis: position of the last entry delivered to the group
    pel,        \* Redis: positions delivered and not acknowledged
    dead,       \* Redis: stream:orders:dead, by original_id
    listed,     \* memory: the Stock field of the request that created v
    caching,    \* memory: the server that has still to SET the stock of v
    issued,     \* memory: the order ids each server's generator has issued
    calls,      \* memory: SeckillVoucher calls before the script's answer
    replies,    \* what SeckillVoucher has answered
    consumer    \* memory: the consumer goroutine of each server

mysqlVars   == <<kind, dbStock, orders>>
saleVars    == <<cacheStock, buyers>>
groupVars   == <<group, delivered, pel>>
createVars  == <<listed, caching>>
requestVars == <<issued, calls, replies>>

vars == <<mysqlVars, saleVars, stream, groupVars, dead, createVars,
          requestVars, consumer>>

-----------------------------------------------------------------------------
(***************************************************************************)
(* Types.                                                                  *)
(***************************************************************************)
Kinds     == {"none", "ordinary", "seckill"}
Results   == {"taken", "noStock", "again", "error"}
Working    == {"handle", "requeue", "ack"}   \* a message is in hand
ConsumerPC == {"down", "start", "read"} \cup Working

Order   == [id : OrderIDs, user : Users, voucher : Vouchers]
Message == [id : OrderIDs, user : Users, voucher : Vouchers, retry : Nat]
Call    == [server : Servers, id : OrderIDs, user : Users, voucher : Vouchers]
Answer  == [call : Call, res : Results]

TypeMySQL ==
    /\ kind \in [Vouchers -> Kinds]
    /\ dbStock \in [Vouchers -> Int]
    /\ orders \subseteq Order

TypeSale ==
    /\ cacheStock \in [Vouchers -> Int \cup {NoKey}]
    /\ buyers \in [Vouchers -> SUBSET Users]

TypeQueue ==
    /\ stream \in Seq(Message)
    /\ group \in BOOLEAN
    /\ delivered \in 0 .. Len(stream)
    /\ pel \subseteq 1 .. delivered
    /\ dead \subseteq 1 .. delivered
    /\ consumer \in [Servers -> [pc : ConsumerPC, msg : 0 .. delivered]]
    /\ \A s \in Servers : consumer[s].pc \in Working => consumer[s].msg > 0

TypeMemory ==
    /\ listed \in [Vouchers -> Int]
    /\ caching \in [Vouchers -> Servers \cup {Nobody}]
    /\ issued \in [Servers -> SUBSET OrderIDs]
    /\ calls \subseteq Call
    /\ replies \subseteq Answer

TypeOK == TypeMySQL /\ TypeSale /\ TypeQueue /\ TypeMemory

Init ==
    /\ kind = [v \in Vouchers |-> "none"]
    /\ dbStock = [v \in Vouchers |-> 0]
    /\ orders = {}
    /\ cacheStock = [v \in Vouchers |-> NoKey]
    /\ buyers = [v \in Vouchers |-> {}]
    /\ stream = << >>
    /\ group = FALSE
    /\ delivered = 0
    /\ pel = {}
    /\ dead = {}
    /\ listed = [v \in Vouchers |-> 0]
    /\ caching = [v \in Vouchers |-> Nobody]
    /\ issued = [s \in Servers |-> {}]
    /\ calls = {}
    /\ replies = {}
    /\ consumer = [s \in Servers |-> [pc |-> "start", msg |-> 0]]

Fault(f) == f \in FaultKinds

Up(s) == consumer[s].pc # "down"

-----------------------------------------------------------------------------
(***************************************************************************)
(* Voucher service: creating a voucher.  A transaction that is rolled back *)
(* changes nothing and is not a step.                                      *)
(***************************************************************************)
CreateOrdinaryVoucher(s, v) ==
    /\ Up(s)
    /\ kind[v] = "none"
    /\ kind' = [kind EXCEPT ![v] = "ordinary"]
    /\ UNCHANGED <<dbStock, orders, saleVars, stream, groupVars, dead,
                   createVars, requestVars, consumer>>

\* The two rows are one transaction; the cache is set after it.
CreateSeckillVoucher(s, v, stock) ==
    /\ Up(s)
    /\ kind[v] = "none"
    /\ kind' = [kind EXCEPT ![v] = "seckill"]
    /\ dbStock' = [dbStock EXCEPT ![v] = stock]
    /\ listed' = [listed EXCEPT ![v] = stock]
    /\ \/ caching' = [caching EXCEPT ![v] = s]
       \/ Fault("commitLost") /\ UNCHANGED caching
    /\ UNCHANGED <<orders, saleVars, stream, groupVars, dead, requestVars,
                   consumer>>

\* SET seckill:stock:v without a TTL.
SetVoucherStockCache(v) ==
    /\ caching[v] # Nobody
    /\ \/ /\ cacheStock' = [cacheStock EXCEPT ![v] = listed[v]]
          /\ caching' = [caching EXCEPT ![v] = Nobody]
       \/ /\ Fault("refused")
          /\ caching' = [caching EXCEPT ![v] = Nobody]
          /\ UNCHANGED cacheStock
       \/ /\ Fault("resent")
          /\ cacheStock' = [cacheStock EXCEPT ![v] = listed[v]]
          /\ UNCHANGED caching
    /\ UNCHANGED <<mysqlVars, buyers, stream, groupVars, dead, listed,
                   requestVars, consumer>>

(***************************************************************************)
(* Voucher service: buying one.                                            *)
(***************************************************************************)
\* Slip: the generator is made anew for every request.
NextIDAny(s) == OrderIDs

\* sonyflake never issues the same id twice in one process (time moves on
\* over a restart); every process has machine id 1, so two processes may
\* issue the same.
NextID(s) == OrderIDs \ issued[s]

SeckillVoucher(s, u, v) ==
    /\ Up(s)
    /\ \E orderID \in NextID(s) :
          /\ issued' = [issued EXCEPT ![s] = @ \cup {orderID}]
          /\ calls' = calls \cup
                {[server |-> s, id |-> orderID, user |-> u, voucher |-> v]}
    /\ UNCHANGED <<mysqlVars, saleVars, stream, groupVars, dead, createVars,
                   replies, consumer>>

\* Slip: the stock is not decremented.
RunScriptKeepingStock(c) ==
    IF AdjustSeckill(cacheStock[c.voucher], buyers[c.voucher], c.user) = "taken"
    THEN /\ buyers' = [buyers EXCEPT ![c.voucher] = @ \cup {c.user}]
         /\ stream' = XAdd(stream, [id |-> c.id, user |-> c.user,
                                    voucher |-> c.voucher, retry |-> 0])
         /\ UNCHANGED cacheStock
    ELSE UNCHANGED <<saleVars, stream>>

\* What the script does in Redis for call c.
RunScript(c) ==
    IF AdjustSeckill(cacheStock[c.voucher], buyers[c.voucher], c.user) = "taken"
    THEN /\ cacheStock' = [cacheStock EXCEPT ![c.voucher] = @ - 1]
         /\ buyers' = [buyers EXCEPT ![c.voucher] = @ \cup {c.user}]
         /\ stream' = XAdd(stream, [id |-> c.id, user |-> c.user,
                                    voucher |-> c.voucher, retry |-> 0])
    ELSE UNCHANGED <<saleVars, stream>>

\* Slip: the answer 2 ("already purchased") is taken for a success.
ScriptResultAgain(c) ==
    LET a == AdjustSeckill(cacheStock[c.voucher], buyers[c.voucher], c.user)
    IN  IF a = "raised" THEN "error" ELSE IF a = "noStock" THEN a ELSE "taken"

\* What SeckillVoucher makes of the script's answer.
ScriptResult(c) ==
    LET a == AdjustSeckill(cacheStock[c.voucher], buyers[c.voucher], c.user)
    IN  IF a = "raised" THEN "error" ELSE a

Reply(c, r) ==
    /\ calls' = calls \ {c}
    /\ replies' = replies \cup {[call |-> c, res |-> r]}

ExecScript(c) ==
    /\ c \in calls
    /\ \/ RunScript(c) /\ Reply(c, ScriptResult(c))
       \/ /\ Fault("refused")
          /\ Reply(c, "error")
          /\ UNCHANGED <<saleVars, stream>>
       \/ Fault("replyLost") /\ RunScript(c) /\ Reply(c, "error")
       \/ Fault("resent") /\ RunScript(c) /\ UNCHANGED <<calls, replies>>
    /\ UNCHANGED <<mysqlVars, groupVars, dead, createVars, issued, consumer>>

-----------------------------------------------------------------------------
(***************************************************************************)
(* The process.  What it holds in memory is lost with it: calls get no     *)
(* answer, a stock not yet cached never is, and the message the consumer   *)
(* had in hand is left in the pending list.                                *)
(***************************************************************************)
Die(s) ==
    /\ consumer' = [consumer EXCEPT ![s] = [pc |-> "down", msg |-> 0]]
    /\ calls' = {c \in calls : c.server # s}
    /\ caching' = [v \in Vouchers |->
                     IF caching[v] = s THEN Nobody ELSE caching[v]]

Crash(s) ==
    /\ Fault("crash")
    /\ Up(s)
    /\ Die(s)
    /\ UNCHANGED <<mysqlVars, saleVars, stream, groupVars, dead, listed,
                   issued, replies>>

Restart(s) ==
    /\ ~Up(s)
    /\ consumer' = [consumer EXCEPT ![s] = [pc |-> "start", msg |-> 0]]
    /\ UNCHANGED <<mysqlVars, saleVars, stream, groupVars, dead, createVars,
                   requestVars>>

-----------------------------------------------------------------------------
(***************************************************************************)
(* Order consumer.                                                         *)
(***************************************************************************)
Goto(s, where) ==
    consumer' = [consumer EXCEPT ![s] = [pc |-> where, msg |-> consumer[s].msg]]

\* The body of the loop is over for the message in hand.
NextMessage(s) == consumer' = [consumer EXCEPT ![s] = [pc |-> "read", msg |-> 0]]

\* Start: an error other than BUSYGROUP panics, which stops the process.
CreateGroup(s) ==
    /\ consumer[s].pc = "start"
    /\ \/ /\ group' = TRUE
          /\ delivered' = XGroupCreate(group, delivered, stream)
          /\ NextMessage(s)
          /\ UNCHANGED <<calls, caching>>
       \/ Fault("refused") /\ Die(s) /\ UNCHANGED <<group, delivered>>
       \/ /\ Fault("replyLost")
          /\ group' = TRUE
          /\ delivered' = XGroupCreate(group, delivered, stream)
          /\ Die(s)
    /\ UNCHANGED <<mysqlVars, saleVars, stream, pel, dead, listed, issued,
                   replies>>

\* Slip: an empty answer is taken for a message.
ReadPendingMessagesEmpty(s) ==
    /\ consumer[s].pc = "read"
    /\ delivered' = delivered + 1
    /\ pel' = pel \cup {delivered + 1}
    /\ consumer' = [consumer EXCEPT ![s] =
                      [pc |-> "handle", msg |-> delivered + 1]]
    /\ UNCHANGED <<mysqlVars, saleVars, stream, group, dead, createVars,
                   requestVars>>

\* XREADGROUP ... COUNT 1 BLOCK 0 STREAMS stream:orders >
ReadPendingMessages(s) ==
    /\ consumer[s].pc = "read"
    /\ delivered < Len(stream)
    /\ delivered' = delivered + 1
    /\ pel' = pel \cup {delivered + 1}
    /\ \/ consumer' = [consumer EXCEPT ![s] =
                         [pc |-> "handle", msg |-> delivered + 1]]
       \/ (Fault("replyLost") \/ Fault("resent")) /\ UNCHANGED consumer
    /\ UNCHANGED <<mysqlVars, saleVars, stream, group, dead, createVars,
                   requestVars>>

InHand(s) == stream[consumer[s].msg]

NextAttempt(m) == [id |-> m.id, user |-> m.user, voucher |-> m.voucher,
                   retry |-> m.retry + 1]

\* Slip: the message is acknowledged and nothing is written.
MoveToDLQAckOnly(s) ==
    /\ consumer[s].pc = "handle"
    /\ InHand(s).retry >= MaxRetries
    /\ Goto(s, "ack")
    /\ UNCHANGED <<mysqlVars, saleVars, stream, groupVars, dead, createVars,
                   requestVars>>

\* The message is acknowledged whether or not it reached the dead letters.
MoveToDLQ(s) ==
    /\ consumer[s].pc = "handle"
    /\ InHand(s).retry >= MaxRetries
    /\ \/ dead' = dead \cup {consumer[s].msg}
       \/ Fault("refused") /\ UNCHANGED dead
    /\ Goto(s, "ack")
    /\ UNCHANGED <<mysqlVars, saleVars, stream, groupVars, createVars,
                   requestVars>>

(***************************************************************************)
(* The transaction of CreateVoucherOrderAndReduceStock: it applies when    *)
(* the conditional UPDATE finds a row and the primary key is free.         *)
(***************************************************************************)
Applies(m) ==
    /\ kind[m.voucher] = "seckill"
    /\ dbStock[m.voucher] > 0
    /\ \A o \in orders : o.id # m.id

\* Slip: the order is inserted without the UPDATE of the stock.
CommitOrderOnly(m) ==
    /\ orders' = orders \cup
          {[id |-> m.id, user |-> m.user, voucher |-> m.voucher]}
    /\ UNCHANGED dbStock

Commit(m) ==
    /\ dbStock' = [dbStock EXCEPT ![m.voucher] = @ - 1]
    /\ orders' = orders \cup
          {[id |-> m.id, user |-> m.user, voucher |-> m.voucher]}

HandleOrderMsg(s) ==
    /\ consumer[s].pc = "handle"
    /\ InHand(s).retry < MaxRetries
    /\ \/ Applies(InHand(s)) /\ Commit(InHand(s)) /\ Goto(s, "ack")
       \/ /\ Fault("commitLost")
          /\ Applies(InHand(s))
          /\ Commit(InHand(s))
          /\ Goto(s, "requeue")
       \/ /\ ~Applies(InHand(s)) \/ Fault("dbFailed")
          /\ Goto(s, "requeue")
          /\ UNCHANGED <<dbStock, orders>>
    /\ UNCHANGED <<kind, saleVars, stream, groupVars, dead, createVars,
                   requestVars>>

\* Slip: the new entry keeps the old retry_count.
RequeueMessageSameCount(s) ==
    /\ consumer[s].pc = "requeue"
    /\ Len(stream) < MaxStream
    /\ stream' = XAdd(stream, InHand(s))
    /\ Goto(s, "ack")
    /\ UNCHANGED <<mysqlVars, saleVars, groupVars, dead, createVars,
                   requestVars>>

\* Slip: the message is acknowledged without a new entry.
RequeueMessageAckOnly(s) ==
    /\ consumer[s].pc = "requeue"
    /\ Goto(s, "ack")
    /\ UNCHANGED <<mysqlVars, saleVars, stream, groupVars, dead, createVars,
                   requestVars>>

\* When the XADD fails the message is not acknowledged.
RequeueMessage(s) ==
    LET again == XAdd(stream, NextAttempt(InHand(s)))
    IN  /\ consumer[s].pc = "requeue"
        /\ \/ stream' = again /\ Goto(s, "ack")
           \/ Fault("refused") /\ UNCHANGED stream /\ NextMessage(s)
           \/ Fault("replyLost") /\ stream' = again /\ NextMessage(s)
           \/ /\ Fault("resent")
              /\ Len(stream) < MaxStream
              /\ stream' = again
              /\ UNCHANGED consumer
        /\ UNCHANGED <<mysqlVars, saleVars, groupVars, dead, createVars,
                       requestVars>>

\* messageQueue.Ack hands the two ids to XACK in the wrong order.  An error
\* is logged and changes nothing.
Ack(s) ==
    /\ consumer[s].pc = "ack"
    /\ pel' = XAck(pel, consumer[s].msg, OrderGroup)
    /\ NextMessage(s)
    /\ UNCHANGED <<mysqlVars, saleVars, stream, group, delivered, dead,
                   createVars, requestVars>>

-----------------------------------------------------------------------------
Consume(s) ==
    \/ CreateGroup(s)
    \/ ReadPendingMessages(s)
    \/ MoveToDLQ(s)
    \/ HandleOrderMsg(s)
    \/ RequeueMessage(s)
    \/ Ack(s)

Create(s, v) ==
    \/ CreateOrdinaryVoucher(s, v)
    \/ \E stock \in Stocks : CreateSeckillVoucher(s, v, stock)

Next ==
    \/ \E s \in Servers, v \in Vouchers : Create(s, v)
    \/ \E v \in Vouchers : SetVoucherStockCache(v)
    \/ \E s \in Servers, u \in Users, v \in Vouchers : SeckillVoucher(s, u, v)
    \/ \E c \in calls : ExecScript(c)
    \/ \E s \in Servers : Consume(s)
    \/ \E s \in Servers : Crash(s) \/ Restart(s)

Spec == Init /\ [][Next]_vars

(***************************************************************************)
(* A goroutine that can take a step takes one: the consumer loops without  *)
(* end, and a handler runs to its end.  Nothing makes a user buy, a        *)
(* process crash or a stopped process start again.                         *)
(***************************************************************************)
Fairness ==
    /\ \A s \in Servers : WF_vars(Consume(s))
    /\ \A v \in Vouchers : WF_vars(SetVoucherStockCache(v))
    /\ \A c \in Call : WF_vars(ExecScript(c))

FairSpec == Spec /\ Fairness

-----------------------------------------------------------------------------
(***************************************************************************)
(* What the sale promises.  The faults under which each one holds are      *)
(* those of the run, or the theorem, it is checked in.                     *)
(***************************************************************************)
HasOrder(u, v) == \E o \in orders : o.user = u /\ o.voucher = v
OrdersOf(v)    == {o \in orders : o.voucher = v}
Pending(v)     == {u \in buyers[v] : ~HasOrder(u, v)}
SameOrder(m, o) == m.user = o.user /\ m.voucher = o.voucher

\* "One person, one order" (the script's header).  No table enforces it: the
\* guarantee of a row of tb_voucher_order rests on the Redis set alone, which
\* must survive requeues, duplicate entries and ids issued twice.
OneOrderPerUser ==
    \A o, p \in orders : SameOrder(o, p) => o = p

\* A user is told at most once that a voucher is his, and the order id he is
\* told (by the HTTP side, before the consumer has run) is the one his row
\* gets, on whichever attempt the consumer succeeds.
AnswerHonoured ==
    \A r \in replies : r.res = "taken" =>
        /\ r.call.user \in buyers[r.call.voucher]
        /\ \A q \in replies :
              q.res = "taken" /\ SameOrder(q.call, r.call) => q = r
        /\ \A o \in orders : SameOrder(o, r.call) => o.id = r.call.id

\* MySQL gives out what was listed and no more, even when Redis, whose stock
\* can be set again under the buyers, has promised too much.
DbNeverOversold ==
    \A v \in Vouchers :
        /\ Cardinality(OrdersOf(v)) + dbStock[v] = listed[v]
        /\ OrdersOf(v) # {} => dbStock[v] >= 0

\* The two stocks are changed by different processes at different times; the
\* difference is always the reservations without an order.  So a reservation
\* in Redis never lacks a unit in MySQL.
StockReconciles ==
    \A v \in Vouchers : cacheStock[v] # NoKey =>
        cacheStock[v] + Cardinality(Pending(v)) = dbStock[v]

\* Of the copies of one message a later one is a later attempt: no two
\* consumers ever work on the same attempt, and there are at most
\* MaxRetries + 1 copies.
AttemptsInOrder ==
    \A i, j \in DOMAIN stream :
        i < j /\ SameOrder(stream[i], stream[j]) =>
            stream[i].retry < stream[j].retry /\ stream[j].retry <= MaxRetries

\* A dead letter is an order that was not made; an operator who replays it
\* makes it for the first time.
DeadLetterUnfulfilled ==
    \A i \in dead : ~HasOrder(stream[i].user, stream[i].voucher)

\* No reservation is forgotten: until its order exists it is ahead in the
\* stream, in the hands of a consumer, or among the dead letters.
ReservationTracked ==
    \A v \in Vouchers : \A u \in Pending(v) :
        \E i \in DOMAIN stream :
            /\ stream[i].user = u /\ stream[i].voucher = v
            /\ \/ i > delivered
               \/ i \in dead
               \/ \E s \in Servers :
                     consumer[s].msg = i /\ consumer[s].pc \in {"handle", "requeue"}

\* What the queue holds can always be delivered: as long as its user has no
\* order, the transaction of an entry finds a unit of stock and an unused id,
\* on whichever attempt.  So an entry is dead-lettered for what MySQL has
\* failed, never for what Redis has promised.  Two servers break this: their
\* generators repeat each other's ids.
PromiseDeliverable ==
    \A i \in DOMAIN stream :
        ~HasOrder(stream[i].user, stream[i].voucher) => Applies(stream[i])

(***************************************************************************)
(* Liveness.                                                               *)
(***************************************************************************)
DeadLettered(u, v) ==
    \E i \in dead : stream[i].user = u /\ stream[i].voucher = v

\* A reservation ends as an order or as a dead letter.
ReservationSettled ==
    \A u \in Users, v \in Vouchers :
        u \in buyers[v] ~> HasOrder(u, v) \/ DeadLettered(u, v)

(***************************************************************************)
(* What comments of the code say, and the code does not do.                *)
(***************************************************************************)
\* order_consumer.go:175 and 201: acknowledging takes the message out of the
\* pending list.
AckTakesOffPending ==
    [][\A s \in Servers :
          consumer[s].pc = "ack" /\ consumer'[s].pc = "read" =>
              consumer[s].msg \notin pel']_vars

\* A message left in the pending list with nothing done about it: no order, no
\* later attempt, no dead letter, and no consumer working on it.
Unacked(i) ==
    /\ i \in pel \ dead
    /\ stream[i].retry < MaxRetries
    /\ ~HasOrder(stream[i].user, stream[i].voucher)
    /\ \A j \in DOMAIN stream : j > i => ~SameOrder(stream[j], stream[i])
    /\ \A s \in Servers : consumer[s].pc \in {"handle", "requeue"} =>
                            consumer[s].msg # i

\* order_consumer.go:171: when the XADD of the next attempt fails the message
\* is not acknowledged, and another consumer claims it.
UnackedIsClaimed ==
    \A i \in 1 .. MaxStream :
        Unacked(i) ~> \E s \in Servers :
                         consumer[s].pc = "handle" /\ consumer[s].msg = i

\* service/voucher.go:40: the generator issues unique ids.
OrderIDsUnique ==
    \A r, q \in replies :
        r.res = "taken" /\ q.res = "taken" /\ r # q => r.call.id # q.call.id
=============================================================================
