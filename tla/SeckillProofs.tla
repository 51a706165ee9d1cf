--------------------------- MODULE SeckillProofs ---------------------------
(***************************************************************************)
(* Theorems about Seckill for every set of users, vouchers, servers and    *)
(* order ids, every MaxRetries and every set of faults.                    *)
(***************************************************************************)
EXTENDS Seckill, TLAPS, FiniteSetTheorems

(***************************************************************************)
(* TypeOK is not inductive as it stands: creating the group sets delivered *)
(* to 0, which keeps pel and dead in range only because nothing has been   *)
(* delivered to a group that does not exist, and no consumer reads before  *)
(* the group is there.                                                     *)
(***************************************************************************)
GroupFirst ==
    /\ ~group => delivered = 0
    /\ \A s \in Servers : consumer[s].pc \in {"read"} \cup Working => group

TypeInv == TypeOK /\ GroupFirst

queueVars == <<stream, group, delivered, pel, dead, consumer>>

memoryVars == <<listed, caching, issued, calls, replies>>

\* What a step does not touch keeps its types.
LEMMA Frames ==
    /\ TypeMySQL  /\ UNCHANGED mysqlVars  => TypeMySQL'
    /\ TypeSale   /\ UNCHANGED saleVars   => TypeSale'
    /\ TypeQueue  /\ GroupFirst /\ UNCHANGED queueVars
                                          => TypeQueue' /\ GroupFirst'
    /\ TypeMemory /\ UNCHANGED memoryVars => TypeMemory'
<1>1. TypeMySQL /\ UNCHANGED mysqlVars => TypeMySQL'
  BY DEF TypeMySQL, mysqlVars
<1>2. TypeSale /\ UNCHANGED saleVars => TypeSale'
  BY DEF TypeSale, saleVars
<1>3. TypeQueue /\ GroupFirst /\ UNCHANGED queueVars
        => TypeQueue' /\ GroupFirst'
  BY DEF TypeQueue, GroupFirst, queueVars
<1>4. TypeMemory /\ UNCHANGED memoryVars => TypeMemory'
  BY DEF TypeMemory, memoryVars
<1> QED BY <1>1, <1>2, <1>3, <1>4

\* A message in hand is an entry of the stream.
LEMMA InHandInStream ==
    ASSUME TypeQueue, NEW s \in Servers, consumer[s].pc \in Working
    PROVE  /\ consumer[s].msg \in DOMAIN stream
           /\ InHand(s) \in Message
<1>1. /\ consumer[s].msg \in 0 .. delivered
      /\ consumer[s].msg > 0
      /\ delivered \in 0 .. Len(stream)
      /\ stream \in Seq(Message)
  BY DEF TypeQueue
<1>2. consumer[s].msg \in 1 .. Len(stream)  BY <1>1
<1>3. DOMAIN stream = 1 .. Len(stream)  BY <1>1
<1>4. stream[consumer[s].msg] \in Message  BY <1>1, <1>2
<1> QED BY <1>2, <1>3, <1>4 DEF InHand

LEMMA EntriesAreMessages ==
    ASSUME TypeQueue PROVE \A i \in DOMAIN stream : stream[i] \in Message
<1>1. stream \in Seq(Message)  BY DEF TypeQueue
<1>2. DOMAIN stream = 1 .. Len(stream)  BY <1>1
<1> QED BY <1>1, <1>2

\* An entry is appended after the others.
LEMMA Appended ==
    ASSUME stream \in Seq(Message), NEW m \in Message, stream' = XAdd(stream, m)
    PROVE  /\ stream' \in Seq(Message)
           /\ Len(stream') = Len(stream) + 1
           /\ DOMAIN stream = 1 .. Len(stream)
           /\ DOMAIN stream' = 1 .. Len(stream) + 1
           /\ \A i \in DOMAIN stream : stream'[i] = stream[i]
           /\ stream'[Len(stream) + 1] = m
BY DEF XAdd

LEMMA TypeCreate ==
    ASSUME TypeInv, NEW s \in Servers, NEW v \in Vouchers, Create(s, v)
    PROVE  TypeInv'
<1> USE DEF TypeInv, TypeOK
<1>1. CASE CreateOrdinaryVoucher(s, v)
  <2>1. TypeMySQL'
    BY <1>1 DEF CreateOrdinaryVoucher, TypeMySQL, Kinds
  <2>2. UNCHANGED <<saleVars, queueVars, memoryVars>>
    BY <1>1 DEF CreateOrdinaryVoucher, queueVars, groupVars, memoryVars,
                createVars, requestVars
  <2> QED BY <2>1, <2>2, Frames
<1>2. CASE \E stock \in Stocks : CreateSeckillVoucher(s, v, stock)
  <2>1. PICK stock \in Stocks : CreateSeckillVoucher(s, v, stock)  BY <1>2
  <2>2. stock \in Int  BY StocksAssumption
  <2>3. TypeMySQL'
    BY <2>1, <2>2 DEF CreateSeckillVoucher, TypeMySQL, Kinds
  <2>4. TypeMemory'
    BY <2>1, <2>2 DEF CreateSeckillVoucher, TypeMemory, requestVars
  <2>5. UNCHANGED <<saleVars, queueVars>>
    BY <2>1 DEF CreateSeckillVoucher, queueVars, groupVars
  <2> QED BY <2>3, <2>4, <2>5, Frames
<1> QED BY <1>1, <1>2 DEF Create

LEMMA TypeSetVoucherStockCache ==
    ASSUME TypeInv, NEW v \in Vouchers, SetVoucherStockCache(v)
    PROVE  TypeInv'
<1> USE DEF TypeInv, TypeOK, SetVoucherStockCache
<1>1. TypeSale'  BY DEF TypeSale, TypeMemory
<1>2. TypeMemory'  BY DEF TypeMemory, requestVars
<1>3. UNCHANGED <<mysqlVars, queueVars>>  BY DEF queueVars, groupVars
<1> QED BY <1>1, <1>2, <1>3, Frames

LEMMA TypeSeckillVoucher ==
    ASSUME TypeInv, NEW s \in Servers, NEW u \in Users, NEW v \in Vouchers,
           SeckillVoucher(s, u, v)
    PROVE  TypeInv'
<1> USE DEF TypeInv, TypeOK, SeckillVoucher, NextID
<1>1. TypeMemory'  BY DEF TypeMemory, createVars, Call
<1>2. UNCHANGED <<mysqlVars, saleVars, queueVars>>  BY DEF queueVars, groupVars
<1> QED BY <1>1, <1>2, Frames

(***************************************************************************)
(* What running the script does: it reserves a unit for a user without one *)
(* and appends the message that says so, or it changes nothing.            *)
(***************************************************************************)
OrderMessage(c) == [id |-> c.id, user |-> c.user, voucher |-> c.voucher,
                    retry |-> 0]

Reserves(c) ==
    /\ cacheStock[c.voucher] \in Int
    /\ cacheStock[c.voucher] > 0
    /\ c.user \notin buyers[c.voucher]
    /\ cacheStock' = [cacheStock EXCEPT ![c.voucher] = @ - 1]
    /\ buyers' = [buyers EXCEPT ![c.voucher] = @ \cup {c.user}]
    /\ stream' = XAdd(stream, OrderMessage(c))

LEMMA ScriptReserves ==
    ASSUME TypeSale, NEW c \in Call, RunScript(c)
    PROVE  \/ Reserves(c)
           \/ ScriptResult(c) # "taken" /\ UNCHANGED <<saleVars, stream>>
<1>1. cacheStock[c.voucher] \in Int \cup {NoKey}
  BY DEF TypeSale, Call
<1> QED BY <1>1 DEF RunScript, ScriptResult, AdjustSeckill, Reserves,
                    OrderMessage

\* Of an execution of the script: what the redis side does, and what the
\* caller is told.
LEMMA ExecScriptCases ==
    ASSUME TypeInv, NEW c \in calls, ExecScript(c)
    PROVE  /\ c \in Call
           /\ \/ Reserves(c)
              \/ UNCHANGED <<saleVars, stream>>
           /\ \/ UNCHANGED <<calls, replies>>
              \/ \E r \in Results :
                    /\ Reply(c, r)
                    /\ r = "taken" => Reserves(c)
           /\ UNCHANGED <<mysqlVars, groupVars, dead, createVars, issued,
                          consumer>>
<1>1. c \in Call  BY DEF TypeInv, TypeOK, TypeMemory
<1>2. TypeSale  BY DEF TypeInv, TypeOK
<1>3. ScriptResult(c) \in Results
  BY DEF ScriptResult, Results, AdjustSeckill
<1>4. UNCHANGED <<mysqlVars, groupVars, dead, createVars, issued, consumer>>
  BY DEF ExecScript
<1>5. CASE RunScript(c) /\ Reply(c, ScriptResult(c))
  BY <1>1, <1>2, <1>3, <1>4, <1>5, ScriptReserves
<1>6. CASE Reply(c, "error") /\ UNCHANGED <<saleVars, stream>>
  BY <1>1, <1>4, <1>6 DEF Results
<1>7. CASE RunScript(c) /\ Reply(c, "error")
  BY <1>1, <1>2, <1>4, <1>7, ScriptReserves DEF Results
<1>8. CASE RunScript(c) /\ UNCHANGED <<calls, replies>>
  BY <1>1, <1>2, <1>4, <1>8, ScriptReserves
<1> QED BY <1>5, <1>6, <1>7, <1>8 DEF ExecScript

LEMMA TypeExecScript ==
    ASSUME TypeInv, NEW c \in calls, ExecScript(c)
    PROVE  TypeInv'
<1> USE DEF TypeInv, TypeOK
<1>1. /\ c \in Call
      /\ Reserves(c) \/ UNCHANGED <<saleVars, stream>>
      /\ \/ UNCHANGED <<calls, replies>>
         \/ \E r \in Results : Reply(c, r)
      /\ UNCHANGED <<mysqlVars, groupVars, dead, createVars, issued, consumer>>
  BY ExecScriptCases
<1>2. TypeMemory'
  BY <1>1 DEF TypeMemory, Reply, Answer, createVars
<1>3. CASE Reserves(c)
  <2>1. OrderMessage(c) \in Message
    BY <1>1 DEF OrderMessage, Call, Message
  <2>2. TypeSale'
    BY <1>1, <1>3 DEF Reserves, TypeSale, Call
  <2>3. /\ stream' \in Seq(Message)
        /\ Len(stream') = Len(stream) + 1
    BY <1>3, <2>1, Appended DEF Reserves, TypeQueue
  <2>4. TypeQueue' /\ GroupFirst'
    BY <1>1, <2>3 DEF TypeQueue, GroupFirst, groupVars
  <2> QED BY <1>1, <1>2, <2>2, <2>4, Frames
<1>4. CASE UNCHANGED <<saleVars, stream>>
  <2>1. UNCHANGED queueVars  BY <1>1, <1>4 DEF queueVars, groupVars
  <2> QED BY <1>1, <1>2, <1>4, <2>1, Frames
<1> QED BY <1>1, <1>3, <1>4

(***************************************************************************)
(* A process that stops: the queue is as it was, whether or not the step   *)
(* also created the group.                                                 *)
(***************************************************************************)
LEMMA TypeDie ==
    ASSUME TypeInv, NEW s \in Servers, Die(s),
           UNCHANGED <<mysqlVars, saleVars, stream, delivered, pel, dead,
                       listed, issued, replies>>,
           group' \in BOOLEAN, group => group'
    PROVE  TypeInv'
<1> USE DEF TypeInv, TypeOK
<1>1. TypeMemory'  BY DEF TypeMemory, Die
<1>2. consumer' \in [Servers -> [pc : ConsumerPC, msg : 0 .. delivered]]
  BY DEF TypeQueue, Die, ConsumerPC
<1>3. \A t \in Servers : \/ consumer'[t] = consumer[t]
                         \/ consumer'[t] = [pc |-> "down", msg |-> 0]
  BY DEF TypeQueue, Die
<1>4. TypeQueue'  BY <1>2, <1>3 DEF TypeQueue, Working
<1>5. GroupFirst'  BY <1>3 DEF GroupFirst, Working
<1> QED BY <1>1, <1>4, <1>5, Frames

LEMMA TypeProcess ==
    ASSUME TypeInv, NEW s \in Servers, Crash(s) \/ Restart(s)
    PROVE  TypeInv'
<1> USE DEF TypeInv, TypeOK
<1>1. CASE Crash(s)
  BY <1>1, TypeDie DEF Crash, TypeQueue, groupVars
<1>2. CASE Restart(s)
  <2>1. TypeQueue' /\ GroupFirst'
    BY <1>2 DEF Restart, TypeQueue, GroupFirst, groupVars, ConsumerPC, Working
  <2>2. UNCHANGED <<mysqlVars, saleVars, memoryVars>>
    BY <1>2 DEF Restart, memoryVars, createVars, requestVars
  <2> QED BY <2>1, <2>2, Frames
<1> QED BY <1>1, <1>2

\* The group starts before the first entry, and nothing has been delivered to
\* it before it existed.
LEMMA GroupKeepsPosition ==
    ASSUME GroupFirst PROVE XGroupCreate(group, delivered, stream) = delivered
BY DEF GroupFirst, XGroupCreate

LEMMA TypeCreateGroup ==
    ASSUME TypeInv, NEW s \in Servers, CreateGroup(s)
    PROVE  TypeInv'
<1> USE DEF TypeInv, TypeOK
<1>1. UNCHANGED <<mysqlVars, saleVars, stream, delivered, pel, dead, listed,
                  issued, replies>>
  BY GroupKeepsPosition DEF CreateGroup
<1>2. CASE group' = TRUE /\ NextMessage(s) /\ UNCHANGED <<calls, caching>>
  <2>1. TypeQueue' /\ GroupFirst'
    BY <1>1, <1>2 DEF TypeQueue, GroupFirst, NextMessage, ConsumerPC, Working
  <2>2. UNCHANGED memoryVars  BY <1>1, <1>2 DEF memoryVars
  <2> QED BY <1>1, <2>1, <2>2, Frames
<1>3. CASE Die(s) /\ UNCHANGED group
  BY <1>1, <1>3, TypeDie DEF TypeQueue
<1>4. CASE Die(s) /\ group' = TRUE
  BY <1>1, <1>4, TypeDie
<1> QED BY <1>2, <1>3, <1>4 DEF CreateGroup

LEMMA TypeReadPendingMessages ==
    ASSUME TypeInv, NEW s \in Servers, ReadPendingMessages(s)
    PROVE  TypeInv'
<1> USE DEF TypeInv, TypeOK, ReadPendingMessages
<1>1. /\ delivered' = delivered + 1
      /\ delivered' \in 0 .. Len(stream)
      /\ pel' \subseteq 1 .. delivered'
      /\ group
  BY DEF TypeQueue, GroupFirst
<1>2. consumer' \in [Servers -> [pc : ConsumerPC, msg : 0 .. delivered']]
  <2>1. consumer \in [Servers -> [pc : ConsumerPC, msg : 0 .. delivered']]
    BY <1>1 DEF TypeQueue
  <2>2. [pc |-> "handle", msg |-> delivered'] \in
           [pc : ConsumerPC, msg : 0 .. delivered']
    BY <1>1 DEF ConsumerPC, Working, TypeQueue
  <2> QED BY <1>1, <2>1, <2>2
<1>3. TypeQueue'  BY <1>1, <1>2 DEF TypeQueue, Working
<1>4. GroupFirst'  BY <1>1 DEF GroupFirst
<1>5. UNCHANGED <<mysqlVars, saleVars, memoryVars>>
  BY DEF memoryVars, createVars, requestVars
<1> QED BY <1>3, <1>4, <1>5, Frames

\* A consumer with a message in hand goes on with it or to the next one.
LEMMA ConsumerMoves ==
    ASSUME TypeQueue, GroupFirst, NEW s \in Servers, consumer[s].pc \in Working,
           NextMessage(s) \/ \E where \in {"requeue", "ack"} : Goto(s, where)
    PROVE  /\ consumer' \in [Servers -> [pc : ConsumerPC, msg : 0 .. delivered]]
           /\ \A t \in Servers :
                 /\ consumer'[t].pc \in Working => consumer'[t].msg > 0
                 /\ consumer'[t].pc \in {"read"} \cup Working => group
<1>1. /\ consumer \in [Servers -> [pc : ConsumerPC, msg : 0 .. delivered]]
      /\ consumer[s].msg \in 0 .. delivered
      /\ consumer[s].msg > 0
      /\ \A t \in Servers : consumer[t].pc \in Working => consumer[t].msg > 0
      /\ \A t \in Servers : consumer[t].pc \in {"read"} \cup Working => group
      /\ delivered \in Nat
  BY DEF TypeQueue, GroupFirst
<1>2. PICK c \in [pc : ConsumerPC, msg : 0 .. delivered] :
         /\ consumer' = [consumer EXCEPT ![s] = c]
         /\ c.pc \in Working => c.msg > 0
  <2>1. CASE NextMessage(s)
    <3>1. [pc |-> "read", msg |-> 0] \in [pc : ConsumerPC, msg : 0 .. delivered]
      BY <1>1 DEF ConsumerPC
    <3>2. "read" \notin Working  BY DEF Working
    <3> QED BY <2>1, <3>1, <3>2 DEF NextMessage
  <2>2. CASE \E where \in {"requeue", "ack"} : Goto(s, where)
    <3>1. PICK where \in {"requeue", "ack"} : Goto(s, where)  BY <2>2
    <3>2. [pc |-> where, msg |-> consumer[s].msg] \in
             [pc : ConsumerPC, msg : 0 .. delivered]
      BY <1>1 DEF ConsumerPC, Working
    <3>3. consumer' = [consumer EXCEPT ![s] =
                          [pc |-> where, msg |-> consumer[s].msg]]
      BY <3>1 DEF Goto
    <3>4. [pc |-> where, msg |-> consumer[s].msg].msg > 0  BY <1>1
    <3> QED BY <3>2, <3>3, <3>4
  <2> QED BY <2>1, <2>2
<1>3. \A t \in Servers : consumer'[t] = IF t = s THEN c ELSE consumer[t]
  BY <1>1, <1>2
<1>4. group  BY <1>1
<1> QED BY <1>1, <1>2, <1>3, <1>4

LEMMA TypeConsume ==
    ASSUME TypeInv, NEW s \in Servers, Consume(s)
    PROVE  TypeInv'
<1> USE DEF TypeInv, TypeOK
<1>1. CASE MoveToDLQ(s)
  <2>1. TypeQueue' /\ GroupFirst'
    <3>1. /\ consumer[s].pc \in Working
          /\ Goto(s, "ack")
          /\ dead' \subseteq dead \cup {consumer[s].msg}
          /\ UNCHANGED <<stream, group, delivered, pel>>
      BY <1>1 DEF MoveToDLQ, Working, groupVars
    <3>2. consumer[s].msg \in 1 .. delivered
      BY <3>1 DEF TypeQueue
    <3> QED BY <3>1, <3>2, ConsumerMoves DEF TypeQueue, GroupFirst
  <2>2. UNCHANGED <<mysqlVars, saleVars, memoryVars>>
    BY <1>1 DEF MoveToDLQ, memoryVars, createVars, requestVars
  <2> QED BY <2>1, <2>2, Frames
<1>2. CASE HandleOrderMsg(s)
  <2>1. InHand(s) \in Message
    BY <1>2, InHandInStream DEF HandleOrderMsg, Working
  <2>2. TypeMySQL'
    BY <1>2, <2>1 DEF HandleOrderMsg, Commit, TypeMySQL, Message, Order
  <2>3. TypeQueue' /\ GroupFirst'
    BY <1>2, ConsumerMoves DEF HandleOrderMsg, TypeQueue, GroupFirst,
                               groupVars, Working
  <2>4. UNCHANGED <<saleVars, memoryVars>>
    BY <1>2 DEF HandleOrderMsg, memoryVars, createVars, requestVars
  <2> QED BY <2>2, <2>3, <2>4, Frames
<1>3. CASE RequeueMessage(s)
  <2>1. InHand(s) \in Message
    BY <1>3, InHandInStream DEF RequeueMessage, Working
  <2>2. NextAttempt(InHand(s)) \in Message
    BY <2>1 DEF Message, NextAttempt
  <2>3. stream' \in Seq(Message) /\ Len(stream) <= Len(stream')
    BY <1>3, <2>2, Appended DEF RequeueMessage, TypeQueue
  <2>4. \/ UNCHANGED consumer
        \/ Goto(s, "ack")
        \/ NextMessage(s)
    BY <1>3 DEF RequeueMessage
  <2>5. TypeQueue' /\ GroupFirst'
    BY <1>3, <2>3, <2>4, ConsumerMoves
       DEF RequeueMessage, TypeQueue, GroupFirst, groupVars, Working
  <2>6. UNCHANGED <<mysqlVars, saleVars, memoryVars>>
    BY <1>3 DEF RequeueMessage, memoryVars, createVars, requestVars
  <2> QED BY <2>5, <2>6, Frames
<1>4. CASE Ack(s)
  <2>1. pel' \subseteq pel  BY <1>4 DEF Ack, XAck
  <2>2. TypeQueue' /\ GroupFirst'
    BY <1>4, <2>1, ConsumerMoves DEF Ack, TypeQueue, GroupFirst, Working
  <2>3. UNCHANGED <<mysqlVars, saleVars, memoryVars>>
    BY <1>4 DEF Ack, memoryVars, createVars, requestVars
  <2> QED BY <2>2, <2>3, Frames
<1> QED BY <1>1, <1>2, <1>3, <1>4, TypeCreateGroup, TypeReadPendingMessages
        DEF Consume

LEMMA TypeNext == TypeInv /\ [Next]_vars => TypeInv'
<1> SUFFICES ASSUME TypeInv, [Next]_vars PROVE TypeInv'  OBVIOUS
<1>1. CASE UNCHANGED vars
  <2>1. UNCHANGED <<mysqlVars, saleVars, queueVars, memoryVars>>
    BY <1>1 DEF vars, queueVars, memoryVars, groupVars, createVars, requestVars
  <2> QED BY <2>1, Frames DEF TypeInv, TypeOK
<1>2. CASE Next
  BY <1>2, TypeCreate, TypeSetVoucherStockCache, TypeSeckillVoucher,
     TypeExecScript, TypeConsume, TypeProcess DEF Next
<1> QED BY <1>1, <1>2

LEMMA TypeInit == Init => TypeInv
<1> SUFFICES ASSUME Init PROVE TypeInv  OBVIOUS
<1>1. consumer \in [Servers -> [pc : ConsumerPC, msg : 0 .. 0]]
  <2>1. [pc |-> "start", msg |-> 0] \in [pc : ConsumerPC, msg : 0 .. 0]
    BY DEF ConsumerPC
  <2> QED BY <2>1 DEF Init
<1>2. \A s \in Servers : consumer[s].pc \notin {"read"} \cup Working
  BY DEF Init, Working
<1>3. stream \in Seq(Message) /\ Len(stream) = 0  BY DEF Init
<1>4. TypeQueue /\ GroupFirst
  <2>1. /\ delivered = 0 /\ pel = {} /\ dead = {} /\ group = FALSE
    BY DEF Init
  <2>2. delivered \in 0 .. Len(stream)  BY <1>3, <2>1
  <2>3. consumer \in [Servers -> [pc : ConsumerPC, msg : 0 .. delivered]]
    BY <1>1, <2>1
  <2>4. GroupFirst  BY <1>2, <2>1 DEF GroupFirst
  <2>5. \A s \in Servers : consumer[s].pc \in Working => consumer[s].msg > 0
    BY <1>2
  <2>6. pel \subseteq 1 .. delivered /\ dead \subseteq 1 .. delivered
    BY <2>1
  <2> QED BY <1>3, <2>1, <2>2, <2>3, <2>4, <2>5, <2>6 DEF TypeQueue
<1> QED BY <1>4 DEF Init, TypeInv, TypeOK, TypeMySQL, TypeSale, TypeMemory,
                    Kinds

\* Every reachable state has the types of TypeOK.
THEOREM TypeCorrect == Spec => []TypeOK
<1>1. Init => TypeInv  BY TypeInit
<1>2. TypeInv /\ [Next]_vars => TypeInv'  BY TypeNext
<1>3. TypeInv => TypeOK  BY DEF TypeInv
<1> QED BY <1>1, <1>2, <1>3, PTL DEF Spec

-----------------------------------------------------------------------------
(***************************************************************************)
(* One order per user, and the id he is told.                              *)
(*                                                                         *)
(* Why it holds: an entry is written to the stream by the script, for a    *)
(* user it adds to the buyers in the same step, or is a copy of an earlier *)
(* entry.  So all entries of one user and voucher carry one id, orders and *)
(* answers come from entries, and the primary key of tb_voucher_order lets *)
(* that one id in once.                                                    *)
(***************************************************************************)
EntriesOfBuyers ==
    \A i \in DOMAIN stream : stream[i].user \in buyers[stream[i].voucher]

OneIdPerReservation ==
    \A i, j \in DOMAIN stream :
        SameOrder(stream[i], stream[j]) => stream[i].id = stream[j].id

OrdersFromStream ==
    \A o \in orders : \E i \in DOMAIN stream :
        SameOrder(stream[i], o) /\ stream[i].id = o.id

AnswersFromStream ==
    \A r \in replies : r.res = "taken" =>
        \E i \in DOMAIN stream :
            SameOrder(stream[i], r.call) /\ stream[i].id = r.call.id

OneAnswer ==
    \A r, q \in replies :
        r.res = "taken" /\ q.res = "taken" /\ SameOrder(q.call, r.call) => q = r

StreamInv == EntriesOfBuyers /\ OneIdPerReservation
OrdersInv == OrdersFromStream /\ OneOrderPerUser
RepliesInv == AnswersFromStream /\ OneAnswer

OrderInv == StreamInv /\ OrdersInv /\ RepliesInv

LEMMA OrderFrame ==
    ASSUME OrderInv, UNCHANGED <<buyers, stream, orders, replies>>
    PROVE  OrderInv'
BY DEF OrderInv, StreamInv, OrdersInv, RepliesInv, EntriesOfBuyers,
       OneIdPerReservation, OrdersFromStream, OneOrderPerUser,
       AnswersFromStream, OneAnswer

\* Orders and answers stay backed by entries when the stream grows.
LEMMA OrderStreamGrows ==
    ASSUME TypeInv, OrderInv, NEW m \in Message, stream' = XAdd(stream, m)
    PROVE  /\ UNCHANGED orders => OrdersInv'
           /\ UNCHANGED replies => RepliesInv'
<1>1. /\ DOMAIN stream \subseteq DOMAIN stream'
      /\ \A i \in DOMAIN stream : stream'[i] = stream[i]
  BY Appended DEF TypeInv, TypeOK, TypeQueue
<1>2. UNCHANGED orders => OrdersInv'
  BY <1>1 DEF OrderInv, OrdersInv, OrdersFromStream, OneOrderPerUser
<1>3. UNCHANGED replies => RepliesInv'
  BY <1>1 DEF OrderInv, RepliesInv, AnswersFromStream, OneAnswer
<1> QED BY <1>2, <1>3

LEMMA OrderExecScript ==
    ASSUME TypeInv, OrderInv, NEW c \in calls, ExecScript(c)
    PROVE  OrderInv'
<1>1. /\ c \in Call
      /\ Reserves(c) \/ UNCHANGED <<saleVars, stream>>
      /\ \/ UNCHANGED <<calls, replies>>
         \/ \E r \in Results : Reply(c, r) /\ (r = "taken" => Reserves(c))
      /\ UNCHANGED orders
  BY ExecScriptCases DEF mysqlVars
<1>2. TypeQueue /\ TypeSale  BY DEF TypeInv, TypeOK
<1>3. CASE Reserves(c)
  <2>1. /\ OrderMessage(c) \in Message
        /\ SameOrder(OrderMessage(c), c)
        /\ OrderMessage(c).id = c.id
        /\ OrderMessage(c).user = c.user
        /\ OrderMessage(c).voucher = c.voucher
    BY <1>1 DEF OrderMessage, Call, Message, SameOrder
  <2>2. /\ stream' = XAdd(stream, OrderMessage(c))
        /\ c.user \notin buyers[c.voucher]
        /\ buyers' = [buyers EXCEPT ![c.voucher] = @ \cup {c.user}]
        /\ c.voucher \in Vouchers
    BY <1>1, <1>3 DEF Reserves, Call
  <2>3. /\ DOMAIN stream' = DOMAIN stream \cup {Len(stream) + 1}
        /\ Len(stream) + 1 \notin DOMAIN stream
        /\ \A i \in DOMAIN stream : stream'[i] = stream[i]
        /\ stream'[Len(stream) + 1] = OrderMessage(c)
    <3>1. /\ Len(stream) \in Nat
          /\ DOMAIN stream = 1 .. Len(stream)
          /\ DOMAIN stream' = 1 .. Len(stream) + 1
          /\ \A i \in DOMAIN stream : stream'[i] = stream[i]
          /\ stream'[Len(stream) + 1] = OrderMessage(c)
      BY <1>2, <2>1, <2>2, Appended DEF TypeQueue
    <3> QED BY <3>1
  \* no entry of this user and voucher existed
  <2>4. \A i \in DOMAIN stream : ~SameOrder(stream[i], OrderMessage(c))
    BY <2>1, <2>2 DEF OrderInv, StreamInv, EntriesOfBuyers, SameOrder
  <2>5. EntriesOfBuyers'
    <3>1. \A i \in DOMAIN stream : stream[i].voucher \in Vouchers
      BY <1>2, EntriesAreMessages DEF Message
    <3>2. \A v \in Vouchers : buyers[v] \subseteq buyers'[v]
      BY <1>2, <2>2 DEF TypeSale
    <3>3. c.user \in buyers'[c.voucher]
      BY <1>2, <2>2 DEF TypeSale
    <3> QED BY <2>1, <2>3, <3>1, <3>2, <3>3
            DEF OrderInv, StreamInv, EntriesOfBuyers
  <2>6. OneIdPerReservation'
    BY <2>3, <2>4 DEF OrderInv, StreamInv, OneIdPerReservation, SameOrder
  <2>7. OrdersInv'
    BY <1>1, <2>1, <2>2, OrderStreamGrows
  <2>8. RepliesInv'
    <3>1. CASE UNCHANGED replies
      BY <2>1, <2>2, <3>1, OrderStreamGrows
    <3>2. CASE \E r \in Results : Reply(c, r)
      <4>1. PICK r \in Results : replies' = replies \cup {[call |-> c, res |-> r]}
        BY <3>2 DEF Reply
      \* nobody has been told yet that it is this user's
      <4>2. \A q \in replies : q.res = "taken" => ~SameOrder(q.call, c)
        BY <2>1, <2>4 DEF OrderInv, RepliesInv, AnswersFromStream, SameOrder
      <4>3. AnswersFromStream'
        BY <2>1, <2>3, <4>1 DEF OrderInv, RepliesInv, AnswersFromStream
      <4>4. OneAnswer'
        BY <4>1, <4>2 DEF OrderInv, RepliesInv, OneAnswer, SameOrder
      <4> QED BY <4>3, <4>4 DEF RepliesInv
    <3> QED BY <1>1, <3>1, <3>2
  <2> QED BY <2>5, <2>6, <2>7, <2>8 DEF OrderInv, StreamInv
<1>4. CASE ~Reserves(c)
  <2>1. UNCHANGED <<buyers, stream, orders>>
    BY <1>1, <1>4 DEF saleVars
  <2>2. CASE UNCHANGED replies
    BY <2>1, <2>2, OrderFrame
  <2>3. CASE \E r \in Results : Reply(c, r) /\ r # "taken"
    <3>1. PICK r \in Results :
             /\ r # "taken"
             /\ replies' = replies \cup {[call |-> c, res |-> r]}
      BY <2>3 DEF Reply
    <3>2. RepliesInv'
      BY <2>1, <3>1 DEF OrderInv, RepliesInv, AnswersFromStream, OneAnswer
    <3>3. StreamInv' /\ OrdersInv'
      BY <2>1 DEF OrderInv, StreamInv, OrdersInv, EntriesOfBuyers,
                  OneIdPerReservation, OrdersFromStream, OneOrderPerUser
    <3> QED BY <3>2, <3>3 DEF OrderInv
  <2> QED BY <1>1, <1>4, <2>2, <2>3
<1> QED BY <1>3, <1>4

\* A transaction that applies makes the first order of a user with a
\* reservation: an order he had would have this message's id.
LEMMA AppliesToPending ==
    ASSUME TypeInv, OrderInv, NEW s \in Servers, consumer[s].pc = "handle",
           Applies(InHand(s))
    PROVE  InHand(s).user \in Pending(InHand(s).voucher)
<1> DEFINE m == InHand(s)
<1>1. consumer[s].msg \in DOMAIN stream /\ m = stream[consumer[s].msg]
  BY InHandInStream DEF TypeInv, TypeOK, Working, InHand
<1>2. m.user \in buyers[m.voucher]
  BY <1>1 DEF OrderInv, StreamInv, EntriesOfBuyers
<1>3. \A o \in orders : o.id # m.id  BY DEF Applies
<1>4. \A o \in orders : ~(o.user = m.user /\ o.voucher = m.voucher)
  BY <1>1, <1>3 DEF OrderInv, StreamInv, OneIdPerReservation, OrdersInv,
                    OrdersFromStream, SameOrder
<1> QED BY <1>2, <1>4 DEF Pending, HasOrder

LEMMA OrderHandleOrderMsg ==
    ASSUME TypeInv, OrderInv, NEW s \in Servers, HandleOrderMsg(s)
    PROVE  OrderInv'
<1>1. UNCHANGED <<buyers, stream, replies>>
  BY DEF HandleOrderMsg, saleVars, requestVars
<1>2. CASE UNCHANGED orders
  BY <1>1, <1>2, OrderFrame
<1>3. CASE Applies(InHand(s)) /\ Commit(InHand(s))
  <2> DEFINE m == InHand(s)
             new == [id |-> m.id, user |-> m.user, voucher |-> m.voucher]
  <2>1. consumer[s].msg \in DOMAIN stream /\ m = stream[consumer[s].msg]
    BY InHandInStream DEF TypeInv, TypeOK, HandleOrderMsg, Working, InHand
  <2>2. orders' = orders \cup {new}  BY <1>3 DEF Commit
  <2>4. OrdersFromStream'
    BY <1>1, <2>1, <2>2 DEF OrderInv, OrdersInv, OrdersFromStream, SameOrder
  <2>5. \A o \in orders : ~SameOrder(o, new)
    BY <1>3, AppliesToPending DEF HandleOrderMsg, Pending, HasOrder, SameOrder
  <2>6. OneOrderPerUser'
    BY <2>2, <2>5 DEF OrderInv, OrdersInv, OneOrderPerUser, SameOrder
  <2>7. StreamInv' /\ RepliesInv'
    BY <1>1 DEF OrderInv, StreamInv, RepliesInv, EntriesOfBuyers,
                OneIdPerReservation, AnswersFromStream, OneAnswer
  <2> QED BY <2>4, <2>6, <2>7 DEF OrderInv, OrdersInv
<1> QED BY <1>2, <1>3 DEF HandleOrderMsg

LEMMA OrderRequeueMessage ==
    ASSUME TypeInv, OrderInv, NEW s \in Servers, RequeueMessage(s)
    PROVE  OrderInv'
<1>1. UNCHANGED <<buyers, orders, replies>>
  BY DEF RequeueMessage, mysqlVars, saleVars, requestVars
<1>2. CASE UNCHANGED stream
  BY <1>1, <1>2, OrderFrame
<1>3. CASE stream' = XAdd(stream, NextAttempt(InHand(s)))
  <2> DEFINE m == InHand(s)
             next == NextAttempt(InHand(s))
  <2>1. /\ consumer[s].msg \in DOMAIN stream
        /\ m = stream[consumer[s].msg]
        /\ m \in Message
    BY InHandInStream DEF TypeInv, TypeOK, RequeueMessage, Working, InHand
  <2>2. /\ next \in Message
        /\ next.id = m.id /\ next.user = m.user /\ next.voucher = m.voucher
    BY <2>1 DEF NextAttempt, Message
  <2>3. /\ DOMAIN stream' = DOMAIN stream \cup {Len(stream) + 1}
        /\ \A i \in DOMAIN stream : stream'[i] = stream[i]
        /\ stream'[Len(stream) + 1] = next
    <3>1. /\ Len(stream) \in Nat
          /\ DOMAIN stream = 1 .. Len(stream)
          /\ DOMAIN stream' = 1 .. Len(stream) + 1
          /\ \A i \in DOMAIN stream : stream'[i] = stream[i]
          /\ stream'[Len(stream) + 1] = next
      BY <1>3, <2>2, Appended DEF TypeInv, TypeOK, TypeQueue
    <3> QED BY <3>1
  \* each entry reads as an entry that was there before
  <2>4. \A i \in DOMAIN stream' : \E k \in DOMAIN stream :
           /\ stream'[i].user = stream[k].user
           /\ stream'[i].voucher = stream[k].voucher
           /\ stream'[i].id = stream[k].id
    BY <2>1, <2>2, <2>3
  <2>5. EntriesOfBuyers'
    BY <1>1, <2>4 DEF OrderInv, StreamInv, EntriesOfBuyers
  <2>6. OneIdPerReservation'
    BY <2>4 DEF OrderInv, StreamInv, OneIdPerReservation, SameOrder
  <2>7. OrdersInv' /\ RepliesInv'
    BY <1>1, <1>3, <2>2, OrderStreamGrows
  <2> QED BY <2>5, <2>6, <2>7 DEF OrderInv, StreamInv
<1> QED BY <1>2, <1>3 DEF RequeueMessage

\* The other steps leave buyers, stream, orders and replies alone.
LEMMA OrderNext == TypeInv /\ OrderInv /\ [Next]_vars => OrderInv'
<1> SUFFICES ASSUME TypeInv, OrderInv, [Next]_vars PROVE OrderInv'  OBVIOUS
<1> USE DEF mysqlVars, saleVars, requestVars
<1>1. CASE UNCHANGED vars
  BY <1>1, OrderFrame DEF vars
<1>2. CASE \E s \in Servers, v \in Vouchers : Create(s, v)
  BY <1>2, OrderFrame DEF Create, CreateOrdinaryVoucher, CreateSeckillVoucher
<1>3. CASE \E v \in Vouchers : SetVoucherStockCache(v)
  BY <1>3, OrderFrame DEF SetVoucherStockCache
<1>4. CASE \E s \in Servers, u \in Users, v \in Vouchers : SeckillVoucher(s, u, v)
  BY <1>4, OrderFrame DEF SeckillVoucher
<1>5. CASE \E s \in Servers : Crash(s) \/ Restart(s)
  BY <1>5, OrderFrame DEF Crash, Restart
<1>6. ASSUME NEW s \in Servers, Consume(s) PROVE OrderInv'
  <2>1. CASE CreateGroup(s)
    BY <2>1, OrderFrame DEF CreateGroup
  <2>2. CASE ReadPendingMessages(s)
    BY <2>2, OrderFrame DEF ReadPendingMessages
  <2>3. CASE MoveToDLQ(s)
    BY <2>3, OrderFrame DEF MoveToDLQ
  <2>4. CASE Ack(s)
    BY <2>4, OrderFrame DEF Ack
  <2> QED BY <1>6, <2>1, <2>2, <2>3, <2>4, OrderHandleOrderMsg,
             OrderRequeueMessage DEF Consume
<1> QED BY <1>1, <1>2, <1>3, <1>4, <1>5, <1>6, OrderExecScript DEF Next

LEMMA OrderInit == Init => OrderInv
BY DEF Init, OrderInv, StreamInv, OrdersInv, RepliesInv, EntriesOfBuyers,
       OneIdPerReservation, OrdersFromStream, OneOrderPerUser,
       AnswersFromStream, OneAnswer

\* Nobody has two orders of a voucher, whatever fails, is sent twice or is
\* numbered twice.
THEOREM OneOrder == Spec => []OneOrderPerUser
<1>1. Init => TypeInv /\ OrderInv  BY TypeInit, OrderInit
<1>2. TypeInv /\ OrderInv /\ [Next]_vars => (TypeInv /\ OrderInv)'
  BY TypeNext, OrderNext
<1>3. TypeInv /\ OrderInv => OneOrderPerUser  BY DEF OrderInv, OrdersInv
<1> QED BY <1>1, <1>2, <1>3, PTL DEF Spec

\* An order id told to a user is told once, and is the id of his order.
THEOREM Answers == Spec => []AnswerHonoured
<1>1. Init => TypeInv /\ OrderInv  BY TypeInit, OrderInit
<1>2. TypeInv /\ OrderInv /\ [Next]_vars => (TypeInv /\ OrderInv)'
  BY TypeNext, OrderNext
<1>3. TypeInv /\ OrderInv => AnswerHonoured
  <2> SUFFICES ASSUME OrderInv, NEW r \in replies, r.res = "taken"
               PROVE  /\ r.call.user \in buyers[r.call.voucher]
                      /\ \A q \in replies :
                            q.res = "taken" /\ SameOrder(q.call, r.call) => q = r
                      /\ \A o \in orders : SameOrder(o, r.call) => o.id = r.call.id
    BY DEF AnswerHonoured
  <2>1. PICK i \in DOMAIN stream :
           SameOrder(stream[i], r.call) /\ stream[i].id = r.call.id
    BY DEF OrderInv, RepliesInv, AnswersFromStream
  <2>2. r.call.user \in buyers[r.call.voucher]
    BY <2>1 DEF OrderInv, StreamInv, EntriesOfBuyers, SameOrder
  <2>3. \A o \in orders : SameOrder(o, r.call) => o.id = r.call.id
    BY <2>1 DEF OrderInv, OrdersInv, OrdersFromStream, StreamInv,
                OneIdPerReservation, SameOrder
  <2> QED BY <2>2, <2>3 DEF OrderInv, RepliesInv, OneAnswer
<1> QED BY <1>1, <1>2, <1>3, PTL DEF Spec
=============================================================================
