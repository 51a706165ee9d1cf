------------------------- MODULE SeckillQueueProofs ------------------------
(***************************************************************************)
(* Theorems about the queue of Seckill: which copy of a message is being   *)
(* worked on, what becomes of a reservation, and whether it can be kept.   *)
(***************************************************************************)
EXTENDS SeckillStockProofs

InWork == {"handle", "requeue"}

\* The entry has still to be handled, or is being handled.
Live(i) ==
    \/ i > delivered
    \/ \E s \in Servers : consumer[s].msg = i /\ consumer[s].pc \in InWork

LEMMA WorkingMessage ==
    ASSUME TypeInv, NEW s \in Servers, consumer[s].pc \in InWork
    PROVE  /\ consumer[s].msg \in DOMAIN stream
           /\ consumer[s].msg \in 1 .. delivered
           /\ stream[consumer[s].msg] = InHand(s)
           /\ InHand(s) \in Message
<1>1. consumer[s].pc \in Working  BY DEF InWork, Working
<1>2. consumer[s].msg \in 0 .. delivered /\ consumer[s].msg > 0
  BY <1>1 DEF TypeInv, TypeOK, TypeQueue
<1> QED BY <1>1, <1>2, InHandInStream DEF TypeInv, TypeOK, InHand

\* An entry is appended.
LEMMA Grows ==
    ASSUME TypeInv, NEW m \in Message, stream' = XAdd(stream, m)
    PROVE  /\ DOMAIN stream' = DOMAIN stream \cup {Len(stream) + 1}
           /\ \A i \in DOMAIN stream : i < Len(stream) + 1 /\ i \in Nat
           /\ Len(stream) + 1 > delivered
           /\ \A i \in DOMAIN stream : stream'[i] = stream[i]
           /\ stream'[Len(stream) + 1] = m
<1>1. /\ stream \in Seq(Message) /\ delivered \in 0 .. Len(stream)
  BY DEF TypeInv, TypeOK, TypeQueue
<1>2. /\ DOMAIN stream = 1 .. Len(stream)
      /\ DOMAIN stream' = 1 .. Len(stream) + 1
      /\ \A i \in DOMAIN stream : stream'[i] = stream[i]
      /\ stream'[Len(stream) + 1] = m
  BY <1>1, Appended
<1>3. Len(stream) \in Nat  BY <1>1
<1> QED BY <1>1, <1>2, <1>3

(***************************************************************************)
(* What a step can do to the queue.  Unless a command is executed twice,   *)
(* a message is requeued by the one consumer that has it in hand, which    *)
(* then has it in hand no more.                                            *)
(***************************************************************************)
queue == <<stream, delivered, dead, consumer>>

\* A consumer leaves what it has in hand, or has nothing.
Leaves(s) ==
    /\ consumer'[s].pc \notin InWork
    /\ \A t \in Servers : t # s => consumer'[t] = consumer[t]

LEMMA ConsumerSteps ==
    ASSUME TypeInv, NEW s \in Servers
    PROVE  /\ NextMessage(s) => Leaves(s)
           /\ Goto(s, "ack") => Leaves(s)
           /\ Die(s) => Leaves(s)
           /\ Goto(s, "requeue") =>
                 /\ consumer'[s].pc = "requeue"
                 /\ consumer'[s].msg = consumer[s].msg
                 /\ \A t \in Servers : t # s => consumer'[t] = consumer[t]
<1>1. consumer \in [Servers -> [pc : ConsumerPC, msg : 0 .. delivered]]
  BY DEF TypeInv, TypeOK, TypeQueue
<1>2. DOMAIN consumer = Servers  BY <1>1
<1>3. NextMessage(s) => Leaves(s)
  BY <1>2 DEF NextMessage, Leaves, InWork
<1>4. Goto(s, "ack") => Leaves(s)
  BY <1>2 DEF Goto, Leaves, InWork
<1>5. Die(s) => Leaves(s)
  BY <1>2 DEF Die, Leaves, InWork
<1>6. Goto(s, "requeue") =>
        /\ consumer'[s].pc = "requeue"
        /\ consumer'[s].msg = consumer[s].msg
        /\ \A t \in Servers : t # s => consumer'[t] = consumer[t]
  BY <1>2 DEF Goto
<1> QED BY <1>3, <1>4, <1>5, <1>6

Enters(s) ==
    /\ delivered' = delivered + 1
    /\ delivered' \in DOMAIN stream
    /\ UNCHANGED <<stream, dead>>
    /\ \/ {"replyLost", "resent"} \cap FaultKinds # {} /\ UNCHANGED consumer
       \/ /\ consumer[s].pc \notin InWork
          /\ consumer'[s] = [pc |-> "handle", msg |-> delivered + 1]
          /\ \A t \in Servers : t # s => consumer'[t] = consumer[t]

Requeues(s) ==
    /\ consumer[s].pc = "requeue"
    /\ stream' = XAdd(stream, NextAttempt(InHand(s)))
    /\ Leaves(s)
    /\ UNCHANGED <<delivered, dead>>

Buries(s) ==
    /\ consumer[s].pc = "handle"
    /\ Leaves(s)
    /\ UNCHANGED <<stream, delivered>>
    /\ \/ dead' = dead \cup {consumer[s].msg}
       \/ "refused" \in FaultKinds /\ UNCHANGED dead

Attempts(s) ==
    /\ consumer[s].pc = "handle"
    /\ InHand(s).retry < MaxRetries
    /\ consumer'[s].msg = consumer[s].msg
    /\ consumer'[s].pc = "requeue"
    /\ \A t \in Servers : t # s => consumer'[t] = consumer[t]
    /\ UNCHANGED <<stream, delivered, dead>>

LEMMA CreatedGroup ==
    ASSUME TypeInv, NEW s \in Servers, CreateGroup(s)
    PROVE  /\ consumer[s].pc \notin InWork /\ Leaves(s)
           /\ UNCHANGED <<stream, delivered, dead>>
<1>1. delivered' = delivered
  BY GroupKeepsPosition DEF CreateGroup, TypeInv
<1>2. consumer[s].pc \notin InWork  BY DEF CreateGroup, InWork
<1>3. Leaves(s)  BY ConsumerSteps DEF CreateGroup
<1> QED BY <1>1, <1>2, <1>3 DEF CreateGroup

LEMMA Entered ==
    ASSUME TypeInv, NEW s \in Servers, ReadPendingMessages(s)
    PROVE  Enters(s)
<1>1. /\ consumer \in [Servers -> [pc : ConsumerPC, msg : 0 .. delivered]]
      /\ delivered \in 0 .. Len(stream) /\ stream \in Seq(Message)
  BY DEF TypeInv, TypeOK, TypeQueue
<1>2. delivered' = delivered + 1 /\ delivered' \in DOMAIN stream
  <2>1. DOMAIN stream = 1 .. Len(stream)  BY <1>1
  <2> QED BY <1>1, <2>1 DEF ReadPendingMessages
<1>3. consumer[s].pc \notin InWork  BY DEF ReadPendingMessages, InWork
<1> QED BY <1>1, <1>2, <1>3 DEF ReadPendingMessages, Enters, Fault

LEMMA Buried ==
    ASSUME TypeInv, NEW s \in Servers, MoveToDLQ(s) PROVE Buries(s)
BY ConsumerSteps DEF MoveToDLQ, Buries, Fault, groupVars

LEMMA Requeued ==
    ASSUME "resent" \notin FaultKinds, TypeInv, NEW s \in Servers,
           RequeueMessage(s)
    PROVE  \/ Requeues(s)
           \/ /\ "refused" \in FaultKinds /\ consumer[s].pc = "requeue"
              /\ Leaves(s) /\ UNCHANGED <<stream, delivered, dead>>
BY ConsumerSteps DEF RequeueMessage, Requeues, Fault, groupVars

\* The script adds the first entry of a reservation or none.
Sells(c) ==
    /\ OrderMessage(c) \in Message
    /\ stream' = XAdd(stream, OrderMessage(c))
    /\ \A i \in DOMAIN stream : ~SameOrder(stream[i], OrderMessage(c))
    /\ ~HasOrder(c.user, c.voucher)
    /\ UNCHANGED <<orders, delivered, dead, consumer>>

LEMMA Sold ==
    ASSUME TypeInv, OrderInv, NEW c \in calls, ExecScript(c)
    PROVE  \/ c \in Call /\ Reserves(c) /\ Sells(c)
           \/ UNCHANGED <<saleVars, queue, orders>>
<1>1. /\ c \in Call
      /\ Reserves(c) \/ UNCHANGED <<saleVars, stream>>
      /\ UNCHANGED <<orders, delivered, dead, consumer>>
  BY ExecScriptCases DEF mysqlVars, groupVars
<1>2. CASE Reserves(c)
  <2>1. OrderMessage(c) \in Message  BY <1>1 DEF OrderMessage, Call, Message
  <2>2. \A i \in DOMAIN stream : ~SameOrder(stream[i], OrderMessage(c))
    BY <1>2 DEF Reserves, OrderMessage, OrderInv, StreamInv, EntriesOfBuyers,
                SameOrder
  <2>3. ~HasOrder(c.user, c.voucher)
    BY <2>2 DEF HasOrder, OrderMessage, OrderInv, OrdersInv, OrdersFromStream,
                SameOrder
  <2> QED BY <1>1, <1>2, <2>1, <2>2, <2>3 DEF Sells, Reserves
<1> QED BY <1>1, <1>2 DEF queue

-----------------------------------------------------------------------------
(***************************************************************************)
(* Attempts.  Of the copies of a message only the last can be live, and    *)
(* one consumer has it in hand: so a copy is made of the last copy, with   *)
(* one more retry, and is then the last.                                   *)
(***************************************************************************)
LiveIsLast ==
    \A i, j \in DOMAIN stream :
        Live(i) /\ i < j => ~SameOrder(stream[i], stream[j])

OneWorker ==
    \A s, t \in Servers :
        /\ consumer[s].pc \in InWork /\ consumer[t].pc \in InWork
        /\ consumer[s].msg = consumer[t].msg
        => s = t

RetryLeft ==
    \A s \in Servers : consumer[s].pc = "requeue" => InHand(s).retry < MaxRetries

AttemptInv == LiveIsLast /\ OneWorker /\ RetryLeft /\ AttemptsInOrder

LEMMA AttemptFrame ==
    ASSUME AttemptInv, UNCHANGED queue PROVE AttemptInv'
BY DEF AttemptInv, LiveIsLast, OneWorker, RetryLeft, AttemptsInOrder, queue,
       Live, InHand

\* A consumer that has nothing in hand after the step; no entry is added.
LEMMA AttemptLeaves ==
    ASSUME TypeInv, AttemptInv, NEW s \in Servers, Leaves(s),
           UNCHANGED <<stream, delivered>>
    PROVE  AttemptInv'
<1>1. \A i \in DOMAIN stream : Live(i)' => Live(i)
  BY DEF Live, Leaves
<1>2. LiveIsLast'  BY <1>1 DEF AttemptInv, LiveIsLast
<1>3. OneWorker'  BY DEF AttemptInv, OneWorker, Leaves
<1>4. RetryLeft'
  BY DEF AttemptInv, RetryLeft, Leaves, InHand, InWork
<1>5. AttemptsInOrder'  BY DEF AttemptInv, AttemptsInOrder
<1> QED BY <1>2, <1>3, <1>4, <1>5 DEF AttemptInv

\* What a consumer has in hand is in nobody's hands once it leaves it.
LEMMA HandsOff ==
    ASSUME TypeInv, OneWorker, NEW s \in Servers, consumer[s].pc \in InWork,
           Leaves(s), UNCHANGED delivered
    PROVE  \A i \in DOMAIN stream : Live(i)' => Live(i) /\ i # consumer[s].msg
<1>1. consumer[s].msg \in 1 .. delivered  BY WorkingMessage
<1>2. delivered \in Nat /\ DOMAIN stream \subseteq Nat
  BY DEF TypeInv, TypeOK, TypeQueue
<1> SUFFICES ASSUME NEW i \in DOMAIN stream, Live(i)'
             PROVE  Live(i) /\ i # consumer[s].msg
  OBVIOUS
<1>3. CASE i > delivered'
  BY <1>1, <1>2, <1>3 DEF Live
<1>4. ASSUME NEW t \in Servers, consumer'[t].msg = i, consumer'[t].pc \in InWork
      PROVE  Live(i) /\ i # consumer[s].msg
  <2>1. t # s /\ consumer'[t] = consumer[t]  BY <1>4 DEF Leaves
  <2> QED BY <1>4, <2>1 DEF Live, OneWorker
<1> QED BY <1>3, <1>4 DEF Live

\* A process that stops or starts has nothing in hand.
LEMMA ProcessLeaves ==
    ASSUME TypeInv, NEW s \in Servers, Crash(s) \/ Restart(s)
    PROVE  Leaves(s)
<1>1. CASE Crash(s)  BY <1>1, ConsumerSteps DEF Crash
<1>2. CASE Restart(s)
  BY <1>2 DEF Restart, Leaves, InWork, TypeInv, TypeOK, TypeQueue
<1> QED BY <1>1, <1>2

\* An attempt that fails leaves the message in hand.
LEMMA AttemptsLive ==
    ASSUME NEW s \in Servers, Attempts(s)
    PROVE  \A i \in DOMAIN stream : Live(i)' <=> Live(i)
BY DEF Attempts, Live, InWork

\* A message delivered was live before.
LEMMA EntersLive ==
    ASSUME TypeInv, NEW s \in Servers, Enters(s)
    PROVE  /\ delivered \in Nat
           /\ \A t \in Servers : consumer[t].msg \in Nat
                                 /\ consumer[t].msg <= delivered
           /\ \A i \in DOMAIN stream : Live(i)' => Live(i)
<1>1. /\ delivered \in Nat
      /\ \A t \in Servers : consumer[t].msg \in Nat /\ consumer[t].msg <= delivered
      /\ DOMAIN stream \subseteq Nat
  <2>1. stream \in Seq(Message) /\ delivered \in 0 .. Len(stream)
        /\ consumer \in [Servers -> [pc : ConsumerPC, msg : 0 .. delivered]]
    BY DEF TypeInv, TypeOK, TypeQueue
  <2>2. DOMAIN stream = 1 .. Len(stream)  BY <2>1
  <2> QED BY <2>1, <2>2
<1>2. \A i \in DOMAIN stream : Live(i)' => Live(i)
  <2> SUFFICES ASSUME NEW i \in DOMAIN stream, Live(i)' PROVE Live(i)
    OBVIOUS
  <2>1. CASE i > delivered'
    BY <1>1, <2>1 DEF Enters, Live
  <2>2. CASE \E t \in Servers : consumer'[t].msg = i /\ consumer'[t].pc \in InWork
    <3>1. PICK t \in Servers : consumer'[t].msg = i /\ consumer'[t].pc \in InWork
      BY <2>2
    <3>2. consumer'[t] = consumer[t] \/ i = delivered + 1
      BY <3>1 DEF Enters
    <3> QED BY <1>1, <3>1, <3>2 DEF Live
  <2> QED BY <2>1, <2>2 DEF Live
<1> QED BY <1>1, <1>2

LEMMA AttemptEnters ==
    ASSUME TypeInv, AttemptInv, NEW s \in Servers, Enters(s)
    PROVE  AttemptInv'
<1>1. /\ delivered \in Nat
      /\ \A t \in Servers : consumer[t].msg \in Nat /\ consumer[t].msg <= delivered
      /\ \A i \in DOMAIN stream : Live(i)' => Live(i)
  BY EntersLive
<1>2. LiveIsLast'  BY <1>1 DEF AttemptInv, LiveIsLast, Enters
<1>3. OneWorker'
  <2> SUFFICES ASSUME NEW t \in Servers, NEW u \in Servers,
                      consumer'[t].pc \in InWork, consumer'[u].pc \in InWork,
                      consumer'[t].msg = consumer'[u].msg
               PROVE  t = u
    BY DEF OneWorker
  <2>1. CASE consumer'[t] = consumer[t] /\ consumer'[u] = consumer[u]
    BY <2>1 DEF AttemptInv, OneWorker
  <2>2. ASSUME NEW x \in Servers, consumer'[x] # consumer[x]
        PROVE  x = s /\ consumer'[x].msg = delivered + 1
    BY <2>2 DEF Enters
  <2>3. \A x \in Servers : consumer[x].msg # delivered + 1  BY <1>1
  <2> QED BY <2>1, <2>2, <2>3
<1>4. RetryLeft'
  BY DEF AttemptInv, RetryLeft, Enters, InHand
<1>5. AttemptsInOrder'  BY DEF AttemptInv, AttemptsInOrder, Enters
<1> QED BY <1>2, <1>3, <1>4, <1>5 DEF AttemptInv

LEMMA AttemptAttempts ==
    ASSUME TypeInv, AttemptInv, NEW s \in Servers, Attempts(s)
    PROVE  AttemptInv'
<1>0. /\ consumer[s].pc \in InWork
      /\ \A t \in Servers :
            /\ consumer'[t].msg = consumer[t].msg
            /\ consumer'[t].pc \in InWork <=> consumer[t].pc \in InWork
            /\ consumer'[t].pc = "requeue" => t = s \/ consumer[t].pc = "requeue"
      /\ UNCHANGED <<stream, delivered>>
  BY DEF Attempts, InWork
<1>1. \A i \in DOMAIN stream : Live(i)' => Live(i)
  BY <1>0 DEF Live
<1>2. LiveIsLast'  BY <1>0, <1>1 DEF AttemptInv, LiveIsLast
<1>3. OneWorker'  BY <1>0 DEF AttemptInv, OneWorker
<1>4. RetryLeft'
  BY <1>0 DEF AttemptInv, RetryLeft, InHand, Attempts
<1>5. AttemptsInOrder'  BY <1>0 DEF AttemptInv, AttemptsInOrder
<1> QED BY <1>2, <1>3, <1>4, <1>5 DEF AttemptInv

LEMMA AttemptRequeues ==
    ASSUME TypeInv, AttemptInv, NEW s \in Servers, Requeues(s)
    PROVE  AttemptInv'
<1> DEFINE k == consumer[s].msg
           n == Len(stream) + 1
<1>1. /\ k \in DOMAIN stream /\ k \in 1 .. delivered
      /\ stream[k] = InHand(s) /\ InHand(s) \in Message
      /\ consumer[s].pc \in InWork
  BY WorkingMessage DEF Requeues, InWork
<1>2. /\ NextAttempt(InHand(s)) \in Message
      /\ NextAttempt(InHand(s)).retry = stream[k].retry + 1
      /\ \A m : SameOrder(m, NextAttempt(InHand(s))) <=> SameOrder(m, stream[k])
  BY <1>1 DEF NextAttempt, Message, SameOrder
<1>3. /\ DOMAIN stream' = DOMAIN stream \cup {n}
      /\ \A i \in DOMAIN stream : i < n /\ i \in Nat
      /\ \A i \in DOMAIN stream : stream'[i] = stream[i]
      /\ stream'[n] = NextAttempt(InHand(s))
      /\ n > delivered
  BY <1>2, Grows DEF Requeues
<1>4. Live(k)  BY <1>1 DEF Live
\* the copies so far do not come after the one in hand
<1>5. \A i \in DOMAIN stream : SameOrder(stream[i], stream[k]) => i <= k
  <2> SUFFICES ASSUME NEW i \in DOMAIN stream, k < i
               PROVE  ~SameOrder(stream[i], stream[k])
    BY <1>1, <1>3
  <2> QED BY <1>1, <1>4 DEF AttemptInv, LiveIsLast, SameOrder
<1>6. \A i \in DOMAIN stream : Live(i)' => Live(i) /\ i # k
  BY <1>1, HandsOff DEF AttemptInv, Requeues
<1>7. LiveIsLast'
  <2> SUFFICES ASSUME NEW i \in DOMAIN stream', NEW j \in DOMAIN stream',
                      Live(i)', i < j
               PROVE  ~SameOrder(stream'[i], stream'[j])
    BY DEF LiveIsLast
  <2>1. i \in DOMAIN stream  BY <1>3
  <2>2. CASE j \in DOMAIN stream
    BY <1>3, <1>6, <2>1, <2>2 DEF AttemptInv, LiveIsLast
  <2>3. CASE j = n
    <3>1. Live(i) /\ i # k  BY <1>6, <2>1
    <3> SUFFICES ASSUME SameOrder(stream[i], stream[k]) PROVE FALSE
      BY <1>2, <1>3, <2>1, <2>3
    <3>2. i < k  BY <1>1, <1>3, <1>5, <2>1, <3>1
    <3> QED BY <1>1, <2>1, <3>1, <3>2 DEF AttemptInv, LiveIsLast
  <2> QED BY <1>3, <2>2, <2>3
<1>8. OneWorker'  BY DEF AttemptInv, OneWorker, Requeues, Leaves
<1>9. RetryLeft'
  <2> SUFFICES ASSUME NEW t \in Servers, consumer'[t].pc = "requeue"
               PROVE  stream'[consumer'[t].msg].retry < MaxRetries
    BY DEF RetryLeft, InHand
  <2>1. t # s /\ consumer'[t] = consumer[t]
    BY DEF Requeues, Leaves, InWork
  <2>2. consumer[t].msg \in DOMAIN stream
    BY <2>1, WorkingMessage DEF InWork
  <2> QED BY <1>3, <2>1, <2>2 DEF AttemptInv, RetryLeft, InHand
<1>10. AttemptsInOrder'
  <2>1. \A i \in DOMAIN stream : stream[i].retry \in Nat
    BY EntriesAreMessages DEF TypeInv, TypeOK, Message
  <2>2. stream[k].retry < MaxRetries
    BY <1>1 DEF Requeues, AttemptInv, RetryLeft
  <2> SUFFICES ASSUME NEW i \in DOMAIN stream', NEW j \in DOMAIN stream',
                      i < j, SameOrder(stream'[i], stream'[j])
               PROVE  stream'[i].retry < stream'[j].retry
                      /\ stream'[j].retry <= MaxRetries
    BY DEF AttemptsInOrder
  <2>3. i \in DOMAIN stream  BY <1>3
  <2>4. CASE j \in DOMAIN stream
    BY <1>3, <2>3, <2>4 DEF AttemptInv, AttemptsInOrder
  <2>5. CASE j = n
    <3>1. SameOrder(stream[i], stream[k])  BY <1>2, <1>3, <2>3, <2>5
    <3>2. i <= k  BY <1>5, <2>3, <3>1
    <3>3. stream[i].retry <= stream[k].retry
      <4>1. CASE i = k  BY <1>1, <2>1, <4>1
      <4>2. CASE i < k
        BY <1>1, <2>1, <2>3, <3>1, <4>2 DEF AttemptInv, AttemptsInOrder
      <4> QED BY <1>1, <1>3, <2>3, <3>2, <4>1, <4>2
    <3>4. stream'[j].retry = stream[k].retry + 1  BY <1>2, <1>3, <2>5
    <3> QED BY <1>1, <1>3, <2>1, <2>2, <2>3, <3>3, <3>4, MaxRetriesAssumption
  <2> QED BY <1>3, <2>4, <2>5
<1> QED BY <1>7, <1>8, <1>9, <1>10 DEF AttemptInv

LEMMA AttemptSells ==
    ASSUME TypeInv, AttemptInv, NEW c \in Call, Sells(c)
    PROVE  AttemptInv'
<1> DEFINE n == Len(stream) + 1
           m == OrderMessage(c)
<1>1. /\ DOMAIN stream' = DOMAIN stream \cup {n}
      /\ \A i \in DOMAIN stream : i < n /\ i \in Nat
      /\ \A i \in DOMAIN stream : stream'[i] = stream[i]
      /\ stream'[n] = m
      /\ \A i \in DOMAIN stream : ~SameOrder(stream[i], m)
      /\ UNCHANGED <<delivered, consumer>>
  BY Grows DEF Sells
<1>2. \A i \in DOMAIN stream : Live(i)' => Live(i)  BY <1>1 DEF Live
<1>3. LiveIsLast'
  BY <1>1, <1>2 DEF AttemptInv, LiveIsLast
<1>4. OneWorker'  BY <1>1 DEF AttemptInv, OneWorker
<1>5. RetryLeft'
  <2> SUFFICES ASSUME NEW t \in Servers, consumer[t].pc = "requeue"
               PROVE  stream'[consumer[t].msg].retry < MaxRetries
    BY <1>1 DEF RetryLeft, InHand
  <2>1. consumer[t].msg \in DOMAIN stream  BY WorkingMessage DEF InWork
  <2> QED BY <1>1, <2>1 DEF AttemptInv, RetryLeft, InHand
<1>6. AttemptsInOrder'
  BY <1>1 DEF AttemptInv, AttemptsInOrder
<1> QED BY <1>3, <1>4, <1>5, <1>6 DEF AttemptInv

LEMMA Handled ==
    ASSUME TypeInv, NEW s \in Servers, HandleOrderMsg(s)
    PROVE  /\ consumer[s].pc = "handle"
           /\ UNCHANGED <<stream, delivered, dead>>
           /\ \/ Leaves(s) /\ Applies(InHand(s)) /\ Commit(InHand(s))
              \/ /\ "commitLost" \in FaultKinds
                 /\ Attempts(s) /\ Applies(InHand(s)) /\ Commit(InHand(s))
              \/ Attempts(s) /\ UNCHANGED orders
BY ConsumerSteps DEF HandleOrderMsg, Attempts, Fault, groupVars

LEMMA AttemptNext ==
    ASSUME "resent" \notin FaultKinds
    PROVE  TypeInv /\ OrderInv /\ AttemptInv /\ [Next]_vars => AttemptInv'
<1> SUFFICES ASSUME TypeInv, OrderInv, AttemptInv, [Next]_vars
             PROVE  AttemptInv'
  OBVIOUS
<1>1. CASE UNCHANGED vars
  BY <1>1, AttemptFrame DEF vars, queue, groupVars
<1>2. CASE \E s \in Servers, v \in Vouchers : Create(s, v)
  BY <1>2, AttemptFrame DEF Create, CreateOrdinaryVoucher, CreateSeckillVoucher,
                            queue, groupVars
<1>3. CASE \E v \in Vouchers : SetVoucherStockCache(v)
  BY <1>3, AttemptFrame DEF SetVoucherStockCache, queue, groupVars
<1>4. CASE \E s \in Servers, u \in Users, v \in Vouchers : SeckillVoucher(s, u, v)
  BY <1>4, AttemptFrame DEF SeckillVoucher, queue, groupVars
<1>5. ASSUME NEW c \in calls, ExecScript(c) PROVE AttemptInv'
  BY <1>5, Sold, AttemptSells, AttemptFrame DEF queue
<1>6. ASSUME NEW s \in Servers, Crash(s) \/ Restart(s) PROVE AttemptInv'
  <2>1. UNCHANGED <<stream, delivered>>
    BY <1>6 DEF Crash, Restart, groupVars
  <2> QED BY <1>6, <2>1, ProcessLeaves, AttemptLeaves
<1>7. ASSUME NEW s \in Servers, Consume(s) PROVE AttemptInv'
  <2>1. CASE CreateGroup(s)  BY <2>1, CreatedGroup, AttemptLeaves
  <2>2. CASE ReadPendingMessages(s)  BY <2>2, Entered, AttemptEnters
  <2>3. CASE MoveToDLQ(s)  BY <2>3, Buried, AttemptLeaves DEF Buries
  <2>4. CASE HandleOrderMsg(s)  BY <2>4, Handled, AttemptLeaves, AttemptAttempts
  <2>5. CASE RequeueMessage(s)
    BY <2>5, Requeued, AttemptLeaves, AttemptRequeues
  <2>6. CASE Ack(s)
    BY <2>6, ConsumerSteps, AttemptLeaves DEF Ack
  <2> QED BY <1>7, <2>1, <2>2, <2>3, <2>4, <2>5, <2>6 DEF Consume
<1> QED BY <1>1, <1>2, <1>3, <1>4, <1>5, <1>6, <1>7 DEF Next

LEMMA AttemptInit == Init => AttemptInv
<1> SUFFICES ASSUME Init PROVE AttemptInv  OBVIOUS
<1>1. DOMAIN stream = {} /\ \A s \in Servers : consumer[s].pc = "start"
  BY DEF Init
<1> QED BY <1>1 DEF AttemptInv, LiveIsLast, OneWorker, RetryLeft,
                    AttemptsInOrder, InWork

\* Unless a command is sent to Redis twice, the copies of a message are its
\* attempts in their order, and there are at most MaxRetries + 1.
THEOREM Attempted ==
    ASSUME "resent" \notin FaultKinds
    PROVE  Spec => []AttemptsInOrder
<1>1. Init => TypeInv /\ OrderInv /\ AttemptInv
  BY TypeInit, OrderInit, AttemptInit
<1>2. TypeInv /\ OrderInv /\ AttemptInv /\ [Next]_vars
        => (TypeInv /\ OrderInv /\ AttemptInv)'
  BY TypeNext, OrderNext, AttemptNext
<1>3. AttemptInv => AttemptsInOrder  BY DEF AttemptInv
<1> QED BY <1>1, <1>2, <1>3, PTL DEF Spec

-----------------------------------------------------------------------------
(***************************************************************************)
(* Dead letters.  What is live has no order yet, so what is buried has     *)
(* none; and it is the last copy, so nobody makes the order later.         *)
(***************************************************************************)
Unfulfilled(i) == ~HasOrder(stream[i].user, stream[i].voucher)

LiveUnfulfilled == \A i \in DOMAIN stream : Live(i) => Unfulfilled(i)

DeadIsLast ==
    \A i \in dead : \A j \in DOMAIN stream :
        i < j => ~SameOrder(stream[i], stream[j])

DeadInv ==
    /\ LiveUnfulfilled
    /\ DeadIsLast
    /\ \A i \in dead : ~Live(i)
    /\ DeadLetterUnfulfilled

LEMMA DeadDelivered ==
    ASSUME TypeInv
    PROVE  /\ dead \subseteq DOMAIN stream
           /\ DOMAIN stream \subseteq Nat
           /\ delivered \in Nat
           /\ \A i \in dead : i <= delivered
BY DEF TypeInv, TypeOK, TypeQueue

LEMMA DeadFrame ==
    ASSUME DeadInv, UNCHANGED <<queue, orders>> PROVE DeadInv'
BY DEF DeadInv, LiveUnfulfilled, DeadIsLast, DeadLetterUnfulfilled,
       Unfulfilled, HasOrder, queue, Live

\* No entry, no order, no dead letter.
LEMMA DeadShrinks ==
    ASSUME TypeInv, DeadInv, UNCHANGED <<stream, dead, orders>>,
           \A i \in DOMAIN stream : Live(i)' => Live(i)
    PROVE  DeadInv'
BY DeadDelivered
   DEF DeadInv, LiveUnfulfilled, DeadIsLast, DeadLetterUnfulfilled,
       Unfulfilled, HasOrder

LEMMA DeadLeaves ==
    ASSUME TypeInv, DeadInv, NEW s \in Servers, Leaves(s),
           UNCHANGED <<stream, delivered, dead, orders>>
    PROVE  DeadInv'
<1>1. \A i \in DOMAIN stream : Live(i)' => Live(i)  BY DEF Live, Leaves
<1> QED BY <1>1, DeadShrinks

LEMMA DeadBuries ==
    ASSUME TypeInv, AttemptInv, DeadInv, NEW s \in Servers, Buries(s),
           UNCHANGED orders
    PROVE  DeadInv'
<1>1. consumer[s].pc \in InWork  BY DEF Buries, InWork
<1>2. PICK k \in DOMAIN stream : k = consumer[s].msg /\ Live(k)
  BY <1>1, WorkingMessage DEF Live
<1>3. \A i \in DOMAIN stream : Live(i)' => Live(i) /\ i # k
  BY <1>1, <1>2, HandsOff DEF AttemptInv, Buries
<1>4. dead' \subseteq dead \cup {k} /\ UNCHANGED <<stream, orders>>
  BY <1>2 DEF Buries
<1>5. Unfulfilled(k) /\ \A j \in DOMAIN stream : k < j => ~SameOrder(stream[k], stream[j])
  BY <1>2 DEF DeadInv, LiveUnfulfilled, AttemptInv, LiveIsLast
<1>6. LiveUnfulfilled'
  BY <1>3, <1>4 DEF DeadInv, LiveUnfulfilled, Unfulfilled, HasOrder
<1>7. DeadIsLast'  BY <1>4, <1>5 DEF DeadInv, DeadIsLast
<1>8. (\A i \in dead : ~Live(i))'
  BY <1>3, <1>4, DeadDelivered DEF DeadInv
<1>9. DeadLetterUnfulfilled'
  BY <1>4, <1>5 DEF DeadInv, DeadLetterUnfulfilled, Unfulfilled, HasOrder
<1> QED BY <1>6, <1>7, <1>8, <1>9 DEF DeadInv

\* Of the entries of an order, the one in hand is the only one that is live
\* or dead.
LEMMA OnlyInHand ==
    ASSUME TypeInv, AttemptInv, DeadInv, NEW k \in DOMAIN stream, Live(k),
           NEW i \in DOMAIN stream, i # k, Live(i) \/ i \in dead
    PROVE  ~SameOrder(stream[i], stream[k])
<1>1. i \in Nat /\ k \in Nat  BY DeadDelivered
<1>2. CASE i < k
  BY <1>2 DEF AttemptInv, LiveIsLast, DeadInv, DeadIsLast
<1>3. CASE k < i
  BY <1>3 DEF AttemptInv, LiveIsLast, SameOrder
<1> QED BY <1>1, <1>2, <1>3

LEMMA DeadCommits ==
    ASSUME TypeInv, AttemptInv, DeadInv, NEW s \in Servers,
           consumer[s].pc = "handle", Leaves(s), Commit(InHand(s)),
           UNCHANGED <<stream, delivered, dead>>
    PROVE  DeadInv'
<1>1. consumer[s].pc \in InWork  BY DEF InWork
<1>2. PICK k \in DOMAIN stream :
         k = consumer[s].msg /\ stream[k] = InHand(s) /\ Live(k)
  BY <1>1, WorkingMessage DEF Live
<1>3. \A i \in DOMAIN stream : Live(i)' => Live(i) /\ i # k
  BY <1>1, <1>2, HandsOff DEF AttemptInv
<1>4. ASSUME NEW i \in DOMAIN stream, Unfulfilled(i),
             ~SameOrder(stream[i], stream[k])
      PROVE  Unfulfilled(i)'
  BY <1>2, <1>4 DEF Unfulfilled, HasOrder, Commit, SameOrder
<1>5. LiveUnfulfilled'
  BY <1>2, <1>3, <1>4, OnlyInHand DEF DeadInv, LiveUnfulfilled
<1>6. ASSUME NEW i \in dead PROVE Unfulfilled(i)'
  <2>1. i \in DOMAIN stream /\ i # k  BY <1>2, <1>6, DeadDelivered DEF DeadInv
  <2>2. ~SameOrder(stream[i], stream[k])  BY <1>2, <1>6, <2>1, OnlyInHand
  <2> QED BY <1>4, <1>6, <2>1, <2>2 DEF DeadInv, DeadLetterUnfulfilled, Unfulfilled
<1>7. DeadLetterUnfulfilled'
  BY <1>6 DEF DeadLetterUnfulfilled, Unfulfilled
<1>8. DeadIsLast' /\ (\A i \in dead : ~Live(i))'
  BY <1>3, DeadDelivered DEF DeadInv, DeadIsLast
<1> QED BY <1>5, <1>7, <1>8 DEF DeadInv

LEMMA DeadRequeues ==
    ASSUME TypeInv, AttemptInv, DeadInv, NEW s \in Servers, Requeues(s),
           UNCHANGED orders
    PROVE  DeadInv'
<1>1. consumer[s].pc \in InWork  BY DEF Requeues, InWork
<1>2. PICK k \in DOMAIN stream :
         k = consumer[s].msg /\ stream[k] = InHand(s) /\ Live(k)
  BY <1>1, WorkingMessage DEF Live
<1>3. /\ NextAttempt(InHand(s)) \in Message
      /\ NextAttempt(InHand(s)).user = stream[k].user
      /\ NextAttempt(InHand(s)).voucher = stream[k].voucher
  BY <1>1, <1>2, WorkingMessage DEF NextAttempt, Message
<1>4. PICK n :
         /\ DOMAIN stream' = DOMAIN stream \cup {n}
         /\ \A i \in DOMAIN stream : stream'[i] = stream[i] /\ i # n
         /\ stream'[n] = NextAttempt(InHand(s))
         /\ n > delivered
  <2>1. \A i \in DOMAIN stream : i < Len(stream) + 1 /\ i \in Nat => i # Len(stream) + 1
    OBVIOUS
  <2> QED BY <1>3, <2>1, Grows DEF Requeues
<1>5. \A i \in DOMAIN stream : Live(i)' => Live(i) /\ i # k
  BY <1>1, <1>2, HandsOff DEF AttemptInv, Requeues
<1>6. Unfulfilled(k)  BY <1>2 DEF DeadInv, LiveUnfulfilled
<1>7. LiveUnfulfilled'
  BY <1>3, <1>4, <1>5, <1>6 DEF DeadInv, LiveUnfulfilled, Unfulfilled, HasOrder
<1>8. DeadIsLast'
  <2> SUFFICES ASSUME NEW i \in dead, NEW j \in DOMAIN stream', i < j
               PROVE  ~SameOrder(stream'[i], stream'[j])
    BY DEF DeadIsLast, Requeues
  <2>1. i \in DOMAIN stream /\ i # k  BY <1>2, DeadDelivered DEF DeadInv
  <2>2. CASE j \in DOMAIN stream
    BY <1>4, <2>1, <2>2 DEF DeadInv, DeadIsLast
  <2>3. CASE j = n
    BY <1>2, <1>3, <1>4, <2>1, <2>3, OnlyInHand DEF SameOrder
  <2> QED BY <1>4, <2>2, <2>3
<1>9. (\A i \in dead : ~Live(i))'
  BY <1>5, DeadDelivered DEF DeadInv, Requeues
<1>10. DeadLetterUnfulfilled'
  BY <1>4, DeadDelivered DEF DeadInv, DeadLetterUnfulfilled, HasOrder, Requeues
<1> QED BY <1>7, <1>8, <1>9, <1>10 DEF DeadInv

LEMMA DeadSells ==
    ASSUME TypeInv, DeadInv, NEW c \in Call, Sells(c)
    PROVE  DeadInv'
<1>1. PICK n :
         /\ DOMAIN stream' = DOMAIN stream \cup {n}
         /\ \A i \in DOMAIN stream : stream'[i] = stream[i] /\ i # n
         /\ stream'[n] = OrderMessage(c)
  <2>1. \A i \in DOMAIN stream : i < Len(stream) + 1 /\ i \in Nat => i # Len(stream) + 1
    OBVIOUS
  <2> QED BY <2>1, Grows DEF Sells
<1>2. /\ \A i \in DOMAIN stream : ~SameOrder(stream[i], OrderMessage(c))
      /\ ~HasOrder(OrderMessage(c).user, OrderMessage(c).voucher)
      /\ UNCHANGED <<orders, delivered, dead, consumer>>
  BY DEF Sells, OrderMessage
<1>3. \A i \in DOMAIN stream : Live(i)' => Live(i)  BY <1>2 DEF Live
<1>4. LiveUnfulfilled'
  BY <1>1, <1>2, <1>3 DEF DeadInv, LiveUnfulfilled, Unfulfilled, HasOrder
<1>5. DeadIsLast'
  BY <1>1, <1>2, DeadDelivered DEF DeadInv, DeadIsLast
<1>6. (\A i \in dead : ~Live(i))'
  BY <1>2, <1>3, DeadDelivered DEF DeadInv
<1>7. DeadLetterUnfulfilled'
  BY <1>1, <1>2, DeadDelivered DEF DeadInv, DeadLetterUnfulfilled, HasOrder
<1> QED BY <1>4, <1>5, <1>6, <1>7 DEF DeadInv

LEMMA DeadNext ==
    ASSUME {"resent", "commitLost"} \cap FaultKinds = {}
    PROVE  TypeInv /\ OrderInv /\ AttemptInv /\ DeadInv /\ [Next]_vars => DeadInv'
<1>0. "resent" \notin FaultKinds /\ "commitLost" \notin FaultKinds  OBVIOUS
<1> SUFFICES ASSUME TypeInv, OrderInv, AttemptInv, DeadInv, [Next]_vars
             PROVE  DeadInv'
  OBVIOUS
<1>1. CASE UNCHANGED vars
  BY <1>1, DeadFrame DEF vars, queue, groupVars, mysqlVars
<1>2. CASE \E s \in Servers, v \in Vouchers : Create(s, v)
  BY <1>2, DeadFrame DEF Create, CreateOrdinaryVoucher, CreateSeckillVoucher,
                         queue, groupVars
<1>3. CASE \E v \in Vouchers : SetVoucherStockCache(v)
  BY <1>3, DeadFrame DEF SetVoucherStockCache, queue, groupVars, mysqlVars
<1>4. CASE \E s \in Servers, u \in Users, v \in Vouchers : SeckillVoucher(s, u, v)
  BY <1>4, DeadFrame DEF SeckillVoucher, queue, groupVars, mysqlVars
<1>5. ASSUME NEW c \in calls, ExecScript(c) PROVE DeadInv'
  BY <1>5, Sold, DeadSells, DeadFrame DEF queue
<1>6. ASSUME NEW s \in Servers, Crash(s) \/ Restart(s) PROVE DeadInv'
  <2>1. UNCHANGED <<stream, delivered, dead, orders>>
    BY <1>6 DEF Crash, Restart, groupVars, mysqlVars
  <2> QED BY <1>6, <2>1, ProcessLeaves, DeadLeaves
<1>7. ASSUME NEW s \in Servers, Consume(s) PROVE DeadInv'
  <2>1. CASE CreateGroup(s)
    BY <2>1, CreatedGroup, DeadLeaves DEF CreateGroup, mysqlVars
  <2>2. CASE ReadPendingMessages(s)
    BY <2>2, Entered, EntersLive, DeadShrinks
       DEF ReadPendingMessages, mysqlVars
  <2>3. CASE MoveToDLQ(s)  BY <2>3, Buried, DeadBuries DEF MoveToDLQ, mysqlVars
  <2>4. CASE HandleOrderMsg(s)
    <3>1. CASE Leaves(s) /\ Applies(InHand(s)) /\ Commit(InHand(s))
      BY <2>4, <3>1, Handled, DeadCommits
    <3>2. CASE Attempts(s) /\ UNCHANGED orders
      BY <3>2, AttemptsLive, DeadShrinks DEF Attempts
    <3> QED BY <1>0, <2>4, <3>1, <3>2, Handled
  <2>5. CASE RequeueMessage(s)
    BY <1>0, <2>5, Requeued, DeadLeaves, DeadRequeues DEF RequeueMessage, mysqlVars
  <2>6. CASE Ack(s)
    BY <2>6, ConsumerSteps, DeadLeaves DEF Ack, mysqlVars
  <2> QED BY <1>7, <2>1, <2>2, <2>3, <2>4, <2>5, <2>6 DEF Consume
<1> QED BY <1>1, <1>2, <1>3, <1>4, <1>5, <1>6, <1>7 DEF Next

LEMMA DeadInit == Init => DeadInv
BY DEF Init, DeadInv, LiveUnfulfilled, DeadIsLast, DeadLetterUnfulfilled

\* A dead letter is an order nobody has made, if no command is sent twice and
\* no transaction is committed behind an error.
THEOREM DeadLetters ==
    ASSUME {"resent", "commitLost"} \cap FaultKinds = {}
    PROVE  Spec => []DeadLetterUnfulfilled
<1>1. "resent" \notin FaultKinds  OBVIOUS
<1>2. Init => TypeInv /\ OrderInv /\ AttemptInv /\ DeadInv
  BY TypeInit, OrderInit, AttemptInit, DeadInit
<1>3. TypeInv /\ OrderInv /\ AttemptInv /\ DeadInv /\ [Next]_vars
        => (TypeInv /\ OrderInv /\ AttemptInv /\ DeadInv)'
  BY <1>1, TypeNext, OrderNext, AttemptNext, DeadNext
<1>4. DeadInv => DeadLetterUnfulfilled  BY DEF DeadInv
<1> QED BY <1>2, <1>3, <1>4, PTL DEF Spec

-----------------------------------------------------------------------------
(***************************************************************************)
(* Reservations.  While commands are executed once and answered, and the   *)
(* process stays up, an entry leaves a consumer's hands only for the next  *)
(* entry, the dead letters or its order.                                   *)
(***************************************************************************)
Holds(i, u, v) == stream[i].user = u /\ stream[i].voucher = v

LEMMA TrackedAs ==
    ReservationTracked <=>
        \A v \in Vouchers : \A u \in Pending(v) :
            \E i \in DOMAIN stream : Holds(i, u, v) /\ (Live(i) \/ i \in dead)
BY DEF ReservationTracked, Holds, Live, InWork

\* Every entry that was live or dead is still, and nobody is new.
LEMMA TrackedStays ==
    ASSUME ReservationTracked, UNCHANGED <<buyers, stream>>, orders \subseteq orders',
           \A i \in DOMAIN stream :
               Live(i) \/ i \in dead =>
                   \/ Live(i)' \/ i \in dead'
                   \/ HasOrder(stream[i].user, stream[i].voucher)'
    PROVE  ReservationTracked'
<1> SUFFICES ASSUME NEW v \in Vouchers, NEW u \in Pending(v)'
             PROVE  \E i \in DOMAIN stream' :
                       Holds(i, u, v)' /\ (Live(i)' \/ i \in dead')
  BY DEF ReservationTracked, Holds, Live, InWork
<1>1. u \in Pending(v)  BY DEF Pending, HasOrder
<1>2. PICK i \in DOMAIN stream : Holds(i, u, v) /\ (Live(i) \/ i \in dead)
  BY <1>1, TrackedAs
<1> QED BY <1>2 DEF Holds, Pending, HasOrder

LEMMA TrackedLeaves ==
    ASSUME TypeInv, ReservationTracked, NEW s \in Servers, Leaves(s),
           consumer[s].pc \notin InWork,
           UNCHANGED <<buyers, orders, stream, delivered, dead>>
    PROVE  ReservationTracked'
<1>1. \A i \in DOMAIN stream : Live(i) => Live(i)'
  BY DEF Live, Leaves
<1> QED BY <1>1, TrackedStays

LEMMA TrackedEnters ==
    ASSUME {"replyLost", "resent"} \cap FaultKinds = {},
           TypeInv, ReservationTracked, NEW s \in Servers, Enters(s),
           UNCHANGED <<buyers, orders>>
    PROVE  ReservationTracked'
<1>1. delivered \in Nat /\ DOMAIN stream \subseteq Nat
  BY DeadDelivered
<1>2. /\ delivered' = delivered + 1
      /\ consumer[s].pc \notin InWork
      /\ consumer'[s].pc \in InWork /\ consumer'[s].msg = delivered + 1
      /\ \A t \in Servers : t # s => consumer'[t] = consumer[t]
  BY DEF Enters, InWork
<1>3. ASSUME NEW i \in DOMAIN stream, Live(i) PROVE Live(i)'
  <2>1. CASE i > delivered
    <3>1. i > delivered + 1 \/ i = delivered + 1  BY <1>1, <2>1
    <3> QED BY <1>2, <3>1 DEF Live
  <2>2. CASE \E t \in Servers : consumer[t].msg = i /\ consumer[t].pc \in InWork
    BY <1>2, <2>2 DEF Live
  <2> QED BY <1>3, <2>1, <2>2 DEF Live
<1> QED BY <1>3, TrackedStays DEF Enters

\* What is done with the message in hand: its order is made, or it is buried.
LEMMA TrackedDone ==
    ASSUME TypeInv, ReservationTracked, NEW s \in Servers,
           consumer[s].pc \in InWork, Leaves(s),
           UNCHANGED <<buyers, stream, delivered>>,
           orders \subseteq orders', dead \subseteq dead',
           NEW k, k = consumer[s].msg,
           k \in dead' \/ HasOrder(stream[k].user, stream[k].voucher)'
    PROVE  ReservationTracked'
<1>1. ASSUME NEW i \in DOMAIN stream, Live(i), i # k PROVE Live(i)'
  BY <1>1 DEF Live, Leaves
<1> QED BY <1>1, TrackedStays

\* An entry is added, and what it does not replace stays as it is.
LEMMA TrackedGrows ==
    ASSUME TypeInv, ReservationTracked, NEW m \in Message,
           stream' = XAdd(stream, m), UNCHANGED <<orders, delivered, dead>>,
           \A v \in Vouchers : \A u \in buyers'[v] :
               u \in buyers[v] \/ (m.user = u /\ m.voucher = v),
           \A i \in DOMAIN stream : 
               Live(i) => Live(i)' \/ SameOrder(m, stream[i])
    PROVE  ReservationTracked'
<1>1. PICK n :
         /\ DOMAIN stream' = DOMAIN stream \cup {n}
         /\ \A i \in DOMAIN stream : stream'[i] = stream[i]
         /\ stream'[n] = m
         /\ n > delivered
  BY Grows
<1>2. Live(n)'  BY <1>1 DEF Live
<1> SUFFICES ASSUME NEW v \in Vouchers, NEW u \in Pending(v)'
             PROVE  \E i \in DOMAIN stream' :
                       Holds(i, u, v)' /\ (Live(i)' \/ i \in dead')
  BY DEF ReservationTracked, Holds, Live, InWork
<1>3. CASE m.user = u /\ m.voucher = v
  BY <1>1, <1>2, <1>3 DEF Holds
<1>4. CASE ~(m.user = u /\ m.voucher = v)
  <2>1. u \in Pending(v)  BY <1>4 DEF Pending, HasOrder
  <2>2. PICK i \in DOMAIN stream : Holds(i, u, v) /\ (Live(i) \/ i \in dead)
    BY <2>1, TrackedAs
  <2>3. ~SameOrder(m, stream[i])  BY <1>4, <2>2 DEF Holds, SameOrder
  <2> QED BY <1>1, <2>2, <2>3 DEF Holds
<1> QED BY <1>3, <1>4

LEMMA TrackedNext ==
    ASSUME {"refused", "replyLost", "resent", "crash"} \cap FaultKinds = {}
    PROVE  TypeInv /\ OrderInv /\ ReservationTracked /\ [Next]_vars
             => ReservationTracked'
<1>0. /\ "refused" \notin FaultKinds /\ "resent" \notin FaultKinds
      /\ "crash" \notin FaultKinds
      /\ {"replyLost", "resent"} \cap FaultKinds = {}
  OBVIOUS
<1> SUFFICES ASSUME TypeInv, OrderInv, ReservationTracked, [Next]_vars
             PROVE  ReservationTracked'
  OBVIOUS
<1>1. ASSUME UNCHANGED <<buyers, orders, queue>> PROVE ReservationTracked'
  BY <1>1, TrackedStays DEF queue, Live
<1>2. CASE UNCHANGED vars
  BY <1>1, <1>2 DEF vars, queue, groupVars, mysqlVars, saleVars
<1>3. CASE \E s \in Servers, v \in Vouchers : Create(s, v)
  BY <1>1, <1>3 DEF Create, CreateOrdinaryVoucher, CreateSeckillVoucher,
                    queue, groupVars, saleVars
<1>4. CASE \E v \in Vouchers : SetVoucherStockCache(v)
  BY <1>1, <1>4 DEF SetVoucherStockCache, queue, groupVars, mysqlVars
<1>5. CASE \E s \in Servers, u \in Users, v \in Vouchers : SeckillVoucher(s, u, v)
  BY <1>1, <1>5 DEF SeckillVoucher, queue, groupVars, mysqlVars, saleVars
<1>6. ASSUME NEW c \in calls, ExecScript(c) PROVE ReservationTracked'
  <2>1. CASE c \in Call /\ Reserves(c) /\ Sells(c)
    <3>1. \A v \in Vouchers : \A u \in buyers'[v] :
             \/ u \in buyers[v]
             \/ OrderMessage(c).user = u /\ OrderMessage(c).voucher = v
      BY <2>1 DEF Reserves, OrderMessage, TypeInv, TypeOK, TypeSale
    <3>2. \A i \in DOMAIN stream : Live(i) => Live(i)'
      BY <2>1 DEF Sells, Live
    <3> QED BY <2>1, <3>1, <3>2, TrackedGrows DEF Sells
  <2>2. CASE UNCHANGED <<saleVars, queue, orders>>
    BY <1>1, <2>2 DEF saleVars
  <2> QED BY <1>6, <2>1, <2>2, Sold
<1>7. ASSUME NEW s \in Servers, Crash(s) \/ Restart(s) PROVE ReservationTracked'
  <2>1. Restart(s)  BY <1>0, <1>7 DEF Crash, Fault
  <2>2. consumer[s].pc \notin InWork  BY <2>1 DEF Restart, Up, InWork
  <2> QED BY <2>1, <2>2, ProcessLeaves, TrackedLeaves
          DEF Restart, groupVars, mysqlVars, saleVars
<1>8. ASSUME NEW s \in Servers, Consume(s) PROVE ReservationTracked'
  <2>1. CASE CreateGroup(s)
    BY <2>1, CreatedGroup, TrackedLeaves DEF CreateGroup, mysqlVars, saleVars
  <2>2. CASE ReadPendingMessages(s)
    BY <1>0, <2>2, Entered, TrackedEnters
       DEF ReadPendingMessages, mysqlVars, saleVars
  <2>3. CASE MoveToDLQ(s)
    <3>1. /\ consumer[s].pc \in InWork /\ Leaves(s)
          /\ UNCHANGED <<stream, delivered>>
          /\ dead' = dead \cup {consumer[s].msg}
      BY <1>0, <2>3, Buried DEF Buries, InWork
    <3> QED BY <2>3, <3>1, TrackedDone DEF MoveToDLQ, mysqlVars, saleVars
  <2>4. CASE HandleOrderMsg(s)
    <3>1. UNCHANGED <<buyers, stream, delivered, dead>> /\ consumer[s].pc \in InWork
      BY <2>4, Handled DEF HandleOrderMsg, saleVars, InWork
    <3>2. CASE Leaves(s) /\ Applies(InHand(s)) /\ Commit(InHand(s))
      <4>1. PICK k : k = consumer[s].msg  OBVIOUS
      <4>2. orders' = orders \cup
              {[id |-> stream[k].id, user |-> stream[k].user,
                voucher |-> stream[k].voucher]}
        BY <3>2, <4>1 DEF Commit, InHand
      <4>3. HasOrder(stream[k].user, stream[k].voucher)'
        <5>1. PICK o \in orders' :
                 o.user = stream[k].user /\ o.voucher = stream[k].voucher
          <6> DEFINE o == [id |-> stream[k].id, user |-> stream[k].user,
                           voucher |-> stream[k].voucher]
          <6>1. o \in orders'  BY <4>2
          <6>2. o.user = stream[k].user /\ o.voucher = stream[k].voucher
            OBVIOUS
          <6> QED BY <6>1, <6>2
        <5> QED BY <3>1, <5>1 DEF HasOrder
      <4> QED BY <3>1, <3>2, <4>1, <4>2, <4>3, TrackedDone
    <3>3. CASE Attempts(s)
      <4>1. orders \subseteq orders'
        BY <2>4 DEF HandleOrderMsg, Commit
      <4> QED BY <3>1, <3>3, <4>1, AttemptsLive, TrackedStays
    <3> QED BY <2>4, <3>2, <3>3, Handled
  <2>5. CASE RequeueMessage(s)
    <3>1. Requeues(s)  BY <1>0, <2>5, Requeued
    <3>2. consumer[s].pc \in InWork  BY <3>1 DEF Requeues, InWork
    <3>3. /\ NextAttempt(InHand(s)) \in Message
          /\ SameOrder(NextAttempt(InHand(s)), stream[consumer[s].msg])
      BY <3>2, WorkingMessage DEF NextAttempt, Message, SameOrder
    <3>4. \A i \in DOMAIN stream :
            Live(i) => Live(i)' \/ SameOrder(NextAttempt(InHand(s)), stream[i])
      BY <3>1, <3>3 DEF Requeues, Leaves, Live
    <3> QED BY <2>5, <3>1, <3>3, <3>4, TrackedGrows
            DEF Requeues, RequeueMessage, mysqlVars, saleVars
  <2>6. CASE Ack(s)
    BY <2>6, ConsumerSteps, TrackedLeaves DEF Ack, mysqlVars, saleVars, InWork
  <2> QED BY <1>8, <2>1, <2>2, <2>3, <2>4, <2>5, <2>6 DEF Consume
<1> QED BY <1>2, <1>3, <1>4, <1>5, <1>6, <1>7, <1>8 DEF Next

LEMMA TrackedInit == Init => ReservationTracked
BY DEF Init, ReservationTracked, Pending

\* No reservation is forgotten while Redis answers and no process stops,
\* whatever MySQL does and however many servers there are.
THEOREM Tracked ==
    ASSUME {"refused", "replyLost", "resent", "crash"} \cap FaultKinds = {}
    PROVE  Spec => []ReservationTracked
<1>1. Init => TypeInv /\ OrderInv /\ ReservationTracked
  BY TypeInit, OrderInit, TrackedInit
<1>2. TypeInv /\ OrderInv /\ ReservationTracked /\ [Next]_vars
        => (TypeInv /\ OrderInv /\ ReservationTracked)'
  BY TypeNext, OrderNext, TrackedNext
<1> QED BY <1>1, <1>2, PTL DEF Spec

-----------------------------------------------------------------------------
(***************************************************************************)
(* Promises.  One generator numbers each call anew, a call becomes at most *)
(* one entry, and an entry is copied for the same order only: so an id is  *)
(* that of one order.  And a script that reserves leaves no less than      *)
(* nothing in Redis, so MySQL has a unit for everyone pending.             *)
(***************************************************************************)
Issued(id) == \E s \in Servers : id \in issued[s]

IdInv ==
    /\ \A c \in calls : Issued(c.id)
    /\ \A i \in DOMAIN stream : Issued(stream[i].id)
    /\ \A c, d \in calls : c.id = d.id => c = d
    /\ \A c \in calls : \A i \in DOMAIN stream :
           stream[i].id = c.id => SameOrder(stream[i], c)
    /\ \A i, j \in DOMAIN stream :
           stream[i].id = stream[j].id => SameOrder(stream[i], stream[j])

LEMMA IdFrame ==
    ASSUME IdInv, UNCHANGED <<stream, issued>>, calls' \subseteq calls
    PROVE  IdInv'
BY DEF IdInv, Issued

LEMMA IdSeckillVoucher ==
    ASSUME TypeInv, IdInv, \A s, t \in Servers : s = t,
           NEW s \in Servers, NEW u \in Users, NEW v \in Vouchers,
           SeckillVoucher(s, u, v)
    PROVE  IdInv'
<1>1. PICK id \in NextID(s) :
         /\ issued' = [issued EXCEPT ![s] = @ \cup {id}]
         /\ calls' = calls \cup
               {[server |-> s, id |-> id, user |-> u, voucher |-> v]}
  BY DEF SeckillVoucher
<1> DEFINE new == [server |-> s, id |-> id, user |-> u, voucher |-> v]
<1>2. ~Issued(id)  BY <1>1 DEF Issued, NextID
<1>3. issued'[s] = issued[s] \cup {id}
  BY <1>1 DEF TypeInv, TypeOK, TypeMemory
<1>4. \A x : Issued(x)' <=> Issued(x) \/ x = id
  BY <1>3 DEF Issued
<1>5. new.id = id  OBVIOUS
<1>6. /\ UNCHANGED stream
      /\ new \in calls' /\ \A c \in calls' : c \in calls \/ c = new
  BY <1>1 DEF SeckillVoucher
<1> QED BY <1>2, <1>4, <1>5, <1>6 DEF IdInv

\* An entry is added for a call that is over, or for an order already there.
LEMMA IdGrows ==
    ASSUME TypeInv, IdInv, NEW m \in Message, stream' = XAdd(stream, m),
           UNCHANGED issued, Issued(m.id),
           calls' \subseteq calls,
           \A c \in calls' : c.id = m.id => SameOrder(m, c),
           \A i \in DOMAIN stream : stream[i].id = m.id => SameOrder(stream[i], m)
    PROVE  IdInv'
<1>1. PICK n :
         /\ DOMAIN stream' = DOMAIN stream \cup {n}
         /\ \A i \in DOMAIN stream : stream'[i] = stream[i]
         /\ stream'[n] = m
  BY Grows
<1>2. \A id : Issued(id)' <=> Issued(id)  BY DEF Issued
<1>3. (\A c \in calls : Issued(c.id))' /\ (\A c, d \in calls : c.id = d.id => c = d)'
  BY <1>2 DEF IdInv
<1>4. (\A i \in DOMAIN stream : Issued(stream[i].id))'
  BY <1>1, <1>2 DEF IdInv
<1>5. (\A c \in calls : \A i \in DOMAIN stream :
           stream[i].id = c.id => SameOrder(stream[i], c))'
  BY <1>1 DEF IdInv, SameOrder
<1>6. (\A i, j \in DOMAIN stream :
           stream[i].id = stream[j].id => SameOrder(stream[i], stream[j]))'
  BY <1>1 DEF IdInv, SameOrder
<1> QED BY <1>3, <1>4, <1>5, <1>6 DEF IdInv

LEMMA IdNext ==
    ASSUME \A s, t \in Servers : s = t
    PROVE  TypeInv /\ OrderInv /\ IdInv /\ [Next]_vars => IdInv'
<1> SUFFICES ASSUME TypeInv, OrderInv, IdInv, [Next]_vars PROVE IdInv'
  OBVIOUS
<1>1. CASE UNCHANGED vars
  BY <1>1, IdFrame DEF vars, requestVars
<1>2. CASE \E s \in Servers, v \in Vouchers : Create(s, v)
  BY <1>2, IdFrame DEF Create, CreateOrdinaryVoucher, CreateSeckillVoucher,
                       requestVars
<1>3. CASE \E v \in Vouchers : SetVoucherStockCache(v)
  BY <1>3, IdFrame DEF SetVoucherStockCache, requestVars
<1>4. CASE \E s \in Servers, u \in Users, v \in Vouchers : SeckillVoucher(s, u, v)
  BY <1>4, IdSeckillVoucher
<1>5. ASSUME NEW c \in calls, ExecScript(c) PROVE IdInv'
  <2>1. UNCHANGED issued /\ calls' \subseteq calls
    BY <1>5 DEF ExecScript, Reply
  <2>2. CASE c \in Call /\ Sells(c)
    <3>1. PICK m \in Message :
             /\ m.id = c.id /\ SameOrder(m, c)
             /\ stream' = XAdd(stream, m)
      BY <2>2 DEF Sells, OrderMessage, SameOrder
    <3>2. /\ Issued(c.id)
          /\ \A d \in calls : d.id = c.id => d = c
          /\ \A i \in DOMAIN stream : stream[i].id = c.id => SameOrder(stream[i], c)
      BY DEF IdInv
    <3>3. /\ \A d \in calls' : d.id = m.id => SameOrder(m, d)
          /\ \A i \in DOMAIN stream : stream[i].id = m.id => SameOrder(stream[i], m)
      BY <2>1, <3>1, <3>2 DEF SameOrder
    <3> QED BY <2>1, <3>1, <3>2, <3>3, IdGrows
  <2>3. CASE UNCHANGED queue
    BY <2>1, <2>3, IdFrame DEF queue
  <2> QED BY <1>5, <2>2, <2>3, Sold
<1>6. ASSUME NEW s \in Servers, Die(s), UNCHANGED <<stream, issued>> PROVE IdInv'
  BY <1>6, IdFrame DEF Die
<1>7. ASSUME NEW s \in Servers, Crash(s) \/ Restart(s) PROVE IdInv'
  <2>1. CASE Crash(s)    BY <1>6, <2>1 DEF Crash
  <2>2. CASE Restart(s)  BY <2>2, IdFrame DEF Restart, requestVars
  <2> QED BY <1>7, <2>1, <2>2
<1>8. ASSUME NEW s \in Servers, Consume(s) PROVE IdInv'
  <2>1. CASE CreateGroup(s)
    <3>1. UNCHANGED <<stream, issued>> /\ (Die(s) \/ UNCHANGED calls)
      BY <2>1 DEF CreateGroup
    <3> QED BY <1>6, <3>1, IdFrame
  <2>2. CASE RequeueMessage(s)
    <3>1. UNCHANGED <<issued, calls>>  BY <2>2 DEF RequeueMessage, requestVars
    <3>2. CASE UNCHANGED stream  BY <3>1, <3>2, IdFrame
    <3>3. CASE stream' = XAdd(stream, NextAttempt(InHand(s)))
      <4>1. consumer[s].pc \in InWork  BY <2>2 DEF RequeueMessage, InWork
      <4>2. PICK k \in DOMAIN stream : stream[k] = InHand(s) /\ InHand(s) \in Message
        BY <4>1, WorkingMessage
      <4>3. PICK m \in Message :
               /\ m = NextAttempt(InHand(s))
               /\ m.id = stream[k].id
               /\ m.user = stream[k].user /\ m.voucher = stream[k].voucher
        <5>1. NextAttempt(InHand(s)) \in Message
          BY <4>2 DEF NextAttempt, Message
        <5> QED BY <4>2, <5>1 DEF NextAttempt
      <4>4. /\ Issued(m.id)
            /\ \A c \in calls : c.id = m.id => SameOrder(m, c)
            /\ \A i \in DOMAIN stream : stream[i].id = m.id => SameOrder(stream[i], m)
        BY <4>3 DEF IdInv, SameOrder
      <4> QED BY <3>1, <3>3, <4>3, <4>4, IdGrows
    <3> QED BY <2>2, <3>2, <3>3 DEF RequeueMessage
  <2>3. CASE ReadPendingMessages(s)
    BY <2>3, IdFrame DEF ReadPendingMessages, requestVars
  <2>4. CASE MoveToDLQ(s)       BY <2>4, IdFrame DEF MoveToDLQ, requestVars
  <2>5. CASE HandleOrderMsg(s)  BY <2>5, IdFrame DEF HandleOrderMsg, requestVars
  <2>6. CASE Ack(s)             BY <2>6, IdFrame DEF Ack, requestVars
  <2> QED BY <1>8, <2>1, <2>2, <2>3, <2>4, <2>5, <2>6 DEF Consume
<1> QED BY <1>1, <1>2, <1>3, <1>4, <1>5, <1>7, <1>8 DEF Next

\* The script sells what is cached, and only a seckill voucher is cached.
SoldFromCache ==
    \A v \in Vouchers :
        /\ cacheStock[v] # NoKey => kind[v] = "seckill"
        /\ buyers[v] # {} => cacheStock[v] >= 0

LEMMA SoldNext ==
    ASSUME "resent" \notin FaultKinds
    PROVE  TypeInv /\ SaleInv /\ SoldFromCache /\ [Next]_vars => SoldFromCache'
<1> SUFFICES ASSUME TypeInv, SaleInv, SoldFromCache, [Next]_vars
             PROVE  SoldFromCache'
  OBVIOUS
<1>1. ASSUME UNCHANGED <<kind, saleVars>> PROVE SoldFromCache'
  BY <1>1 DEF SoldFromCache, saleVars
<1>2. CASE UNCHANGED vars  BY <1>1, <1>2 DEF vars, mysqlVars
<1>3. ASSUME NEW s \in Servers, NEW w \in Vouchers, Create(s, w)
      PROVE  SoldFromCache'
  <2>1. /\ UNCHANGED saleVars /\ kind[w] = "none"
        /\ \A v \in Vouchers : v # w => kind'[v] = kind[v]
    BY <1>3 DEF Create, CreateOrdinaryVoucher, CreateSeckillVoucher,
                TypeInv, TypeOK, TypeMySQL
  <2>2. cacheStock[w] = NoKey  BY <2>1 DEF SaleInv, CachedOnce
  <2> QED BY <2>1, <2>2 DEF SoldFromCache, saleVars
<1>4. ASSUME NEW w \in Vouchers, SetVoucherStockCache(w) PROVE SoldFromCache'
  <2>1. kind[w] = "seckill" /\ buyers[w] = {}
    BY <1>4 DEF SetVoucherStockCache, SaleInv, CachedOnce, NotOnSaleYet
  <2>2. /\ UNCHANGED <<kind, buyers>>
        /\ \A v \in Vouchers : v # w => cacheStock'[v] = cacheStock[v]
    BY <1>4 DEF SetVoucherStockCache, mysqlVars, TypeInv, TypeOK, TypeSale
  <2> QED BY <2>1, <2>2 DEF SoldFromCache
<1>5. CASE \E s \in Servers, u \in Users, v \in Vouchers : SeckillVoucher(s, u, v)
  BY <1>1, <1>5 DEF SeckillVoucher, mysqlVars
<1>6. ASSUME NEW c \in calls, ExecScript(c) PROVE SoldFromCache'
  <2>1. /\ c \in Call /\ UNCHANGED mysqlVars
        /\ Reserves(c) \/ UNCHANGED saleVars
    BY <1>6, ExecScriptCases
  <2>2. CASE Reserves(c)
    <3>1. PICK w \in Vouchers : w = c.voucher  BY <2>1 DEF Call
    <3>2. /\ cacheStock[w] \in Int /\ cacheStock[w] > 0 /\ cacheStock[w] # NoKey
          /\ cacheStock'[w] = cacheStock[w] - 1
          /\ \A v \in Vouchers : v # w => /\ cacheStock'[v] = cacheStock[v]
                                          /\ buyers'[v] = buyers[v]
      BY <2>2, <3>1, NoKeyAssumption DEF Reserves, TypeInv, TypeOK, TypeSale
    <3>3. cacheStock'[w] >= 0  BY <3>2
    <3> QED BY <2>1, <3>2, <3>3 DEF SoldFromCache, mysqlVars
  <2>3. CASE UNCHANGED saleVars  BY <1>1, <2>1, <2>3 DEF mysqlVars
  <2> QED BY <2>1, <2>2, <2>3
<1>7. CASE \E s \in Servers : Crash(s) \/ Restart(s)
  BY <1>1, <1>7 DEF Crash, Restart, mysqlVars
<1>8. CASE \E s \in Servers : Consume(s)
  BY <1>1, <1>8 DEF Consume, CreateGroup, ReadPendingMessages, MoveToDLQ,
                    HandleOrderMsg, RequeueMessage, Ack, mysqlVars
<1> QED BY <1>2, <1>3, <1>4, <1>5, <1>6, <1>7, <1>8 DEF Next

LEMMA Deliverable ==
    ASSUME TypeInv, OrderInv, SaleInv, IdInv, SoldFromCache
    PROVE  PromiseDeliverable
<1> SUFFICES ASSUME NEW i \in DOMAIN stream,
                    ~HasOrder(stream[i].user, stream[i].voucher)
             PROVE  Applies(stream[i])
  BY DEF PromiseDeliverable
<1>1. PICK m \in Message : m = stream[i]
  BY EntriesAreMessages DEF TypeInv, TypeOK
<1>2. m.voucher \in Vouchers /\ m.user \in Pending(m.voucher)
  BY <1>1 DEF Message, Pending, OrderInv, StreamInv, EntriesOfBuyers
<1>3. /\ cacheStock[m.voucher] # NoKey /\ cacheStock[m.voucher] \in Int
      /\ cacheStock[m.voucher] >= 0
      /\ kind[m.voucher] = "seckill"
  BY <1>2 DEF Pending, SaleInv, NotOnSaleYet, SoldFromCache,
              TypeInv, TypeOK, TypeSale
<1>4. Cardinality(Pending(m.voucher)) \in Nat /\ Cardinality(Pending(m.voucher)) # 0
  <2>1. IsFiniteSet(Pending(m.voucher))
    BY <1>2, FS_Subset DEF SaleInv, Pending
  <2> QED BY <1>2, <2>1, FS_CardinalityType, FS_EmptySet
<1>5. dbStock[m.voucher] > 0
  BY <1>2, <1>3, <1>4 DEF SaleInv, StockReconciles
<1>6. \A o \in orders : o.id # m.id
  <2> SUFFICES ASSUME NEW o \in orders, o.id = m.id PROVE FALSE  OBVIOUS
  <2>1. PICK j \in DOMAIN stream : SameOrder(stream[j], o) /\ stream[j].id = o.id
    BY DEF OrderInv, OrdersInv, OrdersFromStream
  <2>2. SameOrder(stream[i], stream[j])  BY <1>1, <2>1 DEF IdInv
  <2> QED BY <2>1, <2>2 DEF SameOrder, HasOrder
<1> QED BY <1>1, <1>3, <1>5, <1>6 DEF Applies

\* With one generator of ids, and no command executed twice, what the queue
\* holds can be delivered: MySQL has a unit and the id is free.
THEOREM Promises ==
    ASSUME "resent" \notin FaultKinds, \A s, t \in Servers : s = t
    PROVE  Spec => []PromiseDeliverable
<1>1. Init => TypeInv /\ OrderInv /\ SaleInv /\ IdInv /\ SoldFromCache
  <2>1. Init => IdInv /\ SoldFromCache  BY DEF Init, IdInv, SoldFromCache
  <2> QED BY <2>1, TypeInit, OrderInit, SaleInit
<1>2. TypeInv /\ OrderInv /\ SaleInv /\ IdInv /\ SoldFromCache /\ [Next]_vars
        => (TypeInv /\ OrderInv /\ SaleInv /\ IdInv /\ SoldFromCache)'
  BY TypeNext, OrderNext, SaleNext, IdNext, SoldNext
<1>3. TypeInv /\ OrderInv /\ SaleInv /\ IdInv /\ SoldFromCache
        => PromiseDeliverable
  BY Deliverable
<1> QED BY <1>1, <1>2, <1>3, PTL DEF Spec

\* Two answers with one id would be of one entry's user and voucher, and each of
\* those is answered once.
LEMMA AnswersDiffer ==
    ASSUME OrderInv, IdInv PROVE OrderIDsUnique
<1> SUFFICES ASSUME NEW r \in replies, NEW q \in replies,
                    r.res = "taken", q.res = "taken", r.call.id = q.call.id
             PROVE  r = q
  BY DEF OrderIDsUnique
<1>1. PICK i \in DOMAIN stream :
         SameOrder(stream[i], r.call) /\ stream[i].id = r.call.id
  BY DEF OrderInv, RepliesInv, AnswersFromStream
<1>2. PICK j \in DOMAIN stream :
         SameOrder(stream[j], q.call) /\ stream[j].id = q.call.id
  BY DEF OrderInv, RepliesInv, AnswersFromStream
<1>3. SameOrder(stream[i], stream[j])  BY <1>1, <1>2 DEF IdInv
<1>4. SameOrder(q.call, r.call)  BY <1>1, <1>2, <1>3 DEF SameOrder
<1> QED BY <1>4 DEF OrderInv, RepliesInv, OneAnswer

\* With one generator of ids no two answers carry the same, under every fault:
\* what the comment of the purchase takes for granted, and two servers break.
THEOREM UniqueIDs ==
    ASSUME \A s, t \in Servers : s = t
    PROVE  Spec => []OrderIDsUnique
<1>1. Init => TypeInv /\ OrderInv /\ IdInv
  <2>1. Init => IdInv  BY DEF Init, IdInv
  <2> QED BY <2>1, TypeInit, OrderInit
<1>2. TypeInv /\ OrderInv /\ IdInv /\ [Next]_vars => (TypeInv /\ OrderInv /\ IdInv)'
  BY TypeNext, OrderNext, IdNext
<1>3. OrderInv /\ IdInv => OrderIDsUnique  BY AnswersDiffer
<1> QED BY <1>1, <1>2, <1>3, PTL DEF Spec
=============================================================================
