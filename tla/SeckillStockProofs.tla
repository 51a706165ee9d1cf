------------------------- MODULE SeckillStockProofs ------------------------
(***************************************************************************)
(* Theorems about the two stocks of Seckill, the one Redis sells from and  *)
(* the one MySQL gives out from, and about the abstract specifications     *)
(* that Seckill implements.                                                *)
(***************************************************************************)
EXTENDS SeckillRefinement, SeckillProofs

(***************************************************************************)
(* MySQL.  An order and a decrement are one transaction, so orders plus    *)
(* stock is what was listed; the conditional UPDATE keeps the stock of a   *)
(* voucher with an order from going below zero.                            *)
(***************************************************************************)
Listed ==
    \A v \in Vouchers :
        kind[v] # "seckill" => listed[v] = 0 /\ dbStock[v] = 0 /\ OrdersOf(v) = {}

StockInv ==
    /\ \A v \in Vouchers : IsFiniteSet(OrdersOf(v))
    /\ Listed
    /\ DbNeverOversold

LEMMA StockFrame ==
    ASSUME StockInv, UNCHANGED <<mysqlVars, listed>>
    PROVE  StockInv'
BY DEF StockInv, Listed, DbNeverOversold, OrdersOf, mysqlVars

LEMMA StockCreate ==
    ASSUME TypeInv, StockInv, NEW s \in Servers, NEW w \in Vouchers, Create(s, w)
    PROVE  StockInv'
<1>1. UNCHANGED orders /\ \A v \in Vouchers : OrdersOf(v)' = OrdersOf(v)
  BY DEF Create, CreateOrdinaryVoucher, CreateSeckillVoucher, OrdersOf
<1>2. kind \in [Vouchers -> Kinds] /\ dbStock \in [Vouchers -> Int]
      /\ listed \in [Vouchers -> Int]
  BY DEF TypeInv, TypeOK, TypeMySQL, TypeMemory
<1>3. CASE CreateOrdinaryVoucher(s, w)
  <2>1. UNCHANGED <<dbStock, listed>>
        /\ \A v \in Vouchers : kind'[v] # "seckill" => kind[v] # "seckill"
    BY <1>2, <1>3 DEF CreateOrdinaryVoucher, createVars
  <2> QED BY <1>1, <2>1 DEF StockInv, Listed, DbNeverOversold
<1>4. CASE \E stock \in Stocks : CreateSeckillVoucher(s, w, stock)
  <2>1. PICK stock \in Stocks :
           /\ kind[w] = "none"
           /\ kind' = [kind EXCEPT ![w] = "seckill"]
           /\ dbStock' = [dbStock EXCEPT ![w] = stock]
           /\ listed' = [listed EXCEPT ![w] = stock]
    BY <1>4 DEF CreateSeckillVoucher
  <2>2. stock \in Int  BY StocksAssumption
  <2>3. OrdersOf(w) = {}  BY <2>1 DEF StockInv, Listed
  <2>4. Listed'
    BY <1>1, <1>2, <2>1 DEF StockInv, Listed
  <2>5. DbNeverOversold'
    <3>1. Cardinality({}) = 0  BY FS_EmptySet
    <3> QED BY <1>1, <1>2, <2>1, <2>2, <2>3, <3>1 DEF StockInv, DbNeverOversold
  <2> QED BY <1>1, <2>4, <2>5 DEF StockInv
<1> QED BY <1>3, <1>4 DEF Create

LEMMA StockCommit ==
    ASSUME TypeInv, StockInv, NEW m \in Message, Applies(m), Commit(m),
           UNCHANGED <<kind, listed>>
    PROVE  StockInv'
<1> DEFINE new == [id |-> m.id, user |-> m.user, voucher |-> m.voucher]
           w == m.voucher
<1>1. /\ w \in Vouchers /\ new.voucher = w
      /\ kind[w] = "seckill" /\ dbStock[w] > 0
      /\ new \notin orders
      /\ orders' = orders \cup {new}
      /\ dbStock' = [dbStock EXCEPT ![w] = @ - 1]
      /\ dbStock \in [Vouchers -> Int] /\ listed \in [Vouchers -> Int]
  BY DEF Applies, Commit, Message, TypeInv, TypeOK, TypeMySQL, TypeMemory
<1>2. \A v \in Vouchers : v # w => OrdersOf(v)' = OrdersOf(v)
  BY <1>1 DEF OrdersOf
<1>3. OrdersOf(w)' = OrdersOf(w) \cup {new} /\ new \notin OrdersOf(w)
  BY <1>1 DEF OrdersOf
<1>4. /\ IsFiniteSet(OrdersOf(w))
      /\ IsFiniteSet(OrdersOf(w))'
      /\ Cardinality(OrdersOf(w)') = Cardinality(OrdersOf(w)) + 1
      /\ Cardinality(OrdersOf(w)) \in Nat
  <2>1. IsFiniteSet(OrdersOf(w))  BY <1>1 DEF StockInv
  <2>2. /\ IsFiniteSet(OrdersOf(w) \cup {new})
        /\ Cardinality(OrdersOf(w) \cup {new}) = Cardinality(OrdersOf(w)) + 1
    BY <1>3, <2>1, FS_AddElement
  <2>3. Cardinality(OrdersOf(w)) \in Nat  BY <2>1, FS_CardinalityType
  <2>4. /\ IsFiniteSet(OrdersOf(w))'
        /\ Cardinality(OrdersOf(w)') = Cardinality(OrdersOf(w)) + 1
    BY <1>3, <2>2
  <2> QED BY <2>1, <2>3, <2>4
<1>5. Listed'
  BY <1>1, <1>2 DEF StockInv, Listed
<1>6. DbNeverOversold'
  <2> SUFFICES ASSUME NEW v \in Vouchers
               PROVE  /\ Cardinality(OrdersOf(v)') + dbStock'[v] = listed[v]
                      /\ OrdersOf(v)' # {} => dbStock'[v] >= 0
    BY DEF DbNeverOversold
  <2>1. CASE v = w
    BY <1>1, <1>4, <2>1 DEF StockInv, DbNeverOversold
  <2>2. CASE v # w
    BY <1>1, <1>2, <2>2 DEF StockInv, DbNeverOversold
  <2> QED BY <2>1, <2>2
<1> QED BY <1>2, <1>4, <1>5, <1>6 DEF StockInv

LEMMA StockNext == TypeInv /\ StockInv /\ [Next]_vars => StockInv'
<1> SUFFICES ASSUME TypeInv, StockInv, [Next]_vars PROVE StockInv'  OBVIOUS
<1> USE DEF createVars
<1>1. CASE UNCHANGED vars
  BY <1>1, StockFrame DEF vars
<1>2. CASE \E v \in Vouchers : SetVoucherStockCache(v)
  BY <1>2, StockFrame DEF SetVoucherStockCache
<1>3. CASE \E s \in Servers, u \in Users, v \in Vouchers : SeckillVoucher(s, u, v)
  BY <1>3, StockFrame DEF SeckillVoucher
<1>4. CASE \E c \in calls : ExecScript(c)
  BY <1>4, StockFrame DEF ExecScript
<1>5. CASE \E s \in Servers : Crash(s) \/ Restart(s)
  BY <1>5, StockFrame DEF Crash, Restart
<1>6. ASSUME NEW s \in Servers, Consume(s) PROVE StockInv'
  <2>1. CASE CreateGroup(s)
    BY <2>1, StockFrame DEF CreateGroup
  <2>2. CASE ReadPendingMessages(s)
    BY <2>2, StockFrame DEF ReadPendingMessages
  <2>3. CASE MoveToDLQ(s)
    BY <2>3, StockFrame DEF MoveToDLQ
  <2>4. CASE Ack(s)
    BY <2>4, StockFrame DEF Ack
  <2>5. CASE RequeueMessage(s)
    BY <2>5, StockFrame DEF RequeueMessage
  <2>6. CASE HandleOrderMsg(s)
    <3>1. InHand(s) \in Message
      BY <2>6, InHandInStream DEF HandleOrderMsg, Working, TypeInv, TypeOK
    <3>2. UNCHANGED <<kind, listed>>  BY <2>6 DEF HandleOrderMsg
    <3>3. CASE Applies(InHand(s)) /\ Commit(InHand(s))
      BY <3>1, <3>2, <3>3, StockCommit
    <3>4. CASE UNCHANGED <<dbStock, orders>>
      BY <3>2, <3>4, StockFrame DEF mysqlVars
    <3> QED BY <2>6, <3>3, <3>4 DEF HandleOrderMsg
  <2> QED BY <1>6, <2>1, <2>2, <2>3, <2>4, <2>5, <2>6 DEF Consume
<1> QED BY <1>1, <1>2, <1>3, <1>4, <1>5, <1>6, StockCreate DEF Next

LEMMA StockInit == Init => StockInv
<1> SUFFICES ASSUME Init PROVE StockInv  OBVIOUS
<1>1. \A v \in Vouchers : /\ OrdersOf(v) = {}
                          /\ listed[v] = 0 /\ dbStock[v] = 0
  BY DEF Init, OrdersOf
<1>2. IsFiniteSet({}) /\ Cardinality({}) = 0  BY FS_EmptySet
<1> QED BY <1>1, <1>2 DEF StockInv, Listed, DbNeverOversold

\* MySQL never gives out more than was listed, whatever Redis promised.
THEOREM NeverOversold == Spec => []DbNeverOversold
<1>1. Init => TypeInv /\ StockInv  BY TypeInit, StockInit
<1>2. TypeInv /\ StockInv /\ [Next]_vars => (TypeInv /\ StockInv)'
  BY TypeNext, StockNext
<1>3. TypeInv /\ StockInv => DbNeverOversold  BY DEF StockInv
<1> QED BY <1>1, <1>2, <1>3, PTL DEF Spec

-----------------------------------------------------------------------------
(***************************************************************************)
(* The two stocks.  Each reservation lowers the one in Redis, each order   *)
(* the one in MySQL, and an order is the first one of a reservation; so    *)
(* the difference is the reservations without an order.  A SET executed    *)
(* twice would break this: hence the hypothesis.                           *)
(***************************************************************************)
NotOnSaleYet ==
    \A v \in Vouchers : cacheStock[v] = NoKey =>
        buyers[v] = {} /\ dbStock[v] = listed[v]

CachedOnce ==
    \A v \in Vouchers :
        /\ caching[v] # Nobody =>
              kind[v] = "seckill" /\ cacheStock[v] = NoKey /\ listed[v] \in Stocks
        /\ kind[v] = "none" => cacheStock[v] = NoKey

SaleInv ==
    /\ \A v \in Vouchers : IsFiniteSet(buyers[v])
    /\ NotOnSaleYet
    /\ CachedOnce
    /\ StockReconciles

\* A process that dies only takes vouchers off the list of those to cache.
LEMMA SaleFrame ==
    ASSUME SaleInv, UNCHANGED <<mysqlVars, saleVars, listed>>,
           \A v \in Vouchers : caching'[v] \in {caching[v], Nobody}
    PROVE  SaleInv'
<1>1. StockReconciles'
  BY DEF SaleInv, StockReconciles, Pending, HasOrder, mysqlVars, saleVars
<1> QED BY <1>1 DEF SaleInv, NotOnSaleYet, CachedOnce, mysqlVars, saleVars

LEMMA SaleCreate ==
    ASSUME TypeInv, SaleInv, NEW s \in Servers, NEW w \in Vouchers, Create(s, w)
    PROVE  SaleInv'
<1>1. /\ kind \in [Vouchers -> Kinds] /\ dbStock \in [Vouchers -> Int]
      /\ listed \in [Vouchers -> Int]
      /\ caching \in [Vouchers -> Servers \cup {Nobody}]
  BY DEF TypeInv, TypeOK, TypeMySQL, TypeMemory
<1>2. /\ UNCHANGED <<orders, cacheStock, buyers>>
      /\ kind[w] = "none"
  BY DEF Create, CreateOrdinaryVoucher, CreateSeckillVoucher, saleVars
<1>3. cacheStock[w] = NoKey /\ buyers[w] = {}
  BY <1>2 DEF SaleInv, CachedOnce, NotOnSaleYet
<1>4. \A v \in Vouchers : Pending(v)' = Pending(v)
  BY <1>2 DEF Pending, HasOrder
<1>5. CASE CreateOrdinaryVoucher(s, w)
  BY <1>1, <1>2, <1>4, <1>5
     DEF CreateOrdinaryVoucher, createVars, SaleInv, NotOnSaleYet, CachedOnce,
         StockReconciles, Kinds
<1>6. CASE \E stock \in Stocks : CreateSeckillVoucher(s, w, stock)
  <2>1. PICK stock \in Stocks :
           /\ kind' = [kind EXCEPT ![w] = "seckill"]
           /\ dbStock' = [dbStock EXCEPT ![w] = stock]
           /\ listed' = [listed EXCEPT ![w] = stock]
           /\ caching' = [caching EXCEPT ![w] = s] \/ UNCHANGED caching
    BY <1>6 DEF CreateSeckillVoucher
  <2>2. NotOnSaleYet'
    BY <1>1, <1>2, <1>3, <2>1 DEF SaleInv, NotOnSaleYet
  <2>3. CachedOnce'
    BY <1>1, <1>2, <1>3, <2>1 DEF SaleInv, CachedOnce
  <2>4. StockReconciles'
    BY <1>1, <1>2, <1>3, <1>4, <2>1 DEF SaleInv, StockReconciles
  <2> QED BY <1>2, <2>2, <2>3, <2>4 DEF SaleInv
<1> QED BY <1>5, <1>6 DEF Create

LEMMA SaleSetVoucherStockCache ==
    ASSUME "resent" \notin FaultKinds, TypeInv, SaleInv,
           NEW w \in Vouchers, SetVoucherStockCache(w)
    PROVE  SaleInv'
<1>1. /\ UNCHANGED <<mysqlVars, buyers, listed>>
      /\ caching' = [caching EXCEPT ![w] = Nobody]
      /\ \/ cacheStock' = [cacheStock EXCEPT ![w] = listed[w]]
         \/ UNCHANGED cacheStock
      /\ kind[w] = "seckill" /\ cacheStock[w] = NoKey
  BY DEF SetVoucherStockCache, Fault, SaleInv, CachedOnce
<1>2. \A v \in Vouchers : caching'[v] \in {caching[v], Nobody}
  BY <1>1 DEF TypeInv, TypeOK, TypeMemory
<1>3. CASE UNCHANGED cacheStock
  BY <1>1, <1>2, <1>3, SaleFrame DEF saleVars
<1>4. CASE cacheStock' = [cacheStock EXCEPT ![w] = listed[w]]
  <2>1. buyers[w] = {} /\ dbStock[w] = listed[w]
    BY <1>1 DEF SaleInv, NotOnSaleYet
  <2>2. \A v \in Vouchers : cacheStock'[v] = IF v = w THEN listed[w]
                                                    ELSE cacheStock[v]
    BY <1>4 DEF TypeInv, TypeOK, TypeSale
  <2>3. \A v \in Vouchers : Pending(v)' = Pending(v)
    BY <1>1 DEF Pending, HasOrder, mysqlVars
  <2>4. Pending(w) = {} /\ Cardinality({}) = 0
    BY <2>1, FS_EmptySet DEF Pending
  <2>5. listed[w] \in Int  BY DEF TypeInv, TypeOK, TypeMemory
  <2>6. NotOnSaleYet'
    BY <1>1, <2>2, <2>5, NoKeyAssumption DEF SaleInv, NotOnSaleYet, mysqlVars
  <2>7. CachedOnce'
    BY <1>1, <1>2, <2>2 DEF SaleInv, CachedOnce, mysqlVars, TypeInv, TypeOK,
                            TypeMemory
  <2>8. StockReconciles'
    <3>1. \A v \in Vouchers : dbStock'[v] = dbStock[v]  BY <1>1 DEF mysqlVars
    <3> SUFFICES ASSUME NEW v \in Vouchers, cacheStock'[v] # NoKey
                 PROVE  cacheStock'[v] + Cardinality(Pending(v)') = dbStock'[v]
      BY DEF StockReconciles
    <3>2. CASE v = w
      <4>1. Cardinality(Pending(w)') = 0  BY <2>3, <2>4
      <4>2. cacheStock'[w] = listed[w]  BY <2>2
      <4> QED BY <2>1, <2>5, <3>1, <3>2, <4>1, <4>2
    <3>3. CASE v # w
      BY <2>2, <2>3, <3>1, <3>3 DEF SaleInv, StockReconciles
    <3> QED BY <3>2, <3>3
  <2> QED BY <1>1, <2>6, <2>7, <2>8 DEF SaleInv
<1> QED BY <1>1, <1>3, <1>4

\* Pending grows by the user who reserves.
LEMMA SaleReserves ==
    ASSUME TypeInv, OrderInv, SaleInv, NEW c \in Call, Reserves(c),
           UNCHANGED <<mysqlVars, createVars>>
    PROVE  SaleInv'
<1> DEFINE w == c.voucher
<1>1. /\ w \in Vouchers /\ c.user \in Users
      /\ cacheStock[w] \in Int /\ cacheStock[w] > 0 /\ cacheStock[w] # NoKey
      /\ c.user \notin buyers[w]
      /\ cacheStock' = [cacheStock EXCEPT ![w] = @ - 1]
      /\ buyers' = [buyers EXCEPT ![w] = @ \cup {c.user}]
  BY NoKeyAssumption DEF Reserves, Call
<1>2. \A v \in Vouchers :
         /\ cacheStock'[v] = IF v = w THEN cacheStock[w] - 1 ELSE cacheStock[v]
         /\ buyers'[v] = IF v = w THEN buyers[w] \cup {c.user} ELSE buyers[v]
  BY <1>1 DEF TypeInv, TypeOK, TypeSale
<1>3. \A v \in Vouchers : v # w => Pending(v)' = Pending(v)
  BY <1>2 DEF Pending, HasOrder, mysqlVars
<1>4. ~HasOrder(c.user, w)
  BY <1>1 DEF HasOrder, OrderInv, OrdersInv, OrdersFromStream, StreamInv,
              EntriesOfBuyers, SameOrder
<1>5. Pending(w)' = Pending(w) \cup {c.user} /\ c.user \notin Pending(w)
  BY <1>1, <1>2, <1>4 DEF Pending, HasOrder, mysqlVars
<1>6. IsFiniteSet(buyers[w]) /\ Pending(w) \subseteq buyers[w]
  BY <1>1 DEF SaleInv, Pending
<1>7. IsFiniteSet(Pending(w)) /\ IsFiniteSet(buyers[w] \cup {c.user})
  BY <1>6, FS_Subset, FS_AddElement
<1>8. /\ Cardinality(Pending(w)) \in Nat
      /\ Cardinality(Pending(w) \cup {c.user}) = Cardinality(Pending(w)) + 1
  BY <1>5, <1>7, FS_AddElement, FS_CardinalityType
<1>9. Cardinality(Pending(w)') = Cardinality(Pending(w)) + 1
  BY <1>5, <1>8
<1>10. cacheStock[w] - 1 # NoKey  BY <1>1, NoKeyAssumption
<1>11. NotOnSaleYet'
  BY <1>2, <1>10 DEF SaleInv, NotOnSaleYet, mysqlVars, createVars
<1>12. CachedOnce'
  BY <1>1, <1>2 DEF SaleInv, CachedOnce, mysqlVars, createVars
<1>13. StockReconciles'
  <2> SUFFICES ASSUME NEW v \in Vouchers, cacheStock'[v] # NoKey
               PROVE  cacheStock'[v] + Cardinality(Pending(v)') = dbStock[v]
    BY DEF StockReconciles, mysqlVars
  <2>1. CASE v = w
    BY <1>1, <1>2, <1>8, <1>9, <2>1 DEF SaleInv, StockReconciles
  <2>2. CASE v # w
    BY <1>2, <1>3, <2>2 DEF SaleInv, StockReconciles
  <2> QED BY <2>1, <2>2
<1>14. \A v \in Vouchers : IsFiniteSet(buyers'[v])
  BY <1>2, <1>7 DEF SaleInv
<1> QED BY <1>11, <1>12, <1>13, <1>14 DEF SaleInv

\* Pending shrinks by the user whose order is made.
LEMMA SaleCommit ==
    ASSUME TypeInv, OrderInv, SaleInv, NEW s \in Servers,
           consumer[s].pc = "handle", Applies(InHand(s)), Commit(InHand(s)),
           UNCHANGED <<kind, saleVars, createVars>>
    PROVE  SaleInv'
<1>1. PICK m \in Message : m = InHand(s)
  BY InHandInStream DEF TypeInv, TypeOK, Working
<1> DEFINE w == m.voucher
<1>2. /\ w \in Vouchers
      /\ m.user \in Pending(w)
      /\ dbStock' = [dbStock EXCEPT ![w] = @ - 1]
      /\ orders' = orders \cup {[id |-> m.id, user |-> m.user, voucher |-> w]}
  BY <1>1, AppliesToPending DEF Message, Commit
<1>3. \A v \in Vouchers :
         dbStock'[v] = IF v = w THEN dbStock[w] - 1 ELSE dbStock[v]
  BY <1>2 DEF TypeInv, TypeOK, TypeMySQL
<1>orders. \A u \in Users, v \in Vouchers :
         HasOrder(u, v)' <=> HasOrder(u, v) \/ (u = m.user /\ v = w)
  <2> DEFINE new == [id |-> m.id, user |-> m.user, voucher |-> w]
  <2>1. new.user = m.user /\ new.voucher = w  OBVIOUS
  <2>2. new \in orders' /\ orders \subseteq orders'
        /\ \A o \in orders' : o \in orders \/ o = new
    BY <1>2
  <2> QED BY <2>1, <2>2 DEF HasOrder
<1>buyers. buyers' = buyers /\ \A v \in Vouchers : buyers[v] \subseteq Users
  BY DEF saleVars, TypeInv, TypeOK, TypeSale
<1>4. \A v \in Vouchers : v # w => Pending(v)' = Pending(v)
  BY <1>orders, <1>buyers DEF Pending
<1>5. Pending(w)' = Pending(w) \ {m.user}
  BY <1>orders, <1>buyers, <1>2 DEF Pending
<1>6. IsFiniteSet(Pending(w))
  BY <1>2, FS_Subset DEF SaleInv, Pending
<1>7. /\ Cardinality(Pending(w)) \in Nat
      /\ Cardinality(Pending(w) \ {m.user}) = Cardinality(Pending(w)) - 1
  BY <1>2, <1>6, FS_RemoveElement, FS_CardinalityType
<1>8. Cardinality(Pending(w)') = Cardinality(Pending(w)) - 1
  BY <1>5, <1>7
<1>9. buyers[w] # {}  BY <1>2 DEF Pending
<1>10. /\ cacheStock[w] # NoKey
       /\ cacheStock[w] \in Int
       /\ dbStock[w] \in Int
  BY <1>2, <1>9 DEF SaleInv, NotOnSaleYet, TypeInv, TypeOK, TypeSale, TypeMySQL
<1>11. NotOnSaleYet'
  BY <1>3, <1>9 DEF SaleInv, NotOnSaleYet, saleVars, createVars
<1>12. CachedOnce'
  BY DEF SaleInv, CachedOnce, saleVars, createVars
<1>13. StockReconciles'
  <2> SUFFICES ASSUME NEW v \in Vouchers, cacheStock[v] # NoKey
               PROVE  cacheStock[v] + Cardinality(Pending(v)') = dbStock'[v]
    BY DEF StockReconciles, saleVars
  <2>1. CASE v = w
    BY <1>2, <1>3, <1>7, <1>8, <1>10, <2>1 DEF SaleInv, StockReconciles
  <2>2. CASE v # w
    BY <1>3, <1>4, <2>2 DEF SaleInv, StockReconciles
  <2> QED BY <2>1, <2>2
<1> QED BY <1>11, <1>12, <1>13 DEF SaleInv, saleVars

LEMMA SaleNext ==
    ASSUME "resent" \notin FaultKinds
    PROVE  TypeInv /\ OrderInv /\ SaleInv /\ [Next]_vars => SaleInv'
<1> SUFFICES ASSUME TypeInv, OrderInv, SaleInv, [Next]_vars PROVE SaleInv'
  OBVIOUS
<1>0. UNCHANGED <<mysqlVars, saleVars, createVars>> => SaleInv'
  BY SaleFrame DEF createVars
<1>1. CASE UNCHANGED vars
  BY <1>0, <1>1 DEF vars
<1>2. CASE \E s \in Servers, v \in Vouchers : Create(s, v)
  BY <1>2, SaleCreate
<1>3. CASE \E v \in Vouchers : SetVoucherStockCache(v)
  BY <1>3, SaleSetVoucherStockCache
<1>4. CASE \E s \in Servers, u \in Users, v \in Vouchers : SeckillVoucher(s, u, v)
  BY <1>0, <1>4 DEF SeckillVoucher
<1>5. ASSUME NEW c \in calls, ExecScript(c) PROVE SaleInv'
  <2>1. /\ c \in Call
        /\ Reserves(c) \/ UNCHANGED saleVars
        /\ UNCHANGED <<mysqlVars, createVars>>
    BY <1>5, ExecScriptCases
  <2> QED BY <1>0, <2>1, SaleReserves
<1>6. ASSUME NEW s \in Servers, Die(s), UNCHANGED <<mysqlVars, saleVars, listed>>
      PROVE  SaleInv'
  BY <1>6, SaleFrame DEF Die
<1>7. ASSUME NEW s \in Servers, Crash(s) \/ Restart(s) PROVE SaleInv'
  <2>1. CASE Crash(s)    BY <1>6, <2>1 DEF Crash
  <2>2. CASE Restart(s)  BY <1>0, <2>2 DEF Restart
  <2> QED BY <1>7, <2>1, <2>2
<1>8. ASSUME NEW s \in Servers, Consume(s) PROVE SaleInv'
  <2>1. CASE CreateGroup(s)
    <3>1. UNCHANGED <<mysqlVars, saleVars, listed>>
          /\ (Die(s) \/ UNCHANGED caching)
      BY <2>1 DEF CreateGroup
    <3> QED BY <1>0, <1>6, <3>1 DEF createVars
  <2>2. CASE ReadPendingMessages(s)  BY <1>0, <2>2 DEF ReadPendingMessages
  <2>3. CASE MoveToDLQ(s)            BY <1>0, <2>3 DEF MoveToDLQ
  <2>4. CASE Ack(s)                  BY <1>0, <2>4 DEF Ack
  <2>5. CASE RequeueMessage(s)       BY <1>0, <2>5 DEF RequeueMessage
  <2>6. CASE HandleOrderMsg(s)
    <3>1. UNCHANGED <<kind, saleVars, createVars>> /\ consumer[s].pc = "handle"
      BY <2>6 DEF HandleOrderMsg
    <3>2. CASE Applies(InHand(s)) /\ Commit(InHand(s))
      BY <3>1, <3>2, SaleCommit
    <3>3. CASE UNCHANGED <<dbStock, orders>>
      BY <1>0, <3>1, <3>3 DEF mysqlVars
    <3> QED BY <2>6, <3>2, <3>3 DEF HandleOrderMsg
  <2> QED BY <1>8, <2>1, <2>2, <2>3, <2>4, <2>5, <2>6 DEF Consume
<1> QED BY <1>1, <1>2, <1>3, <1>4, <1>5, <1>7, <1>8 DEF Next

LEMMA SaleInit == Init => SaleInv
<1> SUFFICES ASSUME Init PROVE SaleInv  OBVIOUS
<1>1. IsFiniteSet({})  BY FS_EmptySet
<1> QED BY <1>1 DEF Init, SaleInv, NotOnSaleYet, CachedOnce, StockReconciles

\* Unless a command is sent to Redis twice, the two stocks differ by the
\* reservations without an order.
THEOREM StocksReconcile ==
    ASSUME "resent" \notin FaultKinds
    PROVE  Spec => []StockReconciles
<1>1. Init => TypeInv /\ OrderInv /\ SaleInv
  BY TypeInit, OrderInit, SaleInit
<1>2. TypeInv /\ OrderInv /\ SaleInv /\ [Next]_vars
        => (TypeInv /\ OrderInv /\ SaleInv)'
  BY TypeNext, OrderNext, SaleNext
<1>3. TypeInv /\ OrderInv /\ SaleInv => StockReconciles  BY DEF SaleInv
<1> QED BY <1>1, <1>2, <1>3, PTL DEF Spec

-----------------------------------------------------------------------------
(***************************************************************************)
(* Seckill implements FlashSale, unless a command is sent to Redis twice;  *)
(* and VoucherStore, whatever fails.                                       *)
(***************************************************************************)
AllInv == TypeInv /\ OrderInv /\ SaleInv

LEMMA Stutters ==
    ASSUME UNCHANGED <<orders, cacheStock, buyers>>
    PROVE  UNCHANGED Sale!saleVars
BY DEF Sale!saleVars, ReservedPairs, FulfilledPairs, HasOrder

\* The SET of the stock opens the sale.
LEMMA SetOpens ==
    ASSUME "resent" \notin FaultKinds, AllInv,
           NEW v \in Vouchers, SetVoucherStockCache(v)
    PROVE  Sale!Next \/ UNCHANGED Sale!saleVars
<1>1. /\ UNCHANGED <<orders, buyers>>
      /\ cacheStock[v] = NoKey /\ listed[v] \in Stocks
      /\ \/ cacheStock' = [cacheStock EXCEPT ![v] = listed[v]]
         \/ UNCHANGED cacheStock
  BY DEF SetVoucherStockCache, Fault, AllInv, SaleInv, CachedOnce, mysqlVars
<1>2. UNCHANGED <<ReservedPairs, FulfilledPairs>>
  BY <1>1 DEF ReservedPairs, FulfilledPairs, HasOrder
<1>3. CASE UNCHANGED cacheStock  BY <1>1, <1>3, Stutters
<1>4. CASE cacheStock' = [cacheStock EXCEPT ![v] = listed[v]]
  <2>1. Sale!Open(v)  BY <1>1, <1>2, <1>4 DEF Sale!Open
  <2> QED BY <2>1 DEF Sale!Next
<1> QED BY <1>1, <1>3, <1>4

\* The script that takes a unit reserves it.
LEMMA ScriptSells ==
    ASSUME AllInv, NEW c \in Call, Reserves(c), UNCHANGED orders
    PROVE  Sale!Next
<1>1. /\ c.voucher \in Vouchers /\ c.user \in Users
      /\ cacheStock[c.voucher] # NoKey /\ cacheStock[c.voucher] > 0
      /\ c.user \notin buyers[c.voucher]
      /\ cacheStock' = [cacheStock EXCEPT ![c.voucher] = @ - 1]
      /\ buyers' = [buyers EXCEPT ![c.voucher] = @ \cup {c.user}]
      /\ buyers \in [Vouchers -> SUBSET Users]
  BY NoKeyAssumption DEF Reserves, Call, AllInv, TypeInv, TypeOK, TypeSale
<1>2. <<c.user, c.voucher>> \notin ReservedPairs
  BY <1>1 DEF ReservedPairs
<1>3. ReservedPairs' = ReservedPairs \cup {<<c.user, c.voucher>>}
  <2>1. \A u \in Users, v \in Vouchers :
           u \in buyers'[v] <=> u \in buyers[v] \/ (u = c.user /\ v = c.voucher)
    BY <1>1
  <2>2. \A p \in Users \X Vouchers : p \in ReservedPairs' <=>
           p \in ReservedPairs \/ (p[1] = c.user /\ p[2] = c.voucher)
    BY <2>1 DEF ReservedPairs
  <2>3. \A p \in Users \X Vouchers :
           (p[1] = c.user /\ p[2] = c.voucher) <=> p = <<c.user, c.voucher>>
    OBVIOUS
  <2>4. /\ ReservedPairs \subseteq Users \X Vouchers
        /\ ReservedPairs' \subseteq Users \X Vouchers
        /\ <<c.user, c.voucher>> \in Users \X Vouchers
    BY <1>1 DEF ReservedPairs
  <2> QED BY <2>2, <2>3, <2>4
<1>4. UNCHANGED FulfilledPairs  BY DEF FulfilledPairs, HasOrder
<1>5. Sale!Reserve(c.user, c.voucher)
  BY <1>1, <1>2, <1>3, <1>4 DEF Sale!Reserve
<1> QED BY <1>1, <1>5 DEF Sale!Next

\* The transaction that makes the order fulfils the reservation.
LEMMA CommitFulfils ==
    ASSUME AllInv, NEW s \in Servers, consumer[s].pc = "handle",
           Applies(InHand(s)), Commit(InHand(s)), UNCHANGED saleVars
    PROVE  Sale!Next
<1>1. PICK m \in Message : m = InHand(s)
  BY InHandInStream DEF AllInv, TypeInv, TypeOK, Working
<1> DEFINE pair == <<m.user, m.voucher>>
           new  == [id |-> m.id, user |-> m.user, voucher |-> m.voucher]
<1>2. /\ m.user \in Users /\ m.voucher \in Vouchers
      /\ m.user \in buyers[m.voucher] /\ ~HasOrder(m.user, m.voucher)
      /\ orders' = orders \cup {new}
      /\ UNCHANGED <<cacheStock, buyers>>
  BY <1>1, AppliesToPending DEF Message, Commit, AllInv, Pending, saleVars
<1>3. pair \in Users \X Vouchers /\ pair[1] = m.user /\ pair[2] = m.voucher
  BY <1>2
<1>4. pair \in ReservedPairs /\ pair \notin FulfilledPairs
  BY <1>2, <1>3 DEF ReservedPairs, FulfilledPairs
<1>5. FulfilledPairs' = FulfilledPairs \cup {pair}
  <2>1. \A u \in Users, v \in Vouchers :
           HasOrder(u, v)' <=> HasOrder(u, v) \/ (u = m.user /\ v = m.voucher)
    <3>1. new.user = m.user /\ new.voucher = m.voucher  OBVIOUS
    <3>2. new \in orders' /\ orders \subseteq orders'
          /\ \A o \in orders' : o \in orders \/ o = new
      BY <1>2
    <3> QED BY <3>1, <3>2 DEF HasOrder
  <2>2. \A p \in Users \X Vouchers : p \in FulfilledPairs' <=>
           p \in FulfilledPairs \/ (p[1] = m.user /\ p[2] = m.voucher)
    BY <2>1 DEF FulfilledPairs
  <2>3. \A p \in Users \X Vouchers :
           (p[1] = m.user /\ p[2] = m.voucher) <=> p = pair
    OBVIOUS
  <2>4. /\ FulfilledPairs \subseteq Users \X Vouchers
        /\ FulfilledPairs' \subseteq Users \X Vouchers
    BY DEF FulfilledPairs
  <2> QED BY <1>3, <2>2, <2>3, <2>4
<1>6. UNCHANGED ReservedPairs  BY <1>2 DEF ReservedPairs
<1>7. Sale!Fulfil(m.user, m.voucher)
  BY <1>2, <1>4, <1>5, <1>6 DEF Sale!Fulfil
<1> QED BY <1>2, <1>7 DEF Sale!Next

LEMMA StepRefines ==
    ASSUME "resent" \notin FaultKinds
    PROVE  AllInv /\ [Next]_vars => [Sale!Next]_Sale!saleVars
<1> SUFFICES ASSUME AllInv, [Next]_vars
             PROVE  Sale!Next \/ UNCHANGED Sale!saleVars
  OBVIOUS
<1>0. UNCHANGED <<mysqlVars, saleVars>> => UNCHANGED Sale!saleVars
  BY Stutters DEF mysqlVars, saleVars
<1>1. CASE UNCHANGED vars
  BY <1>0, <1>1 DEF vars
<1>2. CASE \E s \in Servers, v \in Vouchers : Create(s, v)
  BY <1>2, Stutters DEF Create, CreateOrdinaryVoucher, CreateSeckillVoucher,
                        saleVars
<1>3. CASE \E v \in Vouchers : SetVoucherStockCache(v)
  BY <1>3, SetOpens
<1>4. CASE \E s \in Servers, u \in Users, v \in Vouchers : SeckillVoucher(s, u, v)
  BY <1>0, <1>4 DEF SeckillVoucher
<1>5. ASSUME NEW c \in calls, ExecScript(c)
      PROVE  Sale!Next \/ UNCHANGED Sale!saleVars
  <2>1. /\ c \in Call
        /\ Reserves(c) \/ UNCHANGED saleVars
        /\ UNCHANGED mysqlVars
    BY <1>5, ExecScriptCases DEF AllInv
  <2>2. CASE Reserves(c)         BY <2>1, <2>2, ScriptSells DEF mysqlVars
  <2>3. CASE UNCHANGED saleVars  BY <1>0, <2>1, <2>3
  <2> QED BY <2>1, <2>2, <2>3
<1>6. CASE \E s \in Servers : Crash(s) \/ Restart(s)
  BY <1>0, <1>6 DEF Crash, Restart
<1>7. ASSUME NEW s \in Servers, Consume(s)
      PROVE  Sale!Next \/ UNCHANGED Sale!saleVars
  <2>1. CASE CreateGroup(s)          BY <1>0, <2>1 DEF CreateGroup
  <2>2. CASE ReadPendingMessages(s)  BY <1>0, <2>2 DEF ReadPendingMessages
  <2>3. CASE MoveToDLQ(s)            BY <1>0, <2>3 DEF MoveToDLQ
  <2>4. CASE Ack(s)                  BY <1>0, <2>4 DEF Ack
  <2>5. CASE RequeueMessage(s)       BY <1>0, <2>5 DEF RequeueMessage
  <2>6. CASE HandleOrderMsg(s)
    <3>1. UNCHANGED saleVars /\ consumer[s].pc = "handle"
      BY <2>6 DEF HandleOrderMsg
    <3>2. CASE Applies(InHand(s)) /\ Commit(InHand(s))
      BY <3>1, <3>2, CommitFulfils
    <3>3. CASE UNCHANGED orders
      BY <3>1, <3>3, Stutters DEF saleVars
    <3> QED BY <2>6, <3>2, <3>3 DEF HandleOrderMsg
  <2> QED BY <1>7, <2>1, <2>2, <2>3, <2>4, <2>5, <2>6 DEF Consume
<1> QED BY <1>1, <1>2, <1>3, <1>4, <1>5, <1>6, <1>7 DEF Next

\* Every behaviour of the program is a behaviour of the sale.
THEOREM Refinement ==
    ASSUME "resent" \notin FaultKinds
    PROVE  Spec => ImplementsFlashSale
<1>1. Init => AllInv
  BY TypeInit, OrderInit, SaleInit DEF AllInv
<1>2. AllInv /\ [Next]_vars => AllInv'
  BY TypeNext, OrderNext, SaleNext DEF AllInv
<1>3. Init => Sale!Init
  BY DEF Init, Sale!Init, ReservedPairs, FulfilledPairs, HasOrder
<1>4. AllInv /\ [Next]_vars => [Sale!Next]_Sale!saleVars
  BY StepRefines
<1> QED BY <1>1, <1>2, <1>3, <1>4, PTL
        DEF Spec, ImplementsFlashSale, Sale!Spec

-----------------------------------------------------------------------------
(***************************************************************************)
(* The same steps seen from MySQL: only a creation and a transaction of    *)
(* the consumer touch it, and what a transaction finds there decides       *)
(* alone whether it applies.                                               *)
(***************************************************************************)
LEMMA CreateStores ==
    ASSUME TypeInv, NEW s \in Servers, NEW v \in Vouchers, Create(s, v)
    PROVE  Store!Next
<1>1. CASE CreateOrdinaryVoucher(s, v)
  <2>1. Store!CreateOrdinary(v)
    BY <1>1 DEF CreateOrdinaryVoucher, Store!CreateOrdinary
  <2> QED BY <2>1 DEF Store!Next
<1>2. CASE \E stock \in Stocks : CreateSeckillVoucher(s, v, stock)
  <2>1. PICK stock \in Stocks : CreateSeckillVoucher(s, v, stock)  BY <1>2
  <2>2. Store!CreateSeckill(v, stock)
    BY <2>1 DEF CreateSeckillVoucher, Store!CreateSeckill
  <2> QED BY <2>2 DEF Store!Next
<1> QED BY <1>1, <1>2 DEF Create

LEMMA CommitStores ==
    ASSUME TypeInv, NEW s \in Servers, HandleOrderMsg(s)
    PROVE  Store!Next \/ UNCHANGED Store!storeVars
<1>1. PICK m \in Message : m = InHand(s)
  BY InHandInStream DEF TypeInv, TypeOK, Working, HandleOrderMsg
<1>2. UNCHANGED kind  BY DEF HandleOrderMsg
<1>3. CASE UNCHANGED <<dbStock, orders>>
  BY <1>2, <1>3 DEF Store!storeVars
<1>4. CASE Applies(m) /\ Commit(m)
  <2>1. m.id \in OrderIDs /\ m.user \in Users /\ m.voucher \in Vouchers
    BY DEF Message
  <2>2. Store!Place(m.id, m.user, m.voucher)
    BY <1>2, <1>4 DEF Applies, Commit, Store!Place
  <2> QED BY <2>1, <2>2 DEF Store!Next
<1> QED BY <1>1, <1>3, <1>4 DEF HandleOrderMsg

LEMMA StepStores == TypeInv /\ [Next]_vars => [Store!Next]_Store!storeVars
<1> SUFFICES ASSUME TypeInv, [Next]_vars
             PROVE  Store!Next \/ UNCHANGED Store!storeVars
  OBVIOUS
<1> USE DEF mysqlVars, Store!storeVars
<1>1. CASE UNCHANGED vars  BY <1>1 DEF vars
<1>2. CASE \E s \in Servers, v \in Vouchers : Create(s, v)
  BY <1>2, CreateStores
<1>3. CASE \E v \in Vouchers : SetVoucherStockCache(v)
  BY <1>3 DEF SetVoucherStockCache
<1>4. CASE \E s \in Servers, u \in Users, v \in Vouchers : SeckillVoucher(s, u, v)
  BY <1>4 DEF SeckillVoucher
<1>5. CASE \E c \in calls : ExecScript(c)  BY <1>5 DEF ExecScript
<1>6. CASE \E s \in Servers : Crash(s) \/ Restart(s)
  BY <1>6 DEF Crash, Restart
<1>7. ASSUME NEW s \in Servers, Consume(s)
      PROVE  Store!Next \/ UNCHANGED Store!storeVars
  <2>1. CASE HandleOrderMsg(s)  BY <2>1, CommitStores
  <2>2. CASE CreateGroup(s)  BY <2>2 DEF CreateGroup
  <2>3. CASE ReadPendingMessages(s)  BY <2>3 DEF ReadPendingMessages
  <2>4. CASE MoveToDLQ(s)  BY <2>4 DEF MoveToDLQ
  <2>5. CASE RequeueMessage(s)  BY <2>5 DEF RequeueMessage
  <2>6. CASE Ack(s)  BY <2>6 DEF Ack
  <2> QED BY <1>7, <2>1, <2>2, <2>3, <2>4, <2>5, <2>6 DEF Consume
<1> QED BY <1>1, <1>2, <1>3, <1>4, <1>5, <1>6, <1>7 DEF Next

\* Under every fault, what the servers do to MySQL is what VoucherStore
\* allows: vouchers created once, and orders that each take a unit.
THEOREM StoreRefinement == Spec => ImplementsVoucherStore
<1>1. Init => Store!Init  BY DEF Init, Store!Init
<1>2. Init => TypeInv  BY TypeInit
<1>3. TypeInv /\ [Next]_vars => TypeInv'  BY TypeNext
<1>4. TypeInv /\ [Next]_vars => [Store!Next]_Store!storeVars  BY StepStores
<1> QED BY <1>1, <1>2, <1>3, <1>4, PTL
        DEF Spec, ImplementsVoucherStore, Store!Spec
=============================================================================
