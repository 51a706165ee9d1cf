---------------------------- MODULE VoucherStore ----------------------------
(***************************************************************************)
(* What the sale asks of MySQL, without connections, locks or statements:  *)
(* a voucher is created once, with its stock when it is a seckill voucher, *)
(* and an order takes one unit of a stock that has one.  Each is all or    *)
(* nothing.                                                                *)
(***************************************************************************)
EXTENDS Integers

CONSTANTS Users, Vouchers, OrderIDs,
          Stocks            \* stocks a seckill voucher can be listed with

VARIABLES kind, dbStock, orders

storeVars == <<kind, dbStock, orders>>

Init ==
    /\ kind = [v \in Vouchers |-> "none"]
    /\ dbStock = [v \in Vouchers |-> 0]
    /\ orders = {}

CreateOrdinary(v) ==
    /\ kind[v] = "none"
    /\ kind' = [kind EXCEPT ![v] = "ordinary"]
    /\ UNCHANGED <<dbStock, orders>>

CreateSeckill(v, stock) ==
    /\ kind[v] = "none"
    /\ kind' = [kind EXCEPT ![v] = "seckill"]
    /\ dbStock' = [dbStock EXCEPT ![v] = stock]
    /\ UNCHANGED orders

Place(id, u, v) ==
    /\ kind[v] = "seckill"
    /\ dbStock[v] > 0
    /\ \A o \in orders : o.id # id
    /\ dbStock' = [dbStock EXCEPT ![v] = @ - 1]
    /\ orders' = orders \cup {[id |-> id, user |-> u, voucher |-> v]}
    /\ UNCHANGED kind

Next ==
    \/ \E v \in Vouchers : CreateOrdinary(v)
    \/ \E v \in Vouchers, stock \in Stocks : CreateSeckill(v, stock)
    \/ \E id \in OrderIDs, u \in Users, v \in Vouchers : Place(id, u, v)

Spec == Init /\ [][Next]_storeVars
=============================================================================
