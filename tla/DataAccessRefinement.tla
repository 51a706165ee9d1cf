------------------------ MODULE DataAccessRefinement ------------------------
(***************************************************************************)
(* DataAccess implements VoucherStore: what is committed changes as if     *)
(* each repository method were one step.                                   *)
(***************************************************************************)
EXTENDS DataAccess

\* The kind of a voucher, from its row.
Kind(row) ==
    CASE row = NoRow -> "none"
      [] row = 0     -> "ordinary"
      [] row = 1     -> "seckill"

KindOf == [v \in Vouchers |-> Kind(db[VoucherRow(v)])]

StockOf == [v \in Vouchers |->
               IF db[StockRow(v)] = NoRow THEN 0 ELSE db[StockRow(v)]]

OrdersIn == {[id |-> id, user |-> db[OrderRow(id)].user,
              voucher |-> db[OrderRow(id)].voucher] :
                id \in {i \in OrderIDs : db[OrderRow(i)] # NoRow}}

Store == INSTANCE VoucherStore WITH
             kind <- KindOf, dbStock <- StockOf, orders <- OrdersIn

\* Every step of the workers and of MySQL, whatever fails, is one of the
\* store's three steps or invisible to it: an order without its unit of stock,
\* a stock without its voucher or a unit sold twice is never committed.
ImplementsVoucherStore == Store!Spec
=============================================================================
