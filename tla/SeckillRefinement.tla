-------------------------- MODULE SeckillRefinement ------------------------
(***************************************************************************)
(* Seckill implements FlashSale.  What is left of a voucher is the stock   *)
(* in Redis; a pair is reserved when Redis has the user among the buyers,  *)
(* and fulfilled when MySQL has the row.  Opening the sale is the SET of   *)
(* the stock, not the transaction that creates the voucher.                *)
(* To MySQL it does no more than VoucherStore, which DataAccess implements *)
(* with connections, locks and statements: the three tables of both are    *)
(* the same.                                                               *)
(***************************************************************************)
EXTENDS Seckill

ReservedPairs  == {p \in Users \X Vouchers : p[1] \in buyers[p[2]]}
FulfilledPairs == {p \in Users \X Vouchers : HasOrder(p[1], p[2])}

Sale == INSTANCE FlashSale WITH
            Customers  <- Users,
            Items      <- Vouchers,
            Quantities <- Stocks,
            NotOnSale  <- NoKey,
            left       <- cacheStock,
            reserved   <- ReservedPairs,
            fulfilled  <- FulfilledPairs

\* Every step of the servers, whatever fails, is a step of the sale or
\* invisible to it, unless a SET is executed twice ("resent").
ImplementsFlashSale == Sale!Spec

Store == INSTANCE VoucherStore

\* Whatever fails on the way to it, MySQL sees vouchers created once and
\* orders that each take a unit.
ImplementsVoucherStore == Store!Spec
=============================================================================
