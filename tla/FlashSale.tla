----------------------------- MODULE FlashSale -----------------------------
(***************************************************************************)
(* What the flash sale promises, without servers, streams or faults: a     *)
(* voucher goes on sale once with a number of units; a customer takes a    *)
(* unit while there is one, at most one of each voucher; a taken unit may  *)
(* later become that customer's order.                                     *)
(***************************************************************************)
EXTENDS Integers

CONSTANTS
    Customers,
    Items,
    Quantities,     \* numbers of units an item can be put on sale with
    NotOnSale       \* the units left of an item not on sale, no number

VARIABLES
    left,       \* units left of each item
    reserved,   \* <<customer, item>> pairs with a unit taken
    fulfilled   \* the pairs whose order exists

saleVars == <<left, reserved, fulfilled>>

Init ==
    /\ left = [i \in Items |-> NotOnSale]
    /\ reserved = {}
    /\ fulfilled = {}

Open(i) ==
    /\ left[i] = NotOnSale
    /\ \E n \in Quantities : left' = [left EXCEPT ![i] = n]
    /\ UNCHANGED <<reserved, fulfilled>>

Reserve(c, i) ==
    /\ left[i] # NotOnSale
    /\ left[i] > 0
    /\ <<c, i>> \notin reserved
    /\ left' = [left EXCEPT ![i] = @ - 1]
    /\ reserved' = reserved \cup {<<c, i>>}
    /\ UNCHANGED fulfilled

Fulfil(c, i) ==
    /\ <<c, i>> \in reserved
    /\ <<c, i>> \notin fulfilled
    /\ fulfilled' = fulfilled \cup {<<c, i>>}
    /\ UNCHANGED <<left, reserved>>

Next ==
    \/ \E i \in Items : Open(i)
    \/ \E c \in Customers, i \in Items : Reserve(c, i) \/ Fulfil(c, i)

Spec == Init /\ [][Next]_saleVars
=============================================================================
