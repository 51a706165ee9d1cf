----------------------------- MODULE MCSeckill -----------------------------
(***************************************************************************)
(* Instances of Seckill for TLC: fault sets by name, and the bound on what *)
(* the environment asks for.                                               *)
(***************************************************************************)
EXTENDS Seckill, TLC

AllFaults       == {"refused", "replyLost", "resent", "dbFailed",
                    "commitLost", "crash"}
DatabaseFaults  == {"dbFailed", "commitLost"}
RequeueFails    == {"refused", "dbFailed"}
NoFaults        == {}

\* Users and order ids are interchangeable, and so are vouchers.
Symmetry == Permutations(Users) \cup Permutations(OrderIDs)
              \cup Permutations(Vouchers)
=============================================================================
