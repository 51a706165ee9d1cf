---------------------------- MODULE MCDataAccess ----------------------------
(***************************************************************************)
(* An instance of DataAccessRefinement for TLC: two workers of one process *)
(* that has one connection, and a worker of another process.               *)
(***************************************************************************)
EXTENDS DataAccessRefinement, TLC

CONSTANTS w1, w2, w3, c1, c2

Pools     == (w1 :> {c1}) @@ (w2 :> {c1}) @@ (w3 :> {c2})
AllFaults == {"failed", "commitLost", "connLost", "crash"}
=============================================================================
