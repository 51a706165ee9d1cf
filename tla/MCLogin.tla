------------------------------ MODULE MCLogin ------------------------------
(***************************************************************************)
(* Instances of Login for TLC.                                             *)
(***************************************************************************)
EXTENDS Login, TLC

AllFaults == {"refused", "replyLost", "resent", "dbFailed",
              "commitLost", "crash"}
NoFaults  == {}

Symmetry == Permutations(Requests)
=============================================================================
