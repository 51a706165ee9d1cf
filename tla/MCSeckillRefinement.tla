------------------------ MODULE MCSeckillRefinement ------------------------
(***************************************************************************)
(* Instances of SeckillRefinement for TLC.                                 *)
(***************************************************************************)
EXTENDS SeckillRefinement, TLC

\* No SET or XADD is executed twice, and no transaction is reported as failed
\* that was committed.
CleanFaults == {"refused", "replyLost", "dbFailed", "crash"}
=============================================================================
