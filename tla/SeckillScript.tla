--------------------------- MODULE SeckillScript ---------------------------
(***************************************************************************)
(* The Lua script adjustSeckill that Redis runs for every purchase         *)
(* request, and the Redis stream commands the order queue is built on, as  *)
(* pure operators.  Redis runs a script, and a command, without            *)
(* interleaving, so each is one step of the modules that use them.         *)
(***************************************************************************)
EXTENDS Naturals, Integers, Sequences

(***************************************************************************)
(* A key that does not exist in Redis.  The script compares it with 0      *)
(* after tonumber(), which is an error in Lua.                             *)
(***************************************************************************)
CONSTANT NoKey

ASSUME NoKeyAssumption == NoKey \notin Int

(***************************************************************************)
(* What the script answers for a stock key holding `stock' and a set       *)
(* `bought' of the users that already hold a reservation.  "raised" is the *)
(* Lua error of `tonumber(nil) <= 0'; it is raised before any write.       *)
(***************************************************************************)
ScriptAnswers == {"taken", "noStock", "again", "raised"}

\* Slip: the SISMEMBER test is left out.
AdjustSeckillRepeat(stock, bought, user) ==
    IF stock = NoKey THEN "raised"
    ELSE IF stock <= 0 THEN "noStock"
    ELSE "taken"

\* Slip: the stock is compared with < instead of <=.
AdjustSeckillAtZero(stock, bought, user) ==
    IF stock = NoKey THEN "raised"
    ELSE IF stock < 0 THEN "noStock"
    ELSE IF user \in bought THEN "again"
    ELSE "taken"

AdjustSeckill(stock, bought, user) ==
    IF stock = NoKey THEN "raised"
    ELSE IF stock <= 0 THEN "noStock"
    ELSE IF user \in bought THEN "again"
    ELSE "taken"

(***************************************************************************)
(* XADD appends an entry.  An entry is named by its position from 1, which *)
(* stands for the id Redis generates for "*"; the consumer group by 0.     *)
(***************************************************************************)
XAdd(entries, m) == Append(entries, m)

OrderGroup == 0

(***************************************************************************)
(* XGROUP CREATE key group 0: a new group starts before the first entry; a *)
(* group that exists (BUSYGROUP) keeps its position.                       *)
(***************************************************************************)
\* Slip: the group is destroyed and created anew at every start.
XGroupCreateAnew(exists, lastDelivered, entries) == 0

XGroupCreate(exists, lastDelivered, entries) ==
    IF exists THEN lastDelivered ELSE 0

(***************************************************************************)
(* XACK key group id: takes the id out of the pending list of that group.  *)
(* For a group that does not exist it answers 0, which is no error.        *)
(***************************************************************************)
XAck(pending, groupName, msgID) ==
    IF groupName = OrderGroup THEN pending \ {msgID} ELSE pending

=============================================================================
