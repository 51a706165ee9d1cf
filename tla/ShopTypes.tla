----------------------------- MODULE ShopTypes -----------------------------
(***************************************************************************)
(* The list of shop types: a table that no operation of the program writes *)
(* and its copy in a Redis list.  A request that finds the list empty, or  *)
(* cannot read it, queries MySQL and appends every row to the list with    *)
(* RPUSH, in one MULTI/EXEC.  Nothing deletes the list and it has no TTL,  *)
(* so two requests that find it empty leave two copies in it.              *)
(*                                                                         *)
(* FaultKinds is that of module Seckill; failures counts the Redis         *)
(* commands that were refused or executed twice.  A table without rows is  *)
(* never cached, and is left out.                                          *)
(***************************************************************************)
EXTENDS Naturals, Sequences, FiniteSets

CONSTANTS
    Types,          \* the rows of tb_shop_type in the order of column sort
    Requests,       \* concurrent GET /shop_type requests
    MaxFailures,    \* bound on failures
    FaultKinds

Rows == {Types[i] : i \in DOMAIN Types}

ASSUME TypesAssumption == Types \in Seq(Rows) /\ Types # << >>
ASSUME RequestsAssumption == IsFiniteSet(Requests)
ASSUME MaxFailuresAssumption == MaxFailures \in Nat

VARIABLES
    cached,     \* Redis: cache:shopType:
    request,    \* memory: the requests, with the answer of the last one
    failures    \* see above

vars == <<cached, request, failures>>

\* A client that gets an error has no list.
Request == [pc : {"idle", "query", "fill"}, answer : Seq(Rows)]

TypeOK ==
    /\ cached \in Seq(Rows)
    /\ request \in [Requests -> Request]
    /\ failures \in 0 .. MaxFailures

Fault(f) == f \in FaultKinds

RedisFails(f) ==
    /\ Fault(f)
    /\ failures < MaxFailures
    /\ failures' = failures + 1

Init ==
    /\ cached = << >>
    /\ request = [r \in Requests |-> [pc |-> "idle", answer |-> << >>]]
    /\ failures = 0

Answer(r, list) == request' = [request EXCEPT ![r] = [pc |-> "idle", answer |-> list]]
Goto(r, where)  == request' = [request EXCEPT ![r] = [pc |-> where, answer |-> << >>]]

\* Slip: the cached list is not used.
GetShopTypeListCacheUnused(r) ==
    /\ request[r].pc = "idle"
    /\ Goto(r, "query")
    /\ UNCHANGED <<cached, failures>>

\* An error is logged, and goes on like an empty list.
GetShopTypeListCache(r) ==
    /\ request[r].pc = "idle"
    /\ \/ cached # << >> /\ Answer(r, cached) /\ UNCHANGED failures
       \/ cached = << >> /\ Goto(r, "query") /\ UNCHANGED failures
       \/ RedisFails("refused") /\ Goto(r, "query")
    /\ UNCHANGED cached

GetShopTypeList(r) ==
    /\ request[r].pc = "query"
    /\ \/ Goto(r, "fill")
       \/ Fault("dbFailed") /\ Goto(r, "idle")
    /\ UNCHANGED <<cached, failures>>

\* Slip: the list is marshalled as a whole and pushed as one element.
SetShopTypeListCacheAsOne(r) ==
    /\ request[r].pc = "fill"
    /\ cached' = Append(cached, Types)
    /\ Answer(r, Types)
    /\ UNCHANGED failures

\* Slip: a pipeline that is no transaction may break off in the middle.
SetShopTypeListCacheInParts(r) ==
    /\ request[r].pc = "fill"
    /\ \E n \in 1 .. Len(Types) : cached' = cached \o SubSeq(Types, 1, n)
    /\ Answer(r, Types)
    /\ UNCHANGED failures

\* An error is logged; the rows read from MySQL are the answer.
SetShopTypeListCache(r) ==
    /\ request[r].pc = "fill"
    /\ \/ cached' = cached \o Types /\ Answer(r, Types) /\ UNCHANGED failures
       \/ RedisFails("refused") /\ Answer(r, Types) /\ UNCHANGED cached
       \/ RedisFails("resent") /\ cached' = cached \o Types /\ UNCHANGED request

\* The client goes away, or the process stops.
Abandon(r) ==
    /\ Fault("crash")
    /\ request[r].pc # "idle"
    /\ Goto(r, "idle")
    /\ UNCHANGED <<cached, failures>>

Next == \E r \in Requests : \/ GetShopTypeListCache(r)
                            \/ GetShopTypeList(r)
                            \/ SetShopTypeListCache(r)
                            \/ Abandon(r)

Spec == Init /\ [][Next]_vars
-----------------------------------------------------------------------------
\* list holds whole copies of the table, one after the other.
WholeCopies(list) ==
    /\ Len(list) % Len(Types) = 0
    /\ \A i \in DOMAIN list : list[i] = Types[((i - 1) % Len(Types)) + 1]

\* Whatever requests overlap and whatever fails, no client is ever given part
\* of the table, or its rows out of order.
AnswersWhole == \A r \in Requests : WholeCopies(request[r].answer)

\* There are no more copies than requests that were under way together, and
\* one for every failure: a list that is filled, and can be read, is filled
\* for good.
CopiesBounded ==
    Len(cached) <= (Cardinality(Requests) + failures) * Len(Types)
=============================================================================
