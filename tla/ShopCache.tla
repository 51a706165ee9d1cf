----------------------------- MODULE ShopCache -----------------------------
(***************************************************************************)
(* Shops in MySQL behind a cache in Redis.  A read looks in the cache and, *)
(* on a miss, joins the singleflight of its server: the first reader of a  *)
(* shop queries MySQL and fills the cache, the others wait for its answer. *)
(* An update or a delete writes MySQL and then deletes the key; a create   *)
(* only writes MySQL.  Entries expire, the positive ones after cacheShopTTL*)
(* and the negative ones (the empty string) after cacheNullTTL.            *)
(*                                                                         *)
(* A row is known by its version: history[i][k] says whether shop i has a  *)
(* row in version k, the last version is what MySQL holds, and an entry of *)
(* the cache, or an answer, is the version that was read.                  *)
(*                                                                         *)
(* FaultKinds is that of module Seckill: a command refused by Redis, a     *)
(* query or a write that MySQL fails, a write it commits while its reply   *)
(* is lost, a crash of a server.  A client that goes away cancels the      *)
(* query of its own request for everyone who waits for it: "dbFailed".     *)
(***************************************************************************)
EXTENDS Naturals, Sequences, FiniteSets

CONSTANTS
    Shops,          \* shop ids
    Servers,        \* processes of the program
    Readers,        \* concurrent GET /shop/:id requests
    Writers,        \* concurrent create, update and delete requests
    MaxVersion,     \* bound on the versions of a row
    FaultKinds,
    NoReader        \* nobody leads a flight

ASSUME NoReaderAssumption   == NoReader \notin Readers
ASSUME NonEmptyAssumption   == Servers # {} /\ Shops # {}
ASSUME MaxVersionAssumption == MaxVersion \in Nat \ {0}

VARIABLES
    history,    \* MySQL: the versions of each shop, the last is current
    cache,      \* Redis: cache:shop:i, the version it holds, 0 for no key
    excuse,     \* of the entry in cache: how it may have come to be stale
    flight,     \* memory: the leader of a server's flight for a shop
    reader,     \* memory: the read requests
    writer      \* memory: the write requests

vars == <<history, cache, excuse, flight, reader, writer>>

Version == 0 .. MaxVersion
Excuses == {"overtaken", "notDeleted"}

\* got is the version read, 0 for an error, until the next request.
ReaderPC == {"idle", "join", "query", "fill", "leave", "wait"}
Reader   == [pc : ReaderPC, server : Servers, shop : Shops, got : Version]
Writer   == [pc : {"idle", "delete"}, server : Servers, shop : Shops]

TypeOK ==
    /\ history \in [Shops -> Seq(BOOLEAN)]
    /\ \A i \in Shops : Len(history[i]) \in 1 .. MaxVersion
    /\ cache \in [Shops -> Version]
    /\ \A i \in Shops : cache[i] <= Len(history[i])
    /\ excuse \in [Shops -> SUBSET Excuses]
    /\ flight \in [Servers -> [Shops -> Readers \cup {NoReader}]]
    /\ reader \in [Readers -> Reader]
    /\ \A r \in Readers : reader[r].pc = "fill" => reader[r].got # 0
    /\ writer \in [Writers -> Writer]

Current(i) == Len(history[i])
Exists(i)  == history[i][Current(i)]
Fault(f)   == f \in FaultKinds

Idle == [pc |-> "idle", server |-> CHOOSE s \in Servers : TRUE,
         shop |-> CHOOSE i \in Shops : TRUE]

Init ==
    /\ history \in [Shops -> {<<FALSE>>, <<TRUE>>}]
    /\ cache = [i \in Shops |-> 0]
    /\ excuse = [i \in Shops |-> {}]
    /\ flight = [s \in Servers |-> [i \in Shops |-> NoReader]]
    /\ reader = [r \in Readers |-> [pc |-> "idle", server |-> Idle.server,
                                    shop |-> Idle.shop, got |-> 0]]
    /\ writer = [w \in Writers |-> Idle]

-----------------------------------------------------------------------------
(***************************************************************************)
(* Reading.                                                                *)
(***************************************************************************)
\* The version an answer of GetShopByID carries: a row that exists, "not
\* found" (a version without a row), or an error.  The empty string of a
\* negative entry is no JSON: a hit on it is an error, not "not found".
CacheAnswer(i) == IF history[i][cache[i]] THEN cache[i] ELSE 0

GetShopCache(r, s, i) ==
    /\ reader[r].pc = "idle"
    /\ \E pc \in {"idle", "join"}, got \in Version :
          /\ \/ cache[i] = 0 /\ pc = "join" /\ got = 0
             \/ cache[i] # 0 /\ pc = "idle" /\ got = CacheAnswer(i)
             \/ Fault("refused") /\ pc = "idle" /\ got = 0
          /\ reader' = [reader EXCEPT ![r] =
                          [pc |-> pc, server |-> s, shop |-> i, got |-> got]]
    /\ UNCHANGED <<history, cache, excuse, flight, writer>>

\* Slip: without singleflight every caller queries.
JoinFlightAlways(r) ==
    /\ reader[r].pc = "join"
    /\ flight' = [flight EXCEPT ![reader[r].server][reader[r].shop] = r]
    /\ reader' = [reader EXCEPT ![r].pc = "query"]
    /\ UNCHANGED <<history, cache, excuse, writer>>

\* singleflight: the first caller leads, the others wait.
JoinFlight(r) ==
    LET s == reader[r].server
        i == reader[r].shop
    IN  /\ reader[r].pc = "join"
        /\ \/ /\ flight[s][i] = NoReader
              /\ flight' = [flight EXCEPT ![s][i] = r]
              /\ reader' = [reader EXCEPT ![r].pc = "query"]
           \/ /\ flight[s][i] # NoReader
              /\ reader' = [reader EXCEPT ![r].pc = "wait"]
              /\ UNCHANGED flight
        /\ UNCHANGED <<history, cache, excuse, writer>>

\* Slip: the failure of the query is logged and not returned.
QueryShopFallThrough(r) ==
    /\ reader[r].pc = "query"
    /\ \/ reader' = [reader EXCEPT ![r].pc = "fill",
                                   ![r].got = Current(reader[r].shop)]
       \/ Fault("dbFailed") /\ reader' = [reader EXCEPT ![r].pc = "fill"]
    /\ UNCHANGED <<history, cache, excuse, flight, writer>>

QueryShop(r) ==
    /\ reader[r].pc = "query"
    /\ \/ reader' = [reader EXCEPT ![r].pc = "fill",
                                   ![r].got = Current(reader[r].shop)]
       \/ Fault("dbFailed") /\ reader' = [reader EXCEPT ![r].pc = "leave"]
    /\ UNCHANGED <<history, cache, excuse, flight, writer>>

\* SetShopCache of a row, SetShopCacheNil of its absence; an error is logged.
FillCache(r) ==
    LET i == reader[r].shop
    IN  /\ reader[r].pc = "fill"
        /\ \/ /\ cache' = [cache EXCEPT ![i] = reader[r].got]
              /\ excuse' = [excuse EXCEPT ![i] =
                   IF reader[r].got < Current(i) THEN {"overtaken"} ELSE {}]
           \/ Fault("refused") /\ UNCHANGED <<cache, excuse>>
        /\ reader' = [reader EXCEPT ![r].pc = "leave"]
        /\ UNCHANGED <<history, flight, writer>>

\* Slip: the leader answers its own request only.
LandFlightAlone(r) ==
    /\ reader[r].pc = "leave"
    /\ flight' = [flight EXCEPT ![reader[r].server][reader[r].shop] = NoReader]
    /\ reader' = [reader EXCEPT ![r].pc = "idle"]
    /\ UNCHANGED <<history, cache, excuse, writer>>

\* The flight ends: its leader and everyone waiting for it have the answer.
LandFlight(r) ==
    LET s == reader[r].server
        i == reader[r].shop
        Aboard(q) == \/ q = r
                     \/ /\ reader[q].pc = "wait"
                        /\ reader[q].server = s
                        /\ reader[q].shop = i
    IN  /\ reader[r].pc = "leave"
        /\ flight' = [flight EXCEPT ![s][i] = NoReader]
        /\ reader' = [q \in Readers |->
                        IF Aboard(q)
                        THEN [reader[q] EXCEPT !.pc = "idle", !.got = reader[r].got]
                        ELSE reader[q]]
        /\ UNCHANGED <<history, cache, excuse, writer>>

-----------------------------------------------------------------------------
(***************************************************************************)
(* Writing.  An UPDATE or a DELETE of a shop that does not exist affects   *)
(* no row and is no error; the key is deleted all the same.                *)
(***************************************************************************)
Write(i, exists) ==
    /\ Current(i) < MaxVersion
    /\ history' = [history EXCEPT ![i] = Append(@, exists)]

CreateShop(w, i) ==
    /\ writer[w].pc = "idle"
    /\ ~Exists(i)
    /\ Write(i, TRUE)
    /\ UNCHANGED <<cache, excuse, flight, reader, writer>>

\* An entry that outlives a write whose DEL is not to come.
Excused(i) == IF cache[i] = 0 THEN {} ELSE excuse[i] \cup {"notDeleted"}

\* Slip: the key of a shop whose row is deleted is left to expire.
ChangeShopKeepingKey(w, s, i) ==
    /\ writer[w].pc = "idle"
    /\ \/ /\ Exists(i) /\ Write(i, TRUE)
          /\ writer' = [writer EXCEPT ![w] =
                          [pc |-> "delete", server |-> s, shop |-> i]]
       \/ Exists(i) /\ Write(i, FALSE) /\ UNCHANGED writer
    /\ UNCHANGED <<cache, excuse, flight, reader>>

\* UpdateShop, or DeleteShop.  When MySQL reports an error the request ends:
\* the key is not deleted, not even if the write was committed.
ChangeShop(w, s, i) ==
    /\ writer[w].pc = "idle"
    /\ \/ /\ \/ Exists(i) /\ \E exists \in BOOLEAN : Write(i, exists)
             \/ ~Exists(i) /\ UNCHANGED history
          /\ writer' = [writer EXCEPT ![w] =
                          [pc |-> "delete", server |-> s, shop |-> i]]
          /\ UNCHANGED excuse
       \/ /\ Fault("commitLost")
          /\ Exists(i) /\ \E exists \in BOOLEAN : Write(i, exists)
          /\ excuse' = [excuse EXCEPT ![i] = Excused(i)]
          /\ UNCHANGED writer
    /\ UNCHANGED <<cache, flight, reader>>

\* A DEL that fails is logged, and the request answers success.
DeleteShopCache(w) ==
    LET i == writer[w].shop
    IN  /\ writer[w].pc = "delete"
        /\ \/ /\ cache' = [cache EXCEPT ![i] = 0]
              /\ excuse' = [excuse EXCEPT ![i] = {}]
           \/ /\ Fault("refused")
              /\ excuse' = [excuse EXCEPT ![i] = Excused(i)]
              /\ UNCHANGED cache
        /\ writer' = [writer EXCEPT ![w] = Idle]
        /\ UNCHANGED <<history, flight, reader>>

-----------------------------------------------------------------------------
\* Slip: the negative entries have no TTL.
ExpireRow(i) ==
    /\ cache[i] # 0
    /\ history[i][cache[i]]
    /\ cache' = [cache EXCEPT ![i] = 0]
    /\ excuse' = [excuse EXCEPT ![i] = {}]
    /\ UNCHANGED <<history, flight, reader, writer>>

\* The TTL of a key runs out.
Expire(i) ==
    /\ cache[i] # 0
    /\ cache' = [cache EXCEPT ![i] = 0]
    /\ excuse' = [excuse EXCEPT ![i] = {}]
    /\ UNCHANGED <<history, flight, reader, writer>>

\* A server stops: its flights and requests are gone, a DEL not sent never is.
Crash(s) ==
    /\ Fault("crash")
    /\ flight' = [flight EXCEPT ![s] = [i \in Shops |-> NoReader]]
    /\ reader' = [r \in Readers |->
                    IF reader[r].server = s /\ reader[r].pc # "idle"
                    THEN [reader[r] EXCEPT !.pc = "idle", !.got = 0]
                    ELSE reader[r]]
    /\ writer' = [w \in Writers |->
                    IF writer[w].server = s THEN Idle ELSE writer[w]]
    /\ excuse' = [i \in Shops |->
                    IF \E w \in Writers :
                         writer[w] = [pc |-> "delete", server |-> s, shop |-> i]
                    THEN Excused(i)
                    ELSE excuse[i]]
    /\ UNCHANGED <<history, cache>>

Read(r) ==
    \/ JoinFlight(r)
    \/ QueryShop(r)
    \/ FillCache(r)
    \/ LandFlight(r)

Next ==
    \/ \E r \in Readers, s \in Servers, i \in Shops : GetShopCache(r, s, i)
    \/ \E r \in Readers : Read(r)
    \/ \E w \in Writers, i \in Shops : CreateShop(w, i)
    \/ \E w \in Writers, s \in Servers, i \in Shops : ChangeShop(w, s, i)
    \/ \E w \in Writers : DeleteShopCache(w)
    \/ \E i \in Shops : Expire(i)
    \/ \E s \in Servers : Crash(s)

Spec == Init /\ [][Next]_vars

(***************************************************************************)
(* A handler runs to its end, and every key has a TTL.                     *)
(***************************************************************************)
FairSpec ==
    /\ Spec
    /\ \A r \in Readers : WF_vars(Read(r))
    /\ \A w \in Writers : WF_vars(DeleteShopCache(w))
    /\ \A i \in Shops : WF_vars(Expire(i))

-----------------------------------------------------------------------------
Stale(i) == cache[i] # 0 /\ cache[i] < Current(i)

\* Why an entry can be stale: the fill was overtaken by a write; a DEL failed
\* or was never sent; a DEL is still to come; or it says that a shop does not
\* exist, and creating the shop does not delete it.
StaleExplained ==
    \A i \in Shops : Stale(i) =>
        \/ excuse[i] # {}
        \/ \E w \in Writers : writer[w].pc = "delete" /\ writer[w].shop = i
        \/ ~history[i][cache[i]]

\* A server queries MySQL for one shop once at a time, and whoever waits has
\* somebody to wait for.
FlightHasLeader ==
    \A s \in Servers, i \in Shops :
        LET Of(pcs) == {r \in Readers : /\ reader[r].pc \in pcs
                                        /\ reader[r].server = s
                                        /\ reader[r].shop = i}
        IN  /\ Of({"query", "fill", "leave"}) =
                  IF flight[s][i] = NoReader THEN {} ELSE {flight[s][i]}
            /\ Of({"wait"}) # {} => flight[s][i] # NoReader

\* Every read is answered, whatever becomes of the flight it waits for.
ReadAnswered == \A r \in Readers : reader[r].pc # "idle" ~> reader[r].pc = "idle"

\* After the last write the cache comes to agree with MySQL for good, the
\* negative entries too: staleness is bounded by the TTL.
EventuallyFresh == <>[](\A i \in Shops : ~Stale(i))
=============================================================================
