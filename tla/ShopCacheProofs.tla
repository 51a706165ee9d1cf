--------------------------- MODULE ShopCacheProofs --------------------------
(***************************************************************************)
(* Theorems about ShopCache for every set of shops, servers, readers and   *)
(* writers, every bound on versions and every set of faults.               *)
(***************************************************************************)
EXTENDS ShopCache, TLAPS

(***************************************************************************)
(* TypeOK is not inductive as it stands: that the cache holds a version    *)
(* MySQL has had rests on the readers, which carry it there.               *)
(***************************************************************************)
ReadersBehind == \A r \in Readers : reader[r].got <= Current(reader[r].shop)

TypeInv == TypeOK /\ ReadersBehind

TypeHistory ==
    /\ history \in [Shops -> Seq(BOOLEAN)]
    /\ \A i \in Shops : Len(history[i]) \in 1 .. MaxVersion

TypeCache ==
    /\ cache \in [Shops -> Version]
    /\ \A i \in Shops : cache[i] <= Current(i)

TypeExcuse == excuse \in [Shops -> SUBSET Excuses]
TypeFlight == flight \in [Servers -> [Shops -> Readers \cup {NoReader}]]
TypeWriter == writer \in [Writers -> Writer]

TypeReader ==
    /\ reader \in [Readers -> Reader]
    /\ \A r \in Readers : /\ reader[r].pc = "fill" => reader[r].got # 0
                          /\ reader[r].got <= Current(reader[r].shop)

LEMMA TypeParts ==
    /\ TypeInv <=> TypeHistory /\ TypeCache /\ TypeExcuse /\ TypeFlight
                     /\ TypeWriter /\ TypeReader
    /\ TypeInv' <=> TypeHistory' /\ TypeCache' /\ TypeExcuse' /\ TypeFlight'
                     /\ TypeWriter' /\ TypeReader'
BY DEF TypeInv, TypeOK, ReadersBehind, TypeHistory, TypeCache, TypeExcuse,
       TypeFlight, TypeWriter, TypeReader, Current

\* What a step does not touch keeps its types; history may have grown.
LEMMA Frames ==
    /\ TypeHistory /\ UNCHANGED history => TypeHistory'
    /\ TypeCache /\ UNCHANGED <<history, cache>> => TypeCache'
    /\ TypeExcuse /\ UNCHANGED excuse => TypeExcuse'
    /\ TypeFlight /\ UNCHANGED flight => TypeFlight'
    /\ TypeWriter /\ UNCHANGED writer => TypeWriter'
    /\ TypeReader /\ UNCHANGED <<history, reader>> => TypeReader'
BY DEF TypeHistory, TypeCache, TypeExcuse, TypeFlight, TypeWriter, TypeReader,
       Current

LEMMA VersionType ==
    /\ 0 \in Version /\ Version \subseteq Nat
    /\ TypeHistory => \A i \in Shops :
          /\ Current(i) \in Version
          /\ Current(i) \in Nat
          /\ Current(i) # 0
          /\ 0 <= Current(i)
BY MaxVersionAssumption DEF Version, TypeHistory, Current

LEMMA IdleType ==
    /\ Idle \in Writer /\ Idle.pc = "idle"
    /\ Idle.server \in Servers /\ Idle.shop \in Shops
BY NonEmptyAssumption DEF Idle, Writer

\* A version is added after the others.
LEMMA Written ==
    ASSUME TypeHistory, NEW i \in Shops, NEW exists \in BOOLEAN,
           Write(i, exists)
    PROVE  /\ TypeHistory'
           /\ \A j \in Shops :
                 /\ Current(j)' = IF j = i THEN Current(i) + 1 ELSE Current(j)
                 /\ \A v \in 1 .. Current(j) : history'[j][v] = history[j][v]
           /\ history'[i][Current(i) + 1] = exists
<1>1. /\ history' = [history EXCEPT ![i] = Append(history[i], exists)]
      /\ history \in [Shops -> Seq(BOOLEAN)]
      /\ Len(history[i]) < MaxVersion
  BY DEF Write, TypeHistory, Current
<1>2. /\ Append(history[i], exists) \in Seq(BOOLEAN)
      /\ Len(Append(history[i], exists)) = Len(history[i]) + 1
      /\ \A v \in 1 .. Len(history[i]) :
            Append(history[i], exists)[v] = history[i][v]
      /\ Append(history[i], exists)[Len(history[i]) + 1] = exists
  BY <1>1
<1>3. TypeHistory'
  BY <1>1, <1>2, MaxVersionAssumption DEF TypeHistory
<1> QED BY <1>1, <1>2, <1>3 DEF Current

\* What the cache and the readers hold stays behind what MySQL holds.
LEMMA BehindFrame ==
    ASSUME TypeInv, TypeHistory',
           \A i \in Shops : Current(i) <= Current(i)'
    PROVE  /\ UNCHANGED cache => TypeCache'
           /\ UNCHANGED reader => TypeReader'
<1>1. /\ \A i \in Shops : /\ Current(i) \in Nat /\ Current(i)' \in Nat
                          /\ Current(i) <= Current(i)'
      /\ \A a, b, c \in Nat : a <= b /\ b <= c => a <= c
  BY VersionType, TypeParts DEF TypeHistory, Current
<1>2. UNCHANGED cache => TypeCache'
  BY <1>1, TypeParts, VersionType DEF TypeCache
<1>3. \A r \in Readers : reader[r].shop \in Shops /\ reader[r].got \in Nat
  BY TypeParts, VersionType DEF TypeReader, Reader
<1>4. UNCHANGED reader => TypeReader'
  BY <1>1, <1>3, TypeParts DEF TypeReader
<1> QED BY <1>2, <1>4

LEMMA ExcusedType ==
    ASSUME TypeExcuse, NEW i \in Shops
    PROVE  Excused(i) \in SUBSET Excuses
BY DEF TypeExcuse, Excused, Excuses

\* A reader that changes to a value of its type, while MySQL stays as it is.
LEMMA ReaderMoves ==
    ASSUME TypeReader, UNCHANGED history, NEW r \in Readers, NEW q \in Reader,
           reader' = [reader EXCEPT ![r] = q],
           q.pc = "fill" => q.got # 0, q.got <= Current(q.shop)
    PROVE  TypeReader'
<1>1. /\ reader' \in [Readers -> Reader]
      /\ \A x \in Readers : reader'[x] = IF x = r THEN q ELSE reader[x]
  BY DEF TypeReader
<1>2. \A j \in Shops : Current(j)' = Current(j)  BY DEF Current
<1>3. Current(q.shop)' = Current(q.shop)  BY DEF Current
<1> QED BY <1>1, <1>2, <1>3 DEF TypeReader, Reader

LEMMA TypeGetShopCache ==
    ASSUME TypeInv, NEW r \in Readers, NEW s \in Servers, NEW i \in Shops,
           GetShopCache(r, s, i)
    PROVE  TypeInv'
<1>0. /\ TypeHistory /\ TypeCache /\ TypeExcuse /\ TypeFlight /\ TypeWriter
      /\ TypeReader
      /\ UNCHANGED <<history, cache, excuse, flight, writer>>
  BY TypeParts DEF GetShopCache
<1>1. PICK pc \in {"idle", "join"}, got \in Version :
         /\ got = 0 \/ got = CacheAnswer(i)
         /\ reader' = [reader EXCEPT ![r] =
                          [pc |-> pc, server |-> s, shop |-> i, got |-> got]]
  BY DEF GetShopCache
<1> DEFINE q == [pc |-> pc, server |-> s, shop |-> i, got |-> got]
<1>2. q \in Reader /\ q.pc # "fill" /\ q.shop = i /\ q.got = got
  BY DEF Reader, ReaderPC
<1>3. got <= Current(i)
  BY <1>0, <1>1, VersionType DEF CacheAnswer, TypeCache
<1>4. TypeReader'
  <2> HIDE DEF q
  <2> QED BY <1>0, <1>1, <1>2, <1>3, ReaderMoves DEF q
<1> QED BY <1>0, <1>4, TypeParts, Frames

\* The reader changes its counter, and perhaps what it has got.
LEMMA TypeStep ==
    ASSUME TypeReader, UNCHANGED history, NEW r \in Readers,
           NEW pc \in ReaderPC, NEW got \in Version,
           reader' = [reader EXCEPT ![r].pc = pc, ![r].got = got],
           pc = "fill" => got # 0, got <= Current(reader[r].shop)
    PROVE  TypeReader'
<1> DEFINE q == [reader[r] EXCEPT !.pc = pc, !.got = got]
<1>1. reader[r] \in Reader /\ reader \in [Readers -> Reader]  BY DEF TypeReader
<1>2. q \in Reader /\ q.pc = pc /\ q.got = got /\ q.shop = reader[r].shop
  BY <1>1 DEF Reader
<1>3. reader' = [reader EXCEPT ![r] = q]  BY <1>1 DEF Reader
<1> HIDE DEF q
<1> QED BY <1>2, <1>3, ReaderMoves

LEMMA TypeStepPC ==
    ASSUME TypeReader, UNCHANGED history, NEW r \in Readers,
           NEW pc \in ReaderPC \ {"fill"},
           reader' = [reader EXCEPT ![r].pc = pc]
    PROVE  TypeReader'
<1> DEFINE q == [reader[r] EXCEPT !.pc = pc]
<1>1. reader[r] \in Reader /\ reader \in [Readers -> Reader]
      /\ reader[r].got <= Current(reader[r].shop)
  BY DEF TypeReader
<1>2. q \in Reader /\ q.pc = pc /\ q.got = reader[r].got
      /\ q.shop = reader[r].shop
  BY <1>1 DEF Reader
<1>3. reader' = [reader EXCEPT ![r] = q]  BY <1>1 DEF Reader
<1> HIDE DEF q
<1> QED BY <1>1, <1>2, <1>3, ReaderMoves

LEMMA TypeRead ==
    ASSUME TypeInv, NEW r \in Readers, Read(r)
    PROVE  TypeInv'
<1>0. /\ TypeHistory /\ TypeCache /\ TypeExcuse /\ TypeFlight /\ TypeWriter
      /\ TypeReader
      /\ reader[r] \in Reader
      /\ reader[r].server \in Servers /\ reader[r].shop \in Shops
      /\ UNCHANGED history
  BY TypeParts DEF TypeReader, Reader, Read, JoinFlight, QueryShop, FillCache,
                   LandFlight
<1>1. CASE JoinFlight(r)
  <2>1. TypeFlight'  BY <1>0, <1>1 DEF JoinFlight, TypeFlight
  <2>2. \E pc \in {"query", "wait"} : reader' = [reader EXCEPT ![r].pc = pc]
    BY <1>1 DEF JoinFlight
  <2>3. TypeReader'  BY <1>0, <2>2, TypeStepPC DEF ReaderPC
  <2> QED BY <1>0, <1>1, <2>1, <2>3, TypeParts, Frames DEF JoinFlight
<1>2. CASE QueryShop(r)
  <2>1. CASE reader' = [reader EXCEPT ![r].pc = "fill",
                                      ![r].got = Current(reader[r].shop)]
    <3> DEFINE got == Current(reader[r].shop)
    <3>1. got \in Version /\ got # 0 /\ got <= got
      BY <1>0, VersionType
    <3>2. TypeReader'
      BY <1>0, <2>1, <3>1, TypeStep DEF ReaderPC
    <3> QED BY <1>0, <1>2, <3>2, TypeParts, Frames DEF QueryShop
  <2>2. CASE reader' = [reader EXCEPT ![r].pc = "leave"]
    <3>1. TypeReader'  BY <1>0, <2>2, TypeStepPC DEF ReaderPC
    <3> QED BY <1>0, <1>2, <3>1, TypeParts, Frames DEF QueryShop
  <2> QED BY <1>2, <2>1, <2>2 DEF QueryShop
<1>3. CASE FillCache(r)
  <2>1. TypeReader'
    BY <1>0, <1>3, TypeStepPC DEF FillCache, ReaderPC
  <2>2. TypeCache'
    <3>1. reader[r].got \in Version
          /\ reader[r].got <= Current(reader[r].shop)
      BY <1>0 DEF TypeReader, Reader
    <3> QED BY <1>0, <1>3, <3>1, Frames DEF FillCache, TypeCache, Current
  <2>3. TypeExcuse'
    BY <1>0, <1>3 DEF FillCache, TypeExcuse, Excuses
  <2> QED BY <1>0, <1>3, <2>1, <2>2, <2>3, TypeParts, Frames DEF FillCache
<1>4. CASE LandFlight(r)
  <2>1. TypeFlight'  BY <1>0, <1>4 DEF LandFlight, TypeFlight
  <2>2. TypeReader'
    <3>1. \A q \in Readers :
             \/ reader'[q] = reader[q]
             \/ /\ reader'[q] = [reader[q] EXCEPT !.pc = "idle",
                                                  !.got = reader[r].got]
                /\ reader[q].shop = reader[r].shop
      BY <1>4 DEF LandFlight
    <3>2. \A q \in Readers : reader[q] \in Reader  BY <1>0 DEF TypeReader
    <3>3. ASSUME NEW q \in Readers
          PROVE  /\ reader'[q] \in Reader
                 /\ reader'[q].shop = reader[q].shop
                 /\ \/ reader'[q] = reader[q]
                    \/ /\ reader'[q].pc = "idle"
                       /\ reader'[q].got = reader[r].got
                       /\ reader[q].shop = reader[r].shop
      <4>1. CASE reader'[q] = reader[q]  BY <3>2, <4>1
      <4>2. CASE /\ reader'[q] = [reader[q] EXCEPT !.pc = "idle",
                                                   !.got = reader[r].got]
                 /\ reader[q].shop = reader[r].shop
        <5>1. reader[q] \in Reader /\ reader[r].got \in Version
          BY <3>2 DEF Reader
        <5> QED BY <4>2, <5>1 DEF Reader, ReaderPC
      <4> QED BY <3>1, <4>1, <4>2
    <3>4. reader' \in [Readers -> Reader]
      <4>1. DOMAIN reader' = Readers /\ reader' = [q \in Readers |-> reader'[q]]
        BY <1>4 DEF LandFlight
      <4> QED BY <3>3, <4>1
    <3> QED BY <1>0, <3>3, <3>4 DEF TypeReader, Current
  <2> QED BY <1>0, <1>4, <2>1, <2>2, TypeParts, Frames DEF LandFlight
<1> QED BY <1>1, <1>2, <1>3, <1>4 DEF Read

\* A write, whatever becomes of its request.
LEMMA TypeWrite ==
    ASSUME TypeInv, NEW i \in Shops, NEW exists \in BOOLEAN, Write(i, exists),
           UNCHANGED <<cache, flight, reader>>, TypeExcuse', TypeWriter'
    PROVE  TypeInv'
<1>1. TypeHistory' /\ \A j \in Shops : Current(j) <= Current(j)'
  <2>1. TypeHistory  BY TypeParts
  <2>2. \A j \in Shops : Current(j) \in Nat  BY <2>1, VersionType
  <2> QED BY <2>1, <2>2, Written
<1> QED BY <1>1, BehindFrame, TypeParts, Frames

LEMMA TypeWriters ==
    ASSUME TypeInv, NEW w \in Writers, NEW i \in Shops,
           CreateShop(w, i) \/ \E s \in Servers : ChangeShop(w, s, i)
    PROVE  TypeInv'
<1>0. TypeExcuse /\ TypeWriter /\ Excused(i) \in SUBSET Excuses
  BY TypeParts, ExcusedType
<1>1. CASE CreateShop(w, i)
  <2>1. TypeExcuse' /\ TypeWriter'
    BY <1>0, <1>1, Frames DEF CreateShop
  <2> QED BY <1>1, <2>1, TypeWrite DEF CreateShop
<1>2. ASSUME NEW s \in Servers, ChangeShop(w, s, i) PROVE TypeInv'
  <2>1. TypeWriter'
    BY <1>0, <1>2 DEF ChangeShop, TypeWriter, Writer
  <2>2. TypeExcuse'
    BY <1>0, <1>2 DEF ChangeShop, TypeExcuse
  <2>3. UNCHANGED <<cache, flight, reader>>  BY <1>2 DEF ChangeShop
  <2>4. CASE UNCHANGED history
    BY <2>1, <2>2, <2>3, <2>4, TypeParts, Frames
  <2>5. CASE \E exists \in BOOLEAN : Write(i, exists)
    BY <2>1, <2>2, <2>3, <2>5, TypeWrite
  <2> QED BY <1>2, <2>4, <2>5 DEF ChangeShop
<1> QED BY <1>1, <1>2

\* A key that is gone, or not.
LEMMA TypeDrop ==
    ASSUME TypeInv, NEW i \in Shops, UNCHANGED history,
           cache' = [cache EXCEPT ![i] = 0] \/ UNCHANGED cache
    PROVE  TypeHistory' /\ TypeCache'
<1>1. TypeHistory /\ TypeCache  BY TypeParts
<1>2. \A j \in Shops : Current(j)' = Current(j) /\ 0 <= Current(j)
  BY <1>1, VersionType DEF Current
<1>3. TypeHistory'  BY <1>1, Frames
<1>4. TypeCache'  BY <1>1, <1>2, VersionType DEF TypeCache
<1> QED BY <1>3, <1>4

LEMMA TypeOthers ==
    ASSUME TypeInv,
           \/ \E w \in Writers : DeleteShopCache(w)
           \/ \E i \in Shops : Expire(i)
           \/ \E s \in Servers : Crash(s)
    PROVE  TypeInv'
<1>0. /\ TypeHistory /\ TypeCache /\ TypeExcuse /\ TypeFlight /\ TypeWriter
      /\ TypeReader
  BY TypeParts
<1>1. ASSUME NEW w \in Writers, DeleteShopCache(w) PROVE TypeInv'
  <2> DEFINE i == writer[w].shop
  <2>1. i \in Shops  BY <1>0 DEF TypeWriter, Writer
  <2>2. Excused(i) \in SUBSET Excuses  BY <1>0, <2>1, ExcusedType
  <2>3. TypeExcuse'  BY <1>0, <1>1, <2>1, <2>2 DEF DeleteShopCache, TypeExcuse
  <2>4. TypeWriter'  BY <1>0, <1>1, IdleType DEF DeleteShopCache, TypeWriter
  <2>5. TypeHistory' /\ TypeCache'
    BY <1>1, <2>1, TypeDrop DEF DeleteShopCache
  <2> QED BY <1>0, <1>1, <2>3, <2>4, <2>5, TypeParts, Frames DEF DeleteShopCache
<1>2. ASSUME NEW i \in Shops, Expire(i) PROVE TypeInv'
  <2>1. TypeExcuse'  BY <1>0, <1>2 DEF Expire, TypeExcuse
  <2>2. TypeHistory' /\ TypeCache'  BY <1>2, TypeDrop DEF Expire
  <2> QED BY <1>0, <1>2, <2>1, <2>2, TypeParts, Frames DEF Expire
<1>3. ASSUME NEW s \in Servers, Crash(s) PROVE TypeInv'
  <2>1. TypeFlight'  BY <1>0, <1>3 DEF Crash, TypeFlight
  <2>2. TypeWriter'  BY <1>0, <1>3, IdleType DEF Crash, TypeWriter
  <2>3. TypeExcuse'
    <3>1. \A i \in Shops : Excused(i) \in SUBSET Excuses
      BY <1>0, ExcusedType
    <3> QED BY <1>0, <1>3, <3>1 DEF Crash, TypeExcuse
  <2>4. TypeReader'
    <3>1. \A r \in Readers : /\ reader[r] \in Reader
                             /\ 0 <= Current(reader[r].shop)
      BY <1>0, VersionType DEF TypeReader, Reader
    <3>2. \A r \in Readers :
             \/ reader'[r] = reader[r]
             \/ reader'[r] = [reader[r] EXCEPT !.pc = "idle", !.got = 0]
      BY <1>3 DEF Crash
    <3>3. \A r \in Readers :
             /\ reader'[r] \in Reader
             /\ reader'[r].shop = reader[r].shop
             /\ \/ reader'[r] = reader[r]
                \/ reader'[r].pc = "idle" /\ reader'[r].got = 0
      BY <3>1, <3>2, VersionType DEF Reader, ReaderPC
    <3>4. reader' \in [Readers -> Reader]
      <4>1. DOMAIN reader' = Readers /\ reader' = [r \in Readers |-> reader'[r]]
        BY <1>3 DEF Crash
      <4> QED BY <3>3, <4>1
    <3>5. UNCHANGED history  BY <1>3 DEF Crash
    <3> QED BY <1>0, <3>1, <3>3, <3>4, <3>5 DEF TypeReader, Current
  <2> QED BY <1>0, <1>3, <2>1, <2>2, <2>3, <2>4, TypeParts, Frames DEF Crash
<1> QED BY <1>1, <1>2, <1>3

LEMMA TypeNext == TypeInv /\ [Next]_vars => TypeInv'
<1> SUFFICES ASSUME TypeInv, [Next]_vars PROVE TypeInv'  OBVIOUS
<1>1. CASE UNCHANGED vars
  BY <1>1, TypeParts, Frames DEF vars
<1>2. CASE Next
  BY <1>2, TypeGetShopCache, TypeRead, TypeWriters, TypeOthers DEF Next
<1> QED BY <1>1, <1>2

LEMMA TypeInit == Init => TypeInv
<1> SUFFICES ASSUME Init PROVE TypeInv  OBVIOUS
<1>1. TypeHistory
  <2>1. \A i \in Shops : history[i] \in Seq(BOOLEAN) /\ Len(history[i]) = 1
    <3>1. ASSUME NEW b \in BOOLEAN
          PROVE  <<b>> \in Seq(BOOLEAN) /\ Len(<<b>>) = 1
      BY <3>1
    <3>2. \A i \in Shops : history[i] = <<FALSE>> \/ history[i] = <<TRUE>>
      BY DEF Init
    <3> QED BY <3>1, <3>2
  <2>2. history \in [Shops -> Seq(BOOLEAN)]  BY <2>1 DEF Init
  <2>3. 1 \in 1 .. MaxVersion  BY MaxVersionAssumption
  <2>4. \A i \in Shops : Len(history[i]) \in 1 .. MaxVersion  BY <2>1, <2>3
  <2> QED BY <2>2, <2>4 DEF TypeHistory
<1>2. \A i \in Shops : 0 <= Current(i)  BY <1>1, VersionType
<1>3. TypeCache  BY <1>2, VersionType DEF Init, TypeCache
<1>4. TypeReader
  <2> DEFINE q == [pc |-> "idle", server |-> Idle.server, shop |-> Idle.shop,
                   got |-> 0]
  <2>1. q \in Reader /\ q.pc # "fill" /\ q.got = 0 /\ q.shop \in Shops
    BY IdleType, VersionType DEF Reader, ReaderPC
  <2>2. reader = [r \in Readers |-> q]  BY DEF Init
  <2> HIDE DEF q
  <2> QED BY <1>2, <2>1, <2>2 DEF TypeReader
<1>5. TypeExcuse /\ TypeFlight /\ TypeWriter
  BY IdleType DEF Init, TypeExcuse, TypeFlight, TypeWriter
<1> QED BY <1>1, <1>3, <1>4, <1>5, TypeParts

\* Every reachable state has the types of TypeOK; the cache holds no version
\* that MySQL has not had.
THEOREM ShopCacheTypes == Spec => []TypeOK
<1>1. TypeInv => TypeOK  BY DEF TypeInv
<1> QED BY <1>1, TypeInit, TypeNext, PTL DEF Spec

-----------------------------------------------------------------------------
(***************************************************************************)
(* Staleness.  Every step that leaves an entry behind what MySQL holds     *)
(* leaves its reason too: a fill that was overtaken and a DEL that will    *)
(* not come are recorded, a write is followed by a DEL, and a creation     *)
(* finds no other entry than a negative one.                               *)
(***************************************************************************)
Deleting(i) == \E w \in Writers : writer[w].pc = "delete" /\ writer[w].shop = i

Explained(i) ==
    Stale(i) => excuse[i] # {} \/ Deleting(i) \/ ~history[i][cache[i]]

LEMMA ExplainedAll == StaleExplained <=> \A i \in Shops : Explained(i)
BY DEF StaleExplained, Explained, Deleting

\* Nothing of shop i changes, and no DEL for it is lost.
LEMMA ExplainedFrame ==
    ASSUME NEW i \in Shops, Explained(i),
           history'[i] = history[i], cache'[i] = cache[i],
           excuse'[i] = excuse[i], Deleting(i) => Deleting(i)'
    PROVE  Explained(i)'
BY DEF Explained, Stale, Current

\* The entry of shop i has an excuse, or there is none.
LEMMA ExcusedExplained ==
    ASSUME NEW i \in Shops, cache'[i] = cache[i], excuse'[i] = Excused(i)
    PROVE  Explained(i)'
BY DEF Explained, Excused, Stale

LEMMA GoneExplained ==
    ASSUME NEW i \in Shops, cache'[i] = 0
    PROVE  Explained(i)'
BY DEF Explained, Stale

LEMMA StaleCreateShop ==
    ASSUME TypeInv, StaleExplained, NEW w \in Writers, NEW i \in Shops,
           CreateShop(w, i)
    PROVE  StaleExplained'
<1>1. TypeHistory /\ TypeCache  BY TypeParts
<1>2. /\ UNCHANGED <<cache, excuse, writer>>
      /\ history[i][Current(i)] = FALSE
      /\ \A j \in Shops :
            /\ Current(j)' = IF j = i THEN Current(i) + 1 ELSE Current(j)
            /\ \A v \in 1 .. Current(j) : history'[j][v] = history[j][v]
  <2>1. history[i][Current(i)] \in BOOLEAN
    BY <1>1 DEF TypeHistory, Current
  <2> QED BY <1>1, <2>1, Written DEF CreateShop, Exists
<1>3. ASSUME NEW j \in Shops PROVE Explained(j)'
  <2>1. /\ Current(j) \in Nat /\ cache[j] \in Nat /\ cache[j] <= Current(j)
        /\ Explained(j)
    BY <1>1, VersionType, ExplainedAll DEF TypeCache
  <2>2. Deleting(j)' <=> Deleting(j)  BY <1>2 DEF Deleting
  <2>3. cache[j] # 0 => history'[j][cache[j]] = history[j][cache[j]]
    <3>1. cache[j] # 0 => cache[j] \in 1 .. Current(j)  BY <2>1
    <3> QED BY <1>2, <3>1
  <2>4. CASE cache[j] < Current(j)
    BY <1>2, <2>1, <2>2, <2>3, <2>4 DEF Explained, Stale
  <2>5. CASE cache[j] = Current(j) /\ j = i
    BY <1>2, <2>1, <2>3, <2>5 DEF Explained, Stale
  <2>6. CASE cache[j] = Current(j) /\ j # i
    BY <1>2, <2>1, <2>6 DEF Explained, Stale
  <2> QED BY <2>1, <2>4, <2>5, <2>6
<1>4. StaleExplained' <=> \A j \in Shops : Explained(j)'
  BY DEF StaleExplained, Explained, Deleting
<1> QED BY <1>3, <1>4

LEMMA StaleNext == TypeInv /\ StaleExplained /\ [Next]_vars => StaleExplained'
<1> SUFFICES ASSUME TypeInv, StaleExplained, [Next]_vars
             PROVE  StaleExplained'
  OBVIOUS
<1>0. /\ TypeHistory /\ TypeCache /\ TypeExcuse /\ TypeWriter /\ TypeReader
      /\ \A i \in Shops : Explained(i)
      /\ StaleExplained' <=> \A i \in Shops : Explained(i)'
  BY TypeParts, ExplainedAll DEF StaleExplained, Explained, Deleting
<1>1. UNCHANGED <<history, cache, excuse, writer>> => StaleExplained'
  BY <1>0, ExplainedFrame DEF Deleting
<1>2. CASE UNCHANGED vars  BY <1>1, <1>2 DEF vars
<1>3. CASE \E r \in Readers, s \in Servers, i \in Shops : GetShopCache(r, s, i)
  BY <1>1, <1>3 DEF GetShopCache
<1>4. ASSUME NEW r \in Readers, Read(r) PROVE StaleExplained'
  <2>1. CASE ~FillCache(r)
    BY <1>1, <1>4, <2>1 DEF Read, JoinFlight, QueryShop, LandFlight
  <2>2. CASE FillCache(r)
    <3>0. reader[r].shop \in Shops  BY <1>0 DEF TypeReader, Reader
    <3>1. PICK i \in Shops : i = reader[r].shop /\ UNCHANGED <<history, writer>>
      BY <2>2, <3>0 DEF FillCache
    <3>2. CASE UNCHANGED <<cache, excuse>>  BY <1>1, <3>1, <3>2
    <3>3. CASE /\ cache' = [cache EXCEPT ![i] = reader[r].got]
               /\ excuse' = [excuse EXCEPT ![i] =
                     IF reader[r].got < Current(i) THEN {"overtaken"} ELSE {}]
      <4>1. ASSUME NEW j \in Shops, j # i PROVE Explained(j)'
        BY <1>0, <3>1, <3>3, <4>1, ExplainedFrame
           DEF TypeCache, TypeExcuse, Deleting
      <4>2. Explained(i)'
        <5>1. /\ cache'[i] = reader[r].got
              /\ excuse'[i] = IF reader[r].got < Current(i)
                              THEN {"overtaken"} ELSE {}
              /\ Current(i)' = Current(i)
          BY <1>0, <3>1, <3>3 DEF TypeCache, TypeExcuse, Current
        <5> QED BY <5>1 DEF Explained, Stale
      <4> QED BY <1>0, <4>1, <4>2
    <3> QED BY <2>2, <3>1, <3>2, <3>3 DEF FillCache
  <2> QED BY <2>1, <2>2
<1>5. ASSUME NEW w \in Writers, NEW s \in Servers, NEW i \in Shops,
             ChangeShop(w, s, i)
      PROVE  StaleExplained'
  <2>1. UNCHANGED cache /\ writer[w].pc = "idle"  BY <1>5 DEF ChangeShop
  <2>2. \A j \in Shops : j # i => history'[j] = history[j]
                                 /\ excuse'[j] = excuse[j]
    BY <1>0, <1>5 DEF ChangeShop, Write, TypeHistory, TypeExcuse
  <2>3. \A j \in Shops : Deleting(j) => Deleting(j)'
    BY <1>0, <1>5 DEF ChangeShop, TypeWriter, Deleting
  <2>4. \A j \in Shops : j # i => Explained(j)'
    BY <1>0, <2>1, <2>2, <2>3, ExplainedFrame
  <2>5. Explained(i)'
    <3>1. CASE writer' = [writer EXCEPT ![w] =
                             [pc |-> "delete", server |-> s, shop |-> i]]
      <4>1. Deleting(i)'
        BY <1>0, <3>1 DEF TypeWriter, Deleting
      <4> QED BY <4>1 DEF Explained
    <3>2. CASE excuse' = [excuse EXCEPT ![i] = Excused(i)]
      BY <1>0, <2>1, <3>2, ExcusedExplained DEF TypeExcuse
    <3> QED BY <1>5, <3>1, <3>2 DEF ChangeShop
  <2> QED BY <1>0, <2>4, <2>5
<1>6. ASSUME NEW w \in Writers, DeleteShopCache(w) PROVE StaleExplained'
  <2>0. writer[w].shop \in Shops  BY <1>0 DEF TypeWriter, Writer
  <2>1. PICK i \in Shops : i = writer[w].shop /\ UNCHANGED history
    BY <1>6, <2>0 DEF DeleteShopCache
  <2>2. \A j \in Shops : j # i => cache'[j] = cache[j] /\ excuse'[j] = excuse[j]
    BY <1>0, <1>6, <2>1 DEF DeleteShopCache, TypeCache, TypeExcuse
  <2>3. \A j \in Shops : j # i /\ Deleting(j) => Deleting(j)'
    BY <1>0, <1>6, <2>1 DEF DeleteShopCache, TypeWriter, Deleting
  <2>4. \A j \in Shops : j # i => Explained(j)'
    BY <1>0, <2>1, <2>2, <2>3, ExplainedFrame
  <2>5. Explained(i)'
    <3>1. CASE cache' = [cache EXCEPT ![i] = 0]
      BY <1>0, <2>1, <3>1, GoneExplained DEF TypeCache
    <3>2. CASE UNCHANGED cache /\ excuse' = [excuse EXCEPT ![i] = Excused(i)]
      BY <1>0, <2>1, <3>2, ExcusedExplained DEF TypeExcuse
    <3> QED BY <1>6, <2>1, <3>1, <3>2 DEF DeleteShopCache
  <2> QED BY <1>0, <2>4, <2>5
<1>7. ASSUME NEW i \in Shops, Expire(i) PROVE StaleExplained'
  <2>1. ASSUME NEW j \in Shops, j # i PROVE Explained(j)'
    BY <1>0, <1>7, <2>1, ExplainedFrame
       DEF Expire, TypeCache, TypeExcuse, Deleting
  <2>2. Explained(i)'
    BY <1>0, <1>7, GoneExplained DEF Expire, TypeCache
  <2> QED BY <1>0, <2>1, <2>2
<1>8. ASSUME NEW s \in Servers, Crash(s) PROVE StaleExplained'
  <2>1. UNCHANGED <<history, cache>>  BY <1>8 DEF Crash
  <2> DEFINE Lost(j) ==
                \E w \in Writers :
                   writer[w] = [pc |-> "delete", server |-> s, shop |-> j]
  <2>2. ASSUME NEW j \in Shops PROVE Explained(j)'
    <3>1. CASE Lost(j)
      BY <1>8, <2>1, <3>1, ExcusedExplained DEF Crash
    <3>2. CASE ~Lost(j)
      <4>1. excuse'[j] = excuse[j]  BY <1>8, <3>2 DEF Crash
      <4>2. ASSUME NEW w \in Writers, writer[w].pc = "delete",
                   writer[w].shop = j
            PROVE  writer[w].server # s
        <5>1. writer[w] \in Writer  BY <1>0 DEF TypeWriter
        <5>2. writer[w] = [pc |-> writer[w].pc, server |-> writer[w].server,
                           shop |-> writer[w].shop]
          BY <5>1 DEF Writer
        <5> QED BY <3>2, <4>2, <5>2
      <4>3. Deleting(j) => Deleting(j)'
        BY <1>8, <4>2 DEF Crash, Deleting
      <4> QED BY <1>0, <2>1, <4>1, <4>3, ExplainedFrame
    <3> QED BY <3>1, <3>2
  <2> QED BY <1>0, <2>2
<1> QED BY <1>2, <1>3, <1>4, <1>5, <1>6, <1>7, <1>8, StaleCreateShop DEF Next

\* An entry is stale for one of four reasons and for no other.
THEOREM Staleness == Spec => []StaleExplained
<1>1. Init => StaleExplained
  BY DEF Init, StaleExplained, Stale
<1> QED BY <1>1, TypeInit, TypeNext, StaleNext, PTL DEF Spec

-----------------------------------------------------------------------------
(***************************************************************************)
(* The flights.  The invariant says of each reader what the property says  *)
(* of each server and shop.                                                *)
(***************************************************************************)
LeadPC == {"query", "fill", "leave"}

FlightOf(r) == flight[reader[r].server][reader[r].shop]

FlightInv ==
    /\ \A r \in Readers : reader[r].pc \in LeadPC => FlightOf(r) = r
    /\ \A r \in Readers : reader[r].pc = "wait" => FlightOf(r) # NoReader
    /\ \A s \in Servers, i \in Shops : flight[s][i] # NoReader =>
          LET q == reader[flight[s][i]]
          IN  q.pc \in LeadPC /\ q.server = s /\ q.shop = i

LEMMA FlightInvLeader == TypeInv /\ FlightInv => FlightHasLeader
<1> SUFFICES ASSUME TypeInv, FlightInv, NEW s \in Servers, NEW i \in Shops
             PROVE  LET Of(pcs) == {r \in Readers : /\ reader[r].pc \in pcs
                                                    /\ reader[r].server = s
                                                    /\ reader[r].shop = i}
                    IN  /\ Of({"query", "fill", "leave"}) =
                              IF flight[s][i] = NoReader THEN {}
                                                         ELSE {flight[s][i]}
                        /\ Of({"wait"}) # {} => flight[s][i] # NoReader
  BY DEF FlightHasLeader
<1>1. flight[s][i] \in Readers \cup {NoReader}
  BY DEF TypeInv, TypeOK
<1>2. ASSUME NEW r \in Readers, reader[r].server = s, reader[r].shop = i
      PROVE  FlightOf(r) = flight[s][i]
  BY <1>2 DEF FlightOf
<1> QED BY <1>1, <1>2, NoReaderAssumption DEF FlightInv, LeadPC

LEMMA FlightFrame ==
    ASSUME FlightInv, UNCHANGED <<flight, reader>> PROVE FlightInv'
BY DEF FlightInv, FlightOf

\* A reader goes on without leading another flight, or none.
LEMMA FlightStep ==
    ASSUME TypeInv, FlightInv, UNCHANGED flight, NEW r \in Readers,
           \A q \in Readers : q # r => reader'[q] = reader[q],
           \/ /\ reader[r].pc \in LeadPC /\ reader'[r].pc \in LeadPC
              /\ reader'[r].server = reader[r].server
              /\ reader'[r].shop = reader[r].shop
           \/ /\ reader[r].pc \notin LeadPC
              /\ reader'[r].pc \notin LeadPC \cup {"wait"}
           \/ /\ reader[r].pc \notin LeadPC /\ reader'[r].pc = "wait"
              /\ reader'[r].server = reader[r].server
              /\ reader'[r].shop = reader[r].shop
              /\ FlightOf(r) # NoReader
    PROVE  FlightInv'
<1>1. "wait" \notin LeadPC  BY DEF LeadPC
<1>2. \A s \in Servers, i \in Shops :
         flight[s][i] # NoReader => flight[s][i] \in Readers
  BY DEF TypeInv, TypeOK
<1>3. \A q \in Readers : reader'[q].pc \in LeadPC => FlightOf(q)' = q
  BY <1>1 DEF FlightInv, FlightOf
<1>4. \A q \in Readers : reader'[q].pc = "wait" => FlightOf(q)' # NoReader
  BY <1>1 DEF FlightInv, FlightOf
<1>5. \A s \in Servers, i \in Shops : flight'[s][i] # NoReader =>
         LET q == reader'[flight'[s][i]]
         IN  q.pc \in LeadPC /\ q.server = s /\ q.shop = i
  BY <1>2 DEF FlightInv
<1> QED BY <1>3, <1>4, <1>5 DEF FlightInv

LEMMA FlightRead ==
    ASSUME TypeInv, FlightInv, NEW r \in Readers, Read(r)
    PROVE  FlightInv'
<1> DEFINE s == reader[r].server
           i == reader[r].shop
<1>0. /\ reader \in [Readers -> Reader] /\ reader[r] \in Reader
      /\ s \in Servers /\ i \in Shops
      /\ flight \in [Servers -> [Shops -> Readers \cup {NoReader}]]
  BY DEF TypeInv, TypeOK, Reader
<1>1. CASE JoinFlight(r)
  <2>1. CASE flight[s][i] # NoReader /\ UNCHANGED flight
             /\ reader' = [reader EXCEPT ![r].pc = "wait"]
    <3>1. reader[r].pc \notin LeadPC  BY <1>1 DEF JoinFlight, LeadPC
    <3>2. /\ reader'[r].pc = "wait" /\ reader'[r].server = s
          /\ reader'[r].shop = i
          /\ \A q \in Readers : q # r => reader'[q] = reader[q]
      BY <1>0, <2>1 DEF Reader
    <3> QED BY <2>1, <3>1, <3>2, FlightStep DEF FlightOf
  <2>2. CASE flight[s][i] = NoReader
             /\ flight' = [flight EXCEPT ![s][i] = r]
             /\ reader' = [reader EXCEPT ![r].pc = "query"]
    <3>1. /\ reader'[r].pc = "query" /\ reader'[r].server = s
          /\ reader'[r].shop = i
          /\ \A q \in Readers : q # r => reader'[q] = reader[q]
      BY <1>0, <2>2 DEF Reader
    <3>2. \A t \in Servers, j \in Shops :
             flight'[t][j] = IF t = s /\ j = i THEN r ELSE flight[t][j]
      BY <1>0, <2>2
    <3>3. /\ \A q \in Readers : reader[q].server \in Servers
                               /\ reader[q].shop \in Shops
          /\ reader[r].pc = "join" /\ r # NoReader
      BY <1>0, <1>1, NoReaderAssumption DEF Reader, JoinFlight
    <3>4. \A q \in Readers : reader'[q].pc \in LeadPC => FlightOf(q)' = q
      BY <2>2, <3>1, <3>2, <3>3, NoReaderAssumption DEF FlightInv, FlightOf
    <3>5. \A q \in Readers : reader'[q].pc = "wait" => FlightOf(q)' # NoReader
      BY <3>1, <3>2, <3>3 DEF FlightInv, FlightOf
    <3>6. ASSUME NEW t \in Servers, NEW j \in Shops, flight'[t][j] # NoReader
          PROVE  LET q == reader'[flight'[t][j]]
                 IN  q.pc \in LeadPC /\ q.server = t /\ q.shop = j
      <4>1. CASE t = s /\ j = i
        BY <3>1, <3>2, <4>1 DEF LeadPC
      <4>2. CASE ~(t = s /\ j = i)
        <5>1. /\ flight'[t][j] = flight[t][j]
              /\ reader[flight[t][j]].pc \in LeadPC
              /\ reader[flight[t][j]].server = t
              /\ reader[flight[t][j]].shop = j
          BY <3>2, <3>6, <4>2 DEF FlightInv
        <5>2. flight[t][j] # r /\ flight[t][j] \in Readers
          BY <1>0, <3>3, <3>6, <5>1 DEF LeadPC
        <5> QED BY <3>1, <5>1, <5>2
      <4> QED BY <4>1, <4>2
    <3> QED BY <3>4, <3>5, <3>6 DEF FlightInv
  <2> QED BY <1>1, <2>1, <2>2 DEF JoinFlight
<1>2. CASE QueryShop(r) \/ FillCache(r)
  <2>1. /\ UNCHANGED flight
        /\ reader[r].pc \in LeadPC /\ reader'[r].pc \in LeadPC
        /\ reader'[r].server = s /\ reader'[r].shop = i
        /\ \A q \in Readers : q # r => reader'[q] = reader[q]
    BY <1>0, <1>2 DEF QueryShop, FillCache, Reader, LeadPC
  <2> QED BY <2>1, FlightStep
<1>3. CASE LandFlight(r)
  <2>1. \A t \in Servers, j \in Shops :
           flight'[t][j] = IF t = s /\ j = i THEN NoReader ELSE flight[t][j]
    BY <1>0, <1>3 DEF LandFlight
  <2>2. flight[s][i] = r /\ reader[r].pc = "leave"
    BY <1>3 DEF LandFlight, FlightInv, FlightOf, LeadPC
  <2>3. ASSUME NEW q \in Readers
        PROVE  /\ \/ reader'[q].pc = "idle"
                  \/ /\ reader'[q] = reader[q] /\ q # r
                     /\ ~(/\ reader[q].pc = "wait"
                          /\ reader[q].server = s /\ reader[q].shop = i)
               /\ reader'[q].pc = "idle" => q = r \/ reader[q].pc \in {"wait", "idle"}
    <3>1. reader[q] \in Reader  BY <1>0
    <3> QED BY <1>3, <3>1 DEF LandFlight, Reader
  <2>4. \A q \in Readers : reader[q].server \in Servers
                         /\ reader[q].shop \in Shops
    BY <1>0 DEF Reader
  <2>5. \A q \in Readers : reader'[q].pc \in LeadPC => FlightOf(q)' = q
    BY <2>1, <2>2, <2>3, <2>4 DEF FlightInv, FlightOf, LeadPC
  <2>6. \A q \in Readers : reader'[q].pc = "wait" => FlightOf(q)' # NoReader
    BY <2>1, <2>3, <2>4 DEF FlightInv, FlightOf
  <2>7. ASSUME NEW t \in Servers, NEW j \in Shops, flight'[t][j] # NoReader
        PROVE  LET q == reader'[flight'[t][j]]
               IN  q.pc \in LeadPC /\ q.server = t /\ q.shop = j
    <3>1. /\ flight'[t][j] = flight[t][j] /\ ~(t = s /\ j = i)
          /\ reader[flight[t][j]].pc \in LeadPC
          /\ reader[flight[t][j]].server = t
          /\ reader[flight[t][j]].shop = j
          /\ flight[t][j] \in Readers
      BY <1>0, <2>1, <2>7 DEF FlightInv
    <3>2. flight[t][j] # r  BY <3>1
    <3> QED BY <2>3, <3>1, <3>2 DEF LeadPC
  <2> QED BY <2>5, <2>6, <2>7 DEF FlightInv
<1> QED BY <1>1, <1>2, <1>3 DEF Read

LEMMA FlightNext == TypeInv /\ FlightInv /\ [Next]_vars => FlightInv'
<1> SUFFICES ASSUME TypeInv, FlightInv, [Next]_vars PROVE FlightInv'
  OBVIOUS
<1>1. CASE UNCHANGED vars  BY <1>1, FlightFrame DEF vars
<1>2. ASSUME NEW r \in Readers, NEW s \in Servers, NEW i \in Shops,
             GetShopCache(r, s, i)
      PROVE  FlightInv'
  <2>1. /\ UNCHANGED flight /\ reader[r].pc \notin LeadPC
        /\ reader'[r].pc \notin LeadPC \cup {"wait"}
        /\ \A q \in Readers : q # r => reader'[q] = reader[q]
    BY <1>2 DEF GetShopCache, LeadPC, TypeInv, TypeOK
  <2> QED BY <2>1, FlightStep
<1>3. CASE \/ \E w \in Writers, i \in Shops : CreateShop(w, i)
           \/ \E w \in Writers, s \in Servers, i \in Shops : ChangeShop(w, s, i)
           \/ \E w \in Writers : DeleteShopCache(w)
           \/ \E i \in Shops : Expire(i)
  BY <1>3, FlightFrame DEF CreateShop, ChangeShop, DeleteShopCache, Expire
<1>4. ASSUME NEW s \in Servers, Crash(s) PROVE FlightInv'
  <2>0. flight \in [Servers -> [Shops -> Readers \cup {NoReader}]]
    BY DEF TypeInv, TypeOK
  <2>1. \A t \in Servers, j \in Shops :
           flight'[t][j] = IF t = s THEN NoReader ELSE flight[t][j]
    BY <1>4, <2>0 DEF Crash
  <2>2. ASSUME NEW q \in Readers
        PROVE  /\ reader[q].server \in Servers /\ reader[q].shop \in Shops
               /\ \/ reader'[q].pc = "idle" /\ reader[q].server = s
                  \/ /\ reader'[q] = reader[q]
                     /\ reader[q].server = s => reader[q].pc = "idle"
    <3>1. reader[q] \in Reader  BY DEF TypeInv, TypeOK
    <3> QED BY <1>4, <3>1 DEF Crash, Reader
  <2>3. \A q \in Readers : reader'[q].pc \in LeadPC => FlightOf(q)' = q
    BY <2>1, <2>2 DEF FlightInv, FlightOf, LeadPC
  <2>4. \A q \in Readers : reader'[q].pc = "wait" => FlightOf(q)' # NoReader
    BY <2>1, <2>2 DEF FlightInv, FlightOf
  <2>5. ASSUME NEW t \in Servers, NEW j \in Shops, flight'[t][j] # NoReader
        PROVE  LET q == reader'[flight'[t][j]]
               IN  q.pc \in LeadPC /\ q.server = t /\ q.shop = j
    <3>1. /\ flight'[t][j] = flight[t][j] /\ t # s
          /\ reader[flight[t][j]].pc \in LeadPC
          /\ reader[flight[t][j]].server = t
          /\ reader[flight[t][j]].shop = j
          /\ flight[t][j] \in Readers
      BY <2>0, <2>1, <2>5 DEF FlightInv
    <3> QED BY <2>2, <3>1
  <2> QED BY <2>3, <2>4, <2>5 DEF FlightInv
<1> QED BY <1>1, <1>2, <1>3, <1>4, FlightRead DEF Next

LEMMA FlightInit == Init => FlightInv
BY DEF Init, FlightInv, FlightOf, LeadPC

\* A server queries MySQL for a shop once at a time, and who waits for a
\* flight waits for one that has a leader.
THEOREM Flights == Spec => []FlightHasLeader
<1> QED BY TypeInit, TypeNext, FlightInit, FlightNext, FlightInvLeader, PTL
        DEF Spec
=============================================================================
