--------------------------- MODULE ShopTypesProofs ---------------------------
(***************************************************************************)
(* Theorems about the cached list of shop types, for any table, any number *)
(* of requests and any bound on failures: it holds whole copies of the     *)
(* table, and no more of them than requests and failures account for.      *)
(***************************************************************************)
EXTENDS ShopTypes, TLAPS, FiniteSetTheorems, SequenceTheorems

L == Len(Types)

LEMMA LengthOfTable ==
    /\ L \in Nat /\ L > 0
    /\ DOMAIN Types = 1 .. L
    /\ \A i \in 1 .. L : Types[i] \in Rows
BY TypesAssumption DEF L, Rows

(***************************************************************************)
(* Positions in the list: the copy of the table, and the row in it.        *)
(***************************************************************************)
LEMMA Division ==
    ASSUME NEW n \in Nat, NEW m \in Nat, m > 0
    PROVE  n \div m \in Nat /\ n = (n \div m) * m + (n % m)
OBVIOUS

LEMMA Remainder ==
    ASSUME NEW k \in Nat, NEW m \in Nat, NEW a \in Nat, a < m
    PROVE  (k * m + a) % m = a
OBVIOUS

LEMMA InFirstCopy ==
    ASSUME NEW m \in Nat, NEW a \in Nat, a < m PROVE a % m = a
OBVIOUS

LEMMA InNextCopy ==
    ASSUME NEW n \in Nat, NEW m \in Nat, n % m = 0, NEW a \in Nat, a < m
    PROVE  (n + a) % m = a
<1>1. PICK k \in Nat : n = k * m + 0  BY Division
<1> QED BY <1>1, Remainder

LEMMA OneMoreCopy ==
    ASSUME NEW n \in Nat, NEW m \in Nat, m > 0, n % m = 0
    PROVE  (n + m) % m = 0
<1>1. PICK k \in Nat : n = k * m  BY Division
<1>2. n + m = (k + 1) * m + 0  BY <1>1
<1>3. ((k + 1) * m + 0) % m = 0  BY Remainder
<1> QED BY <1>2, <1>3

-----------------------------------------------------------------------------
(***************************************************************************)
(* Lists that are whole copies of the table.                               *)
(***************************************************************************)
LEMMA WholeEmpty == WholeCopies(<< >>)
<1>1. Len(<< >>) = 0 /\ DOMAIN << >> = {}  OBVIOUS
<1>2. 0 % L = 0  BY LengthOfTable, InFirstCopy
<1> QED BY <1>1, <1>2 DEF WholeCopies, L

LEMMA WholeAppended ==
    ASSUME NEW list \in Seq(Rows), WholeCopies(list)
    PROVE  WholeCopies(list \o Types)
<1> DEFINE n == Len(list)
           both == list \o Types
<1>1. n \in Nat /\ n % L = 0 /\ DOMAIN list = 1 .. n
  BY DEF WholeCopies, L
<1>2. /\ Len(both) = n + L
      /\ DOMAIN both = 1 .. n + L
      /\ \A i \in 1 .. n : both[i] = list[i]
      /\ \A i \in n + 1 .. n + L : both[i] = Types[i - n]
  BY TypesAssumption DEF L
<1>3. (n + L) % L = 0  BY <1>1, LengthOfTable, OneMoreCopy
<1>4. ASSUME NEW i \in 1 .. n PROVE both[i] = Types[((i - 1) % L) + 1]
  BY <1>1, <1>2 DEF WholeCopies, L
<1>5. ASSUME NEW i \in n + 1 .. n + L PROVE both[i] = Types[((i - 1) % L) + 1]
  <2>1. PICK a \in Nat : a < L /\ i = n + a + 1
    <3>1. i - n - 1 \in Nat /\ i - n - 1 < L /\ i = n + (i - n - 1) + 1
      BY <1>1, LengthOfTable
    <3> QED BY <3>1
  <2>2. (i - 1) % L = a
    <3>1. i - 1 = n + a  BY <1>1, <2>1
    <3> QED BY <1>1, <2>1, <3>1, LengthOfTable, InNextCopy
  <2>3. i - n = a + 1  BY <1>1, <2>1
  <2> QED BY <1>2, <2>2, <2>3
<1>6. \A i \in 1 .. n + L : i \in 1 .. n \/ i \in n + 1 .. n + L
  BY <1>1, LengthOfTable
<1> HIDE DEF both
<1> QED BY <1>2, <1>3, <1>4, <1>5, <1>6 DEF WholeCopies, L, both

LEMMA WholeTable == WholeCopies(Types)
<1>1. << >> \in Seq(Rows) /\ << >> \o Types = Types  BY TypesAssumption
<1> QED BY <1>1, WholeEmpty, WholeAppended

LEMMA Appended ==
    ASSUME NEW list \in Seq(Rows)
    PROVE  /\ list \o Types \in Seq(Rows)
           /\ Len(list \o Types) = Len(list) + L
BY TypesAssumption DEF L

-----------------------------------------------------------------------------
(***************************************************************************)
(* What is in the list, and what will be: a request that has found it      *)
(* empty or unreadable adds one copy at most, unless its RPUSH is executed *)
(* twice.                                                                  *)
(***************************************************************************)
Filling == {r \in Requests : request[r].pc \in {"query", "fill"}}

CopiesCharged ==
    Len(cached) + Cardinality(Filling) * L
        <= (Cardinality(Requests) + failures) * L

ListInv ==
    /\ TypeOK
    /\ WholeCopies(cached) /\ AnswersWhole
    /\ CopiesCharged

LEMMA Charge ==
    ASSUME NEW len \in Nat, NEW f \in Nat, NEW g \in Nat, NEW f2 \in Nat,
           NEW added \in {0, 1}, NEW failed \in {0, 1},
           len + f * L <= g * L, f2 + added <= f + failed
    PROVE  len + added * L + f2 * L <= (g + failed) * L
<1>1. L \in Nat  BY LengthOfTable
<1>2. \A a, b \in Nat : a <= b => a * L <= b * L  BY <1>1
<1>3. (f2 + added) * L <= (f + failed) * L  BY <1>2
<1>4. /\ (f2 + added) * L = f2 * L + added * L
      /\ (f + failed) * L = f * L + failed * L
      /\ (g + failed) * L = g * L + failed * L
  BY <1>1
<1>5. /\ f * L \in Nat /\ g * L \in Nat /\ f2 * L \in Nat
      /\ added * L \in Nat /\ failed * L \in Nat
  BY <1>1
<1> QED BY <1>3, <1>4, <1>5

\* One step of a request, and what it does to Filling.
LEMMA FillingNext ==
    ASSUME TypeOK, NEW r \in Requests, NEW q,
           request' = [request EXCEPT ![r] = q]
    PROVE  /\ Cardinality(Filling) \in Nat /\ Cardinality(Filling)' \in Nat
           /\ Cardinality(Requests) \in Nat
           /\ Cardinality(Filling)' <= Cardinality(Requests)
           /\ Cardinality(Filling)' <= Cardinality(Filling) + 1
           /\ r \in Filling => Cardinality(Filling)' <= Cardinality(Filling)
           /\ r \in Filling /\ q.pc = "idle" =>
                 Cardinality(Filling)' = Cardinality(Filling) - 1
<1>1. Filling \subseteq Requests /\ Filling' \subseteq Requests
  BY DEF Filling
<1>2. IsFiniteSet(Filling) /\ IsFiniteSet(Filling')
  BY <1>1, RequestsAssumption, FS_Subset
<1>3. /\ Cardinality(Filling) \in Nat /\ Cardinality(Filling') \in Nat
      /\ Cardinality(Requests) \in Nat
  BY <1>2, RequestsAssumption, FS_CardinalityType
<1>4. Cardinality(Filling') <= Cardinality(Requests)
  BY <1>1, RequestsAssumption, FS_Subset
<1>5. Filling' \subseteq Filling \cup {r}
  BY DEF Filling, TypeOK
<1>6. /\ IsFiniteSet(Filling \cup {r})
      /\ Cardinality(Filling \cup {r}) =
             IF r \in Filling THEN Cardinality(Filling) ELSE Cardinality(Filling) + 1
  BY <1>2, FS_AddElement
<1>7. Cardinality(Filling') <= Cardinality(Filling \cup {r})
  BY <1>5, <1>6, FS_Subset
<1>8. ASSUME r \in Filling, q.pc = "idle"
      PROVE  Cardinality(Filling') = Cardinality(Filling) - 1
  <2>1. Filling' = Filling \ {r}
    BY <1>8 DEF Filling, TypeOK
  <2> QED BY <1>2, <1>8, <2>1, FS_RemoveElement
<1> QED BY <1>3, <1>4, <1>6, <1>7, <1>8

\* The list after a step of a request, and the request.
LEMMA ListStep ==
    ASSUME ListInv, NEW r \in Requests, NEW q \in Request,
           request' = [request EXCEPT ![r] = q], WholeCopies(q.answer),
           NEW added \in {0, 1}, NEW failed \in {0, 1},
           cached' = IF added = 1 THEN cached \o Types ELSE cached,
           failures' = failures + failed, failures' <= MaxFailures,
           \/ Cardinality(Filling)' + added <= Cardinality(Filling) + failed
           \/ cached = << >> /\ added = 0
    PROVE  ListInv'
<1>1. /\ cached \in Seq(Rows) /\ Len(cached) \in Nat
      /\ cached' \in Seq(Rows) /\ Len(cached') = Len(cached) + added * L
      /\ WholeCopies(cached')
  <2>1. cached \in Seq(Rows) /\ WholeCopies(cached) /\ Len(cached) \in Nat
    BY DEF ListInv, TypeOK
  <2>2. CASE added = 1
    <3>1. 1 * L = L  BY LengthOfTable
    <3> QED BY <2>1, <2>2, <3>1, Appended, WholeAppended
  <2>3. CASE added = 0
    <3>1. Len(cached) + 0 * L = Len(cached)  BY <2>1, LengthOfTable
    <3> QED BY <2>1, <2>3, <3>1
  <2> QED BY <2>2, <2>3
<1>2. TypeOK'
  <2>1. request' \in [Requests -> Request]  BY DEF ListInv, TypeOK
  <2>2. failures' \in 0 .. MaxFailures
    BY MaxFailuresAssumption DEF ListInv, TypeOK
  <2> QED BY <1>1, <2>1, <2>2 DEF TypeOK, Request
<1>3. AnswersWhole'
  <2> SUFFICES ASSUME NEW x \in Requests PROVE WholeCopies(request'[x].answer)
    BY DEF AnswersWhole, WholeCopies
  <2>1. CASE x = r  BY <2>1 DEF ListInv, TypeOK
  <2>2. CASE x # r
    <3>1. request'[x] = request[x]  BY <2>2 DEF ListInv, TypeOK
    <3> QED BY <3>1 DEF ListInv, AnswersWhole
  <2> QED BY <2>1, <2>2
<1>4. CopiesCharged'
  <2>1. PICK f, g, f2 :
           /\ f = Cardinality(Filling) /\ f2 = Cardinality(Filling)'
           /\ g = Cardinality(Requests) + failures
    OBVIOUS
  <2>2. f \in Nat /\ f2 \in Nat /\ g \in Nat /\ f2 <= Cardinality(Requests)
        /\ Cardinality(Requests) \in Nat /\ failures \in Nat
    <3>1. TypeOK  BY DEF ListInv
    <3>2. failures \in Nat  BY <3>1, MaxFailuresAssumption DEF TypeOK
    <3>3. /\ Cardinality(Filling) \in Nat /\ Cardinality(Filling)' \in Nat
          /\ Cardinality(Requests) \in Nat
          /\ Cardinality(Filling)' <= Cardinality(Requests)
      BY <3>1, FillingNext
    <3> QED BY <2>1, <3>2, <3>3
  <2>3. Len(cached) + f * L <= g * L
    BY <2>1 DEF ListInv, CopiesCharged
  <2>4. Len(cached') + f2 * L <= (g + failed) * L
    <3>1. CASE f2 + added <= f + failed
      BY <1>1, <2>2, <2>3, <3>1, Charge
    <3>2. CASE cached = << >> /\ added = 0
      <4>1. Len(cached) = 0 /\ Len(cached') = 0
        BY <1>1, <3>2, LengthOfTable
      <4>2. f2 + 0 <= g + failed  BY <2>1, <2>2
      <4>3. f2 * L <= (g + failed) * L  BY <2>2, <4>2, LengthOfTable
      <4>4. f2 * L \in Nat  BY <2>2, LengthOfTable
      <4> QED BY <4>1, <4>3, <4>4
    <3> QED BY <2>1, <3>1, <3>2
  <2>5. g + failed = Cardinality(Requests) + failures'  BY <2>1, <2>2
  <2> QED BY <2>1, <2>4, <2>5 DEF CopiesCharged, L
<1> QED BY <1>1, <1>2, <1>3, <1>4 DEF ListInv, WholeCopies

LEMMA ListInit == Init => ListInv
<1> SUFFICES ASSUME Init PROVE ListInv  OBVIOUS
<1>1. << >> \in Seq(Rows) /\ Len(<< >>) = 0  OBVIOUS
<1>2. TypeOK  BY <1>1, MaxFailuresAssumption DEF Init, TypeOK, Request
<1>3. WholeCopies(cached) /\ AnswersWhole
  BY WholeEmpty DEF Init, AnswersWhole
<1>4. CopiesCharged
  <2>1. Filling = {}  BY DEF Init, Filling
  <2>2. Cardinality(Filling) = 0  BY <2>1, FS_EmptySet
  <2>3. Cardinality(Requests) \in Nat  BY RequestsAssumption, FS_CardinalityType
  <2>4. Len(cached) = 0 /\ failures = 0  BY <1>1 DEF Init
  <2>5. \A n \in Nat : 0 + 0 * L <= (n + 0) * L  BY LengthOfTable
  <2> QED BY <2>2, <2>3, <2>4, <2>5 DEF CopiesCharged
<1> QED BY <1>2, <1>3, <1>4 DEF ListInv

\* The records a request goes through.
LEMMA Records ==
    ASSUME NEW pc \in {"idle", "query", "fill"}, NEW list \in Seq(Rows)
    PROVE  [pc |-> pc, answer |-> list] \in Request
BY DEF Request

LEMMA ListNext == ListInv /\ [Next]_vars => ListInv'
<1> SUFFICES ASSUME ListInv, [Next]_vars PROVE ListInv'  OBVIOUS
<1>1. /\ TypeOK /\ cached \in Seq(Rows) /\ WholeCopies(cached)
      /\ Types \in Seq(Rows) /\ << >> \in Seq(Rows)
      /\ failures \in Nat /\ failures <= MaxFailures /\ failures = failures + 0
  BY TypesAssumption, MaxFailuresAssumption DEF ListInv, TypeOK
\* A step that sets request r, and appends to the list or not.
<1>2. ASSUME NEW r \in Requests, NEW q \in Request, WholeCopies(q.answer),
             request' = [request EXCEPT ![r] = q],
             \/ /\ cached' = cached /\ failures' = failures
                /\ cached = << >> \/ r \in Filling \/ Filling' = Filling
             \/ cached' = cached /\ failures < MaxFailures /\ failures' = failures + 1
             \/ /\ cached' = cached \o Types /\ failures' = failures
                /\ r \in Filling /\ q.pc = "idle"
             \/ /\ cached' = cached \o Types
                /\ failures < MaxFailures /\ failures' = failures + 1
                /\ Filling' = Filling
      PROVE  ListInv'
  <2>1. PICK f, f2 : f = Cardinality(Filling) /\ f2 = Cardinality(Filling)'
    OBVIOUS
  <2>2. /\ f \in Nat /\ f2 \in Nat /\ f2 <= f + 1
        /\ r \in Filling => f2 <= f
        /\ r \in Filling /\ q.pc = "idle" => f2 = f - 1
    BY <1>1, <1>2, <2>1, FillingNext
  <2>3. Filling' = Filling => f2 = f  BY <2>1
  <2>4. failures' <= MaxFailures  BY <1>1, <1>2, MaxFailuresAssumption
  <2>5. PICK added \in {0, 1}, failed \in {0, 1} :
           /\ cached' = IF added = 1 THEN cached \o Types ELSE cached
           /\ failures' = failures + failed
           /\ f2 + added <= f + failed \/ (cached = << >> /\ added = 0)
    <3>1. CASE cached' = cached /\ failures' = failures
               /\ (cached = << >> \/ r \in Filling \/ Filling' = Filling)
      <4>1. failures' = failures + 0  BY <1>1, <3>1
      <4>2. f2 + 0 <= f + 0 \/ cached = << >>  BY <2>2, <2>3, <3>1
      <4> QED BY <3>1, <4>1, <4>2
    <3>2. CASE cached' = cached /\ failures' = failures + 1
      <4>1. f2 + 0 <= f + 1  BY <2>2
      <4> QED BY <3>2, <4>1
    <3>3. CASE cached' = cached \o Types /\ failures' = failures
               /\ r \in Filling /\ q.pc = "idle"
      <4>1. failures' = failures + 0  BY <1>1, <3>3
      <4>2. f2 + 1 <= f + 0  BY <2>2, <3>3
      <4> QED BY <3>3, <4>1, <4>2
    <3>4. CASE cached' = cached \o Types /\ failures' = failures + 1
               /\ Filling' = Filling
      <4>1. f2 + 1 <= f + 1  BY <2>2, <2>3, <3>4
      <4> QED BY <3>4, <4>1
    <3> QED BY <1>2, <3>1, <3>2, <3>3, <3>4
  <2> QED BY <1>2, <2>1, <2>4, <2>5, ListStep
<1>3. ASSUME NEW r \in Requests, GetShopTypeListCache(r) PROVE ListInv'
  <2>1. request[r].pc = "idle" /\ cached' = cached
    BY <1>3 DEF GetShopTypeListCache
  <2>2. CASE cached # << >> /\ Answer(r, cached) /\ UNCHANGED failures
    <3>1. PICK q : q = [pc |-> "idle", answer |-> cached]  OBVIOUS
    <3>2. /\ q \in Request /\ WholeCopies(q.answer)
          /\ request' = [request EXCEPT ![r] = q]
      BY <1>1, <2>2, <3>1, Records DEF Answer
    <3>3. Filling' = Filling
      BY <1>1, <2>1, <3>1, <3>2 DEF Filling, TypeOK
    <3> QED BY <1>2, <2>1, <2>2, <3>2, <3>3
  <2>3. CASE Goto(r, "query")
    <3>1. PICK q : q = [pc |-> "query", answer |-> << >>]  OBVIOUS
    <3>2. /\ q \in Request /\ WholeCopies(q.answer)
          /\ request' = [request EXCEPT ![r] = q]
      BY <1>1, <2>3, <3>1, Records, WholeEmpty DEF Goto
    <3>3. CASE cached = << >> /\ UNCHANGED failures
      BY <1>2, <2>1, <3>2, <3>3
    <3>4. CASE RedisFails("refused")
      BY <1>2, <2>1, <3>2, <3>4 DEF RedisFails
    <3> QED BY <1>3, <1>2, <2>1, <2>2, <3>2, <3>3, <3>4 DEF GetShopTypeListCache
  <2> QED BY <1>3, <2>2, <2>3 DEF GetShopTypeListCache
<1>4. ASSUME NEW r \in Requests, GetShopTypeList(r) \/ Abandon(r) PROVE ListInv'
  <2>1. r \in Filling
    BY <1>1, <1>4 DEF GetShopTypeList, Abandon, Filling, TypeOK, Request
  <2>2. PICK pc \in {"idle", "fill"} : Goto(r, pc)
    BY <1>4 DEF GetShopTypeList, Abandon
  <2>3. UNCHANGED <<cached, failures>>  BY <1>4 DEF GetShopTypeList, Abandon
  <2>4. PICK q : q = [pc |-> pc, answer |-> << >>]  OBVIOUS
  <2>5. /\ q \in Request /\ WholeCopies(q.answer)
        /\ request' = [request EXCEPT ![r] = q]
    BY <1>1, <2>2, <2>4, Records, WholeEmpty DEF Goto
  <2> QED BY <1>2, <2>1, <2>3, <2>5
<1>5. ASSUME NEW r \in Requests, SetShopTypeListCache(r) PROVE ListInv'
  <2>1. r \in Filling  BY <1>5 DEF SetShopTypeListCache, Filling
  <2>2. CASE Answer(r, Types)
    <3>1. PICK q : q = [pc |-> "idle", answer |-> Types]  OBVIOUS
    <3>2. /\ q \in Request /\ WholeCopies(q.answer) /\ q.pc = "idle"
          /\ request' = [request EXCEPT ![r] = q]
      BY <1>1, <2>2, <3>1, Records, WholeTable DEF Answer
    <3>3. CASE cached' = cached \o Types /\ UNCHANGED failures
      BY <1>2, <2>1, <3>2, <3>3
    <3>4. CASE RedisFails("refused") /\ UNCHANGED cached
      BY <1>2, <3>2, <3>4 DEF RedisFails
    <3>5. CASE RedisFails("resent") /\ cached' = cached \o Types /\ UNCHANGED request
      <4>1. Filling' = Filling  BY <3>5 DEF Filling
      <4> QED BY <1>2, <3>2, <3>5, <4>1 DEF RedisFails
    <3> QED BY <1>5, <3>3, <3>4, <3>5 DEF SetShopTypeListCache
  <2>3. CASE RedisFails("resent") /\ cached' = cached \o Types /\ UNCHANGED request
    <3>1. PICK q : q = request[r]  OBVIOUS
    <3>2. /\ q \in Request /\ WholeCopies(q.answer)
          /\ request' = [request EXCEPT ![r] = q]
      BY <1>1, <2>3, <3>1 DEF TypeOK, ListInv, AnswersWhole
    <3>3. Filling' = Filling  BY <2>3 DEF Filling
    <3> QED BY <1>2, <2>3, <3>2, <3>3 DEF RedisFails
  <2> QED BY <1>5, <2>2, <2>3 DEF SetShopTypeListCache
<1>6. CASE UNCHANGED vars
  BY <1>6 DEF vars, ListInv, TypeOK, Request, AnswersWhole, CopiesCharged, Filling,
              WholeCopies
<1> QED BY <1>3, <1>4, <1>5, <1>6 DEF Next

LEMMA ListBounded == ListInv => CopiesBounded
<1> SUFFICES ASSUME ListInv PROVE CopiesBounded  OBVIOUS
<1>1. IsFiniteSet(Filling)
  <2>1. Filling \subseteq Requests  BY DEF Filling
  <2> QED BY <2>1, RequestsAssumption, FS_Subset
<1>2. Cardinality(Filling) \in Nat /\ Cardinality(Requests) \in Nat
  BY <1>1, RequestsAssumption, FS_CardinalityType
<1>3. Cardinality(Filling) * L \in Nat  BY <1>2, LengthOfTable
<1>4. Len(cached) \in Nat /\ failures \in Nat
  BY MaxFailuresAssumption DEF ListInv, TypeOK
<1>5. (Cardinality(Requests) + failures) * L \in Nat
  BY <1>2, <1>4, LengthOfTable
<1> QED BY <1>3, <1>4, <1>5 DEF ListInv, CopiesCharged, CopiesBounded, L

\* The list and the answers are lists of rows of the table.
THEOREM ShopTypesTypes == Spec => []TypeOK
<1>1. ListInv => TypeOK  BY DEF ListInv
<1> QED BY <1>1, ListInit, ListNext, PTL DEF Spec

\* No client is given part of the table, or its rows out of order.
THEOREM WholeAnswers == Spec => []AnswersWhole
<1>1. ListInv => AnswersWhole  BY DEF ListInv
<1> QED BY <1>1, ListInit, ListNext, PTL DEF Spec

\* A list that is filled, and can be read, is filled for good.
THEOREM BoundedCopies == Spec => []CopiesBounded
BY ListBounded, ListInit, ListNext, PTL DEF Spec
=============================================================================
