----------------------------- MODULE LoginProofs ----------------------------
(***************************************************************************)
(* Theorems about Login for every set of phones, codes, user ids and       *)
(* requests, and every set of faults.                                      *)
(***************************************************************************)
EXTENDS Login, TLAPS

LEMMA IdleType ==
    /\ Idle.pc = "idle" /\ Idle.issue = 0
    /\ Idle.phone \in Phones /\ Idle.user \in UserIDs
    /\ Idle \in Request
BY NonEmptyAssumption, MaxIssuesAssumption DEF Idle, Request, Issue

\* What a step does not touch keeps its types.
TypeStored ==
    /\ issues \in [Phones -> Seq(Codes)]
    /\ stored \in [Phones -> Issue]
    /\ \A p \in Phones : stored[p] <= Len(issues[p])

TypeRequest(r) ==
    /\ request[r].pc # "idle" => request[r].issue # 0
    /\ request[r].pc = "delete" =>
          [id |-> request[r].user, phone |-> request[r].phone] \in users

TypeRequests ==
    /\ request \in [Requests -> Request]
    /\ \A r \in Requests : TypeRequest(r)

TypeUsers == users \subseteq [id : UserIDs, phone : Phones]

TypeAnswers == answers \subseteq Answer

LEMMA TypeParts ==
    /\ TypeOK  <=> TypeStored  /\ TypeRequests  /\ TypeUsers  /\ TypeAnswers
    /\ TypeOK' <=> TypeStored' /\ TypeRequests' /\ TypeUsers' /\ TypeAnswers'
BY DEF TypeOK, TypeStored, TypeRequests, TypeRequest, TypeUsers, TypeAnswers

LEMMA StoredFrame == TypeStored /\ UNCHANGED <<issues, stored>> => TypeStored'
BY DEF TypeStored

LEMMA UsersFrame ==
    /\ TypeUsers /\ UNCHANGED users => TypeUsers'
    /\ TypeAnswers /\ UNCHANGED answers => TypeAnswers'
BY DEF TypeUsers, TypeAnswers

\* A request that changes to a value of its type, while users only grows.
LEMMA RequestMoves ==
    ASSUME TypeRequests, NEW r \in Requests, NEW q \in Request,
           request' = [request EXCEPT ![r] = q],
           users \subseteq users',
           q.pc # "idle" => q.issue # 0,
           q.pc = "delete" => [id |-> q.user, phone |-> q.phone] \in users'
    PROVE  TypeRequests'
<1>1. request' \in [Requests -> Request]  BY DEF TypeRequests
<1>2. \A x \in Requests : request'[x] = IF x = r THEN q ELSE request[x]
  BY DEF TypeRequests
<1>3. \A x \in Requests : TypeRequest(x)'
  BY <1>2 DEF TypeRequests, TypeRequest
<1> QED BY <1>1, <1>3 DEF TypeRequests

LEMMA LeaveMoves ==
    ASSUME TypeRequests, NEW r \in Requests, Leave(r), users \subseteq users'
    PROVE  TypeRequests'
BY IdleType, RequestMoves DEF Leave

\* Deleting a key, or letting it expire.
LEMMA DropStored ==
    ASSUME TypeStored, NEW p \in Phones, UNCHANGED issues,
           stored' = [stored EXCEPT ![p] = 0]
    PROVE  TypeStored'
<1>1. /\ 0 \in Issue
      /\ \A q \in Phones : Len(issues[q]) \in Nat
  BY MaxIssuesAssumption DEF Issue, TypeStored
<1> QED BY <1>1 DEF TypeStored

LEMMA TypeGetVerificationCode ==
    ASSUME TypeOK, NEW p \in Phones, GetVerificationCode(p)
    PROVE  TypeOK'
<1>1. PICK c \in Codes : issues' = [issues EXCEPT ![p] = Append(@, c)]
  BY DEF GetVerificationCode
<1>2. /\ stored' = [stored EXCEPT ![p] = Len(issues[p]) + 1]
      /\ Len(issues[p]) < MaxIssues
      /\ UNCHANGED <<users, request, answers>>
  BY DEF GetVerificationCode
<1>3. issues \in [Phones -> Seq(Codes)] /\ stored \in [Phones -> Issue]
      /\ \A q \in Phones : stored[q] <= Len(issues[q])
  BY DEF TypeOK
<1>4. /\ Append(issues[p], c) \in Seq(Codes)
      /\ Len(Append(issues[p], c)) = Len(issues[p]) + 1
      /\ Len(issues[p]) \in Nat
  BY <1>3
<1>5. Len(issues[p]) + 1 \in Issue
  BY <1>2, <1>4, MaxIssuesAssumption DEF Issue
<1>6. TypeStored'
  BY <1>1, <1>2, <1>3, <1>4, <1>5 DEF TypeStored
<1>7. TypeRequests'
  BY <1>2 DEF TypeOK, TypeRequests, TypeRequest
<1> QED BY <1>2, <1>6, <1>7, TypeParts, UsersFrame

\* What a login is answered with, while its request leaves.
LEMMA TypeRespond ==
    ASSUME TypeOK, NEW r \in Requests, NEW id \in UserIDs,
           NEW created \in BOOLEAN, Respond(r, id, created)
    PROVE  TypeAnswers'
<1>1. request[r] \in Request  BY DEF TypeOK
<1>2. [phone |-> request[r].phone, issue |-> request[r].issue,
       user |-> id, created |-> created] \in Answer
  BY <1>1 DEF Request, Answer
<1> QED BY <1>2 DEF TypeOK, Respond, TypeAnswers

LEMMA TypeNext == TypeOK /\ [Next]_vars => TypeOK'
<1> SUFFICES ASSUME TypeOK, [Next]_vars PROVE TypeOK'  OBVIOUS
<1>0. TypeStored /\ TypeRequests /\ TypeUsers /\ TypeAnswers
  BY TypeParts
<1>1. CASE UNCHANGED vars  BY <1>1 DEF TypeOK, vars
<1>2. ASSUME NEW p \in Phones, Expire(p) PROVE TypeOK'
  <2>1. TypeStored'  BY <1>0, <1>2, DropStored DEF Expire
  <2>2. TypeRequests'  BY <1>0, <1>2 DEF Expire, TypeRequests, TypeRequest
  <2> QED BY <1>0, <1>2, <2>1, <2>2, TypeParts, UsersFrame DEF Expire
<1>3. ASSUME NEW p \in Phones, LoginWithPwd(p) PROVE TypeOK'
  <2>1. PICK u \in FindUser(p) :
           answers' = answers \cup
              {[phone |-> p, issue |-> 0, user |-> u.id, created |-> FALSE]}
    BY <1>3 DEF LoginWithPwd
  <2>2. u.id \in UserIDs  BY DEF FindUser, TypeOK
  <2>3. TypeAnswers'
    <3>1. 0 \in Issue  BY MaxIssuesAssumption DEF Issue
    <3>2. [phone |-> p, issue |-> 0, user |-> u.id, created |-> FALSE] \in Answer
      BY <2>2, <3>1, Zenon DEF Answer
    <3> QED BY <1>0, <2>1, <3>2 DEF TypeAnswers
  <2>4. TypeRequests'
    BY <1>0, <1>3 DEF LoginWithPwd, TypeRequests, TypeRequest
  <2> QED BY <1>0, <1>3, <2>3, <2>4, TypeParts, UsersFrame, StoredFrame
          DEF LoginWithPwd
<1>4. ASSUME NEW r \in Requests, NEW p \in Phones, NEW c \in Codes,
             LoginWithCode(r, p, c)
      PROVE  TypeOK'
  <2> DEFINE q == [pc |-> "find", phone |-> p, issue |-> stored[p],
                   user |-> Idle.user]
  <2>1. q \in Request /\ q.issue # 0 /\ q.pc # "delete"
    BY <1>0, <1>4, IdleType DEF LoginWithCode, Request, TypeStored
  <2>2. TypeRequests'
    BY <1>0, <1>4, <2>1, RequestMoves DEF LoginWithCode
  <2> QED BY <1>0, <1>4, <2>2, TypeParts, UsersFrame, StoredFrame
          DEF LoginWithCode
<1>5. ASSUME NEW r \in Requests, FindByPhone(r) PROVE TypeOK'
  <2>1. /\ request[r] \in Request /\ request[r].issue # 0
        /\ UNCHANGED <<issues, stored, users, answers>>
    BY <1>0, <1>5 DEF FindByPhone, TypeRequests, TypeRequest
  <2>2. ASSUME NEW u \in FindUser(request[r].phone),
               request' = [request EXCEPT ![r].pc = "delete", ![r].user = u.id]
        PROVE  TypeRequests'
    <3> DEFINE q == [request[r] EXCEPT !.pc = "delete", !.user = u.id]
    <3>1. u \in users /\ u.phone = request[r].phone  BY DEF FindUser
    <3>2. u \in [id : UserIDs, phone : Phones]
      BY <1>0, <3>1 DEF TypeUsers
    <3>3. u = [id |-> u.id, phone |-> u.phone]  BY <3>2
    <3>4. q \in Request /\ q.issue # 0 /\ q.user = u.id /\ q.phone = u.phone
      BY <2>1, <3>1, <3>2 DEF Request
    <3>5. [id |-> q.user, phone |-> q.phone] \in users'
      BY <2>1, <3>1, <3>3, <3>4
    <3>6. request' = [request EXCEPT ![r] = q]
      BY <2>2, <2>1 DEF Request
    <3> HIDE DEF q
    <3> QED BY <1>0, <2>1, <3>4, <3>5, <3>6, RequestMoves
  <2>3. ASSUME Goto(r, "create") PROVE TypeRequests'
    <3> DEFINE q == [request[r] EXCEPT !.pc = "create"]
    <3>1. q \in Request /\ q.issue # 0 /\ q.pc # "delete"
      BY <2>1 DEF Request
    <3> QED BY <1>0, <2>1, <2>3, <3>1, RequestMoves DEF Goto
  <2>4. ASSUME Leave(r) PROVE TypeRequests'
    BY <1>0, <2>1, <2>4, LeaveMoves
  <2>5. TypeRequests'  BY <1>5, <2>2, <2>3, <2>4 DEF FindByPhone
  <2> QED BY <1>0, <2>1, <2>5, TypeParts, UsersFrame, StoredFrame
<1>6. ASSUME NEW r \in Requests, CreateUser(r) PROVE TypeOK'
  <2>1. Leave(r) /\ UNCHANGED <<issues, stored>>
    BY <1>6 DEF CreateUser
  <2>2. users \subseteq users' /\ TypeUsers' /\ TypeAnswers'
    <3>1. CASE UNCHANGED <<users, answers>>  BY <1>0, <3>1, UsersFrame
    <3>2. ASSUME NEW id \in UserIDs, InsertUser(request[r].phone, id),
                 Respond(r, id, TRUE) \/ UNCHANGED answers
          PROVE  users \subseteq users' /\ TypeUsers' /\ TypeAnswers'
      <4>1. request[r].phone \in Phones  BY DEF TypeOK, Request
      <4>2. users \subseteq users' /\ TypeUsers'
        BY <1>0, <3>2, <4>1 DEF InsertUser, TypeUsers
      <4> QED BY <1>0, <3>2, <4>2, TypeRespond, UsersFrame
    <3> QED BY <1>6, <3>1, <3>2 DEF CreateUser
  <2> QED BY <1>0, <2>1, <2>2, TypeParts, LeaveMoves, StoredFrame
<1>7. ASSUME NEW r \in Requests, DeleteCode(r) PROVE TypeOK'
  <2>1. /\ request[r].phone \in Phones /\ request[r].user \in UserIDs
        /\ UNCHANGED <<issues, users>>
    BY <1>7 DEF DeleteCode, TypeOK, Request
  <2>2. TypeStored'
    BY <1>0, <1>7, <2>1, DropStored, StoredFrame DEF DeleteCode
  <2>3. TypeRequests'
    <3>1. CASE Leave(r)  BY <1>0, <2>1, <3>1, LeaveMoves
    <3>2. CASE UNCHANGED request
      BY <1>0, <2>1, <3>2 DEF TypeRequests, TypeRequest
    <3> QED BY <1>7, <3>1, <3>2 DEF DeleteCode
  <2>4. TypeAnswers'
    <3>1. Respond(r, request[r].user, FALSE) \/ UNCHANGED answers
      BY <1>7 DEF DeleteCode
    <3> QED BY <1>0, <2>1, <3>1, TypeRespond, UsersFrame
  <2> QED BY <1>0, <2>1, <2>2, <2>3, <2>4, TypeParts, UsersFrame
<1>8. ASSUME NEW r \in Requests, Abandon(r) PROVE TypeOK'
  <2>1. Leave(r) /\ UNCHANGED <<issues, stored, users, answers>>
    BY <1>8 DEF Abandon
  <2> QED BY <1>0, <2>1, TypeParts, LeaveMoves, UsersFrame, StoredFrame
<1> QED BY <1>1, <1>2, <1>3, <1>4, <1>5, <1>6, <1>7, <1>8,
           TypeGetVerificationCode DEF Next

LEMMA TypeInit == Init => TypeOK
<1> SUFFICES ASSUME Init PROVE TypeOK  OBVIOUS
<1>1. TypeUsers /\ TypeAnswers  BY DEF Init, TypeUsers, TypeAnswers
<1>2. TypeStored  BY MaxIssuesAssumption DEF Init, TypeStored, Issue
<1>3. TypeRequests
  BY IdleType DEF Init, TypeRequests, TypeRequest
<1> QED BY <1>1, <1>2, <1>3, TypeParts

\* Every reachable state has the types of TypeOK; a request about to delete a
\* code knows a user that exists.
THEOREM LoginTypes == Spec => []TypeOK
<1> QED BY TypeInit, TypeNext, PTL DEF Spec

-----------------------------------------------------------------------------
(***************************************************************************)
(* One account per phone.  A token carries the id of a row that was found  *)
(* or inserted with its phone, rows stay, and the unique key on the phone  *)
(* lets one row in; a request may hold what it found for as long as it     *)
(* likes.                                                                  *)
(***************************************************************************)
OneUserPerPhone == \A u, v \in users : u.phone = v.phone => u = v

AnswersOfUsers ==
    \A a \in answers : [id |-> a.user, phone |-> a.phone] \in users

AccountInv == OneUserPerPhone /\ AnswersOfUsers

\* A login answered with a user that exists.
LEMMA AnswersGrow ==
    ASSUME AccountInv, users \subseteq users',
           \A a \in answers' \ answers :
                [id |-> a.user, phone |-> a.phone] \in users'
    PROVE  AnswersOfUsers'
BY DEF AccountInv, AnswersOfUsers

LEMMA AccountNext == TypeOK /\ AccountInv /\ [Next]_vars => AccountInv'
<1> SUFFICES ASSUME TypeOK, AccountInv, [Next]_vars PROVE AccountInv'
  OBVIOUS
<1>0. UNCHANGED <<users, answers>> => AccountInv'
  BY DEF AccountInv, OneUserPerPhone, AnswersOfUsers
<1>1. CASE UNCHANGED vars  BY <1>0, <1>1 DEF vars
<1>2. CASE \E p \in Phones : GetVerificationCode(p) \/ Expire(p)
  BY <1>0, <1>2 DEF GetVerificationCode, Expire
<1>3. ASSUME NEW p \in Phones, LoginWithPwd(p) PROVE AccountInv'
  <2>1. PICK u \in FindUser(p) :
           answers' = answers \cup
              {[phone |-> p, issue |-> 0, user |-> u.id, created |-> FALSE]}
    BY <1>3 DEF LoginWithPwd
  <2>2. u \in users /\ u = [id |-> u.id, phone |-> p]
    BY DEF FindUser, TypeOK
  <2>3. UNCHANGED users  BY <1>3 DEF LoginWithPwd
  <2>4. AnswersOfUsers'  BY <2>1, <2>2, <2>3, AnswersGrow
  <2> QED BY <2>3, <2>4 DEF AccountInv, OneUserPerPhone
<1>4. ASSUME NEW r \in Requests,
             \/ \E p \in Phones, c \in Codes : LoginWithCode(r, p, c)
             \/ FindByPhone(r)
             \/ Abandon(r)
      PROVE  AccountInv'
  BY <1>0, <1>4 DEF LoginWithCode, FindByPhone, Abandon
<1>5. ASSUME NEW r \in Requests, CreateUser(r) PROVE AccountInv'
  <2>1. CASE UNCHANGED <<users, answers>>  BY <1>0, <2>1
  <2>2. ASSUME FindUser(request[r].phone) = {}, NEW id \in UserIDs,
               InsertUser(request[r].phone, id),
               Respond(r, id, TRUE) \/ UNCHANGED answers
        PROVE  AccountInv'
    <3> DEFINE new == [id |-> id, phone |-> request[r].phone]
    <3>1. users' = users \cup {new}  BY <2>2 DEF InsertUser
    <3>2. \A u \in users : u.phone # new.phone  BY <2>2 DEF FindUser
    <3>3. OneUserPerPhone'  BY <3>1, <3>2 DEF AccountInv, OneUserPerPhone
    <3>4. \A a \in answers' \ answers :
             [id |-> a.user, phone |-> a.phone] \in users'
      BY <2>2, <3>1 DEF Respond
    <3>5. AnswersOfUsers'  BY <3>1, <3>4, AnswersGrow
    <3> QED BY <3>3, <3>5 DEF AccountInv
  <2> QED BY <1>5, <2>1, <2>2 DEF CreateUser
<1>6. ASSUME NEW r \in Requests, DeleteCode(r) PROVE AccountInv'
  <2>1. UNCHANGED users  BY <1>6 DEF DeleteCode
  <2>2. [id |-> request[r].user, phone |-> request[r].phone] \in users
    BY <1>6 DEF DeleteCode, TypeOK
  <2>3. Respond(r, request[r].user, FALSE) \/ UNCHANGED answers
    BY <1>6 DEF DeleteCode
  <2>4. \A a \in answers' \ answers :
           [id |-> a.user, phone |-> a.phone] \in users'
    BY <2>1, <2>2, <2>3 DEF Respond
  <2>5. AnswersOfUsers'  BY <2>1, <2>4, AnswersGrow
  <2> QED BY <2>1, <2>5 DEF AccountInv, OneUserPerPhone
<1> QED BY <1>1, <1>2, <1>3, <1>4, <1>5, <1>6 DEF Next

\* Every token ever answered for a phone carries the same user id, whichever
\* path it was answered on and whatever failed.
THEOREM OneAccount == Spec => []OneAccountPerPhone
<1>1. Init => AccountInv
  BY DEF Init, AccountInv, OneUserPerPhone, AnswersOfUsers
<1>2. AccountInv => OneAccountPerPhone
  <2> SUFFICES ASSUME AccountInv, NEW a \in answers, NEW b \in answers,
                      a.phone = b.phone
               PROVE  a.user = b.user
    BY DEF OneAccountPerPhone
  <2> DEFINE u == [id |-> a.user, phone |-> a.phone]
             v == [id |-> b.user, phone |-> b.phone]
  <2>1. u = v  BY DEF AccountInv, OneUserPerPhone, AnswersOfUsers
  <2>2. u.id = a.user /\ v.id = b.user  OBVIOUS
  <2> QED BY <2>1, <2>2
<1> QED BY <1>1, <1>2, TypeInit, TypeNext, AccountNext, PTL DEF Spec

-----------------------------------------------------------------------------
(***************************************************************************)
(* A code that was spent.  A login of an existing user is answered after   *)
(* its DEL, so its code is not stored then; what is stored later is a      *)
(* later issue, whose number is greater than that of every request and     *)
(* every answer so far.                                                    *)
(***************************************************************************)
Made ==
    /\ \A r \in Requests : request[r].issue <= Len(issues[request[r].phone])
    /\ \A a \in answers : a.issue <= Len(issues[a.phone])

SpentNotStored ==
    \A a \in answers : ~a.created /\ a.issue # 0 => stored[a.phone] # a.issue

SpentInv == Made /\ SpentNotStored

\* Issues only grow; requests and answers are about codes that were made.
LEMMA SpentFrame ==
    ASSUME TypeOK, SpentInv, TypeOK', UNCHANGED issues,
           \A p \in Phones : stored'[p] \in {stored[p], 0},
           \A r \in Requests : \/ request'[r].issue = 0
                               \/ /\ request'[r].issue = request[r].issue
                                  /\ request'[r].phone = request[r].phone,
           UNCHANGED answers
    PROVE  SpentInv'
<1>1. /\ \A r \in Requests : request[r] \in Request /\ request'[r] \in Request
      /\ answers \subseteq Answer
      /\ \A p \in Phones : Len(issues[p]) \in Nat
  BY DEF TypeOK
<1>2. Made'
  BY <1>1 DEF SpentInv, Made, Request, Answer
<1>3. SpentNotStored'
  BY <1>1 DEF SpentInv, SpentNotStored, Answer
<1> QED BY <1>2, <1>3 DEF SpentInv

\* An answer for a code that was made, and that is not stored if it was spent.
LEMMA SpentAnswer ==
    ASSUME TypeOK, SpentInv, TypeOK', UNCHANGED issues,
           NEW a \in Answer, answers' \subseteq answers \cup {a},
           a.issue <= Len(issues[a.phone]),
           ~a.created /\ a.issue # 0 => stored'[a.phone] # a.issue,
           \A p \in Phones : stored'[p] \in {stored[p], 0},
           \A r \in Requests : \/ request'[r].issue = 0
                               \/ request'[r] = request[r]
    PROVE  SpentInv'
<1>1. /\ \A r \in Requests : request[r] \in Request /\ request'[r] \in Request
      /\ answers \subseteq Answer
      /\ \A p \in Phones : Len(issues[p]) \in Nat
  BY DEF TypeOK
<1>2. Made'
  BY <1>1 DEF SpentInv, Made, Request, Answer
<1>3. SpentNotStored'
  BY <1>1 DEF SpentInv, SpentNotStored, Answer
<1> QED BY <1>2, <1>3 DEF SpentInv

LEMMA LeaveForgets ==
    ASSUME TypeOK, NEW r \in Requests, Leave(r)
    PROVE  \A x \in Requests : request'[x].issue = 0 \/ request'[x] = request[x]
BY IdleType DEF Leave, TypeOK

LEMMA SpentNext == TypeOK /\ SpentInv /\ [Next]_vars => SpentInv'
<1> SUFFICES ASSUME TypeOK, SpentInv, [Next]_vars PROVE SpentInv'
  OBVIOUS
<1>0. /\ TypeOK'
      /\ \A r \in Requests : request[r] \in Request
      /\ answers \subseteq Answer
      /\ \A p \in Phones : Len(issues[p]) \in Nat
      /\ \A p \in Phones : stored[p] <= Len(issues[p])
  BY TypeNext DEF TypeOK
<1>1. CASE UNCHANGED vars  BY <1>0, <1>1, SpentFrame DEF vars
<1>2. ASSUME NEW p \in Phones, GetVerificationCode(p) PROVE SpentInv'
  <2>1. PICK c \in Codes : issues' = [issues EXCEPT ![p] = Append(@, c)]
    BY <1>2 DEF GetVerificationCode
  <2>2. issues \in [Phones -> Seq(Codes)]  BY DEF TypeOK
  <2>3. \A q \in Phones :
           Len(issues'[q]) = IF q = p THEN Len(issues[p]) + 1 ELSE Len(issues[q])
    BY <2>1, <2>2
  <2>4. /\ UNCHANGED <<request, answers>>
        /\ \A q \in Phones :
              stored'[q] = IF q = p THEN Len(issues[p]) + 1 ELSE stored[q]
    BY <1>2 DEF GetVerificationCode, TypeOK
  <2>5. Made'
    <3>1. \A q \in Phones : Len(issues[q]) <= Len(issues'[q])
                           /\ Len(issues'[q]) \in Nat
      BY <1>0, <2>3
    <3>2. \A r \in Requests : request[r].phone \in Phones
                             /\ request[r].issue \in Nat
      BY <1>0, MaxIssuesAssumption DEF Request, Issue
    <3>3. \A a \in answers : a.phone \in Phones /\ a.issue \in Nat
      BY <1>0, MaxIssuesAssumption DEF Answer, Issue
    <3>4. \A n, l, m \in Nat : n <= l /\ l <= m => n <= m  OBVIOUS
    <3>5. \A r \in Requests :
             request'[r].issue <= Len(issues'[request'[r].phone])
      BY <1>0, <2>4, <3>1, <3>2, <3>4 DEF SpentInv, Made
    <3>6. \A a \in answers' : a.issue <= Len(issues'[a.phone])
      BY <1>0, <2>4, <3>1, <3>3, <3>4 DEF SpentInv, Made
    <3> QED BY <3>5, <3>6 DEF Made
  <2>6. SpentNotStored'
    BY <1>0, <2>4 DEF SpentInv, Made, SpentNotStored, Answer, Issue
  <2> QED BY <2>5, <2>6 DEF SpentInv
<1>3. ASSUME NEW p \in Phones, Expire(p) PROVE SpentInv'
  <2>1. \A q \in Phones : stored'[q] \in {stored[q], 0}
    BY <1>3 DEF Expire, TypeOK
  <2> QED BY <1>0, <1>3, <2>1, SpentFrame DEF Expire
<1>4. ASSUME NEW p \in Phones, LoginWithPwd(p) PROVE SpentInv'
  <2>1. PICK u \in FindUser(p) :
           answers' = answers \cup
              {[phone |-> p, issue |-> 0, user |-> u.id, created |-> FALSE]}
    BY <1>4 DEF LoginWithPwd
  <2> DEFINE a == [phone |-> p, issue |-> 0, user |-> u.id, created |-> FALSE]
  <2>2. a \in Answer /\ a.issue = 0 /\ a.phone = p
    BY <1>0, <2>1 DEF TypeOK
  <2>3. answers' = answers \cup {a} /\ UNCHANGED <<issues, stored, request>>
    BY <1>4, <2>1 DEF LoginWithPwd
  <2> HIDE DEF a
  <2> QED BY <1>0, <2>2, <2>3, SpentAnswer
<1>5. ASSUME NEW r \in Requests, NEW p \in Phones, NEW c \in Codes,
             LoginWithCode(r, p, c)
      PROVE  SpentInv'
  <2>1. /\ UNCHANGED <<issues, stored, answers>>
        /\ \A x \in Requests : \/ request'[x] = request[x]
                               \/ /\ request'[x].issue = stored[p]
                                  /\ request'[x].phone = p
    BY <1>5 DEF LoginWithCode, TypeOK
  <2>2. Made'  BY <1>0, <2>1 DEF SpentInv, Made
  <2> QED BY <2>1, <2>2 DEF SpentInv, SpentNotStored
<1>6. ASSUME NEW r \in Requests, FindByPhone(r) PROVE SpentInv'
  <2>1. \A x \in Requests : \/ request'[x].issue = 0
                           \/ /\ request'[x].issue = request[x].issue
                              /\ request'[x].phone = request[x].phone
    BY <1>0, <1>6, LeaveForgets DEF FindByPhone, Goto, TypeOK, Request
  <2> QED BY <1>0, <1>6, <2>1, SpentFrame DEF FindByPhone
<1>7. ASSUME NEW r \in Requests, NEW id, NEW created \in BOOLEAN, Leave(r),
             Respond(r, id, created) \/ UNCHANGED answers,
             UNCHANGED issues,
             \A p \in Phones : stored'[p] \in {stored[p], 0},
             created \/ stored'[request[r].phone] = 0
      PROVE  SpentInv'
  <2> DEFINE a == [phone |-> request[r].phone, issue |-> request[r].issue,
                   user |-> id, created |-> created]
  <2>1. CASE UNCHANGED answers
    BY <1>0, <1>7, <2>1, LeaveForgets, SpentFrame
  <2>2. CASE Respond(r, id, created)
    <3>1. answers' = answers \cup {a}  BY <2>2 DEF Respond
    <3>2. a \in Answer  BY <1>0, <3>1 DEF TypeOK
    <3>3. a.phone = request[r].phone /\ a.issue = request[r].issue
          /\ a.created = created
      OBVIOUS
    <3>4. a.issue <= Len(issues[a.phone])
      BY <3>3 DEF SpentInv, Made
    <3>5. ~a.created /\ a.issue # 0 => stored'[a.phone] # a.issue
      BY <1>7, <3>3
    <3> HIDE DEF a
    <3> QED BY <1>0, <1>7, <3>1, <3>2, <3>4, <3>5, LeaveForgets, SpentAnswer
  <2> QED BY <1>7, <2>1, <2>2
<1>8. ASSUME NEW r \in Requests, CreateUser(r) PROVE SpentInv'
  <2>1. Leave(r) /\ UNCHANGED <<issues, stored>>
    BY <1>8 DEF CreateUser
  <2>2. \E id : Respond(r, id, TRUE) \/ UNCHANGED answers
    BY <1>8 DEF CreateUser
  <2> QED BY <1>7, <2>1, <2>2
<1>9. ASSUME NEW r \in Requests, DeleteCode(r) PROVE SpentInv'
  <2>1. UNCHANGED issues /\ \A p \in Phones : stored'[p] \in {stored[p], 0}
    BY <1>9 DEF DeleteCode, TypeOK
  <2>2. CASE UNCHANGED answers
    <3>1. CASE Leave(r)
      BY <1>0, <2>1, <2>2, <3>1, LeaveForgets, SpentFrame
    <3>2. CASE UNCHANGED request
      BY <1>0, <2>1, <2>2, <3>2, SpentFrame
    <3> QED BY <1>9, <3>1, <3>2 DEF DeleteCode
  <2>3. CASE Respond(r, request[r].user, FALSE) /\ Leave(r)
             /\ stored' = [stored EXCEPT ![request[r].phone] = 0]
    <3>1. request[r].phone \in Phones  BY <1>0 DEF Request
    <3>2. stored'[request[r].phone] = 0  BY <2>3, <3>1 DEF TypeOK
    <3> QED BY <1>7, <2>1, <2>3, <3>2
  <2> QED BY <1>9, <2>2, <2>3 DEF DeleteCode
<1>10. ASSUME NEW r \in Requests, Abandon(r) PROVE SpentInv'
  BY <1>0, <1>10, LeaveForgets, SpentFrame DEF Abandon
<1> QED BY <1>1, <1>2, <1>3, <1>4, <1>5, <1>6, <1>8, <1>9, <1>10 DEF Next

LEMMA SpentInit == Init => SpentInv
BY IdleType DEF Init, SpentInv, Made, SpentNotStored

\* A login reads the code that is stored.
LEMMA AcceptsStored ==
    ASSUME TypeOK, [Next]_vars, NEW r \in Requests, Accepts(r)
    PROVE  /\ request'[r].issue = stored[request'[r].phone]
           /\ request'[r].issue # 0
<1>1. request[r].pc = "idle" /\ request'[r].pc = "find"  BY DEF Accepts
<1>2. request # request' /\ request \in [Requests -> Request]
  BY <1>1 DEF TypeOK
<1>3. ASSUME NEW x \in Requests, Leave(x) PROVE FALSE
  BY <1>1, <1>2, <1>3, IdleType DEF Leave
<1>4. ASSUME NEW x \in Requests, FindByPhone(x) PROVE FALSE
  BY <1>1, <1>2, <1>3, <1>4 DEF FindByPhone, Goto, Request
<1>5. ASSUME NEW x \in Requests, NEW p \in Phones, NEW c \in Codes,
             LoginWithCode(x, p, c)
      PROVE  /\ request'[r].issue = stored[request'[r].phone]
             /\ request'[r].issue # 0
  BY <1>1, <1>2, <1>5 DEF LoginWithCode
<1>6. CASE \E x \in Requests : CreateUser(x) \/ DeleteCode(x) \/ Abandon(x)
  BY <1>2, <1>3, <1>6 DEF CreateUser, DeleteCode, Abandon
<1>7. CASE \E p \in Phones : \/ GetVerificationCode(p)
                            \/ Expire(p)
                            \/ LoginWithPwd(p)
  BY <1>2, <1>7 DEF GetVerificationCode, Expire, LoginWithPwd
<1>8. CASE UNCHANGED vars  BY <1>2, <1>8 DEF vars
<1> QED BY <1>4, <1>5, <1>6, <1>7, <1>8 DEF Next

\* A code is not accepted once a login of an existing user with it has been
\* answered, whatever failed, was sent twice or overlapped.
THEOREM SpentCode == Spec => SpentCodeRefused
<1>1. TypeOK /\ SpentInv /\ [Next]_vars =>
        [\A r \in Requests, a \in answers :
            Accepts(r) /\ ~a.created /\ a.phone = request'[r].phone =>
                a.issue # request'[r].issue]_vars
  BY AcceptsStored DEF SpentInv, SpentNotStored
<1> QED BY <1>1, TypeInit, TypeNext, SpentInit, SpentNext, PTL
        DEF Spec, SpentCodeRefused
=============================================================================
