------------------------------- MODULE Login -------------------------------
(***************************************************************************)
(* Logging in: a verification code per phone in Redis, written with SETNX  *)
(* and a TTL of five minutes, and one row of tb_user per phone.  A login   *)
(* with a code reads the code, finds the user, and deletes the code; when  *)
(* there is no user yet it creates one and leaves the code.                *)
(*                                                                         *)
(* A code is known by the number of its issue: issues[p][n] is the n-th    *)
(* code made for phone p, drawn at random, so that an old code may come    *)
(* again.  FaultKinds is that of module Seckill, where "crash" is also a   *)
(* client that goes away, which ends its request.                          *)
(***************************************************************************)
EXTENDS Naturals, Sequences, FiniteSets

CONSTANTS
    Phones,
    Codes,          \* what rand.Int31n can make
    UserIDs,        \* values of AUTO_INCREMENT
    Requests,       \* concurrent POST /user/login requests
    MaxIssues,      \* bound on the codes made for one phone
    FaultKinds

ASSUME NonEmptyAssumption == Phones # {} /\ UserIDs # {}
ASSUME MaxIssuesAssumption == MaxIssues \in Nat

VARIABLES
    issues,     \* the codes made for each phone
    stored,     \* Redis: phone:p, the number of the issue it holds, 0 for none
    users,      \* MySQL: tb_user
    request,    \* memory: the login requests
    answers     \* the logins that were answered with a token

vars == <<issues, stored, users, request, answers>>

Issue   == 0 .. MaxIssues
Request == [pc : {"idle", "find", "create", "delete"}, phone : Phones,
            issue : Issue, user : UserIDs]
\* issue is 0 for a login with a password.
Answer  == [phone : Phones, issue : Issue, user : UserIDs, created : BOOLEAN]

TypeOK ==
    /\ issues \in [Phones -> Seq(Codes)]
    /\ stored \in [Phones -> Issue]
    /\ \A p \in Phones : stored[p] <= Len(issues[p])
    /\ users \subseteq [id : UserIDs, phone : Phones]
    /\ request \in [Requests -> Request]
    /\ \A r \in Requests : request[r].pc # "idle" => request[r].issue # 0
    /\ \A r \in Requests : request[r].pc = "delete" =>
          [id |-> request[r].user, phone |-> request[r].phone] \in users
    /\ answers \subseteq Answer

Fault(f) == f \in FaultKinds

Idle == [pc |-> "idle", phone |-> CHOOSE p \in Phones : TRUE, issue |-> 0,
         user |-> CHOOSE u \in UserIDs : TRUE]

Init ==
    /\ issues = [p \in Phones |-> << >>]
    /\ stored = [p \in Phones |-> 0]
    /\ users = {}
    /\ request = [r \in Requests |-> Idle]
    /\ answers = {}

Goto(r, where) == request' = [request EXCEPT ![r].pc = where]
Leave(r)       == request' = [request EXCEPT ![r] = Idle]

-----------------------------------------------------------------------------
FindUser(p) == {u \in users : u.phone = p}

\* AUTO_INCREMENT gives an id that no row has.
InsertUser(p, id) ==
    /\ id \notin {u.id : u \in users}
    /\ users' = users \cup {[id |-> id, phone |-> p]}

\* SETNX phone:p.  While the key exists nothing happens; whether the caller
\* is told the code makes no difference to what Redis holds.
GetVerificationCode(p) ==
    /\ stored[p] = 0
    /\ Len(issues[p]) < MaxIssues
    /\ \E c \in Codes : issues' = [issues EXCEPT ![p] = Append(@, c)]
    /\ stored' = [stored EXCEPT ![p] = Len(issues[p]) + 1]
    /\ UNCHANGED <<users, request, answers>>

Expire(p) ==
    /\ stored[p] # 0
    /\ stored' = [stored EXCEPT ![p] = 0]
    /\ UNCHANGED <<issues, users, request, answers>>

\* Reading the key and comparing: a login that fails here leaves no trace.
LoginWithCode(r, p, c) ==
    /\ request[r].pc = "idle"
    /\ stored[p] # 0
    /\ issues[p][stored[p]] = c
    /\ request' = [request EXCEPT ![r] =
                     [pc |-> "find", phone |-> p, issue |-> stored[p],
                      user |-> Idle.user]]
    /\ UNCHANGED <<issues, stored, users, answers>>

\* Slip: the error of the query is not looked at.
FindByPhoneUnchecked(r) ==
    /\ request[r].pc = "find"
    /\ Goto(r, "delete")
    /\ UNCHANGED <<issues, stored, users, answers>>

FindByPhone(r) ==
    /\ request[r].pc = "find"
    /\ \/ \E u \in FindUser(request[r].phone) :
             request' = [request EXCEPT ![r].pc = "delete", ![r].user = u.id]
       \/ FindUser(request[r].phone) = {} /\ Goto(r, "create")
       \/ Fault("dbFailed") /\ Leave(r)
    /\ UNCHANGED <<issues, stored, users, answers>>

Respond(r, id, created) ==
    answers' = answers \cup
        {[phone |-> request[r].phone, issue |-> request[r].issue,
          user |-> id, created |-> created]}

\* Slip: tb_user without the unique key on the phone.
CreateUserTwice(r) ==
    /\ request[r].pc = "create"
    /\ \E id \in UserIDs : /\ InsertUser(request[r].phone, id)
                          /\ Respond(r, id, TRUE)
    /\ Leave(r)
    /\ UNCHANGED <<issues, stored>>

\* INSERT of the new user.  A user with this phone may have been created
\* since the query: the unique key refuses a second one, and the login fails.
CreateUser(r) ==
    /\ request[r].pc = "create"
    /\ \/ /\ FindUser(request[r].phone) = {}
          /\ \E id \in UserIDs :
                /\ InsertUser(request[r].phone, id)
                /\ \/ Respond(r, id, TRUE)
                   \/ Fault("commitLost") /\ UNCHANGED answers
       \/ /\ FindUser(request[r].phone) # {} \/ Fault("dbFailed")
          /\ UNCHANGED <<users, answers>>
    /\ Leave(r)
    /\ UNCHANGED <<issues, stored>>

\* Slip: an error of the DEL is logged and the login succeeds.
DeleteCodeIgnoringErrors(r) ==
    /\ request[r].pc = "delete"
    /\ \/ stored' = [stored EXCEPT ![request[r].phone] = 0]
       \/ Fault("refused") /\ UNCHANGED stored
    /\ Respond(r, request[r].user, FALSE)
    /\ Leave(r)
    /\ UNCHANGED <<issues, users>>

\* DEL phone:p, whatever code the key holds by now; an error fails the login.
DeleteCode(r) ==
    /\ request[r].pc = "delete"
    /\ \/ /\ stored' = [stored EXCEPT ![request[r].phone] = 0]
          /\ \/ Respond(r, request[r].user, FALSE)
             \/ Fault("replyLost") /\ UNCHANGED answers
          /\ Leave(r)
       \/ Fault("refused") /\ Leave(r) /\ UNCHANGED <<stored, answers>>
       \/ /\ Fault("resent")
          /\ stored' = [stored EXCEPT ![request[r].phone] = 0]
          /\ UNCHANGED <<request, answers>>
    /\ UNCHANGED <<issues, users>>

\* A password that matches the user's.
LoginWithPwd(p) ==
    /\ \E u \in FindUser(p) :
          answers' = answers \cup
              {[phone |-> p, issue |-> 0, user |-> u.id, created |-> FALSE]}
    /\ UNCHANGED <<issues, stored, users, request>>

\* The client goes away, or the process stops, between two commands.
Abandon(r) ==
    /\ Fault("crash")
    /\ request[r].pc # "idle"
    /\ Leave(r)
    /\ UNCHANGED <<issues, stored, users, answers>>

Next ==
    \/ \E p \in Phones : \/ GetVerificationCode(p)
                         \/ Expire(p)
                         \/ LoginWithPwd(p)
    \/ \E r \in Requests :
          \/ \E p \in Phones, c \in Codes : LoginWithCode(r, p, c)
          \/ FindByPhone(r)
          \/ CreateUser(r)
          \/ DeleteCode(r)
          \/ Abandon(r)

Spec == Init /\ [][Next]_vars

-----------------------------------------------------------------------------
\* One phone is one account: every token ever answered for a phone, on
\* whichever path, carries the same user id.
OneAccountPerPhone ==
    \A a, b \in answers : a.phone = b.phone => a.user = b.user

Accepts(r) == request[r].pc = "idle" /\ request'[r].pc = "find"

\* Once a login of an existing user has been answered with a token, its code
\* is not accepted again, although the DEL may have failed or have been sent
\* twice, and although other requests may be between their GET and their DEL.
SpentCodeRefused ==
    [][\A r \in Requests, a \in answers :
          Accepts(r) /\ ~a.created /\ a.phone = request'[r].phone =>
              a.issue # request'[r].issue]_vars

\* service/user.go:84, "delete the code, to prevent it from being used again":
\* no code is accepted after a login with it was answered with a token.
CodeUsedOnce ==
    [][\A r \in Requests, a \in answers :
          Accepts(r) /\ a.phone = request'[r].phone =>
              a.issue # request'[r].issue]_vars
=============================================================================
