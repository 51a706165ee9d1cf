----------------------------- MODULE ServerProofs ----------------------------
(***************************************************************************)
(* Theorems about Server, for any number of logins and of edits.           *)
(***************************************************************************)
EXTENDS Server, TLAPS

Tokens   == [Fields -> {Nil} \cup Versions]
Request  == [pc : RequestPC, token : Tokens, since : {Nil} \cup Versions,
             status : {Nil} \cup 200 .. 500]

\* What a login is answered.
LEMMA LoginStatus ==
    /\ \A c \in Routes[Login] \ {"ErrTokenGenerationFailed"} :
          WriteResponse(c).status \in {400, 500}
    /\ ParseCoder("ErrUnknown") = 500
    /\ WriteResponse("ErrSuccess").status = 200
<1>1. Routes[Login] = {"ErrBind", "ErrValidation", "ErrDatabase",
                       "ErrTokenGenerationFailed"}
  BY DEF Routes, Login
<1>2. /\ ParseCoder("ErrBind") = 400 /\ ParseCoder("ErrValidation") = 400
      /\ ParseCoder("ErrDatabase") = 500 /\ ParseCoder("ErrUnknown") = 500
      /\ ParseCoder("ErrSuccess") = 200
  BY DEF ParseCoder, Registered, Codes
<1>3. \A c : WriteResponse(c).status = ParseCoder(c)  BY DEF WriteResponse
<1> QED BY <1>1, <1>2, <1>3

-----------------------------------------------------------------------------
(***************************************************************************)
(* The steps of a request, as what they make of its record.                *)
(***************************************************************************)
AcceptedAs(p, q) ==
    /\ p.pc = "none" /\ listener = "serving"
    /\ q = [p EXCEPT !.pc = "business", !.since = options.jwt]

ServedAs(p, q) ==
    \/ /\ p.pc = "business"
       /\ \/ q = [p EXCEPT !.pc = "expire"]
          \/ \E s \in {400, 500} : q = [p EXCEPT !.pc = "answered", !.status = s]
    \/ /\ p.pc \in Fields
       /\ \/ q = [p EXCEPT !.pc = "answered", !.status = 500]
          \/ /\ options.jwt # Nil
             /\ q = [p EXCEPT !.token[p.pc] = options.jwt, !.pc = After[p.pc]]
    \/ /\ p.pc = "answer"
       /\ q = [p EXCEPT !.pc = "answered", !.status = 200]

LEMMA RequestStep ==
    ASSUME TypeOK, NEW r \in Requests, Accept(r) \/ Handle(r)
    PROVE  /\ Running /\ UNCHANGED <<watchVars, processVars>>
           /\ \E q : /\ request' = [request EXCEPT ![r] = q]
                     /\ AcceptedAs(request[r], q) \/ ServedAs(request[r], q)
<1>1. request \in [Requests -> Request]
  BY DEF TypeOK, Request, Tokens
<1>2. Running /\ UNCHANGED <<watchVars, processVars>>
  BY DEF Accept, Handle, Business, GenerateToken, Answer
<1>3. CASE Accept(r)
  <2>1. request' = [request EXCEPT
                      ![r] = [@ EXCEPT !.pc = "business", !.since = options.jwt]]
    BY <1>1, <1>3 DEF Accept
  <2> QED BY <1>2, <1>3, <2>1 DEF Accept, AcceptedAs
<1> DEFINE p == request[r]
<1>4. CASE Business(r)
  <2>1. CASE request' = [request EXCEPT ![r].pc = "expire"]
    <3> DEFINE q == [p EXCEPT !.pc = "expire"]
    <3>1. request' = [request EXCEPT ![r] = q]  BY <2>1
    <3>2. ServedAs(p, q)  BY <1>4 DEF Business, ServedAs
    <3> QED BY <1>2, <3>1, <3>2
  <2>2. CASE \E c \in Routes[Login] \ {"ErrTokenGenerationFailed"} :
                request' = [request EXCEPT ![r] = Answered(@, WriteResponse(c).status)]
    <3>1. PICK c \in Routes[Login] \ {"ErrTokenGenerationFailed"} :
             request' = [request EXCEPT ![r] = Answered(p, WriteResponse(c).status)]
      BY <2>2
    <3> DEFINE s == WriteResponse(c).status
               q == Answered(p, s)
    <3>2. s \in {400, 500}  BY LoginStatus
    <3>3. ServedAs(p, q)  BY <1>4, <3>2 DEF Business, ServedAs, Answered
    <3> QED BY <1>2, <3>1, <3>3
  <2> QED BY <1>4, <2>1, <2>2 DEF Business
<1>5. CASE GenerateToken(r)
  <2>1. p.pc \in Fields  BY <1>5 DEF GenerateToken
  <2>2. CASE options.jwt = Nil
    <3> DEFINE q == Answered(p, 500)
    <3>1. request' = [request EXCEPT ![r] = q]
      BY <1>5, <2>2, LoginStatus DEF GenerateToken
    <3>2. ServedAs(p, q)  BY <2>1 DEF ServedAs, Answered
    <3> QED BY <1>2, <3>1, <3>2
  <2>3. CASE options.jwt # Nil
    <3> DEFINE q == [p EXCEPT !.token[p.pc] = options.jwt, !.pc = After[p.pc]]
    <3>1. request' = [request EXCEPT ![r] = q]
      BY <1>5, <2>3 DEF GenerateToken
    <3>2. ServedAs(p, q)  BY <2>1, <2>3 DEF ServedAs
    <3> QED BY <1>2, <3>1, <3>2
  <2> QED BY <2>2, <2>3
<1>6. CASE Answer(r)
  <2> DEFINE q == Answered(p, 200)
  <2>1. request' = [request EXCEPT ![r] = q]
    BY <1>6, LoginStatus DEF Answer
  <2>2. ServedAs(p, q)  BY <1>6 DEF Answer, ServedAs, Answered
  <2> QED BY <1>2, <2>1, <2>2
<1> QED BY <1>3, <1>4, <1>5, <1>6 DEF Handle

-----------------------------------------------------------------------------
(***************************************************************************)
(* Types.                                                                  *)
(***************************************************************************)
TypeFile ==
    /\ file \in Contents
    /\ held \in Contents
    /\ options \in [{"server", "jwt"} -> {Nil} \cup Versions]
    /\ snapshot \in {Nil} \cup Versions
    /\ level \in {Nil} \cup Versions
    /\ watcher \in WatcherPC
    /\ callback \in BOOLEAN
    /\ changed \in BOOLEAN

TypeProcess ==
    /\ main \in MainPC
    /\ clients \in SUBSET {"mysql", "redis"}
    /\ consumer \in {"off", "starting", "running"}
    /\ listener \in ListenerPC
    /\ err \in Errors
    /\ overdue \in BOOLEAN
    /\ ending \in Endings

TypeRequests == request \in [Requests -> Request]

LEMMA TypeParts ==
    /\ TypeOK <=> TypeFile /\ TypeProcess /\ TypeRequests
    /\ TypeOK' <=> TypeFile' /\ TypeProcess' /\ TypeRequests'
BY DEF TypeOK, TypeFile, TypeProcess, TypeRequests, Request, Tokens

LEMMA SectionType ==
    ASSUME NEW contents \in Contents
    PROVE  /\ Section(contents) \in {Nil, contents.version}
           /\ Section(contents) \in {Nil} \cup Versions
           /\ contents.version \in Versions
BY DEF Section, Contents

LEMMA TypeRequestStep ==
    ASSUME TypeOK, NEW r \in Requests, Accept(r) \/ Handle(r)
    PROVE  TypeOK'
<1>1. TypeFile /\ TypeProcess /\ TypeRequests  BY TypeParts
<1>2. PICK q : /\ request' = [request EXCEPT ![r] = q]
               /\ AcceptedAs(request[r], q) \/ ServedAs(request[r], q)
  BY RequestStep
<1>3. request[r] \in Request /\ options.jwt \in {Nil} \cup Versions
  BY <1>1 DEF TypeRequests, TypeFile
<1>4. q \in Request
  <2> DEFINE p == request[r]
  <2>1. CASE AcceptedAs(p, q)
    BY <1>3, <2>1 DEF AcceptedAs, Request, RequestPC
  <2>2. CASE q = [p EXCEPT !.pc = "expire"]
    BY <1>3, <2>2 DEF Request, RequestPC
  <2>3. CASE \E s \in {200, 400, 500} : q = [p EXCEPT !.pc = "answered", !.status = s]
    <3>1. PICK s \in {200, 400, 500} : q = [p EXCEPT !.pc = "answered", !.status = s]
      BY <2>3
    <3>2. s \in {Nil} \cup 200 .. 500  OBVIOUS
    <3>3. "answered" \in RequestPC  BY DEF RequestPC
    <3> QED BY <1>3, <3>1, <3>2, <3>3 DEF Request
  <2>4. CASE /\ p.pc \in Fields
             /\ q = [p EXCEPT !.token[p.pc] = options.jwt, !.pc = After[p.pc]]
    <3>1. After[p.pc] \in RequestPC  BY <2>4 DEF After, Fields, RequestPC
    <3>2. p.token \in Tokens  BY <1>3 DEF Request
    <3>3. [p.token EXCEPT ![p.pc] = options.jwt] \in Tokens
      BY <1>3, <3>2 DEF Tokens
    <3> QED BY <1>3, <2>4, <3>1, <3>3 DEF Request
  <2> QED BY <1>2, <2>1, <2>2, <2>3, <2>4 DEF ServedAs
<1>5. TypeRequests'  BY <1>1, <1>2, <1>4 DEF TypeRequests
<1>6. TypeFile' /\ TypeProcess'
  BY <1>1, RequestStep
     DEF TypeFile, TypeProcess, watchVars, processVars, stopVars
<1> QED BY <1>5, <1>6, TypeParts

LEMMA TypeInit == Init => TypeOK
<1> SUFFICES ASSUME Init PROVE TypeOK  OBVIOUS
<1>1. 1 \in Versions  BY MaxEditsAssumption DEF Versions
<1>2. file \in Contents /\ held \in Contents  BY <1>1 DEF Init, Contents
<1>options. [server |-> Nil, jwt |-> Nil] \in
               [{"server", "jwt"} -> {Nil} \cup Versions]
  OBVIOUS
<1>3. TypeFile  BY <1>2, <1>options DEF Init, TypeFile, WatcherPC
<1>4. TypeProcess
  BY DEF Init, TypeProcess, MainPC, ListenerPC, Errors, Endings
<1>5. NoRequest \in Request
  BY DEF NoRequest, Request, RequestPC, Tokens
<1>6. TypeRequests  BY <1>5 DEF Init, TypeRequests
<1> QED BY <1>3, <1>4, <1>6, TypeParts

LEMMA TypeNext == TypeOK /\ [Next]_vars => TypeOK'
<1> SUFFICES ASSUME TypeOK, [Next]_vars PROVE TypeOK'  OBVIOUS
<1>1. TypeFile /\ TypeProcess /\ TypeRequests  BY TypeParts
<1> USE DEF watchVars, processVars, stopVars
<1>2. ASSUME UNCHANGED <<watchVars, snapshot, request>>, TypeProcess'
      PROVE  TypeOK'
  BY <1>1, <1>2, TypeParts DEF TypeFile, TypeRequests
<1>3. ASSUME UNCHANGED <<processVars, request>>, TypeFile' PROVE TypeOK'
  BY <1>1, <1>3, TypeParts DEF TypeProcess, TypeRequests
<1>4. /\ Section(file) \in {Nil} \cup Versions
      /\ Section(held) \in {Nil} \cup Versions
  BY <1>1, SectionType DEF TypeFile
<1>5. CASE UNCHANGED vars
  BY <1>1, <1>3, <1>5 DEF vars, TypeFile
<1>6. CASE Main
  <2>1. CASE NewOptions
    <3>1. TypeFile'
      BY <1>1, <1>4, <2>1 DEF NewOptions, TypeFile
    <3>2. TypeProcess'
      BY <1>1, <2>1 DEF NewOptions, TypeProcess, Exit, MainPC, Endings
    <3> QED BY <1>1, <2>1, <3>1, <3>2, TypeParts DEF NewOptions, TypeRequests
  <2>2. CASE WatchConfig \/ OnConfigChange \/ NewLogger
    <3>1. TypeFile'
      BY <1>1, <2>2 DEF WatchConfig, OnConfigChange, NewLogger, TypeFile, WatcherPC
    <3>2. TypeProcess'
      BY <1>1, <2>2 DEF WatchConfig, OnConfigChange, NewLogger, TypeProcess, MainPC
    <3> QED BY <1>1, <2>2, <3>1, <3>2, TypeParts
            DEF WatchConfig, OnConfigChange, NewLogger, TypeRequests
  <2>3. CASE NewMySQL \/ NewRedisClient \/ StartConsumer \/ Listen \/ Notify
    <3>1. TypeProcess'
      BY <1>1, <2>3 DEF NewMySQL, NewRedisClient, StartConsumer, Listen, Notify,
                        TypeProcess, Exit, MainPC, Endings, ListenerPC
    <3> QED BY <1>2, <2>3, <3>1
            DEF NewMySQL, NewRedisClient, StartConsumer, Listen, Notify
  <2>4. CASE Shutdown \/ CheckShutdown \/ CloseRedis \/ CloseMySQL
    <3>1. TypeProcess'
      BY <1>1, <2>4 DEF Shutdown, CheckShutdown, CloseRedis, CloseMySQL,
                        TypeProcess, Exit, MainPC, Endings, Errors
    <3> QED BY <1>2, <2>4, <3>1
            DEF Shutdown, CheckShutdown, CloseRedis, CloseMySQL
  <2> QED BY <1>6, <2>1, <2>2, <2>3, <2>4 DEF Main
<1>7. CASE Watcher
  <2>1. TypeFile'
    BY <1>1, <1>4, <1>7
       DEF Watcher, ReadInConfig, ReloadServer, ReloadJWT, ReloadLevel,
           TypeFile, WatcherPC
  <2> QED BY <1>3, <1>7, <2>1
          DEF Watcher, ReadInConfig, ReloadServer, ReloadJWT, ReloadLevel
<1>8. CASE CreateGroup \/ Bind \/ ListenReturns \/ CheckListen
           \/ CheckServerClosed \/ Signal
  <2>1. ASSUME CreateGroup \/ Signal PROVE TypeProcess'
    BY <1>1, <2>1 DEF CreateGroup, Signal,
                      TypeProcess, Exit, MainPC, Endings, ListenerPC
  <2>2. ASSUME Bind \/ ListenReturns PROVE TypeProcess'
    BY <1>1, <2>2 DEF Bind, ListenReturns, TypeProcess, ListenerPC, Errors
  <2>3. ASSUME CheckListen \/ CheckServerClosed PROVE TypeProcess'
    BY <1>1, <2>3 DEF CheckListen, CheckServerClosed,
                      TypeProcess, Exit, MainPC, Endings, ListenerPC
  <2>4. TypeProcess'  BY <1>8, <2>1, <2>2, <2>3
  <2> QED BY <1>2, <1>8, <2>4
          DEF CreateGroup, Bind, ListenReturns, CheckListen, CheckServerClosed, Signal
<1>9. ASSUME NEW form \in Forms, Save(form) PROVE TypeOK'
  <2>1. file' \in Contents
    <3>1. /\ file.version \in Versions /\ file.version < MaxEdits + 1
          /\ file' = [version |-> file.version + 1, form |-> form,
                      settled |-> main \in SetUp]
      BY <1>1, <1>9 DEF Save, TypeFile, Contents
    <3>2. file.version + 1 \in Versions
      BY <3>1, MaxEditsAssumption DEF Versions
    <3>3. (main \in SetUp) \in BOOLEAN  OBVIOUS
    <3> QED BY <3>1, <3>2, <3>3, Zenon DEF Contents
  <2>2. TypeFile'
    <3>1. changed' \in BOOLEAN /\ watcher' \in WatcherPC
      BY <1>1, <1>9 DEF Save, TypeFile, WatcherPC
    <3> QED BY <1>1, <1>9, <2>1, <3>1 DEF Save, TypeFile
  <2> QED BY <1>3, <1>9, <2>2 DEF Save
<1>10. CASE \E r \in Requests : Accept(r) \/ Handle(r)
  BY <1>10, TypeRequestStep
<1> QED BY <1>5, <1>6, <1>7, <1>8, <1>9, <1>10 DEF Next

\* Every variable keeps its type.
THEOREM ServerTypes == Spec => []TypeOK
BY TypeInit, TypeNext, PTL DEF Spec

-----------------------------------------------------------------------------
(***************************************************************************)
(* The token.  The versions of jwt that requests may see only grow, from   *)
(* one reload to the next, up to what viper holds; in between there may be *)
(* no section at all, and then no request reads one.  So what a request    *)
(* has read is not newer than what it reads next.                          *)
(***************************************************************************)
\* A version that was seen.
Seen(v) == v <= held.version /\ (options.jwt # Nil => v <= options.jwt)

Monotone == held.version <= file.version /\ options.jwt <= held.version

ReadSoFar(q) ==
    /\ Seen(q.since)
    /\ q.pc \in {"issuer", "secret", "answer"} =>
          /\ q.token.expire # Nil /\ Seen(q.token.expire)
          /\ q.since <= q.token.expire
    /\ q.pc \in {"secret", "answer"} =>
          Seen(q.token.issuer) /\ q.token.expire <= q.token.issuer
    /\ q.pc = "answer" => q.token.issuer <= q.token.secret

ToldSoFar(q) ==
    /\ q.pc # "answered" => q.status = Nil
    /\ q.status = 200 =>
          /\ q.token.expire # Nil
          /\ q.since <= q.token.expire
          /\ q.token.expire <= q.token.issuer
          /\ q.token.issuer <= q.token.secret

TokenInv ==
    /\ Monotone
    /\ \A r \in Requests : ReadSoFar(request[r]) /\ ToldSoFar(request[r])

\* The types the argument needs, as numbers.
LEMMA Numbers ==
    ASSUME TypeOK
    PROVE  /\ held.version \in Nat /\ file.version \in Nat
           /\ options.jwt \in Nat
           /\ \A r \in Requests :
                 /\ request[r].since \in Nat
                 /\ request[r].token.expire \in Nat
                 /\ request[r].token.issuer \in Nat
                 /\ request[r].token.secret \in Nat
                 /\ request[r].token.expire \in {Nil} \cup Versions
<1>1. Versions \subseteq Nat /\ Nil \in Nat  BY MaxEditsAssumption DEF Versions, Nil
<1>2. TypeFile /\ TypeRequests  BY TypeParts
<1>3. held.version \in Versions /\ file.version \in Versions
  BY <1>2 DEF TypeFile, Contents
<1>4. options.jwt \in {Nil} \cup Versions  BY <1>2 DEF TypeFile
<1>5. ASSUME NEW r \in Requests
      PROVE  /\ request[r].since \in {Nil} \cup Versions
             /\ \A f \in Fields : request[r].token[f] \in {Nil} \cup Versions
  BY <1>2 DEF TypeRequests, Request, Tokens
<1> QED BY <1>1, <1>3, <1>4, <1>5 DEF Fields

LEMMA NumbersNext ==
    ASSUME TypeOK'
    PROVE  held'.version \in Nat /\ file'.version \in Nat
BY MaxEditsAssumption DEF TypeOK, Contents, Versions

LEMMA TokenFrame ==
    ASSUME TokenInv, UNCHANGED <<file, held, options, request>>
    PROVE  TokenInv'
BY DEF TokenInv, Monotone, ReadSoFar, ToldSoFar, Seen

\* The options are replaced by what is held, or what is held by the file.
LEMMA TokenReload ==
    ASSUME TypeOK, TypeOK', TokenInv, UNCHANGED request,
           held.version <= held'.version, held'.version <= file'.version,
           \/ options'.jwt = options.jwt
           \/ options'.jwt \in {Nil, held'.version}
    PROVE  TokenInv'
<1>1. /\ held.version \in Nat /\ file.version \in Nat /\ options.jwt \in Nat
      /\ held'.version \in Nat /\ file'.version \in Nat
  BY Numbers, NumbersNext
<1>2. ASSUME NEW v \in Nat, Seen(v) PROVE Seen(v)'
  BY <1>1, <1>2 DEF Seen, TokenInv, Monotone
<1>3. Monotone'  BY <1>1 DEF TokenInv, Monotone, Nil
<1>4. ASSUME NEW r \in Requests
      PROVE  ReadSoFar(request[r])' /\ ToldSoFar(request[r])'
  <2>1. PICK q : q = request[r] /\ q = request'[r]  OBVIOUS
  <2>2. q.since \in Nat /\ q.token.expire \in Nat /\ q.token.issuer \in Nat
    BY <2>1, Numbers
  <2>3. ReadSoFar(q) /\ ToldSoFar(q)  BY <2>1 DEF TokenInv
  <2>4. ReadSoFar(q)'  BY <1>2, <2>2, <2>3 DEF ReadSoFar
  <2>5. ToldSoFar(q)'  BY <2>3 DEF ToldSoFar
  <2> QED BY <2>1, <2>4, <2>5
<1> QED BY <1>3, <1>4 DEF TokenInv

LEMMA TokenRequestStep ==
    ASSUME TypeOK, TokenInv, NEW r \in Requests, Accept(r) \/ Handle(r)
    PROVE  TokenInv'
<1>1. PICK q : /\ request' = [request EXCEPT ![r] = q]
               /\ AcceptedAs(request[r], q) \/ ServedAs(request[r], q)
  BY RequestStep
<1>2. UNCHANGED <<file, held, options>>
  BY RequestStep DEF watchVars
<1>3. request \in [Requests -> Request]
  BY TypeParts DEF TypeRequests
<1>4. PICK p \in Request : p = request[r]  BY <1>3
<1>5. /\ ReadSoFar(p) /\ ToldSoFar(p)
      /\ options.jwt \in Nat /\ held.version \in Nat
      /\ options.jwt <= held.version
  BY <1>4, Numbers DEF TokenInv, Monotone
<1>6. ReadSoFar(q) /\ ToldSoFar(q)
  <2>1. CASE AcceptedAs(p, q)
    <3>1. /\ q.pc = "business" /\ q.since = options.jwt
          /\ q.token = p.token /\ q.status = p.status
      BY <1>4, <2>1 DEF AcceptedAs, Request
    <3>2. p.status = Nil  BY <1>5, <2>1 DEF AcceptedAs, ToldSoFar
    <3> QED BY <1>5, <3>1, <3>2 DEF ReadSoFar, ToldSoFar, Seen, Nil
  <2>2. CASE p.pc = "business" /\ q = [p EXCEPT !.pc = "expire"]
    <3>1. /\ q.pc = "expire" /\ q.since = p.since
          /\ q.token = p.token /\ q.status = p.status
      BY <1>4, <2>2 DEF Request
    <3> QED BY <1>5, <2>2, <3>1 DEF ReadSoFar, ToldSoFar
  <2>3. ASSUME NEW s \in {400, 500}, q = [p EXCEPT !.pc = "answered", !.status = s]
        PROVE  ReadSoFar(q) /\ ToldSoFar(q)
    <3>1. /\ q.pc = "answered" /\ q.since = p.since
          /\ q.token = p.token /\ q.status = s
      BY <1>4, <2>3 DEF Request
    <3> QED BY <1>5, <2>3, <3>1 DEF ReadSoFar, ToldSoFar
  <2>4. CASE /\ p.pc \in Fields /\ options.jwt # Nil
             /\ q = [p EXCEPT !.token[p.pc] = options.jwt, !.pc = After[p.pc]]
    <3>1. /\ q.pc = After[p.pc] /\ q.since = p.since /\ q.status = p.status
          /\ q.token = [p.token EXCEPT ![p.pc] = options.jwt]
          /\ p.token \in Tokens
      BY <1>4, <2>4 DEF Request
    <3>2. \A f \in Fields : q.token[f] = IF f = p.pc THEN options.jwt ELSE p.token[f]
      BY <3>1 DEF Tokens
    <3>3. Seen(options.jwt)  BY <1>5 DEF Seen
    <3>4. q.status = Nil  BY <1>5, <2>4, <3>1 DEF ToldSoFar, Fields
    <3>5. CASE p.pc = "expire"
      <4>1. q.pc = "issuer" /\ q.token.expire = options.jwt
        BY <3>1, <3>2, <3>5 DEF After, Fields
      <4> QED BY <1>5, <2>4, <3>1, <3>3, <3>4, <4>1 DEF ReadSoFar, ToldSoFar, Seen, Nil
    <3>6. CASE p.pc = "issuer"
      <4>1. /\ q.pc = "secret" /\ q.token.expire = p.token.expire
            /\ q.token.issuer = options.jwt
        BY <3>1, <3>2, <3>6 DEF After, Fields
      <4> QED BY <1>5, <2>4, <3>1, <3>3, <3>4, <3>6, <4>1
              DEF ReadSoFar, ToldSoFar, Seen, Nil
    <3>7. CASE p.pc = "secret"
      <4>1. /\ q.pc = "answer" /\ q.token.expire = p.token.expire
            /\ q.token.issuer = p.token.issuer /\ q.token.secret = options.jwt
        BY <3>1, <3>2, <3>7 DEF After, Fields
      <4> QED BY <1>5, <2>4, <3>1, <3>3, <3>4, <3>7, <4>1
              DEF ReadSoFar, ToldSoFar, Seen, Nil
    <3> QED BY <2>4, <3>5, <3>6, <3>7 DEF Fields
  <2>5. CASE p.pc = "answer" /\ q = [p EXCEPT !.pc = "answered", !.status = 200]
    <3>1. /\ q.pc = "answered" /\ q.since = p.since
          /\ q.token = p.token /\ q.status = 200
      BY <1>4, <2>5 DEF Request
    <3> QED BY <1>5, <2>5, <3>1 DEF ReadSoFar, ToldSoFar
  <2> QED BY <1>1, <1>4, <2>1, <2>2, <2>3, <2>4, <2>5 DEF ServedAs
<1>7. ASSUME NEW x \in Requests
      PROVE  ReadSoFar(request[x])' /\ ToldSoFar(request[x])'
  <2>1. PICK y : y = request'[x]  OBVIOUS
  <2>2. ReadSoFar(y) /\ ToldSoFar(y)
    BY <1>1, <1>3, <1>6, <2>1 DEF TokenInv
  <2>3. ReadSoFar(y)' /\ ToldSoFar(y)'
    BY <1>2, <2>2 DEF ReadSoFar, ToldSoFar, Seen
  <2> QED BY <2>1, <2>3
<1> QED BY <1>2, <1>7 DEF TokenInv, Monotone

LEMMA TokenNext == TypeOK /\ TokenInv /\ [Next]_vars => TokenInv'
<1> SUFFICES ASSUME TypeOK, TokenInv, [Next]_vars PROVE TokenInv'  OBVIOUS
<1>0. /\ TypeOK'
      /\ held.version \in Nat /\ file.version \in Nat
      /\ held \in Contents /\ file \in Contents
      /\ options \in [{"server", "jwt"} -> {Nil} \cup Versions]
      /\ Monotone
  BY TypeNext, Numbers DEF TypeOK, TokenInv
<1>1. UNCHANGED <<file, held, options, request>> => TokenInv'  BY TokenFrame
<1>2. CASE UNCHANGED vars  BY <1>1, <1>2 DEF vars, watchVars
<1>3. CASE Main
  <2>1. CASE NewOptions
    <3>1. CASE UNCHANGED <<held, options>>
      BY <1>1, <2>1, <3>1 DEF NewOptions
    <3>2. CASE /\ held' = file
               /\ options' = [server |-> Section(file), jwt |-> Section(file)]
      <4>1. options'.jwt \in {Nil, held'.version}
        BY <1>0, <3>2, SectionType
      <4> QED BY <1>0, <2>1, <3>2, <4>1, TokenReload DEF NewOptions, Monotone
    <3> QED BY <2>1, <3>1, <3>2 DEF NewOptions
  <2>2. CASE ~NewOptions
    BY <1>1, <1>3, <2>2
       DEF Main, WatchConfig, OnConfigChange, NewMySQL, NewRedisClient, NewLogger,
           StartConsumer, Listen, Notify, Shutdown, CheckShutdown, CloseRedis,
           CloseMySQL, watchVars
  <2> QED BY <2>1, <2>2
<1>4. CASE ReadInConfig
  <2>1. UNCHANGED <<file, options, request>> /\ held' \in {held, file}
    BY <1>4 DEF ReadInConfig
  <2> QED BY <1>0, <2>1, TokenReload DEF Monotone
<1>5. CASE ReloadServer \/ ReloadLevel
  <2>1. UNCHANGED <<file, held, request>> /\ options'.jwt = options.jwt
    BY <1>0, <1>5 DEF ReloadServer, ReloadLevel
  <2> QED BY <1>0, <2>1, TokenReload DEF Monotone
<1>6. CASE ReloadJWT
  <2>1. UNCHANGED <<file, held, request>> /\ options'.jwt = Section(held)
    BY <1>0, <1>6 DEF ReloadJWT
  <2>2. options'.jwt \in {Nil, held'.version}
    BY <1>0, <2>1, SectionType
  <2> QED BY <1>0, <2>1, <2>2, TokenReload DEF Monotone
<1>7. CASE CreateGroup \/ Bind \/ ListenReturns \/ CheckListen
           \/ CheckServerClosed \/ Signal
  BY <1>1, <1>7 DEF CreateGroup, Bind, ListenReturns, CheckListen,
                    CheckServerClosed, Signal, watchVars
<1>8. ASSUME NEW form \in Forms, Save(form) PROVE TokenInv'
  <2>1. UNCHANGED <<held, options, request>> /\ file'.version = file.version + 1
    BY <1>8 DEF Save, processVars
  <2> QED BY <1>0, <2>1, TokenReload DEF Monotone
<1>9. CASE \E r \in Requests : Accept(r) \/ Handle(r)
  BY <1>9, TokenRequestStep
<1> QED BY <1>2, <1>3, <1>4, <1>5, <1>6, <1>7, <1>8, <1>9 DEF Next, Watcher

LEMMA TokenInit == Init => TokenInv
<1> SUFFICES ASSUME Init PROVE TokenInv  OBVIOUS
<1>1. /\ held.version = 1 /\ file.version = 1 /\ options.jwt = 0
      /\ \A r \in Requests : /\ request[r].pc = "none" /\ request[r].since = 0
                             /\ request[r].status = 0
  BY DEF Init, NoRequest, Nil
<1> QED BY <1>1 DEF TokenInv, Monotone, ReadSoFar, ToldSoFar, Seen, Nil

\* However reloads fall between the reads of its fields, a token is made of
\* versions in force since its request came, in their order.
THEOREM CurrentTokens == Spec => []TokenCurrent
<1>1. Init => TypeOK /\ TokenInv  BY TypeInit, TokenInit
<1>2. TypeOK /\ TokenInv /\ [Next]_vars => (TypeOK /\ TokenInv)'
  BY TypeNext, TokenNext
<1>3. TypeOK /\ TokenInv => TokenCurrent
  BY Numbers DEF TokenInv, ToldSoFar, TokenCurrent
<1> QED BY <1>1, <1>2, <1>3, PTL DEF Spec

-----------------------------------------------------------------------------
(***************************************************************************)
(* The shutdown.  No request is accepted after the listener is closed, so  *)
(* once Shutdown has seen the requests out there are none; the clients are *)
(* open until main() closes them; and as long as Shutdown waits, err holds *)
(* what the listener assigned, so the listener finds it no error.          *)
(***************************************************************************)
Before   == {"load", "watch", "register", "mysql", "redis", "logger",
             "consumer", "listen"}
Open     == {"logger", "consumer", "listen", "notify", "wait", "shutdown",
             "check", "redisClose"}
Stopping == {"shutdown", "check", "redisClose", "mysqlClose"}

Drained ==
    /\ listener \in {"off", "binding", "refused", "refusedNotNil"} => Active = {}
    /\ main \in {"check", "redisClose", "mysqlClose"} /\ ~overdue => Active = {}
    /\ main = "exited" /\ ~overdue /\ Active # {} => "redis" \in clients

Clients ==
    /\ main \in Open => clients = {"mysql", "redis"}
    /\ main \in {"redis", "mysqlClose"} => clients = {"mysql"}

ListenerInv ==
    /\ main \in Before => listener = "off"
    /\ main \in Stopping => listener # "serving"
    /\ listener \in {"closing", "closed", "closedNotNil", "done"} =>
          main \in Stopping \cup {"exited"}
    /\ listener \in {"refused", "refusedNotNil"} /\ main \in {"notify", "wait", "shutdown"} =>
          err = "bind"
    /\ listener \in {"closed", "closedNotNil"} /\ main = "shutdown" =>
          err = "ErrServerClosed"

StopInv == Drained /\ Clients /\ ListenerInv /\ NoHandlerCutOff

LEMMA StopFrame ==
    ASSUME StopInv, UNCHANGED <<processVars, request>> PROVE StopInv'
BY DEF StopInv, Drained, Clients, ListenerInv, NoHandlerCutOff, Active,
       processVars, stopVars

LEMMA StopRequestStep ==
    ASSUME TypeOK, StopInv, NEW r \in Requests, Accept(r) \/ Handle(r)
    PROVE  StopInv'
<1>1. /\ Running /\ UNCHANGED processVars  BY RequestStep
<1>2. PICK q : /\ request' = [request EXCEPT ![r] = q]
               /\ AcceptedAs(request[r], q) \/ ServedAs(request[r], q)
  BY RequestStep
<1>3. listener = "serving" \/ Active' \subseteq Active
  <2>1. request \in [Requests -> Request]  BY TypeParts DEF TypeRequests
  <2>2. \A x \in Requests : x # r => request'[x] = request[x]
    BY <1>2, <2>1
  <2>3. CASE AcceptedAs(request[r], q)  BY <2>3 DEF AcceptedAs
  <2>4. CASE ServedAs(request[r], q)
    <3>1. request[r].pc \notin {"none", "answered"}
      BY <2>4 DEF ServedAs, Fields
    <3> QED BY <2>2, <3>1 DEF Active
  <2> QED BY <1>2, <2>3, <2>4
<1>4. Drained'
  BY <1>1, <1>3 DEF StopInv, Drained, ListenerInv, Stopping, Running,
                    processVars, stopVars
<1> QED BY <1>1, <1>4
        DEF StopInv, Clients, ListenerInv, NoHandlerCutOff, Running,
            processVars, stopVars

LEMMA StopMain ==
    ASSUME TypeOK, StopInv, Main PROVE StopInv'
<1> USE DEF Before, Open, Stopping
<1>1. /\ UNCHANGED request /\ Active' = Active
      /\ main \in MainPC /\ listener \in ListenerPC
      /\ clients \in SUBSET {"mysql", "redis"}
  BY DEF Main, NewOptions, WatchConfig, OnConfigChange, NewMySQL, NewRedisClient,
         NewLogger, StartConsumer, Listen, Notify, Shutdown, CheckShutdown,
         CloseRedis, CloseMySQL, Active, TypeOK
<1>2. Drained /\ Clients /\ ListenerInv /\ NoHandlerCutOff  BY DEF StopInv
<1>3. CASE NewOptions \/ WatchConfig \/ OnConfigChange \/ NewMySQL \/ NewRedisClient
           \/ NewLogger \/ StartConsumer
  <2>1. /\ main \in Before /\ listener = "off" /\ Active = {}
        /\ UNCHANGED <<listener, overdue>>
        /\ main' \in Before \cup {"mysqlClose", "exited"}
    BY <1>2, <1>3 DEF NewOptions, WatchConfig, OnConfigChange, NewMySQL,
                      NewRedisClient, NewLogger, StartConsumer, Exit, stopVars,
                      ListenerInv, Drained
  <2>2. Clients'
    BY <1>2, <1>3 DEF NewOptions, WatchConfig, OnConfigChange, NewMySQL,
                      NewRedisClient, NewLogger, StartConsumer, Exit, Clients
  <2>3. Drained' /\ ListenerInv' /\ NoHandlerCutOff'
    BY <1>1, <2>1 DEF Drained, ListenerInv, NoHandlerCutOff
  <2> QED BY <2>2, <2>3 DEF StopInv
<1>4. CASE Listen
  <2>1. Drained' /\ Clients'
    BY <1>1, <1>2, <1>4 DEF Listen, Drained, Clients, ListenerInv
  <2>2. ListenerInv' /\ NoHandlerCutOff'
    BY <1>2, <1>4 DEF Listen, ListenerInv, NoHandlerCutOff
  <2> QED BY <2>1, <2>2 DEF StopInv
<1>5. CASE Notify
  BY <1>1, <1>2, <1>5
     DEF Notify, StopInv, Drained, Clients, ListenerInv, NoHandlerCutOff, stopVars
<1>6. CASE Shutdown
  <2>1. Drained'
    BY <1>1, <1>2, <1>6 DEF Shutdown, Drained
  <2>2. Clients' /\ NoHandlerCutOff'
    BY <1>2, <1>6 DEF Shutdown, Clients, NoHandlerCutOff
  <2>3. ListenerInv'
    BY <1>2, <1>6 DEF Shutdown, ListenerInv
  <2> QED BY <2>1, <2>2, <2>3 DEF StopInv
<1>7. CASE CheckShutdown
  <2>1. /\ main = "check" /\ main' = "redisClose"
        /\ UNCHANGED <<listener, clients, overdue, err>>
    BY <1>7 DEF CheckShutdown
  <2> QED BY <1>1, <1>2, <2>1
          DEF StopInv, Drained, Clients, ListenerInv, NoHandlerCutOff
<1>8. CASE CloseRedis
  <2>1. /\ main = "redisClose" /\ main' = "mysqlClose" /\ clients' = {"mysql"}
        /\ UNCHANGED <<listener, overdue, err>>
    BY <1>2, <1>8 DEF CloseRedis, Clients, stopVars
  <2> QED BY <1>1, <1>2, <2>1
          DEF StopInv, Drained, Clients, ListenerInv, NoHandlerCutOff
<1>9. CASE CloseMySQL
  <2>1. /\ main = "mysqlClose" /\ main' = "exited" /\ clients' = {}
        /\ UNCHANGED <<listener, overdue, err>>
    BY <1>2, <1>9 DEF CloseMySQL, Clients, Exit
  <2> QED BY <1>1, <1>2, <2>1
          DEF StopInv, Drained, Clients, ListenerInv, NoHandlerCutOff
<1> QED BY <1>3, <1>4, <1>5, <1>6, <1>7, <1>8, <1>9 DEF Main

\* A goroutine that ends the process without main() leaves the clients open.
LEMMA StopExit ==
    ASSUME TypeOK, StopInv, Running, main' = "exited",
           UNCHANGED <<clients, listener, err, overdue, request>>,
           \/ ending' \in {"crashed", "killed"}
           \/ overdue
           \/ Active = {}
    PROVE  StopInv'
<1>1. Active' = Active /\ main \in MainPC  BY DEF Active, TypeOK
<1>2. Drained'
  <2> SUFFICES ASSUME ~overdue, Active # {} PROVE "redis" \in clients
    BY <1>1 DEF StopInv, Drained
  <2>1. main \notin {"check", "redisClose", "mysqlClose"} /\ listener # "off"
    BY DEF StopInv, Drained
  <2>2. main \in Open
    BY <1>1, <2>1 DEF StopInv, ListenerInv, Before, Open, MainPC, Running
  <2> QED BY <2>2 DEF StopInv, Clients
<1>3. Clients' /\ ListenerInv'
  BY DEF StopInv, Clients, ListenerInv, Open, Before, Stopping
<1>4. NoHandlerCutOff'  BY <1>1 DEF NoHandlerCutOff
<1> QED BY <1>2, <1>3, <1>4 DEF StopInv

LEMMA StopGoroutines ==
    ASSUME TypeOK, StopInv,
           \/ CreateGroup \/ Bind \/ ListenReturns
           \/ CheckListen \/ CheckServerClosed \/ Signal
    PROVE  StopInv'
<1> USE DEF Before, Open, Stopping
<1>1. /\ UNCHANGED <<clients, overdue, request>> /\ Active' = Active
      /\ main \in MainPC /\ listener \in ListenerPC
      /\ Running
  BY DEF CreateGroup, Bind, ListenReturns, CheckListen, CheckServerClosed, Signal,
         Active, TypeOK, stopVars
<1>2. Drained /\ Clients /\ ListenerInv /\ NoHandlerCutOff  BY DEF StopInv
<1>3. CASE CreateGroup
  <2>1. CASE Exit("crashed")
    BY <1>1, <1>3, <2>1, StopExit DEF CreateGroup, Exit
  <2>2. CASE UNCHANGED <<main, ending>>
    BY <1>1, <1>2, <1>3, <2>2
       DEF CreateGroup, StopInv, Drained, Clients, ListenerInv, NoHandlerCutOff
  <2> QED BY <1>3, <2>1, <2>2 DEF CreateGroup
<1>4. CASE Bind
  <2>1. /\ listener = "binding" /\ UNCHANGED <<main, ending>>
        /\ listener' \in {"serving", "closed", "refused"}
    BY <1>4 DEF Bind
  <2>2. main \notin Before
    BY <1>2, <2>1 DEF ListenerInv
  <2>3. ListenerInv'
    BY <1>1, <1>2, <1>4, <2>1, <2>2 DEF Bind, ListenerInv, MainPC
  <2> QED BY <1>1, <1>2, <2>1, <2>3
          DEF StopInv, Drained, Clients, NoHandlerCutOff, Running
<1>5. CASE ListenReturns
  <2>1. /\ listener = "closing" /\ listener' = "closed" /\ UNCHANGED <<main, ending>>
        /\ err' = "ErrServerClosed"
    BY <1>5 DEF ListenReturns
  <2> QED BY <1>1, <1>2, <2>1
          DEF StopInv, Drained, Clients, ListenerInv, NoHandlerCutOff, Running
<1>6. ASSUME listener \in {"closed", "refused", "closedNotNil", "refusedNotNil"}
      PROVE  \/ main \in Stopping
             \/ err = "bind" /\ listener \in {"refused", "refusedNotNil"}
  BY <1>1, <1>2, <1>6 DEF ListenerInv, MainPC, Running
<1>7. ASSUME listener \in {"closed", "refused", "closedNotNil", "refusedNotNil"},
             UNCHANGED <<main, ending, err>>,
             \/ /\ listener' = "done"
                /\ main \in Stopping
             \/ /\ listener = "closed" /\ listener' = "closedNotNil"
             \/ /\ listener = "refused" /\ listener' = "refusedNotNil"
      PROVE  StopInv'
  <2>1. ListenerInv'  BY <1>2, <1>7 DEF ListenerInv
  <2>2. Drained'  BY <1>1, <1>2, <1>7 DEF Drained
  <2> QED BY <1>1, <1>2, <1>7, <2>1, <2>2 DEF StopInv, Clients, NoHandlerCutOff
<1>8. CASE CheckListen
  <2>1. PICK e \in Read(Listened) :
           listener' = CASE e = "nil"             -> "done"
                         [] listener = "closed"  -> "closedNotNil"
                         [] listener = "refused" -> "refusedNotNil"
    BY <1>8 DEF CheckListen
  <2>2. listener \in {"closed", "refused"} /\ UNCHANGED <<main, ending, err>>
    BY <1>8 DEF CheckListen, stopVars
  <2>3. CASE e = "nil"
    <3>1. err = "nil"  BY <2>1, <2>3 DEF Read, Listened
    <3> QED BY <1>6, <1>7, <2>1, <2>2, <2>3, <3>1
  <2>4. CASE e # "nil"  BY <1>7, <2>1, <2>2, <2>4
  <2> QED BY <2>3, <2>4
<1>9. CASE CheckServerClosed
  <2>1. PICK e \in Read(Listened) :
           IF e = "ErrServerClosed"
           THEN listener' = "done" /\ UNCHANGED <<main, ending>>
           ELSE Exit("exited") /\ UNCHANGED listener
    BY <1>9 DEF CheckServerClosed
  <2>2. listener \in {"closedNotNil", "refusedNotNil"} /\ UNCHANGED err
    BY <1>9 DEF CheckServerClosed
  <2>3. CASE e = "ErrServerClosed"
    <3>1. main \in Stopping
      BY <1>6, <2>1, <2>2, <2>3 DEF Read, Listened
    <3> QED BY <1>7, <2>1, <2>2, <2>3, <3>1
  <2>4. CASE e # "ErrServerClosed"
    <3>1. CASE listener = "refusedNotNil"
      <4>1. Active = {}  BY <1>2, <3>1 DEF Drained
      <4> QED BY <1>1, <2>1, <2>2, <2>4, <4>1, StopExit DEF Exit
    <3>2. CASE listener = "closedNotNil"
      <4>1. err # "ErrServerClosed"
        BY <2>1, <2>4, <3>2 DEF Read, Listened
      <4>2. main \in {"check", "redisClose", "mysqlClose"}
        BY <1>1, <1>2, <3>2, <4>1 DEF ListenerInv, Running
      <4>3. overdue \/ Active = {}  BY <1>2, <4>2 DEF Drained
      <4> QED BY <1>1, <2>1, <2>2, <2>4, <4>3, StopExit DEF Exit
    <3> QED BY <2>2, <3>1, <3>2
  <2> QED BY <2>3, <2>4
<1>10. CASE Signal
  <2>1. CASE main = "wait"
    <3>1. /\ main' = "shutdown" /\ UNCHANGED <<ending, err>>
          /\ listener' = IF listener = "serving" THEN "closing" ELSE listener
      BY <1>10, <2>1 DEF Signal
    <3>2. ListenerInv'
      BY <1>2, <2>1, <3>1 DEF ListenerInv
    <3> QED BY <1>1, <1>2, <2>1, <3>1, <3>2
            DEF StopInv, Drained, Clients, NoHandlerCutOff
  <2>2. CASE main # "wait"
    <3>1. Exit("killed") /\ UNCHANGED <<listener, err>>
      BY <1>10, <2>2 DEF Signal
    <3> QED BY <1>1, <3>1, StopExit DEF Exit
  <2> QED BY <2>1, <2>2
<1> QED BY <1>3, <1>4, <1>5, <1>8, <1>9, <1>10

LEMMA StopNext == TypeOK /\ StopInv /\ [Next]_vars => StopInv'
<1> SUFFICES ASSUME TypeOK, StopInv, [Next]_vars PROVE StopInv'  OBVIOUS
<1>1. CASE UNCHANGED vars  BY <1>1, StopFrame DEF vars
<1>2. CASE Watcher \/ \E form \in Forms : Save(form)
  BY <1>2, StopFrame DEF Watcher, ReadInConfig, ReloadServer, ReloadJWT, ReloadLevel,
                         Save
<1> QED BY <1>1, <1>2, StopMain, StopGoroutines, StopRequestStep DEF Next

LEMMA StopInit == Init => StopInv
<1> SUFFICES ASSUME Init PROVE StopInv  OBVIOUS
<1>1. /\ main = "load" /\ listener = "off" /\ clients = {}
      /\ \A r \in Requests : request[r].pc = "none"
  BY DEF Init, NoRequest
<1>2. Active = {}  BY <1>1 DEF Active
<1> QED BY <1>1, <1>2 DEF StopInv, Drained, Clients, ListenerInv,
                          NoHandlerCutOff, Before, Open, Stopping

\* The clients stay open under the handlers, unless Shutdown gave them up.
THEOREM Drains == Spec => []DrainedBeforeClose
<1>1. Init => TypeOK /\ StopInv  BY TypeInit, StopInit
<1>2. TypeOK /\ StopInv /\ [Next]_vars => (TypeOK /\ StopInv)'
  BY TypeNext, StopNext
<1>3. TypeOK /\ StopInv => DrainedBeforeClose
  BY DEF StopInv, Drained, DrainedBeforeClose
<1> QED BY <1>1, <1>2, <1>3, PTL DEF Spec

\* A process that ends of itself cuts no handler off, unless Shutdown gave it
\* up: not even os.Exit, which the race on err may call behind Shutdown.
THEOREM EndsDrained == Spec => []NoHandlerCutOff
<1>1. Init => TypeOK /\ StopInv  BY TypeInit, StopInit
<1>2. TypeOK /\ StopInv /\ [Next]_vars => (TypeOK /\ StopInv)'
  BY TypeNext, StopNext
<1>3. StopInv => NoHandlerCutOff  BY DEF StopInv
<1> QED BY <1>1, <1>2, <1>3, PTL DEF Spec
=============================================================================
