------------------------------- MODULE Server -------------------------------
(***************************************************************************)
(* One process of city-picks from main() to its exit: the options are read *)
(* and watched, the clients of MySQL and Redis are opened, the consumer    *)
(* and the HTTP server are started, and a signal shuts them down.  Its     *)
(* goroutines share the global options of package config, which the        *)
(* watcher of the configuration file replaces while requests read them.    *)
(*                                                                         *)
(*   main       NewOptions, WatchConfig, OnConfigChange, NewMySQL,         *)
(*              NewRedisClient, NewLogger, StartConsumer, Listen, Notify,  *)
(*              Signal, Shutdown, CheckShutdown, CloseRedis, CloseMySQL    *)
(*   watcher    ReadInConfig and the three assignments of the callback     *)
(*   consumer   CreateGroup, which may panic                               *)
(*   listener   Bind, ListenReturns, CheckListen, CheckServerClosed        *)
(*   request    a login: Accept, Business, GenerateToken                   *)
(*                                                                         *)
(* The variable err of main() is shared by two goroutines: the one that    *)
(* listens and main itself assign it and read it back, the one that        *)
(* listens twice.  Nothing orders them, so each read gives what its        *)
(* goroutine has assigned or what the other left there meanwhile.  A read  *)
(* that gets one half of each is not told apart: it leads where a read of  *)
(* nil or of the other's value leads, or ends the process by a panic where *)
(* that would by os.Exit.                                                  *)
(*                                                                         *)
(* The file is saved by an editor, which may leave it broken, empty (it is *)
(* truncated before it is written), with a value of a wrong type, or may   *)
(* delete it.  Clients that cannot be opened, a port in use, a Redis that  *)
(* refuses the consumer group, handlers that hang and signals may happen   *)
(* at any time.                                                            *)
(***************************************************************************)
EXTENDS Responses

CONSTANTS
    Requests,       \* logins
    MaxEdits        \* bound: how often the file is saved

ASSUME MaxEditsAssumption == MaxEdits \in Nat

VARIABLES
    file,       \* the configuration file
    held,       \* memory: what viper has parsed last
    options,    \* memory: config.ServerOptions, config.JWTOptions
    snapshot,   \* memory: the options NewOptions returned, by version
    level,      \* memory: logger.LogLevel, by version, 0 for the default
    watcher,    \* memory: the goroutine of viper.WatchConfig
    callback,   \* memory: OnConfigChange has been called
    changed,    \* an event of the file is waiting
    main,       \* memory: the main goroutine
    clients,    \* the clients that are open
    consumer,   \* memory: the consumer goroutine
    listener,   \* memory: the goroutine of ListenAndServe
    err,        \* memory: the variable of main() that both goroutines use
    overdue,    \* Shutdown gave up after its five seconds
    ending,     \* how the process ended
    request     \* memory: the handler of each request

watchVars   == <<file, held, options, level, watcher, callback, changed>>
stopVars    == <<err, overdue, ending>>
processVars == <<snapshot, main, clients, consumer, listener, stopVars>>
vars == <<watchVars, processVars, request>>

-----------------------------------------------------------------------------
(***************************************************************************)
(* The contents of the file: a version, the number of times it was saved,  *)
(* and whether it is whole.  "settled" tells whether the process had set   *)
(* its logger up when it was saved; it is history, and read by nobody.     *)
(***************************************************************************)
Versions == 1 .. MaxEdits + 1
Forms    == {"whole", "empty", "mistyped", "broken", "gone"}
Contents == [version : Versions, form : Forms, settled : BOOLEAN]

Nil == 0        \* a section that is not there, a level not set

MainPC == {"load", "watch", "register", "mysql", "redis", "logger",
           "consumer", "listen", "notify", "wait", "shutdown", "check",
           "redisClose", "mysqlClose", "exited"}
SetUp  == {"consumer", "listen", "notify", "wait", "shutdown", "check",
           "redisClose", "mysqlClose"}
\* "closed" and "refused" after the assignment to err, "closedNotNil" and
\* "refusedNotNil" after the first of the two reads.
ListenerPC == {"off", "binding", "serving", "closing", "closed", "refused",
               "closedNotNil", "refusedNotNil", "done"}
Errors  == {"nil", "ErrServerClosed", "DeadlineExceeded", "bind"}
Endings == {"none", "returned", "panicked", "exited", "killed", "crashed"}
WatcherPC == {"off", "idle", "server", "jwt", "level", "dead"}
RequestPC == {"none", "business", "expire", "issuer", "secret", "answer",
              "answered"}

Fields == {"expire", "issuer", "secret"}

NoRequest == [pc |-> "none", token |-> [f \in Fields |-> Nil], since |-> Nil,
              status |-> Nil]

Init ==
    /\ file \in [version : {1}, form : Forms, settled : {FALSE}]
    /\ held = file
    /\ options = [server |-> Nil, jwt |-> Nil]
    /\ snapshot = Nil
    /\ level = Nil
    /\ watcher = "off"
    /\ callback = FALSE
    /\ changed = FALSE
    /\ main = "load"
    /\ clients = {}
    /\ consumer = "off"
    /\ listener = "off"
    /\ err = "nil"
    /\ overdue = FALSE
    /\ ending = "none"
    /\ request = [r \in Requests |-> NoRequest]

Running == main # "exited"

\* The process is gone, and with it every goroutine.
Exit(how) == main' = "exited" /\ ending' = how

-----------------------------------------------------------------------------
(***************************************************************************)
(* The configuration file.                                                 *)
(***************************************************************************)
\* An editor saves the file.  Nobody is told before the watcher listens.
Save(form) ==
    /\ Running
    /\ file.version < MaxEdits + 1
    /\ file' = [version |-> file.version + 1, form |-> form,
                settled |-> main \in SetUp]
    /\ IF form = "gone" /\ watcher # "off"
       THEN watcher' = "dead" /\ UNCHANGED changed
       ELSE changed' = (watcher \notin {"off", "dead"}) /\ UNCHANGED watcher
    /\ UNCHANGED <<held, options, level, callback, processVars, request>>

\* The section of a configuration: there is none in an empty file.
Section(contents) == IF contents.form = "empty" THEN Nil ELSE contents.version

(***************************************************************************)
(* The watcher: on an event the file is read; then the callback, if there  *)
(* is one, replaces the options.                                           *)
(***************************************************************************)
ReadInConfig ==
    /\ Running
    /\ watcher = "idle"
    /\ changed
    /\ changed' = FALSE
    /\ held' = IF file.form = "broken" THEN held ELSE file
    /\ watcher' = IF callback /\ held'.form # "mistyped" THEN "server"
                                                         ELSE "idle"
    /\ UNCHANGED <<file, options, level, callback, processVars, request>>

\* Slip: only the first section is replaced.
ReloadServerOnly ==
    /\ Running
    /\ watcher = "server"
    /\ options' = [options EXCEPT !.server = Section(held)]
    /\ watcher' = "level"
    /\ UNCHANGED <<file, held, level, callback, changed, processVars, request>>

ReloadServer ==
    /\ Running
    /\ watcher = "server"
    /\ options' = [options EXCEPT !.server = Section(held)]
    /\ watcher' = "jwt"
    /\ UNCHANGED <<file, held, level, callback, changed, processVars, request>>

ReloadJWT ==
    /\ Running
    /\ watcher = "jwt"
    /\ options' = [options EXCEPT !.jwt = Section(held)]
    /\ watcher' = "level"
    /\ UNCHANGED <<file, held, level, callback, changed, processVars, request>>

\* The other three sections are assigned in between and read by nobody.
\* A level that is not there leaves the old one.
ReloadLevel ==
    /\ Running
    /\ watcher = "level"
    /\ level' = IF Section(held) = Nil THEN level ELSE Section(held)
    /\ watcher' = "idle"
    /\ UNCHANGED <<file, held, options, callback, changed, processVars, request>>

-----------------------------------------------------------------------------
(***************************************************************************)
(* InitApp: options, clients and logger.  What was opened is closed again  *)
(* when a later constructor fails, except by a nil dereference.            *)
(***************************************************************************)
\* A file that is not there, is broken or of a wrong type ends the process.
\* JWT_SECRET is not set: a section is there if the file has it.
NewOptions ==
    /\ main = "load"
    /\ IF file.form \in {"broken", "gone", "mistyped"}
       THEN Exit("panicked") /\ UNCHANGED <<held, options, snapshot>>
       ELSE /\ held' = file
            /\ snapshot' = Section(file)
            /\ options' = [server |-> Section(file), jwt |-> Section(file)]
            /\ main' = "watch"
            /\ UNCHANGED ending
    /\ UNCHANGED <<file, level, watcher, callback, changed, clients, consumer,
                   listener, err, overdue, request>>

\* The directory is watched, so a file that went away meanwhile is no error.
WatchConfig ==
    /\ main = "watch"
    /\ watcher' = "idle"
    /\ main' = "register"
    /\ UNCHANGED <<file, held, options, level, callback, changed, snapshot,
                   clients, consumer, listener, stopVars, request>>

OnConfigChange ==
    /\ main = "register"
    /\ callback' = TRUE
    /\ main' = "mysql"
    /\ UNCHANGED <<file, held, options, level, watcher, changed, snapshot,
                   clients, consumer, listener, stopVars, request>>

NewMySQL ==
    /\ main = "mysql"
    /\ \/ /\ snapshot # Nil
          /\ clients' = {"mysql"}
          /\ main' = "redis"
          /\ UNCHANGED ending
       \/ Exit("panicked") /\ UNCHANGED clients     \* nil, or unreachable
    /\ UNCHANGED <<watchVars, snapshot, consumer, listener, err, overdue,
                   request>>

\* A ping that fails leaves the client open: main() closes MySQL and panics.
NewRedisClient ==
    /\ main = "redis"
    /\ \/ /\ clients' = clients \cup {"redis"}
          /\ main' = "logger"
          /\ UNCHANGED ending
       \/ /\ ending' = "panicked"
          /\ main' = "mysqlClose"
          /\ UNCHANGED clients
    /\ UNCHANGED <<watchVars, snapshot, consumer, listener, err, overdue,
                   request>>

\* The level is that of the options read first, whatever came since.
NewLogger ==
    /\ main = "logger"
    /\ level' = snapshot
    /\ main' = "consumer"
    /\ UNCHANGED <<file, held, options, watcher, callback, changed, snapshot,
                   clients, consumer, listener, stopVars, request>>

-----------------------------------------------------------------------------
(***************************************************************************)
(* main() after InitApp: from here on the deferred cleanup runs when       *)
(* main() returns or panics, and only then.                                *)
(***************************************************************************)
StartConsumer ==
    /\ main = "consumer"
    /\ consumer' = "starting"
    /\ main' = "listen"
    /\ UNCHANGED <<watchVars, snapshot, clients, listener, stopVars, request>>

Listen ==
    /\ main = "listen"
    /\ IF options.server = Nil
       THEN /\ ending' = "panicked"
            /\ main' = "redisClose"
            /\ UNCHANGED listener
       ELSE /\ listener' = "binding"
            /\ main' = "notify"
            /\ UNCHANGED ending
    /\ UNCHANGED <<watchVars, snapshot, clients, consumer, err, overdue,
                   request>>

Notify ==
    /\ main = "notify"
    /\ main' = "wait"
    /\ UNCHANGED <<watchVars, snapshot, clients, consumer, listener, stopVars,
                   request>>

Notified == \/ main \in {"wait", "shutdown", "check"}
            \/ main \in {"redisClose", "mysqlClose"} /\ listener # "off"

\* Shutdown begins with closing the listener; a signal that comes before
\* Notify ends the process, a second one is not read.
Signal ==
    /\ Running
    /\ IF main = "wait"
       THEN /\ main' = "shutdown"
            /\ listener' = IF listener = "serving" THEN "closing"
                                                  ELSE listener
            /\ UNCHANGED ending
       ELSE /\ ~Notified
            /\ Exit("killed")
            /\ UNCHANGED listener
    /\ UNCHANGED <<watchVars, snapshot, clients, consumer, err, overdue,
                   request>>

Active == {r \in Requests : request[r].pc \notin {"none", "answered"}}

\* Slip: without a deadline.
ShutdownInBackground ==
    /\ main = "shutdown"
    /\ Active = {}
    /\ err' = "nil"
    /\ main' = "check"
    /\ UNCHANGED <<watchVars, snapshot, clients, consumer, listener, ending,
                   overdue, request>>

\* Slip: Close instead of Shutdown.
ShutdownAtOnce ==
    /\ main = "shutdown"
    /\ err' = "nil"
    /\ main' = "check"
    /\ UNCHANGED <<watchVars, snapshot, clients, consumer, listener, ending,
                   overdue, request>>

Shutdown ==
    /\ main = "shutdown"
    /\ \/ Active = {} /\ err' = "nil" /\ UNCHANGED overdue
       \/ err' = "DeadlineExceeded" /\ overdue' = TRUE
    /\ main' = "check"
    /\ UNCHANGED <<watchVars, snapshot, clients, consumer, listener, ending,
                   request>>

\* What a read of err gives after an assignment: see the head of the module.
Read(assigned) == {assigned, err}

CheckShutdown ==
    /\ main = "check"
    /\ \E e \in Read(IF overdue THEN "DeadlineExceeded" ELSE "nil") :
          ending' = IF e = "nil" THEN "returned" ELSE "panicked"
    /\ main' = "redisClose"
    /\ UNCHANGED <<watchVars, snapshot, clients, consumer, listener, err,
                   overdue, request>>

CloseRedis ==
    /\ main = "redisClose"
    /\ clients' = clients \ {"redis"}
    /\ main' = "mysqlClose"
    /\ UNCHANGED <<watchVars, snapshot, consumer, listener, stopVars, request>>

CloseMySQL ==
    /\ main = "mysqlClose"
    /\ clients' = clients \ {"mysql"}
    /\ Exit(ending)
    /\ UNCHANGED <<watchVars, snapshot, consumer, listener, err, overdue,
                   request>>

-----------------------------------------------------------------------------
(***************************************************************************)
(* The goroutines main() starts.                                           *)
(***************************************************************************)
CreateGroup ==
    /\ Running
    /\ consumer = "starting"
    /\ \/ /\ "redis" \in clients
          /\ consumer' = "running"
          /\ UNCHANGED <<main, ending>>
       \/ Exit("crashed") /\ UNCHANGED consumer
    /\ UNCHANGED <<watchVars, snapshot, clients, listener, err, overdue,
                   request>>

\* A server that is shut down already does not serve.
Bind ==
    /\ Running
    /\ listener = "binding"
    /\ \/ /\ main \in {"notify", "wait"}
          /\ listener' = "serving"
          /\ UNCHANGED err
       \/ /\ main \notin {"notify", "wait"}
          /\ listener' = "closed"
          /\ err' = "ErrServerClosed"
       \/ /\ listener' = "refused"
          /\ err' = "bind"
    /\ UNCHANGED <<watchVars, snapshot, main, clients, consumer, overdue,
                   ending, request>>

ListenReturns ==
    /\ Running
    /\ listener = "closing"
    /\ listener' = "closed"
    /\ err' = "ErrServerClosed"
    /\ UNCHANGED <<watchVars, snapshot, main, clients, consumer, overdue,
                   ending, request>>

\* What ListenAndServe returned.
Listened == IF listener \in {"closed", "closedNotNil"} THEN "ErrServerClosed"
                                                      ELSE "bind"

\* err != nil, the first of the two reads.
CheckListen ==
    /\ Running
    /\ listener \in {"closed", "refused"}
    /\ \E e \in Read(Listened) :
          listener' = CASE e = "nil"             -> "done"
                        [] listener = "closed"  -> "closedNotNil"
                        [] listener = "refused" -> "refusedNotNil"
    /\ UNCHANGED <<watchVars, snapshot, main, clients, consumer, stopVars,
                   request>>

\* Slip: a server that was shut down is an error too.
CheckServerClosedNever ==
    /\ Running
    /\ listener \in {"closedNotNil", "refusedNotNil"}
    /\ Exit("exited")
    /\ UNCHANGED <<watchVars, snapshot, clients, consumer, listener, err,
                   overdue, request>>

\* errors.Is(err, http.ErrServerClosed), the second; os.Exit runs no deferred
\* cleanup.
CheckServerClosed ==
    /\ Running
    /\ listener \in {"closedNotNil", "refusedNotNil"}
    /\ \E e \in Read(Listened) :
          IF e = "ErrServerClosed"
          THEN listener' = "done" /\ UNCHANGED <<main, ending>>
          ELSE Exit("exited") /\ UNCHANGED listener
    /\ UNCHANGED <<watchVars, snapshot, clients, consumer, err, overdue,
                   request>>

-----------------------------------------------------------------------------
(***************************************************************************)
(* A login.  Its business is that of module Login: here it succeeds, fails *)
(* with one of the codes of its route, or hangs.                           *)
(***************************************************************************)
Accept(r) ==
    /\ Running
    /\ listener = "serving"
    /\ request[r].pc = "none"
    /\ request' = [request EXCEPT ![r].pc = "business",
                                  ![r].since = options.jwt]
    /\ UNCHANGED <<watchVars, processVars>>

Answered(q, status) == [q EXCEPT !.pc = "answered", !.status = status]

Business(r) ==
    /\ Running
    /\ request[r].pc = "business"
    /\ \/ /\ clients = {"mysql", "redis"}
          /\ request' = [request EXCEPT ![r].pc = "expire"]
       \/ \E c \in Routes[Login] \ {"ErrTokenGenerationFailed"} :
             request' = [request EXCEPT
                            ![r] = Answered(@, WriteResponse(c).status)]
    /\ UNCHANGED <<watchVars, processVars>>

\* The fields are read one by one; a nil dereference is recovered by gin.
After == [expire |-> "issuer", issuer |-> "secret", secret |-> "answer"]

\* Slip: the options InitApp was given.
GenerateTokenFromOptions(r) ==
    /\ Running
    /\ LET f == request[r].pc IN
        /\ f \in Fields
        /\ request' = [request EXCEPT
             ![r] = [@ EXCEPT !.token[f] = snapshot, !.pc = After[f]]]
    /\ UNCHANGED <<watchVars, processVars>>

GenerateToken(r) ==
    /\ Running
    /\ LET f == request[r].pc IN
        /\ f \in Fields
        /\ request' = [request EXCEPT
             ![r] = IF options.jwt = Nil
                    THEN Answered(@, ParseCoder("ErrUnknown"))
                    ELSE [@ EXCEPT !.token[f] = options.jwt, !.pc = After[f]]]
    /\ UNCHANGED <<watchVars, processVars>>

Answer(r) ==
    /\ Running
    /\ request[r].pc = "answer"
    /\ request' = [request EXCEPT
                      ![r] = Answered(@, WriteResponse("ErrSuccess").status)]
    /\ UNCHANGED <<watchVars, processVars>>

-----------------------------------------------------------------------------
Main == \/ NewOptions \/ WatchConfig \/ OnConfigChange
        \/ NewMySQL \/ NewRedisClient \/ NewLogger
        \/ StartConsumer \/ Listen \/ Notify
        \/ Shutdown \/ CheckShutdown \/ CloseRedis \/ CloseMySQL

Watcher == ReadInConfig \/ ReloadServer \/ ReloadJWT \/ ReloadLevel

Handle(r) == Business(r) \/ GenerateToken(r) \/ Answer(r)

Next ==
    \/ Main
    \/ Watcher
    \/ CreateGroup
    \/ Bind \/ ListenReturns \/ CheckListen \/ CheckServerClosed
    \/ \E r \in Requests : Accept(r) \/ Handle(r)
    \/ \E form \in Forms : Save(form)
    \/ Signal

\* The goroutine of main() and the watcher are scheduled; a handler may hang
\* and nobody needs to save a file or to send a signal.
Fairness == WF_vars(Main) /\ WF_vars(Watcher)

Spec == Init /\ [][Next]_vars /\ Fairness

-----------------------------------------------------------------------------
(***************************************************************************)
(* Properties                                                              *)
(***************************************************************************)
\* Every variable has a value of its type: a program counter names a step of
\* the code, options and level are of a version of the file, an answer has a
\* status of HTTP.
TypeOK ==
    /\ file \in Contents
    /\ held \in Contents
    /\ options \in [{"server", "jwt"} -> {Nil} \cup Versions]
    /\ snapshot \in {Nil} \cup Versions
    /\ level \in {Nil} \cup Versions
    /\ watcher \in WatcherPC
    /\ callback \in BOOLEAN
    /\ changed \in BOOLEAN
    /\ main \in MainPC
    /\ clients \in SUBSET {"mysql", "redis"}
    /\ consumer \in {"off", "starting", "running"}
    /\ listener \in ListenerPC
    /\ err \in Errors
    /\ overdue \in BOOLEAN
    /\ ending \in Endings
    /\ request \in [Requests -> [pc : RequestPC,
                               token : [Fields -> {Nil} \cup Versions],
                               since : {Nil} \cup Versions,
                               status : {Nil} \cup 200 .. 500]]

\* A login is answered 200 only with a token whose fields were all in force
\* while it was served: its expiry, issuer and secret may come from
\* different versions of the file, when a reload falls between their reads,
\* but never from one replaced before the request came, and never the
\* secret from an older one than the claims it signs.
TokenCurrent ==
    \A r \in Requests : LET q == request[r] IN
        q.status = 200 => /\ q.token.expire \in Versions
                          /\ q.since <= q.token.expire
                          /\ q.token.expire <= q.token.issuer
                          /\ q.token.issuer <= q.token.secret

\* The clients of MySQL and Redis are not closed under a handler, unless
\* Shutdown gave up waiting for it after five seconds.
DrainedBeforeClose ==
    Active # {} /\ ~overdue /\ main \in {"mysqlClose", "exited"}
        => "redis" \in clients

\* A process that ends of itself, main() returning or panicking or the
\* listener calling os.Exit, cuts no handler off unless Shutdown was overdue.
\* The race on err can make os.Exit skip the cleanup even after a shutdown in
\* time, when main() assigns nil between the two reads of the listener; but
\* only then, with Shutdown behind it and the handlers done.
NoHandlerCutOff ==
    /\ main = "exited"
    /\ ending \in {"returned", "panicked", "exited"}
    /\ ~overdue
    => Active = {}

\* A whole file that is saved once the logger is set up takes effect: the
\* options and the level of the log become its own, unless it is saved
\* again, the watcher has died, or the process ends.
EditTakesEffect ==
    \A v \in Versions :
        (file.version = v /\ file.form = "whole" /\ file.settled)
            ~> \/ options = [server |-> v, jwt |-> v] /\ level = v
               \/ file.version > v
               \/ watcher = "dead"
               \/ ~Running

\* A shutdown ends although handlers may hang: thanks to its deadline.
StopCompletes == main = "shutdown" ~> ~Running
=============================================================================
