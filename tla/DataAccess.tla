----------------------------- MODULE DataAccess -----------------------------
(***************************************************************************)
(* How the repositories write to MySQL: goroutines ("workers") run the     *)
(* statements of a repository method through data access objects, each of  *)
(* which is bound to a pool: the pool of the process, or the connection of *)
(* one transaction.  A transaction is                                      *)
(*                                                                         *)
(*   Begin     wait for a free connection of the process (MaxOpenConns)    *)
(*             and clone the query, so that every object is bound to it    *)
(*   Execute   one statement, which waits for the lock of its row          *)
(*   Fail      the statement is an error, or what it did is not enough     *)
(*   Commit, Rollback                                                      *)
(*                                                                         *)
(* A statement of an object bound to the pool of the process is a          *)
(* transaction of its own (ExecuteAlone), on any free connection.  MySQL   *)
(* shows a connection its own writes ("image") and what is committed.      *)
(* What may go wrong is chosen by FaultKinds:                              *)
(*   "failed"      a statement is an error (a lock wait timed out, the     *)
(*                 client of the request has left) and changes nothing     *)
(*   "commitLost"  a COMMIT is executed, its sender gets an error          *)
(*   "connLost"    a connection breaks; MySQL rolls its transaction back,  *)
(*                 and the worker learns of it at its next statement       *)
(*   "crash"       a process stops                                         *)
(***************************************************************************)
EXTENDS Tables, Integers, Sequences, FiniteSets

CONSTANTS
    Users, Vouchers, OrderIDs, Stocks,
    Shops,          \* shop ids
    Workers,        \* goroutines that write to MySQL
    Consumers,      \* those of them that are consumers
    Conns,          \* connections to MySQL, of all processes
    PoolOf,         \* the connections of the process a worker runs in
    FaultKinds,     \* what may go wrong, see above
    Root,           \* the pool of the process, as opposed to a connection
    AutoID,           \* the key of a row that MySQL is to choose
    NoRow,          \* there is no such row
    Unwritten,      \* the transaction has not written the row
    Nobody          \* no connection, no job

\* The workers of one process share its connections, and nobody else does.
ASSUME PoolAssumption ==
    /\ PoolOf \in [Workers -> SUBSET Conns]
    /\ \A w, x \in Workers : PoolOf[w] = PoolOf[x] \/ PoolOf[w] \cap PoolOf[x] = {}
ASSUME RootAssumption ==
    Root \notin Conns \cup {Nobody} /\ Nobody \notin Conns \cup Workers
ASSUME StocksAssumption == Stocks \subseteq Int
ASSUME RowAssumption ==
    /\ NoRow # Unwritten
    /\ NoRow \notin Int
    /\ Unwritten \notin Int
    /\ {NoRow, Unwritten} \cap [user : Users, voucher : Vouchers] = {}
    /\ AutoID \notin Vouchers \cup OrderIDs \cup Shops

VARIABLES
    db,         \* MySQL: the committed rows
    image,      \* MySQL: what the open transaction of a connection has written
    lock,       \* MySQL: the connection that holds the lock of a row
    session,    \* MySQL: "idle", "open" (a transaction), or "lost"
    assigned,   \* MySQL: the ids AUTO_INCREMENT has given to vouchers
    worker,     \* memory: what each goroutine is doing
    answered    \* the worker that has just been answered without an error

mysqlVars == <<db, image, lock, session, assigned>>
vars == <<mysqlVars, worker, answered>>

-----------------------------------------------------------------------------
(***************************************************************************)
(* Rows are named by their table and their unique key.                     *)
(***************************************************************************)
VoucherRow(v) == <<"tb_voucher", v>>
StockRow(v)   == <<"tb_seckill_voucher", v>>
OrderRow(id)  == <<"tb_voucher_order", id>>

Rows == ({"tb_voucher", "tb_seckill_voucher"} \X Vouchers)
            \cup ({"tb_voucher_order"} \X OrderIDs)
            \cup ({"tb_shop"} \X Shops)

(***************************************************************************)
(* The jobs: calls of repository methods.  Orders are made by the consumer *)
(* of a process, everything else by the handlers of requests.              *)
(***************************************************************************)
OrderJobs == [name : {"CreateOrder"}, id : OrderIDs, user : Users,
              voucher : Vouchers]

RequestJobs ==
    [name : {"CreateVoucher"}]
        \cup [name : {"CreateSeckillVoucher"}, stock : Stocks]
        \cup [name : {"CreateShop", "UpdateShop", "DeleteShop"}, shop : Shops]

Jobs == OrderJobs \cup RequestJobs

JobsOf(w) == IF w \in Consumers THEN OrderJobs ELSE RequestJobs

\* The jobs that run in r.q.Transaction.
Transactional(job) == job.name \in {"CreateSeckillVoucher", "CreateOrder"}

Busy == {"begin", "run", "commit", "rollback"}

\* Every object of a query, bound to the pool of the process.
Use == [t \in TableNames |-> Root]

Idle == [pc |-> "idle", job |-> Nobody, step |-> 0, id |-> Nobody,
         conn |-> Nobody, q |-> Use]

Init ==
    /\ db = [r \in Rows |-> NoRow]
    /\ image = [c \in Conns |-> [r \in Rows |-> Unwritten]]
    /\ lock = [r \in Rows |-> Nobody]
    /\ session = [c \in Conns |-> "idle"]
    /\ assigned = {}
    /\ worker = [w \in Workers |-> Idle]
    /\ answered = Nobody

Fault(f) == f \in FaultKinds

-----------------------------------------------------------------------------
(***************************************************************************)
(* The generated data access.  A builder is a value: every method of it    *)
(* returns another one.                                                    *)
(***************************************************************************)
\* Slip: the orders are still written through the pool of the process.
CloneButOrders(q, c) ==
    [t \in DOMAIN q |-> IF t = "tb_voucher_order" THEN q[t] ELSE c]

\* Every object of q, bound to the connection of a transaction.
Clone(q, c) == [t \in DOMAIN q |-> c]

WithContext(q, table) == [table |-> table, pool |-> q[table], key |-> AutoID,
                          inStock |-> FALSE, omitted |-> {}]

Where(do, key)    == [do EXCEPT !.key = key]
WhereInStock(do)  == [do EXCEPT !.inStock = TRUE]
Omit(do, columns) == [do EXCEPT !.omitted = @ \cup columns]

\* "given" are the columns of the value that are not zero.
Statement(op, do, key, given, row) ==
    [op |-> op, table |-> do.table, pool |-> do.pool, key |-> key,
     inStock |-> do.inStock, omitted |-> do.omitted, given |-> given,
     row |-> row]

Create(do, key, given, row) == Statement("insert", do, key, given, row)
UpdateStock(do, by) == Statement("addStock", do, do.key, {"stock"}, by)
Updates(do, row)    == Statement("update", do, do.key, {}, row)
Delete(do)          == Statement("delete", do, do.key, {}, NoRow)

(***************************************************************************)
(* The repository methods, as the statements they make of a query q.  A    *)
(* row is abstracted to what the properties tell apart: the type of a      *)
(* voucher, the stock, the user and voucher of an order.                   *)
(***************************************************************************)
\* The columns of a voucher that a request may leave zero are not listed.
NewVoucher(q, type) ==
    Create(WithContext(q, "tb_voucher"), AutoID, {"type"}, type)

CreateVoucher(q) == <<NewVoucher(q, 0)>>

\* Slip: the voucher is inserted with the type of an ordinary one.
CreateSeckillVoucherUntyped(q, id, stock) ==
    <<NewVoucher(q, 0),
      Create(WithContext(q, "tb_seckill_voucher"), id,
             {"voucher_id", "stock"}, stock)>>

\* id is the one the first INSERT was given.
CreateSeckillVoucher(q, id, stock) ==
    <<NewVoucher(q, 1),
      Create(WithContext(q, "tb_seckill_voucher"), id,
             {"voucher_id", "stock"}, stock)>>

OrderColumns == {"id", "user_id", "voucher_id"}

\* Slip: the times of later events are not omitted.
CreateOrderAllColumns(q, o) ==
    <<UpdateStock(WhereInStock(Where(WithContext(q, "tb_seckill_voucher"),
                                     o.voucher)), -1),
      Create(WithContext(q, "tb_voucher_order"), o.id, OrderColumns,
             [user |-> o.user, voucher |-> o.voucher])>>

CreateVoucherOrderAndReduceStock(q, o) ==
    <<UpdateStock(WhereInStock(Where(WithContext(q, "tb_seckill_voucher"),
                                     o.voucher)), -1),
      Create(Omit(WithContext(q, "tb_voucher_order"),
                  {tbVoucherOrder.PayTime, tbVoucherOrder.UseTime,
                   tbVoucherOrder.RefundTime}),
             o.id, OrderColumns, [user |-> o.user, voucher |-> o.voucher])>>

CreateShop(q, shop) ==
    <<Create(WithContext(q, "tb_shop"), shop, {"id"}, "shop")>>

UpdateShop(q, shop) == <<Updates(Where(WithContext(q, "tb_shop"), shop), "shop")>>

DeleteShop(q, shop) == <<Delete(Where(WithContext(q, "tb_shop"), shop))>>

Program(job, q, id) ==
    CASE job.name = "CreateVoucher" -> CreateVoucher(q)
      [] job.name = "CreateSeckillVoucher" ->
            CreateSeckillVoucher(q, id, job.stock)
      [] job.name = "CreateOrder" -> CreateVoucherOrderAndReduceStock(q, job)
      [] job.name = "CreateShop" -> CreateShop(q, job.shop)
      [] job.name = "UpdateShop" -> UpdateShop(q, job.shop)
      [] job.name = "DeleteShop" -> DeleteShop(q, job.shop)

ProgramOf(w) == Program(worker[w].job, worker[w].q, worker[w].id)
InHand(w)    == ProgramOf(w)[worker[w].step]
LastStep(w)  == worker[w].step = Len(ProgramOf(w))

-----------------------------------------------------------------------------
(***************************************************************************)
(* MySQL: what one statement does to its row.                              *)
(***************************************************************************)
\* The rows st can be about: one, or any id not yet given for an AutoID key.
Targets(st) == IF st.key = AutoID
               THEN {VoucherRow(v) : v \in Vouchers \ assigned}
               ELSE {<<st.table, st.key>>}

Seen(c, r) == IF image[c][r] = Unwritten THEN db[r] ELSE image[c][r]

\* The statement finds a row to change.
Affects(st, old) ==
    /\ old # NoRow
    /\ st.inStock => old > 0

Fits(st) == ~Refused(Models[st.table], st.given, st.omitted)

\* Slip: RowsAffected is not looked at.
AcceptedUnchecked(st, old) == st.op = "insert" => old = NoRow /\ Fits(st)

Accepted(st, old) ==
    CASE st.op = "insert"   -> old = NoRow /\ Fits(st)
      [] st.op = "addStock" -> Affects(st, old)   \* RowsAffected is checked
      [] OTHER              -> TRUE

Written(st, old) ==
    CASE st.op # "insert" /\ ~Affects(st, old) -> old
      [] st.op = "addStock" -> old + st.row
      [] OTHER              -> st.row

Unlocked(r, c) == lock[r] \in {Nobody, c}

\* The id AUTO_INCREMENT has given is used up, and set in the model.
Assign(st, r) == assigned' = IF st.key = AutoID THEN assigned \cup {r[2]}
                                              ELSE assigned

\* Slip: LAST_INSERT_ID() is taken from every statement.
GivenIDOfLast(w, r) == r[2]

GivenID(w, r) == IF InHand(w).key = AutoID THEN r[2] ELSE worker[w].id

\* The transaction of c is over: its image and its locks go.
Release(c) ==
    /\ image' = [image EXCEPT ![c] = [r \in Rows |-> Unwritten]]
    /\ lock' = [r \in Rows |-> IF lock[r] = c THEN Nobody ELSE lock[r]]

Overlay(c) == [r \in Rows |-> Seen(c, r)]

-----------------------------------------------------------------------------
(***************************************************************************)
(* The workers.                                                            *)
(***************************************************************************)
Goto(w, where) ==
    /\ worker' = [worker EXCEPT ![w].pc = where]
    /\ answered' = Nobody

Answer(w, ok) ==
    /\ worker' = [worker EXCEPT ![w] = Idle]
    /\ answered' = IF ok THEN w ELSE Nobody

Free(w) == {c \in PoolOf[w] : \A x \in Workers : worker[x].conn # c}

Submit(w, job) ==
    /\ worker[w].pc = "idle"
    /\ worker' = [worker EXCEPT ![w] =
                    [Idle EXCEPT
                        !.pc = IF Transactional(job) THEN "begin" ELSE "run",
                        !.job = job, !.step = 1]]
    /\ answered' = Nobody
    /\ UNCHANGED mysqlVars

Begin(w) ==
    /\ worker[w].pc = "begin"
    /\ \/ \E c \in Free(w) :
            /\ session' = [session EXCEPT ![c] = "open"]
            /\ worker' = [worker EXCEPT ![w].pc = "run", ![w].conn = c,
                                        ![w].q = Clone(Use, c)]
            /\ answered' = Nobody
       \/ Fault("failed") /\ Answer(w, FALSE) /\ UNCHANGED session
    /\ UNCHANGED <<db, image, lock, assigned>>

\* A statement of the transaction, on its connection.
Execute(w) ==
    LET st == InHand(w)
        c  == worker[w].conn
    IN  /\ worker[w].pc = "run"
        /\ st.pool = c
        /\ session[c] = "open"
        /\ \E r \in Targets(st) :
              /\ Unlocked(r, c)
              /\ Accepted(st, Seen(c, r))
              /\ image' = [image EXCEPT ![c][r] = Written(st, Seen(c, r))]
              /\ lock' = [lock EXCEPT ![r] = c]
              /\ Assign(st, r)
              /\ worker' = [worker EXCEPT
                    ![w].id = GivenID(w, r),
                    ![w].step = @ + 1,
                    ![w].pc = IF LastStep(w) THEN "commit" ELSE "run"]
        /\ answered' = Nobody
        /\ UNCHANGED <<db, session>>

\* The statement is an error, or it changes no row where one is needed.
Fail(w) ==
    LET st == InHand(w)
        c  == worker[w].conn
    IN  /\ worker[w].pc = "run"
        /\ st.pool = c
        /\ \/ session[c] = "lost"
           \/ Fault("failed")
           \/ \A r \in Targets(st) : Unlocked(r, c) /\ ~Accepted(st, Seen(c, r))
        /\ Goto(w, "rollback")
        /\ UNCHANGED mysqlVars

\* A statement of an object bound to the pool of the process.  A repository
\* method that is one statement is over with it.
After(w, ok) ==
    IF worker[w].conn = Nobody THEN Answer(w, ok)
    ELSE Goto(w, IF ok THEN "commit" ELSE "rollback")

ExecuteAlone(w) ==
    LET st == InHand(w)
    IN  /\ worker[w].pc = "run"
        /\ st.pool = Root
        /\ \E c \in Free(w), r \in Targets(st) :
              /\ Unlocked(r, c)
              /\ Accepted(st, db[r])
              /\ db' = [db EXCEPT ![r] = Written(st, db[r])]
              /\ Assign(st, r)
        /\ \/ After(w, TRUE)
           \/ Fault("commitLost") /\ After(w, FALSE)
        /\ UNCHANGED <<image, lock, session>>

FailAlone(w) ==
    LET st == InHand(w)
    IN  /\ worker[w].pc = "run"
        /\ st.pool = Root
        /\ \E c \in Free(w) :
              \/ Fault("failed")
              \/ \A r \in Targets(st) : Unlocked(r, c) /\ ~Accepted(st, db[r])
        /\ After(w, FALSE)
        /\ UNCHANGED mysqlVars

\* Slip: the connection is not given back.
RollbackKeepingConn(w) ==
    LET c == worker[w].conn
    IN  /\ worker[w].pc = "rollback"
        /\ worker' = [worker EXCEPT ![w] = [Idle EXCEPT !.conn = c]]
        /\ answered' = Nobody
        /\ UNCHANGED mysqlVars

Rollback(w) ==
    LET c == worker[w].conn
    IN  /\ worker[w].pc = "rollback"
        /\ Release(c)
        /\ session' = [session EXCEPT ![c] = "idle"]
        /\ Answer(w, FALSE)
        /\ UNCHANGED <<db, assigned>>

\* Slip: the error of a COMMIT on a broken connection is not returned.
CommitUnchecked(w) ==
    LET c == worker[w].conn
    IN  /\ worker[w].pc = "commit"
        /\ Release(c)
        /\ session' = [session EXCEPT ![c] = "idle"]
        /\ db' = IF session[c] = "open" THEN Overlay(c) ELSE db
        /\ Answer(w, TRUE)
        /\ UNCHANGED assigned

\* The connection goes back to its pool whatever comes of the COMMIT.
Commit(w) ==
    LET c == worker[w].conn
    IN  /\ worker[w].pc = "commit"
        /\ Release(c)
        /\ session' = [session EXCEPT ![c] = "idle"]
        /\ \/ /\ session[c] = "open"
              /\ db' = Overlay(c)
              /\ \/ Answer(w, TRUE)
                 \/ Fault("commitLost") /\ Answer(w, FALSE)
           \/ /\ session[c] = "lost"
              /\ Answer(w, FALSE)
              /\ UNCHANGED db
        /\ UNCHANGED assigned

-----------------------------------------------------------------------------
(***************************************************************************)
(* Failures that are not of a statement.                                   *)
(***************************************************************************)
ConnLost(c) ==
    /\ Fault("connLost")
    /\ session[c] = "open"
    /\ Release(c)
    /\ session' = [session EXCEPT ![c] = "lost"]
    /\ answered' = Nobody
    /\ UNCHANGED <<db, assigned, worker>>

\* The process of worker w stops: MySQL rolls back what its connections have
\* open.
Crash(w) ==
    /\ Fault("crash")
    /\ image' = [c \in Conns |-> IF c \in PoolOf[w]
                                 THEN [r \in Rows |-> Unwritten]
                                 ELSE image[c]]
    /\ lock' = [r \in Rows |-> IF lock[r] \in PoolOf[w] THEN Nobody
                                                        ELSE lock[r]]
    /\ session' = [c \in Conns |-> IF c \in PoolOf[w] THEN "idle"
                                                      ELSE session[c]]
    /\ worker' = [x \in Workers |-> IF PoolOf[x] = PoolOf[w]
                                    THEN Idle
                                    ELSE worker[x]]
    /\ answered' = Nobody
    /\ UNCHANGED <<db, assigned>>

-----------------------------------------------------------------------------
Proceed(w) ==
    \/ Begin(w)
    \/ Execute(w) \/ Fail(w)
    \/ ExecuteAlone(w) \/ FailAlone(w)
    \/ Commit(w) \/ Rollback(w)

Next ==
    \/ \E w \in Workers : \E job \in JobsOf(w) : Submit(w, job)
    \/ \E w \in Workers : Proceed(w)
    \/ \E w \in Workers : Crash(w)
    \/ \E c \in Conns : ConnLost(c)

Spec == Init /\ [][Next]_vars

(***************************************************************************)
(* A goroutine that can take a step takes one.  One that waits, for a      *)
(* connection or for a row, is served in its turn: database/sql and InnoDB *)
(* queue their waiters.                                                    *)
(***************************************************************************)
FairSpec == Spec /\ \A w \in Workers : SF_vars(Proceed(w))

-----------------------------------------------------------------------------
(***************************************************************************)
(* What the repositories rely on.                                          *)
(***************************************************************************)
Row(r) ==
    CASE r[1] = "tb_voucher"         -> {0, 1}
      [] r[1] = "tb_seckill_voucher" -> Int
      [] r[1] = "tb_voucher_order"   -> [user : Users, voucher : Vouchers]
      [] r[1] = "tb_shop"            -> {"shop"}

TypeOK ==
    /\ DOMAIN db = Rows /\ \A r \in Rows : db[r] \in Row(r) \cup {NoRow}
    /\ DOMAIN image = Conns
    /\ \A c \in Conns : DOMAIN image[c] = Rows
    /\ \A c \in Conns, r \in Rows :
          image[c][r] \in Row(r) \cup {NoRow, Unwritten}
    /\ lock \in [Rows -> Conns \cup {Nobody}]
    /\ session \in [Conns -> {"idle", "open", "lost"}]
    /\ assigned \subseteq Vouchers
    /\ worker \in [Workers ->
          [pc : Busy \cup {"idle"}, job : Jobs \cup {Nobody},
           step : 0 .. 3, id : Vouchers \cup {Nobody},
           conn : Conns \cup {Nobody},
           q : [TableNames -> Conns \cup {Root}]]]
    /\ answered \in Workers \cup {Nobody}

\* A voucher is a seckill voucher if and only if it has a stock: the two
\* INSERTs of CreateSeckillVoucher, on two objects, are seen together or not
\* at all, although either may fail and the connection may break between them.
VoucherHasItsStock ==
    \A v \in Vouchers :
        db[VoucherRow(v)] = 1 <=> db[StockRow(v)] # NoRow

\* A caller that is answered without an error finds its order in MySQL, even
\* when the UPDATE matched no row, the COMMIT failed or the connection broke.
AnsweredIsStored ==
    [][\A w \in Workers :
          LET j == worker[w].job
          IN  answered' = w /\ j.name = "CreateOrder" =>
                db'[OrderRow(j.id)] = [user |-> j.user, voucher |-> j.voucher]
      ]_vars

\* No connection and no lock is left behind: a session that is open or lost
\* has one worker, which is in a transaction, and a lock has an open session.
NothingLeftBehind ==
    /\ \A c \in Conns : session[c] # "idle" =>
          \E w \in Workers : worker[w].conn = c /\ worker[w].pc \in Busy
    /\ \A w, x \in Workers :
          worker[w].conn = worker[x].conn /\ w # x => worker[w].conn = Nobody
    /\ \A w \in Workers :
          worker[w].conn # Nobody => session[worker[w].conn] # "idle"
    /\ \A r \in Rows : lock[r] # Nobody => session[lock[r]] = "open"

\* What w waits for is held by x: a connection, when all of the process are in
\* use, or the lock of a row that w's statement is about.
WaitsFor(w, x) ==
    \/ /\ \/ worker[w].pc = "begin"
          \/ worker[w].pc = "run" /\ InHand(w).pool = Root
       /\ Free(w) = {}
       /\ worker[x].conn \in PoolOf[w]
    \/ /\ worker[w].pc = "run"
       /\ worker[x].conn \in Conns \ {worker[w].conn}
       /\ \E r \in Rows : r \in Targets(InHand(w)) /\ lock[r] = worker[x].conn

\* Workers do not wait for each other in a circle, of connections, of rows or of
\* both: among any workers there is one that waits for none of them.  Nothing
\* but the order in which transactions take a connection and their two rows
\* sees to it.
NoCircle ==
    \A S \in SUBSET Workers :
        S # {} => \E w \in S : \A x \in S : ~WaitsFor(w, x)

\* MySQL takes every INSERT the repositories make: none has a zero time or
\* lacks its key.
InsertsAccepted ==
    \A w \in Workers :
        worker[w].pc = "run" /\ InHand(w).op = "insert" => Fits(InHand(w))

\* Every call of a repository comes to an answer: no worker waits for ever for
\* a connection that only it could free, or for a row in a circle of workers.
CallsEnd ==
    \A w \in Workers : worker[w].pc \in Busy ~> worker[w].pc = "idle"
=============================================================================
