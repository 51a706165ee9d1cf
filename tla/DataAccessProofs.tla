--------------------------- MODULE DataAccessProofs --------------------------
(***************************************************************************)
(* Theorems about DataAccess, for any number of workers, processes and     *)
(* connections: what MySQL is sent it takes, what is answered is stored,   *)
(* no connection or lock is left behind, and what is committed changes as  *)
(* VoucherStore says.                                                      *)
(***************************************************************************)
EXTENDS DataAccessRefinement, TLAPS

(***************************************************************************)
(* The statements of a repository method.                                  *)
(***************************************************************************)
Steps(job) == IF Transactional(job) THEN 2 ELSE 1

LEMMA JobNames ==
    ASSUME NEW job \in Jobs
    PROVE  job.name \in {"CreateVoucher", "CreateSeckillVoucher", "CreateOrder",
                         "CreateShop", "UpdateShop", "DeleteShop"}
BY DEF Jobs, OrderJobs, RequestJobs

\* An INSERT that names every time is given or MySQL fills in is taken.
LEMMA Takes ==
    ASSUME NEW st,
           Models[st.table].times \ st.given
               \subseteq Models[st.table].filledIn \cup st.omitted,
           Models[st.table].key \in Models[st.table].filledIn \cup st.given
    PROVE  Fits(st)
BY DEF Fits, Refused, Named

\* Every statement is made of the data access object of its table, and an
\* INSERT among them fits its table.
Sound(st, q) ==
    /\ st.table \in TableNames
    /\ st.pool = q[st.table]
    /\ st.op = "insert" => Fits(st)

LEMMA Tabled ==
    {"tb_voucher", "tb_seckill_voucher", "tb_voucher_order", "tb_shop"}
        \subseteq TableNames
BY DEF TableNames, Models

LEMMA NewVoucherSound ==
    ASSUME NEW q, NEW type PROVE Sound(NewVoucher(q, type), q)
<1> DEFINE st == NewVoucher(q, type)
<1>1. /\ st.table = "tb_voucher" /\ st.pool = q[st.table]
      /\ st.given = {"type"} /\ st.omitted = {}
  BY DEF NewVoucher, Create, Statement, WithContext
<1>2. Models[st.table] = TbVoucher  BY <1>1 DEF Models
<1>3. Fits(st)
  BY <1>1, <1>2, Takes DEF TbVoucher, Stamps
<1> QED BY <1>1, <1>3, Tabled DEF Sound

LEMMA CreateSeckillVoucherSound ==
    ASSUME NEW q, NEW id, NEW stock
    PROVE  /\ Len(CreateSeckillVoucher(q, id, stock)) = 2
           /\ \A i \in 1 .. 2 : Sound(CreateSeckillVoucher(q, id, stock)[i], q)
<1> DEFINE st == Create(WithContext(q, "tb_seckill_voucher"), id,
                        {"voucher_id", "stock"}, stock)
<1>1. /\ st.table = "tb_seckill_voucher" /\ st.pool = q[st.table]
      /\ st.given = {"voucher_id", "stock"} /\ st.omitted = {}
  BY DEF Create, Statement, WithContext
<1>2. Models[st.table] = TbSeckillVoucher  BY <1>1 DEF Models
<1>3. Fits(st)
  BY <1>1, <1>2, Takes DEF TbSeckillVoucher, Stamps
<1>4. Sound(st, q)  BY <1>1, <1>3, Tabled DEF Sound
<1> HIDE DEF st
<1>5. CreateSeckillVoucher(q, id, stock) = <<NewVoucher(q, 1), st>>
  BY DEF CreateSeckillVoucher, st
<1> QED BY <1>4, <1>5, NewVoucherSound

OrderInsert(q, o) ==
    Create(Omit(WithContext(q, "tb_voucher_order"),
                {tbVoucherOrder.PayTime, tbVoucherOrder.UseTime,
                 tbVoucherOrder.RefundTime}),
           o.id, OrderColumns, [user |-> o.user, voucher |-> o.voucher])

LEMMA OrderInsertTable ==
    ASSUME NEW q, NEW o
    PROVE  /\ OrderInsert(q, o).table = "tb_voucher_order"
           /\ OrderInsert(q, o).pool = q["tb_voucher_order"]
BY DEF OrderInsert, Create, Statement, Omit, WithContext

LEMMA OrderInsertColumns ==
    ASSUME NEW q, NEW o
    PROVE  /\ OrderInsert(q, o).given = OrderColumns
           /\ OrderInsert(q, o).omitted = {"pay_time", "use_time", "refund_time"}
BY DEF OrderInsert, Create, Statement, Omit, WithContext, tbVoucherOrder

LEMMA OrderInsertRow ==
    ASSUME NEW q, NEW o
    PROVE  /\ OrderInsert(q, o).op = "insert"
           /\ OrderInsert(q, o).key = o.id
           /\ OrderInsert(q, o).row = [user |-> o.user, voucher |-> o.voucher]
BY DEF OrderInsert, Create, Statement, Omit, WithContext

LEMMA CreateOrderSound ==
    ASSUME NEW q, NEW o
    PROVE  /\ Len(CreateVoucherOrderAndReduceStock(q, o)) = 2
           /\ CreateVoucherOrderAndReduceStock(q, o)[2] = OrderInsert(q, o)
           /\ \A i \in 1 .. 2 :
                 Sound(CreateVoucherOrderAndReduceStock(q, o)[i], q)
<1> DEFINE up == UpdateStock(WhereInStock(Where(
                    WithContext(q, "tb_seckill_voucher"), o.voucher)), -1)
<1>1. up.table = "tb_seckill_voucher" /\ up.pool = q[up.table] /\ up.op = "addStock"
  BY DEF UpdateStock, Statement, WhereInStock, Where, WithContext
<1>2. Sound(up, q)  BY <1>1, Tabled DEF Sound
<1>3. PICK st :
         /\ st = OrderInsert(q, o)
         /\ st.table = "tb_voucher_order" /\ st.pool = q[st.table]
         /\ st.given = OrderColumns
         /\ st.omitted = {"pay_time", "use_time", "refund_time"}
  BY OrderInsertTable, OrderInsertColumns
<1>4. Fits(st)
  <2>1. Models[st.table] = TbVoucherOrder  BY <1>3 DEF Models
  <2> QED BY <1>3, <2>1, Takes DEF TbVoucherOrder, Stamps, OrderColumns
<1>5. Sound(OrderInsert(q, o), q)  BY <1>3, <1>4, Tabled DEF Sound
<1> HIDE DEF up
<1>6. CreateVoucherOrderAndReduceStock(q, o) = <<up, OrderInsert(q, o)>>
  BY DEF CreateVoucherOrderAndReduceStock, OrderInsert, up
<1> QED BY <1>2, <1>5, <1>6

LEMMA ShopSound ==
    ASSUME NEW q, NEW shop
    PROVE  /\ Len(CreateShop(q, shop)) = 1 /\ Sound(CreateShop(q, shop)[1], q)
           /\ Len(UpdateShop(q, shop)) = 1 /\ Sound(UpdateShop(q, shop)[1], q)
           /\ Len(DeleteShop(q, shop)) = 1 /\ Sound(DeleteShop(q, shop)[1], q)
<1>1. /\ Len(CreateShop(q, shop)) = 1 /\ Sound(CreateShop(q, shop)[1], q)
  <2> DEFINE st == Create(WithContext(q, "tb_shop"), shop, {"id"}, "shop")
  <2>1. /\ st.table = "tb_shop" /\ st.pool = q[st.table]
        /\ st.given = {"id"} /\ st.omitted = {}
    BY DEF Create, Statement, WithContext
  <2>2. Models[st.table] = TbShop  BY <2>1 DEF Models
  <2>3. Fits(st)
    BY <2>1, <2>2, Takes DEF TbShop, Stamps
  <2>4. Sound(st, q)  BY <2>1, <2>3, Tabled DEF Sound
  <2> HIDE DEF st
  <2>5. CreateShop(q, shop) = <<st>>  BY DEF CreateShop, st
  <2> QED BY <2>4, <2>5
<1>2. /\ Len(UpdateShop(q, shop)) = 1 /\ Sound(UpdateShop(q, shop)[1], q)
  BY Tabled DEF UpdateShop, Updates, Statement, Where, WithContext, Sound
<1>3. /\ Len(DeleteShop(q, shop)) = 1 /\ Sound(DeleteShop(q, shop)[1], q)
  BY Tabled DEF DeleteShop, Delete, Statement, Where, WithContext, Sound
<1> QED BY <1>1, <1>2, <1>3

LEMMA ProgramSound ==
    ASSUME NEW job \in Jobs, NEW q, NEW id
    PROVE  /\ Len(Program(job, q, id)) = Steps(job)
           /\ \A i \in 1 .. Steps(job) : Sound(Program(job, q, id)[i], q)
<1>1. CASE job.name = "CreateVoucher"
  <2>1. Program(job, q, id) = <<NewVoucher(q, 0)>>
    BY <1>1 DEF Program, CreateVoucher
  <2> QED BY <1>1, <2>1, NewVoucherSound DEF Steps, Transactional
<1>2. CASE job.name = "CreateSeckillVoucher"
  BY <1>2, CreateSeckillVoucherSound DEF Program, Steps, Transactional
<1>3. CASE job.name = "CreateOrder"
  BY <1>3, CreateOrderSound DEF Program, Steps, Transactional
<1>4. CASE job.name \in {"CreateShop", "UpdateShop", "DeleteShop"}
  <2>1. Steps(job) = 1  BY <1>4 DEF Steps, Transactional
  <2>2. Program(job, q, id) \in {CreateShop(q, job.shop), UpdateShop(q, job.shop),
                                 DeleteShop(q, job.shop)}
    BY <1>4 DEF Program
  <2> QED BY <2>1, <2>2, ShopSound
<1> QED BY <1>1, <1>2, <1>3, <1>4, JobNames

-----------------------------------------------------------------------------
(***************************************************************************)
(* The workers.  A worker that is busy has a job; its steps are those of   *)
(* the job's program; it has a connection between Begin and the end of     *)
(* its transaction, and then every object of its query is bound to it.     *)
(***************************************************************************)
Record ==
    [pc : Busy \cup {"idle"}, job : Jobs \cup {Nobody}, step : 0 .. 3,
     id : Vouchers \cup {Nobody}, conn : Conns \cup {Nobody},
     q : [TableNames -> Conns \cup {Root}]]

Sane(w, p) ==
    /\ p \in Record
    /\ p.conn \in PoolOf[w] \cup {Nobody}
    /\ p.pc \in {"idle", "begin"} => p.conn = Nobody
    /\ p.pc \in {"commit", "rollback"} => p.conn # Nobody
    /\ p.pc \in {"begin", "run"} => p.job \in Jobs /\ p.step \in 1 .. Steps(p.job)
    /\ p.pc = "begin" => Transactional(p.job)
    /\ p.pc = "run" =>
          /\ p.conn = Nobody <=> ~Transactional(p.job)
          /\ p.q = IF p.conn = Nobody THEN Use ELSE Clone(Use, p.conn)

Sanity ==
    /\ DOMAIN worker = Workers
    /\ \A w \in Workers : Sane(w, worker[w])

LEMMA IdleIsSane == \A w \in Workers : Sane(w, Idle)
<1>1. Use \in [TableNames -> Conns \cup {Root}]  BY DEF Use
<1>2. Idle \in Record  BY <1>1 DEF Idle, Record
<1> QED BY <1>2 DEF Idle, Sane

LEMMA Pools ==
    /\ \A w \in Workers : PoolOf[w] \subseteq Conns
    /\ \A w, x \in Workers : PoolOf[w] = PoolOf[x] \/ PoolOf[w] \cap PoolOf[x] = {}
BY PoolAssumption

\* What a worker is about to send.
LEMMA Sending ==
    ASSUME Sanity, NEW w \in Workers, worker[w].pc = "run"
    PROVE  /\ Len(ProgramOf(w)) = Steps(worker[w].job)
           /\ InHand(w).op = "insert" => Fits(InHand(w))
           /\ worker[w].conn = Nobody => InHand(w).pool = Root
           /\ worker[w].conn # Nobody => InHand(w).pool = worker[w].conn
<1>1. PICK p \in Record : p = worker[w] /\ Sane(w, p)
  BY DEF Sanity, Sane
<1>2. /\ p.job \in Jobs /\ p.step \in 1 .. Steps(p.job)
      /\ p.q = IF p.conn = Nobody THEN Use ELSE Clone(Use, p.conn)
  BY <1>1 DEF Sane
<1>3. PICK st : st = InHand(w) /\ Sound(st, p.q)
  BY <1>1, <1>2, ProgramSound DEF InHand, ProgramOf
<1>4. Len(ProgramOf(w)) = Steps(p.job)
  BY <1>1, <1>2, ProgramSound DEF ProgramOf
<1>5. \A t \in TableNames :
         p.q[t] = IF p.conn = Nobody THEN Root ELSE p.conn
  BY <1>2 DEF Use, Clone
<1> QED BY <1>1, <1>3, <1>4, <1>5 DEF Sound

(***************************************************************************)
(* What a step of a worker makes of its record and its connection.         *)
(***************************************************************************)
Becomes(w, q) == worker' = [worker EXCEPT ![w] = q] /\ Sane(w, q)

\* It begins a transaction.
Opens(w) == \E c \in Free(w) : \E q :
    /\ Becomes(w, q) /\ q.conn = c
    /\ worker[w].conn = Nobody
    /\ session' = [session EXCEPT ![c] = "open"]
    /\ UNCHANGED lock

\* It executes a statement of it, or notes that it failed.
Goes(w) == \E q :
    /\ Becomes(w, q) /\ q.conn = worker[w].conn
    /\ UNCHANGED session
    /\ \/ UNCHANGED lock
       \/ /\ worker[w].conn # Nobody /\ session[worker[w].conn] = "open"
          /\ \E r : lock' = [lock EXCEPT ![r] = worker[w].conn]

\* It ends it.
Closes(w) == \E c \in Conns :
    /\ Becomes(w, Idle)
    /\ worker[w].conn = c
    /\ Release(c)
    /\ session' = [session EXCEPT ![c] = "idle"]

LEMMA Submits ==
    ASSUME Sanity, NEW w \in Workers, NEW job \in JobsOf(w), Submit(w, job)
    PROVE  Goes(w)
<1>1. job \in Jobs  BY DEF JobsOf, Jobs
<1>2. worker[w].conn = Nobody /\ UNCHANGED <<session, lock>>
  BY DEF Submit, Sanity, Sane, mysqlVars
<1>3. PICK i \in Record : i = Idle /\ i.conn = Nobody
  BY IdleIsSane DEF Sane, Idle
<1>4. PICK pc \in {"begin", "run"} :
         pc = IF Transactional(job) THEN "begin" ELSE "run"
  OBVIOUS
<1> DEFINE q == [i EXCEPT !.pc = pc, !.job = job, !.step = 1]
<1>5. worker' = [worker EXCEPT ![w] = q]  BY <1>3, <1>4 DEF Submit
<1>6. q \in Record
  <2>1. 1 \in 0 .. 3 /\ pc \in Busy \cup {"idle"}  BY <1>4 DEF Busy
  <2> QED BY <1>1, <2>1 DEF Record
<1>7. /\ q.conn = Nobody /\ q.job = job /\ q.step = 1 /\ q.q = i.q
      /\ q.pc = pc
  BY <1>3 DEF Record
<1>8. i.q = Use  BY <1>3 DEF Idle
<1> HIDE DEF q
<1>9. Sane(w, q)
  BY <1>1, <1>4, <1>6, <1>7, <1>8 DEF Sane, Steps
<1> QED BY <1>2, <1>5, <1>7, <1>9 DEF Goes, Becomes

LEMMA Begins ==
    ASSUME Sanity, NEW w \in Workers, Begin(w)
    PROVE  Opens(w) \/ Goes(w)
<1>1. PICK p \in Record : p = worker[w] /\ Sane(w, p)
  BY DEF Sanity, Sane
<1>2. p.pc = "begin" /\ p.conn = Nobody /\ UNCHANGED lock
  BY <1>1 DEF Begin, Sane
<1>3. CASE Answer(w, FALSE) /\ UNCHANGED session
  <2>1. Becomes(w, Idle) /\ Idle.conn = worker[w].conn
    BY <1>1, <1>2, <1>3, IdleIsSane DEF Answer, Becomes, Idle
  <2> QED BY <1>2, <1>3, <2>1 DEF Goes
<1>4. ASSUME NEW c \in Free(w),
             session' = [session EXCEPT ![c] = "open"],
             worker' = [worker EXCEPT ![w].pc = "run", ![w].conn = c,
                                      ![w].q = Clone(Use, c)]
      PROVE  Opens(w)
  <2> DEFINE q == [p EXCEPT !.pc = "run", !.conn = c, !.q = Clone(Use, c)]
  <2>1. worker' = [worker EXCEPT ![w] = q]  BY <1>1, <1>4
  <2>2. c \in PoolOf[w] /\ c \in Conns /\ c # Nobody
    BY Pools, RootAssumption DEF Free
  <2>3. Clone(Use, c) \in [TableNames -> Conns \cup {Root}]
    BY <2>2 DEF Clone, Use
  <2>4. /\ q \in Record /\ q.pc = "run" /\ q.conn = c /\ q.q = Clone(Use, c)
        /\ q.job = p.job /\ q.step = p.step
    BY <2>2, <2>3 DEF Record, Busy
  <2>5. Sane(w, q)
    BY <1>1, <1>2, <2>2, <2>4 DEF Sane
  <2> HIDE DEF q
  <2> QED BY <1>1, <1>2, <1>4, <2>1, <2>4, <2>5 DEF Opens, Becomes
<1> QED BY <1>3, <1>4 DEF Begin

\* The worker's record with another place in the program.
LEMMA SaneGoto ==
    ASSUME Sanity, NEW w \in Workers, worker[w].conn # Nobody,
           NEW where \in {"commit", "rollback"}, Goto(w, where),
           UNCHANGED <<session, lock>>
    PROVE  Goes(w)
<1>1. PICK p \in Record : p = worker[w] /\ Sane(w, p)
  BY DEF Sanity, Sane
<1> DEFINE q == [p EXCEPT !.pc = where]
<1>2. worker' = [worker EXCEPT ![w] = q]  BY <1>1 DEF Goto
<1>3. q \in Record /\ q.pc = where /\ q.conn = p.conn  BY DEF Record, Busy
<1>4. Sane(w, q)  BY <1>1, <1>3 DEF Sane
<1> HIDE DEF q
<1> QED BY <1>1, <1>2, <1>3, <1>4 DEF Goes, Becomes

LEMMA TargetsAuto ==
    ASSUME NEW st, st.key = AutoID
    PROVE  Targets(st) = {VoucherRow(v) : v \in Vouchers \ assigned}
BY DEF Targets

LEMMA Executes ==
    ASSUME Sanity, NEW w \in Workers, Execute(w)
    PROVE  Goes(w)
<1>1. PICK p \in Record : p = worker[w] /\ Sane(w, p)
  BY DEF Sanity, Sane
<1>2. PICK r \in Targets(InHand(w)) :
         /\ lock' = [lock EXCEPT ![r] = p.conn]
         /\ worker' = [worker EXCEPT ![w].id = GivenID(w, r), ![w].step = @ + 1,
                             ![w].pc = IF LastStep(w) THEN "commit" ELSE "run"]
  BY <1>1 DEF Execute
<1>3. /\ p.pc = "run" /\ InHand(w).pool = p.conn /\ session[p.conn] = "open"
      /\ UNCHANGED session
  BY <1>1 DEF Execute
<1>4. p.conn # Nobody
  BY <1>1, <1>3, Sending, RootAssumption
<1>5. GivenID(w, r) \in Vouchers \cup {Nobody}
  <2>1. CASE InHand(w).key = AutoID
    <3>1. r \in {VoucherRow(v) : v \in Vouchers \ assigned}
      BY <1>2, <2>1, TargetsAuto
    <3>2. PICK v \in Vouchers : r = VoucherRow(v)  BY <3>1
    <3>3. r[2] = v  BY <3>2 DEF VoucherRow
    <3>4. GivenID(w, r) = r[2]  BY <2>1 DEF GivenID
    <3> QED BY <3>3, <3>4
  <2>2. CASE InHand(w).key # AutoID
    <3>1. GivenID(w, r) = worker[w].id  BY <2>2 DEF GivenID
    <3> QED BY <1>1, <3>1 DEF Record
  <2> QED BY <2>1, <2>2
<1>6. /\ p.step \in 1 .. Steps(p.job) /\ Steps(p.job) \in {1, 2}
      /\ LastStep(w) <=> p.step = Steps(p.job)
  BY <1>1, <1>3, Sending DEF Sane, Steps, LastStep
<1> DEFINE q == [p EXCEPT !.id = GivenID(w, r), !.step = p.step + 1,
                          !.pc = IF LastStep(w) THEN "commit" ELSE "run"]
<1>7. worker' = [worker EXCEPT ![w] = q]
  BY <1>1, <1>2
<1>8. /\ q \in Record /\ q.conn = p.conn /\ q.job = p.job /\ q.q = p.q
      /\ q.step = p.step + 1
      /\ q.pc = IF LastStep(w) THEN "commit" ELSE "run"
  <2>1. p.step + 1 \in 0 .. 3  BY <1>6
  <2> QED BY <1>5, <2>1 DEF Record, Busy
<1>9. Sane(w, q)
  <2>1. CASE LastStep(w)
    BY <1>1, <1>3, <1>4, <1>8, <2>1 DEF Sane
  <2>2. CASE ~LastStep(w)
    <3>1. p.step + 1 \in 1 .. Steps(p.job)  BY <1>6, <2>2
    <3> QED BY <1>1, <1>3, <1>4, <1>8, <2>2, <3>1 DEF Sane
  <2> QED BY <2>1, <2>2
<1> HIDE DEF q
<1> QED BY <1>1, <1>2, <1>3, <1>4, <1>7, <1>8, <1>9 DEF Goes, Becomes

LEMMA Fails ==
    ASSUME Sanity, NEW w \in Workers, Fail(w)
    PROVE  Goes(w)
<1>1. worker[w].pc = "run" /\ InHand(w).pool = worker[w].conn
      /\ Goto(w, "rollback") /\ UNCHANGED <<session, lock>>
  BY DEF Fail, mysqlVars
<1>2. worker[w].conn # Nobody  BY <1>1, Sending, RootAssumption
<1> QED BY <1>1, <1>2, SaneGoto

\* A statement that is alone is the whole of its job.
LEMMA Alone ==
    ASSUME Sanity, NEW w \in Workers, ExecuteAlone(w) \/ FailAlone(w)
    PROVE  /\ Goes(w) /\ worker[w].conn = Nobody
           /\ ~Transactional(worker[w].job)
           /\ UNCHANGED <<session, lock>>
<1>1. /\ worker[w].pc = "run" /\ InHand(w).pool = Root
      /\ UNCHANGED <<session, lock>>
      /\ After(w, TRUE) \/ After(w, FALSE)
  BY DEF ExecuteAlone, FailAlone, mysqlVars
<1>2. PICK p \in Record : p = worker[w] /\ Sane(w, p)
  BY DEF Sanity, Sane
<1>3. p.conn = Nobody
  <2>1. p.conn \in Conns \cup {Nobody}  BY DEF Record
  <2> QED BY <1>1, <1>2, <2>1, Sending, RootAssumption
<1>4. Becomes(w, Idle)
  BY <1>1, <1>2, <1>3, IdleIsSane DEF After, Answer, Becomes
<1>5. Idle.conn = Nobody  BY DEF Idle
<1>6. ~Transactional(worker[w].job)  BY <1>1, <1>2, <1>3 DEF Sane
<1> QED BY <1>1, <1>2, <1>3, <1>4, <1>5, <1>6 DEF Goes

LEMMA Ends ==
    ASSUME Sanity, NEW w \in Workers, Commit(w) \/ Rollback(w)
    PROVE  Closes(w)
<1>1. PICK p \in Record : p = worker[w] /\ Sane(w, p)
  BY DEF Sanity, Sane
<1>2. p.conn \in Conns
  BY <1>1 DEF Commit, Rollback, Sane, Record
<1>3. /\ Release(p.conn) /\ session' = [session EXCEPT ![p.conn] = "idle"]
      /\ worker' = [worker EXCEPT ![w] = Idle]
  BY <1>1 DEF Commit, Rollback, Answer
<1> QED BY <1>1, <1>2, <1>3, IdleIsSane DEF Closes, Becomes

LEMMA Proceeds ==
    ASSUME Sanity, NEW w \in Workers, Proceed(w)
    PROVE  Opens(w) \/ Goes(w) \/ Closes(w)
BY Begins, Executes, Fails, Alone, Ends DEF Proceed

\* A process that stops: its workers are as new.
LEMMA Crashes ==
    ASSUME Sanity, NEW w \in Workers, Crash(w)
    PROVE  Sanity'
BY IdleIsSane DEF Crash, Sanity

LEMMA SanityNext == Sanity /\ [Next]_vars => Sanity'
<1> SUFFICES ASSUME Sanity, [Next]_vars PROVE Sanity'  OBVIOUS
<1>1. ASSUME NEW w \in Workers, NEW q, Becomes(w, q) PROVE Sanity'
  BY <1>1 DEF Becomes, Sanity
<1>2. ASSUME NEW w \in Workers, Opens(w) \/ Goes(w) \/ Closes(w) PROVE Sanity'
  BY <1>1, <1>2 DEF Opens, Goes, Closes
<1>3. CASE UNCHANGED vars  BY <1>3 DEF vars, Sanity
<1>4. CASE \E c \in Conns : ConnLost(c)  BY <1>4 DEF ConnLost, Sanity
<1> QED BY <1>2, <1>3, <1>4, Submits, Proceeds, Crashes DEF Next

LEMMA SanityInit == Init => Sanity
BY IdleIsSane DEF Init, Sanity

\* MySQL takes every INSERT.
THEOREM Inserts == Spec => []InsertsAccepted
<1>1. Sanity => InsertsAccepted  BY Sending DEF InsertsAccepted
<1> QED BY <1>1, SanityInit, SanityNext, PTL DEF Spec

-----------------------------------------------------------------------------
(***************************************************************************)
(* The connections.  A session is not idle if and only if one worker holds *)
(* its connection, and locks are those of open sessions.                   *)
(***************************************************************************)
Shapes ==
    /\ session \in [Conns -> {"idle", "open", "lost"}]
    /\ lock \in [Rows -> Conns \cup {Nobody}]

Held ==
    \A c \in Conns : session[c] # "idle" <=> \E w \in Workers : worker[w].conn = c

Alike ==
    \A w, x \in Workers :
        worker[w].conn = worker[x].conn /\ w # x => worker[w].conn = Nobody

Locked == \A r \in Rows : lock[r] # Nobody => session[lock[r]] = "open"

Tidy == Shapes /\ Held /\ Alike /\ Locked

\* The connections the workers hold.
LEMMA ConnOf ==
    ASSUME Sanity, NEW w \in Workers
    PROVE  worker[w].conn \in PoolOf[w] \cup {Nobody}
           /\ worker[w].conn \in Conns \cup {Nobody}
BY Pools DEF Sanity, Sane

LEMMA Tidied == Sanity /\ Tidy => NothingLeftBehind
<1> SUFFICES ASSUME Sanity, Tidy PROVE NothingLeftBehind  OBVIOUS
<1>1. ASSUME NEW w \in Workers, worker[w].conn # Nobody
      PROVE  worker[w].pc \in Busy
  BY <1>1 DEF Sanity, Sane, Record
<1>2. \A w \in Workers : worker[w].conn # Nobody => session[worker[w].conn] # "idle"
  BY ConnOf DEF Tidy, Held
<1>3. ASSUME NEW c \in Conns, session[c] # "idle"
      PROVE  \E w \in Workers : worker[w].conn = c /\ worker[w].pc \in Busy
  <2>1. PICK w \in Workers : worker[w].conn = c  BY <1>3 DEF Tidy, Held
  <2>2. c # Nobody  BY RootAssumption
  <2> QED BY <1>1, <2>1, <2>2
<1> QED BY <1>2, <1>3 DEF NothingLeftBehind, Tidy, Alike, Locked

LEMMA TidyOpens ==
    ASSUME Sanity, Tidy, NEW w \in Workers, Opens(w)
    PROVE  Tidy'
<1>1. PICK c \in Free(w) : \E q :
         /\ worker' = [worker EXCEPT ![w] = q] /\ q.conn = c
         /\ session' = [session EXCEPT ![c] = "open"] /\ lock' = lock
         /\ worker[w].conn = Nobody
  BY DEF Opens, Becomes
<1>2. PICK q :
         /\ worker' = [worker EXCEPT ![w] = q] /\ q.conn = c
         /\ session' = [session EXCEPT ![c] = "open"] /\ lock' = lock
         /\ worker[w].conn = Nobody
  BY <1>1
<1>3. c \in Conns /\ c # Nobody /\ \A x \in Workers : worker[x].conn # c
  BY Pools, RootAssumption DEF Free
<1>4. /\ worker'[w].conn = c
      /\ \A x \in Workers \ {w} : worker'[x].conn = worker[x].conn
  BY <1>2 DEF Sanity
<1>5. /\ session'[c] = "open"
      /\ \A d \in Conns \ {c} : session'[d] = session[d]
  BY <1>2, <1>3 DEF Tidy, Shapes
<1>6. Shapes'  BY <1>2, <1>3 DEF Tidy, Shapes
<1>7. Held'
  <2>1. \A d \in Conns \ {c} : d # Nobody  BY RootAssumption
  <2> QED BY <1>2, <1>3, <1>4, <1>5, <2>1 DEF Tidy, Held
<1>8. Alike'  BY <1>3, <1>4 DEF Tidy, Alike
<1>9. Locked'
  BY <1>2, <1>5 DEF Tidy, Locked, Shapes
<1> QED BY <1>6, <1>7, <1>8, <1>9 DEF Tidy

LEMMA TidyGoes ==
    ASSUME Sanity, Tidy, NEW w \in Workers, Goes(w)
    PROVE  Tidy'
<1>1. PICK q :
         /\ worker' = [worker EXCEPT ![w] = q] /\ q.conn = worker[w].conn
         /\ session' = session
         /\ \/ lock' = lock
            \/ /\ worker[w].conn # Nobody /\ session[worker[w].conn] = "open"
               /\ \E r : lock' = [lock EXCEPT ![r] = worker[w].conn]
  BY DEF Goes, Becomes
<1>2. \A x \in Workers : worker'[x].conn = worker[x].conn
  BY <1>1 DEF Sanity
<1>3. Held' /\ Alike'  BY <1>1, <1>2 DEF Tidy, Held, Alike
<1>4. worker[w].conn \in Conns \cup {Nobody}  BY ConnOf
<1>5. Shapes' /\ Locked'
  <2>1. CASE lock' = lock  BY <1>1, <2>1 DEF Tidy, Shapes, Locked
  <2>2. ASSUME NEW r, worker[w].conn # Nobody,
               session[worker[w].conn] = "open",
               lock' = [lock EXCEPT ![r] = worker[w].conn]
        PROVE  Shapes' /\ Locked'
    <3>1. \A s \in Rows : lock'[s] = lock[s] \/ lock'[s] = worker[w].conn
      BY <2>2 DEF Tidy, Shapes
    <3>2. lock' \in [Rows -> Conns \cup {Nobody}]
      BY <1>4, <2>2 DEF Tidy, Shapes
    <3> QED BY <1>1, <2>2, <3>1, <3>2 DEF Tidy, Shapes, Locked
  <2> QED BY <1>1, <2>1, <2>2
<1> QED BY <1>3, <1>5 DEF Tidy

LEMMA Releases ==
    ASSUME Shapes, NEW c \in Conns, Release(c)
    PROVE  /\ lock' \in [Rows -> Conns \cup {Nobody}]
           /\ \A r \in Rows : lock'[r] # Nobody => lock'[r] = lock[r] /\ lock[r] # c
BY DEF Shapes, Release

LEMMA TidyCloses ==
    ASSUME Sanity, Tidy, NEW w \in Workers, Closes(w)
    PROVE  Tidy'
<1>1. PICK c \in Conns :
         /\ worker' = [worker EXCEPT ![w] = Idle] /\ worker[w].conn = c
         /\ Release(c) /\ session' = [session EXCEPT ![c] = "idle"]
  BY DEF Closes, Becomes
<1>2. c # Nobody /\ Idle.conn = Nobody  BY RootAssumption DEF Idle
<1>3. /\ worker'[w].conn = Nobody
      /\ \A x \in Workers \ {w} : worker'[x].conn = worker[x].conn
  BY <1>1, <1>2 DEF Sanity
<1>4. /\ session'[c] = "idle"
      /\ \A d \in Conns \ {c} : session'[d] = session[d]
  BY <1>1 DEF Tidy, Shapes
<1>5. \A x \in Workers \ {w} : worker[x].conn # c
  BY <1>1, <1>2 DEF Tidy, Alike
<1>6. \A d \in Conns : d # Nobody  BY RootAssumption
<1>7. Held'
  BY <1>1, <1>3, <1>4, <1>5, <1>6 DEF Tidy, Held
<1>8. Alike'  BY <1>3 DEF Tidy, Alike
<1>9. Shapes' /\ Locked'
  BY <1>1, <1>4, Releases DEF Tidy, Shapes, Locked
<1> QED BY <1>7, <1>8, <1>9 DEF Tidy

LEMMA TidyLost ==
    ASSUME Sanity, Tidy, NEW c \in Conns, ConnLost(c)
    PROVE  Tidy'
<1>1. /\ session[c] = "open" /\ Release(c) /\ worker' = worker
      /\ session' = [session EXCEPT ![c] = "lost"]
  BY DEF ConnLost
<1>2. /\ session'[c] = "lost"
      /\ \A d \in Conns \ {c} : session'[d] = session[d]
  BY <1>1 DEF Tidy, Shapes
<1>3. Held' /\ Alike'  BY <1>1, <1>2 DEF Tidy, Held, Alike
<1>4. Shapes' /\ Locked'
  BY <1>1, <1>2, Releases DEF Tidy, Shapes, Locked
<1> QED BY <1>3, <1>4 DEF Tidy

LEMMA TidyCrash ==
    ASSUME Sanity, Tidy, NEW w \in Workers, Crash(w)
    PROVE  Tidy'
<1>1. /\ lock' = [r \in Rows |-> IF lock[r] \in PoolOf[w] THEN Nobody ELSE lock[r]]
      /\ session' = [c \in Conns |-> IF c \in PoolOf[w] THEN "idle" ELSE session[c]]
      /\ worker' = [x \in Workers |-> IF PoolOf[x] = PoolOf[w] THEN Idle ELSE worker[x]]
  BY DEF Crash
<1>2. \A c \in Conns : c # Nobody  BY RootAssumption
<1>3. \A x \in Workers :
         worker'[x].conn = IF PoolOf[x] = PoolOf[w] THEN Nobody ELSE worker[x].conn
  BY <1>1 DEF Idle
<1>4. \A x \in Workers : worker'[x].conn # Nobody =>
         worker'[x].conn = worker[x].conn /\ worker[x].conn \notin PoolOf[w]
  BY <1>3, ConnOf, Pools
<1>5. \A x \in Workers : worker[x].conn \in Conns \ PoolOf[w] =>
         worker'[x].conn = worker[x].conn
  BY <1>2, <1>3, ConnOf
<1>6. Held'
  <2> SUFFICES ASSUME NEW c \in Conns
               PROVE  session'[c] # "idle"
                         <=> \E x \in Workers : worker'[x].conn = c
    BY DEF Held
  <2>1. CASE c \in PoolOf[w]  BY <1>1, <1>2, <1>4, <2>1
  <2>2. CASE c \notin PoolOf[w]
    BY <1>1, <1>2, <1>4, <1>5, <2>2 DEF Tidy, Held
  <2> QED BY <2>1, <2>2
<1>7. Alike'  BY <1>4 DEF Tidy, Alike
<1>8. Shapes' /\ Locked'
  BY <1>1 DEF Tidy, Shapes, Locked
<1> QED BY <1>6, <1>7, <1>8 DEF Tidy

LEMMA TidyInit == Init => Tidy
<1> SUFFICES ASSUME Init PROVE Tidy  OBVIOUS
<1>1. \A w \in Workers : worker[w].conn = Nobody  BY DEF Init, Idle
<1> QED BY <1>1, RootAssumption DEF Init, Tidy, Shapes, Held, Alike, Locked

LEMMA TidyNext == Sanity /\ Tidy /\ [Next]_vars => Tidy'
<1> SUFFICES ASSUME Sanity, Tidy, [Next]_vars PROVE Tidy'  OBVIOUS
<1>1. CASE UNCHANGED vars
  BY <1>1 DEF vars, mysqlVars, Tidy, Shapes, Held, Alike, Locked
<1> QED BY <1>1, Submits, Proceeds, TidyOpens, TidyGoes, TidyCloses, TidyLost,
           TidyCrash DEF Next

\* No connection and no lock is left behind, whatever fails and whoever stops.
THEOREM Leftovers == Spec => []NothingLeftBehind
BY SanityInit, SanityNext, TidyInit, TidyNext, Tidied, PTL DEF Spec

-----------------------------------------------------------------------------
(***************************************************************************)
(* An order that is about to be committed is in the image of its           *)
(* connection, as long as its session is open.                             *)
(***************************************************************************)
OrderOf(job) == [user |-> job.user, voucher |-> job.voucher]

Images == DOMAIN image = Conns /\ \A c \in Conns : DOMAIN image[c] = Rows

Pends(w) ==
    worker[w].pc = "commit" =>
        /\ worker[w].job \in Jobs
        /\ worker[w].job.name = "CreateOrder" /\ session[worker[w].conn] = "open"
              => image[worker[w].conn][OrderRow(worker[w].job.id)]
                    = OrderOf(worker[w].job)

Pending == Images /\ \A w \in Workers : Pends(w)

LEMMA OrderJob ==
    ASSUME NEW job \in Jobs, job.name = "CreateOrder"
    PROVE  /\ job.id \in OrderIDs /\ job.id # AutoID
           /\ OrderRow(job.id) \in Rows
           /\ OrderOf(job) # Unwritten
           /\ Transactional(job) /\ Steps(job) = 2
<1>1. job \in OrderJobs  BY DEF Jobs, RequestJobs
<1>2. job.id \in OrderIDs /\ job.user \in Users /\ job.voucher \in Vouchers
  BY <1>1 DEF OrderJobs
<1>3. OrderOf(job) \in [user : Users, voucher : Vouchers]  BY <1>2 DEF OrderOf
<1> QED BY <1>2, <1>3, RowAssumption DEF OrderRow, Rows, Transactional, Steps

LEMMA ImagesNext == Images /\ [Next]_vars => Images'
<1> SUFFICES ASSUME Images, [Next]_vars PROVE Images'  OBVIOUS
<1>1. ASSUME NEW c, Release(c) PROVE Images'
  BY <1>1 DEF Release, Images
<1>2. ASSUME image' = image PROVE Images'  BY <1>2 DEF Images
<1>3. ASSUME NEW w \in Workers, Execute(w) PROVE Images'
  <2>1. PICK r : image' = [image EXCEPT ![worker[w].conn][r] =
                        Written(InHand(w), Seen(worker[w].conn, r))]
    BY <1>3 DEF Execute
  <2> QED BY <2>1 DEF Images
<1>4. ASSUME NEW w \in Workers, Proceed(w) PROVE Images'
  BY <1>1, <1>2, <1>3, <1>4 DEF Proceed, Begin, Fail, ExecuteAlone, FailAlone,
                                Commit, Rollback, mysqlVars
<1>5. ASSUME NEW w \in Workers, Crash(w) PROVE Images'
  BY <1>5 DEF Crash, Images
<1>6. ASSUME NEW c \in Conns, ConnLost(c) PROVE Images'
  BY <1>1, <1>6 DEF ConnLost
<1>7. ASSUME NEW w \in Workers, NEW job, Submit(w, job) PROVE Images'
  BY <1>2, <1>7 DEF Submit, mysqlVars
<1>8. CASE UNCHANGED vars  BY <1>2, <1>8 DEF vars, mysqlVars
<1> QED BY <1>4, <1>5, <1>6, <1>7, <1>8 DEF Next

Moves(w) == Proceed(w) \/ \E job \in JobsOf(w) : Submit(w, job)

\* What a step of w leaves of another transaction.
LEMMA Spares ==
    ASSUME Sanity, Tidy, Images, NEW w \in Workers, Moves(w),
           NEW c \in Conns, c # worker[w].conn, session'[c] = "open",
           \E x \in Workers : worker[x].conn = c
    PROVE  session[c] = "open" /\ image'[c] = image[c]
<1>1. ASSUME NEW d, d # c, Release(d) PROVE image'[c] = image[c]
  BY <1>1 DEF Release, Images
<1>2. CASE \E job \in JobsOf(w) : Submit(w, job)  BY <1>2 DEF Submit, mysqlVars
<1>3. CASE Begin(w)
  BY <1>3 DEF Begin, Free, Tidy, Shapes
<1>4. CASE Execute(w)
  <2>1. PICK r : image' = [image EXCEPT ![worker[w].conn][r] =
                        Written(InHand(w), Seen(worker[w].conn, r))]
    BY <1>4 DEF Execute
  <2> QED BY <1>4, <2>1 DEF Execute, Images
<1>5. CASE Fail(w) \/ ExecuteAlone(w) \/ FailAlone(w)
  BY <1>5 DEF Fail, ExecuteAlone, FailAlone, mysqlVars
<1>6. CASE Commit(w) \/ Rollback(w)
  BY <1>1, <1>6 DEF Commit, Rollback, Tidy, Shapes
<1> QED BY <1>2, <1>3, <1>4, <1>5, <1>6 DEF Moves, Proceed

LEMMA PendsOther ==
    ASSUME Sanity, Tidy, Images, NEW w \in Workers, Moves(w),
           NEW x \in Workers \ {w}, Pends(x)
    PROVE  Pends(x)'
<1>1. worker'[x] = worker[x]
  <2>1. PICK q : worker' = [worker EXCEPT ![w] = q]
    BY Submits, Proceeds DEF Moves, Opens, Goes, Closes, Becomes
  <2> QED BY <2>1 DEF Sanity
<1>2. ASSUME worker[x].pc = "commit", session'[worker[x].conn] = "open"
      PROVE  /\ session[worker[x].conn] = "open"
             /\ image'[worker[x].conn] = image[worker[x].conn]
  <2>1. worker[x].conn \in Conns
    BY <1>2, ConnOf DEF Sanity, Sane
  <2>2. worker[x].conn # worker[w].conn
    BY <2>1, RootAssumption DEF Tidy, Alike
  <2> QED BY <1>2, <2>1, <2>2, Spares
<1> QED BY <1>1, <1>2 DEF Pends

\* The last statement of an order is its INSERT.
LEMMA PendsExecute ==
    ASSUME Sanity, Tidy, Images, NEW w \in Workers, Execute(w)
    PROVE  Pends(w)'
<1>1. PICK p \in Record : p = worker[w] /\ Sane(w, p)
  BY DEF Sanity, Sane
<1>2. p.pc = "run" /\ p.job \in Jobs /\ InHand(w).pool = p.conn
  BY <1>1 DEF Execute, Sane
<1>3. p.conn \in Conns
  <2>1. p.conn # Nobody  BY <1>1, <1>2, Sending, RootAssumption
  <2> QED BY <1>1, <2>1 DEF Record
<1>4. PICK r \in Targets(InHand(w)) :
         /\ image' = [image EXCEPT ![p.conn][r] =
                                Written(InHand(w), Seen(p.conn, r))]
         /\ worker' = [worker EXCEPT ![w].id = GivenID(w, r), ![w].step = @ + 1,
                             ![w].pc = IF LastStep(w) THEN "commit" ELSE "run"]
  BY <1>1 DEF Execute
<1>5. /\ worker'[w].job = p.job /\ worker'[w].conn = p.conn
      /\ worker'[w].pc = "commit" => LastStep(w)
  BY <1>1, <1>4 DEF Sanity, Record
<1>6. ASSUME LastStep(w), p.job.name = "CreateOrder"
      PROVE  image'[p.conn][OrderRow(p.job.id)] = OrderOf(p.job)
  <2>1. p.step = 2
    BY <1>1, <1>2, <1>6, Sending, OrderJob DEF LastStep
  <2>2. PICK st : st = InHand(w) /\ st = OrderInsert(p.q, p.job)
    BY <1>1, <1>6, <2>1, CreateOrderSound DEF InHand, ProgramOf, Program
  <2>3. /\ st.op = "insert" /\ st.key = p.job.id /\ st.row = OrderOf(p.job)
        /\ st.table = "tb_voucher_order"
    BY <2>2, OrderInsertRow, OrderInsertTable DEF OrderOf
  <2>4. r = OrderRow(p.job.id)
    <3>1. Targets(st) = {<<st.table, st.key>>}
      BY <1>2, <1>6, <2>3, OrderJob DEF Targets
    <3> QED BY <1>4, <2>2, <2>3, <3>1 DEF OrderRow
  <2>5. \A old : Written(st, old) = OrderOf(p.job)  BY <2>3 DEF Written
  <2>6. r \in Rows  BY <1>2, <1>6, <2>4, OrderJob
  <2>7. image'[p.conn][r] = OrderOf(p.job)
    BY <1>3, <1>4, <2>2, <2>5, <2>6 DEF Images
  <2> QED BY <2>4, <2>7
<1> QED BY <1>2, <1>5, <1>6 DEF Pends

LEMMA PendsSelf ==
    ASSUME Sanity, Tidy, Images, NEW w \in Workers, Moves(w)
    PROVE  Pends(w)'
<1>1. worker[w] \in Record /\ w \in DOMAIN worker  BY DEF Sanity, Sane
<1>2. Idle.pc = "idle"  BY DEF Idle
<1>3. CASE \E job \in JobsOf(w) : Submit(w, job)
  <2>1. PICK job \in JobsOf(w) : worker' = [worker EXCEPT ![w] =
             [Idle EXCEPT
                 !.pc = IF Transactional(job) THEN "begin" ELSE "run",
                 !.job = job, !.step = 1]]
    BY <1>3 DEF Submit
  <2>2. Idle \in Record  BY IdleIsSane DEF Sane
  <2>3. worker'[w].pc = IF Transactional(job) THEN "begin" ELSE "run"
    BY <1>1, <2>1, <2>2 DEF Record
  <2> QED BY <2>3 DEF Pends
<1>4. CASE Begin(w)
  <2>1. CASE Answer(w, FALSE)  BY <1>1, <1>2, <2>1 DEF Answer, Pends
  <2>2. ASSUME NEW c, worker' = [worker EXCEPT ![w].pc = "run", ![w].conn = c,
                                               ![w].q = Clone(Use, c)]
        PROVE  Pends(w)'
    <3>1. worker'[w].pc = "run"  BY <1>1, <2>2 DEF Record
    <3> QED BY <3>1 DEF Pends
  <2> QED BY <1>4, <2>1, <2>2 DEF Begin
<1>5. CASE Execute(w)  BY <1>5, PendsExecute
<1>6. CASE Fail(w)
  BY <1>1, <1>6 DEF Fail, Goto, Pends, Record
<1>7. CASE ExecuteAlone(w) \/ FailAlone(w)
  BY <1>1, <1>2, <1>7, Alone DEF ExecuteAlone, FailAlone, After, Answer, Pends
<1>8. CASE Commit(w) \/ Rollback(w)
  BY <1>1, <1>2, <1>8 DEF Commit, Rollback, Answer, Pends
<1> QED BY <1>3, <1>4, <1>5, <1>6, <1>7, <1>8 DEF Moves, Proceed

LEMMA PendingNext == Sanity /\ Tidy /\ Pending /\ [Next]_vars => Pending'
<1> SUFFICES ASSUME Sanity, Tidy, Pending, [Next]_vars,
                    NEW x \in Workers
             PROVE  Pends(x)'
  BY ImagesNext DEF Pending
<1>1. ASSUME NEW w \in Workers, Moves(w) PROVE Pends(x)'
  BY <1>1, PendsOther, PendsSelf DEF Pending
<1>3. ASSUME NEW c \in Conns, ConnLost(c) PROVE Pends(x)'
  <2>1. /\ worker' = worker /\ session' = [session EXCEPT ![c] = "lost"]
        /\ image' = [image EXCEPT ![c] = [r \in Rows |-> Unwritten]]
    BY <1>3 DEF ConnLost, Release
  <2>2. \A d \in Conns : session'[d] = "open" =>
           session[d] = "open" /\ image'[d] = image[d]
    BY <2>1 DEF Tidy, Shapes, Pending, Images
  <2>3. worker[x].pc = "commit" => worker[x].conn \in Conns
    BY ConnOf DEF Sanity, Sane
  <2> QED BY <2>1, <2>2, <2>3 DEF Pending, Pends
<1>4. ASSUME NEW w \in Workers, Crash(w) PROVE Pends(x)'
  <2>1. CASE PoolOf[x] = PoolOf[w]
    BY <1>4, <2>1 DEF Crash, Pends, Idle
  <2>2. CASE PoolOf[x] # PoolOf[w]
    <3>1. worker'[x] = worker[x]  BY <1>4, <2>2 DEF Crash
    <3>2. worker[x].pc = "commit" => worker[x].conn \in Conns \ PoolOf[w]
      BY <2>2, ConnOf, Pools DEF Sanity, Sane
    <3>3. \A d \in Conns \ PoolOf[w] :
             session'[d] = session[d] /\ image'[d] = image[d]
      BY <1>4 DEF Crash
    <3> QED BY <3>1, <3>2, <3>3 DEF Pending, Pends
  <2> QED BY <2>1, <2>2
<1>5. CASE UNCHANGED vars
  BY <1>5 DEF vars, mysqlVars, Pending, Pends
<1> QED BY <1>1, <1>3, <1>4, <1>5 DEF Next, Moves

LEMMA PendingInit == Init => Pending
BY DEF Init, Pending, Images, Pends, Idle

LEMMA CommitStores ==
    ASSUME Sanity, Tidy, Pending, NEW w \in Workers, Commit(w),
           answered' = w, worker[w].job.name = "CreateOrder"
    PROVE  db'[OrderRow(worker[w].job.id)] = OrderOf(worker[w].job)
<1>1. worker[w].pc = "commit" /\ worker[w].job \in Jobs
  BY DEF Commit, Pending, Pends
<1>2. session[worker[w].conn] = "open" /\ db' = Overlay(worker[w].conn)
  BY RootAssumption DEF Commit, Answer
<1>3. image[worker[w].conn][OrderRow(worker[w].job.id)] = OrderOf(worker[w].job)
  BY <1>1, <1>2 DEF Pending, Pends
<1> QED BY <1>1, <1>2, <1>3, OrderJob DEF Overlay, Seen

LEMMA NextStores ==
    ASSUME Sanity, Tidy, Pending, Next, NEW w \in Workers,
           answered' = w, worker[w].job.name = "CreateOrder"
    PROVE  db'[OrderRow(worker[w].job.id)] = OrderOf(worker[w].job)
<1>1. answered' # Nobody  BY RootAssumption
<1>2. ASSUME NEW x \in Workers, Proceed(x)
      PROVE  Commit(w)
  <2>1. ~Begin(x) /\ ~Execute(x) /\ ~Fail(x) /\ ~Rollback(x)
    BY <1>1 DEF Begin, Execute, Fail, Rollback, Answer, Goto
  <2>2. CASE ExecuteAlone(x) \/ FailAlone(x)
    <3>1. worker[x].conn = Nobody /\ ~Transactional(worker[x].job)
      BY <2>2, Alone
    <3>2. x = w
      BY <1>1, <2>2, <3>1 DEF ExecuteAlone, FailAlone, After, Answer
    <3> QED BY <3>1, <3>2 DEF Transactional
  <2>3. CASE Commit(x)
    BY <1>1, <2>3 DEF Commit, Answer
  <2> QED BY <1>2, <2>1, <2>2, <2>3 DEF Proceed
<1>3. \A x \in Workers : ~Crash(x) /\ \A job : ~Submit(x, job)
  BY <1>1 DEF Crash, Submit
<1>4. \A c \in Conns : ~ConnLost(c)  BY <1>1 DEF ConnLost
<1> QED BY <1>2, <1>3, <1>4, CommitStores DEF Next

\* A caller that is answered without an error finds its order in MySQL.
THEOREM Stored == Spec => AnsweredIsStored
<1>1. Sanity /\ Tidy /\ Pending /\ [Next]_vars =>
        [\A w \in Workers :
            LET j == worker[w].job
            IN  answered' = w /\ j.name = "CreateOrder" =>
                  db'[OrderRow(j.id)] = [user |-> j.user, voucher |-> j.voucher]
        ]_vars
  BY NextStores DEF OrderOf
<1> QED BY <1>1, SanityInit, SanityNext, TidyInit, TidyNext, PendingInit,
           PendingNext, PTL DEF Spec, AnsweredIsStored

-----------------------------------------------------------------------------
(***************************************************************************)
(* What an open transaction has written.  Only the connection that holds   *)
(* the lock of a row has an image of it, and the image is that of the      *)
(* statements its worker has executed, over rows nobody else changes.      *)
(***************************************************************************)
Guarded ==
    \A c \in Conns, r \in Rows : image[c][r] # Unwritten => lock[r] = c

\* The rows of the two statements of a transaction.
First(p) == IF p.job.name = "CreateOrder" THEN StockRow(p.job.voucher)
                                          ELSE VoucherRow(p.id)
Second(p) == IF p.job.name = "CreateOrder" THEN OrderRow(p.job.id)
                                           ELSE StockRow(p.id)

FirstDone(p) ==
    IF p.job.name = "CreateOrder"
    THEN /\ db[First(p)] \in Int /\ db[First(p)] > 0
         /\ image[p.conn][First(p)] = db[First(p)] - 1
    ELSE /\ p.id \in Vouchers
         /\ db[First(p)] = NoRow
         /\ image[p.conn][First(p)] = 1

SecondDone(p) ==
    /\ db[Second(p)] = NoRow
    /\ image[p.conn][Second(p)] = IF p.job.name = "CreateOrder"
                                  THEN OrderOf(p.job) ELSE p.job.stock

Draft(p) ==
    /\ p.job \in Jobs /\ Transactional(p.job)
    /\ p.step \in 1 .. 3
    /\ p.pc = "commit" => p.step = 3
    /\ \A r \in Rows : image[p.conn][r] # Unwritten =>
          (p.step > 1 /\ r = First(p)) \/ (p.step > 2 /\ r = Second(p))
    /\ p.step > 1 => FirstDone(p)
    /\ p.step > 2 => SecondDone(p)

Drafted(p) ==
    /\ p.pc = "begin" => p.step = 1
    /\ p.conn # Nobody /\ session[p.conn] = "open" => Draft(p)

Drafts == \A w \in Workers : \A p : p = worker[w] => Drafted(p)

\* The committed rows are rows of their tables.
Data ==
    /\ DOMAIN db = Rows
    /\ \A r \in Rows : db[r] \in Row(r) \cup {NoRow}
    /\ assigned \subseteq Vouchers

LEMMA Numbers == \A n \in Int : n # NoRow /\ n # Unwritten
BY RowAssumption

\* The jobs of transactions.
LEMMA TransactionJob ==
    ASSUME NEW job \in Jobs, Transactional(job)
    PROVE  /\ Steps(job) = 2
           /\ job.name # "CreateOrder" =>
                 job.name = "CreateSeckillVoucher" /\ job.stock \in Stocks
           /\ job.name = "CreateOrder" =>
                 job.id \in OrderIDs /\ job.user \in Users /\ job.voucher \in Vouchers
BY DEF Jobs, OrderJobs, RequestJobs, Transactional, Steps

LEMMA RowNames ==
    /\ \A v \in Vouchers : /\ VoucherRow(v) \in Rows /\ StockRow(v) \in Rows
                           /\ VoucherRow(v)[1] = "tb_voucher"
                           /\ StockRow(v)[1] = "tb_seckill_voucher"
                           /\ VoucherRow(v)[2] = v
    /\ \A id \in OrderIDs : OrderRow(id) \in Rows /\ OrderRow(id)[1] = "tb_voucher_order"
    /\ \A v, x : VoucherRow(v) # StockRow(x) /\ VoucherRow(v) # OrderRow(x)
                 /\ StockRow(v) # OrderRow(x)
    /\ \A v, x : /\ VoucherRow(v) = VoucherRow(x) => v = x
                 /\ StockRow(v) = StockRow(x) => v = x
                 /\ OrderRow(v) = OrderRow(x) => v = x
BY DEF VoucherRow, StockRow, OrderRow, Rows

LEMMA RowTypes ==
    /\ \A v \in Vouchers : /\ Row(VoucherRow(v)) = {0, 1}
                           /\ Row(StockRow(v)) = Int
    /\ \A id \in OrderIDs : Row(OrderRow(id)) = [user : Users, voucher : Vouchers]
    /\ \A r \in Rows : r[1] = "tb_shop" => Row(r) = {"shop"}
BY DEF VoucherRow, StockRow, OrderRow, Row

LEMMA WhichRow ==
    ASSUME NEW r \in Rows
    PROVE  \/ \E v \in Vouchers : r = VoucherRow(v)
           \/ \E v \in Vouchers : r = StockRow(v)
           \/ \E id \in OrderIDs : r = OrderRow(id)
           \/ r[1] = "tb_shop"
BY DEF VoucherRow, StockRow, OrderRow, Rows

\* The rows a draft has written are rows, and written.
LEMMA DraftRows ==
    ASSUME NEW p, Draft(p)
    PROVE  /\ First(p) # Second(p)
           /\ p.step > 1 => First(p) \in Rows /\ image[p.conn][First(p)] # Unwritten
           /\ p.step > 2 => Second(p) \in Rows /\ image[p.conn][Second(p)] # Unwritten
<1>1. First(p) # Second(p)  BY RowNames DEF First, Second
<1>2. PICK job \in Jobs : job = p.job /\ Transactional(job)  BY DEF Draft
<1>3. CASE job.name = "CreateOrder"
  <2>1. job.id \in OrderIDs /\ job.voucher \in Vouchers /\ OrderOf(job) # Unwritten
    BY <1>2, <1>3, TransactionJob, OrderJob
  <2>2. First(p) \in Rows /\ Second(p) \in Rows
    BY <1>2, <1>3, <2>1, RowNames DEF First, Second
  <2>3. p.step > 1 => image[p.conn][First(p)] \in Int
    BY <1>2, <1>3 DEF Draft, FirstDone
  <2>4. p.step > 2 => image[p.conn][Second(p)] # Unwritten
    BY <1>2, <1>3, <2>1 DEF Draft, SecondDone
  <2> QED BY <1>1, <2>2, <2>3, <2>4, Numbers
<1>4. CASE job.name # "CreateOrder"
  <2>1. job.stock \in Int
    BY <1>2, <1>4, TransactionJob, StocksAssumption
  <2>2. p.step > 1 => p.id \in Vouchers /\ image[p.conn][First(p)] = 1
    BY <1>2, <1>4 DEF Draft, FirstDone
  <2>3. p.step > 2 => image[p.conn][Second(p)] = job.stock
    BY <1>2, <1>4 DEF Draft, SecondDone
  <2>4. p.step \in Int  BY DEF Draft
  <2> QED BY <1>1, <1>2, <1>4, <2>1, <2>2, <2>3, <2>4, RowNames, Numbers
             DEF First, Second
<1> QED BY <1>3, <1>4

LEMMA GuardedNext == Sanity /\ Tidy /\ Images /\ Guarded /\ [Next]_vars => Guarded'
<1> SUFFICES ASSUME Sanity, Tidy, Images, Guarded, [Next]_vars PROVE Guarded'
  OBVIOUS
<1>1. ASSUME NEW c, Release(c) PROVE Guarded'
  BY <1>1 DEF Release, Images, Guarded
<1>2. ASSUME image' = image, lock' = lock PROVE Guarded'
  BY <1>2 DEF Guarded
<1>3. ASSUME NEW w \in Workers, Execute(w) PROVE Guarded'
  <2>1. PICK c, r : /\ image' = [image EXCEPT ![c][r] =
                                Written(InHand(w), Seen(c, r))]
                    /\ lock' = [lock EXCEPT ![r] = c]
                    /\ Unlocked(r, c) /\ c = worker[w].conn
    BY <1>3 DEF Execute
  <2>2. lock[r] \in {Nobody, c}  BY <2>1 DEF Unlocked
  <2>3. SUFFICES ASSUME NEW d \in Conns, NEW s \in Rows, image'[d][s] # Unwritten
                 PROVE  lock'[s] = d
    BY DEF Guarded
  <2>4. d # Nobody /\ lock'[s] = IF s = r THEN c ELSE lock[s]
    BY <2>1, RootAssumption DEF Tidy, Shapes
  <2>5. CASE d = c /\ s = r  BY <2>4, <2>5
  <2>6. CASE ~(d = c /\ s = r)
    <3>1. image'[d][s] = image[d][s]  BY <2>1, <2>6 DEF Images
    <3>2. lock[s] = d  BY <2>3, <3>1 DEF Guarded
    <3> QED BY <2>2, <2>4, <2>6, <3>2
  <2> QED BY <2>5, <2>6
<1>4. ASSUME NEW w \in Workers, Proceed(w) PROVE Guarded'
  BY <1>1, <1>2, <1>3, <1>4 DEF Proceed, Begin, Fail, ExecuteAlone, FailAlone,
                                Commit, Rollback, mysqlVars
<1>5. ASSUME NEW w \in Workers, Crash(w) PROVE Guarded'
  <2>1. \A c \in Conns : c # Nobody  BY RootAssumption
  <2> QED BY <1>5, <2>1 DEF Crash, Guarded
<1>6. ASSUME NEW c \in Conns, ConnLost(c) PROVE Guarded'
  BY <1>1, <1>6 DEF ConnLost
<1>7. ASSUME NEW w \in Workers, NEW job, Submit(w, job) PROVE Guarded'
  BY <1>2, <1>7 DEF Submit, mysqlVars
<1>8. CASE UNCHANGED vars  BY <1>2, <1>8 DEF vars, mysqlVars
<1> QED BY <1>4, <1>5, <1>6, <1>7, <1>8 DEF Next

\* A connection whose session is not open has written nothing.
LEMMA BlankUnlessOpen ==
    ASSUME Tidy, Guarded, NEW c \in Conns, session[c] # "open"
    PROVE  \A r \in Rows : image[c][r] = Unwritten
<1>1. c # Nobody  BY RootAssumption
<1> QED BY <1>1 DEF Tidy, Locked, Guarded

\* A row that is locked is changed by no other connection.
LEMMA LockedStays ==
    ASSUME Sanity, Tidy, Images, Guarded, DOMAIN db = Rows,
           NEW w \in Workers, Moves(w),
           NEW c \in Conns, c # worker[w].conn, NEW r \in Rows, lock[r] = c
    PROVE  db'[r] = db[r]
<1>1. CASE ExecuteAlone(w)
  <2>1. PICK d, s :
           /\ d \in Free(w) /\ Unlocked(s, d)
           /\ db' = [db EXCEPT ![s] = Written(InHand(w), db[s])]
    BY <1>1 DEF ExecuteAlone
  <2>2. d \in Conns /\ \A x \in Workers : worker[x].conn # d
    BY <2>1, Pools DEF Free
  <2>3. session[d] = "idle"  BY <2>2 DEF Tidy, Held
  <2>4. c # Nobody  BY RootAssumption
  <2>5. session[c] = "open"  BY <2>4 DEF Tidy, Locked
  <2>6. lock[s] \in {Nobody, d}  BY <2>1 DEF Unlocked
  <2>7. r # s  BY <2>3, <2>4, <2>5, <2>6
  <2> QED BY <2>1, <2>7
<1>2. CASE Commit(w)
  <2>1. db' = Overlay(worker[w].conn) \/ db' = db  BY <1>2 DEF Commit
  <2>2. worker[w].conn \in Conns  BY <1>2, Ends DEF Closes
  <2>3. image[worker[w].conn][r] = Unwritten  BY <2>2 DEF Guarded
  <2> QED BY <2>1, <2>3 DEF Overlay, Seen
<1>3. CASE ~ExecuteAlone(w) /\ ~Commit(w)
  BY <1>3 DEF Moves, Proceed, Submit, Begin, Execute, Fail, FailAlone, Rollback,
              mysqlVars
<1> QED BY <1>1, <1>2, <1>3

\* A draft is as it was when its rows are.
LEMMA DraftStays ==
    ASSUME NEW p, Draft(p), image'[p.conn] = image[p.conn],
           \A r \in Rows : image[p.conn][r] # Unwritten => db'[r] = db[r]
    PROVE  Draft(p)'
<1>1. /\ p.step > 1 => db'[First(p)] = db[First(p)]
      /\ p.step > 2 => db'[Second(p)] = db[Second(p)]
  BY DraftRows
<1>2. First(p)' = First(p) /\ Second(p)' = Second(p)
  BY DEF First, Second, StockRow, VoucherRow, OrderRow
<1>3. p.step > 1 => FirstDone(p)'
  BY <1>1, <1>2 DEF Draft, FirstDone
<1>4. p.step > 2 => SecondDone(p)'
  BY <1>1, <1>2 DEF Draft, SecondDone
<1> QED BY <1>2, <1>3, <1>4 DEF Draft

\* Nor does it matter that its worker learns of a failure.
LEMMA DraftFails ==
    ASSUME NEW p \in Record, NEW q \in Record, Draft(p),
           q = [p EXCEPT !.pc = "rollback"]
    PROVE  Draft(q)
<1>1. /\ q.job = p.job /\ q.step = p.step /\ q.id = p.id /\ q.conn = p.conn
      /\ q.pc # "commit"
  BY DEF Record
<1>2. First(q) = First(p) /\ Second(q) = Second(p)
  BY <1>1 DEF First, Second
<1>3. /\ FirstDone(p) => FirstDone(q)
      /\ SecondDone(p) => SecondDone(q)
  BY <1>1, <1>2 DEF FirstDone, SecondDone
<1> QED BY <1>1, <1>2, <1>3 DEF Draft

LEMMA DraftedOther ==
    ASSUME Sanity, Tidy, Images, Guarded, Data, Drafts,
           NEW w \in Workers, Moves(w), NEW x \in Workers \ {w},
           NEW p, p = worker'[x]
    PROVE  Drafted(p)'
<1>1. p = worker[x]
  <2>1. PICK q : worker' = [worker EXCEPT ![w] = q]
    BY Submits, Proceeds DEF Moves, Opens, Goes, Closes, Becomes
  <2> QED BY <2>1 DEF Sanity
<1>2. Drafted(p)  BY <1>1 DEF Drafts
<1>3. ASSUME p.conn # Nobody, session'[p.conn] = "open" PROVE Draft(p)'
  <2>1. p.conn \in Conns  BY <1>1, <1>3, ConnOf
  <2>2. p.conn # worker[w].conn
    BY <1>1, <1>3 DEF Tidy, Alike
  <2>3. session[p.conn] = "open" /\ image'[p.conn] = image[p.conn]
    BY <1>1, <1>3, <2>1, <2>2, Spares
  <2>4. Draft(p)  BY <1>2, <1>3, <2>3 DEF Drafted
  <2>5. \A r \in Rows : image[p.conn][r] # Unwritten => db'[r] = db[r]
    BY <2>1, <2>2, LockedStays DEF Guarded, Data
  <2> QED BY <2>3, <2>4, <2>5, DraftStays
<1>4. p.pc = "begin" => p.step = 1  BY <1>2 DEF Drafted
<1> QED BY <1>3, <1>4 DEF Drafted

\* The statements of the two transactions.
LEMMA SeckillStatements ==
    ASSUME NEW job, job.name = "CreateSeckillVoucher", NEW q, NEW id
    PROVE  /\ Program(job, q, id)[1].op = "insert"
           /\ Program(job, q, id)[1].key = AutoID
           /\ Program(job, q, id)[1].row = 1
           /\ Program(job, q, id)[2].op = "insert"
           /\ Program(job, q, id)[2].table = "tb_seckill_voucher"
           /\ Program(job, q, id)[2].key = id
           /\ Program(job, q, id)[2].row = job.stock
<1> DEFINE st == NewVoucher(q, 1)
           su == Create(WithContext(q, "tb_seckill_voucher"), id,
                        {"voucher_id", "stock"}, job.stock)
<1>1. st.op = "insert" /\ st.key = AutoID /\ st.row = 1
  BY DEF NewVoucher, Create, Statement
<1>2. /\ su.op = "insert" /\ su.table = "tb_seckill_voucher"
      /\ su.key = id /\ su.row = job.stock
  BY DEF Create, Statement, WithContext
<1>3. Program(job, q, id) = <<st, su>>
  BY DEF Program, CreateSeckillVoucher
<1> HIDE DEF st, su
<1> QED BY <1>1, <1>2, <1>3

LEMMA OrderStatements ==
    ASSUME NEW job, job.name = "CreateOrder", NEW q, NEW id
    PROVE  /\ Program(job, q, id)[1].op = "addStock"
           /\ Program(job, q, id)[1].table = "tb_seckill_voucher"
           /\ Program(job, q, id)[1].key = job.voucher
           /\ Program(job, q, id)[1].row = -1
           /\ Program(job, q, id)[1].inStock
           /\ Program(job, q, id)[2] = OrderInsert(q, job)
<1> DEFINE st == UpdateStock(WhereInStock(Where(
                    WithContext(q, "tb_seckill_voucher"), job.voucher)), -1)
<1>1. /\ st.op = "addStock" /\ st.table = "tb_seckill_voucher"
      /\ st.key = job.voucher /\ st.row = -1 /\ st.inStock
  BY DEF UpdateStock, Statement, WhereInStock, Where, WithContext
<1> HIDE DEF st
<1>2. Program(job, q, id) = <<st, OrderInsert(q, job)>>
  BY DEF Program, CreateVoucherOrderAndReduceStock, OrderInsert, st
<1> QED BY <1>1, <1>2

\* What a statement of a transaction makes of its draft.
LEMMA DraftBegins ==
    ASSUME Images, NEW p, NEW q, Draft(p), p.step = 1, p.conn \in Conns,
           q.job = p.job, q.conn = p.conn, q.step = 2, q.pc = "run",
           NEW value, image' = [image EXCEPT ![p.conn][First(q)] = value],
           FirstDone(q)'
    PROVE  Draft(q)'
<1>1. \A r \in Rows : image[p.conn][r] = Unwritten  BY DEF Draft
<1>2. \A r \in Rows : image'[p.conn][r] # Unwritten => r = First(q)
  BY <1>1 DEF Images
<1>3. First(q)' = First(q)  BY DEF First, StockRow, VoucherRow
<1> QED BY <1>2, <1>3 DEF Draft

LEMMA DraftEnds ==
    ASSUME Images, NEW p, NEW q, Draft(p), p.step = 2, p.conn \in Conns,
           q.job = p.job, q.conn = p.conn, q.step = 3, q.id = p.id,
           NEW value, image' = [image EXCEPT ![p.conn][Second(q)] = value],
           SecondDone(q)', db' = db
    PROVE  Draft(q)'
<1>1. First(q) = First(p) /\ Second(q) = Second(p)  BY DEF First, Second
<1>2. First(p) # Second(p) /\ First(p) \in Rows  BY DraftRows
<1>3. image'[p.conn][First(p)] = image[p.conn][First(p)]
  BY <1>1, <1>2 DEF Images
<1>4. First(q)' = First(q) /\ Second(q)' = Second(q)
  BY DEF First, Second, StockRow, VoucherRow, OrderRow
<1>5. FirstDone(q)'
  BY <1>1, <1>3, <1>4 DEF Draft, FirstDone
<1>6. \A r \in Rows : image'[p.conn][r] # Unwritten => r = First(p) \/ r = Second(p)
  BY <1>1 DEF Draft, Images
<1> QED BY <1>1, <1>4, <1>5, <1>6 DEF Draft

\* One statement: its target, what it finds there and what it writes.
LEMMA InsertFinds ==
    ASSUME NEW st, st.op = "insert", NEW old, Accepted(st, old)
    PROVE  old = NoRow /\ Written(st, old) = st.row
BY DEF Accepted, Written

LEMMA UpdateFinds ==
    ASSUME NEW st, st.op = "addStock", st.inStock, st.row = -1,
           NEW old \in Int \cup {NoRow}, Accepted(st, old)
    PROVE  old \in Int /\ old > 0 /\ Written(st, old) = old - 1
BY DEF Accepted, Affects, Written

LEMMA TargetsOne ==
    ASSUME NEW st, st.key # AutoID, NEW r \in Targets(st)
    PROVE  r = <<st.table, st.key>>
BY DEF Targets

\* The row of the last statement a draft has executed.
Touched(p) == IF p.step = 2 THEN First(p) ELSE Second(p)

LEMMA DraftExecute ==
    ASSUME Sanity, Tidy, Images, Guarded, Data, Drafts,
           NEW w \in Workers, Execute(w), NEW q, q = worker'[w]
    PROVE  /\ Draft(q)'
           /\ q.step \in {2, 3} /\ q.conn = worker[w].conn
           /\ lock' = [lock EXCEPT ![Touched(q)] = q.conn]
           /\ \E value : image' = [image EXCEPT ![q.conn][Touched(q)] = value]
<1>1. PICK p \in Record : p = worker[w] /\ Sane(w, p)
  BY DEF Sanity, Sane
<1>2. p.pc = "run" /\ InHand(w).pool = p.conn /\ session[p.conn] = "open"
  BY <1>1 DEF Execute
<1>3. p.conn # Nobody /\ p.conn \in Conns
  <2>1. p.conn # Nobody  BY <1>1, <1>2, Sending, RootAssumption
  <2> QED BY <1>1, <2>1 DEF Record
<1>4. Draft(p)  BY <1>1, <1>2, <1>3 DEF Drafts, Drafted
<1>5. p.job \in Jobs /\ Transactional(p.job) /\ p.step \in {1, 2}
  <2>1. p.job \in Jobs /\ Transactional(p.job) /\ p.step \in 1 .. Steps(p.job)
    BY <1>1, <1>2, <1>4 DEF Sane, Draft
  <2> QED BY <2>1, TransactionJob
<1>6. PICK st : st = InHand(w) /\ st = Program(p.job, p.q, p.id)[p.step]
  BY <1>1 DEF InHand, ProgramOf
<1>7. PICK r \in Targets(st) :
         /\ Accepted(st, Seen(p.conn, r))
         /\ image' = [image EXCEPT ![p.conn][r] = Written(st, Seen(p.conn, r))]
         /\ worker' = [worker EXCEPT ![w].id = GivenID(w, r), ![w].step = @ + 1,
                             ![w].pc = IF LastStep(w) THEN "commit" ELSE "run"]
         /\ lock' = [lock EXCEPT ![r] = p.conn]
         /\ db' = db
  BY <1>1, <1>6 DEF Execute
<1>8. /\ q.job = p.job /\ q.conn = p.conn /\ q.step = p.step + 1
      /\ q.id = GivenID(w, r)
      /\ q.pc = IF LastStep(w) THEN "commit" ELSE "run"
  BY <1>1, <1>7 DEF Sanity, Record
<1>9. LastStep(w) <=> p.step = 2
  BY <1>1, <1>2, <1>5, Sending, TransactionJob DEF LastStep
<1>10. GivenID(w, r) = IF st.key = AutoID THEN r[2] ELSE p.id
  BY <1>1, <1>6 DEF GivenID
<1>11. CASE p.step = 1
  <2>1. \A s \in Rows : Seen(p.conn, s) = db[s]
    BY <1>4, <1>11 DEF Draft, Seen
  <2>2. q.step = 2 /\ q.pc = "run"  BY <1>8, <1>9, <1>11
  <2>3. CASE p.job.name = "CreateOrder"
    <3>1. p.job.voucher \in Vouchers /\ p.job.voucher # AutoID
      BY <1>5, <2>3, TransactionJob, RowAssumption
    <3>2. /\ st.op = "addStock" /\ st.table = "tb_seckill_voucher"
          /\ st.key = p.job.voucher /\ st.row = -1 /\ st.inStock
      BY <1>6, <1>11, <2>3, OrderStatements
    <3>3. r = StockRow(p.job.voucher)
      BY <3>1, <3>2, TargetsOne DEF StockRow
    <3>4. r \in Rows /\ db[r] \in Int \cup {NoRow}
      BY <3>1, <3>3, RowNames, RowTypes DEF Data
    <3>5. db[r] \in Int /\ db[r] > 0 /\ Written(st, db[r]) = db[r] - 1
      BY <1>7, <2>1, <3>2, <3>4, UpdateFinds
    <3>6. image'[p.conn][r] = db[r] - 1
      BY <1>3, <1>7, <2>1, <3>4, <3>5 DEF Images
    <3>7. First(q) = r  BY <1>8, <2>3, <3>3 DEF First
    <3>8. FirstDone(q)'
      <4>1. First(q)' = First(q)  BY DEF First, StockRow, VoucherRow
      <4> QED BY <1>7, <1>8, <2>3, <3>5, <3>6, <3>7, <4>1 DEF FirstDone
    <3>9. Draft(q)'
      BY <1>3, <1>4, <1>7, <1>8, <1>11, <2>2, <3>7, <3>8, DraftBegins
    <3>10. Touched(q) = r  BY <2>2, <3>7 DEF Touched
    <3> QED BY <1>1, <1>7, <1>8, <2>2, <3>9, <3>10
  <2>4. CASE p.job.name # "CreateOrder"
    <3>1. p.job.name = "CreateSeckillVoucher"
      BY <1>5, <2>4, TransactionJob
    <3>2. st.op = "insert" /\ st.key = AutoID /\ st.row = 1
      BY <1>6, <1>11, <3>1, SeckillStatements
    <3>3. PICK v \in Vouchers : r = VoucherRow(v)
      BY <1>7, <3>2, TargetsAuto
    <3>4. r \in Rows /\ q.id = v  BY <1>8, <1>10, <3>2, <3>3, RowNames
    <3>5. db[r] = NoRow /\ Written(st, db[r]) = 1
      BY <1>7, <2>1, <3>2, <3>4, InsertFinds
    <3>6. image'[p.conn][r] = 1
      BY <1>3, <1>7, <2>1, <3>4, <3>5 DEF Images
    <3>7. First(q) = r  BY <1>8, <2>4, <3>3, <3>4 DEF First
    <3>8. FirstDone(q)'
      <4>1. First(q)' = First(q)  BY DEF First, StockRow, VoucherRow
      <4> QED BY <1>7, <1>8, <2>4, <3>4, <3>5, <3>6, <3>7, <4>1 DEF FirstDone
    <3>9. Draft(q)'
      BY <1>3, <1>4, <1>7, <1>8, <1>11, <2>2, <3>7, <3>8, DraftBegins
    <3>10. Touched(q) = r  BY <2>2, <3>7 DEF Touched
    <3> QED BY <1>1, <1>7, <1>8, <2>2, <3>9, <3>10
  <2> QED BY <2>3, <2>4
<1>12. CASE p.step = 2
  <2>1. First(p) # Second(p)  BY <1>4, DraftRows
  <2>2. \A s \in Rows : s = Second(p) => Seen(p.conn, s) = db[s]
    BY <1>4, <1>12, <2>1 DEF Draft, Seen
  <2>3. q.step = 3  BY <1>8, <1>12
  <2>4. CASE p.job.name = "CreateOrder"
    <3>1. p.job.id \in OrderIDs /\ p.job.id # AutoID
      BY <1>5, <2>4, OrderJob
    <3>2. st = OrderInsert(p.q, p.job)
      BY <1>6, <1>12, <2>4, OrderStatements
    <3>3. /\ st.op = "insert" /\ st.table = "tb_voucher_order"
          /\ st.key = p.job.id /\ st.row = OrderOf(p.job)
      BY <3>2, OrderInsertRow, OrderInsertTable DEF OrderOf
    <3>4. r = OrderRow(p.job.id)
      BY <3>1, <3>3, TargetsOne DEF OrderRow
    <3>5. r \in Rows /\ r = Second(p) /\ q.id = p.id
      BY <1>8, <1>10, <2>4, <3>1, <3>3, <3>4, RowNames DEF Second
    <3>6. db[r] = NoRow /\ Written(st, db[r]) = OrderOf(p.job)
      BY <1>7, <2>2, <3>3, <3>5, InsertFinds
    <3>7. image'[p.conn][r] = OrderOf(p.job)
      BY <1>3, <1>7, <2>2, <3>5, <3>6 DEF Images
    <3>8. Second(q) = r  BY <1>8, <3>5 DEF Second
    <3>9. SecondDone(q)'
      <4>1. Second(q)' = Second(q)  BY DEF Second, StockRow, OrderRow
      <4>2. OrderOf(p.job)' = OrderOf(p.job)  BY DEF OrderOf
      <4> QED BY <1>7, <1>8, <2>4, <3>6, <3>7, <3>8, <4>1, <4>2 DEF SecondDone, OrderOf
    <3>10. Draft(q)'
      BY <1>3, <1>4, <1>7, <1>8, <1>12, <2>3, <3>5, <3>8, <3>9, DraftEnds
    <3>11. Touched(q) = r  BY <2>3, <3>8 DEF Touched
    <3> QED BY <1>1, <1>7, <1>8, <2>3, <3>10, <3>11
  <2>5. CASE p.job.name # "CreateOrder"
    <3>1. p.job.name = "CreateSeckillVoucher"
      BY <1>5, <2>5, TransactionJob
    <3>2. p.id \in Vouchers /\ p.id # AutoID
      BY <1>4, <1>12, <2>5, RowAssumption DEF Draft, FirstDone
    <3>3. /\ st.op = "insert" /\ st.table = "tb_seckill_voucher"
          /\ st.key = p.id /\ st.row = p.job.stock
      BY <1>6, <1>12, <3>1, SeckillStatements
    <3>4. r = StockRow(p.id)
      BY <3>2, <3>3, TargetsOne DEF StockRow
    <3>5. r \in Rows /\ r = Second(p) /\ q.id = p.id
      BY <1>8, <1>10, <2>5, <3>2, <3>3, <3>4, RowNames DEF Second
    <3>6. db[r] = NoRow /\ Written(st, db[r]) = p.job.stock
      BY <1>7, <2>2, <3>3, <3>5, InsertFinds
    <3>7. image'[p.conn][r] = p.job.stock
      BY <1>3, <1>7, <2>2, <3>5, <3>6 DEF Images
    <3>8. Second(q) = r  BY <1>8, <3>5 DEF Second
    <3>9. SecondDone(q)'
      <4>1. Second(q)' = Second(q)  BY DEF Second, StockRow, OrderRow
      <4> QED BY <1>7, <1>8, <2>5, <3>6, <3>7, <3>8, <4>1 DEF SecondDone
    <3>10. Draft(q)'
      BY <1>3, <1>4, <1>7, <1>8, <1>12, <2>3, <3>5, <3>8, <3>9, DraftEnds
    <3>11. Touched(q) = r  BY <2>3, <3>8 DEF Touched
    <3> QED BY <1>1, <1>7, <1>8, <2>3, <3>10, <3>11
  <2> QED BY <2>4, <2>5
<1> QED BY <1>5, <1>11, <1>12

\* A worker without a connection has no draft.
LEMMA DraftedIdle ==
    ASSUME NEW p, p.conn = Nobody, p.pc = "begin" => p.step = 1
    PROVE  Drafted(p)'
BY DEF Drafted

LEMMA DraftedSelf ==
    ASSUME Sanity, Tidy, Images, Guarded, Data, Drafts,
           NEW w \in Workers, Moves(w), NEW p, p = worker'[w]
    PROVE  Drafted(p)'
<1>1. PICK o \in Record : o = worker[w] /\ Sane(w, o) /\ Drafted(o)
  BY DEF Sanity, Sane, Drafts
<1>2. Idle \in Record /\ Idle.conn = Nobody /\ Idle.pc = "idle"
  BY IdleIsSane DEF Sane, Idle
<1>3. ASSUME worker' = [worker EXCEPT ![w] = Idle] PROVE Drafted(p)'
  BY <1>2, <1>3, DraftedIdle DEF Sanity
<1>4. CASE \E job \in JobsOf(w) : Submit(w, job)
  <2>1. PICK job \in JobsOf(w) : worker' = [worker EXCEPT ![w] =
             [Idle EXCEPT
                 !.pc = IF Transactional(job) THEN "begin" ELSE "run",
                 !.job = job, !.step = 1]]
    BY <1>4 DEF Submit
  <2>2. p.conn = Nobody /\ p.step = 1  BY <1>2, <2>1 DEF Sanity, Record
  <2> QED BY <2>2, DraftedIdle
<1>5. CASE Begin(w)
  <2>1. CASE Answer(w, FALSE)  BY <1>3, <2>1 DEF Answer
  <2>2. ASSUME NEW c \in Free(w),
               worker' = [worker EXCEPT ![w].pc = "run", ![w].conn = c,
                                        ![w].q = Clone(Use, c)]
        PROVE  Drafted(p)'
    <3>1. /\ p.pc = "run" /\ p.conn = c /\ p.job = o.job /\ p.step = o.step
      BY <1>1, <2>2 DEF Sanity, Record
    <3>2. c \in Conns /\ \A x \in Workers : worker[x].conn # c
      BY Pools DEF Free
    <3>3. session[c] # "open"  BY <3>2 DEF Tidy, Held
    <3>4. image' = image  BY <1>5 DEF Begin
    <3>5. \A r \in Rows : image'[c][r] = Unwritten
      BY <3>2, <3>3, <3>4, BlankUnlessOpen
    <3>6. o.pc = "begin" /\ p.step = 1 /\ p.job \in Jobs /\ Transactional(p.job)
      BY <1>1, <1>5, <3>1 DEF Begin, Sane, Drafted
    <3>7. Draft(p)'  BY <3>1, <3>5, <3>6 DEF Draft
    <3> QED BY <3>1, <3>7 DEF Drafted
  <2> QED BY <1>5, <2>1, <2>2 DEF Begin
<1>6. CASE Execute(w)
  <2>1. p.pc # "begin"  BY <1>1, <1>6 DEF Execute, Sanity, Record
  <2> QED BY <1>6, <2>1, DraftExecute DEF Drafted
<1>7. CASE Fail(w)
  <2>1. p = [o EXCEPT !.pc = "rollback"]
    BY <1>1, <1>7 DEF Fail, Goto, Sanity
  <2>2. p \in Record /\ p.conn = o.conn /\ p.pc = "rollback"
    BY <2>1 DEF Record, Busy
  <2>3. UNCHANGED <<db, image, session>>  BY <1>7 DEF Fail, mysqlVars
  <2>4. ASSUME p.conn # Nobody, session[p.conn] = "open" PROVE Draft(p)'
    <3>1. Draft(o)  BY <1>1, <2>2, <2>4 DEF Drafted
    <3>2. Draft(p)  BY <2>1, <2>2, <3>1, DraftFails
    <3> QED BY <2>3, <3>2, DraftStays
  <2> QED BY <2>2, <2>3, <2>4 DEF Drafted
<1>8. CASE ExecuteAlone(w) \/ FailAlone(w)
  <2>1. worker' = [worker EXCEPT ![w] = Idle]
    BY <1>8, Alone DEF ExecuteAlone, FailAlone, After, Answer
  <2> QED BY <1>3, <2>1
<1>9. CASE Commit(w) \/ Rollback(w)
  <2>1. worker' = [worker EXCEPT ![w] = Idle]
    BY <1>9 DEF Commit, Rollback, Answer
  <2> QED BY <1>3, <2>1
<1> QED BY <1>4, <1>5, <1>6, <1>7, <1>8, <1>9 DEF Moves, Proceed

LEMMA DraftsNext ==
    Sanity /\ Tidy /\ Images /\ Guarded /\ Data /\ Drafts /\ [Next]_vars => Drafts'
<1> SUFFICES ASSUME Sanity, Tidy, Images, Guarded, Data, Drafts, [Next]_vars,
                    NEW x \in Workers, NEW p, p = worker'[x]
             PROVE  Drafted(p)'
  BY DEF Drafts
<1>1. ASSUME NEW w \in Workers, Moves(w) PROVE Drafted(p)'
  BY <1>1, DraftedOther, DraftedSelf
<1>2. ASSUME p = worker[x],
             p.conn # Nobody /\ session'[p.conn] = "open" =>
                 /\ session[p.conn] = "open" /\ image'[p.conn] = image[p.conn]
                 /\ db' = db
      PROVE  Drafted(p)'
  <2>1. Drafted(p)  BY <1>2 DEF Drafts
  <2>2. ASSUME p.conn # Nobody, session'[p.conn] = "open" PROVE Draft(p)'
    BY <1>2, <2>1, <2>2, DraftStays DEF Drafted
  <2> QED BY <2>1, <2>2 DEF Drafted
<1>3. ASSUME NEW c \in Conns, ConnLost(c) PROVE Drafted(p)'
  <2>1. /\ worker' = worker /\ session' = [session EXCEPT ![c] = "lost"]
        /\ image' = [image EXCEPT ![c] = [r \in Rows |-> Unwritten]]
        /\ db' = db
    BY <1>3 DEF ConnLost, Release
  <2>2. \A d \in Conns : session'[d] = "open" =>
           session[d] = "open" /\ image'[d] = image[d]
    BY <2>1 DEF Tidy, Shapes, Images
  <2>3. p = worker[x] /\ p.conn \in Conns \cup {Nobody}  BY <2>1, ConnOf
  <2> QED BY <1>2, <2>1, <2>2, <2>3
<1>4. ASSUME NEW w \in Workers, Crash(w) PROVE Drafted(p)'
  <2>1. CASE PoolOf[x] = PoolOf[w]
    <3>1. p = Idle  BY <1>4, <2>1 DEF Crash
    <3>2. p.conn = Nobody /\ p.pc = "idle"  BY <3>1 DEF Idle
    <3> QED BY <3>2, DraftedIdle
  <2>2. CASE PoolOf[x] # PoolOf[w]
    <3>1. p = worker[x] /\ db' = db  BY <1>4, <2>2 DEF Crash
    <3>2. p.conn # Nobody => p.conn \in Conns \ PoolOf[w]
      BY <2>2, <3>1, ConnOf, Pools
    <3>3. \A d \in Conns \ PoolOf[w] :
             session'[d] = session[d] /\ image'[d] = image[d]
      BY <1>4 DEF Crash
    <3> QED BY <1>2, <3>1, <3>2, <3>3
  <2> QED BY <2>1, <2>2
<1>5. CASE UNCHANGED vars
  BY <1>2, <1>5 DEF vars, mysqlVars
<1> QED BY <1>1, <1>3, <1>4, <1>5 DEF Next, Moves

-----------------------------------------------------------------------------
(***************************************************************************)
(* What a step does to the committed rows.  Rows of shops are left aside.  *)
(***************************************************************************)
KeepsBut(S) ==
    \A r \in Rows \ S : r[1] # "tb_shop" => db'[r] = db[r]

\* An ordinary voucher is created.
Lists(v) ==
    /\ KeepsBut({VoucherRow(v)})
    /\ db[VoucherRow(v)] = NoRow /\ db'[VoucherRow(v)] = 0

\* A seckill voucher is created, with its stock.
ListsSeckill(v, stock) ==
    /\ KeepsBut({VoucherRow(v), StockRow(v)})
    /\ db[VoucherRow(v)] = NoRow /\ db'[VoucherRow(v)] = 1
    /\ db[StockRow(v)] = NoRow /\ db'[StockRow(v)] = stock

\* An order is made, and takes one unit.
Sells(id, u, v) ==
    /\ KeepsBut({StockRow(v), OrderRow(id)})
    /\ db[StockRow(v)] \in Int /\ db[StockRow(v)] > 0
    /\ db'[StockRow(v)] = db[StockRow(v)] - 1
    /\ db[OrderRow(id)] = NoRow
    /\ db'[OrderRow(id)] = [user |-> u, voucher |-> v]

ShopRowsTyped == \A r \in Rows : r[1] = "tb_shop" => db[r] \in {"shop", NoRow}

Effect ==
    /\ DOMAIN db' = Rows
    /\ ShopRowsTyped'
    /\ \/ KeepsBut({})
       \/ \E v \in Vouchers : Lists(v)
       \/ \E v \in Vouchers, stock \in Stocks : ListsSeckill(v, stock)
       \/ \E id \in OrderIDs, u \in Users, v \in Vouchers : Sells(id, u, v)

LEMMA NoEffect ==
    ASSUME Data, db' = db PROVE Effect
BY RowTypes DEF Data, Effect, ShopRowsTyped, KeepsBut

\* A transaction that is committed has executed both its statements.
LEMMA CommitEffect ==
    ASSUME Sanity, Tidy, Images, Guarded, Data, Drafts,
           NEW w \in Workers, Commit(w)
    PROVE  Effect
<1>1. PICK p : p = worker[w] /\ Drafted(p)  BY DEF Drafts
<1>2. p.conn \in Conns /\ p.conn # Nobody /\ p.pc = "commit"
  <2>1. p.conn \in Conns  BY <1>1, Ends DEF Closes
  <2> QED BY <1>1, <2>1, RootAssumption DEF Commit
<1>3. CASE session[p.conn] # "open"
  BY <1>1, <1>3, NoEffect DEF Commit
<1>4. CASE session[p.conn] = "open"
  <2>1. Draft(p) /\ p.step = 3  BY <1>1, <1>2, <1>4 DEF Drafted, Draft
  <2>2. db' = Overlay(p.conn)  BY <1>1, <1>4 DEF Commit
  <2>3. DOMAIN db' = Rows  BY <2>2 DEF Overlay
  <2>4. \A r \in Rows \ {First(p), Second(p)} : db'[r] = db[r]
    BY <2>1, <2>2 DEF Overlay, Seen, Draft
  <2>5. /\ First(p) \in Rows /\ Second(p) \in Rows
        /\ db'[First(p)] = image[p.conn][First(p)]
        /\ db'[Second(p)] = image[p.conn][Second(p)]
    BY <2>1, <2>2, DraftRows DEF Overlay, Seen
  <2>6. FirstDone(p) /\ SecondDone(p)  BY <2>1 DEF Draft
  <2>7. PICK job \in Jobs : job = p.job /\ Transactional(job)
    BY <2>1 DEF Draft
  <2>8. CASE job.name = "CreateOrder"
    <3>1. job.id \in OrderIDs /\ job.user \in Users /\ job.voucher \in Vouchers
      BY <2>7, <2>8, TransactionJob
    <3>2. First(p) = StockRow(job.voucher) /\ Second(p) = OrderRow(job.id)
      BY <2>7, <2>8 DEF First, Second
    <3>3. Sells(job.id, job.user, job.voucher)
      BY <2>4, <2>5, <2>6, <2>7, <2>8, <3>2
         DEF Sells, KeepsBut, FirstDone, SecondDone, OrderOf
    <3>4. ShopRowsTyped'
      <4>1. First(p)[1] # "tb_shop" /\ Second(p)[1] # "tb_shop"
        BY <3>1, <3>2, RowNames
      <4> QED BY <2>4, <4>1, RowTypes DEF ShopRowsTyped, Data
    <3> QED BY <2>3, <3>1, <3>3, <3>4 DEF Effect
  <2>9. CASE job.name # "CreateOrder"
    <3>1. job.stock \in Stocks  BY <2>7, <2>9, TransactionJob
    <3>2. First(p) = VoucherRow(p.id) /\ Second(p) = StockRow(p.id)
      BY <2>7, <2>9 DEF First, Second
    <3>3. p.id \in Vouchers /\ ListsSeckill(p.id, job.stock)
      BY <2>4, <2>5, <2>6, <2>7, <2>9, <3>2
         DEF ListsSeckill, KeepsBut, FirstDone, SecondDone
    <3>4. ShopRowsTyped'
      <4>1. First(p)[1] # "tb_shop" /\ Second(p)[1] # "tb_shop"
        BY <3>2, <3>3, RowNames
      <4> QED BY <2>4, <4>1, RowTypes DEF ShopRowsTyped, Data
    <3> QED BY <2>3, <3>1, <3>3, <3>4 DEF Effect
  <2> QED BY <2>8, <2>9
<1> QED BY <1>3, <1>4

\* The statements that are made alone.
LEMMA SingleStatement ==
    ASSUME NEW job \in Jobs, ~Transactional(job), NEW q, NEW id
    PROVE  /\ job.name = "CreateVoucher" =>
                 /\ Program(job, q, id)[1].op = "insert"
                 /\ Program(job, q, id)[1].key = AutoID
                 /\ Program(job, q, id)[1].row = 0
           /\ job.name # "CreateVoucher" =>
                 /\ Program(job, q, id)[1].op # "addStock"
                 /\ Program(job, q, id)[1].table = "tb_shop"
                 /\ Program(job, q, id)[1].key \in Shops
                 /\ Program(job, q, id)[1].row \in {"shop", NoRow}
<1>1. CASE job.name = "CreateVoucher"
  <2> DEFINE st == NewVoucher(q, 0)
  <2>1. st.op = "insert" /\ st.key = AutoID /\ st.row = 0
    BY DEF NewVoucher, Create, Statement
  <2> HIDE DEF st
  <2>2. Program(job, q, id) = <<st>>
    BY <1>1 DEF Program, CreateVoucher, st
  <2> QED BY <1>1, <2>1, <2>2
<1>2. CASE job.name # "CreateVoucher"
  <2>1. job.name \in {"CreateShop", "UpdateShop", "DeleteShop"} /\ job.shop \in Shops
    BY <1>2 DEF Jobs, OrderJobs, RequestJobs, Transactional
  <2> DEFINE c == Create(WithContext(q, "tb_shop"), job.shop, {"id"}, "shop")
             u == Updates(Where(WithContext(q, "tb_shop"), job.shop), "shop")
             d == Delete(Where(WithContext(q, "tb_shop"), job.shop))
  <2>2. c.op = "insert" /\ c.table = "tb_shop" /\ c.key = job.shop /\ c.row = "shop"
    BY DEF Create, Statement, WithContext
  <2>3. u.op = "update" /\ u.table = "tb_shop" /\ u.key = job.shop /\ u.row = "shop"
    BY DEF Updates, Statement, Where, WithContext
  <2>4. d.op = "delete" /\ d.table = "tb_shop" /\ d.key = job.shop /\ d.row = NoRow
    BY DEF Delete, Statement, Where, WithContext
  <2> HIDE DEF c, u, d
  <2>5. Program(job, q, id) \in {<<c>>, <<u>>, <<d>>}
    BY <2>1 DEF Program, CreateShop, UpdateShop, DeleteShop, c, u, d
  <2> QED BY <1>2, <2>1, <2>2, <2>3, <2>4, <2>5
<1> QED BY <1>1, <1>2

LEMMA AloneEffect ==
    ASSUME Sanity, Data, NEW w \in Workers, ExecuteAlone(w)
    PROVE  Effect
<1>1. PICK p \in Record : p = worker[w] /\ Sane(w, p)
  BY DEF Sanity, Sane
<1>2. p.job \in Jobs /\ ~Transactional(p.job) /\ p.step = 1
  <2>1. p.pc = "run" /\ ~Transactional(p.job)  BY <1>1, Alone DEF ExecuteAlone
  <2> QED BY <1>1, <2>1 DEF Sane, Steps
<1>3. PICK st : st = InHand(w) /\ st = Program(p.job, p.q, p.id)[1]
  BY <1>1, <1>2 DEF InHand, ProgramOf
<1>4. PICK r \in Targets(st) : /\ Accepted(st, db[r])
                               /\ db' = [db EXCEPT ![r] = Written(st, db[r])]
  BY <1>3 DEF ExecuteAlone
<1>5. DOMAIN db' = Rows  BY <1>4 DEF Data
<1>6. CASE p.job.name = "CreateVoucher"
  <2>1. st.op = "insert" /\ st.key = AutoID /\ st.row = 0
    BY <1>2, <1>3, <1>6, SingleStatement
  <2>2. PICK v \in Vouchers : r = VoucherRow(v)  BY <1>4, <2>1, TargetsAuto
  <2>3. db[r] = NoRow /\ Written(st, db[r]) = 0
    BY <1>4, <2>1, InsertFinds
  <2>4. r \in Rows /\ r[1] # "tb_shop"  BY <2>2, RowNames
  <2>5. db'[r] = 0 /\ \A s \in Rows \ {r} : db'[s] = db[s]
    BY <1>4, <2>3, <2>4 DEF Data
  <2>6. Lists(v)  BY <2>2, <2>3, <2>5 DEF Lists, KeepsBut
  <2>7. ShopRowsTyped'
    BY <2>4, <2>5, RowTypes DEF ShopRowsTyped, Data
  <2> QED BY <1>5, <2>6, <2>7 DEF Effect
<1>7. CASE p.job.name # "CreateVoucher"
  <2>1. /\ st.op # "addStock" /\ st.table = "tb_shop" /\ st.key \in Shops
        /\ st.row \in {"shop", NoRow}
    BY <1>2, <1>3, <1>7, SingleStatement
  <2>2. r = <<"tb_shop", st.key>>
    BY <1>4, <2>1, TargetsOne, RowAssumption
  <2>3. r \in Rows /\ r[1] = "tb_shop"  BY <2>1, <2>2 DEF Rows
  <2>4. db[r] \in {"shop", NoRow}  BY <2>3, RowTypes DEF Data
  <2>5. Written(st, db[r]) \in {"shop", NoRow}
    BY <2>1, <2>4 DEF Written
  <2>6. \A s \in Rows \ {r} : db'[s] = db[s]
    BY <1>4 DEF Data
  <2>7. db'[r] \in {"shop", NoRow}  BY <1>4, <2>3, <2>5 DEF Data
  <2>8. ShopRowsTyped'
    BY <2>6, <2>7, RowTypes DEF ShopRowsTyped, Data
  <2>9. KeepsBut({})  BY <2>3, <2>6 DEF KeepsBut
  <2> QED BY <1>5, <2>8, <2>9 DEF Effect
<1> QED BY <1>6, <1>7

LEMMA NextEffect ==
    ASSUME Sanity, Tidy, Images, Guarded, Data, Drafts, [Next]_vars
    PROVE  Effect
<1>1. ASSUME NEW w \in Workers, Proceed(w) PROVE Effect
  <2>1. CASE ~ExecuteAlone(w) /\ ~Commit(w)
    <3>1. db' = db
      BY <1>1, <2>1 DEF Proceed, Begin, Execute, Fail, FailAlone, Rollback, mysqlVars
    <3> QED BY <3>1, NoEffect
  <2> QED BY <2>1, AloneEffect, CommitEffect
<1>2. ASSUME ~\E w \in Workers : Proceed(w) PROVE Effect
  <2>1. db' = db  BY <1>2 DEF Next, Submit, Crash, ConnLost, vars, mysqlVars
  <2> QED BY <2>1, NoEffect
<1> QED BY <1>1, <1>2

LEMMA AssignedNext ==
    ASSUME Sanity, Data, [Next]_vars
    PROVE  assigned' \subseteq Vouchers
<1>1. ASSUME NEW st, NEW r \in Targets(st), Assign(st, r)
      PROVE  assigned' \subseteq Vouchers
  <2>1. CASE st.key = AutoID
    <3>1. PICK v \in Vouchers : r = VoucherRow(v)  BY <1>1, <2>1, TargetsAuto
    <3>2. r[2] = v  BY <3>1, RowNames
    <3> QED BY <1>1, <2>1, <3>2 DEF Assign, Data
  <2>2. CASE st.key # AutoID  BY <1>1, <2>2 DEF Assign, Data
  <2> QED BY <2>1, <2>2
<1>2. ASSUME assigned' = assigned PROVE assigned' \subseteq Vouchers
  BY <1>2 DEF Data
<1>3. ASSUME NEW w \in Workers, Proceed(w) PROVE assigned' \subseteq Vouchers
  <2>1. CASE Execute(w) \/ ExecuteAlone(w)
    <3>1. \E r \in Targets(InHand(w)) : Assign(InHand(w), r)
      BY <2>1 DEF Execute, ExecuteAlone
    <3> QED BY <1>1, <3>1
  <2>2. CASE ~Execute(w) /\ ~ExecuteAlone(w)
    BY <1>2, <1>3, <2>2 DEF Proceed, Begin, Fail, FailAlone, Commit, Rollback, mysqlVars
  <2> QED BY <2>1, <2>2
<1>4. ASSUME ~\E w \in Workers : Proceed(w) PROVE assigned' \subseteq Vouchers
  BY <1>2, <1>4 DEF Next, Submit, Crash, ConnLost, vars, mysqlVars
<1> QED BY <1>3, <1>4

LEMMA DataNext ==
    Sanity /\ Tidy /\ Images /\ Guarded /\ Data /\ Drafts /\ [Next]_vars => Data'
<1> SUFFICES ASSUME Sanity, Tidy, Images, Guarded, Data, Drafts, [Next]_vars
             PROVE  Data'
  OBVIOUS
<1>1. Effect  BY NextEffect
<1>2. SUFFICES ASSUME NEW r \in Rows PROVE db'[r] \in Row(r) \cup {NoRow}
  <2>1. Rows' = Rows /\ \A r : Row(r)' = Row(r)  BY DEF Rows, Row
  <2> QED BY <1>1, <2>1, AssignedNext DEF Effect, Data
<1>3. CASE r[1] = "tb_shop"
  BY <1>1, <1>3, RowTypes DEF Effect, ShopRowsTyped
<1>4. CASE r[1] # "tb_shop"
  <2>1. db[r] \in Row(r) \cup {NoRow}  BY DEF Data
  <2>2. CASE KeepsBut({})  BY <1>4, <2>1, <2>2 DEF KeepsBut
  <2>3. ASSUME NEW v \in Vouchers, Lists(v)
        PROVE  db'[r] \in Row(r) \cup {NoRow}
    BY <1>4, <2>1, <2>3, RowTypes DEF Lists, KeepsBut
  <2>4. ASSUME NEW v \in Vouchers, NEW stock \in Stocks, ListsSeckill(v, stock)
        PROVE  db'[r] \in Row(r) \cup {NoRow}
    <3>1. stock \in Int  BY StocksAssumption
    <3> QED BY <1>4, <2>1, <2>4, <3>1, RowTypes DEF ListsSeckill, KeepsBut
  <2>5. ASSUME NEW id \in OrderIDs, NEW u \in Users, NEW v \in Vouchers, Sells(id, u, v)
        PROVE  db'[r] \in Row(r) \cup {NoRow}
    <3>1. CASE r = StockRow(v)
      BY <2>5, <3>1, RowTypes DEF Sells
    <3>2. CASE r = OrderRow(id)
      BY <2>5, <3>2, RowTypes DEF Sells
    <3>3. CASE r \notin {StockRow(v), OrderRow(id)}
      BY <1>4, <2>1, <2>5, <3>3 DEF Sells, KeepsBut
    <3> QED BY <3>1, <3>2, <3>3
  <2> QED BY <1>1, <2>2, <2>3, <2>4, <2>5 DEF Effect
<1> QED BY <1>3, <1>4

-----------------------------------------------------------------------------
(***************************************************************************)
(* The whole invariant.                                                    *)
(***************************************************************************)
Whole ==
    /\ Sanity /\ Tidy /\ Images /\ Guarded /\ Data /\ Drafts
    /\ VoucherHasItsStock
    /\ worker \in [Workers -> Record]
    /\ answered \in Workers \cup {Nobody}

LEMMA VoucherHasItsStockNext ==
    ASSUME Data, VoucherHasItsStock, Effect
    PROVE  VoucherHasItsStock'
<1>1. SUFFICES ASSUME NEW x \in Vouchers
               PROVE  db'[VoucherRow(x)] = 1 <=> db'[StockRow(x)] # NoRow
  BY DEF VoucherHasItsStock, VoucherRow, StockRow
<1>2. db[VoucherRow(x)] = 1 <=> db[StockRow(x)] # NoRow
  BY DEF VoucherHasItsStock
<1>3. /\ VoucherRow(x) \in Rows /\ VoucherRow(x)[1] # "tb_shop"
      /\ StockRow(x) \in Rows /\ StockRow(x)[1] # "tb_shop"
  BY RowNames
<1>4. CASE KeepsBut({})  BY <1>2, <1>3, <1>4 DEF KeepsBut
<1>5. ASSUME NEW v \in Vouchers, Lists(v)
      PROVE  db'[VoucherRow(x)] = 1 <=> db'[StockRow(x)] # NoRow
  <2>1. StockRow(x) # VoucherRow(v)  BY RowNames
  <2>2. db'[StockRow(x)] = db[StockRow(x)]
    BY <1>3, <1>5, <2>1 DEF Lists, KeepsBut
  <2>3. CASE x = v  BY <1>2, <1>5, <2>2, <2>3, Numbers DEF Lists
  <2>4. CASE x # v
    <3>1. VoucherRow(x) # VoucherRow(v)  BY <2>4, RowNames
    <3> QED BY <1>2, <1>3, <1>5, <2>2, <3>1 DEF Lists, KeepsBut
  <2> QED BY <2>3, <2>4
<1>6. ASSUME NEW v \in Vouchers, NEW stock \in Stocks, ListsSeckill(v, stock)
      PROVE  db'[VoucherRow(x)] = 1 <=> db'[StockRow(x)] # NoRow
  <2>1. stock # NoRow  BY StocksAssumption, Numbers
  <2>2. CASE x = v  BY <1>6, <2>1, <2>2 DEF ListsSeckill
  <2>3. CASE x # v
    <3>1. /\ VoucherRow(x) \notin {VoucherRow(v), StockRow(v)}
          /\ StockRow(x) \notin {VoucherRow(v), StockRow(v)}
      BY <2>3, RowNames
    <3> QED BY <1>2, <1>3, <1>6, <3>1 DEF ListsSeckill, KeepsBut
  <2> QED BY <2>2, <2>3
<1>7. ASSUME NEW id \in OrderIDs, NEW u \in Users, NEW v \in Vouchers, Sells(id, u, v)
      PROVE  db'[VoucherRow(x)] = 1 <=> db'[StockRow(x)] # NoRow
  <2>1. VoucherRow(x) \notin {StockRow(v), OrderRow(id)} /\ StockRow(x) # OrderRow(id)
    BY RowNames
  <2>2. db'[VoucherRow(x)] = db[VoucherRow(x)]
    BY <1>3, <1>7, <2>1 DEF Sells, KeepsBut
  <2>3. CASE x = v
    <3>1. db[StockRow(v)] \in Int /\ db'[StockRow(v)] \in Int
      BY <1>7 DEF Sells
    <3> QED BY <1>2, <2>2, <2>3, <3>1, Numbers
  <2>4. CASE x # v
    <3>1. StockRow(x) # StockRow(v)  BY <2>4, RowNames
    <3> QED BY <1>2, <1>3, <1>7, <2>1, <2>2, <3>1 DEF Sells, KeepsBut
  <2> QED BY <2>3, <2>4
<1> QED BY <1>4, <1>5, <1>6, <1>7 DEF Effect

\* The types of the workers' records, and of the answered one.
LEMMA WorkersTyped ==
    ASSUME Sanity, worker \in [Workers -> Record], answered \in Workers \cup {Nobody},
           [Next]_vars
    PROVE  worker' \in [Workers -> Record] /\ answered' \in Workers \cup {Nobody}
<1>1. ASSUME NEW w \in Workers, NEW q, Becomes(w, q)
      PROVE  worker' \in [Workers -> Record]
  BY <1>1 DEF Becomes, Sane
<1>2. ASSUME NEW w \in Workers, Moves(w)
      PROVE  worker' \in [Workers -> Record] /\ answered' \in Workers \cup {Nobody}
  <2>1. worker' \in [Workers -> Record]
    BY <1>1, <1>2, Submits, Proceeds DEF Moves, Opens, Goes, Closes
  <2>2. answered' \in {w, Nobody}
    BY <1>2 DEF Moves, Submit, Proceed, Begin, Execute, Fail, ExecuteAlone,
                FailAlone, After, Commit, Rollback, Answer, Goto
  <2> QED BY <2>1, <2>2
<1>3. ASSUME NEW w \in Workers, Crash(w)
      PROVE  worker' \in [Workers -> Record] /\ answered' \in Workers \cup {Nobody}
  <2>1. Idle \in Record  BY <1>3, IdleIsSane DEF Sane
  <2> QED BY <1>3, <2>1 DEF Crash
<1>4. CASE \E c \in Conns : ConnLost(c)  BY <1>4 DEF ConnLost
<1>5. CASE UNCHANGED vars  BY <1>5 DEF vars
<1> QED BY <1>2, <1>3, <1>4, <1>5 DEF Next, Moves

LEMMA WholeInit == Init => Whole
<1> SUFFICES ASSUME Init PROVE Whole  OBVIOUS
<1>1. Sanity /\ Tidy /\ Images  BY SanityInit, TidyInit, PendingInit DEF Pending
<1>2. Guarded  BY DEF Init, Guarded
<1>3. Data  BY DEF Init, Data
<1>4. Drafts
  <2>1. Idle.pc = "idle" /\ Idle.conn = Nobody  BY DEF Idle
  <2> QED BY <2>1 DEF Init, Drafts, Drafted
<1>5. VoucherHasItsStock
  BY RowNames, Numbers DEF Init, VoucherHasItsStock
<1>6. worker \in [Workers -> Record]
  <2>1. \A w \in Workers : Idle \in Record  BY IdleIsSane DEF Sane
  <2> QED BY <2>1 DEF Init
<1>7. answered \in Workers \cup {Nobody}  BY DEF Init
<1> QED BY <1>1, <1>2, <1>3, <1>4, <1>5, <1>6, <1>7 DEF Whole

LEMMA WholeNext == Whole /\ [Next]_vars => Whole'
<1> SUFFICES ASSUME Whole, [Next]_vars PROVE Whole'  OBVIOUS
<1>1. Sanity /\ Tidy /\ Images /\ Guarded /\ Data /\ Drafts  BY DEF Whole
<1>2. Sanity' /\ Tidy' /\ Images'  BY <1>1, SanityNext, TidyNext, ImagesNext
<1>3. Guarded' /\ Data' /\ Drafts'  BY <1>1, GuardedNext, DataNext, DraftsNext
<1>4. VoucherHasItsStock'
  BY <1>1, NextEffect, VoucherHasItsStockNext DEF Whole
<1>5. worker' \in [Workers -> Record] /\ answered' \in Workers \cup {Nobody}
  BY <1>1, WorkersTyped DEF Whole
<1>6. (worker \in [Workers -> Record])'  BY <1>5 DEF Record, Busy, Jobs, OrderJobs, RequestJobs
<1> QED BY <1>2, <1>3, <1>4, <1>5, <1>6 DEF Whole

\* The image of a row is a row of its table.
LEMMA ImagesTyped ==
    ASSUME Whole, NEW c \in Conns, NEW r \in Rows
    PROVE  image[c][r] \in Row(r) \cup {NoRow, Unwritten}
<1>1. CASE image[c][r] = Unwritten  BY <1>1
<1>2. CASE image[c][r] # Unwritten
  <2>1. c # Nobody  BY RootAssumption
  <2>2. session[c] = "open"
    BY <1>2, BlankUnlessOpen DEF Whole
  <2>3. PICK w \in Workers : worker[w].conn = c
    BY <2>2 DEF Whole, Tidy, Held
  <2>4. PICK p : p = worker[w] /\ p.conn = c /\ Draft(p)
    BY <2>1, <2>2, <2>3 DEF Whole, Drafts, Drafted
  <2>5. (p.step > 1 /\ r = First(p)) \/ (p.step > 2 /\ r = Second(p))
    BY <1>2, <2>4 DEF Draft
  <2>6. p.step > 1 /\ FirstDone(p) /\ (p.step > 2 => SecondDone(p))
    BY <2>4, <2>5 DEF Draft
  <2>7. PICK job \in Jobs : job = p.job /\ Transactional(job)
    BY <2>4 DEF Draft
  <2>8. CASE job.name = "CreateOrder"
    <3>1. job.id \in OrderIDs /\ job.user \in Users /\ job.voucher \in Vouchers
      BY <2>7, <2>8, TransactionJob
    <3>2. First(p) = StockRow(job.voucher) /\ Second(p) = OrderRow(job.id)
      BY <2>7, <2>8 DEF First, Second
    <3>3. CASE r = First(p)
      <4>1. image[c][r] \in Int
        BY <2>4, <2>6, <2>7, <2>8, <3>3 DEF FirstDone
      <4> QED BY <3>1, <3>2, <3>3, <4>1, RowTypes
    <3>4. CASE r # First(p)
      <4>1. image[c][r] = OrderOf(job) /\ r = OrderRow(job.id)
        BY <2>4, <2>5, <2>6, <2>7, <2>8, <3>2, <3>4 DEF SecondDone
      <4> QED BY <3>1, <4>1, RowTypes DEF OrderOf
    <3> QED BY <3>3, <3>4
  <2>9. CASE job.name # "CreateOrder"
    <3>1. job.stock \in Int  BY <2>7, <2>9, TransactionJob, StocksAssumption
    <3>2. First(p) = VoucherRow(p.id) /\ Second(p) = StockRow(p.id) /\ p.id \in Vouchers
      BY <2>6, <2>7, <2>9 DEF First, Second, FirstDone
    <3>3. CASE r = First(p)
      <4>1. image[c][r] = 1
        BY <2>4, <2>6, <2>7, <2>9, <3>3 DEF FirstDone
      <4> QED BY <3>2, <3>3, <4>1, RowTypes
    <3>4. CASE r # First(p)
      <4>1. image[c][r] = job.stock /\ r = StockRow(p.id)
        BY <2>4, <2>5, <2>6, <2>7, <2>9, <3>2, <3>4 DEF SecondDone
      <4> QED BY <3>1, <3>2, <4>1, RowTypes
    <3> QED BY <3>3, <3>4
  <2> QED BY <2>8, <2>9
<1> QED BY <1>1, <1>2

LEMMA WholeTypes == Whole => TypeOK
<1> SUFFICES ASSUME Whole PROVE TypeOK  OBVIOUS
<1>1. DOMAIN db = Rows /\ \A r \in Rows : db[r] \in Row(r) \cup {NoRow}
  BY DEF Whole, Data
<1>2. DOMAIN image = Conns /\ \A c \in Conns : DOMAIN image[c] = Rows
  BY DEF Whole, Images
<1>3. \A c \in Conns, r \in Rows : image[c][r] \in Row(r) \cup {NoRow, Unwritten}
  BY ImagesTyped
<1>4. /\ lock \in [Rows -> Conns \cup {Nobody}]
      /\ session \in [Conns -> {"idle", "open", "lost"}]
  BY DEF Whole, Tidy, Shapes
<1>5. worker \in [Workers -> Record] /\ assigned \subseteq Vouchers
      /\ answered \in Workers \cup {Nobody}
  BY DEF Whole, Data
<1> QED BY <1>1, <1>2, <1>3, <1>4, <1>5 DEF TypeOK, Record

\* Every variable has its type: among others, the stock of a voucher is a
\* number in MySQL and in what a transaction has written.
THEOREM DataAccessTypes == Spec => []TypeOK
BY WholeInit, WholeNext, WholeTypes, PTL DEF Spec

\* A voucher is a seckill voucher if and only if it has a stock.
THEOREM WholeVouchers == Spec => []VoucherHasItsStock
<1>1. Whole => VoucherHasItsStock  BY DEF Whole
<1> QED BY <1>1, WholeInit, WholeNext, PTL DEF Spec

-----------------------------------------------------------------------------
(***************************************************************************)
(* Nobody waits in a circle.  A row that is locked has been written by the *)
(* transaction that holds it; a transaction that waits holds only the row  *)
(* of its first statement, and waits for that of its second.               *)
(***************************************************************************)
Marked == \A c \in Conns, r \in Rows : lock[r] = c => image[c][r] # Unwritten

LEMMA TouchedIsWritten ==
    \A p : Draft(p) /\ p.step \in {2, 3} => image[p.conn][Touched(p)] # Unwritten
BY DraftRows DEF Touched

LEMMA TouchedIsWrittenNext ==
    \A p : (Draft(p) /\ p.step \in {2, 3} => image[p.conn][Touched(p)] # Unwritten)'
<1>1. (\A p : Draft(p) /\ p.step \in {2, 3} => image[p.conn][Touched(p)] # Unwritten)'
  BY TouchedIsWritten, PTL
<1> QED BY <1>1

LEMMA MarkedExecute ==
    ASSUME Whole, Marked, NEW w \in Workers, Execute(w)
    PROVE  Marked'
<1>1. PICK q : q = worker'[w]  OBVIOUS
<1>2. PICK r, value :
         /\ Draft(q)' /\ q.step \in {2, 3} /\ r = Touched(q)
         /\ lock' = [lock EXCEPT ![r] = q.conn]
         /\ image' = [image EXCEPT ![q.conn][r] = value]
  <2>1. Sanity /\ Tidy /\ Images /\ Guarded /\ Data /\ Drafts  BY DEF Whole
  <2>2. /\ Draft(q)' /\ q.step \in {2, 3}
        /\ lock' = [lock EXCEPT ![Touched(q)] = q.conn]
        /\ \E value : image' = [image EXCEPT ![q.conn][Touched(q)] = value]
    BY <1>1, <2>1, DraftExecute
  <2> QED BY <2>2
<1>3. image'[q.conn][r] # Unwritten
  <2>1. Touched(q)' = Touched(q)
    BY DEF Touched, First, Second, StockRow, VoucherRow, OrderRow
  <2> QED BY <1>2, <2>1, TouchedIsWrittenNext
<1>4. SUFFICES ASSUME NEW c \in Conns, NEW s \in Rows, lock'[s] = c
               PROVE  image'[c][s] # Unwritten
  BY DEF Marked
<1>5. CASE s = r
  <2>1. DOMAIN lock = Rows  BY DEF Whole, Tidy, Shapes
  <2>2. c = q.conn  BY <1>2, <1>4, <1>5, <2>1
  <2> QED BY <1>3, <1>5, <2>2
<1>6. CASE s # r
  <2>1. lock[s] = c  BY <1>2, <1>4, <1>6
  <2>2. image'[c][s] = image[c][s]  BY <1>2, <1>6 DEF Whole, Images
  <2> QED BY <2>1, <2>2 DEF Marked
<1> QED BY <1>5, <1>6

LEMMA MarkedNext == Whole /\ Marked /\ [Next]_vars => Marked'
<1> SUFFICES ASSUME Whole, Marked, [Next]_vars PROVE Marked'  OBVIOUS
<1>1. \A c \in Conns : c # Nobody  BY RootAssumption
<1>2. ASSUME NEW c, Release(c) PROVE Marked'
  BY <1>1, <1>2 DEF Release, Whole, Images, Marked
<1>3. ASSUME image' = image, lock' = lock PROVE Marked'
  BY <1>3 DEF Marked
<1>4. ASSUME NEW w \in Workers, Proceed(w) PROVE Marked'
  BY <1>2, <1>3, <1>4, MarkedExecute DEF Proceed, Begin, Fail, ExecuteAlone,
                                         FailAlone, Commit, Rollback, mysqlVars
<1>5. ASSUME NEW w \in Workers, Crash(w) PROVE Marked'
  BY <1>1, <1>5 DEF Crash, Marked
<1>6. ASSUME NEW c \in Conns, ConnLost(c) PROVE Marked'
  BY <1>2, <1>6 DEF ConnLost
<1>7. ASSUME NEW w \in Workers, NEW job, Submit(w, job) PROVE Marked'
  BY <1>3, <1>7 DEF Submit, mysqlVars
<1>8. CASE UNCHANGED vars  BY <1>3, <1>8 DEF vars, mysqlVars
<1> QED BY <1>4, <1>5, <1>6, <1>7, <1>8 DEF Next

LEMMA MarkedInit == Init => Marked
BY RootAssumption DEF Init, Marked

\* Who is waited for has a connection; who waits and has one, waits for a row.
LEMMA WaitedFor ==
    ASSUME NEW w \in Workers, NEW x, WaitsFor(w, x)
    PROVE  worker[x].conn \in Conns
BY Pools DEF WaitsFor

LEMMA WaitsForRow ==
    ASSUME Whole, NEW w \in Workers, worker[w].conn \in Conns,
           NEW x, WaitsFor(w, x)
    PROVE  /\ worker[w].pc = "run"
           /\ \E r \in Rows : r \in Targets(InHand(w)) /\ lock[r] = worker[x].conn
<1>1. worker[w].conn # Nobody /\ worker[w].conn # Root  BY RootAssumption
<1>2. worker[w].pc # "begin"  BY <1>1 DEF Whole, Sanity, Sane
<1>3. worker[w].pc = "run" => InHand(w).pool # Root
  BY <1>1, Sending DEF Whole
<1> QED BY <1>2, <1>3 DEF WaitsFor

\* A transaction that holds a row and has not come to its end.
LEMMA MidWay ==
    ASSUME Whole, Marked, NEW w \in Workers, NEW p, p = worker[w],
           p.conn \in Conns, p.pc = "run", NEW r \in Rows, lock[r] = p.conn
    PROVE  r = First(p) /\ Targets(InHand(w)) = {Second(p)}
<1>1. p.conn # Nobody /\ session[p.conn] = "open"
  BY RootAssumption DEF Whole, Tidy, Locked
<1>2. Draft(p)  BY <1>1 DEF Whole, Drafts, Drafted
<1>3. image[p.conn][r] # Unwritten  BY DEF Marked
<1>4. p.step \in 1 .. Steps(p.job)  BY DEF Whole, Sanity, Sane
<1>5. PICK job \in Jobs : job = p.job /\ Transactional(job)
  BY <1>2 DEF Draft
<1>6. p.step = 2 /\ r = First(p)
  BY <1>2, <1>3, <1>4, <1>5, TransactionJob DEF Draft
<1>7. PICK st : st = InHand(w) /\ st = Program(job, p.q, p.id)[2]
  BY <1>5, <1>6 DEF InHand, ProgramOf
<1>8. Targets(st) = {Second(p)}
  <2>1. CASE job.name = "CreateOrder"
    <3>1. job.id # AutoID  BY <2>1, OrderJob
    <3>2. st.table = "tb_voucher_order" /\ st.key = job.id
      <4>1. st = OrderInsert(p.q, job)  BY <1>7, <2>1, OrderStatements
      <4>2. OrderInsert(p.q, job).table = "tb_voucher_order"  BY OrderInsertTable
      <4>3. OrderInsert(p.q, job).key = job.id  BY DEF OrderInsert, Create, Statement
      <4> QED BY <4>1, <4>2, <4>3
    <3>3. Targets(st) = {<<st.table, st.key>>}  BY <3>1, <3>2 DEF Targets
    <3>4. Second(p) = OrderRow(job.id)  BY <1>5, <2>1 DEF Second
    <3> QED BY <3>2, <3>3, <3>4 DEF OrderRow
  <2>2. CASE job.name # "CreateOrder"
    <3>1. job.name = "CreateSeckillVoucher"  BY <1>5, <2>2, TransactionJob
    <3>2. FirstDone(p)  BY <1>2, <1>6 DEF Draft
    <3>3. p.id \in Vouchers /\ p.id # AutoID
      BY <1>5, <2>2, <3>2, RowAssumption DEF FirstDone
    <3>4. st.table = "tb_seckill_voucher" /\ st.key = p.id
      BY <1>7, <3>1, SeckillStatements
    <3>5. Targets(st) = {<<st.table, st.key>>}  BY <3>3, <3>4 DEF Targets
    <3>6. Second(p) = StockRow(p.id)  BY <1>5, <2>2 DEF Second
    <3> QED BY <3>4, <3>5, <3>6 DEF StockRow
  <2> QED BY <2>1, <2>2
<1> QED BY <1>6, <1>7, <1>8

\* Vouchers come before stocks and stocks before orders, in every transaction.
LEMMA InOrder ==
    ASSUME NEW o, NEW p, NEW q, Second(o) = First(p), Second(p) = First(q)
    PROVE  FALSE
<1>1. p.job.name = "CreateOrder"
  BY RowNames DEF First, Second
<1> QED BY <1>1, RowNames DEF First, Second

LEMMA NobodyInACircle == Whole /\ Marked => NoCircle
<1> SUFFICES ASSUME Whole, Marked, NEW S \in SUBSET Workers, S # {},
                    \A w \in S : \E x \in S : WaitsFor(w, x)
             PROVE  FALSE
  BY DEF NoCircle
<1>1. PICK w0 \in S : TRUE  OBVIOUS
<1>2. PICK w1 \in S : WaitsFor(w0, w1)  OBVIOUS
<1>3. PICK w2 \in S : WaitsFor(w1, w2)  OBVIOUS
<1>4. PICK w3 \in S : WaitsFor(w2, w3)  OBVIOUS
<1>5. PICK w4 \in S : WaitsFor(w3, w4)  OBVIOUS
<1>6. PICK w5 \in S : WaitsFor(w4, w5)  OBVIOUS
<1>7. /\ worker[w1].conn \in Conns /\ worker[w2].conn \in Conns
      /\ worker[w3].conn \in Conns /\ worker[w4].conn \in Conns
  BY <1>2, <1>3, <1>4, <1>5, WaitedFor
<1>8. PICK r \in Rows : lock[r] = worker[w2].conn
  BY <1>3, <1>7, WaitsForRow
<1>9. PICK p2 : p2 = worker[w2] /\ Targets(InHand(w2)) = {Second(p2)}
  BY <1>4, <1>7, <1>8, WaitsForRow, MidWay
<1>10. Second(p2) \in Rows /\ lock[Second(p2)] = worker[w3].conn
  BY <1>4, <1>7, <1>9, WaitsForRow
<1>11. PICK p3 : /\ p3 = worker[w3] /\ Second(p2) = First(p3)
                 /\ Targets(InHand(w3)) = {Second(p3)}
  BY <1>5, <1>7, <1>10, WaitsForRow, MidWay
<1>12. Second(p3) \in Rows /\ lock[Second(p3)] = worker[w4].conn
  BY <1>5, <1>7, <1>11, WaitsForRow
<1>13. PICK p4 : p4 = worker[w4] /\ Second(p3) = First(p4)
  BY <1>6, <1>7, <1>12, WaitsForRow, MidWay
<1> QED BY <1>11, <1>13, InOrder

\* Workers never wait for each other's connections and rows in a circle.
THEOREM NoDeadlock == Spec => []NoCircle
BY WholeInit, WholeNext, MarkedInit, MarkedNext, NobodyInACircle, PTL DEF Spec

-----------------------------------------------------------------------------
(***************************************************************************)
(* The committed rows implement VoucherStore.                              *)
(***************************************************************************)
LEMMA Kinds == Kind(NoRow) = "none" /\ Kind(0) = "ordinary" /\ Kind(1) = "seckill"
BY Numbers DEF Kind

LEMMA StoreInit == Init => Store!Init
<1> SUFFICES ASSUME Init PROVE Store!Init  OBVIOUS
<1>1. \A r \in Rows : db[r] = NoRow  BY DEF Init
<1>2. KindOf = [v \in Vouchers |-> "none"]  BY <1>1, RowNames, Kinds DEF KindOf
<1>3. StockOf = [v \in Vouchers |-> 0]  BY <1>1, RowNames DEF StockOf
<1>4. OrdersIn = {}  BY <1>1, RowNames DEF OrdersIn
<1> QED BY <1>2, <1>3, <1>4 DEF Store!Init

\* Each part of the store is a function of the rows of one table.
LEMMA KindKept ==
    ASSUME \A v \in Vouchers : db'[VoucherRow(v)] = db[VoucherRow(v)]
    PROVE  KindOf' = KindOf
<1>1. \A r : Kind(r)' = Kind(r)  BY DEF Kind
<1> QED BY <1>1 DEF KindOf, VoucherRow

LEMMA StockKept ==
    ASSUME \A v \in Vouchers : db'[StockRow(v)] = db[StockRow(v)]
    PROVE  StockOf' = StockOf
BY DEF StockOf, StockRow

LEMMA OrdersKept ==
    ASSUME \A id \in OrderIDs : db'[OrderRow(id)] = db[OrderRow(id)]
    PROVE  OrdersIn' = OrdersIn
BY DEF OrdersIn, OrderRow

LEMMA StoreLists ==
    ASSUME Data, NEW v \in Vouchers, Lists(v)
    PROVE  Store!CreateOrdinary(v)
<1>1. /\ \A x \in Vouchers \ {v} : db'[VoucherRow(x)] = db[VoucherRow(x)]
      /\ \A x \in Vouchers : db'[StockRow(x)] = db[StockRow(x)]
      /\ \A id \in OrderIDs : db'[OrderRow(id)] = db[OrderRow(id)]
  BY RowNames DEF Lists, KeepsBut
<1>2. StockOf' = StockOf /\ OrdersIn' = OrdersIn
  BY <1>1, StockKept, OrdersKept
<1>3. KindOf[v] = "none"  BY Kinds DEF Lists, KindOf
<1>4. KindOf' = [KindOf EXCEPT ![v] = "ordinary"]
  <2>1. KindOf' = [x \in Vouchers |-> Kind(db'[VoucherRow(x)])]
    BY DEF KindOf, Kind, VoucherRow
  <2>2. Kind(db'[VoucherRow(v)]) = "ordinary"  BY Kinds DEF Lists
  <2> QED BY <1>1, <2>1, <2>2 DEF KindOf
<1> QED BY <1>2, <1>3, <1>4 DEF Store!CreateOrdinary

LEMMA StoreListsSeckill ==
    ASSUME Data, NEW v \in Vouchers, NEW stock \in Stocks, ListsSeckill(v, stock)
    PROVE  Store!CreateSeckill(v, stock)
<1>1. /\ \A x \in Vouchers \ {v} : db'[VoucherRow(x)] = db[VoucherRow(x)]
      /\ \A x \in Vouchers \ {v} : db'[StockRow(x)] = db[StockRow(x)]
      /\ \A id \in OrderIDs : db'[OrderRow(id)] = db[OrderRow(id)]
  BY RowNames DEF ListsSeckill, KeepsBut
<1>2. OrdersIn' = OrdersIn  BY <1>1, OrdersKept
<1>3. KindOf[v] = "none"  BY Kinds DEF ListsSeckill, KindOf
<1>4. KindOf' = [KindOf EXCEPT ![v] = "seckill"]
  <2>1. KindOf' = [x \in Vouchers |-> Kind(db'[VoucherRow(x)])]
    BY DEF KindOf, Kind, VoucherRow
  <2>2. Kind(db'[VoucherRow(v)]) = "seckill"  BY Kinds DEF ListsSeckill
  <2> QED BY <1>1, <2>1, <2>2 DEF KindOf
<1>5. StockOf' = [StockOf EXCEPT ![v] = stock]
  <2>1. StockOf' = [x \in Vouchers |->
                       IF db'[StockRow(x)] = NoRow THEN 0 ELSE db'[StockRow(x)]]
    BY DEF StockOf, StockRow
  <2>2. db'[StockRow(v)] = stock /\ stock # NoRow
    BY StocksAssumption, Numbers DEF ListsSeckill
  <2> QED BY <1>1, <2>1, <2>2 DEF StockOf
<1> QED BY <1>2, <1>3, <1>4, <1>5 DEF Store!CreateSeckill

LEMMA StoreSells ==
    ASSUME Data, VoucherHasItsStock,
           NEW id \in OrderIDs, NEW u \in Users, NEW v \in Vouchers, Sells(id, u, v)
    PROVE  Store!Place(id, u, v)
<1>1. /\ \A x \in Vouchers : db'[VoucherRow(x)] = db[VoucherRow(x)]
      /\ \A x \in Vouchers \ {v} : db'[StockRow(x)] = db[StockRow(x)]
      /\ \A i \in OrderIDs \ {id} : db'[OrderRow(i)] = db[OrderRow(i)]
  <2>1. \A r \in Rows \ {StockRow(v), OrderRow(id)} :
           r[1] # "tb_shop" => db'[r] = db[r]
    BY DEF Sells, KeepsBut
  <2>2. \A x \in Vouchers : VoucherRow(x) \notin {StockRow(v), OrderRow(id)}
                            /\ (x # v => StockRow(x) \notin {StockRow(v), OrderRow(id)})
    BY RowNames
  <2>3. \A i \in OrderIDs \ {id} : OrderRow(i) \notin {StockRow(v), OrderRow(id)}
    BY RowNames
  <2> QED BY <2>1, <2>2, <2>3, RowNames
<1>2. KindOf' = KindOf  BY <1>1, KindKept
<1>3. db[StockRow(v)] # NoRow /\ db'[StockRow(v)] # NoRow
      /\ db[StockRow(v)] \in Int /\ db[StockRow(v)] > 0
      /\ db'[StockRow(v)] = db[StockRow(v)] - 1
  BY Numbers DEF Sells
<1>4. KindOf[v] = "seckill"
  BY <1>3, Kinds DEF VoucherHasItsStock, KindOf
<1>5. StockOf[v] = db[StockRow(v)]  BY <1>3 DEF StockOf
<1>6. StockOf' = [StockOf EXCEPT ![v] = StockOf[v] - 1]
  <2>1. StockOf' = [x \in Vouchers |->
                       IF db'[StockRow(x)] = NoRow THEN 0 ELSE db'[StockRow(x)]]
    BY DEF StockOf, StockRow
  <2> QED BY <1>1, <1>3, <1>5, <2>1 DEF StockOf
<1>7. \A o \in OrdersIn : o.id # id
  BY DEF OrdersIn, Sells
<1>8. OrdersIn' = OrdersIn \cup {[id |-> id, user |-> u, voucher |-> v]}
  <2> DEFINE In(d, i) == [id |-> i, user |-> d[OrderRow(i)].user,
                          voucher |-> d[OrderRow(i)].voucher]
  <2>1. OrdersIn = {In(db, i) : i \in {x \in OrderIDs : db[OrderRow(x)] # NoRow}}
    BY DEF OrdersIn
  <2>2. OrdersIn' = {In(db', i) : i \in {x \in OrderIDs : db'[OrderRow(x)] # NoRow}}
    BY DEF OrdersIn, OrderRow
  <2>3. \A i \in OrderIDs \ {id} : In(db', i) = In(db, i)
    BY <1>1
  <2>4. db'[OrderRow(id)] = [user |-> u, voucher |-> v]  BY DEF Sells
  <2>5. In(db', id) = [id |-> id, user |-> u, voucher |-> v]  BY <2>4
  <2>6. db[OrderRow(id)] = NoRow /\ db'[OrderRow(id)] # NoRow
    <3>1. [user |-> u, voucher |-> v] \in [user : Users, voucher : Vouchers]
      OBVIOUS
    <3>2. [user |-> u, voucher |-> v] # NoRow  BY <3>1, RowAssumption
    <3> QED BY <2>4, <3>2 DEF Sells
  <2> HIDE DEF In
  <2>7. {x \in OrderIDs : db'[OrderRow(x)] # NoRow}
           = {x \in OrderIDs : db[OrderRow(x)] # NoRow} \cup {id}
    BY <1>1, <2>6
  <2> QED BY <2>1, <2>2, <2>3, <2>5, <2>6, <2>7
<1> QED BY <1>2, <1>3, <1>4, <1>5, <1>6, <1>7, <1>8 DEF Store!Place

LEMMA StoreStep ==
    ASSUME Data, VoucherHasItsStock, Effect
    PROVE  [Store!Next]_Store!storeVars
<1>1. CASE KeepsBut({})
  <2>1. KindOf' = KindOf /\ StockOf' = StockOf /\ OrdersIn' = OrdersIn
    BY <1>1, RowNames, KindKept, StockKept, OrdersKept DEF KeepsBut
  <2> QED BY <2>1 DEF Store!storeVars
<1>2. CASE ~KeepsBut({})
  BY <1>2, StoreLists, StoreListsSeckill, StoreSells DEF Effect, Store!Next
<1> QED BY <1>1, <1>2

\* What is committed changes as if each repository method were one step.
THEOREM Implements == Spec => ImplementsVoucherStore
<1>1. Whole /\ [Next]_vars => [Store!Next]_Store!storeVars
  BY NextEffect, StoreStep DEF Whole
<1> QED BY <1>1, WholeInit, WholeNext, StoreInit, PTL
        DEF Spec, ImplementsVoucherStore, Store!Spec
=============================================================================
