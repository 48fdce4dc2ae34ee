---------------------------- MODULE SalesProofs ----------------------------
(***************************************************************************)
(* Theorems about Sales, for every set of requests, customers, invoices,   *)
(* returns, amounts and limits, and any number of requests that arrive.    *)
(***************************************************************************)
EXTENDS Sales, SessionsProofs, Sums

\* The rows of the three tables.
Table ==
    [k \in Keys |-> IF k \in Customers THEN Customer
                    ELSE IF k \in Invoices THEN Invoice ELSE Return]

DueRec == [cust : Customers, delta : Int]

JobRec ==
    [op : Ops \cup {"none"}, step : {"write", "mark", "lock", "done", "failed"},
     key : Keys \cup {NoKey}, amount : Nat, dues : Seq(DueRec),
     loaded : Invoice \cup Return \cup {NoRow}, new : Invoice \cup {NoRow},
     kept : Customer \cup {NoRow}, keptOf : Customers \cup {NoKey}]

Dead(inv) == inv.status \in {"void", "returned"}

\* The customer of the invoice exists.
Known(inv) == inv.cust \in Customers => db[inv.cust] # NoRow

\* What the foreign keys refer to exists.
RowsRefer ==
    /\ \A v \in Invoices : db[v] # NoRow => Known(db[v])
    /\ \A t \in Returns : db[t] # NoRow => db[db[t].inv] # NoRow

\* What session r has written, next to the rows it will replace: no dead invoice
\* comes to life, no return gets another invoice or refund, and customers are not
\* inserted in a session.
VersionsOK(r) ==
    /\ \A v \in Invoices : mine[r][v] # NoRow =>
         /\ Known(mine[r][v])
         /\ db[v] # NoRow /\ Dead(db[v]) => Dead(mine[r][v])
    /\ \A t \in Returns : mine[r][t] # NoRow =>
         /\ db[mine[r][t].inv] # NoRow
         /\ db[t] # NoRow => /\ mine[r][t].inv = db[t].inv
                             /\ mine[r][t].refund = db[t].refund
    /\ \A c \in Customers : mine[r][c] # NoRow => db[c] # NoRow

\* The rows that the request of session r is about.
KeyOK(r) ==
    /\ job[r].op \in {"sale", "update", "void", "pay"} => job[r].key \in Invoices
    /\ job[r].op \in {"return", "approve", "reject", "refund"} => job[r].key \in Returns
    /\ job[r].op \in {"customerPay", "updateCustomer", "deleteCustomer"} =>
         job[r].key \in Customers
    /\ job[r].op \in {"update", "void", "pay", "approve", "reject", "refund",
                     "customerPay", "updateCustomer", "deleteCustomer"} =>
         db[job[r].key] # NoRow
    /\ job[r].op = "none" => job[r].key = NoKey /\ job[r].dues = <<>>

\* What session r remembers of the rows it has read.
ReadOK(r) ==
    /\ job[r].keptOf # NoKey => job[r].kept # NoRow /\ job[r].op \in {"sale", "update", "void"}
    /\ \A i \in 1 .. Len(job[r].dues) : db[job[r].dues[i].cust] # NoRow
    /\ At(r, "update", "write") =>
         /\ job[r].loaded \in Invoice /\ job[r].new \in Invoice
         /\ job[r].loaded.status = job[r].new.status
         /\ Known(job[r].loaded) /\ Known(job[r].new)
    /\ At(r, "refund", "write") =>
         /\ job[r].loaded \in Return
         /\ job[r].loaded.refund = db[job[r].key].refund
         /\ job[r].loaded.received + job[r].amount <= job[r].loaded.refund

\* The balance of customer c as session r has changed it, by the amount of its
\* request.
Moved(r, c) ==
    LET row == mine[r][c] IN
    /\ row # NoRow
    /\ Signed(row) = Signed(db[c]) - job[r].amount
    /\ job[r].op = "customerPay" => /\ row.opening = db[c].opening
                                    /\ row.paid_in = db[c].paid_in + job[r].amount

\* Money that comes in or goes out: it is still due to customer c, or c is locked
\* and has it.
MoneyOK(r, c) ==
    \/ /\ job[r].dues = <<[cust |-> c, delta |-> - job[r].amount]>>
       /\ mine[r][c] = NoRow
    \/ /\ job[r].dues = <<>>
       /\ c \in held[r]
       /\ IF db[c].active THEN Moved(r, c)
          ELSE mine[r][c] = NoRow /\ job[r].op # "customerPay"

\* A payment of an invoice, a payment of a customer, a refund.
PayOK(r) ==
    /\ job[r].op = "pay" =>
         LET v == job[r].key IN
         /\ v \in held[r] /\ mine[r][v] = AddPaidAmount(db[v], job[r].amount)
         /\ job[r].amount <= db[v].total - db[v].paid
         /\ \A c \in Customers : c = db[v].cust => MoneyOK(r, c)
    /\ job[r].op = "customerPay" =>
         /\ \A c \in Customers : c = job[r].key => MoneyOK(r, c)
         /\ \A v \in Invoices : mine[r][v] = NoRow
    /\ At(r, "refund", "done") =>
         LET v == db[job[r].key].inv IN
         /\ v \in held[r]
         /\ \A c \in Customers : c = db[v].cust => MoneyOK(r, c)
    /\ job[r].op = "refund" => /\ \A c \in Customers : job[r].step # "done" => mine[r][c] = NoRow
                               /\ job[r].step # "done" => job[r].dues = <<>>
    /\ job[r].op \in {"pay", "customerPay"} => job[r].step = "done"
    /\ job[r].op \in {"pay", "customerPay", "refund"} => job[r].amount > 0

RequestOK(r) == VersionsOK(r) /\ KeyOK(r) /\ ReadOK(r) /\ PayOK(r)

IInv ==
    /\ SessionInv(Table)
    /\ job \in [Requests -> JobRec]
    /\ RowsRefer
    /\ \A r \in Requests : RequestOK(r)

-----------------------------------------------------------------------------
(* The tables.                                                             *)

LEMMA TableFacts ==
    /\ DOMAIN Table = Keys
    /\ \A c \in Customers : c \in Keys /\ Table[c] = Customer
    /\ \A v \in Invoices : v \in Keys /\ Table[v] = Invoice
    /\ \A t \in Returns : t \in Keys /\ Table[t] = Return
  BY TablesAssumption DEF Table, Keys

LEMMA RowTypes ==
    ASSUME SessionInv(Table)
    PROVE  /\ \A c \in Customers : /\ db[c] \in Customer \cup {NoRow}
                                   /\ \A r \in Requests : mine[r][c] \in Customer \cup {NoRow}
           /\ \A v \in Invoices : /\ db[v] \in Invoice \cup {NoRow}
                                  /\ \A r \in Requests : mine[r][v] \in Invoice \cup {NoRow}
           /\ \A t \in Returns : /\ db[t] \in Return \cup {NoRow}
                                 /\ \A r \in Requests : mine[r][t] \in Return \cup {NoRow}
  <1>1. \A k \in Keys : /\ db[k] \in Table[k] \cup {NoRow}
                        /\ \A r \in Requests : mine[r][k] \in Table[k] \cup {NoRow}
    BY TableFacts DEF SessionInv, SessionRows
  <1> QED
    BY <1>1, TableFacts

LEMMA NoRowIsNoRow == NoRow \notin Customer /\ NoRow \notin Invoice /\ NoRow \notin Return
  BY TablesAssumption

-----------------------------------------------------------------------------
(* What the others do does not disturb a session.                          *)

\* The rows of the tables before and after a step of another session: none goes,
\* returns keep their invoice and their refund, and what session s has locked or
\* written is as it was.
RowsKept(s) ==
    /\ \A k \in Keys : db[k] # NoRow => db'[k] # NoRow
    /\ \A t \in Returns : db[t] # NoRow =>
         db'[t].inv = db[t].inv /\ db'[t].refund = db[t].refund
    /\ \A k \in Keys : k \in held[s] \/ mine[s][k] # NoRow => db'[k] = db[k]

LEMMA Undisturbed ==
    ASSUME IInv, NEW s \in Requests, RowsKept(s),
           job'[s] = job[s], mine'[s] = mine[s], held'[s] = held[s]
    PROVE  RequestOK(s)'
  <1>1. /\ RequestOK(s) /\ RowsRefer /\ job[s] \in JobRec
        /\ Customers \subseteq Keys /\ Invoices \subseteq Keys /\ Returns \subseteq Keys
    BY DEF IInv, Keys
  <1>2. /\ \A v \in Invoices : db[v] \in Invoice \cup {NoRow} /\ mine[s][v] \in Invoice \cup {NoRow}
        /\ \A t \in Returns : db[t] \in Return \cup {NoRow} /\ mine[s][t] \in Return \cup {NoRow}
    BY RowTypes DEF IInv
  <1>3. job[s].dues \in Seq(DueRec)
    BY <1>1 DEF JobRec
  <1>4. VersionsOK(s)'
    <2>1. ASSUME NEW v \in Invoices, mine[s][v] # NoRow
          PROVE  /\ Known(mine[s][v])'
                 /\ db'[v] # NoRow /\ Dead(db'[v]) => Dead(mine[s][v])
      BY <1>1, <2>1 DEF RequestOK, VersionsOK, RowsKept, Known
    <2>2. ASSUME NEW t \in Returns, mine[s][t] # NoRow
          PROVE  /\ db'[mine[s][t].inv] # NoRow
                 /\ db'[t] # NoRow => /\ mine[s][t].inv = db'[t].inv
                                      /\ mine[s][t].refund = db'[t].refund
      <3>1. mine[s][t] \in Return /\ mine[s][t].inv \in Keys
        BY <1>1, <1>2, <2>2 DEF Return
      <3> QED
        BY <1>1, <2>2, <3>1 DEF RequestOK, VersionsOK, RowsKept
    <2>3. ASSUME NEW c \in Customers, mine[s][c] # NoRow
          PROVE  db'[c] # NoRow
      BY <1>1, <2>3 DEF RequestOK, VersionsOK, RowsKept
    <2> QED
      BY <2>1, <2>2, <2>3 DEF VersionsOK, Dead, Known
  <1>5. KeyOK(s)'
    <2>1. KeyOK(s)
      BY <1>1 DEF RequestOK
    <2>2. job[s].op \in {"update", "void", "pay", "approve", "reject", "refund",
                        "customerPay", "updateCustomer", "deleteCustomer"} => job[s].key \in Keys
      BY <1>1, <2>1 DEF KeyOK
    <2> QED
      BY <2>1, <2>2 DEF KeyOK, RowsKept
  <1>6. ReadOK(s)'
    <2>1. ASSUME NEW i \in 1 .. Len(job[s].dues)
          PROVE  db'[job[s].dues[i].cust] # NoRow
      <3>1. job[s].dues[i] \in DueRec
        BY <1>3
      <3>2. job[s].dues[i].cust \in Keys
        BY <1>1, <3>1 DEF DueRec
      <3> QED
        BY <1>1, <3>2 DEF RequestOK, ReadOK, RowsKept
    <2>2. At(s, "refund", "write") =>
             job[s].key \in Returns /\ db'[job[s].key].refund = db[job[s].key].refund
      BY <1>1 DEF RequestOK, KeyOK, RowsKept, At
    <2>3. At(s, "update", "write") => /\ job[s].loaded \in Invoice /\ job[s].new \in Invoice
                                      /\ Known(job[s].loaded)' /\ Known(job[s].new)'
      BY <1>1 DEF RequestOK, ReadOK, RowsKept, Known
    <2> QED
      BY <1>1, <2>1, <2>2, <2>3 DEF RequestOK, ReadOK, At, Known
  <1>7. PayOK(s)'
    <2>1. \A c \in Customers : MoneyOK(s, c) => MoneyOK(s, c)'
      BY <1>1 DEF MoneyOK, Moved, RowsKept
    <2>2. PayOK(s) /\ KeyOK(s)
      BY <1>1 DEF RequestOK
    <2>3. ASSUME job[s].op = "pay"
          PROVE  /\ job[s].key \in Invoices /\ job[s].key \in held[s]
                 /\ db'[job[s].key] = db[job[s].key]
      BY <1>1, <2>2, <2>3 DEF PayOK, KeyOK, RowsKept
    <2>4. ASSUME At(s, "refund", "done")
          PROVE  /\ db'[job[s].key].inv = db[job[s].key].inv
                 /\ db[job[s].key].inv \in held[s]
                 /\ db'[db[job[s].key].inv] = db[db[job[s].key].inv]
      <3>1. /\ job[s].key \in Returns /\ db[job[s].key] # NoRow
            /\ db[job[s].key].inv \in held[s]
        BY <2>2, <2>4 DEF PayOK, KeyOK, At
      <3>2. db[job[s].key].inv \in Keys
        BY <1>1, <1>2, <3>1 DEF Return
      <3> QED
        BY <3>1, <3>2 DEF RowsKept
    <2>5. job[s].op = "customerPay" => job[s].key \in Customers
      BY <2>2 DEF KeyOK
    <2> QED
      BY <2>1, <2>2, <2>3, <2>4, <2>5 DEF PayOK, At
  <1> QED
    BY <1>4, <1>5, <1>6, <1>7 DEF RequestOK

\* A step of session r leaves the others as they were.
LEMMA SessionStep ==
    ASSUME IInv, NEW r \in Requests, SessionInv(Table)', job' \in [Requests -> JobRec],
           \A s \in Requests \ {r} :
              job'[s] = job[s] /\ mine'[s] = mine[s] /\ held'[s] = held[s] /\ RowsKept(s),
           RowsRefer', RequestOK(r)'
    PROVE  IInv'
  <1>1. \A s \in Requests \ {r} : RequestOK(s)'
    BY Undisturbed
  <1> QED
    BY <1>1 DEF IInv

\* The same, of a step that commits nothing.
LEMMA LocalStep ==
    ASSUME IInv, NEW r \in Requests, job' \in [Requests -> JobRec], OthersWait(r),
           db' = db, SessionInv(Table)',
           \A s \in Requests \ {r} : mine'[s] = mine[s] /\ held'[s] = held[s],
           RequestOK(r)'
    PROVE  IInv'
  <1>1. \A s \in Requests : RowsKept(s)
    BY DEF RowsKept
  <1>2. RowsRefer'
    BY DEF IInv, RowsRefer, Known
  <1> QED
    BY <1>1, <1>2, SessionStep DEF OthersWait

-----------------------------------------------------------------------------
(* Requests that begin.                                                    *)

\* What there is to know of the rows and of session r.
LEMMA Facts ==
    ASSUME IInv, NEW r \in Requests
    PROVE  /\ SessionInv(Table) /\ RowsRefer /\ job[r] \in JobRec
           /\ VersionsOK(r) /\ KeyOK(r) /\ ReadOK(r) /\ PayOK(r)
           /\ Customers \subseteq Keys /\ Invoices \subseteq Keys /\ Returns \subseteq Keys
           /\ DOMAIN db = Keys /\ DOMAIN mine[r] = Keys /\ DOMAIN Table = Keys
           /\ arrived \in 0 .. MaxArrivals
           /\ held[r] \subseteq Keys
           /\ ~Open(r) => held[r] = {} /\ \A k \in Keys : mine[r][k] = NoRow
  <1>1. SessionInv(Table) /\ DOMAIN Table = Keys
    BY TableFacts DEF IInv
  <1>2. /\ DOMAIN db = Keys /\ DOMAIN mine[r] = Keys /\ held[r] \subseteq Keys
        /\ arrived \in 0 .. MaxArrivals
    BY <1>1 DEF SessionInv, SessionRows
  <1>3. ~Open(r) => held[r] = {} /\ \A k \in Keys : mine[r][k] = NoRow
    BY <1>1, <1>2 DEF SessionInv, SessionLocks
  <1>4. /\ RowsRefer /\ job[r] \in JobRec
        /\ VersionsOK(r) /\ KeyOK(r) /\ ReadOK(r) /\ PayOK(r)
    BY DEF IInv, RequestOK
  <1>5. Customers \subseteq Keys /\ Invoices \subseteq Keys /\ Returns \subseteq Keys
    BY DEF Keys
  <1> QED
    BY <1>1, <1>2, <1>3, <1>4, <1>5

LEMMA NewJob ==
    ASSUME NEW op, NEW k \in Keys, Job(op, k).op \in Ops
    PROVE  /\ op \in Ops /\ Job(op, k) \in JobRec
           /\ Job(op, k).op = op /\ Job(op, k).key = k /\ Job(op, k).step = "done"
           /\ Job(op, k).dues = <<>> /\ Job(op, k).amount = 0
           /\ Job(op, k).keptOf = NoKey /\ Job(op, k).kept = NoRow
  <1>1. NoJob \in JobRec
    BY DEF JobRec, NoJob
  <1>2. Job(op, k).op = op /\ Job(op, k).key = k /\ Job(op, k).step = "done"
    BY DEF NoJob, Job
  <1>3. /\ Job(op, k).dues = <<>> /\ Job(op, k).amount = 0
        /\ Job(op, k).keptOf = NoKey /\ Job(op, k).kept = NoRow
    BY DEF NoJob, Job
  <1>4. Job(op, k) \in JobRec
    BY <1>1, <1>2 DEF JobRec, Job
  <1> QED
    BY <1>2, <1>3, <1>4

\* A request begins in a session that is clean.
LEMMA Begun ==
    ASSUME IInv, NEW r \in Requests, NEW j \in JobRec, Begin(r, j)
    PROVE  /\ job' \in [Requests -> JobRec] /\ job'[r] = j /\ j.op \in Ops /\ j.op # "none"
           /\ Open(r)' /\ OthersWait(r) /\ arrived' \in 0 .. MaxArrivals
           /\ ~Open(r) /\ held[r] = {} /\ \A k \in Keys : mine[r][k] = NoRow
  <1>1. job' \in [Requests -> JobRec] /\ job'[r] = j /\ j.op \in Ops /\ ~Open(r)
    BY DEF Begin, IInv
  <1>2. j.op # "none"
    BY <1>1, SessionsAssumption
  <1>3. Open(r)' /\ OthersWait(r) /\ arrived' \in 0 .. MaxArrivals
    BY <1>1, <1>2, Facts, SessionsAssumption DEF Begin, Open, OthersWait
  <1> QED
    BY <1>1, <1>2, <1>3, Facts

\* A step that only changes what the session remembers.
LEMMA QuietStep ==
    ASSUME IInv, NEW r \in Requests, job' \in [Requests -> JobRec], OthersWait(r), Open(r)',
           arrived' \in 0 .. MaxArrivals, UNCHANGED <<db, mine, held>>,
           (KeyOK(r) /\ ReadOK(r) /\ PayOK(r))'
    PROVE  IInv'
  <1>1. SessionInv(Table)'
    BY Facts, JobStep
  <1>2. VersionsOK(r)'
    BY Facts DEF VersionsOK, Known
  <1> QED
    BY <1>1, <1>2, LocalStep DEF RequestOK

\* A request that only reads at first.
LEMMA BeginStep ==
    ASSUME IInv, NEW r \in Requests, NEW j \in JobRec, Begin(r, j),
           UNCHANGED <<db, mine, held>>, (KeyOK(r) /\ ReadOK(r) /\ PayOK(r))'
    PROVE  IInv'
  BY Begun, QuietStep

\* A flush of a row that is there, by session r.
LEMMA FlushStep ==
    ASSUME IInv, NEW r \in Requests, job' \in [Requests -> JobRec], OthersWait(r), Open(r)',
           arrived' \in 0 .. MaxArrivals, db' = db,
           NEW k \in Keys, NEW row \in Table[k], db[k] # NoRow, Free(r, k), Write(r, k, row),
           k \in Invoices => Known(row) /\ (Dead(db[k]) => Dead(row)),
           k \in Returns => row.inv = db[k].inv /\ row.refund = db[k].refund,
           (KeyOK(r) /\ ReadOK(r) /\ PayOK(r))'
    PROVE  IInv'
  <1>2. SessionInv(Table)'
    BY Facts, WriteStep
  <1>3. /\ mine'[r][k] = row /\ \A q \in Keys \ {k} : mine'[r][q] = mine[r][q]
        /\ \A s \in Requests \ {r} : mine'[s] = mine[s] /\ held'[s] = held[s]
    BY Facts, Written
  <1>4. VersionsOK(r)'
    <2>1. ASSUME NEW v \in Invoices, mine'[r][v] # NoRow
          PROVE  Known(mine[r][v])' /\ (db[v] # NoRow /\ Dead(db[v]) => Dead(mine'[r][v]))
      BY <1>3, <2>1, Facts DEF VersionsOK, Known
    <2>2. ASSUME NEW t \in Returns, mine'[r][t] # NoRow
          PROVE  /\ db[mine'[r][t].inv] # NoRow
                 /\ db[t] # NoRow => /\ mine'[r][t].inv = db[t].inv
                                     /\ mine'[r][t].refund = db[t].refund
      BY <1>3, <2>2, Facts DEF VersionsOK, RowsRefer
    <2>3. ASSUME NEW c \in Customers, mine'[r][c] # NoRow
          PROVE  db[c] # NoRow
      BY <1>3, <2>3, Facts DEF VersionsOK
    <2> QED
      BY <2>1, <2>2, <2>3 DEF VersionsOK, Dead, Known
  <1> QED
    BY <1>2, <1>3, <1>4, LocalStep DEF RequestOK

-----------------------------------------------------------------------------
(* Customers.                                                              *)

\* A new customer is nobody's concern.
LEMMA CreateCustomerKept ==
    ASSUME IInv, NEW r \in Requests, NEW c \in Customers, NEW body \in CustomerCreate,
           CreateCustomer(c, body)
    PROVE  IInv'
  <1> DEFINE row == [opening |-> body.opening_balance, balance |-> body.opening_balance,
                     balance_type |-> body.balance_type, paid_in |-> 0,
                     limit |-> body.credit_limit, active |-> body.is_active]
  <1>1. /\ db[c] = NoRow /\ db' = [db EXCEPT ![c] = row]
        /\ UNCHANGED <<job, mine, held, arrived>>
    BY DEF CreateCustomer
  <1>2. row \in Customer /\ row # NoRow
    <2>1. /\ body.opening_balance \in Openings /\ body.opening_balance \in Nat
          /\ body.balance_type \in {"receivable", "payable"}
          /\ body.credit_limit \in Limits /\ body.is_active \in BOOLEAN
      BY SalesAssumption DEF CustomerCreate
    <2>2. row \in Customer
      BY <2>1 DEF Customer
    <2> QED
      BY <2>2, NoRowIsNoRow
  <1>3. \A s \in Requests : mine[s][c] = NoRow
    BY <1>1, Facts DEF VersionsOK
  <1>4. /\ db'[c] = row /\ \A k \in Keys \ {c} : db'[k] = db[k]
        /\ db' \in [Keys -> RowsOf(Table)]
    <2>1. db \in [Keys -> RowsOf(Table)] /\ row \in RowsOf(Table)
      BY <1>2, Facts, TableFacts, RowsOfTable DEF SessionInv, SessionRows
    <2> QED
      BY <1>1, <2>1, Facts
  <1>5. SessionInv(Table)'
    <2>1. Unused(c) /\ row \in Table[c] /\ DOMAIN Table = Keys
      <3>1. db[c] = NoRow /\ row \in Customer
        BY <1>1, <1>2
      <3> HIDE DEF row
      <3> QED
        BY <1>3, <3>1, TableFacts DEF Unused
    <2>2. \A k \in Keys : db'[k] = db[k] \/ (Unused(k) /\ db'[k] \in Table[k])
      <3> HIDE DEF row
      <3>1. Unused(c) /\ db'[c] \in Table[c]
        BY <1>4, <2>1
      <3> QED
        BY <1>4, <3>1 DEF Unused
    <2>3. SessionInv(Table) /\ UNCHANGED <<job, mine, held, arrived>>
      BY <1>1, Facts
    <2>4. db' \in [DOMAIN Table -> RowsOf(Table)]
      BY <1>4, <2>1
    <2> QED
      BY <2>1, <2>2, <2>3, <2>4, CreateStep
  <1>6. \A s \in Requests : RowsKept(s)
    <2>1. \A s \in Requests : c \notin held[s] /\ mine[s][c] = NoRow
      BY <1>1, <1>3, Facts DEF SessionInv, SessionLocks
    <2> QED
      BY <1>1, <1>2, <1>4, <2>1, Facts DEF RowsKept
  <1>7. RowsRefer'
    <2>1. ASSUME NEW v \in Invoices, db'[v] # NoRow
          PROVE  db'[v] = db[v] /\ (db[v].cust \in Customers => db'[db[v].cust] # NoRow)
      <3>1. db'[v] = db[v] /\ Known(db[v])
        BY <1>4, <2>1, Facts, TablesAssumption DEF RowsRefer
      <3> QED
        BY <1>2, <1>4, <3>1, Facts DEF Known
    <2>2. ASSUME NEW t \in Returns, db'[t] # NoRow
          PROVE  db'[t] = db[t] /\ db'[db[t].inv] # NoRow
      <3>1. db'[t] = db[t] /\ db[db[t].inv] # NoRow
        BY <1>4, <2>2, Facts, TablesAssumption DEF RowsRefer
      <3>2. db[t].inv \in Keys
        BY <2>2, <3>1, Facts, RowTypes DEF Return
      <3> QED
        BY <1>2, <1>4, <3>1, <3>2
    <2> QED
      BY <2>1, <2>2 DEF RowsRefer, Known
  <1>8. job' \in [Requests -> JobRec] /\ RequestOK(r)'
    BY <1>1, <1>6, Undisturbed DEF IInv
  <1> QED
    BY <1>1, <1>5, <1>6, <1>7, <1>8, SessionStep

LEMMA UpdateCustomerKept ==
    ASSUME IInv, NEW r \in Requests, NEW c \in Customers, NEW body \in CustomerUpdate,
           UpdateCustomer(r, c, body)
    PROVE  IInv'
  <1> DEFINE j == Job("updateCustomer", c)
             row == [db[c] EXCEPT !.limit = body.credit_limit, !.active = body.is_active]
  <1>1. db[c] \in Customer /\ db[c] # NoRow /\ row \in Customer /\ row \in Table[c]
    <2>1. db[c] # NoRow
      BY DEF UpdateCustomer, ActiveCustomer
    <2>2. db[c] \in Customer
      BY <2>1, RowTypes DEF IInv
    <2> QED
      BY <2>1, <2>2, TableFacts DEF Customer, CustomerUpdate
  <1>2. Begin(r, j) /\ Free(r, c) /\ Write(r, c, row) /\ db' = db /\ j.op \in Ops
    BY DEF UpdateCustomer, Begin
  <1>3. /\ j \in JobRec /\ j.op = "updateCustomer" /\ j.key = c
        /\ j.dues = <<>> /\ j.keptOf = NoKey
    BY <1>2, NewJob, Facts
  <1>4. (KeyOK(r) /\ ReadOK(r) /\ PayOK(r))'
    BY <1>1, <1>2, <1>3, Begun DEF KeyOK, ReadOK, PayOK, At
  <1> QED
    BY <1>1, <1>2, <1>3, <1>4, Begun, FlushStep, Facts, TablesAssumption

LEMMA DeleteCustomerKept ==
    ASSUME IInv, NEW r \in Requests, NEW c \in Customers, DeleteCustomer(r, c)
    PROVE  IInv'
  <1> DEFINE j == Job("deleteCustomer", c)
             row == [db[c] EXCEPT !.active = FALSE]
  <1>1. db[c] \in Customer /\ db[c] # NoRow /\ row \in Customer /\ row \in Table[c]
    <2>1. db[c] # NoRow
      BY DEF DeleteCustomer, ActiveCustomer
    <2>2. db[c] \in Customer
      BY <2>1, RowTypes DEF IInv
    <2> QED
      BY <2>1, <2>2, TableFacts DEF Customer
  <1>2. Begin(r, j) /\ Free(r, c) /\ Write(r, c, row) /\ db' = db /\ j.op \in Ops
    BY DEF DeleteCustomer, Begin
  <1>3. /\ j \in JobRec /\ j.op = "deleteCustomer" /\ j.key = c
        /\ j.dues = <<>> /\ j.keptOf = NoKey
    BY <1>2, NewJob, Facts
  <1>4. (KeyOK(r) /\ ReadOK(r) /\ PayOK(r))'
    BY <1>1, <1>2, <1>3, Begun DEF KeyOK, ReadOK, PayOK, At
  <1> QED
    BY <1>1, <1>2, <1>3, <1>4, Begun, FlushStep, Facts, TablesAssumption

LEMMA DueType ==
    ASSUME NEW c \in Customers \cup {Walking}, NEW n \in Int
    PROVE  /\ Due(c, n) \in Seq(DueRec)
           /\ c \in Customers /\ n # 0 => Due(c, n) = <<[cust |-> c, delta |-> n]>>
           /\ c \notin Customers => Due(c, n) = <<>>
           /\ \A i \in 1 .. Len(Due(c, n)) : c \in Customers /\ Due(c, n)[i].cust = c
  <1>1. c \in Customers => [cust |-> c, delta |-> n] \in DueRec
    BY DEF DueRec
  <1>2. CASE c \in Customers /\ n # 0
    BY <1>1, <1>2 DEF Due, Regular
  <1>3. CASE ~(c \in Customers /\ n # 0)
    BY <1>3 DEF Due, Regular
  <1> QED
    BY <1>2, <1>3

LEMMA RecordCustomerPaymentKept ==
    ASSUME IInv, NEW r \in Requests, NEW c \in Customers, NEW amount \in Amounts,
           RecordCustomerPayment(r, c, amount)
    PROVE  IInv'
  <1> DEFINE j == [Job("customerPay", c) EXCEPT !.amount = amount, !.dues = Due(c, - amount)]
  <1>1. /\ db[c] # NoRow /\ Begin(r, j) /\ UNCHANGED <<db, mine, held>>
        /\ j.op \in Ops /\ j.op = "customerPay" /\ Job("customerPay", c).op \in Ops
    BY DEF RecordCustomerPayment, Begin, Job, NoJob
  <1>2. amount \in Nat /\ amount > 0 /\ - amount # 0
    BY SalesAssumption
  <1>3. Due(c, - amount) \in Seq(DueRec) /\ Due(c, - amount) = <<[cust |-> c, delta |-> - amount]>>
    BY <1>2, DueType
  <1>4. /\ j \in JobRec /\ j.key = c /\ j.step = "done" /\ j.keptOf = NoKey
        /\ j.amount = amount /\ j.dues = <<[cust |-> c, delta |-> - amount]>>
    <2>1. c \in Keys
      BY Facts
    <2>2. /\ Job("customerPay", c) \in JobRec /\ Job("customerPay", c).key = c
          /\ Job("customerPay", c).step = "done" /\ Job("customerPay", c).keptOf = NoKey
      BY <1>1, <2>1, NewJob
    <2> QED
      BY <1>2, <1>3, <2>2 DEF JobRec
  <1>5. job'[r] = j /\ \A k \in Keys : mine'[r][k] = NoRow
    BY <1>1, <1>4, Begun
  <1>6. KeyOK(r)' /\ ReadOK(r)'
    <2>1. KeyOK(r)'
      BY <1>1, <1>4, <1>5 DEF KeyOK
    <2>2. \A i \in 1 .. Len(j.dues) : j.dues[i].cust = c
      BY <1>4
    <2> QED
      BY <1>1, <1>4, <1>5, <2>1, <2>2 DEF ReadOK, At
  <1>7. PayOK(r)'
    <2>1. MoneyOK(r, c)'
      BY <1>4, <1>5, Facts DEF MoneyOK
    <2>2. \A v \in Invoices : mine'[r][v] = NoRow
      BY <1>5, Facts
    <2> QED
      BY <1>1, <1>2, <1>4, <1>5, <2>1, <2>2 DEF PayOK, At
  <1> QED
    BY <1>1, <1>4, <1>6, <1>7, BeginStep

\* The customer of the next change of a balance.
LEMMA NextDue ==
    ASSUME IInv, NEW r \in Requests, job[r].dues # <<>>
    PROVE  /\ Head(job[r].dues) \in DueRec /\ Tail(job[r].dues) \in Seq(DueRec)
           /\ Head(job[r].dues).cust \in Customers /\ Head(job[r].dues).delta \in Int
           /\ db[Head(job[r].dues).cust] \in Customer
           /\ \A i \in 1 .. Len(Tail(job[r].dues)) : db[Tail(job[r].dues)[i].cust] # NoRow
           /\ job[r].op # "none"
  <1>1. job[r].dues \in Seq(DueRec)
    BY Facts DEF JobRec
  <1>2. Head(job[r].dues) \in DueRec /\ Tail(job[r].dues) \in Seq(DueRec)
    BY <1>1
  <1>3. \A i \in 1 .. Len(job[r].dues) : db[job[r].dues[i].cust] # NoRow
    BY Facts DEF ReadOK
  <1>4. Head(job[r].dues) = job[r].dues[1] /\ Len(job[r].dues) >= 1
    BY <1>1
  <1>5. \A i \in 1 .. Len(Tail(job[r].dues)) :
           i + 1 \in 1 .. Len(job[r].dues) /\ Tail(job[r].dues)[i] = job[r].dues[i + 1]
    BY <1>1
  <1>6. Head(job[r].dues).cust \in Customers /\ Head(job[r].dues).delta \in Int
    BY <1>2 DEF DueRec
  <1>7. db[Head(job[r].dues).cust] # NoRow
    BY <1>1, <1>3, <1>4
  <1>8. job[r].op # "none"
    BY Facts DEF KeyOK
  <1> QED
    BY <1>2, <1>3, <1>5, <1>6, <1>7, <1>8, RowTypes DEF IInv

\* The object that the lock returns is a customer, the same as what a statement
\* finds but in a session that has kept one.
LEMMA LockedType ==
    ASSUME IInv, NEW r \in Requests, NEW c \in Customers, db[c] \in Customer
    PROVE  /\ Locked(r, c) \in Customer /\ Seen(r, c) \in Customer
           /\ job[r].op \notin {"sale", "update", "void"} => Locked(r, c) = Seen(r, c)
  <1>1. Seen(r, c) \in Customer
    BY RowTypes DEF Seen, IInv
  <1>2. job[r].keptOf = c => job[r].kept \in Customer /\ job[r].op \in {"sale", "update", "void"}
    <2>1. c # NoKey
      BY TablesAssumption, Facts
    <2> QED
      BY <2>1, Facts DEF ReadOK, JobRec
  <1> QED
    BY <1>1, <1>2 DEF Locked

LEMMA SignedType == \A row \in Customer : Signed(row) \in Int
  BY DEF Customer, Signed

\* What is written of a balance reads back as it was meant.
LEMMA SignedStored ==
    ASSUME NEW n \in Int
    PROVE  /\ Stored(n).balance \in Nat /\ Stored(n).balance_type \in {"receivable", "payable"}
           /\ Signed(Stored(n)) = n
  BY DEF Stored, Signed

\* What is left of the request when a balance has been changed, or passed over.
DueDone(r) ==
    /\ job' \in [Requests -> JobRec] /\ OthersWait(r)
    /\ job'[r].op = job[r].op /\ job'[r].key = job[r].key /\ job'[r].step = job[r].step
    /\ job'[r].amount = job[r].amount /\ job'[r].dues = Tail(job[r].dues)
    /\ job'[r].keptOf = job[r].keptOf
    /\ job[r].keptOf # NoKey => job'[r].kept # NoRow

LEMMA DueDoneOK ==
    ASSUME IInv, NEW r \in Requests, job[r].dues # <<>>,
           job[r].step = "done" \/ job[r].op = "void", db' = db, DueDone(r)
    PROVE  Open(r)' /\ (KeyOK(r) /\ ReadOK(r))'
  <1>1. Open(r)'
    BY NextDue DEF Open, DueDone
  <1>2. KeyOK(r)'
    BY NextDue, Facts DEF KeyOK, DueDone
  <1>3. ReadOK(r)'
    <2>1. ~At(r, "update", "write")' /\ ~At(r, "refund", "write")'
      BY DEF At, DueDone
    <2>2. \A i \in 1 .. Len(job'[r].dues) : db'[job'[r].dues[i].cust] # NoRow
      BY NextDue DEF DueDone
    <2>3. job'[r].keptOf # NoKey =>
             job'[r].kept # NoRow /\ job'[r].op \in {"sale", "update", "void"}
      BY Facts DEF ReadOK, DueDone
    <2> QED
      BY <2>1, <2>2, <2>3 DEF ReadOK
  <1> QED
    BY <1>1, <1>2, <1>3

\* The new row: a balance that differs from the object's is written.
BalanceRow(row, object, new) ==
    [row EXCEPT !.balance = IF new.balance # object.balance THEN new.balance ELSE @,
                !.balance_type = IF new.balance_type # object.balance_type
                                 THEN new.balance_type ELSE @]

LEMMA BalanceRowType ==
    ASSUME NEW row \in Customer, NEW object \in Customer, NEW n \in Int
    PROVE  /\ BalanceRow(row, object, Stored(n)) \in Customer
           /\ BalanceRow(row, object, Stored(n)).opening = row.opening
           /\ BalanceRow(row, object, Stored(n)).paid_in = row.paid_in
           /\ row.balance = object.balance /\ row.balance_type = object.balance_type =>
                Signed(BalanceRow(row, object, Stored(n))) = n
  <1> DEFINE b == BalanceRow(row, object, Stored(n))
             new == Stored(n)
  <1>1. /\ new.balance \in Nat /\ new.balance_type \in {"receivable", "payable"}
        /\ Signed(new) = n
    BY SignedStored
  <1> HIDE DEF new
  <1>2. /\ b \in Customer /\ b.opening = row.opening /\ b.paid_in = row.paid_in
        /\ b.balance = (IF new.balance # object.balance THEN new.balance ELSE row.balance)
        /\ b.balance_type = (IF new.balance_type # object.balance_type THEN new.balance_type
                             ELSE row.balance_type)
    BY <1>1 DEF Customer, BalanceRow, new
  <1>3. row.balance = object.balance /\ row.balance_type = object.balance_type =>
           b.balance = new.balance /\ b.balance_type = new.balance_type
    BY <1>2
  <1> QED
    BY <1>1, <1>2, <1>3 DEF Signed

\* Money that was due to the customer has been counted, once.
LEMMA MoneyCounted ==
    ASSUME IInv, NEW r \in Requests, job[r].dues # <<>>, ApplyDue(r),
           NEW c \in Customers, MoneyOK(r, c), job[r].op \in {"pay", "refund", "customerPay"},
           db' = db, job'[r].op = job[r].op, job'[r].amount = job[r].amount,
           job'[r].dues = Tail(job[r].dues)
    PROVE  MoneyOK(r, c)'
  <1> DEFINE due == Head(job[r].dues)
             n == Signed(Locked(r, due.cust)) + due.delta
             row == IF job[r].op = "customerPay" THEN SavePayment(Seen(r, due.cust), - due.delta)
                    ELSE Seen(r, due.cust)
  <1>1. /\ job[r].dues = <<[cust |-> c, delta |-> - job[r].amount]>>
        /\ mine[r][c] = NoRow
    BY DEF MoneyOK
  <1>2. /\ due.cust = c /\ due.delta = - job[r].amount /\ Tail(job[r].dues) = <<>>
        /\ job[r].amount \in Nat
    BY <1>1, Facts DEF JobRec
  <1>3. /\ db[c] \in Customer /\ Seen(r, c) = db[c] /\ Locked(r, c) = db[c]
    BY <1>1, <1>2, NextDue, LockedType DEF Seen
  <1>4. CASE db[c].active
    <2>1. Write(r, due.cust, BalanceRow(row, Locked(r, due.cust), Stored(n)))
      BY <1>2, <1>3, <1>4 DEF ApplyDue, ApplyDueWith, BalanceRow
    <2>2. /\ mine'[r][c] = BalanceRow(row, db[c], Stored(n))
          /\ c \in held'[r]
      BY <1>2, <1>3, <2>1, Written, Facts
    <2>3. /\ row \in Customer /\ row.balance = db[c].balance
          /\ row.balance_type = db[c].balance_type /\ row.opening = db[c].opening
          /\ job[r].op = "customerPay" => row.paid_in = db[c].paid_in + job[r].amount
      BY <1>2, <1>3 DEF Customer, SavePayment
    <2>4. Signed(db[c]) \in Int /\ n \in Int /\ n = Signed(db[c]) - job[r].amount
      <3>1. Signed(db[c]) \in Int
        BY <1>3, SignedType
      <3>2. n = Signed(db[c]) + (- job[r].amount)
        BY <1>2, <1>3
      <3> QED
        BY <1>2, <3>1, <3>2
    <2> HIDE DEF row, n
    <2>5. /\ mine'[r][c] \in Customer /\ Signed(mine'[r][c]) = n
          /\ mine'[r][c].opening = row.opening /\ mine'[r][c].paid_in = row.paid_in
      <3>1. db[c] \in Customer /\ row \in Customer /\ n \in Int
        BY <1>3, <2>3, <2>4
      <3>2. /\ BalanceRow(row, db[c], Stored(n)) \in Customer
            /\ BalanceRow(row, db[c], Stored(n)).opening = row.opening
            /\ BalanceRow(row, db[c], Stored(n)).paid_in = row.paid_in
            /\ Signed(BalanceRow(row, db[c], Stored(n))) = n
        BY <2>3, <3>1, BalanceRowType
      <3> QED
        BY <2>2, <3>2
    <2>6. Moved(r, c)'
      BY <2>3, <2>4, <2>5, NoRowIsNoRow DEF Moved
    <2> QED
      BY <1>2, <1>4, <2>2, <2>6 DEF MoneyOK
  <1>5. CASE ~db[c].active
    <2>1. Hold(r, c) /\ UNCHANGED mine /\ job[r].op # "customerPay"
      BY <1>2, <1>3, <1>5 DEF ApplyDue, ApplyDueWith
    <2>2. c \in held'[r]
      BY <2>1, Facts DEF Hold, SessionInv, SessionRows
    <2> QED
      BY <1>1, <1>2, <1>5, <2>1, <2>2 DEF MoneyOK
  <1> QED
    BY <1>4, <1>5

\* What session r has written of invoices is as it was.
LEMMA DuePayOK ==
    ASSUME IInv, NEW r \in Requests, job[r].dues # <<>>, ApplyDue(r), db' = db, DueDone(r),
           held[r] \subseteq held'[r], \A v \in Invoices : mine'[r][v] = mine[r][v]
    PROVE  PayOK(r)'
  <1>1. PayOK(r) /\ KeyOK(r) /\ (job[r].step = "done" \/ job[r].op = "void")
    BY Facts DEF ApplyDue, ApplyDueWith
  <1>2. /\ job'[r].op = job[r].op /\ job'[r].key = job[r].key /\ job'[r].step = job[r].step
        /\ job'[r].amount = job[r].amount /\ job'[r].dues = Tail(job[r].dues)
    BY DEF DueDone
  <1>3. ASSUME NEW c \in Customers, MoneyOK(r, c), job[r].op \in {"pay", "refund", "customerPay"}
        PROVE  MoneyOK(r, c)'
    BY <1>2, <1>3, MoneyCounted
  <1>4. CASE job[r].op = "pay"
    <2>1. /\ job[r].key \in Invoices /\ job[r].key \in held'[r]
          /\ mine'[r][job[r].key] = AddPaidAmount(db[job[r].key], job[r].amount)
          /\ job[r].amount <= db[job[r].key].total - db[job[r].key].paid
          /\ job[r].step = "done" /\ job[r].amount > 0
      BY <1>1, <1>4 DEF PayOK, KeyOK
    <2>2. ASSUME NEW c \in Customers, c = db[job[r].key].cust
          PROVE  MoneyOK(r, c)'
      BY <1>1, <1>3, <1>4, <2>2 DEF PayOK
    <2> QED
      BY <1>2, <1>4, <2>1, <2>2 DEF PayOK, At
  <1>5. CASE job[r].op = "customerPay"
    <2>1. ASSUME NEW c \in Customers, c = job[r].key
          PROVE  MoneyOK(r, c)'
      BY <1>1, <1>3, <1>5, <2>1 DEF PayOK
    <2> QED
      BY <1>1, <1>2, <1>5, <2>1 DEF PayOK, At
  <1>6. CASE job[r].op = "refund"
    <2>1. At(r, "refund", "done") /\ job[r].amount > 0
      BY <1>1, <1>6 DEF PayOK, At
    <2>2. db[job[r].key].inv \in held'[r]
      BY <1>1, <2>1 DEF PayOK
    <2>3. ASSUME NEW c \in Customers, c = db[db[job[r].key].inv].cust
          PROVE  MoneyOK(r, c)'
      BY <1>1, <1>3, <1>6, <2>1, <2>3 DEF PayOK
    <2> QED
      BY <1>2, <1>6, <2>1, <2>2, <2>3 DEF PayOK, At
  <1>7. CASE job[r].op \notin {"pay", "customerPay", "refund"}
    BY <1>2, <1>7 DEF PayOK, At
  <1> QED
    BY <1>4, <1>5, <1>6, <1>7

LEMMA ApplyDueKept ==
    ASSUME IInv, NEW r \in Requests, ApplyDue(r)
    PROVE  IInv'
  <1> DEFINE due == Head(job[r].dues)
             c == due.cust
             new == Stored(Signed(Locked(r, c)) + due.delta)
             row == IF job[r].op = "customerPay" THEN SavePayment(Seen(r, c), - due.delta)
                    ELSE Seen(r, c)
  <1>1. /\ job[r].dues # <<>> /\ (job[r].step = "done" \/ job[r].op = "void")
        /\ Free(r, c) /\ UNCHANGED <<db, arrived>>
    BY DEF ApplyDue, ApplyDueWith
  <1>2. /\ c \in Customers /\ due.delta \in Int /\ db[c] \in Customer /\ db[c] # NoRow
        /\ Tail(job[r].dues) \in Seq(DueRec)
    BY <1>1, NextDue, NoRowIsNoRow
  <1>3. Locked(r, c) \in Customer /\ Seen(r, c) \in Customer
    BY <1>2, LockedType
  <1>4. job \in [Requests -> JobRec] /\ job[r] \in JobRec
    BY DEF IInv
  <1>5. job[r].keptOf # NoKey => job[r].kept \in Customer /\ job[r].kept # NoRow
    BY <1>4, Facts DEF ReadOK, JobRec
  <1>6. CASE Locked(r, c).active
    <2>1. /\ Write(r, c, BalanceRow(row, Locked(r, c), new))
          /\ job' = [job EXCEPT ![r].dues = Tail(@),
                                ![r].kept = IF job[r].keptOf = c
                                              THEN [@ EXCEPT !.balance = new.balance,
                                                             !.balance_type = new.balance_type]
                                              ELSE @]
      BY <1>6 DEF ApplyDue, ApplyDueWith, BalanceRow
    <2>2. Signed(Locked(r, c)) + due.delta \in Int
      BY <1>2, <1>3, SignedType
    <2>3. new.balance \in Nat /\ new.balance_type \in {"receivable", "payable"}
      BY <2>2, SignedStored
    <2>4. row \in Customer
      <3>1. job[r].op = "customerPay" => due.delta = - job[r].amount
        <4>1. job[r].op = "customerPay" =>
                 job[r].key \in Customers /\ MoneyOK(r, job[r].key)
          BY Facts DEF PayOK, KeyOK
        <4>2. job[r].op = "customerPay" =>
                 job[r].dues = <<[cust |-> job[r].key, delta |-> - job[r].amount]>>
          BY <1>1, <4>1 DEF MoneyOK
        <4> QED
          BY <4>2
      <3>2. job[r].op = "customerPay" => - due.delta \in Nat
        BY <1>4, <3>1 DEF JobRec
      <3> QED
        BY <1>3, <3>2 DEF SavePayment, Customer
    <2>5. BalanceRow(row, Locked(r, c), new) \in Customer
      BY <1>3, <2>2, <2>4, BalanceRowType
    <2> HIDE DEF row, new
    <2>6. DueDone(r)
      <3> DEFINE kept == IF job[r].keptOf = c
                         THEN [job[r].kept EXCEPT !.balance = new.balance,
                                                  !.balance_type = new.balance_type]
                         ELSE job[r].kept
      <3>1. c # NoKey
        BY <1>2, Facts, TablesAssumption
      <3>2. kept \in Customer \cup {NoRow} /\ (job[r].keptOf # NoKey => kept # NoRow)
        BY <1>4, <1>5, <2>3, <3>1, NoRowIsNoRow DEF JobRec, Customer
      <3>3. job' = [job EXCEPT ![r].dues = Tail(@), ![r].kept = kept]
        BY <1>4, <2>1 DEF JobRec
      <3> HIDE DEF kept
      <3> QED
        BY <1>2, <1>4, <3>2, <3>3 DEF DueDone, JobRec, OthersWait
    <2>7. PayOK(r)'
      <3>1. /\ held'[r] = held[r] \cup {c}
            /\ \A k \in Keys \ {c} : mine'[r][k] = mine[r][k]
        BY <1>2, <2>1, Written, Facts
      <3>2. \A v \in Invoices : v \in Keys /\ v # c
        BY <1>2, Facts, TablesAssumption
      <3> QED
        BY <1>1, <2>6, <3>1, <3>2, DuePayOK
    <2>8. c \in Keys /\ c \notin Invoices /\ c \notin Returns
      BY <1>2, Facts, TablesAssumption
    <2>9. arrived' \in 0 .. MaxArrivals /\ job' \in [Requests -> JobRec] /\ OthersWait(r)
      BY <1>1, <2>6, Facts DEF DueDone
    <2>10. BalanceRow(row, Locked(r, c), new) \in Table[c]
      BY <1>2, <2>5, TableFacts
    <2> QED
      BY <1>1, <1>2, <2>1, <2>6, <2>7, <2>8, <2>9, <2>10, FlushStep, DueDoneOK
  <1>7. CASE ~Locked(r, c).active
    <2>1. Hold(r, c) /\ job' = [job EXCEPT ![r].dues = Tail(@)] /\ UNCHANGED mine
      BY <1>7 DEF ApplyDue, ApplyDueWith
    <2>2. DueDone(r)
      BY <1>2, <1>4, <1>5, <2>1 DEF DueDone, JobRec, OthersWait
    <2>3. Open(r)' /\ (KeyOK(r) /\ ReadOK(r))' /\ OthersWait(r)
      BY <1>1, <2>2, DueDoneOK DEF DueDone
    <2>4. SessionInv(Table)'
      BY <1>1, <1>2, <2>1, <2>3, Facts, HoldStep
    <2>5. /\ held[r] \subseteq held'[r]
          /\ \A s \in Requests \ {r} : mine'[s] = mine[s] /\ held'[s] = held[s]
      BY <2>1, Facts DEF Hold, SessionInv, SessionRows
    <2>6. PayOK(r)'
      BY <1>1, <2>1, <2>2, <2>5, DuePayOK
    <2>7. VersionsOK(r)'
      BY <1>1, <2>1, Facts DEF VersionsOK, Known
    <2> QED
      BY <1>1, <2>2, <2>3, <2>4, <2>5, <2>6, <2>7, LocalStep DEF RequestOK, DueDone
  <1> QED
    BY <1>6, <1>7

-----------------------------------------------------------------------------
(* Invoices.                                                               *)

LEMMA InvoiceNumbers == \A inv \in Invoice : inv.total \in Int /\ inv.paid \in Int
  <1>1. Amounts \subseteq Int
    BY SalesAssumption
  <1> QED
    BY <1>1 DEF Invoice

LEMMA OwedType == \A inv \in Invoice : Owed(inv) \in Int
  BY InvoiceNumbers DEF Owed

LEMMA NewInvoiceType ==
    ASSUME NEW body, body.customer \in Customers \cup {Walking}, body.items \in Amounts,
           body.payment_type \in PaymentType, body.amount_paid \in Amounts \cup {0}
    PROVE  NewInvoice(body) \in Invoice /\ NewInvoice(body).cust = body.customer
  <1>1. PaidOf(body) \in Int
    BY SalesAssumption DEF PaidOf, PaymentType
  <1> QED
    BY <1>1 DEF NewInvoice, Invoice, SaleStatus

\* The job of a request that keeps the customer it has read.
LEMMA KeepingType ==
    ASSUME NEW j \in JobRec, NEW c \in Customers \cup {Walking},
           c \in Customers => db[c] \in Customer
    PROVE  /\ Keeping(j, c) \in JobRec
           /\ Keeping(j, c).op = j.op /\ Keeping(j, c).key = j.key
           /\ Keeping(j, c).step = j.step /\ Keeping(j, c).dues = j.dues
           /\ Keeping(j, c).keptOf # NoKey => Keeping(j, c).kept # NoRow
  <1>1. CASE c \in Customers
    BY <1>1, NoRowIsNoRow DEF Keeping, Regular, JobRec
  <1>2. CASE c \notin Customers
    BY <1>2 DEF Keeping, Regular, JobRec
  <1> QED
    BY <1>1, <1>2

LEMMA CreateSaleKept ==
    ASSUME IInv, NEW r \in Requests, NEW v \in Invoices, NEW body \in SaleCreate,
           CreateSale(r, v, body)
    PROVE  IInv'
  <1> DEFINE c == body.customer
             row == NewInvoice(body)
             j == [Keeping(Job("sale", v), c) EXCEPT !.dues = Due(c, Owed(row))]
  <1>1. /\ Unused(v) /\ (c \in Customers => db[c] # NoRow)
        /\ Begin(r, j) /\ UNCHANGED <<db, held>>
        /\ mine' = [mine EXCEPT ![r][v] = row]
    BY DEF CreateSale, Regular, ActiveCustomer
  <1>2. /\ c \in Customers \cup {Walking} /\ row \in Invoice /\ row.cust = c
        /\ v \in Keys /\ row \in Table[v] /\ row # NoRow
    BY NewInvoiceType, TableFacts, NoRowIsNoRow DEF SaleCreate
  <1>3. c \in Customers => db[c] \in Customer
    BY <1>1, RowTypes DEF IInv
  <1>4. Due(c, Owed(row)) \in Seq(DueRec) /\ \A i \in 1 .. Len(Due(c, Owed(row))) :
            c \in Customers /\ Due(c, Owed(row))[i].cust = c
    BY <1>2, OwedType, DueType
  <1>5. Job("sale", v).op \in Ops
    BY <1>1 DEF Begin, Job, NoJob, Keeping
  <1> HIDE DEF row
  <1>6. /\ j \in JobRec /\ j.op = "sale" /\ j.key = v /\ j.step = "done"
        /\ j.dues = Due(c, Owed(row)) /\ (j.keptOf # NoKey => j.kept # NoRow)
    <2>1. /\ Job("sale", v) \in JobRec /\ Job("sale", v).op = "sale" /\ Job("sale", v).key = v
          /\ Job("sale", v).step = "done"
      BY <1>2, <1>5, NewJob
    <2>2. /\ Keeping(Job("sale", v), c) \in JobRec
          /\ Keeping(Job("sale", v), c).op = "sale" /\ Keeping(Job("sale", v), c).key = v
          /\ Keeping(Job("sale", v), c).step = "done"
          /\ Keeping(Job("sale", v), c).keptOf # NoKey => Keeping(Job("sale", v), c).kept # NoRow
      BY <1>2, <1>3, <2>1, KeepingType
    <2> QED
      BY <1>4, <2>2 DEF JobRec
  <1> HIDE DEF j
  <1>7. /\ job' \in [Requests -> JobRec] /\ job'[r] = j /\ Open(r)' /\ OthersWait(r)
        /\ arrived' \in 0 .. MaxArrivals /\ \A k \in Keys : mine[r][k] = NoRow
    BY <1>1, <1>6, Begun
  <1>8. SessionInv(Table)'
    BY <1>1, <1>2, <1>7, Facts, InsertStep
  <1>9. /\ mine'[r][v] = row /\ \A k \in Keys \ {v} : mine'[r][k] = NoRow
        /\ \A s \in Requests \ {r} : mine'[s] = mine[s]
    BY <1>1, <1>2, <1>7, Facts DEF SessionInv, SessionRows
  <1>10. VersionsOK(r)'
    <2>1. \A k \in Customers \cup Returns : mine'[r][k] = NoRow
      BY <1>9, Facts, TablesAssumption
    <2>2. \A w \in Invoices : mine'[r][w] # NoRow => w = v
      BY <1>9, Facts
    <2> QED
      BY <1>1, <1>2, <1>9, <2>1, <2>2 DEF VersionsOK, Known, Unused
  <1>11. (KeyOK(r) /\ ReadOK(r) /\ PayOK(r))'
    <2>1. KeyOK(r)' /\ PayOK(r)'
      BY <1>6, <1>7 DEF KeyOK, PayOK, At
    <2>2. \A i \in 1 .. Len(j.dues) : db'[j.dues[i].cust] # NoRow
      BY <1>1, <1>4, <1>6
    <2> QED
      BY <1>6, <1>7, <2>1, <2>2 DEF ReadOK, At
  <1> QED
    BY <1>1, <1>7, <1>8, <1>9, <1>10, <1>11, LocalStep DEF RequestOK

LEMMA UpdateSaleKept ==
    ASSUME IInv, NEW r \in Requests, NEW v \in Invoices, NEW body \in SaleUpdate,
           UpdateSale(r, v, body)
    PROVE  IInv'
  <1> DEFINE inv == db[v]
             new == IF body.settles THEN [NewInvoice(body) EXCEPT !.status = inv.status]
                    ELSE [inv EXCEPT !.cust = body.customer]
             j == [Job("update", v) EXCEPT !.step = "write", !.loaded = inv, !.new = new]
  <1>1. /\ inv # NoRow /\ (body.customer \in Customers => db[body.customer] # NoRow)
        /\ Begin(r, j) /\ UNCHANGED <<db, mine, held>>
    BY DEF UpdateSale, Regular
  <1>2. inv \in Invoice /\ Known(inv) /\ v \in Keys
    BY <1>1, RowTypes, Facts DEF IInv, RowsRefer
  <1>3. new \in Invoice /\ new.cust = body.customer /\ new.status = inv.status
    <2>1. /\ body.customer \in Customers \cup {Walking} /\ body.items \in Amounts
          /\ body.payment_type \in PaymentType /\ body.amount_paid \in Amounts \cup {0}
      BY DEF SaleUpdate
    <2>2. NewInvoice(body) \in Invoice /\ NewInvoice(body).cust = body.customer
      BY <2>1, NewInvoiceType
    <2> QED
      BY <1>2, <2>1, <2>2 DEF Invoice
  <1>4. Job("update", v).op \in Ops
    BY <1>1 DEF Begin, Job, NoJob
  <1> HIDE DEF inv, new
  <1>5. /\ j \in JobRec /\ j.op = "update" /\ j.key = v /\ j.step = "write" /\ j.dues = <<>>
        /\ j.keptOf = NoKey /\ j.loaded = inv /\ j.new = new
    <2>1. /\ Job("update", v) \in JobRec
          /\ Job("update", v).op = "update" /\ Job("update", v).key = v
          /\ Job("update", v).dues = <<>> /\ Job("update", v).keptOf = NoKey
      BY <1>2, <1>4, NewJob
    <2> QED
      BY <1>2, <1>3, <2>1 DEF JobRec
  <1> HIDE DEF j
  <1>6. job'[r] = j
    BY <1>1, <1>5, Begun
  <1>7. /\ inv.cust \in Customers => db'[inv.cust] # NoRow
        /\ new.cust \in Customers => db'[new.cust] # NoRow
    BY <1>1, <1>2, <1>3 DEF Known
  <1>8. KeyOK(r)' /\ PayOK(r)'
    BY <1>1, <1>5, <1>6 DEF KeyOK, PayOK, At, inv
  <1>9. ReadOK(r)'
    BY <1>2, <1>3, <1>5, <1>6, <1>7 DEF ReadOK, At, Known
  <1> QED
    BY <1>1, <1>5, <1>8, <1>9, BeginStep

LEMMA FlushedType ==
    ASSUME NEW row \in Invoice, NEW loaded \in Invoice, NEW new \in Invoice
    PROVE  /\ Flushed(row, loaded, new) \in Invoice
           /\ Flushed(row, loaded, new).cust \in {row.cust, new.cust}
           /\ loaded.status = new.status => Flushed(row, loaded, new).status = row.status
  <1>1. DOMAIN row = {"cust", "payment_type", "total", "paid", "status"}
    BY DEF Invoice
  <1> DEFINE x == Flushed(row, loaded, new)
  <1>2. /\ x = [f \in {"cust", "payment_type", "total", "paid", "status"} |-> x[f]]
        /\ x.cust \in {row.cust, new.cust}
        /\ x.payment_type \in {row.payment_type, new.payment_type}
        /\ x.total \in {row.total, new.total} /\ x.paid \in {row.paid, new.paid}
        /\ x.status = IF new.status # loaded.status THEN new.status ELSE row.status
    BY <1>1 DEF Flushed
  <1> HIDE DEF x
  <1>3. x \in Invoice
    BY <1>2 DEF Invoice
  <1> QED
    BY <1>2, <1>3 DEF x

\* What an update has to do to the balance of one customer.
LEMMA DuesKnown ==
    ASSUME NEW inv \in Invoice, Known(inv), NEW n \in Int, NEW owed \in Int
    PROVE  LET dues == IF owed > 0 THEN Due(inv.cust, n) ELSE <<>>
           IN dues \in Seq(DueRec) /\ \A i \in 1 .. Len(dues) : db[dues[i].cust] # NoRow
  <1>1. inv.cust \in Customers \cup {Walking}
    BY DEF Invoice
  <1>2. /\ Due(inv.cust, n) \in Seq(DueRec)
        /\ \A i \in 1 .. Len(Due(inv.cust, n)) : db[Due(inv.cust, n)[i].cust] # NoRow
    BY <1>1, DueType DEF Known
  <1>3. <<>> \in Seq(DueRec) /\ \A i \in 1 .. Len(<<>>) : db[<<>>[i].cust] # NoRow
    OBVIOUS
  <1> QED
    BY <1>2, <1>3

LEMMA FlushUpdateKept ==
    ASSUME IInv, NEW r \in Requests, FlushUpdate(r)
    PROVE  IInv'
  <1> DEFINE v == job[r].key
             loaded == job[r].loaded
             new == job[r].new
             row == Flushed(db[v], loaded, new)
             back == IF Owed(loaded) > 0 THEN Due(loaded.cust, - Owed(loaded)) ELSE <<>>
             on == IF Owed(row) > 0 THEN Due(row.cust, Owed(row)) ELSE <<>>
             dues == IF Owed(loaded) # Owed(row) \/ loaded.cust # row.cust
                     THEN back \o on ELSE <<>>
             j == [Keeping(Job("update", v), row.cust) EXCEPT !.dues = dues]
  <1>1. /\ At(r, "update", "write")
        /\ job' = [job EXCEPT ![r] = j] /\ UNCHANGED <<db, arrived>>
        /\ IF new = loaded THEN UNCHANGED <<mine, held>> ELSE Free(r, v) /\ Write(r, v, row)
    BY DEF FlushUpdate
  <1>2. /\ loaded \in Invoice /\ new \in Invoice /\ loaded.status = new.status
        /\ Known(loaded) /\ Known(new)
    BY <1>1, Facts DEF ReadOK
  <1>3. /\ v \in Invoices /\ v \in Keys /\ db[v] # NoRow /\ db[v] \in Invoice /\ Known(db[v])
    <2>1. v \in Invoices /\ db[v] # NoRow
      BY <1>1, Facts DEF KeyOK, At
    <2> QED
      BY <2>1, Facts, RowTypes DEF RowsRefer, IInv
  <1>4. /\ row \in Invoice /\ row.cust \in {db[v].cust, new.cust} /\ row.status = db[v].status
    BY <1>2, <1>3, FlushedType
  <1>5. /\ Known(row) /\ row.cust \in Customers \cup {Walking}
        /\ loaded.cust \in Customers \cup {Walking}
    BY <1>2, <1>3, <1>4 DEF Known, Invoice
  <1>6. Job("update", v).op \in Ops
    <2>1. job[r].op = "update" /\ job[r].op \in Ops \cup {"none"}
      BY <1>1, Facts DEF At, JobRec
    <2> QED
      BY <2>1 DEF Job, NoJob
  <1> HIDE DEF row, v, loaded, new
  <1>7. dues \in Seq(DueRec) /\ \A i \in 1 .. Len(dues) : db[dues[i].cust] # NoRow
    <2>1. Owed(loaded) \in Int /\ Owed(row) \in Int /\ - Owed(loaded) \in Int
      BY <1>2, <1>4, OwedType
    <2>2. back \in Seq(DueRec) /\ \A i \in 1 .. Len(back) : db[back[i].cust] # NoRow
      BY <1>2, <1>5, <2>1, DuesKnown
    <2>3. on \in Seq(DueRec) /\ \A i \in 1 .. Len(on) : db[on[i].cust] # NoRow
      BY <1>4, <1>5, <2>1, DuesKnown
    <2>4. dues = back \o on \/ dues = <<>>
      OBVIOUS
    <2> HIDE DEF back, on, dues
    <2>5. ASSUME NEW i \in 1 .. Len(back \o on)
          PROVE  db[(back \o on)[i].cust] # NoRow
      <3>1. \/ i \in 1 .. Len(back) /\ (back \o on)[i] = back[i]
            \/ i - Len(back) \in 1 .. Len(on) /\ (back \o on)[i] = on[i - Len(back)]
        BY <2>2, <2>3
      <3> QED
        BY <2>2, <2>3, <3>1
    <2>6. back \o on \in Seq(DueRec)
      BY <2>2, <2>3
    <2>7. CASE dues = back \o on
      <3>1. \A i \in 1 .. Len(back \o on) : db[(back \o on)[i].cust] # NoRow
        BY <2>5
      <3> QED
        BY <2>6, <2>7, <3>1
    <2>8. CASE dues = <<>>
      BY <2>8
    <2> QED
      BY <2>4, <2>7, <2>8
  <1> HIDE DEF dues
  <1>8. /\ j \in JobRec /\ j.op = "update" /\ j.key = v /\ j.step = "done"
        /\ j.dues = dues /\ (j.keptOf # NoKey => j.kept # NoRow)
    <2>1. /\ Job("update", v) \in JobRec /\ Job("update", v).op = "update"
          /\ Job("update", v).key = v /\ Job("update", v).step = "done"
      BY <1>3, <1>6, NewJob
    <2>2. row.cust \in Customers => db[row.cust] \in Customer
      BY <1>5, RowTypes DEF Known, IInv
    <2>3. /\ Keeping(Job("update", v), row.cust) \in JobRec
          /\ Keeping(Job("update", v), row.cust).op = "update"
          /\ Keeping(Job("update", v), row.cust).key = v
          /\ Keeping(Job("update", v), row.cust).step = "done"
          /\ Keeping(Job("update", v), row.cust).keptOf # NoKey =>
                Keeping(Job("update", v), row.cust).kept # NoRow
      BY <1>5, <2>1, <2>2, KeepingType
    <2> QED
      BY <1>7, <2>3 DEF JobRec
  <1> HIDE DEF j
  <1>9. /\ job' \in [Requests -> JobRec] /\ job'[r] = j /\ OthersWait(r) /\ Open(r)'
        /\ arrived' \in 0 .. MaxArrivals
    BY <1>1, <1>8, Facts DEF IInv, OthersWait, Open
  <1>10. (KeyOK(r) /\ ReadOK(r) /\ PayOK(r))'
    <2>1. KeyOK(r)' /\ PayOK(r)'
      BY <1>1, <1>3, <1>8, <1>9 DEF KeyOK, PayOK, At
    <2>2. \A i \in 1 .. Len(j.dues) : db'[j.dues[i].cust] # NoRow
      BY <1>1, <1>7, <1>8
    <2> QED
      BY <1>8, <1>9, <2>1, <2>2 DEF ReadOK, At
  <1>11. CASE new = loaded
    BY <1>1, <1>9, <1>10, <1>11, QuietStep
  <1>12. CASE new # loaded
    <2>1. Free(r, v) /\ Write(r, v, row) /\ row \in Table[v] /\ v \notin Returns
      BY <1>1, <1>3, <1>4, <1>12, TableFacts, TablesAssumption
    <2>2. Dead(db[v]) => Dead(row)
      BY <1>4 DEF Dead
    <2> QED
      BY <1>1, <1>3, <1>5, <1>9, <1>10, <2>1, <2>2, FlushStep
  <1> QED
    BY <1>11, <1>12

LEMMA VoidSaleKept ==
    ASSUME IInv, NEW r \in Requests, NEW v \in Invoices, VoidSale(r, v)
    PROVE  IInv'
  <1> DEFINE c == db[v].cust
             dues == Due(c, - Owed(db[v]))
             j == [Keeping(Job("void", v), c) EXCEPT !.step = "write", !.dues = dues]
  <1>1. db[v] # NoRow /\ Begin(r, j) /\ UNCHANGED <<db, mine, held>>
    BY DEF VoidSale
  <1>2. /\ v \in Keys /\ db[v] \in Invoice /\ c \in Customers \cup {Walking}
        /\ c \in Customers => db[c] \in Customer /\ db[c] # NoRow
    <2>1. db[v] \in Invoice /\ Known(db[v]) /\ v \in Keys
      BY <1>1, RowTypes, Facts DEF IInv, RowsRefer
    <2>2. c \in Customers \cup {Walking} /\ (c \in Customers => db[c] # NoRow)
      BY <2>1 DEF Known, Invoice
    <2> QED
      BY <2>1, <2>2, RowTypes DEF IInv
  <1>3. - Owed(db[v]) \in Int
    BY <1>2, OwedType
  <1>4. dues \in Seq(DueRec) /\ \A i \in 1 .. Len(dues) : db[dues[i].cust] # NoRow
    BY <1>2, <1>3, DueType
  <1>5. Job("void", v).op \in Ops
    BY <1>1 DEF Begin, Job, NoJob, Keeping
  <1> HIDE DEF dues
  <1>6. /\ j \in JobRec /\ j.op = "void" /\ j.key = v /\ j.step = "write"
        /\ j.dues = dues /\ (j.keptOf # NoKey => j.kept # NoRow)
    <2>1. Job("void", v) \in JobRec /\ Job("void", v).op = "void" /\ Job("void", v).key = v
      BY <1>2, <1>5, NewJob
    <2>2. /\ Keeping(Job("void", v), c) \in JobRec
          /\ Keeping(Job("void", v), c).op = "void" /\ Keeping(Job("void", v), c).key = v
          /\ Keeping(Job("void", v), c).keptOf # NoKey => Keeping(Job("void", v), c).kept # NoRow
      BY <1>2, <2>1, KeepingType
    <2> QED
      BY <1>4, <2>2 DEF JobRec
  <1> HIDE DEF j
  <1>7. job'[r] = j
    BY <1>1, <1>6, Begun
  <1>8. (KeyOK(r) /\ ReadOK(r) /\ PayOK(r))'
    <2>1. KeyOK(r)' /\ PayOK(r)'
      BY <1>1, <1>6, <1>7 DEF KeyOK, PayOK, At
    <2>2. \A i \in 1 .. Len(j.dues) : db'[j.dues[i].cust] # NoRow
      BY <1>1, <1>4, <1>6
    <2> QED
      BY <1>6, <1>7, <2>1, <2>2 DEF ReadOK, At
  <1> QED
    BY <1>1, <1>6, <1>8, BeginStep

LEMMA FlushVoidKept ==
    ASSUME IInv, NEW r \in Requests, FlushVoid(r)
    PROVE  IInv'
  <1> DEFINE v == job[r].key
             row == SetStatus(db[v], "void")
  <1>1. /\ job[r].op = "void" /\ job[r].dues = <<>> /\ Free(r, v) /\ Write(r, v, row)
        /\ job' = [job EXCEPT ![r].step = "done"] /\ UNCHANGED <<db, arrived>>
    BY DEF FlushVoid, At
  <1>2. v \in Invoices /\ v \in Keys /\ v \notin Returns /\ db[v] # NoRow /\ db[v] \in Invoice
    <2>1. v \in Invoices /\ db[v] # NoRow
      BY <1>1, Facts DEF KeyOK
    <2> QED
      BY <2>1, Facts, TablesAssumption, RowTypes DEF IInv
  <1>3. row \in Invoice /\ row.cust = db[v].cust /\ Dead(row)
    BY <1>2 DEF SetStatus, Invoice, SaleStatus, Dead
  <1>4. Known(row) /\ row \in Table[v]
    BY <1>2, <1>3, Facts, TableFacts DEF RowsRefer, Known
  <1> HIDE DEF row
  <1>5. /\ job' \in [Requests -> JobRec] /\ OthersWait(r) /\ job'[r].op = "void"
        /\ job'[r].key = v /\ job'[r].dues = <<>> /\ job'[r].step = "done"
        /\ job'[r].keptOf = job[r].keptOf /\ job'[r].kept = job[r].kept
    BY <1>1 DEF IInv, JobRec, OthersWait
  <1>6. Open(r)' /\ arrived' \in 0 .. MaxArrivals
    BY <1>1, <1>5, Facts DEF Open
  <1>7. (KeyOK(r) /\ ReadOK(r) /\ PayOK(r))'
    BY <1>1, <1>2, <1>5, Facts DEF KeyOK, ReadOK, PayOK, At
  <1> QED
    BY <1>1, <1>2, <1>3, <1>4, <1>5, <1>6, <1>7, FlushStep

LEMMA PaidType ==
    ASSUME NEW inv \in Invoice, NEW amount \in Nat
    PROVE  /\ AddPaidAmount(inv, amount) \in Invoice
           /\ AddPaidAmount(inv, amount).cust = inv.cust
           /\ AddPaidAmount(inv, amount).total = inv.total
           /\ AddPaidAmount(inv, amount).paid = inv.paid + amount
  <1> DEFINE status == IF inv.paid + amount >= inv.total THEN "paid"
                       ELSE IF inv.paid + amount > 0 THEN "partially_paid" ELSE inv.status
  <1>1. status \in SaleStatus /\ inv.paid + amount \in Int
    BY DEF SaleStatus, Invoice
  <1>2. AddPaidAmount(inv, amount) = [inv EXCEPT !.paid = @ + amount, !.status = status]
    BY DEF AddPaidAmount
  <1> HIDE DEF status
  <1> QED
    BY <1>1, <1>2 DEF Invoice

LEMMA RecordPaymentKept ==
    ASSUME IInv, NEW r \in Requests, NEW v \in Invoices, NEW amount \in Amounts,
           RecordPayment(r, v, amount)
    PROVE  IInv'
  <1> DEFINE c == db[v].cust
             row == AddPaidAmount(db[v], amount)
             dues == Due(c, - amount)
             j == [Job("pay", v) EXCEPT !.amount = amount, !.dues = dues]
  <1>1. /\ db[v] # NoRow /\ Free(r, v) /\ Payable(db[v])
        /\ amount <= db[v].total - db[v].paid
        /\ Begin(r, j) /\ Write(r, v, row) /\ UNCHANGED db
    BY DEF RecordPayment, RecordPaymentWith
  <1>2. /\ db[v] \in Invoice /\ v \in Keys /\ v \notin Returns /\ Known(db[v])
        /\ c \in Customers \cup {Walking} /\ amount \in Nat /\ amount > 0 /\ - amount # 0
    <2>1. db[v] \in Invoice /\ v \in Keys /\ v \notin Returns /\ Known(db[v])
      BY <1>1, RowTypes, Facts, TablesAssumption DEF IInv, RowsRefer
    <2> QED
      BY <2>1, SalesAssumption DEF Invoice
  <1>3. row \in Invoice /\ row.cust = c /\ ~Dead(db[v])
    <2>1. ~Dead(db[v])
      BY <1>1 DEF Payable, Dead
    <2>2. row \in Invoice /\ row.cust = c
      BY <1>2, PaidType
    <2> QED
      BY <2>1, <2>2
  <1>4. Known(row) /\ row \in Table[v] /\ row # NoRow
    BY <1>2, <1>3, TableFacts, NoRowIsNoRow DEF Known
  <1>5. /\ dues \in Seq(DueRec) /\ \A i \in 1 .. Len(dues) : db[dues[i].cust] # NoRow
        /\ c \in Customers => dues = <<[cust |-> c, delta |-> - amount]>>
    <2>1. c \in Customers => db[c] # NoRow
      BY <1>2 DEF Known
    <2> QED
      BY <1>2, <2>1, DueType
  <1>6. Job("pay", v).op \in Ops
    BY <1>1 DEF Begin, Job, NoJob
  <1> HIDE DEF row, dues
  <1>7. /\ j \in JobRec /\ j.op = "pay" /\ j.key = v /\ j.step = "done"
        /\ j.dues = dues /\ j.keptOf = NoKey /\ j.amount = amount
    <2>1. /\ Job("pay", v) \in JobRec /\ Job("pay", v).op = "pay" /\ Job("pay", v).key = v
          /\ Job("pay", v).step = "done" /\ Job("pay", v).keptOf = NoKey
      BY <1>2, <1>6, NewJob
    <2> QED
      BY <1>2, <1>5, <2>1 DEF JobRec
  <1> HIDE DEF j
  <1>8. /\ job'[r] = j /\ \A k \in Keys : mine[r][k] = NoRow
        /\ job' \in [Requests -> JobRec] /\ Open(r)' /\ OthersWait(r)
        /\ arrived' \in 0 .. MaxArrivals
    BY <1>1, <1>7, Begun
  <1>9. /\ mine'[r][v] = row /\ v \in held'[r]
        /\ \A k \in Keys \ {v} : mine'[r][k] = NoRow
    BY <1>1, <1>2, <1>8, Facts, Written
  <1>10. PayOK(r)'
    <2>1. ASSUME NEW d \in Customers, d = c
          PROVE  MoneyOK(r, d)'
      <3>1. mine'[r][d] = NoRow
        BY <1>9, Facts, TablesAssumption
      <3> QED
        BY <1>5, <1>7, <1>8, <2>1, <3>1 DEF MoneyOK
    <2>2. mine'[r][v] = AddPaidAmount(db[v], amount)
      BY <1>9 DEF row
    <2> QED
      BY <1>1, <1>2, <1>7, <1>8, <1>9, <2>1, <2>2 DEF PayOK, At
  <1>11. KeyOK(r)' /\ ReadOK(r)'
    <2>1. \A i \in 1 .. Len(j.dues) : db'[j.dues[i].cust] # NoRow
      BY <1>1, <1>5, <1>7
    <2> QED
      BY <1>1, <1>7, <1>8, <2>1 DEF KeyOK, ReadOK, At
  <1> QED
    BY <1>1, <1>2, <1>3, <1>4, <1>8, <1>10, <1>11, FlushStep

-----------------------------------------------------------------------------
(* Returns.                                                                *)

LEMMA ReturnRow ==
    ASSUME IInv, NEW t \in Returns, db[t] # NoRow
    PROVE  /\ t \in Keys /\ t \notin Invoices /\ db[t] \in Return
           /\ db[t].inv \in Invoices /\ db[t].inv \in Keys /\ db[t].inv \notin Returns
           /\ db[db[t].inv] # NoRow /\ db[db[t].inv] \in Invoice /\ Known(db[db[t].inv])
  <1>1. t \in Keys /\ t \notin Invoices /\ Invoices \subseteq Keys
    BY TablesAssumption DEF Keys
  <1>2. db[t] \in Return
    BY <1>1, TableFacts DEF IInv, SessionInv, SessionRows
  <1>3. db[t].inv \in Invoices /\ db[t].inv \notin Returns
    BY <1>2, TablesAssumption DEF Return
  <1>4. db[db[t].inv] # NoRow
    BY DEF IInv, RowsRefer
  <1>5. db[db[t].inv] \in Invoice /\ Known(db[db[t].inv])
    BY <1>3, <1>4, RowTypes DEF IInv, RowsRefer
  <1> QED
    BY <1>1, <1>2, <1>3, <1>4, <1>5

LEMMA ReturnTable ==
    ASSUME NEW t \in Returns, NEW row \in Return
    PROVE  row \in Table[t] /\ row # NoRow
  BY TableFacts, NoRowIsNoRow

LEMMA MaxOfZero ==
    ASSUME NEW n \in Int
    PROVE  Max({0, n}) \in Nat
  <1> DEFINE P(x) == x \in {0, n} /\ \A y \in {0, n} : x >= y
  <1>1. \E x : P(x)
    <2>1. n >= 0 => P(n)
      OBVIOUS
    <2>2. n < 0 => P(0)
      OBVIOUS
    <2> QED
      BY <2>1, <2>2
  <1>2. P(CHOOSE x : P(x))
    BY <1>1
  <1>3. Max({0, n}) = CHOOSE x : P(x)
    BY DEF Max
  <1>4. P(Max({0, n}))
    BY <1>2, <1>3
  <1> QED
    BY <1>4

LEMMA CreateReturnKept ==
    ASSUME IInv, NEW r \in Requests, NEW t \in Returns, NEW v \in Invoices,
           NEW body \in SaleReturnCreate, CreateReturn(r, t, v, body)
    PROVE  IInv'
  <1> DEFINE row == NewReturn(v, body)
             j == Job("return", t)
  <1>1. /\ Unused(t) /\ db[v] # NoRow
        /\ Begin(r, j) /\ UNCHANGED <<db, held>>
        /\ mine' = [mine EXCEPT ![r][t] = row]
    BY DEF CreateReturn
  <1>2. row \in Return /\ row.inv = v
    <2>1. body.items \in Amounts /\ body.penalty \in Amounts \cup {0}
      BY DEF SaleReturnCreate
    <2>2. body.items - body.penalty \in Int
      <3>1. \A n \in Amounts \cup {0} : n \in Int
        BY SalesAssumption
      <3>2. body.items \in Int /\ body.penalty \in Int
        BY <2>1, <3>1
      <3> QED
        BY <3>2
    <2>3. Max({0, body.items - body.penalty}) \in Nat
      BY <2>2, MaxOfZero
    <2> QED
      BY <2>1, <2>3 DEF NewReturn, Return
  <1>3. t \in Keys /\ row \in Table[t] /\ row # NoRow
    BY <1>2, ReturnTable DEF Keys
  <1>4. /\ j \in JobRec /\ j.op = "return" /\ j.key = t /\ j.step = "done"
        /\ j.dues = <<>> /\ j.keptOf = NoKey
    BY <1>1, <1>3, NewJob DEF Begin
  <1> HIDE DEF row, j
  <1>5. /\ job' \in [Requests -> JobRec] /\ job'[r] = j /\ Open(r)' /\ OthersWait(r)
        /\ arrived' \in 0 .. MaxArrivals /\ \A k \in Keys : mine[r][k] = NoRow
    BY <1>1, <1>4, Begun
  <1>6. SessionInv(Table)'
    BY <1>1, <1>3, <1>5, Facts, InsertStep
  <1>7. /\ mine'[r][t] = row /\ \A k \in Keys \ {t} : mine'[r][k] = NoRow
        /\ \A s \in Requests \ {r} : mine'[s] = mine[s]
    BY <1>1, <1>3, <1>5, Facts DEF SessionInv, SessionRows
  <1>8. VersionsOK(r)'
    <2>1. \A k \in Customers \cup Invoices : mine'[r][k] = NoRow
      BY <1>7, Facts, TablesAssumption
    <2>2. \A u \in Returns : mine'[r][u] # NoRow => u = t
      BY <1>7, Facts
    <2> QED
      BY <1>1, <1>2, <1>7, <2>1, <2>2 DEF VersionsOK, Unused
  <1>9. (KeyOK(r) /\ ReadOK(r) /\ PayOK(r))'
    BY <1>4, <1>5 DEF KeyOK, ReadOK, PayOK, At
  <1> QED
    BY <1>1, <1>5, <1>6, <1>7, <1>8, <1>9, LocalStep DEF RequestOK

LEMMA ReadReturnKept ==
    ASSUME IInv, NEW r \in Requests, NEW t \in Returns, NEW op, ReadReturn(r, t, op)
    PROVE  IInv'
  <1> DEFINE j == [Job(op, t) EXCEPT !.step = "write"]
  <1>1. /\ op \in {"approve", "reject"} /\ db[t] # NoRow
        /\ Begin(r, j) /\ UNCHANGED <<db, mine, held>>
    BY DEF ReadReturn
  <1>2. Job(op, t).op \in Ops
    BY <1>1 DEF Begin, Job, NoJob
  <1>3. /\ j \in JobRec /\ j.op = op /\ j.key = t /\ j.dues = <<>> /\ j.keptOf = NoKey
    <2>1. /\ Job(op, t) \in JobRec /\ Job(op, t).op = op /\ Job(op, t).key = t
          /\ Job(op, t).dues = <<>> /\ Job(op, t).keptOf = NoKey
      BY <1>2, NewJob DEF Keys
    <2> QED
      BY <2>1 DEF JobRec
  <1> HIDE DEF j
  <1>4. job'[r] = j
    BY <1>1, <1>3, Begun
  <1>5. (KeyOK(r) /\ ReadOK(r) /\ PayOK(r))'
    BY <1>1, <1>3, <1>4 DEF KeyOK, ReadOK, PayOK, At
  <1> QED
    BY <1>1, <1>3, <1>5, BeginStep

LEMMA DecidedType ==
    ASSUME IInv, NEW t \in Returns, db[t] # NoRow, NEW status \in {"approved", "rejected"}
    PROVE  /\ Decided(t, status) \in Table[t]
           /\ Decided(t, status).inv = db[t].inv /\ Decided(t, status).refund = db[t].refund
  <1>1. /\ Decided(t, status) \in Return
        /\ Decided(t, status).inv = db[t].inv /\ Decided(t, status).refund = db[t].refund
    BY ReturnRow DEF Decided, Return
  <1> QED
    BY <1>1, ReturnTable

\* What the flush of a decision leaves to do.
LEMMA DecideStep ==
    ASSUME IInv, NEW r \in Requests, job[r].op \in {"approve", "reject"},
           NEW step \in {"mark", "done"}, job' = [job EXCEPT ![r].step = step],
           db' = db, arrived' = arrived
    PROVE  /\ job' \in [Requests -> JobRec] /\ OthersWait(r) /\ Open(r)'
           /\ arrived' \in 0 .. MaxArrivals /\ (KeyOK(r) /\ ReadOK(r) /\ PayOK(r))'
  <1>1. /\ job' \in [Requests -> JobRec] /\ OthersWait(r)
        /\ job'[r].op = job[r].op /\ job'[r].key = job[r].key /\ job'[r].dues = job[r].dues
        /\ job'[r].keptOf = job[r].keptOf /\ job'[r].kept = job[r].kept
    BY DEF IInv, JobRec, OthersWait
  <1>2. Open(r)' /\ arrived' \in 0 .. MaxArrivals
    BY <1>1, Facts DEF Open
  <1>3. KeyOK(r)' /\ PayOK(r)'
    BY <1>1, Facts DEF KeyOK, PayOK, At
  <1>4. ReadOK(r)'
    BY <1>1, Facts DEF ReadOK, At
  <1> QED
    BY <1>1, <1>2, <1>3, <1>4

LEMMA ApproveReturnKept ==
    ASSUME IInv, NEW r \in Requests, ApproveReturn(r)
    PROVE  IInv'
  <1> DEFINE t == job[r].key
             v == db[t].inv
             covered == Approved(r, v) + (IF db[t].status = "approved" THEN 0 ELSE db[t].total)
             step == IF covered >= db[v].total /\ db[v].status # "returned" THEN "mark"
                     ELSE "done"
  <1>1. /\ job[r].op = "approve" /\ Free(r, t) /\ Write(r, t, Decided(t, "approved"))
        /\ job' = [job EXCEPT ![r].step = step]
        /\ db' = db /\ arrived' = arrived
    BY DEF ApproveReturn, At
  <1>2. t \in Returns /\ db[t] # NoRow
    BY <1>1, Facts DEF KeyOK
  <1>3. step \in {"mark", "done"}
    OBVIOUS
  <1> HIDE DEF step
  <1>4. /\ job' \in [Requests -> JobRec] /\ OthersWait(r) /\ Open(r)'
        /\ arrived' \in 0 .. MaxArrivals /\ (KeyOK(r) /\ ReadOK(r) /\ PayOK(r))'
    BY <1>1, <1>3, DecideStep
  <1>5. /\ Decided(t, "approved") \in Table[t]
        /\ Decided(t, "approved").inv = db[t].inv /\ Decided(t, "approved").refund = db[t].refund
    BY <1>2, DecidedType
  <1>6. t \in Keys /\ t \notin Invoices
    BY <1>2, ReturnRow
  <1> QED
    BY <1>1, <1>2, <1>4, <1>5, <1>6, FlushStep

LEMMA RejectReturnKept ==
    ASSUME IInv, NEW r \in Requests, RejectReturn(r)
    PROVE  IInv'
  <1> DEFINE t == job[r].key
  <1>1. /\ job[r].op = "reject" /\ Free(r, t) /\ Write(r, t, Decided(t, "rejected"))
        /\ job' = [job EXCEPT ![r].step = "done"]
        /\ db' = db /\ arrived' = arrived
    BY DEF RejectReturn, At
  <1>2. t \in Returns /\ db[t] # NoRow
    BY <1>1, Facts DEF KeyOK
  <1>3. /\ job' \in [Requests -> JobRec] /\ OthersWait(r) /\ Open(r)'
        /\ arrived' \in 0 .. MaxArrivals /\ (KeyOK(r) /\ ReadOK(r) /\ PayOK(r))'
    BY <1>1, DecideStep
  <1>4. /\ Decided(t, "rejected") \in Table[t]
        /\ Decided(t, "rejected").inv = db[t].inv /\ Decided(t, "rejected").refund = db[t].refund
    BY <1>2, DecidedType
  <1>5. t \in Keys /\ t \notin Invoices
    BY <1>2, ReturnRow
  <1> QED
    BY <1>1, <1>2, <1>3, <1>4, <1>5, FlushStep

LEMMA MarkReturnedKept ==
    ASSUME IInv, NEW r \in Requests, MarkReturned(r)
    PROVE  IInv'
  <1> DEFINE t == job[r].key
             v == db[t].inv
             row == [db[v] EXCEPT !.status = "returned"]
  <1>1. /\ job[r].op = "approve" /\ Free(r, v) /\ Write(r, v, row)
        /\ job' = [job EXCEPT ![r].step = "done"]
        /\ db' = db /\ arrived' = arrived
    BY DEF MarkReturned, At
  <1>2. t \in Returns /\ db[t] # NoRow
    BY <1>1, Facts DEF KeyOK
  <1>3. /\ v \in Invoices /\ v \in Keys /\ v \notin Returns
        /\ db[v] # NoRow /\ db[v] \in Invoice /\ Known(db[v])
    BY <1>2, ReturnRow
  <1>4. row \in Invoice /\ row.cust = db[v].cust /\ Dead(row)
    BY <1>3 DEF Invoice, SaleStatus, Dead
  <1>5. Known(row) /\ row \in Table[v]
    BY <1>3, <1>4, TableFacts DEF Known
  <1>6. /\ job' \in [Requests -> JobRec] /\ OthersWait(r) /\ Open(r)'
        /\ arrived' \in 0 .. MaxArrivals /\ (KeyOK(r) /\ ReadOK(r) /\ PayOK(r))'
    BY <1>1, DecideStep
  <1> HIDE DEF row, v
  <1> QED
    BY <1>1, <1>3, <1>4, <1>5, <1>6, FlushStep

LEMMA RecordReturnPaymentKept ==
    ASSUME IInv, NEW r \in Requests, NEW t \in Returns, NEW amount \in Amounts,
           RecordReturnPayment(r, t, amount)
    PROVE  IInv'
  <1> DEFINE j == [Job("refund", t) EXCEPT !.step = "write", !.amount = amount,
                                           !.loaded = db[t]]
  <1>1. /\ db[t] # NoRow /\ amount <= db[t].refund - db[t].received
        /\ Begin(r, j) /\ UNCHANGED <<db, mine, held>>
    BY DEF RecordReturnPayment
  <1>2. /\ t \in Keys /\ db[t] \in Return /\ amount \in Nat /\ amount > 0
        /\ db[t].received \in Nat /\ db[t].refund \in Nat
    <2>1. t \in Keys /\ db[t] \in Return
      BY <1>1, ReturnRow
    <2> QED
      BY <2>1, SalesAssumption DEF Return
  <1>3. Job("refund", t).op \in Ops
    BY <1>1 DEF Begin, Job, NoJob
  <1>4. /\ j \in JobRec /\ j.op = "refund" /\ j.key = t /\ j.step = "write" /\ j.amount = amount
        /\ j.loaded = db[t] /\ j.dues = <<>> /\ j.keptOf = NoKey
    <2>1. /\ Job("refund", t) \in JobRec /\ Job("refund", t).op = "refund"
          /\ Job("refund", t).key = t /\ Job("refund", t).dues = <<>>
          /\ Job("refund", t).keptOf = NoKey
      BY <1>2, <1>3, NewJob
    <2> QED
      BY <1>2, <2>1 DEF JobRec
  <1> HIDE DEF j
  <1>5. job'[r] = j /\ \A c \in Customers : mine'[r][c] = NoRow
    BY <1>1, <1>4, Begun, Facts
  <1>6. KeyOK(r)' /\ ReadOK(r)'
    <2>1. db[t].received + amount <= db[t].refund
      BY <1>1, <1>2
    <2> QED
      BY <1>1, <1>2, <1>4, <1>5, <2>1 DEF KeyOK, ReadOK, At
  <1>7. PayOK(r)'
    BY <1>2, <1>4, <1>5 DEF PayOK, At
  <1> QED
    BY <1>1, <1>4, <1>6, <1>7, BeginStep

LEMMA FlushRefundKept ==
    ASSUME IInv, NEW r \in Requests, FlushRefund(r)
    PROVE  IInv'
  <1> DEFINE t == job[r].key
             received == job[r].loaded.received + job[r].amount
             row == [db[t] EXCEPT !.received = received]
             fits == FitsColumn(received, job[r].loaded.refund)
  <1>1. /\ At(r, "refund", "write") /\ Free(r, t)
        /\ fits => Write(r, t, row)
        /\ ~fits => UNCHANGED <<mine, held>>
        /\ db' = db /\ arrived' = arrived
    BY DEF FlushRefund
  <1>2. PICK step \in {"lock", "failed"} :
           job' = [job EXCEPT ![r].step = step, ![r].loaded = NoRow]
    BY DEF FlushRefund
  <1>3. t \in Returns /\ db[t] # NoRow
    BY <1>1, Facts DEF KeyOK, At
  <1>4. received \in Nat
    <2>1. job[r].loaded \in Return /\ job[r].amount \in Nat
      BY <1>1, Facts DEF ReadOK, JobRec
    <2> QED
      BY <2>1 DEF Return
  <1> HIDE DEF received
  <1>5. row \in Return /\ row.inv = db[t].inv /\ row.refund = db[t].refund
    BY <1>3, <1>4, ReturnRow DEF Return
  <1>6. row \in Table[t] /\ t \in Keys /\ t \notin Invoices
    BY <1>3, <1>5, ReturnTable, ReturnRow
  <1> HIDE DEF row, fits
  <1>7. /\ job' \in [Requests -> JobRec] /\ OthersWait(r)
        /\ job'[r].op = "refund" /\ job'[r].key = t /\ job'[r].step = step
        /\ job'[r].dues = <<>> /\ job'[r].keptOf = job[r].keptOf
        /\ job'[r].kept = job[r].kept /\ job'[r].amount = job[r].amount /\ job[r].amount > 0
    <2>1. job[r].op = "refund" /\ job[r].dues = <<>> /\ job[r].amount > 0
      BY <1>1, Facts DEF At, PayOK
    <2> QED
      BY <1>1, <1>2, <2>1 DEF IInv, JobRec, OthersWait
  <1>8. Open(r)' /\ arrived' \in 0 .. MaxArrivals
    BY <1>1, <1>7, Facts DEF Open
  <1>9. KeyOK(r)' /\ ReadOK(r)'
    BY <1>1, <1>3, <1>7, Facts DEF KeyOK, ReadOK, At
  <1>10. PayOK(r)'
    <2>1. \A c \in Customers : mine'[r][c] = mine[r][c]
      BY <1>1, <1>3, <1>6, Written, Facts, TablesAssumption
    <2>2. \A c \in Customers : mine[r][c] = NoRow
      BY <1>1, Facts DEF At, PayOK
    <2> QED
      BY <1>7, <2>1, <2>2 DEF PayOK, At
  <1>11. CASE fits
    BY <1>1, <1>3, <1>5, <1>6, <1>7, <1>8, <1>9, <1>10, <1>11, FlushStep
  <1>12. CASE ~fits
    BY <1>1, <1>7, <1>8, <1>9, <1>10, <1>12, QuietStep
  <1> QED
    BY <1>11, <1>12

LEMMA LockInvoiceKept ==
    ASSUME IInv, NEW r \in Requests, LockInvoice(r)
    PROVE  IInv'
  <1> DEFINE t == job[r].key
             v == db[t].inv
             c == db[v].cust
             dues == Due(c, - job[r].amount)
  <1>1. /\ job[r].op = "refund" /\ job[r].step = "lock" /\ Free(r, v) /\ Hold(r, v)
        /\ job' = [job EXCEPT ![r].step = "done", ![r].dues = dues]
        /\ UNCHANGED <<db, mine, arrived>>
    BY DEF LockInvoice, At
  <1>2. t \in Returns /\ db[t] # NoRow
    BY <1>1, Facts DEF KeyOK
  <1>3. /\ v \in Invoices /\ v \in Keys /\ db[v] # NoRow /\ c \in Customers \cup {Walking}
        /\ c \in Customers => db[c] # NoRow
    BY <1>2, ReturnRow DEF Known, Invoice
  <1>4. job[r].amount > 0 /\ job[r].amount \in Nat /\ \A d \in Customers : mine[r][d] = NoRow
    BY <1>1, Facts DEF PayOK, JobRec
  <1>5. /\ dues \in Seq(DueRec) /\ \A i \in 1 .. Len(dues) : db[dues[i].cust] # NoRow
        /\ c \in Customers => dues = <<[cust |-> c, delta |-> - job[r].amount]>>
    <2>1. - job[r].amount \in Int /\ - job[r].amount # 0
      BY <1>4
    <2> QED
      BY <1>3, <2>1, DueType
  <1> HIDE DEF dues
  <1>6. /\ job' \in [Requests -> JobRec] /\ OthersWait(r)
        /\ job'[r].op = "refund" /\ job'[r].key = t /\ job'[r].step = "done"
        /\ job'[r].dues = dues /\ job'[r].keptOf = job[r].keptOf
        /\ job'[r].kept = job[r].kept /\ job'[r].amount = job[r].amount
    BY <1>1, <1>5 DEF IInv, JobRec, OthersWait
  <1>7. Open(r)'
    BY <1>6 DEF Open
  <1>8. SessionInv(Table)'
    BY <1>1, <1>3, <1>6, <1>7, Facts, HoldStep
  <1>9. v \in held'[r] /\ \A s \in Requests \ {r} : held'[s] = held[s]
    BY <1>1, Facts DEF Hold, SessionInv, SessionRows
  <1>10. VersionsOK(r)'
    BY <1>1, Facts DEF VersionsOK, Known
  <1>11. KeyOK(r)'
    BY <1>1, <1>2, <1>6 DEF KeyOK
  <1>12. ReadOK(r)'
    <2>1. \A i \in 1 .. Len(job'[r].dues) : db'[job'[r].dues[i].cust] # NoRow
      BY <1>1, <1>5, <1>6
    <2> QED
      BY <1>1, <1>6, <2>1, Facts DEF ReadOK, At
  <1>13. PayOK(r)'
    <2>1. ASSUME NEW d \in Customers, d = c
          PROVE  MoneyOK(r, d)'
      BY <1>1, <1>4, <1>5, <1>6, <2>1 DEF MoneyOK
    <2> QED
      BY <1>1, <1>4, <1>6, <1>9, <2>1 DEF PayOK, At
  <1> QED
    BY <1>1, <1>6, <1>8, <1>9, <1>10, <1>11, <1>12, <1>13, LocalStep DEF RequestOK

-----------------------------------------------------------------------------
(* The whole.                                                              *)

\* A session that has ended has nothing to answer for.
LEMMA NoRequest ==
    ASSUME NEW r, job'[r] = NoJob, \A k \in Keys : mine'[r][k] = NoRow
    PROVE  RequestOK(r)'
  <1>1. /\ job'[r].op = "none" /\ job'[r].key = NoKey /\ job'[r].dues = <<>>
        /\ job'[r].keptOf = NoKey /\ job'[r].step = "done"
    BY DEF NoJob
  <1>2. VersionsOK(r)'
    BY DEF VersionsOK, Keys
  <1> QED
    BY <1>1, <1>2 DEF RequestOK, KeyOK, ReadOK, PayOK, At

LEMMA CommitKept ==
    ASSUME IInv, NEW r \in Requests, Commit(r)
    PROVE  IInv'
  <1>1. /\ SessionInv(Table) /\ EndSession(r) /\ job \in [Requests -> JobRec]
        /\ DOMAIN Table = Keys /\ NoJob \in JobRec
    BY Facts DEF Commit, IInv, JobRec, NoJob
  <1>2. SessionInv(Table)'
    BY <1>1, CommitStep
  <1>3. /\ job'[r] = NoJob /\ OthersWait(r) /\ \A k \in Keys : mine'[r][k] = NoRow
        /\ \A s \in Requests \ {r} : mine'[s] = mine[s] /\ held'[s] = held[s]
    <2>1. /\ job'[r] = NoJob /\ OthersWait(r) /\ \A k \in DOMAIN Table : mine'[r][k] = NoRow
          /\ \A s \in Requests \ {r} : mine'[s] = mine[s]
          /\ \A s \in Requests \ {r} : held'[s] = held[s]
      BY <1>1, EndOfSession, Zenon
    <2> QED
      BY <1>1, <2>1
  <1>4. job' \in [Requests -> JobRec]
    BY <1>1 DEF EndSession
  <1>5. \A k \in Keys : /\ db'[k] = IF mine[r][k] # NoRow THEN mine[r][k] ELSE db[k]
                        /\ db[k] # NoRow => db'[k] # NoRow
    BY <1>1, Published
  <1>6. \A s \in Requests \ {r} : RowsKept(s)
    <2>1. \A s \in Requests \ {r} : \A k \in Keys :
             k \in held[s] \/ mine[s][k] # NoRow => db'[k] = db[k]
      BY <1>1, CommitSpares
    <2>2. \A t \in Returns : db[t] # NoRow =>
             db'[t].inv = db[t].inv /\ db'[t].refund = db[t].refund
      BY <1>5, Facts DEF VersionsOK
    <2> QED
      BY <1>5, <2>1, <2>2 DEF RowsKept
  <1>7. RowsRefer'
    <2>1. ASSUME NEW v \in Invoices, db'[v] # NoRow
          PROVE  db'[v].cust \in Customers => db'[db'[v].cust] # NoRow
      <3>1. db'[v].cust \in Customers => db[db'[v].cust] # NoRow
        BY <1>5, <2>1, Facts DEF VersionsOK, RowsRefer, Known
      <3> QED
        BY <1>5, <3>1, Facts
    <2>2. ASSUME NEW t \in Returns, db'[t] # NoRow
          PROVE  db'[db'[t].inv] # NoRow
      <3>1. db[db'[t].inv] # NoRow
        BY <1>5, <2>2, Facts DEF VersionsOK, RowsRefer
      <3>2. db'[t] \in Return
        BY <1>5, <2>2, Facts, RowTypes
      <3>3. db'[t].inv \in Keys
        BY <3>2, Facts DEF Return
      <3> QED
        BY <1>5, <3>1, <3>3
    <2> QED
      BY <2>1, <2>2 DEF RowsRefer, Known
  <1>8. RequestOK(r)'
    BY <1>3, NoRequest
  <1> QED
    BY <1>2, <1>3, <1>4, <1>6, <1>7, <1>8, SessionStep DEF OthersWait

LEMMA RollbackKept ==
    ASSUME IInv, NEW r \in Requests, Rollback(r)
    PROVE  IInv'
  <1>1. /\ SessionInv(Table) /\ EndSession(r) /\ job \in [Requests -> JobRec]
        /\ DOMAIN Table = Keys /\ NoJob \in JobRec /\ db' = db
    BY Facts DEF Rollback, IInv, JobRec, NoJob
  <1>2. SessionInv(Table)'
    BY <1>1, RollbackStep
  <1>3. /\ job'[r] = NoJob /\ OthersWait(r) /\ \A k \in Keys : mine'[r][k] = NoRow
        /\ \A s \in Requests \ {r} : mine'[s] = mine[s] /\ held'[s] = held[s]
    <2>1. /\ job'[r] = NoJob /\ OthersWait(r) /\ \A k \in DOMAIN Table : mine'[r][k] = NoRow
          /\ \A s \in Requests \ {r} : mine'[s] = mine[s]
          /\ \A s \in Requests \ {r} : held'[s] = held[s]
      BY <1>1, EndOfSession, Zenon
    <2> QED
      BY <1>1, <2>1
  <1>4. job' \in [Requests -> JobRec]
    BY <1>1 DEF EndSession
  <1>5. RequestOK(r)'
    BY <1>3, NoRequest
  <1> QED
    BY <1>1, <1>2, <1>3, <1>4, <1>5, LocalStep

LEMMA InitIInv ==
    ASSUME Init
    PROVE  IInv
  <1>1. SessionInv(Table)
    BY TableFacts, InitSession DEF Init
  <1>2. /\ \A r \in Requests : job[r] = NoJob /\ \A k \in Keys : mine[r][k] = NoRow
        /\ \A k \in Keys : db[k] = NoRow
        /\ job = [r \in Requests |-> NoJob] /\ NoJob \in JobRec
    BY DEF Init, SessionInit, JobRec, NoJob
  <1>3. job \in [Requests -> JobRec]
    BY <1>2
  <1>4. RowsRefer
    BY <1>2 DEF RowsRefer, Keys
  <1>5. ASSUME NEW r \in Requests
        PROVE  RequestOK(r)
    <2>1. VersionsOK(r)
      BY <1>2 DEF VersionsOK, Keys
    <2>2. /\ job[r].op = "none" /\ job[r].key = NoKey /\ job[r].dues = <<>>
          /\ job[r].keptOf = NoKey
      BY <1>2 DEF NoJob
    <2> QED
      BY <2>1, <2>2 DEF RequestOK, KeyOK, ReadOK, PayOK, At
  <1> QED
    BY <1>1, <1>3, <1>4, <1>5 DEF IInv

LEMMA CustomerStepKept ==
    ASSUME IInv, NEW r \in Requests, CustomerStep(r)
    PROVE  IInv'
  BY CreateCustomerKept, UpdateCustomerKept, DeleteCustomerKept, RecordCustomerPaymentKept,
     ApplyDueKept
  DEF CustomerStep, CustomerPaymentCreate

LEMMA InvoiceStepKept ==
    ASSUME IInv, NEW r \in Requests, InvoiceStep(r)
    PROVE  IInv'
  BY CreateSaleKept, UpdateSaleKept, VoidSaleKept, RecordPaymentKept, FlushUpdateKept,
     FlushVoidKept
  DEF InvoiceStep, SalePaymentCreate

LEMMA ReturnStepKept ==
    ASSUME IInv, NEW r \in Requests, ReturnStep(r)
    PROVE  IInv'
  BY CreateReturnKept, ReadReturnKept, RecordReturnPaymentKept, ApproveReturnKept,
     MarkReturnedKept, RejectReturnKept, FlushRefundKept, LockInvoiceKept
  DEF ReturnStep, SaleReturnPaymentCreate

LEMMA IInvStep ==
    ASSUME IInv, [Next]_sessionVars
    PROVE  IInv'
  <1>1. CASE Next
    BY <1>1, CustomerStepKept, InvoiceStepKept, ReturnStepKept, CommitKept, RollbackKept DEF Next
  <1>2. CASE UNCHANGED sessionVars
    <2>1. /\ SessionInv(Table)' /\ (job \in [Requests -> JobRec])' /\ RowsRefer'
      BY <1>2 DEF sessionVars, IInv, SessionInv, SessionRows, SessionLocks, Free, Open, RowsRefer,
                  Known
    <2>2. \A r \in Requests : RequestOK(r)'
      BY <1>2, Undisturbed DEF sessionVars, RowsKept
    <2> QED
      BY <2>1, <2>2 DEF IInv
  <1> QED
    BY <1>1, <1>2

LEMMA Invariance == Spec => []IInv
  BY InitIInv, IInvStep, PTL DEF Spec

-----------------------------------------------------------------------------
(* What it comes to.                                                       *)

\* Only a commit changes the rows of others, but for the insert of a customer.
LEMMA OnlyCommits ==
    ASSUME NEW r \in Requests,
           CustomerStep(r) \/ InvoiceStep(r) \/ ReturnStep(r) \/ Commit(r) \/ Rollback(r)
    PROVE  \/ db' = db \/ Commit(r)
           \/ job' = job /\ \E c \in Customers, body \in CustomerCreate : CreateCustomer(c, body)
  <1>1. CASE CustomerStep(r)
    BY <1>1 DEF CustomerStep, CreateCustomer, UpdateCustomer, DeleteCustomer,
                RecordCustomerPayment, ApplyDue, ApplyDueWith
  <1>2. CASE InvoiceStep(r)
    BY <1>2 DEF InvoiceStep, CreateSale, UpdateSale, VoidSale, RecordPayment,
                RecordPaymentWith, FlushUpdate, FlushVoid
  <1>3. CASE ReturnStep(r)
    BY <1>3 DEF ReturnStep, CreateReturn, ReadReturn, RecordReturnPayment, ApproveReturn,
                MarkReturned, RejectReturn, FlushRefund, LockInvoice
  <1>4. CASE Rollback(r)
    BY <1>4 DEF Rollback
  <1> QED
    BY <1>1, <1>2, <1>3, <1>4

\* A session that commits something is at its commit, and its rows are published.
LEMMA CommittingCommits ==
    ASSUME IInv, [Next]_sessionVars, NEW r \in Requests, Committing(r)
    PROVE  /\ job[r].step = "done" /\ job[r].dues = <<>>
           /\ \A k \in Keys : db'[k] = IF mine[r][k] # NoRow THEN mine[r][k] ELSE db[k]
  <1>1. Open(r) /\ ~Open(r)' /\ db' # db
    BY DEF Committing, Open
  <1>2. PICK s \in Requests : CustomerStep(s) \/ InvoiceStep(s) \/ ReturnStep(s)
                              \/ Commit(s) \/ Rollback(s)
    BY <1>1 DEF Next, sessionVars
  <1>3. job' # job
    BY <1>1 DEF Open
  <1>4. Commit(s)
    BY <1>1, <1>2, <1>3, OnlyCommits
  <1>5. s = r
    BY <1>1, <1>4 DEF Commit, EndSession, Open, IInv
  <1> QED
    BY <1>4, <1>5, Facts, Published DEF Commit

\* The rows, the locks and what the sessions remember are of their types.
THEOREM TypeCorrect == Spec => []TypeOK
  <1>1. ASSUME IInv
        PROVE  TypeOK
    <2>1. SessionInv(Table) /\ DOMAIN Table = Keys /\ DOMAIN db = Keys
      BY <1>1, TableFacts DEF IInv, SessionInv, SessionRows
    <2>2. \A k \in Keys : Table[k] \subseteq Invoice \cup Return \cup Customer
      BY TableFacts DEF Keys
    <2>3. /\ \A k \in Keys : db[k] \in Invoice \cup Return \cup Customer \cup {NoRow}
          /\ \A r \in Requests, k \in Keys :
                mine[r][k] \in Invoice \cup Return \cup Customer \cup {NoRow}
          /\ \A r \in Requests : held[r] \subseteq Keys
          /\ arrived \in 0 .. MaxArrivals
      BY <2>1, <2>2 DEF SessionInv, SessionRows
    <2>4. \A r \in Requests : /\ job[r].op \in Ops \cup {"none"}
                              /\ job[r].key \in Keys \cup {NoKey}
                              /\ job[r].kept \in Customer \cup {NoRow}
      BY <1>1 DEF IInv, JobRec
    <2> QED
      BY <2>1, <2>3, <2>4 DEF TypeOK, SessionTypeOK
  <1> QED
    BY <1>1, Invariance, PTL

\* An invoice that is void or returned is never open again, whatever was read
\* before it was closed.
THEOREM DeadInvoicesStayDead == Spec => DeadStaysDead
  <1> DEFINE A == \A v \in Invoices :
                    db[v] # NoRow /\ db[v].status \in {"void", "returned"} =>
                       db'[v].status \in {"void", "returned"}
  <1>1. ASSUME IInv, [Next]_sessionVars
        PROVE  [A]_sessionVars
    <2> SUFFICES ASSUME NEW v \in Invoices, db[v] # NoRow, Dead(db[v])
                 PROVE  Dead(db'[v])
      BY DEF Dead
    <2>1. v \in Keys /\ v \notin Customers /\ DOMAIN db = Keys
      BY <1>1, TablesAssumption, TableFacts DEF Keys, IInv, SessionInv, SessionRows
    <2>2. CASE db' = db
      BY <2>2
    <2>3. CASE \E r \in Requests : Commit(r)
      <3>1. PICK r \in Requests : Commit(r)
        BY <2>3
      <3>2. db'[v] = IF mine[r][v] # NoRow THEN mine[r][v] ELSE db[v]
        BY <1>1, <2>1, <3>1, Published, Facts
      <3>3. mine[r][v] # NoRow => Dead(mine[r][v])
        BY <1>1, Facts DEF VersionsOK
      <3> QED
        BY <3>2, <3>3
    <2>4. CASE \E c \in Customers, body \in CustomerCreate : CreateCustomer(c, body)
      BY <2>1, <2>4 DEF CreateCustomer
    <2>5. Next \/ UNCHANGED sessionVars
      BY <1>1
    <2> QED
      BY <2>2, <2>3, <2>4, <2>5, OnlyCommits DEF Next, sessionVars
  <1> HIDE DEF A
  <1>2. Spec => [][A]_sessionVars
    BY <1>1, Invariance, PTL DEF Spec
  <1> QED
    BY <1>2 DEF DeadStaysDead, A

\* A payment of an invoice counts once, and never brings it above the total,
\* whatever is done to the invoice while the payment waits for its row.
THEOREM PaymentsCountOnce == Spec => PaymentsApplyOnce
  <1> DEFINE A == \A r \in Requests :
                    Committing(r) /\ job[r].op = "pay" =>
                       LET v == job[r].key IN
                       /\ db'[v].paid = db[v].paid + job[r].amount
                       /\ db'[v].paid <= db'[v].total
  <1>1. ASSUME IInv, [Next]_sessionVars
        PROVE  [A]_sessionVars
    <2> SUFFICES ASSUME NEW r \in Requests, Committing(r), job[r].op = "pay"
                 PROVE  /\ db'[job[r].key].paid = db[job[r].key].paid + job[r].amount
                        /\ db'[job[r].key].paid <= db'[job[r].key].total
      OBVIOUS
    <2> DEFINE v == job[r].key
    <2>1. /\ v \in Invoices /\ db[v] # NoRow
          /\ mine[r][v] = AddPaidAmount(db[v], job[r].amount)
          /\ job[r].amount <= db[v].total - db[v].paid
      BY <1>1, Facts DEF KeyOK, PayOK
    <2>2. db[v] \in Invoice /\ v \in Keys /\ job[r].amount \in Nat
      BY <1>1, <2>1, RowTypes, Facts DEF IInv, JobRec
    <2>3. /\ mine[r][v] \in Invoice /\ mine[r][v] # NoRow
          /\ mine[r][v].total = db[v].total
          /\ mine[r][v].paid = db[v].paid + job[r].amount
      BY <2>1, <2>2, PaidType, NoRowIsNoRow
    <2>4. db'[v] = mine[r][v]
      BY <1>1, <2>2, <2>3, CommittingCommits
    <2>5. db[v].total \in Int /\ db[v].paid \in Int
      BY <2>2, InvoiceNumbers
    <2> QED
      BY <2>1, <2>2, <2>3, <2>4, <2>5
  <1> HIDE DEF A
  <1>2. Spec => [][A]_sessionVars
    BY <1>1, Invariance, PTL DEF Spec
  <1> QED
    BY <1>2 DEF PaymentsApplyOnce, A

\* The end of the customer's ledger, of the rows as they are.
LEMMA LedgerIs ==
    ASSUME NEW rows, rows = db, NEW c
    PROVE  LedgerBalance(c) =
              Signed([balance |-> rows[c].opening, balance_type |-> rows[c].balance_type])
              + (SumFunction([v \in Invoices |->
                                IF rows[v] # NoRow /\ rows[v].cust = c THEN rows[v].total
                                ELSE 0])
                 - rows[c].paid_in)
  BY DEF LedgerBalance, LedgerMovements

\* Money that comes in or goes out moves the balance of the customer who pays or
\* is refunded by its amount, once, and the end of that customer's ledger with it,
\* though the balance is read in one step and committed in another.
THEOREM MoneyMovesBalances == Spec => LockedBalanceMoves
  <1> DEFINE A == \A r \in Requests, c \in Customers :
                    Committing(r) /\ job[r].op \in {"pay", "refund", "customerPay"}
                    /\ c = Payer(r) =>
                       /\ Signed(db'[c]) = Signed(db[c])
                                           - (IF db[c].active THEN job[r].amount ELSE 0)
                       /\ job[r].op = "customerPay" /\ db'[c].balance_type = db[c].balance_type =>
                            LedgerBalance(c)' = LedgerBalance(c) - job[r].amount
  <1>1. ASSUME IInv, [Next]_sessionVars
        PROVE  [A]_sessionVars
    <2> SUFFICES ASSUME NEW r \in Requests, NEW c \in Customers, Committing(r),
                        job[r].op \in {"pay", "refund", "customerPay"}, c = Payer(r)
                 PROVE  /\ Signed(db'[c]) = Signed(db[c])
                                            - (IF db[c].active THEN job[r].amount ELSE 0)
                        /\ job[r].op = "customerPay"
                           /\ db'[c].balance_type = db[c].balance_type =>
                              LedgerBalance(c)' = LedgerBalance(c) - job[r].amount
      OBVIOUS
    <2>1. /\ job[r].step = "done" /\ job[r].dues = <<>>
          /\ \A k \in Keys : db'[k] = IF mine[r][k] # NoRow THEN mine[r][k] ELSE db[k]
      BY <1>1, CommittingCommits
    <2>2. MoneyOK(r, c)
      BY <1>1, <2>1, Facts DEF PayOK, Payer, At
    <2>3. /\ c \in held[r]
          /\ IF db[c].active THEN Moved(r, c)
             ELSE mine[r][c] = NoRow /\ job[r].op # "customerPay"
      BY <2>1, <2>2 DEF MoneyOK
    <2>4. db'[c] = (IF mine[r][c] # NoRow THEN mine[r][c] ELSE db[c]) /\ db[c] \in Customer
      <3>1. c \in Keys /\ db[c] # NoRow
        BY <1>1, <2>3, Facts DEF SessionInv, SessionLocks
      <3> QED
        BY <1>1, <2>1, <3>1, RowTypes DEF IInv
    <2>5. Signed(db[c]) \in Int /\ job[r].amount \in Nat
      BY <1>1, <2>4, SignedType, Facts DEF JobRec
    <2>6. Signed(db'[c]) = Signed(db[c]) - (IF db[c].active THEN job[r].amount ELSE 0)
      BY <2>3, <2>4, <2>5 DEF Moved
    <2>7. ASSUME job[r].op = "customerPay", db'[c].balance_type = db[c].balance_type
          PROVE  LedgerBalance(c)' = LedgerBalance(c) - job[r].amount
      <3>1. /\ Moved(r, c) /\ db'[c] = mine[r][c]
            /\ db'[c].opening = db[c].opening
            /\ db'[c].paid_in = db[c].paid_in + job[r].amount
        BY <2>3, <2>4, <2>7 DEF Moved
      <3>2. \A v \in Invoices : db'[v] = db[v]
        BY <1>1, <2>1, <2>7, Facts DEF PayOK
      <3>3. PICK old : old = db
        OBVIOUS
      <3>4. PICK new : new = db'
        OBVIOUS
      <3> DEFINE Sold(rows) ==
                   [v \in Invoices |->
                      IF rows[v] # NoRow /\ rows[v].cust = c THEN rows[v].total ELSE 0]
                 Side(rows) ==
                   Signed([balance |-> rows[c].opening, balance_type |-> rows[c].balance_type])
      <3>5. LedgerBalance(c) = Side(old) + (SumFunction(Sold(old)) - old[c].paid_in)
        BY <3>3, LedgerIs
      <3>6. LedgerBalance(c)' = Side(new) + (SumFunction(Sold(new)) - new[c].paid_in)
        BY <3>4 DEF LedgerBalance, LedgerMovements
      <3>7. Sold(new) = Sold(old)
        BY <3>2, <3>3, <3>4
      <3>8. Side(new) = Side(old)
        BY <2>7, <3>1, <3>3, <3>4
      <3>9. Side(old) \in Int
        <4>1. Openings \subseteq Int
          BY SalesAssumption
        <4>2. old[c].opening \in Int
          BY <2>4, <3>3, <4>1 DEF Customer
        <4> QED
          BY <4>2 DEF Signed
      <3>10. SumFunction(Sold(old)) \in Int
        <4>1. \A v \in Invoices : old[v] \in Invoice \cup {NoRow}
          BY <1>1, <3>3, RowTypes DEF IInv
        <4>2. Sold(old) \in [Invoices -> Int]
          BY <4>1, InvoiceNumbers
        <4> HIDE DEF Sold
        <4> QED
          BY <4>2, SumType, TablesAssumption
      <3>11. old[c].paid_in \in Int /\ new[c].paid_in = old[c].paid_in + job[r].amount
        BY <2>4, <3>1, <3>3, <3>4 DEF Customer
      <3> HIDE DEF Sold, Side
      <3> QED
        BY <2>5, <3>5, <3>6, <3>7, <3>8, <3>9, <3>10, <3>11
    <2> QED
      BY <2>6, <2>7
  <1> HIDE DEF A
  <1>2. Spec => [][A]_sessionVars
    BY <1>1, Invariance, PTL DEF Spec
  <1> QED
    BY <1>2 DEF LockedBalanceMoves, A
=============================================================================
