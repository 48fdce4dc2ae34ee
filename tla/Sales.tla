-------------------------------- MODULE Sales --------------------------------
(***************************************************************************)
(* Sale invoices, their payments and returns, and the customer balances    *)
(* they move: app/services/sale_service.py and customer_service.py.        *)
(*                                                                         *)
(* An invoice has one line of price 1, so its total is the quantity sold,  *)
(* and likewise a return.  The stock the same requests move is the subject *)
(* of Stock; ledger rows, audit rows and texts are left out.  No invoice   *)
(* is ever a draft, so that confirm_sale always refuses.                   *)
(***************************************************************************)
EXTENDS Sessions

CONSTANTS
    Customers,    \* primary keys of the customers table
    Invoices,     \* primary keys of the sale_invoices table
    Returns,      \* primary keys of the sale_returns table
    Amounts,      \* quantities and amounts of money a request may carry
    Openings,     \* opening balances of customers
    Limits,       \* credit limits of customers; 0 means unlimited
    Walking       \* the invoice has no customer_id: a walk-in customer

\* The schemas require amounts and quantities > 0 and credit limits >= 0.
ASSUME SalesAssumption ==
    /\ Amounts \subseteq Nat \ {0}
    /\ Openings \subseteq Nat /\ Limits \subseteq Nat
    /\ Walking \notin Customers

Keys == Customers \cup Invoices \cup Returns

-----------------------------------------------------------------------------
(* Rows.                                                                   *)

PaymentType == {"cash", "credit", "partial"}

SaleStatus == {"confirmed", "partially_paid", "paid", "returned", "void"}

\* No invoice is a draft: create_sale confirms.
Invoice == [cust : Customers \cup {Walking}, payment_type : PaymentType,
            total : Amounts, paid : Int, status : SaleStatus]

Return == [inv : Invoices, total : Amounts, refund : Nat, received : Nat,
           status : {"pending", "approved", "rejected"}]

\* paid_in is the sum of the customer's rows in customer_payments.
Customer == [opening : Openings, balance : Nat, balance_type : {"receivable", "payable"},
             paid_in : Nat, limit : Limits, active : BOOLEAN]

\* Each table has keys of its own, and finitely many; NoKey and NoRow are no key
\* and no row.
ASSUME TablesAssumption ==
    /\ Customers \cap Invoices = {} /\ Customers \cap Returns = {}
    /\ Invoices \cap Returns = {} /\ IsFiniteSet(Invoices)
    /\ NoKey \notin Keys
    /\ NoRow \notin Customer \cup Invoice \cup Return

\* The bodies of the requests, as the schemas admit them.
CustomerCreate == [opening_balance : Openings, balance_type : {"receivable", "payable"},
                   credit_limit : Limits, is_active : BOOLEAN]

CustomerUpdate == [credit_limit : Limits, is_active : BOOLEAN]

SaleCreate ==
    {body \in [customer : Customers \cup {Walking}, payment_type : PaymentType,
               items : Amounts, amount_paid : Amounts \cup {0}] :
        body.customer = Walking => body.payment_type = "cash"}

\* A patch: what it leaves out is as in the invoice.  settles: it is about the
\* lines, the payment type or the amount paid.
SaleUpdate ==
    {body \in [customer : Customers \cup {Walking}, payment_type : PaymentType,
               items : Amounts, amount_paid : Amounts \cup {0}, settles : BOOLEAN] :
        body.customer = Walking => body.payment_type = "cash" /\ body.settles}

SaleReturnCreate == [items : Amounts, penalty : Amounts \cup {0}]

\* How a payment is made (mode, account, reference) is left out.
CustomerPaymentCreate == [amount : Amounts]
SalePaymentCreate == [amount : Amounts]
SaleReturnPaymentCreate == [amount : Amounts]

\* _compute_new_balance: a signed amount, receivable > 0.
Signed(c) == IF c.balance_type = "receivable" THEN c.balance ELSE - c.balance

\* Seeded fault: a payable keeps its sign.
StoredSigned(n) == [balance |-> n, balance_type |-> IF n >= 0 THEN "receivable" ELSE "payable"]

\* And back to an absolute value and its type.
Stored(n) == IF n >= 0 THEN [balance |-> n, balance_type |-> "receivable"]
             ELSE [balance |-> - n, balance_type |-> "payable"]

\* What the invoice adds to its customer's balance, as create_sale, update_sale
\* and void_sale compute it.
Owed(inv) ==
    IF inv.cust = Walking \/ inv.payment_type = "cash" THEN 0
    ELSE IF inv.payment_type = "partial" THEN inv.total - inv.paid
    ELSE inv.total

\* The status checks of update_sale, void_sale and create_return.
Live(inv) == inv.status \in {"confirmed", "paid", "partially_paid"}

\* Seeded fault: a returned invoice can be paid.
PayableUnlessVoid(inv) == inv.status \notin {"paid", "void"}

\* The status check of record_payment.
Payable(inv) == inv.status \in {"confirmed", "partially_paid"}

\* SaleRepository.add_paid_amount.
AddPaidAmount(inv, amount) ==
    [inv EXCEPT !.paid = @ + amount,
                !.status = IF inv.paid + amount >= inv.total THEN "paid"
                           ELSE IF inv.paid + amount > 0 THEN "partially_paid" ELSE @]

\* SaleRepository.set_status.
SetStatus(inv, status) == [inv EXCEPT !.status = status]

\* CustomerRepository.save_payment.
SavePayment(customer, amount) == [customer EXCEPT !.paid_in = @ + amount]

\* The credit limit of the customer object allows a balance of n.
WithinLimit(customer, n) == customer.limit = 0 \/ n <= customer.limit

-----------------------------------------------------------------------------
(* Customers.                                                              *)

Regular(c) == c \in Customers

\* The session has read the row of customer c and keeps the object.
Keeping(new, c) ==
    IF Regular(c) THEN [new EXCEPT !.kept = db[c], !.keptOf = c]
    ELSE [new EXCEPT !.kept = NoRow, !.keptOf = NoKey]

Due(c, amount) ==
    IF Regular(c) /\ amount # 0 THEN <<[cust |-> c, delta |-> amount]>> ELSE <<>>

ActiveCustomer(c) == db[c] # NoRow /\ db[c].active

\* create_customer: nobody else can see the new row before it is committed.
CreateCustomer(c, body) ==
    /\ db[c] = NoRow
    /\ db' = [db EXCEPT ![c] = [opening |-> body.opening_balance,
                                balance |-> body.opening_balance,
                                balance_type |-> body.balance_type, paid_in |-> 0,
                                limit |-> body.credit_limit, active |-> body.is_active]]
    /\ UNCHANGED <<job, mine, held, arrived>>

\* update_customer: the flush waits for the row, and writes what the patch changes.
UpdateCustomer(r, c, body) ==
    /\ ActiveCustomer(c)
    /\ Free(r, c)
    /\ Begin(r, Job("updateCustomer", c))
    /\ Write(r, c, [db[c] EXCEPT !.limit = body.credit_limit, !.active = body.is_active])
    /\ UNCHANGED db

\* delete_customer: the flush waits for the row.
DeleteCustomer(r, c) ==
    /\ ActiveCustomer(c)
    /\ Free(r, c)
    /\ Begin(r, Job("deleteCustomer", c))
    /\ Write(r, c, [db[c] EXCEPT !.active = FALSE])
    /\ UNCHANGED db

\* customer_service.record_payment: everything follows the lock.
RecordCustomerPayment(r, c, amount) ==
    /\ db[c] # NoRow
    /\ Begin(r, [Job("customerPay", c) EXCEPT !.amount = amount, !.dues = Due(c, - amount)])
    /\ UNCHANGED <<db, mine, held>>

\* Variants of ApplyDue(r), with or without the lock.
ApplyDueWith(r, waits) ==
    LET due == Head(job[r].dues)
        c == due.cust
        object == Locked(r, c)
        n == Signed(object) + due.delta
        row == IF job[r].op = "customerPay" THEN SavePayment(Seen(r, c), - due.delta)
               ELSE Seen(r, c)
        new == Stored(n)
    IN
    /\ job[r].dues # <<>>
    /\ job[r].step = "done" \/ job[r].op = "void"
    /\ waits => Free(r, c)
    /\ \/ /\ object.active
          /\ job[r].op \in {"sale", "update"} /\ n > 0 => WithinLimit(object, n)
          /\ Write(r, c, [row EXCEPT
                 !.balance = IF new.balance # object.balance THEN new.balance ELSE @,
                 !.balance_type = IF new.balance_type # object.balance_type
                                  THEN new.balance_type ELSE @])
          /\ job' = [job EXCEPT ![r].dues = Tail(@),
                                ![r].kept = IF job[r].keptOf = c 
                                              THEN [@ EXCEPT !.balance = new.balance,
                                                             !.balance_type = new.balance_type]
                                              ELSE @]
       \/ /\ ~object.active
          /\ job[r].op \in {"void", "pay", "refund"}
          /\ Hold(r, c)
          /\ job' = [job EXCEPT ![r].dues = Tail(@)]
          /\ UNCHANGED mine
    /\ UNCHANGED <<db, arrived>>

\* Seeded fault: no FOR UPDATE.
ApplyDueWithoutLock(r) == ApplyDueWith(r, FALSE)

\* apply_sale_to_balance, and what the other handlers do in its place: lock the
\* customer, compute with the object, flush the attributes that changed.  A sale
\* or an update needs an active customer and respects the limit, a customer's
\* payment needs an active customer, the others pass over one that is not.
\* A refusal is a Rollback.
ApplyDue(r) == ApplyDueWith(r, TRUE)

-----------------------------------------------------------------------------
(* Invoices.                                                               *)

\* paid_amount of a new or edited invoice, and the check of a partial payment.
PaidOf(body) ==
    CASE body.payment_type = "cash" -> body.items
      [] body.payment_type = "partial" -> body.amount_paid
      [] body.payment_type = "credit" -> 0

PartlyPaid(body) == body.payment_type = "partial" => body.amount_paid \in 1 .. body.items - 1

\* The new row of create_sale.
NewInvoice(body) ==
    [cust |-> body.customer, payment_type |-> body.payment_type, total |-> body.items,
     paid |-> PaidOf(body),
     status |-> IF body.payment_type = "cash" THEN "paid" ELSE "confirmed"]

\* create_sale: the customer object is kept from the first check to the end.
CreateSale(r, v, body) ==
    LET c == body.customer
        row == NewInvoice(body)
        receivable == IF db[c].balance_type = "receivable" THEN db[c].balance ELSE 0
    IN
    /\ Unused(v)
    /\ Regular(c) => /\ ActiveCustomer(c)
                     /\ row.payment_type # "cash" => WithinLimit(db[c], receivable + row.total)
    /\ PartlyPaid(body)
    /\ Begin(r, [Keeping(Job("sale", v), c) EXCEPT !.dues = Due(c, Owed(row))])
    /\ mine' = [mine EXCEPT ![r][v] = row]
    /\ UNCHANGED <<db, held>>

\* update_sale, up to the patch.  A walk-in customer makes it a cash sale.
UpdateSale(r, v, body) ==
    LET inv == db[v] IN
    /\ inv # NoRow /\ Live(inv)
    /\ Regular(body.customer) => db[body.customer] # NoRow
    /\ body.settles => PartlyPaid(body)
    /\ Begin(r, [Job("update", v) EXCEPT
                  !.step = "write", !.loaded = inv,
                  !.new = IF body.settles
                          THEN [NewInvoice(body) EXCEPT !.status = inv.status]
                          ELSE [inv EXCEPT !.cust = body.customer]])
    /\ UNCHANGED <<db, mine, held>>

\* The flush of the patch, the refresh of the invoice and of its customer.
FlushUpdate(r) ==
    LET v == job[r].key
        loaded == job[r].loaded
        new == job[r].new
        row == Flushed(db[v], loaded, new)
        changed == Owed(loaded) # Owed(row) \/ loaded.cust # row.cust
    IN
    /\ At(r, "update", "write")
    /\ IF new = loaded THEN UNCHANGED <<mine, held>>
       ELSE Free(r, v) /\ Write(r, v, row)
    /\ job' = [job EXCEPT ![r] = [Keeping(Job("update", v), row.cust) EXCEPT
                  !.dues = IF changed
                           THEN (IF Owed(loaded) > 0 THEN Due(loaded.cust, - Owed(loaded)) ELSE <<>>)
                                \o (IF Owed(row) > 0 THEN Due(row.cust, Owed(row)) ELSE <<>>)
                           ELSE <<>>]]
    /\ UNCHANGED <<db, arrived>>

\* void_sale: the customer object came with the invoice.
VoidSale(r, v) ==
    LET inv == db[v] IN
    /\ inv # NoRow /\ Live(inv)
    /\ Begin(r, [Keeping(Job("void", v), inv.cust) EXCEPT
                  !.step = "write", !.dues = Due(inv.cust, - Owed(inv))])
    /\ UNCHANGED <<db, mine, held>>

\* SaleRepository.set_status and the flush.
FlushVoid(r) ==
    /\ At(r, "void", "write") /\ job[r].dues = <<>>
    /\ Free(r, job[r].key)
    /\ Write(r, job[r].key, SetStatus(db[job[r].key], "void"))
    /\ job' = [job EXCEPT ![r].step = "done"]
    /\ UNCHANGED <<db, arrived>>

\* Variants of RecordPayment, with or without the lock.
RecordPaymentWith(r, v, amount, waits) ==
    LET inv == db[v] IN
    /\ inv # NoRow
    /\ waits => Free(r, v)
    /\ Payable(inv)
    /\ amount <= inv.total - inv.paid
    /\ Begin(r, [Job("pay", v) EXCEPT !.amount = amount, !.dues = Due(inv.cust, - amount)])
    /\ Write(r, v, AddPaidAmount(inv, amount))
    /\ UNCHANGED db

\* Seeded fault: get in place of get_with_lock.
RecordPaymentUnlocked(r, v, amount) == RecordPaymentWith(r, v, amount, FALSE)

\* record_payment: the invoice is locked before it is looked at.
RecordPayment(r, v, amount) == RecordPaymentWith(r, v, amount, TRUE)

-----------------------------------------------------------------------------
(* Returns.                                                                *)

ReturnsOf(v) == {t \in Returns : db[t] # NoRow /\ db[t].inv = v}

\* The approved total, as a statement of session r sees it.
Approved(r, v) ==
    SumFunction([t \in ReturnsOf(v) |->
                    IF Seen(r, t).status = "approved" THEN Seen(r, t).total ELSE 0])

\* SaleReturnRepository.create_return.
NewReturn(v, body) ==
    [inv |-> v, total |-> body.items, refund |-> Max({0, body.items - body.penalty}),
     received |-> 0, status |-> "pending"]

\* create_return: its checks are one step, its insert is seen at commit.
CreateReturn(r, t, v, body) ==
    LET inv == db[v] IN
    /\ Unused(t)
    /\ inv # NoRow /\ Live(inv)
    /\ Approved(r, v) + body.items <= inv.total
    /\ Begin(r, Job("return", t))
    /\ mine' = [mine EXCEPT ![r][t] = NewReturn(v, body)]
    /\ UNCHANGED <<db, held>>

\* approve_return and reject_return look at the return without a lock.
ReadReturn(r, t, op) ==
    /\ op \in {"approve", "reject"}
    /\ db[t] # NoRow /\ db[t].status = "pending"
    /\ Begin(r, [Job(op, t) EXCEPT !.step = "write"])
    /\ UNCHANGED <<db, mine, held>>

\* SaleReturnRepository.approve and reject.
Decided(t, status) == [db[t] EXCEPT !.status = status]

\* The flush of the approval, and the decision whether that was the last of
\* the invoice.
ApproveReturn(r) ==
    LET t == job[r].key
        v == db[t].inv
        covered == Approved(r, v) + (IF db[t].status = "approved" THEN 0 ELSE db[t].total)
    IN
    /\ At(r, "approve", "write")
    /\ Free(r, t)
    /\ Write(r, t, Decided(t, "approved"))
    /\ job' = [job EXCEPT ![r].step =
                  IF covered >= db[v].total /\ db[v].status # "returned" THEN "mark" ELSE "done"]
    /\ UNCHANGED <<db, arrived>>

\* invoice_for_return.status = returned, and the flush.
MarkReturned(r) ==
    LET v == db[job[r].key].inv IN
    /\ At(r, "approve", "mark")
    /\ Free(r, v)
    /\ Write(r, v, [db[v] EXCEPT !.status = "returned"])
    /\ job' = [job EXCEPT ![r].step = "done"]
    /\ UNCHANGED <<db, arrived>>

\* The flush of the rejection.
RejectReturn(r) ==
    LET t == job[r].key IN
    /\ At(r, "reject", "write")
    /\ Free(r, t)
    /\ Write(r, t, Decided(t, "rejected"))
    /\ job' = [job EXCEPT ![r].step = "done"]
    /\ UNCHANGED <<db, arrived>>

\* record_return_payment, up to its first flush.
RecordReturnPayment(r, t, amount) ==
    /\ db[t] # NoRow /\ db[t].status = "approved"
    /\ amount <= db[t].refund - db[t].received
    /\ Begin(r, [Job("refund", t) EXCEPT !.step = "write", !.amount = amount,
                                          !.loaded = db[t]])
    /\ UNCHANGED <<db, mine, held>>

\* settlement_status is a String(10): "settled" fits, "partially_settled" is a
\* DataError.
FitsColumn(received, refund) == received >= refund

\* The flush of the payment row and of the return: received_amount is what the
\* handler computed from what it had read.  After a DataError only a Rollback is left.
FlushRefund(r) ==
    LET t == job[r].key
        received == job[r].loaded.received + job[r].amount
    IN
    /\ At(r, "refund", "write")
    /\ Free(r, t)
    /\ IF FitsColumn(received, job[r].loaded.refund)
       THEN /\ Write(r, t, [db[t] EXCEPT !.received = received])
            /\ job' = [job EXCEPT ![r].step = "lock", ![r].loaded = NoRow]
       ELSE /\ job' = [job EXCEPT ![r].step = "failed", ![r].loaded = NoRow]
            /\ UNCHANGED <<mine, held>>
    /\ UNCHANGED <<db, arrived>>

\* The invoice is locked to find its customer.
LockInvoice(r) ==
    LET v == db[job[r].key].inv IN
    /\ At(r, "refund", "lock")
    /\ Free(r, v)
    /\ Hold(r, v)
    /\ job' = [job EXCEPT ![r].step = "done",
                          ![r].dues = Due(db[v].cust, - job[r].amount)]
    /\ UNCHANGED <<db, mine, arrived>>

-----------------------------------------------------------------------------
(* The whole.                                                              *)

Init == SessionInit(Keys)

CustomerStep(r) ==
    \/ \E c \in Customers :
         \/ \E body \in CustomerCreate : CreateCustomer(c, body)
         \/ \E body \in CustomerUpdate : UpdateCustomer(r, c, body)
         \/ DeleteCustomer(r, c)
         \/ \E body \in CustomerPaymentCreate : RecordCustomerPayment(r, c, body.amount)
    \/ ApplyDue(r)

InvoiceStep(r) ==
    \/ \E v \in Invoices :
         \/ \E body \in SaleCreate : CreateSale(r, v, body)
         \/ \E body \in SaleUpdate : UpdateSale(r, v, body)
         \/ VoidSale(r, v)
         \/ \E body \in SalePaymentCreate : RecordPayment(r, v, body.amount)
    \/ FlushUpdate(r) \/ FlushVoid(r)

ReturnStep(r) ==
    \/ \E t \in Returns :
         \/ \E v \in Invoices, body \in SaleReturnCreate : CreateReturn(r, t, v, body)
         \/ \E op \in Ops : ReadReturn(r, t, op)
         \/ \E body \in SaleReturnPaymentCreate : RecordReturnPayment(r, t, body.amount)
    \/ ApproveReturn(r) \/ MarkReturned(r) \/ RejectReturn(r)
    \/ FlushRefund(r) \/ LockInvoice(r)

Next ==
    \E r \in Requests : CustomerStep(r) \/ InvoiceStep(r) \/ ReturnStep(r)
                        \/ Commit(r) \/ Rollback(r)

Spec == Init /\ [][Next]_sessionVars

-----------------------------------------------------------------------------
(* Properties.                                                             *)

TypeOK == SessionTypeOK(Invoice \cup Return \cup Customer)

\* add_paid_amount under the row lock: a payment that is committed raises the
\* invoice's paid_amount by exactly its amount, and never above the total,
\* whatever else is done to the invoice at the same time.
PaymentsApplyOnce ==
    [][\A r \in Requests :
         Committing(r) /\ job[r].op = "pay" =>
            LET v == job[r].key IN
            /\ db'[v].paid = db[v].paid + job[r].amount
            /\ db'[v].paid <= db'[v].total]_sessionVars

\* The customer whose balance the payment or the refund of session r moves.
Payer(r) ==
    CASE job[r].op = "customerPay" -> job[r].key
      [] job[r].op = "pay" -> db[job[r].key].cust
      [] job[r].op = "refund" -> db[db[job[r].key].inv].cust

\* CustomerRepository.get_ledger: the sum of the debits, every invoice, less the
\* credits, every payment of customer_payments.
LedgerMovements(c) ==
    SumFunction([v \in Invoices |->
                    IF db[v] # NoRow /\ db[v].cust = c THEN db[v].total ELSE 0])
    - db[c].paid_in

\* get_ledger: the signed running balance after the last row.  The opening balance
\* takes the sign of the balance as it is now.
LedgerBalance(c) ==
    Signed([balance |-> db[c].opening, balance_type |-> db[c].balance_type])
    + LedgerMovements(c)

\* "SELECT FOR UPDATE ... concurrency-safe": money that comes in or goes out
\* moves the customer's balance by its amount, exactly, and leaves the balance
\* of a deleted customer alone; and a payment of a customer, which leaves the
\* balance on the same side, moves the end of the customer's ledger alike.
\* (Sales, updates and voids, which may use an object from before the lock, are
\* another matter: SalesRaiseBalance.)
LockedBalanceMoves ==
    [][\A r \in Requests, c \in Customers :
         Committing(r) /\ job[r].op \in {"pay", "refund", "customerPay"} /\ c = Payer(r) =>
            /\ Signed(db'[c]) = Signed(db[c]) - (IF db[c].active THEN job[r].amount ELSE 0)
            /\ job[r].op = "customerPay" /\ db'[c].balance_type = db[c].balance_type =>
                 LedgerBalance(c)' = LedgerBalance(c) - job[r].amount]_sessionVars

\* "Status lifecycle: ... -> returned / void": an invoice that is void or returned
\* is never open again, though update, void and approval go by a status they
\* read without a lock.
DeadStaysDead ==
    [][\A v \in Invoices :
         db[v] # NoRow /\ db[v].status \in {"void", "returned"} =>
            db'[v].status \in {"void", "returned"}]_sessionVars

\* apply_sale_to_balance "increases the receivable balance".  This does NOT hold
\* once the customer's row changes between create_sale's first look at it and
\* its lock.
SalesRaiseBalance ==
    [][\A r \in Requests :
         Committing(r) /\ job[r].op = "sale" =>
            LET sold == mine[r][job[r].key]
                c == sold.cust
            IN
            Owed(sold) > 0 => Signed(db'[c]) = Signed(db[c]) + Owed(sold)]_sessionVars

\* "Cumulative guard: account for quantities already returned and approved": no
\* more is taken back than was sold.  This does NOT hold: approve_return does not
\* look again.
ReturnsWithinSold ==
    \A v \in Invoices : db[v] # NoRow =>
        SumFunction([t \in ReturnsOf(v) |->
                        IF db[t].status = "approved" THEN db[t].total ELSE 0]) <= db[v].total

\* "Record a refund payment to the customer for an approved return.  Updates
\* received_amount and settlement_status": a refund that is past its flush, with
\* part of the amount due as with all of it, has raised received_amount.  This
\* does NOT hold: "partially_settled" does not fit its column.
RefundsUpdateReturn ==
    \A r \in Requests :
        job[r].op = "refund" /\ job[r].step # "write" =>
            LET t == job[r].key IN
            mine[r][t] # NoRow /\ mine[r][t].received = db[t].received + job[r].amount

\* "exceeds remaining refund due": every refund that is paid counts in what has
\* been received.  This does NOT hold: what is due is read without a lock, and of
\* two refunds that overlap both are paid and one counts.
RefundsCount ==
    [][\A r \in Requests :
         Committing(r) /\ job[r].op = "refund" =>
            LET t == job[r].key IN
            db'[t].received = db[t].received + job[r].amount]_sessionVars

\* "Return is already 'approved' and cannot be rejected": an approved return stays
\* approved.  This does NOT hold: the status is read without a lock, and a rejection
\* overwrites an approval that was committed in between.
ApprovedReturnsStay ==
    [][\A t \in Returns :
         db[t] # NoRow /\ db[t].status = "approved" => db'[t].status = "approved"]_sessionVars
=============================================================================
