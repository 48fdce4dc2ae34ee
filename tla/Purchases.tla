------------------------------ MODULE Purchases ------------------------------
(***************************************************************************)
(* Purchases, their payments and returns, and the supplier balances they   *)
(* move: app/services/purchase_service.py and supplier_service.py.  The    *)
(* stock that the same requests move is the subject of Stock.              *)
(*                                                                         *)
(* A purchase has the total and the paid_amount of its row; its lines are  *)
(* left out, and with them the quantities of a return: the price of a      *)
(* returned line is the client's, so a return has any total.  One item     *)
(* stands for the catalogue of a supplier.  Ledger rows (of transactions), *)
(* audit rows and texts are left out.                                      *)
(***************************************************************************)
EXTENDS Sessions

CONSTANTS
    Suppliers,    \* primary keys of the suppliers table
    Purchases,    \* primary keys of the purchases table
    Returns,      \* primary keys of the purchase_returns table
    Amounts,      \* amounts of money a request may carry
    Totals,       \* total amounts of purchases
    Penalties,    \* what a supplier may keep of a return
    Openings      \* opening balances of suppliers

\* The schemas require amounts > 0 and prices and an opening balance >= 0.
ASSUME PurchasesAssumption ==
    /\ Amounts \subseteq Nat \ {0} /\ Totals \subseteq Nat
    /\ Penalties \subseteq Nat /\ Openings \subseteq Nat

-----------------------------------------------------------------------------
(* Rows.                                                                   *)

PaymentType == {"cash", "credit", "partial"}

\* The supplier_items of a supplier: whether the item is among them.
Catalogue(s) == <<s>>

Keys == Suppliers \cup {Catalogue(s) : s \in Suppliers} \cup Purchases \cup Returns

\* paid_out is the sum of the supplier's rows in supplier_payments.
Supplier == [opening : Openings, balance : Nat, balance_type : {"payable", "receivable"},
             paid_out : Nat, active : BOOLEAN]

SupplierItem == [sells : BOOLEAN]

\* No purchase is a draft: create_purchase confirms.
Purchase == [supplier : Suppliers, payment_type : PaymentType, total : Nat, paid : Nat,
             status : {"confirmed", "returned", "void"}]

Return == [purchase : Purchases, total : Amounts, refund : Nat, received : Nat,
           status : {"pending", "approved", "rejected"}]

\* Each table has keys of its own, and finitely many; NoKey and NoRow are no key
\* and no row.
ASSUME TablesAssumption ==
    /\ Suppliers \cap Purchases = {} /\ Suppliers \cap Returns = {}
    /\ Purchases \cap Returns = {} /\ IsFiniteSet(Purchases) /\ IsFiniteSet(Returns)
    /\ {Catalogue(s) : s \in Suppliers} \cap (Suppliers \cup Purchases \cup Returns) = {}
    /\ NoKey \notin Keys
    /\ NoRow \notin Supplier \cup SupplierItem \cup Purchase \cup Return

\* The bodies of the requests, as the schemas admit them.  The items of a purchase
\* are its total, those of a supplier whether the catalogue has the item.
SupplierCreate ==
    [opening_balance : Openings, balance_type : {"payable", "receivable"}, items : BOOLEAN]

PurchaseCreate ==
    {body \in [payment_type : PaymentType, items : Totals, paid_amount : Totals \cup {0}] :
        body.payment_type = "partial" => body.paid_amount > 0}

\* paid_amount is 0 where the body has none.
PurchaseUpdate ==
    [payment_type : PaymentType, items : Totals, paid_amount : Amounts \cup {0}]

PurchaseReturnCreate == [items : Amounts, penalty : Penalties]

\* How a payment is made (mode, account, reference) is left out.
SupplierPaymentCreate == [amount : Amounts]
PurchasePaymentCreate == [amount : Amounts]
PurchaseReturnPaymentCreate == [amount : Amounts]

\* PurchaseRepository.set_status and add_paid_amount.
SetStatus(purchase, status) == [purchase EXCEPT !.status = status]

AddPaidAmount(purchase, amount) == [purchase EXCEPT !.paid = @ + amount]

\* SupplierRepository.save_payment.
SavePayment(supplier, amount) == [supplier EXCEPT !.paid_out = @ + amount]

\* _compute_new_balance: a signed amount, payable > 0.
Signed(s) == IF s.balance_type = "payable" THEN s.balance ELSE - s.balance

\* Seeded fault: a receivable keeps its sign.
StoredSigned(n) == [balance |-> n, balance_type |-> IF n >= 0 THEN "payable" ELSE "receivable"]

\* And back to an absolute value and its type.
Stored(n) == IF n >= 0 THEN [balance |-> n, balance_type |-> "payable"]
             ELSE [balance |-> - n, balance_type |-> "receivable"]

\* due_amount, for a purchase that is on account.
Owed(p) == IF p.payment_type = "cash" THEN 0 ELSE p.total - p.paid

\* supplier_service.record_payment uses body.note; the body of a purchase payment
\* has no such field, and its use is an AttributeError.
HasNote(body) == body = "supplierPay"

-----------------------------------------------------------------------------
(* Suppliers.                                                              *)

\* The balance of supplier s is to change, when the purchase is on account.
Due(s, delta) == <<[supplier |-> s, delta |-> delta]>>

OnAccount(p, delta) == IF p.payment_type = "cash" THEN <<>> ELSE Due(p.supplier, delta)

Keeping(new, s) == [new EXCEPT !.kept = db[s], !.keptOf = s]

\* create_supplier: nobody else can see the new rows before they are committed.
CreateSupplier(s, body) ==
    /\ db[s] = NoRow
    /\ db' = [db EXCEPT ![s] = [opening |-> body.opening_balance,
                                balance |-> body.opening_balance,
                                balance_type |-> body.balance_type,
                                paid_out |-> 0, active |-> TRUE],
                        ![Catalogue(s)] = [sells |-> body.items]]
    /\ UNCHANGED <<job, mine, held, arrived>>

ActiveSupplier(s) == db[s] # NoRow /\ db[s].active

\* update_supplier replaces the catalogue that it read without a lock.
UpdateSupplier(r, s, sells) ==
    /\ ActiveSupplier(s)
    /\ Begin(r, [Job("updateSupplier", Catalogue(s)) EXCEPT
                   !.step = "write", !.loaded = db[Catalogue(s)], !.new = [sells |-> sells]])
    /\ UNCHANGED <<db, mine, held>>

\* Its deletes and inserts.  A row that another session has inserted meanwhile
\* breaks the unique constraint, and the request ends with a Rollback.
ReplaceItems(r) ==
    LET k == job[r].key IN
    /\ At(r, "updateSupplier", "write")
    /\ Free(r, k)
    /\ ~(job[r].new.sells /\ db[k].sells /\ ~job[r].loaded.sells)
    /\ Write(r, k, job[r].new)
    /\ job' = [job EXCEPT ![r].step = "done"]
    /\ UNCHANGED <<db, arrived>>

\* delete_supplier reads without a lock; its flush waits for the row.
DeleteSupplier(r, s) ==
    /\ ActiveSupplier(s)
    /\ Free(r, s)
    /\ Begin(r, Job("deleteSupplier", s))
    /\ Write(r, s, [db[s] EXCEPT !.active = FALSE])
    /\ UNCHANGED db

\* supplier_service.record_payment: everything follows the lock.
RecordSupplierPayment(r, s, amount) ==
    /\ db[s] # NoRow
    /\ Begin(r, [Job("supplierPay", s) EXCEPT !.amount = amount, !.dues = Due(s, - amount)])
    /\ UNCHANGED <<db, mine, held>>

\* Variants of ApplyDue(r), with or without the lock.
ApplyDueWith(r, waits) ==
    LET due == Head(job[r].dues)
        s == due.supplier
        object == Locked(r, s)
        new == Stored(Signed(object) + due.delta)
        pays == job[r].op \in {"pay", "supplierPay"}
        row == IF pays THEN SavePayment(Seen(r, s), - due.delta) ELSE Seen(r, s)
    IN
    /\ job[r].dues # <<>>
    /\ job[r].step = "done" \/ job[r].op = "void"
    /\ waits => Free(r, s)
    /\ \/ /\ object.active
          /\ pays => HasNote(job[r].op)
          /\ Write(r, s, [row EXCEPT
                 !.balance = IF new.balance # object.balance THEN new.balance ELSE @,
                 !.balance_type = IF new.balance_type # object.balance_type
                                  THEN new.balance_type ELSE @])
          /\ job' = [job EXCEPT ![r].dues = Tail(@),
                                ![r].kept = IF job[r].keptOf = s
                                              THEN [@ EXCEPT !.balance = new.balance,
                                                             !.balance_type = new.balance_type]
                                              ELSE @]
       \/ /\ ~object.active
          /\ job[r].op \in {"void", "refund"}
          /\ Hold(r, s)
          /\ job' = [job EXCEPT ![r].dues = Tail(@)]
          /\ UNCHANGED mine
       \/ /\ object.active
          /\ pays /\ ~HasNote(job[r].op)
          /\ Hold(r, s)
          /\ job' = [job EXCEPT ![r].step = "failed"]
          /\ UNCHANGED mine
    /\ UNCHANGED <<db, arrived>>

\* Seeded fault: no FOR UPDATE.
ApplyDueWithoutLock(r) == ApplyDueWith(r, FALSE)

\* apply_purchase_to_balance, record_payment, and what void and refund do in their
\* place: lock the supplier, compute with the object, flush what changed.  Voids
\* and refunds pass over a supplier that is not active, the others refuse (a
\* Rollback).  A payment of a purchase fails where HasNote says.
ApplyDue(r) == ApplyDueWith(r, TRUE)

-----------------------------------------------------------------------------
(* Purchases.                                                              *)

\* paid_amount of a new purchase.
PaidOf(body) ==
    CASE body.payment_type = "cash" -> body.items
      [] body.payment_type = "partial" -> body.paid_amount
      [] body.payment_type = "credit" -> 0

\* create_purchase: the supplier object is kept from the first check to the end.
CreatePurchase(r, p, s, body) ==
    LET row == [supplier |-> s, payment_type |-> body.payment_type, total |-> body.items,
                paid |-> PaidOf(body), status |-> "confirmed"]
    IN
    /\ Unused(p)
    /\ ActiveSupplier(s)
    /\ db[Catalogue(s)].sells
    /\ row.paid <= row.total
    /\ Begin(r, [Keeping(Job("purchase", p), s) EXCEPT !.dues = OnAccount(row, Owed(row))])
    /\ mine' = [mine EXCEPT ![r][p] = row]
    /\ UNCHANGED <<db, held>>

\* update_purchase reads the purchase without a lock.
UpdatePurchase(r, p, body) ==
    /\ db[p] # NoRow /\ db[p].status = "confirmed"
    /\ Begin(r, [Job("update", p) EXCEPT
                   !.step = "patch", !.amount = body.paid_amount, !.loaded = db[p],
                   !.new = [db[p] EXCEPT !.payment_type = body.payment_type,
                                         !.total = body.items]])
    /\ UNCHANGED <<db, mine, held>>

\* Seeded fault: every attribute of the object is written.
PatchedWhole(row, loaded, new) == new

\* BaseRepository.update sets the attributes of the patch.
Patched(row, loaded, new) == Flushed(row, loaded, new)

\* The flushes of the patch and of the new lines, and the refresh after them.
FlushPatch(r) ==
    LET p == job[r].key
        row == Patched(db[p], job[r].loaded, job[r].new)
        type == job[r].new.payment_type
        paid == CASE type = "cash" -> row.total
                  [] type = "credit" -> 0
                  [] type = "partial" -> IF job[r].amount > 0 THEN job[r].amount ELSE row.paid
    IN
    /\ At(r, "update", "patch")
    /\ type = "partial" => paid \in 1 .. row.total
    /\ IF job[r].new = job[r].loaded THEN UNCHANGED <<mine, held>>
       ELSE Free(r, p) /\ Write(r, p, row)
    /\ job' = [job EXCEPT ![r].step = "settle", ![r].loaded = row,
                          ![r].new = [row EXCEPT !.paid = paid]]
    /\ UNCHANGED <<db, arrived>>

\* The flush of paid_amount, and the refresh after it: the "old" due amount is what
\* this refresh returns.
SettlePaid(r) ==
    LET p == job[r].key
        row == Patched(Seen(r, p), job[r].loaded, job[r].new)
    IN
    /\ At(r, "update", "settle")
    /\ IF job[r].new.paid = job[r].loaded.paid THEN UNCHANGED <<mine, held>>
       ELSE Free(r, p) /\ Write(r, p, row)
    /\ job' = [job EXCEPT ![r] = [Keeping(Job("update", p), row.supplier) EXCEPT
                                    !.step = "reapply", !.loaded = row]]
    /\ UNCHANGED <<db, arrived>>

\* The due amount is read again; the balance follows the difference of the two.
Reapply(r) ==
    LET row == Seen(r, job[r].key)
        old == Owed(job[r].loaded)
        new == Owed([job[r].loaded EXCEPT !.total = row.total, !.paid = row.paid])
    IN
    /\ At(r, "update", "reapply")
    /\ job' = [job EXCEPT ![r].step = "done", ![r].loaded = NoRow,
          ![r].dues = IF old = new THEN <<>>
                      ELSE (IF old > 0 THEN Due(row.supplier, - old) ELSE <<>>)
                           \o (IF new > 0 THEN Due(row.supplier, new) ELSE <<>>)]
    /\ UNCHANGED <<db, mine, held, arrived>>

\* void_purchase: the supplier object came with the purchase.
VoidPurchase(r, p) ==
    /\ db[p] # NoRow /\ db[p].status = "confirmed"
    /\ Begin(r, [Keeping(Job("void", p), db[p].supplier) EXCEPT
                   !.step = "write", !.dues = OnAccount(db[p], - Owed(db[p]))])
    /\ UNCHANGED <<db, mine, held>>

\* PurchaseRepository.set_status and the flush.
FlushVoid(r) ==
    LET p == job[r].key IN
    /\ At(r, "void", "write") /\ job[r].dues = <<>>
    /\ Free(r, p)
    /\ Write(r, p, SetStatus(db[p], "void"))
    /\ job' = [job EXCEPT ![r].step = "done"]
    /\ UNCHANGED <<db, arrived>>

\* record_payment of a purchase, up to the flush of the payment row: the purchase
\* is locked before it is looked at.
RecordPayment(r, p, amount) ==
    /\ db[p] # NoRow
    /\ Free(r, p)
    /\ db[p].status = "confirmed"
    /\ amount <= db[p].total - db[p].paid
    /\ Begin(r, [Job("pay", p) EXCEPT !.amount = amount, !.dues = Due(db[p].supplier, - amount)])
    /\ Write(r, p, AddPaidAmount(db[p], amount))
    /\ UNCHANGED db

-----------------------------------------------------------------------------
(* Returns.                                                                *)

ReturnsOf(p) == {t \in Returns : db[t] # NoRow /\ db[t].purchase = p}

\* total_approved_returns, as a statement of session r sees it.
Approved(r, p) ==
    SumFunction([t \in ReturnsOf(p) |->
                    IF Seen(r, t).status = "approved" THEN Seen(r, t).total ELSE 0])

\* PurchaseReturnRepository.create_return.
NewReturn(p, body) ==
    [purchase |-> p, total |-> body.items, received |-> 0, status |-> "pending",
     refund |-> IF body.items > body.penalty THEN body.items - body.penalty ELSE 0]

\* create_return: it is compared with the purchase only, not with other returns.
CreateReturn(r, t, p, body) ==
    /\ Unused(t)
    /\ db[p] # NoRow /\ db[p].status = "confirmed"
    /\ Begin(r, Job("return", t))
    /\ mine' = [mine EXCEPT ![r][t] = NewReturn(p, body)]
    /\ UNCHANGED <<db, held>>

\* approve_return and reject_return look at the return without a lock.
ReadReturn(r, t, op) ==
    /\ op \in {"approve", "reject"}
    /\ db[t] # NoRow /\ db[t].status = "pending"
    /\ Begin(r, [Job(op, t) EXCEPT !.step = "write"])
    /\ UNCHANGED <<db, mine, held>>

\* PurchaseReturnRepository.approve and reject.
Decided(t, status) == [db[t] EXCEPT !.status = status]

\* The flush of the approval.
ApproveReturn(r) ==
    LET t == job[r].key IN
    /\ At(r, "approve", "write")
    /\ Free(r, t)
    /\ Write(r, t, Decided(t, "approved"))
    /\ job' = [job EXCEPT ![r].step = "mark"]
    /\ UNCHANGED <<db, arrived>>

\* The flush of the rejection.
RejectReturn(r) ==
    LET t == job[r].key IN
    /\ At(r, "reject", "write")
    /\ Free(r, t)
    /\ Write(r, t, Decided(t, "rejected"))
    /\ job' = [job EXCEPT ![r].step = "done"]
    /\ UNCHANGED <<db, arrived>>

\* Variants of MarkReturned(r), with or without the lock.
MarkReturnedWith(r, waits) ==
    LET p == db[job[r].key].purchase IN
    /\ At(r, "approve", "mark")
    /\ waits => Free(r, p)
    /\ IF Approved(r, p) >= db[p].total
       THEN Free(r, p) /\ Write(r, p, SetStatus(db[p], "returned"))
       ELSE (IF waits THEN Hold(r, p) ELSE UNCHANGED held) /\ UNCHANGED mine
    /\ job' = [job EXCEPT ![r].step = "done"]
    /\ UNCHANGED <<db, arrived>>

\* Seeded fault: get in place of get_with_lock.
MarkReturnedUnlocked(r) == MarkReturnedWith(r, FALSE)

\* The decision whether that was the last of the purchase: the purchase is locked,
\* then the returns are summed.
MarkReturned(r) == MarkReturnedWith(r, TRUE)

\* record_return_payment looks at the return without a lock.
RecordReturnPayment(r, t, amount) ==
    /\ db[t] # NoRow /\ db[t].status = "approved"
    /\ amount <= db[t].refund - db[t].received
    /\ Begin(r, [Job("refund", t) EXCEPT !.step = "write", !.amount = amount,
                                          !.loaded = db[t]])
    /\ UNCHANGED <<db, mine, held>>

\* The flush before the purchase is locked: received_amount is what the handler
\* computed from what it had read.
FlushRefund(r) ==
    LET t == job[r].key IN
    /\ At(r, "refund", "write")
    /\ Free(r, t)
    /\ Write(r, t, [db[t] EXCEPT !.received = job[r].loaded.received + job[r].amount])
    /\ job' = [job EXCEPT ![r].step = "lock", ![r].loaded = NoRow]
    /\ UNCHANGED <<db, arrived>>

\* Seeded fault: the supplier is locked first, and then the purchase.
LockSupplierFirst(r) ==
    LET p == db[job[r].key].purchase
        s == db[p].supplier
    IN
    /\ At(r, "refund", "lock")
    /\ IF s \in held[r]
       THEN /\ Free(r, p) /\ Hold(r, p)
            /\ job' = [job EXCEPT ![r].step = "done", ![r].dues = Due(s, - job[r].amount)]
       ELSE Free(r, s) /\ Hold(r, s) /\ UNCHANGED job
    /\ UNCHANGED <<db, mine, arrived>>

\* The purchase is locked to find its supplier.
LockPurchase(r) ==
    LET p == db[job[r].key].purchase IN
    /\ At(r, "refund", "lock")
    /\ Free(r, p)
    /\ Hold(r, p)
    /\ job' = [job EXCEPT ![r].step = "done",
                          ![r].dues = Due(db[p].supplier, - job[r].amount)]
    /\ UNCHANGED <<db, mine, arrived>>

-----------------------------------------------------------------------------
(* The whole.                                                              *)

Init == SessionInit(Keys)

SupplierStep(r) ==
    \/ \E s \in Suppliers :
         \/ \E body \in SupplierCreate : CreateSupplier(s, body)
         \/ \E sells \in BOOLEAN : UpdateSupplier(r, s, sells)
         \/ DeleteSupplier(r, s)
         \/ \E body \in SupplierPaymentCreate : RecordSupplierPayment(r, s, body.amount)
    \/ ReplaceItems(r)
    \/ ApplyDue(r)

PurchaseStep(r) ==
    \/ \E p \in Purchases :
         \/ \E s \in Suppliers, body \in PurchaseCreate : CreatePurchase(r, p, s, body)
         \/ \E body \in PurchaseUpdate : UpdatePurchase(r, p, body)
         \/ VoidPurchase(r, p)
         \/ \E body \in PurchasePaymentCreate : RecordPayment(r, p, body.amount)
    \/ FlushPatch(r) \/ SettlePaid(r) \/ Reapply(r)
    \/ FlushVoid(r)

ReturnStep(r) ==
    \/ \E t \in Returns :
         \/ \E p \in Purchases, body \in PurchaseReturnCreate : CreateReturn(r, t, p, body)
         \/ \E op \in Ops : ReadReturn(r, t, op)
         \/ \E body \in PurchaseReturnPaymentCreate : RecordReturnPayment(r, t, body.amount)
    \/ ApproveReturn(r) \/ MarkReturned(r) \/ RejectReturn(r)
    \/ FlushRefund(r) \/ LockPurchase(r)

Next ==
    \E r \in Requests : SupplierStep(r) \/ PurchaseStep(r) \/ ReturnStep(r)
                        \/ Commit(r) \/ Rollback(r)

Spec == Init /\ [][Next]_sessionVars

-----------------------------------------------------------------------------
(* Properties.                                                             *)

TypeOK == SessionTypeOK(Supplier \cup SupplierItem \cup Purchase \cup Return)

\* The supplier whose balance the payment or the refund of session r moves.
Paid(r) == IF job[r].op = "supplierPay" THEN job[r].key
           ELSE db[db[job[r].key].purchase].supplier

\* SupplierRepository.get_ledger: the sum of the credits, every purchase, less the
\* debits, every payment.
LedgerMovements(s) ==
    SumFunction([p \in Purchases |->
                    IF db[p] # NoRow /\ db[p].supplier = s THEN db[p].total ELSE 0])
    - db[s].paid_out

\* get_ledger: the signed running balance after the last row.  The opening balance
\* takes the sign of the balance as it is now.
LedgerBalance(s) ==
    Signed([balance |-> db[s].opening, balance_type |-> db[s].balance_type])
    + LedgerMovements(s)

\* "SELECT FOR UPDATE ... concurrency-safe": a payment to a supplier and a refund
\* from one move its balance by their amount, exactly, whatever else is done to
\* the supplier at the same time; no money moves the balance of a supplier that was
\* deleted; and a payment that leaves the balance on the same side moves the end of
\* the supplier's ledger alike.
MoneyMovesBalance ==
    [][\A r \in Requests, s \in Suppliers :
         /\ Committing(r) /\ job[r].op \in {"supplierPay", "refund"}
         /\ s = Paid(r)
         => /\ Signed(db'[s]) = Signed(db[s]) - (IF db[s].active THEN job[r].amount ELSE 0)
            /\ job[r].op = "supplierPay" /\ db'[s].balance_type = db[s].balance_type =>
                 LedgerBalance(s)' = LedgerBalance(s) - job[r].amount]_sessionVars

\* approve_return sums the returns under the lock of the purchase: two approvals
\* that overlap cannot miss each other, and the one that ends last marks the
\* purchase.
LastApprovalMarks ==
    [][\A r \in Requests :
         Committing(r) /\ job[r].op = "approve" =>
            LET p == db[job[r].key].purchase IN
            SumFunction([t \in ReturnsOf(p) |->
                            IF db'[t].status = "approved" THEN db'[t].total ELSE 0])
                 >= db'[p].total
               => db'[p].status = "returned"]_sessionVars

\* "Status lifecycle: ... -> (returned | void)": a purchase that is void or returned
\* is never confirmed again, though update, void and approval go by a status
\* that was read without a lock.
DeadStaysDead ==
    [][\A p \in Purchases :
         db[p] # NoRow /\ db[p].status # "confirmed" => db'[p].status # "confirmed"]_sessionVars

\* The row that the next step of session r locks.
Wants(r) ==
    LET purchase == IF job[r].key \in Returns THEN db[job[r].key].purchase ELSE job[r].key IN
    IF job[r].dues # <<>> THEN Head(job[r].dues).supplier
    ELSE IF job[r].step \in {"mark", "lock"} THEN purchase
    ELSE IF job[r].step \in {"write", "patch", "settle"} THEN job[r].key
    ELSE NoKey

\* Returns, purchases and suppliers are locked in this order by everything but
\* void_purchase, which locks the supplier and then the purchase: two sessions
\* that wait for each other include a void.
OnlyVoidsDeadlock ==
    \A r, s \in Requests :
        Wants(r) \in held[s] \ held[r] /\ Wants(s) \in held[r] \ held[s] =>
            "void" \in {job[r].op, job[s].op}

\* "RECORD PAYMENT ... Increment paid_amount. Insert PurchasePayment row.": a payment
\* within the amount due has, as soon as it has had the turn of an active supplier,
\* both rows ready to commit, what was paid of the purchase and what was paid to
\* the supplier.  The code does not keep it: the use of body.note stops it between
\* the two.
PaymentsRecorded ==
    \A r \in Requests : job[r].op = "pay" =>
        LET p == job[r].key
            s == db[p].supplier
        IN s \in held[r] =>
             /\ mine[r][p].paid = db[p].paid + job[r].amount
             /\ mine[r][s] # NoRow
             /\ mine[r][s].paid_out = db[s].paid_out + job[r].amount
=============================================================================
