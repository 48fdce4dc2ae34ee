---------------------------- MODULE SpendingProofs ----------------------------
(***************************************************************************)
(* Theorems about what the business pays for: about Purchases, for every   *)
(* set of requests, suppliers, purchases, returns and amounts, and, in the *)
(* second half, about Payroll and the Production that it extends, for      *)
(* every set of staff, orders, lines, advances, payments and amounts.      *)
(* Both for any number of requests that arrive.                            *)
(*                                                                         *)
(* The two specifications have the variables of Sessions in common and no  *)
(* definition else; no proof about one cites an assumption of the other.   *)
(***************************************************************************)
EXTENDS Purchases, Payroll, SessionsProofs, Sums

Catalogues == {Catalogue(s) : s \in Suppliers}

\* The rows of the four tables.
Table ==
    [k \in Keys |-> IF k \in Suppliers THEN Supplier
                    ELSE IF k \in Purchases THEN Purchase
                    ELSE IF k \in Returns THEN Return
                    ELSE SupplierItem]

DueRec == [supplier : Suppliers, delta : Int]

JobRec ==
    [op : Ops \cup {"none"},
     step : {"write", "patch", "settle", "reapply", "mark", "lock", "done", "failed"},
     key : Keys \cup {NoKey}, amount : Nat, dues : Seq(DueRec),
     loaded : Purchase \cup Return \cup SupplierItem \cup {NoRow},
     new : Purchase \cup SupplierItem \cup {NoRow},
     kept : Supplier \cup {NoRow}, keptOf : Suppliers \cup {NoKey}]

Dead(purchase) == purchase.status # "confirmed"

\* The supplier of the purchase exists.
Known(purchase) == db[purchase.supplier] # NoRow

\* What the foreign keys refer to exists, and suppliers come with their catalogue.
RowsRefer ==
    /\ \A p \in Purchases : db[p] # NoRow => Known(db[p])
    /\ \A t \in Returns : db[t] # NoRow => db[db[t].purchase] # NoRow
    /\ \A s \in Suppliers : db[s] # NoRow <=> db[Catalogue(s)] # NoRow

\* What session r has written, next to the rows it will replace: no dead purchase
\* comes to life, no return gets another purchase or total, only an approval
\* approves, only an edit or a payment, which cannot commit, changes what has
\* been paid, and suppliers and catalogues are not inserted in a session.
VersionsOK(r) ==
    /\ \A p \in Purchases : mine[r][p] # NoRow =>
         /\ Known(mine[r][p])
         /\ db[p] # NoRow =>
              /\ Dead(db[p]) => Dead(mine[r][p])
              /\ \/ mine[r][p].paid = db[p].paid
                 \/ job[r].op = "pay"
                 \/ job[r].op = "update" /\ job[r].key = p
    /\ \A t \in Returns : mine[r][t] # NoRow =>
         /\ db[mine[r][t].purchase] # NoRow
         /\ db[t] # NoRow => /\ mine[r][t].purchase = db[t].purchase
                             /\ mine[r][t].total = db[t].total
         /\ mine[r][t].status = "approved" =>
              \/ db[t] # NoRow /\ db[t].status = "approved"
              \/ job[r].op = "approve" /\ job[r].key = t
    /\ \A k \in Suppliers \cup Catalogues : mine[r][k] # NoRow => db[k] # NoRow

\* The rows that the request of session r is about, and the steps it has.
KeyOK(r) ==
    /\ job[r].op \in {"purchase", "update", "void", "pay"} => job[r].key \in Purchases
    /\ job[r].op \in {"return", "approve", "reject", "refund"} => job[r].key \in Returns
    /\ job[r].op \in {"supplierPay", "deleteSupplier"} => job[r].key \in Suppliers
    /\ job[r].op = "updateSupplier" => job[r].key \in Catalogues
    /\ job[r].op \in {"update", "void", "pay", "approve", "reject", "refund",
                     "supplierPay", "deleteSupplier", "updateSupplier"} =>
         db[job[r].key] # NoRow
    /\ job[r].op = "none" => job[r].key = NoKey /\ job[r].dues = <<>>
    /\ job[r].step \in {"patch", "settle", "reapply"} => job[r].op = "update"
    /\ job[r].step = "mark" => job[r].op = "approve"
    /\ job[r].step = "lock" => job[r].op = "refund"

\* What session r remembers of the rows it has read.
ReadOK(r) ==
    /\ job[r].keptOf # NoKey =>
         job[r].kept # NoRow /\ job[r].op \in {"purchase", "update", "void"}
    /\ \A i \in 1 .. Len(job[r].dues) : db[job[r].dues[i].supplier] # NoRow
    /\ job[r].step \in {"patch", "settle"} =>
         /\ job[r].loaded \in Purchase /\ job[r].new \in Purchase
         /\ job[r].loaded.supplier = job[r].new.supplier
         /\ job[r].loaded.status = job[r].new.status
    /\ job[r].step = "reapply" => job[r].loaded \in Purchase
    /\ At(r, "updateSupplier", "write") => job[r].new \in SupplierItem
    /\ At(r, "refund", "write") => job[r].loaded \in Return

\* The locks of session r, and the one it asks for next: returns, purchases and
\* suppliers are locked in this order, but for voids.
LocksOK(r) ==
    job[r].op # "void" =>
        /\ job[r].step = "write" => held[r] = {}
        /\ job[r].step \in {"patch", "settle", "reapply", "mark", "lock"} =>
             held[r] \subseteq {job[r].key}
        /\ job[r].dues # <<>> =>
             /\ job[r].step \in {"done", "failed"}
             /\ held[r] \subseteq Purchases \cup Returns \cup {Head(job[r].dues).supplier}
             /\ \A i \in 1 .. Len(job[r].dues) :
                   job[r].dues[i].supplier = Head(job[r].dues).supplier

\* The balance of supplier s as session r has changed it, by the amount of its
\* request.
Moved(r, s) ==
    LET row == mine[r][s] IN
    /\ row # NoRow
    /\ Signed(row) = Signed(db[s]) - job[r].amount
    /\ job[r].op = "supplierPay" => /\ row.opening = db[s].opening
                                    /\ row.paid_out = db[s].paid_out + job[r].amount

\* Money that goes out or comes back: it is still due to supplier s, or s is locked
\* and has it.
MoneyOK(r, s) ==
    \/ /\ job[r].dues = <<[supplier |-> s, delta |-> - job[r].amount]>>
       /\ mine[r][s] = NoRow
    \/ /\ job[r].dues = <<>>
       /\ s \in held[r]
       /\ IF db[s].active THEN Moved(r, s)
          ELSE mine[r][s] = NoRow /\ job[r].op # "supplierPay"

\* A payment of a supplier, a refund.  A payment of a purchase never gets so far.
PayOK(r) ==
    /\ job[r].op = "supplierPay" =>
         /\ job[r].step = "done"
         /\ \A s \in Suppliers : s = job[r].key => MoneyOK(r, s)
         /\ \A p \in Purchases : mine[r][p] = NoRow
    /\ At(r, "refund", "done") =>
         LET p == db[job[r].key].purchase IN
         /\ p \in held[r]
         /\ \A s \in Suppliers : s = db[p].supplier => MoneyOK(r, s)
    /\ job[r].op = "refund" /\ job[r].step # "done" =>
         /\ job[r].step \in {"write", "lock"} /\ job[r].dues = <<>>
         /\ \A s \in Suppliers : mine[r][s] = NoRow
    /\ job[r].op = "pay" => job[r].dues # <<>>
    /\ job[r].op \in {"approve", "reject"} => job[r].dues = <<>>

\* An approval that has looked at purchase p has marked it, or there was no need to.
ApproveOK(r) ==
    /\ job[r].op = "approve" /\ job[r].step # "done" =>
         \A p \in Purchases : mine[r][p] = NoRow
    /\ At(r, "approve", "done") =>
         \A p \in Purchases : p = db[job[r].key].purchase =>
            /\ p \in held[r]
            /\ IF mine[r][p] # NoRow THEN mine[r][p].status = "returned"
               ELSE Approved(r, p) < db[p].total

RequestOK(r) ==
    VersionsOK(r) /\ KeyOK(r) /\ ReadOK(r) /\ LocksOK(r) /\ PayOK(r) /\ ApproveOK(r)

IInv ==
    /\ SessionInv(Table)
    /\ job \in [Requests -> JobRec]
    /\ RowsRefer
    /\ \A r \in Requests : RequestOK(r)

-----------------------------------------------------------------------------
(* The tables.                                                             *)

LEMMA TableFacts ==
    /\ DOMAIN Table = Keys
    /\ \A s \in Suppliers : /\ s \in Keys /\ Table[s] = Supplier
                            /\ Catalogue(s) \in Keys /\ Table[Catalogue(s)] = SupplierItem
    /\ \A p \in Purchases : p \in Keys /\ Table[p] = Purchase
    /\ \A t \in Returns : t \in Keys /\ Table[t] = Return
  BY TablesAssumption DEF Table, Keys, Catalogue

\* No key is of two tables.
LEMMA KeysApart ==
    /\ NoKey \notin Keys
    /\ \A s \in Suppliers : s \notin Purchases /\ s \notin Returns /\ s \notin Catalogues
    /\ \A p \in Purchases : p \notin Suppliers /\ p \notin Returns /\ p \notin Catalogues
    /\ \A t \in Returns : t \notin Suppliers /\ t \notin Purchases /\ t \notin Catalogues
    /\ \A k \in Catalogues : k \notin Suppliers /\ k \notin Purchases /\ k \notin Returns
    /\ \A s \in Suppliers : Catalogue(s) \in Catalogues
    /\ Suppliers \subseteq Keys /\ Purchases \subseteq Keys /\ Returns \subseteq Keys
    /\ Catalogues \subseteq Keys
  BY TablesAssumption DEF Keys, Catalogues

LEMMA RowTypes ==
    ASSUME SessionInv(Table)
    PROVE  /\ \A s \in Suppliers : /\ db[s] \in Supplier \cup {NoRow}
                                   /\ \A r \in Requests : mine[r][s] \in Supplier \cup {NoRow}
           /\ \A p \in Purchases : /\ db[p] \in Purchase \cup {NoRow}
                                   /\ \A r \in Requests : mine[r][p] \in Purchase \cup {NoRow}
           /\ \A t \in Returns : /\ db[t] \in Return \cup {NoRow}
                                 /\ \A r \in Requests : mine[r][t] \in Return \cup {NoRow}
           /\ \A k \in Catalogues : db[k] \in SupplierItem \cup {NoRow}
  <1>1. \A k \in Keys : /\ db[k] \in Table[k] \cup {NoRow}
                        /\ \A r \in Requests : mine[r][k] \in Table[k] \cup {NoRow}
    BY TableFacts DEF SessionInv, SessionRows
  <1>2. \A k \in Catalogues : db[k] \in SupplierItem \cup {NoRow}
    <2> SUFFICES ASSUME NEW k \in Catalogues
                 PROVE  db[k] \in SupplierItem \cup {NoRow}
      OBVIOUS
    <2>1. PICK s \in Suppliers : k = Catalogue(s)
      BY DEF Catalogues
    <2>2. Table[k] = SupplierItem /\ k \in Keys
      BY <2>1, TableFacts
    <2> QED
      BY <1>1, <2>2
  <1> QED
    BY <1>1, <1>2, TableFacts

LEMMA NoRowIsNoRow ==
    /\ NoRow \notin Supplier /\ NoRow \notin SupplierItem
    /\ NoRow \notin Purchase /\ NoRow \notin Return
  BY TablesAssumption

\* The amounts that occur are numbers.
LEMMA Numbers ==
    /\ \A n \in Amounts : n \in Nat /\ n > 0
    /\ \A n \in Totals \cup Penalties \cup Openings : n \in Nat
  BY PurchasesAssumption

-----------------------------------------------------------------------------
(* What has been approved of a purchase.                                   *)

\* The returns of purchase p among the rows.
ReturnsIn(rows, p) == {t \in Returns : rows[t] # NoRow /\ rows[t].purchase = p}

\* What a session with versions own counts of return t.
Counted(rows, own, t) ==
    LET row == IF own[t] # NoRow THEN own[t] ELSE rows[t]
    IN  IF row.status = "approved" THEN row.total ELSE 0

ApprovedOf(rows, own, p) ==
    SumFunction([t \in ReturnsIn(rows, p) |-> Counted(rows, own, t)])

LEMMA ApprovedIs ==
    ASSUME NEW r, NEW p
    PROVE  Approved(r, p) = ApprovedOf(db, mine[r], p)
  BY DEF Approved, ApprovedOf, ReturnsOf, ReturnsIn, Counted, Seen

\* Rows of returns, and versions of them.
ReturnRows(rows) == \A t \in Returns : rows[t] \in Return \cup {NoRow}

LEMMA CountedType ==
    ASSUME NEW rows, ReturnRows(rows), NEW own, ReturnRows(own),
           NEW t \in Returns, rows[t] # NoRow
    PROVE  Counted(rows, own, t) \in Int
  <1> DEFINE row == IF own[t] # NoRow THEN own[t] ELSE rows[t]
  <1>1. row \in Return
    BY DEF ReturnRows
  <1>2. row.total \in Int
    BY <1>1, Numbers DEF Return
  <1> QED
    BY <1>2 DEF Counted

LEMMA ApprovedType ==
    ASSUME NEW rows, ReturnRows(rows), NEW own, ReturnRows(own), NEW p
    PROVE  /\ IsFiniteSet(ReturnsIn(rows, p))
           /\ [t \in ReturnsIn(rows, p) |-> Counted(rows, own, t)]
                 \in [ReturnsIn(rows, p) -> Int]
           /\ ApprovedOf(rows, own, p) \in Int
  <1> DEFINE S == ReturnsIn(rows, p)
             f == [t \in S |-> Counted(rows, own, t)]
  <1>1. IsFiniteSet(S)
    BY TablesAssumption, FS_Subset DEF ReturnsIn
  <1>2. f \in [S -> Int]
    BY CountedType DEF ReturnsIn
  <1>3. SumFunction(f) \in Int
    <2> HIDE DEF S, f
    <2> QED
      BY <1>1, <1>2, SumType
  <1> QED
    BY <1>1, <1>2, <1>3 DEF ApprovedOf

\* When returns come that are not approved and none is approved, no more is
\* approved than before.
LEMMA ApprovedShrinks ==
    ASSUME NEW rows, ReturnRows(rows), NEW later, ReturnRows(later), NEW own, ReturnRows(own),
           NEW p,
           \A t \in Returns : rows[t] # NoRow =>
              /\ later[t] # NoRow
              /\ later[t].purchase = rows[t].purchase /\ later[t].total = rows[t].total,
           \A t \in Returns :
              later[t] # NoRow /\ later[t].purchase = p /\ later[t].status = "approved" =>
                 rows[t] # NoRow /\ rows[t].status = "approved",
           \A t \in Returns : own[t] # NoRow => later[t] = rows[t]
    PROVE  ApprovedOf(later, own, p) <= ApprovedOf(rows, own, p)
  <1> DEFINE S == ReturnsIn(rows, p)
             T == ReturnsIn(later, p)
             f == [t \in S |-> Counted(rows, own, t)]
             g == [t \in T |-> Counted(later, own, t)]
  <1>1. IsFiniteSet(T) /\ f \in [S -> Int] /\ g \in [T -> Int]
    BY ApprovedType
  <1>2. S \subseteq T
    BY DEF ReturnsIn
  <1>3. ASSUME NEW t \in S
        PROVE  g[t] <= f[t]
    <2>1. t \in T /\ t \in Returns /\ rows[t] # NoRow /\ later[t] # NoRow /\ later[t].purchase = p
      BY <1>2 DEF ReturnsIn
    <2>2. g[t] = Counted(later, own, t) /\ f[t] = Counted(rows, own, t)
      BY <1>3, <2>1
    <2>3. f[t] \in Int /\ g[t] \in Int
      BY <1>1, <1>3, <2>1
    <2>4. CASE own[t] # NoRow
      BY <2>1, <2>2, <2>3, <2>4 DEF Counted
    <2>5. CASE own[t] = NoRow
      <3>1. rows[t] \in Return /\ rows[t].total \in Nat
        BY <2>1, Numbers DEF ReturnRows, Return
      <3>2. later[t].total = rows[t].total
        BY <2>1
      <3>3. later[t].status = "approved" => rows[t].status = "approved"
        BY <2>1
      <3>4. g[t] = IF later[t].status = "approved" THEN later[t].total ELSE 0
        BY <2>2, <2>5 DEF Counted
      <3>5. f[t] = IF rows[t].status = "approved" THEN rows[t].total ELSE 0
        BY <2>2, <2>5 DEF Counted
      <3> HIDE DEF f, g
      <3> QED
        BY <3>1, <3>2, <3>3, <3>4, <3>5
    <2> QED
      BY <2>4, <2>5
  <1>4. ASSUME NEW t \in T \ S
        PROVE  g[t] <= 0
    <2>1. /\ t \in T /\ t \in Returns /\ later[t] # NoRow /\ later[t].purchase = p
          /\ rows[t] = NoRow
      BY <1>4 DEF ReturnsIn
    <2>2. later[t].status # "approved" /\ (own[t] # NoRow => own[t].status # "approved")
      BY <2>1
    <2>3. g[t] = 0
      BY <2>1, <2>2 DEF Counted
    <2> QED
      BY <2>3
  <1>5. SumFunction(g) <= SumFunction(f)
    <2> HIDE DEF S, T, f, g
    <2> QED
      BY <1>1, <1>2, <1>3, <1>4, SumShrinks
  <1> QED
    BY <1>5 DEF ApprovedOf

-----------------------------------------------------------------------------
(* What the others do does not disturb a session.                          *)

\* The rows of the tables before and after a step of another session: none goes,
\* returns keep their purchase and their total, what session s has locked or
\* written is as it was, and no return of a purchase it has locked is approved.
RowsKept(s) ==
    /\ \A k \in Keys : db[k] # NoRow => db'[k] # NoRow
    /\ \A t \in Returns : db[t] # NoRow =>
         db'[t].purchase = db[t].purchase /\ db'[t].total = db[t].total
    /\ \A k \in Keys : k \in held[s] \/ mine[s][k] # NoRow => db'[k] = db[k]
    /\ \A t \in Returns, p \in held[s] :
         db'[t] # NoRow /\ db'[t].purchase = p /\ db'[t].status = "approved" =>
            db[t] # NoRow /\ db[t].status = "approved"

LEMMA ApprovedKept ==
    ASSUME IInv, NEW s \in Requests, RowsKept(s), SessionInv(Table)', mine'[s] = mine[s],
           NEW p \in held[s]
    PROVE  Approved(s, p)' <= Approved(s, p) /\ Approved(s, p)' \in Int /\ Approved(s, p) \in Int
  <1>1. PICK rows : rows = db
    OBVIOUS
  <1>2. PICK later : later = db'
    OBVIOUS
  <1>3. PICK own : own = mine[s]
    OBVIOUS
  <1>4. ReturnRows(rows) /\ ReturnRows(own)
    BY <1>1, <1>3, RowTypes DEF IInv, ReturnRows
  <1>5. ReturnRows(later)
    <2>1. \A t \in Returns : db'[t] \in Table[t] \cup {NoRow}
      BY TableFacts DEF SessionInv, SessionRows
    <2> QED
      BY <1>2, <2>1, TableFacts DEF ReturnRows
  <1>6. \A t \in Returns : rows[t] # NoRow =>
           /\ later[t] # NoRow
           /\ later[t].purchase = rows[t].purchase /\ later[t].total = rows[t].total
    BY <1>1, <1>2, KeysApart DEF RowsKept
  <1>7. \A t \in Returns :
           later[t] # NoRow /\ later[t].purchase = p /\ later[t].status = "approved" =>
              rows[t] # NoRow /\ rows[t].status = "approved"
    BY <1>1, <1>2 DEF RowsKept
  <1>8. \A t \in Returns : own[t] # NoRow => later[t] = rows[t]
    BY <1>1, <1>2, <1>3, KeysApart DEF RowsKept
  <1>9. ApprovedOf(later, own, p) <= ApprovedOf(rows, own, p)
    BY <1>4, <1>5, <1>6, <1>7, <1>8, ApprovedShrinks
  <1>10. ApprovedOf(later, own, p) \in Int /\ ApprovedOf(rows, own, p) \in Int
    BY <1>4, <1>5, ApprovedType
  <1>11. Approved(s, p) = ApprovedOf(rows, own, p)
    BY <1>1, <1>3, ApprovedIs
  <1>12. Approved(s, p)' = ApprovedOf(later, own, p)
    BY <1>2, <1>3 DEF Approved, ApprovedOf, ReturnsOf, ReturnsIn, Counted, Seen
  <1> QED
    BY <1>9, <1>10, <1>11, <1>12

LEMMA Undisturbed ==
    ASSUME IInv, NEW s \in Requests, RowsKept(s), SessionInv(Table)',
           job'[s] = job[s], mine'[s] = mine[s], held'[s] = held[s]
    PROVE  RequestOK(s)'
  <1>1. RequestOK(s) /\ RowsRefer /\ job[s] \in JobRec
    BY DEF IInv
  <1>2. /\ \A p \in Purchases : db[p] \in Purchase \cup {NoRow}
        /\ \A p \in Purchases : mine[s][p] \in Purchase \cup {NoRow}
        /\ \A t \in Returns : db[t] \in Return \cup {NoRow}
        /\ \A t \in Returns : mine[s][t] \in Return \cup {NoRow}
    BY RowTypes DEF IInv
  <1>3. job[s].dues \in Seq(DueRec)
    BY <1>1 DEF JobRec
  <1>4. VersionsOK(s)'
    <2>1. ASSUME NEW p \in Purchases, mine[s][p] # NoRow
          PROVE  /\ db'[mine[s][p].supplier] # NoRow /\ db'[p] = db[p]
      <3>1. mine[s][p].supplier \in Suppliers
        BY <1>2, <2>1 DEF Purchase
      <3>2. db[mine[s][p].supplier] # NoRow
        BY <1>1, <2>1 DEF RequestOK, VersionsOK, Known
      <3> QED
        BY <2>1, <3>1, <3>2, KeysApart DEF RowsKept
    <2>2. ASSUME NEW t \in Returns, mine[s][t] # NoRow
          PROVE  db'[mine[s][t].purchase] # NoRow /\ db'[t] = db[t]
      <3>1. mine[s][t].purchase \in Purchases
        BY <1>2, <2>2 DEF Return
      <3>2. db[mine[s][t].purchase] # NoRow
        BY <1>1, <2>2 DEF RequestOK, VersionsOK
      <3> QED
        BY <2>2, <3>1, <3>2, KeysApart DEF RowsKept
    <2>3. ASSUME NEW k \in Suppliers \cup Catalogues, mine[s][k] # NoRow
          PROVE  db'[k] # NoRow
      BY <1>1, <2>3, KeysApart DEF RequestOK, VersionsOK, RowsKept
    <2>4. VersionsOK(s)
      BY <1>1 DEF RequestOK
    <2> QED
      BY <2>1, <2>2, <2>3, <2>4 DEF VersionsOK, Dead, Known
  <1>5. KeyOK(s)'
    <2>1. KeyOK(s)
      BY <1>1 DEF RequestOK
    <2>2. job[s].op \in {"update", "void", "pay", "approve", "reject", "refund",
                        "supplierPay", "deleteSupplier", "updateSupplier"} => job[s].key \in Keys
      BY <2>1, KeysApart DEF KeyOK
    <2> QED
      BY <2>1, <2>2 DEF KeyOK, RowsKept
  <1>6. ReadOK(s)'
    <2>1. ASSUME NEW i \in 1 .. Len(job[s].dues)
          PROVE  db'[job[s].dues[i].supplier] # NoRow
      <3>1. job[s].dues[i] \in DueRec
        BY <1>3
      <3>2. job[s].dues[i].supplier \in Keys
        BY <3>1, KeysApart DEF DueRec
      <3> QED
        BY <1>1, <3>2 DEF RequestOK, ReadOK, RowsKept
    <2> QED
      BY <1>1, <2>1 DEF RequestOK, ReadOK, At
  <1>7. LocksOK(s)'
    BY <1>1 DEF RequestOK, LocksOK
  <1>8. PayOK(s)'
    <2>1. ASSUME NEW t \in Suppliers, MoneyOK(s, t)
          PROVE  MoneyOK(s, t)'
      <3>1. t \in held[s] => db'[t] = db[t]
        BY KeysApart DEF RowsKept
      <3> QED
        BY <2>1, <3>1 DEF MoneyOK, Moved
    <2>2. PayOK(s) /\ KeyOK(s)
      BY <1>1 DEF RequestOK
    <2>3. ASSUME At(s, "refund", "done")
          PROVE  /\ db'[job[s].key].purchase = db[job[s].key].purchase
                 /\ db[job[s].key].purchase \in held[s]
                 /\ db'[db[job[s].key].purchase] = db[db[job[s].key].purchase]
      <3>1. /\ job[s].key \in Returns /\ db[job[s].key] # NoRow
            /\ db[job[s].key].purchase \in held[s]
        BY <2>2, <2>3 DEF PayOK, KeyOK, At
      <3>2. db[job[s].key].purchase \in Keys
        BY <1>2, <3>1, KeysApart DEF Return
      <3> QED
        BY <3>1, <3>2 DEF RowsKept
    <2> QED
      BY <2>1, <2>2, <2>3 DEF PayOK, At
  <1>9. ApproveOK(s)'
    <2>1. ApproveOK(s) /\ KeyOK(s)
      BY <1>1 DEF RequestOK
    <2>2. ASSUME At(s, "approve", "done"), NEW p \in Purchases,
                 p = db'[job[s].key].purchase
          PROVE  /\ p \in held[s]
                 /\ IF mine[s][p] # NoRow THEN mine[s][p].status = "returned"
                    ELSE Approved(s, p)' < db'[p].total
      <3>1. job[s].key \in Returns /\ db[job[s].key] # NoRow
        BY <2>1, <2>2 DEF KeyOK, At
      <3>2. p = db[job[s].key].purchase
        BY <2>2, <3>1 DEF RowsKept
      <3>3. /\ p \in held[s]
            /\ IF mine[s][p] # NoRow THEN mine[s][p].status = "returned"
               ELSE Approved(s, p) < db[p].total
        BY <2>1, <2>2, <3>2 DEF ApproveOK
      <3>4. Approved(s, p)' <= Approved(s, p) /\ Approved(s, p)' \in Int /\ Approved(s, p) \in Int
        BY <3>3, ApprovedKept
      <3>5. db'[p] = db[p] /\ db[p] \in Purchase
        <4>1. db[p] # NoRow
          BY <1>1, <3>1, <3>2 DEF RowsRefer
        <4> QED
          BY <1>2, <3>3, <4>1, KeysApart DEF RowsKept
      <3>6. db[p].total \in Nat
        BY <3>5 DEF Purchase
      <3> QED
        BY <3>3, <3>4, <3>5, <3>6
    <2> QED
      BY <2>1, <2>2 DEF ApproveOK, At
  <1> QED
    BY <1>4, <1>5, <1>6, <1>7, <1>8, <1>9 DEF RequestOK

\* A step of session r leaves the others as they were.
LEMMA SessionStep ==
    ASSUME IInv, NEW r \in Requests, SessionInv(Table)', job' \in [Requests -> JobRec],
           \A s \in Requests \ {r} :
              job'[s] = job[s] /\ mine'[s] = mine[s] /\ held'[s] = held[s] /\ RowsKept(s),
           RowsRefer', RequestOK(r)'
    PROVE  IInv'
  <1>1. \A s \in Requests \ {r} : RequestOK(s)'
    BY Undisturbed
  <1> QED
    BY <1>1 DEF IInv

\* The same, of a step that commits nothing.
LEMMA LocalStep ==
    ASSUME IInv, NEW r \in Requests, job' \in [Requests -> JobRec], OthersWait(r),
           db' = db, SessionInv(Table)',
           \A s \in Requests \ {r} : mine'[s] = mine[s] /\ held'[s] = held[s],
           RequestOK(r)'
    PROVE  IInv'
  <1>1. \A s \in Requests : RowsKept(s)
    BY DEF RowsKept
  <1>2. RowsRefer'
    BY DEF IInv, RowsRefer, Known
  <1> QED
    BY <1>1, <1>2, SessionStep DEF OthersWait

-----------------------------------------------------------------------------
(* Requests that begin, and steps of one session.                          *)

\* All that RequestOK says but of the versions.
JobOK(r) == KeyOK(r) /\ ReadOK(r) /\ LocksOK(r) /\ PayOK(r) /\ ApproveOK(r)

\* The session begins a request or goes on with the one it has.
SameRequest(r) == ~Open(r) \/ (job'[r].op = job[r].op /\ job'[r].key = job[r].key)

\* What there is to know of the rows and of session r.
LEMMA Facts ==
    ASSUME IInv, NEW r \in Requests
    PROVE  /\ SessionInv(Table) /\ RowsRefer /\ job[r] \in JobRec
           /\ VersionsOK(r) /\ JobOK(r)
           /\ Suppliers \subseteq Keys /\ Purchases \subseteq Keys /\ Returns \subseteq Keys
           /\ DOMAIN db = Keys /\ DOMAIN mine[r] = Keys /\ DOMAIN Table = Keys
           /\ arrived \in 0 .. MaxArrivals
           /\ held[r] \subseteq Keys
           /\ ~Open(r) => held[r] = {} /\ \A k \in Keys : mine[r][k] = NoRow
  <1>1. SessionInv(Table) /\ DOMAIN Table = Keys
    BY TableFacts DEF IInv
  <1>2. /\ DOMAIN db = Keys /\ DOMAIN mine[r] = Keys /\ held[r] \subseteq Keys
        /\ arrived \in 0 .. MaxArrivals
    BY <1>1 DEF SessionInv, SessionRows
  <1>3. ~Open(r) => held[r] = {} /\ \A k \in Keys : mine[r][k] = NoRow
    BY <1>1, <1>2 DEF SessionInv, SessionLocks
  <1>4. /\ RowsRefer /\ job[r] \in JobRec
        /\ VersionsOK(r) /\ JobOK(r)
    BY DEF IInv, RequestOK, JobOK
  <1> QED
    BY <1>1, <1>2, <1>3, <1>4, KeysApart

LEMMA NewJob ==
    ASSUME NEW op, NEW k \in Keys, Job(op, k).op \in Ops
    PROVE  /\ op \in Ops /\ Job(op, k) \in JobRec
           /\ Job(op, k).op = op /\ Job(op, k).key = k /\ Job(op, k).step = "done"
           /\ Job(op, k).dues = <<>> /\ Job(op, k).amount = 0
           /\ Job(op, k).keptOf = NoKey /\ Job(op, k).kept = NoRow
  <1>1. NoJob \in JobRec
    BY DEF JobRec, NoJob
  <1>2. Job(op, k).op = op /\ Job(op, k).key = k /\ Job(op, k).step = "done"
    BY DEF NoJob, Job
  <1>3. /\ Job(op, k).dues = <<>> /\ Job(op, k).amount = 0
        /\ Job(op, k).keptOf = NoKey /\ Job(op, k).kept = NoRow
    BY DEF NoJob, Job
  <1>4. Job(op, k) \in JobRec
    BY <1>1, <1>2 DEF JobRec, Job
  <1> QED
    BY <1>2, <1>3, <1>4

\* A request begins in a session that is clean.
LEMMA Begun ==
    ASSUME IInv, NEW r \in Requests, NEW j \in JobRec, Begin(r, j)
    PROVE  /\ job' \in [Requests -> JobRec] /\ job'[r] = j /\ j.op \in Ops /\ j.op # "none"
           /\ Open(r)' /\ OthersWait(r) /\ arrived' \in 0 .. MaxArrivals /\ SameRequest(r)
           /\ ~Open(r) /\ held[r] = {} /\ \A k \in Keys : mine[r][k] = NoRow
  <1>1. job' \in [Requests -> JobRec] /\ job'[r] = j /\ j.op \in Ops /\ ~Open(r)
    BY DEF Begin, IInv
  <1>2. j.op # "none"
    BY <1>1, SessionsAssumption
  <1>3. Open(r)' /\ OthersWait(r) /\ arrived' \in 0 .. MaxArrivals
    BY <1>1, <1>2, Facts, SessionsAssumption DEF Begin, Open, OthersWait
  <1> QED
    BY <1>1, <1>2, <1>3, Facts DEF SameRequest

\* Nothing has been written or published.
LEMMA SameVersions ==
    ASSUME IInv, NEW r \in Requests, SameRequest(r), UNCHANGED <<db, mine>>
    PROVE  VersionsOK(r)'
  <1>1. CASE ~Open(r)
    <2>1. \A k \in Suppliers \cup Purchases \cup Returns \cup Catalogues : mine'[r][k] = NoRow
      BY <1>1, Facts, KeysApart
    <2> QED
      BY <2>1 DEF VersionsOK
  <1>2. CASE job'[r].op = job[r].op /\ job'[r].key = job[r].key
    BY <1>2, Facts DEF VersionsOK, Known
  <1> QED
    BY <1>1, <1>2 DEF SameRequest

\* A step that only changes what the session remembers.
LEMMA QuietStep ==
    ASSUME IInv, NEW r \in Requests, job' \in [Requests -> JobRec], OthersWait(r), Open(r)',
           SameRequest(r), arrived' \in 0 .. MaxArrivals, UNCHANGED <<db, mine, held>>,
           JobOK(r)'
    PROVE  IInv'
  <1>1. SessionInv(Table)'
    BY Facts, JobStep
  <1> QED
    BY <1>1, SameVersions, LocalStep DEF RequestOK, JobOK

\* A request that only reads at first.
LEMMA BeginStep ==
    ASSUME IInv, NEW r \in Requests, NEW j \in JobRec, Begin(r, j),
           UNCHANGED <<db, mine, held>>, JobOK(r)'
    PROVE  IInv'
  BY Begun, QuietStep

\* SELECT ... FOR UPDATE, by session r.
LEMMA LockStep ==
    ASSUME IInv, NEW r \in Requests, job' \in [Requests -> JobRec], OthersWait(r), Open(r)',
           SameRequest(r), UNCHANGED <<db, mine, arrived>>,
           NEW k \in Keys, db[k] # NoRow, Free(r, k), Hold(r, k), JobOK(r)'
    PROVE  IInv'
  <1>1. SessionInv(Table)'
    BY Facts, HoldStep
  <1>2. \A s \in Requests \ {r} : mine'[s] = mine[s] /\ held'[s] = held[s]
    BY Facts DEF Hold, SessionInv, SessionRows
  <1> QED
    BY <1>1, <1>2, SameVersions, LocalStep DEF RequestOK, JobOK

\* A handler goes on.
LEMMA Resumed ==
    ASSUME IInv, NEW r \in Requests, NEW j \in JobRec, job' = [job EXCEPT ![r] = j]
    PROVE  job' \in [Requests -> JobRec] /\ job'[r] = j /\ OthersWait(r)
  BY DEF IInv, OthersWait

LEMMA NextStep ==
    ASSUME IInv, NEW r \in Requests, Open(r), NEW step \in {"mark", "done"},
           job' = [job EXCEPT ![r].step = step], arrived' = arrived
    PROVE  /\ job' \in [Requests -> JobRec] /\ OthersWait(r) /\ SameRequest(r) /\ Open(r)'
           /\ job'[r].step = step
           /\ job'[r].op = job[r].op /\ job'[r].key = job[r].key
           /\ job'[r].dues = job[r].dues /\ job'[r].amount = job[r].amount
           /\ job'[r].keptOf = job[r].keptOf /\ job'[r].kept = job[r].kept
           /\ arrived' \in 0 .. MaxArrivals
  <1> DEFINE j == [job[r] EXCEPT !.step = step]
  <1>1. job[r] \in JobRec /\ job' = [job EXCEPT ![r] = j] /\ arrived \in 0 .. MaxArrivals
    BY Facts
  <1>2. /\ j \in JobRec /\ j.step = step
        /\ j.op = job[r].op /\ j.key = job[r].key /\ j.dues = job[r].dues
        /\ j.amount = job[r].amount
        /\ j.keptOf = job[r].keptOf /\ j.kept = job[r].kept
    BY <1>1 DEF JobRec
  <1> HIDE DEF j
  <1>3. job' \in [Requests -> JobRec] /\ job'[r] = j /\ OthersWait(r)
    BY <1>1, <1>2, Resumed
  <1> QED
    BY <1>1, <1>2, <1>3 DEF Open, SameRequest

\* What may be written over a row by the request that session r has then.
MayReplace(r, k, row) ==
    /\ k \in Purchases =>
         /\ db[row.supplier] # NoRow
         /\ Dead(db[k]) => Dead(row)
         /\ \/ row.paid = db[k].paid
            \/ job'[r].op = "pay"
            \/ job'[r].op = "update" /\ job'[r].key = k
    /\ k \in Returns =>
         /\ row.purchase = db[k].purchase /\ row.total = db[k].total
         /\ row.status = "approved" =>
              \/ db[k].status = "approved"
              \/ job'[r].op = "approve" /\ job'[r].key = k

\* A flush of a row that is there, by session r.
LEMMA FlushStep ==
    ASSUME IInv, NEW r \in Requests, job' \in [Requests -> JobRec], OthersWait(r), Open(r)',
           SameRequest(r), arrived' \in 0 .. MaxArrivals, db' = db,
           NEW k \in Keys, NEW row \in Table[k], db[k] # NoRow, Free(r, k), Write(r, k, row),
           MayReplace(r, k, row), JobOK(r)'
    PROVE  IInv'
  <1>2. SessionInv(Table)'
    BY Facts, WriteStep
  <1>3. /\ mine'[r][k] = row /\ \A q \in Keys \ {k} : mine'[r][q] = mine[r][q]
        /\ \A s \in Requests \ {r} : mine'[s] = mine[s] /\ held'[s] = held[s]
    BY Facts, Written
  <1>4. ASSUME NEW q \in Keys \ {k}, mine'[r][q] # NoRow
        PROVE  /\ mine'[r][q] = mine[r][q] /\ mine[r][q] # NoRow
               /\ job'[r].op = job[r].op /\ job'[r].key = job[r].key
    BY <1>3, <1>4, Facts DEF SameRequest
  <1>5. ASSUME NEW p \in Purchases, mine'[r][p] # NoRow
        PROVE  /\ db[mine'[r][p].supplier] # NoRow
               /\ db[p] # NoRow =>
                    /\ Dead(db[p]) => Dead(mine'[r][p])
                    /\ \/ mine'[r][p].paid = db[p].paid
                       \/ job'[r].op = "pay"
                       \/ job'[r].op = "update" /\ job'[r].key = p
    <2>1. CASE p = k
      BY <1>3, <2>1 DEF MayReplace
    <2>2. CASE p # k
      BY <1>4, <1>5, <2>2, Facts, KeysApart DEF VersionsOK, Known
    <2> QED
      BY <2>1, <2>2
  <1>6. ASSUME NEW t \in Returns, mine'[r][t] # NoRow
        PROVE  /\ db[mine'[r][t].purchase] # NoRow
               /\ db[t] # NoRow => /\ mine'[r][t].purchase = db[t].purchase
                                   /\ mine'[r][t].total = db[t].total
               /\ mine'[r][t].status = "approved" =>
                    \/ db[t] # NoRow /\ db[t].status = "approved"
                    \/ job'[r].op = "approve" /\ job'[r].key = t
    <2>1. CASE t = k
      BY <1>3, <2>1, Facts DEF MayReplace, RowsRefer
    <2>2. CASE t # k
      BY <1>4, <1>6, <2>2, Facts, KeysApart DEF VersionsOK
    <2> QED
      BY <2>1, <2>2
  <1>7. ASSUME NEW q \in Suppliers \cup Catalogues, mine'[r][q] # NoRow
        PROVE  db[q] # NoRow
    <2>1. CASE q = k
      BY <2>1
    <2>2. CASE q # k
      BY <1>4, <1>7, <2>2, Facts, KeysApart DEF VersionsOK
    <2> QED
      BY <2>1, <2>2
  <1>8. VersionsOK(r)'
    BY <1>5, <1>6, <1>7 DEF VersionsOK, Dead, Known
  <1> QED
    BY <1>2, <1>3, <1>8, LocalStep DEF RequestOK, JobOK

-----------------------------------------------------------------------------
(* Suppliers.                                                              *)

\* A new supplier is nobody's concern.
LEMMA CreateSupplierKept ==
    ASSUME IInv, NEW r \in Requests, NEW s \in Suppliers, NEW body \in SupplierCreate,
           CreateSupplier(s, body)
    PROVE  IInv'
  <1> DEFINE row == [opening |-> body.opening_balance, balance |-> body.opening_balance,
                     balance_type |-> body.balance_type, paid_out |-> 0, active |-> TRUE]
             item == [sells |-> body.items]
             c == Catalogue(s)
  <1>1. /\ db[s] = NoRow /\ db' = [db EXCEPT ![s] = row, ![c] = item]
        /\ UNCHANGED <<job, mine, held, arrived>>
    BY DEF CreateSupplier
  <1>2. row \in Supplier /\ row # NoRow /\ item \in SupplierItem /\ item # NoRow
    <2>1. /\ body.opening_balance \in Openings /\ body.opening_balance \in Nat
          /\ body.balance_type \in {"receivable", "payable"} /\ body.items \in BOOLEAN
      BY Numbers DEF SupplierCreate
    <2>2. row \in Supplier /\ item \in SupplierItem
      BY <2>1 DEF Supplier, SupplierItem
    <2> QED
      BY <2>2, NoRowIsNoRow
  <1> HIDE DEF row, item
  <1>3. /\ s \in Keys /\ c \in Keys /\ s # c /\ c \in Catalogues
        /\ Table[s] = Supplier /\ Table[c] = SupplierItem /\ DOMAIN Table = Keys
    BY TableFacts, KeysApart
  <1> HIDE DEF c
  <1>4. db[c] = NoRow
    BY <1>1, Facts DEF RowsRefer, c
  <1>5. \A u \in Requests : /\ mine[u][s] = NoRow /\ mine[u][c] = NoRow
                            /\ s \notin held[u] /\ c \notin held[u]
    BY <1>1, <1>3, <1>4, Facts DEF VersionsOK, SessionInv, SessionLocks
  <1>6. /\ db'[s] = row /\ db'[c] = item /\ \A k \in Keys \ {s, c} : db'[k] = db[k]
        /\ db' \in [Keys -> RowsOf(Table)]
    <2>1. db \in [Keys -> RowsOf(Table)] /\ row \in RowsOf(Table) /\ item \in RowsOf(Table)
      BY <1>2, <1>3, Facts, RowsOfTable DEF SessionInv, SessionRows
    <2> QED
      BY <1>1, <1>3, <2>1
  <1>7. SessionInv(Table)'
    <2>1. Unused(s) /\ Unused(c) /\ db'[s] \in Table[s] /\ db'[c] \in Table[c]
      BY <1>1, <1>2, <1>3, <1>4, <1>5, <1>6 DEF Unused
    <2>2. \A k \in Keys : db'[k] = db[k] \/ (Unused(k) /\ db'[k] \in Table[k])
      BY <1>6, <2>1
    <2>3. SessionInv(Table) /\ UNCHANGED <<job, mine, held, arrived>>
      BY <1>1, Facts
    <2>4. db' \in [DOMAIN Table -> RowsOf(Table)]
      BY <1>3, <1>6
    <2> QED
      BY <1>3, <2>2, <2>3, <2>4, CreateStep
  <1>8. \A k \in Keys : db[k] # NoRow => db'[k] = db[k]
    BY <1>1, <1>4, <1>6
  <1>9. \A k \in Purchases \cup Returns : k \in Keys /\ db'[k] = db[k]
    BY <1>3, <1>6, KeysApart
  <1>10. \A u \in Requests : RowsKept(u)
    BY <1>5, <1>6, <1>8, <1>9, KeysApart DEF RowsKept
  <1>11. RowsRefer'
    <2>1. ASSUME NEW p \in Purchases, db'[p] # NoRow
          PROVE  db'[db'[p].supplier] # NoRow
      <3>1. db[p] \in Purchase /\ db[db[p].supplier] # NoRow
        BY <1>9, <2>1, Facts, RowTypes DEF RowsRefer, Known
      <3>2. db[p].supplier \in Keys
        BY <3>1, KeysApart DEF Purchase
      <3> QED
        BY <1>8, <1>9, <3>1, <3>2
    <2>2. ASSUME NEW t \in Returns, db'[t] # NoRow
          PROVE  db'[db'[t].purchase] # NoRow
      <3>1. db[t] \in Return /\ db[db[t].purchase] # NoRow
        BY <1>9, <2>2, Facts, RowTypes DEF RowsRefer
      <3>2. db[t].purchase \in Keys
        BY <3>1, KeysApart DEF Return
      <3> QED
        BY <1>8, <1>9, <3>1, <3>2
    <2>3. ASSUME NEW u \in Suppliers
          PROVE  db'[u] # NoRow <=> db'[Catalogue(u)] # NoRow
      <3>1. CASE u = s
        BY <1>2, <1>6, <3>1 DEF c
      <3>2. CASE u # s
        <4>1. Catalogue(u) # c
          BY <3>2 DEF c, Catalogue
        <4>2. u \in Keys /\ Catalogue(u) \in Keys /\ u # c /\ Catalogue(u) # s
          BY <1>3, KeysApart, TableFacts
        <4> QED
          BY <1>6, <3>2, <4>1, <4>2, Facts DEF RowsRefer
      <3> QED
        BY <3>1, <3>2
    <2> QED
      BY <2>1, <2>2, <2>3 DEF RowsRefer, Known
  <1>12. job' \in [Requests -> JobRec] /\ RequestOK(r)'
    BY <1>1, <1>7, <1>10, Undisturbed DEF IInv
  <1> QED
    BY <1>1, <1>7, <1>10, <1>11, <1>12, SessionStep

\* A request of one flush has nothing more to do.
LEMMA PlainJob ==
    ASSUME NEW r, job'[r].step = "done", job'[r].dues = <<>>, job'[r].keptOf = NoKey,
           job'[r].op \in {"return", "reject", "updateSupplier", "deleteSupplier"}, KeyOK(r)'
    PROVE  JobOK(r)'
  BY DEF JobOK, ReadOK, LocksOK, PayOK, ApproveOK, At

LEMMA UpdateSupplierKept ==
    ASSUME IInv, NEW r \in Requests, NEW s \in Suppliers, NEW sells \in BOOLEAN,
           UpdateSupplier(r, s, sells)
    PROVE  IInv'
  <1> DEFINE c == Catalogue(s)
             j == [Job("updateSupplier", c) EXCEPT
                     !.step = "write", !.loaded = db[c], !.new = [sells |-> sells]]
  <1>1. db[s] # NoRow /\ Begin(r, j) /\ UNCHANGED <<db, mine, held>>
    BY DEF UpdateSupplier, ActiveSupplier
  <1>2. c \in Keys /\ c \in Catalogues /\ db[c] # NoRow /\ db[c] \in SupplierItem
    <2>1. c \in Catalogues /\ c \in Keys /\ db[c] # NoRow
      BY <1>1, TableFacts, KeysApart, Facts DEF RowsRefer
    <2> QED
      BY <2>1, RowTypes DEF IInv
  <1> HIDE DEF c
  <1>3. Job("updateSupplier", c).op \in Ops
    BY <1>1 DEF Begin, Job, NoJob
  <1>4. /\ j \in JobRec /\ j.op = "updateSupplier" /\ j.key = c /\ j.step = "write"
        /\ j.dues = <<>> /\ j.keptOf = NoKey /\ j.new \in SupplierItem
    <2>1. /\ Job("updateSupplier", c) \in JobRec
          /\ Job("updateSupplier", c).op = "updateSupplier"
          /\ Job("updateSupplier", c).key = c
          /\ Job("updateSupplier", c).dues = <<>> /\ Job("updateSupplier", c).keptOf = NoKey
      BY <1>2, <1>3, NewJob
    <2>2. [sells |-> sells] \in SupplierItem
      BY DEF SupplierItem
    <2> QED
      BY <1>2, <2>1, <2>2 DEF JobRec
  <1> HIDE DEF j
  <1>5. job'[r] = j /\ held[r] = {}
    BY <1>1, <1>4, Begun
  <1>6. JobOK(r)'
    BY <1>1, <1>2, <1>4, <1>5 DEF JobOK, KeyOK, ReadOK, LocksOK, PayOK, ApproveOK, At
  <1> QED
    BY <1>1, <1>4, <1>6, BeginStep

LEMMA ReplaceItemsKept ==
    ASSUME IInv, NEW r \in Requests, ReplaceItems(r)
    PROVE  IInv'
  <1> DEFINE k == job[r].key
             row == job[r].new
  <1>1. /\ At(r, "updateSupplier", "write") /\ Free(r, k) /\ Write(r, k, row)
        /\ job' = [job EXCEPT ![r].step = "done"] /\ UNCHANGED <<db, arrived>>
    BY DEF ReplaceItems
  <1>2. k \in Catalogues /\ db[k] # NoRow /\ row \in SupplierItem
    BY <1>1, Facts DEF JobOK, KeyOK, ReadOK, At
  <1>3. k \in Keys /\ row \in Table[k] /\ k \notin Purchases /\ k \notin Returns
    <2>1. PICK s \in Suppliers : k = Catalogue(s)
      BY <1>2 DEF Catalogues
    <2> QED
      BY <1>2, <2>1, TableFacts, KeysApart
  <1>4. job[r].op = "updateSupplier" /\ job[r].dues = <<>> /\ job[r].keptOf = NoKey
    BY <1>1, Facts DEF JobOK, LocksOK, ReadOK, At
  <1>5. /\ job' \in [Requests -> JobRec] /\ OthersWait(r) /\ job'[r].op = "updateSupplier"
        /\ job'[r].key = k /\ job'[r].dues = <<>> /\ job'[r].step = "done"
        /\ job'[r].keptOf = NoKey
        /\ Open(r)' /\ SameRequest(r) /\ arrived' \in 0 .. MaxArrivals
    <2>1. Open(r) /\ job' = [job EXCEPT ![r].step = "done"] /\ arrived' = arrived
      BY <1>1, <1>4 DEF Open
    <2> QED
      BY <1>4, <2>1, NextStep
  <1>6. JobOK(r)'
    BY <1>1, <1>2, <1>5, PlainJob DEF KeyOK
  <1>7. MayReplace(r, k, row)
    BY <1>3 DEF MayReplace
  <1> QED
    BY <1>1, <1>2, <1>3, <1>5, <1>6, <1>7, FlushStep

LEMMA DeleteSupplierKept ==
    ASSUME IInv, NEW r \in Requests, NEW s \in Suppliers, DeleteSupplier(r, s)
    PROVE  IInv'
  <1> DEFINE j == Job("deleteSupplier", s)
             row == [db[s] EXCEPT !.active = FALSE]
  <1>1. db[s] \in Supplier /\ db[s] # NoRow /\ row \in Table[s] /\ s \in Keys
    <2>1. db[s] # NoRow
      BY DEF DeleteSupplier, ActiveSupplier
    <2>2. db[s] \in Supplier
      BY <2>1, RowTypes DEF IInv
    <2> QED
      BY <2>1, <2>2, TableFacts DEF Supplier
  <1>2. Begin(r, j) /\ Free(r, s) /\ Write(r, s, row) /\ db' = db /\ j.op \in Ops
    BY DEF DeleteSupplier, Begin
  <1>3. /\ j \in JobRec /\ j.op = "deleteSupplier" /\ j.key = s /\ j.step = "done"
        /\ j.dues = <<>> /\ j.keptOf = NoKey
    BY <1>1, <1>2, NewJob
  <1> HIDE DEF j, row
  <1>4. /\ job' \in [Requests -> JobRec] /\ job'[r] = j /\ Open(r)' /\ OthersWait(r)
        /\ arrived' \in 0 .. MaxArrivals /\ SameRequest(r)
    BY <1>2, <1>3, Begun
  <1>5. JobOK(r)'
    BY <1>1, <1>2, <1>3, <1>4, PlainJob DEF KeyOK
  <1>6. MayReplace(r, s, row)
    BY KeysApart DEF MayReplace
  <1> QED
    BY <1>1, <1>2, <1>4, <1>5, <1>6, FlushStep

LEMMA DueType ==
    ASSUME NEW s \in Suppliers, NEW n \in Int
    PROVE  /\ Due(s, n) = <<[supplier |-> s, delta |-> n]>>
           /\ Due(s, n) \in Seq(DueRec) /\ Due(s, n) # <<>> /\ Len(Due(s, n)) = 1
           /\ Head(Due(s, n)).supplier = s /\ Due(s, n)[1].supplier = s
  <1>1. [supplier |-> s, delta |-> n] \in DueRec
    BY DEF DueRec
  <1> QED
    BY <1>1 DEF Due

\* What is due to one supplier who exists.
DuesOf(dues, s) ==
    /\ dues \in Seq(DueRec)
    /\ \A i \in 1 .. Len(dues) : dues[i].supplier = s

LEMMA DuesOfOne ==
    ASSUME NEW s, NEW dues, DuesOf(dues, s), dues # <<>>
    PROVE  /\ Head(dues).supplier = s
           /\ \A i \in 1 .. Len(dues) : dues[i].supplier = Head(dues).supplier
  BY DEF DuesOf

LEMMA RecordSupplierPaymentKept ==
    ASSUME IInv, NEW r \in Requests, NEW s \in Suppliers, NEW amount \in Amounts,
           RecordSupplierPayment(r, s, amount)
    PROVE  IInv'
  <1> DEFINE dues == Due(s, - amount)
             j == [Job("supplierPay", s) EXCEPT !.amount = amount, !.dues = dues]
  <1>1. /\ db[s] # NoRow /\ Begin(r, j) /\ UNCHANGED <<db, mine, held>>
        /\ Job("supplierPay", s).op \in Ops
    BY DEF RecordSupplierPayment, Begin, Job, NoJob
  <1>2. amount \in Nat /\ s \in Keys
    BY Numbers, KeysApart
  <1>3. /\ dues = <<[supplier |-> s, delta |-> - amount]>> /\ dues \in Seq(DueRec)
        /\ Len(dues) = 1 /\ dues[1].supplier = s /\ Head(dues).supplier = s
    BY <1>2, DueType
  <1> HIDE DEF dues
  <1>4. /\ j \in JobRec /\ j.op = "supplierPay" /\ j.key = s /\ j.step = "done"
        /\ j.keptOf = NoKey /\ j.amount = amount /\ j.dues = dues
    <2>1. /\ Job("supplierPay", s) \in JobRec /\ Job("supplierPay", s).key = s
          /\ Job("supplierPay", s).op = "supplierPay"
          /\ Job("supplierPay", s).step = "done" /\ Job("supplierPay", s).keptOf = NoKey
      BY <1>1, <1>2, NewJob
    <2> QED
      BY <1>2, <1>3, <2>1 DEF JobRec
  <1> HIDE DEF j
  <1>5. job'[r] = j /\ held[r] = {} /\ \A k \in Keys : mine'[r][k] = NoRow
    BY <1>1, <1>4, Begun
  <1>6. KeyOK(r)' /\ ReadOK(r)' /\ LocksOK(r)'
    <2>1. \A i \in 1 .. Len(dues) : dues[i].supplier = s
      BY <1>3
    <2> QED
      BY <1>1, <1>3, <1>4, <1>5, <2>1 DEF KeyOK, ReadOK, LocksOK, At
  <1>7. PayOK(r)' /\ ApproveOK(r)'
    <2>1. MoneyOK(r, s)'
      BY <1>2, <1>3, <1>4, <1>5 DEF MoneyOK
    <2>2. \A p \in Purchases : mine'[r][p] = NoRow
      BY <1>5, KeysApart
    <2> QED
      BY <1>4, <1>5, <2>1, <2>2 DEF PayOK, ApproveOK, At
  <1> QED
    BY <1>1, <1>4, <1>6, <1>7, BeginStep DEF JobOK

\* The supplier of the next change of a balance.
LEMMA NextDue ==
    ASSUME IInv, NEW r \in Requests, job[r].dues # <<>>
    PROVE  /\ Head(job[r].dues) \in DueRec /\ Tail(job[r].dues) \in Seq(DueRec)
           /\ Head(job[r].dues).supplier \in Suppliers /\ Head(job[r].dues).delta \in Int
           /\ db[Head(job[r].dues).supplier] \in Supplier
           /\ \A i \in 1 .. Len(Tail(job[r].dues)) :
                 db[Tail(job[r].dues)[i].supplier] # NoRow
           /\ job[r].op \notin {"none", "approve", "reject"}
           /\ job[r].op # "void" => \A i \in 1 .. Len(Tail(job[r].dues)) :
                 Tail(job[r].dues)[i].supplier = Head(job[r].dues).supplier
  <1>1. job[r].dues \in Seq(DueRec)
    BY Facts DEF JobRec
  <1>2. Head(job[r].dues) \in DueRec /\ Tail(job[r].dues) \in Seq(DueRec)
    BY <1>1
  <1>3. /\ \A i \in 1 .. Len(job[r].dues) : db[job[r].dues[i].supplier] # NoRow
        /\ job[r].op # "void" => \A i \in 1 .. Len(job[r].dues) :
              job[r].dues[i].supplier = Head(job[r].dues).supplier
    BY Facts DEF JobOK, ReadOK, LocksOK
  <1>4. Head(job[r].dues) = job[r].dues[1] /\ Len(job[r].dues) >= 1
    BY <1>1
  <1>5. \A i \in 1 .. Len(Tail(job[r].dues)) :
           i + 1 \in 1 .. Len(job[r].dues) /\ Tail(job[r].dues)[i] = job[r].dues[i + 1]
    BY <1>1
  <1>6. Head(job[r].dues).supplier \in Suppliers /\ Head(job[r].dues).delta \in Int
    BY <1>2 DEF DueRec
  <1>7. db[Head(job[r].dues).supplier] # NoRow
    BY <1>1, <1>3, <1>4
  <1>8. job[r].op \notin {"none", "approve", "reject"}
    BY Facts DEF JobOK, KeyOK, PayOK
  <1>9. db[Head(job[r].dues).supplier] \in Supplier
    BY <1>6, <1>7, RowTypes DEF IInv
  <1>10. /\ \A i \in 1 .. Len(Tail(job[r].dues)) : db[Tail(job[r].dues)[i].supplier] # NoRow
         /\ job[r].op # "void" => \A i \in 1 .. Len(Tail(job[r].dues)) :
              Tail(job[r].dues)[i].supplier = Head(job[r].dues).supplier
    BY <1>3, <1>5
  <1> QED
    BY <1>2, <1>6, <1>8, <1>9, <1>10

\* The object that the lock returns is a supplier, the same as what a statement
\* finds but in a session that has kept one.
LEMMA LockedType ==
    ASSUME IInv, NEW r \in Requests, NEW s \in Suppliers, db[s] \in Supplier
    PROVE  /\ Locked(r, s) \in Supplier /\ Seen(r, s) \in Supplier
           /\ job[r].op \notin {"purchase", "update", "void"} => Locked(r, s) = Seen(r, s)
  <1>1. Seen(r, s) \in Supplier
    BY RowTypes DEF Seen, IInv
  <1>2. job[r].keptOf = s =>
           job[r].kept \in Supplier /\ job[r].op \in {"purchase", "update", "void"}
    <2>1. s # NoKey
      BY KeysApart
    <2> QED
      BY <2>1, Facts DEF JobOK, ReadOK, JobRec
  <1> QED
    BY <1>1, <1>2 DEF Locked

LEMMA SignedType == \A row \in Supplier : Signed(row) \in Int
  BY DEF Supplier, Signed

\* What is written of a balance reads back as it was meant.
LEMMA SignedStored ==
    ASSUME NEW n \in Int
    PROVE  /\ Stored(n).balance \in Nat /\ Stored(n).balance_type \in {"receivable", "payable"}
           /\ Signed(Stored(n)) = n
  BY DEF Stored, Signed

\* What is left of the request when a balance has been changed, or passed over.
DueDone(r) ==
    /\ job' \in [Requests -> JobRec] /\ OthersWait(r)
    /\ job'[r].op = job[r].op /\ job'[r].key = job[r].key /\ job'[r].step = job[r].step
    /\ job'[r].amount = job[r].amount /\ job'[r].dues = Tail(job[r].dues)
    /\ job'[r].keptOf = job[r].keptOf
    /\ job[r].keptOf # NoKey => job'[r].kept # NoRow

LEMMA DueDoneOK ==
    ASSUME IInv, NEW r \in Requests, job[r].dues # <<>>,
           job[r].step = "done" \/ job[r].op = "void", db' = db, DueDone(r),
           held'[r] = held[r] \cup {Head(job[r].dues).supplier}
    PROVE  /\ Open(r)' /\ SameRequest(r)
           /\ (KeyOK(r) /\ ReadOK(r) /\ LocksOK(r) /\ ApproveOK(r))'
  <1>1. Open(r)' /\ SameRequest(r)
    BY NextDue DEF Open, DueDone, SameRequest
  <1>2. KeyOK(r)'
    BY NextDue, Facts DEF JobOK, KeyOK, DueDone
  <1>3. ReadOK(r)'
    <2>1. /\ ~At(r, "updateSupplier", "write")' /\ ~At(r, "refund", "write")'
          /\ job'[r].step \notin {"patch", "settle", "reapply"}
      BY Facts DEF JobOK, KeyOK, At, DueDone
    <2>2. \A i \in 1 .. Len(job'[r].dues) : db'[job'[r].dues[i].supplier] # NoRow
      BY NextDue DEF DueDone
    <2>3. job'[r].keptOf # NoKey =>
             job'[r].kept # NoRow /\ job'[r].op \in {"purchase", "update", "void"}
      BY Facts DEF JobOK, ReadOK, DueDone
    <2> QED
      BY <2>1, <2>2, <2>3 DEF ReadOK
  <1>4. LocksOK(r)'
    <2> SUFFICES ASSUME job[r].op # "void"
                 PROVE  LocksOK(r)'
      BY DEF LocksOK, DueDone
    <2> DEFINE tail == Tail(job[r].dues)
               s == Head(job[r].dues).supplier
    <2>1. /\ tail \in Seq(DueRec)
          /\ \A i \in 1 .. Len(tail) : tail[i].supplier = s
          /\ job'[r].dues = tail
      BY NextDue DEF DueDone
    <2>2. job'[r].step = "done"
      BY DEF DueDone
    <2>3. held'[r] \subseteq Purchases \cup Returns \cup {s}
      BY Facts DEF JobOK, LocksOK
    <2> HIDE DEF tail, s
    <2>4. tail # <<>> => Head(tail).supplier = s
      BY <2>1
    <2> QED
      BY <2>1, <2>2, <2>3, <2>4 DEF LocksOK
  <1>5. ApproveOK(r)'
    BY NextDue DEF ApproveOK, DueDone, At
  <1> QED
    BY <1>1, <1>2, <1>3, <1>4, <1>5

\* The new row: a balance that differs from the object's is written.
BalanceRow(row, object, new) ==
    [row EXCEPT !.balance = IF new.balance # object.balance THEN new.balance ELSE @,
                !.balance_type = IF new.balance_type # object.balance_type
                                 THEN new.balance_type ELSE @]

LEMMA BalanceRowType ==
    ASSUME NEW row \in Supplier, NEW object \in Supplier, NEW n \in Int
    PROVE  /\ BalanceRow(row, object, Stored(n)) \in Supplier
           /\ BalanceRow(row, object, Stored(n)).opening = row.opening
           /\ BalanceRow(row, object, Stored(n)).paid_out = row.paid_out
           /\ row.balance = object.balance /\ row.balance_type = object.balance_type =>
                Signed(BalanceRow(row, object, Stored(n))) = n
  <1> DEFINE b == BalanceRow(row, object, Stored(n))
             new == Stored(n)
  <1>1. /\ new.balance \in Nat /\ new.balance_type \in {"receivable", "payable"}
        /\ Signed(new) = n
    BY SignedStored
  <1> HIDE DEF new
  <1>2. /\ b \in Supplier /\ b.opening = row.opening /\ b.paid_out = row.paid_out
        /\ b.balance = (IF new.balance # object.balance THEN new.balance ELSE row.balance)
        /\ b.balance_type = (IF new.balance_type # object.balance_type THEN new.balance_type
                             ELSE row.balance_type)
    BY <1>1 DEF Supplier, BalanceRow, new
  <1>3. row.balance = object.balance /\ row.balance_type = object.balance_type =>
           b.balance = new.balance /\ b.balance_type = new.balance_type
    BY <1>2
  <1> QED
    BY <1>1, <1>2, <1>3 DEF Signed

\* The row that the payment, if it is one, changes before the balance.
PaidRow(r, s, delta) ==
    IF job[r].op \in {"pay", "supplierPay"} THEN SavePayment(Seen(r, s), - delta)
    ELSE Seen(r, s)

\* The three things that can happen when the supplier is locked.
Changed(r, due) ==
    LET s == due.supplier
        new == Stored(Signed(Locked(r, s)) + due.delta)
    IN
    /\ Locked(r, s).active
    /\ job[r].op # "pay"
    /\ Write(r, s, BalanceRow(PaidRow(r, s, due.delta), Locked(r, s), new))
    /\ job' = [job EXCEPT ![r].dues = Tail(@),
                          ![r].kept = IF job[r].keptOf = s
                                        THEN [@ EXCEPT !.balance = new.balance,
                                                       !.balance_type = new.balance_type]
                                        ELSE @]

PassedOver(r, due) ==
    /\ ~Locked(r, due.supplier).active
    /\ job[r].op \in {"void", "refund"}
    /\ Hold(r, due.supplier)
    /\ job' = [job EXCEPT ![r].dues = Tail(@)]
    /\ UNCHANGED mine

Failed(r, due) ==
    /\ job[r].op = "pay"
    /\ Hold(r, due.supplier)
    /\ job' = [job EXCEPT ![r].step = "failed"]
    /\ UNCHANGED mine

LEMMA DueCases ==
    ASSUME NEW r, ApplyDue(r), NEW due, due = Head(job[r].dues)
    PROVE  /\ job[r].dues # <<>> /\ (job[r].step = "done" \/ job[r].op = "void")
           /\ Free(r, due.supplier) /\ UNCHANGED <<db, arrived>>
           /\ Changed(r, due) \/ PassedOver(r, due) \/ Failed(r, due)
  BY DEF ApplyDue, ApplyDueWith, Changed, PassedOver, Failed, BalanceRow, PaidRow, HasNote

\* Money that was due to the supplier has been counted, once.
LEMMA MoneyCounted ==
    ASSUME IInv, NEW r \in Requests, job[r].dues # <<>>,
           NEW due, due = Head(job[r].dues), Changed(r, due) \/ PassedOver(r, due),
           NEW s \in Suppliers, MoneyOK(r, s), job[r].op \in {"refund", "supplierPay"},
           db' = db, job'[r].op = job[r].op, job'[r].amount = job[r].amount,
           job'[r].dues = Tail(job[r].dues)
    PROVE  MoneyOK(r, s)'
  <1> DEFINE n == Signed(Locked(r, s)) + due.delta
             row == PaidRow(r, s, due.delta)
  <1>1. /\ job[r].dues = <<[supplier |-> s, delta |-> - job[r].amount]>>
        /\ mine[r][s] = NoRow
    BY DEF MoneyOK
  <1>2. /\ due.supplier = s /\ due.delta = - job[r].amount /\ Tail(job[r].dues) = <<>>
        /\ job[r].amount \in Nat
    BY <1>1, Facts DEF JobRec
  <1>3. /\ db[s] \in Supplier /\ Seen(r, s) = db[s] /\ Locked(r, s) = db[s] /\ s \in Keys
    BY <1>1, <1>2, NextDue, LockedType, KeysApart DEF Seen
  <1>4. CASE Changed(r, due)
    <2>1. db[s].active /\ Write(r, s, BalanceRow(row, Locked(r, s), Stored(n)))
      BY <1>2, <1>3, <1>4 DEF Changed
    <2>2. /\ mine'[r][s] = BalanceRow(row, db[s], Stored(n))
          /\ s \in held'[r]
      BY <1>3, <2>1, Written, Facts
    <2>3. /\ row \in Supplier /\ row.balance = db[s].balance
          /\ row.balance_type = db[s].balance_type /\ row.opening = db[s].opening
          /\ job[r].op = "supplierPay" => row.paid_out = db[s].paid_out + job[r].amount
      BY <1>2, <1>3 DEF Supplier, SavePayment, PaidRow
    <2>4. Signed(db[s]) \in Int /\ n \in Int /\ n = Signed(db[s]) - job[r].amount
      <3>1. Signed(db[s]) \in Int
        BY <1>3, SignedType
      <3>2. n = Signed(db[s]) + (- job[r].amount)
        BY <1>2, <1>3
      <3> QED
        BY <1>2, <3>1, <3>2
    <2> HIDE DEF row, n
    <2>5. /\ mine'[r][s] \in Supplier /\ Signed(mine'[r][s]) = n
          /\ mine'[r][s].opening = row.opening /\ mine'[r][s].paid_out = row.paid_out
      <3>1. db[s] \in Supplier /\ row \in Supplier /\ n \in Int
        BY <1>3, <2>3, <2>4
      <3>2. /\ BalanceRow(row, db[s], Stored(n)) \in Supplier
            /\ BalanceRow(row, db[s], Stored(n)).opening = row.opening
            /\ BalanceRow(row, db[s], Stored(n)).paid_out = row.paid_out
            /\ Signed(BalanceRow(row, db[s], Stored(n))) = n
        BY <2>3, <3>1, BalanceRowType
      <3> QED
        BY <2>2, <3>2
    <2>6. Moved(r, s)'
      BY <2>3, <2>4, <2>5, NoRowIsNoRow DEF Moved
    <2> QED
      BY <1>2, <2>1, <2>2, <2>6 DEF MoneyOK
  <1>5. CASE PassedOver(r, due)
    <2>1. Hold(r, s) /\ UNCHANGED mine /\ job[r].op # "supplierPay" /\ ~db[s].active
      BY <1>2, <1>3, <1>5 DEF PassedOver
    <2>2. s \in held'[r]
      BY <2>1, Facts DEF Hold, SessionInv, SessionRows
    <2> QED
      BY <1>1, <1>2, <2>1, <2>2 DEF MoneyOK
  <1> QED
    BY <1>4, <1>5

\* What session r has written of purchases is as it was.
LEMMA DuePayOK ==
    ASSUME IInv, NEW r \in Requests, job[r].dues # <<>>,
           job[r].step = "done" \/ job[r].op = "void",
           NEW due, due = Head(job[r].dues), Changed(r, due) \/ PassedOver(r, due),
           db' = db, DueDone(r),
           held[r] \subseteq held'[r], \A p \in Purchases : mine'[r][p] = mine[r][p]
    PROVE  PayOK(r)'
  <1>1. PayOK(r) /\ KeyOK(r) /\ job[r].op \notin {"approve", "reject", "pay"}
    BY NextDue, Facts DEF JobOK, Changed, PassedOver
  <1>2. /\ job'[r].op = job[r].op /\ job'[r].key = job[r].key /\ job'[r].step = job[r].step
        /\ job'[r].amount = job[r].amount /\ job'[r].dues = Tail(job[r].dues)
    BY DEF DueDone
  <1>3. ASSUME NEW s \in Suppliers, MoneyOK(r, s), job[r].op \in {"refund", "supplierPay"}
        PROVE  MoneyOK(r, s)'
    BY <1>2, <1>3, MoneyCounted
  <1>4. CASE job[r].op = "supplierPay"
    <2>1. ASSUME NEW s \in Suppliers, s = job[r].key
          PROVE  MoneyOK(r, s)'
      BY <1>1, <1>3, <1>4, <2>1 DEF PayOK
    <2> QED
      BY <1>1, <1>2, <1>4, <2>1 DEF PayOK, At
  <1>5. CASE job[r].op = "refund"
    <2>1. At(r, "refund", "done")
      BY <1>5 DEF At
    <2>2. db[job[r].key].purchase \in held'[r]
      BY <1>1, <2>1 DEF PayOK
    <2>3. ASSUME NEW s \in Suppliers, s = db[db[job[r].key].purchase].supplier
          PROVE  MoneyOK(r, s)'
      BY <1>1, <1>3, <1>5, <2>1, <2>3 DEF PayOK
    <2>4. job'[r].step = "done"
      BY <1>2, <2>1 DEF At
    <2> QED
      BY <1>2, <1>5, <2>2, <2>3, <2>4 DEF PayOK, At
  <1>6. CASE job[r].op \notin {"supplierPay", "refund"}
    BY <1>1, <1>2, <1>6 DEF PayOK, At
  <1> QED
    BY <1>4, <1>5, <1>6

LEMMA ApplyDueKept ==
    ASSUME IInv, NEW r \in Requests, ApplyDue(r)
    PROVE  IInv'
  <1>1. PICK due : due = Head(job[r].dues)
    OBVIOUS
  <1> DEFINE s == due.supplier
             new == Stored(Signed(Locked(r, s)) + due.delta)
             row == PaidRow(r, s, due.delta)
  <1>2. /\ job[r].dues # <<>> /\ (job[r].step = "done" \/ job[r].op = "void")
        /\ Free(r, s) /\ UNCHANGED <<db, arrived>>
        /\ Changed(r, due) \/ PassedOver(r, due) \/ Failed(r, due)
    BY <1>1, DueCases
  <1>3. /\ s \in Suppliers /\ due.delta \in Int /\ db[s] \in Supplier /\ db[s] # NoRow
        /\ Tail(job[r].dues) \in Seq(DueRec) /\ s \in Keys
    BY <1>1, <1>2, NextDue, NoRowIsNoRow, KeysApart
  <1>4. Locked(r, s) \in Supplier /\ Seen(r, s) \in Supplier
    BY <1>3, LockedType
  <1>5. job \in [Requests -> JobRec] /\ job[r] \in JobRec /\ arrived' \in 0 .. MaxArrivals
    BY <1>2, Facts DEF IInv
  <1>6. job[r].keptOf # NoKey => job[r].kept \in Supplier /\ job[r].kept # NoRow
    BY <1>5, Facts DEF JobOK, ReadOK, JobRec
  <1>7. CASE Changed(r, due)
    <2>1. /\ Write(r, s, BalanceRow(row, Locked(r, s), new)) /\ job[r].op # "pay"
          /\ job' = [job EXCEPT ![r].dues = Tail(@),
                                ![r].kept = IF job[r].keptOf = s
                                              THEN [@ EXCEPT !.balance = new.balance,
                                                             !.balance_type = new.balance_type]
                                              ELSE @]
      BY <1>7 DEF Changed
    <2>2. Signed(Locked(r, s)) + due.delta \in Int
      BY <1>3, <1>4, SignedType
    <2>3. new.balance \in Nat /\ new.balance_type \in {"receivable", "payable"}
      BY <2>2, SignedStored
    <2>4. row \in Supplier
      <3>1. job[r].op = "supplierPay" => due.delta = - job[r].amount
        <4>1. job[r].op = "supplierPay" =>
                 job[r].key \in Suppliers /\ MoneyOK(r, job[r].key)
          BY Facts DEF JobOK, PayOK, KeyOK
        <4>2. job[r].op = "supplierPay" =>
                 job[r].dues = <<[supplier |-> job[r].key, delta |-> - job[r].amount]>>
          BY <1>2, <4>1 DEF MoneyOK
        <4> QED
          BY <1>1, <4>2
      <3>2. job[r].op = "supplierPay" => - due.delta \in Nat
        BY <1>5, <3>1 DEF JobRec
      <3> QED
        BY <1>4, <2>1, <3>2 DEF SavePayment, Supplier, PaidRow
    <2>5. BalanceRow(row, Locked(r, s), new) \in Supplier
      BY <1>4, <2>2, <2>4, BalanceRowType
    <2> HIDE DEF row, new
    <2>6. DueDone(r)
      <3> DEFINE kept == IF job[r].keptOf = s
                         THEN [job[r].kept EXCEPT !.balance = new.balance,
                                                  !.balance_type = new.balance_type]
                         ELSE job[r].kept
                 j == [job[r] EXCEPT !.dues = Tail(job[r].dues), !.kept = kept]
      <3>1. s # NoKey
        BY <1>3, KeysApart
      <3>2. kept \in Supplier \cup {NoRow} /\ (job[r].keptOf # NoKey => kept # NoRow)
        BY <1>5, <1>6, <2>3, <3>1, NoRowIsNoRow DEF JobRec, Supplier
      <3>3. job' = [job EXCEPT ![r] = j]
        BY <1>5, <2>1 DEF JobRec
      <3> HIDE DEF kept
      <3>4. /\ j \in JobRec /\ j.op = job[r].op /\ j.key = job[r].key /\ j.step = job[r].step
            /\ j.amount = job[r].amount /\ j.dues = Tail(job[r].dues)
            /\ j.keptOf = job[r].keptOf /\ j.kept = kept
        BY <1>3, <1>5, <3>2 DEF JobRec
      <3> HIDE DEF j
      <3>5. job' \in [Requests -> JobRec] /\ job'[r] = j /\ OthersWait(r)
        BY <3>3, <3>4, Resumed
      <3> QED
        BY <3>2, <3>4, <3>5 DEF DueDone
    <2>7. /\ held'[r] = held[r] \cup {s}
          /\ \A k \in Keys \ {s} : mine'[r][k] = mine[r][k]
      BY <1>3, <2>1, Written, Facts
    <2>8. /\ Open(r)' /\ SameRequest(r)
          /\ (KeyOK(r) /\ ReadOK(r) /\ LocksOK(r) /\ ApproveOK(r))'
      BY <1>1, <1>2, <2>6, <2>7, DueDoneOK
    <2>9. PayOK(r)'
      <3>1. \A p \in Purchases : mine'[r][p] = mine[r][p]
        BY <1>3, <2>7, KeysApart
      <3> QED
        BY <1>1, <1>2, <1>7, <2>6, <2>7, <3>1, DuePayOK
    <2>10. /\ BalanceRow(row, Locked(r, s), new) \in Table[s]
           /\ MayReplace(r, s, BalanceRow(row, Locked(r, s), new))
      BY <1>3, <2>5, TableFacts, KeysApart DEF MayReplace
    <2>11. job' \in [Requests -> JobRec] /\ OthersWait(r) /\ JobOK(r)'
      BY <2>6, <2>8, <2>9 DEF DueDone, JobOK
    <2> QED
      BY <1>2, <1>3, <1>5, <2>1, <2>8, <2>10, <2>11, FlushStep
  <1>8. CASE PassedOver(r, due)
    <2>1. Hold(r, s) /\ job' = [job EXCEPT ![r].dues = Tail(@)] /\ UNCHANGED mine
      BY <1>8 DEF PassedOver
    <2>2. DueDone(r)
      <3> DEFINE j == [job[r] EXCEPT !.dues = Tail(job[r].dues)]
      <3>1. job' = [job EXCEPT ![r] = j]
        BY <2>1
      <3>2. /\ j \in JobRec /\ j.op = job[r].op /\ j.key = job[r].key /\ j.step = job[r].step
            /\ j.amount = job[r].amount /\ j.dues = Tail(job[r].dues)
            /\ j.keptOf = job[r].keptOf /\ j.kept = job[r].kept
        BY <1>3, <1>5 DEF JobRec
      <3> HIDE DEF j
      <3>3. job' \in [Requests -> JobRec] /\ job'[r] = j /\ OthersWait(r)
        BY <3>1, <3>2, Resumed
      <3> QED
        BY <1>6, <3>2, <3>3 DEF DueDone
    <2>3. held'[r] = held[r] \cup {s}
      BY <2>1, Facts DEF Hold, SessionInv, SessionRows
    <2>4. /\ Open(r)' /\ SameRequest(r)
          /\ (KeyOK(r) /\ ReadOK(r) /\ LocksOK(r) /\ ApproveOK(r))'
      BY <1>1, <1>2, <2>2, <2>3, DueDoneOK
    <2>5. PayOK(r)'
      BY <1>1, <1>2, <1>8, <2>1, <2>2, <2>3, DuePayOK
    <2>6. job' \in [Requests -> JobRec] /\ OthersWait(r) /\ JobOK(r)'
      BY <2>2, <2>4, <2>5 DEF DueDone, JobOK
    <2> QED
      BY <1>2, <1>3, <2>1, <2>4, <2>6, LockStep
  <1>9. CASE Failed(r, due)
    <2>1. /\ Hold(r, s) /\ job' = [job EXCEPT ![r].step = "failed"] /\ UNCHANGED mine
          /\ job[r].op = "pay"
      BY <1>9 DEF Failed
    <2> DEFINE j == [job[r] EXCEPT !.step = "failed"]
    <2>2. job' = [job EXCEPT ![r] = j]
      BY <2>1
    <2>3. /\ j \in JobRec /\ j.op = "pay" /\ j.key = job[r].key /\ j.step = "failed"
          /\ j.dues = job[r].dues /\ j.keptOf = job[r].keptOf
      BY <1>5, <2>1 DEF JobRec
    <2> HIDE DEF j
    <2>4. job' \in [Requests -> JobRec] /\ job'[r] = j /\ OthersWait(r)
      BY <2>2, <2>3, Resumed
    <2>5. Open(r)' /\ SameRequest(r)
      BY <2>1, <2>3, <2>4 DEF Open, SameRequest
    <2>6. held'[r] = held[r] \cup {s}
      BY <2>1, Facts DEF Hold, SessionInv, SessionRows
    <2>7. KeyOK(r)' /\ ReadOK(r)'
      BY <1>2, <2>1, <2>3, <2>4, Facts DEF JobOK, KeyOK, ReadOK, At
    <2>8. LocksOK(r)'
      BY <1>1, <1>2, <2>1, <2>3, <2>4, <2>6, Facts DEF JobOK, LocksOK
    <2>9. PayOK(r)' /\ ApproveOK(r)'
      BY <1>2, <2>3, <2>4 DEF PayOK, ApproveOK, At
    <2>10. JobOK(r)'
      BY <2>7, <2>8, <2>9 DEF JobOK
    <2> QED
      BY <1>2, <1>3, <2>1, <2>4, <2>5, <2>10, LockStep
  <1> QED
    BY <1>2, <1>7, <1>8, <1>9

-----------------------------------------------------------------------------
(* Purchases.                                                              *)

LEMMA OwedType == \A p \in Purchase : Owed(p) \in Int
  BY DEF Owed, Purchase

LEMMA OnAccountType ==
    ASSUME NEW p \in Purchase, NEW n \in Int
    PROVE  DuesOf(OnAccount(p, n), p.supplier)
  <1>1. p.supplier \in Suppliers
    BY DEF Purchase
  <1>2. CASE p.payment_type = "cash"
    BY <1>2 DEF OnAccount, DuesOf
  <1>3. CASE p.payment_type # "cash"
    <2>1. /\ Due(p.supplier, n) \in Seq(DueRec) /\ Len(Due(p.supplier, n)) = 1
          /\ Due(p.supplier, n)[1].supplier = p.supplier
      BY <1>1, DueType
    <2> QED
      BY <1>3, <2>1 DEF OnAccount, DuesOf
  <1> QED
    BY <1>2, <1>3

\* The job of a request that keeps the supplier it has read.
LEMMA KeepingType ==
    ASSUME NEW j \in JobRec, NEW s \in Suppliers, db[s] \in Supplier
    PROVE  /\ Keeping(j, s) \in JobRec
           /\ Keeping(j, s).op = j.op /\ Keeping(j, s).key = j.key
           /\ Keeping(j, s).step = j.step /\ Keeping(j, s).dues = j.dues
           /\ Keeping(j, s).keptOf = s /\ Keeping(j, s).kept # NoRow
  BY NoRowIsNoRow DEF Keeping, JobRec

\* The supplier of a purchase that there is.
LEMMA PurchaseRow ==
    ASSUME IInv, NEW p \in Purchases, db[p] # NoRow
    PROVE  /\ p \in Keys /\ p \notin Returns /\ db[p] \in Purchase
           /\ db[p].supplier \in Suppliers /\ db[p].supplier \in Keys
           /\ db[db[p].supplier] # NoRow /\ db[db[p].supplier] \in Supplier
  <1>1. p \in Keys /\ p \notin Returns
    BY KeysApart
  <1>2. db[p] \in Purchase
    BY RowTypes DEF IInv
  <1>3. db[p].supplier \in Suppliers /\ db[p].supplier \in Keys
    BY <1>2, KeysApart DEF Purchase
  <1>4. db[db[p].supplier] # NoRow
    BY DEF IInv, RowsRefer, Known
  <1>5. db[db[p].supplier] \in Supplier
    BY <1>3, <1>4, RowTypes DEF IInv
  <1> QED
    BY <1>1, <1>2, <1>3, <1>4, <1>5

\* A request with changes of one balance to make, that has locked nothing but its
\* purchase or its return.
LEMMA DuesJob ==
    ASSUME NEW r, NEW s, db'[s] # NoRow, DuesOf(job'[r].dues, s),
           job'[r].step = "done" \/ job'[r].op = "void",
           held'[r] \subseteq Purchases \cup Returns,
           job'[r].keptOf # NoKey =>
              job'[r].kept # NoRow /\ job'[r].op \in {"purchase", "update", "void"},
           KeyOK(r)'
    PROVE  ReadOK(r)' /\ LocksOK(r)'
  <1>1. \A i \in 1 .. Len(job'[r].dues) : db'[job'[r].dues[i].supplier] # NoRow
    BY DEF DuesOf
  <1>2. job'[r].step \notin {"patch", "settle", "reapply"}
    BY DEF KeyOK
  <1>3. ReadOK(r)'
    BY <1>1, <1>2 DEF ReadOK, At
  <1>4. LocksOK(r)'
    BY DuesOfOne DEF LocksOK
  <1> QED
    BY <1>3, <1>4

LEMMA CreatePurchaseKept ==
    ASSUME IInv, NEW r \in Requests, NEW p \in Purchases, NEW s \in Suppliers,
           NEW body \in PurchaseCreate, CreatePurchase(r, p, s, body)
    PROVE  IInv'
  <1> DEFINE row == [supplier |-> s, payment_type |-> body.payment_type, total |-> body.items,
                     paid |-> PaidOf(body), status |-> "confirmed"]
             dues == OnAccount(row, Owed(row))
             j == [Keeping(Job("purchase", p), s) EXCEPT !.dues = dues]
  <1>1. /\ Unused(p) /\ db[s] # NoRow /\ Begin(r, j) /\ UNCHANGED <<db, held>>
        /\ mine' = [mine EXCEPT ![r][p] = row]
    BY DEF CreatePurchase, ActiveSupplier
  <1>2. row \in Purchase /\ row.supplier = s /\ row.status = "confirmed"
    <2>1. /\ body.payment_type \in PaymentType /\ body.items \in Nat /\ body.paid_amount \in Nat
      BY Numbers DEF PurchaseCreate
    <2>2. PaidOf(body) \in Nat
      BY <2>1 DEF PaidOf, PaymentType
    <2> QED
      BY <2>1, <2>2 DEF Purchase
  <1> HIDE DEF row
  <1>3. p \in Keys /\ row \in Table[p] /\ row # NoRow /\ db[s] \in Supplier
    BY <1>1, <1>2, TableFacts, NoRowIsNoRow, RowTypes DEF IInv
  <1>4. DuesOf(dues, s)
    BY <1>2, OwedType, OnAccountType
  <1>5. Job("purchase", p).op \in Ops
    BY <1>1 DEF Begin, Job, NoJob, Keeping
  <1> HIDE DEF dues
  <1>6. /\ j \in JobRec /\ j.op = "purchase" /\ j.key = p /\ j.step = "done"
        /\ j.dues = dues /\ j.kept # NoRow
    <2>1. /\ Job("purchase", p) \in JobRec /\ Job("purchase", p).op = "purchase"
          /\ Job("purchase", p).key = p /\ Job("purchase", p).step = "done"
      BY <1>3, <1>5, NewJob
    <2>2. /\ Keeping(Job("purchase", p), s) \in JobRec
          /\ Keeping(Job("purchase", p), s).op = "purchase"
          /\ Keeping(Job("purchase", p), s).key = p
          /\ Keeping(Job("purchase", p), s).step = "done"
          /\ Keeping(Job("purchase", p), s).kept # NoRow
      BY <1>3, <2>1, KeepingType
    <2> QED
      BY <1>4, <2>2 DEF JobRec, DuesOf
  <1> HIDE DEF j
  <1>7. /\ job' \in [Requests -> JobRec] /\ job'[r] = j /\ Open(r)' /\ OthersWait(r)
        /\ arrived' \in 0 .. MaxArrivals /\ held[r] = {} /\ \A k \in Keys : mine[r][k] = NoRow
    BY <1>1, <1>6, Begun
  <1>8. SessionInv(Table)'
    BY <1>1, <1>3, <1>7, Facts, InsertStep
  <1>9. /\ mine'[r][p] = row /\ \A k \in Keys \ {p} : mine'[r][k] = NoRow
        /\ \A u \in Requests \ {r} : mine'[u] = mine[u]
    BY <1>1, <1>3, <1>7, Facts DEF SessionInv, SessionRows
  <1>10. VersionsOK(r)'
    <2>1. \A k \in Suppliers \cup Returns \cup Catalogues : mine'[r][k] = NoRow
      BY <1>9, KeysApart
    <2>2. \A q \in Purchases : mine'[r][q] # NoRow => q = p
      BY <1>9, KeysApart
    <2> QED
      BY <1>1, <1>2, <1>9, <2>1, <2>2 DEF VersionsOK, Known, Unused
  <1>11. JobOK(r)'
    <2>1. KeyOK(r)' /\ PayOK(r)' /\ ApproveOK(r)'
      BY <1>6, <1>7 DEF KeyOK, PayOK, ApproveOK, At
    <2>2. ReadOK(r)' /\ LocksOK(r)'
      BY <1>1, <1>4, <1>6, <1>7, <2>1, DuesJob
    <2> QED
      BY <2>1, <2>2 DEF JobOK
  <1> QED
    BY <1>1, <1>7, <1>8, <1>9, <1>10, <1>11, LocalStep DEF RequestOK, JobOK

LEMMA UpdatePurchaseKept ==
    ASSUME IInv, NEW r \in Requests, NEW p \in Purchases, NEW body \in PurchaseUpdate,
           UpdatePurchase(r, p, body)
    PROVE  IInv'
  <1> DEFINE new == [db[p] EXCEPT !.payment_type = body.payment_type, !.total = body.items]
             j == [Job("update", p) EXCEPT
                     !.step = "patch", !.amount = body.paid_amount, !.loaded = db[p],
                     !.new = new]
  <1>1. db[p] # NoRow /\ Begin(r, j) /\ UNCHANGED <<db, mine, held>>
    BY DEF UpdatePurchase
  <1>2. db[p] \in Purchase /\ p \in Keys
    BY <1>1, PurchaseRow
  <1>3. /\ body.paid_amount \in Nat /\ body.payment_type \in PaymentType /\ body.items \in Nat
    BY Numbers DEF PurchaseUpdate
  <1>4. new \in Purchase /\ new.supplier = db[p].supplier /\ new.status = db[p].status
    BY <1>2, <1>3 DEF Purchase
  <1>5. Job("update", p).op \in Ops
    BY <1>1 DEF Begin, Job, NoJob
  <1> HIDE DEF new
  <1>6. /\ j \in JobRec /\ j.op = "update" /\ j.key = p /\ j.step = "patch" /\ j.dues = <<>>
        /\ j.keptOf = NoKey /\ j.loaded = db[p] /\ j.new = new
    <2>1. /\ Job("update", p) \in JobRec
          /\ Job("update", p).op = "update" /\ Job("update", p).key = p
          /\ Job("update", p).dues = <<>> /\ Job("update", p).keptOf = NoKey
      BY <1>2, <1>5, NewJob
    <2> QED
      BY <1>2, <1>3, <1>4, <2>1 DEF JobRec
  <1> HIDE DEF j
  <1>7. job'[r] = j /\ held[r] = {}
    BY <1>1, <1>6, Begun
  <1>8. JobOK(r)'
    <2>1. KeyOK(r)' /\ PayOK(r)' /\ ApproveOK(r)'
      BY <1>1, <1>6, <1>7 DEF KeyOK, PayOK, ApproveOK, At
    <2>2. ReadOK(r)' /\ LocksOK(r)'
      BY <1>1, <1>2, <1>4, <1>6, <1>7 DEF ReadOK, LocksOK, At
    <2> QED
      BY <2>1, <2>2 DEF JobOK
  <1> QED
    BY <1>1, <1>6, <1>8, BeginStep

\* A flush of attributes of a purchase that leaves its supplier and its status.
LEMMA PatchedType ==
    ASSUME NEW row \in Purchase, NEW loaded \in Purchase, NEW new \in Purchase,
           loaded.supplier = new.supplier, loaded.status = new.status
    PROVE  /\ Patched(row, loaded, new) \in Purchase
           /\ Patched(row, loaded, new).supplier = row.supplier
           /\ Patched(row, loaded, new).status = row.status
           /\ Patched(row, loaded, new).total \in Nat /\ Patched(row, loaded, new).paid \in Nat
  <1>1. DOMAIN row = {"supplier", "payment_type", "total", "paid", "status"}
    BY DEF Purchase
  <1> DEFINE x == Patched(row, loaded, new)
  <1>2. /\ x = [f \in {"supplier", "payment_type", "total", "paid", "status"} |-> x[f]]
        /\ x.supplier = row.supplier /\ x.status = row.status
        /\ x.payment_type \in {row.payment_type, new.payment_type}
        /\ x.total \in {row.total, new.total} /\ x.paid \in {row.paid, new.paid}
    BY <1>1 DEF Patched, Flushed
  <1> HIDE DEF x
  <1>3. x \in Purchase /\ x.total \in Nat /\ x.paid \in Nat
    BY <1>2 DEF Purchase
  <1> QED
    BY <1>2, <1>3 DEF x

\* An update of a purchase has written it, or had nothing to write.
LEMMA EditStep ==
    ASSUME IInv, NEW r \in Requests, job[r].op = "update", NEW p \in Purchases, p = job[r].key,
           NEW row \in Purchase, db[row.supplier] # NoRow, Dead(db[p]) => Dead(row),
           NEW j \in JobRec, job' = [job EXCEPT ![r] = j], j.op = "update", j.key = p,
           j.step \in {"patch", "settle", "reapply", "done"},
           UNCHANGED <<db, arrived>>,
           UNCHANGED <<mine, held>> \/ (Free(r, p) /\ Write(r, p, row)),
           ReadOK(r)', LocksOK(r)'
    PROVE  IInv'
  <1>1. job' \in [Requests -> JobRec] /\ job'[r] = j /\ OthersWait(r)
    BY Resumed
  <1>2. db[p] # NoRow /\ p \in Keys /\ p \notin Returns
    BY Facts, PurchaseRow DEF JobOK, KeyOK
  <1>3. KeyOK(r)' /\ PayOK(r)' /\ ApproveOK(r)'
    BY <1>1, <1>2 DEF KeyOK, PayOK, ApproveOK, At
  <1>4. JobOK(r)' /\ Open(r)' /\ SameRequest(r) /\ arrived' \in 0 .. MaxArrivals
    BY <1>1, <1>3, Facts DEF JobOK, Open, SameRequest
  <1>5. CASE UNCHANGED <<mine, held>>
    BY <1>1, <1>4, <1>5, QuietStep
  <1>6. CASE Free(r, p) /\ Write(r, p, row)
    <2>1. MayReplace(r, p, row) /\ row \in Table[p]
      BY <1>1, <1>2, TableFacts DEF MayReplace
    <2> QED
      BY <1>1, <1>2, <1>4, <1>6, <2>1, FlushStep
  <1> QED
    BY <1>5, <1>6

\* Its locks: none but that of the purchase.
LEMMA EditLocks ==
    ASSUME IInv, NEW r \in Requests, job[r].op = "update",
           job[r].step \in {"patch", "settle", "reapply"},
           NEW p, p = job[r].key, NEW row,
           UNCHANGED <<mine, held>> \/ Write(r, p, row)
    PROVE  p \in Purchases /\ db[p] # NoRow /\ held'[r] \subseteq {p}
  <1>1. p \in Purchases /\ db[p] # NoRow /\ held[r] \subseteq {p} /\ p \in Keys
    BY Facts, KeysApart DEF JobOK, KeyOK, LocksOK
  <1>2. CASE Write(r, p, row)
    <2>1. held'[r] = held[r] \cup {p}
      BY <1>1, <1>2, Facts, Written
    <2> QED
      BY <1>1, <2>1
  <1> QED
    BY <1>1, <1>2

LEMMA FlushPatchKept ==
    ASSUME IInv, NEW r \in Requests, FlushPatch(r)
    PROVE  IInv'
  <1> DEFINE p == job[r].key
             loaded == job[r].loaded
             new == job[r].new
             row == Patched(db[p], loaded, new)
             paid == CASE new.payment_type = "cash" -> row.total
                       [] new.payment_type = "credit" -> 0
                       [] new.payment_type = "partial" ->
                            IF job[r].amount > 0 THEN job[r].amount ELSE row.paid
             settled == [row EXCEPT !.paid = paid]
             j == [job[r] EXCEPT !.step = "settle", !.loaded = row, !.new = settled]
  <1>1. /\ job[r].op = "update" /\ job[r].step = "patch" /\ UNCHANGED <<db, arrived>>
        /\ UNCHANGED <<mine, held>> \/ (Free(r, p) /\ Write(r, p, row))
        /\ job' = [job EXCEPT ![r] = j]
    <2>1. /\ At(r, "update", "patch") /\ UNCHANGED <<db, arrived>>
          /\ IF new = loaded THEN UNCHANGED <<mine, held>> ELSE Free(r, p) /\ Write(r, p, row)
          /\ job' = [job EXCEPT ![r].step = "settle", ![r].loaded = row, ![r].new = settled]
      BY DEF FlushPatch
    <2>2. job \in [Requests -> JobRec] /\ job[r] \in JobRec
      BY Facts DEF IInv
    <2> HIDE DEF row, settled
    <2>3. job' = [job EXCEPT ![r] = j]
      BY <2>1, <2>2 DEF JobRec
    <2> QED
      BY <2>1, <2>3 DEF At
  <1>2. /\ loaded \in Purchase /\ new \in Purchase
        /\ loaded.supplier = new.supplier /\ loaded.status = new.status
    BY <1>1, Facts DEF JobOK, ReadOK
  <1>3. p \in Purchases /\ db[p] # NoRow /\ held'[r] \subseteq {p}
    BY <1>1, EditLocks
  <1>4. /\ db[p] \in Purchase /\ db[db[p].supplier] # NoRow /\ p \in Keys
    BY <1>3, PurchaseRow
  <1>5. /\ row \in Purchase /\ row.supplier = db[p].supplier /\ row.status = db[p].status
        /\ row.total \in Nat /\ row.paid \in Nat
    BY <1>2, <1>4, PatchedType
  <1> HIDE DEF row
  <1>6. /\ settled \in Purchase /\ settled.supplier = row.supplier
        /\ settled.status = row.status
    <2>1. paid \in Nat
      BY <1>2, <1>5, Facts DEF JobRec, Purchase, PaymentType
    <2> HIDE DEF paid
    <2> QED
      BY <1>5, <2>1 DEF Purchase
  <1> HIDE DEF settled
  <1>7. /\ j \in JobRec /\ j.op = "update" /\ j.key = p /\ j.step = "settle"
        /\ j.dues = job[r].dues /\ j.keptOf = job[r].keptOf /\ j.kept = job[r].kept
        /\ j.loaded = row /\ j.new = settled
    BY <1>1, <1>5, <1>6, Facts DEF JobRec
  <1> HIDE DEF j
  <1>8. job[r].dues = <<>> /\ job'[r] = j
    BY <1>1, <1>7, Facts, Resumed DEF JobOK, LocksOK
  <1>9. ReadOK(r)' /\ LocksOK(r)'
    <2>1. job[r].keptOf # NoKey => job[r].kept # NoRow
      BY Facts DEF JobOK, ReadOK
    <2> QED
      BY <1>3, <1>5, <1>6, <1>7, <1>8, <2>1 DEF ReadOK, LocksOK, At
  <1>10. db[row.supplier] # NoRow /\ (Dead(db[p]) => Dead(row))
    BY <1>4, <1>5 DEF Dead
  <1> QED
    BY <1>1, <1>3, <1>5, <1>7, <1>9, <1>10, EditStep

\* A purchase as a session that edits it finds it.
LEMMA SeenPurchase ==
    ASSUME IInv, NEW r \in Requests, NEW p \in Purchases, db[p] # NoRow
    PROVE  /\ Seen(r, p) \in Purchase
           /\ Seen(r, p).supplier \in Suppliers /\ db[Seen(r, p).supplier] # NoRow
           /\ Dead(db[p]) => Dead(Seen(r, p))
  <1>1. CASE mine[r][p] = NoRow
    BY <1>1, PurchaseRow DEF Seen
  <1>2. CASE mine[r][p] # NoRow
    <2>1. mine[r][p] \in Purchase
      BY <1>2, RowTypes DEF IInv
    <2>2. Known(mine[r][p]) /\ (Dead(db[p]) => Dead(mine[r][p]))
      BY <1>2, Facts DEF VersionsOK
    <2>3. mine[r][p].supplier \in Suppliers
      BY <2>1 DEF Purchase
    <2> QED
      BY <1>2, <2>1, <2>2, <2>3 DEF Seen, Known
  <1> QED
    BY <1>1, <1>2

LEMMA SettlePaidKept ==
    ASSUME IInv, NEW r \in Requests, SettlePaid(r)
    PROVE  IInv'
  <1> DEFINE p == job[r].key
             loaded == job[r].loaded
             new == job[r].new
             row == Patched(Seen(r, p), loaded, new)
             j == [Keeping(Job("update", p), row.supplier) EXCEPT
                     !.step = "reapply", !.loaded = row]
  <1>1. /\ job[r].op = "update" /\ job[r].step = "settle" /\ UNCHANGED <<db, arrived>>
        /\ UNCHANGED <<mine, held>> \/ (Free(r, p) /\ Write(r, p, row))
        /\ job' = [job EXCEPT ![r] = j]
    BY DEF SettlePaid, At
  <1>2. /\ loaded \in Purchase /\ new \in Purchase
        /\ loaded.supplier = new.supplier /\ loaded.status = new.status
    BY <1>1, Facts DEF JobOK, ReadOK
  <1>3. p \in Purchases /\ p \in Keys /\ db[p] # NoRow /\ held'[r] \subseteq {p}
    BY <1>1, EditLocks, KeysApart
  <1>4. /\ Seen(r, p) \in Purchase /\ db[Seen(r, p).supplier] # NoRow
        /\ Dead(db[p]) => Dead(Seen(r, p))
    BY <1>3, SeenPurchase
  <1>5. /\ row \in Purchase /\ row.supplier = Seen(r, p).supplier
        /\ row.status = Seen(r, p).status
    BY <1>2, <1>4, PatchedType
  <1>6. /\ row.supplier \in Suppliers /\ db[row.supplier] # NoRow
        /\ Dead(db[p]) => Dead(row)
    BY <1>4, <1>5 DEF Purchase, Dead
  <1> HIDE DEF row
  <1>7. db[row.supplier] \in Supplier
    BY <1>6, RowTypes DEF IInv
  <1>8. /\ j \in JobRec /\ j.op = "update" /\ j.key = p /\ j.step = "reapply"
        /\ j.dues = <<>> /\ j.kept # NoRow /\ j.loaded = row
    <2>1. Job("update", p).op \in Ops
      BY <1>1, Facts DEF JobRec, Job, NoJob
    <2>2. /\ Job("update", p) \in JobRec /\ Job("update", p).op = "update"
          /\ Job("update", p).key = p /\ Job("update", p).dues = <<>>
      BY <1>3, <2>1, NewJob
    <2> DEFINE k == Keeping(Job("update", p), row.supplier)
    <2>3. /\ k \in JobRec /\ k.op = "update" /\ k.key = p /\ k.dues = <<>> /\ k.kept # NoRow
      BY <1>6, <1>7, <2>2, KeepingType
    <2> HIDE DEF k
    <2>4. j = [k EXCEPT !.step = "reapply", !.loaded = row]
      BY DEF k
    <2> QED
      BY <1>5, <2>3, <2>4 DEF JobRec
  <1> HIDE DEF j
  <1>9. job'[r] = j
    BY <1>1, <1>8, Resumed
  <1>10. ReadOK(r)' /\ LocksOK(r)'
    BY <1>3, <1>5, <1>8, <1>9 DEF ReadOK, LocksOK, At
  <1> QED
    BY <1>1, <1>3, <1>5, <1>6, <1>8, <1>10, EditStep

\* What the balance is corrected by.
LEMMA CorrectionDues ==
    ASSUME NEW s \in Suppliers, NEW old \in Int, NEW new \in Int
    PROVE  DuesOf(IF old = new THEN <<>>
                  ELSE (IF old > 0 THEN Due(s, - old) ELSE <<>>)
                       \o (IF new > 0 THEN Due(s, new) ELSE <<>>), s)
  <1> DEFINE a == IF old > 0 THEN Due(s, - old) ELSE <<>>
             b == IF new > 0 THEN Due(s, new) ELSE <<>>
  <1>1. DuesOf(<<>>, s)
    BY DEF DuesOf
  <1>2. DuesOf(a, s)
    <2>1. Due(s, - old) \in Seq(DueRec) /\ Len(Due(s, - old)) = 1 /\ Due(s, - old)[1].supplier = s
      BY DueType
    <2>2. DuesOf(Due(s, - old), s)
      BY <2>1 DEF DuesOf
    <2> QED
      BY <1>1, <2>2
  <1>3. DuesOf(b, s)
    <2>1. Due(s, new) \in Seq(DueRec) /\ Len(Due(s, new)) = 1 /\ Due(s, new)[1].supplier = s
      BY DueType
    <2>2. DuesOf(Due(s, new), s)
      BY <2>1 DEF DuesOf
    <2> QED
      BY <1>1, <2>2
  <1> HIDE DEF a, b
  <1>4. DuesOf(a \o b, s)
    <2>1. /\ a \in Seq(DueRec) /\ b \in Seq(DueRec) /\ a \o b \in Seq(DueRec)
          /\ Len(a \o b) = Len(a) + Len(b)
      BY <1>2, <1>3 DEF DuesOf
    <2>2. ASSUME NEW i \in 1 .. Len(a \o b)
          PROVE  (a \o b)[i].supplier = s
      <3>1. CASE i <= Len(a)
        <4>1. (a \o b)[i] = a[i] /\ i \in 1 .. Len(a)
          BY <2>1, <2>2, <3>1
        <4> QED
          BY <1>2, <4>1 DEF DuesOf
      <3>2. CASE ~(i <= Len(a))
        <4>1. (a \o b)[i] = b[i - Len(a)] /\ i - Len(a) \in 1 .. Len(b)
          BY <2>1, <2>2, <3>2
        <4> QED
          BY <1>3, <4>1 DEF DuesOf
      <3> QED
        BY <3>1, <3>2
    <2> QED
      BY <2>1, <2>2 DEF DuesOf
  <1> QED
    BY <1>1, <1>4 DEF a, b

LEMMA ReapplyKept ==
    ASSUME IInv, NEW r \in Requests, Reapply(r)
    PROVE  IInv'
  <1> DEFINE p == job[r].key
             row == Seen(r, p)
             old == Owed(job[r].loaded)
             new == Owed([job[r].loaded EXCEPT !.total = row.total, !.paid = row.paid])
             dues == IF old = new THEN <<>>
                     ELSE (IF old > 0 THEN Due(row.supplier, - old) ELSE <<>>)
                          \o (IF new > 0 THEN Due(row.supplier, new) ELSE <<>>)
             j == [job[r] EXCEPT !.step = "done", !.loaded = NoRow, !.dues = dues]
  <1>1. /\ job[r].op = "update" /\ job[r].step = "reapply" /\ UNCHANGED <<db, arrived>>
        /\ UNCHANGED <<mine, held>>
        /\ job' = [job EXCEPT ![r].step = "done", ![r].loaded = NoRow, ![r].dues = dues]
    BY DEF Reapply, At
  <1>2. p \in Purchases /\ p \in Keys /\ db[p] # NoRow /\ held'[r] \subseteq {p}
    <2>1. UNCHANGED <<mine, held>> \/ Write(r, p, p)
      BY <1>1
    <2> QED
      BY <1>1, <2>1, EditLocks, KeysApart
  <1>3. /\ row \in Purchase /\ row.supplier \in Suppliers /\ db[row.supplier] # NoRow
        /\ Dead(db[p]) => Dead(row)
    BY <1>2, SeenPurchase
  <1> HIDE DEF row
  <1>4. old \in Int /\ new \in Int
    <2>1. job[r].loaded \in Purchase
      BY <1>1, Facts DEF JobOK, ReadOK
    <2>2. [job[r].loaded EXCEPT !.total = row.total, !.paid = row.paid] \in Purchase
      BY <1>3, <2>1 DEF Purchase
    <2> QED
      BY <2>1, <2>2, OwedType
  <1> HIDE DEF old, new
  <1>5. DuesOf(dues, row.supplier)
    BY <1>3, <1>4, CorrectionDues
  <1> HIDE DEF dues
  <1>6. /\ j \in JobRec /\ j.op = "update" /\ j.key = p /\ j.step = "done" /\ j.dues = dues
        /\ j.keptOf = job[r].keptOf /\ j.kept = job[r].kept /\ job' = [job EXCEPT ![r] = j]
    <2>1. job \in [Requests -> JobRec] /\ job[r] \in JobRec
      BY Facts DEF IInv
    <2> QED
      BY <1>1, <1>5, <2>1 DEF JobRec, DuesOf
  <1> HIDE DEF j
  <1>7. job'[r] = j
    BY <1>6, Resumed
  <1>8. ReadOK(r)' /\ LocksOK(r)'
    <2>1. KeyOK(r)'
      BY <1>1, <1>2, <1>6, <1>7 DEF KeyOK
    <2>2. job'[r].keptOf # NoKey =>
             job'[r].kept # NoRow /\ job'[r].op \in {"purchase", "update", "void"}
      BY <1>6, <1>7, Facts DEF JobOK, ReadOK
    <2>3. DuesOf(job'[r].dues, row.supplier) /\ db'[row.supplier] # NoRow
      BY <1>1, <1>3, <1>5, <1>6, <1>7
    <2>4. held'[r] \subseteq Purchases \cup Returns /\ job'[r].step = "done"
      BY <1>2, <1>6, <1>7
    <2> QED
      BY <2>1, <2>2, <2>3, <2>4, DuesJob
  <1> QED
    BY <1>1, <1>2, <1>3, <1>6, <1>8, EditStep

LEMMA VoidPurchaseKept ==
    ASSUME IInv, NEW r \in Requests, NEW p \in Purchases, VoidPurchase(r, p)
    PROVE  IInv'
  <1> DEFINE s == db[p].supplier
             dues == OnAccount(db[p], - Owed(db[p]))
             k == Keeping(Job("void", p), s)
             j == [k EXCEPT !.step = "write", !.dues = dues]
  <1>1. /\ db[p] # NoRow /\ Begin(r, j) /\ UNCHANGED <<db, mine, held>>
        /\ Job("void", p).op \in Ops
    BY DEF VoidPurchase, Begin, Job, NoJob, Keeping
  <1>2. /\ p \in Keys /\ db[p] \in Purchase /\ s \in Suppliers /\ db[s] # NoRow
        /\ db[s] \in Supplier
    BY <1>1, PurchaseRow
  <1>3. DuesOf(dues, s)
    <2>1. Owed(db[p]) \in Int /\ - Owed(db[p]) \in Int
      BY <1>2, OwedType
    <2> QED
      BY <1>2, <2>1, OnAccountType
  <1>4. k \in JobRec /\ k.op = "void" /\ k.key = p /\ k.kept # NoRow
    <2>1. Job("void", p) \in JobRec /\ Job("void", p).op = "void" /\ Job("void", p).key = p
      BY <1>1, <1>2, NewJob
    <2> QED
      BY <1>2, <2>1, KeepingType
  <1> HIDE DEF dues, k, s
  <1>5. /\ j \in JobRec /\ j.op = "void" /\ j.key = p /\ j.step = "write" /\ j.dues = dues
        /\ j.kept # NoRow
    BY <1>3, <1>4 DEF JobRec, DuesOf
  <1> HIDE DEF j
  <1>6. job'[r] = j /\ held[r] = {}
    BY <1>1, <1>5, Begun
  <1>7. KeyOK(r)' /\ PayOK(r)' /\ ApproveOK(r)'
    BY <1>1, <1>5, <1>6 DEF KeyOK, PayOK, ApproveOK, At
  <1>8. ReadOK(r)' /\ LocksOK(r)'
    BY <1>1, <1>2, <1>3, <1>5, <1>6, <1>7, DuesJob
  <1> QED
    BY <1>1, <1>5, <1>7, <1>8, BeginStep DEF JobOK

LEMMA FlushVoidKept ==
    ASSUME IInv, NEW r \in Requests, FlushVoid(r)
    PROVE  IInv'
  <1> DEFINE p == job[r].key
             row == SetStatus(db[p], "void")
  <1>1. /\ job[r].op = "void" /\ job[r].dues = <<>> /\ Free(r, p) /\ Write(r, p, row)
        /\ job' = [job EXCEPT ![r].step = "done"] /\ UNCHANGED <<db, arrived>>
    BY DEF FlushVoid, At
  <1>2. p \in Purchases /\ db[p] # NoRow
    BY <1>1, Facts DEF JobOK, KeyOK
  <1>3. /\ p \in Keys /\ p \notin Returns /\ db[p] \in Purchase /\ db[db[p].supplier] # NoRow
    BY <1>2, PurchaseRow
  <1>4. row \in Purchase /\ row.supplier = db[p].supplier /\ Dead(row) /\ row.paid = db[p].paid
    BY <1>3 DEF Purchase, SetStatus, Dead
  <1> HIDE DEF row
  <1>5. MayReplace(r, p, row) /\ row \in Table[p]
    BY <1>2, <1>3, <1>4, TableFacts DEF MayReplace
  <1>6. /\ job' \in [Requests -> JobRec] /\ OthersWait(r) /\ SameRequest(r) /\ Open(r)'
        /\ job'[r].step = "done" /\ job'[r].op = "void" /\ job'[r].key = p
        /\ job'[r].dues = <<>> /\ job'[r].keptOf = job[r].keptOf /\ job'[r].kept = job[r].kept
        /\ arrived' \in 0 .. MaxArrivals
    <2>1. Open(r) /\ arrived' = arrived
      BY <1>1 DEF Open
    <2> QED
      BY <1>1, <2>1, NextStep
  <1>7. JobOK(r)'
    <2>1. KeyOK(r)' /\ LocksOK(r)' /\ PayOK(r)' /\ ApproveOK(r)'
      BY <1>1, <1>2, <1>6 DEF KeyOK, LocksOK, PayOK, ApproveOK, At
    <2>2. ReadOK(r)'
      BY <1>1, <1>6, Facts DEF JobOK, ReadOK, At
    <2> QED
      BY <2>1, <2>2 DEF JobOK
  <1> QED
    BY <1>1, <1>2, <1>3, <1>5, <1>6, <1>7, FlushStep

LEMMA RecordPaymentKept ==
    ASSUME IInv, NEW r \in Requests, NEW p \in Purchases, NEW amount \in Amounts,
           RecordPayment(r, p, amount)
    PROVE  IInv'
  <1> DEFINE s == db[p].supplier
             dues == Due(s, - amount)
             row == AddPaidAmount(db[p], amount)
             j == [Job("pay", p) EXCEPT !.amount = amount, !.dues = dues]
  <1>1. /\ db[p] # NoRow /\ Free(r, p) /\ Begin(r, j) /\ Write(r, p, row) /\ UNCHANGED db
        /\ Job("pay", p).op \in Ops
    BY DEF RecordPayment, Begin, Job, NoJob
  <1>2. /\ p \in Keys /\ p \notin Returns /\ db[p] \in Purchase /\ s \in Suppliers
        /\ db[s] # NoRow
    BY <1>1, PurchaseRow
  <1>3. amount \in Nat
    BY Numbers
  <1>4. /\ row \in Purchase /\ row.supplier = s /\ (Dead(db[p]) => Dead(row))
    BY <1>2, <1>3 DEF AddPaidAmount, Purchase, Dead
  <1>5. DuesOf(dues, s) /\ dues # <<>>
    <2>1. /\ dues \in Seq(DueRec) /\ Len(dues) = 1 /\ dues # <<>> /\ dues[1].supplier = s
      BY <1>2, <1>3, DueType
    <2> QED
      BY <2>1 DEF DuesOf
  <1> HIDE DEF row, dues
  <1>6. row \in Table[p]
    BY <1>4, TableFacts
  <1>7. /\ j \in JobRec /\ j.op = "pay" /\ j.key = p /\ j.step = "done" /\ j.dues = dues
        /\ j.keptOf = NoKey
    <2>1. /\ Job("pay", p) \in JobRec /\ Job("pay", p).op = "pay" /\ Job("pay", p).key = p
          /\ Job("pay", p).step = "done" /\ Job("pay", p).keptOf = NoKey
      BY <1>1, <1>2, NewJob
    <2> QED
      BY <1>3, <1>5, <2>1 DEF JobRec, DuesOf
  <1> HIDE DEF j
  <1>8. /\ job' \in [Requests -> JobRec] /\ job'[r] = j /\ Open(r)' /\ OthersWait(r)
        /\ arrived' \in 0 .. MaxArrivals /\ SameRequest(r) /\ held[r] = {}
    BY <1>1, <1>7, Begun
  <1>9. held'[r] \subseteq Purchases \cup Returns
    <2>1. held'[r] = held[r] \cup {p}
      BY <1>1, <1>2, Facts, Written
    <2> QED
      BY <1>8, <2>1
  <1>10. KeyOK(r)' /\ PayOK(r)' /\ ApproveOK(r)'
    BY <1>1, <1>5, <1>7, <1>8 DEF KeyOK, PayOK, ApproveOK, At
  <1>11. ReadOK(r)' /\ LocksOK(r)'
    <2>1. db'[s] # NoRow /\ DuesOf(job'[r].dues, s) /\ job'[r].step = "done"
          /\ job'[r].keptOf = NoKey
      BY <1>1, <1>2, <1>5, <1>7, <1>8
    <2> HIDE DEF s
    <2> QED
      BY <1>9, <1>10, <2>1, DuesJob
  <1>12. MayReplace(r, p, row)
    BY <1>2, <1>4, <1>7, <1>8 DEF MayReplace
  <1> QED
    BY <1>1, <1>2, <1>6, <1>8, <1>10, <1>11, <1>12, FlushStep DEF JobOK

-----------------------------------------------------------------------------
(* Returns.                                                                *)

\* A return that there is, and its purchase.
LEMMA ReturnRow ==
    ASSUME IInv, NEW t \in Returns, db[t] # NoRow
    PROVE  /\ t \in Keys /\ t \notin Purchases /\ t \notin Suppliers /\ db[t] \in Return
           /\ db[t].purchase \in Purchases /\ db[db[t].purchase] # NoRow
  <1>1. t \in Keys /\ t \notin Purchases /\ t \notin Suppliers
    BY KeysApart
  <1>2. db[t] \in Return
    BY RowTypes DEF IInv
  <1>3. db[t].purchase \in Purchases
    BY <1>2 DEF Return
  <1>4. db[db[t].purchase] # NoRow
    BY DEF IInv, RowsRefer
  <1> QED
    BY <1>1, <1>2, <1>3, <1>4

LEMMA CreateReturnKept ==
    ASSUME IInv, NEW r \in Requests, NEW t \in Returns, NEW p \in Purchases,
           NEW body \in PurchaseReturnCreate, CreateReturn(r, t, p, body)
    PROVE  IInv'
  <1> DEFINE row == NewReturn(p, body)
             j == Job("return", t)
  <1>1. /\ Unused(t) /\ db[p] # NoRow /\ Begin(r, j) /\ UNCHANGED <<db, held>>
        /\ mine' = [mine EXCEPT ![r][t] = row] /\ j.op \in Ops
    BY DEF CreateReturn, Begin
  <1>2. row \in Return /\ row.purchase = p /\ row.status = "pending"
    <2>1. body.items \in Amounts /\ body.items \in Nat /\ body.penalty \in Nat
      BY Numbers DEF PurchaseReturnCreate
    <2>2. (IF body.items > body.penalty THEN body.items - body.penalty ELSE 0) \in Nat
      BY <2>1
    <2> QED
      BY <2>1, <2>2 DEF Return, NewReturn
  <1> HIDE DEF row
  <1>3. t \in Keys /\ row \in Table[t] /\ row # NoRow
    BY <1>2, TableFacts, NoRowIsNoRow
  <1>4. /\ j \in JobRec /\ j.op = "return" /\ j.key = t /\ j.step = "done" /\ j.dues = <<>>
        /\ j.keptOf = NoKey
    BY <1>1, <1>3, NewJob
  <1> HIDE DEF j
  <1>5. /\ job' \in [Requests -> JobRec] /\ job'[r] = j /\ Open(r)' /\ OthersWait(r)
        /\ arrived' \in 0 .. MaxArrivals /\ held[r] = {} /\ \A k \in Keys : mine[r][k] = NoRow
    BY <1>1, <1>4, Begun
  <1>6. SessionInv(Table)'
    BY <1>1, <1>3, <1>5, Facts, InsertStep
  <1>7. /\ mine'[r][t] = row /\ \A k \in Keys \ {t} : mine'[r][k] = NoRow
        /\ \A u \in Requests \ {r} : mine'[u] = mine[u]
    BY <1>1, <1>3, <1>5, Facts DEF SessionInv, SessionRows
  <1>8. VersionsOK(r)'
    <2>1. \A k \in Suppliers \cup Purchases \cup Catalogues : mine'[r][k] = NoRow
      BY <1>7, KeysApart
    <2>2. \A u \in Returns : mine'[r][u] # NoRow => u = t
      BY <1>7, KeysApart
    <2> QED
      BY <1>1, <1>2, <1>7, <2>1, <2>2 DEF VersionsOK, Unused
  <1>9. JobOK(r)'
    BY <1>4, <1>5, PlainJob DEF KeyOK
  <1> QED
    BY <1>1, <1>5, <1>6, <1>7, <1>8, <1>9, LocalStep DEF RequestOK, JobOK

LEMMA ReadReturnKept ==
    ASSUME IInv, NEW r \in Requests, NEW t \in Returns, NEW op, ReadReturn(r, t, op)
    PROVE  IInv'
  <1> DEFINE j == [Job(op, t) EXCEPT !.step = "write"]
  <1>1. /\ op \in {"approve", "reject"} /\ db[t] # NoRow /\ Begin(r, j)
        /\ UNCHANGED <<db, mine, held>> /\ Job(op, t).op \in Ops
    BY DEF ReadReturn, Begin, Job, NoJob
  <1>2. t \in Keys
    BY KeysApart
  <1>3. /\ j \in JobRec /\ j.op = op /\ j.key = t /\ j.step = "write" /\ j.dues = <<>>
        /\ j.keptOf = NoKey
    <2>1. /\ Job(op, t) \in JobRec /\ Job(op, t).op = op /\ Job(op, t).key = t
          /\ Job(op, t).dues = <<>> /\ Job(op, t).keptOf = NoKey
      BY <1>1, <1>2, NewJob
    <2> QED
      BY <2>1 DEF JobRec
  <1> HIDE DEF j
  <1>4. job'[r] = j /\ held[r] = {} /\ \A p \in Purchases : mine'[r][p] = NoRow
    BY <1>1, <1>3, Begun, KeysApart
  <1>5. JobOK(r)'
    BY <1>1, <1>3, <1>4 DEF JobOK, KeyOK, ReadOK, LocksOK, PayOK, ApproveOK, At
  <1> QED
    BY <1>1, <1>3, <1>5, BeginStep

LEMMA DecidedType ==
    ASSUME IInv, NEW t \in Returns, db[t] # NoRow, NEW status \in {"approved", "rejected"}
    PROVE  /\ Decided(t, status) \in Table[t] /\ Decided(t, status).status = status
           /\ Decided(t, status).purchase = db[t].purchase
           /\ Decided(t, status).total = db[t].total
  <1>1. db[t] \in Return /\ Table[t] = Return
    BY ReturnRow, TableFacts
  <1> QED
    BY <1>1 DEF Decided, Return

LEMMA ApproveReturnKept ==
    ASSUME IInv, NEW r \in Requests, ApproveReturn(r)
    PROVE  IInv'
  <1> DEFINE t == job[r].key
             row == Decided(t, "approved")
  <1>1. /\ job[r].op = "approve" /\ job[r].step = "write" /\ Free(r, t) /\ Write(r, t, row)
        /\ job' = [job EXCEPT ![r].step = "mark"] /\ UNCHANGED <<db, arrived>>
    BY DEF ApproveReturn, At
  <1>2. /\ t \in Returns /\ db[t] # NoRow /\ job[r].dues = <<>> /\ held[r] = {}
        /\ job[r].keptOf = NoKey /\ \A p \in Purchases : mine[r][p] = NoRow
    BY <1>1, Facts DEF JobOK, KeyOK, PayOK, LocksOK, ReadOK, ApproveOK
  <1>3. t \in Keys /\ t \notin Purchases
    BY <1>2, ReturnRow
  <1>4. /\ row \in Table[t] /\ row.purchase = db[t].purchase /\ row.total = db[t].total
    BY <1>2, DecidedType
  <1> HIDE DEF row
  <1>5. /\ job' \in [Requests -> JobRec] /\ OthersWait(r) /\ SameRequest(r) /\ Open(r)'
        /\ job'[r].step = "mark" /\ job'[r].op = "approve" /\ job'[r].key = t
        /\ job'[r].dues = <<>> /\ job'[r].keptOf = NoKey
        /\ arrived' \in 0 .. MaxArrivals
    <2>1. Open(r) /\ arrived' = arrived
      BY <1>1 DEF Open
    <2> QED
      BY <1>1, <1>2, <2>1, NextStep
  <1>6. held'[r] \subseteq {t} /\ \A p \in Purchases : mine'[r][p] = NoRow
    <2>1. /\ held'[r] = held[r] \cup {t} /\ \A k \in Keys \ {t} : mine'[r][k] = mine[r][k]
      BY <1>1, <1>3, Facts, Written
    <2> QED
      BY <1>2, <1>3, <2>1, KeysApart
  <1>7. JobOK(r)'
    BY <1>1, <1>2, <1>5, <1>6 DEF JobOK, KeyOK, ReadOK, LocksOK, PayOK, ApproveOK, At
  <1>8. MayReplace(r, t, row)
    BY <1>3, <1>4, <1>5 DEF MayReplace
  <1> QED
    BY <1>1, <1>2, <1>3, <1>4, <1>5, <1>7, <1>8, FlushStep

LEMMA RejectReturnKept ==
    ASSUME IInv, NEW r \in Requests, RejectReturn(r)
    PROVE  IInv'
  <1> DEFINE t == job[r].key
             row == Decided(t, "rejected")
  <1>1. /\ job[r].op = "reject" /\ Free(r, t) /\ Write(r, t, row)
        /\ job' = [job EXCEPT ![r].step = "done"] /\ UNCHANGED <<db, arrived>>
    BY DEF RejectReturn, At
  <1>2. t \in Returns /\ db[t] # NoRow /\ job[r].dues = <<>> /\ job[r].keptOf = NoKey
    BY <1>1, Facts DEF JobOK, KeyOK, PayOK, ReadOK
  <1>3. t \in Keys /\ t \notin Purchases
    BY <1>2, ReturnRow
  <1>4. /\ row \in Table[t] /\ row.purchase = db[t].purchase /\ row.total = db[t].total
        /\ row.status = "rejected"
    BY <1>2, DecidedType
  <1> HIDE DEF row
  <1>5. /\ job' \in [Requests -> JobRec] /\ OthersWait(r) /\ SameRequest(r) /\ Open(r)'
        /\ job'[r].step = "done" /\ job'[r].op = "reject" /\ job'[r].key = t
        /\ job'[r].dues = <<>> /\ job'[r].keptOf = NoKey
        /\ arrived' \in 0 .. MaxArrivals
    <2>1. Open(r) /\ arrived' = arrived
      BY <1>1 DEF Open
    <2> QED
      BY <1>1, <1>2, <2>1, NextStep
  <1>6. JobOK(r)'
    BY <1>1, <1>2, <1>5, PlainJob DEF KeyOK
  <1>7. MayReplace(r, t, row)
    BY <1>3, <1>4 DEF MayReplace
  <1> QED
    BY <1>1, <1>2, <1>3, <1>4, <1>5, <1>6, <1>7, FlushStep

LEMMA MarkReturnedKept ==
    ASSUME IInv, NEW r \in Requests, MarkReturned(r)
    PROVE  IInv'
  <1> DEFINE t == job[r].key
  <1>0. PICK p : p = db[t].purchase
    OBVIOUS
  <1> DEFINE row == SetStatus(db[p], "returned")
  <1>1. /\ job[r].op = "approve" /\ job[r].step = "mark" /\ Free(r, p)
        /\ IF Approved(r, p) >= db[p].total THEN Write(r, p, row)
           ELSE Hold(r, p) /\ UNCHANGED mine
        /\ job' = [job EXCEPT ![r].step = "done"] /\ UNCHANGED <<db, arrived>>
    BY <1>0 DEF MarkReturned, MarkReturnedWith, At
  <1>2. /\ t \in Returns /\ db[t] # NoRow /\ job[r].dues = <<>> /\ job[r].keptOf = NoKey
        /\ \A q \in Purchases : mine[r][q] = NoRow
    BY <1>1, Facts DEF JobOK, KeyOK, PayOK, ReadOK, ApproveOK
  <1>3. /\ p \in Purchases /\ p \in Keys /\ p \notin Returns /\ db[p] # NoRow
        /\ db[p] \in Purchase /\ db[db[p].supplier] # NoRow
    BY <1>0, <1>2, ReturnRow, PurchaseRow
  <1>4. /\ job' \in [Requests -> JobRec] /\ OthersWait(r) /\ SameRequest(r) /\ Open(r)'
        /\ job'[r].step = "done" /\ job'[r].op = "approve" /\ job'[r].key = t
        /\ job'[r].dues = <<>> /\ job'[r].keptOf = NoKey
        /\ arrived' \in 0 .. MaxArrivals
    <2>1. Open(r) /\ arrived' = arrived
      BY <1>1 DEF Open
    <2> QED
      BY <1>1, <1>2, <2>1, NextStep
  <1>5. KeyOK(r)' /\ ReadOK(r)' /\ LocksOK(r)' /\ PayOK(r)'
    BY <1>1, <1>2, <1>4 DEF KeyOK, ReadOK, LocksOK, PayOK, At
  <1>6. \A q \in Purchases : q = db'[job'[r].key].purchase => q = p
    BY <1>0, <1>1, <1>4
  <1>7. CASE Approved(r, p) >= db[p].total
    <2>1. Write(r, p, row)
      BY <1>1, <1>7
    <2>2. /\ row \in Purchase /\ row.supplier = db[p].supplier /\ row.paid = db[p].paid
          /\ row.status = "returned" /\ row # NoRow
      BY <1>3, NoRowIsNoRow DEF SetStatus, Purchase
    <2> HIDE DEF row
    <2>3. MayReplace(r, p, row) /\ row \in Table[p]
      BY <1>3, <2>2, TableFacts DEF MayReplace, Dead
    <2>4. mine'[r][p] = row /\ p \in held'[r]
      BY <1>3, <2>1, Facts, Written
    <2>5. ApproveOK(r)'
      BY <1>4, <1>6, <2>2, <2>4 DEF ApproveOK, At
    <2> QED
      BY <1>1, <1>3, <1>4, <1>5, <2>1, <2>3, <2>5, FlushStep DEF JobOK
  <1>8. CASE ~(Approved(r, p) >= db[p].total)
    <2>1. Hold(r, p) /\ UNCHANGED mine
      BY <1>1, <1>8
    <2>2. p \in held'[r] /\ mine'[r][p] = NoRow
      BY <1>2, <1>3, <2>1, Facts DEF Hold, SessionInv, SessionRows
    <2>3. Approved(r, p) \in Int /\ db[p].total \in Int
      <3>1. ReturnRows(db) /\ ReturnRows(mine[r])
        BY RowTypes DEF IInv, ReturnRows
      <3>2. ApprovedOf(db, mine[r], p) \in Int
        BY <3>1, ApprovedType
      <3> QED
        BY <1>3, <3>2, ApprovedIs DEF Purchase
    <2>4. Approved(r, p)' = Approved(r, p)
      BY <1>1, <2>1 DEF Approved, ReturnsOf, Seen
    <2>5. ApproveOK(r)'
      <3>1. Approved(r, p)' < db'[p].total
        BY <1>1, <1>8, <2>3, <2>4
      <3> QED
        BY <1>4, <1>6, <2>2, <3>1 DEF ApproveOK, At
    <2> QED
      BY <1>1, <1>3, <1>4, <1>5, <2>1, <2>5, LockStep DEF JobOK
  <1> QED
    BY <1>7, <1>8

LEMMA RecordReturnPaymentKept ==
    ASSUME IInv, NEW r \in Requests, NEW t \in Returns, NEW amount \in Amounts,
           RecordReturnPayment(r, t, amount)
    PROVE  IInv'
  <1> DEFINE j == [Job("refund", t) EXCEPT !.step = "write", !.amount = amount,
                                           !.loaded = db[t]]
  <1>1. /\ db[t] # NoRow /\ Begin(r, j) /\ UNCHANGED <<db, mine, held>>
        /\ Job("refund", t).op \in Ops
    BY DEF RecordReturnPayment, Begin, Job, NoJob
  <1>2. t \in Keys /\ db[t] \in Return /\ amount \in Nat
    BY <1>1, ReturnRow, Numbers
  <1>3. /\ j \in JobRec /\ j.op = "refund" /\ j.key = t /\ j.step = "write" /\ j.amount = amount
        /\ j.loaded = db[t] /\ j.dues = <<>> /\ j.keptOf = NoKey
    <2>1. /\ Job("refund", t) \in JobRec /\ Job("refund", t).op = "refund"
          /\ Job("refund", t).key = t /\ Job("refund", t).dues = <<>>
          /\ Job("refund", t).keptOf = NoKey
      BY <1>1, <1>2, NewJob
    <2> QED
      BY <1>2, <2>1 DEF JobRec
  <1> HIDE DEF j
  <1>4. job'[r] = j /\ held[r] = {} /\ \A s \in Suppliers : mine'[r][s] = NoRow
    BY <1>1, <1>3, Begun, KeysApart
  <1>5. JobOK(r)'
    BY <1>1, <1>2, <1>3, <1>4 DEF JobOK, KeyOK, ReadOK, LocksOK, PayOK, ApproveOK, At
  <1> QED
    BY <1>1, <1>3, <1>5, BeginStep

LEMMA FlushRefundKept ==
    ASSUME IInv, NEW r \in Requests, FlushRefund(r)
    PROVE  IInv'
  <1> DEFINE t == job[r].key
             row == [db[t] EXCEPT !.received = job[r].loaded.received + job[r].amount]
             j == [job[r] EXCEPT !.step = "lock", !.loaded = NoRow]
  <1>1. /\ At(r, "refund", "write") /\ Free(r, t) /\ Write(r, t, row)
        /\ job' = [job EXCEPT ![r].step = "lock", ![r].loaded = NoRow]
        /\ UNCHANGED <<db, arrived>>
    BY DEF FlushRefund
  <1>2. /\ t \in Returns /\ db[t] # NoRow /\ job[r].loaded \in Return /\ job[r].dues = <<>>
        /\ held[r] = {} /\ job[r].keptOf = NoKey /\ job[r].amount \in Nat
        /\ \A s \in Suppliers : mine[r][s] = NoRow
    BY <1>1, Facts DEF JobOK, KeyOK, ReadOK, LocksOK, PayOK, At, JobRec
  <1>3. t \in Keys /\ t \notin Purchases /\ t \notin Suppliers /\ db[t] \in Return
    BY <1>2, ReturnRow
  <1>4. /\ row \in Return /\ row.purchase = db[t].purchase /\ row.total = db[t].total
        /\ row.status = db[t].status
    BY <1>2, <1>3 DEF Return
  <1>5. row \in Table[t] /\ MayReplace(r, t, row)
    BY <1>2, <1>3, <1>4, TableFacts DEF MayReplace
  <1> HIDE DEF row
  <1>6. /\ j \in JobRec /\ j.op = "refund" /\ j.key = t /\ j.step = "lock" /\ j.dues = <<>>
        /\ j.keptOf = NoKey /\ job' = [job EXCEPT ![r] = j]
    <2>1. job \in [Requests -> JobRec] /\ job[r] \in JobRec
      BY Facts DEF IInv
    <2> QED
      BY <1>1, <1>2, <2>1 DEF JobRec, At
  <1> HIDE DEF j
  <1>7. job' \in [Requests -> JobRec] /\ job'[r] = j /\ OthersWait(r)
    BY <1>6, Resumed
  <1>8. Open(r)' /\ SameRequest(r) /\ arrived' \in 0 .. MaxArrivals
    BY <1>1, <1>6, <1>7, Facts DEF Open, SameRequest, At
  <1>9. held'[r] \subseteq {t} /\ \A s \in Suppliers : mine'[r][s] = NoRow
    <2>1. /\ held'[r] = held[r] \cup {t} /\ \A k \in Keys \ {t} : mine'[r][k] = mine[r][k]
      BY <1>1, <1>3, Facts, Written
    <2> QED
      BY <1>2, <1>3, <2>1, KeysApart
  <1>10. JobOK(r)'
    BY <1>1, <1>2, <1>6, <1>7, <1>9 DEF JobOK, KeyOK, ReadOK, LocksOK, PayOK, ApproveOK, At
  <1> QED
    BY <1>1, <1>2, <1>3, <1>5, <1>7, <1>8, <1>10, FlushStep

LEMMA LockPurchaseKept ==
    ASSUME IInv, NEW r \in Requests, LockPurchase(r)
    PROVE  IInv'
  <1> DEFINE t == job[r].key
  <1>0. PICK p, s : p = db[t].purchase /\ s = db[p].supplier
    OBVIOUS
  <1> DEFINE dues == Due(s, - job[r].amount)
             j == [job[r] EXCEPT !.step = "done", !.dues = dues]
  <1>1. /\ job[r].op = "refund" /\ job[r].step = "lock" /\ Free(r, p) /\ Hold(r, p)
        /\ job' = [job EXCEPT ![r].step = "done", ![r].dues = dues]
        /\ UNCHANGED <<db, mine, arrived>>
    BY <1>0 DEF LockPurchase, At
  <1>2. /\ t \in Returns /\ db[t] # NoRow /\ held[r] \subseteq {t} /\ job[r].keptOf = NoKey
        /\ job[r].amount \in Nat /\ \A u \in Suppliers : mine[r][u] = NoRow
    BY <1>1, Facts DEF JobOK, KeyOK, LocksOK, ReadOK, PayOK, JobRec
  <1>3. /\ p \in Purchases /\ p \in Keys /\ db[p] # NoRow /\ s \in Suppliers /\ db[s] # NoRow
    BY <1>0, <1>2, ReturnRow, PurchaseRow
  <1>4. /\ dues = <<[supplier |-> s, delta |-> - job[r].amount]>> /\ dues \in Seq(DueRec)
        /\ Len(dues) = 1 /\ dues[1].supplier = s
    <2>1. - job[r].amount \in Int
      BY <1>2
    <2> QED
      BY <1>3, <2>1, DueType
  <1> HIDE DEF dues
  <1>5. /\ j \in JobRec /\ j.op = "refund" /\ j.key = t /\ j.step = "done" /\ j.dues = dues
        /\ j.keptOf = NoKey /\ j.amount = job[r].amount /\ job' = [job EXCEPT ![r] = j]
    <2>1. job \in [Requests -> JobRec] /\ job[r] \in JobRec
      BY Facts DEF IInv
    <2> QED
      BY <1>1, <1>2, <1>4, <2>1 DEF JobRec
  <1> HIDE DEF j
  <1>6. job' \in [Requests -> JobRec] /\ job'[r] = j /\ OthersWait(r)
    BY <1>5, Resumed
  <1>7. Open(r)' /\ SameRequest(r)
    BY <1>1, <1>5, <1>6 DEF Open, SameRequest
  <1>8. held'[r] = held[r] \cup {p}
    BY <1>1, Facts DEF Hold, SessionInv, SessionRows
  <1>9. KeyOK(r)' /\ ApproveOK(r)'
    BY <1>1, <1>2, <1>5, <1>6 DEF KeyOK, ApproveOK, At
  <1>10. ReadOK(r)' /\ LocksOK(r)'
    <2>1. DuesOf(dues, s)
      BY <1>4 DEF DuesOf
    <2>2. DuesOf(job'[r].dues, s) /\ db'[s] # NoRow /\ job'[r].keptOf = NoKey
      BY <1>1, <1>3, <1>5, <1>6, <2>1
    <2>3. held'[r] \subseteq Purchases \cup Returns /\ job'[r].step = "done"
      BY <1>2, <1>3, <1>5, <1>6, <1>8
    <2> QED
      BY <1>9, <2>2, <2>3, DuesJob
  <1>11. PayOK(r)'
    <2>1. MoneyOK(r, s)'
      BY <1>1, <1>2, <1>3, <1>4, <1>5, <1>6 DEF MoneyOK
    <2>2. /\ db'[job'[r].key].purchase = p /\ db'[p].supplier = s /\ p \in held'[r]
      BY <1>0, <1>1, <1>5, <1>6, <1>8
    <2>3. \A u \in Suppliers : u = db'[p].supplier => MoneyOK(r, u)'
      BY <2>1, <2>2
    <2> QED
      BY <1>5, <1>6, <2>2, <2>3 DEF PayOK, At
  <1>12. JobOK(r)'
    BY <1>9, <1>10, <1>11 DEF JobOK
  <1> QED
    BY <1>1, <1>3, <1>6, <1>7, <1>12, LockStep

-----------------------------------------------------------------------------
(* The whole.                                                              *)

\* A session that has ended has nothing to answer for.
LEMMA NoRequest ==
    ASSUME NEW r, job'[r] = NoJob, \A k \in Keys : mine'[r][k] = NoRow
    PROVE  RequestOK(r)'
  <1>1. /\ job'[r].op = "none" /\ job'[r].key = NoKey /\ job'[r].dues = <<>>
        /\ job'[r].keptOf = NoKey /\ job'[r].step = "done"
    BY DEF NoJob
  <1>2. VersionsOK(r)'
    <2>1. \A k \in Suppliers \cup Purchases \cup Returns \cup Catalogues : mine'[r][k] = NoRow
      BY KeysApart
    <2> QED
      BY <2>1 DEF VersionsOK
  <1>3. JobOK(r)'
    BY <1>1 DEF JobOK, KeyOK, ReadOK, LocksOK, PayOK, ApproveOK, At
  <1> QED
    BY <1>2, <1>3 DEF RequestOK, JobOK

\* An approval that commits has locked the purchase: no session that has locked it
\* sees another return of it approved.
LEMMA CommitApproves ==
    ASSUME IInv, NEW r \in Requests, Commit(r), NEW s \in Requests \ {r},
           NEW t \in Returns, NEW p \in held[s], db'[t] # NoRow, db'[t].purchase = p,
           db'[t].status = "approved"
    PROVE  db[t] # NoRow /\ db[t].status = "approved"
  <1>1. SessionInv(Table) /\ DOMAIN Table = Keys /\ t \in Keys
    BY Facts, KeysApart
  <1>2. db'[t] = IF mine[r][t] # NoRow THEN mine[r][t] ELSE db[t]
    BY <1>1, Published
  <1>3. CASE mine[r][t] = NoRow
    BY <1>2, <1>3
  <1>4. CASE mine[r][t] # NoRow
    <2> SUFFICES ASSUME ~(db[t] # NoRow /\ db[t].status = "approved")
                 PROVE  FALSE
      OBVIOUS
    <2>1. mine[r][t].purchase = p /\ mine[r][t].status = "approved"
      BY <1>2, <1>4
    <2>2. /\ job[r].op = "approve" /\ job[r].key = t
          /\ db[t] # NoRow => mine[r][t].purchase = db[t].purchase
      BY <1>4, <2>1, Facts DEF VersionsOK
    <2>3. db[t] # NoRow /\ db[t].purchase = p
      BY <2>1, <2>2, Facts DEF JobOK, KeyOK
    <2>4. p \in Purchases
      BY <2>3, ReturnRow
    <2>5. job[r].step = "done"
      BY DEF Commit
    <2>6. p \in held[r]
      BY <2>2, <2>3, <2>4, <2>5, Facts DEF JobOK, ApproveOK, At
    <2> QED
      BY <1>1, <2>6 DEF SessionInv, SessionLocks, Free
  <1> QED
    BY <1>3, <1>4

LEMMA CommitKept ==
    ASSUME IInv, NEW r \in Requests, Commit(r)
    PROVE  IInv'
  <1>1. /\ SessionInv(Table) /\ EndSession(r) /\ job \in [Requests -> JobRec]
        /\ DOMAIN Table = Keys /\ NoJob \in JobRec
    BY Facts DEF Commit, IInv, JobRec, NoJob
  <1>2. SessionInv(Table)'
    BY <1>1, CommitStep
  <1>3. /\ job'[r] = NoJob /\ OthersWait(r) /\ \A k \in Keys : mine'[r][k] = NoRow
        /\ \A s \in Requests \ {r} : mine'[s] = mine[s] /\ held'[s] = held[s]
    <2>1. /\ job'[r] = NoJob /\ OthersWait(r) /\ \A k \in DOMAIN Table : mine'[r][k] = NoRow
          /\ \A s \in Requests \ {r} : mine'[s] = mine[s]
          /\ \A s \in Requests \ {r} : held'[s] = held[s]
      BY <1>1, EndOfSession, Zenon
    <2> QED
      BY <1>1, <2>1
  <1>4. job' \in [Requests -> JobRec]
    BY <1>1 DEF EndSession
  <1>5. \A k \in Keys : /\ db'[k] = IF mine[r][k] # NoRow THEN mine[r][k] ELSE db[k]
                        /\ db[k] # NoRow => db'[k] # NoRow
    BY <1>1, Published
  <1>6. \A s \in Requests \ {r} : RowsKept(s)
    <2>1. \A s \in Requests \ {r} : \A k \in Keys :
             k \in held[s] \/ mine[s][k] # NoRow => db'[k] = db[k]
      BY <1>1, CommitSpares
    <2>2. \A t \in Returns : db[t] # NoRow =>
             db'[t].purchase = db[t].purchase /\ db'[t].total = db[t].total
      BY <1>5, Facts DEF VersionsOK
    <2>3. \A s \in Requests \ {r} : \A t \in Returns, p \in held[s] :
             db'[t] # NoRow /\ db'[t].purchase = p /\ db'[t].status = "approved" =>
                db[t] # NoRow /\ db[t].status = "approved"
      BY CommitApproves
    <2> QED
      BY <1>5, <2>1, <2>2, <2>3 DEF RowsKept
  <1>7. RowsRefer'
    <2>1. ASSUME NEW p \in Purchases, db'[p] # NoRow
          PROVE  db'[db'[p].supplier] # NoRow
      <3>1. db'[p] = (IF mine[r][p] # NoRow THEN mine[r][p] ELSE db[p]) /\ p \in Keys
        BY <1>5, KeysApart
      <3>2. Seen(r, p) = db'[p]
        BY <3>1 DEF Seen
      <3>3. db'[p] \in Purchase /\ db[db'[p].supplier] # NoRow
        <4>1. CASE db[p] # NoRow
          BY <3>2, <4>1, SeenPurchase
        <4>2. CASE db[p] = NoRow
          <5>1. mine[r][p] # NoRow /\ db'[p] = mine[r][p]
            BY <2>1, <3>1, <4>2
          <5> QED
            BY <5>1, Facts, RowTypes DEF VersionsOK, Known, IInv
        <4> QED
          BY <4>1, <4>2
      <3>4. db'[p].supplier \in Keys
        BY <3>3, KeysApart DEF Purchase
      <3> QED
        BY <1>5, <3>3, <3>4
    <2>2. ASSUME NEW t \in Returns, db'[t] # NoRow
          PROVE  db'[db'[t].purchase] # NoRow
      <3>1. db'[t] = (IF mine[r][t] # NoRow THEN mine[r][t] ELSE db[t]) /\ t \in Keys
        BY <1>5, KeysApart
      <3>2. db'[t] \in Return
        BY <2>2, <3>1, RowTypes DEF IInv
      <3>3. db[db'[t].purchase] # NoRow
        BY <2>2, <3>1, Facts DEF VersionsOK, RowsRefer
      <3>4. db'[t].purchase \in Keys
        BY <3>2, KeysApart DEF Return
      <3> QED
        BY <1>5, <3>3, <3>4
    <2>3. ASSUME NEW s \in Suppliers
          PROVE  db'[s] # NoRow <=> db'[Catalogue(s)] # NoRow
      <3>1. s \in Keys /\ Catalogue(s) \in Keys /\ Catalogue(s) \in Catalogues
        BY KeysApart
      <3>2. db'[s] # NoRow <=> db[s] # NoRow
        BY <1>5, <3>1, Facts DEF VersionsOK
      <3>3. db'[Catalogue(s)] # NoRow <=> db[Catalogue(s)] # NoRow
        BY <1>5, <3>1, Facts DEF VersionsOK
      <3> QED
        BY <3>2, <3>3, Facts DEF RowsRefer
    <2> QED
      BY <2>1, <2>2, <2>3 DEF RowsRefer, Known
  <1>8. RequestOK(r)'
    BY <1>3, NoRequest
  <1> QED
    BY <1>2, <1>3, <1>4, <1>6, <1>7, <1>8, SessionStep DEF OthersWait

LEMMA RollbackKept ==
    ASSUME IInv, NEW r \in Requests, Rollback(r)
    PROVE  IInv'
  <1>1. /\ SessionInv(Table) /\ EndSession(r) /\ job \in [Requests -> JobRec]
        /\ DOMAIN Table = Keys /\ NoJob \in JobRec /\ db' = db
    BY Facts DEF Rollback, IInv, JobRec, NoJob
  <1>2. SessionInv(Table)'
    BY <1>1, RollbackStep
  <1>3. /\ job'[r] = NoJob /\ OthersWait(r) /\ \A k \in Keys : mine'[r][k] = NoRow
        /\ \A s \in Requests \ {r} : mine'[s] = mine[s] /\ held'[s] = held[s]
    <2>1. /\ job'[r] = NoJob /\ OthersWait(r) /\ \A k \in DOMAIN Table : mine'[r][k] = NoRow
          /\ \A s \in Requests \ {r} : mine'[s] = mine[s]
          /\ \A s \in Requests \ {r} : held'[s] = held[s]
      BY <1>1, EndOfSession, Zenon
    <2> QED
      BY <1>1, <2>1
  <1>4. job' \in [Requests -> JobRec]
    BY <1>1 DEF EndSession
  <1>5. RequestOK(r)'
    BY <1>3, NoRequest
  <1> QED
    BY <1>1, <1>2, <1>3, <1>4, <1>5, LocalStep

LEMMA InitIInv ==
    ASSUME Init
    PROVE  IInv
  <1>1. SessionInv(Table)
    BY TableFacts, InitSession DEF Init
  <1>2. /\ \A r \in Requests : job[r] = NoJob /\ \A k \in Keys : mine[r][k] = NoRow
        /\ \A k \in Keys : db[k] = NoRow
        /\ job = [r \in Requests |-> NoJob] /\ NoJob \in JobRec
    BY DEF Init, SessionInit, JobRec, NoJob
  <1>3. job \in [Requests -> JobRec]
    BY <1>2
  <1>4. RowsRefer
    BY <1>2, KeysApart DEF RowsRefer
  <1>5. ASSUME NEW r \in Requests
        PROVE  RequestOK(r)
    <2>1. VersionsOK(r)
      <3>1. \A k \in Suppliers \cup Purchases \cup Returns \cup Catalogues : mine[r][k] = NoRow
        BY <1>2, KeysApart
      <3> QED
        BY <3>1 DEF VersionsOK
    <2>2. /\ job[r].op = "none" /\ job[r].key = NoKey /\ job[r].dues = <<>>
          /\ job[r].keptOf = NoKey /\ job[r].step = "done"
      BY <1>2 DEF NoJob
    <2> QED
      BY <2>1, <2>2 DEF RequestOK, KeyOK, ReadOK, LocksOK, PayOK, ApproveOK, At
  <1> QED
    BY <1>1, <1>3, <1>4, <1>5 DEF IInv

LEMMA SupplierStepKept ==
    ASSUME IInv, NEW r \in Requests, SupplierStep(r)
    PROVE  IInv'
  BY CreateSupplierKept, UpdateSupplierKept, DeleteSupplierKept, RecordSupplierPaymentKept,
     ReplaceItemsKept, ApplyDueKept
  DEF SupplierStep, SupplierPaymentCreate

LEMMA PurchaseStepKept ==
    ASSUME IInv, NEW r \in Requests, PurchaseStep(r)
    PROVE  IInv'
  BY CreatePurchaseKept, UpdatePurchaseKept, VoidPurchaseKept, RecordPaymentKept,
     FlushPatchKept, SettlePaidKept, ReapplyKept, FlushVoidKept
  DEF PurchaseStep, PurchasePaymentCreate

LEMMA ReturnStepKept ==
    ASSUME IInv, NEW r \in Requests, ReturnStep(r)
    PROVE  IInv'
  BY CreateReturnKept, ReadReturnKept, RecordReturnPaymentKept, ApproveReturnKept,
     MarkReturnedKept, RejectReturnKept, FlushRefundKept, LockPurchaseKept
  DEF ReturnStep, PurchaseReturnPaymentCreate

LEMMA IInvStep ==
    ASSUME IInv, [Next]_sessionVars
    PROVE  IInv'
  <1>1. CASE Next
    BY <1>1, SupplierStepKept, PurchaseStepKept, ReturnStepKept, CommitKept, RollbackKept DEF Next
  <1>2. CASE UNCHANGED sessionVars
    <2>1. /\ SessionInv(Table)' /\ (job \in [Requests -> JobRec])' /\ RowsRefer'
      BY <1>2 DEF sessionVars, IInv, SessionInv, SessionRows, SessionLocks, Free, Open, RowsRefer,
                  Known
    <2>2. \A r \in Requests : RequestOK(r)'
      BY <1>2, <2>1, Undisturbed DEF sessionVars, RowsKept
    <2> QED
      BY <2>1, <2>2 DEF IInv
  <1> QED
    BY <1>1, <1>2

LEMMA Invariance == Spec => []IInv
  BY InitIInv, IInvStep, PTL DEF Spec

-----------------------------------------------------------------------------
(* What it comes to.                                                       *)

\* Only a commit changes the rows of others, but for the insert of a supplier.
LEMMA OnlyCommits ==
    ASSUME NEW r \in Requests,
           SupplierStep(r) \/ PurchaseStep(r) \/ ReturnStep(r) \/ Commit(r) \/ Rollback(r)
    PROVE  \/ db' = db \/ Commit(r)
           \/ job' = job /\ \E s \in Suppliers, body \in SupplierCreate : CreateSupplier(s, body)
  <1>1. CASE SupplierStep(r)
    BY <1>1 DEF SupplierStep, CreateSupplier, UpdateSupplier, ReplaceItems, DeleteSupplier,
                RecordSupplierPayment, ApplyDue, ApplyDueWith
  <1>2. CASE PurchaseStep(r)
    BY <1>2 DEF PurchaseStep, CreatePurchase, UpdatePurchase, VoidPurchase, RecordPayment,
                FlushPatch, SettlePaid, Reapply, FlushVoid
  <1>3. CASE ReturnStep(r)
    BY <1>3 DEF ReturnStep, CreateReturn, ReadReturn, RecordReturnPayment, ApproveReturn,
                MarkReturned, MarkReturnedWith, RejectReturn, FlushRefund, LockPurchase
  <1>4. CASE Rollback(r)
    BY <1>4 DEF Rollback
  <1> QED
    BY <1>1, <1>2, <1>3, <1>4

\* A purchase that is there is changed by a commit alone.
LEMMA PurchaseChanges ==
    ASSUME IInv, [Next]_sessionVars, NEW p \in Purchases, db'[p] # db[p]
    PROVE  \E r \in Requests : /\ Commit(r) /\ Committing(r)
                               /\ mine[r][p] # NoRow /\ db'[p] = mine[r][p]
  <1>1. Next
    BY DEF sessionVars
  <1>2. PICK r \in Requests : SupplierStep(r) \/ PurchaseStep(r) \/ ReturnStep(r)
                              \/ Commit(r) \/ Rollback(r)
    BY <1>1 DEF Next
  <1>3. p \in Keys /\ DOMAIN db = Keys /\ p \notin Suppliers /\ p \notin Catalogues
    BY KeysApart, TableFacts DEF IInv, SessionInv, SessionRows
  <1>4. ~ \E s \in Suppliers, body \in SupplierCreate : CreateSupplier(s, body)
    BY <1>3, KeysApart DEF CreateSupplier
  <1>5. Commit(r)
    BY <1>2, <1>4, OnlyCommits
  <1>6. db'[p] = IF mine[r][p] # NoRow THEN mine[r][p] ELSE db[p]
    BY <1>3, <1>5, Facts, Published
  <1>7. Committing(r)
    BY <1>5 DEF Commit, EndSession, Committing, NoJob, IInv
  <1> QED
    BY <1>5, <1>6, <1>7

\* A session that commits something is at its commit, and its rows are published.
LEMMA CommittingCommits ==
    ASSUME IInv, [Next]_sessionVars, NEW r \in Requests, Committing(r)
    PROVE  /\ job[r].step = "done" /\ job[r].dues = <<>>
           /\ \A k \in Keys : db'[k] = IF mine[r][k] # NoRow THEN mine[r][k] ELSE db[k]
  <1>1. Open(r) /\ ~Open(r)' /\ db' # db
    BY DEF Committing, Open
  <1>2. PICK s \in Requests : SupplierStep(s) \/ PurchaseStep(s) \/ ReturnStep(s)
                              \/ Commit(s) \/ Rollback(s)
    BY <1>1 DEF Next, sessionVars
  <1>3. job' # job
    BY <1>1 DEF Open
  <1>4. Commit(s)
    BY <1>1, <1>2, <1>3, OnlyCommits
  <1>5. s = r
    BY <1>1, <1>4 DEF Commit, EndSession, Open, IInv
  <1> QED
    BY <1>4, <1>5, Facts, Published DEF Commit

\* The rows, the locks and what the sessions remember are of their types.
THEOREM TypeCorrect == Spec => []TypeOK
  <1>1. ASSUME IInv
        PROVE  TypeOK
    <2> DEFINE Rows == Supplier \cup SupplierItem \cup Purchase \cup Return
    <2>1. SessionInv(Table) /\ DOMAIN Table = Keys /\ DOMAIN db = Keys
      BY <1>1, TableFacts DEF IInv, SessionInv, SessionRows
    <2>2. \A k \in Keys : Table[k] \subseteq Rows
      BY DEF Table
    <2>3. /\ \A k \in Keys : db[k] \in Rows \cup {NoRow}
          /\ \A r \in Requests, k \in Keys : mine[r][k] \in Rows \cup {NoRow}
          /\ \A r \in Requests : held[r] \subseteq Keys
          /\ arrived \in 0 .. MaxArrivals
      BY <2>1, <2>2 DEF SessionInv, SessionRows
    <2>4. \A r \in Requests : /\ job[r].op \in Ops \cup {"none"}
                              /\ job[r].key \in Keys \cup {NoKey}
                              /\ job[r].kept \in Supplier \cup {NoRow}
      BY <1>1 DEF IInv, JobRec
    <2> QED
      BY <2>1, <2>3, <2>4 DEF TypeOK, SessionTypeOK
  <1> QED
    BY <1>1, Invariance, PTL

\* A purchase that is void or returned is never confirmed again, whatever was read
\* before it was closed.
THEOREM DeadPurchasesStayDead == Spec => DeadStaysDead
  <1> DEFINE A == \A p \in Purchases :
                    db[p] # NoRow /\ db[p].status # "confirmed" =>
                       db'[p].status # "confirmed"
  <1>1. ASSUME IInv, [Next]_sessionVars
        PROVE  [A]_sessionVars
    <2> SUFFICES ASSUME NEW p \in Purchases, db[p] # NoRow, Dead(db[p])
                 PROVE  Dead(db'[p])
      BY DEF Dead
    <2>1. CASE db'[p] = db[p]
      BY <2>1
    <2>2. CASE db'[p] # db[p]
      <3>1. PICK r \in Requests : mine[r][p] # NoRow /\ db'[p] = mine[r][p]
        BY <1>1, <2>2, PurchaseChanges
      <3>2. Dead(mine[r][p])
        BY <1>1, <3>1, Facts DEF VersionsOK
      <3> QED
        BY <3>1, <3>2
    <2> QED
      BY <2>1, <2>2
  <1> HIDE DEF A
  <1>2. Spec => [][A]_sessionVars
    BY <1>1, Invariance, PTL DEF Spec
  <1> QED
    BY <1>2 DEF DeadStaysDead, A

\* A session that waits, with locks: for a supplier when it has purchases and
\* returns, for a purchase when it has returns.
LEMMA LockOrder ==
    ASSUME IInv, NEW r \in Requests, job[r].op # "void", Wants(r) \in Keys \ held[r],
           held[r] # {}
    PROVE  \/ Wants(r) \in Suppliers /\ held[r] \subseteq Purchases \cup Returns
           \/ Wants(r) \in Purchases /\ held[r] \subseteq Returns
  <1>1. JobOK(r)
    BY Facts
  <1>2. CASE job[r].dues # <<>>
    <2>1. Wants(r) = Head(job[r].dues).supplier
      BY <1>2 DEF Wants
    <2>2. held[r] \subseteq Purchases \cup Returns \cup {Wants(r)}
      BY <1>1, <1>2, <2>1 DEF JobOK, LocksOK
    <2>3. Wants(r) \in Suppliers
      BY <1>2, <2>1, NextDue
    <2> QED
      BY <2>2, <2>3
  <1>3. CASE job[r].dues = <<>> /\ job[r].step \in {"mark", "lock"}
    <2>1. job[r].op \in {"approve", "refund"}
      BY <1>1, <1>3 DEF JobOK, KeyOK
    <2>2. job[r].key \in Returns /\ db[job[r].key] # NoRow /\ held[r] \subseteq {job[r].key}
      BY <1>1, <1>3, <2>1 DEF JobOK, KeyOK, LocksOK
    <2>3. Wants(r) = db[job[r].key].purchase
      BY <1>3, <2>2 DEF Wants
    <2> QED
      BY <2>2, <2>3, ReturnRow
  <1>4. CASE job[r].dues = <<>> /\ job[r].step \in {"write", "patch", "settle"}
    <2>1. Wants(r) = job[r].key
      BY <1>4 DEF Wants
    <2>2. held[r] \subseteq {job[r].key}
      BY <1>1, <1>4 DEF JobOK, LocksOK
    <2> QED
      BY <2>1, <2>2
  <1>5. CASE job[r].dues = <<>> /\ job[r].step \notin {"mark", "lock", "write", "patch", "settle"}
    BY <1>5, KeysApart DEF Wants
  <1> QED
    BY <1>2, <1>3, <1>4, <1>5

\* Of two sessions that wait for each other, one voids a purchase: everything else
\* locks returns, purchases and suppliers in this order.
THEOREM VoidsAloneDeadlock == Spec => []OnlyVoidsDeadlock
  <1>1. ASSUME IInv
        PROVE  OnlyVoidsDeadlock
    <2> SUFFICES ASSUME NEW r \in Requests, NEW s \in Requests,
                        Wants(r) \in held[s] \ held[r], Wants(s) \in held[r] \ held[s],
                        job[r].op # "void", job[s].op # "void"
                 PROVE  FALSE
      BY DEF OnlyVoidsDeadlock
    <2>1. held[r] \subseteq Keys /\ held[s] \subseteq Keys /\ held[r] # {} /\ held[s] # {}
      BY <1>1, Facts
    <2>2. \/ Wants(r) \in Suppliers /\ held[r] \subseteq Purchases \cup Returns
          \/ Wants(r) \in Purchases /\ held[r] \subseteq Returns
      BY <1>1, <2>1, LockOrder
    <2>3. \/ Wants(s) \in Suppliers /\ held[s] \subseteq Purchases \cup Returns
          \/ Wants(s) \in Purchases /\ held[s] \subseteq Returns
      BY <1>1, <2>1, LockOrder
    <2> QED
      BY <2>2, <2>3, KeysApart
  <1> QED
    BY <1>1, Invariance, PTL

\* Approvals that overlap do not miss each other: when the returns that are approved
\* after an approval cover the purchase, that approval has marked it.
THEOREM ApprovalsMark == Spec => LastApprovalMarks
  <1> DEFINE Total(p) == SumFunction([t \in ReturnsOf(p) |->
                            IF db'[t].status = "approved" THEN db'[t].total ELSE 0])
             A == \A r \in Requests :
                    Committing(r) /\ job[r].op = "approve" =>
                       LET p == db[job[r].key].purchase IN
                       Total(p) >= db'[p].total => db'[p].status = "returned"
  <1>1. ASSUME IInv, [Next]_sessionVars
        PROVE  [A]_sessionVars
    <2> SUFFICES ASSUME NEW r \in Requests, Committing(r), job[r].op = "approve",
                        NEW p, p = db[job[r].key].purchase, Total(p) >= db'[p].total
                 PROVE  db'[p].status = "returned"
      OBVIOUS
    <2>1. /\ job[r].step = "done"
          /\ \A k \in Keys : db'[k] = IF mine[r][k] # NoRow THEN mine[r][k] ELSE db[k]
      BY <1>1, CommittingCommits
    <2>2. job[r].key \in Returns /\ db[job[r].key] # NoRow
      BY <1>1, Facts DEF JobOK, KeyOK
    <2>3. p \in Purchases /\ p \in Keys /\ db[p] # NoRow /\ db[p] \in Purchase
      BY <1>1, <2>2, ReturnRow, PurchaseRow
    <2>4. IF mine[r][p] # NoRow THEN mine[r][p].status = "returned"
          ELSE Approved(r, p) < db[p].total
      BY <1>1, <2>1, <2>3, Facts DEF JobOK, ApproveOK, At
    <2>5. CASE mine[r][p] # NoRow
      BY <2>1, <2>3, <2>4, <2>5
    <2>6. CASE mine[r][p] = NoRow
      <3>1. \A t \in ReturnsOf(p) : db'[t] = Seen(r, t)
        BY <2>1, KeysApart DEF Seen, ReturnsOf
      <3>2. Total(p) = Approved(r, p)
        BY <3>1 DEF Approved
      <3>3. Approved(r, p) \in Int
        <4>1. ReturnRows(db) /\ ReturnRows(mine[r])
          BY <1>1, RowTypes DEF IInv, ReturnRows
        <4> QED
          BY <4>1, ApprovedType, ApprovedIs
      <3>4. db[p].total \in Int /\ db'[p] = db[p]
        BY <2>1, <2>3, <2>6 DEF Purchase
      <3> HIDE DEF Total
      <3> QED
        BY <2>4, <2>6, <3>2, <3>3, <3>4
    <2> QED
      BY <2>5, <2>6
  <1> HIDE DEF A
  <1>2. Spec => [][A]_sessionVars
    BY <1>1, Invariance, PTL DEF Spec
  <1> QED
    BY <1>2 DEF LastApprovalMarks, A

\* The end of the supplier's ledger, of the rows as they are.
LEMMA LedgerIs ==
    ASSUME NEW rows, rows = db, NEW s
    PROVE  LedgerBalance(s) =
              Signed([balance |-> rows[s].opening, balance_type |-> rows[s].balance_type])
              + (SumFunction([p \in Purchases |->
                                IF rows[p] # NoRow /\ rows[p].supplier = s THEN rows[p].total
                                ELSE 0])
                 - rows[s].paid_out)
  BY DEF LedgerBalance, LedgerMovements

\* A payment to a supplier and a refund from one move the balance by their amount,
\* once, and a payment moves the end of the supplier's ledger with it, though the
\* balance is read in one step and committed in another.
THEOREM MoneyMovesBalances == Spec => MoneyMovesBalance
  <1> DEFINE A == \A r \in Requests, s \in Suppliers :
                    /\ Committing(r) /\ job[r].op \in {"supplierPay", "refund"}
                    /\ s = Paid(r)
                    => /\ Signed(db'[s]) = Signed(db[s])
                                           - (IF db[s].active THEN job[r].amount ELSE 0)
                       /\ job[r].op = "supplierPay" /\ db'[s].balance_type = db[s].balance_type =>
                            LedgerBalance(s)' = LedgerBalance(s) - job[r].amount
  <1>1. ASSUME IInv, [Next]_sessionVars
        PROVE  [A]_sessionVars
    <2> SUFFICES ASSUME NEW r \in Requests, NEW s \in Suppliers, Committing(r),
                        job[r].op \in {"supplierPay", "refund"}, s = Paid(r)
                 PROVE  /\ Signed(db'[s]) = Signed(db[s])
                                            - (IF db[s].active THEN job[r].amount ELSE 0)
                        /\ job[r].op = "supplierPay"
                           /\ db'[s].balance_type = db[s].balance_type =>
                              LedgerBalance(s)' = LedgerBalance(s) - job[r].amount
      OBVIOUS
    <2>1. /\ job[r].step = "done" /\ job[r].dues = <<>>
          /\ \A k \in Keys : db'[k] = IF mine[r][k] # NoRow THEN mine[r][k] ELSE db[k]
      BY <1>1, CommittingCommits
    <2>2. MoneyOK(r, s)
      BY <1>1, <2>1, Facts DEF JobOK, PayOK, Paid, At
    <2>3. /\ s \in held[r]
          /\ IF db[s].active THEN Moved(r, s)
             ELSE mine[r][s] = NoRow /\ job[r].op # "supplierPay"
      BY <2>1, <2>2 DEF MoneyOK
    <2>4. db'[s] = (IF mine[r][s] # NoRow THEN mine[r][s] ELSE db[s]) /\ db[s] \in Supplier
      <3>1. s \in Keys /\ db[s] # NoRow
        BY <1>1, <2>3, Facts, KeysApart DEF SessionInv, SessionLocks
      <3> QED
        BY <1>1, <2>1, <3>1, RowTypes DEF IInv
    <2>5. Signed(db[s]) \in Int /\ job[r].amount \in Nat
      BY <1>1, <2>4, SignedType, Facts DEF JobRec
    <2>6. Signed(db'[s]) = Signed(db[s]) - (IF db[s].active THEN job[r].amount ELSE 0)
      BY <2>3, <2>4, <2>5 DEF Moved
    <2>7. ASSUME job[r].op = "supplierPay", db'[s].balance_type = db[s].balance_type
          PROVE  LedgerBalance(s)' = LedgerBalance(s) - job[r].amount
      <3>1. /\ Moved(r, s) /\ db'[s] = mine[r][s]
            /\ db'[s].opening = db[s].opening
            /\ db'[s].paid_out = db[s].paid_out + job[r].amount
        BY <2>3, <2>4, <2>7 DEF Moved
      <3>2. \A p \in Purchases : db'[p] = db[p]
        BY <1>1, <2>1, <2>7, Facts, KeysApart DEF JobOK, PayOK
      <3>3. PICK old : old = db
        OBVIOUS
      <3>4. PICK new : new = db'
        OBVIOUS
      <3> DEFINE Bought(rows) ==
                   [p \in Purchases |->
                      IF rows[p] # NoRow /\ rows[p].supplier = s THEN rows[p].total ELSE 0]
                 Side(rows) ==
                   Signed([balance |-> rows[s].opening, balance_type |-> rows[s].balance_type])
      <3>5. LedgerBalance(s) = Side(old) + (SumFunction(Bought(old)) - old[s].paid_out)
        BY <3>3, LedgerIs
      <3>6. LedgerBalance(s)' = Side(new) + (SumFunction(Bought(new)) - new[s].paid_out)
        BY <3>4 DEF LedgerBalance, LedgerMovements
      <3>7. Bought(new) = Bought(old)
        BY <3>2, <3>3, <3>4
      <3>8. Side(new) = Side(old)
        BY <2>7, <3>1, <3>3, <3>4
      <3>9. Side(old) \in Int
        <4>1. old[s].opening \in Int
          BY <2>4, <3>3, Numbers DEF Supplier
        <4> QED
          BY <4>1 DEF Signed
      <3>10. SumFunction(Bought(old)) \in Int
        <4>1. \A p \in Purchases : old[p] \in Purchase \cup {NoRow}
          BY <1>1, <3>3, RowTypes DEF IInv
        <4>2. Bought(old) \in [Purchases -> Int]
          BY <4>1 DEF Purchase
        <4> HIDE DEF Bought
        <4> QED
          BY <4>2, SumType, TablesAssumption
      <3>11. old[s].paid_out \in Int /\ new[s].paid_out = old[s].paid_out + job[r].amount
        BY <2>4, <3>1, <3>3, <3>4 DEF Supplier
      <3> HIDE DEF Bought, Side
      <3> QED
        BY <2>5, <3>5, <3>6, <3>7, <3>8, <3>9, <3>10, <3>11
    <2> QED
      BY <2>6, <2>7
  <1> HIDE DEF A
  <1>2. Spec => [][A]_sessionVars
    BY <1>1, Invariance, PTL DEF Spec
  <1> QED
    BY <1>2 DEF MoneyMovesBalance, A

-----------------------------------------------------------------------------
(***************************************************************************)
(* Payroll and Production.                                                 *)
(***************************************************************************)

\* The rows of the seven tables.
PayrollTable ==
    [k \in PayrollKeys |-> IF k \in Orders THEN ProductionOrder
                           ELSE IF k \in Labors THEN ProductionLabor
                           ELSE IF k \in Costs THEN ProductionCost
                           ELSE IF k \in Outputs THEN ProductionOutput
                           ELSE IF k \in Staff THEN Employee
                           ELSE IF k \in Advances THEN Advance
                           ELSE StaffPayment]

PayrollJob ==
    [op : Ops \cup {"none"}, step : {"write", "advances", "done"},
     key : PayrollKeys \cup {NoKey}, amount : Int, dues : Seq(Advances),
     loaded : ProductionOrder \cup Employee \cup [Labors -> Nat] \cup {NoRow},
     new : ProductionOrder \cup Employee \cup StaffPayment \cup {NoRow},
     kept : {NoRow}, keptOf : {NoKey}]

OrderOps == {"start", "cancel", "complete", "labor", "cost"}

\* Of an order, a line that is added writes the buckets, and everybody else the status.
Touches(op, old, new) ==
    IF op \in {"labor", "cost"} THEN new.status = old.status
    ELSE new.labor = old.labor /\ new.other = old.other

\* The entries of a payment are for finished lines of its staff, and add up.
EntriesOK(payment) ==
    /\ SumFunction(payment.entries)
         = IF payment.compensation_type = "per_unit" THEN payment.gross ELSE 0
    /\ \A l \in Labors : payment.entries[l] > 0 =>
         db[l] # NoRow /\ db[l].staff = payment.staff /\ OutputsOf(db[l].order) # {}

\* The committed rows.
RowsSound ==
    /\ \A l \in Labors : db[l] # NoRow => db[db[l].order] # NoRow
    /\ \A o \in Orders : db[o] # NoRow /\ db[o].status = "completed" => OutputsOf(o) # {}
    /\ AdvancesTakenBack
    /\ \A p \in PaymentRows : EntriesOK(db[p])

\* The request of session r, and what it remembers of the rows it has read: only
\* complete_order completes an order.
RequestSound(r) ==
    /\ job[r].op \in OrderOps => job[r].key \in Orders
    /\ job[r].op \in {"updateStaff", "deactivate"} => job[r].key \in Staff
    /\ job[r].op \in OrderOps \cup {"updateStaff", "deactivate"} => db[job[r].key] # NoRow
    /\ job[r].step = "write" =>
         /\ job[r].op \in OrderOps \cup {"updateStaff", "deactivate"}
         /\ job[r].op \in OrderOps =>
              /\ job[r].loaded \in ProductionOrder /\ job[r].new \in ProductionOrder
              /\ Touches(job[r].op, job[r].loaded, job[r].new)
              /\ job[r].new.status = "completed" => job[r].op = "complete"
         /\ job[r].op \notin OrderOps => job[r].loaded \in Employee /\ job[r].new \in Employee
    /\ job[r].step = "advances" => job[r].op = "disburse"
    /\ job[r].dues # <<>> => At(r, "disburse", "done")

\* What session r has written of an order and its lines.
WorkSound(r) ==
    /\ \A o \in Orders : mine[r][o] # NoRow =>
         /\ db[o] # NoRow
         /\ Touches(job[r].op, db[o], mine[r][o])
         /\ mine[r][o].status = "completed" =>
              \/ OutputsOf(o) # {}
              \/ \E k \in Outputs : mine[r][k] # NoRow /\ mine[r][k].order = o
    /\ \A l \in Labors : mine[r][l] # NoRow => db[mine[r][l].order] # NoRow
    /\ \A s \in Staff : mine[r][s] # NoRow => db[s] # NoRow
    /\ \A k \in Labors \cup Costs \cup Outputs \cup Payments : mine[r][k] # NoRow => db[k] = NoRow

\* Advances are given, or marked by the payment that takes them back.
AdvancesSound(r) ==
    \A a \in Advances : mine[r][a] # NoRow =>
        IF db[a] = NoRow THEN ~mine[r][a].deducted
        ELSE /\ job[r].op = "disburse"
             /\ mine[r][a].staff = db[a].staff /\ mine[r][a].amount = db[a].amount

\* Payment p of session r takes back a set of advances of its staff: those that the
\* session has marked and those it has still to mark are among them.
TakesBack(r, p) ==
    \E taken \in SUBSET Advances :
        /\ \A a \in Advances : mine[r][a] # NoRow => a \in taken
        /\ \A i \in 1 .. Len(job[r].dues) : job[r].dues[i] \in taken
        /\ \A a \in taken : db[a] # NoRow /\ db[a].staff = mine[r][p].staff
        /\ SumFunction([a \in taken |-> db[a].amount]) = mine[r][p].advance_deduction

\* p is what session r pays: no more than it has read to be unpaid.
Pays(r, p) ==
    /\ mine[r][p] # NoRow /\ \A q \in Payments \ {p} : mine[r][q] = NoRow
    /\ EntriesOK(mine[r][p])
    /\ \A l \in Labors : mine[r][p].entries[l] <= job[r].loaded[l]
    /\ TakesBack(r, p)

PaymentSound(r) ==
    /\ job[r].op # "disburse" => \A p \in Payments : mine[r][p] = NoRow
    /\ job[r].op = "disburse" =>
         /\ job[r].loaded \in [Labors -> Nat]
         /\ \A k \in Orders \cup Labors \cup Costs \cup Outputs \cup Staff : mine[r][k] = NoRow
    /\ At(r, "disburse", "advances") =>
         /\ \A k \in Advances \cup Payments : mine[r][k] = NoRow
         /\ job[r].new \in StaffPayment /\ EntriesOK(job[r].new)
         /\ \A l \in Labors : job[r].new.entries[l] <= job[r].loaded[l]
    /\ At(r, "disburse", "done") => \E p \in Payments : Pays(r, p)

Sound(r) == RequestSound(r) /\ WorkSound(r) /\ AdvancesSound(r) /\ PaymentSound(r)

PayrollInv ==
    /\ SessionInv(PayrollTable)
    /\ job \in [Requests -> PayrollJob]
    /\ RowsSound
    /\ \A r \in Requests : Sound(r)

-----------------------------------------------------------------------------
(* The tables.                                                             *)

\* No key is of two tables.
LEMMA PayrollKeysApart ==
    /\ NoKey \notin PayrollKeys
    /\ \A o \in Orders : /\ o \in PayrollKeys /\ o \notin Labors /\ o \notin Costs
                         /\ o \notin Outputs /\ o \notin Staff /\ o \notin Advances
                         /\ o \notin Payments
    /\ \A l \in Labors : /\ l \in PayrollKeys /\ l \notin Orders /\ l \notin Costs
                         /\ l \notin Outputs /\ l \notin Staff /\ l \notin Advances
                         /\ l \notin Payments
    /\ \A c \in Costs : /\ c \in PayrollKeys /\ c \notin Orders /\ c \notin Labors
                        /\ c \notin Outputs /\ c \notin Staff /\ c \notin Advances
                        /\ c \notin Payments
    /\ \A k \in Outputs : /\ k \in PayrollKeys /\ k \notin Orders /\ k \notin Labors
                          /\ k \notin Costs /\ k \notin Staff /\ k \notin Advances
                          /\ k \notin Payments
    /\ \A s \in Staff : /\ s \in PayrollKeys /\ s \notin Orders /\ s \notin Labors
                        /\ s \notin Costs /\ s \notin Outputs /\ s \notin Advances
                        /\ s \notin Payments
    /\ \A a \in Advances : /\ a \in PayrollKeys /\ a \notin Orders /\ a \notin Labors
                           /\ a \notin Costs /\ a \notin Outputs /\ a \notin Staff
                           /\ a \notin Payments
    /\ \A p \in Payments : /\ p \in PayrollKeys /\ p \notin Orders /\ p \notin Labors
                           /\ p \notin Costs /\ p \notin Outputs /\ p \notin Staff
                           /\ p \notin Advances
  <1> DEFINE tables == <<Orders, Labors, Costs, Outputs, Staff, Advances, Payments>>
  <1>1. /\ \A i, j \in 1 .. 7 : i # j => tables[i] \cap tables[j] = {}
        /\ NoKey \notin PayrollKeys
    BY PayrollTablesAssumption
  <1>2. /\ tables[1] = Orders /\ tables[2] = Labors /\ tables[3] = Costs
        /\ tables[4] = Outputs /\ tables[5] = Staff /\ tables[6] = Advances
        /\ tables[7] = Payments
    OBVIOUS
  <1> HIDE DEF tables
  <1>3. /\ Orders \cap Labors = {} /\ Orders \cap Costs = {} /\ Orders \cap Outputs = {}
        /\ Orders \cap Staff = {} /\ Orders \cap Advances = {} /\ Orders \cap Payments = {}
    BY <1>1, <1>2
  <1>4. /\ Labors \cap Costs = {} /\ Labors \cap Outputs = {} /\ Labors \cap Staff = {}
        /\ Labors \cap Advances = {} /\ Labors \cap Payments = {}
    BY <1>1, <1>2
  <1>5. /\ Costs \cap Outputs = {} /\ Costs \cap Staff = {} /\ Costs \cap Advances = {}
        /\ Costs \cap Payments = {} /\ Outputs \cap Staff = {} /\ Outputs \cap Advances = {}
    BY <1>1, <1>2
  <1>6. /\ Outputs \cap Payments = {} /\ Staff \cap Advances = {} /\ Staff \cap Payments = {}
        /\ Advances \cap Payments = {}
    BY <1>1, <1>2
  <1> QED
    BY <1>1, <1>3, <1>4, <1>5, <1>6 DEF PayrollKeys

LEMMA PayrollTableFacts ==
    /\ DOMAIN PayrollTable = PayrollKeys
    /\ \A o \in Orders : PayrollTable[o] = ProductionOrder
    /\ \A l \in Labors : PayrollTable[l] = ProductionLabor
    /\ \A c \in Costs : PayrollTable[c] = ProductionCost
    /\ \A k \in Outputs : PayrollTable[k] = ProductionOutput
    /\ \A s \in Staff : PayrollTable[s] = Employee
    /\ \A a \in Advances : PayrollTable[a] = Advance
    /\ \A p \in Payments : PayrollTable[p] = StaffPayment
  BY PayrollKeysApart DEF PayrollTable

LEMMA NoRowInPayroll ==
    /\ NoRow \notin ProductionOrder /\ NoRow \notin ProductionLabor
    /\ NoRow \notin ProductionCost /\ NoRow \notin ProductionOutput
    /\ NoRow \notin Employee /\ NoRow \notin Advance /\ NoRow \notin StaffPayment
  BY PayrollTablesAssumption

LEMMA PayrollRows ==
    ASSUME SessionInv(PayrollTable)
    PROVE  /\ DOMAIN db = PayrollKeys
           /\ \A o \in Orders : /\ db[o] \in ProductionOrder \cup {NoRow}
                                /\ \A r \in Requests : mine[r][o] \in ProductionOrder \cup {NoRow}
           /\ \A l \in Labors : /\ db[l] \in ProductionLabor \cup {NoRow}
                                /\ \A r \in Requests : mine[r][l] \in ProductionLabor \cup {NoRow}
           /\ \A c \in Costs : /\ db[c] \in ProductionCost \cup {NoRow}
                               /\ \A r \in Requests : mine[r][c] \in ProductionCost \cup {NoRow}
           /\ \A k \in Outputs : /\ db[k] \in ProductionOutput \cup {NoRow}
                                 /\ \A r \in Requests : mine[r][k] \in ProductionOutput \cup {NoRow}
           /\ \A s \in Staff : /\ db[s] \in Employee \cup {NoRow}
                               /\ \A r \in Requests : mine[r][s] \in Employee \cup {NoRow}
           /\ \A a \in Advances : /\ db[a] \in Advance \cup {NoRow}
                                  /\ \A r \in Requests : mine[r][a] \in Advance \cup {NoRow}
           /\ \A p \in Payments : /\ db[p] \in StaffPayment \cup {NoRow}
                                  /\ \A r \in Requests : mine[r][p] \in StaffPayment \cup {NoRow}
  <1>1. /\ DOMAIN db = PayrollKeys
        /\ \A k \in PayrollKeys : /\ db[k] \in PayrollTable[k] \cup {NoRow}
                                  /\ \A r \in Requests :
                                       mine[r][k] \in PayrollTable[k] \cup {NoRow}
    BY PayrollTableFacts DEF SessionInv, SessionRows
  <1> QED
    BY <1>1, PayrollTableFacts, PayrollKeysApart

\* The amounts that occur are numbers.
LEMMA PayrollNumbers ==
    /\ \A row \in ProductionOrder : row.labor \in Nat /\ row.other \in Nat
    /\ \A row \in ProductionLabor :
         row.total_cost \in Nat /\ row.order \in Orders
    /\ \A row \in ProductionCost : row.amount \in Nat /\ row.amount > 0 /\ row.order \in Orders
    /\ \A row \in ProductionOutput : row.expense \in Nat /\ row.order \in Orders
    /\ \A row \in Advance : row.amount \in Nat /\ row.staff \in Staff
    /\ \A row \in StaffPayment :
         /\ row.gross \in Nat /\ row.advance_deduction \in Nat /\ row.staff \in Staff
         /\ row.entries \in [Labors -> Nat]
  <1>1. \A row \in ProductionOrder : row.labor \in Nat /\ row.other \in Nat
    BY DEF ProductionOrder
  <1>2. \A row \in ProductionLabor :
          row.total_cost \in Nat /\ row.order \in Orders
    BY DEF ProductionLabor
  <1>3. \A row \in ProductionCost : row.amount \in Nat /\ row.amount > 0 /\ row.order \in Orders
    <2>1. \A n \in Overheads : n \in Nat /\ n > 0
      BY LinesAssumption
    <2> QED
      BY <2>1 DEF ProductionCost
  <1>4. \A row \in ProductionOutput : row.expense \in Nat /\ row.order \in Orders
    BY DEF ProductionOutput
  <1>5. \A row \in Advance : row.amount \in Nat /\ row.staff \in Staff
    <2>1. Loans \subseteq Nat
      BY PayrollAssumption
    <2> QED
      BY <2>1 DEF Advance
  <1>6. \A row \in StaffPayment :
          /\ row.gross \in Nat /\ row.advance_deduction \in Nat /\ row.staff \in Staff
          /\ row.entries \in [Labors -> Nat]
    <2>1. Salaries \subseteq Nat
      BY PayrollAssumption
    <2> QED
      BY <2>1 DEF StaffPayment
  <1> QED
    BY <1>1, <1>2, <1>3, <1>4, <1>5, <1>6

-----------------------------------------------------------------------------
(* The lines of an order.                                                  *)

LEMMA LinesAddUp ==
    ASSUME SessionInv(PayrollTable), NEW o
    PROVE  LaborTotal(o) \in Nat /\ CostTotal(o) \in Nat
  <1>1. LaborTotal(o) \in Nat
    <2> DEFINE f == [l \in LaborOf(o) |-> db[l].total_cost]
    <2>1. IsFiniteSet(LaborOf(o))
      <3>1. IsFiniteSet(Labors) /\ LaborOf(o) \subseteq Labors
        BY PayrollAssumption DEF LaborOf
      <3> QED
        BY <3>1, FS_Subset
    <2>2. \A l \in LaborOf(o) : db[l].total_cost \in Nat
      BY PayrollRows, PayrollNumbers DEF LaborOf
    <2>3. f \in [LaborOf(o) -> Int] /\ \A l \in LaborOf(o) : f[l] >= 0
      BY <2>2
    <2> HIDE DEF f
    <2>4. SumFunction(f) \in Nat
      BY <2>1, <2>3, SumPositive
    <2> QED
      BY <2>4 DEF LaborTotal, f
  <1>2. CostTotal(o) \in Nat
    <2> DEFINE f == [c \in CostsOf(o) |-> db[c].amount]
    <2>1. IsFiniteSet(CostsOf(o))
      <3>1. IsFiniteSet(Costs) /\ CostsOf(o) \subseteq Costs
        BY PayrollAssumption DEF CostsOf
      <3> QED
        BY <3>1, FS_Subset
    <2>2. \A c \in CostsOf(o) : db[c].amount \in Nat
      BY PayrollRows, PayrollNumbers DEF CostsOf
    <2>3. f \in [CostsOf(o) -> Int] /\ \A c \in CostsOf(o) : f[c] >= 0
      BY <2>2
    <2> HIDE DEF f
    <2>4. SumFunction(f) \in Nat
      BY <2>1, <2>3, SumPositive
    <2> QED
      BY <2>4 DEF CostTotal, f
  <1> QED
    BY <1>1, <1>2

-----------------------------------------------------------------------------
(* What the sessions may rely on while others commit.                      *)

\* No row goes; lines, outputs and payments stay as they are, and an advance keeps
\* its staff and its amount.
RowsStay ==
    /\ \A k \in PayrollKeys : db[k] # NoRow => db'[k] # NoRow
    /\ \A k \in Labors \cup Costs \cup Outputs \cup Payments : db[k] # NoRow => db'[k] = db[k]
    /\ \A a \in Advances : db[a] # NoRow =>
         db'[a].staff = db[a].staff /\ db'[a].amount = db[a].amount

\* The rows that session s has written are as they were.
Spared(s) == \A k \in PayrollKeys : mine[s][k] # NoRow => db'[k] = db[k]

\* An order keeps its outputs.
LEMMA OutputsStay ==
    ASSUME RowsStay, NEW o
    PROVE  OutputsOf(o) \subseteq OutputsOf(o)'
  BY DEF OutputsOf, RowsStay

LEMMA EntriesStay ==
    ASSUME SessionInv(PayrollTable), SessionInv(PayrollTable)', RowsStay,
           NEW payment, EntriesOK(payment)
    PROVE  EntriesOK(payment)'
  <1>1. ASSUME NEW l \in Labors, payment.entries[l] > 0
        PROVE  /\ db'[l] # NoRow /\ db'[l].staff = payment.staff
               /\ (OutputsOf(db[l].order) # {})'
    <2>1. db[l] # NoRow /\ db[l].staff = payment.staff /\ OutputsOf(db[l].order) # {}
      BY <1>1 DEF EntriesOK
    <2>2. db'[l] = db[l]
      BY <2>1 DEF RowsStay
    <2>3. PICK k \in Outputs : db[k] # NoRow /\ db[k].order = db[l].order
      BY <2>1 DEF OutputsOf
    <2>4. db'[k] = db[k]
      BY <2>3 DEF RowsStay
    <2>5. k \in (OutputsOf(db[l].order))'
      BY <2>2, <2>3, <2>4 DEF OutputsOf
    <2> QED
      BY <2>1, <2>2, <2>5
  <1> QED
    BY <1>1 DEF EntriesOK

-----------------------------------------------------------------------------
(* Steps that leave a session alone.                                       *)

\* What there is to know of the rows and of session r.
LEMMA PayrollFacts ==
    ASSUME PayrollInv, NEW r \in Requests
    PROVE  /\ SessionInv(PayrollTable) /\ RowsSound /\ job[r] \in PayrollJob
           /\ RequestSound(r) /\ WorkSound(r) /\ AdvancesSound(r) /\ PaymentSound(r)
           /\ DOMAIN db = PayrollKeys /\ DOMAIN mine[r] = PayrollKeys
           /\ DOMAIN PayrollTable = PayrollKeys
           /\ arrived \in 0 .. MaxArrivals /\ held[r] \subseteq PayrollKeys
           /\ ~Open(r) => held[r] = {} /\ \A k \in PayrollKeys : mine[r][k] = NoRow
  <1>1. SessionInv(PayrollTable) /\ DOMAIN PayrollTable = PayrollKeys
    BY PayrollTableFacts DEF PayrollInv
  <1>2. /\ DOMAIN db = PayrollKeys /\ DOMAIN mine[r] = PayrollKeys
        /\ held[r] \subseteq PayrollKeys /\ arrived \in 0 .. MaxArrivals
    BY <1>1 DEF SessionInv, SessionRows
  <1>3. ~Open(r) => held[r] = {} /\ \A k \in PayrollKeys : mine[r][k] = NoRow
    BY <1>1, <1>2 DEF SessionInv, SessionLocks
  <1>4. /\ RowsSound /\ job[r] \in PayrollJob
        /\ RequestSound(r) /\ WorkSound(r) /\ AdvancesSound(r) /\ PaymentSound(r)
    BY DEF PayrollInv, Sound
  <1> QED
    BY <1>1, <1>2, <1>3, <1>4

LEMMA RequestStays ==
    ASSUME PayrollInv, NEW s \in Requests, RowsStay, SessionInv(PayrollTable)',
           job'[s] = job[s]
    PROVE  RequestSound(s)'
  <1>1. RequestSound(s) /\ SessionInv(PayrollTable)
    BY PayrollFacts
  <1>2. ASSUME job[s].op \in OrderOps \cup {"updateStaff", "deactivate"}
        PROVE  db'[job[s].key] # NoRow
    <2>1. db[job[s].key] # NoRow /\ job[s].key \in PayrollKeys
      BY <1>1, <1>2, PayrollKeysApart DEF RequestSound
    <2> QED
      BY <2>1 DEF RowsStay
  <1> QED
    BY <1>1, <1>2 DEF RequestSound, At

LEMMA WorkStays ==
    ASSUME PayrollInv, NEW s \in Requests, RowsStay, Spared(s), SessionInv(PayrollTable)',
           job'[s].op = job[s].op, mine'[s] = mine[s]
    PROVE  WorkSound(s)'
  <1>1. WorkSound(s) /\ SessionInv(PayrollTable)
    BY PayrollFacts
  <1> PICK own : own = mine[s]
    OBVIOUS
  <1>2. /\ \A o \in Orders : own[o] \in ProductionOrder \cup {NoRow}
        /\ \A l \in Labors : own[l] \in ProductionLabor \cup {NoRow}
        /\ \A k \in Outputs : own[k] \in ProductionOutput \cup {NoRow}
    BY <1>1, PayrollRows
  <1> PICK op : op = job[s].op
    OBVIOUS
  <1>3. ASSUME NEW o \in Orders, own[o] # NoRow
        PROVE  /\ db'[o] # NoRow /\ Touches(op, db'[o], own[o])
               /\ own[o].status = "completed" =>
                    \/ OutputsOf(o)' # {}
                    \/ \E k \in Outputs : own[k] # NoRow /\ own[k].order = o
    <2>1. /\ db[o] # NoRow /\ Touches(op, db[o], own[o])
          /\ own[o].status = "completed" =>
               \/ OutputsOf(o) # {}
               \/ \E k \in Outputs : own[k] # NoRow /\ own[k].order = o
      BY <1>1, <1>3 DEF WorkSound
    <2>2. db'[o] = db[o]
      BY <1>3, PayrollKeysApart DEF Spared
    <2>3. OutputsOf(o) # {} => OutputsOf(o)' # {}
      BY OutputsStay
    <2> QED
      BY <2>1, <2>2, <2>3
  <1>4. ASSUME NEW l \in Labors, own[l] # NoRow
        PROVE  db'[own[l].order] # NoRow
    <2>1. db[own[l].order] # NoRow /\ own[l].order \in Orders
      BY <1>1, <1>2, <1>4, PayrollNumbers DEF WorkSound
    <2> QED
      BY <2>1, PayrollKeysApart DEF RowsStay
  <1>5. ASSUME NEW t \in Staff, own[t] # NoRow
        PROVE  db'[t] # NoRow
    BY <1>1, <1>5, PayrollKeysApart DEF WorkSound, RowsStay
  <1>7. ASSUME NEW k \in Labors \cup Costs \cup Outputs \cup Payments, own[k] # NoRow
        PROVE  db'[k] = NoRow
    BY <1>1, <1>7, PayrollKeysApart DEF WorkSound, Spared
  <1>8. own = mine'[s] /\ op = job'[s].op
    OBVIOUS
  <1> QED
    BY <1>3, <1>4, <1>5, <1>7, <1>8 DEF WorkSound

LEMMA AdvancesStay ==
    ASSUME PayrollInv, NEW s \in Requests, Spared(s),
           job'[s] = job[s], mine'[s] = mine[s]
    PROVE  AdvancesSound(s)'
  <1>1. AdvancesSound(s)
    BY PayrollFacts
  <1>2. \A a \in Advances : mine[s][a] # NoRow => db'[a] = db[a]
    BY PayrollKeysApart DEF Spared
  <1> QED
    BY <1>1, <1>2 DEF AdvancesSound

\* The rows are of the tables before and after.
LEMMA PaysStays ==
    ASSUME PayrollInv, NEW s \in Requests, RowsStay, SessionInv(PayrollTable)',
           job'[s] = job[s], mine'[s] = mine[s], NEW p \in Payments, Pays(s, p)
    PROVE  Pays(s, p)'
  <1>1. SessionInv(PayrollTable)
    BY PayrollFacts
  <1>2. EntriesOK(mine[s][p])'
    <2> PICK payment : payment = mine[s][p]
      OBVIOUS
    <2>1. EntriesOK(payment)'
      BY <1>1, EntriesStay DEF Pays
    <2>2. payment = mine'[s][p]
      OBVIOUS
    <2> QED
      BY <2>1, <2>2 DEF EntriesOK
  <1>3. TakesBack(s, p)'
    <2>1. PICK taken \in SUBSET Advances :
            /\ \A a \in Advances : mine[s][a] # NoRow => a \in taken
            /\ \A i \in 1 .. Len(job[s].dues) : job[s].dues[i] \in taken
            /\ \A a \in taken : db[a] # NoRow /\ db[a].staff = mine[s][p].staff
            /\ SumFunction([a \in taken |-> db[a].amount]) = mine[s][p].advance_deduction
      BY DEF Pays, TakesBack
    <2>2. \A a \in taken : /\ db'[a] # NoRow /\ db'[a].staff = db[a].staff
                           /\ db'[a].amount = db[a].amount
      BY <2>1, PayrollKeysApart DEF RowsStay
    <2>3. [a \in taken |-> db'[a].amount] = [a \in taken |-> db[a].amount]
      BY <2>2
    <2>4. \A a \in taken : db'[a] # NoRow /\ db'[a].staff = mine[s][p].staff
      BY <2>1, <2>2
    <2>5. SumFunction([a \in taken |-> db'[a].amount]) = mine[s][p].advance_deduction
      BY <2>1, <2>3
    <2> QED
      BY <2>1, <2>4, <2>5 DEF TakesBack
  <1> QED
    BY <1>2, <1>3 DEF Pays

LEMMA PaymentStays ==
    ASSUME PayrollInv, NEW s \in Requests, RowsStay, SessionInv(PayrollTable)',
           job'[s] = job[s], mine'[s] = mine[s]
    PROVE  PaymentSound(s)'
  <1>1. PaymentSound(s) /\ SessionInv(PayrollTable)
    BY PayrollFacts
  <1>2. ASSUME At(s, "disburse", "advances")
        PROVE  EntriesOK(job[s].new)'
    <2> PICK payment : payment = job[s].new
      OBVIOUS
    <2>1. EntriesOK(payment)'
      BY <1>1, <1>2, EntriesStay DEF PaymentSound
    <2>2. payment = job'[s].new
      OBVIOUS
    <2> QED
      BY <2>1, <2>2 DEF EntriesOK
  <1>3. ASSUME At(s, "disburse", "done")
        PROVE  \E p \in Payments : Pays(s, p)'
    <2>1. PICK p \in Payments : Pays(s, p)
      BY <1>1, <1>3 DEF PaymentSound
    <2> QED
      BY <2>1, PaysStays
  <1> QED
    BY <1>1, <1>2, <1>3 DEF PaymentSound, At

LEMMA SoundStays ==
    ASSUME PayrollInv, NEW s \in Requests, RowsStay, Spared(s), SessionInv(PayrollTable)',
           job'[s] = job[s], mine'[s] = mine[s]
    PROVE  Sound(s)'
  BY RequestStays, WorkStays, AdvancesStay, PaymentStays DEF Sound

\* A step of session r leaves the others as they were.
LEMMA PayrollSessionStep ==
    ASSUME PayrollInv, NEW r \in Requests, SessionInv(PayrollTable)',
           job' \in [Requests -> PayrollJob], RowsStay, RowsSound',
           \A s \in Requests \ {r} : job'[s] = job[s] /\ mine'[s] = mine[s] /\ Spared(s),
           Sound(r)'
    PROVE  PayrollInv'
  <1>1. \A s \in Requests \ {r} : Sound(s)'
    BY SoundStays
  <1> QED
    BY <1>1 DEF PayrollInv

LEMMA RowsSame ==
    ASSUME PayrollInv, db' = db
    PROVE  RowsStay /\ RowsSound' /\ \A s \in Requests : Spared(s)
  <1>1. RowsSound'
    BY DEF PayrollInv, RowsSound, OutputsOf, AdvancesTakenBack, TakenFrom, PaidTo, PaymentRows, EntriesOK
  <1> QED
    BY <1>1 DEF RowsStay, Spared

\* The same, of a step that commits nothing.
LEMMA PayrollLocalStep ==
    ASSUME PayrollInv, NEW r \in Requests, job' \in [Requests -> PayrollJob], OthersWait(r),
           db' = db, SessionInv(PayrollTable)',
           \A s \in Requests \ {r} : mine'[s] = mine[s],
           Sound(r)'
    PROVE  PayrollInv'
  BY RowsSame, PayrollSessionStep DEF OthersWait

-----------------------------------------------------------------------------
(* Requests that begin, and flushes.                                       *)

LEMMA NewPayrollJob ==
    ASSUME NEW op, NEW k \in PayrollKeys
    PROVE  /\ Job(op, k).op = op /\ Job(op, k).key = k /\ Job(op, k).step = "done"
           /\ Job(op, k).amount = 0 /\ Job(op, k).dues = <<>>
           /\ Job(op, k).loaded = NoRow /\ Job(op, k).new = NoRow
           /\ op \in Ops => Job(op, k) \in PayrollJob
  <1>1. Job(op, k).op = op /\ Job(op, k).key = k /\ Job(op, k).step = "done"
    BY DEF Job, NoJob
  <1>2. /\ Job(op, k).amount = 0 /\ Job(op, k).dues = <<>>
        /\ Job(op, k).loaded = NoRow /\ Job(op, k).new = NoRow
    BY DEF Job, NoJob
  <1>3. NoJob \in PayrollJob
    BY DEF NoJob, PayrollJob
  <1>4. op \in Ops => Job(op, k) \in PayrollJob
    BY <1>3 DEF Job, PayrollJob
  <1> QED
    BY <1>1, <1>2, <1>4

\* A request begins in a session that is clean.
LEMMA PayrollBegun ==
    ASSUME PayrollInv, NEW r \in Requests, NEW j \in PayrollJob, Begin(r, j)
    PROVE  /\ job' \in [Requests -> PayrollJob] /\ job'[r] = j /\ j.op \in Ops
           /\ Open(r)' /\ OthersWait(r) /\ arrived' \in 0 .. MaxArrivals
           /\ ~Open(r) /\ held[r] = {} /\ \A k \in PayrollKeys : mine[r][k] = NoRow
  <1>1. job' \in [Requests -> PayrollJob] /\ job'[r] = j /\ j.op \in Ops /\ ~Open(r)
    BY DEF Begin, PayrollInv
  <1>2. j.op # "none"
    BY <1>1, SessionsAssumption
  <1>3. Open(r)' /\ OthersWait(r) /\ arrived' \in 0 .. MaxArrivals
    BY <1>1, <1>2, PayrollFacts, SessionsAssumption DEF Begin, Open, OthersWait
  <1> QED
    BY <1>1, <1>3, PayrollFacts

\* A session that has written nothing.
LEMMA CleanSession ==
    ASSUME NEW r, \A k \in PayrollKeys : mine'[r][k] = NoRow
    PROVE  WorkSound(r)' /\ AdvancesSound(r)'
  <1>1. \A k \in Orders \cup Labors \cup Costs \cup Outputs \cup Staff \cup Advances \cup Payments :
           mine'[r][k] = NoRow
    BY DEF PayrollKeys
  <1> QED
    BY <1>1 DEF WorkSound, AdvancesSound

\* A session that has inserted one row.
LEMMA LoneInsert ==
    ASSUME NEW r, NEW k \in Labors \cup Costs \cup Advances \cup Payments, db' = db,
           Unused(k), \A q \in PayrollKeys \ {k} : mine'[r][q] = NoRow,
           k \in Labors => db[mine'[r][k].order] # NoRow,
           k \in Advances => ~mine'[r][k].deducted
    PROVE  WorkSound(r)' /\ AdvancesSound(r)'
  <1>1. db'[k] = NoRow
    BY DEF Unused
  <1>2. /\ \A o \in Orders \cup Outputs \cup Staff : mine'[r][o] = NoRow
        /\ \A q \in (Labors \cup Costs \cup Advances \cup Payments) \ {k} : mine'[r][q] = NoRow
    BY PayrollKeysApart
  <1>3. WorkSound(r)'
    BY <1>1, <1>2 DEF WorkSound
  <1>4. AdvancesSound(r)'
    BY <1>1, <1>2 DEF AdvancesSound
  <1> QED
    BY <1>3, <1>4

\* The request is not a payment, and has written none.
LEMMA NoPayment ==
    ASSUME NEW r, job'[r].op # "disburse", \A p \in Payments : mine'[r][p] = NoRow
    PROVE  PaymentSound(r)'
  BY DEF PaymentSound, At

\* The handler of an order has read it.
LEMMA OrderRead ==
    ASSUME PayrollInv, NEW r \in Requests, NEW o \in Orders, NEW op \in OrderOps,
           NEW new \in ProductionOrder, db[o] # NoRow, Touches(op, db[o], new),
           new.status = "completed" => op = "complete",
           ReadOrder(r, o, op, new), UNCHANGED db
    PROVE  /\ job' \in [Requests -> PayrollJob] /\ OthersWait(r) /\ Open(r)'
           /\ arrived' \in 0 .. MaxArrivals /\ \A k \in PayrollKeys : mine[r][k] = NoRow
           /\ job'[r].op = op /\ RequestSound(r)'
  <1> DEFINE j == [Job(op, o) EXCEPT !.step = "write", !.loaded = db[o], !.new = new]
  <1>1. o \in PayrollKeys /\ Begin(r, j) /\ db[o] \in ProductionOrder
    BY PayrollKeysApart, PayrollFacts, PayrollRows DEF ReadOrder
  <1>2. /\ j.op = op /\ j.key = o /\ j.step = "write" /\ j.loaded = db[o] /\ j.new = new
        /\ j.dues = <<>>
    BY <1>1, NewPayrollJob
  <1>3. j \in PayrollJob
    <2>1. Job(op, o) \in PayrollJob
      BY <1>1, <1>2, NewPayrollJob DEF Begin
    <2> QED
      BY <1>1, <2>1 DEF PayrollJob
  <1> HIDE DEF j
  <1>4. /\ job' \in [Requests -> PayrollJob] /\ OthersWait(r) /\ Open(r)' /\ job'[r] = j
        /\ arrived' \in 0 .. MaxArrivals /\ \A k \in PayrollKeys : mine[r][k] = NoRow
    BY <1>1, <1>3, PayrollBegun
  <1>5. /\ job'[r].op = op /\ job'[r].key = o /\ job'[r].step = "write"
        /\ job'[r].loaded = db[o] /\ job'[r].new = new /\ job'[r].dues = <<>>
    BY <1>2, <1>4
  <1>6. op \notin {"updateStaff", "deactivate"} /\ op # "disburse"
    BY DEF OrderOps
  <1>7. RequestSound(r)'
    BY <1>1, <1>5, <1>6 DEF RequestSound, At
  <1> QED
    BY <1>4, <1>5, <1>7

LEMMA StatusChangeKept ==
    ASSUME PayrollInv, NEW r \in Requests, NEW o \in Orders,
           NEW op \in {"start", "cancel", "complete"},
           NEW status \in {"in_progress", "cancelled", "completed"},
           status = "completed" => op = "complete", db[o] # NoRow,
           ReadOrder(r, o, op, [db[o] EXCEPT !.status = status]), UNCHANGED <<db, mine, held>>
    PROVE  PayrollInv'
  <1> PICK new : new = [db[o] EXCEPT !.status = status]
    OBVIOUS
  <1>1. SessionInv(PayrollTable) /\ db[o] \in ProductionOrder
    BY PayrollFacts, PayrollRows
  <1>2. /\ new \in ProductionOrder /\ new.status = status
        /\ new.labor = db[o].labor /\ new.other = db[o].other
    BY <1>1 DEF ProductionOrder
  <1>3. Touches(op, db[o], new)
    BY <1>2 DEF Touches
  <1>4. op \in OrderOps /\ op # "disburse"
    BY DEF OrderOps
  <1>5. /\ job' \in [Requests -> PayrollJob] /\ OthersWait(r) /\ Open(r)'
        /\ arrived' \in 0 .. MaxArrivals /\ \A k \in PayrollKeys : mine[r][k] = NoRow
        /\ job'[r].op = op /\ RequestSound(r)'
    BY <1>2, <1>3, <1>4, OrderRead
  <1>6. SessionInv(PayrollTable)'
    BY <1>1, <1>5, JobStep
  <1>7. WorkSound(r)' /\ AdvancesSound(r)'
    BY <1>5, CleanSession
  <1>8. PaymentSound(r)'
    BY <1>4, <1>5, NoPayment, PayrollKeysApart
  <1> QED
    BY <1>5, <1>6, <1>7, <1>8, PayrollLocalStep DEF Sound

LEMMA OrderStatusKept ==
    ASSUME PayrollInv, NEW r \in Requests, NEW o \in Orders,
           StartOrder(r, o) \/ CancelOrder(r, o) \/ CompleteOrder(r, o)
    PROVE  PayrollInv'
  BY StatusChangeKept DEF StartOrder, CancelOrder, CompleteOrder, HasStatus

\* An order whose buckets have been recomputed.
LEMMA RecomputedOK ==
    ASSUME PayrollInv, NEW r \in Requests, NEW o \in Orders, db[o] # NoRow
    PROVE  /\ Recomputed(o) \in ProductionOrder
           /\ \A op \in {"labor", "cost"} : Touches(op, db[o], Recomputed(o))
           /\ Recomputed(o).status = db[o].status
  <1>1. SessionInv(PayrollTable) /\ db[o] \in ProductionOrder
    BY PayrollFacts, PayrollRows
  <1>2. LaborTotal(o) \in Nat /\ CostTotal(o) \in Nat
    BY <1>1, LinesAddUp
  <1>3. /\ Recomputed(o) \in ProductionOrder /\ Recomputed(o).status = db[o].status
    BY <1>1, <1>2 DEF Recomputed, ProductionOrder
  <1> QED
    BY <1>3 DEF Touches

\* A line is inserted next to the order that has been read.
LEMMA LineKept ==
    ASSUME PayrollInv, NEW r \in Requests, NEW o \in Orders, NEW op \in {"labor", "cost"},
           HasStatus(o, {"planned", "in_progress"}), ReadOrder(r, o, op, Recomputed(o)),
           NEW k \in Labors \cup Costs, NEW row \in PayrollTable[k], Unused(k),
           k \in Labors => row.order = o,
           Insert(r, k, row), UNCHANGED <<db, held>>
    PROVE  PayrollInv'
  <1> PICK new : new = Recomputed(o)
    OBVIOUS
  <1>1. db[o] # NoRow /\ db[o].status # "completed" /\ op \in OrderOps /\ op # "disburse"
    BY DEF HasStatus, OrderOps
  <1>2. new \in ProductionOrder /\ Touches(op, db[o], new) /\ new.status # "completed"
    BY <1>1, RecomputedOK
  <1>3. /\ job' \in [Requests -> PayrollJob] /\ OthersWait(r) /\ Open(r)'
        /\ arrived' \in 0 .. MaxArrivals /\ \A q \in PayrollKeys : mine[r][q] = NoRow
        /\ job'[r].op = op /\ RequestSound(r)'
    BY <1>1, <1>2, OrderRead
  <1>4. /\ SessionInv(PayrollTable) /\ DOMAIN PayrollTable = PayrollKeys /\ k \in PayrollKeys
        /\ mine' = [mine EXCEPT ![r][k] = row]
    BY PayrollFacts, PayrollKeysApart DEF Insert
  <1>5. SessionInv(PayrollTable)'
    BY <1>3, <1>4, InsertStep
  <1>6. /\ mine'[r][k] = row /\ \A q \in PayrollKeys \ {k} : mine'[r][q] = NoRow
        /\ \A s \in Requests \ {r} : mine'[s] = mine[s]
    BY <1>3, <1>4 DEF SessionInv, SessionRows
  <1>7. WorkSound(r)' /\ AdvancesSound(r)'
    BY <1>1, <1>6, LoneInsert, PayrollKeysApart
  <1>8. PaymentSound(r)'
    BY <1>1, <1>3, <1>6, NoPayment, PayrollKeysApart
  <1> QED
    BY <1>3, <1>5, <1>6, <1>7, <1>8, PayrollLocalStep DEF Sound

\* A key that NextOf yields is not in use.
LEMMA NextIsUnused ==
    ASSUME NEW keys, NEW k \in NextOf(keys)
    PROVE  k \in keys /\ Unused(k)
  BY DEF NextOf

\* A line of labour, as it is inserted.
LEMMA LaborRowOK ==
    ASSUME NEW o \in Orders, NEW body \in LaborCreate
    PROVE  LaborRow(o, body) \in ProductionLabor /\ LaborRow(o, body).order = o
  <1>1. body.earned \in Nat /\ body.staff \in Staff \cup {NoKey}
    <2>1. Earnings \subseteq Nat
      BY LinesAssumption
    <2> QED
      BY <2>1 DEF LaborCreate
  <1>2. Cents(body.earned) \in Nat
    BY <1>1 DEF Cents
  <1> QED
    BY <1>1, <1>2 DEF LaborRow, ProductionLabor

LEMMA AddLaborKept ==
    ASSUME PayrollInv, NEW r \in Requests, NEW o \in Orders, NEW l \in NextOf(Labors),
           NEW body \in LaborCreate, AddLabor(r, o, l, body)
    PROVE  PayrollInv'
  <1> DEFINE row == LaborRow(o, body)
  <1>1. l \in Labors /\ Unused(l)
    BY NextIsUnused
  <1>2. row \in PayrollTable[l] /\ row.order = o
    BY <1>1, LaborRowOK, PayrollTableFacts
  <1>3. /\ HasStatus(o, {"planned", "in_progress"}) /\ ReadOrder(r, o, "labor", Recomputed(o))
        /\ Insert(r, l, row) /\ UNCHANGED <<db, held>>
    BY DEF AddLabor
  <1> HIDE DEF row
  <1> QED
    BY <1>1, <1>2, <1>3, LineKept

LEMMA AddCostKept ==
    ASSUME PayrollInv, NEW r \in Requests, NEW o \in Orders, NEW c \in NextOf(Costs),
           NEW amount \in Overheads, AddCost(r, o, c, amount)
    PROVE  PayrollInv'
  <1> DEFINE row == [order |-> o, amount |-> amount]
  <1>1. c \in Costs /\ Unused(c) /\ c \notin Labors
    BY NextIsUnused, PayrollKeysApart
  <1>2. row \in PayrollTable[c]
    BY <1>1, PayrollTableFacts DEF ProductionCost
  <1>3. /\ HasStatus(o, {"planned", "in_progress"}) /\ ReadOrder(r, o, "cost", Recomputed(o))
        /\ Insert(r, c, row) /\ UNCHANGED <<db, held>>
    BY DEF AddCost
  <1> HIDE DEF row
  <1> QED
    BY <1>1, <1>2, <1>3, LineKept

LEMMA FlushedOrder ==
    ASSUME NEW row \in ProductionOrder, NEW loaded \in ProductionOrder,
           NEW new \in ProductionOrder
    PROVE  /\ Flushed(row, loaded, new) \in ProductionOrder
           /\ Flushed(row, loaded, new).labor \in {row.labor, new.labor}
           /\ Flushed(row, loaded, new).other \in {row.other, new.other}
           /\ Flushed(row, loaded, new).status \in {row.status, new.status}
           /\ \A op : Touches(op, loaded, new) => Touches(op, row, Flushed(row, loaded, new))
  <1> DEFINE flushed == Flushed(row, loaded, new)
  <1>1. /\ DOMAIN row = {"status", "labor", "other"}
        /\ flushed = [f \in {"status", "labor", "other"} |->
                        IF new[f] # loaded[f] THEN new[f] ELSE row[f]]
    BY DEF Flushed, ProductionOrder
  <1>2. flushed = [status |-> flushed.status, labor |-> flushed.labor, other |-> flushed.other]
    BY <1>1
  <1>3. /\ flushed.labor \in {row.labor, new.labor}
        /\ flushed.other \in {row.other, new.other}
        /\ flushed.status \in {row.status, new.status}
    BY <1>1
  <1>4. /\ new.labor = loaded.labor => flushed.labor = row.labor
        /\ new.other = loaded.other => flushed.other = row.other
        /\ new.status = loaded.status => flushed.status = row.status
    BY <1>1
  <1> HIDE DEF flushed
  <1>5. flushed \in ProductionOrder
    <2>1. /\ row.labor \in Nat /\ new.labor \in Nat /\ row.other \in Nat /\ new.other \in Nat
          /\ row.status \in {"planned", "in_progress", "completed", "cancelled"}
          /\ new.status \in {"planned", "in_progress", "completed", "cancelled"}
      BY DEF ProductionOrder
    <2>2. /\ flushed.labor \in Nat /\ flushed.other \in Nat
          /\ flushed.status \in {"planned", "in_progress", "completed", "cancelled"}
      BY <1>3, <2>1
    <2> QED
      BY <1>2, <2>2 DEF ProductionOrder
  <1>6. \A op : Touches(op, loaded, new) => Touches(op, row, flushed)
    BY <1>4 DEF Touches
  <1> QED
    BY <1>3, <1>5, <1>6 DEF flushed

LEMMA FlushedEmployee ==
    ASSUME NEW row \in Employee, NEW loaded \in Employee, NEW new \in Employee
    PROVE  Flushed(row, loaded, new) \in Employee
  <1> DEFINE flushed == Flushed(row, loaded, new)
  <1>1. /\ DOMAIN row = {"compensation_type", "active"}
        /\ flushed = [f \in {"compensation_type", "active"} |->
                        IF new[f] # loaded[f] THEN new[f] ELSE row[f]]
    BY DEF Flushed, Employee
  <1>2. flushed = [compensation_type |-> flushed.compensation_type, active |-> flushed.active]
    BY <1>1
  <1>3. /\ flushed.compensation_type \in {row.compensation_type, new.compensation_type}
        /\ flushed.active \in {row.active, new.active}
    BY <1>1
  <1> HIDE DEF flushed
  <1>4. flushed.compensation_type \in CompensationType /\ flushed.active \in BOOLEAN
    BY <1>3 DEF Employee
  <1> QED
    BY <1>2, <1>4 DEF Employee, flushed

\* A handler that has flushed what it had to write.
FlushOps == OrderOps \cup {"updateStaff", "deactivate"}

LEMMA WritesEnd ==
    ASSUME PayrollInv, NEW r \in Requests, job[r].step = "write",
           job' = [job EXCEPT ![r].step = "done", ![r].loaded = NoRow, ![r].new = NoRow],
           UNCHANGED <<db, arrived>>
    PROVE  /\ job' \in [Requests -> PayrollJob] /\ OthersWait(r) /\ Open(r)'
           /\ job'[r].op = job[r].op /\ job[r].op # "disburse"
           /\ RequestSound(r)'
           /\ arrived' \in 0 .. MaxArrivals
  <1> DEFINE j == [job[r] EXCEPT !.step = "done", !.loaded = NoRow, !.new = NoRow]
  <1>1. /\ job[r] \in PayrollJob /\ job \in [Requests -> PayrollJob] /\ RequestSound(r)
        /\ arrived \in 0 .. MaxArrivals
    BY PayrollFacts DEF PayrollInv
  <1>2. /\ j \in PayrollJob /\ j.step = "done"
        /\ j.op = job[r].op /\ j.key = job[r].key /\ j.dues = job[r].dues
    BY <1>1 DEF PayrollJob
  <1>3. job' = [job EXCEPT ![r] = j]
    BY <1>1
  <1> HIDE DEF j
  <1>4. job' \in [Requests -> PayrollJob] /\ OthersWait(r) /\ job'[r] = j
    BY <1>1, <1>2, <1>3 DEF OthersWait
  <1>5. job[r].op \in FlushOps /\ job[r].op # "none" /\ job[r].op # "disburse"
    BY <1>1 DEF RequestSound, FlushOps, OrderOps
  <1>6. job[r].dues = <<>>
    BY <1>1, <1>5 DEF RequestSound, At
  <1>7. RequestSound(r)'
    BY <1>1, <1>2, <1>4, <1>6 DEF RequestSound
  <1> QED
    BY <1>1, <1>2, <1>4, <1>5, <1>7 DEF Open

\* A session goes on without writing.
LEMMA WorkSame ==
    ASSUME PayrollInv, NEW r \in Requests, job'[r].op = job[r].op, job[r].op # "disburse",
           UNCHANGED <<db, mine>>, SessionInv(PayrollTable)'
    PROVE  WorkSound(r)' /\ AdvancesSound(r)' /\ PaymentSound(r)'
  <1>1. WorkSound(r)'
    BY RowsSame, WorkStays
  <1>2. AdvancesSound(r)'
    BY PayrollFacts DEF AdvancesSound
  <1>3. PaymentSound(r)'
    BY PayrollFacts, NoPayment DEF PaymentSound
  <1> QED
    BY <1>1, <1>2, <1>3

\* A flush that has nothing to write.
LEMMA NoFlushKept ==
    ASSUME PayrollInv, NEW r \in Requests, job[r].step = "write",
           job' = [job EXCEPT ![r].step = "done", ![r].loaded = NoRow, ![r].new = NoRow],
           UNCHANGED <<db, mine, held, arrived>>
    PROVE  PayrollInv'
  <1>1. /\ job' \in [Requests -> PayrollJob] /\ OthersWait(r) /\ Open(r)'
        /\ job'[r].op = job[r].op /\ job[r].op # "disburse"
        /\ RequestSound(r)' /\ arrived' \in 0 .. MaxArrivals
    BY WritesEnd
  <1>2. SessionInv(PayrollTable)'
    BY <1>1, PayrollFacts, JobStep
  <1>3. WorkSound(r)' /\ AdvancesSound(r)' /\ PaymentSound(r)'
    BY <1>1, <1>2, WorkSame
  <1> QED
    BY <1>1, <1>2, <1>3, PayrollLocalStep DEF Sound

\* What session r has written, while nothing is published.
LEMMA WorkIs ==
    ASSUME NEW r, NEW own, own = mine'[r], NEW op, op = job'[r].op, db' = db,
           \A o \in Orders : own[o] # NoRow =>
              /\ db[o] # NoRow
              /\ Touches(op, db[o], own[o])
              /\ own[o].status = "completed" =>
                   \/ OutputsOf(o) # {}
                   \/ \E k \in Outputs : own[k] # NoRow /\ own[k].order = o,
           \A l \in Labors : own[l] # NoRow => db[own[l].order] # NoRow,
           \A s \in Staff : own[s] # NoRow => db[s] # NoRow,
           \A k \in Labors \cup Costs \cup Outputs \cup Payments : own[k] # NoRow => db[k] = NoRow
    PROVE  WorkSound(r)'
  <1>1. \A o : OutputsOf(o)' = OutputsOf(o)
    BY DEF OutputsOf
  <1>2. \A o \in Orders : own[o] # NoRow =>
           /\ db'[o] # NoRow /\ Touches(op, db'[o], own[o])
           /\ own[o].status = "completed" =>
                \/ OutputsOf(o)' # {}
                \/ \E k \in Outputs : own[k] # NoRow /\ own[k].order = o
    BY <1>1
  <1> QED
    BY <1>2 DEF WorkSound

\* A flush of a row that is there.
LEMMA PayrollFlushKept ==
    ASSUME PayrollInv, NEW r \in Requests, job[r].step = "write",
           job' = [job EXCEPT ![r].step = "done", ![r].loaded = NoRow, ![r].new = NoRow],
           UNCHANGED <<db, arrived>>,
           NEW k \in Orders \cup Staff, NEW row \in PayrollTable[k], db[k] # NoRow, Free(r, k),
           Write(r, k, row),
           k \in Orders =>
              /\ Touches(job[r].op, db[k], row)
              /\ row.status = "completed" => OutputsOf(k) # {}
    PROVE  PayrollInv'
  <1>1. /\ job' \in [Requests -> PayrollJob] /\ OthersWait(r) /\ Open(r)'
        /\ job'[r].op = job[r].op /\ job[r].op # "disburse"
        /\ RequestSound(r)' /\ arrived' \in 0 .. MaxArrivals
    BY WritesEnd
  <1>2. /\ SessionInv(PayrollTable) /\ DOMAIN PayrollTable = PayrollKeys /\ k \in PayrollKeys
        /\ WorkSound(r) /\ AdvancesSound(r) /\ PaymentSound(r)
    BY PayrollFacts, PayrollKeysApart
  <1>3. SessionInv(PayrollTable)'
    BY <1>1, <1>2, WriteStep
  <1>4. /\ mine'[r][k] = row /\ \A q \in PayrollKeys \ {k} : mine'[r][q] = mine[r][q]
        /\ \A s \in Requests \ {r} : mine'[s] = mine[s]
    BY <1>2, Written
  <1>5. /\ \A q \in Labors \cup Costs \cup Outputs \cup Advances \cup Payments :
             mine'[r][q] = mine[r][q]
    BY <1>4, PayrollKeysApart
  <1>6. AdvancesSound(r)' /\ PaymentSound(r)'
    BY <1>1, <1>2, <1>5, NoPayment DEF AdvancesSound, PaymentSound
  <1>7. WorkSound(r)'
    <2> PICK own : own = mine'[r]
      OBVIOUS
    <2> PICK op : op = job'[r].op /\ op = job[r].op
      BY <1>1
    <2>1. ASSUME NEW o \in Orders, own[o] # NoRow
          PROVE  /\ db[o] # NoRow
                 /\ Touches(op, db[o], own[o])
                 /\ own[o].status = "completed" =>
                      \/ OutputsOf(o) # {}
                      \/ \E q \in Outputs : own[q] # NoRow /\ own[q].order = o
      <3>1. CASE o = k
        BY <1>4, <3>1
      <3>2. CASE o # k
        <4>1. own[o] = mine[r][o]
          BY <1>4, <3>2, PayrollKeysApart
        <4> QED
          BY <1>2, <1>5, <2>1, <4>1 DEF WorkSound
      <3> QED
        BY <3>1, <3>2
    <2>2. ASSUME NEW s \in Staff, own[s] # NoRow
          PROVE  db[s] # NoRow
      <3>1. CASE s = k
        BY <3>1
      <3>2. CASE s # k
        BY <1>2, <1>4, <2>2, <3>2, PayrollKeysApart DEF WorkSound
      <3> QED
        BY <3>1, <3>2
    <2>3. /\ \A l \in Labors : own[l] # NoRow => db[own[l].order] # NoRow
          /\ \A q \in Labors \cup Costs \cup Outputs \cup Payments :
               own[q] # NoRow => db[q] = NoRow
      BY <1>2, <1>5 DEF WorkSound
    <2>4. db' = db /\ own = mine'[r] /\ op = job'[r].op
      OBVIOUS
    <2> QED
      BY ONLY <2>1, <2>2, <2>3, <2>4, WorkIs
  <1> QED
    BY <1>1, <1>3, <1>4, <1>6, <1>7, PayrollLocalStep DEF Sound

\* What is written over an order is what the request touches of it.
LEMMA OrderFlushed ==
    ASSUME PayrollInv, NEW r \in Requests, job[r].step = "write", job[r].key \in Orders,
           NEW row, row = Flushed(db[job[r].key], job[r].loaded, job[r].new)
    PROVE  /\ job[r].op \in OrderOps /\ db[job[r].key] # NoRow
           /\ job[r].loaded \in ProductionOrder
           /\ row \in ProductionOrder /\ Touches(job[r].op, db[job[r].key], row)
           /\ row.status = "completed" => OutputsOf(job[r].key) # {} \/ job[r].op = "complete"
  <1> PICK o : o = job[r].key
    OBVIOUS
  <1>1. job[r].op \in OrderOps
    BY PayrollFacts, PayrollKeysApart DEF RequestSound
  <1>2. /\ db[o] # NoRow
        /\ job[r].loaded \in ProductionOrder /\ job[r].new \in ProductionOrder
        /\ Touches(job[r].op, job[r].loaded, job[r].new)
        /\ job[r].new.status = "completed" => job[r].op = "complete"
    BY <1>1, PayrollFacts DEF RequestSound
  <1>3. db[o] \in ProductionOrder
    BY <1>2, PayrollFacts, PayrollRows
  <1>4. /\ row \in ProductionOrder /\ Touches(job[r].op, db[o], row)
        /\ row.status \in {db[o].status, job[r].new.status}
    BY <1>2, <1>3, FlushedOrder
  <1>5. db[o].status = "completed" => OutputsOf(o) # {}
    BY <1>2, PayrollFacts DEF RowsSound
  <1> QED
    BY <1>1, <1>2, <1>4, <1>5

LEMMA FlushOrderKept ==
    ASSUME PayrollInv, NEW r \in Requests, FlushOrder(r)
    PROVE  PayrollInv'
  <1> PICK k : k = job[r].key
    OBVIOUS
  <1> PICK row : row = Flushed(db[k], job[r].loaded, job[r].new)
    OBVIOUS
  <1>1. /\ k \in Orders /\ job[r].step = "write" /\ job[r].op # "complete"
        /\ job' = [job EXCEPT ![r].step = "done", ![r].loaded = NoRow, ![r].new = NoRow]
        /\ UNCHANGED <<db, arrived>>
        /\ \/ UNCHANGED <<mine, held>>
           \/ Free(r, k) /\ Write(r, k, row)
    BY DEF FlushOrder
  <1>2. CASE UNCHANGED <<mine, held>>
    BY <1>1, <1>2, NoFlushKept
  <1>3. CASE Free(r, k) /\ Write(r, k, row)
    <2>1. /\ db[k] # NoRow /\ row \in ProductionOrder /\ Touches(job[r].op, db[k], row)
          /\ row.status = "completed" => OutputsOf(k) # {}
      BY <1>1, OrderFlushed
    <2>2. row \in PayrollTable[k]
      BY <1>1, <2>1, PayrollTableFacts
    <2> QED
      BY <1>1, <1>3, <2>1, <2>2, PayrollFlushKept
  <1> QED
    BY <1>1, <1>2, <1>3

LEMMA FlushStaffKept ==
    ASSUME PayrollInv, NEW r \in Requests, FlushStaff(r)
    PROVE  PayrollInv'
  <1> PICK k : k = job[r].key
    OBVIOUS
  <1> PICK row : row = Flushed(db[k], job[r].loaded, job[r].new)
    OBVIOUS
  <1>1. /\ k \in Staff /\ job[r].step = "write"
        /\ job' = [job EXCEPT ![r].step = "done", ![r].loaded = NoRow, ![r].new = NoRow]
        /\ UNCHANGED <<db, arrived>>
        /\ \/ UNCHANGED <<mine, held>>
           \/ Free(r, k) /\ Write(r, k, row)
    BY DEF FlushStaff
  <1>2. CASE UNCHANGED <<mine, held>>
    BY <1>1, <1>2, NoFlushKept
  <1>3. CASE Free(r, k) /\ Write(r, k, row)
    <2>1. /\ db[k] # NoRow /\ job[r].loaded \in Employee /\ job[r].new \in Employee
      BY <1>1, PayrollFacts, PayrollKeysApart DEF RequestSound
    <2>2. db[k] \in Employee
      BY <1>1, <2>1, PayrollFacts, PayrollRows
    <2>3. row \in PayrollTable[k] /\ k \notin Orders
      BY <1>1, <2>1, <2>2, FlushedEmployee, PayrollTableFacts, PayrollKeysApart
    <2> QED
      BY <1>1, <1>3, <2>1, <2>3, PayrollFlushKept
  <1> QED
    BY <1>1, <1>2, <1>3

LEMMA FlushCompletedKept ==
    ASSUME PayrollInv, NEW r \in Requests, NEW k \in NextOf(Outputs), FlushCompleted(r, k)
    PROVE  PayrollInv'
  <1> PICK o : o = job[r].key
    OBVIOUS
  <1> PICK row : row = Flushed(db[o], job[r].loaded, job[r].new)
    OBVIOUS
  <1> PICK output : output = [order |-> o, expense |-> job[r].loaded.other]
    OBVIOUS
  <1>1. /\ job[r].op = "complete" /\ job[r].step = "write" /\ Free(r, o) /\ Hold(r, o)
        /\ mine' = [mine EXCEPT ![r][o] = row, ![r][k] = output]
        /\ job' = [job EXCEPT ![r].step = "done", ![r].loaded = NoRow, ![r].new = NoRow]
        /\ UNCHANGED <<db, arrived>>
    BY DEF FlushCompleted, At
  <1>2. k \in Outputs /\ Unused(k) /\ k \in PayrollKeys
    BY NextIsUnused, PayrollKeysApart
  <1>3. o \in Orders
    BY <1>1, PayrollFacts DEF RequestSound, OrderOps
  <1>4. /\ db[o] # NoRow /\ job[r].loaded \in ProductionOrder
        /\ row \in ProductionOrder /\ Touches(job[r].op, db[o], row)
    BY <1>1, <1>3, OrderFlushed
  <1>5. output \in ProductionOutput /\ output.order = o /\ output # NoRow
    <2>1. job[r].loaded.other \in Nat
      BY <1>4, PayrollNumbers
    <2>2. output \in ProductionOutput
      BY <1>3, <2>1 DEF ProductionOutput
    <2> QED
      BY <2>2, NoRowInPayroll
  <1>6. /\ SessionInv(PayrollTable) /\ DOMAIN PayrollTable = PayrollKeys /\ o \in PayrollKeys
        /\ row \in PayrollTable[o] /\ output \in PayrollTable[k]
    BY <1>2, <1>3, <1>4, <1>5, PayrollFacts, PayrollKeysApart, PayrollTableFacts
  <1>7. /\ job' \in [Requests -> PayrollJob] /\ OthersWait(r) /\ Open(r)'
        /\ job'[r].op = job[r].op /\ job[r].op # "disburse"
        /\ RequestSound(r)' /\ arrived' \in 0 .. MaxArrivals
    BY <1>1, WritesEnd
  <1>8. /\ SessionInv(PayrollTable)'
        /\ mine'[r][o] = row /\ mine'[r][k] = output
        /\ \A x \in PayrollKeys \ {o, k} : mine'[r][x] = mine[r][x]
        /\ \A s \in Requests \ {r} : mine'[s] = mine[s]
    <2>1. row \in RowsOf(PayrollTable) /\ output \in RowsOf(PayrollTable)
      BY <1>2, <1>6, RowsOfTable
    <2>2. mine \in [Requests -> [PayrollKeys -> RowsOf(PayrollTable)]]
      BY <1>6 DEF SessionInv, SessionRows
    <2>3. o # k
      BY <1>2, <1>3, PayrollKeysApart
    <2>4. /\ mine' \in [Requests -> [PayrollKeys -> RowsOf(PayrollTable)]]
          /\ mine'[r][o] = row /\ mine'[r][k] = output
          /\ \A x \in PayrollKeys \ {o, k} : mine'[r][x] = mine[r][x]
          /\ \A s \in Requests \ {r} : mine'[s] = mine[s]
      BY <1>1, <1>2, <1>6, <2>1, <2>2, <2>3
    <2> QED
      BY <1>1, <1>2, <1>4, <1>6, <1>7, <2>4, WriteAndInsertStep
  <1>9. /\ WorkSound(r) /\ AdvancesSound(r) /\ PaymentSound(r)
    BY PayrollFacts
  <1>10. \A q \in Labors \cup Costs \cup Staff \cup Advances \cup Payments :
            mine'[r][q] = mine[r][q]
    BY <1>2, <1>3, <1>8, PayrollKeysApart
  <1>11. AdvancesSound(r)' /\ PaymentSound(r)'
    <2>1. AdvancesSound(r)'
      BY <1>1, <1>7, <1>9, <1>10 DEF AdvancesSound
    <2>2. \A p \in Payments : mine'[r][p] = NoRow
      BY <1>7, <1>9, <1>10 DEF PaymentSound
    <2> QED
      BY <1>7, <2>1, <2>2, NoPayment
  <1>12. WorkSound(r)'
    <2> PICK own : own = mine'[r]
      OBVIOUS
    <2> PICK op : op = job'[r].op /\ op = job[r].op
      BY <1>7
    <2>1. ASSUME NEW q \in Orders, own[q] # NoRow
          PROVE  /\ db[q] # NoRow
                 /\ Touches(op, db[q], own[q])
                 /\ own[q].status = "completed" =>
                      \/ OutputsOf(q) # {}
                      \/ \E x \in Outputs : own[x] # NoRow /\ own[x].order = q
      <3>1. CASE q = o
        BY <1>2, <1>4, <1>5, <1>8, <3>1
      <3>2. CASE q # o
        <4>1. own[q] = mine[r][q]
          BY <1>2, <1>8, <3>2, PayrollKeysApart
        <4>2. \A x \in Outputs : mine[r][x] # NoRow => own[x] = mine[r][x]
          BY <1>2, <1>3, <1>8, PayrollKeysApart DEF Unused
        <4> QED
          BY <1>9, <2>1, <4>1, <4>2 DEF WorkSound
      <3> QED
        BY <3>1, <3>2
    <2>2. ASSUME NEW x \in Outputs, own[x] # NoRow
          PROVE  db[x] = NoRow
      <3>1. CASE x = k
        BY <1>2, <3>1 DEF Unused
      <3>2. CASE x # k
        <4>1. own[x] = mine[r][x]
          BY <1>3, <1>8, <3>2, PayrollKeysApart
        <4> QED
          BY <1>9, <2>2, <4>1 DEF WorkSound
      <3> QED
        BY <3>1, <3>2
    <2>3. /\ \A l \in Labors : own[l] # NoRow => db[own[l].order] # NoRow
          /\ \A s \in Staff : own[s] # NoRow => db[s] # NoRow
          /\ \A q \in Labors \cup Costs \cup Payments : own[q] # NoRow => db[q] = NoRow
      BY <1>9, <1>10 DEF WorkSound
    <2>4. db' = db /\ own = mine'[r] /\ op = job'[r].op
      BY <1>1
    <2>5. \A q \in Labors \cup Costs \cup Outputs \cup Payments : own[q] # NoRow => db[q] = NoRow
      BY <2>2, <2>3
    <2> QED
      BY ONLY <2>1, <2>3, <2>4, <2>5, WorkIs
  <1> QED
    BY <1>1, <1>7, <1>8, <1>11, <1>12, PayrollLocalStep DEF Sound

-----------------------------------------------------------------------------
(* Staff and advances.                                                     *)

\* The handler of a member of staff has read the row.
LEMMA StaffReadKept ==
    ASSUME PayrollInv, NEW r \in Requests, NEW s \in Staff,
           NEW op \in {"updateStaff", "deactivate"}, NEW new \in Employee, db[s] # NoRow,
           Begin(r, [Job(op, s) EXCEPT !.step = "write", !.loaded = db[s], !.new = new]),
           UNCHANGED <<db, mine, held>>
    PROVE  PayrollInv'
  <1> DEFINE j == [Job(op, s) EXCEPT !.step = "write", !.loaded = db[s], !.new = new]
  <1>1. s \in PayrollKeys /\ Begin(r, j) /\ db[s] \in Employee /\ SessionInv(PayrollTable)
    BY PayrollKeysApart, PayrollFacts, PayrollRows
  <1>2. /\ j.op = op /\ j.key = s /\ j.step = "write" /\ j.loaded = db[s] /\ j.new = new
        /\ j.dues = <<>>
    BY <1>1, NewPayrollJob
  <1>3. j \in PayrollJob
    <2>1. Job(op, s) \in PayrollJob
      BY <1>1, <1>2, NewPayrollJob DEF Begin
    <2> QED
      BY <1>1, <2>1 DEF PayrollJob
  <1> HIDE DEF j
  <1>4. /\ job' \in [Requests -> PayrollJob] /\ OthersWait(r) /\ Open(r)' /\ job'[r] = j
        /\ arrived' \in 0 .. MaxArrivals /\ \A k \in PayrollKeys : mine[r][k] = NoRow
    BY <1>1, <1>3, PayrollBegun
  <1>5. op \notin OrderOps /\ op # "disburse"
    BY DEF OrderOps
  <1>6. RequestSound(r)'
    BY <1>1, <1>2, <1>4, <1>5 DEF RequestSound, At
  <1>7. SessionInv(PayrollTable)'
    BY <1>1, <1>4, JobStep
  <1>8. WorkSound(r)' /\ AdvancesSound(r)'
    BY <1>4, CleanSession
  <1>9. PaymentSound(r)'
    BY <1>2, <1>4, <1>5, NoPayment, PayrollKeysApart
  <1> QED
    BY <1>4, <1>6, <1>7, <1>8, <1>9, PayrollLocalStep DEF Sound

LEMMA UpdateStaffKept ==
    ASSUME PayrollInv, NEW r \in Requests, NEW s \in Staff,
           \/ \E body \in StaffUpdate : UpdateStaff(r, s, body)
           \/ DeactivateStaff(r, s)
    PROVE  PayrollInv'
  <1>1. db[s] # NoRow /\ db[s] \in Employee
    BY PayrollFacts, PayrollRows DEF UpdateStaff, DeactivateStaff, ActiveStaff
  <1>2. CASE \E body \in StaffUpdate : UpdateStaff(r, s, body)
    <2> PICK body \in StaffUpdate : UpdateStaff(r, s, body)
      BY <1>2
    <2> PICK new : new = [db[s] EXCEPT !.compensation_type = body.compensation_type]
      OBVIOUS
    <2>1. new \in Employee
      BY <1>1 DEF StaffUpdate, Employee
    <2> QED
      BY <1>1, <2>1, StaffReadKept DEF UpdateStaff
  <1>3. CASE DeactivateStaff(r, s)
    <2> PICK new : new = [db[s] EXCEPT !.active = FALSE]
      OBVIOUS
    <2>1. new \in Employee
      BY <1>1 DEF Employee
    <2> QED
      BY <1>1, <1>3, <2>1, StaffReadKept DEF DeactivateStaff
  <1> QED
    BY <1>2, <1>3

LEMMA GiveAdvanceKept ==
    ASSUME PayrollInv, NEW r \in Requests, NEW s \in Staff, NEW a \in NextOf(Advances),
           NEW body \in AdvanceCreate, GiveAdvance(r, s, a, body)
    PROVE  PayrollInv'
  <1> DEFINE row == NewAdvance(s, body)
             j == Job("advance", a)
  <1>1. Begin(r, j) /\ mine' = [mine EXCEPT ![r][a] = row] /\ UNCHANGED <<db, held>>
    BY DEF GiveAdvance, Insert
  <1>2. a \in Advances /\ Unused(a) /\ a \in PayrollKeys
    BY NextIsUnused, PayrollKeysApart
  <1>3. row \in Advance /\ ~row.deducted
    BY DEF NewAdvance, AdvanceCreate, Advance
  <1>4. /\ j.op = "advance" /\ j.key = a /\ j.step = "done" /\ j.dues = <<>>
        /\ j \in PayrollJob
    BY <1>1, <1>2, NewPayrollJob DEF Begin
  <1> HIDE DEF j, row
  <1>5. /\ job' \in [Requests -> PayrollJob] /\ OthersWait(r) /\ Open(r)' /\ job'[r] = j
        /\ arrived' \in 0 .. MaxArrivals /\ \A k \in PayrollKeys : mine[r][k] = NoRow
    BY <1>1, <1>4, PayrollBegun
  <1>6. /\ SessionInv(PayrollTable) /\ DOMAIN PayrollTable = PayrollKeys
        /\ row \in PayrollTable[a]
    BY <1>2, <1>3, PayrollFacts, PayrollTableFacts
  <1>7. SessionInv(PayrollTable)'
    BY <1>1, <1>2, <1>5, <1>6, InsertStep
  <1>8. /\ mine'[r][a] = row /\ \A q \in PayrollKeys \ {a} : mine'[r][q] = NoRow
        /\ \A u \in Requests \ {r} : mine'[u] = mine[u]
    BY <1>1, <1>2, <1>5, <1>6 DEF SessionInv, SessionRows
  <1>9. RequestSound(r)'
    BY <1>4, <1>5 DEF RequestSound, OrderOps
  <1>10. WorkSound(r)' /\ AdvancesSound(r)'
    BY <1>1, <1>2, <1>3, <1>8, LoneInsert, PayrollKeysApart
  <1>11. PaymentSound(r)'
    BY <1>2, <1>4, <1>5, <1>8, NoPayment, PayrollKeysApart
  <1> QED
    BY <1>1, <1>5, <1>7, <1>8, <1>9, <1>10, <1>11, PayrollLocalStep DEF Sound

-----------------------------------------------------------------------------
(* The committed rows.                                                     *)

\* What was true of the rows that were there still is.
LEMMA OldRows ==
    ASSUME PayrollInv, SessionInv(PayrollTable)', RowsStay
    PROVE  /\ \A o \in Orders : db[o] # NoRow /\ db'[o] = db[o] /\ db'[o].status = "completed" =>
                OutputsOf(o)' # {}
           /\ \A l \in Labors : db[l] # NoRow => db'[db'[l].order] # NoRow
           /\ \A p \in Payments : \A payment : db[p] # NoRow /\ payment = db'[p] =>
                EntriesOK(payment)'
  <1>1. SessionInv(PayrollTable) /\ RowsSound
    BY DEF PayrollInv
  <1>2. ASSUME NEW o \in Orders, db[o] # NoRow, db'[o] = db[o]
        PROVE  db'[o].status = "completed" => OutputsOf(o)' # {}
    BY <1>1, <1>2, OutputsStay DEF RowsSound
  <1>3. ASSUME NEW l \in Labors, db[l] # NoRow
        PROVE  db'[db'[l].order] # NoRow
    <2>1. db'[l] = db[l] /\ db[l].order \in Orders
      BY <1>1, <1>3, PayrollRows, PayrollNumbers DEF RowsStay
    <2>2. db[db[l].order] # NoRow
      BY <1>1, <1>3 DEF RowsSound
    <2> QED
      BY <2>1, <2>2, PayrollKeysApart DEF RowsStay
  <1>4. ASSUME NEW p \in Payments, NEW payment, db[p] # NoRow, payment = db'[p]
        PROVE  EntriesOK(payment)'
    <2>1. payment = db[p] /\ EntriesOK(payment)
      BY <1>1, <1>4 DEF RowsStay, RowsSound, PaymentRows
    <2> QED
      BY <1>1, <2>1, EntriesStay
  <1> QED
    BY <1>2, <1>3, <1>4

LEMMA RowsSoundIs ==
    ASSUME \A o \in Orders : db'[o] # NoRow /\ db'[o].status = "completed" =>
              OutputsOf(o)' # {},
           \A l \in Labors : db'[l] # NoRow => db'[db'[l].order] # NoRow,
           AdvancesTakenBack',
           \A p \in Payments : \A payment : db'[p] # NoRow /\ payment = db'[p] => EntriesOK(payment)'
    PROVE  RowsSound'
  <1>1. (\A p \in PaymentRows : EntriesOK(db[p]))'
    <2> SUFFICES ASSUME NEW p \in Payments, db'[p] # NoRow
                 PROVE  EntriesOK(db[p])'
      BY DEF PaymentRows
    <2> PICK payment : payment = db'[p]
      OBVIOUS
    <2>1. EntriesOK(payment)'
      OBVIOUS
    <2> QED
      BY <2>1 DEF EntriesOK
  <1> QED
    BY <1>1 DEF RowsSound

\* Nothing is taken back, and no advance is deducted.
LEMMA NothingTakenBack ==
    ASSUME PayrollInv, SessionInv(PayrollTable)',
           \A p \in Payments : db'[p] = db[p],
           \A a \in Advances :
              \/ db'[a] = db[a]
              \/ db[a] = NoRow /\ (db'[a] = NoRow \/ ~db'[a].deducted)
    PROVE  AdvancesTakenBack'
  <1> SUFFICES ASSUME NEW s \in Staff
               PROVE  (SumFunction([a \in TakenFrom(s) |-> db[a].amount])
                         <= SumFunction([p \in PaidTo(s) |-> db[p].advance_deduction]))'
    BY DEF AdvancesTakenBack
  <1>1. TakenFrom(s)' = TakenFrom(s) /\ \A a \in TakenFrom(s) : db'[a] = db[a]
    BY DEF TakenFrom
  <1>2. PaidTo(s)' = PaidTo(s) /\ \A p \in PaidTo(s) : db'[p] = db[p]
    BY DEF PaidTo, PaymentRows
  <1>3. [a \in TakenFrom(s)' |-> db'[a].amount] = [a \in TakenFrom(s) |-> db[a].amount]
    BY <1>1
  <1>4. [p \in PaidTo(s)' |-> db'[p].advance_deduction]
           = [p \in PaidTo(s) |-> db[p].advance_deduction]
    BY <1>2
  <1>5. SumFunction([a \in TakenFrom(s) |-> db[a].amount])
           <= SumFunction([p \in PaidTo(s) |-> db[p].advance_deduction])
    BY DEF PayrollInv, RowsSound, AdvancesTakenBack
  <1> QED
    BY <1>3, <1>4, <1>5

-----------------------------------------------------------------------------
(* Rows that are inserted and committed at once.                           *)

\* A transaction of INSERTs alone leaves everybody as they were.
LEMMA InsertsKept ==
    ASSUME PayrollInv, NEW r \in Requests, UNCHANGED <<job, mine, held, arrived>>,
           db' \in [PayrollKeys -> RowsOf(PayrollTable)],
           \A k \in PayrollKeys : db'[k] = db[k] \/ (Unused(k) /\ db'[k] \in PayrollTable[k]),
           \A k \in Outputs \cup Advances \cup Payments : db'[k] = db[k],
           \A o \in Orders : db[o] = NoRow /\ db'[o] # NoRow => db'[o].status # "completed",
           \A l \in Labors : db[l] = NoRow /\ db'[l] # NoRow => db'[db'[l].order] # NoRow
    PROVE  PayrollInv'
  <1>1. SessionInv(PayrollTable) /\ DOMAIN PayrollTable = PayrollKeys
    BY PayrollFacts
  <1>2. SessionInv(PayrollTable)'
    BY <1>1, CreateStep
  <1>3. \A k \in PayrollKeys : db[k] # NoRow => db'[k] = db[k]
    BY DEF Unused
  <1>4. RowsStay
    BY <1>3, PayrollKeysApart DEF RowsStay
  <1>5. \A s \in Requests : Spared(s)
    BY DEF Spared, Unused
  <1>6. AdvancesTakenBack'
    BY <1>2, NothingTakenBack
  <1>7. RowsSound'
    <2>1. ASSUME NEW o \in Orders, db'[o] # NoRow
          PROVE  db'[o].status = "completed" => OutputsOf(o)' # {}
      <3>1. CASE db[o] = NoRow
        BY <2>1, <3>1
      <3>2. CASE db[o] # NoRow
        BY <1>2, <1>3, <1>4, <3>2, OldRows, PayrollKeysApart
      <3> QED
        BY <3>1, <3>2
    <2>2. ASSUME NEW l \in Labors, db'[l] # NoRow
          PROVE  db'[db'[l].order] # NoRow
      <3>1. CASE db[l] = NoRow
        BY <2>2, <3>1
      <3>2. CASE db[l] # NoRow
        BY <1>2, <1>4, <3>2, OldRows
      <3> QED
        BY <3>1, <3>2
    <2>3. \A p \in Payments : \A payment : db'[p] # NoRow /\ payment = db'[p] => EntriesOK(payment)'
      BY <1>2, <1>4, OldRows
    <2> QED
      BY <1>6, <2>1, <2>2, <2>3, RowsSoundIs
  <1>8. Sound(r)'
    BY <1>2, <1>4, <1>5, SoundStays
  <1>9. job' \in [Requests -> PayrollJob]
    BY DEF PayrollInv
  <1> QED
    BY <1>2, <1>4, <1>5, <1>7, <1>8, <1>9, PayrollSessionStep

LEMMA CreateStaffKept ==
    ASSUME PayrollInv, NEW r \in Requests, NEW s \in Staff, NEW body \in StaffCreate,
           CreateStaff(s, body)
    PROVE  PayrollInv'
  <1> DEFINE row == [compensation_type |-> body.compensation_type, active |-> TRUE]
  <1>1. /\ db[s] = NoRow /\ db' = [db EXCEPT ![s] = row]
        /\ UNCHANGED <<job, mine, held, arrived>>
    BY DEF CreateStaff
  <1>2. row \in Employee /\ s \in PayrollKeys /\ PayrollTable[s] = Employee
    BY PayrollTableFacts, PayrollKeysApart DEF StaffCreate, Employee
  <1> HIDE DEF row
  <1>3. Unused(s)
    <2>1. \A u \in Requests : mine[u][s] = NoRow
      BY <1>1, PayrollFacts DEF WorkSound
    <2> QED
      BY <1>1, <2>1 DEF Unused
  <1>4. /\ db' \in [PayrollKeys -> RowsOf(PayrollTable)]
        /\ db'[s] = row /\ \A k \in PayrollKeys \ {s} : db'[k] = db[k]
    <2>1. db \in [PayrollKeys -> RowsOf(PayrollTable)]
      BY PayrollFacts DEF SessionInv, SessionRows
    <2>2. row \in RowsOf(PayrollTable)
      BY <1>2, RowsOfTable, PayrollTableFacts
    <2> QED
      BY <1>1, <1>2, <2>1, <2>2
  <1>5. \A k \in PayrollKeys : db'[k] = db[k] \/ (Unused(k) /\ db'[k] \in PayrollTable[k])
    BY <1>2, <1>3, <1>4
  <1>6. \A k \in Orders \cup Labors \cup Outputs \cup Advances \cup Payments : db'[k] = db[k]
    BY <1>4, PayrollKeysApart
  <1>7. \A k \in Outputs \cup Advances \cup Payments : db'[k] = db[k]
    BY <1>6
  <1>8. /\ \A o \in Orders : ~ (db[o] = NoRow /\ db'[o] # NoRow)
        /\ \A l \in Labors : ~ (db[l] = NoRow /\ db'[l] # NoRow)
    BY <1>6
  <1> QED
    BY <1>1, <1>4, <1>5, <1>7, <1>8, InsertsKept

\* Lists of keys that NewKeys yields are not in use.
LEMMA NewAreUnused ==
    ASSUME NEW keys, NEW new \in NewKeys(keys)
    PROVE  new \subseteq keys /\ \A k \in new : Unused(k)
  BY DEF NewKeys

\* The header of a new order.
LEMMA NewHeader ==
    ASSUME NEW ls \in SUBSET Labors, NEW cs \in SUBSET Costs,
           NEW labor \in [ls -> LaborCreate], NEW costs \in [cs -> Overheads]
    PROVE  /\ Cents(SumFunction([l \in ls |-> labor[l].earned])) \in Nat
           /\ SumFunction(costs) \in Nat
  <1> DEFINE f == [l \in ls |-> labor[l].earned]
  <1>1. IsFiniteSet(ls) /\ IsFiniteSet(cs)
    BY PayrollAssumption, FS_Subset
  <1>2. SumFunction(costs) \in Nat
    <2>1. \A amount \in Overheads : amount \in Nat
      BY LinesAssumption
    <2>2. costs \in [cs -> Int] /\ \A c \in cs : costs[c] >= 0
      BY <2>1
    <2> QED
      BY <1>1, <2>2, SumPositive
  <1>3. SumFunction(f) \in Nat
    <2>1. \A body \in LaborCreate : body.earned \in Nat
      BY LinesAssumption DEF LaborCreate
    <2>2. f \in [ls -> Int] /\ \A l \in ls : f[l] >= 0
      BY <2>1
    <2> HIDE DEF f
    <2> QED
      BY <1>1, <2>2, SumPositive
  <1> HIDE DEF f
  <1>4. Cents(SumFunction(f)) \in Nat
    BY <1>3 DEF Cents
  <1> QED
    BY <1>2, <1>4 DEF f

LEMMA CreateOrderKept ==
    ASSUME PayrollInv, NEW r \in Requests, NEW o \in Orders,
           NEW ls \in NewKeys(Labors), NEW cs \in NewKeys(Costs),
           NEW labor \in [ls -> LaborCreate], NEW costs \in [cs -> Overheads],
           CreateOrder(o, labor, costs)
    PROVE  PayrollInv'
  <1> PICK order : order = [status |-> "planned",
                            labor |-> Cents(SumFunction([l \in ls |-> labor[l].earned])),
                            other |-> SumFunction(costs)]
    OBVIOUS
  <1>1. /\ ls \subseteq Labors /\ cs \subseteq Costs
        /\ (\A l \in ls : Unused(l)) /\ \A c \in cs : Unused(c)
    BY NewAreUnused
  <1>2. /\ order \in ProductionOrder /\ order.status = "planned" /\ order # NoRow
    <2>1. /\ Cents(SumFunction([l \in ls |-> labor[l].earned])) \in Nat
          /\ SumFunction(costs) \in Nat
      BY <1>1, NewHeader
    <2>2. order \in ProductionOrder /\ order.status = "planned"
      BY <2>1 DEF ProductionOrder
    <2> QED
      BY <2>2, NoRowInPayroll
  <1>3. \A l \in ls : /\ LaborRow(o, labor[l]) \in ProductionLabor
                      /\ LaborRow(o, labor[l]).order = o
    BY LaborRowOK
  <1>4. \A c \in cs : [order |-> o, amount |-> costs[c]] \in ProductionCost
    BY DEF ProductionCost
  <1>5. /\ db[o] = NoRow /\ DOMAIN db = PayrollKeys
        /\ UNCHANGED <<job, mine, held, arrived>>
        /\ db' = Created(o, labor, costs)
        /\ DOMAIN labor = ls /\ DOMAIN costs = cs
    BY PayrollFacts DEF CreateOrder
  <1>6. /\ o \in PayrollKeys /\ o \notin ls /\ o \notin cs /\ ls \cap cs = {}
        /\ ls \subseteq PayrollKeys /\ cs \subseteq PayrollKeys
    BY <1>1, PayrollKeysApart
  <1>7. /\ DOMAIN db' = PayrollKeys /\ db'[o] = order
        /\ \A l \in ls : db'[l] = LaborRow(o, labor[l])
        /\ \A c \in cs : db'[c] = [order |-> o, amount |-> costs[c]]
        /\ \A k \in PayrollKeys \ ({o} \cup ls \cup cs) : db'[k] = db[k]
    BY <1>5, <1>6 DEF Created
  <1>8. Unused(o)
    <2>1. \A u \in Requests : mine[u][o] = NoRow
      BY <1>5, PayrollFacts DEF WorkSound
    <2> QED
      BY <1>5, <2>1 DEF Unused
  <1>9. \A k \in PayrollKeys : db'[k] = db[k] \/ (Unused(k) /\ db'[k] \in PayrollTable[k])
    <2>1. Unused(o) /\ db'[o] \in PayrollTable[o]
      BY <1>2, <1>7, <1>8, PayrollTableFacts
    <2>2. \A l \in ls : Unused(l) /\ db'[l] \in PayrollTable[l]
      BY <1>1, <1>3, <1>7, PayrollTableFacts
    <2>3. \A c \in cs : Unused(c) /\ db'[c] \in PayrollTable[c]
      BY <1>1, <1>4, <1>7, PayrollTableFacts
    <2> QED
      BY <1>7, <2>1, <2>2, <2>3
  <1>10. db' \in [PayrollKeys -> RowsOf(PayrollTable)]
    <2>1. \A k \in PayrollKeys : db[k] \in RowsOf(PayrollTable)
      BY PayrollFacts DEF SessionInv, SessionRows
    <2>2. \A k \in PayrollKeys : PayrollTable[k] \subseteq RowsOf(PayrollTable)
      BY RowsOfTable, PayrollTableFacts
    <2>3. \A k \in PayrollKeys : db'[k] \in RowsOf(PayrollTable)
      BY <1>9, <2>1, <2>2
    <2>4. db' = [k \in PayrollKeys |-> db'[k]]
      BY <1>5 DEF Created
    <2> QED
      BY <2>3, <2>4
  <1>11. /\ \A k \in Outputs \cup Advances \cup Payments : db'[k] = db[k]
         /\ \A k \in Orders \ {o} : db'[k] = db[k]
         /\ \A k \in Labors \ ls : db'[k] = db[k]
    BY <1>1, <1>7, PayrollKeysApart
  <1>12. \A k \in Orders : db[k] = NoRow /\ db'[k] # NoRow => db'[k].status # "completed"
    BY <1>2, <1>7, <1>11
  <1>13. \A l \in Labors : db[l] = NoRow /\ db'[l] # NoRow => db'[db'[l].order] # NoRow
    BY <1>2, <1>3, <1>7, <1>11
  <1> QED
    BY <1>5, <1>9, <1>10, <1>11, <1>12, <1>13, InsertsKept

-----------------------------------------------------------------------------
(* The allocation of a payment.                                            *)

\* The n members of U stand in the queue, each of them once.
Queued(queue, U, n) ==
    /\ queue \in [1 .. n -> U]
    /\ \A i, j \in 1 .. n : i # j => queue[i] # queue[j]
    /\ \A l \in U : \E i \in 1 .. n : queue[i] = l

LEMMA QueueCovers ==
    ASSUME NEW U, IsFiniteSet(U), NEW queue \in SetToSeqs(U)
    PROVE  \E n \in Nat : Queued(queue, U, n)
  <1> DEFINE n == Cardinality(U)
             D == 1 .. n
  <1>1. n \in Nat
    BY FS_CardinalityType
  <1>2. queue \in [D -> U] /\ \A i, j \in D : i # j => queue[i] # queue[j]
    BY DEF SetToSeqs
  <1>3. IsFiniteSet(D) /\ Cardinality(D) = n
    <2>1. 1 \in Int /\ n \in Int
      BY <1>1
    <2>2. IsFiniteSet(1 .. n) /\ Cardinality(1 .. n) = IF 1 > n THEN 0 ELSE n - 1 + 1
      BY <2>1, FS_Interval
    <2> QED
      BY <1>1, <2>2
  <1>4. queue \in Injection(D, U)
    BY <1>2 DEF Injection, IsInjective
  <1>5. Cardinality(D) = Cardinality(U) <=> queue \in Surjection(D, U)
    BY <1>4, FS_Injection
  <1>6. queue \in Surjection(D, U)
    BY <1>3, <1>5
  <1>7. \A l \in U : \E i \in D : queue[i] = l
    BY <1>6 DEF Surjection
  <1> QED
    BY <1>1, <1>2, <1>7 DEF Queued

LEMMA MinOfTwo ==
    ASSUME NEW a \in Int, NEW b \in Int
    PROVE  Min({a, b}) = IF a <= b THEN a ELSE b
  <1> DEFINE x == IF a <= b THEN a ELSE b
             P(z) == \A y \in {a, b} : z <= y
  <1>1. x \in {a, b} /\ P(x) /\ \A z \in {a, b} : P(z) => z = x
    OBVIOUS
  <1>2. Min({a, b}) = CHOOSE z \in {a, b} : P(z)
    BY DEF Min
  <1> HIDE DEF x, P
  <1>3. (CHOOSE z \in {a, b} : P(z)) = x
    BY <1>1
  <1> QED
    BY <1>2, <1>3 DEF x

\* What the i-th of the queue is paid: what the ones before it have left of gross.
Share(queue, rem, gross, i) ==
    LET budget == gross - SumFunction([x \in {queue[j] : j \in 1 .. i - 1} |-> rem[x]])
    IN IF budget <= 0 THEN 0
       ELSE IF budget <= rem[queue[i]] THEN budget ELSE rem[queue[i]]

\* The shares are within what remains and add up to the payment.
LEMMA SharesAddUp ==
    ASSUME NEW U, IsFiniteSet(U), NEW rem \in [U -> Nat], NEW gross \in Nat,
           gross <= SumFunction(rem), NEW n \in Nat, NEW queue, Queued(queue, U, n),
           NEW pay \in [U -> Int],
           \A i \in 1 .. n : pay[queue[i]] = Share(queue, rem, gross, i)
    PROVE  /\ pay \in [U -> Nat] /\ \A l \in U : pay[l] <= rem[l]
           /\ SumFunction(pay) = gross
  <1> DEFINE B == [k \in 0 .. n |-> {queue[j] : j \in 1 .. k}]
  <1>1. /\ \A i \in 0 .. n : B[i] \in SUBSET U
        /\ B[0] = {} /\ B[n] = U
        /\ \A i \in 1 .. n : /\ i - 1 \in 0 .. n /\ queue[i] \in B[i]
                             /\ B[i] \ {queue[i]} = B[i - 1]
                             /\ {queue[j] : j \in 1 .. i - 1} = B[i - 1]
    <2>1. \A i \in 0 .. n : B[i] \in SUBSET U
      BY DEF Queued
    <2>2. B[0] = {} /\ B[n] = U
      BY DEF Queued
    <2>3. ASSUME NEW i \in 1 .. n
          PROVE  /\ i - 1 \in 0 .. n /\ queue[i] \in B[i]
                 /\ B[i] \ {queue[i]} = B[i - 1]
                 /\ {queue[j] : j \in 1 .. i - 1} = B[i - 1]
      BY DEF Queued
    <2> QED
      BY <2>1, <2>2, <2>3
  <1> HIDE DEF B
  <1>2. PICK p \in [SUBSET U -> Int] : Sums(rem, U, p) /\ SumFunction(rem) = p[U]
    <2>1. rem \in [U -> Int]
      OBVIOUS
    <2> QED
      BY <2>1, SumIsLastOfSums
  <1>3. \A i \in 0 .. n : p[B[i]] \in Nat
    <2> SUFFICES ASSUME NEW i \in 0 .. n
                 PROVE  p[B[i]] \in Nat
      OBVIOUS
    <2>1. B[i] \in SUBSET U /\ IsFiniteSet(B[i])
      BY <1>1, FS_Subset
    <2>2. rem \in [U -> Int]
      OBVIOUS
    <2>3. SumFunction([x \in B[i] |-> rem[x]]) = p[B[i]]
      BY <1>2, <2>1, <2>2, SumOfPart
    <2> DEFINE f == [x \in B[i] |-> rem[x]]
    <2>4. f \in [B[i] -> Int] /\ \A x \in B[i] : f[x] >= 0
      BY <2>1
    <2>5. SumFunction(f) = p[B[i]]
      BY <2>3
    <2> HIDE DEF f
    <2> QED
      BY <2>1, <2>4, <2>5, SumPositive
  <1>4. ASSUME NEW i \in 1 .. n
        PROVE  /\ queue[i] \in U /\ rem[queue[i]] \in Nat
               /\ pay[queue[i]] = IF gross - p[B[i - 1]] <= 0 THEN 0
                                  ELSE IF gross - p[B[i - 1]] <= rem[queue[i]]
                                  THEN gross - p[B[i - 1]] ELSE rem[queue[i]]
               /\ p[B[i]] = rem[queue[i]] + p[B[i - 1]]
    <2>1. queue[i] \in U /\ rem[queue[i]] \in Nat
      BY DEF Queued
    <2>2. B[i - 1] \in SUBSET U /\ B[i] \in SUBSET U /\ rem \in [U -> Int]
      BY <1>1
    <2>3. SumFunction([x \in B[i - 1] |-> rem[x]]) = p[B[i - 1]]
      BY <1>2, <2>2, SumOfPart
    <2>4. /\ pay[queue[i]] = Share(queue, rem, gross, i)
          /\ {queue[j] : j \in 1 .. i - 1} = B[i - 1]
      BY <1>1
    <2>5. p[B[i]] = rem[queue[i]] + p[B[i] \ {queue[i]}]
      BY <1>1, <1>2, <2>2 DEF Sums
    <2> QED
      BY <1>1, <2>1, <2>3, <2>4, <2>5 DEF Share
  <1>5. \A i \in 1 .. n : pay[queue[i]] \in Nat /\ pay[queue[i]] <= rem[queue[i]]
    <2> SUFFICES ASSUME NEW i \in 1 .. n
                 PROVE  pay[queue[i]] \in Nat /\ pay[queue[i]] <= rem[queue[i]]
      OBVIOUS
    <2>1. p[B[i - 1]] \in Nat
      BY <1>1, <1>3
    <2> QED
      BY <1>4, <2>1
  <1>6. \A l \in U : pay[l] \in Nat /\ pay[l] <= rem[l]
    BY <1>5 DEF Queued
  <1>7. pay \in [U -> Nat]
    BY <1>6
  <1>8. PICK q \in [SUBSET U -> Int] : Sums(pay, U, q) /\ SumFunction(pay) = q[U]
    BY SumIsLastOfSums
  <1>9. ASSUME NEW i \in 1 .. n
        PROVE  q[B[i]] = pay[queue[i]] + q[B[i - 1]]
    <2>1. B[i] \in SUBSET U /\ queue[i] \in B[i] /\ B[i] \ {queue[i]} = B[i - 1]
      BY <1>1
    <2> QED
      BY <1>8, <2>1 DEF Sums
  <1> DEFINE OK(i) == q[B[i]] = IF p[B[i]] <= gross THEN p[B[i]] ELSE gross
             Wrong == {i \in 0 .. n : ~OK(i)}
  <1>10. Wrong = {}
    <2> SUFFICES ASSUME Wrong # {}
                 PROVE  FALSE
      OBVIOUS
    <2>1. PICK i \in Wrong : \A j \in Wrong : i <= j
      <3>1. Wrong \subseteq Nat
        OBVIOUS
      <3> HIDE DEF Wrong
      <3> QED
        BY <3>1, LeastNatural
    <2>2. i \in 0 .. n /\ ~OK(i)
      OBVIOUS
    <2>3. OK(0)
      BY <1>1, <1>2, <1>8 DEF Sums
    <2>4. i \in 1 .. n /\ i - 1 \in 0 .. n /\ i - 1 \notin Wrong
      <3>1. i # 0
        BY <2>2, <2>3
      <3>2. i \in 1 .. n /\ i - 1 \in 0 .. n /\ ~ (i <= i - 1)
        BY <2>2, <3>1
      <3> QED
        BY <2>1, <3>2
    <2>5. OK(i - 1)
      BY <2>4
    <2>6. q[B[i]] = pay[queue[i]] + q[B[i - 1]]
      BY <1>9, <2>4
    <2>7. p[B[i - 1]] \in Nat /\ p[B[i]] \in Nat
      BY <1>3, <2>2, <2>4
    <2>8. OK(i)
      <3>1. /\ pay[queue[i]] = IF gross - p[B[i - 1]] <= 0 THEN 0
                               ELSE IF gross - p[B[i - 1]] <= rem[queue[i]]
                               THEN gross - p[B[i - 1]] ELSE rem[queue[i]]
            /\ p[B[i]] = rem[queue[i]] + p[B[i - 1]] /\ rem[queue[i]] \in Nat
        BY <1>4, <2>4
      <3>2. q[B[i - 1]] = IF p[B[i - 1]] <= gross THEN p[B[i - 1]] ELSE gross
        BY <2>5
      <3> QED
        BY <2>6, <2>7, <3>1, <3>2
    <2> QED
      BY <2>2, <2>8
  <1>11. OK(n)
    BY <1>10
  <1>12. SumFunction(pay) = gross
    BY <1>1, <1>2, <1>3, <1>8, <1>11
  <1> QED
    BY <1>6, <1>7, <1>12

\* Fifo gives each of the n unpaid lines in the queue its share.
Shared(unpaid, rem, queue, gross, n) ==
    /\ \A i \in 1 .. n : /\ queue[i] \in unpaid
                         /\ Fifo(queue, gross)[queue[i]] = Share(queue, rem, gross, i)
                         /\ Share(queue, rem, gross, i) \in Int
    /\ \A l \in Labors \ unpaid : Fifo(queue, gross)[l] = 0

LEMMA FifoShares ==
    ASSUME NEW unpaid \in SUBSET Labors, NEW rem,
           \A l \in unpaid : Remaining(l) \in Nat /\ rem[l] = Remaining(l),
           NEW gross \in Nat, NEW n \in Nat, NEW queue, Queued(queue, unpaid, n)
    PROVE  Shared(unpaid, rem, queue, gross, n)
  <1>1. DOMAIN queue = 1 .. n /\ ToSet(queue) = unpaid
    BY DEF Queued, ToSet
  <1>2. ASSUME NEW i \in 1 .. n
        PROVE  /\ queue[i] \in unpaid
               /\ Fifo(queue, gross)[queue[i]] = Share(queue, rem, gross, i)
               /\ Share(queue, rem, gross, i) \in Int
    <2> DEFINE before == {queue[j] : j \in 1 .. i - 1}
               l == queue[i]
    <2>1. l \in unpaid /\ l \in Labors /\ before \in SUBSET unpaid
      BY DEF Queued
    <2>2. (CHOOSE k \in DOMAIN queue : queue[k] = l) = i
      BY <1>1 DEF Queued
    <2>3. [x \in before |-> Remaining(x)] = [x \in before |-> rem[x]]
      BY <2>1
    <2>4. Left(before) = SumFunction([x \in before |-> rem[x]])
      BY <2>3 DEF Left
    <2>5. Left(before) \in Int
      <3> DEFINE f == [x \in before |-> Remaining(x)]
      <3>1. IsFiniteSet(before)
        BY <2>1, FS_Subset, PayrollAssumption
      <3>2. f \in [before -> Int]
        BY <2>1
      <3>3. Left(before) = SumFunction(f)
        BY DEF Left
      <3> HIDE DEF f, before
      <3> QED
        BY <3>1, <3>2, <3>3, SumType
    <2>6. Remaining(l) \in Nat /\ rem[l] = Remaining(l)
      BY <2>1
    <2>7. Fifo(queue, gross)[l]
            = IF gross - Left(before) <= 0 THEN 0
              ELSE Min({gross - Left(before), Remaining(l)})
      BY <1>1, <2>1, <2>2 DEF Fifo
    <2>8. Share(queue, rem, gross, i)
            = IF gross - Left(before) <= 0 THEN 0
              ELSE IF gross - Left(before) <= rem[l] THEN gross - Left(before) ELSE rem[l]
      BY <2>4 DEF Share
    <2> HIDE DEF before, l
    <2>9. Min({gross - Left(before), Remaining(l)})
            = IF gross - Left(before) <= Remaining(l) THEN gross - Left(before)
              ELSE Remaining(l)
      BY <2>5, <2>6, MinOfTwo
    <2>10. Fifo(queue, gross)[l] = Share(queue, rem, gross, i) /\ Share(queue, rem, gross, i) \in Int
      BY <2>5, <2>6, <2>7, <2>8, <2>9
    <2> QED
      BY <2>1, <2>10 DEF l
  <1>3. \A l \in Labors \ unpaid : Fifo(queue, gross)[l] = 0
    BY <1>1 DEF Fifo
  <1> QED
    BY <1>2, <1>3 DEF Shared

\* What a payment of piecework pays, for any lines in any order: no line more than it
\* has left, nothing of other lines, and the gross amount in all.
THEOREM FifoAllocates ==
    ASSUME NEW unpaid \in SUBSET Labors, \A l \in unpaid : Remaining(l) \in Nat,
           NEW gross \in Nat, gross <= Left(unpaid), NEW queue \in SetToSeqs(unpaid)
    PROVE  /\ Fifo(queue, gross) \in [Labors -> Nat]
           /\ \A l \in unpaid : Fifo(queue, gross)[l] <= Remaining(l)
           /\ \A l \in Labors \ unpaid : Fifo(queue, gross)[l] = 0
           /\ SumFunction(Fifo(queue, gross)) = gross
  <1>1. IsFiniteSet(Labors) /\ IsFiniteSet(unpaid)
    BY FS_Subset, PayrollAssumption
  <1>2. PICK n \in Nat : Queued(queue, unpaid, n)
    BY <1>1, QueueCovers
  <1> PICK rem : rem = [l \in unpaid |-> Remaining(l)]
    OBVIOUS
  <1> PICK e : e = Fifo(queue, gross)
    OBVIOUS
  <1> DEFINE pay == [l \in unpaid |-> e[l]]
  <1>3. /\ \A i \in 1 .. n : /\ queue[i] \in unpaid
                             /\ e[queue[i]] = Share(queue, rem, gross, i)
                             /\ e[queue[i]] \in Int
        /\ \A l \in Labors \ unpaid : e[l] = 0
    <2>1. \A l \in unpaid : Remaining(l) \in Nat /\ rem[l] = Remaining(l)
      OBVIOUS
    <2>2. Shared(unpaid, rem, queue, gross, n)
      BY <1>2, <2>1, FifoShares
    <2> QED
      BY <2>2 DEF Shared
  <1>4. rem \in [unpaid -> Nat] /\ gross <= SumFunction(rem)
    BY DEF Left
  <1>5. \A l \in unpaid : e[l] \in Int
    BY <1>2, <1>3 DEF Queued
  <1>6. pay \in [unpaid -> Int] /\ \A l \in unpaid : pay[l] = e[l]
    BY <1>5
  <1> HIDE DEF pay
  <1>7. \A i \in 1 .. n : pay[queue[i]] = Share(queue, rem, gross, i)
    BY <1>3, <1>6
  <1>8. /\ pay \in [unpaid -> Nat] /\ \A l \in unpaid : pay[l] <= rem[l]
        /\ SumFunction(pay) = gross
    BY <1>1, <1>2, <1>4, <1>6, <1>7, SharesAddUp
  <1>9. \A l \in unpaid : e[l] \in Nat /\ e[l] <= Remaining(l)
    BY <1>6, <1>8
  <1>10. e \in [Labors -> Nat]
    <2>1. e = [l \in Labors |-> e[l]]
      BY DEF Fifo
    <2>2. \A l \in Labors : e[l] \in Nat
      BY <1>3, <1>9
    <2> QED
      BY <2>1, <2>2
  <1>11. SumFunction(e) = SumFunction(pay)
    <2>1. e \in [Labors -> Int] /\ unpaid \subseteq Labors
      BY <1>10
    <2> QED
      BY <1>1, <1>3, <1>6, <2>1, SumWithin
  <1> QED
    BY <1>3, <1>8, <1>9, <1>10, <1>11

\* The payment of a salary pays no line.
LEMMA FifoOfNothing ==
    ASSUME NEW gross \in Nat, NEW queue \in SetToSeqs({})
    PROVE  /\ Fifo(queue, gross) \in [Labors -> Nat]
           /\ \A l \in Labors : Fifo(queue, gross)[l] = 0
           /\ SumFunction(Fifo(queue, gross)) = 0
  <1>1. PICK n \in Nat : Queued(queue, {}, n)
    BY FS_EmptySet, QueueCovers
  <1>2. ToSet(queue) = {}
    BY <1>1 DEF Queued, ToSet
  <1>3. /\ Fifo(queue, gross) \in [Labors -> Nat]
        /\ \A l \in Labors : Fifo(queue, gross)[l] = 0
    BY <1>2 DEF Fifo
  <1> HIDE DEF Fifo
  <1>4. Fifo(queue, gross) \in [Labors -> Int] /\ IsFiniteSet(Labors)
    BY <1>3, PayrollAssumption
  <1> QED
    BY <1>3, <1>4, SumZero

-----------------------------------------------------------------------------
(* Payments.                                                               *)

LEMMA WhatRemains ==
    ASSUME SessionInv(PayrollTable), NEW l \in Labors, db[l] # NoRow
    PROVE  PaidFor(l) \in Nat /\ Remaining(l) \in Int
  <1> DEFINE f == [p \in PaymentRows |-> db[p].entries[l]]
  <1>1. IsFiniteSet(PaymentRows)
    BY FS_Subset, PayrollAssumption DEF PaymentRows
  <1>2. \A p \in PaymentRows : db[p].entries[l] \in Nat
    BY PayrollRows, PayrollNumbers DEF PaymentRows
  <1>3. f \in [PaymentRows -> Int] /\ \A p \in PaymentRows : f[p] >= 0
    BY <1>2
  <1>4. PaidFor(l) = SumFunction(f)
    BY DEF PaidFor
  <1> HIDE DEF f
  <1>5. PaidFor(l) \in Nat
    BY <1>1, <1>3, <1>4, SumPositive
  <1>6. db[l].total_cost \in Nat
    BY PayrollRows, PayrollNumbers
  <1> QED
    BY <1>5, <1>6 DEF Remaining

\* The lines that are unpaid are of finished orders.
LEMMA UnpaidLines ==
    ASSUME PayrollInv, NEW s, NEW l \in Unpaid(s)
    PROVE  /\ l \in Labors /\ db[l] # NoRow /\ db[l].staff = s
           /\ Remaining(l) \in Nat /\ Remaining(l) > 0
           /\ OutputsOf(db[l].order) # {}
  <1>1. SessionInv(PayrollTable) /\ RowsSound
    BY DEF PayrollInv
  <1>2. /\ l \in Labors /\ db[l] # NoRow /\ db[l].staff = s /\ Remaining(l) > 0
        /\ db[db[l].order].status = "completed"
    BY DEF Unpaid
  <1>3. Remaining(l) \in Int
    BY <1>1, <1>2, WhatRemains
  <1>4. db[l].order \in Orders /\ db[db[l].order] # NoRow
    BY <1>1, <1>2, PayrollRows, PayrollNumbers DEF RowsSound
  <1>5. OutputsOf(db[l].order) # {}
    BY <1>1, <1>2, <1>4 DEF RowsSound
  <1> QED
    BY <1>2, <1>3, <1>5

LEMMA PaymentJob ==
    ASSUME NEW j \in PayrollJob, NEW amount \in Int, NEW loaded \in [Labors -> Nat],
           NEW new \in StaffPayment
    PROVE  [j EXCEPT !.step = "advances", !.amount = amount, !.loaded = loaded, !.new = new]
              \in PayrollJob
  <1> PICK L : L = ProductionOrder \cup Employee \cup [Labors -> Nat] \cup {NoRow}
    OBVIOUS
  <1> PICK N : N = ProductionOrder \cup Employee \cup StaffPayment \cup {NoRow}
    OBVIOUS
  <1>1. loaded \in L /\ new \in N
    OBVIOUS
  <1>2. PayrollJob = [op : Ops \cup {"none"}, step : {"write", "advances", "done"},
                      key : PayrollKeys \cup {NoKey}, amount : Int, dues : Seq(Advances),
                      loaded : L, new : N, kept : {NoRow}, keptOf : {NoKey}]
    BY DEF PayrollJob
  <1> QED
    BY <1>1, <1>2

LEMMA DisburseSalaryKept ==
    ASSUME PayrollInv, NEW r \in Requests, NEW s \in Staff, NEW body \in StaffPaymentCreate,
           DisburseSalary(r, s, body)
    PROVE  PayrollInv'
  <1> DEFINE piecework == db[s].compensation_type = "per_unit"
  <1> PICK unpaid : unpaid = IF piecework THEN Unpaid(s) ELSE {}
    OBVIOUS
  <1>1. /\ db[s] # NoRow
        /\ piecework => body.gross <= Left(unpaid)
        /\ UNCHANGED <<db, mine, held>>
    BY DEF DisburseSalary, ActiveStaff
  <1>2. PICK queue \in SetToSeqs(unpaid) :
           Begin(r, [Job("disburse", s) EXCEPT
                       !.step = "advances", !.amount = body.extra,
                       !.loaded = [l \in Labors |-> IF l \in unpaid THEN Remaining(l) ELSE 0],
                       !.new = [staff |-> s, compensation_type |-> db[s].compensation_type,
                                month |-> body.month, gross |-> body.gross,
                                advance_deduction |-> 0,
                                entries |-> Fifo(queue, body.gross)]])
    BY DEF DisburseSalary
  <1> PICK entries : entries = Fifo(queue, body.gross)
    OBVIOUS
  <1> PICK loaded : loaded = [l \in Labors |-> IF l \in unpaid THEN Remaining(l) ELSE 0]
    OBVIOUS
  <1> PICK new : new = [staff |-> s, compensation_type |-> db[s].compensation_type,
                        month |-> body.month, gross |-> body.gross,
                        advance_deduction |-> 0, entries |-> entries]
    OBVIOUS
  <1> PICK j : j = [Job("disburse", s) EXCEPT !.step = "advances", !.amount = body.extra,
                      !.loaded = loaded, !.new = new]
    OBVIOUS
  <1>3. Begin(r, j)
    BY <1>2
  <1>4. /\ body.gross \in Salaries /\ body.gross \in Nat
        /\ body.month \in Months /\ body.extra \in Int
    <2>1. Salaries \subseteq Nat /\ Extras \subseteq Int
      BY PayrollAssumption
    <2>2. body.gross \in Salaries /\ body.month \in Months /\ body.extra \in Extras
      BY DEF StaffPaymentCreate
    <2> QED
      BY <2>1, <2>2
  <1>5. db[s].compensation_type \in CompensationType
    <2>1. db[s] \in Employee
      BY <1>1, PayrollFacts, PayrollRows
    <2> QED
      BY <2>1 DEF Employee
  <1>6. /\ unpaid \in SUBSET Labors
        /\ \A l \in unpaid : /\ Remaining(l) \in Nat /\ db[l] # NoRow /\ db[l].staff = s
                             /\ OutputsOf(db[l].order) # {}
    <2>1. \A l \in unpaid : piecework /\ l \in Unpaid(s)
      OBVIOUS
    <2> QED
      BY <2>1, UnpaidLines
  <1>7. /\ entries \in [Labors -> Nat]
        /\ \A l \in unpaid : entries[l] <= Remaining(l)
        /\ \A l \in Labors \ unpaid : entries[l] = 0
        /\ SumFunction(entries) = IF piecework THEN body.gross ELSE 0
    <2>1. CASE piecework
      <3>1. body.gross <= Left(unpaid)
        BY <1>1, <2>1
      <3> HIDE DEF piecework
      <3>2. /\ Fifo(queue, body.gross) \in [Labors -> Nat]
            /\ \A l \in unpaid : Fifo(queue, body.gross)[l] <= Remaining(l)
            /\ \A l \in Labors \ unpaid : Fifo(queue, body.gross)[l] = 0
            /\ SumFunction(Fifo(queue, body.gross)) = body.gross
        BY <1>4, <1>6, <3>1, FifoAllocates
      <3> QED
        BY <2>1, <3>2
    <2>2. CASE ~piecework
      <3>1. unpaid = {}
        BY <2>2
      <3>2. /\ entries \in [Labors -> Nat] /\ \A l \in Labors : entries[l] = 0
            /\ SumFunction(entries) = 0
        BY <1>4, <3>1, FifoOfNothing
      <3> QED
        BY <2>2, <3>1, <3>2
    <2> QED
      BY <2>1, <2>2
  <1>8. loaded \in [Labors -> Nat] /\ \A l \in Labors : entries[l] <= loaded[l]
    <2>1. \A l \in Labors : (IF l \in unpaid THEN Remaining(l) ELSE 0) \in Nat
      BY <1>6
    <2>2. loaded \in [Labors -> Nat]
          /\ \A l \in Labors : loaded[l] = IF l \in unpaid THEN Remaining(l) ELSE 0
      BY <2>1
    <2>3. ASSUME NEW l \in Labors
          PROVE  entries[l] <= loaded[l]
      <3>1. CASE l \in unpaid
        BY <1>7, <2>2, <3>1
      <3>2. CASE l \notin unpaid
        <4>1. entries[l] = 0 /\ loaded[l] = 0
          BY <1>7, <2>2, <3>2
        <4> QED
          BY <4>1
      <3> QED
        BY <3>1, <3>2
    <2> QED
      BY <2>2, <2>3
  <1>9. /\ new \in StaffPayment /\ new.staff = s /\ new.gross = body.gross
        /\ new.entries = entries /\ new.compensation_type = db[s].compensation_type
    BY <1>4, <1>5, <1>7 DEF StaffPayment
  <1>10. EntriesOK(new)
    <2>1. SumFunction(new.entries)
            = IF new.compensation_type = "per_unit" THEN new.gross ELSE 0
      BY <1>7, <1>9
    <2>2. ASSUME NEW l \in Labors, new.entries[l] > 0
          PROVE  db[l] # NoRow /\ db[l].staff = new.staff /\ OutputsOf(db[l].order) # {}
      <3>1. l \in unpaid
        BY <1>7, <1>9, <2>2
      <3> QED
        BY <1>6, <1>9, <3>1
    <2> QED
      BY <2>1, <2>2 DEF EntriesOK
  <1>11. /\ j.op = "disburse" /\ j.step = "advances" /\ j.key = s /\ j.dues = <<>>
         /\ j.loaded = loaded /\ j.new = new
    BY DEF Job, NoJob
  <1>12. j \in PayrollJob
    <2>1. j.op \in Ops /\ s \in PayrollKeys
      BY <1>3, PayrollKeysApart DEF Begin
    <2>2. Job("disburse", s) \in PayrollJob
      BY <1>11, <2>1, NewPayrollJob
    <2> QED
      BY <1>4, <1>8, <1>9, <2>2, PaymentJob
  <1>13. /\ job' \in [Requests -> PayrollJob] /\ OthersWait(r) /\ Open(r)' /\ job'[r] = j
         /\ arrived' \in 0 .. MaxArrivals /\ \A k \in PayrollKeys : mine[r][k] = NoRow
    BY <1>3, <1>12, PayrollBegun
  <1>14. SessionInv(PayrollTable)'
    BY <1>1, <1>13, PayrollFacts, JobStep
  <1>15. \A k \in PayrollKeys : mine'[r][k] = NoRow
    BY <1>1, <1>13
  <1>16. RequestSound(r)'
    BY <1>11, <1>13 DEF RequestSound, OrderOps
  <1>17. WorkSound(r)' /\ AdvancesSound(r)'
    BY <1>15, CleanSession
  <1>18. PaymentSound(r)'
    <2>1. \A k \in Orders \cup Labors \cup Costs \cup Outputs \cup Staff
                   \cup Advances \cup Payments : mine'[r][k] = NoRow
      BY <1>15 DEF PayrollKeys
    <2>2. EntriesOK(new)'
      BY <1>1, <1>10 DEF EntriesOK, OutputsOf
    <2>3. (EntriesOK(job[r].new))'
      BY <1>11, <1>13, <2>2 DEF EntriesOK
    <2> QED
      BY <1>8, <1>9, <1>11, <1>13, <2>1, <2>3 DEF PaymentSound, At
  <1> QED
    BY <1>1, <1>13, <1>14, <1>16, <1>17, <1>18, PayrollLocalStep DEF Sound

LEMMA PaidJob ==
    ASSUME NEW j \in PayrollJob, NEW dues \in Seq(Advances)
    PROVE  [j EXCEPT !.step = "done", !.new = NoRow, !.amount = 0, !.dues = dues]
              \in PayrollJob
  <1> PICK L : L = ProductionOrder \cup Employee \cup [Labors -> Nat] \cup {NoRow}
    OBVIOUS
  <1> PICK N : N = ProductionOrder \cup Employee \cup StaffPayment \cup {NoRow}
    OBVIOUS
  <1> PICK Q : Q = Seq(Advances)
    OBVIOUS
  <1>1. NoRow \in N /\ dues \in Q /\ 0 \in Int
    OBVIOUS
  <1>2. PayrollJob = [op : Ops \cup {"none"}, step : {"write", "advances", "done"},
                      key : PayrollKeys \cup {NoKey}, amount : Int, dues : Q,
                      loaded : L, new : N, kept : {NoRow}, keptOf : {NoKey}]
    BY DEF PayrollJob
  <1> HIDE DEF PayrollJob
  <1> QED
    BY <1>1, <1>2

LEMMA SeqOfSet ==
    ASSUME NEW S, IsFiniteSet(S)
    PROVE  SetToSeq(S) \in Seq(S)
  <1> DEFINE n == Cardinality(S)
  <1>1. n \in Nat /\ ExistsBijection(1 .. n, S)
    BY FS_CardinalityType
  <1>2. \E f \in [1 .. n -> S] : IsInjective(f)
    BY <1>1 DEF ExistsBijection, Bijection, Injection
  <1>3. SetToSeq(S) \in [1 .. n -> S]
    BY <1>2 DEF SetToSeq
  <1> QED
    BY <1>1, <1>3

\* The advances that a payment finds pending.
LEMMA PendingAdvances ==
    ASSUME PayrollInv, NEW payment, NEW pending, pending = Pending(payment)
    PROVE  /\ pending \in SUBSET Advances
           /\ \A a \in pending : db[a] # NoRow /\ db[a].staff = payment.staff
           /\ SumFunction([a \in pending |-> db[a].amount]) \in Nat
           /\ SetToSeq(pending) \in Seq(Advances)
           /\ \A i \in 1 .. Len(SetToSeq(pending)) : SetToSeq(pending)[i] \in pending
  <1>1. SessionInv(PayrollTable)
    BY DEF PayrollInv
  <1>2. /\ pending \in SUBSET Advances
        /\ \A a \in pending : db[a] # NoRow /\ db[a].staff = payment.staff
    BY DEF Pending
  <1>3. IsFiniteSet(pending)
    BY <1>2, FS_Subset, PayrollAssumption
  <1>4. SumFunction([a \in pending |-> db[a].amount]) \in Nat
    <2> DEFINE f == [a \in pending |-> db[a].amount]
    <2>1. \A a \in pending : db[a].amount \in Nat
      BY <1>1, <1>2, PayrollRows, PayrollNumbers
    <2>2. f \in [pending -> Int] /\ \A a \in pending : f[a] >= 0
      BY <2>1
    <2> HIDE DEF f
    <2>3. SumFunction(f) \in Nat
      BY <1>3, <2>2, SumPositive
    <2> QED
      BY <2>3 DEF f
  <1>5. SetToSeq(pending) \in Seq(pending)
    BY <1>3, SeqOfSet
  <1> QED
    BY <1>2, <1>4, <1>5

LEMMA InsertPaymentKept ==
    ASSUME PayrollInv, NEW r \in Requests, NEW p \in NextOf(Payments), InsertPayment(r, p)
    PROVE  PayrollInv'
  <1> PICK payment : payment = job[r].new
    OBVIOUS
  <1> PICK pending : pending = Pending(payment)
    OBVIOUS
  <1> PICK total : total = SumFunction([a \in pending |-> db[a].amount])
    OBVIOUS
  <1> PICK row : row = [payment EXCEPT !.advance_deduction = total]
    OBVIOUS
  <1> PICK dues : dues = SetToSeq(pending)
    OBVIOUS
  <1>1. /\ At(r, "disburse", "advances")
        /\ mine' = [mine EXCEPT ![r][p] = row]
        /\ job' = [job EXCEPT ![r].step = "done", ![r].new = NoRow, ![r].amount = 0,
                              ![r].dues = dues]
        /\ UNCHANGED <<db, held, arrived>>
    BY DEF InsertPayment, Insert
  <1>2. p \in Payments /\ Unused(p) /\ p \in PayrollKeys
    BY NextIsUnused, PayrollKeysApart
  <1>3. /\ job[r].op = "disburse" /\ job[r].step = "advances"
        /\ job[r].loaded \in [Labors -> Nat]
        /\ \A k \in PayrollKeys : mine[r][k] = NoRow
        /\ payment \in StaffPayment /\ EntriesOK(payment)
        /\ \A l \in Labors : payment.entries[l] <= job[r].loaded[l]
    BY <1>1, PayrollFacts DEF At, PaymentSound, PayrollKeys
  <1>4. /\ pending \in SUBSET Advances
        /\ \A a \in pending : db[a] # NoRow /\ db[a].staff = payment.staff
        /\ total \in Nat
        /\ dues \in Seq(Advances) /\ \A i \in 1 .. Len(dues) : dues[i] \in pending
    BY PendingAdvances
  <1>5. /\ row \in StaffPayment /\ row.staff = payment.staff /\ row.gross = payment.gross
        /\ row.entries = payment.entries /\ row.compensation_type = payment.compensation_type
        /\ row.advance_deduction = total /\ row # NoRow
    <2>1. /\ row \in StaffPayment /\ row.staff = payment.staff /\ row.gross = payment.gross
          /\ row.entries = payment.entries
          /\ row.compensation_type = payment.compensation_type
          /\ row.advance_deduction = total
      BY <1>3, <1>4 DEF StaffPayment
    <2> QED
      BY <2>1, NoRowInPayroll
  <1>6. /\ job' \in [Requests -> PayrollJob] /\ OthersWait(r) /\ Open(r)'
        /\ job'[r].op = "disburse" /\ job'[r].step = "done"
        /\ job'[r].loaded = job[r].loaded /\ job'[r].dues = dues
    <2>1. job \in [Requests -> PayrollJob] /\ job[r] \in PayrollJob
      BY DEF PayrollInv
    <2>2. [job[r] EXCEPT !.step = "done", !.new = NoRow, !.amount = 0, !.dues = dues]
             \in PayrollJob
      BY <1>4, <2>1, PaidJob
    <2>3. job' = [job EXCEPT ![r] = [job[r] EXCEPT !.step = "done", !.new = NoRow,
                                                   !.amount = 0, !.dues = dues]]
      BY <1>1
    <2>4. job' \in [Requests -> PayrollJob]
      BY <2>1, <2>2, <2>3
    <2>5. /\ job'[r].op = job[r].op /\ job'[r].step = "done"
          /\ job'[r].loaded = job[r].loaded /\ job'[r].dues = dues
          /\ \A u \in Requests \ {r} : job'[u] = job[u]
      BY <2>1, <2>3 DEF PayrollJob
    <2> QED
      BY <1>3, <2>4, <2>5 DEF OthersWait, Open
  <1>7. /\ SessionInv(PayrollTable) /\ DOMAIN PayrollTable = PayrollKeys
        /\ arrived' \in 0 .. MaxArrivals /\ row \in PayrollTable[p]
    BY <1>1, <1>2, <1>5, PayrollFacts, PayrollTableFacts
  <1>8. SessionInv(PayrollTable)'
    BY <1>1, <1>2, <1>6, <1>7, InsertStep
  <1>9. /\ mine'[r][p] = row /\ \A q \in PayrollKeys \ {p} : mine'[r][q] = NoRow
        /\ \A u \in Requests \ {r} : mine'[u] = mine[u]
    BY <1>1, <1>2, <1>3, <1>7 DEF SessionInv, SessionRows
  <1>10. RequestSound(r)'
    BY <1>6 DEF RequestSound, OrderOps, At
  <1>11. WorkSound(r)' /\ AdvancesSound(r)'
    BY <1>1, <1>2, <1>9, LoneInsert, PayrollKeysApart
  <1>12. EntriesOK(row)'
    <2>1. EntriesOK(row)
      BY <1>3, <1>5 DEF EntriesOK
    <2> QED
      BY <1>1, <2>1 DEF EntriesOK, OutputsOf
  <1>13. TakesBack(r, p)'
    <2>1. \A a \in Advances : mine'[r][a] = NoRow
      BY <1>2, <1>9, PayrollKeysApart
    <2>2. /\ \A i \in 1 .. Len(job'[r].dues) : job'[r].dues[i] \in pending
          /\ \A a \in pending : db'[a] # NoRow /\ db'[a].staff = mine'[r][p].staff
          /\ SumFunction([a \in pending |-> db'[a].amount]) = mine'[r][p].advance_deduction
      BY <1>1, <1>4, <1>5, <1>6, <1>9
    <2> QED
      BY <1>4, <2>1, <2>2 DEF TakesBack
  <1>14. Pays(r, p)'
    <2>1. \A q \in Payments \ {p} : mine'[r][q] = NoRow
      BY <1>9, PayrollKeysApart
    <2>2. (EntriesOK(mine[r][p]))'
      BY <1>9, <1>12 DEF EntriesOK
    <2>3. \A l \in Labors : mine'[r][p].entries[l] <= job'[r].loaded[l]
      BY <1>3, <1>5, <1>6, <1>9
    <2> QED
      BY <1>5, <1>9, <1>13, <2>1, <2>2, <2>3 DEF Pays
  <1>15. PaymentSound(r)'
    <2>1. \A k \in Orders \cup Labors \cup Costs \cup Outputs \cup Staff : mine'[r][k] = NoRow
      BY <1>2, <1>9, PayrollKeysApart
    <2> QED
      BY <1>2, <1>3, <1>6, <1>14, <2>1 DEF PaymentSound, At
  <1> QED
    BY <1>1, <1>6, <1>8, <1>9, <1>10, <1>11, <1>15, PayrollLocalStep DEF Sound

LEMMA MarkDeductedKept ==
    ASSUME PayrollInv, NEW r \in Requests, MarkDeducted(r)
    PROVE  PayrollInv'
  <1> PICK dues : dues = job[r].dues
    OBVIOUS
  <1> PICK a : a = Head(dues)
    OBVIOUS
  <1> PICK row : row = [db[a] EXCEPT !.deducted = TRUE]
    OBVIOUS
  <1>1. /\ dues # <<>> /\ Free(r, a) /\ Write(r, a, row)
        /\ job' = [job EXCEPT ![r].dues = Tail(dues)] /\ UNCHANGED <<db, arrived>>
    <2>1. job' = [job EXCEPT ![r].dues = Tail(@)]
      BY DEF MarkDeducted
    <2>2. job' = [job EXCEPT ![r].dues = Tail(dues)]
      BY <2>1
    <2> QED
      BY <2>2 DEF MarkDeducted
  <1>2. /\ job \in [Requests -> PayrollJob] /\ job[r] \in PayrollJob
        /\ RequestSound(r) /\ WorkSound(r) /\ AdvancesSound(r) /\ PaymentSound(r)
        /\ SessionInv(PayrollTable) /\ DOMAIN PayrollTable = PayrollKeys
        /\ arrived \in 0 .. MaxArrivals
    BY PayrollFacts DEF PayrollInv
  <1>3. /\ dues \in Seq(Advances) /\ a \in Advances /\ a = dues[1] /\ 1 \in 1 .. Len(dues)
        /\ Tail(dues) \in Seq(Advances)
        /\ \A i \in 1 .. Len(Tail(dues)) :
             i + 1 \in 1 .. Len(dues) /\ Tail(dues)[i] = dues[i + 1]
    <2>1. dues \in Seq(Advances)
      BY <1>2 DEF PayrollJob
    <2> QED
      BY <1>1, <2>1
  <1>4. job[r].op = "disburse" /\ job[r].step = "done" /\ job[r].loaded \in [Labors -> Nat]
    BY <1>1, <1>2 DEF RequestSound, PaymentSound, At
  <1>5. PICK p \in Payments : Pays(r, p)
    BY <1>2, <1>4 DEF PaymentSound, At
  <1>6. PICK taken \in SUBSET Advances :
          /\ \A x \in Advances : mine[r][x] # NoRow => x \in taken
          /\ \A i \in 1 .. Len(dues) : dues[i] \in taken
          /\ \A x \in taken : db[x] # NoRow /\ db[x].staff = mine[r][p].staff
          /\ SumFunction([x \in taken |-> db[x].amount]) = mine[r][p].advance_deduction
    BY <1>5 DEF Pays, TakesBack
  <1>7. a \in taken /\ db[a] # NoRow
    BY <1>3, <1>6
  <1>8. /\ row \in Advance /\ row.staff = db[a].staff /\ row.amount = db[a].amount
        /\ row # NoRow
    <2>1. db[a] \in Advance
      BY <1>2, <1>3, <1>7, PayrollRows
    <2>2. row \in Advance /\ row.staff = db[a].staff /\ row.amount = db[a].amount
      BY <2>1 DEF Advance
    <2> QED
      BY <2>2, NoRowInPayroll
  <1>9. /\ job' \in [Requests -> PayrollJob] /\ OthersWait(r) /\ Open(r)'
        /\ job'[r].op = job[r].op /\ job'[r].step = job[r].step
        /\ job'[r].loaded = job[r].loaded /\ job'[r].dues = Tail(dues)
    <2> PICK t : t = Tail(dues)
      OBVIOUS
    <2>1. [job[r] EXCEPT !.dues = t] \in PayrollJob
      BY <1>2, <1>3 DEF PayrollJob
    <2>2. job' = [job EXCEPT ![r] = [job[r] EXCEPT !.dues = t]]
      BY <1>1
    <2>3. job' \in [Requests -> PayrollJob]
      BY <1>2, <2>1, <2>2
    <2>4. /\ job'[r].op = job[r].op /\ job'[r].step = job[r].step
          /\ job'[r].loaded = job[r].loaded /\ job'[r].dues = t
          /\ \A u \in Requests \ {r} : job'[u] = job[u]
      BY <1>2, <2>2 DEF PayrollJob
    <2> QED
      BY <1>4, <2>3, <2>4 DEF OthersWait, Open
  <1>10. a \in PayrollKeys /\ row \in PayrollTable[a]
    BY <1>3, <1>8, PayrollKeysApart, PayrollTableFacts
  <1>11. SessionInv(PayrollTable)'
    BY <1>1, <1>2, <1>7, <1>9, <1>10, WriteStep
  <1>12. /\ mine'[r][a] = row /\ \A q \in PayrollKeys \ {a} : mine'[r][q] = mine[r][q]
         /\ \A u \in Requests \ {r} : mine'[u] = mine[u]
    BY <1>1, <1>2, <1>10, Written
  <1>13. /\ \A k \in Orders \cup Labors \cup Costs \cup Outputs \cup Staff : mine'[r][k] = NoRow
         /\ \A k \in Payments : mine'[r][k] = mine[r][k]
         /\ \A k \in Advances \ {a} : mine'[r][k] = mine[r][k]
    <2>1. \A k \in Orders \cup Labors \cup Costs \cup Outputs \cup Staff : mine[r][k] = NoRow
      BY <1>2, <1>4 DEF PaymentSound
    <2>2. \A k \in Orders \cup Labors \cup Costs \cup Outputs \cup Staff :
             k \in PayrollKeys \ {a}
      BY <1>3, PayrollKeysApart
    <2>3. \A k \in Payments \cup (Advances \ {a}) : k \in PayrollKeys \ {a}
      BY <1>3, PayrollKeysApart
    <2> QED
      BY <1>12, <2>1, <2>2, <2>3
  <1>14. RequestSound(r)'
    BY <1>4, <1>9 DEF RequestSound, OrderOps, At
  <1>15. WorkSound(r)'
    <2> PICK own : own = mine'[r]
      OBVIOUS
    <2>1. /\ \A k \in Orders \cup Labors \cup Costs \cup Outputs \cup Staff : own[k] = NoRow
          /\ \A k \in Payments : own[k] = mine[r][k]
      BY <1>13
    <2>2. \A k \in Labors \cup Costs \cup Outputs \cup Payments : own[k] # NoRow => db[k] = NoRow
      BY <1>2, <2>1 DEF WorkSound
    <2> QED
      BY <1>1, <2>1, <2>2, WorkIs
  <1>16. AdvancesSound(r)'
    <2> SUFFICES ASSUME NEW x \in Advances, mine'[r][x] # NoRow
                 PROVE  IF db'[x] = NoRow THEN ~mine'[r][x].deducted
                        ELSE /\ job'[r].op = "disburse"
                             /\ mine'[r][x].staff = db'[x].staff
                             /\ mine'[r][x].amount = db'[x].amount
      BY DEF AdvancesSound
    <2>1. CASE x = a
      BY <1>1, <1>4, <1>7, <1>8, <1>9, <1>12, <2>1
    <2>2. CASE x # a
      <3>1. mine'[r][x] = mine[r][x]
        BY <1>13, <2>2
      <3> QED
        BY <1>1, <1>2, <1>4, <1>9, <3>1 DEF AdvancesSound
    <2> QED
      BY <2>1, <2>2
  <1>17. TakesBack(r, p)'
    <2>1. \A x \in Advances : mine'[r][x] # NoRow => x \in taken
      BY <1>6, <1>7, <1>13
    <2>2. \A i \in 1 .. Len(job'[r].dues) : job'[r].dues[i] \in taken
      BY <1>3, <1>6, <1>9
    <2>3. /\ \A x \in taken : db'[x] # NoRow /\ db'[x].staff = mine'[r][p].staff
          /\ SumFunction([x \in taken |-> db'[x].amount]) = mine'[r][p].advance_deduction
      BY <1>1, <1>6, <1>13
    <2> QED
      BY <2>1, <2>2, <2>3 DEF TakesBack
  <1>18. Pays(r, p)'
    <2> PICK payment : payment = mine[r][p]
      OBVIOUS
    <2>1. /\ payment # NoRow /\ \A q \in Payments \ {p} : mine[r][q] = NoRow
          /\ EntriesOK(payment) /\ \A l \in Labors : payment.entries[l] <= job[r].loaded[l]
      BY <1>5 DEF Pays
    <2>2. /\ mine'[r][p] = payment /\ \A q \in Payments \ {p} : mine'[r][q] = NoRow
      BY <1>13, <2>1
    <2>3. EntriesOK(payment)'
      BY <1>1, <2>1 DEF EntriesOK, OutputsOf
    <2>4. (EntriesOK(mine[r][p]))'
      BY <2>2, <2>3 DEF EntriesOK
    <2> QED
      BY <1>9, <1>17, <2>1, <2>2, <2>4 DEF Pays
  <1>19. PaymentSound(r)'
    BY <1>4, <1>9, <1>13, <1>18 DEF PaymentSound, At
  <1> QED
    BY <1>1, <1>9, <1>11, <1>12, <1>14, <1>15, <1>16, <1>19, PayrollLocalStep DEF Sound

-----------------------------------------------------------------------------
(* Commits.                                                                *)

LEMMA CommitShows ==
    ASSUME PayrollInv, NEW r \in Requests, Commit(r)
    PROVE  /\ \A k \in PayrollKeys : /\ db'[k] = IF mine[r][k] # NoRow THEN mine[r][k] ELSE db[k]
                                     /\ db[k] # NoRow => db'[k] # NoRow
           /\ SessionInv(PayrollTable)' /\ RowsStay
           /\ \A s \in Requests \ {r} : Spared(s)
  <1>1. /\ SessionInv(PayrollTable) /\ DOMAIN PayrollTable = PayrollKeys
        /\ job \in [Requests -> PayrollJob] /\ WorkSound(r) /\ AdvancesSound(r)
    BY PayrollFacts DEF PayrollInv
  <1>2. SessionInv(PayrollTable)'
    BY <1>1, CommitStep
  <1>3. \A k \in PayrollKeys : /\ db'[k] = IF mine[r][k] # NoRow THEN mine[r][k] ELSE db[k]
                               /\ db[k] # NoRow => db'[k] # NoRow
    BY <1>1, Published
  <1>4. \A s \in Requests \ {r} : Spared(s)
    BY <1>1, CommitSpares DEF Spared
  <1>5. ASSUME NEW k \in Labors \cup Costs \cup Outputs \cup Payments, db[k] # NoRow
        PROVE  db'[k] = db[k]
    <2>1. k \in PayrollKeys /\ mine[r][k] = NoRow
      BY <1>1, <1>5, PayrollKeysApart DEF WorkSound
    <2> QED
      BY <1>3, <2>1
  <1>6. ASSUME NEW a \in Advances, db[a] # NoRow
        PROVE  db'[a].staff = db[a].staff /\ db'[a].amount = db[a].amount
    <2>1. a \in PayrollKeys
      BY PayrollKeysApart
    <2>2. mine[r][a] # NoRow => mine[r][a].staff = db[a].staff /\ mine[r][a].amount = db[a].amount
      BY <1>1, <1>6 DEF AdvancesSound
    <2> QED
      BY <1>3, <2>1, <2>2
  <1>7. RowsStay
    BY <1>3, <1>5, <1>6 DEF RowsStay
  <1> QED
    BY <1>2, <1>3, <1>4, <1>7

\* What a payment that commits has paid.
LEMMA CommitPays ==
    ASSUME PayrollInv, NEW r \in Requests, Commit(r), NEW p \in Payments, mine[r][p] # NoRow
    PROVE  /\ job[r].op = "disburse" /\ Pays(r, p)
           /\ db[p] = NoRow /\ db'[p] = mine[r][p]
           /\ \A q \in Payments \ {p} : db'[q] = db[q]
  <1>1. PaymentSound(r) /\ WorkSound(r) /\ job[r].step = "done"
    BY PayrollFacts DEF Commit
  <1>2. job[r].op = "disburse" /\ db[p] = NoRow
    BY <1>1 DEF PaymentSound, WorkSound
  <1>3. PICK q \in Payments : Pays(r, q)
    BY <1>1, <1>2 DEF PaymentSound, At
  <1>4. q = p /\ \A x \in Payments \ {p} : mine[r][x] = NoRow
    BY <1>3 DEF Pays
  <1>5. db'[p] = mine[r][p] /\ \A x \in Payments \ {p} : db'[x] = db[x]
    BY <1>4, CommitShows, PayrollKeysApart
  <1> QED
    BY <1>2, <1>3, <1>4, <1>5

\* The advances of its staff that are deducted by a payment are those that it has
\* taken back.
LEMMA CommitTakesBack ==
    ASSUME PayrollInv, NEW r \in Requests, Commit(r)
    PROVE  AdvancesTakenBack'
  <1>1. /\ \A k \in PayrollKeys : db'[k] = IF mine[r][k] # NoRow THEN mine[r][k] ELSE db[k]
        /\ SessionInv(PayrollTable) /\ SessionInv(PayrollTable)' /\ RowsStay
        /\ AdvancesSound(r) /\ PaymentSound(r) /\ job[r].step = "done" /\ AdvancesTakenBack
    BY CommitShows, PayrollFacts DEF Commit, RowsSound
  <1>2. CASE \A p \in Payments : mine[r][p] = NoRow
    <2>1. job[r].op # "disburse"
      BY <1>1, <1>2 DEF PaymentSound, Pays, At
    <2>2. \A p \in Payments : db'[p] = db[p]
      BY <1>1, <1>2, PayrollKeysApart
    <2>3. ASSUME NEW a \in Advances
          PROVE  \/ db'[a] = db[a]
                 \/ db[a] = NoRow /\ (db'[a] = NoRow \/ ~db'[a].deducted)
      <3>1. db'[a] = IF mine[r][a] # NoRow THEN mine[r][a] ELSE db[a]
        BY <1>1, PayrollKeysApart
      <3>2. mine[r][a] # NoRow => db[a] = NoRow /\ ~mine[r][a].deducted
        BY <1>1, <2>1 DEF AdvancesSound
      <3> QED
        BY <3>1, <3>2
    <2> QED
      BY <1>1, <2>2, <2>3, NothingTakenBack
  <1>3. CASE \E p \in Payments : mine[r][p] # NoRow
    <2>1. PICK p \in Payments : mine[r][p] # NoRow
      BY <1>3
    <2> PICK payment : payment = mine[r][p]
      OBVIOUS
    <2>2. /\ job[r].op = "disburse" /\ Pays(r, p) /\ db[p] = NoRow /\ db'[p] = payment
          /\ \A q \in Payments \ {p} : db'[q] = db[q]
      BY <2>1, CommitPays
    <2>3. PICK taken \in SUBSET Advances :
            /\ \A a \in Advances : mine[r][a] # NoRow => a \in taken
            /\ \A a \in taken : db[a] # NoRow /\ db[a].staff = payment.staff
            /\ SumFunction([a \in taken |-> db[a].amount]) = payment.advance_deduction
      BY <2>2 DEF Pays, TakesBack
    <2>4. /\ payment \in StaffPayment /\ payment # NoRow
          /\ payment.advance_deduction \in Nat /\ payment.staff \in Staff
      BY <1>1, <2>1, PayrollRows, PayrollNumbers
    <2> DEFINE T == {a \in Advances : db[a] # NoRow}
               amount == [a \in T |-> db[a].amount]
    <2>5. /\ IsFiniteSet(T) /\ amount \in [T -> Int] /\ \A a \in T : amount[a] >= 0
          /\ \A a \in T : amount[a] = db[a].amount /\ a \in Advances /\ db[a] # NoRow
          /\ taken \in SUBSET T
      <3>1. IsFiniteSet(T)
        BY FS_Subset, PayrollAssumption
      <3>2. \A a \in T : db[a].amount \in Nat
        BY <1>1, PayrollRows, PayrollNumbers
      <3> QED
        BY <2>3, <3>1, <3>2
    <2>6. SumFunction([a \in taken |-> amount[a]]) = payment.advance_deduction
      <3>1. [a \in taken |-> amount[a]] = [a \in taken |-> db[a].amount]
        BY <2>5
      <3> QED
        BY <2>3, <3>1
    <2>7. \A a \in Advances : a \notin T => db[a] = NoRow
      OBVIOUS
    <2> HIDE DEF T, amount
    <2> SUFFICES ASSUME NEW s \in Staff
                 PROVE  (SumFunction([a \in TakenFrom(s) |-> db[a].amount])
                           <= SumFunction([q \in PaidTo(s) |-> db[q].advance_deduction]))'
      BY DEF AdvancesTakenBack
    <2> PICK A : A = TakenFrom(s)
      OBVIOUS
    <2> PICK C : C = {a \in Advances : db'[a] # NoRow /\ db'[a].staff = s /\ db'[a].deducted}
      OBVIOUS
    <2> PICK P : P = PaidTo(s)
      OBVIOUS
    <2> PICK Q : Q = {q \in Payments : db'[q] # NoRow /\ db'[q].staff = s}
      OBVIOUS
    <2> DEFINE old == [q \in P |-> db[q].advance_deduction]
               new == [q \in Q |-> db'[q].advance_deduction]
    <2>8. A \in SUBSET T
      BY <2>7 DEF TakenFrom
    <2>9. /\ C \in SUBSET T
          /\ \A a \in C : amount[a] = db'[a].amount
          /\ \A a \in C \ A : a \in taken /\ payment.staff = s
      <3> SUFFICES ASSUME NEW a \in C
                   PROVE  /\ a \in T /\ amount[a] = db'[a].amount
                          /\ a \notin A => a \in taken /\ payment.staff = s
        OBVIOUS
      <3>1. /\ a \in Advances /\ db'[a] # NoRow /\ db'[a].staff = s /\ db'[a].deducted
            /\ db'[a] = IF mine[r][a] # NoRow THEN mine[r][a] ELSE db[a]
        BY <1>1, PayrollKeysApart
      <3>2. mine[r][a] # NoRow => a \in taken /\ db[a] # NoRow /\ db[a].staff = payment.staff
        BY <2>3, <3>1
      <3>3. db[a] # NoRow
        BY <3>1, <3>2
      <3>4. db'[a].staff = db[a].staff /\ db'[a].amount = db[a].amount
        BY <1>1, <3>1, <3>3 DEF RowsStay
      <3>5. mine[r][a] = NoRow => a \in A
        BY <3>1 DEF TakenFrom
      <3> QED
        BY <2>5, <2>7, <3>1, <3>2, <3>3, <3>4, <3>5
    <2>10. (SumFunction([a \in TakenFrom(s) |-> db[a].amount]))'
              = SumFunction([a \in C |-> amount[a]])
      <3>1. [a \in C |-> amount[a]] = [a \in C |-> db'[a].amount]
        BY <2>9
      <3> QED
        BY <3>1 DEF TakenFrom
    <2>11. SumFunction([a \in A |-> amount[a]]) <= SumFunction(old)
      <3>1. [a \in A |-> amount[a]] = [a \in A |-> db[a].amount]
        BY <2>5, <2>8
      <3>2. SumFunction([a \in TakenFrom(s) |-> db[a].amount])
               <= SumFunction([q \in PaidTo(s) |-> db[q].advance_deduction])
        BY <1>1 DEF AdvancesTakenBack
      <3> QED
        BY <3>1, <3>2
    <2>12. (SumFunction([q \in PaidTo(s) |-> db[q].advance_deduction]))' = SumFunction(new)
      BY DEF PaidTo, PaymentRows
    <2>13. /\ IsFiniteSet(P) /\ old \in [P -> Int] /\ IsFiniteSet(Q) /\ new \in [Q -> Int]
           /\ p \notin P /\ \A q \in P : q \in Q /\ new[q] = old[q]
           /\ \A q \in Q : q \in P \/ q = p
           /\ p \in Q <=> payment.staff = s
           /\ p \in Q => new[p] = payment.advance_deduction
      <3>1. IsFiniteSet(P) /\ IsFiniteSet(Q)
        BY FS_Subset, PayrollAssumption DEF PaidTo, PaymentRows
      <3>2. \A q \in P : /\ q \in Payments /\ q # p /\ db[q] # NoRow /\ db[q].staff = s
                         /\ db[q].advance_deduction \in Nat
        BY <1>1, <2>2, PayrollRows, PayrollNumbers DEF PaidTo, PaymentRows
      <3>3. \A q \in Q : q = p \/ q \in P
        BY <2>2 DEF PaidTo, PaymentRows
      <3>4. \A q \in P : q \in Q /\ db'[q] = db[q]
        BY <2>2, <3>2
      <3>5. p \notin P /\ (p \in Q <=> payment.staff = s) /\ db'[p] = payment
        BY <2>2, <2>4, <3>2
      <3>6. \A q \in Q : db'[q].advance_deduction \in Int
        BY <2>4, <3>2, <3>3, <3>4, <3>5
      <3> QED
        BY <3>1, <3>2, <3>3, <3>4, <3>5, <3>6
    <2> HIDE DEF old, new
    <2>14. SumFunction([a \in C |-> amount[a]]) <= SumFunction(new)
      <3> DEFINE Of(S) == SumFunction([a \in S |-> amount[a]])
      <3>1. CASE payment.staff = s
        <4>1. C \subseteq A \cup taken
          BY <2>9
        <4>2. Of(C) <= Of(A) + Of(taken)
          <5>1. C \in SUBSET T
            BY <2>9
          <5>2. SumOver(amount, C) <= SumOver(amount, A) + SumOver(amount, taken)
            BY <2>5, <2>8, <4>1, <5>1, SumOfParts
          <5> QED
            BY <5>2 DEF SumOver
        <4>3. P = Q \ {p} /\ p \in Q
          BY <2>13, <3>1
        <4>4. SumFunction(new) = SumFunction(old) + new[p]
          BY <2>13, <4>3, SumExtend
        <4>5. Of(taken) = new[p] /\ new[p] \in Int
          BY <2>4, <2>6, <2>13, <4>3
        <4>6. Of(C) \in Int /\ Of(A) \in Int /\ SumFunction(old) \in Int
          <5>1. \A S \in SUBSET T : Of(S) \in Int
            <6> SUFFICES ASSUME NEW S \in SUBSET T
                         PROVE  Of(S) \in Int
              OBVIOUS
            <6> DEFINE f == [a \in S |-> amount[a]]
            <6>1. IsFiniteSet(S) /\ f \in [S -> Int]
              BY <2>5, FS_Subset
            <6> HIDE DEF f
            <6>2. SumFunction(f) \in Int
              BY <6>1, SumType
            <6> QED
              BY <6>2 DEF f
          <5> QED
            BY <2>8, <2>9, <2>13, <5>1, SumType
        <4> QED
          BY <2>11, <4>2, <4>4, <4>5, <4>6
      <3>2. CASE payment.staff # s
        <4>1. C \subseteq A /\ P = Q
          BY <2>9, <2>13, <3>2
        <4>2. SumFunction(new) = SumFunction(old)
          <5>1. \A q \in Q \ P : new[q] = 0
            BY <4>1
          <5> QED
            BY <2>13, <4>1, <5>1, SumWithin
        <4> DEFINE f == [a \in C |-> amount[a]]
                   g == [a \in A |-> amount[a]]
        <4>3. /\ IsFiniteSet(A) /\ IsFiniteSet(C) /\ f \in [C -> Int] /\ g \in [A -> Int]
              /\ \A a \in C : f[a] <= g[a]
              /\ \A a \in A \ C : 0 <= g[a]
          BY <2>5, <2>8, <2>9, <4>1, FS_Subset
        <4>4. SumFunction(g) <= SumFunction(old)
          BY <2>11
        <4> HIDE DEF f, g
        <4>5. SumFunction(f) <= SumFunction(g)
          BY <4>1, <4>3, SumGrows
        <4>6. SumFunction(f) \in Int /\ SumFunction(g) \in Int /\ SumFunction(old) \in Int
          BY <2>13, <4>3, SumType
        <4>7. SumFunction(f) <= SumFunction(new)
          BY <4>2, <4>4, <4>5, <4>6
        <4> QED
          BY <4>7 DEF f
      <3> QED
        BY <3>1, <3>2
    <2> QED
      BY <2>10, <2>12, <2>14
  <1> QED
    BY <1>2, <1>3

LEMMA CommitRowsSound ==
    ASSUME PayrollInv, NEW r \in Requests, Commit(r)
    PROVE  RowsSound'
  <1>1. /\ \A k \in PayrollKeys : /\ db'[k] = IF mine[r][k] # NoRow THEN mine[r][k] ELSE db[k]
                                  /\ db[k] # NoRow => db'[k] # NoRow
        /\ SessionInv(PayrollTable)' /\ RowsStay
    BY CommitShows
  <1>2. SessionInv(PayrollTable) /\ WorkSound(r)
    BY PayrollFacts
  <1>3. ASSUME NEW o \in Orders, db'[o] # NoRow
        PROVE  db'[o].status = "completed" => OutputsOf(o)' # {}
    <2>1. db'[o] = IF mine[r][o] # NoRow THEN mine[r][o] ELSE db[o]
      BY <1>1, PayrollKeysApart
    <2>2. CASE mine[r][o] = NoRow
      <3>1. db[o] # NoRow /\ db'[o] = db[o]
        BY <1>3, <2>1, <2>2
      <3> QED
        BY <1>1, <3>1, OldRows
    <2>3. CASE mine[r][o] # NoRow
      <3> PICK row : row = mine[r][o]
        OBVIOUS
      <3>1. /\ db'[o] = row
            /\ row.status = "completed" =>
                 \/ OutputsOf(o) # {}
                 \/ \E k \in Outputs : mine[r][k] # NoRow /\ mine[r][k].order = o
        BY <1>2, <2>1, <2>3 DEF WorkSound
      <3>2. row.status = "completed" => OutputsOf(o)' # {}
        <4>1. OutputsOf(o) \subseteq OutputsOf(o)'
          BY <1>1, OutputsStay
        <4>2. ASSUME NEW k \in Outputs, mine[r][k] # NoRow, mine[r][k].order = o
              PROVE  k \in OutputsOf(o)'
          <5>1. db'[k] = mine[r][k]
            BY <1>1, <4>2, PayrollKeysApart
          <5> QED
            BY <4>2, <5>1 DEF OutputsOf
        <4> QED
          BY <3>1, <4>1, <4>2
      <3> QED
        BY <3>1, <3>2
    <2> QED
      BY <2>2, <2>3
  <1>4. ASSUME NEW l \in Labors, db'[l] # NoRow
        PROVE  db'[db'[l].order] # NoRow
    <2>1. db'[l] = IF mine[r][l] # NoRow THEN mine[r][l] ELSE db[l]
      BY <1>1, PayrollKeysApart
    <2>2. CASE mine[r][l] = NoRow
      <3>1. db[l] # NoRow
        BY <1>4, <2>1, <2>2
      <3> QED
        BY <1>1, <3>1, OldRows
    <2>3. CASE mine[r][l] # NoRow
      <3>1. db[mine[r][l].order] # NoRow /\ mine[r][l].order \in Orders
        BY <1>2, <2>3, PayrollRows, PayrollNumbers DEF WorkSound
      <3> QED
        BY <1>1, <2>1, <2>3, <3>1, PayrollKeysApart
    <2> QED
      BY <2>2, <2>3
  <1>5. ASSUME NEW p \in Payments, NEW payment, db'[p] # NoRow, payment = db'[p]
        PROVE  EntriesOK(payment)'
    <2>1. db'[p] = IF mine[r][p] # NoRow THEN mine[r][p] ELSE db[p]
      BY <1>1, PayrollKeysApart
    <2>2. CASE mine[r][p] = NoRow
      <3>1. db[p] # NoRow
        BY <1>5, <2>1, <2>2
      <3> QED
        BY <1>1, <1>5, <3>1, OldRows
    <2>3. CASE mine[r][p] # NoRow
      <3>1. Pays(r, p) /\ payment = mine[r][p]
        BY <1>5, <2>1, <2>3, CommitPays
      <3>2. EntriesOK(payment)
        BY <3>1 DEF Pays
      <3> QED
        BY <1>1, <1>2, <3>2, EntriesStay
    <2> QED
      BY <2>2, <2>3
  <1>6. AdvancesTakenBack'
    BY CommitTakesBack
  <1> QED
    BY <1>3, <1>4, <1>5, <1>6, RowsSoundIs

\* A session that has ended has nothing to answer for.
LEMMA NoPayrollRequest ==
    ASSUME NEW r, job'[r] = NoJob, \A k \in PayrollKeys : mine'[r][k] = NoRow
    PROVE  Sound(r)'
  <1>1. job'[r].op = "none" /\ job'[r].step = "done" /\ job'[r].dues = <<>>
    BY DEF NoJob
  <1>2. RequestSound(r)'
    BY <1>1 DEF RequestSound, OrderOps
  <1>3. PaymentSound(r)'
    BY <1>1, NoPayment, PayrollKeysApart
  <1> QED
    BY <1>2, <1>3, CleanSession DEF Sound

LEMMA PayrollEnds ==
    ASSUME PayrollInv, NEW r \in Requests, EndSession(r)
    PROVE  /\ job' \in [Requests -> PayrollJob] /\ OthersWait(r) /\ Sound(r)'
           /\ \A s \in Requests \ {r} : mine'[s] = mine[s]
  <1>1. /\ SessionInv(PayrollTable) /\ job \in [Requests -> PayrollJob]
        /\ DOMAIN PayrollTable = PayrollKeys
    BY PayrollFacts DEF PayrollInv
  <1>2. /\ job'[r] = NoJob /\ OthersWait(r)
        /\ \A k \in DOMAIN PayrollTable : mine'[r][k] = NoRow
        /\ \A s \in Requests \ {r} : mine'[s] = mine[s]
    BY <1>1, EndOfSession, Zenon
  <1>3. NoJob \in PayrollJob
    BY DEF PayrollJob, NoJob
  <1>4. job' \in [Requests -> PayrollJob]
    BY <1>1, <1>3 DEF EndSession
  <1>5. Sound(r)'
    BY <1>1, <1>2, NoPayrollRequest
  <1> QED
    BY <1>2, <1>4, <1>5

LEMMA PayrollCommitKept ==
    ASSUME PayrollInv, NEW r \in Requests, Commit(r)
    PROVE  PayrollInv'
  <1>1. SessionInv(PayrollTable)' /\ RowsStay /\ \A s \in Requests \ {r} : Spared(s)
    BY CommitShows
  <1>2. /\ job' \in [Requests -> PayrollJob] /\ OthersWait(r) /\ Sound(r)'
        /\ \A s \in Requests \ {r} : mine'[s] = mine[s]
    BY PayrollEnds DEF Commit
  <1>3. RowsSound'
    BY CommitRowsSound
  <1> QED
    BY <1>1, <1>2, <1>3, PayrollSessionStep DEF OthersWait

LEMMA PayrollRollbackKept ==
    ASSUME PayrollInv, NEW r \in Requests, Rollback(r)
    PROVE  PayrollInv'
  <1>1. SessionInv(PayrollTable) /\ job \in [Requests -> PayrollJob]
    BY DEF PayrollInv
  <1>2. SessionInv(PayrollTable)' /\ db' = db
    BY <1>1, RollbackStep DEF Rollback
  <1>3. /\ job' \in [Requests -> PayrollJob] /\ OthersWait(r) /\ Sound(r)'
        /\ \A s \in Requests \ {r} : mine'[s] = mine[s]
    BY PayrollEnds DEF Rollback
  <1> QED
    BY <1>2, <1>3, PayrollLocalStep

-----------------------------------------------------------------------------
(* The whole.                                                              *)

LEMMA PayrollInitInv ==
    ASSUME PayrollInit
    PROVE  PayrollInv
  <1>1. SessionInv(PayrollTable)
    BY PayrollTableFacts, InitSession DEF PayrollInit
  <1>2. /\ \A r \in Requests : job[r] = NoJob /\ \A k \in PayrollKeys : mine[r][k] = NoRow
        /\ \A k \in PayrollKeys : db[k] = NoRow
        /\ job = [r \in Requests |-> NoJob] /\ NoJob \in PayrollJob
    BY DEF PayrollInit, SessionInit, PayrollJob, NoJob
  <1>3. job \in [Requests -> PayrollJob]
    BY <1>2
  <1>4. RowsSound
    <2>1. /\ \A k \in Orders \cup Outputs \cup Labors : db[k] = NoRow
          /\ PaymentRows = {} /\ \A s \in Staff : TakenFrom(s) = {} /\ PaidTo(s) = {}
      BY <1>2, PayrollKeysApart DEF PaymentRows, TakenFrom, PaidTo
    <2>2. AdvancesTakenBack
      <3> SUFFICES ASSUME NEW s \in Staff
                   PROVE  SumFunction([a \in TakenFrom(s) |-> db[a].amount])
                            <= SumFunction([p \in PaidTo(s) |-> db[p].advance_deduction])
        BY DEF AdvancesTakenBack
      <3> DEFINE f == [a \in TakenFrom(s) |-> db[a].amount]
                 g == [p \in PaidTo(s) |-> db[p].advance_deduction]
      <3>1. f \in [{} -> Int] /\ g \in [{} -> Int]
        BY <2>1
      <3> HIDE DEF f, g
      <3>2. SumFunction(f) = 0 /\ SumFunction(g) = 0
        BY <3>1, SumEmpty
      <3>3. SumFunction(f) <= SumFunction(g)
        BY <3>2
      <3> QED
        BY <3>3 DEF f, g
    <2> QED
      BY <2>1, <2>2 DEF RowsSound
  <1>5. ASSUME NEW r \in Requests
        PROVE  Sound(r)
    <2>1. job[r].op = "none" /\ job[r].step = "done" /\ job[r].dues = <<>>
      BY <1>2 DEF NoJob
    <2>2. \A k \in PayrollKeys : mine[r][k] = NoRow
      BY <1>2
    <2>3. RequestSound(r)
      BY <2>1 DEF RequestSound, OrderOps
    <2>4. WorkSound(r) /\ AdvancesSound(r) /\ PaymentSound(r)
      BY <2>1, <2>2, PayrollKeysApart DEF WorkSound, AdvancesSound, PaymentSound, At
    <2> QED
      BY <2>3, <2>4 DEF Sound
  <1> QED
    BY <1>1, <1>3, <1>4, <1>5 DEF PayrollInv

LEMMA OrderStepKept ==
    ASSUME PayrollInv, NEW r \in Requests, OrderStep(r)
    PROVE  PayrollInv'
  BY CreateOrderKept, OrderStatusKept, FlushCompletedKept DEF OrderStep

LEMMA LineStepKept ==
    ASSUME PayrollInv, NEW r \in Requests, LineStep(r)
    PROVE  PayrollInv'
  BY AddLaborKept, AddCostKept, FlushOrderKept DEF LineStep

LEMMA StaffStepKept ==
    ASSUME PayrollInv, NEW r \in Requests, StaffStep(r)
    PROVE  PayrollInv'
  BY CreateStaffKept, UpdateStaffKept, GiveAdvanceKept, FlushStaffKept DEF StaffStep

LEMMA PaymentStepKept ==
    ASSUME PayrollInv, NEW r \in Requests, PaymentStep(r)
    PROVE  PayrollInv'
  BY DisburseSalaryKept, InsertPaymentKept, MarkDeductedKept DEF PaymentStep

LEMMA PayrollInvStep ==
    ASSUME PayrollInv, [PayrollNext]_sessionVars
    PROVE  PayrollInv'
  <1>1. CASE PayrollNext
    BY <1>1, OrderStepKept, LineStepKept, StaffStepKept, PaymentStepKept,
       PayrollCommitKept, PayrollRollbackKept
    DEF PayrollNext
  <1>2. CASE UNCHANGED sessionVars
    <2>1. SessionInv(PayrollTable)' /\ (job \in [Requests -> PayrollJob])'
      BY <1>2 DEF sessionVars, PayrollInv, SessionInv, SessionRows, SessionLocks, Free, Open
    <2>2. db' = db /\ RowsStay /\ RowsSound' /\ \A r \in Requests : Spared(r)
      BY <1>2, RowsSame DEF sessionVars
    <2>3. \A r \in Requests : Sound(r)'
      BY <1>2, <2>1, <2>2, SoundStays DEF sessionVars
    <2> QED
      BY <2>1, <2>2, <2>3 DEF PayrollInv
  <1> QED
    BY <1>1, <1>2

LEMMA PayrollInvariance == PayrollSpec => []PayrollInv
  BY PayrollInitInv, PayrollInvStep, PTL DEF PayrollSpec

\* The rows, the locks and what the sessions remember are of their types, and a
\* payment remembers what it has read to be unpaid until it commits.
THEOREM PayrollTypeCorrect == PayrollSpec => []PayrollTypeOK
  <1>1. ASSUME PayrollInv
        PROVE  PayrollTypeOK
    <2> DEFINE Rows == ProductionOrder \cup ProductionLabor \cup ProductionCost
                       \cup ProductionOutput \cup Employee \cup Advance \cup StaffPayment
    <2>1. /\ SessionInv(PayrollTable) /\ DOMAIN PayrollTable = PayrollKeys
          /\ DOMAIN db = PayrollKeys /\ job \in [Requests -> PayrollJob]
      BY <1>1, PayrollTableFacts DEF PayrollInv, SessionInv, SessionRows
    <2>2. \A k \in PayrollKeys : PayrollTable[k] \subseteq Rows
      BY DEF PayrollTable
    <2>3. /\ \A k \in PayrollKeys : db[k] \in Rows \cup {NoRow}
          /\ \A r \in Requests, k \in PayrollKeys : mine[r][k] \in Rows \cup {NoRow}
          /\ \A r \in Requests : held[r] \subseteq PayrollKeys
          /\ arrived \in 0 .. MaxArrivals
      BY <2>1, <2>2 DEF SessionInv, SessionRows
    <2>4. \A r \in Requests : /\ job[r].op \in Ops \cup {"none"}
                              /\ job[r].key \in PayrollKeys \cup {NoKey}
                              /\ job[r].kept = NoRow
      BY <2>1 DEF PayrollJob
    <2>5. \A r \in Requests : At(r, "disburse", "done") => job[r].loaded \in [Labors -> Nat]
      BY <1>1, PayrollFacts DEF PaymentSound, At
    <2> HIDE DEF Rows
    <2>6. SessionTypeOK(Rows)
      BY <2>1, <2>3, <2>4 DEF SessionTypeOK
    <2> QED
      BY <2>5, <2>6 DEF PayrollTypeOK, Rows
  <1> QED
    BY <1>1, PayrollInvariance, PTL

\* What is marked as deducted of the advances of a member of staff has been taken
\* back by the payments, whichever of them read it as pending.
THEOREM AdvancesCorrect == PayrollSpec => []AdvancesTakenBack
  <1>1. ASSUME PayrollInv
        PROVE  AdvancesTakenBack
    BY <1>1 DEF PayrollInv, RowsSound
  <1> QED
    BY <1>1, PayrollInvariance, PTL

\* The entries of a payment of piecework add up to its gross amount, and are for
\* lines of the staff who is paid.
THEOREM PaymentsCorrect == PayrollSpec => []PaymentsAllocated
  <1>1. ASSUME PayrollInv
        PROVE  PaymentsAllocated
    BY <1>1 DEF PayrollInv, RowsSound, EntriesOK, PaymentsAllocated
  <1> QED
    BY <1>1, PayrollInvariance, PTL

\* A line of labour that was paid is of an order that has yielded an output: only
\* complete_order writes the status that a payment looks for, and in the same
\* transaction as the output.
THEOREM PaidWorkCorrect == PayrollSpec => []PaidWorkIsDone
  <1>1. ASSUME PayrollInv
        PROVE  PaidWorkIsDone
    BY <1>1 DEF PayrollInv, RowsSound, EntriesOK, PaidWorkIsDone
  <1> QED
    BY <1>1, PayrollInvariance, PTL

-----------------------------------------------------------------------------
(* What a payment changes.                                                 *)

\* Only a commit changes the rows of others, but for rows that are inserted and
\* committed at once.
LEMMA PayrollOnlyCommits ==
    ASSUME NEW r \in Requests,
           OrderStep(r) \/ LineStep(r) \/ StaffStep(r) \/ PaymentStep(r)
           \/ Commit(r) \/ Rollback(r)
    PROVE  \/ db' = db \/ Commit(r)
           \/ \E s \in Staff, body \in StaffCreate : CreateStaff(s, body)
           \/ \E o \in Orders, ls \in NewKeys(Labors), cs \in NewKeys(Costs) :
                \E labor \in [ls -> LaborCreate], costs \in [cs -> Overheads] :
                   CreateOrder(o, labor, costs)
  <1>1. CASE OrderStep(r)
    BY <1>1 DEF OrderStep, StartOrder, CancelOrder, CompleteOrder, FlushCompleted
  <1>2. CASE LineStep(r)
    BY <1>2 DEF LineStep, AddLabor, AddCost, FlushOrder
  <1>3. CASE StaffStep(r)
    BY <1>3 DEF StaffStep, UpdateStaff, DeactivateStaff, GiveAdvance, FlushStaff
  <1>4. CASE PaymentStep(r)
    BY <1>4 DEF PaymentStep, DisburseSalary, InsertPayment, MarkDeducted
  <1>5. CASE Rollback(r)
    BY <1>5 DEF Rollback
  <1> QED
    BY <1>1, <1>2, <1>3, <1>4, <1>5

\* A session that commits something is at its commit.
LEMMA PayrollCommits ==
    ASSUME PayrollInv, [PayrollNext]_sessionVars, NEW r \in Requests, Committing(r)
    PROVE  Commit(r)
  <1>1. Open(r) /\ ~Open(r)' /\ db' # db /\ job' # job
    BY DEF Committing, Open
  <1>2. PICK s \in Requests : OrderStep(s) \/ LineStep(s) \/ StaffStep(s) \/ PaymentStep(s)
                              \/ Commit(s) \/ Rollback(s)
    BY <1>1 DEF PayrollNext, sessionVars
  <1>3. Commit(s)
    BY <1>1, <1>2, PayrollOnlyCommits DEF CreateStaff, CreateOrder
  <1>4. s = r
    BY <1>1, <1>3 DEF Commit, EndSession, Open, PayrollInv
  <1> QED
    BY <1>3, <1>4

\* A request on an order that commits writes only what is its own to write: a line
\* that is added leaves the status, and a change of the status leaves the buckets,
\* as the other request that overlapped has committed them.
THEOREM StatusAndCostsKeptApart == PayrollSpec => StatusAndCostsApart
  <1> DEFINE A == \A r \in Requests, o \in Orders :
                    Committing(r) /\ job[r].key = o =>
                       /\ job[r].op \in {"labor", "cost"} => db'[o].status = db[o].status
                       /\ job[r].op \in {"start", "cancel", "complete"} =>
                            db'[o].labor = db[o].labor /\ db'[o].other = db[o].other
  <1>1. ASSUME PayrollInv, [PayrollNext]_sessionVars
        PROVE  [A]_sessionVars
    <2> SUFFICES ASSUME NEW r \in Requests, NEW o \in Orders, Committing(r), job[r].key = o,
                        db'[o] # db[o]
                 PROVE  /\ job[r].op \in {"labor", "cost"} => db'[o].status = db[o].status
                        /\ job[r].op \in {"start", "cancel", "complete"} =>
                             db'[o].labor = db[o].labor /\ db'[o].other = db[o].other
      OBVIOUS
    <2>1. Commit(r)
      BY <1>1, PayrollCommits
    <2>2. mine[r][o] # NoRow /\ db'[o] = mine[r][o]
      BY <1>1, <2>1, CommitShows, PayrollKeysApart
    <2>3. Touches(job[r].op, db[o], mine[r][o])
      BY <1>1, <2>2, PayrollFacts DEF WorkSound
    <2> QED
      BY <2>2, <2>3 DEF Touches
  <1> HIDE DEF A
  <1>2. PayrollSpec => [][A]_sessionVars
    BY <1>1, PayrollInvariance, PTL DEF PayrollSpec
  <1> QED
    BY <1>2 DEF StatusAndCostsApart, A

\* Session r commits its payment p, and no line of labour and no order changes.
Disburses(r, p) ==
    /\ Committing(r) /\ job[r].op = "disburse" /\ Pays(r, p)
    /\ db[p] = NoRow /\ db'[p] = mine[r][p] /\ db'[p] # NoRow
    /\ \A q \in Payments \ {p} : db'[q] = db[q]
    /\ \A k \in Orders \cup Labors : db'[k] = db[k]

LEMMA CommitDisburses ==
    ASSUME PayrollInv, NEW r \in Requests, Commit(r), NEW p \in Payments, mine[r][p] # NoRow
    PROVE  Disburses(r, p)
  <1>1. /\ job[r].op = "disburse" /\ Pays(r, p)
        /\ db[p] = NoRow /\ db'[p] = mine[r][p] /\ db'[p] # NoRow
        /\ \A q \in Payments \ {p} : db'[q] = db[q]
    BY CommitPays
  <1>2. \A k \in Orders \cup Labors : mine[r][k] = NoRow
    BY <1>1, PayrollFacts DEF PaymentSound
  <1>3. \A k \in Orders \cup Labors : db'[k] = db[k]
    BY <1>2, CommitShows, PayrollKeysApart
  <1>4. Committing(r)
    <2>1. Open(r) /\ db' # db
      BY <1>1 DEF Commit
    <2>2. job'[r] = NoJob
      BY DEF Commit, EndSession, PayrollInv
    <2> QED
      BY <2>1, <2>2 DEF Committing, NoJob
  <1> QED
    BY <1>1, <1>3, <1>4 DEF Disburses

\* The payments stay as they are, or one of them is added.
LEMMA PaymentAppears ==
    ASSUME PayrollInv, [PayrollNext]_sessionVars
    PROVE  /\ \A l \in Labors : db[l] # NoRow => db'[l] = db[l]
           /\ \/ \A p \in Payments : db'[p] = db[p]
              \/ \E r \in Requests, p \in Payments : Disburses(r, p)
  <1>1. CASE UNCHANGED sessionVars
    BY <1>1 DEF sessionVars
  <1>2. CASE PayrollNext
    <2>1. PICK r \in Requests : OrderStep(r) \/ LineStep(r) \/ StaffStep(r) \/ PaymentStep(r)
                                \/ Commit(r) \/ Rollback(r)
      BY <1>2 DEF PayrollNext
    <2>2. CASE db' = db
      BY <2>2
    <2>3. CASE Commit(r)
      <3>1. \A l \in Labors : db[l] # NoRow => db'[l] = db[l]
        BY <2>3, CommitShows DEF RowsStay
      <3>2. CASE \E p \in Payments : mine[r][p] # NoRow
        BY <2>3, <3>1, <3>2, CommitDisburses
      <3>3. CASE \A p \in Payments : mine[r][p] = NoRow
        <4>1. \A p \in Payments : db'[p] = db[p]
          BY <2>3, <3>3, CommitShows, PayrollKeysApart
        <4> QED
          BY <3>1, <4>1
      <3> QED
        BY <3>2, <3>3
    <2>4. CASE \E s \in Staff, body \in StaffCreate : CreateStaff(s, body)
      <3>1. \A k \in Labors \cup Payments : db'[k] = db[k]
        BY <2>4, PayrollKeysApart DEF CreateStaff
      <3> QED
        BY <3>1
    <2>5. CASE \E o \in Orders, ls \in NewKeys(Labors), cs \in NewKeys(Costs) :
                 \E labor \in [ls -> LaborCreate], costs \in [cs -> Overheads] :
                    CreateOrder(o, labor, costs)
      <3> PICK o \in Orders, ls \in NewKeys(Labors), cs \in NewKeys(Costs) :
              \E labor \in [ls -> LaborCreate], costs \in [cs -> Overheads] :
                 CreateOrder(o, labor, costs)
        BY <2>5
      <3>1. PICK labor \in [ls -> LaborCreate], costs \in [cs -> Overheads] :
                 CreateOrder(o, labor, costs)
        OBVIOUS
      <3>2. /\ ls \subseteq Labors /\ (\A l \in ls : db[l] = NoRow) /\ cs \subseteq Costs
            /\ DOMAIN labor = ls /\ DOMAIN costs = cs
        BY NewAreUnused DEF Unused
      <3>3. DOMAIN db = PayrollKeys
        BY <2>1, PayrollFacts
      <3>4. \A k \in PayrollKeys \ ({o} \cup ls \cup cs) : db'[k] = db[k]
        BY <3>1, <3>2, <3>3 DEF CreateOrder, Created
      <3>5. \A k \in (Labors \ ls) \cup Payments : k \in PayrollKeys \ ({o} \cup ls \cup cs)
        BY <3>2, PayrollKeysApart
      <3> QED
        BY <3>2, <3>4, <3>5
    <2> QED
      BY <2>1, <2>2, <2>3, <2>4, <2>5, PayrollOnlyCommits
  <1> QED
    BY <1>1, <1>2

\* A line has less left, by what the payment that is added pays of it.
LEMMA RemainsLess ==
    ASSUME PayrollInv, SessionInv(PayrollTable)', NEW r \in Requests, NEW p \in Payments,
           Disburses(r, p), NEW l \in Labors, db[l] # NoRow
    PROVE  Remaining(l)' = Remaining(l) - mine[r][p].entries[l]
  <1>1. SessionInv(PayrollTable)
    BY DEF PayrollInv
  <1> PICK S : S = PaymentRows
    OBVIOUS
  <1> PICK T : T = {q \in Payments : db'[q] # NoRow}
    OBVIOUS
  <1> PICK payment : payment = mine[r][p]
    OBVIOUS
  <1> DEFINE f == [q \in S |-> db[q].entries[l]]
             g == [q \in T |-> db'[q].entries[l]]
  <1>2. /\ payment \in StaffPayment /\ db[p] = NoRow /\ db'[p] = payment /\ db'[p] # NoRow
        /\ \A q \in Payments \ {p} : db'[q] = db[q]
        /\ db'[l] = db[l]
    BY <1>1, PayrollRows DEF Disburses
  <1>3. S = T \ {p} /\ p \in T /\ p \notin S /\ S \subseteq Payments
    BY <1>2 DEF PaymentRows
  <1>4. IsFiniteSet(S)
    BY <1>3, FS_Subset, PayrollAssumption
  <1>5. \A q \in S : db[q].entries[l] \in Nat /\ db'[q] = db[q]
    <2>1. \A q \in S : q \in Payments \ {p} /\ db[q] \in StaffPayment
      BY <1>1, <1>3, PayrollRows DEF PaymentRows
    <2> QED
      BY <1>2, <2>1, PayrollNumbers
  <1>6. payment.entries[l] \in Nat
    BY <1>2, PayrollNumbers
  <1>7. /\ f \in [S -> Int] /\ g \in [T -> Int] /\ \A q \in S : f[q] = g[q]
        /\ g[p] = payment.entries[l]
    BY <1>2, <1>3, <1>5, <1>6
  <1>8. PaidFor(l) = SumFunction(f)
    BY DEF PaidFor
  <1>9. PaidFor(l)' = SumFunction(g)
    BY DEF PaidFor, PaymentRows
  <1> HIDE DEF f, g
  <1>10. SumFunction(g) = SumFunction(f) + g[p]
    BY <1>3, <1>4, <1>7, SumExtend
  <1>11. SumFunction(f) \in Int /\ db[l].total_cost \in Nat
    BY <1>1, <1>4, <1>7, SumType, PayrollRows, PayrollNumbers
  <1>12. Remaining(l)' = db'[l].total_cost - PaidFor(l)'
    BY DEF Remaining
  <1> QED
    BY <1>2, <1>6, <1>7, <1>8, <1>9, <1>10, <1>11, <1>12 DEF Remaining

\* A line is overpaid by a payment that another has overtaken.
LEMMA OverpaidByRace ==
    ASSUME PayrollInv, [PayrollNext]_sessionVars, NEW l \in Labors, db[l] # NoRow,
           Remaining(l) >= 0, Remaining(l)' < 0
    PROVE  \E r \in Requests : /\ Committing(r) /\ job[r].op = "disburse"
                               /\ job[r].loaded[l] # Remaining(l)
  <1>1. SessionInv(PayrollTable) /\ SessionInv(PayrollTable)'
    BY PayrollInvStep DEF PayrollInv
  <1>2. Remaining(l) \in Int
    BY <1>1, WhatRemains
  <1>3. CASE \A p \in Payments : db'[p] = db[p]
    <2>1. db'[l] = db[l]
      BY PaymentAppears
    <2>2. Remaining(l)' = Remaining(l)
      <3>1. PaymentRows' = PaymentRows /\ \A p \in PaymentRows : db'[p] = db[p]
        BY <1>3 DEF PaymentRows
      <3>2. [p \in PaymentRows' |-> db'[p].entries[l]] = [p \in PaymentRows |-> db[p].entries[l]]
        BY <3>1
      <3> QED
        BY <2>1, <3>2 DEF Remaining, PaidFor
    <2> QED
      BY <1>2, <2>2
  <1>4. CASE \E r \in Requests, p \in Payments : Disburses(r, p)
    <2>1. PICK r \in Requests, p \in Payments : Disburses(r, p)
      BY <1>4
    <2>2. Remaining(l)' = Remaining(l) - mine[r][p].entries[l]
      BY <1>1, <2>1, RemainsLess
    <2>3. /\ mine[r][p].entries[l] <= job[r].loaded[l] /\ mine[r][p] # NoRow
          /\ Committing(r) /\ job[r].op = "disburse"
      BY <2>1 DEF Disburses, Pays
    <2>4. mine[r][p].entries[l] \in Nat
      BY <1>1, <2>3, PayrollRows, PayrollNumbers
    <2>5. job[r].loaded[l] \in Nat
      BY <2>3, PayrollFacts DEF PaymentSound
    <2>6. job[r].loaded[l] # Remaining(l)
      BY <1>2, <2>2, <2>3, <2>4, <2>5
    <2> QED
      BY <2>3, <2>6
  <1> QED
    BY <1>3, <1>4, PaymentAppears

\* The lines that are carried forward and the new ones together are the unpaid ones.
LEMMA DueAmong ==
    ASSUME NEW U, IsFiniteSet(U), NEW C \in SUBSET U, NEW rem, \A l \in U : rem[l] \in Int
    PROVE  SumFunction([l \in C |-> rem[l]]) + SumFunction([l \in U \ C |-> rem[l]])
              = SumFunction([l \in U |-> rem[l]])
  <1> DEFINE f == [l \in U |-> rem[l]]
  <1>1. f \in [U -> Int]
    OBVIOUS
  <1>2. /\ SumOver(f, U) = SumFunction([l \in U |-> rem[l]])
        /\ SumOver(f, C) = SumFunction([l \in C |-> rem[l]])
        /\ SumOver(f, U \ C) = SumFunction([l \in U \ C |-> rem[l]])
    <2>1. /\ [l \in U |-> f[l]] = [l \in U |-> rem[l]]
          /\ [l \in C |-> f[l]] = [l \in C |-> rem[l]]
          /\ [l \in U \ C |-> f[l]] = [l \in U \ C |-> rem[l]]
      OBVIOUS
    <2> HIDE DEF f
    <2> QED
      BY <2>1 DEF SumOver
  <1> HIDE DEF f
  <1>3. SumOver(f, U) = SumOver(f, C) + SumOver(f, U \ C)
    BY <1>1, SumOfHalves
  <1> QED
    BY <1>2, <1>3

LEMMA DueIs ==
    ASSUME NEW s, NEW rem, \A l \in Unpaid(s) : rem[l] = Remaining(l) /\ rem[l] \in Int,
           IsFiniteSet(Unpaid(s))
    PROVE  TotalDue(s) = SumFunction([l \in Unpaid(s) |-> rem[l]])
  <1> PICK U : U = Unpaid(s)
    OBVIOUS
  <1> PICK C : C = {l \in U : Remaining(l) < db[l].total_cost}
    OBVIOUS
  <1>1. TotalDue(s) = Left(C) + Left(U \ C)
    BY DEF TotalDue, UnpaidEarnings
  <1>2. /\ Left(C) = SumFunction([l \in C |-> rem[l]])
        /\ Left(U \ C) = SumFunction([l \in U \ C |-> rem[l]])
    <2>1. /\ [l \in C |-> Remaining(l)] = [l \in C |-> rem[l]]
          /\ [l \in U \ C |-> Remaining(l)] = [l \in U \ C |-> rem[l]]
      OBVIOUS
    <2> QED
      BY <2>1 DEF Left
  <1>3. C \in SUBSET U /\ IsFiniteSet(U) /\ \A l \in U : rem[l] \in Int
    OBVIOUS
  <1>4. SumFunction([l \in C |-> rem[l]]) + SumFunction([l \in U \ C |-> rem[l]])
           = SumFunction([l \in U |-> rem[l]])
    BY <1>3, DueAmong
  <1> QED
    BY <1>1, <1>2, <1>4

\* The same in the next state.
LEMMA DueIsNext ==
    ASSUME NEW s, NEW rem, NEW U, U = Unpaid(s)', IsFiniteSet(U),
           \A l \in U : rem[l] = Remaining(l)' /\ rem[l] \in Int
    PROVE  TotalDue(s)' = SumFunction([l \in U |-> rem[l]])
  <1> PICK C : C = {l \in U : Remaining(l)' < db'[l].total_cost}
    OBVIOUS
  <1>1. TotalDue(s)' = Left(C)' + Left(U \ C)'
    BY DEF TotalDue, UnpaidEarnings, Left
  <1>2. /\ Left(C)' = SumFunction([l \in C |-> rem[l]])
        /\ Left(U \ C)' = SumFunction([l \in U \ C |-> rem[l]])
    <2>1. /\ [l \in C |-> Remaining(l)'] = [l \in C |-> rem[l]]
          /\ [l \in U \ C |-> Remaining(l)'] = [l \in U \ C |-> rem[l]]
      OBVIOUS
    <2> QED
      BY <2>1 DEF Left
  <1>3. C \in SUBSET U /\ \A l \in U : rem[l] \in Int
    OBVIOUS
  <1>4. SumFunction([l \in C |-> rem[l]]) + SumFunction([l \in U \ C |-> rem[l]])
           = SumFunction([l \in U |-> rem[l]])
    BY <1>3, DueAmong
  <1> QED
    BY <1>1, <1>2, <1>4

\* Of what remains on the lines U of T each share e has been taken, and only the lines
\* of V have something left.
SharesTaken(T, U, V, rem, later, e) ==
    /\ U \subseteq T /\ V \subseteq U
    /\ e \in [T -> Nat]
    /\ \A l \in U : rem[l] \in Int /\ later[l] \in Int /\ rem[l] = later[l] + e[l]
    /\ \A l \in U \ V : later[l] = 0
    /\ \A l \in T \ U : e[l] = 0

\* What is left on V is what was left on U less the shares.
LEMMA SharesLowerDue ==
    ASSUME NEW T, IsFiniteSet(T), NEW U, NEW V, NEW rem, NEW later, NEW e,
           SharesTaken(T, U, V, rem, later, e)
    PROVE  /\ SumFunction([l \in V |-> later[l]])
                = SumFunction([l \in U |-> rem[l]]) - SumFunction(e)
           /\ SumFunction(e) \in Int /\ SumFunction([l \in U |-> rem[l]]) \in Int
  <1> DEFINE f == [l \in U |-> rem[l]]
             g == [l \in U |-> later[l]]
             h == [l \in V |-> later[l]]
             d == [l \in U |-> e[l]]
  <1>1. IsFiniteSet(U) /\ IsFiniteSet(V) /\ U \subseteq T /\ V \subseteq U
    BY FS_Subset DEF SharesTaken
  <1>2. /\ f \in [U -> Int] /\ g \in [U -> Int] /\ d \in [U -> Int] /\ h \in [V -> Int]
    BY DEF SharesTaken
  <1>3. \A l \in U : f[l] = g[l] + d[l]
    BY DEF SharesTaken
  <1>4. (\A l \in V : h[l] = g[l]) /\ (\A l \in U \ V : g[l] = 0)
    BY DEF SharesTaken
  <1>5. (\A l \in U : d[l] = e[l]) /\ (\A l \in T \ U : e[l] = 0) /\ e \in [T -> Int]
    BY DEF SharesTaken
  <1> HIDE DEF f, g, h, d
  <1>6. SumFunction(g) = SumFunction(h)
    BY <1>1, <1>2, <1>4, SumWithin
  <1>7. SumFunction(f) = SumFunction(g) + SumFunction(d)
    BY <1>1, <1>2, <1>3, SumAdd
  <1>8. SumFunction(e) = SumFunction(d)
    BY <1>1, <1>2, <1>5, SumWithin
  <1>9. SumFunction(f) \in Int /\ SumFunction(g) \in Int /\ SumFunction(d) \in Int
    BY <1>1, <1>2, SumType
  <1>10. SumFunction(h) = SumFunction(f) - SumFunction(e) /\ SumFunction(e) \in Int
    BY <1>6, <1>7, <1>8, <1>9
  <1> QED
    BY <1>9, <1>10 DEF f, h

\* A payment for lines that are still due lowers what is due by its gross amount.
LEMMA DueFalls ==
    ASSUME PayrollInv, [PayrollNext]_sessionVars, NEW s \in Staff, NEW p \in Payments,
           NEW payment, payment = db'[p], db[p] = NoRow, payment # NoRow,
           payment.staff = s, payment.compensation_type = "per_unit",
           \A l \in Labors : payment.entries[l] > 0 =>
              l \in Unpaid(s) /\ payment.entries[l] <= Remaining(l)
    PROVE  TotalDue(s)' = TotalDue(s) - payment.gross
  <1>1. SessionInv(PayrollTable) /\ SessionInv(PayrollTable)'
    BY PayrollInvStep DEF PayrollInv
  <1>2. PICK r \in Requests : Disburses(r, p)
    BY PaymentAppears DEF Disburses
  <1>3. /\ payment = mine[r][p] /\ \A k \in Orders \cup Labors : db'[k] = db[k]
        /\ EntriesOK(payment)
    BY <1>2 DEF Disburses, Pays
  <1>4. payment \in StaffPayment /\ payment.entries \in [Labors -> Nat] /\ payment.gross \in Nat
    BY <1>1, <1>3, PayrollRows, PayrollNumbers
  <1> PICK e : e = payment.entries
    OBVIOUS
  <1>5. e \in [Labors -> Nat] /\ SumFunction(e) = payment.gross
    BY <1>3, <1>4 DEF EntriesOK
  <1> PICK U : U = Unpaid(s)
    OBVIOUS
  <1> PICK V : V = {l \in Labors : /\ db[l] # NoRow /\ db[l].staff = s /\ Remaining(l)' > 0
                                   /\ db[db[l].order].status = "completed"}
    OBVIOUS
  <1> PICK rem : rem = [l \in Labors |-> Remaining(l)]
    OBVIOUS
  <1> PICK later : later = [l \in Labors |-> Remaining(l)']
    OBVIOUS
  <1>6. V = Unpaid(s)'
    <2>1. \A l \in Labors : db[l] # NoRow => db[l].order \in Orders
      BY <1>1, PayrollRows, PayrollNumbers
    <2>2. \A l \in Labors : /\ db'[l] = db[l]
                            /\ db[l] # NoRow =>
                                 db'[db'[l].order].status = db[db[l].order].status
      BY <1>3, <2>1
    <2> QED
      BY <2>2 DEF Unpaid
  <1>7. \A l \in Labors : db[l] # NoRow =>
          /\ rem[l] = Remaining(l) /\ rem[l] \in Int
          /\ later[l] = Remaining(l)' /\ later[l] = rem[l] - e[l] /\ later[l] \in Int
    <2> SUFFICES ASSUME NEW l \in Labors, db[l] # NoRow
                 PROVE  /\ rem[l] = Remaining(l) /\ rem[l] \in Int
                        /\ later[l] = Remaining(l)' /\ later[l] = rem[l] - e[l]
                        /\ later[l] \in Int
      OBVIOUS
    <2>1. rem[l] = Remaining(l) /\ later[l] = Remaining(l)'
      OBVIOUS
    <2>2. Remaining(l) \in Int
      BY <1>1, WhatRemains
    <2>3. Remaining(l)' = Remaining(l) - mine[r][p].entries[l]
      BY <1>1, <1>2, RemainsLess
    <2>4. mine[r][p].entries[l] = e[l] /\ e[l] \in Int
      BY <1>3, <1>5
    <2> QED
      BY <2>1, <2>2, <2>3, <2>4
  <1>8. /\ \A l \in U : /\ l \in Labors /\ db[l] # NoRow /\ db[l].staff = s /\ rem[l] > 0
                        /\ db[db[l].order].status = "completed"
        /\ \A l \in Labors : e[l] > 0 => l \in U /\ e[l] <= rem[l]
    <2>1. \A l \in U : /\ l \in Labors /\ db[l] # NoRow /\ db[l].staff = s /\ rem[l] > 0
                       /\ db[db[l].order].status = "completed"
      BY <1>7 DEF Unpaid
    <2>2. \A l \in Labors : e[l] > 0 => l \in U /\ e[l] <= Remaining(l)
      OBVIOUS
    <2> QED
      BY <1>7, <2>1, <2>2
  <1>9. /\ V \subseteq U /\ \A l \in U \ V : later[l] = 0
        /\ \A l \in V : l \in Labors /\ db[l] # NoRow
    <2>1. \A l \in V : /\ l \in Labors /\ db[l] # NoRow /\ db[l].staff = s /\ later[l] > 0
                       /\ db[db[l].order].status = "completed"
      BY <1>7
    <2>2. ASSUME NEW l \in V
          PROVE  l \in U
      <3>1. CASE e[l] > 0
        BY <1>8, <2>1, <3>1
      <3>2. CASE ~(e[l] > 0)
        <4>1. rem[l] > 0
          BY <1>5, <1>7, <2>1, <3>2
        <4> QED
          BY <1>7, <2>1, <4>1 DEF Unpaid
      <3> QED
        BY <3>1, <3>2
    <2>3. ASSUME NEW l \in U \ V
          PROVE  later[l] = 0
      <3>1. /\ l \in Labors /\ db[l] # NoRow /\ rem[l] > 0 /\ e[l] \in Nat
            /\ e[l] > 0 => e[l] <= rem[l]
        BY <1>5, <1>8
      <3>2. later[l] \in Int /\ later[l] = rem[l] - e[l] /\ rem[l] \in Int
        BY <1>7, <3>1
      <3>3. ~(later[l] > 0)
        BY <1>7, <1>8, <3>1
      <3> QED
        BY <3>1, <3>2, <3>3
    <2> QED
      BY <2>1, <2>2, <2>3
  <1>10. IsFiniteSet(U) /\ IsFiniteSet(V) /\ IsFiniteSet(Labors)
    <2>1. IsFiniteSet(Labors) /\ U \subseteq Labors
      BY <1>8, PayrollAssumption
    <2> QED
      BY <1>9, <2>1, FS_Subset
  <1>11. TotalDue(s) = SumFunction([l \in U |-> rem[l]])
    <2>1. ASSUME NEW l \in Unpaid(s)
          PROVE  rem[l] = Remaining(l) /\ rem[l] \in Int
      BY <1>7, <1>8
    <2> QED
      BY <1>10, <2>1, DueIs
  <1>12. TotalDue(s)' = SumFunction([l \in V |-> later[l]])
    <2>1. ASSUME NEW l \in V
          PROVE  later[l] = Remaining(l)' /\ later[l] \in Int
      BY <1>7, <1>9
    <2>2. \A l \in V : later[l] = Remaining(l)' /\ later[l] \in Int
      BY <2>1
    <2>3. V = Unpaid(s)' /\ IsFiniteSet(V)
      BY <1>6, <1>10
    <2> QED
      BY ONLY <2>2, <2>3, DueIsNext
  <1>13. SharesTaken(Labors, U, V, rem, later, e)
    <2>1. ASSUME NEW l \in U
          PROVE  /\ l \in Labors /\ rem[l] \in Int /\ later[l] \in Int
                 /\ rem[l] = later[l] + e[l]
      <3>1. l \in Labors /\ db[l] # NoRow
        BY <1>8
      <3>2. rem[l] \in Int /\ later[l] \in Int /\ later[l] = rem[l] - e[l]
        BY <1>7, <3>1
      <3>3. e[l] \in Nat
        BY <1>5, <3>1
      <3> QED
        BY <3>1, <3>2, <3>3
    <2>2. ASSUME NEW l \in Labors \ U
          PROVE  e[l] = 0
      BY <1>5, <1>8
    <2> QED
      BY <1>5, <1>9, <2>1, <2>2 DEF SharesTaken
  <1> QED
    BY <1>5, <1>10, <1>11, <1>12, <1>13, SharesLowerDue

\* A line of labour is overpaid only by a payment that another one has overtaken
\* between the SELECT of what is unpaid and the commit, and a payment for lines that
\* are still due lowers what get_unpaid_earnings reports by its gross amount.
THEOREM OverpaymentIsRace == PayrollSpec => OverpaidOnlyByRace
  <1> DEFINE A ==
        /\ \A l \in Labors :
             db[l] # NoRow /\ Remaining(l) >= 0 /\ Remaining(l)' < 0 =>
                \E r \in Requests : /\ Committing(r) /\ job[r].op = "disburse"
                                    /\ job[r].loaded[l] # Remaining(l)
        /\ \A s \in Staff, p \in Payments :
             LET payment == db'[p] IN
             /\ db[p] = NoRow /\ payment # NoRow
             /\ payment.staff = s /\ payment.compensation_type = "per_unit"
             /\ \A l \in Labors : payment.entries[l] > 0 =>
                   l \in Unpaid(s) /\ payment.entries[l] <= Remaining(l)
             => TotalDue(s)' = TotalDue(s) - payment.gross
  <1>1. ASSUME PayrollInv, [PayrollNext]_sessionVars
        PROVE  [A]_sessionVars
    <2>1. ASSUME NEW l \in Labors, db[l] # NoRow, Remaining(l) >= 0, Remaining(l)' < 0
          PROVE  \E r \in Requests : /\ Committing(r) /\ job[r].op = "disburse"
                                     /\ job[r].loaded[l] # Remaining(l)
      BY <1>1, <2>1, OverpaidByRace
    <2>2. ASSUME NEW s \in Staff, NEW p \in Payments, NEW payment, payment = db'[p],
                 db[p] = NoRow, payment # NoRow,
                 payment.staff = s, payment.compensation_type = "per_unit",
                 \A l \in Labors : payment.entries[l] > 0 =>
                    l \in Unpaid(s) /\ payment.entries[l] <= Remaining(l)
          PROVE  TotalDue(s)' = TotalDue(s) - payment.gross
      BY <1>1, <2>2, DueFalls
    <2> QED
      BY <2>1, <2>2
  <1> HIDE DEF A
  <1>2. PayrollSpec => [][A]_sessionVars
    BY <1>1, PayrollInvariance, PTL DEF PayrollSpec
  <1> QED
    BY <1>2 DEF OverpaidOnlyByRace, A
=============================================================================
