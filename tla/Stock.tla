-------------------------------- MODULE Stock --------------------------------
(***************************************************************************)
(* Quantities on hand: app/services/inventory_service.py and every request *)
(* of the sales, purchases and production modules that moves stock through *)
(* it.                                                                     *)
(*                                                                         *)
(* A request is a program of reads (get_or_404, unlocked) and moves        *)
(* (_apply_stock_change, under SELECT ... FOR UPDATE) over its lines, in   *)
(* the order of the code.  The session keeps an ORM object only while some *)
(* Python variable or relationship refers to it: the loop variable         *)
(* inv_item keeps the item it read LAST, a loaded relationship keeps all   *)
(* its items.  A locking SELECT that finds its object still in the session *)
(* does not overwrite the attributes the object already has, so a move on  *)
(* a kept item computes from what was read before the lock.                *)
(*                                                                         *)
(* Prices, units, categories and names are left out, as is the money side  *)
(* of the documents (invoices, purchases, orders) that own the lines.      *)
(***************************************************************************)
EXTENDS Integers, Sequences, FiniteSets, SequencesExt

CONSTANTS
    Items,        \* primary keys of the items table
    Existing,     \* those created before the behaviour starts
    Requests,     \* sessions that can be open at the same time
    DocIds,       \* primary keys of sale_invoices and purchases
    LineLists,    \* the lines a request may carry, as sequences of lines
    Ops,          \* the requests that can arrive
    NoObject,     \* the session has no object for the item
    NoDoc,        \* the document does not exist, or the request has none
    MaxRows       \* bound: no request but a deletion arrives once there are so many rows

Line == [item : Items, qty : Nat \ {0}]

\* The schemas require quantity > 0 on every line of a document.
ASSUME StockAssumption ==
    /\ LineLists \subseteq Seq(Line) \ {<<>>}
    /\ Existing \subseteq Items
    /\ NoDoc \notin DocIds
    /\ Ops \subseteq {"sale", "updateSale", "voidSale", "saleReturn", "purchase",
                     "updatePurchase", "voidPurchase", "purchaseReturn", "complete",
                     "adjust", "delete"}
    /\ NoObject \notin [stock : Int, status : {"active", "deleted"}, pinned : BOOLEAN]
    /\ MaxRows \in Nat

VARIABLES
    status,      \* committed: "absent", "active" or "deleted" (is_active)
    stock,       \* committed: current_stock
    moves,       \* committed: the item's StockMovement rows, oldest first
    documents,   \* committed: the sale and purchase documents and their lines
    open,        \* session: a request is being handled
    job,         \* session: the document its commit will leave, if any
    todo,        \* session: the steps its handler has still to take
    held,        \* session: item rows it has locked
    objects,     \* session: its ORM objects
    posted       \* session: StockMovement rows it has inserted, per item

dbVars == <<status, stock, moves, documents>>
vars == <<status, stock, moves, documents, open, job, todo, held, objects, posted>>

-----------------------------------------------------------------------------
(* Rows, objects and steps.                                                *)

MovementType == {"purchase_in", "sale_out", "return_in", "return_out",
                 "production_in", "production_out", "adjustment"}

\* live: neither void nor returned.
Document == [kind : {"sale", "purchase"}, lines : LineLists, live : BOOLEAN]

\* fresh is no column: it marks the rows of a session that kept no object of the
\* item when it locked it.
Row == [type : MovementType, qty : Int, before : Int, after : Int, fresh : BOOLEAN]

Object == [stock : Int, status : {"active", "deleted"}, pinned : BOOLEAN]

\* get_or_404, with what the caller then requires of the item.
ReadStep(i, requires, need) ==
    [do |-> "read", item |-> i, requires |-> requires, need |-> need]

\* A relationship loaded with the document keeps the item for the whole request.
PinStep(i) == [do |-> "pin", item |-> i]

\* _apply_stock_change.
MoveStep(i, qty, type) == [do |-> "move", item |-> i, qty |-> qty, type |-> type]

\* item.is_active = False and the flush.
DeleteStep(i) == [do |-> "delete", item |-> i]

Step ==
    [do : {"read"}, item : Items, requires : SUBSET {"active", "stock"}, need : Nat]
      \cup [do : {"pin", "delete"}, item : Items]
      \cup [do : {"move"}, item : Items, qty : Int, type : MovementType]

ForEachLine(lines, StepOf(_)) == [k \in DOMAIN lines |-> StepOf(lines[k])]

\* The total quantity of item i over the lines.
Total(lines, i) ==
    SumFunction([k \in DOMAIN lines |-> IF lines[k].item = i THEN lines[k].qty ELSE 0])

-----------------------------------------------------------------------------
(* The requests.                                                           *)

In(lines, type) == ForEachLine(lines, LAMBDA l : MoveStep(l.item, l.qty, type))
Out(lines, type) == ForEachLine(lines, LAMBDA l : MoveStep(l.item, - l.qty, type))
Pins(lines) == ForEachLine(lines, LAMBDA l : PinStep(l.item))

\* Seeded fault: the lines are checked one by one.
SaleChecksByLine(lines) ==
    ForEachLine(lines, LAMBDA l : ReadStep(l.item, {"active", "stock"}, l.qty))

\* The validation loop of create_sale and update_sale, which adds up the
\* quantities of lines of the same item.
SaleChecks(lines) ==
    ForEachLine(lines, LAMBDA l : ReadStep(l.item, {"active", "stock"}, Total(lines, l.item)))

CreateSale(lines) == SaleChecks(lines) \o Out(lines, "sale_out")

\* update_sale: the old lines come back first.
UpdateSale(old, new) == In(old, "return_in") \o SaleChecks(new) \o Out(new, "sale_out")

\* Seeded fault: a movement type the enumeration does not have.
SaleReturnMistyped(lines) == In(lines, "sale_return")

\* void_sale, and approve_return of the sales module.
SaleReturn(lines) == In(lines, "return_in")

PurchaseChecks(lines) == ForEachLine(lines, LAMBDA l : ReadStep(l.item, {"active"}, 0))

CreatePurchase(lines) == PurchaseChecks(lines) \o In(lines, "purchase_in")

\* update_purchase: the old lines go out unchecked.  Whether purchase.items still
\* keeps their items after a patch of the header has refreshed it (`patched') is
\* left open: both ways are modelled.
UpdatePurchase(old, new, patched) ==
    (IF patched THEN <<>> ELSE Pins(old))
      \o Out(old, "return_out") \o PurchaseChecks(new) \o In(new, "purchase_in")

\* void_purchase: purchase.items keeps every item; each line is checked, then
\* moved.
VoidPurchase(lines) ==
    Pins(lines) \o
    [k \in 1 .. 2 * Len(lines) |->
        LET l == lines[(k + 1) \div 2] IN
        IF k % 2 = 1 THEN ReadStep(l.item, {"stock"}, l.qty)
        ELSE MoveStep(l.item, - l.qty, "return_out")]

\* approve_return of the purchases module: lines of one item are not added up.
PurchaseReturn(lines) ==
    ForEachLine(lines, LAMBDA l : ReadStep(l.item, {"stock"}, l.qty))
      \o Out(lines, "return_out")

\* complete_order: order.product_item keeps the product.
CompleteOrder(materials, product) ==
    <<PinStep(product.item)>>
      \o ForEachLine(materials, LAMBDA l : ReadStep(l.item, {"stock"}, l.qty))
      \o Out(materials, "production_out") \o In(<<product>>, "production_in")

AdjustStock(i, qty) == <<ReadStep(i, {}, 0), MoveStep(i, qty, "adjustment")>>

DeleteItem(i) == <<ReadStep(i, {"active"}, 0), DeleteStep(i)>>

OneLine == {ls[1] : ls \in {e \in LineLists : Len(e) = 1}}

\* The programs of an operation on a document of these lines (for updates, the
\* old ones) that carries new lines.
Programs(op, lines, new) ==
    CASE op = "sale" -> {CreateSale(new)}
      [] op = "updateSale" -> {UpdateSale(lines, new)}
      [] op \in {"voidSale", "saleReturn"} -> {SaleReturn(lines)}
      [] op = "purchase" -> {CreatePurchase(new)}
      [] op = "updatePurchase" -> {UpdatePurchase(lines, new, p) : p \in BOOLEAN}
      [] op = "voidPurchase" -> {VoidPurchase(lines)}
      [] op = "purchaseReturn" -> {PurchaseReturn(lines)}
      [] op = "complete" -> {CompleteOrder(new, l) : l \in OneLine}
      [] op = "adjust" -> UNION {{AdjustStock(l.item, l.qty), AdjustStock(l.item, - l.qty)} :
                                   l \in OneLine}
      [] op = "delete" -> {DeleteItem(l.item) : l \in OneLine}

Kind(op) == IF op \in {"sale", "updateSale", "voidSale", "saleReturn"}
            THEN "sale" ELSE "purchase"

-----------------------------------------------------------------------------
(* Sessions.                                                               *)

NoJob == [doc |-> NoDoc, leaves |-> NoDoc]

EndSession(r) ==
    /\ open' = [open EXCEPT ![r] = FALSE]
    /\ job' = [job EXCEPT ![r] = NoJob]
    /\ todo' = [todo EXCEPT ![r] = <<>>]
    /\ held' = [held EXCEPT ![r] = {}]
    /\ objects' = [objects EXCEPT ![r] = [i \in Items |-> NoObject]]
    /\ posted' = [posted EXCEPT ![r] = [i \in Items |-> <<>>]]

\* An exception leaves the handler, the connection is lost, or PostgreSQL aborts
\* the session to break a deadlock.
Abort(r) == EndSession(r) /\ UNCHANGED dbVars

\* No other session holds the row lock of item i.
Free(r, i) == \A s \in Requests \ {r} : i \notin held[s]

\* current_stock of item i in the database as session r sees it.
Seen(r, i) == IF posted[r][i] = <<>> THEN stock[i] ELSE Last(posted[r][i]).after

\* The object a SELECT of item i returns: the one the session has, unrefreshed,
\* or else a new one.
Loaded(r, i) ==
    IF objects[r][i] # NoObject THEN objects[r][i]
    ELSE [stock |-> Seen(r, i), status |-> status[i], pinned |-> FALSE]

NextIs(r, action) == open[r] /\ todo[r] # <<>> /\ Head(todo[r]).do = action

Advance(r) == todo' = [todo EXCEPT ![r] = Tail(@)]

\* POST /items: nobody else can see the new row before it is committed.
CreateItem(i) ==
    /\ status[i] = "absent"
    /\ status' = [status EXCEPT ![i] = "active"]
    /\ UNCHANGED <<stock, moves, documents, open, job, todo, held, objects, posted>>

Begin(r, program, d, leaves) ==
    /\ ~open[r]
    /\ \A k \in DOMAIN program : status[program[k].item] # "absent"
    /\ open' = [open EXCEPT ![r] = TRUE]
    /\ job' = [job EXCEPT ![r] = [doc |-> d, leaves |-> leaves]]
    /\ todo' = [todo EXCEPT ![r] = program]
    /\ UNCHANGED <<dbVars, held, objects, posted>>

HasRoom == MapThenSumSet(LAMBDA i : Len(moves[i]), Items) < MaxRows

\* create_sale and create_purchase insert a document of their own.
BeginCreate(r, op, d, lines) ==
    /\ op \in {"sale", "purchase"}
    /\ HasRoom
    /\ documents[d] = NoDoc /\ \A s \in Requests : job[s].doc # d
    /\ \E p \in Programs(op, <<>>, lines) :
          Begin(r, p, d, [kind |-> Kind(op), lines |-> lines, live |-> TRUE])

\* The others read their document, unlocked, and go by its status then.  A
\* pending return can be approved whatever became of its document.
BeginOnDocument(r, op, d, lines) ==
    /\ op \in {"updateSale", "voidSale", "saleReturn",
               "updatePurchase", "voidPurchase", "purchaseReturn"}
    /\ HasRoom
    /\ documents[d] # NoDoc /\ documents[d].kind = Kind(op)
    /\ op \notin {"saleReturn", "purchaseReturn"} => documents[d].live
    /\ op \notin {"updateSale", "updatePurchase"} => lines = documents[d].lines
    /\ \E p \in Programs(op, documents[d].lines, lines) :
          \/ Begin(r, p, d, [kind |-> Kind(op), lines |-> lines,
                             live |-> op \in {"updateSale", "updatePurchase"}])
          \/ /\ op \in {"saleReturn", "purchaseReturn"}      \* not a full return
             /\ Begin(r, p, NoDoc, NoDoc)

\* Production orders and operators need no document.
BeginOther(r, op, lines) ==
    /\ op \in {"complete", "adjust", "delete"}
    /\ op # "delete" => HasRoom
    /\ \E p \in Programs(op, <<>>, lines) : Begin(r, p, NoDoc, NoDoc)

\* get_or_404 and the checks of the caller.  The loop variable now refers to
\* this item: the one it referred to before is dropped unless pinned.
Read(r) ==
    LET step == Head(todo[r])
        object == Loaded(r, step.item)
        refused == \/ "active" \in step.requires /\ object.status # "active"
                   \/ "stock" \in step.requires /\ object.stock < step.need
        kept(i) == IF i = step.item THEN object
                   ELSE IF objects[r][i] # NoObject /\ objects[r][i].pinned
                        THEN objects[r][i]
                        ELSE NoObject
    IN
    /\ NextIs(r, "read")
    /\ \/ /\ ~refused
          /\ objects' = [objects EXCEPT ![r] = [i \in Items |-> kept(i)]]
          /\ Advance(r)
          /\ UNCHANGED <<dbVars, open, job, held, posted>>
       \/ /\ refused
          /\ Abort(r)

Pin(r) ==
    LET i == Head(todo[r]).item IN
    /\ NextIs(r, "pin")
    /\ objects' = [objects EXCEPT ![r][i] = [Loaded(r, i) EXCEPT !.pinned = TRUE]]
    /\ Advance(r)
    /\ UNCHANGED <<dbVars, open, job, held, posted>>

\* ItemRepository.apply_stock_update: the row is written from here on, and the object
\* of the session, if it has one, follows.
ApplyStockUpdate(r, i, new) ==
    /\ held' = [held EXCEPT ![r] = @ \cup {i}]
    /\ objects' = IF objects[r][i] = NoObject THEN objects
                  ELSE [objects EXCEPT ![r][i].stock = new]

\* StockMovementRepository.record.
Record(r, i, row) == posted' = [posted EXCEPT ![r][i] = Append(@, row)]

\* Variants of Move(r), with the lock, the check and the arithmetic as parameters.
MoveWith(r, waits, requiresActive, New(_)) ==
    LET step == Head(todo[r])
        i == step.item
        object == Loaded(r, i)
        row == [type |-> step.type, qty |-> step.qty, before |-> object.stock,
                after |-> New(object.stock + step.qty),
                fresh |-> objects[r][i] = NoObject]
    IN
    /\ NextIs(r, "move")
    /\ waits => Free(r, i)
    /\ requiresActive => object.status = "active"
    /\ ApplyStockUpdate(r, i, row.after)
    /\ Record(r, i, row)
    /\ Advance(r)
    /\ UNCHANGED <<dbVars, open, job>>

\* Seeded faults: no FOR UPDATE; no is_active check; stock clamped at zero.
MoveWithoutLock(r) == MoveWith(r, FALSE, TRUE, LAMBDA n : n)
MoveDeleted(r) == MoveWith(r, TRUE, FALSE, LAMBDA n : n)
MoveClamped(r) == MoveWith(r, TRUE, TRUE, LAMBDA n : IF n < 0 THEN 0 ELSE n)

\* _apply_stock_change: lock the row, refuse an inactive item, write the new
\* stock and append the movement.
Move(r) ==
    LET step == Head(todo[r])
        i == step.item
        object == Loaded(r, i)
        new == object.stock + step.qty
        row == [type |-> step.type, qty |-> step.qty, before |-> object.stock,
                after |-> new,
                fresh |-> IF posted[r][i] = <<>> THEN objects[r][i] = NoObject
                          ELSE Last(posted[r][i]).fresh]
    IN
    /\ NextIs(r, "move")
    /\ Free(r, i)
    /\ \/ /\ object.status = "active"
          /\ ApplyStockUpdate(r, i, new)
          /\ Record(r, i, row)
          /\ Advance(r)
          /\ UNCHANGED <<dbVars, open, job>>
       \/ /\ object.status # "active"
          /\ Abort(r)

\* delete_item: the UPDATE waits for the row lock.
Delete(r) ==
    LET i == Head(todo[r]).item IN
    /\ NextIs(r, "delete")
    /\ Free(r, i)
    /\ held' = [held EXCEPT ![r] = @ \cup {i}]
    /\ objects' = [objects EXCEPT ![r][i].status = "deleted"]
    /\ Advance(r)
    /\ UNCHANGED <<dbVars, open, job, posted>>

Commit(r) ==
    LET deleted(i) == objects[r][i] # NoObject /\ objects[r][i].status = "deleted" IN
    /\ open[r] /\ todo[r] = <<>>
    /\ status' = [i \in Items |-> IF deleted(i) THEN "deleted" ELSE status[i]]
    /\ stock' = [i \in Items |-> Seen(r, i)]
    /\ moves' = [i \in Items |-> moves[i] \o posted[r][i]]
    /\ documents' = IF job[r].doc = NoDoc THEN documents
                    ELSE [documents EXCEPT ![job[r].doc] = job[r].leaves]
    /\ EndSession(r)

Rollback(r) == open[r] /\ Abort(r)

-----------------------------------------------------------------------------
Init ==
    /\ status = [i \in Items |-> IF i \in Existing THEN "active" ELSE "absent"]
    /\ stock = [i \in Items |-> 0]
    /\ moves = [i \in Items |-> <<>>]
    /\ documents = [d \in DocIds |-> NoDoc]
    /\ open = [r \in Requests |-> FALSE]
    /\ job = [r \in Requests |-> NoJob]
    /\ todo = [r \in Requests |-> <<>>]
    /\ held = [r \in Requests |-> {}]
    /\ objects = [r \in Requests |-> [i \in Items |-> NoObject]]
    /\ posted = [r \in Requests |-> [i \in Items |-> <<>>]]

Next ==
    \/ \E i \in Items : CreateItem(i)
    \/ \E r \in Requests :
         \/ \E op \in Ops, d \in DocIds, lines \in LineLists :
              BeginCreate(r, op, d, lines) \/ BeginOnDocument(r, op, d, lines)
         \/ \E op \in Ops, lines \in LineLists : BeginOther(r, op, lines)
         \/ Read(r) \/ Pin(r) \/ Move(r) \/ Delete(r)
         \/ Commit(r) \/ Rollback(r)

Spec == Init /\ [][Next]_vars

-----------------------------------------------------------------------------
(* Properties.                                                             *)

TypeOK ==
    /\ status \in [Items -> {"absent", "active", "deleted"}]
    /\ stock \in [Items -> Int]
    /\ moves \in [Items -> Seq(Row)]
    /\ documents \in [DocIds -> Document \cup {NoDoc}]
    /\ open \in [Requests -> BOOLEAN]
    /\ job \in [Requests -> [doc : DocIds \cup {NoDoc}, leaves : Document \cup {NoDoc}]]
    /\ todo \in [Requests -> Seq(Step)]
    /\ held \in [Requests -> SUBSET Items]
    /\ objects \in [Requests -> [Items -> Object \cup {NoObject}]]
    /\ posted \in [Requests -> [Items -> Seq(Row)]]

\* The stock before the k-th movement row of item i.
Before(i, k) == IF k = 1 THEN 0 ELSE moves[i][k - 1].after

\* "SELECT FOR UPDATE on the item row": a row computed under the lock from the
\* row it locked continues the chain of the item's movements.  (The other rows
\* are those of sessions that had read the item before and still kept it: there
\* the lock does not help, and an update in between is lost.)
FreshRowsChain ==
    \A i \in Items : \A k \in DOMAIN moves[i] :
        moves[i][k].fresh => moves[i][k].before = Before(i, k)

\* "Compute new_stock = current_stock + delta", of the row that was locked: every row
\* starts from the stock that the row before it left.  The code does not keep it: the
\* locking SELECT of a request that has read the item before returns what it read.
EveryRowChains ==
    \A i \in Items : \A k \in DOMAIN moves[i] : moves[i][k].before = Before(i, k)

\* "Both writes land before caller commits": every row adds its quantity, and
\* the stock of an item is what its last row says, lost updates or not.
MovementsAddUp ==
    \A i \in Items :
        /\ \A k \in DOMAIN moves[i] :
             moves[i][k].after = moves[i][k].before + moves[i][k].qty
        /\ stock[i] = Before(i, Len(moves[i]) + 1)

\* create_sale checks the stock of its last item on the very object it then
\* subtracts from: whatever happened in between, such a row never shows a
\* negative stock, even when several lines sell the same item.
KeptSalesStayAboveZero ==
    \A i \in Items : \A k \in DOMAIN moves[i] :
        moves[i][k].type = "sale_out" /\ ~moves[i][k].fresh => moves[i][k].after >= 0

\* "Deleted items still appear in StockMovement history": a deleted item gets no
\* new rows, except from a session that kept an object of it from before.
DeletedItemsRest ==
    [][\A i \in Items : \A k \in DOMAIN moves'[i] \ DOMAIN moves[i] :
         moves'[i][k].fresh => status[i] = "active"]_vars

\* "Never negative in normal flow; negative only via explicit adjustment".  This
\* does NOT hold once two requests overlap.
NeverNegative == \A i \in Items : stock[i] >= 0
=============================================================================
