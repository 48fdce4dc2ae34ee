------------------------------ MODULE Production ------------------------------
(***************************************************************************)
(* Production orders, their labour and cost lines and their outputs:       *)
(* app/services/production_service.py.                                     *)
(*                                                                         *)
(* Every status is read without a lock.  The stock that an order consumes  *)
(* and yields is the subject of Stock, so a material that is short is a    *)
(* Rollback here; materials never change after the order is created, so    *)
(* that their bucket of the header is left out.  update_order writes dates *)
(* and notes only, and has no action.                                      *)
(***************************************************************************)
EXTENDS Sessions

CONSTANTS
    Staff,     \* primary keys of the staff table
    Orders,    \* primary keys of the production_orders table
    Labors,    \* primary keys of the production_labor table
    Costs,     \* primary keys of the production_costs table
    Outputs,   \* primary keys of the production_output table
    Earnings,  \* quantity times rate of a line of labour, in 1/1000 of a cent
    Overheads  \* amounts of a line of costs, in cents

\* The schemas require costs > 0, and quantities and rates >= 0.
ASSUME LinesAssumption == Earnings \subseteq Nat /\ Overheads \subseteq Nat \ {0}

-----------------------------------------------------------------------------
(* Rows.                                                                   *)

\* labor and other are the buckets total_labor_cost and total_other_cost.
ProductionOrder ==
    [status : {"planned", "in_progress", "completed", "cancelled"}, labor : Nat, other : Nat]

\* staff_id is optional, and nobody checks what it names.
ProductionLabor == [order : Orders, staff : Staff \cup {NoKey}, total_cost : Nat]

ProductionCost == [order : Orders, amount : Overheads]

\* An output, with the overhead expense that its transaction posted.
ProductionOutput == [order : Orders, expense : Nat]

\* The body of a line of labour.
LaborCreate == [staff : Staff \cup {NoKey}, earned : Earnings]

\* The key of a new row: the next of the sequence, and one is as good as another.
NextOf(keys) ==
    LET unused == {k \in keys : Unused(k)}
    IN IF unused = {} THEN {} ELSE {CHOOSE k \in unused : TRUE}

\* The keys of the new rows of a list, of every length.
NewKeys(keys) ==
    LET lists == SUBSET {k \in keys : Unused(k)}
    IN {new \in lists : new = CHOOSE other \in lists : Cardinality(other) = Cardinality(new)}

\* A Numeric(15, 2) column rounds what it is given to cents, halves upwards.
Cents(exact) == (exact + 500) \div 1000

\* production_labor: the total_cost is Computed, and rounded, line by line.
LaborRow(o, body) == [order |-> o, staff |-> body.staff, total_cost |-> Cents(body.earned)]

\* Nobody else can see the row, or find it to lock it.
Insert(r, k, row) == mine' = [mine EXCEPT ![r][k] = row]

LaborOf(o) == {l \in Labors : db[l] # NoRow /\ db[l].order = o}

CostsOf(o) == {c \in Costs : db[c] # NoRow /\ db[c].order = o}

LaborTotal(o) == SumFunction([l \in LaborOf(o) |-> db[l].total_cost])

CostTotal(o) == SumFunction([c \in CostsOf(o) |-> db[c].amount])

-----------------------------------------------------------------------------
(* Orders.                                                                 *)

\* The rows of a new order with the lines of labour and the costs of the body, by
\* their new keys.  The header sums what the lines came to before it is rounded.
Created(o, labor, costs) ==
    [k \in DOMAIN db |->
        CASE k = o -> [status |-> "planned",
                       labor |-> Cents(SumFunction([l \in DOMAIN labor |-> labor[l].earned])),
                       other |-> SumFunction(costs)]
          [] k \in DOMAIN labor -> LaborRow(o, labor[k])
          [] k \in DOMAIN costs -> [order |-> o, amount |-> costs[k]]
          [] OTHER -> db[k]]

\* create_order: nobody else can see the new rows before they are committed.
CreateOrder(o, labor, costs) ==
    /\ db[o] = NoRow
    /\ db' = Created(o, labor, costs)
    /\ UNCHANGED <<job, mine, held, arrived>>

\* _assert_status.
HasStatus(o, allowed) == db[o] # NoRow /\ db[o].status \in allowed

\* get_with_details, and what the handler will flush.
ReadOrder(r, o, op, new) ==
    Begin(r, [Job(op, o) EXCEPT !.step = "write", !.loaded = db[o], !.new = new])

StartOrder(r, o) ==
    /\ HasStatus(o, {"planned"})
    /\ ReadOrder(r, o, "start", [db[o] EXCEPT !.status = "in_progress"])
    /\ UNCHANGED <<db, mine, held>>

CancelOrder(r, o) ==
    /\ HasStatus(o, {"planned", "in_progress"})
    /\ ReadOrder(r, o, "cancel", [db[o] EXCEPT !.status = "cancelled"])
    /\ UNCHANGED <<db, mine, held>>

CompleteOrder(r, o) ==
    /\ HasStatus(o, {"in_progress"})
    /\ ReadOrder(r, o, "complete", [db[o] EXCEPT !.status = "completed"])
    /\ UNCHANGED <<db, mine, held>>

\* _recompute_header_costs: its SELECT returns the order that the session has, with
\* the lines that the session had read before the new one was inserted.
Recomputed(o) == [db[o] EXCEPT !.labor = LaborTotal(o), !.other = CostTotal(o)]

AddLabor(r, o, l, body) ==
    /\ HasStatus(o, {"planned", "in_progress"})
    /\ ReadOrder(r, o, "labor", Recomputed(o))
    /\ Insert(r, l, LaborRow(o, body))
    /\ UNCHANGED <<db, held>>

AddCost(r, o, c, amount) ==
    /\ HasStatus(o, {"planned", "in_progress"})
    /\ ReadOrder(r, o, "cost", Recomputed(o))
    /\ Insert(r, c, [order |-> o, amount |-> amount])
    /\ UNCHANGED <<db, held>>

\* The flush of the order that the request has read: update_costs or set_status.
FlushOrder(r) ==
    LET k == job[r].key IN
    /\ k \in Orders /\ job[r].step = "write" /\ job[r].op # "complete"
    /\ IF job[r].new = job[r].loaded THEN UNCHANGED <<mine, held>>
       ELSE Free(r, k) /\ Write(r, k, Flushed(db[k], job[r].loaded, job[r].new))
    /\ job' = [job EXCEPT ![r].step = "done", ![r].loaded = NoRow, ![r].new = NoRow]
    /\ UNCHANGED <<db, arrived>>

\* The end of complete_order: the expense of the header as it was read, the output
\* and the status, in one transaction.
FlushCompleted(r, k) ==
    LET o == job[r].key IN
    /\ At(r, "complete", "write")
    /\ Free(r, o)
    /\ mine' = [mine EXCEPT
          ![r][o] = Flushed(db[o], job[r].loaded, job[r].new),
          ![r][k] = [order |-> o, expense |-> job[r].loaded.other]]
    /\ Hold(r, o)
    /\ job' = [job EXCEPT ![r].step = "done", ![r].loaded = NoRow, ![r].new = NoRow]
    /\ UNCHANGED <<db, arrived>>

OrderStep(r) ==
    \/ \E o \in Orders :
         \/ \E ls \in NewKeys(Labors), cs \in NewKeys(Costs) :
              \E labor \in [ls -> LaborCreate], costs \in [cs -> Overheads] :
                 CreateOrder(o, labor, costs)
         \/ StartOrder(r, o) \/ CancelOrder(r, o) \/ CompleteOrder(r, o)
    \/ \E k \in NextOf(Outputs) : FlushCompleted(r, k)

LineStep(r) ==
    \/ \E o \in Orders :
         \/ \E l \in NextOf(Labors), body \in LaborCreate : AddLabor(r, o, l, body)
         \/ \E c \in NextOf(Costs), amount \in Overheads : AddCost(r, o, c, amount)
    \/ FlushOrder(r)

-----------------------------------------------------------------------------
(* Properties.                                                             *)

OutputsOf(o) == {k \in Outputs : db[k] # NoRow /\ db[k].order = o}

\* Requests on one order are not kept apart by locks, but by the attributes they
\* write: a line of labour or a cost that is added while the order is started,
\* cancelled or completed leaves the status that the other request set, and that
\* request leaves the buckets as the line left them.
StatusAndCostsApart ==
    [][\A r \in Requests, o \in Orders :
         Committing(r) /\ job[r].key = o =>
            /\ job[r].op \in {"labor", "cost"} => db'[o].status = db[o].status
            /\ job[r].op \in {"start", "cancel", "complete"} =>
                 db'[o].labor = db[o].labor /\ db'[o].other = db[o].other
      ]_sessionVars

\* "Reload children and recompute the three cost buckets on the header": when a line
\* has been added, the buckets are the sums of the lines.  The code does not keep
\* it: the collections were loaded before the line was inserted.
LinesRecomputed ==
    [][\A r \in Requests, o \in Orders :
         Committing(r) /\ job[r].key = o /\ job[r].op \in {"labor", "cost"} =>
            (db[o].labor = LaborTotal(o) /\ db[o].other = CostTotal(o))'
      ]_sessionVars

\* "planned -> in_progress -> completed | cancelled": an order ends once, with one
\* output or with none.  The code does not keep it: two requests that overlap read
\* the same in_progress.
OrdersEndOnce ==
    \A o \in Orders : db[o] # NoRow =>
        Cardinality(OutputsOf(o)) + (IF db[o].status = "cancelled" THEN 1 ELSE 0) <= 1
=============================================================================
