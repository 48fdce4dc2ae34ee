------------------------------- MODULE Payroll -------------------------------
(***************************************************************************)
(* Staff, advances and salaries, composed with the production orders whose *)
(* labour lines the per-unit staff is paid for:                            *)
(* app/services/staff_service.py.                                          *)
(*                                                                         *)
(* Nothing here is locked before it is read.  The account or ledger that a *)
(* payment debits is the subject of Accounts, so an account without funds  *)
(* is a Rollback here.  Attendance, salary structures and the items of a   *)
(* member of staff, which no payment looks at, are left out.               *)
(***************************************************************************)
EXTENDS Production, SequencesExt

CONSTANTS
    Advances,   \* primary keys of the advances table
    Payments,   \* primary keys of the staff_payments table
    Months,     \* payroll months
    Loans,      \* amounts of an advance
    Salaries,   \* gross amounts of a payment
    Extras      \* total_allowances less total_deductions

ASSUME PayrollAssumption ==
    /\ Months \subseteq Nat /\ Extras \subseteq Int
    /\ Loans \subseteq Nat \ {0} /\ Salaries \subseteq Nat \ {0}
    /\ IsFiniteSet(Labors) /\ IsFiniteSet(Costs)
    /\ IsFiniteSet(Advances) /\ IsFiniteSet(Payments)

PayrollKeys == Orders \cup Labors \cup Costs \cup Outputs \cup Staff \cup Advances \cup Payments

-----------------------------------------------------------------------------
(* Rows.                                                                   *)

CompensationType == {"salary_based", "per_unit"}

Employee == [compensation_type : CompensationType, active : BOOLEAN]

Advance == [staff : Staff, amount : Loans, month : Months, deducted : BOOLEAN]

\* A payment with its payment_labor_entries: the amount for each line of labour, 0
\* where there is no entry.
StaffPayment ==
    [staff : Staff, compensation_type : CompensationType, month : Months, gross : Salaries,
     advance_deduction : Nat, entries : [Labors -> Nat]]

\* Keys are of one table each.
ASSUME PayrollTablesAssumption ==
    LET tables == <<Orders, Labors, Costs, Outputs, Staff, Advances, Payments>> IN
    /\ \A i, j \in 1 .. 7 : i # j => tables[i] \cap tables[j] = {}
    /\ NoKey \notin PayrollKeys
    /\ NoRow \notin ProductionOrder \cup ProductionLabor \cup ProductionCost
    /\ NoRow \notin ProductionOutput \cup Employee \cup Advance \cup StaffPayment

\* The bodies of the requests.
StaffCreate == [compensation_type : CompensationType]

StaffUpdate == [compensation_type : CompensationType]

AdvanceCreate == [amount : Loans, month : Months]

StaffPaymentCreate == [month : Months, gross : Salaries, extra : Extras]

ActiveStaff(s) == db[s] # NoRow /\ db[s].active

PaymentRows == {p \in Payments : db[p] # NoRow}

\* get_for_month; it raises when there are several, which refuses too.
PaymentsFor(s, month) == {p \in PaymentRows : db[p].staff = s /\ db[p].month = month}

-----------------------------------------------------------------------------
(* Staff.                                                                  *)

\* create_staff: nobody else can see the new row before it is committed.
CreateStaff(s, body) ==
    /\ db[s] = NoRow
    /\ db' = [db EXCEPT ![s] = [compensation_type |-> body.compensation_type, active |-> TRUE]]
    /\ UNCHANGED <<job, mine, held, arrived>>

UpdateStaff(r, s, body) ==
    /\ ActiveStaff(s)
    /\ Begin(r, [Job("updateStaff", s) EXCEPT
          !.step = "write", !.loaded = db[s],
          !.new = [db[s] EXCEPT !.compensation_type = body.compensation_type]])
    /\ UNCHANGED <<db, mine, held>>

DeactivateStaff(r, s) ==
    /\ ActiveStaff(s)
    /\ Begin(r, [Job("deactivate", s) EXCEPT
          !.step = "write", !.loaded = db[s], !.new = [db[s] EXCEPT !.active = FALSE]])
    /\ UNCHANGED <<db, mine, held>>

\* The flush; update_staff then reads the row again and refuses it (a Rollback) when
\* it is no longer active.
FlushStaff(r) ==
    LET s == job[r].key
        row == Flushed(db[s], job[r].loaded, job[r].new)
    IN
    /\ s \in Staff /\ job[r].op # "disburse" /\ job[r].step = "write"
    /\ job[r].op = "updateStaff" => row.active
    /\ IF job[r].new = job[r].loaded THEN UNCHANGED <<mine, held>>
       ELSE Free(r, s) /\ Write(r, s, row)
    /\ job' = [job EXCEPT ![r].step = "done", ![r].loaded = NoRow, ![r].new = NoRow]
    /\ UNCHANGED <<db, arrived>>

\* AdvanceRepository.create.
NewAdvance(s, body) ==
    [staff |-> s, amount |-> body.amount, month |-> body.month, deducted |-> FALSE]

GiveAdvance(r, s, a, body) ==
    /\ ActiveStaff(s)
    /\ Begin(r, Job("advance", a))
    /\ Insert(r, a, NewAdvance(s, body))
    /\ UNCHANGED <<db, held>>

-----------------------------------------------------------------------------
(* What a line of labour has been paid, and what a payment pays of it.     *)

PaidFor(l) == SumFunction([p \in PaymentRows |-> db[p].entries[l]])

Remaining(l) == db[l].total_cost - PaidFor(l)

Left(lines) == SumFunction([l \in lines |-> Remaining(l)])

\* Seeded fault: the lines of an order count before it is completed.
UnpaidAnyStatus(s) ==
    {l \in Labors : db[l] # NoRow /\ db[l].staff = s /\ Remaining(l) > 0}

\* list_unpaid_labor.
Unpaid(s) ==
    {l \in Labors : /\ db[l] # NoRow /\ db[l].staff = s /\ Remaining(l) > 0
                    /\ db[db[l].order].status = "completed"}

\* get_unpaid_earnings: what is left of the lines that have been paid in part, and
\* what has been earned since.
UnpaidEarnings(s) ==
    LET carried == {l \in Unpaid(s) : Remaining(l) < db[l].total_cost} IN
    [carry_forward |-> Left(carried), new_earnings |-> Left(Unpaid(s) \ carried)]

\* What the report calls due.
TotalDue(s) == UnpaidEarnings(s).carry_forward + UnpaidEarnings(s).new_earnings

\* Seeded fault: every line is paid in full, whatever the payment.
FifoUnlimited(queue, gross) ==
    [l \in Labors |-> IF l \in ToSet(queue) THEN Remaining(l) ELSE 0]

\* Seeded fault: the first line takes it all.
FifoFirst(queue, gross) ==
    [l \in Labors |-> IF queue # <<>> /\ l = Head(queue) THEN gross ELSE 0]

\* Seeded fault: the loop goes on when the budget is used up.
FifoWithoutBreak(queue, gross) ==
    [l \in Labors |->
        IF l \notin ToSet(queue) THEN 0
        ELSE LET i == CHOOSE i \in DOMAIN queue : queue[i] = l
             IN Min({gross - Left({queue[j] : j \in 1 .. i - 1}), Remaining(l)})]

\* The allocation over the unpaid lines in their order: each takes what is left of
\* the payment, up to its remaining amount.
Fifo(queue, gross) ==
    [l \in Labors |->
        IF l \notin ToSet(queue) THEN 0
        ELSE LET i == CHOOSE i \in DOMAIN queue : queue[i] = l
                 budget == gross - Left({queue[j] : j \in 1 .. i - 1})
             IN IF budget <= 0 THEN 0 ELSE Min({budget, Remaining(l)})]

-----------------------------------------------------------------------------
(* Payments.                                                               *)

\* disburse_salary, up to the check of the amount.  The lines are sorted by the end
\* date of their orders, which stands for any order here.  loaded: what the
\* handler has read of the lines.
DisburseSalary(r, s, body) ==
    LET piecework == db[s].compensation_type = "per_unit"
        unpaid == IF piecework THEN Unpaid(s) ELSE {}
    IN
    /\ ActiveStaff(s)
    /\ IF piecework
       THEN body.gross <= Left(unpaid)
       ELSE PaymentsFor(s, body.month) = {}
    /\ \E queue \in SetToSeqs(unpaid) :
         Begin(r, [Job("disburse", s) EXCEPT
                     !.step = "advances", !.amount = body.extra,
                     !.loaded = [l \in Labors |-> IF l \in unpaid THEN Remaining(l) ELSE 0],
                     !.new = [staff |-> s, compensation_type |-> db[s].compensation_type,
                              month |-> body.month, gross |-> body.gross,
                              advance_deduction |-> 0,
                              entries |-> Fifo(queue, body.gross)]])
    /\ UNCHANGED <<db, mine, held>>

\* get_pending_up_to_month for per-unit staff, get_pending_for_month for the others.
Pending(payment) ==
    {a \in Advances :
        /\ db[a] # NoRow /\ db[a].staff = payment.staff /\ ~db[a].deducted
        /\ IF payment.compensation_type = "per_unit" THEN db[a].month <= payment.month
           ELSE db[a].month = payment.month}

\* The advances are read, and the payment and its entries are inserted.
InsertPayment(r, p) ==
    LET payment == job[r].new
        pending == Pending(payment)
        total == SumFunction([a \in pending |-> db[a].amount])
    IN
    /\ At(r, "disburse", "advances")
    /\ payment.gross + job[r].amount - total >= 0
    /\ Insert(r, p, [payment EXCEPT !.advance_deduction = total])
    /\ job' = [job EXCEPT ![r].step = "done", ![r].new = NoRow, ![r].amount = 0,
                          ![r].dues = SetToSeq(pending)]
    /\ UNCHANGED <<db, held, arrived>>

\* Seeded fault: UPDATE advances SET is_deducted of all that is pending by now.
MarkAllDeducted(r) ==
    LET p == CHOOSE p \in Payments : mine[r][p] # NoRow
        all == Pending(mine[r][p])
    IN
    /\ job[r].dues # <<>>
    /\ \A a \in all : Free(r, a)
    /\ mine' = [mine EXCEPT ![r] = [k \in DOMAIN @ |->
                    IF k \in all THEN [db[k] EXCEPT !.deducted = TRUE] ELSE @[k]]]
    /\ held' = [held EXCEPT ![r] = @ \cup all]
    /\ job' = [job EXCEPT ![r].dues = <<>>]
    /\ UNCHANGED <<db, arrived>>

\* mark_deducted: it waits for the row, and does not look at it again.
MarkDeducted(r) ==
    LET a == Head(job[r].dues) IN
    /\ job[r].dues # <<>>
    /\ Free(r, a)
    /\ Write(r, a, [db[a] EXCEPT !.deducted = TRUE])
    /\ job' = [job EXCEPT ![r].dues = Tail(@)]
    /\ UNCHANGED <<db, arrived>>

-----------------------------------------------------------------------------
(* The whole.                                                              *)

PayrollInit == SessionInit(PayrollKeys)

StaffStep(r) ==
    \/ \E s \in Staff :
         \/ \E body \in StaffCreate : CreateStaff(s, body)
         \/ \E body \in StaffUpdate : UpdateStaff(r, s, body)
         \/ DeactivateStaff(r, s)
         \/ \E a \in NextOf(Advances), body \in AdvanceCreate : GiveAdvance(r, s, a, body)
    \/ FlushStaff(r)

PaymentStep(r) ==
    \/ \E s \in Staff, body \in StaffPaymentCreate : DisburseSalary(r, s, body)
    \/ \E p \in NextOf(Payments) : InsertPayment(r, p)
    \/ MarkDeducted(r)

PayrollNext ==
    \E r \in Requests : OrderStep(r) \/ LineStep(r) \/ StaffStep(r) \/ PaymentStep(r)
                        \/ Commit(r) \/ Rollback(r)

PayrollSpec == PayrollInit /\ [][PayrollNext]_sessionVars

-----------------------------------------------------------------------------
(* Properties.                                                             *)

PayrollTypeOK ==
    /\ SessionTypeOK(ProductionOrder \cup ProductionLabor \cup ProductionCost
                     \cup ProductionOutput \cup Employee \cup Advance \cup StaffPayment)
    /\ \A r \in Requests : At(r, "disburse", "done") => job[r].loaded \in [Labors -> Nat]

TakenFrom(s) == {a \in Advances : db[a] # NoRow /\ db[a].staff = s /\ db[a].deducted}

PaidTo(s) == {p \in PaymentRows : db[p].staff = s}

\* An advance that is marked as deducted was deducted: the payments of a member of
\* staff have taken back at least what their deducted advances came to, though
\* pending advances are read without a lock and two payments may read the same.
AdvancesTakenBack ==
    \A s \in Staff :
        SumFunction([a \in TakenFrom(s) |-> db[a].amount])
        <= SumFunction([p \in PaidTo(s) |-> db[p].advance_deduction])

\* "FIFO allocation of payment across unpaid labor entries": a payment of piecework
\* is for lines of labour of its own staff that add up to its gross amount.
PaymentsAllocated ==
    \A p \in PaymentRows :
        /\ SumFunction(db[p].entries)
             = IF db[p].compensation_type = "per_unit" THEN db[p].gross ELSE 0
        /\ \A l \in Labors : db[p].entries[l] > 0 => db[l].staff = db[p].staff

\* Only work on completed orders is paid: whatever has become of its status since,
\* the order of a line that was paid has yielded an output.
PaidWorkIsDone ==
    \A p \in PaymentRows, l \in Labors :
        db[p].entries[l] > 0 => OutputsOf(db[l].order) # {}

\* "Validates payment_amount <= remaining due_amount": a line of labour comes to be
\* paid more than it cost only by a payment that another one has overtaken, between
\* the SELECT of what is unpaid and the commit; and a payment for lines that are
\* still due lowers what get_unpaid_earnings reports by its gross amount.
OverpaidOnlyByRace ==
    [][/\ \A l \in Labors :
            db[l] # NoRow /\ Remaining(l) >= 0 /\ Remaining(l)' < 0 =>
               \E r \in Requests : /\ Committing(r) /\ job[r].op = "disburse"
                                   /\ job[r].loaded[l] # Remaining(l)
       /\ \A s \in Staff, p \in Payments :
            LET payment == db'[p] IN
            /\ db[p] = NoRow /\ payment # NoRow
            /\ payment.staff = s /\ payment.compensation_type = "per_unit"
            /\ \A l \in Labors : payment.entries[l] > 0 =>
                  l \in Unpaid(s) /\ payment.entries[l] <= Remaining(l)
            => TotalDue(s)' = TotalDue(s) - payment.gross
      ]_sessionVars

\* "One payment per staff per month/year (unique constraint enforced at DB level)":
\* a month's salary is paid once.  The code does not keep it: the constraint is
\* gone, and the month is looked up before another payment of it commits.
OneSalaryPerMonth ==
    \A p, q \in PaymentRows :
        /\ db[p].compensation_type = "salary_based" /\ db[q].compensation_type = "salary_based"
        /\ db[p].staff = db[q].staff /\ db[p].month = db[q].month
        => p = q

\* "Pending advances for the month auto-marked as deducted": an advance is taken back
\* once.  The code does not keep it: a payment does not look again at an advance
\* that it waited for.
AdvancesDeductedOnce ==
    \A s \in Staff :
        SumFunction([p \in PaidTo(s) |-> db[p].advance_deduction])
        <= SumFunction([a \in TakenFrom(s) |-> db[a].amount])

\* "Validates payment_amount (gross_salary field) <= remaining due_amount": no line of
\* labour is paid more than it came to.  The code does not keep it: two payments
\* that overlap are both checked against what was due before either.
NeverOverpaid == \A l \in Labors : db[l] # NoRow => Remaining(l) >= 0
=============================================================================
