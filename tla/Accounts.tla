------------------------------ MODULE Accounts ------------------------------
(***************************************************************************)
(* Money accounts of the transactions module, as concurrent requests over  *)
(* one PostgreSQL database (app/services/transaction_service.py and        *)
(* app/repositories/transaction_repo.py).                                  *)
(*                                                                         *)
(* Every HTTP request has a database session of its own.  status, opening, *)
(* balance, ledger and transfers are the committed rows; held, view and    *)
(* posted are what one session has done and not yet committed: the rows it *)
(* locked with SELECT ... FOR UPDATE (or by an UPDATE), the values of its  *)
(* ORM objects, and the ledger rows it inserted.  COMMIT publishes them in *)
(* one step; an exception or a lost connection discards them.              *)
(*                                                                         *)
(* Names and other descriptive columns are left out: no balance depends on *)
(* them.  Amounts are in cents.                                            *)
(***************************************************************************)
EXTENDS Integers, Sequences, FiniteSets, Functions

CONSTANTS
    Accounts,      \* primary keys of the accounts table
    Requests,      \* sessions that can be open at the same time
    TransferIds,   \* primary keys the transfers sequence can hand out
    NoTransfer,    \* reference_id of a ledger row that is not a transfer's
    Amounts,       \* amounts a request may carry
    Openings,      \* opening balances a request may carry
    HookTypes,     \* transaction types the callers of the internal hook post
    MaxRows        \* bound: ledger rows per account

\* AccountCreate and TransferCreate (schemas/transaction.py) bound the amounts:
\* opening_balance >= 0 and amount > 0.  A table has finitely many rows.
ASSUME AccountsAssumption ==
    /\ IsFiniteSet(Accounts)
    /\ Amounts \subseteq Nat \ {0}
    /\ Openings \subseteq Nat
    /\ HookTypes \subseteq {"debit", "credit"}
    /\ NoTransfer \notin TransferIds
    /\ MaxRows \in Nat

VARIABLES
    status,      \* committed: "absent", "active" or "inactive" (is_active)
    opening,     \* committed: opening_balance
    balance,     \* committed: current_balance
    ledger,      \* committed: the account's Transaction rows, oldest first
    transfers,   \* committed: Transfer rows
    pc,          \* session: the next step of its request
    job,         \* session: what was asked
    held,        \* session: account rows it has locked
    view,        \* session: current_balance of its ORM objects
    posted       \* session: ledger row it has inserted for an account

dbVars == <<status, opening, balance, ledger, transfers>>
sessionVars == <<pc, job, held, view, posted>>
vars == <<status, opening, balance, ledger, transfers, pc, job, held, view, posted>>

-----------------------------------------------------------------------------
(* Rows and requests.                                                      *)

Row == [type : {"debit", "credit"}, amount : Nat, after : Int,
        ref : TransferIds \cup {NoTransfer}]

NoRow == [type |-> "none", amount |-> 0, after |-> 0, ref |-> NoTransfer]

Transfer == [id : TransferIds, from : Accounts, to : Accounts, amount : Nat]

\* What the schemas and callers let a request ask for.
Job == {j \in [op : {"transfer", "debit", "credit", "create", "deactivate", "update"},
                from : Accounts, to : Accounts, amount : Nat,
                id : TransferIds \cup {NoTransfer}] :
          /\ j.op = "transfer" => /\ j.from # j.to
                                  /\ j.amount \in Amounts
                                  /\ j.id \in TransferIds
          /\ j.op # "transfer" => j.from = j.to /\ j.id = NoTransfer
          /\ j.op \in {"debit", "credit"} => j.amount \in Amounts
          /\ j.op = "create" => j.amount \in Openings}

NoJob == [op |-> "none"]

\* The contribution of a ledger row to the balance of its account.
Signed(row) == IF row.type = "credit" THEN row.amount ELSE - row.amount

Busy == {r \in Requests : pc[r] # "idle"}

\* No session holds the row lock of account a.
Free(a) == \A r \in Requests : a \notin held[r]

Wanted(r) == IF pc[r] = "lockTo" THEN job[r].to ELSE job[r].from

Waiting(r) == pc[r] \in {"lockFrom", "lockTo", "flush"} /\ ~Free(Wanted(r))

\* The session that r waits for.
Blocker(r) == CHOOSE s \in Requests : Wanted(r) \in held[s]

\* Bounds of the model: room for the rows and the transfer of one more request.
HasRoom(a) == Len(ledger[a]) + Cardinality(Busy) < MaxRows

UsedIds == {t.id : t \in transfers} \cup {job[r].id : r \in Busy}

-----------------------------------------------------------------------------
(* The end of a session: its locks, objects and inserted rows are gone.    *)

\* Seeded fault: get_db returns the connection to the pool with its locks.
EndSessionKeepingLocks(r) ==
    /\ pc' = [pc EXCEPT ![r] = "idle"]
    /\ view' = [view EXCEPT ![r] = [a \in Accounts |-> 0]]
    /\ posted' = [posted EXCEPT ![r] = [a \in Accounts |-> NoRow]]
    /\ job' = [job EXCEPT ![r] = NoJob]
    /\ UNCHANGED held

EndSession(r) ==
    /\ pc' = [pc EXCEPT ![r] = "idle"]
    /\ held' = [held EXCEPT ![r] = {}]
    /\ view' = [view EXCEPT ![r] = [a \in Accounts |-> 0]]
    /\ posted' = [posted EXCEPT ![r] = [a \in Accounts |-> NoRow]]
    /\ job' = [job EXCEPT ![r] = NoJob]

\* An exception leaves the handler: the session is closed without a commit.
Abort(r) == EndSession(r) /\ UNCHANGED dbVars

Goto(r, step) == pc' = [pc EXCEPT ![r] = step]

-----------------------------------------------------------------------------
(* Requests arrive.                                                        *)

Begin(r, step, op, from, to, amount, id) ==
    /\ pc[r] = "idle"
    /\ Goto(r, step)
    /\ job' = [job EXCEPT ![r] = [op |-> op, from |-> from, to |-> to,
                                  amount |-> amount, id |-> id]]
    /\ UNCHANGED <<dbVars, held, view, posted>>

\* POST /transfers.  The schema rejects a transfer to the same account.
CreateTransfer(r, from, to, amount, id) ==
    /\ from # to
    /\ id \notin UsedIds
    /\ HasRoom(from) /\ HasRoom(to)
    /\ Begin(r, "lockFrom", "transfer", from, to, amount, id)

\* The hook other services call inside their own request.
RecordAccountTransaction(r, a, type, amount) ==
    /\ type \in HookTypes
    /\ HasRoom(a)
    /\ Begin(r, IF type = "debit" THEN "lockFrom" ELSE "lockTo",
             type, a, a, amount, NoTransfer)

\* POST /accounts.  The INSERT takes a key no other session has taken.
CreateAccount(r, a, amount) ==
    /\ status[a] = "absent"
    /\ \A s \in Busy : job[s].op = "create" => job[s].from # a
    /\ Begin(r, "commit", "create", a, a, amount, NoTransfer)

\* DELETE /accounts/{id} and PATCH /accounts/{id} first read the row, unlocked.
DeactivateAccount(r, a) == Begin(r, "read", "deactivate", a, a, 0, NoTransfer)

UpdateAccount(r, a) == Begin(r, "read", "update", a, a, 0, NoTransfer)

-----------------------------------------------------------------------------
(* The steps of a request.                                                 *)

\* Seeded fault: the SELECT without FOR UPDATE.
GetWithoutWaiting(r, a, next) ==
    /\ status[a] = "active"
    /\ held' = [held EXCEPT ![r] = @ \cup {a}]
    /\ view' = [view EXCEPT ![r][a] = balance[a]]
    /\ Goto(r, next)
    /\ UNCHANGED <<dbVars, job, posted>>

\* get_with_lock: SELECT ... FOR UPDATE waits for the row lock, then reads the
\* committed row into a new ORM object; _active_account_or_404 checks it.
GetWithLock(r, a, next) ==
    /\ Free(a)
    /\ \/ /\ status[a] = "active"
          /\ held' = [held EXCEPT ![r] = @ \cup {a}]
          /\ view' = [view EXCEPT ![r][a] = balance[a]]
          /\ Goto(r, next)
          /\ UNCHANGED <<dbVars, job, posted>>
       \/ /\ status[a] # "active"
          /\ Abort(r)

LockFrom(r) ==
    /\ pc[r] = "lockFrom"
    /\ GetWithLock(r, job[r].from,
                   IF job[r].op = "transfer" THEN "lockTo" ELSE "debit")

LockTo(r) ==
    /\ pc[r] = "lockTo"
    /\ GetWithLock(r, job[r].to,
                   IF job[r].op = "transfer" THEN "debit" ELSE "credit")

\* Seeded fault: the signed delta is recorded as the amount.
PostSignedRow(r, a, type, newBalance) ==
    /\ view' = [view EXCEPT ![r][a] = newBalance]
    /\ posted' = [posted EXCEPT ![r][a] =
                     [type |-> type, amount |-> newBalance - view[r][a],
                      after |-> newBalance, ref |-> job[r].id]]

\* apply_balance_delta and TransactionRepository.record: the new balance goes
\* into the object and, as balance_after, into the row.
PostRow(r, a, type, newBalance) ==
    /\ view' = [view EXCEPT ![r][a] = newBalance]
    /\ posted' = [posted EXCEPT ![r][a] =
                     [type |-> type, amount |-> job[r].amount,
                      after |-> newBalance, ref |-> job[r].id]]

\* Seeded fault: no balance check.
DebitUnchecked(r) ==
    LET a == job[r].from IN
    /\ pc[r] = "debit"
    /\ PostRow(r, a, "debit", view[r][a] - job[r].amount)
    /\ Goto(r, IF job[r].op = "transfer" THEN "credit" ELSE "commit")
    /\ UNCHANGED <<dbVars, job, held>>

\* Seeded fault: the second leg of a transfer is forgotten.
DebitOnly(r) ==
    LET a == job[r].from IN
    /\ pc[r] = "debit"
    /\ view[r][a] >= job[r].amount
    /\ PostRow(r, a, "debit", view[r][a] - job[r].amount)
    /\ Goto(r, "commit")
    /\ UNCHANGED <<dbVars, job, held>>

DebitAccount(r) ==
    LET a == job[r].from IN
    /\ pc[r] = "debit"
    /\ \/ /\ view[r][a] >= job[r].amount
          /\ PostRow(r, a, "debit", view[r][a] - job[r].amount)
          /\ Goto(r, IF job[r].op = "transfer" THEN "credit" ELSE "commit")
          /\ UNCHANGED <<dbVars, job, held>>
       \/ /\ view[r][a] < job[r].amount        \* "Insufficient balance"
          /\ Abort(r)

\* Seeded fault: the credit starts from the balance of the source account.
CreditFromSource(r) ==
    LET a == job[r].to IN
    /\ pc[r] = "credit"
    /\ PostRow(r, a, "credit", view[r][job[r].from] + job[r].amount)
    /\ Goto(r, "commit")
    /\ UNCHANGED <<dbVars, job, held>>

CreditAccount(r) ==
    LET a == job[r].to IN
    /\ pc[r] = "credit"
    /\ PostRow(r, a, "credit", view[r][a] + job[r].amount)
    /\ Goto(r, "commit")
    /\ UNCHANGED <<dbVars, job, held>>

\* deactivate_account and update_account: get_or_404 and the checks, without a
\* lock on the row.
ReadAccount(r) ==
    LET a == job[r].from
        refused == \/ status[a] # "active"
                   \/ job[r].op = "deactivate" /\ balance[a] # 0
    IN
    /\ pc[r] = "read"
    /\ \/ /\ ~refused
          /\ Goto(r, "flush")
          /\ UNCHANGED <<dbVars, job, held, view, posted>>
       \/ /\ refused
          /\ Abort(r)

\* Seeded fault: the UPDATE does not wait for the row lock.
FlushWithoutWaiting(r) ==
    LET a == job[r].from IN
    /\ pc[r] = "flush"
    /\ held' = [held EXCEPT ![r] = @ \cup {a}]
    /\ Goto(r, "commit")
    /\ UNCHANGED <<dbVars, job, view, posted>>

\* Their UPDATE waits for the row lock and holds it until the commit.  It sets
\* the columns the patch names and no other: never current_balance.
FlushAccount(r) ==
    LET a == job[r].from IN
    /\ pc[r] = "flush"
    /\ Free(a)
    /\ held' = [held EXCEPT ![r] = @ \cup {a}]
    /\ Goto(r, "commit")
    /\ UNCHANGED <<dbVars, job, view, posted>>

\* await db.commit() in the endpoint: everything the session wrote becomes
\* visible at once and its locks are released.
Commit(r) ==
    LET j == job[r]
        wrote(a) == posted[r][a] # NoRow
        created(a) == j.op = "create" /\ j.from = a
    IN
    /\ pc[r] = "commit"
    /\ status' = [a \in Accounts |->
                     IF created(a) THEN "active"
                     ELSE IF j.op = "deactivate" /\ j.from = a THEN "inactive"
                     ELSE status[a]]
    /\ opening' = [a \in Accounts |-> IF created(a) THEN j.amount ELSE opening[a]]
    /\ balance' = [a \in Accounts |-> IF created(a) THEN j.amount
                                      ELSE IF wrote(a) THEN view[r][a]
                                      ELSE balance[a]]
    /\ ledger' = [a \in Accounts |-> IF wrote(a) THEN Append(ledger[a], posted[r][a])
                                     ELSE ledger[a]]
    /\ transfers' = transfers \cup
                      IF j.op = "transfer"
                      THEN {[id |-> j.id, from |-> j.from, to |-> j.to,
                             amount |-> j.amount]}
                      ELSE {}
    /\ EndSession(r)

\* The connection or the process is lost before the commit.
Rollback(r) == pc[r] # "idle" /\ Abort(r)

\* PostgreSQL aborts one session of a cycle of waiting sessions.
OnCycle(r) == \E S \in SUBSET {s \in Requests : Waiting(s)} :
                 r \in S /\ S = {Blocker(s) : s \in S}

DeadlockAbort(r) == OnCycle(r) /\ Abort(r)

-----------------------------------------------------------------------------
Init ==
    /\ status = [a \in Accounts |-> "absent"]
    /\ opening = [a \in Accounts |-> 0]
    /\ balance = [a \in Accounts |-> 0]
    /\ ledger = [a \in Accounts |-> <<>>]
    /\ transfers = {}
    /\ pc = [r \in Requests |-> "idle"]
    /\ job = [r \in Requests |-> NoJob]
    /\ held = [r \in Requests |-> {}]
    /\ view = [r \in Requests |-> [a \in Accounts |-> 0]]
    /\ posted = [r \in Requests |-> [a \in Accounts |-> NoRow]]

Arrive(r) ==
    \/ \E from, to \in Accounts, m \in Amounts, id \in TransferIds :
          CreateTransfer(r, from, to, m, id)
    \/ \E a \in Accounts, t \in HookTypes, m \in Amounts :
          RecordAccountTransaction(r, a, t, m)
    \/ \E a \in Accounts, m \in Openings : CreateAccount(r, a, m)
    \/ \E a \in Accounts : DeactivateAccount(r, a)
    \/ \E a \in Accounts : UpdateAccount(r, a)

Step(r) ==
    \/ LockFrom(r) \/ LockTo(r)
    \/ DebitAccount(r) \/ CreditAccount(r)
    \/ ReadAccount(r) \/ FlushAccount(r)
    \/ Commit(r)

Next == \E r \in Requests :
            Arrive(r) \/ Step(r) \/ Rollback(r) \/ DeadlockAbort(r)

Spec == Init /\ [][Next]_vars

\* A handler runs on; PostgreSQL grants a row lock in the order of its queue, so
\* a session whose lock becomes free again and again gets it (strong fairness);
\* the deadlock detector fires.  Clients need not send anything, and nothing
\* makes a connection fail.
Fairness == \A r \in Requests :
    /\ WF_vars(DebitAccount(r) \/ CreditAccount(r) \/ ReadAccount(r) \/ Commit(r))
    /\ SF_vars(LockFrom(r) \/ LockTo(r) \/ FlushAccount(r))
    /\ WF_vars(DeadlockAbort(r))

FairSpec == Spec /\ Fairness

-----------------------------------------------------------------------------
(* Properties.                                                             *)

\* Every variable has its type; balances are integers, so that an overdraft is
\* a violation of NoOverdraft and not of this.
TypeOK ==
    /\ status \in [Accounts -> {"absent", "active", "inactive"}]
    /\ opening \in [Accounts -> Nat]
    /\ balance \in [Accounts -> Int]
    /\ ledger \in [Accounts -> Seq(Row)]
    /\ transfers \subseteq Transfer
    /\ pc \in [Requests -> {"idle", "lockFrom", "lockTo", "debit", "credit",
                           "read", "flush", "commit"}]
    /\ job \in [Requests -> Job \cup {NoJob}]
    /\ \A r \in Requests : pc[r] # "idle" <=> job[r] \in Job
    /\ held \in [Requests -> SUBSET Accounts]
    /\ view \in [Requests -> [Accounts -> Int]]
    /\ posted \in [Requests -> [Accounts -> Row \cup {NoRow}]]

\* The operations a session can be in the middle of, step by step.
StepOK(r) ==
    /\ pc[r] = "lockFrom" => job[r].op \in {"transfer", "debit"}
    /\ pc[r] = "lockTo" => job[r].op \in {"transfer", "credit"}
    /\ pc[r] = "debit" => job[r].op \in {"transfer", "debit"}
    /\ pc[r] = "credit" => job[r].op \in {"transfer", "credit"}
    /\ pc[r] \in {"read", "flush"} => job[r].op \in {"deactivate", "update"}

\* The rows session r must have locked where it is now.
MustHold(r) ==
    {a \in Accounts :
        \/ pc[r] = "lockTo" /\ job[r].op = "transfer" /\ a = job[r].from
        \/ pc[r] \in {"debit", "credit"} /\ a \in {job[r].from, job[r].to}
        \/ pc[r] = "commit" /\ job[r].op # "create" /\ a \in {job[r].from, job[r].to}}

MoneyOp(r) == job[r].op \in {"transfer", "debit", "credit"}

Debited(r, a) == /\ pc[r] \in {"credit", "commit"}
                 /\ job[r].op \in {"transfer", "debit"}
                 /\ a = job[r].from

Credited(r, a) == /\ pc[r] = "commit"
                  /\ job[r].op \in {"transfer", "credit"}
                  /\ a = job[r].to

\* The value an object must have: the COMMITTED balance, plus what the session
\* itself has posted.
MustSee(r, a) ==
    IF Debited(r, a) THEN balance[a] - job[r].amount
    ELSE IF Credited(r, a) THEN balance[a] + job[r].amount
    ELSE balance[a]

MustPost(r, a) ==
    IF Debited(r, a) \/ Credited(r, a)
    THEN [type |-> IF Debited(r, a) THEN "debit" ELSE "credit",
          amount |-> job[r].amount, after |-> MustSee(r, a), ref |-> job[r].id]
    ELSE NoRow

\* Where session r is in its request: what it has locked and inserted is what it
\* must have; a locked account of a money operation is still active and its
\* object still shows the committed balance; an account being created does not
\* exist yet and one being updated does.
SessionOK(r) ==
    /\ StepOK(r)
    /\ held[r] = MustHold(r)
    /\ \A a \in Accounts : posted[r][a] = MustPost(r, a)
    /\ MoneyOp(r) => \A a \in held[r] :
         /\ status[a] = "active"
         /\ view[r][a] = MustSee(r, a)
         /\ Debited(r, a) => MustSee(r, a) >= 0
    /\ job[r].op = "create" => pc[r] = "commit" /\ status[job[r].from] = "absent"
    /\ job[r].op \in {"deactivate", "update"} /\ pc[r] \in {"flush", "commit"} =>
         status[job[r].from] # "absent"

LocksExclusive == \A r, s \in Requests : r # s => held[r] \cap held[s] = {}

\* No two open requests create the same row, and none a row that is there.
KeysDistinct ==
    /\ \A r, s \in Requests : r # s =>
         /\ job[r].op = "create" /\ job[s].op = "create" => job[r].from # job[s].from
         /\ job[r].op = "transfer" /\ job[s].op = "transfer" => job[r].id # job[s].id
    /\ \A r \in Requests : job[r].op = "transfer" =>
         \A t \in transfers : t.id # job[r].id

\* The argument for SELECT ... FOR UPDATE ("Uses SELECT FOR UPDATE to prevent
\* concurrent balance races"), made precise: while a session holds a row lock
\* nothing it has read of the row can have changed.
SessionInv ==
    /\ LocksExclusive
    /\ KeysDistinct
    /\ \A r \in Requests : SessionOK(r)

\* "Source balance must be sufficient (no overdraft)": however requests
\* interleave, no committed balance is negative (_debit_account checks the
\* balance of an object read before other sessions may have committed).
NoOverdraft == \A a \in Accounts : balance[a] >= 0

\* The balance before the i-th row of account a.
Before(a, i) == IF i = 1 THEN opening[a] ELSE ledger[a][i - 1].after

\* "current_balance ... is always kept in sync with recorded transactions": the
\* rows of an account chain from its opening balance to its current one, each
\* balance_after being the one before it plus the row's amount.  A lost update
\* by two sessions that read the same balance breaks the chain.
LedgerChain == \A a \in Accounts :
    /\ \A i \in 1 .. Len(ledger[a]) :
         ledger[a][i].after = Before(a, i) + Signed(ledger[a][i])
    /\ balance[a] = Before(a, Len(ledger[a]) + 1)

\* The rows of account a that carry the reference id.
RowsOf(a, id) == {i \in 1 .. Len(ledger[a]) : ledger[a][i].ref = id}

\* "Writes two Transaction rows (one per account) and one Transfer row": every
\* committed transfer has exactly its debit and its credit, and no row refers to
\* a transfer that did not commit.
TransferLegs ==
    /\ \A t \in transfers :
         /\ \E i \in RowsOf(t.from, t.id) :
              /\ RowsOf(t.from, t.id) = {i}
              /\ ledger[t.from][i].type = "debit"
              /\ ledger[t.from][i].amount = t.amount
         /\ \E i \in RowsOf(t.to, t.id) :
              /\ RowsOf(t.to, t.id) = {i}
              /\ ledger[t.to][i].type = "credit"
              /\ ledger[t.to][i].amount = t.amount
    /\ \A a \in Accounts, id \in TransferIds :
         RowsOf(a, id) # {} => \E t \in transfers : t.id = id /\ a \in {t.from, t.to}

\* What the rows of a ledger brought in from outside: the credits of the internal
\* hook, less its debits.
Outside(rows) ==
    [i \in 1 .. Len(rows) |-> IF rows[i].ref = NoTransfer THEN Signed(rows[i]) ELSE 0]

External(a) == opening[a] + SumFunction(Outside(ledger[a]))

\* Transfers conserve money: all balances together are what came in from outside
\* (create_transfer debits one account and credits another by the same amount).
Conservation ==
    SumFunction(balance) = SumFunction([a \in Accounts |-> External(a)])

\* "Transfer remaining funds first": an account leaves service only with a zero
\* balance.  deactivate_account reads the balance without a lock, so this does
\* NOT hold.
CloseOnlyAtZero ==
    [][\A a \in Accounts :
         status[a] = "active" /\ status'[a] = "inactive" => balance'[a] = 0]_vars

\* Every request comes to an end, committed or aborted: transfers in opposite
\* directions may wait for each other, but not for ever.
RequestsEnd == \A r \in Requests : pc[r] # "idle" ~> pc[r] = "idle"

\* The committed rows behave as the abstract bank.
Bank == INSTANCE AbstractBank

BankSpec == Bank!Spec
=============================================================================
