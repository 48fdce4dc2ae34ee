--------------------------- MODULE AccountsProofs ---------------------------
(***************************************************************************)
(* Theorems about Accounts, for every set of accounts, requests, amounts   *)
(* and transfer ids.                                                       *)
(***************************************************************************)
EXTENDS Accounts, Sums

-----------------------------------------------------------------------------
(* Type correctness.                                                       *)

\* The empty job and the empty row are none of the real ones.
LEMMA NoJobIsNoJob == NoJob \notin Job
  BY DEF NoJob, Job

LEMMA NoRowIsNoRow == NoRow \notin Row
  BY DEF NoRow, Row

\* Ending a session keeps the types.
LEMMA AbortType ==
    ASSUME TypeOK, NEW r \in Requests, Abort(r)
    PROVE  TypeOK'
  BY NoJobIsNoJob DEF TypeOK, Abort, EndSession, dbVars

\* Starting a request keeps the types when the request is well-formed.
LEMMA BeginType ==
    ASSUME TypeOK, NEW r \in Requests,
           NEW step \in {"lockFrom", "lockTo", "read", "commit"},
           NEW op, NEW from, NEW to, NEW amount, NEW id,
           [op |-> op, from |-> from, to |-> to, amount |-> amount, id |-> id] \in Job,
           Begin(r, step, op, from, to, amount, id)
    PROVE  TypeOK'
  BY DEF TypeOK, Begin, Goto, dbVars

\* Locking a row and reading it keeps the types.
LEMMA GetWithLockType ==
    ASSUME TypeOK, NEW r \in Requests, NEW a \in Accounts,
           NEW next \in {"lockTo", "debit", "credit"},
           pc[r] # "idle", GetWithLock(r, a, next)
    PROVE  TypeOK'
  <1>1. CASE Abort(r)
    BY <1>1, AbortType
  <1>2. CASE /\ held' = [held EXCEPT ![r] = @ \cup {a}]
             /\ view' = [view EXCEPT ![r][a] = balance[a]]
             /\ Goto(r, next)
             /\ UNCHANGED <<dbVars, job, posted>>
    BY <1>2 DEF TypeOK, Goto, dbVars
  <1> QED
    BY <1>1, <1>2 DEF GetWithLock

\* Posting a row keeps the types of the session's objects and rows.
LEMMA PostRowType ==
    ASSUME TypeOK, NEW r \in Requests, NEW a \in Accounts, job[r] \in Job,
           NEW type \in {"debit", "credit"}, NEW newBalance \in Int,
           PostRow(r, a, type, newBalance)
    PROVE  /\ view' \in [Requests -> [Accounts -> Int]]
           /\ posted' \in [Requests -> [Accounts -> Row \cup {NoRow}]]
  <1>1. job[r].amount \in Nat /\ job[r].id \in TransferIds \cup {NoTransfer}
    BY DEF Job
  <1>2. [type |-> type, amount |-> job[r].amount, after |-> newBalance, ref |-> job[r].id]
           \in Row
    BY <1>1 DEF Row
  <1> QED
    BY <1>2 DEF PostRow, TypeOK

\* A step of the specification keeps the types.
LEMMA NextType ==
    ASSUME TypeOK, [Next]_vars
    PROVE  TypeOK'
  <1> USE AccountsAssumption
  <1>1. CASE UNCHANGED vars
    BY <1>1 DEF TypeOK, vars
  <1>2. ASSUME NEW r \in Requests, Arrive(r)
        PROVE  TypeOK'
    <2>1. ASSUME NEW from \in Accounts, NEW to \in Accounts, NEW m \in Amounts,
                 NEW id \in TransferIds, CreateTransfer(r, from, to, m, id)
          PROVE  TypeOK'
      BY <2>1, BeginType DEF CreateTransfer, Job
    <2>2. ASSUME NEW a \in Accounts, NEW t \in HookTypes, NEW m \in Amounts,
                 RecordAccountTransaction(r, a, t, m)
          PROVE  TypeOK'
      BY <2>2, BeginType DEF RecordAccountTransaction, Job
    <2>3. ASSUME NEW a \in Accounts, NEW m \in Openings, CreateAccount(r, a, m)
          PROVE  TypeOK'
      BY <2>3, BeginType DEF CreateAccount, Job
    <2>4. ASSUME NEW a \in Accounts, DeactivateAccount(r, a)
          PROVE  TypeOK'
      BY <2>4, BeginType DEF DeactivateAccount, Job
    <2>5. ASSUME NEW a \in Accounts, UpdateAccount(r, a)
          PROVE  TypeOK'
      BY <2>5, BeginType DEF UpdateAccount, Job
    <2> QED
      BY <1>2, <2>1, <2>2, <2>3, <2>4, <2>5 DEF Arrive
  <1>3. ASSUME NEW r \in Requests, Step(r)
        PROVE  TypeOK'
    <2>0. pc[r] # "idle"
      BY <1>3 DEF Step, LockFrom, LockTo, DebitAccount, CreditAccount, ReadAccount,
                  FlushAccount, Commit
    <2>1. job[r] \in Job
      BY <2>0 DEF TypeOK
    <2>2. /\ job[r].from \in Accounts /\ job[r].to \in Accounts
          /\ job[r].amount \in Nat /\ job[r].id \in TransferIds \cup {NoTransfer}
      BY <2>1 DEF Job
    <2>3. CASE LockFrom(r)
      BY <2>0, <2>2, <2>3, GetWithLockType DEF LockFrom
    <2>4. CASE LockTo(r)
      BY <2>0, <2>2, <2>4, GetWithLockType DEF LockTo
    <2>5. CASE DebitAccount(r)
      <3>1. CASE Abort(r)
        BY <3>1, AbortType
      <3>2. CASE /\ PostRow(r, job[r].from, "debit", view[r][job[r].from] - job[r].amount)
                 /\ Goto(r, IF job[r].op = "transfer" THEN "credit" ELSE "commit")
                 /\ UNCHANGED <<dbVars, job, held>>
        <4>1. view[r][job[r].from] - job[r].amount \in Int
          BY <2>2 DEF TypeOK
        <4>2. /\ view' \in [Requests -> [Accounts -> Int]]
              /\ posted' \in [Requests -> [Accounts -> Row \cup {NoRow}]]
          BY <2>1, <2>2, <3>2, <4>1, PostRowType
        <4> QED
          BY <2>0, <3>2, <4>2 DEF TypeOK, Goto, dbVars
      <3> QED
        BY <2>5, <3>1, <3>2 DEF DebitAccount
    <2>6. CASE CreditAccount(r)
      <3>1. view[r][job[r].to] + job[r].amount \in Int
        BY <2>2 DEF TypeOK
      <3>2. /\ view' \in [Requests -> [Accounts -> Int]]
            /\ posted' \in [Requests -> [Accounts -> Row \cup {NoRow}]]
        BY <2>1, <2>2, <2>6, <3>1, PostRowType DEF CreditAccount
      <3> QED
        BY <2>0, <2>6, <3>2 DEF CreditAccount, TypeOK, Goto, dbVars
    <2>7. CASE ReadAccount(r)
      <3>1. CASE Abort(r)
        BY <3>1, AbortType
      <3>2. CASE Goto(r, "flush") /\ UNCHANGED <<dbVars, job, held, view, posted>>
        BY <2>0, <3>2 DEF TypeOK, Goto, dbVars
      <3> QED
        BY <2>7, <3>1, <3>2 DEF ReadAccount
    <2>8. CASE FlushAccount(r)
      BY <2>0, <2>2, <2>8 DEF FlushAccount, TypeOK, Goto, dbVars
    <2>9. CASE Commit(r)
      <3>1. /\ status' \in [Accounts -> {"absent", "active", "inactive"}]
            /\ opening' \in [Accounts -> Nat]
            /\ balance' \in [Accounts -> Int]
        BY <2>2, <2>9 DEF Commit, TypeOK
      <3>2. ledger' \in [Accounts -> Seq(Row)]
        <4>1. ASSUME NEW a \in Accounts
              PROVE  (IF posted[r][a] # NoRow THEN Append(ledger[a], posted[r][a])
                                              ELSE ledger[a]) \in Seq(Row)
          <5>1. ledger[a] \in Seq(Row)
            BY DEF TypeOK
          <5>2. posted[r][a] \in Row \cup {NoRow}
            BY DEF TypeOK
          <5>3. ASSUME NEW s \in Seq(Row), NEW x \in Row
                PROVE  Append(s, x) \in Seq(Row)
            OBVIOUS
          <5> QED
            BY <5>1, <5>2, <5>3
        <4> QED
          BY <2>9, <4>1 DEF Commit
      <3>3. transfers' \subseteq Transfer
        <4>1. CASE job[r].op = "transfer"
          <5>1. [id |-> job[r].id, from |-> job[r].from, to |-> job[r].to,
                 amount |-> job[r].amount] \in Transfer
            BY <2>1, <4>1 DEF Job, Transfer
          <5> QED
            BY <2>9, <4>1, <5>1 DEF Commit, TypeOK
        <4>2. CASE job[r].op # "transfer"
          BY <2>9, <4>2 DEF Commit, TypeOK
        <4> QED
          BY <4>1, <4>2
      <3>4. EndSession(r)
        BY <2>9 DEF Commit
      <3> QED
        BY <3>1, <3>2, <3>3, <3>4, NoJobIsNoJob DEF TypeOK, EndSession
    <2> QED
      BY <1>3, <2>3, <2>4, <2>5, <2>6, <2>7, <2>8, <2>9 DEF Step
  <1>4. ASSUME NEW r \in Requests, Rollback(r) \/ DeadlockAbort(r)
        PROVE  TypeOK'
    BY <1>4, AbortType DEF Rollback, DeadlockAbort
  <1> QED
    BY <1>1, <1>2, <1>3, <1>4 DEF Next

\* Every reachable state is well-typed.
THEOREM TypeCorrect == Spec => []TypeOK
  <1>1. Init => TypeOK
    BY NoJobIsNoJob DEF Init, TypeOK
  <1>2. TypeOK /\ [Next]_vars => TypeOK'
    BY NextType
  <1> QED
    BY <1>1, <1>2, PTL DEF Spec

-----------------------------------------------------------------------------
(* The session invariant.                                                  *)

\* An open session has a real job, a closed one the empty job.
LEMMA JobFacts ==
    ASSUME TypeOK, NEW r \in Requests
    PROVE  /\ pc[r] = "idle" => job[r].op = "none"
           /\ pc[r] # "idle" =>
                /\ job[r] \in Job
                /\ job[r].op \in {"transfer", "debit", "credit", "create", "deactivate",
                                  "update"}
                /\ job[r].from \in Accounts /\ job[r].to \in Accounts
                /\ job[r].amount \in Nat
                /\ job[r].op = "transfer" => job[r].from # job[r].to
                /\ job[r].op # "transfer" => job[r].from = job[r].to
  <1>1. CASE pc[r] = "idle"
    BY <1>1 DEF TypeOK, NoJob
  <1>2. CASE pc[r] # "idle"
    BY <1>2 DEF TypeOK, Job
  <1> QED
    BY <1>1, <1>2

\* What a step of session r leaves alone.
OthersUnchanged(r) ==
    \A s \in Requests : s # r =>
        /\ pc'[s] = pc[s] /\ job'[s] = job[s] /\ held'[s] = held[s]
        /\ view'[s] = view[s] /\ posted'[s] = posted[s]

\* A session in the middle of its request is not disturbed by a step of another
\* session, as long as the accounts it depends on keep status and balance.
LEMMA Undisturbed ==
    ASSUME SessionInv, NEW s \in Requests,
           pc'[s] = pc[s], job'[s] = job[s], held'[s] = held[s],
           view'[s] = view[s], posted'[s] = posted[s],
           \A a \in Accounts : posted[s][a] # NoRow \/ (MoneyOp(s) /\ a \in held[s]) =>
              status'[a] = status[a] /\ balance'[a] = balance[a],
           job[s].op = "create" => status'[job[s].from] = "absent",
           job[s].op \in {"deactivate", "update"} /\ pc[s] \in {"flush", "commit"} =>
              status'[job[s].from] # "absent"
    PROVE  SessionOK(s)'
  <1>1. SessionOK(s)
    BY DEF SessionInv
  <1>2. StepOK(s)' /\ (held[s] = MustHold(s))'
    BY <1>1 DEF SessionOK, StepOK, MustHold
  <1>3. ASSUME NEW a \in Accounts
        PROVE  (posted[s][a] = MustPost(s, a))'
    <2>1. posted[s][a] = MustPost(s, a)
      BY <1>1 DEF SessionOK
    <2>2. CASE Debited(s, a) \/ Credited(s, a)
      <3>1. posted[s][a] # NoRow
        BY <2>1, <2>2 DEF MustPost, NoRow
      <3> QED
        BY <2>1, <2>2, <3>1 DEF MustPost, MustSee, Debited, Credited
    <2>3. CASE ~(Debited(s, a) \/ Credited(s, a))
      BY <2>1, <2>3 DEF MustPost, Debited, Credited, NoRow
    <2> QED
      BY <2>2, <2>3
  <1>4. ASSUME MoneyOp(s)', NEW a \in held'[s]
        PROVE  (/\ status[a] = "active"
                /\ view[s][a] = MustSee(s, a)
                /\ Debited(s, a) => MustSee(s, a) >= 0)'
    <2>1. MoneyOp(s) /\ a \in held[s] /\ a \in Accounts
      BY <1>1, <1>4 DEF MoneyOp, SessionOK, MustHold
    <2>2. /\ status[a] = "active"
          /\ view[s][a] = MustSee(s, a)
          /\ Debited(s, a) => MustSee(s, a) >= 0
      BY <1>1, <2>1 DEF SessionOK
    <2> QED
      BY <2>1, <2>2 DEF MustSee, Debited, Credited
  <1>5. job'[s].op = "create" => pc'[s] = "commit" /\ status'[job'[s].from] = "absent"
    BY <1>1 DEF SessionOK
  <1> QED
    BY <1>2, <1>3, <1>4, <1>5 DEF SessionOK

\* A step of session r that touches no committed row keeps the invariant, when
\* it locks free rows only, takes no new key, and leaves r where it should be.
LEMMA LocalStep ==
    ASSUME TypeOK, SessionInv, NEW r \in Requests,
           UNCHANGED dbVars, OthersUnchanged(r),
           \A a \in held'[r] : a \in held[r] \/ Free(a),
           KeysDistinct',
           SessionOK(r)'
    PROVE  SessionInv'
  <1>1. LocksExclusive'
    BY DEF SessionInv, LocksExclusive, OthersUnchanged, Free
  <1>2. ASSUME NEW s \in Requests, s # r
        PROVE  SessionOK(s)'
    <2>1. /\ pc'[s] = pc[s] /\ job'[s] = job[s] /\ held'[s] = held[s]
          /\ view'[s] = view[s] /\ posted'[s] = posted[s]
          /\ status' = status /\ balance' = balance
      BY <1>2 DEF OthersUnchanged, dbVars
    <2>2. SessionOK(s)
      BY DEF SessionInv
    <2> QED
      BY <2>1, <2>2, Undisturbed DEF SessionOK
  <1> QED
    BY <1>1, <1>2 DEF SessionInv

\* Keys stay distinct when no session takes a new one.
LEMMA KeysKept ==
    ASSUME SessionInv, NEW r \in Requests, OthersUnchanged(r), UNCHANGED dbVars,
           job'[r] = job[r] \/ job'[r].op = "none"
    PROVE  KeysDistinct'
  BY DEF SessionInv, KeysDistinct, OthersUnchanged, dbVars

\* The end of a session leaves it with nothing.
LEMMA EndSessionOK ==
    ASSUME TypeOK, NEW r \in Requests, EndSession(r)
    PROVE  /\ OthersUnchanged(r)
           /\ held'[r] = {} /\ job'[r].op = "none"
           /\ SessionOK(r)'
  <1>1. OthersUnchanged(r)
    BY DEF EndSession, TypeOK, OthersUnchanged
  <1>2. /\ pc'[r] = "idle" /\ held'[r] = {} /\ job'[r] = NoJob
        /\ \A a \in Accounts : posted'[r][a] = NoRow
    BY DEF EndSession, TypeOK
  <1>3. job'[r].op = "none"
    BY <1>2 DEF NoJob
  <1>4. SessionOK(r)'
    BY <1>2, <1>3 DEF SessionOK, StepOK, MustHold, MustPost, Debited, Credited, MoneyOp
  <1> QED
    BY <1>1, <1>2, <1>3, <1>4

\* A rolled-back session disturbs nobody.
LEMMA AbortStep ==
    ASSUME TypeOK, SessionInv, NEW r \in Requests, Abort(r)
    PROVE  SessionInv'
  <1>1. EndSession(r) /\ UNCHANGED dbVars
    BY DEF Abort
  <1>2. KeysDistinct'
    BY <1>1, EndSessionOK, KeysKept
  <1> QED
    BY <1>1, <1>2, EndSessionOK, LocalStep

\* The arrival of a request.
LEMMA BeginStep ==
    ASSUME TypeOK, SessionInv, NEW r \in Requests,
           NEW step \in {"lockFrom", "lockTo", "read", "commit"},
           NEW op \in {"transfer", "debit", "credit", "create", "deactivate", "update"},
           NEW from \in Accounts, NEW to \in Accounts, NEW amount, NEW id,
           Begin(r, step, op, from, to, amount, id),
           step = "lockFrom" => op \in {"transfer", "debit"},
           step = "lockTo" => op = "credit",
           step = "read" => op \in {"deactivate", "update"},
           step = "commit" <=> op = "create",
           op = "create" => /\ status[from] = "absent"
                            /\ \A s \in Busy : job[s].op = "create" => job[s].from # from,
           op = "transfer" => id \notin UsedIds
    PROVE  SessionInv'
  <1>1. OthersUnchanged(r) /\ UNCHANGED dbVars
    BY DEF Begin, Goto, TypeOK, OthersUnchanged
  <1>2. /\ pc[r] = "idle" /\ pc'[r] = step /\ held' = held /\ posted' = posted
        /\ job'[r] = [op |-> op, from |-> from, to |-> to, amount |-> amount, id |-> id]
    BY DEF Begin, Goto, TypeOK
  <1>3. held[r] = {} /\ \A a \in Accounts : posted[r][a] = NoRow
    <2>1. SessionOK(r) /\ pc[r] = "idle"
      BY <1>2 DEF SessionInv
    <2>2. MustHold(r) = {} /\ \A a \in Accounts : MustPost(r, a) = NoRow
      BY <2>1 DEF MustHold, MustPost, Debited, Credited
    <2> QED
      BY <2>1, <2>2 DEF SessionOK
  <1>4. SessionOK(r)'
    <2>1. StepOK(r)' /\ (held[r] = MustHold(r))'
      BY <1>2, <1>3 DEF StepOK, MustHold
    <2>2. \A a \in Accounts : (posted[r][a] = MustPost(r, a))'
      BY <1>2, <1>3 DEF MustPost, Debited, Credited
    <2> QED
      BY <1>1, <1>2, <1>3, <2>1, <2>2 DEF SessionOK, dbVars
  <1>5. KeysDistinct'
    <2>1. ASSUME NEW s \in Requests, s # r, job[s].op \in {"create", "transfer"}
          PROVE  s \in Busy
      BY <2>1, JobFacts DEF Busy
    <2>2. KeysDistinct
      BY DEF SessionInv
    <2> QED
      BY <1>1, <1>2, <2>1, <2>2 DEF KeysDistinct, OthersUnchanged, UsedIds, dbVars
  <1> QED
    BY <1>1, <1>2, <1>4, <1>5, LocalStep

\* Locking a row: by then the session holds what it must and sees what it must.
LEMMA LockStep ==
    ASSUME TypeOK, SessionInv, NEW r \in Requests, LockFrom(r) \/ LockTo(r)
    PROVE  SessionInv'
  <1>1. pc[r] # "idle" /\ job[r].op \in {"transfer", "debit", "credit"}
    BY DEF LockFrom, LockTo, SessionInv, SessionOK, StepOK
  <1>2. SessionOK(r)
    BY DEF SessionInv
  <1>3. PICK a \in {job[r].from, job[r].to}, next \in {"lockTo", "debit", "credit"} :
          /\ GetWithLock(r, a, next)
          /\ MustHold(r) = {b \in {job[r].from} : pc[r] = "lockTo" /\ job[r].op = "transfer"}
          /\ \/ /\ pc[r] = "lockFrom" /\ a = job[r].from
                /\ next = IF job[r].op = "transfer" THEN "lockTo" ELSE "debit"
             \/ /\ pc[r] = "lockTo" /\ a = job[r].to
                /\ next = IF job[r].op = "transfer" THEN "debit" ELSE "credit"
    <2>1. MustHold(r) = {b \in {job[r].from} : pc[r] = "lockTo" /\ job[r].op = "transfer"}
      BY <1>1, JobFacts DEF LockFrom, LockTo, MustHold
    <2> QED
      BY <2>1 DEF LockFrom, LockTo
  <1>4. CASE Abort(r)
    BY <1>4, AbortStep
  <1>5. CASE /\ Free(a) /\ status[a] = "active"
             /\ held' = [held EXCEPT ![r] = @ \cup {a}]
             /\ view' = [view EXCEPT ![r][a] = balance[a]]
             /\ Goto(r, next)
             /\ UNCHANGED <<dbVars, job, posted>>
    <2>1. a \in Accounts
      BY <1>1, <1>3, JobFacts
    <2>2. OthersUnchanged(r) /\ UNCHANGED dbVars
      BY <1>5 DEF OthersUnchanged, Goto, TypeOK
    <2>3. /\ pc'[r] = next /\ job' = job /\ posted' = posted
          /\ held'[r] = held[r] \cup {a}
          /\ view'[r][a] = balance[a]
          /\ \A b \in Accounts : b # a => view'[r][b] = view[r][b]
      BY <1>5, <2>1 DEF Goto, TypeOK
    <2>4. StepOK(r)'
      BY <1>1, <1>2, <1>3, <2>3 DEF SessionOK, StepOK
    <2>5. (held[r] = MustHold(r))'
      BY <1>1, <1>2, <1>3, <2>3, JobFacts DEF SessionOK, StepOK, MustHold
    <2>6. \A b \in Accounts :
             /\ ~Debited(r, b) /\ ~Credited(r, b)
             /\ ~Debited(r, b)' /\ ~Credited(r, b)'
      BY <1>1, <1>2, <1>3, <2>3 DEF Debited, Credited, SessionOK, StepOK
    <2>7. \A b \in Accounts : (posted[r][b] = MustPost(r, b))'
      BY <1>2, <2>3, <2>6 DEF SessionOK, MustPost
    <2>8. \A b \in held'[r] : /\ status'[b] = "active"
                              /\ view'[r][b] = MustSee(r, b)'
                              /\ ~Debited(r, b)'
      <3>1. status' = status /\ balance' = balance
        BY <2>2 DEF dbVars
      <3>2. \A b \in held[r] : status[b] = "active" /\ view[r][b] = MustSee(r, b)
        BY <1>1, <1>2 DEF SessionOK, MoneyOp
      <3>3. held[r] \subseteq Accounts
        BY DEF TypeOK
      <3> QED
        BY <1>5, <2>1, <2>3, <2>6, <3>1, <3>2, <3>3 DEF MustSee
    <2>9. SessionOK(r)'
      BY <1>1, <2>3, <2>4, <2>5, <2>7, <2>8 DEF SessionOK
    <2>10. KeysDistinct'
      BY <2>2, <2>3, KeysKept
    <2> QED
      BY <1>5, <2>2, <2>3, <2>9, <2>10, LocalStep
  <1> QED
    BY <1>3, <1>4, <1>5 DEF GetWithLock

\* Posting the debit: the balance the check passed on is the committed one.
LEMMA DebitStep ==
    ASSUME TypeOK, SessionInv, NEW r \in Requests, DebitAccount(r)
    PROVE  SessionInv'
  <1>1. CASE Abort(r)
    BY <1>1, AbortStep
  <1>2. CASE /\ view[r][job[r].from] >= job[r].amount
             /\ PostRow(r, job[r].from, "debit", view[r][job[r].from] - job[r].amount)
             /\ Goto(r, IF job[r].op = "transfer" THEN "credit" ELSE "commit")
             /\ UNCHANGED <<dbVars, job, held>>
    <2> DEFINE f == job[r].from
               m == job[r].amount
    <2>1. /\ pc[r] = "debit" /\ job[r].op \in {"transfer", "debit"} /\ SessionOK(r)
          /\ f \in Accounts /\ job[r].to \in Accounts /\ m \in Nat
          /\ job[r].op = "transfer" => f # job[r].to
          /\ job[r].op = "debit" => f = job[r].to
      BY JobFacts DEF DebitAccount, SessionInv, SessionOK, StepOK
    <2>2. held[r] = {f, job[r].to}
      BY <2>1 DEF SessionOK, MustHold
    <2>3. \A b \in Accounts : ~Debited(r, b) /\ ~Credited(r, b) /\ posted[r][b] = NoRow
      BY <2>1 DEF Debited, Credited, SessionOK, MustPost
    <2>4. \A b \in held[r] : status[b] = "active" /\ view[r][b] = balance[b]
      BY <2>1, <2>2, <2>3 DEF SessionOK, MoneyOp, MustSee
    <2>5. OthersUnchanged(r) /\ UNCHANGED dbVars
      BY <1>2 DEF OthersUnchanged, Goto, PostRow, TypeOK
    <2>6. /\ pc'[r] = IF job[r].op = "transfer" THEN "credit" ELSE "commit"
          /\ job' = job /\ held' = held
          /\ view'[r][f] = balance[f] - m /\ balance[f] - m >= 0
          /\ posted'[r][f] = [type |-> "debit", amount |-> m,
                              after |-> balance[f] - m, ref |-> job[r].id]
          /\ \A b \in Accounts : b # f => /\ view'[r][b] = view[r][b]
                                         /\ posted'[r][b] = posted[r][b]
      <3>1. view[r][f] = balance[f] /\ balance[f] \in Int
        BY <2>1, <2>2, <2>4 DEF TypeOK
      <3> QED
        BY <1>2, <2>1, <3>1 DEF Goto, PostRow, TypeOK
    <2>7. \A b \in Accounts : /\ Debited(r, b)' <=> b = f
                             /\ ~Credited(r, b)'
      BY <2>1, <2>6 DEF Debited, Credited
    <2>8. balance' = balance /\ status' = status
      BY <2>5 DEF dbVars
    <2>9. \A b \in Accounts : MustSee(r, b)' = IF b = f THEN balance[b] - m ELSE balance[b]
      BY <2>6, <2>7, <2>8 DEF MustSee
    <2>10. \A b \in Accounts : (posted[r][b] = MustPost(r, b))'
      BY <2>3, <2>6, <2>7, <2>9 DEF MustPost
    <2>11. StepOK(r)' /\ (held[r] = MustHold(r))'
      BY <2>1, <2>2, <2>6 DEF StepOK, MustHold
    <2>12. \A b \in held'[r] : /\ status'[b] = "active"
                               /\ view'[r][b] = MustSee(r, b)'
                               /\ Debited(r, b)' => MustSee(r, b)' >= 0
      <3>1. held[r] \subseteq Accounts
        BY <2>1, <2>2
      <3> QED
        BY <2>4, <2>6, <2>7, <2>8, <2>9, <3>1
    <2>13. SessionOK(r)'
      BY <2>1, <2>6, <2>10, <2>11, <2>12 DEF SessionOK
    <2>14. KeysDistinct'
      BY <2>5, <2>6, KeysKept
    <2> QED
      BY <2>5, <2>6, <2>13, <2>14, LocalStep
  <1> QED
    BY <1>1, <1>2 DEF DebitAccount

\* Posting the credit.
LEMMA CreditStep ==
    ASSUME TypeOK, SessionInv, NEW r \in Requests, CreditAccount(r)
    PROVE  SessionInv'
  <1> DEFINE f == job[r].from
             t == job[r].to
             m == job[r].amount
  <1>1. /\ pc[r] = "credit" /\ job[r].op \in {"transfer", "credit"} /\ SessionOK(r)
        /\ f \in Accounts /\ t \in Accounts /\ m \in Nat
        /\ job[r].op = "transfer" => f # t
        /\ job[r].op = "credit" => f = t
    BY JobFacts DEF CreditAccount, SessionInv, SessionOK, StepOK
  <1>2. held[r] = {f, t}
    BY <1>1 DEF SessionOK, MustHold
  <1>3. \A b \in Accounts :
          /\ ~Credited(r, b)
          /\ (job[r].op = "transfer" /\ b = f) => Debited(r, b)
          /\ ~(job[r].op = "transfer" /\ b = f) => ~Debited(r, b)
    BY <1>1 DEF Debited, Credited
  <1>4. /\ \A b \in held[r] : status[b] = "active"
        /\ \A b \in Accounts : posted[r][b] = MustPost(r, b)
    BY <1>1 DEF SessionOK, MoneyOp
  <1>5. OthersUnchanged(r) /\ UNCHANGED dbVars
    BY DEF CreditAccount, OthersUnchanged, Goto, PostRow, TypeOK
  <1>6. balance' = balance /\ status' = status
    BY <1>5 DEF dbVars
  <1>7. view[r][t] = balance[t] /\ balance[t] \in Int
    <2>1. ~Debited(r, t) /\ ~Credited(r, t)
      BY <1>1, <1>3
    <2>2. MustSee(r, t) = balance[t]
      BY <2>1 DEF MustSee
    <2>3. view[r][t] = MustSee(r, t)
      BY <1>1, <1>2 DEF SessionOK, MoneyOp
    <2> QED
      BY <1>1, <2>2, <2>3 DEF TypeOK
  <1>8. /\ pc'[r] = "commit" /\ job' = job /\ held' = held
        /\ view'[r][t] = balance[t] + m
        /\ posted'[r][t] = [type |-> "credit", amount |-> m,
                            after |-> balance[t] + m, ref |-> job[r].id]
        /\ \A b \in Accounts : b # t => /\ view'[r][b] = view[r][b]
                                       /\ posted'[r][b] = posted[r][b]
    BY <1>1, <1>7 DEF CreditAccount, Goto, PostRow, TypeOK
  <1>9. ASSUME NEW b \in Accounts, b # t
        PROVE  /\ MustSee(r, b)' = MustSee(r, b)
               /\ MustPost(r, b)' = MustPost(r, b)
               /\ Debited(r, b)' => Debited(r, b)
    <2>1. ~Credited(r, b)' /\ ~Credited(r, b)
      BY <1>3, <1>8, <1>9 DEF Credited
    <2>2. CASE job[r].op = "transfer" /\ b = f
      <3>1. Debited(r, b) /\ Debited(r, b)'
        BY <1>3, <1>8, <2>2 DEF Debited
      <3> QED
        BY <1>6, <1>8, <3>1 DEF MustSee, MustPost
    <2>3. CASE ~(job[r].op = "transfer" /\ b = f)
      <3>1. ~Debited(r, b) /\ ~Debited(r, b)'
        BY <1>1, <1>3, <1>8, <1>9, <2>3 DEF Debited
      <3> QED
        BY <1>6, <1>8, <2>1, <3>1 DEF MustSee, MustPost
    <2> QED
      BY <2>2, <2>3
  <1>10. /\ MustSee(r, t)' = balance[t] + m
         /\ MustPost(r, t)' = [type |-> "credit", amount |-> m,
                              after |-> balance[t] + m, ref |-> job[r].id]
         /\ ~Debited(r, t)'
    <2>1. Credited(r, t)' /\ ~Debited(r, t)'
      BY <1>1, <1>8 DEF Credited, Debited
    <2> QED
      BY <1>6, <1>8, <2>1 DEF MustSee, MustPost
  <1>11. \A b \in Accounts : (posted[r][b] = MustPost(r, b))'
    BY <1>4, <1>8, <1>9, <1>10
  <1>12. StepOK(r)' /\ (held[r] = MustHold(r))'
    BY <1>1, <1>2, <1>8 DEF StepOK, MustHold
  <1>13. \A b \in held'[r] : /\ status'[b] = "active"
                             /\ view'[r][b] = MustSee(r, b)'
                             /\ Debited(r, b)' => MustSee(r, b)' >= 0
    <2>1. ASSUME NEW b \in {f}, b # t
          PROVE  /\ status'[b] = "active"
                 /\ view'[r][b] = MustSee(r, b)'
                 /\ Debited(r, b)' => MustSee(r, b)' >= 0
      <3>1. /\ status[b] = "active" /\ view[r][b] = MustSee(r, b)
            /\ Debited(r, b) => MustSee(r, b) >= 0
        BY <1>1, <1>2 DEF SessionOK, MoneyOp
      <3> QED
        BY <1>1, <1>6, <1>8, <1>9, <2>1, <3>1
    <2>2. /\ status'[t] = "active" /\ view'[r][t] = MustSee(r, t)'
          /\ Debited(r, t)' => MustSee(r, t)' >= 0
      BY <1>2, <1>4, <1>6, <1>8, <1>10
    <2> QED
      BY <1>2, <1>8, <2>1, <2>2
  <1>14. SessionOK(r)'
    BY <1>1, <1>8, <1>11, <1>12, <1>13 DEF SessionOK
  <1>15. KeysDistinct'
    BY <1>5, <1>8, KeysKept
  <1> QED
    BY <1>5, <1>8, <1>14, <1>15, LocalStep

\* Reading and updating descriptive columns or is_active.
LEMMA PatchStep ==
    ASSUME TypeOK, SessionInv, NEW r \in Requests, ReadAccount(r) \/ FlushAccount(r)
    PROVE  SessionInv'
  <1>1. CASE Abort(r)
    BY <1>1, AbortStep
  <1>2. CASE ~Abort(r)
    <2>1. /\ pc[r] \in {"read", "flush"} /\ job[r].op \in {"deactivate", "update"}
          /\ job[r].from \in Accounts /\ job[r].from = job[r].to /\ SessionOK(r)
      BY JobFacts DEF ReadAccount, FlushAccount, SessionInv, SessionOK, StepOK
    <2>2. /\ UNCHANGED <<dbVars, job, view, posted>>
          /\ \/ pc[r] = "read" /\ Goto(r, "flush") /\ held' = held
                /\ status[job[r].from] = "active"
             \/ pc[r] = "flush" /\ Goto(r, "commit") /\ Free(job[r].from)
                /\ held' = [held EXCEPT ![r] = @ \cup {job[r].from}]
      BY <1>2 DEF ReadAccount, FlushAccount
    <2>3. OthersUnchanged(r) /\ UNCHANGED dbVars
      BY <2>2 DEF OthersUnchanged, Goto, TypeOK
    <2>4. \A b \in Accounts : /\ ~Debited(r, b) /\ ~Credited(r, b)
                             /\ ~Debited(r, b)' /\ ~Credited(r, b)'
      BY <2>1, <2>2 DEF Debited, Credited
    <2>5. \A b \in Accounts : (posted[r][b] = MustPost(r, b))'
      BY <2>1, <2>2, <2>4 DEF SessionOK, MustPost
    <2>6. /\ held[r] = {}
          /\ pc'[r] = IF pc[r] = "read" THEN "flush" ELSE "commit"
          /\ held'[r] = IF pc[r] = "read" THEN {} ELSE {job[r].from}
      BY <2>1, <2>2 DEF SessionOK, MustHold, Goto, TypeOK
    <2>7. StepOK(r)' /\ (held[r] = MustHold(r))'
      BY <2>1, <2>2, <2>6 DEF StepOK, MustHold
    <2>8. status'[job[r].from] # "absent"
      BY <2>1, <2>2 DEF SessionOK, dbVars
    <2>9. SessionOK(r)'
      BY <2>1, <2>2, <2>5, <2>7, <2>8 DEF SessionOK, MoneyOp
    <2>10. KeysDistinct'
      BY <2>2, <2>3, KeysKept
    <2>11. \A b \in held'[r] : b \in held[r] \/ Free(b)
      BY <2>2, <2>6
    <2> QED
      BY <2>3, <2>9, <2>10, <2>11, LocalStep
  <1> QED
    BY <1>1, <1>2

-----------------------------------------------------------------------------
(* Commits are steps of the abstract bank.                                 *)

\* What a session that is about to commit is about to publish.
LEMMA BeforeCommit ==
    ASSUME TypeOK, SessionInv, NEW r \in Requests, pc[r] = "commit"
    PROVE  LET f == job[r].from
               t == job[r].to
               m == job[r].amount
               i == job[r].id
           IN  /\ job[r] \in Job /\ f \in Accounts /\ t \in Accounts /\ m \in Nat
               /\ job[r].op \in {"transfer", "debit", "credit", "create", "deactivate",
                                 "update"}
               /\ job[r].op = "transfer" => /\ f # t
                                            /\ status[f] = "active" /\ status[t] = "active"
                                            /\ balance[f] - m >= 0
                                            /\ view[r][f] = balance[f] - m
                                            /\ view[r][t] = balance[t] + m
               /\ job[r].op = "debit" => /\ f = t /\ status[f] = "active"
                                         /\ balance[f] - m >= 0
                                         /\ view[r][f] = balance[f] - m
               /\ job[r].op = "credit" => /\ f = t /\ status[t] = "active"
                                          /\ view[r][t] = balance[t] + m
               /\ job[r].op = "create" => f = t /\ status[f] = "absent"
               /\ job[r].op \in {"deactivate", "update"} => f = t /\ status[f] # "absent"
               /\ \A a \in Accounts : posted[r][a] =
                     IF job[r].op \in {"transfer", "debit"} /\ a = f
                     THEN [type |-> "debit", amount |-> m, after |-> balance[f] - m, ref |-> i]
                     ELSE IF job[r].op \in {"transfer", "credit"} /\ a = t
                     THEN [type |-> "credit", amount |-> m, after |-> balance[t] + m, ref |-> i]
                     ELSE NoRow
  <1> DEFINE f == job[r].from
             t == job[r].to
             m == job[r].amount
  <1>1. SessionOK(r)
    BY DEF SessionInv
  <1>2. /\ job[r] \in Job /\ f \in Accounts /\ t \in Accounts /\ m \in Nat
        /\ job[r].op \in {"transfer", "debit", "credit", "create", "deactivate", "update"}
        /\ job[r].op = "transfer" => f # t
        /\ job[r].op # "transfer" => f = t
    BY JobFacts
  <1>3. ASSUME NEW a \in Accounts
        PROVE  /\ Debited(r, a) <=> job[r].op \in {"transfer", "debit"} /\ a = f
               /\ Credited(r, a) <=> job[r].op \in {"transfer", "credit"} /\ a = t
    BY DEF Debited, Credited
  <1>4. ASSUME job[r].op # "create"
        PROVE  f \in held[r] /\ t \in held[r]
    BY <1>1, <1>2, <1>4 DEF SessionOK, MustHold
  <1>5. ASSUME job[r].op \in {"transfer", "debit"}
        PROVE  /\ status[f] = "active" /\ view[r][f] = balance[f] - m
               /\ balance[f] - m >= 0
    <2>1. MoneyOp(r) /\ Debited(r, f) /\ f \in held[r]
      BY <1>2, <1>3, <1>4, <1>5 DEF MoneyOp
    <2>2. MustSee(r, f) = balance[f] - m
      BY <2>1 DEF MustSee
    <2> QED
      BY <1>1, <2>1, <2>2 DEF SessionOK
  <1>6. ASSUME job[r].op \in {"transfer", "credit"}
        PROVE  status[t] = "active" /\ view[r][t] = balance[t] + m
    <2>1. MoneyOp(r) /\ Credited(r, t) /\ ~Debited(r, t) /\ t \in held[r]
      BY <1>2, <1>3, <1>4, <1>6 DEF MoneyOp
    <2>2. MustSee(r, t) = balance[t] + m
      BY <2>1 DEF MustSee
    <2> QED
      BY <1>1, <2>1, <2>2 DEF SessionOK
  <1>7. /\ job[r].op = "create" => status[f] = "absent"
        /\ job[r].op \in {"deactivate", "update"} => status[f] # "absent"
    BY <1>1 DEF SessionOK
  <1>8. ASSUME NEW a \in Accounts
        PROVE  posted[r][a] =
                 IF job[r].op \in {"transfer", "debit"} /\ a = f
                 THEN [type |-> "debit", amount |-> m, after |-> balance[f] - m,
                       ref |-> job[r].id]
                 ELSE IF job[r].op \in {"transfer", "credit"} /\ a = t
                 THEN [type |-> "credit", amount |-> m, after |-> balance[t] + m,
                       ref |-> job[r].id]
                 ELSE NoRow
    <2>1. posted[r][a] = MustPost(r, a)
      BY <1>1 DEF SessionOK
    <2> QED
      BY <1>2, <2>1 DEF MustPost, MustSee, Debited, Credited
  <1> QED
    BY <1>2, <1>5, <1>6, <1>7, <1>8

\* A commit is one atomic operation of the bank, or changes nothing in it.
LEMMA CommitIsBankStep ==
    ASSUME TypeOK, SessionInv, NEW r \in Requests, Commit(r)
    PROVE  Bank!Next \/ UNCHANGED Bank!bankVars
  <1> DEFINE j == job[r]
             f == j.from
             t == j.to
             m == j.amount
  <1>1. pc[r] = "commit"
    BY DEF Commit
  <1>2. j \in Job /\ f \in Accounts /\ t \in Accounts /\ m \in Nat
    BY <1>1, BeforeCommit
  <1>3. \A a \in Accounts : posted[r][a] # NoRow <=>
            \/ j.op \in {"transfer", "debit"} /\ a = f
            \/ j.op \in {"transfer", "credit"} /\ a = t
    <2>1. ASSUME NEW type \in {"debit", "credit"}, NEW n, NEW x
          PROVE  [type |-> type, amount |-> m, after |-> n, ref |-> x] # NoRow
      BY DEF NoRow
    <2>2. ASSUME NEW a \in Accounts
          PROVE  posted[r][a] # NoRow <=>
                    \/ j.op \in {"transfer", "debit"} /\ a = f
                    \/ j.op \in {"transfer", "credit"} /\ a = t
      <3>1. posted[r][a] =
              IF j.op \in {"transfer", "debit"} /\ a = f
              THEN [type |-> "debit", amount |-> m, after |-> balance[f] - m, ref |-> j.id]
              ELSE IF j.op \in {"transfer", "credit"} /\ a = t
              THEN [type |-> "credit", amount |-> m, after |-> balance[t] + m, ref |-> j.id]
              ELSE NoRow
        BY <1>1, BeforeCommit
      <3> HIDE DEF j, f, t, m
      <3>2. CASE j.op \in {"transfer", "debit"} /\ a = f
        BY <2>1, <3>1, <3>2
      <3>3. CASE ~(j.op \in {"transfer", "debit"} /\ a = f)
        BY <2>1, <3>1, <3>3
      <3> QED
        BY <3>2, <3>3
    <2> QED
      BY <2>2
  <1>4. CASE j.op = "transfer"
    <2>1. /\ f # t /\ status[f] = "active" /\ status[t] = "active" /\ m <= balance[f]
          /\ m \in Amounts /\ j.id \in TransferIds
      <3>1. m \in Amounts /\ j.id \in TransferIds
        BY <1>2, <1>4 DEF Job
      <3>2. /\ f # t /\ status[f] = "active" /\ status[t] = "active"
            /\ balance[f] - m >= 0
        BY <1>1, <1>4, BeforeCommit
      <3> QED
        BY <1>2, <3>1, <3>2 DEF TypeOK
    <2>2. \A x \in transfers : x.id # j.id
      BY <1>4 DEF SessionInv, KeysDistinct
    <2>3. balance' = [balance EXCEPT ![f] = @ - m, ![t] = @ + m]
      BY <1>1, <1>2, <1>3, <1>4, <2>1, BeforeCommit DEF Commit, TypeOK
    <2>4. ledger' = [ledger EXCEPT
                       ![f] = Append(@, Bank!Posting("debit", m, balance'[f], j.id)),
                       ![t] = Append(@, Bank!Posting("credit", m, balance'[t], j.id))]
      <3>1. balance'[f] = balance[f] - m /\ balance'[t] = balance[t] + m
        BY <1>2, <2>1, <2>3 DEF TypeOK
      <3>2. /\ posted[r][f] = Bank!Posting("debit", m, balance'[f], j.id)
            /\ posted[r][t] = Bank!Posting("credit", m, balance'[t], j.id)
        BY <1>1, <1>4, <2>1, <3>1, BeforeCommit DEF Bank!Posting
      <3>3. ledger' = [a \in Accounts |->
                         IF a = f THEN Append(ledger[a], posted[r][f])
                         ELSE IF a = t THEN Append(ledger[a], posted[r][t])
                         ELSE ledger[a]]
        BY <1>3, <1>4 DEF Commit
      <3> QED
        BY <1>2, <2>1, <3>2, <3>3 DEF TypeOK
    <2>5. /\ status' = status /\ opening' = opening
          /\ transfers' = transfers \cup
                             {[id |-> j.id, from |-> f, to |-> t, amount |-> m]}
      BY <1>4 DEF Commit, TypeOK
    <2>6. Bank!Move(f, t, m, j.id)
      BY <2>1, <2>2, <2>3, <2>4, <2>5 DEF Bank!Move
    <2> QED
      BY <1>2, <2>1, <2>6 DEF Bank!Next
  <1>5. CASE j.op \in {"debit", "credit"}
    <2> DEFINE after == IF j.op = "credit" THEN balance[f] + m ELSE balance[f] - m
    <2>1. /\ f = t /\ status[f] = "active" /\ view[r][f] = after
          /\ j.op = "debit" => m <= balance[f]
          /\ m \in Amounts /\ j.id = NoTransfer
      <3>1. f = t /\ status[f] = "active" /\ view[r][f] = after
        BY <1>1, <1>5, BeforeCommit
      <3>2. m \in Amounts /\ j.id = NoTransfer
        BY <1>2, <1>5 DEF Job
      <3>3. ASSUME j.op = "debit"
            PROVE  m <= balance[f]
        <4>1. balance[f] - m >= 0
          BY <1>1, <3>3, BeforeCommit
        <4> QED
          BY <1>2, <4>1 DEF TypeOK
      <3> QED
        BY <3>1, <3>2, <3>3
    <2>2. balance' = [balance EXCEPT ![f] = after]
      BY <1>3, <1>5, <2>1 DEF Commit, TypeOK
    <2>3. ledger' = [ledger EXCEPT
                       ![f] = Append(@, Bank!Posting(j.op, m, after, NoTransfer))]
      <3>1. posted[r][f] = Bank!Posting(j.op, m, after, NoTransfer)
        BY <1>1, <1>2, <1>5, <2>1, BeforeCommit DEF Bank!Posting
      <3> QED
        BY <1>2, <1>3, <1>5, <2>1, <3>1 DEF Commit, TypeOK
    <2>4. status' = status /\ opening' = opening /\ transfers' = transfers
      BY <1>5 DEF Commit, TypeOK
    <2>5. Bank!Post(f, j.op, m)
      BY <2>1, <2>2, <2>3, <2>4 DEF Bank!Post
    <2> QED
      BY <1>2, <1>5, <2>1, <2>5 DEF Bank!Next
  <1>6. CASE j.op = "create"
    <2>1. status[f] = "absent" /\ m \in Openings
      BY <1>1, <1>2, <1>6, BeforeCommit DEF Job
    <2>2. Bank!Open(f, m)
      BY <1>2, <1>3, <1>6, <2>1 DEF Commit, TypeOK, Bank!Open
    <2> QED
      BY <1>2, <2>1, <2>2 DEF Bank!Next
  <1>7. CASE j.op \in {"deactivate", "update"}
    <2>1. status[f] # "absent"
      BY <1>1, <1>7, BeforeCommit
    <2>2. /\ opening' = opening /\ balance' = balance /\ ledger' = ledger
          /\ transfers' = transfers
      BY <1>3, <1>7 DEF Commit, TypeOK
    <2>3. CASE j.op = "deactivate"
      <3>1. status' = [status EXCEPT ![f] = "inactive"]
        BY <1>2, <2>3 DEF Commit, TypeOK
      <3> QED
        BY <1>2, <2>1, <2>2, <3>1 DEF Bank!Close, Bank!Next
    <2>4. CASE j.op = "update"
      <3>1. status' = status
        BY <2>4 DEF Commit, TypeOK
      <3> QED
        BY <2>2, <3>1 DEF Bank!bankVars
    <2> QED
      BY <1>7, <2>3, <2>4
  <1> QED
    BY <1>1, <1>4, <1>5, <1>6, <1>7, BeforeCommit

\* A commit keeps the invariant: another session's locked accounts are not the
\* ones it writes.
LEMMA CommitStep ==
    ASSUME TypeOK, SessionInv, NEW r \in Requests, Commit(r)
    PROVE  SessionInv'
  <1> DEFINE j == job[r]
  <1>1. /\ pc[r] = "commit" /\ j \in Job /\ j.from \in Accounts /\ SessionOK(r)
        /\ OthersUnchanged(r) /\ held'[r] = {} /\ job'[r].op = "none" /\ SessionOK(r)'
    BY BeforeCommit, EndSessionOK DEF Commit, SessionInv
  <1>2. ASSUME NEW a \in Accounts, a \notin held[r], j.op = "create" => a # j.from
        PROVE  status'[a] = status[a] /\ balance'[a] = balance[a]
    <2>1. j.op # "create" => a # j.from /\ a # j.to
      BY <1>1, <1>2 DEF SessionOK, MustHold
    <2>2. j.op = "create" => j.from = j.to
      BY <1>1, JobFacts
    <2>3. posted[r][a] = NoRow
      BY <1>1, <1>2, <2>1, <2>2, BeforeCommit
    <2> QED
      BY <1>2, <2>1, <2>3 DEF Commit
  <1>3. ASSUME NEW s \in Requests, s # r
        PROVE  SessionOK(s)'
    <2>1. /\ pc'[s] = pc[s] /\ job'[s] = job[s] /\ held'[s] = held[s]
          /\ view'[s] = view[s] /\ posted'[s] = posted[s]
      BY <1>1, <1>3 DEF OthersUnchanged
    <2>2. SessionOK(s) /\ held[s] \cap held[r] = {}
      BY <1>3 DEF SessionInv, LocksExclusive
    <2>3. ASSUME NEW a \in Accounts, MoneyOp(s), a \in held[s]
          PROVE  status'[a] = status[a] /\ balance'[a] = balance[a]
      <3>1. status[a] = "active"
        BY <2>2, <2>3 DEF SessionOK
      <3>2. j.op = "create" => a # j.from
        BY <1>1, <3>1 DEF SessionOK
      <3> QED
        BY <1>2, <2>2, <2>3, <3>2
    <2>4. ASSUME NEW a \in Accounts, posted[s][a] # NoRow
          PROVE  MoneyOp(s) /\ a \in held[s]
      <3>1. Debited(s, a) \/ Credited(s, a)
        BY <2>2, <2>4 DEF SessionOK, MustPost
      <3>2. pc[s] \in {"credit", "commit"} /\ a \in {job[s].from, job[s].to}
            /\ job[s].op \in {"transfer", "debit", "credit"}
        BY <3>1 DEF Debited, Credited
      <3>3. a \in MustHold(s)
        BY <3>2 DEF MustHold
      <3> QED
        BY <2>2, <3>2, <3>3 DEF SessionOK, MoneyOp
    <2>5. ASSUME job[s].op = "create"
          PROVE  status'[job[s].from] = "absent"
      <3>1. job[s].from \in Accounts /\ status[job[s].from] = "absent"
        BY <2>2, <2>5, JobFacts DEF SessionOK
      <3>2. j.op = "create" => job[s].from # j.from
        BY <1>3, <2>5 DEF SessionInv, KeysDistinct
      <3>3. job[s].from \notin held[r]
        <4>1. CASE MoneyOp(r)
          BY <1>1, <3>1, <4>1 DEF SessionOK
        <4>2. CASE ~MoneyOp(r)
          BY <1>1, <3>1, <4>2, JobFacts DEF SessionOK, MoneyOp, MustHold
        <4> QED
          BY <4>1, <4>2
      <3> QED
        BY <1>2, <3>1, <3>2, <3>3
    <2>6. ASSUME job[s].op \in {"deactivate", "update"}, pc[s] \in {"flush", "commit"}
          PROVE  status'[job[s].from] # "absent"
      <3>1. job[s].from \in Accounts /\ status[job[s].from] # "absent"
        BY <2>2, <2>6, JobFacts DEF SessionOK
      <3> QED
        BY <3>1 DEF Commit
    <2> QED
      BY <2>1, <2>3, <2>4, <2>5, <2>6, Undisturbed
  <1>4. LocksExclusive'
    BY <1>1 DEF SessionInv, LocksExclusive, OthersUnchanged
  <1>5. KeysDistinct'
    <2>1. KeysDistinct
      BY DEF SessionInv
    <2>2. ASSUME NEW s \in Requests, s # r, job[s].op = "transfer", NEW x \in transfers'
          PROVE  x.id # job[s].id
      BY <1>1, <2>1, <2>2 DEF Commit, KeysDistinct
    <2> QED
      BY <1>1, <2>1, <2>2 DEF KeysDistinct, OthersUnchanged
  <1> QED
    BY <1>1, <1>3, <1>4, <1>5 DEF SessionInv

\* Every step keeps the session invariant, and is a step of the bank or leaves
\* every committed row alone.
LEMMA NextInv ==
    ASSUME TypeOK, SessionInv, [Next]_vars
    PROVE  SessionInv' /\ [Bank!Next]_(Bank!bankVars)
  <1>1. CASE UNCHANGED vars
    <2>1. KeysDistinct' /\ LocksExclusive'
      BY <1>1 DEF vars, SessionInv, KeysDistinct, LocksExclusive
    <2>2. ASSUME NEW s \in Requests
          PROVE  SessionOK(s)'
      <3>1. SessionOK(s)
        BY DEF SessionInv
      <3> QED
        BY <1>1, <3>1, Undisturbed DEF vars, SessionOK
    <2> QED
      BY <1>1, <2>1, <2>2 DEF vars, SessionInv, Bank!bankVars
  <1>2. ASSUME NEW r \in Requests, Arrive(r)
        PROVE  SessionInv' /\ UNCHANGED dbVars
    <2>1. ASSUME NEW from \in Accounts, NEW to \in Accounts, NEW m \in Amounts,
                 NEW id \in TransferIds, CreateTransfer(r, from, to, m, id)
          PROVE  SessionInv' /\ UNCHANGED dbVars
      BY <2>1, BeginStep DEF CreateTransfer, Begin
    <2>2. ASSUME NEW a \in Accounts, NEW t \in HookTypes, NEW m \in Amounts,
                 RecordAccountTransaction(r, a, t, m)
          PROVE  SessionInv' /\ UNCHANGED dbVars
      BY <2>2, BeginStep, AccountsAssumption DEF RecordAccountTransaction, Begin
    <2>3. ASSUME NEW a \in Accounts, NEW m \in Openings, CreateAccount(r, a, m)
          PROVE  SessionInv' /\ UNCHANGED dbVars
      BY <2>3, BeginStep DEF CreateAccount, Begin
    <2>4. ASSUME NEW a \in Accounts, DeactivateAccount(r, a)
          PROVE  SessionInv' /\ UNCHANGED dbVars
      BY <2>4, BeginStep DEF DeactivateAccount, Begin
    <2>5. ASSUME NEW a \in Accounts, UpdateAccount(r, a)
          PROVE  SessionInv' /\ UNCHANGED dbVars
      BY <2>5, BeginStep DEF UpdateAccount, Begin
    <2> QED
      BY <1>2, <2>1, <2>2, <2>3, <2>4, <2>5 DEF Arrive
  <1>3. ASSUME NEW r \in Requests, LockFrom(r) \/ LockTo(r)
        PROVE  SessionInv' /\ UNCHANGED dbVars
    BY <1>3, LockStep DEF LockFrom, LockTo, GetWithLock, Abort
  <1>4. ASSUME NEW r \in Requests, DebitAccount(r)
        PROVE  SessionInv' /\ UNCHANGED dbVars
    BY <1>4, DebitStep DEF DebitAccount, Abort
  <1>5. ASSUME NEW r \in Requests, CreditAccount(r)
        PROVE  SessionInv' /\ UNCHANGED dbVars
    BY <1>5, CreditStep DEF CreditAccount
  <1>6. ASSUME NEW r \in Requests, ReadAccount(r) \/ FlushAccount(r)
        PROVE  SessionInv' /\ UNCHANGED dbVars
    BY <1>6, PatchStep DEF ReadAccount, FlushAccount, Abort
  <1>7. ASSUME NEW r \in Requests, Commit(r)
        PROVE  SessionInv' /\ (Bank!Next \/ UNCHANGED Bank!bankVars)
    BY <1>7, CommitStep, CommitIsBankStep
  <1>8. ASSUME NEW r \in Requests, Rollback(r) \/ DeadlockAbort(r)
        PROVE  SessionInv' /\ UNCHANGED dbVars
    BY <1>8, AbortStep DEF Rollback, DeadlockAbort, Abort
  <1>9. UNCHANGED dbVars => UNCHANGED Bank!bankVars
    BY DEF dbVars, Bank!bankVars
  <1> QED
    BY <1>1, <1>2, <1>3, <1>4, <1>5, <1>6, <1>7, <1>8, <1>9 DEF Next, Step

\* Row locks work: whatever the interleaving, an open session's view of a row it
\* has locked is the committed one, and its inserted rows agree with it.
THEOREM LocksWork == Spec => []SessionInv
  <1>1. Init => SessionInv
    BY DEF Init, SessionInv, LocksExclusive, KeysDistinct, SessionOK, StepOK, MustHold,
           MustPost, MoneyOp, Debited, Credited, NoJob
  <1>2. TypeOK /\ SessionInv /\ [Next]_vars => SessionInv'
    BY NextInv
  <1> QED
    BY <1>1, <1>2, TypeCorrect, PTL DEF Spec

\* The module implements the abstract bank: every committed request is one atomic
\* operation on the true state, and nothing else changes a committed row.
THEOREM ImplementsBank == Spec => BankSpec
  <1>1. Init => Bank!Init
    BY DEF Init, Bank!Init
  <1>2. TypeOK /\ SessionInv /\ [Next]_vars => [Bank!Next]_(Bank!bankVars)
    BY NextInv
  <1> QED
    BY <1>1, <1>2, TypeCorrect, LocksWork, PTL DEF Spec, BankSpec, Bank!Spec

-----------------------------------------------------------------------------
(* What follows for the committed rows: each is proved of a step of the    *)
(* bank, and carried over to the sessions by NextInv.                      *)

\* No committed balance is ever negative.
THEOREM NeverOverdrawn == Spec => []NoOverdraft
  <1>1. Init => NoOverdraft
    BY DEF Init, NoOverdraft
  <1>2. TypeOK /\ NoOverdraft /\ [Bank!Next]_(Bank!bankVars) => NoOverdraft'
    <2> SUFFICES ASSUME TypeOK, NoOverdraft, [Bank!Next]_(Bank!bankVars)
                 PROVE  NoOverdraft'
      OBVIOUS
    <2> USE AccountsAssumption
    <2>1. ASSUME NEW a \in Accounts, NEW m \in Openings, Bank!Open(a, m)
          PROVE  NoOverdraft'
      BY <2>1 DEF Bank!Open, TypeOK, NoOverdraft
    <2>2. ASSUME NEW a \in Accounts, Bank!Close(a)
          PROVE  NoOverdraft'
      BY <2>2 DEF Bank!Close, NoOverdraft
    <2>3. ASSUME NEW a \in Accounts, NEW t \in {"debit", "credit"}, NEW m \in Amounts,
                 Bank!Post(a, t, m)
          PROVE  NoOverdraft'
      BY <2>3 DEF Bank!Post, TypeOK, NoOverdraft
    <2>4. ASSUME NEW from \in Accounts, NEW to \in Accounts, NEW m \in Amounts,
                 NEW id \in TransferIds, Bank!Move(from, to, m, id)
          PROVE  NoOverdraft'
      <3>1. /\ from # to /\ m <= balance[from] /\ m \in Nat /\ balance \in [Accounts -> Int]
            /\ balance' = [balance EXCEPT ![from] = @ - m, ![to] = @ + m]
        BY <2>4 DEF Bank!Move, TypeOK
      <3> QED
        BY <3>1 DEF NoOverdraft
    <2>5. CASE UNCHANGED Bank!bankVars
      BY <2>5 DEF Bank!bankVars, NoOverdraft
    <2> QED
      BY <2>1, <2>2, <2>3, <2>4, <2>5 DEF Bank!Next
  <1>3. TypeOK /\ SessionInv /\ NoOverdraft /\ [Next]_vars => NoOverdraft'
    BY <1>2, NextInv
  <1> QED
    BY <1>1, <1>3, TypeCorrect, LocksWork, PTL DEF Spec

\* The chain of one account.
Chain(a) ==
    /\ status[a] = "absent" => ledger[a] = <<>>
    /\ \A i \in 1 .. Len(ledger[a]) :
         ledger[a][i].after = Before(a, i) + Signed(ledger[a][i])
    /\ balance[a] = Before(a, Len(ledger[a]) + 1)

\* Appending a row whose balance_after is the new balance extends the chain.
LEMMA ChainExtended ==
    ASSUME TypeOK, TypeOK', NEW a \in Accounts, Chain(a), NEW row \in Row,
           status'[a] = "active", opening'[a] = opening[a],
           ledger'[a] = Append(ledger[a], row),
           row.after = balance[a] + Signed(row), balance'[a] = row.after
    PROVE  Chain(a)'
  <1> PICK n \in Nat : n = Len(ledger[a])
    BY DEF TypeOK
  <1>1. /\ Len(ledger'[a]) = n + 1 /\ ledger'[a][n + 1] = row
        /\ \A i \in 1 .. n : ledger'[a][i] = ledger[a][i]
    BY DEF TypeOK
  <1>2. \A i \in 1 .. n + 1 : Before(a, i)' = Before(a, i)
    BY <1>1 DEF Before
  <1>3. Before(a, n + 2)' = row.after
    BY <1>1 DEF Before
  <1>4. ASSUME NEW i \in 1 .. n + 1
        PROVE  ledger'[a][i].after = Before(a, i)' + Signed(ledger'[a][i])
    <2>1. CASE i = n + 1
      BY <1>1, <1>2, <2>1 DEF Chain
    <2>2. CASE i # n + 1
      <3>1. i \in 1 .. n
        BY <2>2
      <3>2. ledger[a][i].after = Before(a, i) + Signed(ledger[a][i])
        BY <3>1 DEF Chain
      <3> QED
        BY <1>1, <1>2, <3>1, <3>2
    <2> QED
      BY <2>1, <2>2
  <1> QED
    BY <1>1, <1>3, <1>4 DEF Chain

Chains == \A a \in Accounts : Chain(a)

\* A step of the bank keeps the chains.
LEMMA ChainsStep ==
    ASSUME TypeOK, TypeOK', Chains, [Bank!Next]_(Bank!bankVars)
    PROVE  Chains'
  <1> USE AccountsAssumption DEF Chains
  <1>1. ASSUME NEW a \in Accounts, status'[a] = status[a], opening'[a] = opening[a],
               balance'[a] = balance[a], ledger'[a] = ledger[a]
        PROVE  Chain(a)'
    <2>1. Chain(a)
      OBVIOUS
    <2> QED
      BY <1>1, <2>1 DEF Chain, Before
  <1>2. ASSUME NEW b \in Accounts, NEW m \in Openings, Bank!Open(b, m), NEW a \in Accounts
        PROVE  Chain(a)'
    <2>1. CASE a = b
      <3>1. ledger[a] = <<>>
        BY <1>2, <2>1 DEF Bank!Open, Chain
      <3>2. /\ status'[a] = "active" /\ opening'[a] = m /\ balance'[a] = m
            /\ ledger'[a] = <<>>
        BY <1>2, <2>1, <3>1 DEF Bank!Open, TypeOK
      <3> QED
        BY <3>2 DEF Chain, Before
    <2>2. CASE a # b
      BY <1>1, <1>2, <2>2 DEF Bank!Open, TypeOK
    <2> QED
      BY <2>1, <2>2
  <1>3. ASSUME NEW b \in Accounts, Bank!Close(b), NEW a \in Accounts
        PROVE  Chain(a)'
    <2>1. CASE a = b
      <3>1. Chain(a)
        OBVIOUS
      <3>2. /\ status'[a] = "inactive" /\ opening'[a] = opening[a]
            /\ balance'[a] = balance[a] /\ ledger'[a] = ledger[a]
        BY <1>3, <2>1 DEF Bank!Close, TypeOK
      <3> QED
        BY <3>1, <3>2 DEF Chain, Before
    <2>2. CASE a # b
      BY <1>1, <1>3, <2>2 DEF Bank!Close, TypeOK
    <2> QED
      BY <2>1, <2>2
  <1>4. ASSUME NEW b \in Accounts, NEW t \in {"debit", "credit"}, NEW m \in Amounts,
               Bank!Post(b, t, m), NEW a \in Accounts
        PROVE  Chain(a)'
    <2> DEFINE after == IF t = "credit" THEN balance[b] + m ELSE balance[b] - m
               row == Bank!Posting(t, m, after, NoTransfer)
    <2>1. /\ status' = status /\ opening' = opening /\ status[b] = "active"
          /\ balance' = [balance EXCEPT ![b] = after]
          /\ ledger' = [ledger EXCEPT ![b] = Append(@, row)]
      BY <1>4 DEF Bank!Post
    <2>2. CASE a = b
      <3>1. row \in Row /\ row.after = balance[b] + Signed(row)
        <4>1. balance[b] \in Int /\ m \in Nat
          BY DEF TypeOK
        <4>2. CASE t = "credit"
          BY <4>1, <4>2 DEF Row, Bank!Posting, Signed
        <4>3. CASE t = "debit"
          BY <4>1, <4>3 DEF Row, Bank!Posting, Signed
        <4> QED
          BY <4>2, <4>3
      <3>2. /\ status'[a] = "active" /\ opening'[a] = opening[a]
            /\ ledger'[a] = Append(ledger[a], row) /\ balance'[a] = row.after
        BY <2>1, <2>2 DEF TypeOK, Bank!Posting
      <3> HIDE DEF row
      <3> QED
        BY <2>2, <3>1, <3>2, ChainExtended
    <2>3. CASE a # b
      BY <1>1, <2>1, <2>3 DEF TypeOK
    <2> QED
      BY <2>2, <2>3
  <1>5. ASSUME NEW from \in Accounts, NEW to \in Accounts, NEW m \in Amounts,
               NEW id \in TransferIds, Bank!Move(from, to, m, id), NEW a \in Accounts
        PROVE  Chain(a)'
    <2> DEFINE debit == Bank!Posting("debit", m, balance[from] - m, id)
               credit == Bank!Posting("credit", m, balance[to] + m, id)
    <2>1. /\ from # to /\ status' = status /\ opening' = opening
          /\ status[from] = "active" /\ status[to] = "active"
          /\ balance' = [balance EXCEPT ![from] = @ - m, ![to] = @ + m]
          /\ ledger' = [ledger EXCEPT
                          ![from] = Append(@, Bank!Posting("debit", m, balance'[from], id)),
                          ![to] = Append(@, Bank!Posting("credit", m, balance'[to], id))]
      BY <1>5 DEF Bank!Move
    <2>2. /\ balance'[from] = balance[from] - m /\ balance'[to] = balance[to] + m
          /\ \A b \in Accounts : b # from /\ b # to => balance'[b] = balance[b]
      BY <2>1 DEF TypeOK
    <2>3. /\ ledger'[from] = Append(ledger[from], debit)
          /\ ledger'[to] = Append(ledger[to], credit)
          /\ \A b \in Accounts : b # from /\ b # to => ledger'[b] = ledger[b]
      BY <2>1, <2>2 DEF TypeOK
    <2>4. /\ debit \in Row /\ debit.after = balance[from] + Signed(debit)
          /\ credit \in Row /\ credit.after = balance[to] + Signed(credit)
          /\ balance'[from] = debit.after /\ balance'[to] = credit.after
      BY <2>2 DEF Row, Bank!Posting, Signed, TypeOK
    <2> HIDE DEF debit, credit
    <2>5. CASE a = from
      BY <2>1, <2>3, <2>4, <2>5, ChainExtended
    <2>6. CASE a = to
      BY <2>1, <2>3, <2>4, <2>6, ChainExtended
    <2>7. CASE a # from /\ a # to
      BY <1>1, <2>1, <2>2, <2>3, <2>7
    <2> QED
      BY <2>5, <2>6, <2>7
  <1>6. CASE UNCHANGED Bank!bankVars
    BY <1>1, <1>6 DEF Bank!bankVars
  <1> QED
    BY <1>2, <1>3, <1>4, <1>5, <1>6 DEF Bank!Next

\* The rows of every account chain, and an account that does not exist has none.
LEMMA ChainsKept == Spec => []Chains
  <1>1. Init => Chains
    BY DEF Init, Chains, Chain, Before
  <1>2. TypeOK /\ SessionInv /\ Chains /\ [Next]_vars => Chains'
    BY ChainsStep, NextInv, NextType
  <1> QED
    BY <1>1, <1>2, TypeCorrect, LocksWork, PTL DEF Spec

\* The committed rows of every account chain up to its balance.
THEOREM BalanceIsReconciled == Spec => []LedgerChain
  <1>1. Chains => LedgerChain
    BY DEF Chains, Chain, LedgerChain
  <1> QED
    BY <1>1, ChainsKept, PTL

-----------------------------------------------------------------------------
(* Conservation of money.                                                  *)

\* What comes in from outside is an integer.
LEMMA OutsideType ==
    ASSUME NEW rows \in Seq(Row)
    PROVE  /\ Outside(rows) \in [1 .. Len(rows) -> Int]
           /\ SumFunction(Outside(rows)) \in Int
  <1>1. PICK n \in Nat : n = Len(rows)
    OBVIOUS
  <1>2. \A x \in Row : Signed(x) \in Int
    BY DEF Row, Signed
  <1>3. Outside(rows) \in [1 .. n -> Int]
    BY <1>1, <1>2 DEF Outside
  <1>4. PICK f \in [1 .. n -> Int] : f = Outside(rows)
    BY <1>3
  <1>5. IsFiniteSet(1 .. n)
    BY FS_Interval
  <1>6. SumFunction(f) \in Int
    BY <1>5, SumType
  <1> QED
    BY <1>1, <1>3, <1>4, <1>6

\* A row that is appended adds what it brings in from outside.
LEMMA OutsideAppended ==
    ASSUME NEW rows \in Seq(Row), NEW row \in Row
    PROVE  SumFunction(Outside(Append(rows, row))) = SumFunction(Outside(rows))
              + (IF row.ref = NoTransfer THEN Signed(row) ELSE 0)
  <1> DEFINE brings(x) == IF x.ref = NoTransfer THEN Signed(x) ELSE 0
  <1>1. PICK n \in Nat : n = Len(rows)
    OBVIOUS
  <1>2. PICK more \in Seq(Row) : more = Append(rows, row)
    <2>1. Append(rows, row) \in Seq(Row)
      OBVIOUS
    <2> QED
      BY <2>1
  <1>3. /\ Len(more) = n + 1 /\ more[n + 1] = row
        /\ \A i \in 1 .. n : more[i] = rows[i]
    BY <1>1, <1>2
  <1>4. /\ Outside(more)[n + 1] = brings(row)
        /\ \A i \in 1 .. n : Outside(rows)[i] = Outside(more)[i]
    BY <1>1, <1>3 DEF Outside
  <1>5. PICK f \in [1 .. n -> Int] : f = Outside(rows)
    BY <1>1, OutsideType
  <1>6. PICK g \in [1 .. n + 1 -> Int] : g = Outside(more)
    BY <1>3, OutsideType
  <1>7. \A i \in 1 .. n : f[i] = g[i]
    BY <1>4, <1>5, <1>6
  <1>8. SumFunction(g) = SumFunction(f) + g[n + 1]
    BY <1>7, SumAppend
  <1> QED
    BY <1>2, <1>4, <1>5, <1>6, <1>8

\* The balance of one account and what it got from outside change alike.
LEMMA OneAccountStep ==
    ASSUME NEW B \in [Accounts -> Int], NEW B1 \in [Accounts -> Int],
           NEW E \in [Accounts -> Int], NEW E1 \in [Accounts -> Int],
           SumFunction(B) = SumFunction(E), NEW b \in Accounts,
           B1[b] - B[b] = E1[b] - E[b],
           \A a \in Accounts \ {b} : B[a] = B1[a] /\ E[a] = E1[a]
    PROVE  SumFunction(B1) = SumFunction(E1)
  <1>1. /\ SumFunction(B1) = SumFunction(B) + (B1[b] - B[b])
        /\ SumFunction(E1) = SumFunction(E) + (E1[b] - E[b])
    BY AccountsAssumption, SumUpdate
  <1> QED
    BY <1>1

\* The balances of two accounts change by opposite amounts.
LEMMA TwoAccountsStep ==
    ASSUME NEW B \in [Accounts -> Int], NEW B1 \in [Accounts -> Int],
           NEW b \in Accounts, NEW c \in Accounts, b # c,
           B1[b] - B[b] = B[c] - B1[c],
           \A a \in Accounts \ {b, c} : B[a] = B1[a]
    PROVE  SumFunction(B1) = SumFunction(B)
  <1> DEFINE M == [B EXCEPT ![b] = B1[b]]
  <1>1. M \in [Accounts -> Int] /\ M[b] = B1[b] /\ M[c] = B[c]
    OBVIOUS
  <1>2. \A a \in Accounts \ {b} : B[a] = M[a]
    OBVIOUS
  <1>3. \A a \in Accounts \ {c} : M[a] = B1[a]
    OBVIOUS
  <1> HIDE DEF M
  <1>4. SumFunction(M) = SumFunction(B) + (M[b] - B[b])
    BY <1>1, <1>2, AccountsAssumption, SumUpdate
  <1>5. SumFunction(B1) = SumFunction(M) + (B1[c] - M[c])
    BY <1>1, <1>3, AccountsAssumption, SumUpdate
  <1>6. /\ SumFunction(B) \in Int /\ B[b] \in Int /\ B1[b] \in Int
        /\ B[c] \in Int /\ B1[c] \in Int
    BY AccountsAssumption, SumType
  <1> QED
    BY <1>1, <1>4, <1>5, <1>6

\* A step of the bank keeps the sums equal.
LEMMA ConservationStep ==
    ASSUME TypeOK, TypeOK', Chains, Conservation, [Bank!Next]_(Bank!bankVars)
    PROVE  Conservation'
  <1>1. PICK B \in [Accounts -> Int] : B = balance
    BY DEF TypeOK
  <1>2. PICK B1 \in [Accounts -> Int] : B1 = balance'
    BY DEF TypeOK
  <1>3. \A a \in Accounts : External(a) \in Int /\ External(a)' \in Int
    BY OutsideType DEF TypeOK, External
  <1>4. PICK E \in [Accounts -> Int] : E = [a \in Accounts |-> External(a)]
    BY <1>3
  <1>5. PICK E1 \in [Accounts -> Int] : E1 = [a \in Accounts |-> External(a)']
    BY <1>3
  <1>6. SumFunction(B) = SumFunction(E)
    BY <1>1, <1>4 DEF Conservation
  <1>7. SUFFICES SumFunction(B1) = SumFunction(E1)
    BY <1>2, <1>5 DEF Conservation
  <1>8. ASSUME NEW a \in Accounts, opening'[a] = opening[a], ledger'[a] = ledger[a]
        PROVE  E[a] = E1[a]
    BY <1>4, <1>5, <1>8 DEF External
  <1>9. ASSUME NEW b \in Accounts, NEW m \in Openings, Bank!Open(b, m)
        PROVE  SumFunction(B1) = SumFunction(E1)
    <2>1. /\ opening' = [opening EXCEPT ![b] = m] /\ balance' = [balance EXCEPT ![b] = m]
          /\ ledger' = ledger /\ m \in Nat /\ status[b] = "absent"
      BY <1>9, AccountsAssumption DEF Bank!Open
    <2>2. balance[b] = opening[b]
      <3>1. Chain(b) /\ ledger[b] = <<>>
        BY <2>1 DEF Chains, Chain
      <3> QED
        BY <3>1 DEF Chain, Before
    <2>3. /\ B1[b] - B[b] = m - opening[b] /\ E1[b] - E[b] = m - opening[b]
      <3>1. /\ E[b] = opening[b] + SumFunction(Outside(ledger[b]))
            /\ E1[b] = m + SumFunction(Outside(ledger[b]))
            /\ opening[b] \in Int /\ SumFunction(Outside(ledger[b])) \in Int
        BY <1>4, <1>5, <2>1, OutsideType DEF External, TypeOK
      <3> QED
        BY <1>1, <1>2, <2>1, <2>2, <3>1 DEF TypeOK
    <2>4. \A a \in Accounts \ {b} : B[a] = B1[a] /\ E[a] = E1[a]
      BY <1>1, <1>2, <1>8, <2>1 DEF TypeOK
    <2> QED
      BY <1>6, <2>3, <2>4, OneAccountStep
  <1>10. ASSUME NEW b \in Accounts, NEW t \in {"debit", "credit"}, NEW m \in Amounts,
               Bank!Post(b, t, m)
        PROVE  SumFunction(B1) = SumFunction(E1)
    <2> DEFINE after == IF t = "credit" THEN balance[b] + m ELSE balance[b] - m
               row == Bank!Posting(t, m, after, NoTransfer)
    <2>1. /\ opening' = opening /\ m \in Nat /\ balance[b] \in Int
          /\ balance' = [balance EXCEPT ![b] = after]
          /\ ledger' = [ledger EXCEPT ![b] = Append(@, row)]
      BY <1>10, AccountsAssumption DEF Bank!Post, TypeOK
    <2>2. /\ row \in Row /\ row.ref = NoTransfer /\ Signed(row) \in Int
          /\ after = balance[b] + Signed(row)
      <3>1. CASE t = "credit"
        BY <2>1, <3>1 DEF Row, Bank!Posting, Signed
      <3>2. CASE t = "debit"
        BY <2>1, <3>2 DEF Row, Bank!Posting, Signed
      <3> QED
        BY <3>1, <3>2
    <2> HIDE DEF row, after
    <2>3. B1[b] - B[b] = Signed(row)
      BY <1>1, <1>2, <2>1, <2>2
    <2>4. E1[b] - E[b] = Signed(row)
      <3>1. ledger[b] \in Seq(Row) /\ ledger'[b] = Append(ledger[b], row)
        BY <2>1 DEF TypeOK
      <3>2. /\ SumFunction(Outside(ledger'[b])) = SumFunction(Outside(ledger[b])) + Signed(row)
            /\ SumFunction(Outside(ledger[b])) \in Int
        BY <2>2, <3>1, OutsideAppended, OutsideType
      <3>3. /\ E[b] = opening[b] + SumFunction(Outside(ledger[b]))
            /\ E1[b] = opening[b] + SumFunction(Outside(ledger'[b]))
            /\ opening[b] \in Int
        BY <1>4, <1>5, <2>1 DEF External, TypeOK
      <3> QED
        BY <2>2, <3>2, <3>3
    <2>5. \A a \in Accounts \ {b} : B[a] = B1[a] /\ E[a] = E1[a]
      BY <1>1, <1>2, <1>8, <2>1 DEF TypeOK
    <2> QED
      BY <1>6, <2>3, <2>4, <2>5, OneAccountStep
  <1>11. ASSUME NEW from \in Accounts, NEW to \in Accounts, NEW m \in Amounts,
                NEW id \in TransferIds, Bank!Move(from, to, m, id)
         PROVE  SumFunction(B1) = SumFunction(E1)
    <2>1. /\ opening' = opening /\ m \in Nat /\ from # to
          /\ balance[from] \in Int /\ balance[to] \in Int
          /\ balance' = [balance EXCEPT ![from] = @ - m, ![to] = @ + m]
          /\ ledger' = [ledger EXCEPT
                          ![from] = Append(@, Bank!Posting("debit", m, balance'[from], id)),
                          ![to] = Append(@, Bank!Posting("credit", m, balance'[to], id))]
      BY <1>11, AccountsAssumption DEF Bank!Move, TypeOK
    <2>2. SumFunction(B1) = SumFunction(B)
      <3>1. /\ B1[from] = B[from] - m /\ B1[to] = B[to] + m
            /\ \A a \in Accounts \ {from, to} : B[a] = B1[a]
        BY <1>1, <1>2, <2>1
      <3>2. B1[from] - B[from] = B[to] - B1[to] /\ from # to
        BY <2>1, <3>1
      <3>3. \A a \in Accounts \ {from, to} : B[a] = B1[a]
        BY <3>1
      <3> QED
        BY <3>2, <3>3, TwoAccountsStep
    <2>3. ASSUME NEW b \in {from, to}
          PROVE  E1[b] = E[b]
      <3>1. PICK row \in Row : row.ref = id /\ ledger'[b] = Append(ledger[b], row)
        <4> DEFINE debit == Bank!Posting("debit", m, balance'[from], id)
                   credit == Bank!Posting("credit", m, balance'[to], id)
        <4>1. debit \in Row /\ credit \in Row /\ debit.ref = id /\ credit.ref = id
          BY <2>1 DEF Bank!Posting, Row, TypeOK
        <4>2. /\ ledger'[from] = Append(ledger[from], debit)
              /\ ledger'[to] = Append(ledger[to], credit)
          BY <2>1 DEF TypeOK
        <4> HIDE DEF debit, credit
        <4> QED
          BY <2>3, <4>1, <4>2
      <3>2. ledger[b] \in Seq(Row)
        BY <2>3 DEF TypeOK
      <3>3. row.ref # NoTransfer
        BY <3>1, AccountsAssumption
      <3>4. SumFunction(Outside(Append(ledger[b], row)))
              = SumFunction(Outside(ledger[b])) + (IF row.ref = NoTransfer THEN Signed(row) ELSE 0)
        BY <3>2, OutsideAppended
      <3>5. SumFunction(Outside(ledger'[b])) = SumFunction(Outside(ledger[b]))
        BY <3>1, <3>2, <3>3, <3>4, OutsideType
      <3> QED
        BY <1>4, <1>5, <2>1, <2>3, <3>5 DEF External
    <2>4. \A a \in Accounts : E[a] = E1[a]
      BY <1>8, <2>1, <2>3 DEF TypeOK
    <2>5. E = E1
      BY <2>4
    <2> QED
      BY <1>6, <2>2, <2>5
  <1>12. CASE UNCHANGED <<opening, balance, ledger>>
    <2>1. \A a \in Accounts : E[a] = E1[a]
      BY <1>8, <1>12
    <2>2. E = E1 /\ B = B1
      BY <1>1, <1>2, <1>12, <2>1
    <2> QED
      BY <1>6, <2>2
  <1>13. ASSUME NEW b \in Accounts, Bank!Close(b)
         PROVE  SumFunction(B1) = SumFunction(E1)
    BY <1>12, <1>13 DEF Bank!Close
  <1> QED
    BY <1>9, <1>10, <1>11, <1>12, <1>13 DEF Bank!Next, Bank!bankVars

\* Transfers conserve money: the balances together are what came in from outside.
THEOREM MoneyIsConserved == Spec => []Conservation
  <1>1. Init => Conservation
    <2> SUFFICES ASSUME Init
                 PROVE  Conservation
      OBVIOUS
    <2>1. Outside(<<>>) \in [{} -> Int]
      BY DEF Outside
    <2>2. SumFunction(Outside(<<>>)) = 0
      BY <2>1, SumEmpty
    <2>3. \A a \in Accounts : External(a) = 0
      BY <2>2 DEF Init, External
    <2>4. [a \in Accounts |-> External(a)] = balance
      BY <2>3 DEF Init
    <2> QED
      BY <2>4 DEF Conservation
  <1>2. TypeOK /\ SessionInv /\ Chains /\ Conservation /\ [Next]_vars => Conservation'
    BY ConservationStep, NextInv, NextType
  <1> QED
    BY <1>1, <1>2, TypeCorrect, LocksWork, ChainsKept, PTL DEF Spec

\* Rows that carry an id stay what they are when rows of other ids are added.
LEMMA LegsKept ==
    ASSUME TypeOK, NEW a \in Accounts, NEW id,
           \/ ledger'[a] = ledger[a]
           \/ \E x \in Row : x.ref # id /\ ledger'[a] = Append(ledger[a], x)
    PROVE  /\ RowsOf(a, id)' = RowsOf(a, id)
           /\ \A i \in RowsOf(a, id) : ledger'[a][i] = ledger[a][i]
  <1>1. CASE ledger'[a] = ledger[a]
    BY <1>1 DEF RowsOf
  <1>2. ASSUME NEW x \in Row, x.ref # id, ledger'[a] = Append(ledger[a], x)
        PROVE  /\ RowsOf(a, id)' = RowsOf(a, id)
               /\ \A i \in RowsOf(a, id) : ledger'[a][i] = ledger[a][i]
    <2> PICK n \in Nat : n = Len(ledger[a])
      BY DEF TypeOK
    <2>1. /\ Len(ledger'[a]) = n + 1 /\ ledger'[a][n + 1] = x
          /\ \A i \in 1 .. n : ledger'[a][i] = ledger[a][i]
      BY <1>2 DEF TypeOK
    <2> QED
      BY <1>2, <2>1 DEF RowsOf
  <1> QED
    BY <1>1, <1>2

\* The first row that carries an id is the only one.
LEMMA LegAdded ==
    ASSUME TypeOK, NEW a \in Accounts, NEW id \in TransferIds, NEW x \in Row, x.ref = id,
           \A k \in 1 .. Len(ledger[a]) : ledger[a][k].ref # id,
           ledger'[a] = Append(ledger[a], x)
    PROVE  \E i \in 1 .. Len(ledger'[a]) :
              /\ \A k \in 1 .. Len(ledger'[a]) : ledger'[a][k].ref = id <=> k = i
              /\ ledger'[a][i] = x
  <1> PICK n \in Nat : n = Len(ledger[a])
    BY DEF TypeOK
  <1>1. /\ Len(ledger'[a]) = n + 1 /\ ledger'[a][n + 1] = x
        /\ \A i \in 1 .. n : ledger'[a][i] = ledger[a][i]
    BY DEF TypeOK
  <1>2. \A k \in 1 .. n + 1 : ledger'[a][k].ref = id <=> k = n + 1
    BY <1>1
  <1> QED
    BY <1>1, <1>2

\* One leg of a transfer: the only row with its id in the ledger of account a.
Leg(a, id, type, amount) ==
    \E i \in RowsOf(a, id) :
        RowsOf(a, id) = {i} /\ ledger[a][i].type = type /\ ledger[a][i].amount = amount

\* Every row with the id of a transfer in the ledger of account a is a leg of a
\* committed one.
NoStray(a, id) ==
    RowsOf(a, id) # {} => \E t \in transfers : t.id = id /\ a \in {t.from, t.to}

\* Every committed transfer has both its legs, and no row is half a transfer.
THEOREM TransfersAreWhole == Spec => []TransferLegs
  <1> DEFINE Inv == /\ \A t \in transfers : /\ Leg(t.from, t.id, "debit", t.amount)
                                             /\ Leg(t.to, t.id, "credit", t.amount)
                    /\ \A a \in Accounts, id \in TransferIds : NoStray(a, id)
  <1>1. Init => Inv
    BY DEF Init, NoStray, RowsOf
  <1>2. ASSUME TypeOK, Inv, [Bank!Next]_(Bank!bankVars)
        PROVE  Inv'
    <2> USE AccountsAssumption
    \* Steps that add no transfer and no row with the id of one.
    <2>1. ASSUME transfers' = transfers,
                 \A a \in Accounts : \/ ledger'[a] = ledger[a]
                                    \/ \E x \in Row : x.ref = NoTransfer
                                                     /\ ledger'[a] = Append(ledger[a], x)
          PROVE  Inv'
      <3>1. ASSUME NEW a \in Accounts, NEW id \in TransferIds
            PROVE  /\ RowsOf(a, id)' = RowsOf(a, id)
                   /\ \A i \in RowsOf(a, id) : ledger'[a][i] = ledger[a][i]
        BY <1>2, <2>1, LegsKept
      <3>2. ASSUME NEW t \in transfers
            PROVE  Leg(t.from, t.id, "debit", t.amount)' /\ Leg(t.to, t.id, "credit", t.amount)'
        <4>1. t.from \in Accounts /\ t.to \in Accounts /\ t.id \in TransferIds
          BY <1>2 DEF TypeOK, Transfer
        <4>2. Leg(t.from, t.id, "debit", t.amount) /\ Leg(t.to, t.id, "credit", t.amount)
          BY <1>2
        <4> QED
          BY <3>1, <4>1, <4>2 DEF Leg
      <3>3. ASSUME NEW a \in Accounts, NEW id \in TransferIds
            PROVE  NoStray(a, id)'
        <4>1. NoStray(a, id)
          BY <1>2
        <4> QED
          BY <2>1, <3>1, <4>1 DEF NoStray
      <3> QED
        BY <2>1, <3>2, <3>3
    <2>2. ASSUME NEW b \in Accounts, NEW m \in Openings, Bank!Open(b, m)
          PROVE  Inv'
      BY <2>1, <2>2 DEF Bank!Open
    <2>3. ASSUME NEW b \in Accounts, Bank!Close(b)
          PROVE  Inv'
      BY <2>1, <2>3 DEF Bank!Close
    <2>4. ASSUME NEW b \in Accounts, NEW y \in {"debit", "credit"}, NEW m \in Amounts,
                 Bank!Post(b, y, m)
          PROVE  Inv'
      <3> DEFINE after == IF y = "credit" THEN balance[b] + m ELSE balance[b] - m
                 row == Bank!Posting(y, m, after, NoTransfer)
      <3>1. row \in Row /\ row.ref = NoTransfer
        BY <1>2 DEF Row, Bank!Posting, TypeOK
      <3>2. transfers' = transfers /\ ledger' = [ledger EXCEPT ![b] = Append(@, row)]
        BY <2>4 DEF Bank!Post
      <3> HIDE DEF row
      <3>3. \A a \in Accounts : \/ ledger'[a] = ledger[a]
                               \/ ledger'[a] = Append(ledger[a], row)
        BY <1>2, <3>2 DEF TypeOK
      <3> QED
        BY <2>1, <3>1, <3>2, <3>3
    <2>5. ASSUME NEW from \in Accounts, NEW to \in Accounts, NEW m \in Amounts,
                 NEW id \in TransferIds, Bank!Move(from, to, m, id)
          PROVE  Inv'
      <3> DEFINE debit == Bank!Posting("debit", m, balance'[from], id)
                 credit == Bank!Posting("credit", m, balance'[to], id)
                 new == [id |-> id, from |-> from, to |-> to, amount |-> m]
      <3>1. /\ from # to /\ transfers' = transfers \cup {new}
            /\ \A t \in transfers : t.id # id
            /\ balance' = [balance EXCEPT ![from] = @ - m, ![to] = @ + m]
            /\ ledger' = [ledger EXCEPT ![from] = Append(@, debit), ![to] = Append(@, credit)]
        BY <2>5 DEF Bank!Move
      <3>2. balance'[from] \in Int /\ balance'[to] \in Int
        BY <1>2, <3>1 DEF TypeOK
      <3>3. /\ debit \in Row /\ debit.ref = id /\ debit.type = "debit" /\ debit.amount = m
            /\ credit \in Row /\ credit.ref = id /\ credit.type = "credit"
            /\ credit.amount = m
        BY <3>2 DEF Row, Bank!Posting
      <3>4. new.id = id /\ new.from = from /\ new.to = to /\ new.amount = m
        OBVIOUS
      <3> HIDE DEF debit, credit, new
      <3>5. /\ ledger'[from] = Append(ledger[from], debit)
            /\ ledger'[to] = Append(ledger[to], credit)
            /\ \A a \in Accounts : a # from /\ a # to => ledger'[a] = ledger[a]
        BY <1>2, <3>1 DEF TypeOK
      <3>6. ASSUME NEW a \in Accounts, NEW i \in TransferIds, i # id
            PROVE  /\ RowsOf(a, i)' = RowsOf(a, i)
                   /\ \A k \in RowsOf(a, i) : ledger'[a][k] = ledger[a][k]
        BY <1>2, <3>3, <3>5, <3>6, LegsKept
      <3>7. RowsOf(from, id) = {} /\ RowsOf(to, id) = {}
        BY <1>2, <3>1 DEF NoStray
      <3>8. ASSUME NEW t \in transfers
            PROVE  Leg(t.from, t.id, "debit", t.amount)' /\ Leg(t.to, t.id, "credit", t.amount)'
        <4>1. /\ t.from \in Accounts /\ t.to \in Accounts /\ t.id \in TransferIds
              /\ t.id # id
          BY <1>2, <3>1 DEF TypeOK, Transfer
        <4>2. Leg(t.from, t.id, "debit", t.amount) /\ Leg(t.to, t.id, "credit", t.amount)
          BY <1>2
        <4> QED
          BY <3>6, <4>1, <4>2 DEF Leg
      <3>9. Leg(from, id, "debit", m)' /\ Leg(to, id, "credit", m)'
        <4>1. \E i \in RowsOf(from, id)' : RowsOf(from, id)' = {i} /\ ledger'[from][i] = debit
          <5> PICK x \in Row : x = debit
            BY <3>3
          <5>1. /\ TypeOK /\ x.ref = id /\ ledger'[from] = Append(ledger[from], x)
                /\ \A k \in 1 .. Len(ledger[from]) : ledger[from][k].ref # id
            BY <1>2, <3>3, <3>5, <3>7 DEF RowsOf
          <5>2. \E i \in 1 .. Len(ledger'[from]) :
                   /\ \A k \in 1 .. Len(ledger'[from]) : ledger'[from][k].ref = id <=> k = i
                   /\ ledger'[from][i] = x
            BY <5>1, LegAdded
          <5> QED
            BY <5>2 DEF RowsOf
        <4>2. \E i \in RowsOf(to, id)' : RowsOf(to, id)' = {i} /\ ledger'[to][i] = credit
          <5> PICK x \in Row : x = credit
            BY <3>3
          <5>1. /\ TypeOK /\ x.ref = id /\ ledger'[to] = Append(ledger[to], x)
                /\ \A k \in 1 .. Len(ledger[to]) : ledger[to][k].ref # id
            BY <1>2, <3>3, <3>5, <3>7 DEF RowsOf
          <5>2. \E i \in 1 .. Len(ledger'[to]) :
                   /\ \A k \in 1 .. Len(ledger'[to]) : ledger'[to][k].ref = id <=> k = i
                   /\ ledger'[to][i] = x
            BY <5>1, LegAdded
          <5> QED
            BY <5>2 DEF RowsOf
        <4> QED
          BY <3>3, <4>1, <4>2 DEF Leg
      <3>10. ASSUME NEW a \in Accounts, NEW i \in TransferIds
             PROVE  NoStray(a, i)'
        <4>1. CASE i # id
          <5>1. NoStray(a, i)
            BY <1>2
          <5> QED
            BY <3>1, <3>6, <4>1, <5>1 DEF NoStray
        <4>2. CASE i = id /\ a \in {from, to}
          BY <3>1, <3>4, <4>2 DEF NoStray
        <4>3. CASE i = id /\ a \notin {from, to}
          <5>1. RowsOf(a, id)' = RowsOf(a, id)
            BY <1>2, <3>5, <4>3, LegsKept
          <5>2. RowsOf(a, id) = {}
            BY <1>2, <3>1 DEF NoStray
          <5> QED
            BY <4>3, <5>1, <5>2 DEF NoStray
        <4> QED
          BY <4>1, <4>2, <4>3
      <3> QED
        BY <3>1, <3>4, <3>8, <3>9, <3>10
    <2>6. CASE UNCHANGED Bank!bankVars
      BY <2>1, <2>6 DEF Bank!bankVars
    <2> QED
      BY <1>2, <2>2, <2>3, <2>4, <2>5, <2>6 DEF Bank!Next
  <1>3. TypeOK /\ SessionInv /\ Inv /\ [Next]_vars => Inv'
    BY <1>2, NextInv
  <1>4. Inv => TransferLegs
    BY DEF TransferLegs, Leg, NoStray
  <1> HIDE DEF Inv
  <1> QED
    BY <1>1, <1>3, <1>4, TypeCorrect, LocksWork, PTL DEF Spec
=============================================================================
