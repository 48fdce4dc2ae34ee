--------------------------- MODULE SessionsProofs ---------------------------
(***************************************************************************)
(* What the sessions of Sessions keep, whatever the handlers are: the      *)
(* invariant that the proofs about Sales, Purchases and Payroll are built  *)
(* on, and one lemma for each thing a handler can do to it.                *)
(***************************************************************************)
EXTENDS Sessions, TLAPS

\* table: for each key, the set of the rows that may have it.  The rows, committed
\* or written by a session, are of their tables.
RowsOf(table) == (UNION {table[k] : k \in DOMAIN table}) \cup {NoRow}

SessionRows(table) ==
    /\ db \in [DOMAIN table -> RowsOf(table)]
    /\ mine \in [Requests -> [DOMAIN table -> RowsOf(table)]]
    /\ held \in [Requests -> SUBSET DOMAIN table]
    /\ arrived \in 0 .. MaxArrivals
    /\ \A k \in DOMAIN table : db[k] \in table[k] \cup {NoRow}
    /\ \A r \in Requests, k \in DOMAIN table : mine[r][k] \in table[k] \cup {NoRow}

\* A row is locked by one session.  A session has locked the rows that it has
\* written, but those that it has inserted, which nobody else can insert.
SessionLocks ==
    /\ \A r \in Requests : \A k \in held[r] : db[k] # NoRow /\ Free(r, k)
    /\ \A r \in Requests, k \in DOMAIN db :
         mine[r][k] # NoRow =>
            /\ k \in held[r] \/ db[k] = NoRow
            /\ \A s \in Requests \ {r} : mine[s][k] = NoRow
    /\ \A r \in Requests : ~Open(r) => held[r] = {} /\ \A k \in DOMAIN db : mine[r][k] = NoRow

SessionInv(table) == SessionRows(table) /\ SessionLocks

\* The requests of the other sessions go on.
OthersWait(r) == \A s \in Requests \ {r} : job'[s] = job[s]

-----------------------------------------------------------------------------

LEMMA RowsOfTable ==
    ASSUME NEW table
    PROVE  NoRow \in RowsOf(table) /\ \A k \in DOMAIN table : table[k] \subseteq RowsOf(table)
  <1>1. ASSUME NEW k \in DOMAIN table, NEW row \in table[k]
        PROVE  row \in RowsOf(table)
    <2> DEFINE tables == {table[q] : q \in DOMAIN table}
    <2>1. table[k] \in tables
      OBVIOUS
    <2>2. row \in UNION tables
      BY <2>1, Zenon
    <2> QED
      BY <2>2 DEF RowsOf
  <1> QED
    BY <1>1 DEF RowsOf

\* Nothing is open at first.
LEMMA InitSession ==
    ASSUME NEW table, SessionInit(DOMAIN table)
    PROVE  SessionInv(table)
  BY SessionsAssumption, RowsOfTable
  DEF SessionInit, SessionInv, SessionRows, SessionLocks, Free, Open

\* A step that concerns jobs only.
LEMMA JobStep ==
    ASSUME NEW table, SessionInv(table), NEW r \in Requests, OthersWait(r),
           Open(r)', UNCHANGED <<db, mine, held>>, arrived' \in 0 .. MaxArrivals
    PROVE  SessionInv(table)'
  <1>1. SessionRows(table)'
    BY DEF SessionInv, SessionRows
  <1>2. \A s \in Requests : ~Open(s)' => ~Open(s)
    BY DEF Open, OthersWait
  <1> QED
    BY <1>1, <1>2 DEF SessionInv, SessionLocks, Free

\* What a flush changes.
LEMMA Written ==
    ASSUME NEW table, SessionInv(table), NEW r \in Requests, NEW k \in DOMAIN table,
           NEW row, Write(r, k, row)
    PROVE  /\ mine'[r][k] = row /\ \A q \in DOMAIN table \ {k} : mine'[r][q] = mine[r][q]
           /\ held'[r] = held[r] \cup {k}
           /\ \A s \in Requests \ {r} : mine'[s] = mine[s] /\ held'[s] = held[s]
  BY DEF SessionInv, SessionRows, Write

\* A flush, of a row that is free.
LEMMA WriteStep ==
    ASSUME NEW table, SessionInv(table), NEW r \in Requests, OthersWait(r), Open(r)',
           NEW k \in DOMAIN table, NEW row \in table[k], db[k] # NoRow, Free(r, k),
           Write(r, k, row), UNCHANGED db, arrived' \in 0 .. MaxArrivals
    PROVE  SessionInv(table)'
  <1> USE DEF SessionInv, SessionRows
  <1>1. /\ mine'[r] = [mine[r] EXCEPT ![k] = row] /\ mine'[r][k] = row
        /\ \A q \in DOMAIN table \ {k} : mine'[r][q] = mine[r][q]
        /\ \A s \in Requests \ {r} : mine'[s] = mine[s]
    BY DEF Write
  <1>2. held'[r] = held[r] \cup {k} /\ \A s \in Requests \ {r} : held'[s] = held[s]
    BY DEF Write
  <1>3. SessionRows(table)'
    <2>1. mine' \in [Requests -> [DOMAIN table -> RowsOf(table)]]
      BY RowsOfTable DEF Write
    <2>2. held' \in [Requests -> SUBSET DOMAIN table]
      BY DEF Write
    <2> QED
      BY <1>1, <2>1, <2>2
  <1>4. SessionLocks'
    <2>1. ASSUME NEW s \in Requests, NEW q \in held'[s]
          PROVE  db[q] # NoRow /\ \A t \in Requests \ {s} : q \notin held'[t]
      BY <1>2 DEF SessionLocks, Free
    <2>2. ASSUME NEW s \in Requests, NEW q \in DOMAIN table, mine'[s][q] # NoRow
          PROVE  /\ q \in held'[s] \/ db[q] = NoRow
                 /\ \A t \in Requests \ {s} : mine'[t][q] = NoRow
      <3>1. \A t \in Requests \ {r} : k \notin held[t] /\ mine[t][k] = NoRow
        BY DEF SessionLocks, Free
      <3> QED
        BY <1>1, <1>2, <2>2, <3>1 DEF SessionLocks
    <2>3. \A s \in Requests \ {r} : ~Open(s)' => ~Open(s)
      BY DEF Open, OthersWait
    <2>4. \A s \in Requests : ~Open(s)' =>
             held'[s] = {} /\ \A q \in DOMAIN table : mine'[s][q] = NoRow
      BY <1>1, <1>2, <2>3 DEF SessionLocks
    <2> QED
      BY <2>1, <2>2, <2>4 DEF SessionLocks, Free
  <1> QED
    BY <1>3, <1>4

\* SELECT ... FOR UPDATE, of a row that is free.
LEMMA HoldStep ==
    ASSUME NEW table, SessionInv(table), NEW r \in Requests, OthersWait(r), Open(r)',
           NEW k \in DOMAIN table, db[k] # NoRow, Free(r, k),
           Hold(r, k), UNCHANGED <<db, mine, arrived>>
    PROVE  SessionInv(table)'
  <1> USE DEF SessionInv, SessionRows
  <1>1. held'[r] = held[r] \cup {k} /\ \A s \in Requests \ {r} : held'[s] = held[s]
    BY DEF Hold
  <1>2. SessionRows(table)'
    BY DEF Hold
  <1>3. SessionLocks'
    BY <1>1 DEF SessionLocks, Free, OthersWait, Open
  <1> QED
    BY <1>2, <1>3

\* An INSERT: nobody else can have inserted a row with the key, or find it.
LEMMA InsertStep ==
    ASSUME NEW table, SessionInv(table), NEW r \in Requests, OthersWait(r), Open(r)',
           NEW k \in DOMAIN table, NEW row \in table[k], Unused(k),
           mine' = [mine EXCEPT ![r][k] = row], UNCHANGED <<db, held>>,
           arrived' \in 0 .. MaxArrivals
    PROVE  SessionInv(table)'
  <1> USE DEF SessionInv, SessionRows
  <1>1. /\ mine'[r][k] = row
        /\ \A q \in DOMAIN table \ {k} : mine'[r][q] = mine[r][q]
        /\ \A s \in Requests \ {r} : mine'[s] = mine[s]
    OBVIOUS
  <1>2. SessionRows(table)'
    <2>1. mine' \in [Requests -> [DOMAIN table -> RowsOf(table)]]
      BY RowsOfTable
    <2> QED
      BY <1>1, <2>1
  <1>3. SessionLocks'
    BY <1>1 DEF SessionLocks, Free, OthersWait, Open, Unused
  <1> QED
    BY <1>2, <1>3

\* A flush of a row that is free, and an INSERT next to it.
LEMMA WriteAndInsertStep ==
    ASSUME NEW table, SessionInv(table), NEW r \in Requests, OthersWait(r), Open(r)',
           NEW k \in DOMAIN table, NEW row \in table[k], db[k] # NoRow, Free(r, k),
           NEW q \in DOMAIN table, NEW new \in table[q], Unused(q), Hold(r, k),
           mine' \in [Requests -> [DOMAIN table -> RowsOf(table)]],
           mine'[r][k] = row, mine'[r][q] = new,
           \A x \in DOMAIN table \ {k, q} : mine'[r][x] = mine[r][x],
           \A s \in Requests \ {r} : mine'[s] = mine[s],
           UNCHANGED <<db, arrived>>
    PROVE  SessionInv(table)'
  <1> USE DEF SessionInv, SessionRows
  <1>1. /\ mine'[r][k] = row /\ mine'[r][q] = new
        /\ \A x \in DOMAIN table \ {k, q} : mine'[r][x] = mine[r][x]
        /\ \A s \in Requests \ {r} : mine'[s] = mine[s]
    OBVIOUS
  <1>2. held'[r] = held[r] \cup {k} /\ \A s \in Requests \ {r} : held'[s] = held[s]
    BY DEF Hold
  <1>3. SessionRows(table)'
    <2>1. held' \in [Requests -> SUBSET DOMAIN table]
      BY DEF Hold
    <2> QED
      BY <1>1, <2>1
  <1>4. SessionLocks'
    <2>1. ASSUME NEW s \in Requests, NEW x \in held'[s]
          PROVE  db[x] # NoRow /\ \A t \in Requests \ {s} : x \notin held'[t]
      <3>1. CASE x \in held[s]
        <4>1. db[x] # NoRow /\ \A t \in Requests \ {s} : x \notin held[t]
          BY <3>1 DEF SessionLocks, Free
        <4>2. r # s => x # k
          BY <3>1 DEF Free
        <4> QED
          BY <1>2, <4>1, <4>2
      <3>2. CASE x \notin held[s]
        <4>1. x = k /\ s = r
          BY <1>2, <3>2
        <4> QED
          BY <1>2, <4>1 DEF Free
      <3> QED
        BY <3>1, <3>2
    <2>2. ASSUME NEW s \in Requests, NEW x \in DOMAIN table, mine'[s][x] # NoRow
          PROVE  /\ x \in held'[s] \/ db[x] = NoRow
                 /\ \A t \in Requests \ {s} : mine'[t][x] = NoRow
      <3>1. \A t \in Requests \ {r} : k \notin held[t] /\ mine[t][k] = NoRow
        BY DEF SessionLocks, Free
      <3>2. \A t \in Requests : db[q] = NoRow /\ mine[t][q] = NoRow
        BY DEF Unused
      <3>3. CASE x \in {k, q}
        <4>1. \A t \in Requests \ {r} : mine'[t][x] = NoRow
          BY <1>1, <3>1, <3>2, <3>3
        <4>2. s = r
          BY <2>2, <4>1
        <4>3. x \in held'[s] \/ db[x] = NoRow
          BY <1>2, <3>2, <3>3, <4>2
        <4> QED
          BY <4>1, <4>2, <4>3
      <3>4. CASE x \notin {k, q}
        <4>1. \A t \in Requests : mine'[t][x] = mine[t][x]
          BY <1>1, <3>4
        <4>2. /\ x \in held[s] \/ db[x] = NoRow
              /\ \A t \in Requests \ {s} : mine[t][x] = NoRow
          BY <2>2, <4>1 DEF SessionLocks
        <4> QED
          BY <1>2, <4>1, <4>2
      <3> QED
        BY <3>3, <3>4
    <2>3. \A s \in Requests \ {r} : ~Open(s)' => ~Open(s)
      BY DEF Open, OthersWait
    <2>4. \A s \in Requests : ~Open(s)' =>
             held'[s] = {} /\ \A x \in DOMAIN table : mine'[s][x] = NoRow
      BY <1>1, <1>2, <2>3 DEF SessionLocks
    <2> QED
      BY <2>1, <2>2, <2>4 DEF SessionLocks, Free
  <1> QED
    BY <1>1, <1>3, <1>4

\* A transaction of INSERTs alone, of rows that no session has to do with.
LEMMA CreateStep ==
    ASSUME NEW table, SessionInv(table), db' \in [DOMAIN table -> RowsOf(table)],
           \A k \in DOMAIN table : db'[k] = db[k] \/ (Unused(k) /\ db'[k] \in table[k]),
           UNCHANGED <<job, mine, held, arrived>>
    PROVE  SessionInv(table)'
  <1> USE DEF SessionInv, SessionRows
  <1>1. SessionRows(table)'
    OBVIOUS
  <1>2. SessionLocks'
    <2>1. ASSUME NEW r \in Requests, NEW q \in held[r]
          PROVE  db'[q] # NoRow
      BY DEF SessionLocks, Unused
    <2>2. ASSUME NEW r \in Requests, NEW q \in DOMAIN table, mine[r][q] # NoRow
          PROVE  q \in held[r] \/ db'[q] = NoRow
      BY <2>2 DEF SessionLocks, Unused
    <2> QED
      BY <2>1, <2>2 DEF SessionLocks, Free, Open
  <1> QED
    BY <1>1, <1>2

\* The end of a session takes its locks and its versions away.
LEMMA EndOfSession ==
    ASSUME NEW table, SessionInv(table), NEW r \in Requests, EndSession(r),
           NEW Jobs, job \in [Requests -> Jobs]
    PROVE  /\ job'[r] = NoJob /\ OthersWait(r)
           /\ held'[r] = {} /\ \A s \in Requests \ {r} : held'[s] = held[s]
           /\ \A k \in DOMAIN table : mine'[r][k] = NoRow
           /\ \A s \in Requests \ {r} : mine'[s] = mine[s]
           /\ mine' \in [Requests -> [DOMAIN table -> RowsOf(table)]]
           /\ held' \in [Requests -> SUBSET DOMAIN table]
  BY RowsOfTable DEF SessionInv, SessionRows, EndSession, NoVersions, OthersWait

\* The locks are in order after the end of a session, when the rows that the
\* others have locked are still there, and those they have inserted are not.
LEMMA EndLocks ==
    ASSUME NEW table, SessionInv(table), NEW r \in Requests, EndSession(r),
           NEW Jobs, job \in [Requests -> Jobs], DOMAIN db' = DOMAIN table,
           \A s \in Requests \ {r} : \A k \in DOMAIN table :
              k \in held[s] \/ mine[s][k] # NoRow => db'[k] = db[k]
    PROVE  SessionLocks'
  <1>1. /\ job'[r] = NoJob /\ OthersWait(r)
        /\ held'[r] = {} /\ \A s \in Requests \ {r} : held'[s] = held[s]
        /\ \A k \in DOMAIN table : mine'[r][k] = NoRow
        /\ \A s \in Requests \ {r} : mine'[s] = mine[s]
    BY EndOfSession, Zenon
  <1>2. ASSUME NEW s \in Requests, NEW k \in held'[s]
        PROVE  db'[k] # NoRow /\ \A t \in Requests \ {s} : k \notin held'[t]
    BY <1>1 DEF SessionInv, SessionRows, SessionLocks, Free
  <1>3. ASSUME NEW s \in Requests, NEW k \in DOMAIN table, mine'[s][k] # NoRow
        PROVE  /\ k \in held'[s] \/ db'[k] = NoRow
               /\ \A t \in Requests \ {s} : mine'[t][k] = NoRow
    <2>1. s # r /\ mine[s][k] # NoRow /\ held'[s] = held[s] /\ db'[k] = db[k]
      BY <1>1, <1>3
    <2>2. /\ k \in held[s] \/ db[k] = NoRow
          /\ \A t \in Requests \ {s} : mine[t][k] = NoRow
      <3>1. DOMAIN db = DOMAIN table
        BY DEF SessionInv, SessionRows
      <3> QED
        BY <2>1, <3>1 DEF SessionInv, SessionLocks
    <2>3. ASSUME NEW t \in Requests \ {s}
          PROVE  mine'[t][k] = NoRow
      <3>1. CASE t = r
        BY <3>1, <1>1
      <3>2. CASE t # r
        BY <3>2, <1>1, <2>2
      <3> QED
        BY <3>1, <3>2
    <2> QED
      BY <2>1, <2>2, <2>3
  <1>4. ASSUME NEW s \in Requests, ~Open(s)'
        PROVE  held'[s] = {} /\ \A k \in DOMAIN table : mine'[s][k] = NoRow
    BY <1>1, <1>4 DEF SessionInv, SessionRows, SessionLocks, Open, OthersWait
  <1> QED
    BY <1>2, <1>3, <1>4 DEF SessionLocks, Free

LEMMA RollbackStep ==
    ASSUME NEW table, SessionInv(table), NEW r \in Requests, Rollback(r),
           NEW Jobs, job \in [Requests -> Jobs]
    PROVE  SessionInv(table)'
  <1>1. EndSession(r) /\ UNCHANGED <<db, arrived>>
    BY DEF Rollback
  <1>2. SessionRows(table)'
    <2>1. /\ mine' \in [Requests -> [DOMAIN table -> RowsOf(table)]]
          /\ held' \in [Requests -> SUBSET DOMAIN table]
          /\ \A k \in DOMAIN table : mine'[r][k] = NoRow
          /\ \A s \in Requests \ {r} : mine'[s] = mine[s]
      BY <1>1, EndOfSession
    <2> QED
      BY <1>1, <2>1 DEF SessionInv, SessionRows
  <1>3. SessionLocks'
    BY <1>1, EndLocks DEF SessionInv, SessionRows
  <1> QED
    BY <1>2, <1>3 DEF SessionInv

\* What a commit publishes; no row goes.
LEMMA Published ==
    ASSUME NEW table, SessionInv(table), NEW r \in Requests, Commit(r)
    PROVE  /\ db' \in [DOMAIN table -> RowsOf(table)]
           /\ \A k \in DOMAIN table :
                /\ db'[k] = IF mine[r][k] # NoRow THEN mine[r][k] ELSE db[k]
                /\ db[k] # NoRow => db'[k] # NoRow
                /\ db'[k] \in table[k] \cup {NoRow}
  BY RowsOfTable DEF SessionInv, SessionRows, Commit, Seen

\* What another session has locked or written is not changed by a commit.
LEMMA CommitSpares ==
    ASSUME NEW table, SessionInv(table), NEW r \in Requests, Commit(r)
    PROVE  \A s \in Requests \ {r} : \A k \in DOMAIN table :
              k \in held[s] \/ mine[s][k] # NoRow => db'[k] = db[k]
  BY Published DEF SessionInv, SessionRows, SessionLocks, Free

LEMMA CommitStep ==
    ASSUME NEW table, SessionInv(table), NEW r \in Requests, Commit(r),
           NEW Jobs, job \in [Requests -> Jobs]
    PROVE  SessionInv(table)'
  <1>1. EndSession(r) /\ UNCHANGED arrived
    BY DEF Commit
  <1>2. SessionRows(table)'
    <2>1. /\ mine' \in [Requests -> [DOMAIN table -> RowsOf(table)]]
          /\ held' \in [Requests -> SUBSET DOMAIN table]
          /\ \A k \in DOMAIN table : mine'[r][k] = NoRow
          /\ \A s \in Requests \ {r} : mine'[s] = mine[s]
      BY <1>1, EndOfSession
    <2>2. /\ db' \in [DOMAIN table -> RowsOf(table)]
          /\ \A k \in DOMAIN table : db'[k] \in table[k] \cup {NoRow}
      BY Published
    <2> QED
      BY <1>1, <2>1, <2>2 DEF SessionInv, SessionRows
  <1>3. SessionLocks'
    BY <1>1, EndLocks, CommitSpares, Published
  <1> QED
    BY <1>2, <1>3 DEF SessionInv
=============================================================================
