------------------------------ MODULE Sessions ------------------------------
(***************************************************************************)
(* A request and its database session, for the modules that model the      *)
(* handlers: app/core/database.py (get_db), the commit of the endpoints,   *)
(* and the ways of SQLAlchemy and PostgreSQL that the handlers rely on.    *)
(*                                                                         *)
(* A session sees what was committed and its own writes (READ COMMITTED),  *)
(* keeps the rows it wrote or locked until it ends, and publishes its rows *)
(* at commit.  An object that it already holds keeps its attributes when a *)
(* locking SELECT returns the row again, and a flush writes only the       *)
(* attributes that differ from what was loaded.  The locks that foreign    *)
(* keys take, which only make sessions wait, are left out.                 *)
(***************************************************************************)
EXTENDS Integers, Sequences, FiniteSets, FiniteSetsExt

CONSTANTS
    Requests,     \* sessions that can be open at the same time
    Ops,          \* the requests that can arrive; "none" is no request
    NoKey,        \* the request concerns no such row
    NoRow,        \* the row does not exist, or the session has no object for it
    MaxArrivals   \* bound: so many requests arrive

ASSUME SessionsAssumption == MaxArrivals \in Nat /\ "none" \notin Ops

VARIABLES
    db,      \* the committed rows, by key
    job,     \* session: the request it handles
    mine,    \* session: the versions of rows that it has written
    held,    \* session: the rows it has locked
    arrived  \* the number of requests so far

sessionVars == <<db, job, mine, held, arrived>>

\* step: what the handler does next, "done" when only the commit is left, "failed"
\* when only the rollback is.  loaded: the row as the handler read it first.  new:
\* what it will write.  kept: the object the session has had since it read row
\* keptOf.  dues: the rows that are still to be changed, and by how much.
NoJob ==
    [op |-> "none", step |-> "done", key |-> NoKey, amount |-> 0, dues |-> <<>>,
     loaded |-> NoRow, new |-> NoRow, kept |-> NoRow, keptOf |-> NoKey]

Job(op, k) == [NoJob EXCEPT !.op = op, !.key = k]

Open(r) == job[r].op # "none"

At(r, op, step) == job[r].op = op /\ job[r].step = step

NoVersions == [k \in DOMAIN db |-> NoRow]

SessionInit(keys) ==
    /\ db = [k \in keys |-> NoRow]
    /\ job = [r \in Requests |-> NoJob]
    /\ mine = [r \in Requests |-> [k \in keys |-> NoRow]]
    /\ held = [r \in Requests |-> {}]
    /\ arrived = 0

-----------------------------------------------------------------------------
(* Rows.                                                                   *)

\* No other session has locked the row.
Free(r, k) == \A s \in Requests \ {r} : k \notin held[s]

\* The row as a statement of session r finds it.
Seen(r, k) == IF mine[r][k] # NoRow THEN mine[r][k] ELSE db[k]

\* The object that a locking SELECT returns: the one the session has, with the
\* attributes it had, or else a fresh one.
Locked(r, k) == IF job[r].keptOf = k THEN job[r].kept ELSE Seen(r, k)

\* No row has the key, and nobody is about to insert one.
Unused(k) == db[k] = NoRow /\ \A s \in Requests : mine[s][k] = NoRow

\* A flush: the row is locked from here on.
Write(r, k, row) ==
    /\ mine' = [mine EXCEPT ![r][k] = row]
    /\ held' = [held EXCEPT ![r] = @ \cup {k}]

\* SELECT ... FOR UPDATE, of a row that is free.
Hold(r, k) == held' = [held EXCEPT ![r] = @ \cup {k}]

\* Seeded fault: every attribute of the object is written.
FlushedWhole(row, loaded, new) == new

\* Only the attributes that differ from what was loaded are written.
Flushed(row, loaded, new) ==
    [f \in DOMAIN row |-> IF new[f] # loaded[f] THEN new[f] ELSE row[f]]

-----------------------------------------------------------------------------
(* Requests.                                                               *)

\* A request arrives and its handler makes its first access to the database.
Begin(r, new) ==
    /\ new.op \in Ops
    /\ ~Open(r)
    /\ arrived < MaxArrivals
    /\ arrived' = arrived + 1
    /\ job' = [job EXCEPT ![r] = new]

EndSession(r) ==
    /\ job' = [job EXCEPT ![r] = NoJob]
    /\ mine' = [mine EXCEPT ![r] = NoVersions]
    /\ held' = [held EXCEPT ![r] = {}]

Commit(r) ==
    /\ Open(r) /\ job[r].step = "done" /\ job[r].dues = <<>>
    /\ db' = [k \in DOMAIN db |-> Seen(r, k)]
    /\ EndSession(r)
    /\ UNCHANGED arrived

\* An exception, a lost connection, or an abort by PostgreSQL to break a deadlock.
Rollback(r) ==
    /\ Open(r)
    /\ EndSession(r)
    /\ UNCHANGED <<db, arrived>>

\* Session r commits something.
Committing(r) == Open(r) /\ job'[r].op = "none" /\ db' # db

SessionTypeOK(rows) ==
    /\ \A k \in DOMAIN db : db[k] \in rows \cup {NoRow}
    /\ \A r \in Requests :
         /\ job[r].op \in Ops \cup {"none"}
         /\ job[r].key \in DOMAIN db \cup {NoKey}
         /\ job[r].kept \in rows \cup {NoRow}
         /\ \A k \in DOMAIN db : mine[r][k] \in rows \cup {NoRow}
         /\ held[r] \subseteq DOMAIN db
    /\ arrived \in 0 .. MaxArrivals
=============================================================================
