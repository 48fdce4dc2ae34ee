----------------------------- MODULE AccessProofs -----------------------------
(***************************************************************************)
(* Theorems about Access, and about Roles, which it extends: for every set *)
(* of users, roles and requests, and every choice of the calls of Redis    *)
(* that may fail.                                                          *)
(***************************************************************************)
EXTENDS Access, FiniteSetTheorems, TLAPS

Links == {Link(u, ro) : u \in Users, ro \in RoleIds}

Grants == {Grant(ro) : ro \in RoleIds}

RowsFor(k) == IF k \in Users \cup RoleIds THEN User ELSE JoinRow

\* The rows of the four tables, one or none for each key.
Table == {t \in [Keys -> User \cup JoinRow \cup {NoRow}] :
             \A k \in Keys : t[k] \in RowsFor(k) \cup {NoRow}}

CheckSteps == {"user", "version", "cache", "resolve", "fill", "expire", "granted", "denied"}

RoleSteps == {"flush", "drop", "replace", "delete", "insert", "guard", "done"}

RoleOps == {"createRole", "updateRole", "deleteRole"}

UserOps == {"assign", "createUser", "status", "deleteUser"}

Loads == User \cup (SUBSET Keys) \cup {NoRow}

News ==
    User \cup RoleUpdateRequest \cup (SUBSET Keys) \cup (SUBSET {Permission, Nobody}) \cup {NoRow}

JobRec ==
    [op : RoleOps \cup UserOps \cup {"check", "none"},
     step : CheckSteps \cup RoleSteps \cup {"announce"},
     key : Keys \cup {NoKey}, amount : Nat \cup SUBSET Users, dues : {<<>>},
     loaded : Loads, new : News, kept : {NoRow}, keptOf : Users \cup {NoKey}]

Types ==
    /\ db \in Table
    /\ mine \in [Requests -> Table]
    /\ held \in [Requests -> SUBSET Keys]
    /\ job \in [Requests -> JobRec]
    /\ arrived \in 0 .. MaxArrivals
    /\ version \in Nat /\ FirstVersion <= version
    /\ cache \in [Versions -> [Users -> Entry]]
    /\ lost \in BOOLEAN
    /\ seen \in [Requests -> SUBSET {"active", "holds"}]

\* The requests in progress.
Going == {r \in Requests : Open(r)}

\* Every increment of the version ends a request that has arrived.
CountsOK ==
    /\ IsFiniteSet(Going)
    /\ version + Cardinality(Going) <= FirstVersion + arrived

-----------------------------------------------------------------------------
(* Changes of roles and users.                                             *)

Clean(r) == \A k \in Keys : mine[r][k] = NoRow

\* The rows that a request of this kind writes.
Reach(op, k) ==
    CASE op \in RoleOps -> {k, Grant(k)}
      [] op \in {"createUser", "status", "deleteUser"} -> {k} \cup LinksOf(k)
      [] op = "assign" -> LinksOf(k)

Deletes(r, k) == mine[r][k] # NoRow /\ ~mine[r][k].exists

Inserts(r, k) == mine[r][k] # NoRow /\ mine[r][k].exists

\* What a request that changes something is about to do.
PlanOK(r) ==
    /\ job[r].op \in RoleOps =>
         /\ job[r].key \in RoleIds \ {SuperAdmin}
         /\ job[r].step \in {"replace", "delete"} => job[r].loaded \subseteq {Grant(job[r].key)}
         /\ job[r].step \in {"replace", "delete", "insert"} =>
              job[r].new \subseteq {Grant(job[r].key)}
    /\ job[r].op \in UserOps =>
         /\ job[r].key \in Users
         /\ job[r].step \in {"replace", "delete"} => job[r].loaded \subseteq LinksOf(job[r].key)
         /\ job[r].step \in {"replace", "delete", "insert"} =>
              job[r].new \subseteq LinksOf(job[r].key)
    /\ job[r].step \in {"replace", "delete", "insert"} =>
         job[r].op \in {"updateRole", "assign", "createUser"}
    /\ job[r].step \in {"replace", "delete"} => job[r].op # "createUser"
    /\ job[r].step \in {"flush", "drop"} => Clean(r)
    /\ job[r].op = "updateRole" /\ job[r].step = "flush" =>
         job[r].loaded \in User /\ job[r].new \in RoleUpdateRequest
    /\ job[r].op = "status" /\ job[r].step = "flush" =>
         /\ job[r].loaded \in User /\ job[r].loaded.exists
         /\ job[r].new \in User /\ job[r].new.exists

\* The rows that a request has written.
MineOK(r) ==
    \A k \in Keys : mine[r][k] # NoRow =>
        /\ k \in Reach(job[r].op, job[r].key)
        /\ k \in Users \cup RoleIds =>
             (mine[r][k].exists <=> job[r].op \notin {"deleteRole", "deleteUser"})
        /\ k \in Links => k \in held[r]
        /\ job[r].op = "createUser" => mine[r][k].exists /\ (k = job[r].key => mine[r][k].active)
        /\ job[r].op = "deleteUser" => ~mine[r][k].exists

\* A request that saw one Super Admin, its own user, leaves it so.
LastOK(r) ==
    job[r].amount = {job[r].key} =>
        /\ job[r].op = "assign" =>
             LET k == Link(job[r].key, SuperAdmin) IN
             /\ job[r].step \in {"replace", "delete", "insert"} => k \in job[r].new
             /\ job[r].step \in {"guard", "done"} => Inserts(r, k)
        /\ job[r].op = "status" => Clean(r) /\ (job[r].step = "flush" => job[r].new = job[r].loaded)
        /\ job[r].op # "deleteUser"

ChangeOK(r) ==
    /\ job[r].op = "none" => job[r].step = "done" /\ Clean(r) /\ held[r] = {}
    /\ job[r].op \in RoleOps \cup UserOps => job[r].step \in RoleSteps \cup {"announce"}
    /\ job[r].step = "announce" => Clean(r) /\ held[r] = {} /\ job[r].op \in RoleOps \cup UserOps
    /\ job[r].step # "announce" => PlanOK(r) /\ MineOK(r) /\ LastOK(r)

\* The rows that an assignment in progress refers to stay until it is over, and
\* nobody has or gets what is about to be deleted.
LinkOK(u, ro) ==
    LET k == Link(u, ro) IN
    /\ Committed(k) => Committed(u) /\ Committed(ro)
    /\ \A r \in Requests :
         /\ Inserts(r, k) => /\ There(r, u) /\ There(r, ro)
                             /\ \A s \in Requests \ {r} : ~Deletes(s, u) /\ ~Deletes(s, ro)
         /\ Deletes(r, ro) => ~Committed(k)
         /\ Deletes(r, u) => (Committed(k) => Deletes(r, k))
         /\ k \in held[r] => \A s \in Requests \ {r} : k \notin held[s]

\* The migration's rows of the role Super Admin stay as they are.
SuperOK ==
    /\ Committed(SuperAdmin) /\ db[SuperAdmin].active /\ Committed(Grant(SuperAdmin))

-----------------------------------------------------------------------------
(* Checks.                                                                 *)

Filling(r) == Asking(r) /\ job[r].step \in {"fill", "expire"}

\* An asking request knows what is true, and decides by what has been true.
CheckOK(r) ==
    Asking(r) =>
        /\ job[r].key \in Users /\ job[r].step \in CheckSteps /\ Clean(r) /\ held[r] = {}
        /\ job[r].amount \in 0 .. ReadableVersion
        /\ job[r].step \in {"cache", "fill", "expire"} => job[r].amount # 0
        /\ job[r].step \in {"user", "version"} => job[r].amount = 0
        /\ job[r].step \in {"fill", "expire"} => job[r].new \in {{Permission}, {Nobody}}
        /\ IsActive(job[r].key) => "active" \in seen[r]
        /\ Holds(job[r].key) => "holds" \in seen[r]
        /\ job[r].step \notin {"user", "denied"} => "active" \in seen[r]
        /\ job[r].step = "granted" => "holds" \in seen[r]
        /\ job[r].step \in {"fill", "expire"} /\ Permission \in job[r].new => "holds" \in seen[r]

\* Nothing says, or is about to say, in version v that u holds the permission.
Denies(v, u) ==
    /\ Permission \notin cache[v][u].members
    /\ \A r \in Requests :
         Filling(r) /\ job[r].amount = v /\ job[r].key = u => Permission \notin job[r].new

\* What a request has not seen to be true the cache will not tell it.
VersionOf(r) == IF job[r].amount = 0 THEN ReadableVersion ELSE job[r].amount

NotTold(r) == Asking(r) /\ "holds" \notin seen[r] => Denies(VersionOf(r), job[r].key)

\* The entries of the current version, and those in the making, are true.
CurrentOK ==
    InForce =>
        \A u \in Users :
           /\ Agrees(ReadableVersion, u)
           /\ \A r \in Requests :
                Filling(r) /\ job[r].amount = ReadableVersion /\ job[r].key = u =>
                   (Permission \in job[r].new <=> Holds(u))

\* The entries of later versions are empty.
LaterEmpty == \A v \in Versions, u \in Users : v > ReadableVersion => cache[v][u].members = {}

IInv ==
    /\ Types
    /\ CountsOK
    /\ \A r \in Requests : ChangeOK(r) /\ CheckOK(r) /\ NotTold(r)
    /\ \A u \in Users, ro \in RoleIds : LinkOK(u, ro)
    /\ SuperOK
    /\ CurrentOK
    /\ LaterEmpty

-----------------------------------------------------------------------------
(* Keys and rows.                                                          *)

LEMMA KeyFacts ==
    /\ Keys = Users \cup RoleIds \cup Links \cup Grants
    /\ (Users \cup RoleIds) \cap Links = {} /\ (Users \cup RoleIds) \cap Grants = {}
    /\ Users \cap RoleIds = {} /\ Links \cap Grants = {}
    /\ \A u \in Users : LinksOf(u) \subseteq Links
  <1>1. (UNION {LinksOf(u) : u \in Users}) = Links
    <2>1. ASSUME NEW k \in UNION {LinksOf(u) : u \in Users}
          PROVE  k \in Links
      <3>1. PICK u \in Users : k \in LinksOf(u)
        OBVIOUS
      <3> QED
        BY <3>1 DEF LinksOf, Links
    <2>2. ASSUME NEW u \in Users, NEW ro \in RoleIds
          PROVE  Link(u, ro) \in UNION {LinksOf(w) : w \in Users}
      <3>1. Link(u, ro) \in LinksOf(u) /\ LinksOf(u) \in {LinksOf(w) : w \in Users}
        BY DEF LinksOf
      <3> QED
        BY <3>1, Zenon
    <2> QED
      BY <2>1, <2>2 DEF Links
  <1>2. Links \cap Grants = {}
    <2>1. ASSUME NEW u, NEW ro, NEW q
          PROVE  Link(u, ro) # Grant(q)
      <3>1. Len(Link(u, ro)) = 2 /\ Len(Grant(q)) = 1
        BY DEF Link, Grant
      <3> QED
        BY <3>1
    <2> QED
      BY <2>1 DEF Links, Grants
  <1>3. \A u \in Users : LinksOf(u) \subseteq Links
    BY DEF LinksOf, Links
  <1>4. Keys = Users \cup RoleIds \cup Links \cup Grants
    BY <1>1 DEF Keys, Grants
  <1>5. /\ Users \cap RoleIds = {}
        /\ (Users \cup RoleIds) \cap Links = {}
        /\ (Users \cup RoleIds) \cap Grants = {}
    BY <1>1, TablesAssumption DEF Grants
  <1> QED
    BY <1>2, <1>3, <1>4, <1>5

LEMMA LinkFacts ==
    ASSUME NEW u \in Users, NEW ro \in RoleIds
    PROVE  /\ Link(u, ro) \in Links /\ Link(u, ro) \in Keys /\ Link(u, ro) \in LinksOf(u)
           /\ Link(u, ro) \notin Users \cup RoleIds \cup Grants
           /\ Grant(ro) \in Grants /\ Grant(ro) \in Keys
           /\ Grant(ro) \notin Users \cup RoleIds \cup Links
           /\ u \in Keys /\ ro \in Keys /\ u \notin RoleIds /\ ro \notin Users
           /\ u \notin Links \cup Grants /\ ro \notin Links \cup Grants
  <1>1. /\ Link(u, ro) \in Links /\ Link(u, ro) \in LinksOf(u) /\ Grant(ro) \in Grants
    BY DEF Links, LinksOf, Grants
  <1> QED
    BY <1>1, KeyFacts

\* A link is of one user and one role.
LEMMA LinkOfOne ==
    /\ \A u, w, ro, q : Link(u, ro) = Link(w, q) => u = w /\ ro = q
    /\ \A ro, q : Grant(ro) = Grant(q) => ro = q
    /\ \A u \in Users, w \in Users, ro \in RoleIds : Link(u, ro) \in LinksOf(w) => u = w
  <1>1. \A u, w, ro, q : Link(u, ro) = Link(w, q) => u = w /\ ro = q
    BY DEF Link
  <1>2. \A ro, q : Grant(ro) = Grant(q) => ro = q
    BY DEF Grant
  <1> QED
    BY <1>1, <1>2 DEF LinksOf

LEMMA RowFacts ==
    ASSUME Types, NEW k \in Keys
    PROVE  /\ db[k] \in RowsFor(k) \cup {NoRow}
           /\ \A r \in Requests : mine[r][k] \in RowsFor(k) \cup {NoRow}
           /\ k \in Users \cup RoleIds => RowsFor(k) = User
           /\ k \in Links \cup Grants => RowsFor(k) = JoinRow
           /\ Committed(k) \in BOOLEAN
           /\ NoRow \notin RowsFor(k)
  <1>1. db \in Table /\ \A r \in Requests : mine[r] \in Table
    BY DEF Types
  <1>2. /\ db[k] \in RowsFor(k) \cup {NoRow}
        /\ \A r \in Requests : mine[r][k] \in RowsFor(k) \cup {NoRow}
    BY <1>1 DEF Table
  <1>3. /\ k \in Users \cup RoleIds => RowsFor(k) = User
        /\ k \in Links \cup Grants => RowsFor(k) = JoinRow
    BY KeyFacts DEF RowsFor
  <1>4. NoRow \notin RowsFor(k)
    BY TablesAssumption DEF RowsFor
  <1>5. Committed(k) \in BOOLEAN
    <2>1. db[k] # NoRow => db[k].exists \in BOOLEAN
      BY <1>2 DEF RowsFor, User, JoinRow
    <2> QED
      BY <2>1 DEF Committed
  <1> QED
    BY <1>2, <1>3, <1>4, <1>5

LEMMA TableFacts ==
    ASSUME NEW t
    PROVE  t \in Table <=> /\ t \in [Keys -> User \cup JoinRow \cup {NoRow}]
                           /\ \A k \in Keys : t[k] \in RowsFor(k) \cup {NoRow}
  BY DEF Table

\* A table with one more row.
LEMMA TableWith ==
    ASSUME NEW t \in Table, NEW k \in Keys, NEW row \in RowsFor(k) \cup {NoRow}
    PROVE  [t EXCEPT ![k] = row] \in Table
  <1>1. /\ t \in [Keys -> User \cup JoinRow \cup {NoRow}]
        /\ \A q \in Keys : t[q] \in RowsFor(q) \cup {NoRow}
    BY TableFacts
  <1>2. row \in User \cup JoinRow \cup {NoRow}
    BY DEF RowsFor
  <1>3. /\ [t EXCEPT ![k] = row] \in [Keys -> User \cup JoinRow \cup {NoRow}]
        /\ \A q \in Keys : [t EXCEPT ![k] = row][q] \in RowsFor(q) \cup {NoRow}
    BY <1>1, <1>2
  <1> QED
    BY <1>3, TableFacts

LEMMA OpFacts ==
    /\ RoleOps \cap UserOps = {} /\ "check" \notin RoleOps \cup UserOps
    /\ "none" \notin RoleOps \cup UserOps
    /\ CheckSteps \cap RoleSteps = {} /\ "announce" \notin CheckSteps \cup RoleSteps
  BY DEF RoleOps, UserOps, CheckSteps, RoleSteps

-----------------------------------------------------------------------------
(* A step of one request.                                                  *)

LEMMA GoesOn ==
    ASSUME IInv, NEW r \in Requests, NEW j \in JobRec, job' = [job EXCEPT ![r] = j],
           Open(r), j.op # "none", UNCHANGED <<arrived, version>>
    PROVE  CountsOK'
  <1>1. Going' = Going
    BY DEF Going, IInv, Types, Open
  <1> QED
    BY <1>1 DEF IInv, CountsOK

LEMMA Begins ==
    ASSUME IInv, NEW r \in Requests, NEW j \in JobRec, Begin(r, j), j.op # "none",
           version' = version
    PROVE  CountsOK' /\ arrived' \in 0 .. MaxArrivals
  <1>1. /\ job' = [job EXCEPT ![r] = j] /\ ~Open(r) /\ arrived' = arrived + 1
        /\ arrived < MaxArrivals
    BY DEF Begin
  <1>2. Going' = Going \cup {r} /\ r \notin Going
    BY <1>1 DEF Going, IInv, Types, Open
  <1>3. /\ IsFiniteSet(Going) /\ arrived \in 0 .. MaxArrivals /\ version \in Nat
        /\ version + Cardinality(Going) <= FirstVersion + arrived
        /\ FirstVersion \in Nat /\ MaxArrivals \in Nat
    BY AccessAssumption, SessionsAssumption DEF IInv, CountsOK, Types
  <1>4. /\ IsFiniteSet(Going \cup {r}) /\ Cardinality(Going) \in Nat
        /\ Cardinality(Going \cup {r}) = Cardinality(Going) + 1
    BY <1>2, <1>3, FS_AddElement, FS_CardinalityType
  <1>5. version' + Cardinality(Going') <= FirstVersion + arrived'
    <2>1. Cardinality(Going') = Cardinality(Going) + 1
      BY <1>2, <1>4
    <2> QED
      BY <1>1, <1>3, <1>4, <2>1
  <1>6. IsFiniteSet(Going')
    BY <1>2, <1>4
  <1> QED
    BY <1>1, <1>3, <1>5, <1>6 DEF CountsOK

\* The end of a request: the count has room for one increment.
LEMMA Ends ==
    ASSUME IInv, NEW r \in Requests, job' = [job EXCEPT ![r] = NoJob], Open(r),
           arrived' = arrived, version' \in {version, version + 1}
    PROVE  CountsOK'
  <1>1. Going' = Going \ {r} /\ r \in Going
    BY DEF Going, IInv, Types, NoJob, Open
  <1>2. /\ IsFiniteSet(Going) /\ arrived \in Nat /\ version \in Nat /\ FirstVersion \in Nat
        /\ version + Cardinality(Going) <= FirstVersion + arrived
    BY AccessAssumption DEF IInv, CountsOK, Types
  <1>3. /\ IsFiniteSet(Going \ {r}) /\ Cardinality(Going) \in Nat
        /\ Cardinality(Going \ {r}) = Cardinality(Going) - 1
    BY <1>1, <1>2, FS_RemoveElement, FS_CardinalityType
  <1>4. Cardinality(Going') = Cardinality(Going) - 1 /\ IsFiniteSet(Going')
    BY <1>1, <1>3
  <1> QED
    BY <1>2, <1>3, <1>4 DEF CountsOK

LEMMA NoJobType == NoJob \in JobRec /\ NoJob.op = "none" /\ NoJob.step = "done"
  <1>1. NoRow \in Loads /\ NoRow \in News
    BY DEF Loads, News
  <1>2. "done" \in RoleSteps /\ 0 \in Nat \cup SUBSET Users
    BY DEF RoleSteps
  <1> QED
    BY <1>1, <1>2 DEF NoJob, JobRec

LEMMA VersionFacts ==
    ASSUME Types, CountsOK
    PROVE  /\ ReadableVersion \in Versions /\ ReadableVersion \in Nat /\ ReadableVersion >= 1
           /\ 1 + version \in Nat /\ version \in FirstVersion .. FirstVersion + MaxArrivals
  <1>1. /\ version \in Nat /\ arrived \in 0 .. MaxArrivals /\ FirstVersion \in Nat
        /\ MaxArrivals \in Nat /\ FirstVersion <= version
    BY AccessAssumption, SessionsAssumption DEF Types
  <1>2. Cardinality(Going) \in Nat /\ version + Cardinality(Going) <= FirstVersion + arrived
    BY FS_CardinalityType DEF CountsOK
  <1> QED
    BY <1>1, <1>2 DEF ReadableVersion, Versions

\* What a request that neither commits nor reads or writes the cache leaves alone.
Aside(r) ==
    /\ \A s \in Requests \ {r} : job'[s] = job[s] /\ mine'[s] = mine[s] /\ held'[s] = held[s]
    /\ UNCHANGED <<db, cacheVars, seen>>

LEMMA AsideFacts ==
    ASSUME NEW r \in Requests, Aside(r)
    PROVE  /\ db' = db /\ version' = version /\ cache' = cache /\ lost' = lost /\ seen' = seen
           /\ ReadableVersion' = ReadableVersion
           /\ \A u : IsActive(u)' = IsActive(u) /\ Holds(u)' = Holds(u)
           /\ \A v, u : Agrees(v, u)' = Agrees(v, u)
           /\ SuperOK' = SuperOK
  BY DEF Aside, cacheVars, ReadableVersion, IsActive, Holds, Agrees, SuperOK, Committed

LEMMA ChangeKept ==
    ASSUME NEW s, ChangeOK(s), job'[s] = job[s], mine'[s] = mine[s], held'[s] = held[s]
    PROVE  ChangeOK(s)'
  BY DEF ChangeOK, PlanOK, MineOK, LastOK, Clean, Inserts

\* A request that changes roles or users goes on: the checks do not notice.
LEMMA ChecksAside ==
    ASSUME IInv, NEW r \in Requests, Aside(r), ~Asking(r), ~Asking(r)',
           job[r].step = "announce" <=> job'[r].step = "announce"
    PROVE  /\ \A s \in Requests : CheckOK(s)' /\ NotTold(s)'
           /\ CurrentOK' /\ LaterEmpty' /\ SuperOK'
  <1>1. /\ ReadableVersion' = ReadableVersion /\ cache' = cache /\ seen' = seen /\ lost' = lost
        /\ \A u : IsActive(u)' = IsActive(u) /\ Holds(u)' = Holds(u)
        /\ \A v, u : Agrees(v, u)' = Agrees(v, u)
        /\ SuperOK' = SuperOK
    BY AsideFacts
  <1>2. \A s \in Requests \ {r} : job'[s] = job[s] /\ mine'[s] = mine[s] /\ held'[s] = held[s]
    BY DEF Aside
  <1>3. \A s \in Requests : /\ Asking(s)' = Asking(s)
                            /\ Asking(s) => job'[s] = job[s]
                            /\ Filling(s)' = Filling(s)
    BY <1>2 DEF Asking, Open, Filling
  <1>4. \A s \in Requests : CheckOK(s)'
    <2> SUFFICES ASSUME NEW s \in Requests, Asking(s)
                 PROVE  CheckOK(s)'
      BY <1>3 DEF CheckOK
    <2>1. s # r
      OBVIOUS
    <2>2. job'[s] = job[s] /\ mine'[s] = mine[s] /\ held'[s] = held[s] /\ CheckOK(s)
      BY <1>2, <2>1 DEF IInv
    <2> QED
      BY <1>1, <1>3, <2>2 DEF CheckOK, Clean
  <1>5. ASSUME NEW v, NEW u, Denies(v, u)
        PROVE  Denies(v, u)'
    <2>1. ASSUME NEW s \in Requests, Filling(s)', job'[s].amount = v, job'[s].key = u
          PROVE  Permission \notin job'[s].new
      <3>1. Filling(s) /\ job'[s] = job[s]
        BY <1>3, <2>1 DEF Filling
      <3> QED
        BY <1>5, <2>1, <3>1 DEF Denies
    <2> QED
      BY <1>1, <1>5, <2>1 DEF Denies
  <1>6. \A s \in Requests : NotTold(s)'
    <2> SUFFICES ASSUME NEW s \in Requests, Asking(s), "holds" \notin seen[s]
                 PROVE  Denies(VersionOf(s), job[s].key)'
      BY <1>1, <1>3 DEF NotTold
    <2>1. Denies(VersionOf(s), job[s].key)
      BY DEF IInv, NotTold
    <2>2. job'[s] = job[s]
      BY <1>3
    <2>3. PICK v, u : v = VersionOf(s) /\ u = job[s].key
      OBVIOUS
    <2>4. Denies(v, u)'
      BY <1>5, <2>1, <2>3
    <2>5. VersionOf(s)' = v
      BY <1>1, <2>2, <2>3 DEF VersionOf
    <2> QED
      BY <2>2, <2>3, <2>4, <2>5 DEF Denies
  <1>7. CurrentOK'
    <2>1. Announcing' = Announcing
      BY <1>2 DEF Announcing
    <2>2. InForce' = InForce
      BY <1>1, <2>1 DEF InForce
    <2> SUFFICES ASSUME InForce, NEW u \in Users
                 PROVE  /\ Agrees(ReadableVersion, u)'
                        /\ \A s \in Requests :
                             Filling(s)' /\ job'[s].amount = ReadableVersion' /\ job'[s].key = u =>
                                (Permission \in job'[s].new <=> Holds(u)')
      BY <1>1, <2>2 DEF CurrentOK, Holds, Filling, Asking, Open
    <2>3. /\ Agrees(ReadableVersion, u)
          /\ \A s \in Requests :
               Filling(s) /\ job[s].amount = ReadableVersion /\ job[s].key = u =>
                  (Permission \in job[s].new <=> Holds(u))
      BY DEF IInv, CurrentOK
    <2>4. Agrees(ReadableVersion, u)'
      BY <1>1, <2>3 DEF Agrees
    <2>5. ASSUME NEW s \in Requests, Filling(s)'
          PROVE  Filling(s) /\ job'[s] = job[s]
      BY <1>3, <2>5 DEF Filling
    <2> QED
      BY <1>1, <2>3, <2>4, <2>5
  <1>8. LaterEmpty'
    BY <1>1 DEF IInv, LaterEmpty
  <1> QED
    BY <1>1, <1>4, <1>6, <1>7, <1>8 DEF IInv

\* The rows of request r, when the others do nothing.
LEMMA LinksAside ==
    ASSUME IInv, NEW r \in Requests, Aside(r), NEW u \in Users, NEW ro \in RoleIds, NEW k,
           k = Link(u, ro),
           Inserts(r, k)' => /\ There(r, u)' /\ There(r, ro)'
                             /\ \A s \in Requests \ {r} : ~Deletes(s, u) /\ ~Deletes(s, ro),
           Deletes(r, u)' => /\ \A s \in Requests \ {r} : ~Inserts(s, k)
                             /\ Committed(k) => Deletes(r, k)',
           Deletes(r, ro)' => /\ \A s \in Requests \ {r} : ~Inserts(s, k)
                              /\ ~Committed(k),
           k \in held'[r] => \A s \in Requests \ {r} : k \notin held[s]
    PROVE  LinkOK(u, ro)'
  <1>1. db' = db
    BY AsideFacts
  <1>2. \A s \in Requests \ {r} : /\ mine'[s] = mine[s] /\ held'[s] = held[s]
                                  /\ Inserts(s, k)' = Inserts(s, k)
                                  /\ Deletes(s, k)' = Deletes(s, k)
                                  /\ Deletes(s, u)' = Deletes(s, u)
                                  /\ Deletes(s, ro)' = Deletes(s, ro)
                                  /\ There(s, u)' = There(s, u) /\ There(s, ro)' = There(s, ro)
    BY <1>1 DEF Aside, Inserts, Deletes, There, Seen
  <1>3. /\ Committed(k)' = Committed(k) /\ Committed(u)' = Committed(u)
        /\ Committed(ro)' = Committed(ro)
    BY <1>1 DEF Committed
  <1>4. LinkOK(u, ro)
    BY DEF IInv
  <1>5. ASSUME NEW s \in Requests
        PROVE  /\ Inserts(s, k)' => /\ There(s, u)' /\ There(s, ro)'
                                    /\ \A q \in Requests \ {s} : ~Deletes(q, u)' /\ ~Deletes(q, ro)'
               /\ Deletes(s, ro)' => ~Committed(k)'
               /\ Deletes(s, u)' => (Committed(k)' => Deletes(s, k)')
               /\ k \in held'[s] => \A q \in Requests \ {s} : k \notin held'[q]
    <2>1. CASE s = r
      BY <1>2, <1>3, <2>1
    <2>2. CASE s # r
      BY <1>2, <1>3, <1>4, <2>2 DEF LinkOK
    <2> QED
      BY <2>1, <2>2
  <1>6. k' = Link(u, ro)
    OBVIOUS
  <1>7. Committed(k)' => Committed(u)' /\ Committed(ro)'
    BY <1>3, <1>4 DEF LinkOK
  <1> QED
    BY <1>5, <1>7 DEF LinkOK, Committed, Inserts, Deletes, There, Seen

\* A request that changes something takes a step.
LEMMA ChangeStep ==
    ASSUME IInv, NEW r \in Requests, Aside(r), NEW j \in JobRec, job' = [job EXCEPT ![r] = j],
           mine' \in [Requests -> Table], held' \in [Requests -> SUBSET Keys],
           arrived' \in 0 .. MaxArrivals, CountsOK', ~Asking(r), job[r].step # "announce",
           j.op \in RoleOps \cup UserOps, j.step \in RoleSteps,
           PlanOK(r)', MineOK(r)', LastOK(r)', \A u \in Users, ro \in RoleIds : LinkOK(u, ro)'
    PROVE  IInv'
  <1>1. job'[r] = j /\ Types /\ \A s \in Requests : ChangeOK(s)
    BY DEF IInv, Types
  <1>2. Types'
    BY <1>1, AsideFacts DEF Types
  <1>3. ~Asking(r)' /\ j.op # "none" /\ j.step # "announce"
    BY <1>1, OpFacts DEF Asking
  <1>4. ChangeOK(r)'
    BY <1>1, <1>3 DEF ChangeOK
  <1>5. \A s \in Requests \ {r} : ChangeOK(s)'
    BY <1>1, ChangeKept DEF Aside
  <1>6. /\ \A s \in Requests : CheckOK(s)' /\ NotTold(s)'
        /\ CurrentOK' /\ LaterEmpty' /\ SuperOK'
    BY <1>1, <1>3, ChecksAside
  <1> QED
    BY <1>2, <1>4, <1>5, <1>6 DEF IInv

\* One that only decides what it will do.
LEMMA JobStep ==
    ASSUME IInv, NEW r \in Requests, NEW j \in JobRec, job' = [job EXCEPT ![r] = j],
           UNCHANGED <<db, mine, held, cacheVars, seen>>,
           arrived' \in 0 .. MaxArrivals, CountsOK', ~Asking(r), job[r].step # "announce",
           j.op \in RoleOps \cup UserOps, j.step \in RoleSteps,
           PlanOK(r)', MineOK(r)', LastOK(r)'
    PROVE  IInv'
  <1>1. mine' = mine /\ held' = held /\ db' = db /\ Types
    BY DEF IInv
  <1>2. Aside(r)
    BY <1>1 DEF Aside, Types
  <1>3. ASSUME NEW u \in Users, NEW ro \in RoleIds
        PROVE  LinkOK(u, ro)'
    BY <1>1 DEF IInv, LinkOK, Inserts, Deletes, There, Seen, Committed
  <1>4. mine' \in [Requests -> Table] /\ held' \in [Requests -> SUBSET Keys]
    BY <1>1 DEF Types
  <1> QED
    BY <1>2, <1>3, <1>4, ChangeStep

-----------------------------------------------------------------------------
(* Requests that begin to change something.                                *)

LEMMA IdleFacts ==
    ASSUME IInv, NEW r \in Requests, ~Open(r)
    PROVE  /\ Clean(r) /\ held[r] = {} /\ ~Asking(r) /\ job[r].step = "done"
           /\ job[r].step # "announce"
  BY DEF IInv, ChangeOK, Open, Asking

LEMMA BeginChange ==
    ASSUME IInv, NEW r \in Requests, NEW j \in JobRec, Begin(r, j),
           UNCHANGED <<db, mine, held, cacheVars, seen>>,
           j.op \in RoleOps \cup UserOps, j.step \in RoleSteps, PlanOK(r)', LastOK(r)'
    PROVE  IInv'
  <1>1. job' = [job EXCEPT ![r] = j] /\ ~Open(r) /\ j.op # "none" /\ version' = version
    BY OpFacts DEF Begin, cacheVars
  <1>2. Clean(r) /\ ~Asking(r) /\ job[r].step # "announce"
    BY <1>1, IdleFacts
  <1>3. CountsOK' /\ arrived' \in 0 .. MaxArrivals
    BY <1>1, Begins
  <1>4. MineOK(r)'
    BY <1>2 DEF MineOK, Clean
  <1> QED
    BY <1>1, <1>2, <1>3, <1>4, JobStep

LEMMA AskedFacts ==
    ASSUME NEW op \in RoleOps \cup UserOps, NEW k \in Keys, NEW step \in RoleSteps
    PROVE  /\ Asked(op, k, step) \in JobRec /\ Asked(op, k, step).op = op
           /\ Asked(op, k, step).step = step /\ Asked(op, k, step).key = k
           /\ Asked(op, k, step).amount = 0
  <1>1. NoJob \in JobRec
    BY NoJobType
  <1>2. Asked(op, k, step) = [NoJob EXCEPT !.op = op, !.key = k, !.step = step]
    BY DEF Asked, Job
  <1>3. NoJob.amount = 0
    BY DEF NoJob
  <1> QED
    BY <1>1, <1>2, <1>3 DEF JobRec

LEMMA LoadsAndNews ==
    /\ User \subseteq Loads /\ SUBSET Keys \subseteq Loads /\ NoRow \in Loads
    /\ User \subseteq News /\ SUBSET Keys \subseteq News /\ NoRow \in News
    /\ RoleUpdateRequest \subseteq News /\ SUBSET {Permission, Nobody} \subseteq News
    /\ RoleOps \cup UserOps \subseteq RoleOps \cup UserOps \cup {"check", "none"}
  BY DEF Loads, News

\* Rows that are there are those of their table.
LEMMA CommittedRow ==
    ASSUME Types, NEW k \in Users \cup RoleIds, Committed(k)
    PROVE  db[k] \in User /\ db[k].exists /\ k \in Keys
  <1>1. k \in Keys
    BY KeyFacts
  <1> QED
    BY <1>1, RowFacts DEF Committed

LEMMA UpdateRoleStep ==
    ASSUME IInv, NEW r \in Requests, NEW a \in Users, NEW ro \in RoleIds,
           NEW body \in RoleUpdateRequest, UpdateRole(r, a, ro, body),
           UNCHANGED <<cacheVars, seen>>
    PROVE  IInv'
  <1> DEFINE j == [Asked("updateRole", ro, "flush") EXCEPT
                     !.loaded = db[ro], !.new = body, !.keptOf = a]
  <1>1. /\ Committed(ro) /\ ro # SuperAdmin /\ Begin(r, j) /\ UNCHANGED <<db, mine, held>>
    BY DEF UpdateRole
  <1>2. db[ro] \in User /\ ro \in Keys
    BY <1>1, CommittedRow DEF IInv
  <1>3. /\ "updateRole" \in RoleOps \cup UserOps /\ "flush" \in RoleSteps
        /\ db[ro] \in Loads /\ body \in News
    BY <1>2, LoadsAndNews DEF RoleOps, RoleSteps
  <1>4. /\ j \in JobRec /\ j.op = "updateRole" /\ j.step = "flush" /\ j.key = ro /\ j.amount = 0
        /\ j.loaded = db[ro] /\ j.new = body
    <2>1. PICK q \in JobRec : /\ q = Asked("updateRole", ro, "flush") /\ q.op = "updateRole"
                             /\ q.step = "flush" /\ q.key = ro /\ q.amount = 0
      BY <1>2, <1>3, AskedFacts
    <2>2. PICK p : p = j
      OBVIOUS
    <2>3. p = [q EXCEPT !.loaded = db[ro], !.new = body, !.keptOf = a]
      BY <2>1, <2>2
    <2>4. p \in JobRec /\ p.op = q.op /\ p.step = q.step /\ p.key = q.key
          /\ p.amount = q.amount /\ p.loaded = db[ro] /\ p.new = body
      BY <2>1, <2>3, <1>2, <1>3 DEF JobRec
    <2> QED
      BY <2>1, <2>2, <2>4
  <1> HIDE DEF j
  <1>5. job'[r] = j /\ Clean(r)'
    BY <1>1, IdleFacts DEF Begin, IInv, Types, Clean
  <1>6. PlanOK(r)'
    BY <1>4, <1>1, <1>2, <1>5 DEF PlanOK, UserOps
  <1>7. LastOK(r)'
    BY <1>4, <1>5 DEF LastOK
  <1> QED
    BY <1>1, <1>3, <1>4, <1>6, <1>7, BeginChange

LEMMA SetRolePermissionsStep ==
    ASSUME IInv, NEW r \in Requests, NEW a \in Users, NEW ro \in RoleIds,
           NEW grants \in BOOLEAN, SetRolePermissions(r, a, ro, grants),
           UNCHANGED <<cacheVars, seen>>
    PROVE  IInv'
  <1> DEFINE n == IF grants THEN {Grant(ro)} ELSE {}
             j == [Asked("updateRole", ro, "replace") EXCEPT
                     !.loaded = {Grant(ro)}, !.new = n, !.keptOf = a]
  <1>1. /\ ro # SuperAdmin /\ Begin(r, j) /\ UNCHANGED <<db, mine, held>>
    BY DEF SetRolePermissions
  <1>2. /\ {Grant(ro)} \in SUBSET Keys /\ n \in SUBSET Keys /\ n \subseteq {Grant(ro)}
        /\ ro \in Keys
    BY KeyFacts DEF Grants
  <1> HIDE DEF n
  <1>3. /\ "updateRole" \in RoleOps \cup UserOps /\ "replace" \in RoleSteps
        /\ {Grant(ro)} \in Loads /\ n \in News
    BY <1>2, LoadsAndNews DEF RoleOps, RoleSteps
  <1>4. /\ j \in JobRec /\ j.op = "updateRole" /\ j.step = "replace" /\ j.key = ro /\ j.amount = 0
        /\ j.loaded = {Grant(ro)} /\ j.new = n
    <2>1. PICK q \in JobRec : /\ q = Asked("updateRole", ro, "replace") /\ q.op = "updateRole"
                             /\ q.step = "replace" /\ q.key = ro /\ q.amount = 0
      BY <1>2, <1>3, AskedFacts
    <2>2. PICK p : p = j
      OBVIOUS
    <2>3. p = [q EXCEPT !.loaded = {Grant(ro)}, !.new = n, !.keptOf = a]
      BY <2>1, <2>2
    <2>4. p \in JobRec /\ p.op = q.op /\ p.step = q.step /\ p.key = q.key
          /\ p.amount = q.amount /\ p.loaded = {Grant(ro)} /\ p.new = n
      BY <2>1, <2>3, <1>2, <1>3 DEF JobRec
    <2> QED
      BY <2>1, <2>2, <2>4
  <1> HIDE DEF j
  <1>5. job'[r] = j
    BY <1>1 DEF Begin, IInv, Types
  <1>6. PlanOK(r)'
    BY <1>4, <1>1, <1>2, <1>5 DEF PlanOK, UserOps
  <1>7. LastOK(r)'
    BY <1>4, <1>5 DEF LastOK
  <1> QED
    BY <1>1, <1>3, <1>4, <1>6, <1>7, BeginChange

LEMMA DeleteRoleStep ==
    ASSUME IInv, NEW r \in Requests, NEW ro \in RoleIds, DeleteRole(r, ro),
           UNCHANGED <<cacheVars, seen>>
    PROVE  IInv'
  <1> DEFINE j == Asked("deleteRole", ro, "drop")
  <1>1. /\ ro # SuperAdmin /\ Begin(r, j) /\ UNCHANGED <<db, mine, held>>
    BY DEF DeleteRole
  <1>2. /\ "deleteRole" \in RoleOps \cup UserOps /\ "drop" \in RoleSteps /\ ro \in Keys
        /\ NoRow \in Loads /\ NoRow \in News
    BY LoadsAndNews, KeyFacts DEF RoleOps, RoleSteps
  <1>3. /\ j \in JobRec /\ j.op = "deleteRole" /\ j.step = "drop" /\ j.key = ro /\ j.amount = 0
    BY <1>2, AskedFacts DEF JobRec
  <1> HIDE DEF j
  <1>4. job'[r] = j /\ Clean(r)'
    BY <1>1, IdleFacts DEF Begin, IInv, Types, Clean
  <1>5. PlanOK(r)'
    BY <1>3, <1>1, <1>4 DEF PlanOK, UserOps
  <1>6. LastOK(r)'
    BY <1>3, <1>4 DEF LastOK
  <1> QED
    BY <1>1, <1>2, <1>3, <1>5, <1>6, BeginChange

LEMMA SupersType == Supers \in SUBSET Users
  BY DEF Supers

LEMMA AssignUserRolesStep ==
    ASSUME IInv, NEW r \in Requests, NEW own \in BOOLEAN, NEW u \in Users,
           NEW body \in AssignUserRolesRequest, AssignUserRoles(r, own, u, body),
           UNCHANGED <<cacheVars, seen>>
    PROVE  IInv'
  <1> DEFINE n == {Link(u, ro) : ro \in body.role_ids}
             o == IF own THEN u ELSE NoKey
             j == [Asked("assign", u, "replace") EXCEPT
                     !.amount = Supers, !.keptOf = o, !.loaded = LinksOf(u), !.new = n]
  <1>1. /\ SuperAdminStays(u, SuperAdmin \notin body.role_ids) /\ Begin(r, j)
        /\ UNCHANGED <<db, mine, held>>
    BY DEF AssignUserRoles
  <1>2. /\ LinksOf(u) \in SUBSET Keys /\ n \in SUBSET Keys /\ n \subseteq LinksOf(u)
        /\ u \in Keys
    BY KeyFacts DEF AssignUserRolesRequest, LinksOf
  <1>3. Supers = {u} => Link(u, SuperAdmin) \in n
    <2> SUFFICES ASSUME Supers = {u}, SuperAdmin \notin body.role_ids
                 PROVE  FALSE
      OBVIOUS
    <2>1. Committed(Link(u, SuperAdmin))
      BY DEF Supers
    <2> QED
      BY <1>1, <2>1 DEF SuperAdminStays
  <1>4. o \in Users \cup {NoKey}
    OBVIOUS
  <1> HIDE DEF n, o
  <1>5. /\ "assign" \in RoleOps \cup UserOps /\ "replace" \in RoleSteps
        /\ LinksOf(u) \in Loads /\ n \in News
    BY <1>2, LoadsAndNews DEF UserOps, RoleSteps
  <1>6. /\ j \in JobRec /\ j.op = "assign" /\ j.step = "replace" /\ j.key = u /\ j.amount = Supers
        /\ j.loaded = LinksOf(u) /\ j.new = n
    <2>1. PICK q \in JobRec : /\ q = Asked("assign", u, "replace") /\ q.op = "assign"
                             /\ q.step = "replace" /\ q.key = u /\ q.amount = 0
      BY <1>2, <1>4, <1>5, SupersType, AskedFacts
    <2>2. PICK p : p = j
      OBVIOUS
    <2>3. p = [q EXCEPT !.amount = Supers, !.keptOf = o, !.loaded = LinksOf(u), !.new = n]
      BY <2>1, <2>2
    <2>4. p \in JobRec /\ p.op = q.op /\ p.step = q.step /\ p.key = q.key
          /\ p.amount = Supers /\ p.loaded = LinksOf(u) /\ p.new = n
      BY <2>1, <2>3, <1>2, <1>4, <1>5, SupersType DEF JobRec
    <2> QED
      BY <2>1, <2>2, <2>4
  <1> HIDE DEF j
  <1>7. job'[r] = j
    BY <1>1 DEF Begin, IInv, Types
  <1>8. PlanOK(r)'
    BY <1>6, <1>1, <1>2, <1>7 DEF PlanOK, RoleOps
  <1>9. LastOK(r)'
    BY <1>6, <1>3, <1>7 DEF LastOK
  <1> QED
    BY <1>1, <1>5, <1>6, <1>8, <1>9, BeginChange

LEMMA SetUserStatusStep ==
    ASSUME IInv, NEW r \in Requests, NEW u \in Users, NEW active \in BOOLEAN,
           SetUserStatus(r, u, active), UNCHANGED <<cacheVars, seen>>
    PROVE  IInv'
  <1> DEFINE n == [exists |-> TRUE, active |-> active]
             j == [Asked("status", u, "flush") EXCEPT
                     !.amount = Supers, !.loaded = db[u], !.new = n]
  <1>1. /\ Committed(u) /\ SuperAdminStays(u, ~active /\ db[u].active) /\ Begin(r, j)
        /\ UNCHANGED <<db, mine, held>>
    BY DEF SetUserStatus
  <1>2. db[u] \in User /\ db[u].exists /\ u \in Keys /\ n \in User /\ n.exists
    BY <1>1, CommittedRow DEF IInv, User
  <1>3. Supers = {u} => n = db[u]
    <2> SUFFICES ASSUME Supers = {u}
                 PROVE  n = db[u]
      OBVIOUS
    <2>1. Committed(Link(u, SuperAdmin)) /\ db[u].active
      BY DEF Supers, IsActive
    <2>2. active
      BY <1>1, <2>1 DEF SuperAdminStays
    <2> QED
      BY <1>2, <2>1, <2>2 DEF User
  <1> HIDE DEF n
  <1>4. /\ "status" \in RoleOps \cup UserOps /\ "flush" \in RoleSteps
        /\ db[u] \in Loads /\ n \in News
    BY <1>2, LoadsAndNews DEF UserOps, RoleSteps
  <1>5. /\ j \in JobRec /\ j.op = "status" /\ j.step = "flush" /\ j.key = u /\ j.amount = Supers
        /\ j.loaded = db[u] /\ j.new = n
    <2>1. PICK q \in JobRec : /\ q = Asked("status", u, "flush") /\ q.op = "status"
                             /\ q.step = "flush" /\ q.key = u /\ q.amount = 0
      BY <1>2, <1>4, SupersType, AskedFacts
    <2>2. PICK p : p = j
      OBVIOUS
    <2>3. p = [q EXCEPT !.amount = Supers, !.loaded = db[u], !.new = n]
      BY <2>1, <2>2
    <2>4. p \in JobRec /\ p.op = q.op /\ p.step = q.step /\ p.key = q.key
          /\ p.amount = Supers /\ p.loaded = db[u] /\ p.new = n
      BY <2>1, <2>3, <1>2, <1>4, SupersType DEF JobRec
    <2> QED
      BY <2>1, <2>2, <2>4
  <1> HIDE DEF j
  <1>6. job'[r] = j /\ Clean(r)'
    BY <1>1, IdleFacts DEF Begin, IInv, Types, Clean
  <1>7. PlanOK(r)'
    BY <1>5, <1>1, <1>2, <1>6 DEF PlanOK, RoleOps
  <1>8. LastOK(r)'
    BY <1>5, <1>3, <1>6 DEF LastOK
  <1> QED
    BY <1>1, <1>4, <1>5, <1>7, <1>8, BeginChange

LEMMA DeleteUserStep ==
    ASSUME IInv, NEW r \in Requests, NEW u \in Users, DeleteUser(r, u),
           UNCHANGED <<cacheVars, seen>>
    PROVE  IInv'
  <1> DEFINE l == {k \in LinksOf(u) : Committed(k)}
             j == [Asked("deleteUser", u, "drop") EXCEPT
                     !.amount = Supers, !.loaded = l]
  <1>1. /\ SuperAdminStays(u, TRUE) /\ Begin(r, j) /\ UNCHANGED <<db, mine, held>>
    BY DEF DeleteUser
  <1>2. l \in SUBSET Keys /\ u \in Keys
    BY KeyFacts
  <1>3. Supers # {u}
    <2> SUFFICES ASSUME Supers = {u}
                 PROVE  FALSE
      OBVIOUS
    <2>1. Committed(Link(u, SuperAdmin))
      BY DEF Supers
    <2> QED
      BY <1>1, <2>1 DEF SuperAdminStays
  <1> HIDE DEF l
  <1>4. /\ "deleteUser" \in RoleOps \cup UserOps /\ "drop" \in RoleSteps
        /\ l \in Loads /\ NoRow \in News
    BY <1>2, LoadsAndNews DEF UserOps, RoleSteps
  <1>5. /\ j \in JobRec /\ j.op = "deleteUser" /\ j.step = "drop" /\ j.key = u /\ j.amount = Supers
        /\ j.loaded = l
    <2>1. PICK q \in JobRec : /\ q = Asked("deleteUser", u, "drop") /\ q.op = "deleteUser"
                             /\ q.step = "drop" /\ q.key = u /\ q.amount = 0
      BY <1>2, <1>4, SupersType, AskedFacts
    <2>2. PICK p : p = j
      OBVIOUS
    <2>3. p = [q EXCEPT !.amount = Supers, !.loaded = l]
      BY <2>1, <2>2
    <2>4. p \in JobRec /\ p.op = q.op /\ p.step = q.step /\ p.key = q.key
          /\ p.amount = Supers /\ p.loaded = l
      BY <2>1, <2>3, <1>2, <1>4, SupersType DEF JobRec
    <2> QED
      BY <2>1, <2>2, <2>4
  <1> HIDE DEF j
  <1>6. job'[r] = j /\ Clean(r)'
    BY <1>1, IdleFacts DEF Begin, IInv, Types, Clean
  <1>7. PlanOK(r)'
    BY <1>5, <1>1, <1>2, <1>6 DEF PlanOK, RoleOps
  <1>8. LastOK(r)'
    BY <1>5, <1>3, <1>6 DEF LastOK
  <1> QED
    BY <1>1, <1>4, <1>5, <1>7, <1>8, BeginChange

\* The session of one request gets another table of versions.
LEMMA OwnTable ==
    ASSUME Types, NEW r \in Requests, NEW m \in Table, mine' = [mine EXCEPT ![r] = m]
    PROVE  /\ mine' \in [Requests -> Table] /\ mine'[r] = m
           /\ \A s \in Requests \ {r} : mine'[s] = mine[s]
  BY DEF Types

LEMMA InsertRoleStep ==
    ASSUME IInv, NEW r \in Requests, NEW ro \in RoleIds, NEW active \in BOOLEAN,
           NEW grants \in BOOLEAN, Unused(ro), InsertRole(r, ro, active, grants),
           UNCHANGED <<db, held, cacheVars, seen>>
    PROVE  IInv'
  <1> DEFINE row == [exists |-> TRUE, active |-> active]
             g == IF grants THEN [exists |-> TRUE] ELSE NoRow
             t == [mine[r] EXCEPT ![ro] = row]
             m == [t EXCEPT ![Grant(ro)] = g]
             j == Asked("createRole", ro, "done")
  <1>1. /\ Begin(r, j) /\ mine' = [mine EXCEPT ![r][ro] = row, ![r][Grant(ro)] = g]
        /\ db' = db /\ held' = held /\ Types
    BY DEF InsertRole, IInv
  <1>2. /\ ro \in Keys /\ Grant(ro) \in Keys /\ ro # Grant(ro)
        /\ ro \notin Links \cup Users /\ Grant(ro) \notin Users \cup RoleIds \cup Links
    BY KeyFacts DEF Grants
  <1>3. row \in RowsFor(ro) \cup {NoRow} /\ g \in RowsFor(Grant(ro)) \cup {NoRow}
    BY <1>2 DEF RowsFor, User, JoinRow
  <1>4. mine[r] \in Table
    BY <1>1 DEF Types
  <1>5. row.exists /\ (g # NoRow => g.exists)
    OBVIOUS
  <1> HIDE DEF row, g
  <1>6. t \in Table
    BY <1>2, <1>3, <1>4, TableWith
  <1>7. t \in [Keys -> User \cup JoinRow \cup {NoRow}]
    BY <1>6, TableFacts
  <1>8. m \in Table
    BY <1>2, <1>3, <1>6, TableWith
  <1>9. Clean(r) /\ held[r] = {} /\ ~Asking(r) /\ job[r].step # "announce" /\ ~Open(r)
    BY <1>1, IdleFacts DEF Begin
  <1>10. /\ m[ro] = row /\ m[Grant(ro)] = g
         /\ \A k \in Keys \ {ro, Grant(ro)} : m[k] = NoRow
    <2>1. mine[r] \in [Keys -> User \cup JoinRow \cup {NoRow}]
      BY <1>4, TableFacts
    <2> QED
      BY <1>2, <1>7, <1>9, <2>1 DEF Clean
  <1>11. mine' = [mine EXCEPT ![r] = m]
    BY <1>1 DEF Types
  <1> HIDE DEF t, m
  <1>12. /\ mine' \in [Requests -> Table] /\ mine'[r] = m
         /\ \A s \in Requests \ {r} : mine'[s] = mine[s]
    BY <1>1, <1>8, <1>11, OwnTable
  <1>13. ro # SuperAdmin
    BY DEF IInv, SuperOK, Unused, Committed
  <1>14. "createRole" \in RoleOps \cup UserOps /\ "done" \in RoleSteps
    BY DEF RoleOps, RoleSteps
  <1>15. /\ j \in JobRec /\ j.op = "createRole" /\ j.step = "done" /\ j.key = ro
    BY <1>2, <1>14, AskedFacts
  <1> HIDE DEF j
  <1>16. job' = [job EXCEPT ![r] = j] /\ job'[r] = j
         /\ \A s \in Requests \ {r} : job'[s] = job[s]
    BY <1>1 DEF Begin, Types
  <1>17. CountsOK' /\ arrived' \in 0 .. MaxArrivals
    BY <1>1, <1>14, <1>15, OpFacts, Begins DEF cacheVars
  <1>18. Aside(r)
    BY <1>1, <1>12, <1>16 DEF Aside
  <1>19. PlanOK(r)'
    BY <1>13, <1>15, <1>16 DEF PlanOK, UserOps
  <1>20. LastOK(r)'
    BY <1>15, <1>16 DEF LastOK
  <1>21. MineOK(r)'
    <2> SUFFICES ASSUME NEW k \in Keys, m[k] # NoRow
                 PROVE  /\ k \in Reach("createRole", ro)
                        /\ k \in Users \cup RoleIds => m[k].exists
                        /\ k \notin Links
      BY <1>12, <1>15, <1>16 DEF MineOK
    <2>1. k \in {ro, Grant(ro)}
      BY <1>10
    <2> QED
      BY <1>2, <1>5, <1>10, <2>1 DEF Reach, RoleOps
  <1>22. ASSUME NEW u \in Users, NEW q \in RoleIds
         PROVE  LinkOK(u, q)'
    <2>1. PICK k \in Links : k = Link(u, q)
      BY LinkFacts
    <2>2. /\ k \in Keys \ {ro, Grant(ro)} /\ u \in Keys \ {ro, Grant(ro)}
          /\ q \in Keys /\ q # Grant(ro)
      BY <1>2, KeyFacts DEF Grants
    <2>3. m[k] = NoRow /\ m[u] = NoRow /\ (m[q] # NoRow => m[q].exists)
      BY <1>5, <1>10, <2>2
    <2>4. ~Inserts(r, k)' /\ ~Deletes(r, u)' /\ ~Deletes(r, q)' /\ k \notin held'[r]
      BY <1>1, <1>9, <1>12, <2>3 DEF Inserts, Deletes
    <2> QED
      BY <1>18, <2>1, <2>4, LinksAside
  <1>23. held' \in [Requests -> SUBSET Keys]
    BY <1>1 DEF Types
  <1> QED
    BY <1>8, <1>9, <1>12, <1>14, <1>15, <1>16, <1>17, <1>18, <1>19, <1>20, <1>21, <1>22, <1>23,
       ChangeStep

LEMMA CreateUserStep ==
    ASSUME IInv, NEW r \in Requests, NEW u \in Users, NEW body \in CreateUserRequest,
           CreateUser(r, u, body), UNCHANGED <<cacheVars, seen>>
    PROVE  IInv'
  <1> DEFINE row == [exists |-> TRUE, active |-> TRUE]
             n == {Link(u, ro) : ro \in body.role_ids}
             m == [mine[r] EXCEPT ![u] = row]
             j == [Asked("createUser", u, "insert") EXCEPT !.new = n]
  <1>1. /\ Begin(r, j) /\ mine' = [mine EXCEPT ![r][u] = row]
        /\ db' = db /\ held' = held /\ Types
    BY DEF CreateUser, IInv
  <1>2. /\ u \in Keys /\ u \notin Links \cup RoleIds
        /\ n \in SUBSET Keys /\ n \subseteq LinksOf(u)
    BY KeyFacts DEF CreateUserRequest, LinksOf
  <1>3. row \in RowsFor(u) \cup {NoRow} /\ row.exists /\ row.active
    BY DEF RowsFor, User
  <1>4. mine[r] \in Table
    BY <1>1 DEF Types
  <1>5. Clean(r) /\ held[r] = {} /\ ~Asking(r) /\ job[r].step # "announce" /\ ~Open(r)
    BY <1>1, IdleFacts DEF Begin
  <1> HIDE DEF row, n
  <1>6. m \in Table
    BY <1>2, <1>3, <1>4, TableWith
  <1>7. m[u] = row /\ \A k \in Keys \ {u} : m[k] = NoRow
    <2>1. mine[r] \in [Keys -> User \cup JoinRow \cup {NoRow}]
      BY <1>4, TableFacts
    <2> QED
      BY <1>2, <1>5, <2>1 DEF Clean
  <1>8. mine' = [mine EXCEPT ![r] = m]
    BY <1>1 DEF Types
  <1> HIDE DEF m
  <1>9. /\ mine' \in [Requests -> Table] /\ mine'[r] = m
        /\ \A s \in Requests \ {r} : mine'[s] = mine[s]
    BY <1>1, <1>6, <1>8, OwnTable
  <1>10. "createUser" \in RoleOps \cup UserOps /\ "insert" \in RoleSteps /\ n \in News
    BY <1>2, LoadsAndNews DEF UserOps, RoleSteps
  <1>11. /\ j \in JobRec /\ j.op = "createUser" /\ j.step = "insert" /\ j.key = u /\ j.new = n
    <2>1. PICK q \in JobRec : /\ q = Asked("createUser", u, "insert") /\ q.op = "createUser"
                             /\ q.step = "insert" /\ q.key = u
      BY <1>2, <1>10, AskedFacts
    <2>2. PICK p : p = j
      OBVIOUS
    <2>3. p = [q EXCEPT !.new = n]
      BY <2>1, <2>2
    <2>4. p \in JobRec /\ p.op = q.op /\ p.step = q.step /\ p.key = q.key /\ p.new = n
      BY <2>1, <2>3, <1>10 DEF JobRec
    <2> QED
      BY <2>1, <2>2, <2>4
  <1> HIDE DEF j
  <1>12. /\ job' = [job EXCEPT ![r] = j] /\ job'[r] = j
         /\ \A s \in Requests \ {r} : job'[s] = job[s]
    BY <1>1 DEF Begin, Types
  <1>13. CountsOK' /\ arrived' \in 0 .. MaxArrivals
    BY <1>1, <1>10, <1>11, OpFacts, Begins DEF cacheVars
  <1>14. Aside(r)
    BY <1>1, <1>9, <1>12 DEF Aside
  <1>15. PlanOK(r)'
    BY <1>2, <1>11, <1>12 DEF PlanOK, RoleOps
  <1>16. LastOK(r)'
    BY <1>11, <1>12 DEF LastOK
  <1>17. MineOK(r)'
    <2> SUFFICES ASSUME NEW k \in Keys, m[k] # NoRow
                 PROVE  /\ k \in Reach("createUser", u)
                        /\ k \notin Links /\ m[k].exists /\ m[k].active
      BY <1>9, <1>11, <1>12 DEF MineOK
    <2>1. k = u
      BY <1>7
    <2> QED
      BY <1>2, <1>3, <1>7, <2>1 DEF Reach, RoleOps
  <1>18. ASSUME NEW w \in Users, NEW q \in RoleIds
         PROVE  LinkOK(w, q)'
    <2>1. PICK k \in Links : k = Link(w, q)
      BY LinkFacts
    <2>2. k \in Keys \ {u} /\ w \in Keys /\ q \in Keys \ {u}
      BY <1>2, KeyFacts
    <2>3. m[k] = NoRow /\ m[q] = NoRow /\ (m[w] # NoRow => m[w].exists)
      BY <1>3, <1>7, <2>2
    <2>4. ~Inserts(r, k)' /\ ~Deletes(r, w)' /\ ~Deletes(r, q)' /\ k \notin held'[r]
      BY <1>1, <1>5, <1>9, <2>3 DEF Inserts, Deletes
    <2> QED
      BY <1>14, <2>1, <2>4, LinksAside
  <1>19. held' \in [Requests -> SUBSET Keys]
    BY <1>1 DEF Types
  <1> QED
    BY <1>5, <1>9, <1>10, <1>11, <1>12, <1>13, <1>14, <1>15, <1>16, <1>17, <1>18, <1>19, ChangeStep

-----------------------------------------------------------------------------
(* Steps of those requests.                                                *)

LEMMA GoingFacts ==
    ASSUME IInv, NEW r \in Requests, job[r].step \in RoleSteps, job[r].op # "none"
    PROVE  /\ ~Asking(r) /\ job[r].step # "announce" /\ Open(r) /\ job[r] \in JobRec
           /\ PlanOK(r) /\ MineOK(r) /\ LastOK(r) /\ job[r].op \in RoleOps \cup UserOps
  <1>1. /\ ChangeOK(r) /\ CheckOK(r) /\ job[r] \in JobRec
    BY DEF IInv, Types
  <1>2. ~Asking(r) /\ job[r].step # "announce"
    BY <1>1, OpFacts DEF CheckOK
  <1>3. Open(r) /\ job[r].op # "check"
    BY <1>2 DEF Asking, Open
  <1> QED
    BY <1>1, <1>2, <1>3 DEF JobRec, ChangeOK

\* A flush of one row of users or roles, which is there and stays.
LEMMA RowStep ==
    ASSUME IInv, NEW r \in Requests, NEW j \in JobRec, job' = [job EXCEPT ![r] = j],
           NEW k \in Users \cup RoleIds, NEW row \in User, row.exists, Clean(r),
           UNCHANGED <<mine, held>> \/ Write(r, k, row),
           UNCHANGED <<db, arrived, cacheVars, seen>>,
           ~Asking(r), job[r].step # "announce", Open(r),
           j.op \in RoleOps \cup UserOps, j.step \in RoleSteps, k \in Reach(j.op, j.key),
           j.op \notin {"deleteRole", "deleteUser", "createUser"}, PlanOK(r)', LastOK(r)'
    PROVE  IInv'
  <1>1. Types /\ db' = db /\ arrived' = arrived /\ version' = version /\ mine[r] \in Table
    BY DEF IInv, Types, cacheVars
  <1>2. k \in Keys /\ k \notin Links /\ row \in RowsFor(k) \cup {NoRow}
    BY KeyFacts DEF RowsFor
  <1>3. PICK m : m = IF mine' = mine THEN mine[r] ELSE [mine[r] EXCEPT ![k] = row]
    OBVIOUS
  <1>4. m \in Table
    BY <1>1, <1>2, <1>3, TableWith
  <1>5. \A q \in Keys : m[q] = NoRow \/ (q = k /\ m[q] = row)
    <2>1. mine[r] \in [Keys -> User \cup JoinRow \cup {NoRow}]
      BY <1>1, TableFacts
    <2> QED
      BY <1>2, <1>3, <2>1 DEF Clean
  <1>6. mine' = [mine EXCEPT ![r] = m]
    <2>1. CASE mine' = mine
      BY <1>1, <1>3, <2>1 DEF Types
    <2>2. CASE mine' # mine
      BY <1>1, <1>3, <2>2 DEF Types, Write
    <2> QED
      BY <2>1, <2>2
  <1>7. /\ mine' \in [Requests -> Table] /\ mine'[r] = m
        /\ \A s \in Requests \ {r} : mine'[s] = mine[s]
    BY <1>1, <1>4, <1>6, OwnTable
  <1>8. /\ held' \in [Requests -> SUBSET Keys] /\ held'[r] \subseteq held[r] \cup {k}
        /\ \A s \in Requests \ {r} : held'[s] = held[s]
    BY <1>1, <1>2 DEF Types, Write
  <1>9. job'[r] = j /\ \A s \in Requests \ {r} : job'[s] = job[s]
    BY <1>1 DEF Types
  <1>10. Aside(r)
    BY <1>1, <1>7, <1>8, <1>9 DEF Aside
  <1>11. CountsOK' /\ arrived' \in 0 .. MaxArrivals
    BY <1>1, GoesOn, OpFacts DEF Types
  <1>12. MineOK(r)'
    BY <1>2, <1>5, <1>7, <1>9 DEF MineOK
  <1>13. ASSUME NEW u \in Users, NEW ro \in RoleIds
         PROVE  LinkOK(u, ro)'
    <2>1. PICK l \in Links : l = Link(u, ro)
      BY LinkFacts
    <2>2. l \in Keys /\ l # k /\ u \in Keys /\ ro \in Keys
      BY <1>2, <2>1, KeyFacts
    <2>3. m[l] = NoRow /\ (m[u] # NoRow => m[u].exists) /\ (m[ro] # NoRow => m[ro].exists)
      BY <1>5, <2>2
    <2>4. ~Inserts(r, l)' /\ ~Deletes(r, u)' /\ ~Deletes(r, ro)'
      BY <1>7, <2>3 DEF Inserts, Deletes
    <2>5. l \in held'[r] => \A s \in Requests \ {r} : l \notin held[s]
      BY <1>8, <2>1, <2>2 DEF IInv, LinkOK
    <2> QED
      BY <1>10, <2>1, <2>4, <2>5, LinksAside
  <1> QED
    BY <1>7, <1>8, <1>10, <1>11, <1>12, <1>13, ChangeStep

LEMMA FlushRoleStep ==
    ASSUME IInv, NEW r \in Requests, FlushRole(r), UNCHANGED <<cacheVars, seen>>
    PROVE  IInv'
  <1> DEFINE k == job[r].key
             active == job[r].new.active
             differs == active # "same" /\ (active = "yes") # job[r].loaded.active
             row == [db[k] EXCEPT !.active = (active = "yes")]
             st == IF job[r].new.grants = "same" THEN "guard" ELSE "replace"
             n == IF job[r].new.grants = "yes" THEN {Grant(k)} ELSE {}
             j == [job[r] EXCEPT !.step = st, !.loaded = {Grant(k)}, !.new = n]
  <1>1. /\ job[r].op = "updateRole" /\ job[r].step = "flush" /\ Types
        /\ IF ~differs THEN UNCHANGED <<mine, held>>
           ELSE Committed(k) /\ Write(r, k, row)
        /\ job' = [job EXCEPT ![r].step = st, ![r].loaded = {Grant(k)}, ![r].new = n]
        /\ UNCHANGED <<db, arrived>>
    BY DEF FlushRole, At, IInv
  <1>2. "updateRole" \in RoleOps /\ "flush" \in RoleSteps /\ st \in RoleSteps
    BY DEF RoleOps, RoleSteps
  <1>3. /\ ~Asking(r) /\ job[r].step # "announce" /\ Open(r) /\ PlanOK(r) /\ job[r] \in JobRec
    BY <1>1, <1>2, GoingFacts, OpFacts
  <1>4. k \in RoleIds \ {SuperAdmin} /\ Clean(r)
    BY <1>1, <1>2, <1>3 DEF PlanOK
  <1>5. {Grant(k)} \in SUBSET Keys /\ n \subseteq {Grant(k)} /\ {Grant(k)} \in Loads /\ n \in News
    BY <1>4, KeyFacts, LoadsAndNews DEF Grants
  <1>6. job' = [job EXCEPT ![r] = j]
    BY <1>1 DEF Types
  <1>7. st \in {"guard", "replace"}
    OBVIOUS
  <1>8. Committed(k) => row \in User /\ row.exists
    BY <1>1, <1>4, CommittedRow DEF User
  <1>9. PICK w \in User : w.exists /\ (UNCHANGED <<mine, held>> \/ Write(r, k, w))
    <2>1. CASE differs
      BY <1>1, <1>8, <2>1
    <2>2. CASE ~differs
      <3>1. [exists |-> TRUE, active |-> TRUE] \in User
        BY DEF User
      <3> QED
        BY <1>1, <2>2, <3>1
    <2> QED
      BY <2>1, <2>2
  <1> HIDE DEF st, n, row
  <1>10. j \in JobRec /\ j.op = "updateRole" /\ j.step = st /\ j.key = k
         /\ j.loaded = {Grant(k)} /\ j.new = n
    BY <1>1, <1>2, <1>3, <1>5 DEF JobRec
  <1>11. k \in Reach("updateRole", k)
    BY <1>2 DEF Reach
  <1> HIDE DEF j
  <1>12. job'[r] = j
    BY <1>1, <1>6 DEF Types
  <1>13. PlanOK(r)'
    BY <1>4, <1>5, <1>7, <1>10, <1>12 DEF PlanOK, UserOps
  <1>14. LastOK(r)'
    BY <1>10, <1>12 DEF LastOK
  <1>15. k \in Users \cup RoleIds
    BY <1>4
  <1> HIDE DEF k
  <1> QED
    BY <1>1, <1>2, <1>3, <1>4, <1>6, <1>9, <1>10, <1>11, <1>13, <1>14, <1>15, RowStep

LEMMA FlushStatusStep ==
    ASSUME IInv, NEW r \in Requests, FlushStatus(r), UNCHANGED <<cacheVars, seen>>
    PROVE  IInv'
  <1> DEFINE k == job[r].key
             row == Flushed(db[k], job[r].loaded, job[r].new)
             j == [job[r] EXCEPT !.step = "done", !.loaded = NoRow, !.new = NoRow]
  <1>1. /\ job[r].op = "status" /\ job[r].step = "flush" /\ Types
        /\ IF job[r].new = job[r].loaded THEN UNCHANGED <<mine, held>>
           ELSE Committed(k) /\ Write(r, k, row)
        /\ job' = [job EXCEPT ![r].step = "done", ![r].loaded = NoRow, ![r].new = NoRow]
        /\ UNCHANGED <<db, arrived>>
    BY DEF FlushStatus, At, IInv
  <1>2. "status" \in UserOps /\ "flush" \in RoleSteps /\ "done" \in RoleSteps
    BY DEF UserOps, RoleSteps
  <1>3. /\ ~Asking(r) /\ job[r].step # "announce" /\ Open(r) /\ PlanOK(r) /\ job[r] \in JobRec
        /\ LastOK(r)
    BY <1>1, <1>2, GoingFacts, OpFacts
  <1>4. /\ k \in Users /\ Clean(r)
        /\ job[r].loaded \in User /\ job[r].loaded.exists
        /\ job[r].new \in User /\ job[r].new.exists
    BY <1>1, <1>2, <1>3 DEF PlanOK
  <1>5. job' = [job EXCEPT ![r] = j]
    BY <1>1 DEF Types
  <1>6. Committed(k) => row \in User /\ row.exists
    <2>1. PICK d : d = db[k]
      OBVIOUS
    <2>2. PICK l \in User, w \in User : /\ l = job[r].loaded /\ w = job[r].new
                                        /\ l.exists /\ w.exists
      BY <1>4
    <2>3. ASSUME Committed(k)
          PROVE  d \in User /\ d.exists
      BY <1>1, <1>4, <2>1, <2>3, CommittedRow
    <2>4. ASSUME d \in User, d.exists
          PROVE  Flushed(d, l, w) \in User /\ Flushed(d, l, w).exists
      <3>1. d = [exists |-> d.exists, active |-> d.active]
        BY <2>4 DEF User
      <3>2. Flushed(d, l, w) = [f \in {"exists", "active"} |-> IF w[f] # l[f] THEN w[f] ELSE d[f]]
        BY <3>1 DEF Flushed
      <3> QED
        BY <2>2, <2>4, <3>2 DEF User
    <2> QED
      BY <2>1, <2>2, <2>3, <2>4
  <1>7. PICK w \in User : w.exists /\ (UNCHANGED <<mine, held>> \/ Write(r, k, w))
    <2>1. CASE job[r].new # job[r].loaded
      BY <1>1, <1>6, <2>1
    <2>2. CASE job[r].new = job[r].loaded
      <3>1. [exists |-> TRUE, active |-> TRUE] \in User
        BY DEF User
      <3> QED
        BY <1>1, <2>2, <3>1
    <2> QED
      BY <2>1, <2>2
  <1>8. j \in JobRec /\ j.op = "status" /\ j.step = "done" /\ j.key = k /\ j.amount = job[r].amount
    BY <1>1, <1>2, <1>3, LoadsAndNews DEF JobRec
  <1>9. k \in Reach("status", k)
    <2>1. "status" \notin RoleOps
      BY DEF RoleOps
    <2> QED
      BY <2>1 DEF Reach
  <1> HIDE DEF row, j
  <1>10. job'[r] = j
    BY <1>1, <1>5 DEF Types
  <1>11. PlanOK(r)'
    BY <1>4, <1>8, <1>10 DEF PlanOK, RoleOps
  <1>12. LastOK(r)'
    <2> SUFFICES ASSUME job[r].amount = {k}
                 PROVE  Clean(r)'
      BY <1>8, <1>10 DEF LastOK
    <2>1. mine' = mine
      BY <1>1, <1>3 DEF LastOK
    <2> QED
      BY <1>4, <2>1 DEF Clean
  <1>13. k \in Users \cup RoleIds
    BY <1>4
  <1> HIDE DEF k
  <1> QED
    BY <1>1, <1>2, <1>3, <1>4, <1>5, <1>7, <1>8, <1>9, <1>11, <1>12, <1>13, RowStep

\* Who has written a link has locked it.
LEMMA HeldLinks ==
    ASSUME IInv, NEW s \in Requests, NEW l \in Links, mine[s][l] # NoRow
    PROVE  l \in held[s]
  <1>1. ChangeOK(s) /\ l \in Keys
    BY KeyFacts DEF IInv
  <1> QED
    BY <1>1 DEF ChangeOK, Clean, MineOK

LEMMA DropRoleStep ==
    ASSUME IInv, NEW r \in Requests, DropRole(r), UNCHANGED <<cacheVars, seen>>
    PROVE  IInv'
  <1> DEFINE ro == job[r].key
             row == [db[ro] EXCEPT !.exists = FALSE]
             g == [exists |-> FALSE]
             t == [mine[r] EXCEPT ![ro] = row]
             m == [t EXCEPT ![Grant(ro)] = g]
             j == [job[r] EXCEPT !.step = "done"]
  <1>1. /\ job[r].op = "deleteRole" /\ job[r].step = "drop" /\ Types
        /\ Committed(ro) /\ ~Assigning(r, ro) /\ \A u \in Users : ~Committed(Link(u, ro))
        /\ mine' = [mine EXCEPT ![r][ro] = row, ![r][Grant(ro)] = g]
        /\ held' = [held EXCEPT ![r] = @ \cup {ro}]
        /\ job' = [job EXCEPT ![r].step = "done"]
        /\ db' = db /\ arrived' = arrived /\ version' = version
    BY DEF DropRole, At, IInv, cacheVars
  <1>2. "deleteRole" \in RoleOps /\ "drop" \in RoleSteps /\ "done" \in RoleSteps
    BY DEF RoleOps, RoleSteps
  <1>3. /\ ~Asking(r) /\ job[r].step # "announce" /\ Open(r) /\ PlanOK(r) /\ job[r] \in JobRec
    BY <1>1, <1>2, GoingFacts, OpFacts
  <1>4. ro \in RoleIds \ {SuperAdmin} /\ Clean(r)
    BY <1>1, <1>2, <1>3 DEF PlanOK
  <1>5. /\ ro \in Keys /\ Grant(ro) \in Keys /\ ro # Grant(ro)
        /\ ro \notin Links \cup Users /\ Grant(ro) \notin Users \cup RoleIds \cup Links
    BY <1>4, KeyFacts DEF Grants
  <1>6. row \in User /\ ~row.exists
    BY <1>1, <1>4, CommittedRow DEF User
  <1>7. row \in RowsFor(ro) \cup {NoRow} /\ g \in RowsFor(Grant(ro)) \cup {NoRow} /\ ~g.exists
    BY <1>4, <1>5, <1>6 DEF RowsFor, JoinRow
  <1>8. mine[r] \in Table
    BY <1>1 DEF Types
  <1>9. job' = [job EXCEPT ![r] = j]
    BY <1>1 DEF Types
  <1>10. j \in JobRec /\ j.op = "deleteRole" /\ j.step = "done" /\ j.key = ro
    BY <1>1, <1>2, <1>3 DEF JobRec
  <1> HIDE DEF row, g, j, ro
  <1>11. t \in Table
    BY <1>5, <1>7, <1>8, TableWith
  <1>12. m \in Table
    BY <1>5, <1>7, <1>11, TableWith
  <1>13. /\ m[ro] = row /\ m[Grant(ro)] = g
         /\ \A k \in Keys \ {ro, Grant(ro)} : m[k] = NoRow
    <2>1. /\ mine[r] \in [Keys -> User \cup JoinRow \cup {NoRow}]
          /\ t \in [Keys -> User \cup JoinRow \cup {NoRow}]
      BY <1>8, <1>11, TableFacts
    <2> QED
      BY <1>4, <1>5, <2>1 DEF Clean
  <1>14. mine' = [mine EXCEPT ![r] = m]
    BY <1>1 DEF Types
  <1> HIDE DEF t, m
  <1>15. /\ mine' \in [Requests -> Table] /\ mine'[r] = m
         /\ \A s \in Requests \ {r} : mine'[s] = mine[s]
    BY <1>1, <1>12, <1>14, OwnTable
  <1>16. /\ held' \in [Requests -> SUBSET Keys] /\ held'[r] \subseteq held[r] \cup {ro}
         /\ \A s \in Requests \ {r} : held'[s] = held[s]
    BY <1>1, <1>5 DEF Types
  <1>17. job'[r] = j /\ \A s \in Requests \ {r} : job'[s] = job[s]
    BY <1>1, <1>9 DEF Types
  <1>18. Aside(r)
    BY <1>1, <1>15, <1>16, <1>17 DEF Aside
  <1>19. CountsOK' /\ arrived' \in 0 .. MaxArrivals
    BY <1>1, <1>2, <1>3, <1>9, <1>10, GoesOn, OpFacts DEF Types
  <1>20. PlanOK(r)'
    BY <1>4, <1>10, <1>17 DEF PlanOK, UserOps
  <1>21. LastOK(r)'
    BY <1>10, <1>17 DEF LastOK
  <1>22. MineOK(r)'
    <2> SUFFICES ASSUME NEW k \in Keys, m[k] # NoRow
                 PROVE  k \in Reach("deleteRole", ro) /\ ~m[k].exists /\ k \notin Links
      BY <1>10, <1>15, <1>17 DEF MineOK
    <2>1. k \in {ro, Grant(ro)}
      BY <1>13
    <2> QED
      BY <1>2, <1>5, <1>6, <1>7, <1>13, <2>1 DEF Reach
  <1>23. ASSUME NEW u \in Users, NEW q \in RoleIds
         PROVE  LinkOK(u, q)'
    <2>1. PICK l \in Links : l = Link(u, q)
      BY LinkFacts
    <2>2. /\ l \in Keys \ {ro, Grant(ro)} /\ u \in Keys \ {ro, Grant(ro)}
          /\ q \in Keys /\ q # Grant(ro)
      BY <1>5, KeyFacts DEF Grants
    <2>3. ~Inserts(r, l)' /\ ~Deletes(r, u)' /\ (Deletes(r, q)' => q = ro)
      BY <1>13, <1>15, <2>2 DEF Inserts, Deletes
    <2>4. ASSUME q = ro
          PROVE  ~Committed(l) /\ \A s \in Requests \ {r} : ~Inserts(s, l)
      BY <1>1, <2>1, <2>4 DEF Assigning, Inserts
    <2>5. l \in held'[r] => \A s \in Requests \ {r} : l \notin held[s]
      BY <1>16, <2>1, <2>2 DEF IInv, LinkOK
    <2> QED
      BY <1>18, <2>1, <2>3, <2>4, <2>5, LinksAside
  <1> QED
    BY <1>2, <1>3, <1>9, <1>10, <1>15, <1>16, <1>18, <1>19, <1>20, <1>21, <1>22, <1>23, ChangeStep

LEMMA DropUserStep ==
    ASSUME IInv, NEW r \in Requests, DropUser(r), UNCHANGED <<cacheVars, seen>>
    PROVE  IInv'
  <1> DEFINE u == job[r].key
             rows == {k \in LinksOf(u) : Committed(k)}
             m == [k \in Keys |-> IF k \in rows THEN [exists |-> FALSE]
                                  ELSE IF k = u THEN [exists |-> FALSE, active |-> FALSE]
                                  ELSE mine[r][k]]
             j == [job[r] EXCEPT !.step = "done", !.loaded = NoRow]
  <1>1. /\ job[r].op = "deleteUser" /\ job[r].step = "drop" /\ Types
        /\ \A k \in {u} \cup LinksOf(u) : Free(r, k)
        /\ mine' = [mine EXCEPT ![r] = [k \in DOMAIN @ |->
                      IF k \in rows THEN [exists |-> FALSE]
                      ELSE IF k = u THEN [exists |-> FALSE, active |-> FALSE] ELSE @[k]]]
        /\ held' = [held EXCEPT ![r] = @ \cup {u} \cup rows]
        /\ job' = [job EXCEPT ![r].step = "done", ![r].loaded = NoRow]
        /\ db' = db /\ arrived' = arrived /\ version' = version
    BY DEF DropUser, At, IInv, cacheVars
  <1>2. /\ "deleteUser" \in UserOps /\ "deleteUser" \notin RoleOps
        /\ "drop" \in RoleSteps /\ "done" \in RoleSteps
    BY DEF UserOps, RoleOps, RoleSteps
  <1>3. /\ ~Asking(r) /\ job[r].step # "announce" /\ Open(r) /\ PlanOK(r) /\ job[r] \in JobRec
        /\ LastOK(r)
    BY <1>1, <1>2, GoingFacts, OpFacts
  <1>4. u \in Users /\ Clean(r)
    BY <1>1, <1>2, <1>3 DEF PlanOK
  <1>5. /\ u \in Keys /\ rows \subseteq Links /\ rows \subseteq Keys /\ LinksOf(u) \subseteq Keys
        /\ u \notin Links \cup RoleIds
    BY <1>4, KeyFacts
  <1>6. mine[r] \in Table /\ mine[r] \in [Keys -> User \cup JoinRow \cup {NoRow}]
    BY <1>1, TableFacts DEF Types
  <1>7. /\ \A k \in rows : m[k] \in JoinRow /\ ~m[k].exists
        /\ m[u] \in User /\ ~m[u].exists
        /\ \A k \in Keys \ (rows \cup {u}) : m[k] = NoRow
    BY <1>4, <1>5 DEF JoinRow, User, Clean
  <1>8. mine' = [mine EXCEPT ![r] = m]
    BY <1>1, <1>6 DEF Types
  <1>9. job' = [job EXCEPT ![r] = j]
    BY <1>1 DEF Types
  <1>10. /\ j \in JobRec /\ j.op = "deleteUser" /\ j.step = "done" /\ j.key = u
         /\ j.amount = job[r].amount
    BY <1>1, <1>2, <1>3, LoadsAndNews DEF JobRec
  <1>11. m \in [Keys -> User \cup JoinRow \cup {NoRow}]
    <2>1. ASSUME NEW k \in Keys
          PROVE  m[k] \in User \cup JoinRow \cup {NoRow}
      BY <1>7
    <2> HIDE DEF rows, u
    <2> QED
      BY <2>1
  <1> HIDE DEF j, m
  <1>12. m \in Table
    <2>1. ASSUME NEW k \in Keys
          PROVE  m[k] \in RowsFor(k) \cup {NoRow}
      BY <1>4, <1>5, <1>7, KeyFacts DEF RowsFor
    <2> QED
      BY <1>11, <2>1, TableFacts
  <1>13. /\ mine' \in [Requests -> Table] /\ mine'[r] = m
         /\ \A s \in Requests \ {r} : mine'[s] = mine[s]
    BY <1>1, <1>8, <1>12, OwnTable
  <1>14. /\ held' \in [Requests -> SUBSET Keys] /\ held'[r] = held[r] \cup {u} \cup rows
         /\ \A s \in Requests \ {r} : held'[s] = held[s]
    BY <1>1, <1>5 DEF Types
  <1>15. job'[r] = j /\ \A s \in Requests \ {r} : job'[s] = job[s]
    BY <1>1, <1>9 DEF Types
  <1>16. Aside(r)
    BY <1>1, <1>13, <1>14, <1>15 DEF Aside
  <1>17. CountsOK' /\ arrived' \in 0 .. MaxArrivals
    BY <1>1, <1>2, <1>3, <1>9, <1>10, GoesOn, OpFacts DEF Types
  <1>18. PlanOK(r)'
    BY <1>2, <1>4, <1>10, <1>15 DEF PlanOK
  <1>19. LastOK(r)'
    BY <1>1, <1>3, <1>10, <1>15 DEF LastOK
  <1>20. MineOK(r)'
    <2> SUFFICES ASSUME NEW k \in Keys, m[k] # NoRow
                 PROVE  /\ k \in Reach("deleteUser", u) /\ ~m[k].exists
                        /\ k \in Links => k \in held'[r]
      BY <1>10, <1>13, <1>15 DEF MineOK
    <2>1. k \in rows \/ k = u
      BY <1>7
    <2> QED
      BY <1>2, <1>7, <1>14, <2>1 DEF Reach
  <1>21. ASSUME NEW w \in Users, NEW q \in RoleIds
         PROVE  LinkOK(w, q)'
    <2>1. PICK l \in Links : l = Link(w, q) /\ l \in LinksOf(w)
      BY LinkFacts
    <2>2. /\ l \in Keys /\ l # u /\ w \in Keys \ rows /\ q \in Keys \ (rows \cup {u})
      BY <1>5, <2>1, KeyFacts
    <2>3. ~Inserts(r, l)' /\ ~Deletes(r, q)' /\ (Deletes(r, w)' => w = u)
      BY <1>7, <1>13, <2>2 DEF Inserts, Deletes
    <2>4. ASSUME w = u, Committed(l)
          PROVE  Deletes(r, l)'
      <3>1. l \in rows
        BY <2>1, <2>4
      <3> QED
        BY <1>7, <1>13, <3>1, TablesAssumption DEF Deletes
    <2>5. ASSUME w = u, NEW s \in Requests \ {r}
          PROVE  ~Inserts(s, l)
      BY <1>1, <2>1, <2>5, HeldLinks DEF Free, Inserts
    <2>6. ASSUME l \in held'[r], NEW s \in Requests \ {r}
          PROVE  l \notin held[s]
      <3>1. CASE l \in rows
        BY <1>1, <3>1 DEF Free
      <3>2. CASE l \in held[r]
        BY <2>1, <3>2 DEF IInv, LinkOK
      <3> QED
        BY <1>14, <2>2, <2>6, <3>1, <3>2
    <2> QED
      BY <1>16, <2>1, <2>3, <2>4, <2>5, <2>6, LinksAside
  <1> HIDE DEF u
  <1> QED
    BY <1>2, <1>3, <1>9, <1>10, <1>13, <1>14, <1>16, <1>17, <1>18, <1>19, <1>20, <1>21, ChangeStep

\* A request whose step is one of these has its rows to replace.
LEMMA ReplacingFacts ==
    ASSUME IInv, NEW r \in Requests, job[r].step \in {"replace", "delete", "insert", "guard"}
    PROVE  /\ ~Asking(r) /\ job[r].step # "announce" /\ Open(r) /\ job[r] \in JobRec
           /\ PlanOK(r) /\ MineOK(r) /\ LastOK(r) /\ job[r].op \in RoleOps \cup UserOps
           /\ job[r].step \in RoleSteps
  <1>1. job[r].step \in RoleSteps /\ job[r].step # "done"
    BY DEF RoleSteps
  <1>2. job[r].op # "none"
    BY <1>1 DEF IInv, ChangeOK
  <1> QED
    BY <1>1, <1>2, GoingFacts

LEMMA ReachFacts ==
    ASSUME NEW op \in RoleOps \cup UserOps, NEW k
    PROVE  /\ op \in RoleOps => Reach(op, k) = {k, Grant(k)}
           /\ op \in {"createUser", "status", "deleteUser"} => Reach(op, k) = {k} \cup LinksOf(k)
           /\ op = "assign" => Reach(op, k) = LinksOf(k)
  <1>1. CASE op \in RoleOps
    <2>1. op \notin {"createUser", "status", "deleteUser", "assign"}
      BY <1>1 DEF RoleOps
    <2> QED
      BY <1>1, <2>1 DEF Reach
  <1>2. CASE op \in UserOps
    <2>1. op \notin RoleOps
      BY <1>2, OpFacts
    <2> QED
      BY <1>2, <2>1 DEF Reach
  <1> QED
    BY <1>1, <1>2

LEMMA ReplaceRows ==
    ASSUME IInv, NEW r \in Requests, NEW j \in JobRec, job' = [job EXCEPT ![r] = j],
           job[r].step \in {"delete", "insert"}, NEW b \in BOOLEAN,
           NEW rows \in SUBSET Keys, \A k \in rows : Free(r, k),
           job[r].op \in RoleOps => rows \subseteq {Grant(job[r].key)},
           job[r].op \in UserOps => rows \subseteq LinksOf(job[r].key),
           job[r].op = "createUser" => b, b => Referable(r, rows),
           mine' = [mine EXCEPT ![r] = [k \in DOMAIN @ |->
                       IF k \in rows THEN [exists |-> b] ELSE @[k]]],
           held' = [held EXCEPT ![r] = @ \cup rows],
           UNCHANGED <<db, arrived, cacheVars, seen>>,
           j.op = job[r].op, j.key = job[r].key, j.step \in RoleSteps, PlanOK(r)', LastOK(r)'
    PROVE  IInv'
  <1> DEFINE m == [k \in Keys |-> IF k \in rows THEN [exists |-> b] ELSE mine[r][k]]
             own == job[r].key
             op == job[r].op
  <1>1. /\ Types /\ db' = db /\ arrived' = arrived /\ version' = version
        /\ mine[r] \in Table /\ mine[r] \in [Keys -> User \cup JoinRow \cup {NoRow}]
    BY TableFacts DEF IInv, Types, cacheVars
  <1>2. /\ ~Asking(r) /\ job[r].step # "announce" /\ Open(r)
        /\ PlanOK(r) /\ MineOK(r) /\ op \in RoleOps \cup UserOps
    BY ReplacingFacts
  <1>3. op \in {"updateRole", "assign", "createUser"}
    BY <1>2 DEF PlanOK
  <1>4. /\ op \in RoleOps => own \in RoleIds
        /\ op \in UserOps => own \in Users
    BY <1>2 DEF PlanOK
  <1>5. rows \subseteq Links \cup Grants /\ rows \cap (Users \cup RoleIds) = {}
    <2>1. op \in RoleOps => rows \subseteq Grants
      BY <1>4 DEF Grants
    <2>2. op \in UserOps => rows \subseteq Links
      BY <1>4, KeyFacts
    <2> QED
      BY <1>2, <2>1, <2>2, KeyFacts
  <1>6. rows \subseteq Reach(op, own)
    <2>1. op \in RoleOps => rows \subseteq Reach(op, own)
      BY <1>2, ReachFacts
    <2>2. op \in UserOps => rows \subseteq Reach(op, own)
      <3>1. op \in UserOps => op \in {"assign", "createUser"}
        BY <1>3, OpFacts DEF RoleOps
      <3> QED
        BY <1>2, <3>1, ReachFacts
    <2> QED
      BY <1>2, <2>1, <2>2
  <1>7. mine' = [mine EXCEPT ![r] = m]
    BY <1>1 DEF Types
  <1>8. /\ \A k \in rows : m[k] = [exists |-> b]
        /\ \A k \in Keys \ rows : m[k] = mine[r][k]
        /\ [exists |-> b] \in JoinRow
    BY DEF JoinRow
  <1>9. m \in Table
    <2>1. ASSUME NEW k \in Keys
          PROVE  m[k] \in RowsFor(k) \cup {NoRow}
      <3>1. mine[r][k] \in RowsFor(k) \cup {NoRow}
        BY <1>1, TableFacts
      <3>2. k \in rows => RowsFor(k) = JoinRow
        BY <1>5 DEF RowsFor
      <3> QED
        BY <1>8, <3>1, <3>2
    <2>2. \A k \in Keys : m[k] \in User \cup JoinRow \cup {NoRow}
      BY <2>1 DEF RowsFor
    <2>3. m \in [Keys -> User \cup JoinRow \cup {NoRow}]
      BY <2>2
    <2> HIDE DEF m
    <2> QED
      BY <2>1, <2>3, TableFacts
  <1> HIDE DEF m
  <1>10. /\ mine' \in [Requests -> Table] /\ mine'[r] = m
         /\ \A s \in Requests \ {r} : mine'[s] = mine[s]
    BY <1>1, <1>7, <1>9, OwnTable
  <1>11. /\ held' \in [Requests -> SUBSET Keys] /\ held'[r] = held[r] \cup rows
         /\ \A s \in Requests \ {r} : held'[s] = held[s]
    BY <1>1 DEF Types
  <1>12. job'[r] = j /\ \A s \in Requests \ {r} : job'[s] = job[s]
    BY <1>1 DEF Types
  <1>13. Aside(r)
    BY <1>1, <1>10, <1>11, <1>12 DEF Aside
  <1>14. CountsOK' /\ arrived' \in 0 .. MaxArrivals
    BY <1>1, <1>2, GoesOn, OpFacts DEF Types
  <1>15. MineOK(r)'
    <2> SUFFICES ASSUME NEW k \in Keys, m[k] # NoRow
                 PROVE  /\ k \in Reach(op, own)
                        /\ k \in Users \cup RoleIds =>
                             (m[k].exists <=> op \notin {"deleteRole", "deleteUser"})
                        /\ k \in Links => k \in held'[r]
                        /\ op = "createUser" => m[k].exists /\ (k = own => m[k].active)
                        /\ op = "deleteUser" => ~m[k].exists
      BY <1>10, <1>12 DEF MineOK
    <2>1. CASE k \in rows
      <3>1. op = "createUser" => own \in Users
        BY <1>4 DEF UserOps
      <3> QED
        BY <1>3, <1>5, <1>6, <1>8, <1>11, <2>1, <3>1
    <2>2. CASE k \notin rows
      BY <1>2, <1>8, <1>11, <2>2 DEF MineOK
    <2> QED
      BY <2>1, <2>2
  <1>16. ASSUME NEW u \in Users, NEW q \in RoleIds
         PROVE  LinkOK(u, q)'
    <2>1. PICK l \in Links : l = Link(u, q)
      BY LinkFacts
    <2>2. l \in Keys /\ u \in Keys \ rows /\ q \in Keys \ rows
      BY <1>5, <2>1, KeyFacts
    <2>3. m[u] = mine[r][u] /\ m[q] = mine[r][q]
      BY <1>8, <2>2
    <2>4. ~Deletes(r, u)' /\ ~Deletes(r, q)'
      BY <1>2, <1>3, <1>10, <2>2, <2>3 DEF Deletes, MineOK
    <2>5. There(r, u)' = There(r, u) /\ There(r, q)' = There(r, q)
      BY <1>1, <1>10, <2>3 DEF There, Seen
    <2>6. LinkOK(u, q)
      BY DEF IInv
    <2>7. ASSUME Inserts(r, l)'
          PROVE  /\ There(r, u) /\ There(r, q)
                 /\ \A s \in Requests \ {r} : ~Deletes(s, u) /\ ~Deletes(s, q)
      <3>1. CASE l \in rows
        <4>1. b
          BY <1>8, <1>10, <2>7, <3>1 DEF Inserts
        <4>2. 1 \in DOMAIN l /\ 2 \in DOMAIN l /\ l[1] = u /\ l[2] = q
          BY <2>1 DEF Link
        <4>3. There(r, u) /\ ~Dropping(r, u) /\ There(r, q) /\ ~Dropping(r, q)
          BY <3>1, <4>1, <4>2 DEF Referable
        <4> QED
          BY <4>3 DEF Dropping, Deletes
      <3>2. CASE l \notin rows
        BY <1>8, <1>10, <2>1, <2>2, <2>6, <2>7, <3>2 DEF Inserts, LinkOK
      <3> QED
        BY <3>1, <3>2
    <2>8. ASSUME l \in held'[r], NEW s \in Requests \ {r}
          PROVE  l \notin held[s]
      <3>1. CASE l \in rows
        BY <3>1 DEF Free
      <3>2. CASE l \in held[r]
        BY <2>1, <2>6, <3>2 DEF LinkOK
      <3> QED
        BY <1>11, <2>8, <3>1, <3>2
    <2> QED
      BY <1>13, <2>1, <2>4, <2>5, <2>7, <2>8, LinksAside
  <1> HIDE DEF op, own
  <1>17. j.op \in RoleOps \cup UserOps
    BY <1>2 DEF op
  <1> QED
    BY <1>2, <1>10, <1>11, <1>13, <1>14, <1>15, <1>16, <1>17, ChangeStep

LEMMA BeginDeleteStep ==
    ASSUME IInv, NEW r \in Requests, BeginDelete(r), UNCHANGED <<cacheVars, seen>>
    PROVE  IInv'
  <1> DEFINE l == {k \in job[r].loaded : Committed(k)}
             j == [job[r] EXCEPT !.step = "delete", !.loaded = l]
  <1>1. /\ job[r].step = "replace" /\ Types
        /\ job' = [job EXCEPT ![r].step = "delete", ![r].loaded = {k \in @ : Committed(k)}]
        /\ mine' = mine /\ held' = held /\ arrived' = arrived /\ version' = version
        /\ UNCHANGED <<db, mine, held>>
    BY DEF BeginDelete, IInv, cacheVars
  <1>2. /\ ~Asking(r) /\ job[r].step # "announce" /\ Open(r) /\ job[r] \in JobRec
        /\ PlanOK(r) /\ MineOK(r) /\ LastOK(r) /\ job[r].op \in RoleOps \cup UserOps
    BY <1>1, ReplacingFacts
  <1>3. /\ job[r].op \in RoleOps => l \subseteq {Grant(job[r].key)}
        /\ job[r].op \in UserOps => l \subseteq LinksOf(job[r].key)
        /\ l \in SUBSET Keys
    <2>1. /\ job[r].op \in RoleOps => /\ l \subseteq {Grant(job[r].key)}
                                      /\ job[r].key \in RoleIds
          /\ job[r].op \in UserOps => /\ l \subseteq LinksOf(job[r].key)
                                      /\ job[r].key \in Users
      BY <1>1, <1>2 DEF PlanOK
    <2>2. job[r].op \in RoleOps => Grant(job[r].key) \in Keys
      BY <2>1, KeyFacts DEF Grants
    <2>3. job[r].op \in UserOps => LinksOf(job[r].key) \subseteq Keys
      BY <2>1, KeyFacts
    <2> QED
      BY <1>2, <2>1, <2>2, <2>3
  <1>4. job' = [job EXCEPT ![r] = j]
    BY <1>1 DEF Types
  <1> HIDE DEF l
  <1>5. "delete" \in RoleSteps /\ l \in Loads
    BY <1>3, LoadsAndNews DEF RoleSteps
  <1>6. /\ j \in JobRec /\ j.op = job[r].op /\ j.key = job[r].key /\ j.step = "delete"
        /\ j.loaded = l /\ j.new = job[r].new /\ j.amount = job[r].amount
    BY <1>2, <1>5 DEF JobRec
  <1> HIDE DEF j
  <1>7. job'[r] = j
    BY <1>1, <1>4 DEF Types
  <1>8. PlanOK(r)'
    BY <1>1, <1>2, <1>3, <1>6, <1>7 DEF PlanOK
  <1>9. MineOK(r)'
    BY <1>1, <1>2, <1>6, <1>7 DEF MineOK
  <1>10. LastOK(r)'
    BY <1>1, <1>2, <1>6, <1>7 DEF LastOK, Clean, Inserts
  <1>11. CountsOK' /\ arrived' \in 0 .. MaxArrivals
    BY <1>1, <1>2, <1>4, <1>6, GoesOn, OpFacts DEF Types
  <1> QED
    BY <1>1, <1>2, <1>4, <1>5, <1>6, <1>8, <1>9, <1>10, <1>11, JobStep

LEMMA KeepRoleAccessStep ==
    ASSUME IInv, NEW r \in Requests, KeepRoleAccess(r), UNCHANGED <<cacheVars, seen>>
    PROVE  IInv'
  <1> DEFINE j == [job[r] EXCEPT !.step = "done", !.loaded = NoRow, !.new = NoRow]
  <1>1. /\ job[r].step = "guard" /\ Types
        /\ job' = [job EXCEPT ![r].step = "done", ![r].loaded = NoRow, ![r].new = NoRow]
        /\ mine' = mine /\ held' = held /\ arrived' = arrived /\ version' = version
        /\ UNCHANGED <<db, mine, held>>
    BY DEF KeepRoleAccess, IInv, cacheVars
  <1>2. /\ ~Asking(r) /\ job[r].step # "announce" /\ Open(r) /\ job[r] \in JobRec
        /\ PlanOK(r) /\ MineOK(r) /\ LastOK(r) /\ job[r].op \in RoleOps \cup UserOps
    BY <1>1, ReplacingFacts
  <1>3. job' = [job EXCEPT ![r] = j]
    BY <1>1 DEF Types
  <1>4. "done" \in RoleSteps
    BY DEF RoleSteps
  <1>5. /\ j \in JobRec /\ j.op = job[r].op /\ j.key = job[r].key /\ j.step = "done"
        /\ j.amount = job[r].amount
    BY <1>2, <1>4, LoadsAndNews DEF JobRec
  <1> HIDE DEF j
  <1>6. job'[r] = j
    BY <1>1, <1>3 DEF Types
  <1>7. PlanOK(r)'
    BY <1>1, <1>2, <1>5, <1>6 DEF PlanOK
  <1>8. MineOK(r)'
    BY <1>1, <1>2, <1>5, <1>6 DEF MineOK
  <1>9. LastOK(r)'
    BY <1>1, <1>2, <1>5, <1>6 DEF LastOK, Clean, Inserts
  <1>10. CountsOK' /\ arrived' \in 0 .. MaxArrivals
    BY <1>1, <1>2, <1>3, <1>5, GoesOn, OpFacts DEF Types
  <1> QED
    BY <1>1, <1>2, <1>3, <1>4, <1>5, <1>7, <1>8, <1>9, <1>10, JobStep

LEMMA DeleteLinksStep ==
    ASSUME IInv, NEW r \in Requests, DeleteLinks(r), UNCHANGED <<cacheVars, seen>>
    PROVE  IInv'
  <1> DEFINE rows == {k \in job[r].loaded : Committed(k)}
             j == [job[r] EXCEPT !.step = "insert", !.loaded = NoRow]
  <1>1. /\ job[r].step = "delete" /\ Types
        /\ \A k \in job[r].loaded : Free(r, k)
        /\ job' = [job EXCEPT ![r].step = "insert", ![r].loaded = NoRow]
        /\ mine' = [mine EXCEPT ![r] = [k \in DOMAIN @ |->
                       IF k \in rows THEN [exists |-> FALSE] ELSE @[k]]]
        /\ held' = [held EXCEPT ![r] = @ \cup rows]
        /\ UNCHANGED <<db, arrived, cacheVars, seen>>
    BY DEF DeleteLinks, IInv
  <1>2. /\ job[r] \in JobRec /\ PlanOK(r) /\ LastOK(r) /\ job[r].op \in RoleOps \cup UserOps
    BY <1>1, ReplacingFacts
  <1>3. /\ job[r].op \in RoleOps => rows \subseteq {Grant(job[r].key)}
        /\ job[r].op \in UserOps => rows \subseteq LinksOf(job[r].key)
        /\ job[r].op \in {"updateRole", "assign"}
    BY <1>1, <1>2 DEF PlanOK
  <1>4. rows \in SUBSET Keys
    <2>1. /\ job[r].op \in RoleOps => job[r].key \in RoleIds
          /\ job[r].op \in UserOps => job[r].key \in Users
      BY <1>2 DEF PlanOK
    <2>2. job[r].op \in RoleOps => Grant(job[r].key) \in Keys
      BY <2>1, KeyFacts DEF Grants
    <2>3. job[r].op \in UserOps => LinksOf(job[r].key) \subseteq Keys
      BY <2>1, KeyFacts
    <2> QED
      BY <1>2, <1>3, <2>2, <2>3
  <1>5. \A k \in rows : Free(r, k)
    BY <1>1
  <1>6. job' = [job EXCEPT ![r] = j]
    BY <1>1 DEF Types
  <1>7. "insert" \in RoleSteps
    BY DEF RoleSteps
  <1>8. /\ j \in JobRec /\ j.op = job[r].op /\ j.key = job[r].key /\ j.step = "insert"
        /\ j.new = job[r].new /\ j.amount = job[r].amount
    BY <1>2, <1>7, LoadsAndNews DEF JobRec
  <1> HIDE DEF j, rows
  <1>9. job'[r] = j
    BY <1>1, <1>6 DEF Types
  <1>10. PlanOK(r)'
    BY <1>1, <1>2, <1>8, <1>9 DEF PlanOK
  <1>11. LastOK(r)'
    BY <1>1, <1>2, <1>3, <1>8, <1>9 DEF LastOK
  <1> QED
    BY <1>1, <1>3, <1>4, <1>5, <1>6, <1>7, <1>8, <1>10, <1>11, ReplaceRows

LEMMA InsertLinksStep ==
    ASSUME IInv, NEW r \in Requests, InsertLinks(r), UNCHANGED <<cacheVars, seen>>
    PROVE  IInv'
  <1> DEFINE rows == job[r].new
             st == IF job[r].keptOf # NoKey THEN "guard" ELSE "done"
             j == [job[r] EXCEPT !.step = st, !.new = NoRow]
  <1>1. /\ job[r].step = "insert" /\ Types
        /\ \A k \in rows : Free(r, k)
        /\ Referable(r, rows)
        /\ job' = [job EXCEPT ![r].step = st, ![r].new = NoRow]
        /\ mine' = [mine EXCEPT ![r] = [k \in DOMAIN @ |->
                       IF k \in rows THEN [exists |-> TRUE] ELSE @[k]]]
        /\ held' = [held EXCEPT ![r] = @ \cup rows]
        /\ UNCHANGED <<db, arrived, cacheVars, seen>>
    BY DEF InsertLinks, IInv
  <1>2. /\ job[r] \in JobRec /\ PlanOK(r) /\ LastOK(r) /\ job[r].op \in RoleOps \cup UserOps
    BY <1>1, ReplacingFacts
  <1>3. /\ job[r].op \in RoleOps => rows \subseteq {Grant(job[r].key)} /\ job[r].key \in RoleIds
        /\ job[r].op \in UserOps => rows \subseteq LinksOf(job[r].key) /\ job[r].key \in Users
        /\ job[r].op \in {"updateRole", "assign", "createUser"}
    BY <1>1, <1>2 DEF PlanOK
  <1>4. rows \in SUBSET Keys
    <2>1. job[r].op \in RoleOps => Grant(job[r].key) \in Keys
      BY <1>3, KeyFacts DEF Grants
    <2>2. job[r].op \in UserOps => LinksOf(job[r].key) \subseteq Keys
      BY <1>3, KeyFacts
    <2> QED
      BY <1>2, <1>3, <2>1, <2>2
  <1>5. job' = [job EXCEPT ![r] = j]
    BY <1>1 DEF Types
  <1>6. st \in RoleSteps /\ st \in {"guard", "done"}
    BY DEF RoleSteps
  <1> HIDE DEF st
  <1>7. /\ j \in JobRec /\ j.op = job[r].op /\ j.key = job[r].key /\ j.step = st
        /\ j.amount = job[r].amount
    BY <1>2, <1>6, LoadsAndNews DEF JobRec
  <1> HIDE DEF j
  <1>8. job'[r] = j
    BY <1>1, <1>5 DEF Types
  <1>9. \A k \in rows : mine'[r][k] = [exists |-> TRUE]
    <2>1. mine[r] \in Table /\ mine \in [Requests -> Table]
      BY <1>1 DEF Types
    <2>2. mine[r] \in [Keys -> User \cup JoinRow \cup {NoRow}]
      BY <2>1, TableFacts
    <2> QED
      BY <1>1, <1>4, <2>1, <2>2
  <1>10. PlanOK(r)'
    BY <1>1, <1>2, <1>3, <1>6, <1>7, <1>8 DEF PlanOK
  <1>11. LastOK(r)'
    <2> SUFFICES ASSUME job[r].amount = {job[r].key}, job[r].op = "assign"
                 PROVE  Inserts(r, Link(job[r].key, SuperAdmin))'
      BY <1>3, <1>6, <1>7, <1>8 DEF LastOK
    <2>1. PICK k : k = Link(job[r].key, SuperAdmin)
      OBVIOUS
    <2>2. k \in rows
      BY <1>1, <1>2, <2>1 DEF LastOK
    <2>3. mine'[r][k].exists /\ mine'[r][k] # NoRow
      <3>1. [exists |-> TRUE] \in JoinRow /\ NoRow \notin JoinRow
        BY TablesAssumption DEF JoinRow
      <3> QED
        BY <1>9, <2>2, <3>1
    <2>4. Link(job'[r].key, SuperAdmin) = k
      BY <1>7, <1>8, <2>1
    <2> QED
      BY <2>3, <2>4 DEF Inserts
  <1> HIDE DEF rows
  <1> QED
    BY <1>1, <1>3, <1>4, <1>5, <1>6, <1>7, <1>10, <1>11, ReplaceRows

-----------------------------------------------------------------------------
(* The ends of requests.                                                   *)

LEMMA NoVersionsFacts ==
    ASSUME Types
    PROVE  NoVersions \in Table /\ \A k \in Keys : NoVersions[k] = NoRow
  <1>1. NoVersions = [k \in Keys |-> NoRow]
    BY DEF Types, Table, NoVersions
  <1>2. NoVersions \in [Keys -> User \cup JoinRow \cup {NoRow}]
    BY <1>1
  <1>3. \A k \in Keys : NoVersions[k] = NoRow
    BY <1>1
  <1> QED
    BY <1>2, <1>3, TableFacts

\* A session ends without a commit: what it has written is gone.
LEMMA SessionEnds ==
    ASSUME IInv, NEW r \in Requests, Open(r), EndSession(r), db' = db, arrived' = arrived,
           version' \in {version, version + 1}
    PROVE  /\ job'[r] = NoJob /\ \A s \in Requests \ {r} : job'[s] = job[s]
           /\ \A s \in Requests \ {r} : mine'[s] = mine[s] /\ held'[s] = held[s]
           /\ mine' \in [Requests -> Table] /\ held' \in [Requests -> SUBSET Keys]
           /\ job' \in [Requests -> JobRec] /\ version' \in Nat /\ FirstVersion <= version'
           /\ CountsOK' /\ \A s \in Requests : ChangeOK(s)'
           /\ \A u \in Users, ro \in RoleIds : LinkOK(u, ro)'
           /\ SuperOK' /\ \A u : IsActive(u)' = IsActive(u) /\ Holds(u)' = Holds(u)
  <1>1. /\ Types /\ job' = [job EXCEPT ![r] = NoJob]
        /\ mine' = [mine EXCEPT ![r] = NoVersions] /\ held' = [held EXCEPT ![r] = {}]
    BY DEF IInv, EndSession
  <1>2. NoVersions \in Table /\ \A k \in Keys : NoVersions[k] = NoRow
    BY <1>1, NoVersionsFacts
  <1>3. PICK none \in Table : none = NoVersions
    BY <1>2
  <1>4. /\ job'[r] = NoJob /\ \A s \in Requests \ {r} : job'[s] = job[s]
        /\ job' \in [Requests -> JobRec]
    BY <1>1, NoJobType DEF Types
  <1>5. /\ mine' \in [Requests -> Table] /\ mine'[r] = none
        /\ \A s \in Requests \ {r} : mine'[s] = mine[s]
    BY <1>1, <1>3, OwnTable
  <1>6. /\ held' \in [Requests -> SUBSET Keys] /\ held'[r] = {}
        /\ \A s \in Requests \ {r} : held'[s] = held[s]
    BY <1>1 DEF Types
  <1>7. CountsOK'
    BY <1>1, Ends
  <1>8. ASSUME NEW s \in Requests
        PROVE  ChangeOK(s)'
    <2>1. CASE s = r
      <3>1. /\ job'[r].op = "none" /\ job'[r].step = "done" /\ job'[r].amount = 0
            /\ job'[r].key = NoKey
        BY <1>4, NoJobType DEF NoJob
      <3>2. Clean(r)'
        BY <1>2, <1>3, <1>5 DEF Clean
      <3>3. PlanOK(r)' /\ MineOK(r)'
        BY <3>1, <3>2, OpFacts DEF PlanOK, MineOK, Clean, RoleOps, UserOps
      <3>4. LastOK(r)'
        BY <3>1 DEF LastOK
      <3> QED
        BY <1>6, <2>1, <3>1, <3>2, <3>3, <3>4, OpFacts DEF ChangeOK
    <2>2. CASE s # r
      BY <1>4, <1>5, <1>6, <2>2, ChangeKept DEF IInv
    <2> QED
      BY <2>1, <2>2
  <1>9. ASSUME NEW u \in Users, NEW ro \in RoleIds
        PROVE  LinkOK(u, ro)'
    <2>1. PICK l \in Links : l = Link(u, ro)
      BY LinkFacts
    <2>2. l \in Keys /\ u \in Keys /\ ro \in Keys
      BY <2>1, KeyFacts
    <2>3. mine'[r][l] = NoRow /\ mine'[r][u] = NoRow /\ mine'[r][ro] = NoRow
      BY <1>2, <1>3, <1>5, <2>2
    <2>4. LinkOK(u, ro)
      BY DEF IInv
    <2> QED
      BY <1>5, <1>6, <2>1, <2>3, <2>4 DEF LinkOK, Inserts, Deletes, There, Seen, Committed
  <1>10. SuperOK' /\ \A u : IsActive(u)' = IsActive(u) /\ Holds(u)' = Holds(u)
    BY DEF IInv, SuperOK, IsActive, Holds, Committed
  <1>11. version' \in Nat /\ FirstVersion <= version'
    <2>1. version \in Nat /\ FirstVersion \in Nat /\ FirstVersion <= version
      BY <1>1, AccessAssumption DEF Types
    <2> QED
      BY <2>1
  <1> QED
    BY <1>4, <1>5, <1>6, <1>7, <1>8, <1>9, <1>10, <1>11

LEMMA RollbackStep ==
    ASSUME IInv, NEW r \in Requests, ~Asking(r), job[r].step # "announce", Rollback(r),
           UNCHANGED <<cacheVars, seen>>
    PROVE  IInv'
  <1>1. /\ Open(r) /\ EndSession(r) /\ db' = db /\ arrived' = arrived /\ version' = version
        /\ cache' = cache /\ lost' = lost /\ seen' = seen
    BY DEF Rollback, cacheVars
  <1>2. /\ job'[r] = NoJob /\ \A s \in Requests \ {r} : job'[s] = job[s]
        /\ \A s \in Requests \ {r} : mine'[s] = mine[s] /\ held'[s] = held[s]
        /\ mine' \in [Requests -> Table] /\ held' \in [Requests -> SUBSET Keys]
        /\ job' \in [Requests -> JobRec]
        /\ CountsOK' /\ \A s \in Requests : ChangeOK(s)'
        /\ \A u \in Users, ro \in RoleIds : LinkOK(u, ro)'
    BY <1>1, SessionEnds
  <1>3. Types'
    BY <1>1, <1>2 DEF IInv, Types
  <1>4. Aside(r)
    BY <1>1, <1>2 DEF Aside
  <1>5. ~Asking(r)' /\ job'[r].step # "announce"
    BY <1>2, NoJobType DEF Asking
  <1>6. /\ \A s \in Requests : CheckOK(s)' /\ NotTold(s)'
        /\ CurrentOK' /\ LaterEmpty' /\ SuperOK'
    BY <1>4, <1>5, ChecksAside
  <1> QED
    BY <1>2, <1>3, <1>6 DEF IInv

\* The increment: the readers turn to a version whose entries are all empty.
LEMMA AnnounceStep ==
    ASSUME IInv, NEW r \in Requests, Announce(r) \/ LoseAnnouncement(r)
    PROVE  IInv'
  <1>1. /\ job[r].step = "announce" /\ EndSession(r) /\ db' = db /\ arrived' = arrived
        /\ cache' = cache /\ seen' = seen
        /\ \/ version' = version + 1 /\ lost' = (version = 0)
           \/ version' = version /\ lost' = TRUE
    BY DEF Announce, LoseAnnouncement
  <1>2. Types /\ CountsOK /\ version \in Nat
    BY DEF IInv, Types
  <1>3. Open(r) /\ ~Asking(r)
    <2>1. ChangeOK(r) /\ CheckOK(r)
      BY DEF IInv
    <2> QED
      BY <1>1, <2>1, OpFacts DEF ChangeOK, CheckOK, Open
  <1>4. /\ job'[r] = NoJob /\ \A s \in Requests \ {r} : job'[s] = job[s]
        /\ \A s \in Requests \ {r} : mine'[s] = mine[s] /\ held'[s] = held[s]
        /\ mine' \in [Requests -> Table] /\ held' \in [Requests -> SUBSET Keys]
        /\ job' \in [Requests -> JobRec] /\ version' \in Nat /\ FirstVersion <= version'
        /\ CountsOK' /\ \A s \in Requests : ChangeOK(s)'
        /\ \A u \in Users, ro \in RoleIds : LinkOK(u, ro)'
        /\ SuperOK' /\ \A u : IsActive(u)' = IsActive(u) /\ Holds(u)' = Holds(u)
    BY <1>1, <1>3, SessionEnds
  <1>5. Types'
    BY <1>1, <1>2, <1>4 DEF Types
  <1>6. \A s \in Requests : Asking(s)' => s # r /\ Asking(s) /\ job'[s] = job[s]
    BY <1>4, NoJobType DEF Asking, Open
  <1>7. PICK old \in Nat, new \in Nat :
            /\ old = ReadableVersion /\ new = ReadableVersion' /\ old >= 1
            /\ new = old \/ (new = old + 1 /\ new \in Versions)
            /\ ~lost' => new = old + 1
    <2>1. ReadableVersion \in Nat /\ ReadableVersion >= 1
      BY <1>2, VersionFacts
    <2>2. ReadableVersion' \in Versions /\ ReadableVersion' \in Nat
      <3>1. version' \in FirstVersion .. FirstVersion + MaxArrivals
        <4>1. PICK going : going = Going'
          OBVIOUS
        <4>2. IsFiniteSet(going) /\ version' + Cardinality(going) <= FirstVersion + arrived
          BY <1>1, <1>4, <4>1 DEF CountsOK
        <4>3. Cardinality(going) \in Nat
          BY <4>2, FS_CardinalityType
        <4> QED
          BY <1>2, <1>4, <4>2, <4>3, AccessAssumption, SessionsAssumption DEF Types
      <3>2. FirstVersion \in Nat /\ MaxArrivals \in Nat
        BY AccessAssumption, SessionsAssumption
      <3> QED
        BY <3>1, <3>2 DEF ReadableVersion, Versions
    <2>3. /\ ReadableVersion' \in {ReadableVersion, ReadableVersion + 1}
          /\ ~lost' => ReadableVersion' = ReadableVersion + 1
      <3>1. ~lost' => version' = version + 1 /\ version # 0
        BY <1>1, Zenon
      <3>2. version' = version \/ version' = version + 1
        BY <1>1, Zenon
      <3>3. CASE version = 0
        BY <1>2, <3>1, <3>2, <3>3 DEF ReadableVersion
      <3>4. CASE version # 0
        <4>1. ReadableVersion = version
          BY <3>4 DEF ReadableVersion
        <4>2. version' # 0
          BY <1>2, <3>2, <3>4
        <4>3. ReadableVersion' = version'
          BY <4>2 DEF ReadableVersion
        <4> QED
          BY <3>1, <3>2, <4>1, <4>3
      <3> QED
        BY <3>3, <3>4
    <2>4. PICK old \in Nat : old = ReadableVersion
      BY <2>1
    <2>5. PICK new \in Nat : new = ReadableVersion'
      BY <2>2
    <2> QED
      BY <2>1, <2>2, <2>3, <2>4, <2>5
  <1>8. ASSUME NEW s \in Requests
        PROVE  CheckOK(s)'
    <2> SUFFICES ASSUME Asking(s)'
                 PROVE  CheckOK(s)'
      BY DEF CheckOK
    <2>1. s # r /\ Asking(s) /\ job'[s] = job[s] /\ CheckOK(s)
      BY <1>6 DEF IInv
    <2>2. mine'[s] = mine[s] /\ held'[s] = held[s]
      BY <1>4, <2>1
    <2>3. job[s].amount \in 0 .. ReadableVersion'
      BY <1>7, <2>1 DEF CheckOK
    <2> QED
      BY <1>1, <1>4, <2>1, <2>2, <2>3 DEF CheckOK, Clean
  <1>9. ASSUME NEW v, NEW u, Denies(v, u)
        PROVE  Denies(v, u)'
    BY <1>1, <1>6, <1>9 DEF Denies, Filling
  <1>10. ASSUME new = old + 1, NEW u \in Users
         PROVE  /\ cache[new][u].members = {}
                /\ \A s \in Requests : Filling(s)' => job'[s].amount # new
    <2>1. cache[new][u].members = {}
      BY <1>7, <1>10 DEF IInv, LaterEmpty
    <2>2. ASSUME NEW s \in Requests, Filling(s)'
          PROVE  job'[s].amount # new
      <3>1. Asking(s) /\ job'[s] = job[s] /\ CheckOK(s)
        BY <1>6, <2>2 DEF Filling, IInv
      <3> QED
        BY <1>7, <1>10, <3>1 DEF CheckOK
    <2> QED
      BY <2>1, <2>2
  <1>11. ASSUME NEW s \in Requests
         PROVE  NotTold(s)'
    <2> SUFFICES ASSUME Asking(s)', "holds" \notin seen[s]
                 PROVE  Denies(VersionOf(s), job[s].key)'
      BY <1>1 DEF NotTold
    <2>1. /\ Asking(s) /\ job'[s] = job[s] /\ CheckOK(s) /\ NotTold(s)
      BY <1>6 DEF IInv
    <2>2. PICK v, w, u : /\ v = VersionOf(s) /\ w = VersionOf(s)'
                         /\ u = job[s].key /\ u \in Users
      BY <2>1 DEF CheckOK
    <2>3. Denies(v, u)
      BY <2>1, <2>2 DEF NotTold
    <2>4. Denies(w, u)'
      <3>1. CASE w = v
        BY <1>9, <2>3, <3>1
      <3>2. CASE w # v
        <4>1. w = new /\ new = old + 1
          BY <1>7, <2>1, <2>2, <3>2 DEF VersionOf
        <4>2. /\ cache[new][u].members = {}
              /\ \A q \in Requests : Filling(q)' => job'[q].amount # new
          BY <1>10, <2>2, <4>1
        <4> QED
          BY <1>1, <4>1, <4>2 DEF Denies
      <3> QED
        BY <3>1, <3>2
    <2> QED
      BY <2>1, <2>2, <2>4 DEF Denies
  <1>12. CurrentOK'
    <2> SUFFICES ASSUME ~lost', NEW u \in Users
                 PROVE  /\ Agrees(ReadableVersion, u)'
                        /\ \A s \in Requests :
                             Filling(s)' => job'[s].amount # ReadableVersion'
      BY DEF CurrentOK, InForce
    <2>1. /\ cache[new][u].members = {}
          /\ \A s \in Requests : Filling(s)' => job'[s].amount # new
      BY <1>7, <1>10
    <2> QED
      BY <1>1, <1>7, <2>1 DEF Agrees
  <1>13. LaterEmpty'
    <2> SUFFICES ASSUME NEW v \in Versions, NEW u \in Users, v > new
                 PROVE  cache[v][u].members = {}
      BY <1>1, <1>7 DEF LaterEmpty
    <2>1. v > old
      BY <1>7, AccessAssumption, SessionsAssumption DEF Versions
    <2> QED
      BY <1>7, <2>1 DEF IInv, LaterEmpty
  <1> QED
    BY <1>4, <1>5, <1>8, <1>11, <1>12, <1>13 DEF IInv

\* The rows of Super Admin are in nobody's reach.
LEMMA SuperAside ==
    ASSUME IInv, NEW r \in Requests, job[r].step # "announce", job[r].op \in RoleOps \cup UserOps
    PROVE  mine[r][SuperAdmin] = NoRow /\ mine[r][Grant(SuperAdmin)] = NoRow
  <1>1. PlanOK(r) /\ MineOK(r)
    BY DEF IInv, ChangeOK
  <1>2. /\ SuperAdmin \in RoleIds /\ SuperAdmin \in Keys /\ Grant(SuperAdmin) \in Grants
        /\ Grant(SuperAdmin) \in Keys /\ SuperAdmin \notin Users \cup Links \cup Grants
        /\ Grant(SuperAdmin) \notin Users \cup RoleIds \cup Links
    <2>1. SuperAdmin \in RoleIds
      BY RolesAssumption
    <2> QED
      BY <2>1, KeyFacts DEF Grants
  <1>3. SuperAdmin \notin Reach(job[r].op, job[r].key)
        /\ Grant(SuperAdmin) \notin Reach(job[r].op, job[r].key)
    <2>1. PICK op, k : op = job[r].op /\ k = job[r].key
      OBVIOUS
    <2>2. CASE op \in RoleOps
      <3>1. k \in RoleIds /\ k # SuperAdmin
        BY <1>1, <2>1, <2>2 DEF PlanOK
      <3>2. Grant(k) \in Grants /\ Grant(k) # Grant(SuperAdmin)
        BY <3>1, LinkOfOne DEF Grants
      <3> QED
        BY <1>2, <2>1, <2>2, <3>1, <3>2, ReachFacts
    <2>3. CASE op \in UserOps
      <3>1. k \in Users /\ LinksOf(k) \subseteq Links
        BY <1>1, <2>1, <2>3, KeyFacts DEF PlanOK
      <3> QED
        BY <1>2, <2>1, <2>3, <3>1, ReachFacts DEF UserOps
    <2> QED
      BY <2>1, <2>2, <2>3
  <1> QED
    BY <1>1, <1>2, <1>3 DEF MineOK

LEMMA CommitChangeFacts ==
    ASSUME IInv, NEW r \in Requests, CommitChange(r)
    PROVE  /\ Types' /\ CountsOK' /\ SuperOK' /\ ~Asking(r)
           /\ job[r].op \in RoleOps \cup UserOps /\ job[r].step = "done"
           /\ PlanOK(r) /\ MineOK(r) /\ LastOK(r)
           /\ job'[r].step = "announce" /\ job'[r].op = job[r].op
           /\ \A s \in Requests \ {r} : job'[s] = job[s] /\ mine'[s] = mine[s] /\ held'[s] = held[s]
           /\ held'[r] = {} /\ \A k \in Keys : mine'[r][k] = NoRow
           /\ \A k \in Keys : db'[k] = Seen(r, k)
           /\ version' = version /\ cache' = cache
           /\ \A s \in Requests : ~Asking(s) => seen'[s] = seen[s]
           /\ \A s \in Requests : Asking(s) =>
                seen'[s] = seen[s]
                           \cup TrueOf(job[s].key, IsActive(job[s].key)', Holds(job[s].key)')
  <1>1. /\ Open(r) /\ ~Asking(r) /\ job[r].step = "done" /\ Types
        /\ db' = [k \in DOMAIN db |-> Seen(r, k)]
        /\ job' = [job EXCEPT ![r] = [Job(@.op, NoKey) EXCEPT !.step = "announce"]]
        /\ mine' = [mine EXCEPT ![r] = NoVersions]
        /\ held' = [held EXCEPT ![r] = {}]
        /\ seen' = [s \in Requests |->
                      IF ~Asking(s) THEN seen[s]
                      ELSE seen[s]
                           \cup TrueOf(job[s].key, IsActive(job[s].key)', Holds(job[s].key)')]
        /\ arrived' = arrived /\ version' = version /\ cache' = cache /\ lost' = lost
    BY DEF CommitChange, IInv, cacheVars
  <1>2. "done" \in RoleSteps /\ job[r].op # "none"
    BY <1>1 DEF RoleSteps, Open
  <1>3. PlanOK(r) /\ MineOK(r) /\ LastOK(r) /\ job[r].op \in RoleOps \cup UserOps
    BY <1>1, <1>2, GoingFacts
  <1>4. PICK op \in RoleOps \cup UserOps : op = job[r].op
    BY <1>3
  <1>5. PICK j \in JobRec : /\ j = [Job(op, NoKey) EXCEPT !.step = "announce"]
                            /\ j.op = op /\ j.step = "announce"
    <2>1. PICK q \in JobRec : q = NoJob
      BY NoJobType
    <2>2. PICK p : p = [[q EXCEPT !.op = op, !.key = NoKey] EXCEPT !.step = "announce"]
      OBVIOUS
    <2>3. p \in JobRec /\ p.op = op /\ p.step = "announce"
      BY <2>2 DEF JobRec
    <2> QED
      BY <2>1, <2>2, <2>3 DEF Job
  <1>6. job' = [job EXCEPT ![r] = j]
    BY <1>1, <1>4, <1>5 DEF Types
  <1>7. /\ job' \in [Requests -> JobRec] /\ job'[r] = j
        /\ \A s \in Requests \ {r} : job'[s] = job[s]
    BY <1>1, <1>6 DEF Types
  <1>8. NoVersions \in Table /\ \A k \in Keys : NoVersions[k] = NoRow
    BY <1>1, NoVersionsFacts
  <1>9. PICK none \in Table : none = NoVersions
    BY <1>8
  <1>10. /\ mine' \in [Requests -> Table] /\ mine'[r] = none
         /\ \A s \in Requests \ {r} : mine'[s] = mine[s]
    BY <1>1, <1>9, OwnTable
  <1>11. /\ held' \in [Requests -> SUBSET Keys] /\ held'[r] = {}
         /\ \A s \in Requests \ {r} : held'[s] = held[s]
    BY <1>1 DEF Types
  <1>12. \A k \in Keys : db'[k] = Seen(r, k)
    BY <1>1 DEF Types, Table
  <1>13. db' \in Table
    <2>1. db \in Table /\ mine[r] \in Table
      BY <1>1 DEF Types
    <2>2. \A k \in Keys : Seen(r, k) \in RowsFor(k) \cup {NoRow}
      BY <2>1, TableFacts DEF Seen
    <2>3. \A k \in Keys : Seen(r, k) \in User \cup JoinRow \cup {NoRow}
      BY <2>2 DEF RowsFor
    <2>4. DOMAIN db = Keys
      BY <2>1 DEF Table
    <2>5. db' \in [Keys -> User \cup JoinRow \cup {NoRow}]
      BY <1>1, <2>3, <2>4
    <2> QED
      BY <1>12, <2>2, <2>5, TableFacts
  <1>14. CountsOK'
    BY <1>1, <1>5, <1>6, GoesOn, OpFacts
  <1>15. seen' \in [Requests -> SUBSET {"active", "holds"}]
    <2>1. \A u, a, h : TrueOf(u, a, h) \subseteq {"active", "holds"}
      BY DEF TrueOf
    <2>2. \A s \in Requests : seen[s] \subseteq {"active", "holds"}
      BY <1>1 DEF Types
    <2> QED
      BY <1>1, <2>1, <2>2
  <1>16. Types'
    BY <1>1, <1>7, <1>10, <1>11, <1>13, <1>15 DEF Types
  <1>17. SuperOK'
    <2>1. mine[r][SuperAdmin] = NoRow /\ mine[r][Grant(SuperAdmin)] = NoRow
      BY <1>1, <1>3, SuperAside
    <2>2. SuperAdmin \in Keys /\ Grant(SuperAdmin) \in Keys
      BY RolesAssumption, KeyFacts DEF Grants
    <2>3. db'[SuperAdmin] = db[SuperAdmin] /\ db'[Grant(SuperAdmin)] = db[Grant(SuperAdmin)]
      BY <1>12, <2>1, <2>2 DEF Seen
    <2> QED
      BY <2>3 DEF IInv, SuperOK, Committed
  <1>18. /\ \A s \in Requests : ~Asking(s) => seen'[s] = seen[s]
         /\ \A s \in Requests : Asking(s) =>
              seen'[s] = seen[s] \cup TrueOf(job[s].key, IsActive(job[s].key)', Holds(job[s].key)')
    BY <1>1
  <1> QED
    BY <1>1, <1>3, <1>4, <1>5, <1>7, <1>8, <1>9, <1>10, <1>11, <1>12, <1>14, <1>16, <1>17, <1>18

LEMMA CommitLinks ==
    ASSUME IInv, NEW r \in Requests, CommitChange(r), NEW u \in Users, NEW ro \in RoleIds
    PROVE  LinkOK(u, ro)'
  <1>1. PICK l \in Links : l = Link(u, ro)
    BY LinkFacts
  <1>2. l \in Keys /\ u \in Keys /\ ro \in Keys
    BY <1>1, KeyFacts
  <1>3. /\ db'[l] = Seen(r, l) /\ db'[u] = Seen(r, u) /\ db'[ro] = Seen(r, ro)
        /\ mine'[r][l] = NoRow /\ mine'[r][u] = NoRow /\ mine'[r][ro] = NoRow /\ held'[r] = {}
        /\ \A s \in Requests \ {r} : mine'[s] = mine[s] /\ held'[s] = held[s]
    BY <1>2, CommitChangeFacts
  <1>4. /\ Committed(l)' = There(r, l) /\ Committed(u)' = There(r, u)
        /\ Committed(ro)' = There(r, ro)
    BY <1>3 DEF Committed, There
  <1>5. ~Inserts(r, l)' /\ ~Deletes(r, l)' /\ ~Deletes(r, u)' /\ ~Deletes(r, ro)'
    BY <1>3 DEF Inserts, Deletes
  <1>6. \A s \in Requests \ {r} : /\ Inserts(s, l)' = Inserts(s, l)
                                  /\ Deletes(s, l)' = Deletes(s, l)
                                  /\ Deletes(s, u)' = Deletes(s, u)
                                  /\ Deletes(s, ro)' = Deletes(s, ro)
    BY <1>3 DEF Inserts, Deletes
  <1>7. LinkOK(u, ro)
    BY DEF IInv
  <1>8. There(r, l) => Inserts(r, l) \/ (Committed(l) /\ ~Deletes(r, l))
    BY DEF There, Seen, Inserts, Committed, Deletes
  <1>9. \A k \in {u, ro} : Committed(k) /\ ~Deletes(r, k) => There(r, k)
    BY DEF There, Seen, Committed, Deletes
  <1>10. There(r, l) => There(r, u) /\ There(r, ro)
    BY <1>1, <1>7, <1>8, <1>9 DEF LinkOK
  <1>11. ASSUME NEW s \in Requests \ {r}, Inserts(s, l)
         PROVE  /\ There(s, u)' /\ There(s, ro)'
                /\ \A q \in Requests \ {s} : ~Deletes(q, u)' /\ ~Deletes(q, ro)'
    <2>1. /\ There(s, u) /\ There(s, ro)
          /\ \A q \in Requests \ {s} : ~Deletes(q, u) /\ ~Deletes(q, ro)
      BY <1>1, <1>7, <1>11 DEF LinkOK
    <2>2. There(s, u)' /\ There(s, ro)'
      BY <1>3, <2>1 DEF There, Seen, Deletes
    <2> QED
      BY <1>5, <1>6, <2>1, <2>2
  <1>12. ASSUME NEW s \in Requests \ {r}, There(r, l)
         PROVE  /\ ~Deletes(s, ro)
                /\ Deletes(s, u) => Deletes(s, l)
    BY <1>1, <1>7, <1>8, <1>12 DEF LinkOK
  <1>13. \A s \in Requests : l \in held'[s] => \A q \in Requests \ {s} : l \notin held'[q]
    BY <1>1, <1>3, <1>7 DEF LinkOK
  <1>14. \A s \in Requests :
           /\ Inserts(s, l)' => /\ There(s, u)' /\ There(s, ro)'
                                /\ \A q \in Requests \ {s} : ~Deletes(q, u)' /\ ~Deletes(q, ro)'
           /\ Deletes(s, ro)' => ~Committed(l)'
           /\ Deletes(s, u)' => (Committed(l)' => Deletes(s, l)')
    BY <1>4, <1>5, <1>6, <1>11, <1>12
  <1> QED
    BY <1>1, <1>4, <1>10, <1>13, <1>14 DEF LinkOK, Committed, Inserts, Deletes, There, Seen

LEMMA CommitChangeStep ==
    ASSUME IInv, NEW r \in Requests, CommitChange(r)
    PROVE  IInv'
  <1>1. /\ Types' /\ CountsOK' /\ SuperOK' /\ ~Asking(r)
        /\ job[r].op \in RoleOps \cup UserOps
        /\ job'[r].step = "announce" /\ job'[r].op = job[r].op
        /\ \A s \in Requests \ {r} : job'[s] = job[s] /\ mine'[s] = mine[s] /\ held'[s] = held[s]
        /\ held'[r] = {} /\ \A k \in Keys : mine'[r][k] = NoRow
        /\ version' = version /\ cache' = cache
        /\ \A s \in Requests : Asking(s) =>
             seen'[s] = seen[s] \cup TrueOf(job[s].key, IsActive(job[s].key)', Holds(job[s].key)')
    BY CommitChangeFacts
  <1>2. ReadableVersion' = ReadableVersion
    BY <1>1 DEF ReadableVersion
  <1>3. ~Asking(r)'
    BY <1>1, OpFacts DEF Asking
  <1>4. \A s \in Requests : Asking(s)' => s # r /\ Asking(s) /\ job'[s] = job[s]
    BY <1>1, <1>3 DEF Asking, Open
  <1>5. ASSUME NEW s \in Requests
        PROVE  ChangeOK(s)'
    <2>1. CASE s = r
      <3>1. Clean(r)'
        BY <1>1 DEF Clean
      <3> QED
        BY <1>1, <2>1, <3>1, OpFacts DEF ChangeOK
    <2>2. CASE s # r
      BY <1>1, <2>2, ChangeKept DEF IInv
    <2> QED
      BY <2>1, <2>2
  <1>6. ASSUME NEW s \in Requests, Asking(s)'
        PROVE  /\ seen[s] \subseteq seen'[s]
               /\ IsActive(job[s].key)' => "active" \in seen'[s]
               /\ Holds(job[s].key)' => "holds" \in seen'[s]
    <2>1. Asking(s)
      BY <1>4, <1>6
    <2>2. PICK u, a, h : u = job[s].key /\ a = IsActive(u)' /\ h = Holds(u)'
      OBVIOUS
    <2>3. seen'[s] = seen[s] \cup TrueOf(u, a, h)
      <3>1. IsActive(job[s].key)' = a /\ Holds(job[s].key)' = h
        BY <1>4, <1>6, <2>2 DEF IsActive, Holds, Committed
      <3> QED
        BY <1>1, <2>1, <2>2, <3>1
    <2> QED
      BY <1>4, <1>6, <2>2, <2>3 DEF TrueOf
  <1>7. ASSUME NEW s \in Requests
        PROVE  CheckOK(s)'
    <2> SUFFICES ASSUME Asking(s)'
                 PROVE  CheckOK(s)'
      BY DEF CheckOK
    <2>1. s # r /\ Asking(s) /\ job'[s] = job[s] /\ CheckOK(s)
      BY <1>4 DEF IInv
    <2>2. mine'[s] = mine[s] /\ held'[s] = held[s]
      BY <1>1, <2>1
    <2>3. /\ seen[s] \subseteq seen'[s]
          /\ IsActive(job[s].key)' => "active" \in seen'[s]
          /\ Holds(job[s].key)' => "holds" \in seen'[s]
      BY <1>6
    <2> QED
      BY <1>2, <2>1, <2>2, <2>3 DEF CheckOK, Clean
  <1>8. ASSUME NEW v, NEW u, Denies(v, u)
        PROVE  Denies(v, u)'
    BY <1>1, <1>4, <1>8 DEF Denies, Filling
  <1>9. ASSUME NEW s \in Requests
        PROVE  NotTold(s)'
    <2> SUFFICES ASSUME Asking(s)', "holds" \notin seen'[s]
                 PROVE  Denies(VersionOf(s), job[s].key)'
      BY DEF NotTold
    <2>1. Asking(s) /\ job'[s] = job[s] /\ NotTold(s)
      BY <1>4 DEF IInv
    <2>2. PICK v, u : v = VersionOf(s) /\ u = job[s].key
      OBVIOUS
    <2>3. Denies(v, u)'
      BY <1>6, <1>8, <2>1, <2>2 DEF NotTold
    <2>4. VersionOf(s)' = v
      BY <1>2, <2>1, <2>2 DEF VersionOf
    <2> QED
      BY <2>1, <2>2, <2>3, <2>4 DEF Denies
  <1>10. CurrentOK'
    <2>1. r \in Announcing'
      BY <1>1 DEF Announcing
    <2> QED
      BY <2>1 DEF CurrentOK, InForce
  <1>11. LaterEmpty'
    BY <1>1, <1>2 DEF IInv, LaterEmpty
  <1> QED
    BY <1>1, <1>5, <1>7, <1>9, <1>10, <1>11, CommitLinks DEF IInv

-----------------------------------------------------------------------------
(* Steps of require_permission.                                            *)

\* An asking request takes a step: those who change something do not notice.
LEMMA AskingStep ==
    ASSUME IInv, NEW r \in Requests, Asking(r), NEW j \in JobRec, job' = [job EXCEPT ![r] = j],
           j.op = "check", j.key = job[r].key, j.step \in CheckSteps,
           UNCHANGED <<db, mine, held, arrived, version, lost, seen>>,
           cache' \in [Versions -> [Users -> Entry]]
    PROVE  /\ Types' /\ CountsOK' /\ SuperOK' /\ \A s \in Requests : ChangeOK(s)'
           /\ \A u \in Users, ro \in RoleIds : LinkOK(u, ro)'
           /\ job'[r] = j /\ \A s \in Requests \ {r} : job'[s] = job[s]
           /\ ReadableVersion' = ReadableVersion /\ InForce' = InForce /\ Asking(r)'
           /\ \A u : IsActive(u)' = IsActive(u) /\ Holds(u)' = Holds(u)
           /\ \A s \in Requests \ {r} : CheckOK(s)' /\ Asking(s)' = Asking(s)
  <1>1. Types /\ CheckOK(r) /\ Open(r) /\ job[r].op = "check"
    BY DEF IInv, Asking
  <1>2. job'[r] = j /\ \A s \in Requests \ {r} : job'[s] = job[s]
    BY <1>1 DEF Types
  <1>3. Types'
    BY <1>1 DEF Types
  <1>4. CountsOK'
    BY <1>1, GoesOn
  <1>5. ReadableVersion' = ReadableVersion
    BY DEF ReadableVersion
  <1>6. job[r].step # "announce" /\ j.step # "announce"
    BY <1>1, OpFacts DEF CheckOK
  <1>7. Announcing' = Announcing
    BY <1>2, <1>6 DEF Announcing
  <1>8. InForce' = InForce
    BY <1>7 DEF InForce
  <1>9. Asking(r)' /\ \A s \in Requests \ {r} : Asking(s)' = Asking(s)
    BY <1>2 DEF Asking, Open
  <1>10. SuperOK' /\ \A u : IsActive(u)' = IsActive(u) /\ Holds(u)' = Holds(u)
    BY DEF IInv, SuperOK, IsActive, Holds, Committed
  <1>11. ASSUME NEW u \in Users, NEW ro \in RoleIds
         PROVE  LinkOK(u, ro)'
    BY DEF IInv, LinkOK, Inserts, Deletes, There, Seen, Committed
  <1>12. ASSUME NEW s \in Requests
         PROVE  ChangeOK(s)'
    <2>1. CASE s = r
      <3>1. Clean(r)'
        BY <1>1 DEF CheckOK, Clean
      <3>2. job'[r].op = "check" /\ job'[r].step # "announce" /\ job'[r].step \notin RoleSteps
        BY <1>2, OpFacts
      <3>3. PlanOK(r)' /\ MineOK(r)' /\ LastOK(r)'
        BY <3>1, <3>2, OpFacts DEF PlanOK, MineOK, LastOK, Clean, RoleSteps
      <3> QED
        BY <2>1, <3>2, <3>3, OpFacts DEF ChangeOK
    <2>2. CASE s # r
      BY <1>2, <2>2, ChangeKept DEF IInv
    <2> QED
      BY <2>1, <2>2
  <1>13. ASSUME NEW s \in Requests \ {r}
         PROVE  CheckOK(s)'
    <2> SUFFICES ASSUME Asking(s)
                 PROVE  CheckOK(s)'
      BY <1>9 DEF CheckOK
    <2>1. CheckOK(s) /\ job'[s] = job[s]
      BY <1>2 DEF IInv
    <2> QED
      BY <1>5, <1>9, <1>10, <2>1 DEF CheckOK, Clean
  <1> QED
    BY <1>2, <1>3, <1>4, <1>5, <1>8, <1>9, <1>10, <1>11, <1>12, <1>13

\* One that leaves the cache alone; what it is to put there, if anything, is true.
LEMMA ReadingStep ==
    ASSUME IInv, NEW r \in Requests, Asking(r), NEW j \in JobRec, job' = [job EXCEPT ![r] = j],
           j.op = "check", j.key = job[r].key, j.step \in CheckSteps,
           UNCHANGED <<db, mine, held, arrived, cacheVars, seen>>,
           \/ j.amount = job[r].amount
           \/ job[r].amount = 0 /\ j.amount = ReadableVersion /\ j.step \notin {"fill", "expire"},
           j.step \in {"fill", "expire"} =>
               \/ Filling(r) /\ j.amount = job[r].amount /\ j.new = job[r].new
               \/ Permission \in j.new <=> Holds(job[r].key),
           CheckOK(r)'
    PROVE  IInv'
  <1>1. UNCHANGED <<db, mine, held, arrived, version, lost, seen>> /\ cache' = cache
    BY DEF cacheVars
  <1>2. cache' \in [Versions -> [Users -> Entry]] /\ CheckOK(r)
    BY <1>1 DEF IInv, Types
  <1>3. /\ Types' /\ CountsOK' /\ SuperOK' /\ \A s \in Requests : ChangeOK(s)'
        /\ \A u \in Users, ro \in RoleIds : LinkOK(u, ro)'
        /\ job'[r] = j /\ \A s \in Requests \ {r} : job'[s] = job[s]
        /\ ReadableVersion' = ReadableVersion /\ InForce' = InForce /\ Asking(r)'
        /\ \A u : IsActive(u)' = IsActive(u) /\ Holds(u)' = Holds(u)
        /\ \A s \in Requests \ {r} : CheckOK(s)' /\ Asking(s)' = Asking(s)
    BY <1>1, <1>2, AskingStep
  <1>4. \A s \in Requests : /\ Asking(s)' => Asking(s) /\ job'[s].key = job[s].key
                            /\ VersionOf(s)' = VersionOf(s)
    <2>1. VersionOf(r)' = VersionOf(r)
      <3>1. CASE j.amount = job[r].amount
        BY <1>3, <3>1 DEF VersionOf
      <3>2. CASE job[r].amount = 0 /\ j.amount = ReadableVersion
        BY <1>3, <3>2 DEF VersionOf
      <3> QED
        BY <3>1, <3>2
    <2> QED
      BY <1>3, <2>1 DEF VersionOf
  <1>5. ASSUME NEW s \in Requests, Filling(s)'
        PROVE  \/ Filling(s) /\ job'[s].amount = job[s].amount /\ job'[s].new = job[s].new
                  /\ job'[s].key = job[s].key
               \/ Permission \in job'[s].new <=> Holds(job'[s].key)
    <2>1. CASE s = r
      BY <1>3, <1>5, <2>1 DEF Filling
    <2>2. CASE s # r
      BY <1>3, <1>5, <2>2 DEF Filling
    <2> QED
      BY <2>1, <2>2
  <1>6. ASSUME NEW s \in Requests
        PROVE  NotTold(s)'
    <2> SUFFICES ASSUME Asking(s)', "holds" \notin seen[s]
                 PROVE  Denies(VersionOf(s), job[s].key)'
      BY <1>1 DEF NotTold
    <2>1. PICK v, u : v = VersionOf(s) /\ u = job[s].key
      OBVIOUS
    <2>2. Asking(s) /\ CheckOK(s) /\ Denies(v, u)
      BY <1>4, <2>1 DEF IInv, NotTold
    <2>3. ~Holds(u)
      BY <2>1, <2>2 DEF CheckOK
    <2>4. ASSUME NEW q \in Requests, Filling(q)', job'[q].amount = v, job'[q].key = u
          PROVE  Permission \notin job'[q].new
      BY <1>5, <2>2, <2>3, <2>4 DEF Denies
    <2>5. Permission \notin cache'[v][u].members
      BY <1>1, <2>2 DEF Denies
    <2>6. VersionOf(s)' = v /\ job'[s].key = u
      BY <1>4, <2>1
    <2> QED
      BY <2>4, <2>5, <2>6 DEF Denies
  <1>7. CurrentOK'
    <2> SUFFICES ASSUME InForce, NEW u \in Users
                 PROVE  /\ Agrees(ReadableVersion, u)'
                        /\ \A s \in Requests :
                             Filling(s)' /\ job'[s].amount = ReadableVersion /\ job'[s].key = u =>
                                (Permission \in job'[s].new <=> Holds(u))
      BY <1>3 DEF CurrentOK
    <2>1. /\ Agrees(ReadableVersion, u)
          /\ \A s \in Requests :
               Filling(s) /\ job[s].amount = ReadableVersion /\ job[s].key = u =>
                  (Permission \in job[s].new <=> Holds(u))
      BY DEF IInv, CurrentOK
    <2>2. Agrees(ReadableVersion, u)'
      BY <1>1, <1>3, <2>1 DEF Agrees
    <2> QED
      BY <1>5, <2>1, <2>2
  <1>8. LaterEmpty'
    BY <1>1, <1>3 DEF IInv, LaterEmpty
  <1> QED
    BY <1>3, <1>6, <1>7, <1>8 DEF IInv

\* The facts about a request that asks.
LEMMA AskingFacts ==
    ASSUME IInv, NEW r \in Requests, NEW step, At(r, "check", step)
    PROVE  /\ Asking(r) /\ CheckOK(r) /\ NotTold(r) /\ job[r] \in JobRec
           /\ job[r].op = "check" /\ job[r].step = step /\ job[r].key \in Users
           /\ Types /\ CountsOK /\ SuperOK
           /\ "check" \in RoleOps \cup UserOps \cup {"check", "none"}
  <1>1. Asking(r) /\ job[r].op = "check" /\ job[r].step = step
    BY DEF At, Asking, Open
  <1> QED
    BY <1>1 DEF IInv, Types, CheckOK

\* A Super Admin holds the permission.
LEMMA SupersHold ==
    ASSUME SuperOK, NEW u \in Users, u \in Supers
    PROVE  Holds(u) /\ IsActive(u)
  BY RolesAssumption DEF Supers, Holds, SuperOK

LEMMA CheckStepNames ==
    /\ "denied" \in CheckSteps /\ "granted" \in CheckSteps /\ "version" \in CheckSteps
    /\ "cache" \in CheckSteps /\ "resolve" \in CheckSteps /\ "fill" \in CheckSteps
    /\ "expire" \in CheckSteps /\ "user" \in CheckSteps
    /\ Permission # Nobody /\ \A b \in BOOLEAN : Decided(b) \in {"granted", "denied"}
  BY DEF CheckSteps, Permission, Nobody, Decided

\* A request reads, and goes to a step that writes nothing.
LEMMA ReadTo ==
    ASSUME IInv, NEW r \in Requests, NEW from,
           NEW to \in {"version", "resolve", "granted", "denied"},
           CheckStep(r, from, to), to = "version" => from = "user",
           UNCHANGED <<db, mine, held, arrived, cacheVars, seen>>,
           to # "denied" => "active" \in seen[r],
           to = "granted" => "holds" \in seen[r]
    PROVE  IInv'
  <1>1. At(r, "check", from) /\ job' = [job EXCEPT ![r].step = to]
    BY DEF CheckStep
  <1>2. /\ Asking(r) /\ CheckOK(r) /\ job[r].op = "check" /\ job[r].step = from /\ Types
    BY <1>1, AskingFacts
  <1>3. to \in CheckSteps
    BY CheckStepNames
  <1>4. PICK j \in JobRec : /\ job' = [job EXCEPT ![r] = j] /\ j.op = "check"
                            /\ j.key = job[r].key /\ j.step = to /\ j.amount = job[r].amount
    <2>1. job[r] \in JobRec /\ job \in [Requests -> JobRec]
      BY <1>2 DEF Types
    <2>2. PICK p : p = [job[r] EXCEPT !.step = to]
      OBVIOUS
    <2>3. /\ p \in JobRec /\ p.op = job[r].op /\ p.key = job[r].key /\ p.step = to
          /\ p.amount = job[r].amount
      BY <1>3, <2>1, <2>2 DEF JobRec
    <2>4. job' = [job EXCEPT ![r] = p]
      BY <1>1, <2>1, <2>2
    <2> QED
      BY <1>2, <2>3, <2>4
  <1>5. job'[r] = j
    BY <1>2, <1>4 DEF Types
  <1>6. CheckOK(r)'
    <2>1. ReadableVersion' = ReadableVersion /\ seen' = seen /\ mine' = mine /\ held' = held
      BY DEF cacheVars, ReadableVersion
    <2>2. \A u : IsActive(u)' = IsActive(u) /\ Holds(u)' = Holds(u)
      BY DEF IsActive, Holds, Committed
    <2>3. /\ job[r].key \in Users /\ Clean(r) /\ held[r] = {}
          /\ job[r].amount \in 0 .. ReadableVersion
          /\ to = "version" => job[r].amount = 0
          /\ IsActive(job[r].key) => "active" \in seen[r]
          /\ Holds(job[r].key) => "holds" \in seen[r]
      BY <1>2 DEF CheckOK
    <2> QED
      BY <1>3, <1>4, <1>5, <2>1, <2>2, <2>3 DEF CheckOK, Clean
  <1>7. to \notin {"fill", "expire"}
    OBVIOUS
  <1> QED
    BY <1>2, <1>3, <1>4, <1>6, <1>7, ReadingStep

LEMMA LoadUserStep ==
    ASSUME IInv, NEW r \in Requests, LoadUser(r)
    PROVE  IInv'
  <1> DEFINE u == job[r].key
             to == IF ~IsActive(u) THEN "denied" ELSE IF u \in Supers THEN "granted" ELSE "version"
  <1>1. CheckStep(r, "user", to) /\ UNCHANGED <<db, mine, held, arrived, cacheVars, seen>>
    BY DEF LoadUser
  <1>2. CheckOK(r) /\ u \in Users /\ SuperOK /\ Asking(r)
    BY <1>1, AskingFacts DEF CheckStep
  <1>3. to \in {"version", "resolve", "granted", "denied"}
    OBVIOUS
  <1>4. to # "denied" => "active" \in seen[r]
    BY <1>2 DEF CheckOK
  <1>5. to = "granted" => "holds" \in seen[r]
    BY <1>2, SupersHold DEF CheckOK
  <1> HIDE DEF to
  <1> QED
    BY <1>1, <1>3, <1>4, <1>5, ReadTo

LEMMA ReadVersionStep ==
    ASSUME IInv, NEW r \in Requests, ReadVersion(r)
    PROVE  IInv'
  <1>1. At(r, "check", "version") /\ UNCHANGED <<db, mine, held, arrived, cacheVars, seen>>
    BY DEF ReadVersion
  <1>2. /\ Asking(r) /\ CheckOK(r) /\ job[r] \in JobRec
        /\ job[r].op = "check" /\ job[r].step = "version" /\ Types /\ CountsOK
    BY <1>1, AskingFacts
  <1>3. job[r].amount = 0 /\ "active" \in seen[r]
    BY <1>2 DEF CheckOK
  <1>4. CASE job' = [job EXCEPT ![r].step = "resolve"]
    <2>1. CheckStep(r, "version", "resolve")
      BY <1>1, <1>4 DEF CheckStep
    <2> QED
      BY <1>1, <1>3, <2>1, ReadTo
  <1>5. CASE job' = [job EXCEPT ![r].step = "cache", ![r].amount = ReadableVersion]
    <2>1. PICK v \in Nat : v = ReadableVersion /\ v >= 1
      BY <1>2, VersionFacts
    <2>2. PICK j : j = [job[r] EXCEPT !.step = "cache", !.amount = v]
      OBVIOUS
    <2>3. /\ j \in JobRec /\ j.op = "check" /\ j.step = "cache"
          /\ j.key = job[r].key /\ j.amount = v
      BY <1>2, <2>2, CheckStepNames DEF JobRec
    <2>4. job' = [job EXCEPT ![r] = j] /\ job'[r] = j
      BY <1>2, <1>5, <2>1, <2>2 DEF Types
    <2>5. ReadableVersion' = v /\ seen' = seen /\ mine' = mine /\ held' = held
      BY <1>1, <2>1 DEF cacheVars, ReadableVersion
    <2>6. \A u : IsActive(u)' = IsActive(u) /\ Holds(u)' = Holds(u)
      BY <1>1 DEF IsActive, Holds, Committed
    <2>7. v \in 0 .. v /\ v # 0
      BY <2>1
    <2>8. CheckOK(r)'
      BY <1>2, <1>3, <2>3, <2>4, <2>5, <2>6, <2>7, CheckStepNames DEF CheckOK, Clean
    <2> QED
      BY <1>1, <1>2, <1>3, <2>1, <2>3, <2>4, <2>8, CheckStepNames, ReadingStep
  <1> QED
    BY <1>4, <1>5 DEF ReadVersion

LEMMA ReadCacheStep ==
    ASSUME IInv, NEW r \in Requests, ReadCache(r)
    PROVE  IInv'
  <1> DEFINE members == cache[job[r].amount][job[r].key].members
             to == IF members = {} THEN "resolve" ELSE Decided(Permission \in members)
  <1>1. /\ CheckStep(r, "cache", to) \/ CheckStep(r, "cache", "resolve")
        /\ UNCHANGED <<db, mine, held, arrived, cacheVars, seen>>
    BY DEF ReadCache
  <1>2. Asking(r) /\ CheckOK(r) /\ NotTold(r) /\ job[r].step = "cache"
    BY <1>1, AskingFacts DEF CheckStep
  <1>3. "active" \in seen[r] /\ job[r].amount # 0
    BY <1>2 DEF CheckOK
  <1>4. Permission \in members => "holds" \in seen[r]
    BY <1>2, <1>3 DEF NotTold, Denies, VersionOf
  <1> HIDE DEF members
  <1>5. to \in {"version", "resolve", "granted", "denied"} /\ to # "version"
        /\ (to = "granted" => "holds" \in seen[r])
    BY <1>4 DEF Decided
  <1> HIDE DEF to
  <1>6. CASE CheckStep(r, "cache", to)
    BY <1>1, <1>3, <1>5, <1>6, ReadTo
  <1>7. CASE CheckStep(r, "cache", "resolve")
    BY <1>1, <1>3, <1>7, ReadTo
  <1> QED
    BY <1>1, <1>6, <1>7

LEMMA CheckFails ==
    ASSUME IInv, NEW r \in Requests, FillFails(r) \/ SetTtlFails(r)
    PROVE  IInv'
  <1>1. PICK from \in {"fill", "expire"} :
            /\ CheckStep(r, from, Decided(Permission \in job[r].new))
            /\ UNCHANGED <<db, mine, held, arrived, cacheVars, seen>>
    BY DEF FillFails, SetTtlFails
  <1>2. Asking(r) /\ CheckOK(r) /\ job[r].step = from
    BY <1>1, AskingFacts DEF CheckStep
  <1>3. "active" \in seen[r] /\ (Permission \in job[r].new => "holds" \in seen[r])
    BY <1>2 DEF CheckOK
  <1>4. PICK to : to = Decided(Permission \in job[r].new)
    OBVIOUS
  <1>5. to \in {"granted", "denied"} /\ (to = "granted" => "holds" \in seen[r])
    BY <1>3, <1>4 DEF Decided
  <1> QED
    BY <1>1, <1>3, <1>4, <1>5, ReadTo

LEMMA ResolveStep ==
    ASSUME IInv, NEW r \in Requests, Resolve(r)
    PROVE  IInv'
  <1> DEFINE k == job[r].key
             grants == Resolves(r, k)
             to == IF job[r].amount = 0 THEN Decided(grants) ELSE "fill"
             n == IF grants THEN {Permission} ELSE {Nobody}
             j == [job[r] EXCEPT !.step = to, !.new = n]
  <1>1. /\ At(r, "check", "resolve") /\ UNCHANGED <<db, mine, held, arrived, cacheVars, seen>>
        /\ job' = [job EXCEPT ![r].step = to, ![r].new = n]
    BY DEF Resolve
  <1>2. /\ Asking(r) /\ CheckOK(r) /\ job[r] \in JobRec
        /\ job[r].op = "check" /\ job[r].step = "resolve" /\ Types
    BY <1>1, AskingFacts
  <1>3. k \in Users /\ "active" \in seen[r] /\ (Holds(k) => "holds" \in seen[r]) /\ Clean(r)
    BY <1>2 DEF CheckOK
  <1>4. grants <=> Holds(k)
    <2>1. ASSUME NEW q \in Keys
          PROVE  There(r, q) = Committed(q) /\ Seen(r, q) = db[q]
      BY <1>3 DEF Clean, There, Seen, Committed
    <2>2. \A ro \in RoleIds : Link(k, ro) \in Keys /\ Grant(ro) \in Keys /\ ro \in Keys
      BY <1>3, LinkFacts
    <2> QED
      BY <2>1, <2>2 DEF Resolves, Holds
  <1>5. /\ n \in {{Permission}, {Nobody}} /\ (Permission \in n <=> Holds(k)) /\ n \in News
    BY <1>4, CheckStepNames, LoadsAndNews
  <1>6. /\ to \in {"granted", "denied", "fill"} /\ to \in CheckSteps
        /\ (to = "granted" => "holds" \in seen[r])
        /\ (to = "fill" => job[r].amount # 0)
    BY <1>3, <1>4, CheckStepNames DEF Decided
  <1>7. job' = [job EXCEPT ![r] = j]
    BY <1>1, <1>2 DEF Types
  <1> HIDE DEF n, to, grants
  <1>8. /\ j \in JobRec /\ j.op = "check" /\ j.step = to /\ j.key = k /\ j.amount = job[r].amount
        /\ j.new = n
    BY <1>2, <1>5, <1>6 DEF JobRec
  <1> HIDE DEF j
  <1>9. job'[r] = j
    BY <1>2, <1>7, <1>8 DEF Types
  <1>10. ReadableVersion' = ReadableVersion /\ seen' = seen /\ mine' = mine /\ held' = held
    BY <1>1 DEF cacheVars, ReadableVersion
  <1>11. \A u : IsActive(u)' = IsActive(u) /\ Holds(u)' = Holds(u)
    BY <1>1 DEF IsActive, Holds, Committed
  <1>12. CheckOK(r)'
    <2>1. /\ Clean(r) /\ held[r] = {} /\ job[r].amount \in 0 .. ReadableVersion
          /\ IsActive(k) => "active" \in seen[r]
      BY <1>2 DEF CheckOK
    <2> QED
      BY <1>3, <1>5, <1>6, <1>8, <1>9, <1>10, <1>11, <2>1 DEF CheckOK, Clean
  <1> QED
    BY <1>1, <1>2, <1>5, <1>6, <1>7, <1>8, <1>12, ReadingStep

\* Some entry of the cache changes: its members are joined by true ones, or it goes.
LEMMA WritingStep ==
    ASSUME IInv, NEW r \in Requests, Asking(r), Filling(r),
           NEW to \in {"expire", "granted", "denied"}, job' = [job EXCEPT ![r].step = to],
           UNCHANGED <<db, mine, held, arrived, version, lost, seen>>,
           NEW e \in Entry, cache' = [cache EXCEPT ![job[r].amount][job[r].key] = e],
           \/ e.members = cache[job[r].amount][job[r].key].members
           \/ e.members = cache[job[r].amount][job[r].key].members \cup job[r].new,
           to = "granted" => Permission \in job[r].new
    PROVE  IInv'
  <1>1. Types /\ CountsOK /\ CheckOK(r) /\ job[r] \in JobRec /\ job[r].op = "check"
    BY DEF IInv, Types, Asking
  <1>2. PICK v, k : v = job[r].amount /\ k = job[r].key
    OBVIOUS
  <1>3. /\ k \in Users /\ v \in 0 .. ReadableVersion /\ v # 0
        /\ job[r].new \in {{Permission}, {Nobody}}
        /\ "active" \in seen[r] /\ (Permission \in job[r].new => "holds" \in seen[r])
    BY <1>1, <1>2 DEF CheckOK, Filling
  <1>4. ReadableVersion \in Nat /\ ReadableVersion \in Versions /\ v \in Versions
    <2>1. ReadableVersion \in Nat /\ ReadableVersion \in Versions
      BY <1>1, VersionFacts
    <2> QED
      BY <1>3, <2>1, AccessAssumption, SessionsAssumption DEF Versions
  <1>5. /\ cache' \in [Versions -> [Users -> Entry]] /\ cache'[v][k] = e
        /\ \A w \in Versions, u \in Users : w # v \/ u # k => cache'[w][u] = cache[w][u]
    BY <1>1, <1>2, <1>3, <1>4 DEF Types
  <1>6. PICK j \in JobRec : /\ job' = [job EXCEPT ![r] = j] /\ j.op = "check"
                            /\ j.key = k /\ j.step = to /\ j.amount = v /\ j.new = job[r].new
    <2>1. job[r] \in JobRec /\ job \in [Requests -> JobRec]
      BY <1>1 DEF Types
    <2>2. PICK p : p = [job[r] EXCEPT !.step = to]
      OBVIOUS
    <2>3. /\ p \in JobRec /\ p.op = job[r].op /\ p.key = job[r].key /\ p.step = to
          /\ p.amount = job[r].amount /\ p.new = job[r].new
      BY <2>1, <2>2, CheckStepNames DEF JobRec
    <2>4. job' = [job EXCEPT ![r] = p]
      BY <2>1, <2>2
    <2> QED
      BY <1>1, <1>2, <2>3, <2>4
  <1>7. to \in CheckSteps
    BY CheckStepNames
  <1>8. /\ Types' /\ CountsOK' /\ SuperOK' /\ \A s \in Requests : ChangeOK(s)'
        /\ \A u \in Users, ro \in RoleIds : LinkOK(u, ro)'
        /\ job'[r] = j /\ \A s \in Requests \ {r} : job'[s] = job[s]
        /\ ReadableVersion' = ReadableVersion /\ InForce' = InForce /\ Asking(r)'
        /\ \A u : IsActive(u)' = IsActive(u) /\ Holds(u)' = Holds(u)
        /\ \A s \in Requests \ {r} : CheckOK(s)' /\ Asking(s)' = Asking(s)
    BY <1>2, <1>5, <1>6, <1>7, AskingStep
  <1>9. CheckOK(r)'
    <2>1. /\ Clean(r) /\ held[r] = {} /\ (IsActive(k) => "active" \in seen[r])
          /\ (Holds(k) => "holds" \in seen[r])
      BY <1>1, <1>2 DEF CheckOK
    <2> QED
      BY <1>3, <1>6, <1>7, <1>8, <2>1 DEF CheckOK, Clean
  <1>10. \A s \in Requests : /\ Asking(s)' => Asking(s)
                             /\ VersionOf(s)' = VersionOf(s) /\ job'[s].key = job[s].key
                             /\ Filling(s)' => /\ Filling(s) /\ job'[s].amount = job[s].amount
                                               /\ job'[s].new = job[s].new
    BY <1>2, <1>6, <1>8 DEF VersionOf, Filling
  <1>11. ASSUME NEW w \in Versions, NEW u \in Users, Denies(w, u)
         PROVE  Denies(w, u)'
    <2>1. Permission \notin cache'[w][u].members
      <3>1. CASE w = v /\ u = k
        BY <1>2, <1>5, <1>11, <3>1 DEF Denies
      <3>2. CASE w # v \/ u # k
        BY <1>5, <1>11, <3>2 DEF Denies
      <3> QED
        BY <3>1, <3>2
    <2> QED
      BY <1>10, <1>11, <2>1 DEF Denies
  <1>12. ASSUME NEW s \in Requests
         PROVE  NotTold(s)'
    <2> SUFFICES ASSUME Asking(s)', "holds" \notin seen[s]
                 PROVE  Denies(VersionOf(s), job[s].key)'
      BY DEF NotTold
    <2>1. PICK w, u : w = VersionOf(s) /\ u = job[s].key
      OBVIOUS
    <2>2. Asking(s) /\ CheckOK(s) /\ Denies(w, u)
      BY <1>10, <2>1 DEF IInv, NotTold
    <2>3. u \in Users /\ job[s].amount \in 0 .. ReadableVersion
      BY <2>1, <2>2 DEF CheckOK
    <2>4. w \in Versions
      BY <1>4, <2>1, <2>3, AccessAssumption, SessionsAssumption DEF VersionOf, Versions
    <2>5. Denies(w, u)'
      BY <1>11, <2>2, <2>3, <2>4
    <2>6. VersionOf(s)' = w /\ job'[s].key = u
      BY <1>10, <2>1
    <2> QED
      BY <2>5, <2>6 DEF Denies
  <1>13. CurrentOK'
    <2> SUFFICES ASSUME InForce, NEW u \in Users
                 PROVE  /\ Agrees(ReadableVersion, u)'
                        /\ \A s \in Requests :
                             Filling(s)' /\ job'[s].amount = ReadableVersion /\ job'[s].key = u =>
                                (Permission \in job'[s].new <=> Holds(u))
      BY <1>8 DEF CurrentOK
    <2>1. /\ Agrees(ReadableVersion, u)
          /\ \A s \in Requests :
               Filling(s) /\ job[s].amount = ReadableVersion /\ job[s].key = u =>
                  (Permission \in job[s].new <=> Holds(u))
      BY DEF IInv, CurrentOK
    <2>2. Agrees(ReadableVersion, u)'
      <3>1. CASE ReadableVersion = v /\ u = k
        <4>1. Permission \in job[r].new <=> Holds(u)
          BY <1>2, <2>1, <3>1
        <4>2. e.members # {} => (Permission \in e.members <=> Holds(u))
          BY <1>2, <2>1, <3>1, <4>1 DEF Agrees
        <4> QED
          BY <1>5, <1>8, <3>1, <4>2 DEF Agrees
      <3>2. CASE ReadableVersion # v \/ u # k
        <4>1. cache'[ReadableVersion][u] = cache[ReadableVersion][u]
          BY <1>4, <1>5, <3>2
        <4> QED
          BY <1>8, <2>1, <4>1 DEF Agrees
      <3> QED
        BY <3>1, <3>2
    <2> QED
      BY <1>10, <2>1, <2>2
  <1>14. LaterEmpty'
    <2> SUFFICES ASSUME NEW w \in Versions, NEW u \in Users, w > ReadableVersion
                 PROVE  cache'[w][u].members = {}
      BY <1>8 DEF LaterEmpty
    <2>1. w # v
      BY <1>3, <1>4, AccessAssumption, SessionsAssumption DEF Versions
    <2> QED
      BY <1>5, <2>1 DEF IInv, LaterEmpty
  <1> QED
    BY <1>8, <1>9, <1>12, <1>13, <1>14 DEF IInv

LEMMA EntryFacts ==
    ASSUME Types, CountsOK, NEW r \in Requests, Asking(r), Filling(r), CheckOK(r)
    PROVE  /\ cache[job[r].amount][job[r].key] \in Entry
           /\ cache[job[r].amount] \in [Users -> Entry]
           /\ job[r].amount \in Versions /\ job[r].key \in Users
           /\ job[r].new \in {{Permission}, {Nobody}}
  <1>1. ReadableVersion \in Nat /\ ReadableVersion \in Versions
    BY VersionFacts
  <1>2. /\ job[r].key \in Users /\ job[r].amount \in 0 .. ReadableVersion /\ job[r].amount # 0
        /\ job[r].new \in {{Permission}, {Nobody}}
    BY DEF CheckOK, Filling
  <1>3. job[r].amount \in Versions
    BY <1>1, <1>2, AccessAssumption, SessionsAssumption DEF Versions
  <1> QED
    BY <1>2, <1>3 DEF Types

LEMMA FillStep ==
    ASSUME IInv, NEW r \in Requests, Fill(r)
    PROVE  IInv'
  <1> DEFINE v == job[r].amount
             k == job[r].key
  <1>1. /\ CheckStep(r, "fill", "expire")
        /\ UNCHANGED <<db, mine, held, arrived, version, lost, seen>>
        /\ cache' = [cache EXCEPT ![v][k].members = @ \cup job[r].new]
    BY DEF Fill
  <1>2. Asking(r) /\ CheckOK(r) /\ Types /\ CountsOK /\ job[r].step = "fill" /\ Filling(r)
    BY <1>1, AskingFacts DEF CheckStep, Filling
  <1>3. /\ cache[v][k] \in Entry /\ cache[v] \in [Users -> Entry] /\ v \in Versions /\ k \in Users
        /\ job[r].new \in {{Permission}, {Nobody}}
    BY <1>2, EntryFacts
  <1> HIDE DEF v, k
  <1>4. PICK e : e = [cache[v][k] EXCEPT !.members = @ \cup job[r].new]
    OBVIOUS
  <1>5. e \in Entry /\ e.members = cache[v][k].members \cup job[r].new
    BY <1>3, <1>4 DEF Entry
  <1>6. cache' = [cache EXCEPT ![v][k] = e]
    BY <1>1, <1>2, <1>3, <1>4 DEF Types
  <1>7. job' = [job EXCEPT ![r].step = "expire"]
    BY <1>1 DEF CheckStep
  <1> QED
    BY <1>1, <1>2, <1>5, <1>6, <1>7, WritingStep DEF v, k

LEMMA SetTtlStep ==
    ASSUME IInv, NEW r \in Requests, SetTtl(r)
    PROVE  IInv'
  <1> DEFINE v == job[r].amount
             k == job[r].key
             old == cache[v][k]
             ttl == old.members # {}
  <1>1. /\ CheckStep(r, "expire", Decided(Permission \in job[r].new))
        /\ UNCHANGED <<db, mine, held, arrived, version, lost, seen>>
        /\ cache' = [cache EXCEPT ![v][k].ttl = ttl]
    BY DEF SetTtl
  <1>2. Asking(r) /\ CheckOK(r) /\ Types /\ CountsOK /\ job[r].step = "expire" /\ Filling(r)
    BY <1>1, AskingFacts DEF CheckStep, Filling
  <1>3. old \in Entry /\ cache[v] \in [Users -> Entry] /\ v \in Versions /\ k \in Users
    BY <1>2, EntryFacts
  <1>4. ttl \in BOOLEAN /\ (ttl => old.members # {})
    OBVIOUS
  <1> HIDE DEF v, k, old, ttl
  <1>5. PICK e : e = [old EXCEPT !.ttl = ttl]
    OBVIOUS
  <1>6. e \in Entry /\ e.members = old.members
    BY <1>3, <1>4, <1>5 DEF Entry
  <1>7. cache' = [cache EXCEPT ![v][k] = e]
    BY <1>1, <1>2, <1>3, <1>5 DEF Types, old
  <1>8. PICK to : to = Decided(Permission \in job[r].new)
    OBVIOUS
  <1>9. to \in {"expire", "granted", "denied"} /\ (to = "granted" => Permission \in job[r].new)
    BY <1>8 DEF Decided
  <1>10. job' = [job EXCEPT ![r].step = to]
    BY <1>1, <1>8 DEF CheckStep
  <1> QED
    BY <1>1, <1>2, <1>6, <1>7, <1>9, <1>10, WritingStep DEF v, k, old

LEMMA AskStep ==
    ASSUME IInv, NEW r \in Requests, NEW u \in Users, Ask(r, u)
    PROVE  IInv'
  <1> DEFINE j == [Job("check", u) EXCEPT !.step = "user"]
             told == TrueOf(u, IsActive(u), Holds(u)) \cup IF InForce THEN {} ELSE {"holds"}
  <1>1. /\ Begin(r, j) /\ seen' = [seen EXCEPT ![r] = told] /\ Types
        /\ db' = db /\ mine' = mine /\ held' = held
        /\ version' = version /\ cache' = cache /\ lost' = lost
    BY DEF Ask, IInv, cacheVars
  <1>2. /\ told \subseteq {"active", "holds"} /\ (IsActive(u) => "active" \in told)
        /\ (Holds(u) => "holds" \in told) /\ ("holds" \notin told => InForce)
    BY DEF TrueOf
  <1>3. j \in JobRec /\ j.op = "check" /\ j.key = u /\ j.step = "user" /\ j.amount = 0
    <2>1. PICK q \in JobRec : q = NoJob /\ q.amount = 0
      BY NoJobType DEF NoJob
    <2>2. PICK p : p = [[q EXCEPT !.op = "check", !.key = u] EXCEPT !.step = "user"]
      OBVIOUS
    <2>3. u \in Keys /\ "user" \in CheckSteps
      BY KeyFacts, CheckStepNames
    <2>4. p \in JobRec /\ p.op = "check" /\ p.key = u /\ p.step = "user" /\ p.amount = 0
      BY <2>1, <2>2, <2>3 DEF JobRec
    <2> QED
      BY <2>1, <2>2, <2>4 DEF Job
  <1> HIDE DEF j, told
  <1>4. ~Open(r) /\ job' = [job EXCEPT ![r] = j] /\ arrived < MaxArrivals /\ arrived' = arrived + 1
    BY <1>1 DEF Begin
  <1>5. /\ job' \in [Requests -> JobRec] /\ job'[r] = j
        /\ \A s \in Requests \ {r} : job'[s] = job[s]
        /\ seen'[r] = told /\ \A s \in Requests \ {r} : seen'[s] = seen[s]
    BY <1>1, <1>3, <1>4 DEF Types
  <1>6. Clean(r) /\ held[r] = {} /\ ~Asking(r) /\ job[r].step # "announce"
    BY <1>4, IdleFacts
  <1>7. CountsOK' /\ arrived' \in 0 .. MaxArrivals
    BY <1>1, <1>3, <1>4, Begins
  <1>8. seen' \in [Requests -> SUBSET {"active", "holds"}]
    BY <1>1, <1>2 DEF Types
  <1>9. Types'
    BY <1>1, <1>5, <1>7, <1>8 DEF Types
  <1>10. ReadableVersion' = ReadableVersion
    BY <1>1 DEF ReadableVersion
  <1>11. SuperOK' /\ \A w : IsActive(w)' = IsActive(w) /\ Holds(w)' = Holds(w)
    BY <1>1 DEF IInv, SuperOK, IsActive, Holds, Committed
  <1>12. Asking(r)' /\ \A s \in Requests \ {r} : Asking(s)' = Asking(s)
    BY <1>3, <1>5 DEF Asking, Open
  <1>13. \A s \in Requests : Filling(s)' => s # r /\ Filling(s) /\ job'[s] = job[s]
    BY <1>3, <1>5, <1>12 DEF Filling
  <1>14. Announcing' = Announcing
    BY <1>3, <1>5, <1>6 DEF Announcing
  <1>15. InForce' = InForce
    BY <1>1, <1>14 DEF InForce
  <1>16. ASSUME NEW w \in Users, NEW ro \in RoleIds
         PROVE  LinkOK(w, ro)'
    BY <1>1 DEF IInv, LinkOK, Inserts, Deletes, There, Seen, Committed
  <1>17. ASSUME NEW s \in Requests
         PROVE  ChangeOK(s)'
    <2>1. CASE s = r
      <3>1. Clean(r)'
        BY <1>1, <1>6 DEF Clean
      <3>2. job'[r].op = "check" /\ job'[r].step = "user"
        BY <1>3, <1>5
      <3>3. PlanOK(r)' /\ MineOK(r)' /\ LastOK(r)'
        BY <3>1, <3>2, OpFacts DEF PlanOK, MineOK, LastOK, Clean
      <3> QED
        BY <2>1, <3>2, <3>3, OpFacts DEF ChangeOK
    <2>2. CASE s # r
      BY <1>1, <1>5, <2>2, ChangeKept DEF IInv
    <2> QED
      BY <2>1, <2>2
  <1>18. ASSUME NEW s \in Requests
         PROVE  CheckOK(s)'
    <2>1. CASE s = r
      <3>1. ReadableVersion \in Nat
        BY <1>1, VersionFacts DEF IInv
      <3>2. 0 \in 0 .. ReadableVersion
        BY <3>1
      <3>3. Clean(r)' /\ held'[r] = {}
        BY <1>1, <1>6 DEF Clean
      <3>4. job'[r].key = u /\ job'[r].step = "user" /\ job'[r].amount = 0
        BY <1>3, <1>5
      <3> QED
        BY <1>2, <1>5, <1>10, <1>11, <2>1, <3>2, <3>3, <3>4, CheckStepNames DEF CheckOK
    <2>2. CASE s # r
      <3>1. CheckOK(s) /\ job'[s] = job[s] /\ seen'[s] = seen[s]
        BY <1>5, <2>2 DEF IInv
      <3> QED
        BY <1>1, <1>10, <1>11, <1>12, <2>2, <3>1 DEF CheckOK, Clean
    <2> QED
      BY <2>1, <2>2
  <1>19. ASSUME NEW v, NEW w, Denies(v, w)
         PROVE  Denies(v, w)'
    BY <1>1, <1>13, <1>19 DEF Denies
  <1>20. ASSUME NEW s \in Requests
         PROVE  NotTold(s)'
    <2> SUFFICES ASSUME Asking(s)', "holds" \notin seen'[s]
                 PROVE  Denies(VersionOf(s), job[s].key)'
      BY DEF NotTold
    <2>1. CASE s = r
      <3>1. InForce /\ ~Holds(u)
        BY <1>2, <1>5, <2>1
      <3>2. PICK v : v = ReadableVersion
        OBVIOUS
      <3>3. Denies(v, u)
        BY <3>1, <3>2 DEF IInv, CurrentOK, Agrees, Denies
      <3>4. Denies(v, u)'
        BY <1>19, <3>3
      <3>5. VersionOf(s)' = v /\ job'[s].key = u
        BY <1>3, <1>5, <1>10, <2>1, <3>2 DEF VersionOf
      <3> QED
        BY <3>4, <3>5 DEF Denies
    <2>2. CASE s # r
      <3>1. PICK v, w : v = VersionOf(s) /\ w = job[s].key
        OBVIOUS
      <3>2. Denies(v, w)
        BY <1>5, <1>12, <2>2, <3>1 DEF IInv, NotTold
      <3>3. Denies(v, w)'
        BY <1>19, <3>2
      <3>4. VersionOf(s)' = v /\ job'[s].key = w
        BY <1>5, <1>10, <2>2, <3>1 DEF VersionOf
      <3> QED
        BY <3>3, <3>4 DEF Denies
    <2> QED
      BY <2>1, <2>2
  <1>21. CurrentOK'
    <2> SUFFICES ASSUME InForce, NEW w \in Users
                 PROVE  /\ Agrees(ReadableVersion, w)'
                        /\ \A s \in Requests :
                             Filling(s)' /\ job'[s].amount = ReadableVersion /\ job'[s].key = w =>
                                (Permission \in job'[s].new <=> Holds(w))
      BY <1>10, <1>11, <1>15 DEF CurrentOK
    <2>1. /\ Agrees(ReadableVersion, w)
          /\ \A s \in Requests :
               Filling(s) /\ job[s].amount = ReadableVersion /\ job[s].key = w =>
                  (Permission \in job[s].new <=> Holds(w))
      BY DEF IInv, CurrentOK
    <2>2. Agrees(ReadableVersion, w)'
      BY <1>1, <1>10, <1>11, <2>1 DEF Agrees
    <2> QED
      BY <1>13, <2>1, <2>2
  <1>22. LaterEmpty'
    BY <1>1, <1>10 DEF IInv, LaterEmpty
  <1> QED
    BY <1>7, <1>9, <1>11, <1>16, <1>17, <1>18, <1>20, <1>21, <1>22 DEF IInv

\* An asking request ends, or an entry of the cache: nothing is told any more.
LEMMA LessTold ==
    ASSUME IInv, ReadableVersion' = ReadableVersion, InForce' => InForce,
           \A u : Holds(u)' = Holds(u),
           \A s \in Requests : Asking(s)' => Asking(s) /\ job'[s] = job[s] /\ seen'[s] = seen[s],
           \A v \in Versions, u \in Users :
              cache'[v][u].members = cache[v][u].members \/ cache'[v][u].members = {}
    PROVE  /\ \A s \in Requests : NotTold(s)'
           /\ CurrentOK' /\ LaterEmpty'
  <1>1. \A s \in Requests : Filling(s)' => Filling(s) /\ job'[s] = job[s]
    BY DEF Filling
  <1>2. ReadableVersion \in Versions /\ ReadableVersion \in Nat
    BY VersionFacts DEF IInv
  <1>3. ASSUME NEW s \in Requests
        PROVE  NotTold(s)'
    <2> SUFFICES ASSUME Asking(s)', "holds" \notin seen'[s]
                 PROVE  Denies(VersionOf(s), job[s].key)'
      BY DEF NotTold
    <2>1. PICK v, u : v = VersionOf(s) /\ u = job[s].key
      OBVIOUS
    <2>2. Asking(s) /\ job'[s] = job[s] /\ CheckOK(s) /\ Denies(v, u)
      BY <2>1 DEF IInv, NotTold
    <2>3. u \in Users /\ v \in Versions
      BY <1>2, <2>1, <2>2, AccessAssumption, SessionsAssumption DEF CheckOK, VersionOf, Versions
    <2>4. Denies(v, u)'
      BY <1>1, <2>2, <2>3 DEF Denies
    <2>5. VersionOf(s)' = v
      BY <2>1, <2>2 DEF VersionOf
    <2> QED
      BY <2>1, <2>2, <2>4, <2>5 DEF Denies
  <1>4. CurrentOK'
    <2> SUFFICES ASSUME InForce, NEW u \in Users
                 PROVE  /\ Agrees(ReadableVersion, u)'
                        /\ \A s \in Requests :
                             Filling(s)' /\ job'[s].amount = ReadableVersion /\ job'[s].key = u =>
                                (Permission \in job'[s].new <=> Holds(u))
      BY DEF CurrentOK
    <2>1. /\ Agrees(ReadableVersion, u)
          /\ \A s \in Requests :
               Filling(s) /\ job[s].amount = ReadableVersion /\ job[s].key = u =>
                  (Permission \in job[s].new <=> Holds(u))
      BY DEF IInv, CurrentOK
    <2>2. Agrees(ReadableVersion, u)'
      BY <1>2, <2>1 DEF Agrees
    <2> QED
      BY <1>1, <2>1, <2>2
  <1>5. LaterEmpty'
    BY DEF IInv, LaterEmpty
  <1> QED
    BY <1>3, <1>4, <1>5

LEMMA LeaveStep ==
    ASSUME IInv, NEW r \in Requests, Leave(r)
    PROVE  IInv'
  <1>1. /\ Asking(r) /\ EndSession(r) /\ seen' = [seen EXCEPT ![r] = {}] /\ Types
        /\ db' = db /\ arrived' = arrived /\ version' = version /\ cache' = cache /\ lost' = lost
    BY DEF Leave, IInv, cacheVars
  <1>2. Open(r) /\ CheckOK(r)
    BY <1>1 DEF Asking, IInv
  <1>3. /\ job'[r] = NoJob /\ \A s \in Requests \ {r} : job'[s] = job[s]
        /\ \A s \in Requests \ {r} : mine'[s] = mine[s] /\ held'[s] = held[s]
        /\ mine' \in [Requests -> Table] /\ held' \in [Requests -> SUBSET Keys]
        /\ job' \in [Requests -> JobRec] /\ version' \in Nat /\ FirstVersion <= version'
        /\ CountsOK' /\ \A s \in Requests : ChangeOK(s)'
        /\ \A u \in Users, ro \in RoleIds : LinkOK(u, ro)'
        /\ SuperOK' /\ \A u : IsActive(u)' = IsActive(u) /\ Holds(u)' = Holds(u)
    BY <1>1, <1>2, SessionEnds
  <1>4. /\ seen' \in [Requests -> SUBSET {"active", "holds"}]
        /\ \A s \in Requests \ {r} : seen'[s] = seen[s]
    BY <1>1 DEF Types
  <1>5. Types'
    BY <1>1, <1>3, <1>4 DEF Types
  <1>6. \A s \in Requests : Asking(s)' =>
           s # r /\ Asking(s) /\ job'[s] = job[s] /\ seen'[s] = seen[s]
    BY <1>3, <1>4, NoJobType DEF Asking, Open
  <1>7. ReadableVersion' = ReadableVersion
    BY <1>1 DEF ReadableVersion
  <1>8. ASSUME NEW s \in Requests
        PROVE  CheckOK(s)'
    <2> SUFFICES ASSUME Asking(s)'
                 PROVE  CheckOK(s)'
      BY DEF CheckOK
    <2>1. s # r /\ Asking(s) /\ job'[s] = job[s] /\ seen'[s] = seen[s] /\ CheckOK(s)
      BY <1>6 DEF IInv
    <2>2. mine'[s] = mine[s] /\ held'[s] = held[s]
      BY <1>3, <2>1
    <2> QED
      BY <1>3, <1>7, <2>1, <2>2 DEF CheckOK, Clean
  <1>9. InForce' => InForce
    <2>1. job[r].step # "announce"
      BY <1>1, <1>2, OpFacts DEF CheckOK
    <2>2. Announcing' = {} => Announcing = {}
      BY <1>3, <2>1 DEF Announcing
    <2> QED
      BY <1>1, <2>2 DEF InForce
  <1>10. \A v \in Versions, u \in Users : cache'[v][u].members = cache[v][u].members
    BY <1>1
  <1>11. (\A s \in Requests : NotTold(s)') /\ CurrentOK' /\ LaterEmpty'
    BY <1>3, <1>6, <1>7, <1>9, <1>10, LessTold
  <1> QED
    BY <1>3, <1>5, <1>8, <1>11 DEF IInv

LEMMA ExpireStep ==
    ASSUME IInv, NEW v \in Versions, NEW u \in Users, Expire(v, u)
    PROVE  IInv'
  <1>1. /\ cache' = [cache EXCEPT ![v][u] = NoEntry] /\ Types /\ CountsOK
        /\ db' = db /\ job' = job /\ mine' = mine /\ held' = held /\ arrived' = arrived
        /\ version' = version /\ lost' = lost /\ seen' = seen
    BY DEF Expire, IInv, sessionVars
  <1>2. NoEntry \in Entry /\ NoEntry.members = {}
    BY DEF NoEntry, Entry
  <1>3. PICK e \in Entry : e = NoEntry /\ e.members = {}
    BY <1>2
  <1>4. /\ cache' \in [Versions -> [Users -> Entry]]
        /\ \A w \in Versions, q \in Users :
             cache'[w][q].members = cache[w][q].members \/ cache'[w][q].members = {}
    BY <1>1, <1>3 DEF Types
  <1>5. Types' /\ CountsOK'
    BY <1>1, <1>4 DEF Types, CountsOK, Going, Open
  <1>6. \A s \in Requests : ChangeOK(s)'
    BY <1>1, ChangeKept DEF IInv
  <1>7. ReadableVersion' = ReadableVersion /\ InForce' = InForce
    BY <1>1 DEF ReadableVersion, InForce, Announcing
  <1>8. /\ SuperOK' /\ \A w : IsActive(w)' = IsActive(w) /\ Holds(w)' = Holds(w)
        /\ \A s \in Requests : Asking(s)' = Asking(s)
    BY <1>1 DEF IInv, SuperOK, IsActive, Holds, Committed, Asking, Open
  <1>9. ASSUME NEW s \in Requests
        PROVE  CheckOK(s)'
    <2>1. CheckOK(s)
      BY DEF IInv
    <2> QED
      BY <1>1, <1>7, <1>8, <2>1 DEF CheckOK, Clean
  <1>10. ASSUME NEW w \in Users, NEW ro \in RoleIds
         PROVE  LinkOK(w, ro)'
    BY <1>1 DEF IInv, LinkOK, Inserts, Deletes, There, Seen, Committed
  <1>11. (\A s \in Requests : NotTold(s)') /\ CurrentOK' /\ LaterEmpty'
    BY <1>1, <1>4, <1>7, <1>8, LessTold
  <1> QED
    BY <1>5, <1>6, <1>8, <1>9, <1>10, <1>11 DEF IInv

-----------------------------------------------------------------------------
(* The invariant.                                                          *)

LEMMA InitRows ==
    ASSUME RolesInit(Admin)
    PROVE  /\ db \in Table /\ SuperOK
           /\ \A u \in Users, ro \in RoleIds :
                Committed(Link(u, ro)) => Committed(u) /\ Committed(ro)
  <1>1. PICK users \in {{}, Users \ {Admin}} :
          LET roles == IF users = {} THEN {SuperAdmin} ELSE RoleIds
              links == {Link(Admin, SuperAdmin)}
                       \cup {Link(u, ro) : u \in users, ro \in roles \ {SuperAdmin}}
          IN  db = [k \in Keys |->
                      IF k \in {Admin} \cup users \cup roles THEN [exists |-> TRUE, active |-> TRUE]
                      ELSE IF k \in links \cup {Grant(ro) : ro \in roles} THEN [exists |-> TRUE]
                      ELSE NoRow]
    BY DEF RolesInit
  <1> DEFINE roles == IF users = {} THEN {SuperAdmin} ELSE RoleIds
             links == {Link(Admin, SuperAdmin)}
                      \cup {Link(u, ro) : u \in users, ro \in roles \ {SuperAdmin}}
             people == {Admin} \cup users \cup roles
             joins == links \cup {Grant(ro) : ro \in roles}
             whole == [exists |-> TRUE, active |-> TRUE]
             join == [exists |-> TRUE]
  <1>2. db = [k \in Keys |-> IF k \in people THEN whole ELSE IF k \in joins THEN join ELSE NoRow]
    BY <1>1
  <1>3. /\ roles \subseteq RoleIds /\ SuperAdmin \in roles /\ Admin \in Users
        /\ users \subseteq Users
    BY RolesAssumption, AccessAssumption
  <1>4. /\ people \subseteq Users \cup RoleIds /\ links \subseteq Links
        /\ joins \subseteq Links \cup Grants /\ joins \cap Links = links
        /\ Grant(SuperAdmin) \in joins /\ joins \cap (Users \cup RoleIds) = {}
    <2>1. people \subseteq Users \cup RoleIds
      BY <1>3
    <2>2. links \subseteq Links
      BY <1>3 DEF Links
    <2>3. {Grant(ro) : ro \in roles} \subseteq Grants /\ Grant(SuperAdmin) \in joins
      BY <1>3 DEF Grants
    <2> QED
      BY <2>1, <2>2, <2>3, KeyFacts
  <1>5. \A u \in Users, ro \in RoleIds : Link(u, ro) \in links => u \in people /\ ro \in people
    <2> SUFFICES ASSUME NEW u \in Users, NEW ro \in RoleIds, Link(u, ro) \in links
                 PROVE  u \in people /\ ro \in people
      OBVIOUS
    <2>1. CASE Link(u, ro) = Link(Admin, SuperAdmin)
      <3>1. u = Admin /\ ro = SuperAdmin
        BY <2>1, LinkOfOne
      <3> QED
        BY <1>3, <3>1
    <2>2. CASE Link(u, ro) # Link(Admin, SuperAdmin)
      <3>1. PICK w \in users, q \in roles : Link(u, ro) = Link(w, q)
        BY <2>2
      <3>2. u = w /\ ro = q
        BY <3>1, LinkOfOne
      <3> QED
        BY <3>2
    <2> QED
      BY <2>1, <2>2
  <1>6. /\ whole \in User /\ join \in JoinRow /\ whole.exists /\ whole.active /\ join.exists
        /\ whole # NoRow /\ join # NoRow
    <2>1. whole \in User /\ join \in JoinRow
      BY DEF User, JoinRow
    <2>2. whole.exists /\ whole.active /\ join.exists
      OBVIOUS
    <2>3. NoRow \notin User \cup JoinRow
      BY TablesAssumption
    <2> HIDE DEF whole, join
    <2> QED
      BY <2>1, <2>2, <2>3
  <1>7. /\ SuperAdmin \in people /\ people \subseteq Keys
        /\ joins \subseteq Keys /\ Links \subseteq Keys
        /\ people \cap Links = {}
    BY <1>3, <1>4, KeyFacts
  <1> HIDE DEF roles, links, people, joins, whole, join
  <1>8. db \in Table
    <2>1. \A k \in Keys : db[k] \in User \cup JoinRow \cup {NoRow}
      BY <1>2, <1>6
    <2>2. \A k \in Keys : db[k] \in RowsFor(k) \cup {NoRow}
      BY <1>2, <1>4, <1>6 DEF RowsFor
    <2>3. db \in [Keys -> User \cup JoinRow \cup {NoRow}]
      BY <1>2, <1>6
    <2> QED
      BY <2>2, <2>3, TableFacts
  <1>9. SuperOK
    <2>1. Grant(SuperAdmin) \in Keys /\ Grant(SuperAdmin) \notin people
      BY <1>4, <1>7, KeyFacts, RolesAssumption DEF Grants
    <2>2. db[SuperAdmin] = whole /\ db[Grant(SuperAdmin)] = join
      BY <1>2, <1>4, <1>7, <2>1
    <2> QED
      BY <1>6, <2>2 DEF SuperOK, Committed
  <1>10. ASSUME NEW u \in Users, NEW ro \in RoleIds, Committed(Link(u, ro))
         PROVE  Committed(u) /\ Committed(ro)
    <2>1. PICK l \in Links : l = Link(u, ro)
      BY LinkFacts
    <2>2. l \in Keys /\ l \notin people /\ db[l] # NoRow
      BY <1>7, <1>10, <2>1 DEF Committed
    <2>3. l \in links
      BY <1>2, <1>4, <2>2
    <2>4. u \in people /\ ro \in people
      BY <1>5, <2>1, <2>3
    <2>5. db[u] = whole /\ db[ro] = whole
      BY <1>2, <1>7, <2>4
    <2> QED
      BY <1>6, <2>5 DEF Committed
  <1> QED
    BY <1>8, <1>9, <1>10

LEMMA InitIInv == Init => IInv
  <1> SUFFICES ASSUME Init
               PROVE  IInv
    OBVIOUS
  <1>1. /\ RolesInit(Admin) /\ version = FirstVersion /\ lost = FALSE
        /\ cache = [v \in Versions |-> [u \in Users |-> NoEntry]]
        /\ seen = [r \in Requests |-> {}]
        /\ job = [r \in Requests |-> NoJob] /\ mine = [r \in Requests |-> NoVersions]
        /\ held = [r \in Requests |-> {}] /\ arrived = 0
    BY DEF Init, RolesInit
  <1>2. /\ db \in Table /\ SuperOK
        /\ \A u \in Users, ro \in RoleIds :
             Committed(Link(u, ro)) => Committed(u) /\ Committed(ro)
    BY <1>1, InitRows
  <1>3. /\ FirstVersion \in Nat /\ MaxArrivals \in Nat
    BY AccessAssumption, SessionsAssumption
  <1>4. NoVersions \in Table /\ \A k \in Keys : NoVersions[k] = NoRow
    <2>1. NoVersions = [k \in Keys |-> NoRow]
      BY <1>2 DEF NoVersions, Table
    <2>2. NoVersions \in [Keys -> User \cup JoinRow \cup {NoRow}]
      BY <2>1
    <2>3. \A k \in Keys : NoVersions[k] = NoRow
      BY <2>1
    <2> QED
      BY <2>2, <2>3, TableFacts
  <1>5. PICK none \in Table : none = NoVersions /\ \A k \in Keys : none[k] = NoRow
    BY <1>4
  <1>6. mine \in [Requests -> Table] /\ \A r \in Requests : mine[r] = none
    BY <1>1, <1>5
  <1>7. /\ job \in [Requests -> JobRec] /\ held \in [Requests -> SUBSET Keys]
        /\ \A r \in Requests : /\ job[r] = NoJob /\ held[r] = {} /\ ~Open(r) /\ ~Asking(r)
                               /\ job[r].op = "none" /\ job[r].step = "done"
    BY <1>1, NoJobType DEF Open, Asking
  <1>8. NoEntry \in Entry /\ NoEntry.members = {}
    BY DEF NoEntry, Entry
  <1>9. PICK e \in Entry : e = NoEntry /\ e.members = {}
    BY <1>8
  <1>10. /\ cache \in [Versions -> [Users -> Entry]]
         /\ \A v \in Versions, u \in Users : cache[v][u].members = {}
    BY <1>1, <1>9
  <1>11. Types
    <2>1. arrived \in 0 .. MaxArrivals /\ version \in Nat /\ FirstVersion <= version
      BY <1>1, <1>3
    <2>2. lost \in BOOLEAN /\ seen \in [Requests -> SUBSET {"active", "holds"}]
      BY <1>1
    <2> QED
      BY <1>2, <1>6, <1>7, <1>10, <2>1, <2>2 DEF Types
  <1>12. CountsOK
    <2>1. Going = {}
      BY <1>7 DEF Going
    <2>2. IsFiniteSet({}) /\ Cardinality({}) = 0
      BY FS_EmptySet
    <2>3. PICK going : going = Going
      OBVIOUS
    <2>4. IsFiniteSet(going) /\ Cardinality(going) = 0
      BY <2>1, <2>2, <2>3
    <2>5. version + Cardinality(going) <= FirstVersion + arrived
      BY <1>1, <1>3, <2>4
    <2> QED
      BY <2>3, <2>4, <2>5 DEF CountsOK
  <1>13. ASSUME NEW r \in Requests
         PROVE  ChangeOK(r) /\ CheckOK(r) /\ NotTold(r)
    <2>1. Clean(r)
      BY <1>5, <1>6 DEF Clean
    <2>2. /\ job[r].op = "none" /\ job[r].step = "done" /\ ~Asking(r) /\ held[r] = {}
      BY <1>7
    <2>3. PlanOK(r) /\ MineOK(r)
      BY <2>1, <2>2, OpFacts DEF PlanOK, MineOK, Clean
    <2>4. LastOK(r)
      BY <2>2 DEF LastOK
    <2> QED
      BY <2>1, <2>2, <2>3, <2>4, OpFacts DEF ChangeOK, CheckOK, NotTold
  <1>14. ASSUME NEW u \in Users, NEW ro \in RoleIds
         PROVE  LinkOK(u, ro)
    <2>1. PICK l \in Links : l = Link(u, ro)
      BY LinkFacts
    <2>2. l \in Keys /\ u \in Keys /\ ro \in Keys
      BY <2>1, KeyFacts
    <2>3. \A r \in Requests : /\ ~Inserts(r, l) /\ ~Deletes(r, u) /\ ~Deletes(r, ro)
                              /\ l \notin held[r]
      BY <1>5, <1>6, <1>7, <2>2 DEF Inserts, Deletes
    <2> QED
      BY <1>2, <2>1, <2>3 DEF LinkOK
  <1>15. ReadableVersion \in Versions
    BY <1>11, <1>12, VersionFacts
  <1>16. CurrentOK
    BY <1>7, <1>10, <1>15 DEF CurrentOK, Agrees, Filling
  <1>17. LaterEmpty
    BY <1>10 DEF LaterEmpty
  <1> QED
    BY <1>2, <1>11, <1>12, <1>13, <1>14, <1>16, <1>17 DEF IInv

LEMMA RoleStepKeeps ==
    ASSUME IInv, NEW r \in Requests, RoleStep(r), UNCHANGED <<cacheVars, seen>>
    PROVE  IInv'
  <1>1. ASSUME NEW ro \in RoleIds, NEW body \in RoleCreateRequest, CreateRole(r, ro, body)
        PROVE  IInv'
    <2>1. body.is_active \in BOOLEAN /\ body.permission_keys \in BOOLEAN
      BY DEF RoleCreateRequest
    <2>2. PICK a \in BOOLEAN, g \in BOOLEAN : a = body.is_active /\ g = body.permission_keys
      BY <2>1
    <2>3. Unused(ro) /\ InsertRole(r, ro, a, g) /\ UNCHANGED <<db, held, cacheVars, seen>>
      BY <1>1, <2>2 DEF CreateRole
    <2> QED
      BY <2>3, InsertRoleStep
  <1>2. ASSUME NEW ro \in RoleIds, NEW source \in RoleIds, CloneRole(r, ro, source)
        PROVE  IInv'
    <2>1. Committed(Grant(source)) \in BOOLEAN
      BY RowFacts, KeyFacts DEF IInv, Grants
    <2>2. PICK g \in BOOLEAN : g = Committed(Grant(source))
      BY <2>1
    <2>3. Unused(ro) /\ InsertRole(r, ro, TRUE, g) /\ UNCHANGED <<db, held, cacheVars, seen>>
      BY <1>2, <2>2 DEF CloneRole
    <2> QED
      BY <2>3, InsertRoleStep
  <1>3. ASSUME NEW ro \in RoleIds,
               \/ \E a \in Users, grants \in BOOLEAN : SetRolePermissions(r, a, ro, grants)
               \/ \E a \in Users, body \in RoleUpdateRequest : UpdateRole(r, a, ro, body)
               \/ DeleteRole(r, ro)
        PROVE  IInv'
    BY <1>3, SetRolePermissionsStep, UpdateRoleStep, DeleteRoleStep
  <1>4. CASE FlushRole(r) \/ DropRole(r)
    BY <1>4, FlushRoleStep, DropRoleStep
  <1>5. CASE BeginDelete(r) \/ DeleteLinks(r) \/ InsertLinks(r) \/ KeepRoleAccess(r)
    BY <1>5, BeginDeleteStep, DeleteLinksStep, InsertLinksStep, KeepRoleAccessStep
  <1> QED
    BY <1>1, <1>2, <1>3, <1>4, <1>5 DEF RoleStep

LEMMA UserStepKeeps ==
    ASSUME IInv, NEW r \in Requests, UserStep(r), UNCHANGED <<cacheVars, seen>>
    PROVE  IInv'
  <1>1. ASSUME NEW u \in Users,
               \/ \E body \in CreateUserRequest : CreateUser(r, u, body)
               \/ \E own \in BOOLEAN, body \in AssignUserRolesRequest :
                     AssignUserRoles(r, own, u, body)
               \/ \E active \in BOOLEAN : SetUserStatus(r, u, active)
               \/ DeleteUser(r, u)
        PROVE  IInv'
    BY <1>1, CreateUserStep, AssignUserRolesStep, SetUserStatusStep, DeleteUserStep
  <1>2. CASE FlushStatus(r) \/ DropUser(r)
    BY <1>2, FlushStatusStep, DropUserStep
  <1> QED
    BY <1>1, <1>2 DEF UserStep

LEMMA Stutters ==
    ASSUME IInv, UNCHANGED vars
    PROVE  IInv'
  <1>1. /\ db' = db /\ job' = job /\ mine' = mine /\ held' = held /\ arrived' = arrived
        /\ version' = version /\ cache' = cache /\ lost' = lost /\ seen' = seen
    BY DEF vars, sessionVars
  <1>2. Types' /\ CountsOK'
    BY <1>1 DEF IInv, Types, CountsOK, Going, Open
  <1>3. \A r \in Requests : ChangeOK(r)'
    BY <1>1, ChangeKept DEF IInv
  <1>4. /\ ReadableVersion' = ReadableVersion /\ InForce' = InForce
        /\ \A u : IsActive(u)' = IsActive(u) /\ Holds(u)' = Holds(u)
        /\ \A s \in Requests : Asking(s)' = Asking(s) /\ (Clean(s) => Clean(s)')
    BY <1>1 DEF ReadableVersion, InForce, Announcing, IsActive, Holds, Committed, Asking, Open,
                Clean
  <1>5. \A r \in Requests : CheckOK(r)'
    BY <1>1, <1>4 DEF IInv, CheckOK
  <1>6. /\ \A r \in Requests : NotTold(r)'
        /\ CurrentOK' /\ LaterEmpty'
    BY <1>1, <1>4, LessTold
  <1>7. SuperOK'
    BY <1>1 DEF IInv, SuperOK, Committed
  <1>8. \A u \in Users, ro \in RoleIds : LinkOK(u, ro)'
    BY <1>1 DEF IInv, LinkOK, Inserts, Deletes, There, Seen, Committed
  <1> QED
    BY <1>2, <1>3, <1>5, <1>6, <1>7, <1>8 DEF IInv

LEMMA IInvStep == IInv /\ [Next]_vars => IInv'
  <1> SUFFICES ASSUME IInv, [Next]_vars
               PROVE  IInv'
    OBVIOUS
  <1>1. ASSUME NEW r \in Requests, Change(r)
        PROVE  IInv'
    <2>1. CASE (RoleStep(r) \/ UserStep(r)) /\ UNCHANGED <<cacheVars, seen>>
      BY <2>1, RoleStepKeeps, UserStepKeeps
    <2>2. CASE CommitChange(r)
      BY <2>2, CommitChangeStep
    <2>3. CASE Announce(r) \/ LoseAnnouncement(r)
      BY <2>3, AnnounceStep
    <2>4. CASE /\ ~Asking(r) /\ job[r].step # "announce" /\ Rollback(r)
               /\ UNCHANGED <<cacheVars, seen>>
      BY <2>4, RollbackStep
    <2> QED
      BY <1>1, <2>1, <2>2, <2>3, <2>4 DEF Change
  <1>2. ASSUME NEW r \in Requests, Check(r)
        PROVE  IInv'
    BY <1>2, AskStep, LoadUserStep, ReadVersionStep, ReadCacheStep, ResolveStep, FillStep,
       CheckFails, SetTtlStep, LeaveStep DEF Check
  <1>3. ASSUME NEW v \in Versions, NEW u \in Users, Expire(v, u)
        PROVE  IInv'
    BY <1>3, ExpireStep
  <1>4. CASE UNCHANGED vars
    BY <1>4, Stutters
  <1> QED
    BY <1>1, <1>2, <1>3, <1>4 DEF Next

LEMMA Invariance == Spec => []IInv
  <1>1. Init => IInv
    BY InitIInv
  <1>2. IInv /\ [Next]_vars => IInv'
    BY IInvStep
  <1> QED
    BY <1>1, <1>2, PTL DEF Spec

-----------------------------------------------------------------------------
(* Theorems.                                                               *)

\* Nobody's request is of another kind than those that arrive.
OpsOK == \A r \in Requests : job[r].op \in Ops \cup {"none"}

LEMMA OpsKept ==
    ASSUME Types, OpsOK, NEW r \in Requests, RoleStep(r) \/ UserStep(r)
    PROVE  OpsOK'
  <1>1. job \in [Requests -> JobRec]
    BY DEF Types
  <1>2. ASSUME NEW j, Begin(r, j)
        PROVE  OpsOK'
    BY <1>1, <1>2 DEF Begin, OpsOK
  <1>3. CASE \/ FlushRole(r) \/ DropRole(r) \/ BeginDelete(r) \/ DeleteLinks(r)
             \/ InsertLinks(r) \/ KeepRoleAccess(r) \/ FlushStatus(r) \/ DropUser(r)
    <2>1. \A s \in Requests : job'[s].op = job[s].op
      <3>1. CASE FlushRole(r)
        BY <1>1, <3>1 DEF FlushRole, JobRec
      <3>2. CASE DropRole(r)
        BY <1>1, <3>2 DEF DropRole, JobRec
      <3>3. CASE BeginDelete(r)
        BY <1>1, <3>3 DEF BeginDelete, JobRec
      <3>4. CASE DeleteLinks(r)
        BY <1>1, <3>4 DEF DeleteLinks, JobRec
      <3>5. CASE InsertLinks(r)
        BY <1>1, <3>5 DEF InsertLinks, JobRec
      <3>6. CASE KeepRoleAccess(r)
        BY <1>1, <3>6 DEF KeepRoleAccess, JobRec
      <3>7. CASE FlushStatus(r)
        BY <1>1, <3>7 DEF FlushStatus, JobRec
      <3>8. CASE DropUser(r)
        BY <1>1, <3>8 DEF DropUser, JobRec
      <3> QED
        BY <1>3, <3>1, <3>2, <3>3, <3>4, <3>5, <3>6, <3>7, <3>8
    <2> QED
      BY <2>1 DEF OpsOK
  <1>4. ASSUME NEW ro \in RoleIds,
               \/ \E body \in RoleCreateRequest : CreateRole(r, ro, body)
               \/ \E source \in RoleIds : CloneRole(r, ro, source)
               \/ \E a \in Users, grants \in BOOLEAN : SetRolePermissions(r, a, ro, grants)
               \/ \E a \in Users, body \in RoleUpdateRequest : UpdateRole(r, a, ro, body)
               \/ DeleteRole(r, ro)
        PROVE  OpsOK'
    <2>1. \E j : Begin(r, j)
      BY <1>4 DEF CreateRole, CloneRole, InsertRole, SetRolePermissions, UpdateRole, DeleteRole
    <2> QED
      BY <1>2, <2>1
  <1>5. ASSUME NEW u \in Users,
               \/ \E body \in CreateUserRequest : CreateUser(r, u, body)
               \/ \E own \in BOOLEAN, body \in AssignUserRolesRequest :
                      AssignUserRoles(r, own, u, body)
               \/ \E active \in BOOLEAN : SetUserStatus(r, u, active)
               \/ DeleteUser(r, u)
        PROVE  OpsOK'
    <2>1. \E j : Begin(r, j)
      BY <1>5 DEF CreateUser, AssignUserRoles, SetUserStatus, DeleteUser
    <2> QED
      BY <1>2, <2>1
  <1> QED
    BY <1>3, <1>4, <1>5 DEF RoleStep, UserStep

LEMMA OpsStep == IInv /\ OpsOK /\ [Next]_vars => OpsOK'
  <1> SUFFICES ASSUME IInv, OpsOK, [Next]_vars
               PROVE  OpsOK'
    OBVIOUS
  <1>1. Types /\ job \in [Requests -> JobRec] /\ NoJob.op = "none"
    BY NoJobType DEF IInv, Types
  <1>2. ASSUME NEW r \in Requests, Change(r)
        PROVE  OpsOK'
    <2>1. CASE RoleStep(r) \/ UserStep(r)
      BY <1>1, <2>1, OpsKept
    <2>2. CASE CommitChange(r)
      <3>1. \A s \in Requests : job'[s].op = job[s].op
        BY <2>2, CommitChangeFacts
      <3> QED
        BY <3>1 DEF OpsOK
    <2>3. CASE Announce(r) \/ LoseAnnouncement(r) \/ Rollback(r)
      BY <1>1, <2>3 DEF Announce, LoseAnnouncement, Rollback, EndSession, OpsOK
    <2> QED
      BY <1>2, <2>1, <2>2, <2>3 DEF Change
  <1>3. ASSUME NEW r \in Requests, Check(r)
        PROVE  OpsOK'
    <2>1. CASE \E u \in Users : Ask(r, u)
      <3>1. PICK j : Begin(r, j)
        BY <2>1 DEF Ask
      <3> QED
        BY <1>1, <3>1 DEF Begin, OpsOK
    <2>2. CASE Leave(r)
      BY <1>1, <2>2 DEF Leave, EndSession, OpsOK
    <2>3. ASSUME NEW from, NEW to, CheckStep(r, from, to)
          PROVE  OpsOK'
      BY <1>1, <2>3 DEF CheckStep, OpsOK, JobRec
    <2>4. CASE LoadUser(r) \/ ReadCache(r) \/ Fill(r) \/ FillFails(r) \/ SetTtl(r) \/ SetTtlFails(r)
      <3>1. \E from, to : CheckStep(r, from, to)
        BY <2>4 DEF LoadUser, ReadCache, Fill, FillFails, SetTtl, SetTtlFails
      <3> QED
        BY <2>3, <3>1
    <2>5. CASE ReadVersion(r)
      BY <1>1, <2>5 DEF ReadVersion, OpsOK, JobRec
    <2>6. CASE Resolve(r)
      BY <1>1, <2>6 DEF Resolve, OpsOK, JobRec
    <2> QED
      BY <1>3, <2>1, <2>2, <2>4, <2>5, <2>6 DEF Check
  <1>4. CASE UNCHANGED job
    BY <1>4 DEF OpsOK
  <1> QED
    BY <1>2, <1>3, <1>4 DEF Next, Expire, vars, sessionVars

\* Rows, versions and entries are of their types, and the version is increased no more
\* often than requests have come: a request whose announcement is lost or that rolls
\* back increases nothing.
THEOREM TypeCorrect == Spec => []TypeOK
  <1>1. Init => IInv
    BY InitIInv
  <1>2. Init => OpsOK
    BY NoJobType DEF Init, RolesInit, OpsOK
  <1>3. IInv /\ OpsOK /\ [Next]_vars => IInv' /\ OpsOK'
    BY IInvStep, OpsStep
  <1>4. IInv /\ OpsOK => TypeOK
    <2> SUFFICES ASSUME IInv, OpsOK
                 PROVE  TypeOK
      OBVIOUS
    <2>1. /\ Types /\ CountsOK /\ db \in Table /\ mine \in [Requests -> Table]
      BY DEF IInv, Types
    <2>2. DOMAIN db = Keys
      BY <2>1 DEF Table
    <2>3. \A k \in Keys : RowsFor(k) \subseteq User \cup Role \cup JoinRow
      BY DEF RowsFor
    <2>4. \A k \in Keys : db[k] \in User \cup Role \cup JoinRow \cup {NoRow}
      BY <2>1, <2>3, RowFacts
    <2>5. ASSUME NEW r \in Requests
          PROVE  /\ job[r].op \in Ops \cup {"none"} /\ job[r].key \in DOMAIN db \cup {NoKey}
                 /\ job[r].kept \in User \cup Role \cup JoinRow \cup {NoRow}
                 /\ \A k \in DOMAIN db : mine[r][k] \in User \cup Role \cup JoinRow \cup {NoRow}
                 /\ held[r] \subseteq DOMAIN db
      <3>1. job[r] \in JobRec /\ held[r] \subseteq Keys
        BY <2>1 DEF Types
      <3>2. \A k \in Keys : mine[r][k] \in User \cup Role \cup JoinRow \cup {NoRow}
        BY <2>1, <2>3, RowFacts
      <3> QED
        BY <2>2, <3>1, <3>2 DEF JobRec, OpsOK
    <2>6. SessionTypeOK(User \cup Role \cup JoinRow)
      BY <2>1, <2>2, <2>4, <2>5 DEF SessionTypeOK, Types
    <2>7. version \in FirstVersion .. FirstVersion + MaxArrivals
      BY <2>1, VersionFacts
    <2> QED
      BY <2>1, <2>6, <2>7 DEF TypeOK, Types
  <1> QED
    BY <1>1, <1>2, <1>3, <1>4, PTL DEF Spec

\* While every change is in force the cache says of each user what the database says:
\* no entry of the current version is older than the last change, however the fills of
\* requests that have read before it are delayed (rbac.py:210).
THEOREM CacheIsTrue == Spec => []CacheAgrees
  <1>1. IInv => CacheAgrees
    BY DEF IInv, CurrentOK, CacheAgrees
  <1> QED
    BY <1>1, Invariance, PTL

\* A role that somebody has is there, and so is he: what keeps it true between the count
\* of delete_role and its commit, or of an assignment, are the locks that the foreign
\* keys take and ON DELETE RESTRICT (rbac_service.py:311).
THEOREM UsedRolesStay == Spec => []RolesInUseStay
  <1>1. IInv => RolesInUseStay
    BY DEF IInv, LinkOK, RolesInUseStay
  <1> QED
    BY <1>1, Invariance, PTL

\* Rows change by commits.
LEMMA OnlyCommits ==
    ASSUME Next
    PROVE  db' = db \/ \E r \in Requests : CommitChange(r)
  <1>1. ASSUME NEW r \in Requests, RoleStep(r)
        PROVE  db' = db
    <2>1. ASSUME NEW ro \in RoleIds,
                 \/ \E body \in RoleCreateRequest : CreateRole(r, ro, body)
                 \/ \E source \in RoleIds : CloneRole(r, ro, source)
                 \/ \E a \in Users, grants \in BOOLEAN : SetRolePermissions(r, a, ro, grants)
                 \/ \E a \in Users, body \in RoleUpdateRequest : UpdateRole(r, a, ro, body)
                 \/ DeleteRole(r, ro)
          PROVE  db' = db
      BY <2>1 DEF CreateRole, CloneRole, SetRolePermissions, UpdateRole, DeleteRole
    <2> QED
      BY <1>1, <2>1 DEF RoleStep, FlushRole, DropRole, BeginDelete, DeleteLinks, InsertLinks,
                        KeepRoleAccess
  <1>2. ASSUME NEW r \in Requests, UserStep(r)
        PROVE  db' = db
    <2>1. ASSUME NEW u \in Users,
                 \/ \E body \in CreateUserRequest : CreateUser(r, u, body)
                 \/ \E own \in BOOLEAN, body \in AssignUserRolesRequest :
                        AssignUserRoles(r, own, u, body)
                 \/ \E active \in BOOLEAN : SetUserStatus(r, u, active)
                 \/ DeleteUser(r, u)
          PROVE  db' = db
      BY <2>1 DEF CreateUser, AssignUserRoles, SetUserStatus, DeleteUser
    <2> QED
      BY <1>2, <2>1 DEF UserStep, FlushStatus, DropUser
  <1>3. ASSUME NEW r \in Requests, Change(r), ~CommitChange(r)
        PROVE  db' = db
    BY <1>1, <1>2, <1>3 DEF Change, Announce, LoseAnnouncement, Rollback
  <1>4. ASSUME NEW r \in Requests, Check(r)
        PROVE  db' = db
    BY <1>4 DEF Check, Ask, LoadUser, ReadVersion, ReadCache, Resolve, Fill, FillFails, SetTtl,
                SetTtlFails, Leave
  <1>5. ASSUME NEW v \in Versions, NEW u \in Users, Expire(v, u)
        PROVE  db' = db
    BY <1>5 DEF Expire, sessionVars
  <1> QED
    BY <1>3, <1>4, <1>5 DEF Next

\* A commit takes the role Super Admin from no other user than its own.
LEMMA LosesOwn ==
    ASSUME IInv, NEW r \in Requests, CommitChange(r),
           NEW u \in Users, u \in Supers, u \notin Supers'
    PROVE  u = job[r].key /\ job[r].op \in UserOps /\ job[r].amount # {u}
  <1>1. /\ job[r].op \in RoleOps \cup UserOps /\ job[r].step = "done"
        /\ PlanOK(r) /\ MineOK(r) /\ LastOK(r) /\ SuperOK' /\ Types
        /\ \A k \in Keys : db'[k] = Seen(r, k)
    BY CommitChangeFacts DEF IInv
  <1>2. PICK l : l = Link(u, SuperAdmin)
    OBVIOUS
  <1>3. /\ l \in Links /\ l \in Keys /\ u \in Keys /\ l \notin Users \cup RoleIds
        /\ u \notin Links \cup Grants \cup RoleIds /\ l \notin Grants
    BY <1>2, LinkFacts, KeyFacts, RolesAssumption
  <1>4. db[l] # NoRow /\ db[l].exists /\ db[u] # NoRow /\ db[u].exists /\ db[u].active
    BY <1>2 DEF Supers, IsActive, Committed
  <1>5. ~(/\ db'[l] # NoRow /\ db'[l].exists
          /\ db'[u] # NoRow /\ db'[u].exists /\ db'[u].active)
    <2> SUFFICES ASSUME db'[l] # NoRow, db'[l].exists, db'[u] # NoRow, db'[u].exists, db'[u].active
                 PROVE  FALSE
      OBVIOUS
    <2>1. Committed(Link(u, SuperAdmin))' /\ IsActive(u)'
      BY <1>2 DEF Committed, IsActive
    <2> QED
      BY <1>1, <2>1 DEF SuperOK, Supers
  <1>6. mine[r][l] # NoRow \/ mine[r][u] # NoRow
    BY <1>1, <1>3, <1>4, <1>5 DEF Seen
  <1>7. l \in Reach(job[r].op, job[r].key) \/ u \in Reach(job[r].op, job[r].key)
    BY <1>1, <1>3, <1>6 DEF MineOK
  <1>8. job[r].op \in UserOps /\ u = job[r].key
    <2>1. PICK op, k : op = job[r].op /\ k = job[r].key
      OBVIOUS
    <2>2. CASE op \in RoleOps
      <3>1. k \in RoleIds /\ Grant(k) \in Grants
        BY <1>1, <2>1, <2>2 DEF PlanOK, Grants
      <3> QED
        BY <1>3, <1>7, <2>1, <2>2, <3>1, ReachFacts
    <2>3. CASE op \in UserOps
      <3>1. k \in Users /\ LinksOf(k) \subseteq Links
        BY <1>1, <2>1, <2>3, KeyFacts DEF PlanOK
      <3>2. Reach(op, k) \subseteq {k} \cup LinksOf(k)
        BY <1>1, <2>1, <2>3, ReachFacts DEF UserOps
      <3>3. l \in LinksOf(k) => u = k
        BY <1>2, <3>1, LinkOfOne, RolesAssumption
      <3> QED
        BY <1>3, <1>7, <2>1, <2>3, <3>1, <3>2, <3>3
    <2> QED
      BY <1>1, <2>1, <2>2, <2>3
  <1>9. ASSUME job[r].amount = {u}
        PROVE  FALSE
    <2>1. CASE job[r].op = "assign"
      <3>1. Inserts(r, l)
        BY <1>1, <1>2, <1>8, <1>9, <2>1 DEF LastOK
      <3>2. LinksOf(u) \subseteq Links
        BY KeyFacts
      <3>3. Reach("assign", u) = LinksOf(u) /\ u \notin LinksOf(u)
        BY <1>1, <1>3, <2>1, <3>2, ReachFacts
      <3>4. mine[r][u] = NoRow
        BY <1>1, <1>3, <1>8, <2>1, <3>3 DEF MineOK
      <3> QED
        BY <1>1, <1>3, <1>4, <1>5, <3>1, <3>4 DEF Seen, Inserts
    <2>2. CASE job[r].op = "status"
      BY <1>1, <1>3, <1>6, <1>8, <1>9, <2>2 DEF LastOK, Clean
    <2>3. CASE job[r].op = "deleteUser"
      BY <1>1, <1>8, <1>9, <2>3 DEF LastOK
    <2>4. CASE job[r].op = "createUser"
      <3>1. /\ mine[r][l] # NoRow => mine[r][l].exists
            /\ mine[r][u] # NoRow => mine[r][u].exists /\ mine[r][u].active
        BY <1>1, <1>3, <1>8, <2>4 DEF MineOK
      <3> QED
        BY <1>1, <1>3, <1>4, <1>5, <3>1 DEF Seen
    <2> QED
      BY <1>8, <2>1, <2>2, <2>3, <2>4 DEF UserOps
  <1> QED
    BY <1>8, <1>9

\* The last Super Admin goes only by a request that began when others were Super Admins:
\* one request cannot lose him, and two that each saw the other's user there can
\* (rbac_service.py:362, users.py:185 and users.py:232).
THEOREM LastSuperAdminByRace == Spec => LastSuperAdminOnlyByRace
  <1>1. ASSUME IInv, [Next]_vars, Supers # {}, Supers' = {}
        PROVE  \E r \in Requests : /\ job[r].step = "done" /\ job'[r].step = "announce"
                                   /\ job[r].amount # Supers
    <2>1. db' # db
      BY <1>1 DEF Supers, IsActive, Committed
    <2>2. Next
      BY <1>1, <2>1 DEF vars, sessionVars
    <2>3. PICK r \in Requests : CommitChange(r)
      BY <2>1, <2>2, OnlyCommits
    <2>4. job[r].step = "done" /\ job'[r].step = "announce"
      BY <1>1, <2>3, CommitChangeFacts
    <2>5. \A u \in Supers : u = job[r].key /\ job[r].amount # {u}
      BY <1>1, <2>3, LosesOwn, SupersType
    <2>6. \E u \in Users : Supers = {u} /\ job[r].amount # {u}
      BY <1>1, <2>5, SupersType
    <2> QED
      BY <2>4, <2>6
  <1>2. IInv /\ [Next]_vars =>
          [ Supers # {} /\ Supers' = {} =>
              \E r \in Requests : /\ job[r].step = "done" /\ job'[r].step = "announce"
                                  /\ job[r].amount # Supers ]_vars
    BY <1>1
  <1> QED
    BY <1>2, Invariance, PTL DEF Spec, LastSuperAdminOnlyByRace

-----------------------------------------------------------------------------
(* The promise of require_permission.                                      *)

\* What the refinement makes of a request.
AskOf(r) ==
    IF ~Asking(r) THEN [user |-> "none", seen |-> {}, answer |-> "none"]
    ELSE [user |-> job[r].key, seen |-> seen[r],
          answer |-> IF job[r].step \in {"granted", "denied"} THEN job[r].step ELSE "open"]

LEMMA Quiet ==
    ASSUME \A u \in Users : IsActive(u)' = IsActive(u) /\ Holds(u)' = Holds(u),
           InForce' = InForce, \A s \in Requests : AskOf(s)' = AskOf(s)
    PROVE  UNCHANGED Guard!guardVars
  BY DEF AskOf, Guard!guardVars

\* Each asking request is seen with what is true of its user afterwards.
LEMMA SeenAfter ==
    ASSUME NEW act, NEW hold, act = {u \in Users : IsActive(u)'}, hold = {u \in Users : Holds(u)'},
           \A s \in Requests : ~Asking(s) => ~Asking(s)',
           \A s \in Requests :
               Asking(s) => /\ Asking(s)' /\ job'[s] = job[s] /\ job[s].key \in Users
                            /\ seen'[s] = seen[s] \cup Guard!TrueOf(job[s].key, act, hold)
    PROVE  Guard!Change
  <1>1. "none" \notin Users
    BY AccessAssumption
  <1>2. ASSUME NEW s \in Requests
        PROVE  AskOf(s)' = IF AskOf(s).user = "none" THEN AskOf(s)
                           ELSE [AskOf(s) EXCEPT
                                   !.seen = @ \cup Guard!TrueOf(AskOf(s).user, act, hold)]
    <2>1. CASE Asking(s)
      BY <1>1, <2>1 DEF AskOf
    <2>2. CASE ~Asking(s)
      BY <2>2 DEF AskOf
    <2> QED
      BY <2>1, <2>2
  <1>3. act \in SUBSET Users /\ hold \in SUBSET Users /\ InForce' \in BOOLEAN
    BY DEF InForce
  <1> QED
    BY <1>2, <1>3 DEF Guard!Change, AskOf

LEMMA NoAskingStep ==
    ASSUME IInv, NEW r \in Requests, RoleStep(r) \/ UserStep(r)
    PROVE  /\ ~Asking(r) /\ ~Asking(r)' /\ job[r].step # "announce" /\ job'[r].step # "announce"
           /\ \A s \in Requests \ {r} : job'[s] = job[s]
           /\ db' = db
  <1>1. job \in [Requests -> JobRec] /\ ChangeOK(r) /\ CheckOK(r)
    BY DEF IInv, Types
  <1> DEFINE Begun == /\ ~Open(r) /\ job'[r].op # "check" /\ job'[r].step # "announce"
                      /\ \A s \in Requests \ {r} : job'[s] = job[s]
                      /\ db' = db
  <1>2. ASSUME Begun
        PROVE  /\ ~Asking(r) /\ ~Asking(r)' /\ job[r].step # "announce"
               /\ job'[r].step # "announce" /\ \A s \in Requests \ {r} : job'[s] = job[s]
               /\ db' = db
    BY <1>1, <1>2 DEF Asking, Open, ChangeOK
  <1>3. CASE \/ FlushRole(r) \/ DropRole(r) \/ BeginDelete(r) \/ DeleteLinks(r)
             \/ InsertLinks(r) \/ KeepRoleAccess(r) \/ FlushStatus(r) \/ DropUser(r)
    <2> DEFINE After == {"replace", "guard", "delete", "insert", "done"}
    <2>1. /\ job[r].step \in RoleSteps /\ job'[r].op = job[r].op /\ job'[r].step \in After
          /\ \A s \in Requests \ {r} : job'[s] = job[s]
          /\ db' = db
      <3>1. CASE FlushRole(r)
        BY <1>1, <3>1 DEF FlushRole, At, JobRec, RoleSteps
      <3>2. CASE DropRole(r)
        BY <1>1, <3>2 DEF DropRole, At, JobRec, RoleSteps
      <3>3. CASE BeginDelete(r)
        BY <1>1, <3>3 DEF BeginDelete, JobRec, RoleSteps
      <3>4. CASE DeleteLinks(r)
        BY <1>1, <3>4 DEF DeleteLinks, JobRec, RoleSteps
      <3>5. CASE InsertLinks(r)
        BY <1>1, <3>5 DEF InsertLinks, JobRec, RoleSteps
      <3>6. CASE KeepRoleAccess(r)
        BY <1>1, <3>6 DEF KeepRoleAccess, JobRec, RoleSteps
      <3>7. CASE FlushStatus(r)
        BY <1>1, <3>7 DEF FlushStatus, At, JobRec, RoleSteps
      <3>8. CASE DropUser(r)
        BY <1>1, <3>8 DEF DropUser, At, JobRec, RoleSteps
      <3> QED
        BY <1>3, <3>1, <3>2, <3>3, <3>4, <3>5, <3>6, <3>7, <3>8
    <2>2. ~Asking(r) /\ job[r].step # "announce"
      BY <1>1, <2>1, OpFacts DEF CheckOK
    <2>3. Asking(r)' => Asking(r)
      BY <2>1 DEF Asking, Open
    <2> QED
      BY <2>1, <2>2, <2>3
  <1>4. ASSUME NEW ro \in RoleIds,
               \/ \E body \in RoleCreateRequest : CreateRole(r, ro, body)
               \/ \E source \in RoleIds : CloneRole(r, ro, source)
               \/ \E a \in Users, grants \in BOOLEAN : SetRolePermissions(r, a, ro, grants)
               \/ \E a \in Users, body \in RoleUpdateRequest : UpdateRole(r, a, ro, body)
               \/ DeleteRole(r, ro)
        PROVE  Begun
    <2>1. CASE \E body \in RoleCreateRequest : CreateRole(r, ro, body)
      BY <1>1, <2>1 DEF CreateRole, InsertRole, Begin, Asked, Job, NoJob
    <2>2. CASE \E source \in RoleIds : CloneRole(r, ro, source)
      BY <1>1, <2>2 DEF CloneRole, InsertRole, Begin, Asked, Job, NoJob
    <2>3. CASE \E a \in Users, grants \in BOOLEAN : SetRolePermissions(r, a, ro, grants)
      BY <1>1, <2>3 DEF SetRolePermissions, Begin, Asked, Job, NoJob
    <2>4. CASE \E a \in Users, body \in RoleUpdateRequest : UpdateRole(r, a, ro, body)
      BY <1>1, <2>4 DEF UpdateRole, Begin, Asked, Job, NoJob
    <2>5. CASE DeleteRole(r, ro)
      BY <1>1, <2>5 DEF DeleteRole, Begin, Asked, Job, NoJob
    <2> QED
      BY <1>4, <2>1, <2>2, <2>3, <2>4, <2>5
  <1>5. ASSUME NEW u \in Users,
               \/ \E body \in CreateUserRequest : CreateUser(r, u, body)
               \/ \E own \in BOOLEAN, body \in AssignUserRolesRequest :
                      AssignUserRoles(r, own, u, body)
               \/ \E active \in BOOLEAN : SetUserStatus(r, u, active)
               \/ DeleteUser(r, u)
        PROVE  Begun
    <2>1. CASE \E body \in CreateUserRequest : CreateUser(r, u, body)
      BY <1>1, <2>1 DEF CreateUser, Begin, Asked, Job, NoJob
    <2>2. CASE \E own \in BOOLEAN, body \in AssignUserRolesRequest :
                  AssignUserRoles(r, own, u, body)
      BY <1>1, <2>2 DEF AssignUserRoles, Begin, Asked, Job, NoJob
    <2>3. CASE \E active \in BOOLEAN : SetUserStatus(r, u, active)
      BY <1>1, <2>3 DEF SetUserStatus, Begin, Asked, Job, NoJob
    <2>4. CASE DeleteUser(r, u)
      BY <1>1, <2>4 DEF DeleteUser, Begin, Asked, Job, NoJob
    <2> QED
      BY <1>5, <2>1, <2>2, <2>3, <2>4
  <1> HIDE DEF Begun
  <1> QED
    BY <1>2, <1>3, <1>4, <1>5 DEF RoleStep, UserStep

LEMMA ChangeMaps ==
    ASSUME IInv, NEW r \in Requests, Change(r)
    PROVE  Guard!Next \/ UNCHANGED Guard!guardVars
  <1>1. Types /\ \A s \in Requests : CheckOK(s) /\ ChangeOK(s)
    BY DEF IInv
  <1>2. ASSUME db' = db, seen' = seen, lost' = lost, ~Asking(r), ~Asking(r)',
               job[r].step # "announce", job'[r].step # "announce",
               \A s \in Requests \ {r} : job'[s] = job[s]
        PROVE  UNCHANGED Guard!guardVars
    <2>1. \A u \in Users : IsActive(u)' = IsActive(u) /\ Holds(u)' = Holds(u)
      BY <1>2 DEF IsActive, Holds, Committed
    <2>2. InForce' = InForce
      <3>1. Announcing' = Announcing
        BY <1>2 DEF Announcing
      <3> QED
        BY <1>2, <3>1 DEF InForce
    <2>3. ASSUME NEW s \in Requests
          PROVE  AskOf(s)' = AskOf(s)
      BY <1>2 DEF AskOf, Asking, Open
    <2> QED
      BY <2>1, <2>2, <2>3, Quiet
  <1>3. CASE (RoleStep(r) \/ UserStep(r)) /\ UNCHANGED <<cacheVars, seen>>
    BY <1>2, <1>3, NoAskingStep DEF cacheVars
  <1>4. CASE ~Asking(r) /\ job[r].step # "announce" /\ Rollback(r) /\ UNCHANGED <<cacheVars, seen>>
    <2>1. job'[r].op = "none" /\ job'[r].step = "done" /\ \A s \in Requests \ {r} : job'[s] = job[s]
      BY <1>1, <1>4, NoJobType DEF Rollback, EndSession, Types
    <2>2. ~Asking(r)'
      BY <2>1 DEF Asking
    <2> QED
      BY <1>2, <1>4, <2>1, <2>2 DEF Rollback, cacheVars
  <1> DEFINE act == {u \in Users : IsActive(u)'}
             hold == {u \in Users : Holds(u)'}
  <1>5. CASE CommitChange(r)
    <2>1. /\ ~Asking(r) /\ job'[r].op = job[r].op /\ job[r].op # "check"
          /\ \A s \in Requests \ {r} : job'[s] = job[s]
          /\ \A s \in Requests : Asking(s) =>
               seen'[s] = seen[s] \cup TrueOf(job[s].key, IsActive(job[s].key)', Holds(job[s].key)')
      BY <1>5, CommitChangeFacts, OpFacts
    <2>2. ASSUME NEW s \in Requests, Asking(s)
          PROVE  /\ Asking(s)' /\ job'[s] = job[s] /\ job[s].key \in Users
                 /\ seen'[s] = seen[s] \cup Guard!TrueOf(job[s].key, act, hold)
      <3>1. Asking(s)' /\ job'[s] = job[s] /\ job[s].key \in Users
        BY <1>1, <2>1, <2>2 DEF Asking, Open, CheckOK
      <3>2. PICK u, a, h : u = job[s].key /\ a = IsActive(u)' /\ h = Holds(u)'
        OBVIOUS
      <3>3. seen'[s] = seen[s] \cup TrueOf(u, a, h)
        <4>1. IsActive(job[s].key)' = a /\ Holds(job[s].key)' = h
          BY <3>1, <3>2 DEF IsActive, Holds, Committed
        <4> QED
          BY <2>1, <2>2, <3>2, <4>1
      <3>4. TrueOf(u, a, h) = Guard!TrueOf(u, act, hold)
        BY <3>1, <3>2 DEF TrueOf, Guard!TrueOf, Guard!Facts
      <3> QED
        BY <3>1, <3>2, <3>3, <3>4
    <2>3. \A s \in Requests : ~Asking(s) => ~Asking(s)'
      BY <2>1 DEF Asking, Open
    <2> QED
      BY <2>2, <2>3, SeenAfter DEF Guard!Next
  <1>6. CASE Announce(r) \/ LoseAnnouncement(r)
    <2>1. job[r].step = "announce" /\ EndSession(r) /\ db' = db /\ seen' = seen
      BY <1>6 DEF Announce, LoseAnnouncement
    <2>2. ~Asking(r)
      BY <1>1, <2>1, OpFacts DEF CheckOK
    <2>3. job'[r].op = "none" /\ \A s \in Requests \ {r} : job'[s] = job[s]
      BY <1>1, <2>1, NoJobType DEF EndSession, Types
    <2>4. ASSUME NEW s \in Requests, Asking(s)
          PROVE  /\ Asking(s)' /\ job'[s] = job[s] /\ job[s].key \in Users
                 /\ seen'[s] = seen[s] \cup Guard!TrueOf(job[s].key, act, hold)
      <3>1. Asking(s)' /\ job'[s] = job[s] /\ job[s].key \in Users
        BY <1>1, <2>2, <2>3, <2>4 DEF Asking, Open, CheckOK
      <3>2. /\ IsActive(job[s].key) => "active" \in seen[s]
            /\ Holds(job[s].key) => "holds" \in seen[s]
        BY <1>1, <2>4 DEF CheckOK
      <3>3. \A u : IsActive(u)' = IsActive(u) /\ Holds(u)' = Holds(u)
        BY <2>1 DEF IsActive, Holds, Committed
      <3>4. Guard!TrueOf(job[s].key, act, hold) \subseteq seen[s]
        BY <3>1, <3>2, <3>3 DEF Guard!TrueOf, Guard!Facts
      <3> QED
        BY <2>1, <3>1, <3>4
    <2>5. \A s \in Requests : ~Asking(s) => ~Asking(s)'
      BY <2>2, <2>3 DEF Asking, Open
    <2> QED
      BY <2>4, <2>5, SeenAfter DEF Guard!Next
  <1> QED
    BY <1>3, <1>4, <1>5, <1>6 DEF Change

\* A step of an asking request that stays: it decides, on what it has seen, or not yet.
LEMMA AskingMaps ==
    ASSUME IInv, NEW r \in Requests, Asking(r), IInv', job[r].step \notin {"granted", "denied"},
           job'[r].op = "check", job'[r].key = job[r].key, job'[r].step # "announce",
           \A s \in Requests \ {r} : job'[s] = job[s],
           db' = db, seen' = seen, lost' = lost
    PROVE  Guard!Next \/ UNCHANGED Guard!guardVars
  <1>1. /\ CheckOK(r) /\ CheckOK(r)' /\ seen[r] \subseteq {"active", "holds"} /\ Asking(r)'
        /\ job[r].key \in Users
    BY DEF IInv, Types, Asking, Open, CheckOK
  <1>2. \A u \in Users : IsActive(u)' = IsActive(u) /\ Holds(u)' = Holds(u)
    BY DEF IsActive, Holds, Committed
  <1>3. InForce' = InForce
    <2>1. job[r].step # "announce"
      BY <1>1, OpFacts DEF CheckOK
    <2>2. Announcing' = Announcing
      BY <2>1 DEF Announcing
    <2> QED
      BY <2>2 DEF InForce
  <1>4. ASSUME NEW s \in Requests \ {r}
        PROVE  AskOf(s)' = AskOf(s)
    BY DEF AskOf, Asking, Open
  <1>5. AskOf(r) = [user |-> job[r].key, seen |-> seen[r], answer |-> "open"]
    BY DEF AskOf
  <1>6. CASE job'[r].step \notin {"granted", "denied"}
    <2>1. AskOf(r)' = AskOf(r)
      BY <1>1, <1>5, <1>6 DEF AskOf
    <2> QED
      BY <1>2, <1>3, <1>4, <2>1, Quiet
  <1>7. CASE job'[r].step \in {"granted", "denied"}
    <2>1. PICK answer \in {"granted", "denied"} : answer = job'[r].step
      BY <1>7
    <2>2. AskOf(r)' = [AskOf(r) EXCEPT !.answer = answer]
      BY <1>1, <1>5, <2>1 DEF AskOf
    <2>3. AskOf(r).answer = "open" /\ AskOf(r).seen = seen[r]
      BY <1>5
    <2>4. answer = "granted" => seen[r] = Guard!Facts
      BY <1>1, <2>1 DEF CheckOK, Guard!Facts
    <2> DEFINE asks == [s \in Requests |-> AskOf(s)]
    <2>5. asks' = [asks EXCEPT ![r].answer = answer]
      BY <1>4, <2>2
    <2>6. Guard!Answer(r)
      BY <1>2, <1>3, <2>3, <2>4, <2>5 DEF Guard!Answer, AskOf
    <2> QED
      BY <2>6 DEF Guard!Next
  <1> QED
    BY <1>6, <1>7

LEMMA AskMaps ==
    ASSUME IInv, NEW r \in Requests, NEW u \in Users, Ask(r, u)
    PROVE  Guard!Next
  <1>1. /\ ~Open(r) /\ db' = db /\ lost' = lost
        /\ job' = [job EXCEPT ![r] = [Job("check", u) EXCEPT !.step = "user"]]
        /\ seen' = [seen EXCEPT ![r] = TrueOf(u, IsActive(u), Holds(u))
                                       \cup IF InForce THEN {} ELSE {"holds"}]
    BY DEF Ask, Begin, cacheVars
  <1>2. /\ job \in [Requests -> JobRec] /\ seen \in [Requests -> SUBSET {"active", "holds"}]
        /\ ChangeOK(r)
    BY DEF IInv, Types
  <1>3. /\ job'[r].op = "check" /\ job'[r].key = u /\ job'[r].step = "user"
        /\ \A s \in Requests \ {r} : job'[s] = job[s] /\ seen'[s] = seen[s]
    BY <1>1, <1>2 DEF Job, NoJob
  <1>4. \A q \in Users : IsActive(q)' = IsActive(q) /\ Holds(q)' = Holds(q)
    BY <1>1 DEF IsActive, Holds, Committed
  <1>5. InForce' = InForce
    <2>1. job[r].step # "announce"
      BY <1>1, <1>2 DEF ChangeOK, Open
    <2>2. Announcing' = Announcing
      BY <1>3, <2>1 DEF Announcing
    <2> QED
      BY <1>1, <2>2 DEF InForce
  <1> DEFINE act == {q \in Users : IsActive(q)}
             hold == {q \in Users : Holds(q)}
             facts == Guard!TrueOf(u, act, hold) \cup IF InForce THEN {} ELSE {"holds"}
             asks == [s \in Requests |-> AskOf(s)]
  <1>6. TrueOf(u, IsActive(u), Holds(u)) = Guard!TrueOf(u, act, hold)
    BY DEF TrueOf, Guard!TrueOf, Guard!Facts
  <1>7. seen'[r] = facts
    BY <1>1, <1>2, <1>6
  <1> HIDE DEF facts
  <1>8. AskOf(r)' = [user |-> u, answer |-> "open", seen |-> facts]
    BY <1>3, <1>7 DEF AskOf, Asking, Open
  <1>9. AskOf(r) = Guard!NoAsk
    BY <1>1 DEF AskOf, Asking, Guard!NoAsk
  <1>10. ASSUME NEW s \in Requests \ {r}
         PROVE  AskOf(s)' = AskOf(s)
    BY <1>3 DEF AskOf, Asking, Open
  <1>11. asks' = [asks EXCEPT ![r] = [user |-> u, answer |-> "open", seen |-> facts]]
    BY <1>8, <1>10
  <1>12. Guard!Ask(r)
    BY <1>4, <1>5, <1>9, <1>11 DEF Guard!Ask, AskOf, facts
  <1> QED
    BY <1>12 DEF Guard!Next

LEMMA LeaveMaps ==
    ASSUME IInv, NEW r \in Requests, Leave(r)
    PROVE  Guard!Next
  <1>1. Asking(r) /\ EndSession(r) /\ db' = db /\ lost' = lost /\ seen' = [seen EXCEPT ![r] = {}]
    BY DEF Leave, cacheVars
  <1>2. /\ job \in [Requests -> JobRec] /\ seen \in [Requests -> SUBSET {"active", "holds"}]
        /\ CheckOK(r) /\ job[r].key \in Users /\ job[r].step # "announce"
    BY <1>1, OpFacts DEF IInv, Types, CheckOK
  <1>3. /\ job'[r].op = "none" /\ job'[r].step = "done"
        /\ \A s \in Requests \ {r} : job'[s] = job[s] /\ seen'[s] = seen[s]
    BY <1>1, <1>2, NoJobType DEF EndSession
  <1>4. \A u \in Users : IsActive(u)' = IsActive(u) /\ Holds(u)' = Holds(u)
    BY <1>1 DEF IsActive, Holds, Committed
  <1>5. InForce' = InForce
    <2>1. Announcing' = Announcing
      BY <1>2, <1>3 DEF Announcing
    <2> QED
      BY <1>1, <2>1 DEF InForce
  <1>6. AskOf(r)' = Guard!NoAsk
    BY <1>3 DEF AskOf, Asking, Open, Guard!NoAsk
  <1>7. AskOf(r) # Guard!NoAsk
    <2>1. AskOf(r).user # Guard!NoAsk.user
      BY <1>1, <1>2, AccessAssumption DEF AskOf, Guard!NoAsk
    <2> QED
      BY <2>1
  <1>8. ASSUME NEW s \in Requests \ {r}
        PROVE  AskOf(s)' = AskOf(s)
    BY <1>3 DEF AskOf, Asking, Open
  <1> DEFINE asks == [s \in Requests |-> AskOf(s)]
  <1>9. asks' = [asks EXCEPT ![r] = Guard!NoAsk]
    BY <1>6, <1>8
  <1>10. Guard!Leave(r)
    BY <1>4, <1>5, <1>7, <1>9 DEF Guard!Leave, AskOf
  <1> QED
    BY <1>10 DEF Guard!Next

LEMMA CheckMaps ==
    ASSUME IInv, IInv', NEW r \in Requests, Check(r)
    PROVE  Guard!Next \/ UNCHANGED Guard!guardVars
  <1>1. job \in [Requests -> JobRec]
    BY DEF IInv, Types
  <1>2. ASSUME NEW from, NEW to, CheckStep(r, from, to), from \notin {"granted", "denied"},
               to # "announce", db' = db, seen' = seen, lost' = lost
        PROVE  Guard!Next \/ UNCHANGED Guard!guardVars
    <2>1. Asking(r) /\ job[r].step = from
      BY <1>2 DEF CheckStep, At, Asking, Open
    <2>2. /\ job'[r].op = "check" /\ job'[r].key = job[r].key /\ job'[r].step = to
          /\ \A s \in Requests \ {r} : job'[s] = job[s]
      BY <1>1, <1>2 DEF CheckStep, At, JobRec
    <2> QED
      BY <1>2, <2>1, <2>2, AskingMaps
  <1>3. \A b \in BOOLEAN : Decided(b) # "announce"
    BY DEF Decided
  <1>4. CASE LoadUser(r)
    <2>1. PICK to \in {"denied", "granted", "version"} : CheckStep(r, "user", to)
      BY <1>4 DEF LoadUser
    <2> QED
      BY <1>2, <1>4, <2>1 DEF LoadUser, cacheVars
  <1>5. CASE ReadCache(r)
    <2>1. PICK to \in {"resolve", "granted", "denied"} : CheckStep(r, "cache", to)
      BY <1>5 DEF ReadCache, Decided
    <2> QED
      BY <1>2, <1>5, <2>1 DEF ReadCache, cacheVars
  <1>6. CASE Fill(r)
    BY <1>2, <1>6 DEF Fill
  <1>7. CASE SetTtl(r) \/ FillFails(r) \/ SetTtlFails(r)
    <2>1. PICK from \in {"fill", "expire"}, to \in {"granted", "denied"} : CheckStep(r, from, to)
      BY <1>7 DEF SetTtl, FillFails, SetTtlFails, Decided
    <2> QED
      BY <1>2, <1>7, <2>1 DEF SetTtl, FillFails, SetTtlFails, cacheVars
  <1>8. CASE ReadVersion(r)
    <2>1. /\ job[r].step = "version" /\ Asking(r) /\ db' = db /\ seen' = seen /\ lost' = lost
          /\ job'[r].op = "check" /\ job'[r].key = job[r].key
          /\ job'[r].step \in {"cache", "resolve"} /\ \A s \in Requests \ {r} : job'[s] = job[s]
      BY <1>1, <1>8 DEF ReadVersion, At, Asking, Open, JobRec, cacheVars
    <2> QED
      BY <2>1, AskingMaps
  <1>9. CASE Resolve(r)
    <2>1. /\ job[r].step = "resolve" /\ Asking(r) /\ db' = db /\ seen' = seen /\ lost' = lost
          /\ job'[r].op = "check" /\ job'[r].key = job[r].key
          /\ job'[r].step \in {"granted", "denied", "fill"}
          /\ \A s \in Requests \ {r} : job'[s] = job[s]
      BY <1>1, <1>9 DEF Resolve, At, Asking, Open, JobRec, Decided, cacheVars
    <2> QED
      BY <2>1, AskingMaps
  <1> QED
    BY <1>4, <1>5, <1>6, <1>7, <1>8, <1>9, AskMaps, LeaveMaps DEF Check

\* The cache, with its versions and whatever calls of Redis fail, keeps the promise of
\* require_permission (rbac.py:137): who comes while every change is in force is granted
\* only what he has had at some moment since he came.
THEOREM GuardIsKept == Spec => GrantsAreJustified
  <1>1. Init => Guard!Init
    <2> SUFFICES ASSUME Init
                 PROVE  Guard!Init
      OBVIOUS
    <2>1. \A r \in Requests : ~Asking(r)
      BY NoJobType DEF Init, RolesInit, Asking, Open
    <2>2. InForce \in BOOLEAN
      BY DEF InForce
    <2> QED
      BY <2>1, <2>2 DEF Guard!Init, Guard!NoAsk
  <1>2. IInv /\ IInv' /\ [Next]_vars => [Guard!Next]_(Guard!guardVars)
    <2> SUFFICES ASSUME IInv, IInv', [Next]_vars
                 PROVE  Guard!Next \/ UNCHANGED Guard!guardVars
      OBVIOUS
    <2>1. ASSUME UNCHANGED <<sessionVars, lost, seen>>
          PROVE  UNCHANGED Guard!guardVars
      <3>1. db' = db /\ job' = job /\ lost' = lost /\ seen' = seen
        BY <2>1 DEF sessionVars
      <3>2. \A u \in Users : IsActive(u)' = IsActive(u) /\ Holds(u)' = Holds(u)
        BY <3>1 DEF IsActive, Holds, Committed
      <3>3. InForce' = InForce
        BY <3>1 DEF InForce, Announcing
      <3>4. \A s \in Requests : AskOf(s)' = AskOf(s)
        BY <3>1 DEF AskOf, Asking, Open
      <3> QED
        BY <3>2, <3>3, <3>4, Quiet
    <2>2. ASSUME NEW v \in Versions, NEW u \in Users, Expire(v, u)
          PROVE  UNCHANGED Guard!guardVars
      BY <2>1, <2>2 DEF Expire
    <2> QED
      BY <2>1, <2>2, ChangeMaps, CheckMaps DEF Next, vars
  <1> QED
    BY <1>1, <1>2, Invariance, PTL DEF Spec, GrantsAreJustified
=============================================================================
