------------------------------- MODULE Access -------------------------------
(***************************************************************************)
(* require_permission and its cache in Redis, while roles and users        *)
(* change: app/core/rbac.py, app/core/dependencies.py and the commits of   *)
(* the endpoints of roles and users.                                       *)
(*                                                                         *)
(* The cache is versioned: whoever changes something commits it and then   *)
(* increments the version, and a request reads the entry of the version    *)
(* that it has read.  Each call of Redis is a step of its own, and may     *)
(* fail.                                                                   *)
(***************************************************************************)
EXTENDS Roles

CONSTANTS
    Admin,         \* the user whom the migration made Super Admin
    FirstVersion,  \* the version in Redis at first; 0: there is no such key
    Faults         \* calls of Redis that may fail: "read", "write", "expire", "incr"

ASSUME AccessAssumption ==
    /\ Admin \in Users /\ "none" \notin Users
    /\ FirstVersion \in Nat
    /\ Faults \subseteq {"read", "write", "expire", "incr"}

VARIABLES
    version,  \* rbac:perms:version
    cache,    \* rbac:perms:v{version}:{user}: its members, and whether it expires
    lost,     \* a change was committed and no increment has told the readers
    seen      \* history: what has been true of the asking user since the request came

vars == <<sessionVars, version, cache, lost, seen>>

cacheVars == <<version, cache, lost>>

Permission == "roles:write"

Nobody == "__none__"

Entry == {e \in [members : SUBSET {Permission, Nobody}, ttl : BOOLEAN] : e.ttl => e.members # {}}

NoEntry == [members |-> {}, ttl |-> FALSE]

Versions == 1 .. 1 + FirstVersion + MaxArrivals

Init ==
    /\ RolesInit(Admin)
    /\ version = FirstVersion
    /\ cache = [v \in Versions |-> [u \in Users |-> NoEntry]]
    /\ lost = FALSE
    /\ seen = [r \in Requests |-> {}]

\* The version as it is read: that of a key that is not there is 1.
ReadableVersion == IF version = 0 THEN 1 ELSE version

Announcing == {r \in Requests : job[r].step = "announce"}

InForce == Announcing = {} /\ ~lost

-----------------------------------------------------------------------------
(* Changes of roles and users.                                             *)

\* What is true of user u when the rows are as in d.
TrueOf(u, act, hold) ==
    {f \in {"active", "holds"} : (f = "active" /\ act) \/ (f = "holds" /\ hold)}

Asking(r) == Open(r) /\ job[r].op = "check"

\* The commit of a handler that has changed roles or users; invalidate_permission_cache
\* comes after it.
CommitChange(r) ==
    /\ Open(r) /\ ~Asking(r) /\ job[r].step = "done"
    /\ db' = [k \in DOMAIN db |-> Seen(r, k)]
    /\ job' = [job EXCEPT ![r] = [Job(@.op, NoKey) EXCEPT !.step = "announce"]]
    /\ mine' = [mine EXCEPT ![r] = NoVersions]
    /\ held' = [held EXCEPT ![r] = {}]
    /\ seen' = [s \in Requests |->
                   IF ~Asking(s) THEN seen[s]
                   ELSE seen[s] \cup TrueOf(job[s].key, IsActive(job[s].key)', Holds(job[s].key)')]
    /\ UNCHANGED <<arrived, cacheVars>>

\* INCR.  The first one, of a key that is not there, gives the version that is read
\* without it: it tells the readers nothing.
Announce(r) ==
    /\ job[r].step = "announce"
    /\ version' = version + 1
    /\ lost' = (version = 0)
    /\ EndSession(r)
    /\ UNCHANGED <<db, arrived, cache, seen>>

\* INCR fails, or the request dies before it: the error is logged and forgotten.
LoseAnnouncement(r) ==
    /\ "incr" \in Faults
    /\ job[r].step = "announce"
    /\ lost' = TRUE
    /\ EndSession(r)
    /\ UNCHANGED <<db, arrived, version, cache, seen>>

-----------------------------------------------------------------------------
(* require_permission.                                                     *)

CheckStep(r, from, to) == At(r, "check", from) /\ job' = [job EXCEPT ![r].step = to]

\* A request of user u comes.
Ask(r, u) ==
    /\ Begin(r, [Job("check", u) EXCEPT !.step = "user"])
    /\ seen' = [seen EXCEPT ![r] = TrueOf(u, IsActive(u), Holds(u))
                                   \cup IF InForce THEN {} ELSE {"holds"}]
    /\ UNCHANGED <<db, mine, held, cacheVars>>

\* Seeded fault: the status of the user is not looked at.
LoadUserAnyStatus(r) ==
    LET u == job[r].key IN
    /\ CheckStep(r, "user", IF ~Committed(u) THEN "denied"
                            ELSE IF u \in Supers THEN "granted" ELSE "version")
    /\ UNCHANGED <<db, mine, held, arrived, cacheVars, seen>>

\* _resolve_auth, from the SELECT of the user on, and is_super_admin.  The SELECT of
\* the user's roles, which follows the one of the user at once, is part of the step.
LoadUser(r) ==
    LET u == job[r].key IN
    /\ CheckStep(r, "user", IF ~IsActive(u) THEN "denied"
                            ELSE IF u \in Supers THEN "granted" ELSE "version")
    /\ UNCHANGED <<db, mine, held, arrived, cacheVars, seen>>

\* amount: the version of the cache key.  Without one the entry is neither read
\* nor written.
ReadVersion(r) ==
    /\ At(r, "check", "version")
    /\ \/ job' = [job EXCEPT ![r].step = "cache", ![r].amount = ReadableVersion]
       \/ "read" \in Faults /\ job' = [job EXCEPT ![r].step = "resolve"]
    /\ UNCHANGED <<db, mine, held, arrived, cacheVars, seen>>

Decided(grants) == IF grants THEN "granted" ELSE "denied"

\* An entry with more than the sentinel counts as the permissions.
ReadCache(r) ==
    LET members == cache[job[r].amount][job[r].key].members IN
    /\ \/ CheckStep(r, "cache", IF members = {} THEN "resolve" ELSE Decided(Permission \in members))
       \/ "read" \in Faults /\ CheckStep(r, "cache", "resolve")
    /\ UNCHANGED <<db, mine, held, arrived, cacheVars, seen>>

\* resolve_user_permissions; new: what is put into the cache.
Resolve(r) ==
    LET grants == Resolves(r, job[r].key) IN
    /\ At(r, "check", "resolve")
    /\ job' = [job EXCEPT ![r].step = IF job[r].amount = 0 THEN Decided(grants) ELSE "fill",
                          ![r].new = IF grants THEN {Permission} ELSE {Nobody}]
    /\ UNCHANGED <<db, mine, held, arrived, cacheVars, seen>>

\* Seeded fault: the entry is that of the version at this moment.
FillCurrent(r) ==
    /\ CheckStep(r, "fill", "expire")
    /\ cache' = [cache EXCEPT ![ReadableVersion][job[r].key].members = @ \cup job[r].new]
    /\ UNCHANGED <<db, mine, held, arrived, version, lost, seen>>

\* SADD joins the members to those that another request has put there.
Fill(r) ==
    /\ CheckStep(r, "fill", "expire")
    /\ cache' = [cache EXCEPT ![job[r].amount][job[r].key].members = @ \cup job[r].new]
    /\ UNCHANGED <<db, mine, held, arrived, version, lost, seen>>

FillFails(r) ==
    /\ "write" \in Faults
    /\ CheckStep(r, "fill", Decided(Permission \in job[r].new))
    /\ UNCHANGED <<db, mine, held, arrived, cacheVars, seen>>

\* Seeded fault: the sentinel is left to stay.
SetTtlOfPermissions(r) ==
    LET e == cache[job[r].amount][job[r].key] IN
    /\ CheckStep(r, "expire", Decided(Permission \in job[r].new))
    /\ cache' = [cache EXCEPT ![job[r].amount][job[r].key].ttl = @ \/ Permission \in e.members]
    /\ UNCHANGED <<db, mine, held, arrived, version, lost, seen>>

\* Seeded fault: an entry that has gone meanwhile is marked.
SetTtlOfNothing(r) ==
    /\ CheckStep(r, "expire", Decided(Permission \in job[r].new))
    /\ cache' = [cache EXCEPT ![job[r].amount][job[r].key].ttl = TRUE]
    /\ UNCHANGED <<db, mine, held, arrived, version, lost, seen>>

\* EXPIRE; it does nothing to an entry that has gone meanwhile.
SetTtl(r) ==
    LET e == cache[job[r].amount][job[r].key] IN
    /\ CheckStep(r, "expire", Decided(Permission \in job[r].new))
    /\ cache' = [cache EXCEPT ![job[r].amount][job[r].key].ttl = e.members # {}]
    /\ UNCHANGED <<db, mine, held, arrived, version, lost, seen>>

SetTtlFails(r) ==
    /\ "expire" \in Faults
    /\ CheckStep(r, "expire", Decided(Permission \in job[r].new))
    /\ UNCHANGED <<db, mine, held, arrived, cacheVars, seen>>

\* The handler runs, or the request is refused.
Leave(r) ==
    /\ Asking(r) /\ job[r].step \in {"granted", "denied"}
    /\ EndSession(r)
    /\ seen' = [seen EXCEPT ![r] = {}]
    /\ UNCHANGED <<db, arrived, cacheVars>>

\* 300 seconds are over.
Expire(v, u) ==
    /\ cache[v][u].ttl
    /\ cache' = [cache EXCEPT ![v][u] = NoEntry]
    /\ UNCHANGED <<sessionVars, version, lost, seen>>

-----------------------------------------------------------------------------

Change(r) ==
    \/ (RoleStep(r) \/ UserStep(r)) /\ UNCHANGED <<cacheVars, seen>>
    \/ CommitChange(r) \/ Announce(r) \/ LoseAnnouncement(r)
    \/ ~Asking(r) /\ job[r].step # "announce" /\ Rollback(r) /\ UNCHANGED <<cacheVars, seen>>

Check(r) ==
    \/ \E u \in Users : Ask(r, u)
    \/ LoadUser(r) \/ ReadVersion(r) \/ ReadCache(r) \/ Resolve(r)
    \/ Fill(r) \/ FillFails(r) \/ SetTtl(r) \/ SetTtlFails(r) \/ Leave(r)

Next ==
    \/ \E r \in Requests : Change(r) \/ Check(r)
    \/ \E v \in Versions, u \in Users : Expire(v, u)

\* Handlers run to their end: PostgreSQL breaks what deadlocks, and Redis answers or
\* fails in bounded time.  Entries with a TTL expire.
Fairness ==
    /\ \A r \in Requests : WF_vars(Open(r) /\ (Change(r) \/ Check(r)))
    /\ \A v \in Versions, u \in Users : WF_vars(Expire(v, u))

Spec == Init /\ [][Next]_vars /\ Fairness

-----------------------------------------------------------------------------
(* Properties.                                                             *)

TypeOK ==
    /\ SessionTypeOK(User \cup Role \cup JoinRow)
    /\ version \in FirstVersion .. FirstVersion + MaxArrivals
    /\ cache \in [Versions -> [Users -> Entry]]
    /\ lost \in BOOLEAN
    /\ seen \in [Requests -> SUBSET {"active", "holds"}]

\* The entry says of the user what the database says.
Agrees(v, u) ==
    LET members == cache[v][u].members IN
    members # {} => (Permission \in members <=> Holds(u))

\* While every change is in force, the entries that a request can find agree with the
\* database (rbac.py:210: the increment invalidates every cached set).  A change that
\* was committed between the SELECT of a request and its SADD is the case to fear.
CacheAgrees == InForce => \A u \in Users : Agrees(ReadableVersion, u)

\* The refinement: the cache, the versions and the failures of Redis implement the
\* promise of require_permission.
Guard == INSTANCE AbstractAccess WITH
    active <- {u \in Users : IsActive(u)},
    holders <- {u \in Users : Holds(u)},
    inForce <- InForce,
    asks <- [r \in Requests |->
                IF ~Asking(r) THEN [user |-> "none", seen |-> {}, answer |-> "none"]
                ELSE [user |-> job[r].key, seen |-> seen[r],
                      answer |-> IF job[r].step \in {"granted", "denied"}
                                 THEN job[r].step ELSE "open"]]

GrantsAreJustified == Guard!Init /\ [][Guard!Next]_(Guard!guardVars)

\* The system loses its last Super Admin only when two requests overlap: the one that
\* commits it began when others were Super Admins than are now (the guards of
\* rbac_service.py:362, users.py:185 and users.py:232 count them without a lock).
LastSuperAdminOnlyByRace ==
    [][ Supers # {} /\ Supers' = {} =>
          \E r \in Requests : /\ job[r].step = "done" /\ job'[r].step = "announce"
                              /\ job[r].amount # Supers ]_vars

\* A role that somebody has is there, however the count of its users and the assignment
\* interleave (rbac_service.py:311).
RolesInUseStay ==
    \A u \in Users, ro \in RoleIds : Committed(Link(u, ro)) => Committed(ro) /\ Committed(u)

\* What the cache says wrongly, after a lost increment too, it says for a time only.
CacheHeals == []<>(\A u \in Users : Agrees(ReadableVersion, u))

\* "The last active Super Admin cannot lose the Super Admin role."  The code does not
\* keep it: two requests that overlap count each other's user as the one who is left.
SuperAdminRemains == Supers # {}
=============================================================================
