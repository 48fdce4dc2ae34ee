-------------------------------- MODULE Roles --------------------------------
(***************************************************************************)
(* Roles, their permission and the users they are assigned to:             *)
(* app/services/rbac_service.py and the endpoints of users.                *)
(*                                                                         *)
(* One permission stands for all: the one to manage roles, which the guard *)
(* against locking oneself out asks for.  Names, descriptions and the      *)
(* activity log are left out.  A handler runs for an actor who has passed  *)
(* require_permission some time before; any user may be the actor here.    *)
(***************************************************************************)
EXTENDS Sessions

CONSTANTS
    Users,      \* primary keys of the users table
    RoleIds,    \* primary keys of the roles table
    SuperAdmin  \* the system role

ASSUME RolesAssumption == SuperAdmin \in RoleIds

-----------------------------------------------------------------------------
(* Rows.                                                                   *)

\* The row of user_roles, and the row of role_permissions.
Link(u, ro) == <<u, ro>>

Grant(ro) == <<ro>>

LinksOf(u) == {Link(u, ro) : ro \in RoleIds}

Keys == Users \cup RoleIds \cup (UNION {LinksOf(u) : u \in Users})
        \cup {Grant(ro) : ro \in RoleIds}

\* A row that was deleted stays as one that does not exist.
User == [exists : BOOLEAN, active : BOOLEAN]

Role == [exists : BOOLEAN, active : BOOLEAN]

JoinRow == [exists : BOOLEAN]

\* Rows of different tables have different keys.
ASSUME TablesAssumption ==
    /\ Users \cap RoleIds = {}
    /\ (Users \cup RoleIds) \cap (UNION {LinksOf(u) : u \in Users}) = {}
    /\ (Users \cup RoleIds) \cap {Grant(ro) : ro \in RoleIds} = {}
    /\ NoRow \notin User \cup JoinRow

\* The bodies of the requests.  permission_keys: the permission is among them.
RoleCreateRequest == [is_active : BOOLEAN, permission_keys : BOOLEAN]

AssignUserRolesRequest == [role_ids : SUBSET RoleIds]

CreateUserRequest == [role_ids : SUBSET RoleIds]

\* What a role may be updated to; "same" where the body has no such field.
RoleUpdateRequest == [active : {"yes", "no", "same"}, grants : {"yes", "no", "same"}]

There(r, k) == Seen(r, k) # NoRow /\ Seen(r, k).exists

Committed(k) == db[k] # NoRow /\ db[k].exists

\* resolve_user_permissions of user u by session r: the roles that are active.
Resolves(r, u) ==
    \E ro \in RoleIds : /\ There(r, Link(u, ro)) /\ There(r, ro) /\ Seen(r, ro).active
                        /\ There(r, Grant(ro))

Holds(u) ==
    \E ro \in RoleIds : /\ Committed(Link(u, ro)) /\ Committed(ro) /\ db[ro].active
                        /\ Committed(Grant(ro))

IsActive(u) == Committed(u) /\ db[u].active

Supers == {u \in Users : /\ IsActive(u) /\ Committed(Link(u, SuperAdmin))
                         /\ Committed(SuperAdmin) /\ db[SuperAdmin].active}

\* The migration: the system role with every permission,
\* and one user who has it.  Then either nothing has happened yet, or the other roles
\* and users are there, and each of those users has each of those roles.
RolesInit(admin) ==
    /\ \E users \in {{}, Users \ {admin}} :
         LET roles == IF users = {} THEN {SuperAdmin} ELSE RoleIds
             links == {Link(admin, SuperAdmin)}
                      \cup {Link(u, ro) : u \in users, ro \in roles \ {SuperAdmin}}
         IN  db = [k \in Keys |->
                     IF k \in {admin} \cup users \cup roles THEN [exists |-> TRUE, active |-> TRUE]
                     ELSE IF k \in links \cup {Grant(ro) : ro \in roles} THEN [exists |-> TRUE]
                     ELSE NoRow]
    /\ job = [r \in Requests |-> NoJob]
    /\ mine = [r \in Requests |-> NoVersions]
    /\ held = [r \in Requests |-> {}]
    /\ arrived = 0

-----------------------------------------------------------------------------
(* Roles.                                                                  *)

\* A request about row k; its step is what it flushes first.
Asked(op, k, step) == [Job(op, k) EXCEPT !.step = step]

\* The row and the grants of a new role, before the commit.
InsertRole(r, ro, active, grants) ==
    /\ Begin(r, Asked("createRole", ro, "done"))
    /\ mine' = [mine EXCEPT ![r][ro] = [exists |-> TRUE, active |-> active],
                            ![r][Grant(ro)] = IF grants THEN [exists |-> TRUE] ELSE NoRow]

CreateRole(r, ro, body) ==
    /\ Unused(ro)
    /\ InsertRole(r, ro, body.is_active, body.permission_keys)
    /\ UNCHANGED <<db, held>>

\* clone_role: the clone has the grants of the source, and is active.
CloneRole(r, ro, source) ==
    /\ Unused(ro)
    /\ Committed(source)
    /\ InsertRole(r, ro, TRUE, Committed(Grant(source)))
    /\ UNCHANGED <<db, held>>

\* update_role reads the role without a lock.  keptOf: the actor, who must be able to
\* manage roles after it.
UpdateRole(r, a, ro, body) ==
    /\ Committed(ro) /\ ro # SuperAdmin
    /\ Begin(r, [Asked("updateRole", ro, "flush") EXCEPT
                   !.loaded = db[ro], !.new = body, !.keptOf = a])
    /\ UNCHANGED <<db, mine, held>>

\* RbacRepository.update_role, when is_active differs from what was read.
FlushRole(r) ==
    LET k == job[r].key
        active == job[r].new.active
        differs == active # "same" /\ (active = "yes") # job[r].loaded.active
    IN
    /\ At(r, "updateRole", "flush")
    /\ IF ~differs THEN UNCHANGED <<mine, held>>
       ELSE /\ Free(r, k) /\ Committed(k)
            /\ Write(r, k, [db[k] EXCEPT !.active = (active = "yes")])
    /\ job' = [job EXCEPT ![r].step = IF job[r].new.grants = "same" THEN "guard" ELSE "replace",
                          ![r].loaded = {Grant(k)},
                          ![r].new = IF job[r].new.grants = "yes" THEN {Grant(k)} ELSE {}]
    /\ UNCHANGED <<db, arrived>>

\* set_role_permissions reads the role without a lock, and replaces its grants.
SetRolePermissions(r, a, ro, grants) ==
    /\ Committed(ro) /\ ro # SuperAdmin
    /\ Begin(r, [Asked("updateRole", ro, "replace") EXCEPT
                   !.loaded = {Grant(ro)}, !.new = IF grants THEN {Grant(ro)} ELSE {},
                   !.keptOf = a])
    /\ UNCHANGED <<db, mine, held>>

\* delete_role: nobody has the role, as far as the session sees.
DeleteRole(r, ro) ==
    /\ Committed(ro) /\ ro # SuperAdmin
    /\ \A u \in Users : ~Committed(Link(u, ro))
    /\ Begin(r, Asked("deleteRole", ro, "drop"))
    /\ UNCHANGED <<db, mine, held>>

\* Somebody else is about to delete the row.
Dropping(r, k) == \E s \in Requests \ {r} : mine[s][k] # NoRow /\ ~mine[s][k].exists

\* Somebody else is about to assign the role.
Assigning(r, ro) ==
    \E s \in Requests \ {r}, u \in Users :
        mine[s][Link(u, ro)] # NoRow /\ mine[s][Link(u, ro)].exists

\* Seeded fault: the assignments go with the role (ON DELETE CASCADE).
DropRoleCascading(r) ==
    LET ro == job[r].key IN
    /\ At(r, "deleteRole", "drop")
    /\ Free(r, ro) /\ Committed(ro)
    /\ Write(r, ro, [db[ro] EXCEPT !.exists = FALSE])
    /\ job' = [job EXCEPT ![r].step = "done"]
    /\ UNCHANGED <<db, arrived>>

\* The DELETE waits for those who assign the role, and ON DELETE RESTRICT refuses
\* what the count has missed.
DropRole(r) ==
    LET ro == job[r].key IN
    /\ At(r, "deleteRole", "drop")
    /\ Free(r, ro) /\ Committed(ro)
    /\ ~Assigning(r, ro)
    /\ \A u \in Users : ~Committed(Link(u, ro))
    /\ mine' = [mine EXCEPT ![r][ro] = [db[ro] EXCEPT !.exists = FALSE],
                            ![r][Grant(ro)] = [exists |-> FALSE]]
    /\ held' = [held EXCEPT ![r] = @ \cup {ro}]
    /\ job' = [job EXCEPT ![r].step = "done"]
    /\ UNCHANGED <<db, arrived>>

-----------------------------------------------------------------------------
(* Users and their roles.                                                  *)

\* Seeded fault: the count includes the user who is to lose the role.
SuperAdminStaysCounted(u, loses) == loses /\ u \in Supers => Supers # {}

\* The guard before the last Super Admin goes.
SuperAdminStays(u, loses) ==
    loses /\ Committed(Link(u, SuperAdmin)) => Supers \ {u} # {}

\* assign_user_roles, up to the guard; amount: who is Super Admin then.  own: the
\* actor's own roles.  The SELECTs of the user, of the roles and of the count are one
\* step here, as if nothing were committed between them.
AssignUserRoles(r, own, u, body) ==
    LET roles == body.role_ids IN
    /\ Committed(u)
    /\ \A ro \in roles : Committed(ro)
    /\ SuperAdminStays(u, SuperAdmin \notin roles)
    /\ Begin(r, [Asked("assign", u, "replace") EXCEPT
                   !.amount = Supers, !.keptOf = IF own THEN u ELSE NoKey,
                   !.loaded = LinksOf(u), !.new = {Link(u, ro) : ro \in roles}])
    /\ UNCHANGED <<db, mine, held>>

\* register_user, and assign_user_roles for the new user.
CreateUser(r, u, body) ==
    LET roles == body.role_ids IN
    /\ Unused(u)
    /\ \A ro \in roles : Committed(ro)
    /\ Begin(r, [Asked("createUser", u, "insert") EXCEPT
                   !.new = {Link(u, ro) : ro \in roles}])
    /\ mine' = [mine EXCEPT ![r][u] = [exists |-> TRUE, active |-> TRUE]]
    /\ UNCHANGED <<db, held>>

\* The DELETE of set_user_roles or set_role_permissions begins: it will delete the
\* rows that are there now.
BeginDelete(r) ==
    /\ job[r].step = "replace"
    /\ job' = [job EXCEPT ![r].step = "delete",
                          ![r].loaded = {k \in @ : Committed(k)}]
    /\ UNCHANGED <<db, mine, held, arrived>>

\* It waits for the rows that others have changed, and passes over those that are
\* gone by then.  (One that has been deleted and inserted again has the same key
\* here, and goes too.)
DeleteLinks(r) ==
    LET rows == {k \in job[r].loaded : Committed(k)} IN
    /\ job[r].step = "delete"
    /\ \A k \in job[r].loaded : Free(r, k)
    /\ mine' = [mine EXCEPT ![r] = [k \in DOMAIN @ |->
                    IF k \in rows THEN [exists |-> FALSE] ELSE @[k]]]
    /\ held' = [held EXCEPT ![r] = @ \cup rows]
    /\ job' = [job EXCEPT ![r].step = "insert", ![r].loaded = NoRow]
    /\ UNCHANGED <<db, arrived>>

\* The rows that the links refer to are there, and are not being deleted.
Referable(r, links) ==
    \A k \in links, i \in {1, 2} : i \in DOMAIN k => There(r, k[i]) /\ ~Dropping(r, k[i])

\* The INSERT: a row that somebody has inserted meanwhile breaks the primary key,
\* and one whose role is gone the foreign key; both end with a Rollback.
InsertLinks(r) ==
    LET rows == job[r].new IN
    /\ job[r].step = "insert"
    /\ \A k \in rows : Free(r, k) /\ ~There(r, k)
    /\ Referable(r, rows)
    /\ mine' = [mine EXCEPT ![r] = [k \in DOMAIN @ |->
                    IF k \in rows THEN [exists |-> TRUE] ELSE @[k]]]
    /\ held' = [held EXCEPT ![r] = @ \cup rows]
    /\ job' = [job EXCEPT ![r].step = IF job[r].keptOf # NoKey THEN "guard" ELSE "done",
                          ![r].new = NoRow]
    /\ UNCHANGED <<db, arrived>>

\* _assert_actor_keeps_role_access, or else a Rollback.
KeepRoleAccess(r) ==
    /\ job[r].step = "guard"
    /\ Resolves(r, job[r].keptOf)
    /\ job' = [job EXCEPT ![r].step = "done", ![r].loaded = NoRow, ![r].new = NoRow]
    /\ UNCHANGED <<db, mine, held, arrived>>

\* set_user_status, up to the guard.
SetUserStatus(r, u, active) ==
    /\ Committed(u)
    /\ SuperAdminStays(u, ~active /\ db[u].active)
    /\ Begin(r, [Asked("status", u, "flush") EXCEPT
                   !.amount = Supers, !.loaded = db[u],
                   !.new = [exists |-> TRUE, active |-> active]])
    /\ UNCHANGED <<db, mine, held>>

FlushStatus(r) ==
    LET u == job[r].key IN
    /\ At(r, "status", "flush")
    /\ IF job[r].new = job[r].loaded THEN UNCHANGED <<mine, held>>
       ELSE Free(r, u) /\ Committed(u) /\ Write(r, u, Flushed(db[u], job[r].loaded, job[r].new))
    /\ job' = [job EXCEPT ![r].step = "done", ![r].loaded = NoRow, ![r].new = NoRow]
    /\ UNCHANGED <<db, arrived>>

\* delete_user, up to the guard, by another user; loaded: the roles that the user came
\* with.
DeleteUser(r, u) ==
    /\ \E a \in Users : a # u
    /\ Committed(u)
    /\ SuperAdminStays(u, TRUE)
    /\ Begin(r, [Asked("deleteUser", u, "drop") EXCEPT
                   !.amount = Supers,
                   !.loaded = {k \in LinksOf(u) : Committed(k)}])
    /\ UNCHANGED <<db, mine, held>>

\* The rows of user_roles are deleted, of those that were loaded one by one (one that
\* is gone is an error), and then the user.
DropUser(r) ==
    LET u == job[r].key
        rows == {k \in LinksOf(u) : Committed(k)}
    IN
    /\ At(r, "deleteUser", "drop")
    /\ Committed(u) /\ job[r].loaded \subseteq rows
    /\ \A k \in {u} \cup LinksOf(u) : Free(r, k)
    /\ mine' = [mine EXCEPT ![r] = [k \in DOMAIN @ |->
                    IF k \in rows THEN [exists |-> FALSE]
                    ELSE IF k = u THEN [exists |-> FALSE, active |-> FALSE] ELSE @[k]]]
    /\ held' = [held EXCEPT ![r] = @ \cup {u} \cup rows]
    /\ job' = [job EXCEPT ![r].step = "done", ![r].loaded = NoRow]
    /\ UNCHANGED <<db, arrived>>

RoleStep(r) ==
    \/ \E ro \in RoleIds :
         \/ \E body \in RoleCreateRequest : CreateRole(r, ro, body)
         \/ \E source \in RoleIds : CloneRole(r, ro, source)
         \/ \E a \in Users, grants \in BOOLEAN : SetRolePermissions(r, a, ro, grants)
         \/ \E a \in Users, body \in RoleUpdateRequest : UpdateRole(r, a, ro, body)
         \/ DeleteRole(r, ro)
    \/ FlushRole(r) \/ DropRole(r)
    \/ BeginDelete(r) \/ DeleteLinks(r) \/ InsertLinks(r) \/ KeepRoleAccess(r)

UserStep(r) ==
    \/ \E u \in Users :
         \/ \E body \in CreateUserRequest : CreateUser(r, u, body)
         \/ \E own \in BOOLEAN, body \in AssignUserRolesRequest :
                AssignUserRoles(r, own, u, body)
         \/ \E active \in BOOLEAN : SetUserStatus(r, u, active)
         \/ DeleteUser(r, u)
    \/ FlushStatus(r) \/ DropUser(r)
=============================================================================
