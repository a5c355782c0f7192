----------------------------- MODULE Permissions -----------------------------
(***************************************************************************)
(* Roles, permission groups and permissions, and the three ways a user     *)
(* comes to hold a permission: the role of the user, the user groups it is *)
(* a member of, and direct assignment.  The routes under /roles,           *)
(* /permissions and the bulk role assignment check their guard first and   *)
(* write afterwards in another connection: between the two a request is in *)
(* `asks'.  Memberships are those of the access graph.                     *)
(***************************************************************************)
EXTENDS AccessGraph, Sequences

CONSTANTS Roles, PermGroups, Perms,
          Reserved,         \* RESERVED_PERMISSION_NAMES among the permissions
          ManageRoles,      \* the permission `manage_roles'
          AdminPermission,  \* the permission `admin'
          SystemRoles,      \* roles with is_system_role
          NoRole,           \* role_id NULL
          RoleLists, PermGroupLists,   \* bound: the lists that calls carry
          MaxAsks           \* bound: requests between guard and write

ASSUME PermAssumption ==
    /\ Reserved \subseteq Perms /\ {ManageRoles, AdminPermission} \subseteq Reserved
    /\ SystemRoles \subseteq Roles /\ NoRole \notin Roles
    /\ Roles \cap PermGroups = {} /\ Roles \cap Perms = {} /\ PermGroups \cap Perms = {}
    /\ PermGroupLists \subseteq SUBSET PermGroups /\ RoleLists \subseteq Seq(Roles)
    /\ MaxAsks \in Nat

VARIABLES
    st,     \* role, permission group or permission -> "new", "active", "deleted"
    urole,  \* user -> role_id
    edge,   \* the active links <<kind, from, to>>
    asks    \* requests past their guard

perm     == <<st, urole, edge>>
permvars == <<vars, perm, asks>>

Things == Roles \cup PermGroups \cup Perms
Active(t) == st[t] = "active"
Linked(kind, from, to) == <<kind, from, to>> \in edge

----------------------------------------------------------------------------
(* What the wrappers read: a link counts while what it names is active.     *)

get_role_permission_groups(k) == {h \in PermGroups : Linked("role", k, h) /\ Active(h)}
get_permission_group_permissions(h) == {m \in Perms : Linked("perm", h, m) /\ Active(m)}
get_user_group_permission_groups(g) == {h \in PermGroups : Linked("ugroup", g, h) /\ Active(h)}
get_user_permission_groups(u) == {h \in PermGroups : Linked("user", u, h) /\ Active(h)}
get_user_groups_with_permission_group(h) == {g \in UGroups : Linked("ugroup", g, h) /\ ActiveUG(g)}
get_users_with_permission_group(h) == {u \in uact : Linked("user", u, h)}
get_project_cataloged_roles(p) == {k \in Roles : Linked("catalog", k, p) /\ Active(k)}
get_project_cataloged_permission_groups(p) ==
    {h \in PermGroups : Linked("catalog", h, p) /\ Active(h)}
get_permission_group_cataloged_projects(h) ==
    {p \in Projects : Linked("catalog", h, p) /\ proj[p] = "active"}
get_user_role(u) == {k \in Roles : u \in uact /\ urole[u] = k /\ Active(k)}

PermsOf(H) == UNION {get_permission_group_permissions(h) : h \in H}
RoleGroups(u)  == UNION {get_role_permission_groups(k) : k \in get_user_role(u)}
MemberGroups(u) == UNION {get_user_group_permission_groups(g) : g \in GetUserGroupsForUser(u)}

get_user_permissions(u) == PermsOf(RoleGroups(u))
check_user_has_permission(u, m) == m \in get_user_permissions(u)
get_user_all_permissions(u) ==
    PermsOf(RoleGroups(u) \cup MemberGroups(u) \cup get_user_permission_groups(u))
check_user_has_permission_extended(u, m) == m \in get_user_all_permissions(u)
\* Mutation: the role counts although it has been deleted.
SourcesWithDeletedRole(u) ==
    {<<"role", h>> : h \in UNION {get_role_permission_groups(k) : k \in {urole[u]} \ {NoRole}}}
    \cup {<<"user_group", h>> : h \in MemberGroups(u)}
    \cup {<<"direct", h>> : h \in get_user_permission_groups(u)}
get_user_permission_sources(u) ==
    {<<"role", h>> : h \in RoleGroups(u)}
    \cup {<<"user_group", h>> : h \in MemberGroups(u)}
    \cup {<<"direct", h>> : h \in get_user_permission_groups(u)}

GroupGrantsReserved(h) == get_permission_group_permissions(h) \cap Reserved # {}
RoleGrantsReserved(k) == \E h \in get_role_permission_groups(k) : GroupGrantsReserved(h)
HoldsReservedRole(u) == \E k \in get_user_role(u) : RoleGrantsReserved(k)

(* require_admin of /roles counts the role only, the one of /permissions    *)
(* every source.  Bulk assignment reads the session, which carries what the *)
(* role gives.                                                              *)
RequireRolesAdmin(a) == a \in uact /\ (IsAdmin(a) \/ check_user_has_permission(a, ManageRoles))
RequireAssignAdmin(a) ==
    a \in uact /\ (IsAdmin(a) \/ check_user_has_permission_extended(a, ManageRoles))
RequireBulkAdmin(a) == a \in uact /\ (IsAdmin(a) \/ AdminPermission \in get_user_permissions(a))
RootUnless(a, reserved) == IsRoot(a) \/ ~reserved
NotOwnRole(a, u) == IsRoot(a) \/ a # u

----------------------------------------------------------------------------
(* The guards.  `fresh' holds until root, or a request that is itself no    *)
(* longer fresh, writes in between, or a user is activated: a guard passes  *)
(* over a listed user that is not found.                                    *)

Ask(a, op, arg) ==
    /\ asks' = asks \cup {[by |-> a, root |-> IsRoot(a), op |-> op, arg |-> arg, fresh |-> TRUE]}
    /\ UNCHANGED <<vars, perm>>

create_role(a, k) ==
    RequireRolesAdmin(a) /\ st[k] = "new" /\ Ask(a, "create", k)
delete_role_endpoint(a, k) ==
    /\ RequireRolesAdmin(a) /\ Active(k) /\ RootUnless(a, RoleGrantsReserved(k))
    /\ k \notin SystemRoles /\ Ask(a, "delete", k)
update_role(a, k) ==
    /\ RequireRolesAdmin(a) /\ Active(k) /\ RootUnless(a, RoleGrantsReserved(k))
    /\ Ask(a, "update", k)
update_permission_group(a, h) ==
    /\ RequireRolesAdmin(a) /\ Active(h) /\ RootUnless(a, GroupGrantsReserved(h))
    /\ Ask(a, "update", h)
update_permission(a, m) ==
    /\ RequireRolesAdmin(a) /\ Active(m) /\ RootUnless(a, m \in Reserved)
    /\ Ask(a, "update", m)
create_permission_group(a, h) ==
    RequireRolesAdmin(a) /\ st[h] = "new" /\ Ask(a, "create", h)
delete_permission_group_endpoint(a, h) ==
    /\ RequireRolesAdmin(a) /\ Active(h) /\ RootUnless(a, GroupGrantsReserved(h))
    /\ Ask(a, "delete", h)
create_permission(a, m) ==
    RequireRolesAdmin(a) /\ RootUnless(a, m \in Reserved) /\ st[m] = "new" /\ Ask(a, "create", m)
delete_permission_endpoint(a, m) ==
    RequireRolesAdmin(a) /\ Active(m) /\ RootUnless(a, m \in Reserved) /\ Ask(a, "delete", m)

assign_permission_group_to_role_endpoint(a, k, h) ==
    /\ RequireRolesAdmin(a) /\ Active(k) /\ Active(h) /\ RootUnless(a, GroupGrantsReserved(h))
    /\ Ask(a, "link", <<"role", k, h>>)
remove_permission_group_from_role_endpoint(a, k, h) ==
    /\ RequireRolesAdmin(a) /\ Active(k) /\ Active(h) /\ RootUnless(a, GroupGrantsReserved(h))
    /\ Ask(a, "unlink", <<"role", k, h>>)
assign_permission_to_group_endpoint(a, h, m) ==
    /\ RequireRolesAdmin(a) /\ Active(h) /\ Active(m) /\ RootUnless(a, m \in Reserved)
    /\ Ask(a, "link", <<"perm", h, m>>)
remove_permission_from_group_endpoint(a, h, m) ==
    /\ RequireRolesAdmin(a) /\ Active(h) /\ Active(m) /\ RootUnless(a, m \in Reserved)
    /\ Ask(a, "unlink", <<"perm", h, m>>)

assign_role_to_user_endpoint(a, u, k) ==
    /\ RequireRolesAdmin(a) /\ u \in uact /\ Active(k) /\ NotOwnRole(a, u)
    /\ RootUnless(a, RoleGrantsReserved(k) \/ HoldsReservedRole(u))
    /\ Ask(a, "role", <<u, k>>)
remove_role_from_user_endpoint(a, u) ==
    /\ RequireRolesAdmin(a) /\ u \in uact /\ NotOwnRole(a, u)
    /\ RootUnless(a, HoldsReservedRole(u))
    /\ Ask(a, "role", <<u, NoRole>>)
(* Every listed user gets every listed role in turn: the last one stays.    *)
bulk_assign_roles_to_project_users(a, p, U, ks) ==
    /\ RequireBulkAdmin(a) /\ U # {} /\ ks # <<>> /\ GetProjectByHash(p) /\ \A i \in DOMAIN ks : Active(ks[i])
    /\ RootUnless(a, \E i \in DOMAIN ks : RoleGrantsReserved(ks[i]))
    /\ RootUnless(a, a \in U \/ \E u \in U : HoldsReservedRole(u))
    /\ Ask(a, "bulk_role", <<U, ks[Len(ks)]>>)

assign_permission_group_to_group(a, g, h) ==
    /\ RequireAssignAdmin(a) /\ ActiveUG(g) /\ Active(h) /\ RootUnless(a, GroupGrantsReserved(h))
    /\ Ask(a, "link", <<"ugroup", g, h>>)
remove_permission_group_from_group(a, g, h) ==
    /\ RequireAssignAdmin(a) /\ ActiveUG(g) /\ Active(h) /\ RootUnless(a, GroupGrantsReserved(h))
    /\ Ask(a, "unlink", <<"ugroup", g, h>>)
(* All are looked up and checked first; an unknown one is reported.         *)
bulk_assign_permission_groups_to_group(a, g, H) ==
    /\ RequireAssignAdmin(a) /\ ActiveUG(g)
    /\ RootUnless(a, \E h \in H : Active(h) /\ GroupGrantsReserved(h))
    /\ Ask(a, "bulk_link", {<<"ugroup", g, h>> : h \in {x \in H : Active(x)}})
assign_permission_group_to_user_direct(a, u, h) ==
    /\ RequireAssignAdmin(a) /\ u \in uact /\ Active(h) /\ RootUnless(a, GroupGrantsReserved(h))
    /\ Ask(a, "link", <<"user", u, h>>)
remove_permission_group_from_user_direct(a, u, h) ==
    /\ RequireAssignAdmin(a) /\ u \in uact /\ Active(h) /\ RootUnless(a, GroupGrantsReserved(h))
    /\ Ask(a, "unlink", <<"user", u, h>>)

(* The catalogs of a project: metadata, open to every admin.                *)
add_role_to_project_catalog(a, p, k) ==
    RequireRolesAdmin(a) /\ GetProjectByHash(p) /\ Active(k) /\ Ask(a, "link", <<"catalog", k, p>>)
remove_role_from_project_catalog(a, p, k) ==
    RequireRolesAdmin(a) /\ GetProjectByHash(p) /\ Active(k) /\ Ask(a, "unlink", <<"catalog", k, p>>)
add_permission_group_to_catalog(a, p, h) ==
    RequireAssignAdmin(a) /\ GetProjectByHash(p) /\ Active(h) /\ Ask(a, "link", <<"catalog", h, p>>)
remove_permission_group_from_catalog(a, p, h) ==
    RequireAssignAdmin(a) /\ GetProjectByHash(p) /\ Active(h) /\ Ask(a, "unlink", <<"catalog", h, p>>)

----------------------------------------------------------------------------
(* The writes.                                                              *)

StoreAnd(r, more) ==
    LET rest == asks \ {r}
    IN  /\ asks' = more \cup IF r.root \/ ~r.fresh THEN {[x EXCEPT !.fresh = FALSE] : x \in rest} ELSE rest
        /\ Wrote /\ UNCHANGED <<graph, sess, reqs, sweeps, stray>>
Store(r) == StoreAnd(r, {})

create_row(r) ==
    /\ r.op = "create" /\ st[r.arg] = "new"
    /\ st' = [st EXCEPT ![r.arg] = "active"] /\ Store(r) /\ UNCHANGED <<urole, edge>>
(* The row alone is marked; its links stay.                                 *)
delete_row(r) ==
    /\ r.op = "delete"
    /\ st' = [st EXCEPT ![r.arg] = "deleted"] /\ Store(r) /\ UNCHANGED <<urole, edge>>
(* Display names and descriptions: no permission depends on them.           *)
update_row(r) == r.op = "update" /\ Store(r) /\ UNCHANGED perm
(* ON DUPLICATE KEY UPDATE: a link that was removed is active again.        *)
link_rows(r) ==
    /\ r.op = "link" /\ edge' = edge \cup {r.arg} /\ Store(r) /\ UNCHANGED <<st, urole>>
unlink_rows(r) ==
    /\ r.op = "unlink" /\ edge' = edge \ {r.arg} /\ Store(r) /\ UNCHANGED <<st, urole>>
bulk_link_rows(r) ==
    /\ r.op = "bulk_link" /\ edge' = edge \cup r.arg /\ Store(r) /\ UNCHANGED <<st, urole>>
(* The rows of each table.                                                  *)
insert_role(r) == create_row(r) /\ r.arg \in Roles
insert_permission_group(r) == create_row(r) /\ r.arg \in PermGroups
insert_permission(r) == create_row(r) /\ r.arg \in Perms
soft_delete_role(r) == delete_row(r) /\ r.arg \in Roles
soft_delete_permission_group(r) == delete_row(r) /\ r.arg \in PermGroups
soft_delete_permission(r) == delete_row(r) /\ r.arg \in Perms
rename_role(r) == update_row(r) /\ r.arg \in Roles
rename_permission_group(r) == update_row(r) /\ r.arg \in PermGroups
rename_permission(r) == update_row(r) /\ r.arg \in Perms
assign_permission_group_to_role(r) == link_rows(r) /\ r.arg[1] = "role"
remove_permission_group_from_role(r) == unlink_rows(r) /\ r.arg[1] = "role"
assign_permission_to_group(r) == link_rows(r) /\ r.arg[1] = "perm"
remove_permission_from_group(r) == unlink_rows(r) /\ r.arg[1] = "perm"
assign_permission_group_to_user_group(r) == link_rows(r) /\ r.arg[1] = "ugroup"
remove_permission_group_from_user_group(r) == unlink_rows(r) /\ r.arg[1] = "ugroup"
assign_permission_group_to_user(r) == link_rows(r) /\ r.arg[1] = "user"
remove_permission_group_from_user(r) == unlink_rows(r) /\ r.arg[1] = "user"
add_role_to_catalog(r) == link_rows(r) /\ r.arg[1] = "catalog" /\ r.arg[2] \in Roles
remove_role_from_catalog(r) == unlink_rows(r) /\ r.arg[1] = "catalog" /\ r.arg[2] \in Roles
add_permission_group_to_project_catalog(r) ==
    link_rows(r) /\ r.arg[1] = "catalog" /\ r.arg[2] \in PermGroups
remove_permission_group_from_project_catalog(r) ==
    unlink_rows(r) /\ r.arg[1] = "catalog" /\ r.arg[2] \in PermGroups
assign_role_to_user(r) ==
    /\ r.op = "role" /\ r.arg[2] # NoRole /\ urole' = [urole EXCEPT ![r.arg[1]] = r.arg[2]]
    /\ Store(r) /\ UNCHANGED <<st, edge>>
remove_role_from_user(r) ==
    /\ r.op = "role" /\ r.arg[2] = NoRole /\ urole' = [urole EXCEPT ![r.arg[1]] = NoRole]
    /\ Store(r) /\ UNCHANGED <<st, edge>>
(* One user after the other; one that is not found is reported.             *)
bulk_assign_roles(r) ==
    /\ r.op = "bulk_role"
    /\ \E u \in r.arg[1] :
         /\ urole' = IF u \in uact THEN [urole EXCEPT ![u] = r.arg[2]] ELSE urole
         /\ StoreAnd(r, IF r.arg[1] = {u} THEN {} ELSE {[r EXCEPT !.arg[1] = @ \ {u}]})
    /\ UNCHANGED <<st, edge>>

(* What happens in the access graph meanwhile.                              *)
GraphSteps ==
    /\ GraphNext
    /\ asks' = IF uact' \subseteq uact THEN asks ELSE {[x EXCEPT !.fresh = FALSE] : x \in asks}
    /\ UNCHANGED perm

----------------------------------------------------------------------------
PermRoutes(a) ==
    \/ \E k \in Roles : create_role(a, k) \/ delete_role_endpoint(a, k) \/ update_role(a, k)
    \/ \E h \in PermGroups : \/ create_permission_group(a, h) \/ delete_permission_group_endpoint(a, h)
                              \/ update_permission_group(a, h)
    \/ \E m \in Perms : create_permission(a, m) \/ delete_permission_endpoint(a, m) \/ update_permission(a, m)
    \/ \E k \in Roles, h \in PermGroups :
           \/ assign_permission_group_to_role_endpoint(a, k, h)
           \/ remove_permission_group_from_role_endpoint(a, k, h)
    \/ \E h \in PermGroups, m \in Perms :
           assign_permission_to_group_endpoint(a, h, m) \/ remove_permission_from_group_endpoint(a, h, m)
    \/ \E u \in Users : \/ remove_role_from_user_endpoint(a, u)
                        \/ \E k \in Roles : assign_role_to_user_endpoint(a, u, k)
    \/ \E p \in Projects, U \in UserLists, ks \in RoleLists :
           bulk_assign_roles_to_project_users(a, p, U, ks)
    \/ \E g \in UGroups, h \in PermGroups :
           assign_permission_group_to_group(a, g, h) \/ remove_permission_group_from_group(a, g, h)
    \/ \E g \in UGroups, H \in PermGroupLists : bulk_assign_permission_groups_to_group(a, g, H)
    \/ \E u \in Users, h \in PermGroups :
           \/ assign_permission_group_to_user_direct(a, u, h)
           \/ remove_permission_group_from_user_direct(a, u, h)
    \/ \E p \in Projects, k \in Roles :
           add_role_to_project_catalog(a, p, k) \/ remove_role_from_project_catalog(a, p, k)
    \/ \E p \in Projects, h \in PermGroups :
           add_permission_group_to_catalog(a, p, h) \/ remove_permission_group_from_catalog(a, p, h)

PermWrites(r) ==
    \/ insert_role(r) \/ insert_permission_group(r) \/ insert_permission(r)
    \/ soft_delete_role(r) \/ soft_delete_permission_group(r) \/ soft_delete_permission(r)
    \/ rename_role(r) \/ rename_permission_group(r) \/ rename_permission(r)
    \/ assign_permission_group_to_role(r) \/ remove_permission_group_from_role(r)
    \/ assign_permission_to_group(r) \/ remove_permission_from_group(r)
    \/ assign_permission_group_to_user_group(r) \/ remove_permission_group_from_user_group(r)
    \/ assign_permission_group_to_user(r) \/ remove_permission_group_from_user(r)
    \/ add_role_to_catalog(r) \/ remove_role_from_catalog(r)
    \/ add_permission_group_to_project_catalog(r)
    \/ remove_permission_group_from_project_catalog(r)
    \/ bulk_link_rows(r) \/ assign_role_to_user(r) \/ remove_role_from_user(r)
    \/ bulk_assign_roles(r)

(* A request in flight has a write of the bound reserved.                   *)
PermSteps ==
    \/ /\ writes + Cardinality(asks) < MaxWrites /\ Cardinality(asks) < MaxAsks
       /\ \E a \in Users : PermRoutes(a)
    \/ writes < MaxWrites /\ \E r \in asks : PermWrites(r)
PermNext == PermSteps \/ GraphSteps

(* Any roles and permissions whose links join things that exist.            *)
PermInit ==
    LET made(T) == {t \in T : st[t] # "new"}
    IN  /\ GraphInit /\ st \in [Things -> States]
        /\ urole \in [Users -> made(Roles) \cup {NoRole}]
        /\ edge \subseteq ({"role"} \X made(Roles) \X made(PermGroups))
                     \cup ({"perm"} \X made(PermGroups) \X made(Perms))
                     \cup ({"ugroup"} \X UGroups \X made(PermGroups))
                     \cup ({"user"} \X Users \X made(PermGroups))
                     \cup ({"catalog"} \X (made(Roles) \cup made(PermGroups)) \X Projects)
        /\ asks = {}
PermSpec == PermInit /\ [][PermNext]_permvars

----------------------------------------------------------------------------
(* Reads.                                                                   *)
list_roles == {k \in Roles : Active(k)}
list_permission_groups == {h \in PermGroups : Active(h)}
list_permissions == {m \in Perms : Active(m)}
get_role(k) == IF Active(k) THEN {k} \cup get_role_permission_groups(k) ELSE {}
get_permission_group(h) == IF Active(h) THEN {h} \cup get_permission_group_permissions(h) ELSE {}
get_permission(m) == IF Active(m) THEN {m} ELSE {}
get_my_role(u) == IF u \in uact THEN get_user_role(u) ELSE {}
get_group_permission_groups(g) ==
    IF GetUserGroupByHash(g) THEN get_user_group_permission_groups(g) ELSE {}
get_user_direct_permission_groups(u) ==
    IF GetUserByHash(u) THEN get_user_permission_groups(u) ELSE {}
get_my_permission_groups(u) == IF u \in uact THEN get_user_permission_groups(u) ELSE {}
get_project_catalog(p) ==
    IF GetProjectByHash(p) THEN get_project_cataloged_permission_groups(p) ELSE {}
get_project_role_catalog(p) == IF GetProjectByHash(p) THEN get_project_cataloged_roles(p) ELSE {}
get_permission_group_catalog(h) ==
    IF Active(h) THEN get_permission_group_cataloged_projects(h) ELSE {}
get_user_groups_using_permission_group(h) ==
    IF Active(h) THEN get_user_groups_with_permission_group(h) ELSE {}
get_users_using_permission_group(h) ==
    IF Active(h) THEN get_users_with_permission_group(h) ELSE {}
get_user_role_endpoint(u) == IF GetUserByHash(u) THEN get_user_role(u) ELSE {}
get_my_permissions(u) == IF u \in uact THEN get_user_all_permissions(u) ELSE {}
check_my_permission(u, m) == u \in uact /\ check_user_has_permission_extended(u, m)
get_my_permission_sources(u) == IF u \in uact THEN get_user_permission_sources(u) ELSE {}

----------------------------------------------------------------------------
(* Properties.                                                              *)

HeldReserved(u) == get_user_all_permissions(u) \cap Reserved

\* A write of a caller that is not root neither gives nor takes a reserved
\* permission, through whatever chain of roles, groups and assignments it
\* completes or breaks, unless root (or a request root overtook) wrote or a user was
\* activated between its guard and its write (global_roles.py,
\* permission_assignments.py, bulk_operations.py).
Changed(u) == (HeldReserved(u) \ HeldReserved(u)') \cup (HeldReserved(u)' \ HeldReserved(u))
WriteMoves == \A r \in asks : PermWrites(r) => r.root \/ ~r.fresh
\* In the access graph they move with memberships: an administrator who is not root
\* changes them only by adding a user it may manage to, or removing a user from, a
\* group in its scope that was given the permission (admin_user_groups.py:422 looks
\* at no permission), and a request of its own only by activating, deactivating or
\* deleting the user.
InGroupOf(a, u, m) ==
    \E g \in UGroups : /\ OrdinaryName(a, ug[g].name) /\ InScope(a, UserFootprint(g))
                       /\ (<<u, g>> \in mem) # (<<u, g>> \in mem')
                       /\ m \in PermsOf(get_user_group_permission_groups(g))
RouteMoves(u) ==
    \A a \in Users : GroupRoutes(a) =>
        \/ IsRoot(a)
        \/ /\ \A m \in Changed(u) : InGroupOf(a, u, m)
           /\ HeldReserved(u)' \subseteq HeldReserved(u) \/ UserInScope(a, u)
RequestMoves(u) ==
    \A r \in reqs : RequestSteps(r) => r.root \/ (u \in uact) # (u \in uact')
ReservedStepByRoot ==
    \A u \in Users : Changed(u) # {} =>
        IF perm' = perm THEN RouteMoves(u) /\ RequestMoves(u) ELSE WriteMoves

\* Authority is root's to give: nobody's administrative scope grows but by a request
\* of root, and a reserved permission changes hands only by root's, or by who is in
\* a group root gave it to.
AuthorityIsRoots == [][ScopeStepByRoot /\ ReservedStepByRoot]_permvars

\* The reads of assignments and catalogs are not held to a scope (README of the
\* permissions suite: "Not scoped."): whoever may assign permissions is told the
\* groups and users a permission group is assigned to, and every active user the
\* projects it is cataloged in and the role of any user.
PermItems(a) ==
    LET tell(ok, items) == IF ok THEN items ELSE {}
    IN  tell(a \in uact,
             (UNION {{<<"cataloged", <<h, p>>>> : p \in get_permission_group_catalog(h)} : h \in PermGroups})
             \cup (UNION {{<<"catalog", <<t, p>>>> : t \in get_project_catalog(p) \cup get_project_role_catalog(p)}
                          : p \in Projects})
             \cup (UNION {{<<"role", <<u, k>>>> : k \in get_user_role_endpoint(u)} : u \in Users}))
        \cup tell(RequireAssignAdmin(a),
             (UNION {{<<"used", <<g, h>>>> : g \in get_user_groups_using_permission_group(h)} : h \in PermGroups})
             \cup (UNION {{<<"used", <<g, h>>>> : h \in get_group_permission_groups(g)} : g \in UGroups})
             \cup (UNION {{<<"held", <<u, h>>>> : u \in get_users_using_permission_group(h)} : h \in PermGroups})
             \cup (UNION {{<<"held", <<u, h>>>> : h \in get_user_direct_permission_groups(u)} : u \in Users}))
\* An item outside the scope of its reader stands for an active row between things
\* that are active, and an assignment is shown only to who is authorised to assign.
PermShown(a, item) ==
    LET from == item[2][1] to == item[2][2]
    IN  CASE item[1] = "cataloged" -> Linked("catalog", from, to) /\ Active(from) /\ proj[to] = "active"
          [] item[1] = "catalog" -> Linked("catalog", from, to) /\ Active(from) /\ proj[to] = "active"
          [] item[1] = "role" -> from \in uact /\ urole[from] = to /\ Active(to)
          [] item[1] = "used" -> RequireAssignAdmin(a) /\ Linked("ugroup", from, to) /\ ActiveUG(from) /\ Active(to)
          [] item[1] = "held" -> RequireAssignAdmin(a) /\ Linked("user", from, to) /\ from \in uact /\ Active(to)

\* What is read of the graph keeps to the caller's scope, and what is read of roles
\* and permissions to the rows and, for assignments, to who may assign.
SeenInScope ==
    /\ GraphSeenInScope
    /\ \A a \in Readers : ~IsRoot(a) => \A i \in PermItems(a) : PermShown(a, i)

\* The three procedures that resolve permissions agree: the listed permissions are
\* those of the listed sources, the single check answers by the list, and what the
\* role alone gives is among them.
SourcesExplainPermissions ==
    \A u \in uact :
        /\ get_my_permissions(u) = PermsOf({s[2] : s \in get_my_permission_sources(u)})
        /\ {m \in Perms : check_my_permission(u, m)} = get_my_permissions(u)
        /\ get_user_permissions(u) \subseteq get_my_permissions(u)

\* What has been deleted is neither listed, nor reached from anything listed, nor
\* held, although its links stay active; and nothing is said to use it.
DeletedGivesNothing ==
    LET shown == list_roles \cup list_permission_groups \cup list_permissions
                 \cup (UNION {get_role(k) : k \in Roles})
                 \cup (UNION {get_permission_group(h) : h \in PermGroups})
                 \cup (UNION {get_permission(m) : m \in Perms})
                 \cup (UNION {get_group_permission_groups(g) : g \in UGroups})
                 \cup (UNION {get_my_permissions(u) \cup get_my_role(u) \cup get_my_permission_groups(u)
                              \cup get_user_direct_permission_groups(u) : u \in Users})
                 \cup (UNION {get_project_role_catalog(p) \cup get_project_catalog(p) : p \in Projects})
        users(h) == get_permission_group_catalog(h) \cup get_user_groups_using_permission_group(h)
                    \cup get_users_using_permission_group(h)
    IN  /\ \A t \in Things : st[t] = "deleted" => t \notin shown
        /\ \A h \in PermGroups : st[h] = "deleted" => users(h) = {}

\* The reads agree with one another and with the rows: every permission has its
\* sources, and nothing deleted is shown or given.
ReadsFollowRows == SourcesExplainPermissions /\ DeletedGivesNothing

==============================================================================
