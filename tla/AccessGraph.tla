----------------------------- MODULE AccessGraph -----------------------------
(***************************************************************************)
(* The access graph of the service and the routes that read and change it: *)
(*                                                                         *)
(*     user --mem--> user group --link--> project group --cont--> project  *)
(*                                                                         *)
(* A group route runs in one transaction that holds the graph lock, so its *)
(* authorisation, its lookups and its writes are one step; what it has     *)
(* registered with after_commit runs later, from the memory of the process *)
(* (Util/db_transaction.py), and is lost when it fails or the process dies.*)
(* A user or project route reads its guard first and writes afterwards     *)
(* without that lock: it is a request in `reqs' between the two, and, when *)
(* the write is to sign a user out, between the commit and Redis.          *)
(***************************************************************************)
EXTENDS Integers, FiniteSets

CONSTANTS Users, Projects, UGroups, PGroups,
          Plain,        \* a group name that is not admin_<project id>
          NoProject,    \* no administrative project (scope_project_id NULL)
          Readers,      \* bound: the callers whose reads are followed
          UserLists, GroupLists, ProjectLists,  \* bound: the lists that calls carry
          MaxWrites,    \* bound: committed writes
          MaxReqs       \* bound: requests between guard and write

ASSUME GraphAssumption ==
    /\ Plain \notin Projects /\ NoProject \notin Projects
    /\ Readers \subseteq Users /\ UserLists \subseteq SUBSET Users
    /\ GroupLists \subseteq SUBSET UGroups /\ ProjectLists \subseteq SUBSET Projects
    /\ MaxWrites \in Nat /\ MaxReqs \in Nat

VARIABLES
    utype,   \* user -> "new" (never created), its user type, or "gone"
    uact,    \* the active users
    proj,    \* project -> "new", "active" or "deleted"
    ug,      \* user group -> state, name (a project stands for admin_<p>), binding
    pg,      \* project group -> state, binding
    mem, link, cont,  \* the active edges
    sess,    \* live sessions <<user, project>>
    reqs,    \* user and project requests past their guard
    sweeps,  \* after_commit session sweeps that have not run
    stray,   \* sessions whose access went away where nothing sweeps them any more
    writes

people == <<utype, uact>>
nodes  == <<proj, ug, pg>>
edges  == <<mem, link, cont>>
graph  == <<people, nodes, edges>>
vars   == <<graph, sess, reqs, sweeps, stray, writes>>

UTypes == {"root", "admin", "consumer"}
States == {"new", "active", "deleted"}
Refused == [ok |-> FALSE, items |-> {}]   \* a response without content

----------------------------------------------------------------------------
(* What the stored procedures and their wrappers read.                      *)

GetUserType(u) == IF u \in uact THEN utype[u] ELSE "none"
IsRoot(u) == GetUserType(u) = "root"
IsAdmin(u) == GetUserType(u) \in {"root", "admin"}

ActiveUG(g) == ug[g].st = "active"
ActivePG(x) == pg[x].st = "active"
GetUserByHash(u) == u \in uact
GetUserGroupByHash(g) == ActiveUG(g)
GetProjectGroupByHash(x) == ActivePG(x)
GetProjectByHash(p) == proj[p] = "active"

GetProjectGroupsForUserGroup(g) == {x \in PGroups : <<g, x>> \in link /\ ActivePG(x)}
GetProjectsInGroup(x) == {p \in Projects : <<x, p>> \in cont /\ proj[p] = "active"}
GetProjectsForUserGroup(g) ==
    IF ActiveUG(g)
    THEN UNION {GetProjectsInGroup(x) : x \in GetProjectGroupsForUserGroup(g)}
    ELSE {}
GetUserGroupsForUser(u) == {g \in UGroups : <<u, g>> \in mem /\ ActiveUG(g)}
GetUsersInGroup(g) == {u \in uact : <<u, g>> \in mem}
GetUserGroupsForProject(p) == {g \in UGroups : p \in GetProjectsForUserGroup(g)}
GetProjectGroupsForProject(p) == {x \in PGroups : <<x, p>> \in cont /\ ActivePG(x)}
GetUsersWithAccessToProjectGroup(x) ==
    {u \in uact : \E g \in GetUserGroupsForUser(u) : <<g, x>> \in link}

(* sp_get_user_accessible_projects: root reaches every active project.      *)
GetUserAccessibleProjects(u) ==
    IF IsRoot(u) THEN {p \in Projects : proj[p] = "active"}
    ELSE UNION {GetProjectsForUserGroup(g) : g \in GetUserGroupsForUser(u)}
Access(u, p) == p \in GetUserAccessibleProjects(u)

(* sp_get_admin_assigned_projects: through the group named admin_<project>. *)
GetAdminAssignedProjects(u) ==
    {p \in Projects : \E g \in GetUserGroupsForUser(u) :
                         ug[g].name = p /\ p \in GetProjectsForUserGroup(g)}
FindAdminGroupForProject(p) ==
    {g \in UGroups : ug[g].name = p /\ p \in GetProjectsForUserGroup(g)}
GetProjectMembersPage(p) == {u \in uact : Access(u, p)}

----------------------------------------------------------------------------
(* Administrative scope (admin_scope.py, admin_group_scope.py).             *)

ResolveAdminScope(a) ==
    IF GetUserType(a) = "admin" THEN GetAdminAssignedProjects(a) ELSE {}
AllowsProject(a, p) == IsRoot(a) \/ p \in ResolveAdminScope(a)
AllowsAllProjects(a, P) == \A p \in P : AllowsProject(a, p)

(* The binding and the active edges; a project that is not available still *)
(* constrains who may administer the group.                                *)
ProjectFootprint(x) ==
    ({pg[x].bind} \ {NoProject}) \cup {p \in Projects : <<x, p>> \in cont}
UserFootprint(g) ==
    ({ug[g].bind} \ {NoProject})
        \cup UNION {ProjectFootprint(x) : x \in {y \in PGroups : <<g, y>> \in link}}
InScope(a, footprint) == IsRoot(a) \/ (footprint # {} /\ AllowsAllProjects(a, footprint))

UserInScope(a, u) ==
    \/ IsRoot(a)
    \/ GetUserType(a) = "admin"
         /\ \/ u = a
            \/ /\ utype[u] # "root"
               /\ GetUserAccessibleProjects(u) \cap ResolveAdminScope(a) # {}

OrdinaryName(a, name) == IsRoot(a) \/ name = Plain
\* Mutation: the members of a visible group are all shown.
VisibleUsersAll(a, U) == U
VisibleUsers(a, U) == {u \in U : UserInScope(a, u)}
VisibleGroups(a, G) == {g \in G : InScope(a, UserFootprint(g))}
VisibleProjectGroupLinks(a, X) == {x \in X : InScope(a, ProjectFootprint(x))}
ScopedUserGroupPage(a) == VisibleGroups(a, {g \in UGroups : ActiveUG(g)})
ScopedProjectGroupPage(a) == VisibleProjectGroupLinks(a, {x \in PGroups : ActivePG(x)})

(* Root may leave the binding out; an admin must name a project in scope.   *)
ProjectBinding(a, b) ==
    IF b = NoProject THEN IsRoot(a) ELSE GetProjectByHash(b) /\ AllowsProject(a, b)
AffectedUserGroupsInScope(a, x) ==
    IsRoot(a) \/ \A g \in {h \in UGroups : <<h, x>> \in link} :
                    OrdinaryName(a, ug[g].name) /\ InScope(a, UserFootprint(g))

(* GroupAuthorization.authorize_group for a write on a user group, and for  *)
(* a project group: both inside the transaction.                            *)
\* Mutation: a reserved group is administered like any other.
AuthorizeUserGroupAnyName(a, g) ==
    IsAdmin(a) /\ GetUserGroupByHash(g) /\ InScope(a, UserFootprint(g))
AuthorizeUserGroup(a, g) ==
    IsAdmin(a) /\ GetUserGroupByHash(g) /\ OrdinaryName(a, ug[g].name)
               /\ InScope(a, UserFootprint(g))
AuthorizeProjectGroup(a, x) ==
    IsAdmin(a) /\ GetProjectGroupByHash(x) /\ InScope(a, ProjectFootprint(x))
\* Mutation: the project itself is not held to the scope.
AuthorizeAnyProject(a, x, p) ==
    AuthorizeProjectGroup(a, x) /\ AffectedUserGroupsInScope(a, x) /\ GetProjectByHash(p)
AuthorizeProjectRelationship(a, x, p) ==
    AuthorizeProjectGroup(a, x) /\ AffectedUserGroupsInScope(a, x)
        /\ GetProjectByHash(p) /\ AllowsProject(a, p)

----------------------------------------------------------------------------
(* Writes: every committed write is counted.                                *)

Wrote == writes' = writes + 1
GroupWrite == Wrote /\ UNCHANGED <<sess, reqs, stray>>
NoSweep == UNCHANGED sweeps

(* after_commit(revoke_project_sessions_losing_access): who and which.      *)
AfterCommit(U, P) == sweeps' = sweeps \cup {[users |-> U, projects |-> P]}

(* Util/auth_lifecycle.revoke_project_sessions_losing_access: each session  *)
(* of a candidate is checked against the graph as it is when the sweep runs.*)
RevokeProjectSessionsLosingAccess ==
    \E w \in sweeps :
        /\ sess' = sess \ {s \in w.users \X w.projects : ~Access(s[1], s[2])}
        /\ sweeps' = sweeps \ {w}
        /\ UNCHANGED <<graph, reqs, stray, writes>>
(* Redis fails or the process dies on the way: the graph has been committed *)
(* and nothing comes back to the sessions the sweep has not reached.        *)
SweepIsLost ==
    \E w \in sweeps :
        LET due == {s \in sess : s \in w.users \X w.projects /\ ~Access(s[1], s[2])}
        IN  \E reached \in SUBSET due :
              /\ sess' = sess \ reached /\ stray' = stray \cup (due \ reached)
              /\ sweeps' = sweeps \ {w}
              /\ UNCHANGED <<graph, reqs, writes>>

(* db_user_groups.py, db_project_groups.py *)
AssignUserToUserGroup(u, g) == mem' = mem \cup {<<u, g>>}
RemoveUserFromUserGroup(u, g) == <<u, g>> \in mem /\ mem' = mem \ {<<u, g>>}
GrantAccess(g, x) == link' = link \cup {<<g, x>>}
RevokeAccess(g, x) == <<g, x>> \in link /\ link' = link \ {<<g, x>>}
AssignProjectToGroup(p, x) == cont' = cont \cup {<<x, p>>}
RemoveProjectFromGroup(p, x) == <<x, p>> \in cont /\ cont' = cont \ {<<x, p>>}
CreateUserGroup(g, name, b) ==
    /\ ug[g].st = "new" /\ (name # Plain => \A h \in UGroups : ug[h].name # name)
    /\ ug' = [ug EXCEPT ![g] = [st |-> "active", name |-> name, bind |-> b]]
UpdateUserGroup(g, name, b) ==
    /\ name # Plain => \A h \in UGroups \ {g} : ug[h].name # name
    /\ ug' = [ug EXCEPT ![g].name = name, ![g].bind = b]
DeleteUserGroup(g) ==
    /\ ug' = [ug EXCEPT ![g].st = "deleted"]
    /\ mem' = {e \in mem : e[2] # g} /\ link' = {e \in link : e[1] # g}
CreateProjectGroup(x, b) ==
    pg[x].st = "new" /\ pg' = [pg EXCEPT ![x] = [st |-> "active", bind |-> b]]
UpdateProjectGroup(x, b) == pg' = [pg EXCEPT ![x].bind = b]
DeleteProjectGroup(x) ==
    /\ pg' = [pg EXCEPT ![x].st = "deleted"]
    /\ link' = {e \in link : e[2] # x} /\ cont' = {e \in cont : e[1] # x}

----------------------------------------------------------------------------
(* /admin/user-groups                                                       *)

create_user_group_endpoint(a, g, name, b) ==
    /\ IsAdmin(a) /\ OrdinaryName(a, name) /\ ProjectBinding(a, b)
    /\ CreateUserGroup(g, name, b) /\ GroupWrite /\ NoSweep
    /\ UNCHANGED <<people, proj, pg, edges>>

(* Renaming needs an ordinary name on both sides; rebinding needs root.     *)
update_user_group_endpoint(a, g, name, b) ==
    /\ AuthorizeUserGroup(a, g) /\ OrdinaryName(a, name)
    /\ b # ug[g].bind => IsRoot(a) /\ b # NoProject /\ ProjectBinding(a, b)
    /\ UpdateUserGroup(g, name, b) /\ GroupWrite /\ NoSweep
    /\ UNCHANGED <<people, proj, pg, edges>>

delete_user_group_endpoint(a, g) ==
    /\ AuthorizeUserGroup(a, g)
    /\ DeleteUserGroup(g)
    /\ AfterCommit(GetUsersInGroup(g), GetProjectsForUserGroup(g))
    /\ GroupWrite /\ UNCHANGED <<people, proj, pg, cont>>

assign_user_to_group_endpoint(a, g, u) ==
    /\ AuthorizeUserGroup(a, g) /\ GetUserByHash(u) /\ UserInScope(a, u)
    /\ AssignUserToUserGroup(u, g) /\ GroupWrite /\ NoSweep
    /\ UNCHANGED <<people, nodes, link, cont>>

(* The projects are read after the membership is gone.                      *)
remove_user_from_group_endpoint(a, g, u) ==
    /\ AuthorizeUserGroup(a, g) /\ GetUserByHash(u) /\ UserInScope(a, u)
    /\ RemoveUserFromUserGroup(u, g)
    /\ AfterCommit({u}, GetProjectsForUserGroup(g))
    /\ GroupWrite /\ UNCHANGED <<people, nodes, link, cont>>

(* Every listed user that exists is authorised before the first is added;   *)
(* an unknown one is reported and skipped.                                  *)
bulk_add_users_to_group(a, g, U) ==
    /\ AuthorizeUserGroup(a, g)
    /\ \A u \in U \cap uact : UserInScope(a, u)
    /\ mem' = mem \cup {<<u, g>> : u \in U \cap uact}
    /\ GroupWrite /\ NoSweep /\ UNCHANGED <<people, nodes, link, cont>>

grant_user_group_project_group_access_endpoint(a, g, x) ==
    /\ AuthorizeUserGroup(a, g) /\ AuthorizeProjectGroup(a, x)
    /\ GrantAccess(g, x) /\ GroupWrite /\ NoSweep
    /\ UNCHANGED <<people, nodes, mem, cont>>

revoke_user_group_project_group_access_endpoint(a, g, x) ==
    /\ AuthorizeUserGroup(a, g) /\ AuthorizeProjectGroup(a, x)
    /\ RevokeAccess(g, x)
    /\ AfterCommit(GetUsersInGroup(g), GetProjectsInGroup(x))
    /\ GroupWrite /\ UNCHANGED <<people, nodes, mem, cont>>

(* /admin/project-groups *)
create_project_group_endpoint(a, x, b) ==
    /\ IsAdmin(a) /\ ProjectBinding(a, b)
    /\ CreateProjectGroup(x, b) /\ GroupWrite /\ NoSweep
    /\ UNCHANGED <<people, proj, ug, edges>>

update_project_group_endpoint(a, x, b) ==
    /\ AuthorizeProjectGroup(a, x)
    /\ b # pg[x].bind => IsRoot(a) /\ b # NoProject /\ ProjectBinding(a, b)
    /\ UpdateProjectGroup(x, b) /\ GroupWrite /\ NoSweep
    /\ UNCHANGED <<people, proj, ug, edges>>

delete_project_group_endpoint(a, x) ==
    /\ AuthorizeProjectGroup(a, x) /\ AffectedUserGroupsInScope(a, x)
    /\ DeleteProjectGroup(x)
    /\ AfterCommit(GetUsersWithAccessToProjectGroup(x), GetProjectsInGroup(x))
    /\ GroupWrite /\ UNCHANGED <<people, proj, ug, mem>>

assign_project_to_group_endpoint(a, x, p) ==
    /\ AuthorizeProjectRelationship(a, x, p)
    /\ AssignProjectToGroup(p, x) /\ GroupWrite /\ NoSweep
    /\ UNCHANGED <<people, nodes, mem, link>>

\* Mutation: the users are read after the project has left the group, so that
\* those who reached it through the group are no longer among them.
remove_project_late_candidates(a, x, p) ==
    /\ AuthorizeProjectRelationship(a, x, p)
    /\ RemoveProjectFromGroup(p, x)
    /\ AfterCommit({u \in GetUsersWithAccessToProjectGroup(x) :
                     \E y \in PGroups : <<y, p>> \in cont'}, {p})
    /\ GroupWrite /\ UNCHANGED <<people, nodes, mem, link>>
remove_project_from_group_endpoint(a, x, p) ==
    /\ AuthorizeProjectRelationship(a, x, p)
    /\ RemoveProjectFromGroup(p, x)
    /\ AfterCommit(GetUsersWithAccessToProjectGroup(x), {p})
    /\ GroupWrite /\ UNCHANGED <<people, nodes, mem, link>>

(* POST /admin/user-groups/bulk-assign: all groups and users are authorised *)
(* first; an unknown group name refuses the call.                           *)
bulk_assign_users_to_groups(a, G, U) ==
    /\ G # {} /\ \A g \in G : AuthorizeUserGroup(a, g)
    /\ \A u \in U \cap uact : UserInScope(a, u)
    /\ mem' = mem \cup ((U \cap uact) \X G)
    /\ GroupWrite /\ NoSweep /\ UNCHANGED <<people, nodes, link, cont>>

----------------------------------------------------------------------------
(* User and project routes: a guard, then one or more writes.               *)

Begin(a, r) ==
    /\ reqs' = reqs \cup {r}
    /\ UNCHANGED <<graph, sess, sweeps, stray, writes>>

Req(op, a, arg) == [op |-> op, by |-> a, root |-> IsRoot(a), arg |-> arg]

(* The user routes compare the projects both users can reach.               *)
RequireTargetInAdminProjects(a, u) ==
    /\ utype[u] # "root"
    /\ GetUserAccessibleProjects(a) \cap GetUserAccessibleProjects(u) # {}
MayManage(a, u) ==
    IsRoot(a) \/ (GetUserType(a) = "admin" /\ RequireTargetInAdminProjects(a, u))

(* Only an active user is found, whatever status is asked for.              *)
update_user_status(a, u, on) ==
    /\ GetUserByHash(a) /\ GetUserByHash(u) /\ MayManage(a, u) /\ (a = u => on)
    /\ Begin(a, Req(IF on THEN "activate" ELSE "deactivate", a, u))
delete_user_endpoint(a, u) ==
    /\ GetUserByHash(a) /\ GetUserByHash(u) /\ MayManage(a, u) /\ a # u
    /\ Begin(a, Req("delete_user", a, u))
hard_delete_user_endpoint(a, u) ==
    /\ IsRoot(a) /\ utype[u] \in UTypes /\ a # u
    /\ Begin(a, Req("hard_delete", a, u))
change_user_type_endpoint(a, u, t) ==
    /\ IsRoot(a) /\ GetUserByHash(u)
    /\ Begin(a, Req("set_type", a, <<u, t, {}>>))
update_user_details_endpoint(a, u, t) ==
    /\ GetUserByHash(u) /\ IsRoot(a)
    /\ Begin(a, Req("set_type", a, <<u, t, {}>>))
update_user_type_endpoint(a, u, t, P) ==
    /\ IsRoot(a) /\ GetUserByHash(u)
    /\ t = "admin" => P # {} /\ \A p \in P : GetProjectByHash(p)
    /\ Begin(a, Req("set_type", a, <<u, t, IF t = "admin" THEN P ELSE {}>>))
create_root_user_endpoint(a, u) ==
    /\ IsRoot(a) /\ utype[u] = "new"
    /\ Begin(a, Req("create_user", a, <<u, "root", {}>>))
create_admin_user_endpoint(a, u, P) ==
    /\ IsRoot(a) /\ utype[u] = "new" /\ P # {} /\ \A p \in P : GetProjectByHash(p)
    /\ Begin(a, Req("create_user", a, <<u, "admin", P>>))
add_admin_to_project_endpoint(a, u, p) ==
    /\ IsRoot(a) /\ GetUserType(u) = "admin" /\ GetProjectByHash(p)
    /\ Begin(a, Req("admin_projects", a, <<u, {}, {p}>>))
remove_admin_from_project_endpoint(a, u, p) ==
    /\ IsRoot(a) /\ GetUserType(u) = "admin"
    /\ Begin(a, Req("admin_projects", a, <<u, {p}, {}>>))

(* The assignments are read once: what to remove and what to add.           *)
update_admin_projects(a, u, P) ==
    /\ IsRoot(a) /\ GetUserType(u) = "admin" /\ \A p \in P : GetProjectByHash(p)
    /\ LET now == ResolveAdminScope(u)
       IN  Begin(a, Req("admin_projects", a, <<u, now \ P, P \ now>>))

(* A denied target is skipped; a type change fails item by item, because    *)
(* update_user does not take the keywords it is called with.                *)
bulk_update_users_endpoint(a, U) ==
    /\ IsAdmin(a) /\ U # {}
    /\ Begin(a, Req("bulk_deactivate", a, U))
bulk_delete_users_endpoint(a, U) ==
    /\ IsAdmin(a) /\ U # {}
    /\ Begin(a, Req("bulk_delete", a, U))

create_new_project(a, p) ==
    /\ IsRoot(a) /\ proj[p] = "new"
    /\ Begin(a, Req("create_project", a, p))
delete_project_endpoint(a, p) ==
    /\ IsAdmin(a) /\ GetProjectByHash(p) /\ AllowsProject(a, p)
    /\ Begin(a, Req("delete_project", a, p))

(* Sign-in to a project, as the graph sees it: access, then the session.    *)
Login(u, p) ==
    /\ GetUserByHash(u) /\ Access(u, p) /\ <<u, p>> \notin sess
    /\ Begin(u, Req("login", u, p))

----------------------------------------------------------------------------
(* The second half of those requests.                                       *)

Done(r) == reqs' = reqs \ {r}
SessionsOf(u) == {s \in sess : s[1] = u}
Unreached(m, l, c, pr) ==   \* sessions a graph with these edges would not carry
    {s \in sess : ~IsRoot(s[1]) /\ ~\E g \in UGroups, x \in PGroups :
        /\ <<s[1], g>> \in m /\ ActiveUG(g) /\ <<g, x>> \in l /\ ActivePG(x)
        /\ <<x, s[2]>> \in c /\ pr[s[2]] = "active"}

(* A user is signed out by a second call, to Redis, after the commit; `rest' *)
(* is what the request has left to do.                                       *)
Turned(r, op, arg) == [op |-> op, by |-> r.by, root |-> r.root, arg |-> arg]
ToSignOut(r, u, rest) == (reqs \ {r}) \cup {Turned(r, "sign_out", <<u, r.op, rest>>)}
GoesOn(r) == IF r.arg[3] = {} THEN reqs \ {r}
             ELSE (reqs \ {r}) \cup {Turned(r, r.arg[2], r.arg[3])}
revoke_user_auth_state(r) ==
    /\ r.op = "sign_out"
    /\ sess' = sess \ SessionsOf(r.arg[1]) /\ reqs' = GoesOn(r)
    /\ UNCHANGED <<graph, sweeps, stray, writes>>
(* Redis fails part of the way: a bulk request reports it and goes on, any   *)
(* other fails; the process dies: nothing goes on.  The call cannot be       *)
(* repeated: the user is not found, or has the type already.                 *)
SignOutFails(r) ==
    /\ r.op = "sign_out"
    /\ \E reached \in SUBSET SessionsOf(r.arg[1]) :
         sess' = sess \ reached /\ stray' = stray \cup (SessionsOf(r.arg[1]) \ reached)
    /\ reqs' \in {GoesOn(r), reqs \ {r}}
    /\ UNCHANGED <<graph, sweeps, writes>>

(* The write goes by the id alone.                                          *)
set_user_active_status(r) ==
    /\ r.op \in {"activate", "deactivate"}
    /\ utype[r.arg] \in UTypes
    /\ IF r.op = "activate"
       THEN uact' = uact \cup {r.arg} /\ Done(r)
       ELSE uact' = uact \ {r.arg} /\ reqs' = ToSignOut(r, r.arg, {})
    /\ Wrote /\ UNCHANGED <<utype, nodes, edges, sess, sweeps, stray>>
delete_user(r) ==
    /\ r.op = "delete_user" /\ reqs' = ToSignOut(r, r.arg, {})
    /\ r.arg \in uact
    /\ uact' = uact \ {r.arg} /\ mem' = {e \in mem : e[1] # r.arg}
    /\ Wrote /\ UNCHANGED <<utype, nodes, link, cont, sess, sweeps, stray>>
hard_delete_user(r) ==
    /\ r.op = "hard_delete" /\ reqs' = ToSignOut(r, r.arg, {})
    /\ utype' = [utype EXCEPT ![r.arg] = "gone"]
    /\ uact' = uact \ {r.arg} /\ mem' = {e \in mem : e[1] # r.arg}
    /\ Wrote /\ UNCHANGED <<nodes, link, cont, sess, sweeps, stray>>

AdminGroups(P) == UNION {FindAdminGroupForProject(p) : p \in P}

(* One transaction; a project without an admin group rolls it back.  The    *)
(* type of an inactive user stays, its memberships are stored all the same. *)
(* A user whose type changed is signed out everywhere, after the commit.    *)
update_user_type(r) ==
    LET u == r.arg[1] t == r.arg[2] P == r.arg[3]
    IN  /\ r.op = "set_type"
        /\ utype[u] \in UTypes /\ \A p \in P : FindAdminGroupForProject(p) # {}
        /\ utype' = IF u \in uact THEN [utype EXCEPT ![u] = t] ELSE utype
        /\ mem' = mem \cup ({u} \X AdminGroups(P))
        /\ IF GetUserType(u) = t THEN Done(r) ELSE reqs' = ToSignOut(r, u, {})
        /\ Wrote /\ UNCHANGED <<uact, nodes, link, cont, sess, sweeps, stray>>

(* create_root_user, create_admin_user: a project without an admin group is *)
(* left out.                                                                *)
create_user(r) ==
    LET u == r.arg[1]
    IN  /\ r.op = "create_user" /\ Done(r)
        /\ utype[u] = "new"
        /\ utype' = [utype EXCEPT ![u] = r.arg[2]] /\ uact' = uact \cup {u}
        /\ mem' = mem \cup ({u} \X AdminGroups(r.arg[3]))
        /\ Wrote /\ UNCHANGED <<nodes, link, cont, sess, sweeps, stray>>

(* One transaction per project: removals first, then additions; a failure   *)
(* is collected and the rest goes on.  No session is swept.                 *)
Left(r, k) == IF r.arg[2] \cup r.arg[3] = {k} THEN reqs \ {r}
              ELSE (reqs \ {r}) \cup
                   {[r EXCEPT !.arg = <<r.arg[1], r.arg[2] \ {k}, r.arg[3] \ {k}>>]}
remove_admin_from_project(r) ==
    /\ r.op = "admin_projects"
    /\ \E p \in r.arg[2] :
         LET kept == {e \in mem : ~(/\ e[1] = r.arg[1] /\ ug[e[2]].name = p
                                     /\ \E x \in GetProjectGroupsForUserGroup(e[2]) : <<x, p>> \in cont)}
         IN  /\ mem' = kept
             /\ stray' = stray \cup Unreached(kept, link, cont, proj)
             /\ reqs' = Left(r, p)
    /\ Wrote /\ UNCHANGED <<people, nodes, link, cont, sess, sweeps>>
add_admin_to_project(r) ==
    /\ r.op = "admin_projects" /\ r.arg[2] = {}
    /\ \E p \in r.arg[3] :
         /\ mem' = IF GetUserType(r.arg[1]) = "admin"
                   THEN mem \cup ({r.arg[1]} \X FindAdminGroupForProject(p))
                   ELSE mem
         /\ reqs' = Left(r, p)
    /\ Wrote /\ UNCHANGED <<people, nodes, link, cont, sess, sweeps, stray>>

(* One user of the list at a time, each checked when its turn comes and     *)
(* signed out before the next.                                              *)
Next1(r, u) == IF r.arg = {u} THEN reqs \ {r}
               ELSE (reqs \ {r}) \cup {[r EXCEPT !.arg = @ \ {u}]}
TargetDenial(r, u) ==
    u = r.by \/ (~r.root /\ (utype[u] = "root" \/ ~UserInScope(r.by, u)))
bulk_update_users(r) ==
    /\ r.op = "bulk_deactivate"
    /\ \E u \in r.arg :
         IF u \in uact /\ ~TargetDenial(r, u)
         THEN uact' = uact \ {u} /\ reqs' = ToSignOut(r, u, r.arg \ {u})
         ELSE uact' = uact /\ reqs' = Next1(r, u)
    /\ Wrote /\ UNCHANGED <<utype, nodes, edges, sess, sweeps, stray>>
bulk_delete_users(r) ==
    /\ r.op = "bulk_delete"
    /\ \E u \in r.arg :
         IF u \in uact /\ utype[u] # "root" /\ ~TargetDenial(r, u)
         THEN /\ uact' = uact \ {u} /\ mem' = {e \in mem : e[1] # u}
              /\ reqs' = ToSignOut(r, u, r.arg \ {u})
         ELSE uact' = uact /\ mem' = mem /\ reqs' = Next1(r, u)
    /\ Wrote /\ UNCHANGED <<utype, nodes, link, cont, sess, sweeps, stray>>

(* The project row is committed first, the default groups afterwards.       *)
create_project(r) ==
    /\ r.op = "create_project" /\ proj[r.arg] = "new"
    /\ proj' = [proj EXCEPT ![r.arg] = "active"]
    /\ reqs' = (reqs \ {r}) \cup {[r EXCEPT !.op = "default_groups"]}
    /\ Wrote /\ UNCHANGED <<people, ug, pg, edges, sess, sweeps, stray>>
create_default_groups(r) ==
    /\ r.op = "default_groups" /\ Done(r)
    /\ \E g \in UGroups, x \in PGroups :
         /\ pg[x].st = "new" /\ ug[g].st = "new" /\ \A h \in UGroups : ug[h].name # r.arg
         /\ pg' = [pg EXCEPT ![x] = [st |-> "active", bind |-> r.arg]]
         /\ ug' = [ug EXCEPT ![g] = [st |-> "active", name |-> r.arg, bind |-> r.arg]]
         /\ link' = link \cup {<<g, x>>} /\ cont' = cont \cup {<<x, r.arg>>}
    /\ Wrote /\ UNCHANGED <<people, proj, mem, sess, sweeps, stray>>

(* The project and its containments go; no session is swept.                *)
delete_project(r) ==
    /\ r.op = "delete_project" /\ Done(r)
    /\ proj[r.arg] = "active"
    /\ proj' = [proj EXCEPT ![r.arg] = "deleted"]
    /\ cont' = {e \in cont : e[2] # r.arg}
    /\ stray' = stray \cup {s \in sess : s[2] = r.arg}
    /\ Wrote /\ UNCHANGED <<people, ug, pg, mem, link, sess, sweeps>>

(* The session of a sign-in that was checked before the graph changed.      *)
StoreSession(r) ==
    /\ r.op = "login" /\ Done(r)
    /\ sess' = sess \cup {<<r.by, r.arg>>}
    /\ stray' = IF GetUserByHash(r.by) /\ Access(r.by, r.arg)
                THEN stray \ {<<r.by, r.arg>>} ELSE stray \cup {<<r.by, r.arg>>}
    /\ UNCHANGED <<graph, sweeps, writes>>

(* The write finds nothing to change, or the database refuses it.           *)
RequestFails(r) ==
    /\ r.op # "sign_out" /\ Done(r)
    /\ UNCHANGED <<graph, sess, sweeps, stray, writes>>

----------------------------------------------------------------------------
(* Reads, and the writes of names and descriptions that the graph does not  *)
(* see: the response carries what the filters let through.                  *)

Reply(ok, items) == IF ok THEN [ok |-> TRUE, items |-> items] ELSE Refused

U_(S) == {<<"user", u>> : u \in S}
P_(S) == {<<"project", p>> : p \in S}
G_(S) == {<<"ugroup", g>> : g \in S}
X_(S) == {<<"pgroup", x>> : x \in S}
(* What a response says another user has: <<kind, <<user, thing>>>>.         *)
MemberOf(u) == {<<"member", <<u, g>>>> : g \in GetUserGroupsForUser(u)}
Reaches(u, S) == {<<"reach", <<u, p>>>> : p \in S}

list_user_groups(a) == Reply(IsAdmin(a), G_(ScopedUserGroupPage(a)))
SeesUserGroup(a, g) == IsAdmin(a) /\ GetUserGroupByHash(g) /\ InScope(a, UserFootprint(g))
get_user_group_details(a, g) ==
    Reply(SeesUserGroup(a, g),
          U_(VisibleUsers(a, GetUsersInGroup(g))) \cup P_(GetProjectsForUserGroup(g)) \cup G_({g})
          \cup X_(VisibleProjectGroupLinks(a, GetProjectGroupsForUserGroup(g))))
list_project_groups_for_user_group(a, g) ==
    Reply(SeesUserGroup(a, g),
          X_(VisibleProjectGroupLinks(a, GetProjectGroupsForUserGroup(g))) \cup G_({g}))
get_group_members_with_pagination(a, g) ==
    Reply(SeesUserGroup(a, g), U_(VisibleUsers(a, GetUsersInGroup(g))) \cup G_({g}))
get_user_groups(a, u) ==
    Reply(IsAdmin(a) /\ GetUserByHash(u) /\ UserInScope(a, u),
          G_(VisibleGroups(a, GetUserGroupsForUser(u))) \cup U_({u}))
list_project_groups(a) == Reply(IsAdmin(a), X_(ScopedProjectGroupPage(a)))
get_project_group_details(a, x) ==
    Reply(AuthorizeProjectGroup(a, x), P_(GetProjectsInGroup(x)) \cup X_({x}))

list_projects(a) ==
    Reply(a \in uact, P_(IF IsRoot(a) THEN {p \in Projects : proj[p] = "active"}
                         ELSE IF IsAdmin(a) THEN ResolveAdminScope(a)
                         ELSE GetUserAccessibleProjects(a)))
MayRead(a, p) == GetProjectByHash(p) /\ (AllowsProject(a, p) \/ Access(a, p))
(* Also the groups that contain the project and the caller's own.           *)
get_project_details(a, p) ==
    Reply(MayRead(a, p), P_({p}) \cup {<<"container", x>> : x \in GetProjectGroupsForProject(p)}
                         \cup {<<"own", g>> : g \in GetUserGroupsForUser(a)})
get_project_activity(a, p) == Reply(MayRead(a, p), P_({p}))
get_detailed_project_stats(a, p) == Reply(MayRead(a, p), P_({p}))
MayAdminister(a, p) == IsAdmin(a) /\ GetProjectByHash(p) /\ AllowsProject(a, p)
update_project_details(a, p) == Reply(MayAdminister(a, p), P_({p}))
list_project_members(a, p) ==
    Reply(MayAdminister(a, p), U_(GetProjectMembersPage(p)) \cup P_({p}))
list_project_user_groups(a, p) ==
    Reply(MayAdminister(a, p), G_(VisibleGroups(a, GetUserGroupsForProject(p))) \cup P_({p}))

get_user_profile(a) == Reply(a \in uact, U_({a}) \cup P_(GetUserAccessibleProjects(a)))
update_user_profile(a) == Reply(a \in uact, U_({a}))
get_user_access_summary(a) == Reply(a \in uact, U_({a}) \cup P_(GetUserAccessibleProjects(a)))
(* Every row, the deactivated users too if asked for, with the user's groups *)
(* and the project groups and projects they lead to.                         *)
ListedAccess(u) ==
    {e \in PGroups \X Projects : /\ e \in cont /\ GetProjectByHash(e[2])
                                 /\ \E g \in UGroups : <<u, g>> \in mem /\ <<g, e[1]>> \in link}
list_all_users(a) ==
    LET listed == {u \in Users : utype[u] \in UTypes /\ (u = a \/ MayManage(a, u))}
    IN  Reply(IsAdmin(a),
              U_(listed) \cup (UNION {MemberOf(u) : u \in listed})
                  \cup (UNION {Reaches(u, {e[2] : e \in ListedAccess(u)}) : u \in listed})
                  \cup (UNION {{<<"through", <<u, e[1]>>>> : e \in ListedAccess(u)} : u \in listed}))
(* All groups and projects of the user, whatever the scope of the caller.    *)
get_user_details(a, u) ==
    Reply(a \in uact /\ GetUserByHash(u) /\ (a = u \/ MayManage(a, u)),
          U_({u}) \cup MemberOf(u) \cup Reaches(u, GetUserAccessibleProjects(u)))
search_users_endpoint(a) == Reply(IsAdmin(a), U_(VisibleUsers(a, uact)))
get_user_type_information(a, u) ==
    Reply(IsAdmin(a) /\ GetUserByHash(u) /\ UserInScope(a, u), U_({u}))
list_users_by_type(a, t) ==
    Reply(IsAdmin(a) /\ (t = "root" => IsRoot(a)),
          U_({u \in uact : utype[u] = t /\
              (IsRoot(a) \/ GetUserAccessibleProjects(u) \cap ResolveAdminScope(a) # {})}))
get_user_type_statistics(a) ==
    Reply(IsAdmin(a), IF IsRoot(a) THEN {} ELSE P_(GetAdminAssignedProjects(a)))
get_admin_projects(a, u) ==
    Reply(IsRoot(a) /\ GetUserType(u) = "admin", P_(ResolveAdminScope(u)))

----------------------------------------------------------------------------
Names == Projects \cup {Plain}
Binds == Projects \cup {NoProject}

GroupRoutes(a) ==
    \/ \E g \in UGroups, n \in Names, b \in Binds :
           create_user_group_endpoint(a, g, n, b) \/ update_user_group_endpoint(a, g, n, b)
    \/ \E g \in UGroups : delete_user_group_endpoint(a, g)
    \/ \E g \in UGroups, u \in Users :
           assign_user_to_group_endpoint(a, g, u) \/ remove_user_from_group_endpoint(a, g, u)
    \/ \E g \in UGroups, x \in PGroups :
           \/ grant_user_group_project_group_access_endpoint(a, g, x)
           \/ revoke_user_group_project_group_access_endpoint(a, g, x)
    \/ \E x \in PGroups, b \in Binds :
           create_project_group_endpoint(a, x, b) \/ update_project_group_endpoint(a, x, b)
    \/ \E x \in PGroups : delete_project_group_endpoint(a, x)
    \/ \E x \in PGroups, p \in Projects :
           assign_project_to_group_endpoint(a, x, p) \/ remove_project_from_group_endpoint(a, x, p)
    \/ \E g \in UGroups, U \in UserLists : bulk_add_users_to_group(a, g, U)
    \/ \E G \in GroupLists, U \in UserLists : bulk_assign_users_to_groups(a, G, U)

RequestRoutes(a) ==
    \/ \E u \in Users : \/ update_user_status(a, u, TRUE) \/ update_user_status(a, u, FALSE)
                        \/ delete_user_endpoint(a, u)
                        \/ hard_delete_user_endpoint(a, u) \/ create_root_user_endpoint(a, u)
    \/ \E u \in Users, t \in UTypes : change_user_type_endpoint(a, u, t)
                                      \/ update_user_details_endpoint(a, u, t)
    \/ \E u \in Users, t \in UTypes, P \in ProjectLists : update_user_type_endpoint(a, u, t, P)
    \/ \E u \in Users, P \in ProjectLists : create_admin_user_endpoint(a, u, P)
                                               \/ update_admin_projects(a, u, P)
    \/ \E u \in Users, p \in Projects : add_admin_to_project_endpoint(a, u, p)
                                        \/ remove_admin_from_project_endpoint(a, u, p)
    \/ \E U \in UserLists : bulk_update_users_endpoint(a, U) \/ bulk_delete_users_endpoint(a, U)
    \/ \E p \in Projects : create_new_project(a, p) \/ delete_project_endpoint(a, p) \/ Login(a, p)

(* Every response caller a can get in this state.                           *)
Responses(a) ==
    {list_user_groups(a), list_project_groups(a), list_projects(a), get_user_profile(a),
     update_user_profile(a), get_user_type_statistics(a),
     get_user_access_summary(a), list_all_users(a), search_users_endpoint(a)}
    \cup (UNION {{get_user_group_details(a, g), list_project_groups_for_user_group(a, g),
                  get_group_members_with_pagination(a, g)} : g \in UGroups})
    \cup {get_project_group_details(a, x) : x \in PGroups}
    \cup (UNION {{get_project_details(a, p), get_project_activity(a, p),
                  get_detailed_project_stats(a, p), list_project_members(a, p),
                  update_project_details(a, p), list_project_user_groups(a, p)} : p \in Projects})
    \cup (UNION {{get_user_groups(a, u), get_user_details(a, u), get_user_type_information(a, u),
                  get_admin_projects(a, u)} : u \in Users})
    \cup {list_users_by_type(a, t) : t \in UTypes}

RequestSteps(r) ==
    \/ set_user_active_status(r) \/ delete_user(r) \/ hard_delete_user(r) \/ update_user_type(r)
    \/ create_user(r) \/ remove_admin_from_project(r) \/ add_admin_to_project(r)
    \/ bulk_update_users(r) \/ bulk_delete_users(r) \/ create_project(r)
    \/ create_default_groups(r) \/ delete_project(r) \/ StoreSession(r) \/ RequestFails(r)

SignOutSteps(r) == revoke_user_auth_state(r) \/ SignOutFails(r)

(* A request in flight has a write of the bound reserved.                   *)
Room == writes + Cardinality(reqs) < MaxWrites

GraphNext ==
    \/ Room /\ \E a \in Users : GroupRoutes(a)
    \/ Room /\ Cardinality(reqs) < MaxReqs /\ \E a \in Users : RequestRoutes(a)
    \/ writes < MaxWrites /\ \E r \in reqs : RequestSteps(r)
    \/ \E r \in reqs : SignOutSteps(r)
    \/ RevokeProjectSessionsLosingAccess \/ SweepIsLost

(* Any graph whose edges join active groups, with the sessions of users     *)
(* who are active and have access.                                          *)
GraphInit ==
    /\ utype \in [Users -> UTypes \cup {"new", "gone"}] /\ uact \subseteq {u \in Users : utype[u] \in UTypes}
    /\ proj \in [Projects -> States]
    /\ ug \in [UGroups -> [st : States, name : Names, bind : Binds]]
    /\ pg \in [PGroups -> [st : States, bind : Binds]]
    /\ mem \subseteq Users \X {g \in UGroups : ActiveUG(g)}
    /\ link \subseteq {g \in UGroups : ActiveUG(g)} \X {x \in PGroups : ActivePG(x)}
    /\ cont \subseteq {x \in PGroups : ActivePG(x)} \X Projects
    /\ sess \subseteq {s \in uact \X Projects : Access(s[1], s[2])}
    /\ reqs = {} /\ sweeps = {} /\ stray = {} /\ writes = 0
GraphSpec == GraphInit /\ [][GraphNext]_vars

----------------------------------------------------------------------------
(* Properties.                                                              *)

\* Whatever chain of groups a new edge completes, a group route gives nobody
\* access to a project outside the administrative scope its caller has, and the
\* second half of a request that was not authorised as root gives no access at
\* all (admin_group_scope.py), unless it activates a user who has become root, and
\* been deactivated, since the guard: the write goes by the id alone.
Reactivates(r, t) == r.op = "activate" /\ r.arg \notin uact /\ utype[r.arg] = t
Gained == UNION {GetUserAccessibleProjects(u)' \ GetUserAccessibleProjects(u) : u \in Users}
GrantsStepInScope ==
    LET gained == IF graph' = graph THEN {} ELSE Gained IN
    gained # {} => /\ \A a \in Users : GroupRoutes(a) => AllowsAllProjects(a, gained)
                   /\ \A r \in reqs : RequestSteps(r) => r.root \/ Reactivates(r, "root")
GrantsInScope == [][GrantsStepInScope]_vars

\* Nobody's administrative scope grows except by a request of root: an admin can
\* neither make another admin of its project nor widen its own scope, through
\* memberships, links, containments or the name of a group.  Only an admin who was
\* deactivated since the guard of an activation gets back the scope it had.
ScopeStepByRoot ==
    (graph' # graph /\ \E u \in Users : ~(ResolveAdminScope(u)' \subseteq ResolveAdminScope(u))) =>
        /\ \A a \in Users : GroupRoutes(a) => IsRoot(a)
        /\ \A r \in reqs : RequestSteps(r) => r.root \/ Reactivates(r, "admin")

\* A session belongs to an active user and has its access, or is still to be swept
\* or signed out; or it was lost at one of the places named above (project deletion,
\* removal of an admin, a sign-in checked before the change, a sweep or a sign-out
\* that failed after its commit): as long as what follows a commit is carried out, no
\* group route forgets a session and no user leaves or changes its type with one.
SessionsFollowAccess ==
    \A s \in sess \ stray :
        \/ /\ s[1] \in uact
           /\ \/ Access(s[1], s[2])
              \/ \E w \in sweeps : s[1] \in w.users /\ s[2] \in w.projects
        \/ \E r \in reqs : r.op = "sign_out" /\ r.arg[1] = s[1]

\* A response to an admin or a consumer names only users it shares a project
\* with, projects it reaches or administers with the groups that contain them, its
\* own groups, and groups all of whose projects are in its scope.  Of a user it
\* shares a project with it is also told every group and project that user has, in
\* its scope or not, and of no other (users.py:707-739, 1290-1366).
Reach(u) == GetUserAccessibleProjects(u) \cup ResolveAdminScope(u)
Shares(a, u) == a = u \/ Reach(a) \cap Reach(u) # {}
Shown(a, item) ==
    LET one == item[2]
    IN  CASE item[1] = "user"    -> Shares(a, one)
          [] item[1] = "project" -> one \in Reach(a)
          [] item[1] = "ugroup"  -> UserFootprint(one) # {} /\ UserFootprint(one) \subseteq ResolveAdminScope(a)
          [] item[1] = "pgroup"  -> ProjectFootprint(one) # {} /\ ProjectFootprint(one) \subseteq ResolveAdminScope(a)
          [] item[1] = "container" -> ProjectFootprint(one) \cap Reach(a) # {}
          [] item[1] = "own"     -> <<a, one>> \in mem
          [] item[1] = "member"  -> Shares(a, one[1]) /\ one \in mem
          [] item[1] = "reach"   -> Shares(a, one[1]) /\ one[2] \in Reach(one[1])
          [] item[1] = "through" -> /\ Shares(a, one[1])
                                    /\ \E g \in UGroups : <<one[1], g>> \in mem /\ <<g, one[2]>> \in link
GraphSeenInScope ==
    \A a \in Readers : ~IsRoot(a) =>
        LET items == UNION {resp.items : resp \in Responses(a)} IN \A i \in items : Shown(a, i)

==============================================================================
