---------------------------- MODULE Access_proofs ----------------------------
(***************************************************************************)
(* Theorems about the access graph and about roles and permissions.  The   *)
(* graph keeps its rows and edges well formed, a group route adds chains   *)
(* of groups only within the scope of its caller and leaves a sweep for    *)
(* every session whose chain it breaks, and a request between its guard    *)
(* and its write, if it is not root's, was admitted for what still holds.  *)
(***************************************************************************)
EXTENDS Permissions, TLAPS

-----------------------------------------------------------------------------
(* The access graph. *)

\* The rows have their columns, an edge joins active groups, and a request that was
\* not authorised as root is one of those an admin may send, or the sign-out that
\* follows it.
RowsOK ==
    /\ utype = [u \in Users |-> utype[u]] /\ proj = [p \in Projects |-> proj[p]]
    /\ ug = [g \in UGroups |-> ug[g]] /\ pg = [x \in PGroups |-> pg[x]]
    /\ \A g \in UGroups : ug[g] = [st |-> ug[g].st, name |-> ug[g].name, bind |-> ug[g].bind]
    /\ \A x \in PGroups : pg[x] = [st |-> pg[x].st, bind |-> pg[x].bind]
EdgesOK ==
    /\ \A u \in Users, g \in UGroups : <<u, g>> \in mem => ActiveUG(g)
    /\ \A g \in UGroups, x \in PGroups : <<g, x>> \in link => ActiveUG(g) /\ ActivePG(x)
    /\ \A x \in PGroups, p \in Projects : <<x, p>> \in cont => ActivePG(x)
AdminOps == {"activate", "deactivate", "delete_user", "bulk_deactivate", "bulk_delete",
             "delete_project", "login", "sign_out"}
RequestOK(r) ==
    /\ r = [op |-> r.op, by |-> r.by, root |-> r.root, arg |-> r.arg]
    /\ r.root \/ r.op \in AdminOps
    /\ r.op = "login" => r.by \in Users /\ r.arg \in Projects
    /\ r.op = "sign_out" => r.arg[2] \notin {"login", "sign_out"} /\ (r.root \/ r.arg[2] \in AdminOps)
GraphInv == RowsOK /\ EdgesOK /\ \A r \in reqs : RequestOK(r)

\* A chain of groups from a user to a project, and what access and the scope of
\* an admin are in terms of it.
Via(u, g, x, p) ==
    <<u, g>> \in mem /\ ActiveUG(g) /\ <<g, x>> \in link /\ ActivePG(x) /\ <<x, p>> \in cont
Reached(u, p) ==
    proj[p] = "active" /\ (IsRoot(u) \/ \E g \in UGroups, x \in PGroups : Via(u, g, x, p))
Administered(u, p) ==
    /\ proj[p] = "active" /\ GetUserType(u) = "admin"
    /\ \E g \in UGroups, x \in PGroups : Via(u, g, x, p) /\ ug[g].name = p

LEMMA GroupReach ==
  ASSUME NEW g \in UGroups, NEW p \in Projects
  PROVE  p \in GetProjectsForUserGroup(g) <=>
           (/\ proj[p] = "active" /\ ActiveUG(g)
            /\ \E x \in PGroups : <<g, x>> \in link /\ ActivePG(x) /\ <<x, p>> \in cont)
<1>1. ASSUME NEW x \in PGroups
      PROVE  p \in GetProjectsInGroup(x) <=> (<<x, p>> \in cont /\ proj[p] = "active")
  BY DEF GetProjectsInGroup
<1>2. ASSUME NEW x \in PGroups
      PROVE  x \in GetProjectGroupsForUserGroup(g) <=> (<<g, x>> \in link /\ ActivePG(x))
  BY DEF GetProjectGroupsForUserGroup, ActivePG
<1>3. p \in UNION {GetProjectsInGroup(x) : x \in GetProjectGroupsForUserGroup(g)} <=>
        \E x \in PGroups : x \in GetProjectGroupsForUserGroup(g) /\ p \in GetProjectsInGroup(x)
  BY DEF GetProjectGroupsForUserGroup
<1> QED BY <1>1, <1>2, <1>3 DEF GetProjectsForUserGroup, ActiveUG, ActivePG

LEMMA AccessIsReach == ASSUME NEW u, NEW p \in Projects PROVE Access(u, p) <=> Reached(u, p)
<1>1. ASSUME NEW g \in UGroups
      PROVE  g \in GetUserGroupsForUser(u) <=> (<<u, g>> \in mem /\ ActiveUG(g))
  BY DEF GetUserGroupsForUser, ActiveUG
<1>2. p \in UNION {GetProjectsForUserGroup(g) : g \in GetUserGroupsForUser(u)} <=>
        \E g \in UGroups : g \in GetUserGroupsForUser(u) /\ p \in GetProjectsForUserGroup(g)
  BY DEF GetUserGroupsForUser
<1>3. p \in UNION {GetProjectsForUserGroup(g) : g \in GetUserGroupsForUser(u)} <=>
        proj[p] = "active" /\ \E g \in UGroups, x \in PGroups : Via(u, g, x, p)
  BY <1>1, <1>2, GroupReach DEF Via, ActiveUG, ActivePG
<1> QED BY <1>3 DEF Access, Reached, GetUserAccessibleProjects

LEMMA ScopeIsAdministered ==
  ASSUME NEW u, NEW p \in Projects PROVE p \in ResolveAdminScope(u) <=> Administered(u, p)
<1>1. ASSUME NEW g \in UGroups
      PROVE  g \in GetUserGroupsForUser(u) <=> (<<u, g>> \in mem /\ ActiveUG(g))
  BY DEF GetUserGroupsForUser, ActiveUG
<1>2. p \in GetAdminAssignedProjects(u) <=>
        \E g \in UGroups : g \in GetUserGroupsForUser(u) /\ ug[g].name = p /\ p \in GetProjectsForUserGroup(g)
  BY DEF GetAdminAssignedProjects, GetUserGroupsForUser
<1> QED BY <1>1, <1>2, GroupReach DEF ResolveAdminScope, Administered, Via, ActiveUG, ActivePG, GetUserType

LEMMA GroupReachNext ==
  ASSUME NEW g \in UGroups, NEW p \in Projects
  PROVE  p \in GetProjectsForUserGroup(g)' <=>
           (/\ proj[p] = "active" /\ ActiveUG(g)
            /\ \E x \in PGroups : <<g, x>> \in link /\ ActivePG(x) /\ <<x, p>> \in cont)'
<1>1. ASSUME NEW x \in PGroups
      PROVE  p \in GetProjectsInGroup(x)' <=> (<<x, p>> \in cont /\ proj[p] = "active")'
  BY DEF GetProjectsInGroup
<1>2. ASSUME NEW x \in PGroups
      PROVE  x \in GetProjectGroupsForUserGroup(g)' <=> (<<g, x>> \in link /\ ActivePG(x))'
  BY DEF GetProjectGroupsForUserGroup, ActivePG
<1>3. p \in UNION {GetProjectsInGroup(x) : x \in GetProjectGroupsForUserGroup(g)}' <=>
        \E x \in PGroups : x \in GetProjectGroupsForUserGroup(g)' /\ p \in GetProjectsInGroup(x)'
  BY DEF GetProjectGroupsForUserGroup
<1> QED BY <1>1, <1>2, <1>3 DEF GetProjectsForUserGroup, ActiveUG, ActivePG

LEMMA AccessIsReachNext == ASSUME NEW u, NEW p \in Projects PROVE Access(u, p)' <=> Reached(u, p)'
<1>1. ASSUME NEW g \in UGroups
      PROVE  g \in GetUserGroupsForUser(u)' <=> (<<u, g>> \in mem /\ ActiveUG(g))'
  BY DEF GetUserGroupsForUser, ActiveUG
<1>2. p \in UNION {GetProjectsForUserGroup(g) : g \in GetUserGroupsForUser(u)}' <=>
        \E g \in UGroups : g \in GetUserGroupsForUser(u)' /\ p \in GetProjectsForUserGroup(g)'
  BY DEF GetUserGroupsForUser
<1>3. p \in UNION {GetProjectsForUserGroup(g) : g \in GetUserGroupsForUser(u)}' <=>
        proj'[p] = "active" /\ \E g \in UGroups, x \in PGroups : Via(u, g, x, p)'
  BY <1>1, <1>2, GroupReachNext DEF Via, ActiveUG, ActivePG
<1> QED BY <1>3 DEF Access, Reached, GetUserAccessibleProjects

LEMMA ScopeIsAdministeredNext ==
  ASSUME NEW u, NEW p \in Projects PROVE p \in ResolveAdminScope(u)' <=> Administered(u, p)'
<1>1. ASSUME NEW g \in UGroups
      PROVE  g \in GetUserGroupsForUser(u)' <=> (<<u, g>> \in mem /\ ActiveUG(g))'
  BY DEF GetUserGroupsForUser, ActiveUG
<1>2. p \in GetAdminAssignedProjects(u)' <=>
        \E g \in UGroups : g \in GetUserGroupsForUser(u)' /\ ug'[g].name = p /\ p \in GetProjectsForUserGroup(g)'
  BY DEF GetAdminAssignedProjects, GetUserGroupsForUser
<1> QED BY <1>1, <1>2, GroupReachNext DEF ResolveAdminScope, Administered, Via, ActiveUG, ActivePG, GetUserType

\* A group in scope has each project it leads to in scope.
LEMMA FootprintCovers ==
  ASSUME NEW a, NEW p \in Projects, NEW x \in PGroups, <<x, p>> \in cont
  PROVE  /\ InScope(a, ProjectFootprint(x)) => AllowsProject(a, p)
         /\ \A g \in UGroups : <<g, x>> \in link /\ InScope(a, UserFootprint(g)) => AllowsProject(a, p)
<1>1. p \in ProjectFootprint(x)
  BY DEF ProjectFootprint
<1>2. ASSUME NEW g \in UGroups, <<g, x>> \in link PROVE p \in UserFootprint(g)
  BY <1>1, <1>2 DEF UserFootprint
<1> QED BY <1>1, <1>2 DEF InScope, AllowsAllProjects, AllowsProject

LEMMA GroupProjects ==
  ASSUME NEW g \in UGroups, NEW x \in PGroups, NEW p \in Projects, proj[p] = "active",
         ActivePG(x), <<x, p>> \in cont
  PROVE  /\ p \in GetProjectsInGroup(x)
         /\ ActiveUG(g) /\ <<g, x>> \in link => p \in GetProjectsForUserGroup(g)
<1>1. p \in GetProjectsInGroup(x)
  BY DEF GetProjectsInGroup
<1> QED BY <1>1 DEF GetProjectsForUserGroup, GetProjectGroupsForUserGroup

-----------------------------------------------------------------------------
(* The group routes. *)

\* A chain a route completes leads to a project its caller may administer, and
\* one through the administrators' group of the project is completed by root.
GrowsInScope(a) ==
    \A u \in Users, g \in UGroups, x \in PGroups, p \in Projects : Via(u, g, x, p)' =>
        /\ Via(u, g, x, p) \/ AllowsProject(a, p)
        /\ ug'[g].name = p => (Via(u, g, x, p) /\ ug[g].name = p) \/ IsRoot(a)
\* An active user who loses a project is among those a sweep will look at.
LossIsSwept ==
    /\ sweeps \subseteq sweeps'
    /\ \A u \in uact \cap Users, p \in Projects : Reached(u, p) =>
           Reached(u, p)' \/ \E w \in sweeps' : u \in w.users /\ p \in w.projects
\* What a group route leaves alone.
GroupStep == UNCHANGED <<utype, uact, proj, sess, reqs, stray>>
RouteOK(a) == GraphInv' /\ GrowsInScope(a) /\ LossIsSwept /\ GroupStep

\* An edge is added or removed and the rows stay.
LEMMA EdgesMove ==
  ASSUME GraphInv, UNCHANGED <<utype, uact, proj, ug, pg, reqs>>, EdgesOK' PROVE GraphInv'
BY DEF GraphInv, RowsOK

\* Nothing is added.
LEMMA Shrinks ==
  ASSUME NEW a, UNCHANGED ug,
         \A u \in Users, g \in UGroups, x \in PGroups, p \in Projects : Via(u, g, x, p)' => Via(u, g, x, p)
  PROVE  GrowsInScope(a)
BY DEF GrowsInScope

\* Nothing is taken away.
LEMMA Grows ==
  ASSUME UNCHANGED <<utype, uact, proj, sweeps>>,
         \A u \in Users, g \in UGroups, x \in PGroups, p \in Projects : Via(u, g, x, p) => Via(u, g, x, p)'
  PROVE  LossIsSwept
BY DEF LossIsSwept, Reached, IsRoot, GetUserType

\* A sweep of users and projects covers the chains that were broken.
LEMMA Sweeps ==
  ASSUME UNCHANGED <<utype, uact, proj>>, NEW U, NEW P, AfterCommit(U, P),
         \A u \in uact \cap Users, g \in UGroups, x \in PGroups, p \in Projects :
             proj[p] = "active" /\ Via(u, g, x, p) => Via(u, g, x, p)' \/ (u \in U /\ p \in P)
  PROVE  LossIsSwept
<1>1. sweeps \subseteq sweeps' /\ \E w \in sweeps' : w.users = U /\ w.projects = P
  <2>1. [users |-> U, projects |-> P] \in sweeps' /\ sweeps \subseteq sweeps'
    BY DEF AfterCommit
  <2> QED BY <2>1
<1> SUFFICES ASSUME NEW u \in uact \cap Users, NEW p \in Projects, Reached(u, p)
             PROVE  Reached(u, p)' \/ (u \in U /\ p \in P)
  BY <1>1 DEF LossIsSwept
<1>2. CASE IsRoot(u)
  BY <1>2 DEF Reached, IsRoot, GetUserType
<1>3. CASE ~IsRoot(u)
  <2>1. PICK g \in UGroups, x \in PGroups : Via(u, g, x, p)
    BY <1>3 DEF Reached
  <2> QED BY <2>1 DEF Reached
<1> QED BY <1>2, <1>3

LEMMA CreateUserGroupRoute ==
  ASSUME GraphInv, NEW a \in Users, NEW g \in UGroups, NEW n \in Names, NEW b \in Binds,
         create_user_group_endpoint(a, g, n, b)
  PROVE  RouteOK(a)
<1> USE DEF create_user_group_endpoint, CreateUserGroup, GroupWrite, Wrote, NoSweep, people, edges
<1>1. /\ ug' = [h \in UGroups |-> ug'[h]] /\ ug'[g] = [st |-> "active", name |-> n, bind |-> b]
      /\ \A h \in UGroups \ {g} : ug'[h] = ug[h]
      /\ ug[g].st = "new"
  BY DEF GraphInv, RowsOK
<1>2. ug'[g] = [st |-> ug'[g].st, name |-> ug'[g].name, bind |-> ug'[g].bind] /\ ug'[g].st = "active"
  BY <1>1
<1>3. RowsOK'
  <2>1. \A h \in UGroups : ug'[h] = [st |-> ug'[h].st, name |-> ug'[h].name, bind |-> ug'[h].bind]
    BY <1>1, <1>2 DEF GraphInv, RowsOK
  <2> QED BY <1>1, <2>1 DEF GraphInv, RowsOK
<1>4. EdgesOK'
  BY <1>1, <1>2 DEF GraphInv, EdgesOK, ActiveUG, ActivePG
<1>5. ASSUME NEW u \in Users, NEW h \in UGroups, NEW x \in PGroups, NEW p \in Projects
      PROVE  (Via(u, h, x, p) <=> Via(u, h, x, p)') /\ (Via(u, h, x, p) => ug'[h] = ug[h])
  BY <1>1 DEF GraphInv, EdgesOK, Via, ActiveUG, ActivePG
<1>6. GrowsInScope(a)
  BY <1>5 DEF GrowsInScope
<1>7. LossIsSwept
  BY <1>5, Grows
<1> QED BY <1>3, <1>4, <1>6, <1>7 DEF RouteOK, GraphInv, GroupStep

LEMMA UpdateUserGroupRoute ==
  ASSUME GraphInv, NEW a \in Users, NEW g \in UGroups, NEW n \in Names, NEW b \in Binds,
         update_user_group_endpoint(a, g, n, b)
  PROVE  RouteOK(a)
<1> USE DEF update_user_group_endpoint, UpdateUserGroup, GroupWrite, Wrote, NoSweep, people, edges
<1>1. /\ ug' = [h \in UGroups |-> ug'[h]] /\ ug'[g] = [ug[g] EXCEPT !.name = n, !.bind = b]
      /\ \A h \in UGroups \ {g} : ug'[h] = ug[h]
      /\ ug[g] = [st |-> ug[g].st, name |-> ug[g].name, bind |-> ug[g].bind]
  BY DEF GraphInv, RowsOK
<1>2. ug'[g] = [st |-> ug[g].st, name |-> n, bind |-> b]
  BY <1>1
<1>3. RowsOK'
  <2>1. ug'[g] = [st |-> ug'[g].st, name |-> ug'[g].name, bind |-> ug'[g].bind]
    BY <1>2
  <2>2. \A h \in UGroups : ug'[h] = [st |-> ug'[h].st, name |-> ug'[h].name, bind |-> ug'[h].bind]
    BY <1>1, <2>1 DEF GraphInv, RowsOK
  <2> QED BY <1>1, <2>2 DEF GraphInv, RowsOK
<1>4. \A h \in UGroups : ug'[h].st = ug[h].st
  BY <1>1, <1>2
<1>5. EdgesOK'
  BY <1>4 DEF GraphInv, EdgesOK, ActiveUG, ActivePG
<1>6. ASSUME NEW u \in Users, NEW h \in UGroups, NEW x \in PGroups, NEW p \in Projects
      PROVE  Via(u, h, x, p) <=> Via(u, h, x, p)'
  BY <1>4 DEF Via, ActiveUG, ActivePG
<1>7. ASSUME NEW h \in UGroups, NEW p \in Projects, ug'[h].name = p PROVE ug[h].name = p \/ IsRoot(a)
  BY <1>1, <1>2, <1>7, GraphAssumption DEF OrdinaryName, AuthorizeUserGroup, Names
<1>8. GrowsInScope(a)
  BY <1>6, <1>7 DEF GrowsInScope
<1>9. LossIsSwept
  BY <1>6, Grows
<1> QED BY <1>3, <1>5, <1>8, <1>9 DEF RouteOK, GraphInv, GroupStep

LEMMA DeleteUserGroupRoute ==
  ASSUME GraphInv, NEW a \in Users, NEW g \in UGroups, delete_user_group_endpoint(a, g)
  PROVE  RouteOK(a)
<1> USE DEF delete_user_group_endpoint, DeleteUserGroup, GroupWrite, Wrote, people
<1>1. /\ ug' = [h \in UGroups |-> ug'[h]] /\ ug'[g] = [ug[g] EXCEPT !.st = "deleted"]
      /\ \A h \in UGroups \ {g} : ug'[h] = ug[h]
      /\ ug[g] = [st |-> ug[g].st, name |-> ug[g].name, bind |-> ug[g].bind]
  BY DEF GraphInv, RowsOK
<1>2. ug'[g] = [st |-> "deleted", name |-> ug[g].name, bind |-> ug[g].bind]
  BY <1>1
<1>3. RowsOK'
  <2>1. ug'[g] = [st |-> ug'[g].st, name |-> ug'[g].name, bind |-> ug'[g].bind]
    BY <1>2
  <2>2. \A h \in UGroups : ug'[h] = [st |-> ug'[h].st, name |-> ug'[h].name, bind |-> ug'[h].bind]
    BY <1>1, <2>1 DEF GraphInv, RowsOK
  <2> QED BY <1>1, <2>2 DEF GraphInv, RowsOK
<1>4. /\ \A u \in Users, h \in UGroups : <<u, h>> \in mem' <=> <<u, h>> \in mem /\ h # g
      /\ \A h \in UGroups, x \in PGroups : <<h, x>> \in link' <=> <<h, x>> \in link /\ h # g
  OBVIOUS
<1>5. EdgesOK'
  BY <1>1, <1>2, <1>4 DEF GraphInv, EdgesOK, ActiveUG, ActivePG
<1>6. ASSUME NEW u \in Users, NEW h \in UGroups, NEW x \in PGroups, NEW p \in Projects
      PROVE  /\ Via(u, h, x, p)' <=> Via(u, h, x, p) /\ h # g
             /\ h # g => ug'[h] = ug[h]
  BY <1>1, <1>4 DEF Via, ActiveUG, ActivePG
<1>7. GrowsInScope(a)
  BY <1>6 DEF GrowsInScope
<1>8. ASSUME NEW u \in uact \cap Users, NEW x \in PGroups, NEW p \in Projects, proj[p] = "active",
             Via(u, g, x, p)
      PROVE  u \in GetUsersInGroup(g) /\ p \in GetProjectsForUserGroup(g)
  BY <1>8, GroupProjects DEF Via, GetUsersInGroup
<1>9. LossIsSwept
  BY <1>6, <1>8, Sweeps
<1> QED BY <1>3, <1>5, <1>7, <1>9 DEF RouteOK, GraphInv, GroupStep

\* Members join a group whose projects the caller may administer.
LEMMA MembersJoin ==
  ASSUME GraphInv, NEW a \in Users, NEW new, mem' = mem \cup new, UNCHANGED <<people, nodes, link, cont>>,
         \A u \in Users, g \in UGroups : <<u, g>> \in new => AuthorizeUserGroup(a, g),
         GroupWrite, NoSweep
  PROVE  RouteOK(a)
<1> USE DEF people, nodes, GroupWrite, Wrote, NoSweep
<1>1. EdgesOK'
  BY DEF GraphInv, EdgesOK, ActiveUG, ActivePG, AuthorizeUserGroup, GetUserGroupByHash
<1>2. GraphInv'
  BY <1>1, EdgesMove
<1>3. ASSUME NEW u \in Users, NEW g \in UGroups, NEW x \in PGroups, NEW p \in Projects, Via(u, g, x, p)'
      PROVE  Via(u, g, x, p) \/ (AllowsProject(a, p) /\ OrdinaryName(a, ug[g].name))
  BY <1>3, FootprintCovers DEF Via, ActiveUG, ActivePG, AuthorizeUserGroup
<1>4. GrowsInScope(a)
  BY <1>3, GraphAssumption DEF GrowsInScope, OrdinaryName
<1>5. LossIsSwept
  BY Grows DEF Via, ActiveUG, ActivePG
<1> QED BY <1>2, <1>4, <1>5 DEF RouteOK, GroupStep

LEMMA AssignUserRoute ==
  ASSUME GraphInv, NEW a \in Users, NEW g \in UGroups, NEW u \in Users, assign_user_to_group_endpoint(a, g, u)
  PROVE  RouteOK(a)
<1> DEFINE new == {<<u, g>>}
<1>1. /\ mem' = mem \cup new /\ AuthorizeUserGroup(a, g)
      /\ GroupWrite /\ NoSweep /\ UNCHANGED <<people, nodes, link, cont>>
  BY DEF assign_user_to_group_endpoint, AssignUserToUserGroup
<1>2. \A v \in Users, h \in UGroups : <<v, h>> \in new => h = g
  OBVIOUS
<1> HIDE DEF new
<1> QED BY <1>1, <1>2, MembersJoin

LEMMA BulkAddRoute ==
  ASSUME GraphInv, NEW a \in Users, NEW g \in UGroups, NEW U, bulk_add_users_to_group(a, g, U)
  PROVE  RouteOK(a)
<1> DEFINE new == {<<u, g>> : u \in U \cap uact}
<1>1. /\ mem' = mem \cup new /\ AuthorizeUserGroup(a, g)
      /\ GroupWrite /\ NoSweep /\ UNCHANGED <<people, nodes, link, cont>>
  BY DEF bulk_add_users_to_group
<1>2. \A u \in Users, h \in UGroups : <<u, h>> \in new => h = g
  OBVIOUS
<1> HIDE DEF new
<1> QED BY <1>1, <1>2, MembersJoin

LEMMA BulkAssignRoute ==
  ASSUME GraphInv, NEW a \in Users, NEW G, NEW U, bulk_assign_users_to_groups(a, G, U)
  PROVE  RouteOK(a)
<1> DEFINE new == (U \cap uact) \X G
<1>1. /\ mem' = mem \cup new /\ \A g \in G : AuthorizeUserGroup(a, g)
      /\ GroupWrite /\ NoSweep /\ UNCHANGED <<people, nodes, link, cont>>
  BY DEF bulk_assign_users_to_groups
<1>2. \A u \in Users, h \in UGroups : <<u, h>> \in new => AuthorizeUserGroup(a, h)
  BY <1>1
<1> HIDE DEF new
<1> QED BY <1>1, <1>2, MembersJoin

LEMMA RemoveUserRoute ==
  ASSUME GraphInv, NEW a \in Users, NEW g \in UGroups, NEW u \in Users, remove_user_from_group_endpoint(a, g, u)
  PROVE  RouteOK(a)
<1>1. /\ mem' = mem \ {<<u, g>>} /\ UNCHANGED <<utype, uact, proj, ug, pg, link, cont, sess, reqs, stray>>
      /\ AfterCommit({u}, GetProjectsForUserGroup(g))
  BY DEF remove_user_from_group_endpoint, RemoveUserFromUserGroup, GroupWrite, people, nodes
<1>2. GraphInv'
  BY <1>1, EdgesMove DEF GraphInv, EdgesOK, ActiveUG, ActivePG
<1>3. ASSUME NEW v \in Users, NEW h \in UGroups, NEW x \in PGroups, NEW p \in Projects
      PROVE  Via(v, h, x, p)' <=> Via(v, h, x, p) /\ ~(v = u /\ h = g)
  BY <1>1 DEF Via, ActiveUG, ActivePG
<1>4. ASSUME NEW x \in PGroups, NEW p \in Projects, proj[p] = "active", Via(u, g, x, p)
      PROVE  p \in GetProjectsForUserGroup(g)
  BY <1>4, GroupProjects DEF Via
<1>5. GrowsInScope(a)
  BY <1>1, <1>3, Shrinks
<1>6. LossIsSwept
  BY <1>1, <1>3, <1>4, Sweeps
<1> QED BY <1>1, <1>2, <1>5, <1>6 DEF RouteOK, GroupStep

LEMMA GrantRoute ==
  ASSUME GraphInv, NEW a \in Users, NEW g \in UGroups, NEW x \in PGroups,
         grant_user_group_project_group_access_endpoint(a, g, x)
  PROVE  RouteOK(a)
<1>1. /\ link' = link \cup {<<g, x>>}
      /\ UNCHANGED <<utype, uact, proj, ug, pg, mem, cont, sess, reqs, stray, sweeps>>
      /\ AuthorizeUserGroup(a, g) /\ AuthorizeProjectGroup(a, x)
  BY DEF grant_user_group_project_group_access_endpoint, GrantAccess, GroupWrite, NoSweep, people, nodes
<1>2. GraphInv'
  BY <1>1, EdgesMove DEF GraphInv, EdgesOK, AuthorizeUserGroup, AuthorizeProjectGroup,
                         GetUserGroupByHash, GetProjectGroupByHash, ActiveUG, ActivePG
<1>3. ASSUME NEW u \in Users, NEW h \in UGroups, NEW y \in PGroups, NEW p \in Projects, Via(u, h, y, p)'
      PROVE  Via(u, h, y, p) \/ (AllowsProject(a, p) /\ OrdinaryName(a, ug[h].name))
  BY <1>1, <1>3, FootprintCovers DEF Via, ActiveUG, ActivePG, AuthorizeUserGroup, AuthorizeProjectGroup
<1>4. GrowsInScope(a)
  BY <1>1, <1>3, GraphAssumption DEF GrowsInScope, OrdinaryName
<1>5. LossIsSwept
  BY <1>1, Grows DEF Via, ActiveUG, ActivePG
<1> QED BY <1>1, <1>2, <1>4, <1>5 DEF RouteOK, GroupStep

LEMMA RevokeRoute ==
  ASSUME GraphInv, NEW a \in Users, NEW g \in UGroups, NEW x \in PGroups,
         revoke_user_group_project_group_access_endpoint(a, g, x)
  PROVE  RouteOK(a)
<1>1. /\ link' = link \ {<<g, x>>}
      /\ UNCHANGED <<utype, uact, proj, ug, pg, mem, cont, sess, reqs, stray>>
      /\ AfterCommit(GetUsersInGroup(g), GetProjectsInGroup(x))
  BY DEF revoke_user_group_project_group_access_endpoint, RevokeAccess, GroupWrite, people, nodes
<1>2. GraphInv'
  BY <1>1, EdgesMove DEF GraphInv, EdgesOK, ActiveUG, ActivePG
<1>3. ASSUME NEW u \in Users, NEW h \in UGroups, NEW y \in PGroups, NEW p \in Projects
      PROVE  Via(u, h, y, p)' <=> Via(u, h, y, p) /\ ~(h = g /\ y = x)
  BY <1>1 DEF Via, ActiveUG, ActivePG
<1>4. ASSUME NEW u \in uact \cap Users, NEW p \in Projects, proj[p] = "active", Via(u, g, x, p)
      PROVE  u \in GetUsersInGroup(g) /\ p \in GetProjectsInGroup(x)
  BY <1>4 DEF Via, GetUsersInGroup, GetProjectsInGroup
<1>5. GrowsInScope(a)
  BY <1>1, <1>3, Shrinks
<1>6. LossIsSwept
  BY <1>1, <1>3, <1>4, Sweeps
<1> QED BY <1>1, <1>2, <1>5, <1>6 DEF RouteOK, GroupStep

LEMMA CreateProjectGroupRoute ==
  ASSUME GraphInv, NEW a \in Users, NEW x \in PGroups, NEW b \in Binds, create_project_group_endpoint(a, x, b)
  PROVE  RouteOK(a)
<1> USE DEF create_project_group_endpoint, CreateProjectGroup, GroupWrite, Wrote, NoSweep, people, edges
<1>1. /\ pg' = [y \in PGroups |-> pg'[y]] /\ pg'[x] = [st |-> "active", bind |-> b]
      /\ \A y \in PGroups \ {x} : pg'[y] = pg[y]
      /\ pg[x].st = "new"
  BY DEF GraphInv, RowsOK
<1>2. pg'[x] = [st |-> pg'[x].st, bind |-> pg'[x].bind] /\ pg'[x].st = "active"
  BY <1>1
<1>3. RowsOK'
  <2>1. \A y \in PGroups : pg'[y] = [st |-> pg'[y].st, bind |-> pg'[y].bind]
    BY <1>1, <1>2 DEF GraphInv, RowsOK
  <2> QED BY <1>1, <2>1 DEF GraphInv, RowsOK
<1>4. EdgesOK'
  BY <1>1, <1>2 DEF GraphInv, EdgesOK, ActiveUG, ActivePG
<1>5. ASSUME NEW u \in Users, NEW h \in UGroups, NEW y \in PGroups, NEW p \in Projects
      PROVE  Via(u, h, y, p) <=> Via(u, h, y, p)'
  BY <1>1 DEF GraphInv, EdgesOK, Via, ActiveUG, ActivePG
<1>6. GrowsInScope(a)
  BY <1>5 DEF GrowsInScope
<1>7. LossIsSwept
  BY <1>5, Grows
<1> QED BY <1>3, <1>4, <1>6, <1>7 DEF RouteOK, GraphInv, GroupStep

LEMMA UpdateProjectGroupRoute ==
  ASSUME GraphInv, NEW a \in Users, NEW x \in PGroups, NEW b \in Binds, update_project_group_endpoint(a, x, b)
  PROVE  RouteOK(a)
<1> USE DEF update_project_group_endpoint, UpdateProjectGroup, GroupWrite, Wrote, NoSweep, people, edges
<1>1. /\ pg' = [y \in PGroups |-> pg'[y]] /\ pg'[x] = [pg[x] EXCEPT !.bind = b]
      /\ \A y \in PGroups \ {x} : pg'[y] = pg[y]
      /\ pg[x] = [st |-> pg[x].st, bind |-> pg[x].bind]
  BY DEF GraphInv, RowsOK
<1>2. pg'[x] = [st |-> pg[x].st, bind |-> b]
  BY <1>1
<1>3. pg'[x] = [st |-> pg'[x].st, bind |-> pg'[x].bind]
  BY <1>2
<1>4. RowsOK'
  <2>1. \A y \in PGroups : pg'[y] = [st |-> pg'[y].st, bind |-> pg'[y].bind]
    BY <1>1, <1>3 DEF GraphInv, RowsOK
  <2> QED BY <1>1, <2>1 DEF GraphInv, RowsOK
<1>5. \A y \in PGroups : pg'[y].st = pg[y].st
  BY <1>1, <1>2
<1>6. EdgesOK'
  BY <1>5 DEF GraphInv, EdgesOK, ActiveUG, ActivePG
<1>7. ASSUME NEW u \in Users, NEW h \in UGroups, NEW y \in PGroups, NEW p \in Projects
      PROVE  Via(u, h, y, p) <=> Via(u, h, y, p)'
  BY <1>5 DEF Via, ActiveUG, ActivePG
<1>8. GrowsInScope(a)
  BY <1>7 DEF GrowsInScope
<1>9. LossIsSwept
  BY <1>7, Grows
<1> QED BY <1>4, <1>6, <1>8, <1>9 DEF RouteOK, GraphInv, GroupStep

LEMMA DeleteProjectGroupRoute ==
  ASSUME GraphInv, NEW a \in Users, NEW x \in PGroups, delete_project_group_endpoint(a, x)
  PROVE  RouteOK(a)
<1> USE DEF delete_project_group_endpoint, DeleteProjectGroup, GroupWrite, Wrote, people
<1>1. /\ pg' = [y \in PGroups |-> pg'[y]] /\ pg'[x] = [pg[x] EXCEPT !.st = "deleted"]
      /\ \A y \in PGroups \ {x} : pg'[y] = pg[y]
      /\ pg[x] = [st |-> pg[x].st, bind |-> pg[x].bind]
  BY DEF GraphInv, RowsOK
<1>2. pg'[x] = [st |-> "deleted", bind |-> pg[x].bind]
  BY <1>1
<1>3. RowsOK'
  <2>1. pg'[x] = [st |-> pg'[x].st, bind |-> pg'[x].bind]
    BY <1>2
  <2>2. \A y \in PGroups : pg'[y] = [st |-> pg'[y].st, bind |-> pg'[y].bind]
    BY <1>1, <2>1 DEF GraphInv, RowsOK
  <2> QED BY <1>1, <2>2 DEF GraphInv, RowsOK
<1>4. /\ \A h \in UGroups, y \in PGroups : <<h, y>> \in link' <=> <<h, y>> \in link /\ y # x
      /\ \A y \in PGroups, p \in Projects : <<y, p>> \in cont' <=> <<y, p>> \in cont /\ y # x
  OBVIOUS
<1>5. EdgesOK'
  BY <1>1, <1>2, <1>4 DEF GraphInv, EdgesOK, ActiveUG, ActivePG
<1>6. ASSUME NEW u \in Users, NEW h \in UGroups, NEW y \in PGroups, NEW p \in Projects
      PROVE  Via(u, h, y, p)' <=> Via(u, h, y, p) /\ y # x
  BY <1>1, <1>4 DEF Via, ActiveUG, ActivePG
<1>7. GrowsInScope(a)
  BY <1>6, Shrinks
<1>8. ASSUME NEW u \in uact \cap Users, NEW h \in UGroups, NEW p \in Projects, proj[p] = "active",
             Via(u, h, x, p)
      PROVE  u \in GetUsersWithAccessToProjectGroup(x) /\ p \in GetProjectsInGroup(x)
  BY <1>8 DEF Via, GetUsersWithAccessToProjectGroup, GetUserGroupsForUser, GetProjectsInGroup
<1>9. LossIsSwept
  BY <1>6, <1>8, Sweeps
<1> QED BY <1>3, <1>5, <1>7, <1>9 DEF RouteOK, GraphInv, GroupStep

LEMMA AssignProjectRoute ==
  ASSUME GraphInv, NEW a \in Users, NEW x \in PGroups, NEW p \in Projects, assign_project_to_group_endpoint(a, x, p)
  PROVE  RouteOK(a)
<1>1. /\ cont' = cont \cup {<<x, p>>}
      /\ UNCHANGED <<utype, uact, proj, ug, pg, mem, link, sess, reqs, stray, sweeps>>
      /\ AuthorizeProjectRelationship(a, x, p)
  BY DEF assign_project_to_group_endpoint, AssignProjectToGroup, GroupWrite, NoSweep, people, nodes
<1>2. GraphInv'
  BY <1>1, EdgesMove DEF GraphInv, EdgesOK, ActiveUG, ActivePG, AuthorizeProjectRelationship, AuthorizeProjectGroup,
                         GetProjectGroupByHash
<1>3. ASSUME NEW u \in Users, NEW h \in UGroups, NEW y \in PGroups, NEW q \in Projects, Via(u, h, y, q)'
      PROVE  Via(u, h, y, q) \/ (AllowsProject(a, q) /\ (IsRoot(a) \/ OrdinaryName(a, ug[h].name)))
  BY <1>1, <1>3 DEF Via, ActiveUG, ActivePG, AuthorizeProjectRelationship, AffectedUserGroupsInScope
<1>4. GrowsInScope(a)
  BY <1>1, <1>3, GraphAssumption DEF GrowsInScope, OrdinaryName
<1>5. LossIsSwept
  BY <1>1, Grows DEF Via, ActiveUG, ActivePG
<1> QED BY <1>1, <1>2, <1>4, <1>5 DEF RouteOK, GroupStep

LEMMA RemoveProjectRoute ==
  ASSUME GraphInv, NEW a \in Users, NEW x \in PGroups, NEW p \in Projects, remove_project_from_group_endpoint(a, x, p)
  PROVE  RouteOK(a)
<1>1. /\ cont' = cont \ {<<x, p>>}
      /\ UNCHANGED <<utype, uact, proj, ug, pg, mem, link, sess, reqs, stray>>
      /\ AfterCommit(GetUsersWithAccessToProjectGroup(x), {p})
  BY DEF remove_project_from_group_endpoint, RemoveProjectFromGroup, GroupWrite, people, nodes
<1>2. GraphInv'
  BY <1>1, EdgesMove DEF GraphInv, EdgesOK, ActiveUG, ActivePG
<1>3. ASSUME NEW u \in Users, NEW h \in UGroups, NEW y \in PGroups, NEW q \in Projects
      PROVE  Via(u, h, y, q)' <=> Via(u, h, y, q) /\ ~(y = x /\ q = p)
  BY <1>1 DEF Via, ActiveUG, ActivePG
<1>4. ASSUME NEW u \in uact \cap Users, NEW h \in UGroups, Via(u, h, x, p)
      PROVE  u \in GetUsersWithAccessToProjectGroup(x)
  BY <1>4 DEF Via, GetUsersWithAccessToProjectGroup, GetUserGroupsForUser
<1>5. GrowsInScope(a)
  BY <1>1, <1>3, Shrinks
<1>6. LossIsSwept
  BY <1>1, <1>3, <1>4, Sweeps
<1> QED BY <1>1, <1>2, <1>5, <1>6 DEF RouteOK, GroupStep

LEMMA GroupRoute == ASSUME GraphInv, NEW a \in Users, GroupRoutes(a) PROVE RouteOK(a)
BY CreateUserGroupRoute, UpdateUserGroupRoute, DeleteUserGroupRoute, AssignUserRoute, RemoveUserRoute,
   GrantRoute, RevokeRoute, CreateProjectGroupRoute, UpdateProjectGroupRoute, DeleteProjectGroupRoute,
   AssignProjectRoute, RemoveProjectRoute, BulkAddRoute, BulkAssignRoute DEF GroupRoutes

-----------------------------------------------------------------------------
(* The requests between guard and write, and the sessions. *)

\* A commit that signs the user out is on its way to Redis.
SigningOut(u) == \E r \in reqs : r.op = "sign_out" /\ r.arg[1] = u
SessionsOK ==
    /\ sess \subseteq Users \X Projects
    /\ \A u \in Users, p \in Projects : <<u, p>> \in sess =>
           \/ <<u, p>> \in stray
           \/ /\ u \in uact
              /\ Reached(u, p) \/ \E w \in sweeps : u \in w.users /\ p \in w.projects
           \/ SigningOut(u)
\* What the second half of a request makes of the graph: it gives nothing unless
\* it was authorised as root, or activates somebody deactivated since its guard.
ReachKept(r) ==
    \A u \in Users, p \in Projects : Reached(u, p)' => Reached(u, p) \/ r.root \/ Reactivates(r, "root")
ScopeKept(r) ==
    \A u \in Users, p \in Projects :
        Administered(u, p)' => Administered(u, p) \/ r.root \/ Reactivates(r, "admin")
RequestStepOK(r) == GraphInv' /\ ReachKept(r) /\ ScopeKept(r) /\ SessionsOK'

\* The requests a guard lets through.
Admitted(a, op, arg) ==
    /\ op # "sign_out" /\ (IsRoot(a) \/ op \in AdminOps) /\ (op = "login" => arg \in Projects)
    /\ Begin(a, Req(op, a, arg))

LEMMA RequestGuard ==
  ASSUME GraphInv, NEW a \in Users, RequestRoutes(a)
  PROVE  GraphInv' /\ reqs \subseteq reqs' /\ UNCHANGED <<graph, sess, sweeps, stray, writes>>
<1>1. \E op, arg : Admitted(a, op, arg)
  <2>1. ASSUME NEW u \in Users, NEW on \in BOOLEAN, update_user_status(a, u, on)
        PROVE  Admitted(a, IF on THEN "activate" ELSE "deactivate", u)
    BY <2>1 DEF update_user_status, Admitted, AdminOps
  <2>2. ASSUME NEW u \in Users, delete_user_endpoint(a, u) PROVE Admitted(a, "delete_user", u)
    BY <2>2 DEF delete_user_endpoint, Admitted, AdminOps
  <2>3. ASSUME NEW u \in Users, hard_delete_user_endpoint(a, u) PROVE Admitted(a, "hard_delete", u)
    BY <2>3 DEF hard_delete_user_endpoint, Admitted
  <2>4. ASSUME NEW u \in Users, create_root_user_endpoint(a, u) PROVE Admitted(a, "create_user", <<u, "root", {}>>)
    BY <2>4 DEF create_root_user_endpoint, Admitted
  <2>5. ASSUME NEW u \in Users, NEW t \in UTypes, change_user_type_endpoint(a, u, t) \/ update_user_details_endpoint(a, u, t)
        PROVE  Admitted(a, "set_type", <<u, t, {}>>)
    BY <2>5 DEF change_user_type_endpoint, update_user_details_endpoint, Admitted
  <2>6. ASSUME NEW u \in Users, NEW t \in UTypes, NEW P \in ProjectLists, update_user_type_endpoint(a, u, t, P)
        PROVE  Admitted(a, "set_type", <<u, t, IF t = "admin" THEN P ELSE {}>>)
    BY <2>6 DEF update_user_type_endpoint, Admitted
  <2>7. ASSUME NEW u \in Users, NEW P \in ProjectLists, create_admin_user_endpoint(a, u, P)
        PROVE  Admitted(a, "create_user", <<u, "admin", P>>)
    BY <2>7 DEF create_admin_user_endpoint, Admitted
  <2>8. ASSUME NEW u \in Users, NEW P \in ProjectLists, update_admin_projects(a, u, P)
        PROVE  Admitted(a, "admin_projects", <<u, ResolveAdminScope(u) \ P, P \ ResolveAdminScope(u)>>)
    BY <2>8 DEF update_admin_projects, Admitted
  <2>9. ASSUME NEW u \in Users, NEW p \in Projects,
               add_admin_to_project_endpoint(a, u, p) \/ remove_admin_from_project_endpoint(a, u, p)
        PROVE  Admitted(a, "admin_projects", <<u, {}, {p}>>) \/ Admitted(a, "admin_projects", <<u, {p}, {}>>)
    BY <2>9 DEF add_admin_to_project_endpoint, remove_admin_from_project_endpoint, Admitted
  <2>10. ASSUME NEW U \in UserLists, bulk_update_users_endpoint(a, U) \/ bulk_delete_users_endpoint(a, U)
         PROVE  Admitted(a, "bulk_deactivate", U) \/ Admitted(a, "bulk_delete", U)
    BY <2>10 DEF bulk_update_users_endpoint, bulk_delete_users_endpoint, Admitted, AdminOps
  <2>11. ASSUME NEW p \in Projects, create_new_project(a, p) PROVE Admitted(a, "create_project", p)
    BY <2>11 DEF create_new_project, Admitted
  <2>12. ASSUME NEW p \in Projects, delete_project_endpoint(a, p) \/ Login(a, p)
         PROVE  Admitted(a, "delete_project", p) \/ Admitted(a, "login", p)
    BY <2>12 DEF delete_project_endpoint, Login, Admitted, AdminOps
  <2>13. RequestRoutes(a) =>
           \/ \E u \in Users, on \in BOOLEAN : update_user_status(a, u, on)
           \/ \E u \in Users : delete_user_endpoint(a, u) \/ hard_delete_user_endpoint(a, u) \/ create_root_user_endpoint(a, u)
           \/ \E u \in Users, t \in UTypes : change_user_type_endpoint(a, u, t) \/ update_user_details_endpoint(a, u, t)
           \/ \E u \in Users, t \in UTypes, P \in ProjectLists : update_user_type_endpoint(a, u, t, P)
           \/ \E u \in Users, P \in ProjectLists : create_admin_user_endpoint(a, u, P) \/ update_admin_projects(a, u, P)
           \/ \E u \in Users, p \in Projects : add_admin_to_project_endpoint(a, u, p) \/ remove_admin_from_project_endpoint(a, u, p)
           \/ \E U \in UserLists : bulk_update_users_endpoint(a, U) \/ bulk_delete_users_endpoint(a, U)
           \/ \E p \in Projects : create_new_project(a, p) \/ delete_project_endpoint(a, p) \/ Login(a, p)
    BY DEF RequestRoutes
  <2> QED BY <2>1, <2>2, <2>3, <2>4, <2>5, <2>6, <2>7, <2>8, <2>9, <2>10, <2>11, <2>12, <2>13
<1>2. PICK op, arg : Admitted(a, op, arg)
  BY <1>1
<1>3. RequestOK(Req(op, a, arg)) /\ Begin(a, Req(op, a, arg))
  BY <1>2 DEF Req, RequestOK, Admitted
<1> QED BY <1>3 DEF Begin, GraphInv, RowsOK, EdgesOK, ActiveUG, ActivePG, graph, people, nodes, edges

\* A request that goes on in parts stays what it was.
LEMMA RequestGoesOn ==
  ASSUME NEW r, RequestOK(r), r.op \notin {"login", "sign_out"}, NEW part PROVE RequestOK([r EXCEPT !.arg = part])
<1>1. [r EXCEPT !.arg = part] = [op |-> r.op, by |-> r.by, root |-> r.root, arg |-> part]
  BY DEF RequestOK
<1> QED BY <1>1 DEF RequestOK

\* A sign-out that is pending stays pending while another request moves.
LEMMA SignOutsStay ==
  ASSUME NEW r \in reqs, r.op # "sign_out", reqs \ {r} \subseteq reqs'
  PROVE  \A u : SigningOut(u) => SigningOut(u)'
BY DEF SigningOut

\* What a request leaves to do when it has committed.
LEMMA LeftToSignOut ==
  ASSUME GraphInv, NEW r \in reqs, r.op \notin {"login", "sign_out"}, NEW u, NEW rest, reqs' = ToSignOut(r, u, rest)
  PROVE  /\ \A q \in reqs' : RequestOK(q)
         /\ SigningOut(u)' /\ \A v : SigningOut(v) => SigningOut(v)'
<1> DEFINE q == Turned(r, "sign_out", <<u, r.op, rest>>)
<1>1. q = [op |-> "sign_out", by |-> r.by, root |-> r.root, arg |-> <<u, r.op, rest>>]
  BY DEF Turned
<1>2. reqs' = (reqs \ {r}) \cup {q}
  BY DEF ToSignOut
<1> HIDE DEF q
<1>3. q.op = "sign_out" /\ q.arg[1] = u /\ q.arg[2] = r.op /\ q.root = r.root
      /\ q = [op |-> q.op, by |-> q.by, root |-> q.root, arg |-> q.arg]
  BY <1>1
<1>4. RequestOK(q)
  BY <1>3 DEF RequestOK, AdminOps, GraphInv
<1>5. \A x \in reqs' : RequestOK(x)
  BY <1>2, <1>4 DEF GraphInv
<1>6. SigningOut(u)'
  BY <1>2, <1>3 DEF SigningOut
<1>7. \A v : SigningOut(v) => SigningOut(v)'
  BY <1>2, SignOutsStay
<1> QED BY <1>5, <1>6, <1>7

LEMMA SessionsKept ==
  ASSUME SessionsOK, sess' \subseteq sess, stray \subseteq stray', UNCHANGED sweeps,
         \A u \in Users, p \in Projects : <<u, p>> \in sess' =>
             \/ <<u, p>> \in stray'
             \/ SigningOut(u)'
             \/ /\ (u \in uact => u \in uact') /\ (Reached(u, p) => Reached(u, p)')
                /\ SigningOut(u) => SigningOut(u)'
  PROVE  SessionsOK'
<1>1. sess' \subseteq Users \X Projects
  BY DEF SessionsOK
<1>2. ASSUME NEW u \in Users, NEW p \in Projects, <<u, p>> \in sess', <<u, p>> \notin stray', ~SigningOut(u)'
      PROVE  u \in uact' /\ (Reached(u, p)' \/ \E w \in sweeps' : u \in w.users /\ p \in w.projects)
  <2>1. <<u, p>> \in sess /\ <<u, p>> \notin stray /\ ~SigningOut(u)
    BY <1>2
  <2>2. u \in uact /\ (Reached(u, p) \/ \E w \in sweeps : u \in w.users /\ p \in w.projects)
    BY <2>1 DEF SessionsOK
  <2> QED BY <1>2, <2>2
<1> QED BY <1>1, <1>2 DEF SessionsOK

LEMMA GroupAdmins == ASSUME NEW P, NEW g \in AdminGroups(P) PROVE g \in UGroups /\ ActiveUG(g)
BY DEF AdminGroups, FindAdminGroupForProject, GetProjectsForUserGroup

\* A user is taken away, with the memberships; the sessions follow.
LEMMA UserLeaves ==
  ASSUME GraphInv, SessionsOK, NEW r \in reqs, r.op \notin {"login", "sign_out"}, NEW u, NEW rest,
         reqs' = ToSignOut(r, u, rest), uact' = uact \ {u},
         mem' = mem \/ mem' = {e \in mem : e[1] # u},
         utype' = utype \/ utype' = [utype EXCEPT ![u] = "gone"],
         UNCHANGED <<proj, ug, pg, link, cont, sess, sweeps, stray>>
  PROVE  RequestStepOK(r)
<1>1. utype' = [v \in Users |-> utype'[v]] /\ \A v \in Users : v # u => utype'[v] = utype[v]
  BY DEF GraphInv, RowsOK
<1>2. \A v \in Users, g \in UGroups : <<v, g>> \in mem' => <<v, g>> \in mem
  OBVIOUS
<1>3. \A v \in Users, g \in UGroups : <<v, g>> \in mem /\ v # u => <<v, g>> \in mem'
  OBVIOUS
<1>4. GraphInv'
  <2>1. RowsOK'
    BY <1>1 DEF GraphInv, RowsOK
  <2>2. EdgesOK'
    BY <1>2 DEF GraphInv, EdgesOK, ActiveUG, ActivePG
  <2>3. \A q \in reqs' : RequestOK(q)
    BY LeftToSignOut
  <2> QED BY <2>1, <2>2, <2>3 DEF GraphInv
<1>5. ASSUME NEW v \in Users
      PROVE  /\ (IsRoot(v)' => IsRoot(v)) /\ (v # u => (IsRoot(v) <=> IsRoot(v)'))
             /\ (GetUserType(v) = "admin")' => GetUserType(v) = "admin"
  BY <1>1 DEF IsRoot, GetUserType
<1>6. ASSUME NEW v \in Users, NEW g \in UGroups, NEW x \in PGroups, NEW p \in Projects
      PROVE  (Via(v, g, x, p)' => Via(v, g, x, p)) /\ (v # u => (Via(v, g, x, p) <=> Via(v, g, x, p)'))
  <2>1. <<v, g>> \in mem' => <<v, g>> \in mem
    BY <1>2
  <2>2. v # u /\ <<v, g>> \in mem => <<v, g>> \in mem'
    BY <1>3
  <2> QED BY <2>1, <2>2 DEF Via, ActiveUG, ActivePG
<1>7. ReachKept(r) /\ ScopeKept(r)
  BY <1>5, <1>6 DEF ReachKept, ScopeKept, Reached, Administered
<1>8. SessionsOK'
  <2>1. ASSUME NEW v \in Users, NEW p \in Projects, v # u
        PROVE  (v \in uact => v \in uact') /\ (Reached(v, p) => Reached(v, p)')
    BY <1>5, <1>6, <2>1 DEF Reached
  <2>2. SigningOut(u)' /\ \A v : SigningOut(v) => SigningOut(v)'
    BY LeftToSignOut
  <2> QED BY <2>1, <2>2, SessionsKept
<1> QED BY <1>4, <1>7, <1>8 DEF RequestStepOK

LEMMA StatusStep ==
  ASSUME GraphInv, SessionsOK, NEW r \in reqs, set_user_active_status(r) PROVE RequestStepOK(r)
<1>1. CASE r.op = "activate"
  <2>1. /\ reqs' = reqs \ {r} /\ uact' = uact \cup {r.arg}
        /\ UNCHANGED <<utype, proj, ug, pg, mem, link, cont, sess, sweeps, stray>>
    BY <1>1 DEF set_user_active_status, Done, nodes, edges
  <2>2. GraphInv'
    BY <2>1 DEF GraphInv, RowsOK, EdgesOK, ActiveUG, ActivePG
  <2>3. \A u \in Users, g \in UGroups, x \in PGroups, p \in Projects : Via(u, g, x, p)' <=> Via(u, g, x, p)
    BY <2>1 DEF Via, ActiveUG, ActivePG
  <2>4. ReachKept(r) /\ ScopeKept(r)
    <3> SUFFICES ASSUME NEW u \in Users, NEW p \in Projects
                 PROVE  /\ Reached(u, p)' => Reached(u, p) \/ Reactivates(r, "root")
                        /\ Administered(u, p)' => Administered(u, p) \/ Reactivates(r, "admin")
      BY DEF ReachKept, ScopeKept
    <3>1. /\ IsRoot(u)' => IsRoot(u) \/ Reactivates(r, "root")
          /\ (GetUserType(u) = "admin")' => GetUserType(u) = "admin" \/ Reactivates(r, "admin")
      BY <1>1, <2>1 DEF IsRoot, GetUserType, Reactivates
    <3> QED BY <2>1, <2>3, <3>1 DEF Reached, Administered
  <2>5. SessionsOK'
    <3>1. ASSUME NEW u \in Users, NEW p \in Projects
          PROVE  (u \in uact => u \in uact') /\ (Reached(u, p) => Reached(u, p)')
      BY <2>1, <2>3 DEF Reached, IsRoot, GetUserType
    <3>2. \A u : SigningOut(u) => SigningOut(u)'
      BY <1>1, <2>1, SignOutsStay
    <3> QED BY <2>1, <3>1, <3>2, SessionsKept
  <2> QED BY <2>2, <2>4, <2>5 DEF RequestStepOK
<1>2. CASE r.op = "deactivate"
  BY <1>2, UserLeaves DEF set_user_active_status, nodes, edges
<1> QED BY <1>1, <1>2 DEF set_user_active_status

LEMMA DeleteStep ==
  ASSUME GraphInv, SessionsOK, NEW r \in reqs, delete_user(r) \/ hard_delete_user(r) PROVE RequestStepOK(r)
<1>1. /\ reqs' = ToSignOut(r, r.arg, {}) /\ uact' = uact \ {r.arg} /\ r.op \notin {"login", "sign_out"}
      /\ mem' = {e \in mem : e[1] # r.arg}
      /\ utype' = utype \/ utype' = [utype EXCEPT ![r.arg] = "gone"]
      /\ UNCHANGED <<proj, ug, pg, link, cont, sess, sweeps, stray>>
  BY DEF delete_user, hard_delete_user, nodes
<1> QED BY <1>1, UserLeaves

\* Nothing of the graph or the sessions changes.
LEMMA NothingHappens ==
  ASSUME GraphInv, SessionsOK, NEW r \in reqs, r.op # "sign_out", \A q \in reqs' : RequestOK(q),
         reqs \ {r} \subseteq reqs', UNCHANGED <<graph, sess, sweeps, stray>>
  PROVE  RequestStepOK(r)
<1> USE DEF graph, people, nodes, edges
<1>1. GraphInv'
  BY DEF GraphInv, RowsOK, EdgesOK, ActiveUG, ActivePG
<1>2. \A u \in Users, p \in Projects : /\ Reached(u, p)' <=> Reached(u, p)
                                       /\ Administered(u, p)' <=> Administered(u, p)
  BY DEF Reached, Administered, Via, ActiveUG, ActivePG, IsRoot, GetUserType
<1>3. SessionsOK'
  BY <1>2, SignOutsStay, SessionsKept
<1> QED BY <1>1, <1>2, <1>3 DEF RequestStepOK, ReachKept, ScopeKept

LEMMA BulkStep ==
  ASSUME GraphInv, SessionsOK, NEW r \in reqs, bulk_update_users(r) \/ bulk_delete_users(r) PROVE RequestStepOK(r)
<1>1. PICK u : /\ \/ uact' = uact /\ mem' = mem /\ reqs' = Next1(r, u)
                  \/ uact' = uact \ {u} /\ (mem' = mem \/ mem' = {e \in mem : e[1] # u})
                       /\ reqs' = ToSignOut(r, u, r.arg \ {u})
               /\ UNCHANGED <<utype, proj, ug, pg, link, cont, sess, sweeps, stray>>
               /\ r.op \notin {"login", "sign_out"}
  <2>1. CASE bulk_update_users(r)
    BY <2>1 DEF bulk_update_users, nodes, edges
  <2>2. CASE bulk_delete_users(r)
    BY <2>2 DEF bulk_delete_users, nodes
  <2> QED BY <2>1, <2>2
<1>2. CASE uact' = uact /\ mem' = mem /\ reqs' = Next1(r, u)
  <2>1. RequestOK([r EXCEPT !.arg = @ \ {u}])
    BY <1>1, RequestGoesOn DEF GraphInv
  <2>2. reqs \ {r} \subseteq reqs' /\ \A q \in reqs' : RequestOK(q)
    BY <1>2, <2>1 DEF Next1, GraphInv
  <2> QED BY <1>1, <1>2, <2>2, NothingHappens DEF graph, people, nodes, edges
<1>3. CASE uact' = uact \ {u} /\ (mem' = mem \/ mem' = {e \in mem : e[1] # u})
             /\ reqs' = ToSignOut(r, u, r.arg \ {u})
  BY <1>1, <1>3, UserLeaves
<1> QED BY <1>1, <1>2, <1>3

\* What a request of root does to the graph is not held to anything.
LEMMA RootsRequest ==
  ASSUME NEW r, r.root, GraphInv', SessionsOK' PROVE RequestStepOK(r)
BY DEF RequestStepOK, ReachKept, ScopeKept

LEMMA IsRoots ==
  ASSUME GraphInv, NEW r \in reqs, r.op \notin AdminOps PROVE r.root
BY DEF GraphInv, RequestOK

LEMMA ChangeTypeStep ==
  ASSUME GraphInv, SessionsOK, NEW r \in reqs, update_user_type(r) PROVE RequestStepOK(r)
<1> DEFINE u == r.arg[1]
           t == r.arg[2]
           added == {u} \X AdminGroups(r.arg[3])
<1>1. /\ UNCHANGED <<uact, proj, ug, pg, link, cont, sess, sweeps, stray>>
      /\ utype' = IF u \in uact THEN [utype EXCEPT ![u] = t] ELSE utype
      /\ mem' = mem \cup added
      /\ IF GetUserType(u) = t THEN reqs' = reqs \ {r} ELSE reqs' = ToSignOut(r, u, {})
      /\ r.op = "set_type"
  BY DEF update_user_type, Done, nodes
<1>2. r.root
  BY <1>1, IsRoots DEF AdminOps
<1>3. \A v \in Users, g \in UGroups : <<v, g>> \in added => ActiveUG(g)
  BY GroupAdmins
<1> HIDE DEF added
<1>4. utype' = [v \in Users |-> utype'[v]] /\ \A v \in Users \ {u} : utype'[v] = utype[v]
  BY <1>1 DEF GraphInv, RowsOK
<1>5. /\ \A q \in reqs' : RequestOK(q)
      /\ \A v : SigningOut(v) => SigningOut(v)'
      /\ GetUserType(u) # t => SigningOut(u)'
  <2>1. CASE GetUserType(u) = t
    <3>1. reqs' = reqs \ {r}
      BY <1>1, <2>1
    <3> QED BY <1>1, <2>1, <3>1, SignOutsStay DEF GraphInv
  <2>2. CASE GetUserType(u) # t
    <3>1. reqs' = ToSignOut(r, u, {}) /\ r.op \notin {"login", "sign_out"}
      BY <1>1, <2>2
    <3> QED BY <3>1, LeftToSignOut
  <2> QED BY <2>1, <2>2
<1>6. GraphInv'
  <2>1. RowsOK' /\ EdgesOK'
    BY <1>1, <1>3, <1>4 DEF GraphInv, RowsOK, EdgesOK, ActiveUG, ActivePG
  <2> QED BY <1>5, <2>1 DEF GraphInv
<1>7. SessionsOK'
  <2>1. ASSUME NEW v \in Users, NEW p \in Projects, Reached(v, p), ~SigningOut(v)' PROVE Reached(v, p)'
    <3>1. IsRoot(v) => IsRoot(v)'
      <4>1. CASE v = u
        <5>1. GetUserType(u) = t
          BY <1>5, <2>1, <4>1
        <5> QED BY <1>1, <4>1, <5>1 DEF IsRoot, GetUserType, GraphInv, RowsOK
      <4>2. CASE v # u
        BY <1>1, <1>4, <4>2 DEF IsRoot, GetUserType
      <4> QED BY <4>1, <4>2
    <3>2. \A g \in UGroups, x \in PGroups : Via(v, g, x, p) => Via(v, g, x, p)'
      BY <1>1 DEF Via, ActiveUG, ActivePG
    <3> QED BY <1>1, <2>1, <3>1, <3>2 DEF Reached
  <2> QED BY <1>1, <1>5, <2>1, SessionsKept
<1> QED BY <1>2, <1>6, <1>7, RootsRequest

LEMMA CreateUserStep ==
  ASSUME GraphInv, SessionsOK, NEW r \in reqs, create_user(r) PROVE RequestStepOK(r)
<1> DEFINE u == r.arg[1]
           added == {u} \X AdminGroups(r.arg[3])
<1>1. /\ reqs' = reqs \ {r} /\ UNCHANGED <<proj, ug, pg, link, cont, sess, sweeps, stray>>
      /\ utype[u] = "new" /\ utype' = [utype EXCEPT ![u] = r.arg[2]] /\ uact' = uact \cup {u}
      /\ mem' = mem \cup added /\ r.op = "create_user"
  BY DEF create_user, Done, nodes
<1>2. r.root
  BY <1>1, IsRoots DEF AdminOps
<1>3. \A v \in Users, g \in UGroups : <<v, g>> \in added => ActiveUG(g)
  BY GroupAdmins
<1> HIDE DEF added
<1>4. utype' = [v \in Users |-> utype'[v]] /\ \A v \in Users \ {u} : utype'[v] = utype[v]
  BY <1>1 DEF GraphInv, RowsOK
<1>5. GraphInv'
  BY <1>1, <1>3, <1>4 DEF GraphInv, RowsOK, EdgesOK, ActiveUG, ActivePG
<1>6. SessionsOK'
  <2>1. ASSUME NEW v \in Users, NEW p \in Projects, Reached(v, p) PROVE Reached(v, p)'
    <3>1. IsRoot(v) => IsRoot(v)'
      BY <1>1, <1>4 DEF IsRoot, GetUserType
    <3>2. \A g \in UGroups, x \in PGroups : Via(v, g, x, p) => Via(v, g, x, p)'
      BY <1>1 DEF Via, ActiveUG, ActivePG
    <3> QED BY <1>1, <2>1, <3>1, <3>2 DEF Reached
  <2> QED BY <1>1, <2>1, SignOutsStay, SessionsKept
<1> QED BY <1>2, <1>5, <1>6, RootsRequest

LEMMA RequestsLeft ==
  ASSUME GraphInv, NEW r \in reqs, NEW k, r.op \notin {"login", "sign_out"}, reqs' = Left(r, k)
  PROVE  (\A q \in reqs' : RequestOK(q)) /\ \A u : SigningOut(u) => SigningOut(u)'
<1>1. RequestOK([r EXCEPT !.arg = <<r.arg[1], r.arg[2] \ {k}, r.arg[3] \ {k}>>])
  BY RequestGoesOn DEF GraphInv
<1>2. reqs \ {r} \subseteq reqs'
  BY DEF Left
<1> QED BY <1>1, <1>2, SignOutsStay DEF GraphInv, Left

LEMMA RemoveAdminStep ==
  ASSUME GraphInv, SessionsOK, NEW r \in reqs, remove_admin_from_project(r) PROVE RequestStepOK(r)
<1>1. PICK p, kept : /\ kept \subseteq mem /\ mem' = kept /\ stray' = stray \cup Unreached(kept, link, cont, proj)
                     /\ reqs' = Left(r, p) /\ r.op = "admin_projects"
                     /\ UNCHANGED <<utype, uact, proj, ug, pg, link, cont, sess, sweeps>>
  BY DEF remove_admin_from_project, people, nodes
<1>2. r.root
  BY <1>1, IsRoots DEF AdminOps
<1>3. GraphInv'
  BY <1>1, RequestsLeft DEF GraphInv, RowsOK, EdgesOK, ActiveUG, ActivePG
<1>4. SessionsOK'
  <2>1. ASSUME NEW u \in Users, NEW q \in Projects, <<u, q>> \in sess', <<u, q>> \notin stray', Reached(u, q)
        PROVE  Reached(u, q)'
    <3>1. IsRoot(u) \/ \E g \in UGroups, x \in PGroups :
              /\ <<u, g>> \in kept /\ ActiveUG(g) /\ <<g, x>> \in link /\ ActivePG(x) /\ <<x, q>> \in cont
      BY <1>1, <2>1 DEF Unreached
    <3> QED BY <1>1, <2>1, <3>1 DEF Reached, Via, ActiveUG, ActivePG, IsRoot, GetUserType
  <2> QED BY <1>1, <2>1, RequestsLeft, SessionsKept
<1> QED BY <1>2, <1>3, <1>4, RootsRequest

LEMMA AddAdminStep ==
  ASSUME GraphInv, SessionsOK, NEW r \in reqs, add_admin_to_project(r) PROVE RequestStepOK(r)
<1>1. PICK p, added : /\ mem' = mem \cup added /\ \A u \in Users, g \in UGroups : <<u, g>> \in added => ActiveUG(g)
                      /\ reqs' = Left(r, p) /\ r.op = "admin_projects"
                      /\ UNCHANGED <<utype, uact, proj, ug, pg, link, cont, sess, sweeps, stray>>
  <2>1. PICK p : /\ mem' = IF GetUserType(r.arg[1]) = "admin"
                             THEN mem \cup ({r.arg[1]} \X FindAdminGroupForProject(p)) ELSE mem
                 /\ reqs' = Left(r, p) /\ r.op = "admin_projects"
                 /\ UNCHANGED <<utype, uact, proj, ug, pg, link, cont, sess, sweeps, stray>>
    BY DEF add_admin_to_project, people, nodes
  <2>2. \A g \in FindAdminGroupForProject(p) : ActiveUG(g)
    BY DEF FindAdminGroupForProject, GetProjectsForUserGroup
  <2> DEFINE added == IF GetUserType(r.arg[1]) = "admin" THEN {r.arg[1]} \X FindAdminGroupForProject(p) ELSE {}
  <2>3. mem' = mem \cup added /\ \A u \in Users, g \in UGroups : <<u, g>> \in added => ActiveUG(g)
    BY <2>1, <2>2
  <2> HIDE DEF added
  <2> QED BY <2>1, <2>3
<1>2. r.root
  BY <1>1, IsRoots DEF AdminOps
<1>3. GraphInv'
  BY <1>1, RequestsLeft DEF GraphInv, RowsOK, EdgesOK, ActiveUG, ActivePG
<1>4. SessionsOK'
  <2>1. ASSUME NEW u \in Users, NEW q \in Projects, Reached(u, q) PROVE Reached(u, q)'
    BY <1>1, <2>1 DEF Reached, Via, ActiveUG, ActivePG, IsRoot, GetUserType
  <2> QED BY <1>1, <2>1, RequestsLeft, SessionsKept
<1> QED BY <1>2, <1>3, <1>4, RootsRequest

LEMMA CreateProjectStep ==
  ASSUME GraphInv, SessionsOK, NEW r \in reqs, create_project(r) PROVE RequestStepOK(r)
<1>1. /\ proj[r.arg] = "new" /\ proj' = [proj EXCEPT ![r.arg] = "active"] /\ r.op = "create_project"
      /\ reqs' = (reqs \ {r}) \cup {[r EXCEPT !.op = "default_groups"]}
      /\ UNCHANGED <<utype, uact, ug, pg, mem, link, cont, sess, sweeps, stray>>
  BY DEF create_project, people, edges
<1>2. r.root
  BY <1>1, IsRoots DEF AdminOps
<1>3. RequestOK([r EXCEPT !.op = "default_groups"])
  <2>1. r = [op |-> r.op, by |-> r.by, root |-> r.root, arg |-> r.arg]
    BY DEF GraphInv, RequestOK
  <2>2. [r EXCEPT !.op = "default_groups"] = [op |-> "default_groups", by |-> r.by, root |-> r.root, arg |-> r.arg]
    BY <2>1
  <2> QED BY <1>2, <2>2 DEF RequestOK
<1>4. proj' = [p \in Projects |-> proj'[p]] /\ \A p \in Projects : proj[p] = "active" => proj'[p] = "active"
  BY <1>1 DEF GraphInv, RowsOK
<1>5. GraphInv'
  <2>1. RowsOK' /\ EdgesOK'
    BY <1>1, <1>4 DEF GraphInv, RowsOK, EdgesOK, ActiveUG, ActivePG
  <2>2. \A x \in reqs' : RequestOK(x)
    BY <1>1, <1>3 DEF GraphInv
  <2>3. \A x : RequestOK(x)' <=> RequestOK(x)
    BY DEF RequestOK
  <2> QED BY <2>1, <2>2, <2>3 DEF GraphInv
<1>6. SessionsOK'
  <2>1. ASSUME NEW u \in Users, NEW q \in Projects, Reached(u, q) PROVE Reached(u, q)'
    BY <1>1, <1>4, <2>1 DEF Reached, Via, ActiveUG, ActivePG, IsRoot, GetUserType
  <2> QED BY <1>1, <2>1, SignOutsStay, SessionsKept
<1> QED BY <1>2, <1>5, <1>6, RootsRequest

LEMMA DefaultGroupsStep ==
  ASSUME GraphInv, SessionsOK, NEW r \in reqs, create_default_groups(r) PROVE RequestStepOK(r)
<1>1. PICK g \in UGroups, x \in PGroups :
         /\ pg[x].st = "new" /\ ug[g].st = "new"
         /\ pg' = [pg EXCEPT ![x] = [st |-> "active", bind |-> r.arg]]
         /\ ug' = [ug EXCEPT ![g] = [st |-> "active", name |-> r.arg, bind |-> r.arg]]
         /\ link' = link \cup {<<g, x>>} /\ cont' = cont \cup {<<x, r.arg>>}
         /\ reqs' = reqs \ {r} /\ r.op = "default_groups"
         /\ UNCHANGED <<utype, uact, proj, mem, sess, sweeps, stray>>
  BY DEF create_default_groups, Done, people
<1>2. r.root
  BY <1>1, IsRoots DEF AdminOps
<1>3. /\ ug' = [h \in UGroups |-> ug'[h]] /\ ug'[g] = [st |-> "active", name |-> r.arg, bind |-> r.arg]
      /\ \A h \in UGroups \ {g} : ug'[h] = ug[h]
      /\ pg' = [y \in PGroups |-> pg'[y]] /\ pg'[x] = [st |-> "active", bind |-> r.arg]
      /\ \A y \in PGroups \ {x} : pg'[y] = pg[y]
  BY <1>1 DEF GraphInv, RowsOK
<1>4. /\ ug'[g] = [st |-> ug'[g].st, name |-> ug'[g].name, bind |-> ug'[g].bind] /\ ug'[g].st = "active"
      /\ pg'[x] = [st |-> pg'[x].st, bind |-> pg'[x].bind] /\ pg'[x].st = "active"
  BY <1>3
<1>5. RowsOK'
  <2>1. \A h \in UGroups : ug'[h] = [st |-> ug'[h].st, name |-> ug'[h].name, bind |-> ug'[h].bind]
    BY <1>3, <1>4 DEF GraphInv, RowsOK
  <2>2. \A y \in PGroups : pg'[y] = [st |-> pg'[y].st, bind |-> pg'[y].bind]
    BY <1>3, <1>4 DEF GraphInv, RowsOK
  <2> QED BY <1>1, <1>3, <2>1, <2>2 DEF GraphInv, RowsOK
<1>6. EdgesOK'
  BY <1>1, <1>3, <1>4 DEF GraphInv, EdgesOK, ActiveUG, ActivePG
<1>7. GraphInv'
  BY <1>1, <1>5, <1>6 DEF GraphInv
<1>8. SessionsOK'
  <2>1. ASSUME NEW u \in Users, NEW q \in Projects, Reached(u, q) PROVE Reached(u, q)'
    <3>1. \A h \in UGroups, y \in PGroups : Via(u, h, y, q) => Via(u, h, y, q)'
      BY <1>1, <1>3 DEF Via, ActiveUG, ActivePG
    <3> QED BY <1>1, <2>1, <3>1 DEF Reached, IsRoot, GetUserType
  <2> QED BY <1>1, <2>1, SignOutsStay, SessionsKept
<1> QED BY <1>2, <1>7, <1>8, RootsRequest

LEMMA DeleteProjectStep ==
  ASSUME GraphInv, SessionsOK, NEW r \in reqs, delete_project(r) PROVE RequestStepOK(r)
<1>1. /\ proj' = [proj EXCEPT ![r.arg] = "deleted"] /\ cont' = {e \in cont : e[2] # r.arg}
      /\ stray' = stray \cup {s \in sess : s[2] = r.arg} /\ reqs' = reqs \ {r}
      /\ r.op = "delete_project" /\ UNCHANGED <<utype, uact, ug, pg, mem, link, sess, sweeps>>
  BY DEF delete_project, Done, people
<1>2. /\ proj' = [p \in Projects |-> proj'[p]]
      /\ \A p \in Projects : p # r.arg => proj'[p] = proj[p]
      /\ \A p \in Projects : p = r.arg => proj'[p] = "deleted"
  BY <1>1 DEF GraphInv, RowsOK
<1>3. \A x \in PGroups, p \in Projects : <<x, p>> \in cont' <=> <<x, p>> \in cont /\ p # r.arg
  BY <1>1
<1>4. GraphInv'
  BY <1>1, <1>2, <1>3 DEF GraphInv, RowsOK, EdgesOK, ActiveUG, ActivePG
<1>5. ASSUME NEW u \in Users, NEW p \in Projects
      PROVE  /\ Reached(u, p)' <=> Reached(u, p) /\ p # r.arg
             /\ Administered(u, p)' => Administered(u, p)
  <2>1. \A g \in UGroups, x \in PGroups : Via(u, g, x, p)' <=> Via(u, g, x, p) /\ p # r.arg
    BY <1>1, <1>3 DEF Via, ActiveUG, ActivePG
  <2> QED BY <1>1, <1>2, <2>1 DEF Reached, Administered, IsRoot, GetUserType
<1>6. SessionsOK'
  <2>1. ASSUME NEW u \in Users, NEW p \in Projects, <<u, p>> \in sess', <<u, p>> \notin stray' PROVE p # r.arg
    BY <1>1, <2>1
  <2>2. \A u : SigningOut(u) => SigningOut(u)'
    BY <1>1, SignOutsStay
  <2> QED BY <1>1, <1>5, <2>1, <2>2, SessionsKept
<1> QED BY <1>4, <1>5, <1>6 DEF RequestStepOK, ReachKept, ScopeKept

LEMMA StoreSessionStep ==
  ASSUME GraphInv, SessionsOK, NEW r \in reqs, StoreSession(r) PROVE RequestStepOK(r)
<1>1. /\ reqs' = reqs \ {r} /\ sess' = sess \cup {<<r.by, r.arg>>}
      /\ stray' = IF GetUserByHash(r.by) /\ Access(r.by, r.arg)
                  THEN stray \ {<<r.by, r.arg>>} ELSE stray \cup {<<r.by, r.arg>>}
      /\ UNCHANGED <<utype, uact, proj, ug, pg, mem, link, cont, sweeps>>
      /\ r.by \in Users /\ r.arg \in Projects /\ r.op = "login"
  BY DEF StoreSession, Done, graph, people, nodes, edges, GraphInv, RequestOK
<1>2. GraphInv'
  BY <1>1 DEF GraphInv, RowsOK, EdgesOK, ActiveUG, ActivePG
<1>3. \A u \in Users, p \in Projects : /\ Reached(u, p)' <=> Reached(u, p)
                                       /\ Administered(u, p)' <=> Administered(u, p)
  BY <1>1 DEF Reached, Administered, Via, ActiveUG, ActivePG, IsRoot, GetUserType
<1>4. SessionsOK'
  <2>1. sess' \subseteq Users \X Projects
    BY <1>1 DEF SessionsOK
  <2>2. ASSUME NEW u \in Users, NEW p \in Projects, <<u, p>> \in sess', <<u, p>> \notin stray'
        PROVE  \/ u \in uact /\ (Reached(u, p) \/ \E w \in sweeps : u \in w.users /\ p \in w.projects)
               \/ SigningOut(u)
    <3>1. CASE u = r.by /\ p = r.arg
      <4>1. GetUserByHash(u) /\ Access(u, p)
        BY <1>1, <2>2, <3>1
      <4> QED BY <4>1, AccessIsReach DEF GetUserByHash
    <3>2. CASE ~(u = r.by /\ p = r.arg)
      <4>1. <<u, p>> \in sess /\ <<u, p>> \notin stray
        BY <1>1, <2>2, <3>2
      <4> QED BY <4>1 DEF SessionsOK
    <3> QED BY <3>1, <3>2
  <2>3. \A u : SigningOut(u) => SigningOut(u)'
    BY <1>1, SignOutsStay
  <2> QED BY <1>1, <1>3, <2>1, <2>2, <2>3 DEF SessionsOK
<1> QED BY <1>2, <1>3, <1>4 DEF RequestStepOK, ReachKept, ScopeKept

LEMMA FailedStep ==
  ASSUME GraphInv, SessionsOK, NEW r \in reqs, RequestFails(r) PROVE RequestStepOK(r)
<1>1. reqs' = reqs \ {r} /\ r.op # "sign_out" /\ UNCHANGED <<graph, sess, sweeps, stray>>
  BY DEF RequestFails, Done
<1>2. \A q \in reqs' : RequestOK(q)
  BY <1>1 DEF GraphInv
<1> QED BY <1>1, <1>2, NothingHappens

LEMMA RequestStep == ASSUME GraphInv, SessionsOK, NEW r \in reqs, RequestSteps(r) PROVE RequestStepOK(r)
BY StatusStep, DeleteStep, ChangeTypeStep, CreateUserStep, RemoveAdminStep, AddAdminStep, BulkStep,
   CreateProjectStep, DefaultGroupsStep, DeleteProjectStep, StoreSessionStep, FailedStep DEF RequestSteps

\* The sweep ends what has lost its access, whatever has come and gone meanwhile.
LEMMA SweepStep ==
  ASSUME GraphInv, SessionsOK, RevokeProjectSessionsLosingAccess \/ SweepIsLost
  PROVE  GraphInv' /\ SessionsOK' /\ UNCHANGED graph
<1>1. PICK w \in sweeps :
          /\ sess' \subseteq sess /\ stray \subseteq stray'
          /\ \A s \in sess' : s \in w.users \X w.projects /\ s \notin stray' => Access(s[1], s[2])
          /\ sweeps' = sweeps \ {w} /\ UNCHANGED <<graph, reqs>>
  <2>1. CASE RevokeProjectSessionsLosingAccess
    BY <2>1 DEF RevokeProjectSessionsLosingAccess
  <2>2. CASE SweepIsLost
    BY <2>2 DEF SweepIsLost
  <2> QED BY <2>1, <2>2
<1>2. GraphInv'
  BY <1>1 DEF graph, people, nodes, edges, GraphInv, RowsOK, EdgesOK, ActiveUG, ActivePG
<1>3. \A u \in Users, p \in Projects : Reached(u, p)' <=> Reached(u, p)
  BY <1>1 DEF graph, people, nodes, edges, Reached, Via, ActiveUG, ActivePG, IsRoot, GetUserType
<1>4. ASSUME NEW u \in Users, NEW p \in Projects, <<u, p>> \in sess', <<u, p>> \notin stray',
             u \in w.users, p \in w.projects
      PROVE  Reached(u, p)
  <2>1. Access(u, p)
    BY <1>1, <1>4
  <2> QED BY <2>1, AccessIsReach
<1>5. SessionsOK'
  <2>1. uact' = uact /\ \A u : SigningOut(u) => SigningOut(u)'
    BY <1>1 DEF graph, people, SigningOut
  <2>2. ASSUME NEW u \in Users, NEW p \in Projects, <<u, p>> \in sess', <<u, p>> \notin stray', ~SigningOut(u)
        PROVE  u \in uact /\ (Reached(u, p) \/ \E v \in sweeps' : u \in v.users /\ p \in v.projects)
    BY <1>1, <1>4, <2>1, <2>2 DEF SessionsOK
  <2>3. sess' \subseteq Users \X Projects
    BY <1>1 DEF SessionsOK
  <2> QED BY <1>3, <2>1, <2>2, <2>3 DEF SessionsOK
<1> QED BY <1>1, <1>2, <1>5

\* The sign-out that follows a commit, carried out or not: the user's sessions are
\* gone or lost, and the request ends or takes up its next user.
LEMMA SignOutStep ==
  ASSUME GraphInv, SessionsOK, NEW r \in reqs, SignOutSteps(r) PROVE GraphInv' /\ SessionsOK' /\ UNCHANGED graph
<1>1. /\ r.op = "sign_out" /\ UNCHANGED <<graph, sweeps>> /\ reqs' \in {GoesOn(r), reqs \ {r}}
      /\ sess' \subseteq sess /\ stray \subseteq stray'
      /\ \A s \in sess' : s[1] = r.arg[1] => s \in stray'
  <2>1. CASE revoke_user_auth_state(r)
    BY <2>1 DEF revoke_user_auth_state, SessionsOf
  <2>2. CASE SignOutFails(r)
    BY <2>2 DEF SignOutFails, SessionsOf
  <2> QED BY <2>1, <2>2 DEF SignOutSteps
<1>2. RequestOK(Turned(r, r.arg[2], r.arg[3]))
  BY <1>1 DEF GraphInv, RequestOK, Turned
<1>3. reqs \ {r} \subseteq reqs' /\ \A q \in reqs' : RequestOK(q)
  BY <1>1, <1>2 DEF GoesOn, GraphInv
<1>4. GraphInv'
  BY <1>1, <1>3 DEF graph, people, nodes, edges, GraphInv, RowsOK, EdgesOK, ActiveUG, ActivePG
<1>5. \A u \in Users, p \in Projects : Reached(u, p)' <=> Reached(u, p)
  BY <1>1 DEF graph, people, nodes, edges, Reached, Via, ActiveUG, ActivePG, IsRoot, GetUserType
<1>6. \A u : u # r.arg[1] /\ SigningOut(u) => SigningOut(u)'
  BY <1>3 DEF SigningOut
<1>7. uact' = uact
  BY <1>1 DEF graph, people
<1>8. SessionsOK'
  BY <1>1, <1>5, <1>6, <1>7, SessionsKept
<1> QED BY <1>1, <1>4, <1>8

LEMMA Start == GraphInit => GraphInv /\ SessionsOK
<1> SUFFICES ASSUME GraphInit PROVE GraphInv /\ SessionsOK
  OBVIOUS
<1>1. RowsOK
  BY DEF GraphInit, RowsOK
<1>2. EdgesOK
  BY DEF GraphInit, EdgesOK, ActiveUG, ActivePG
<1>3. \A u \in Users, p \in Projects : <<u, p>> \in sess => u \in uact /\ Access(u, p)
  BY DEF GraphInit
<1>4. sess \subseteq Users \X Projects
  BY DEF GraphInit
<1>5. SessionsOK
  BY <1>3, <1>4, AccessIsReach DEF SessionsOK
<1> QED BY <1>1, <1>2, <1>5 DEF GraphInit, GraphInv

\* A group route with the sessions.
LEMMA RouteKeepsSessions ==
  ASSUME SessionsOK, NEW a, RouteOK(a) PROVE SessionsOK'
<1>1. UNCHANGED <<uact, sess, stray, reqs>> /\ LossIsSwept
  BY DEF RouteOK, GroupStep
<1>2. ASSUME NEW u \in Users, NEW p \in Projects, <<u, p>> \in sess, <<u, p>> \notin stray, ~SigningOut(u)
      PROVE  u \in uact /\ (Reached(u, p)' \/ \E w \in sweeps' : u \in w.users /\ p \in w.projects)
  <2>1. u \in uact /\ (Reached(u, p) \/ \E w \in sweeps : u \in w.users /\ p \in w.projects)
    BY <1>2 DEF SessionsOK
  <2>2. CASE Reached(u, p)
    BY <1>1, <2>1, <2>2 DEF LossIsSwept
  <2>3. CASE \E w \in sweeps : u \in w.users /\ p \in w.projects
    BY <1>1, <2>1, <2>3 DEF LossIsSwept
  <2> QED BY <2>1, <2>2, <2>3
<1> QED BY <1>1, <1>2 DEF SessionsOK, SigningOut

LEMMA GraphStep == GraphInv /\ SessionsOK /\ [GraphNext]_vars => GraphInv' /\ SessionsOK'
<1> SUFFICES ASSUME GraphInv, SessionsOK, [GraphNext]_vars PROVE GraphInv' /\ SessionsOK'
  OBVIOUS
<1>1. ASSUME NEW a \in Users, GroupRoutes(a) PROVE GraphInv' /\ SessionsOK'
  BY <1>1, GroupRoute, RouteKeepsSessions DEF RouteOK
<1>2. ASSUME UNCHANGED <<graph, sess, sweeps, stray>>, reqs \subseteq reqs' PROVE SessionsOK'
  <2>1. \A u : SigningOut(u) => SigningOut(u)'
    BY <1>2 DEF SigningOut
  <2> QED BY <1>2, <2>1 DEF graph, people, nodes, edges, SessionsOK, Reached, Via, ActiveUG, ActivePG, IsRoot, GetUserType
<1>3. ASSUME NEW a \in Users, RequestRoutes(a) PROVE GraphInv' /\ SessionsOK'
  BY <1>2, <1>3, RequestGuard
<1>4. ASSUME NEW r \in reqs, RequestSteps(r) PROVE GraphInv' /\ SessionsOK'
  BY <1>4, RequestStep DEF RequestStepOK
<1>5. CASE RevokeProjectSessionsLosingAccess \/ SweepIsLost
  BY <1>5, SweepStep
<1>6. CASE UNCHANGED vars
  <2>1. GraphInv'
    BY <1>6 DEF vars, graph, people, nodes, edges, GraphInv, RowsOK, EdgesOK, ActiveUG, ActivePG
  <2> QED BY <1>2, <1>6, <2>1 DEF vars
<1>7. ASSUME NEW r \in reqs, SignOutSteps(r) PROVE GraphInv' /\ SessionsOK'
  BY <1>7, SignOutStep
<1> QED BY <1>1, <1>3, <1>4, <1>5, <1>6, <1>7 DEF GraphNext

LEMMA GraphInvariance == GraphSpec => [](GraphInv /\ SessionsOK)
BY Start, GraphStep, PTL DEF GraphSpec

\* A session belongs to an active user whose access is there or about to be swept,
\* or to a user about to be signed out, unless it was lost where nothing sweeps, or
\* where a sweep or sign-out failed after its commit: whatever group and user routes
\* interleave with sign-ins and sweeps (admin_user_groups.py, admin_project_groups.py,
\* db_transaction.py:90-99, users.py:1442-1461, auth_lifecycle.py).
THEOREM SessionsAreSwept == GraphSpec => []SessionsFollowAccess
<1>1. SessionsOK => SessionsFollowAccess
  <2> SUFFICES ASSUME SessionsOK, NEW s \in sess, s \notin stray
               PROVE  \/ /\ s[1] \in uact
                         /\ Access(s[1], s[2]) \/ \E w \in sweeps : s[1] \in w.users /\ s[2] \in w.projects
                      \/ SigningOut(s[1])
    BY DEF SessionsFollowAccess, SigningOut
  <2>1. PICK u \in Users, p \in Projects : s = <<u, p>>
    BY DEF SessionsOK
  <2> QED BY <2>1, AccessIsReach DEF SessionsOK
<1> QED BY <1>1, GraphInvariance, PTL

\* What a step gives, in terms of chains.
LEMMA GainedIsReach ==
  ASSUME NEW p \in Gained PROVE p \in Projects /\ \E u \in Users : Reached(u, p)' /\ ~Reached(u, p)
<1>1. PICK u \in Users : p \in GetUserAccessibleProjects(u)' /\ p \notin GetUserAccessibleProjects(u)
  BY DEF Gained
<1>2. p \in Projects
  <2>1. \A x : GetProjectsInGroup(x)' \subseteq Projects
    BY DEF GetProjectsInGroup
  <2>2. \A g : GetProjectsForUserGroup(g)' \subseteq Projects
    BY <2>1 DEF GetProjectsForUserGroup
  <2> QED BY <1>1, <2>2 DEF GetUserAccessibleProjects
<1> QED BY <1>1, <1>2, AccessIsReach, AccessIsReachNext DEF Access

LEMMA GrantsStep == GraphInv /\ SessionsOK => GrantsStepInScope
<1> SUFFICES ASSUME GraphInv, SessionsOK, NEW p \in Gained
             PROVE  /\ \A a \in Users : GroupRoutes(a) => AllowsProject(a, p)
                    /\ \A r \in reqs : RequestSteps(r) => r.root \/ Reactivates(r, "root")
  BY DEF GrantsStepInScope, AllowsAllProjects
<1>1. PICK u \in Users : Reached(u, p)' /\ ~Reached(u, p)
  BY GainedIsReach
<1>2. p \in Projects
  BY GainedIsReach
<1>3. ASSUME NEW a \in Users, GroupRoutes(a) PROVE AllowsProject(a, p)
  <2>1. GrowsInScope(a) /\ GroupStep
    BY <1>3, GroupRoute DEF RouteOK
  <2>2. PICK g \in UGroups, x \in PGroups : Via(u, g, x, p)' /\ ~Via(u, g, x, p)
    BY <1>1, <2>1 DEF Reached, GroupStep, IsRoot, GetUserType
  <2> QED BY <1>2, <2>1, <2>2 DEF GrowsInScope
<1>4. ASSUME NEW r \in reqs, RequestSteps(r) PROVE r.root \/ Reactivates(r, "root")
  BY <1>1, <1>2, <1>4, RequestStep DEF RequestStepOK, ReachKept
<1> QED BY <1>3, <1>4

\* No chain of groups gives access outside the scope of the caller who completes it,
\* for any graph and any interleaving with user and project requests
\* (admin_group_scope.py).
THEOREM GrantsStayInScope == GraphSpec => GrantsInScope
BY GraphInvariance, GrantsStep, PTL DEF GrantsInScope

LEMMA ScopeStep == GraphInv /\ SessionsOK => ScopeStepByRoot
<1> SUFFICES ASSUME GraphInv, SessionsOK, NEW u \in Users, ~(ResolveAdminScope(u)' \subseteq ResolveAdminScope(u))
             PROVE  /\ \A a \in Users : GroupRoutes(a) => IsRoot(a)
                    /\ \A r \in reqs : RequestSteps(r) => r.root \/ Reactivates(r, "admin")
  BY DEF ScopeStepByRoot
<1>1. PICK p : p \in ResolveAdminScope(u)' /\ p \notin ResolveAdminScope(u)
  OBVIOUS
<1>2. p \in Projects
  BY <1>1 DEF ResolveAdminScope, GetAdminAssignedProjects
<1>3. Administered(u, p)' /\ ~Administered(u, p)
  BY <1>1, <1>2, ScopeIsAdministered, ScopeIsAdministeredNext
<1>4. ASSUME NEW a \in Users, GroupRoutes(a) PROVE IsRoot(a)
  <2>1. GrowsInScope(a) /\ GroupStep
    BY <1>4, GroupRoute DEF RouteOK
  <2>2. PICK g \in UGroups, x \in PGroups : Via(u, g, x, p)' /\ ug'[g].name = p
    BY <1>3 DEF Administered
  <2>3. ~(Via(u, g, x, p) /\ ug[g].name = p)
    BY <1>3, <2>1 DEF Administered, GroupStep, GetUserType
  <2> QED BY <1>2, <2>1, <2>2, <2>3 DEF GrowsInScope
<1>5. ASSUME NEW r \in reqs, RequestSteps(r) PROVE r.root \/ Reactivates(r, "admin")
  BY <1>2, <1>3, <1>5, RequestStep DEF RequestStepOK, ScopeKept
<1> QED BY <1>4, <1>5

-----------------------------------------------------------------------------
(* The reads. *)

AllShown(a, items) == \A i \in items : Shown(a, i)

LEMMA ShownKinds ==
  ASSUME NEW a, NEW one
  PROVE  /\ Shares(a, one) => Shown(a, <<"user", one>>)
         /\ one \in Reach(a) => Shown(a, <<"project", one>>)
         /\ UserFootprint(one) # {} /\ UserFootprint(one) \subseteq ResolveAdminScope(a) => Shown(a, <<"ugroup", one>>)
         /\ ProjectFootprint(one) # {} /\ ProjectFootprint(one) \subseteq ResolveAdminScope(a) => Shown(a, <<"pgroup", one>>)
         /\ ProjectFootprint(one) \cap Reach(a) # {} => Shown(a, <<"container", one>>)
         /\ <<a, one>> \in mem => Shown(a, <<"own", one>>)
BY DEF Shown

\* What is told of a user who shares a project with the caller.
LEMMA ShownOfUser ==
  ASSUME NEW a, NEW u, NEW one, Shares(a, u)
  PROVE  /\ <<u, one>> \in mem => Shown(a, <<"member", <<u, one>>>>)
         /\ one \in Reach(u) => Shown(a, <<"reach", <<u, one>>>>)
         /\ (\E g \in UGroups : <<u, g>> \in mem /\ <<g, one>> \in link) => Shown(a, <<"through", <<u, one>>>>)
BY DEF Shown

LEMMA Replies ==
  ASSUME NEW a, NEW ok, NEW items, ok => AllShown(a, items) PROVE AllShown(a, Reply(ok, items).items)
BY DEF Reply, Refused, AllShown

LEMMA Unions == ASSUME NEW a, NEW S, NEW T, AllShown(a, S), AllShown(a, T) PROVE AllShown(a, S \cup T)
BY DEF AllShown

\* What the filters of a caller who is not root let through.
LEMMA Filters ==
  ASSUME NEW a, ~IsRoot(a)
  PROVE  /\ \A u : UserInScope(a, u) => Shares(a, u)
         /\ \A F : InScope(a, F) => F # {} /\ F \subseteq ResolveAdminScope(a)
         /\ \A p : AllowsProject(a, p) => p \in Reach(a)
         /\ \A u : MayManage(a, u) => Shares(a, u)
BY DEF Shares, UserInScope, Reach, InScope, AllowsAllProjects, AllowsProject, MayManage, RequireTargetInAdminProjects

LEMMA ShownSets ==
  ASSUME NEW a, ~IsRoot(a)
  PROVE  /\ \A U : (\A u \in U : Shares(a, u)) => AllShown(a, U_(U))
         /\ \A P : P \subseteq Reach(a) => AllShown(a, P_(P))
         /\ \A G : (\A g \in G : InScope(a, UserFootprint(g))) => AllShown(a, G_(G))
         /\ \A X : (\A x \in X : InScope(a, ProjectFootprint(x))) => AllShown(a, X_(X))
<1>1. ASSUME NEW U, \A u \in U : Shares(a, u) PROVE AllShown(a, U_(U))
  BY <1>1, ShownKinds DEF AllShown, U_
<1>2. ASSUME NEW P, P \subseteq Reach(a) PROVE AllShown(a, P_(P))
  BY <1>2, ShownKinds DEF AllShown, P_
<1>3. ASSUME NEW G, \A g \in G : InScope(a, UserFootprint(g)) PROVE AllShown(a, G_(G))
  <2>1. \A g \in G : UserFootprint(g) # {} /\ UserFootprint(g) \subseteq ResolveAdminScope(a)
    BY <1>3, Filters
  <2> QED BY <2>1, ShownKinds DEF AllShown, G_
<1>4. ASSUME NEW X, \A x \in X : InScope(a, ProjectFootprint(x)) PROVE AllShown(a, X_(X))
  <2>1. \A x \in X : ProjectFootprint(x) # {} /\ ProjectFootprint(x) \subseteq ResolveAdminScope(a)
    BY <1>4, Filters
  <2> QED BY <2>1, ShownKinds DEF AllShown, X_
<1> QED BY <1>1, <1>2, <1>3, <1>4

LEMMA UserGroupReads ==
  ASSUME NEW a, ~IsRoot(a), NEW g \in UGroups
  PROVE  /\ AllShown(a, get_user_group_details(a, g).items)
         /\ AllShown(a, list_project_groups_for_user_group(a, g).items)
         /\ AllShown(a, get_group_members_with_pagination(a, g).items)
<1>1. AllShown(a, U_(VisibleUsers(a, GetUsersInGroup(g))))
  BY Filters, ShownSets DEF VisibleUsers
<1>2. AllShown(a, X_(VisibleProjectGroupLinks(a, GetProjectGroupsForUserGroup(g))))
  BY ShownSets DEF VisibleProjectGroupLinks
<1>3. ASSUME SeesUserGroup(a, g) PROVE AllShown(a, G_({g})) /\ AllShown(a, P_(GetProjectsForUserGroup(g)))
  <2>1. InScope(a, UserFootprint(g))
    BY <1>3 DEF SeesUserGroup
  <2>2. GetProjectsForUserGroup(g) \subseteq UserFootprint(g)
    <3> SUFFICES ASSUME NEW p \in GetProjectsForUserGroup(g) PROVE p \in UserFootprint(g)
      OBVIOUS
    <3>1. p \in Projects
      BY DEF GetProjectsForUserGroup, GetProjectsInGroup
    <3>2. PICK x \in PGroups : <<g, x>> \in link /\ <<x, p>> \in cont
      BY <3>1, GroupReach
    <3>3. p \in ProjectFootprint(x)
      BY <3>1, <3>2 DEF ProjectFootprint
    <3> QED BY <3>2, <3>3 DEF UserFootprint
  <2>3. GetProjectsForUserGroup(g) \subseteq Reach(a)
    BY <2>1, <2>2, Filters DEF Reach
  <2> QED BY <2>1, <2>3, ShownSets
<1> QED BY <1>1, <1>2, <1>3, Replies, Unions
        DEF get_user_group_details, list_project_groups_for_user_group, get_group_members_with_pagination

LEMMA ProjectReads ==
  ASSUME NEW a, ~IsRoot(a), NEW p \in Projects
  PROVE  /\ AllShown(a, get_project_details(a, p).items)
         /\ AllShown(a, get_project_activity(a, p).items)
         /\ AllShown(a, get_detailed_project_stats(a, p).items)
         /\ AllShown(a, list_project_members(a, p).items)
         /\ AllShown(a, update_project_details(a, p).items)
         /\ AllShown(a, list_project_user_groups(a, p).items)
<1>1. ASSUME MayRead(a, p) \/ MayAdminister(a, p) PROVE p \in Reach(a) /\ AllShown(a, P_({p}))
  <2>1. p \in Reach(a)
    BY <1>1, Filters DEF MayRead, MayAdminister, Access, Reach
  <2> QED BY <2>1, ShownSets
<1>2. ASSUME MayRead(a, p)
      PROVE  AllShown(a, {<<"container", x>> : x \in GetProjectGroupsForProject(p)})
  <2>1. ASSUME NEW x \in GetProjectGroupsForProject(p) PROVE ProjectFootprint(x) \cap Reach(a) # {}
    BY <1>1, <1>2 DEF GetProjectGroupsForProject, ProjectFootprint
  <2> QED BY <2>1, ShownKinds DEF AllShown
<1>3. AllShown(a, {<<"own", g>> : g \in GetUserGroupsForUser(a)})
  <2>1. \A g \in GetUserGroupsForUser(a) : <<a, g>> \in mem
    BY DEF GetUserGroupsForUser
  <2> QED BY <2>1, ShownKinds DEF AllShown
<1>4. ASSUME MayAdminister(a, p) PROVE AllShown(a, U_(GetProjectMembersPage(p)))
  <2>1. \A u \in GetProjectMembersPage(p) : p \in Reach(u)
    BY DEF GetProjectMembersPage, Access, Reach
  <2>2. \A u \in GetProjectMembersPage(p) : Shares(a, u)
    BY <1>1, <1>4, <2>1 DEF Shares
  <2> QED BY <2>2, ShownSets
<1>5. AllShown(a, G_(VisibleGroups(a, GetUserGroupsForProject(p))))
  BY ShownSets DEF VisibleGroups
<1> QED BY <1>1, <1>2, <1>3, <1>4, <1>5, Replies, Unions
        DEF get_project_details, get_project_activity, get_detailed_project_stats, list_project_members,
            update_project_details, list_project_user_groups

\* The groups and projects of a user, whoever administers them.
LEMMA UserGroupsShown ==
  ASSUME NEW a, NEW u, Shares(a, u)
  PROVE  AllShown(a, MemberOf(u)) /\ \A S : S \subseteq Reach(u) => AllShown(a, Reaches(u, S))
<1>1. \A g \in GetUserGroupsForUser(u) : <<u, g>> \in mem
  BY DEF GetUserGroupsForUser
<1> QED BY <1>1, ShownOfUser DEF AllShown, MemberOf, Reaches

LEMMA UserReads ==
  ASSUME NEW a, ~IsRoot(a), NEW u
  PROVE  /\ AllShown(a, get_user_groups(a, u).items)
         /\ AllShown(a, get_user_details(a, u).items)
         /\ AllShown(a, get_user_type_information(a, u).items)
         /\ AllShown(a, get_admin_projects(a, u).items)
<1>1. ASSUME a = u \/ MayManage(a, u) \/ UserInScope(a, u) PROVE Shares(a, u) /\ AllShown(a, U_({u}))
  <2>1. Shares(a, u)
    BY <1>1, Filters DEF Shares
  <2> QED BY <2>1, ShownSets
<1>2. AllShown(a, G_(VisibleGroups(a, GetUserGroupsForUser(u))))
  BY ShownSets DEF VisibleGroups
<1>3. AllShown(a, get_user_details(a, u).items)
  <2>1. ASSUME a = u \/ MayManage(a, u)
        PROVE  AllShown(a, U_({u}) \cup MemberOf(u) \cup Reaches(u, GetUserAccessibleProjects(u)))
    <3>1. AllShown(a, U_({u})) /\ AllShown(a, MemberOf(u)) /\ AllShown(a, Reaches(u, GetUserAccessibleProjects(u)))
      BY <1>1, <2>1, UserGroupsShown DEF Reach
    <3> QED BY <3>1, Unions
  <2> QED BY <2>1, Replies DEF get_user_details
<1> QED BY <1>1, <1>2, <1>3, Replies, Unions
        DEF get_user_groups, get_user_type_information, get_admin_projects

\* Edges join active groups, so that what is listed as reached is reached.
LEMMA ListedIsReached ==
  ASSUME GraphInv, NEW u \in Users, NEW e \in ListedAccess(u)
  PROVE  e[2] \in Reach(u) /\ \E g \in UGroups : <<u, g>> \in mem /\ <<g, e[1]>> \in link
<1>1. PICK x \in PGroups, p \in Projects, g \in UGroups :
          e = <<x, p>> /\ <<x, p>> \in cont /\ proj[p] = "active" /\ <<u, g>> \in mem /\ <<g, x>> \in link
  BY DEF ListedAccess, GetProjectByHash
<1>2. Reached(u, p)
  BY <1>1 DEF Reached, Via, GraphInv, EdgesOK
<1> QED BY <1>1, <1>2, AccessIsReach DEF Access, Reach

LEMMA Lists ==
  ASSUME GraphInv, NEW a, ~IsRoot(a)
  PROVE  /\ AllShown(a, list_user_groups(a).items) /\ AllShown(a, list_project_groups(a).items)
         /\ AllShown(a, list_projects(a).items) /\ AllShown(a, get_user_profile(a).items)
         /\ AllShown(a, update_user_profile(a).items) /\ AllShown(a, get_user_type_statistics(a).items)
         /\ AllShown(a, get_user_access_summary(a).items) /\ AllShown(a, list_all_users(a).items)
         /\ AllShown(a, search_users_endpoint(a).items)
         /\ \A x \in PGroups : AllShown(a, get_project_group_details(a, x).items)
         /\ \A t \in UTypes : AllShown(a, list_users_by_type(a, t).items)
<1>1. AllShown(a, list_user_groups(a).items) /\ AllShown(a, list_project_groups(a).items)
  <2>1. /\ AllShown(a, G_(ScopedUserGroupPage(a))) /\ AllShown(a, X_(ScopedProjectGroupPage(a)))
    BY ShownSets DEF ScopedUserGroupPage, ScopedProjectGroupPage, VisibleGroups, VisibleProjectGroupLinks
  <2> QED BY <2>1, Replies DEF list_user_groups, list_project_groups
<1>2. AllShown(a, U_({a})) /\ AllShown(a, P_(GetUserAccessibleProjects(a))) /\ AllShown(a, P_(ResolveAdminScope(a)))
      /\ AllShown(a, P_({}))
  <2>1. Shares(a, a) /\ GetUserAccessibleProjects(a) \subseteq Reach(a) /\ ResolveAdminScope(a) \subseteq Reach(a)
        /\ {} \subseteq Reach(a)
    BY DEF Reach, Shares
  <2> HIDE DEF Reach
  <2>2. \A u \in {a} : Shares(a, u)
    BY <2>1
  <2>3. AllShown(a, U_({a}))
    BY <2>2, ShownSets
  <2> QED BY <2>1, <2>3, ShownSets
<1>3. AllShown(a, list_projects(a).items)
  <2>1. AllShown(a, P_(IF IsRoot(a) THEN {p \in Projects : proj[p] = "active"}
                       ELSE IF IsAdmin(a) THEN ResolveAdminScope(a) ELSE GetUserAccessibleProjects(a)))
    BY <1>2
  <2> QED BY <2>1, Replies DEF list_projects
<1>4. /\ AllShown(a, get_user_profile(a).items) /\ AllShown(a, update_user_profile(a).items)
      /\ AllShown(a, get_user_access_summary(a).items)
  BY <1>2, Replies, Unions DEF get_user_profile, update_user_profile, get_user_access_summary
<1>5. AllShown(a, get_user_type_statistics(a).items)
  <2>1. ASSUME IsAdmin(a) PROVE AllShown(a, P_(GetAdminAssignedProjects(a)))
    <3>1. GetAdminAssignedProjects(a) = ResolveAdminScope(a)
      BY <2>1 DEF IsAdmin, IsRoot, ResolveAdminScope
    <3> QED BY <1>2, <3>1
  <2> QED BY <2>1, Replies DEF get_user_type_statistics
<1>6. AllShown(a, list_all_users(a).items)
  <2> DEFINE listed == {u \in Users : utype[u] \in UTypes /\ (u = a \/ MayManage(a, u))}
             groups == UNION {MemberOf(u) : u \in listed}
             projects == UNION {Reaches(u, {e[2] : e \in ListedAccess(u)}) : u \in listed}
             between == UNION {{<<"through", <<u, e[1]>>>> : e \in ListedAccess(u)} : u \in listed}
  <2>1. \A u \in listed : u \in Users /\ Shares(a, u)
    BY Filters DEF Shares
  <2>2. \A u \in listed : {e[2] : e \in ListedAccess(u)} \subseteq Reach(u)
    BY <2>1, ListedIsReached
  <2>3. AllShown(a, U_(listed))
    BY <2>1, ShownSets
  <2>4. AllShown(a, groups)
    BY <2>1, UserGroupsShown DEF AllShown
  <2>5. AllShown(a, projects)
    <3>1. ASSUME NEW i \in projects PROVE Shown(a, i)
      <4>1. PICK u \in listed : i \in Reaches(u, {e[2] : e \in ListedAccess(u)})
        OBVIOUS
      <4>2. AllShown(a, Reaches(u, {e[2] : e \in ListedAccess(u)}))
        BY <2>1, <2>2, UserGroupsShown
      <4> QED BY <4>1, <4>2 DEF AllShown
    <3> QED BY <3>1 DEF AllShown
  <2>6. AllShown(a, between)
    <3>1. ASSUME NEW i \in between PROVE Shown(a, i)
      <4>1. PICK u \in listed : \E e \in ListedAccess(u) : i = <<"through", <<u, e[1]>>>>
        OBVIOUS
      <4>2. PICK e \in ListedAccess(u) : i = <<"through", <<u, e[1]>>>>
        BY <4>1
      <4>3. \E g \in UGroups : <<u, g>> \in mem /\ <<g, e[1]>> \in link
        BY <2>1, ListedIsReached
      <4> QED BY <2>1, <4>2, <4>3, ShownOfUser
    <3> QED BY <3>1 DEF AllShown
  <2>7. AllShown(a, U_(listed) \cup groups \cup projects \cup between)
    <3> HIDE DEF listed, groups, projects, between
    <3> QED BY <2>3, <2>4, <2>5, <2>6, Unions
  <2> QED BY <2>7, Replies DEF list_all_users
<1>7. AllShown(a, search_users_endpoint(a).items)
  <2>1. AllShown(a, U_(VisibleUsers(a, uact)))
    BY Filters, ShownSets DEF VisibleUsers
  <2> QED BY <2>1, Replies DEF search_users_endpoint
<1>8. ASSUME NEW x \in PGroups PROVE AllShown(a, get_project_group_details(a, x).items)
  <2>1. ASSUME AuthorizeProjectGroup(a, x) PROVE AllShown(a, P_(GetProjectsInGroup(x)) \cup X_({x}))
    <3>1. InScope(a, ProjectFootprint(x))
      BY <2>1 DEF AuthorizeProjectGroup
    <3>2. GetProjectsInGroup(x) \subseteq ProjectFootprint(x)
      BY DEF GetProjectsInGroup, ProjectFootprint
    <3>3. GetProjectsInGroup(x) \subseteq Reach(a)
      BY <3>1, <3>2, Filters DEF Reach
    <3>4. AllShown(a, P_(GetProjectsInGroup(x))) /\ AllShown(a, X_({x}))
      BY <3>1, <3>3, ShownSets
    <3> QED BY <3>4, Unions
  <2> QED BY <2>1, Replies DEF get_project_group_details
<1>9. ASSUME NEW t \in UTypes PROVE AllShown(a, list_users_by_type(a, t).items)
  <2> DEFINE listed == {u \in uact : utype[u] = t /\
              (IsRoot(a) \/ GetUserAccessibleProjects(u) \cap ResolveAdminScope(a) # {})}
  <2>1. \A u \in listed : Shares(a, u)
    BY DEF Reach, Shares
  <2>2. AllShown(a, U_(listed))
    BY <2>1, ShownSets
  <2> QED BY <2>2, Replies DEF list_users_by_type
<1> QED BY <1>1, <1>3, <1>4, <1>5, <1>6, <1>7, <1>8, <1>9

OwnReads(a) ==
    {list_user_groups(a), list_project_groups(a), list_projects(a), get_user_profile(a),
     update_user_profile(a), get_user_type_statistics(a),
     get_user_access_summary(a), list_all_users(a), search_users_endpoint(a)}
UserGroupReadsOf(a, g) ==
    {get_user_group_details(a, g), list_project_groups_for_user_group(a, g), get_group_members_with_pagination(a, g)}
ProjectReadsOf(a, p) ==
    {get_project_details(a, p), get_project_activity(a, p),
     get_detailed_project_stats(a, p), list_project_members(a, p),
     update_project_details(a, p), list_project_user_groups(a, p)}
UserReadsOf(a, u) ==
    {get_user_groups(a, u), get_user_details(a, u), get_user_type_information(a, u), get_admin_projects(a, u)}

\* What the read routes of the graph answer keeps to the caller's scope, whatever
\* interleaves: but for the state of the edges, it follows from their filters.
LEMMA GraphReads == GraphInv => GraphSeenInScope
<1> SUFFICES ASSUME GraphInv PROVE GraphSeenInScope
  OBVIOUS
<1>1. ASSUME NEW a, ~IsRoot(a), NEW resp \in Responses(a) PROVE AllShown(a, resp.items)
  <2>1. /\ \A q \in OwnReads(a) : AllShown(a, q.items)
        /\ \A g \in UGroups : \A q \in UserGroupReadsOf(a, g) : AllShown(a, q.items)
        /\ \A x \in PGroups : AllShown(a, get_project_group_details(a, x).items)
        /\ \A p \in Projects : \A q \in ProjectReadsOf(a, p) : AllShown(a, q.items)
        /\ \A u \in Users : \A q \in UserReadsOf(a, u) : AllShown(a, q.items)
        /\ \A t \in UTypes : AllShown(a, list_users_by_type(a, t).items)
    BY <1>1, Lists, UserGroupReads, ProjectReads, UserReads DEF OwnReads, UserGroupReadsOf, ProjectReadsOf, UserReadsOf
  <2>2. Responses(a) = OwnReads(a) \cup (UNION {UserGroupReadsOf(a, g) : g \in UGroups})
          \cup {get_project_group_details(a, x) : x \in PGroups} \cup (UNION {ProjectReadsOf(a, p) : p \in Projects})
          \cup (UNION {UserReadsOf(a, u) : u \in Users}) \cup {list_users_by_type(a, t) : t \in UTypes}
    BY DEF Responses, OwnReads, UserGroupReadsOf, ProjectReadsOf, UserReadsOf
  <2> QED BY <1>1, <2>1, <2>2
<1> QED BY <1>1 DEF GraphSeenInScope, AllShown

-----------------------------------------------------------------------------
(* Roles and permissions. *)

LinkMade(kind, from, to) ==
    /\ kind = "role" => from \in Roles /\ to \in PermGroups /\ st[from] # "new" /\ st[to] # "new"
    /\ kind = "perm" => from \in PermGroups /\ to \in Perms /\ st[from] # "new" /\ st[to] # "new"
    /\ kind \in {"ugroup", "user"} => to \in PermGroups /\ st[to] # "new"
RowsMade ==
    /\ st = [t \in Things |-> st[t]] /\ urole = [u \in Users |-> urole[u]]
    /\ \A kind, from, to : Linked(kind, from, to) => LinkMade(kind, from, to)
    /\ \A u \in Users : urole[u] = NoRole \/ (urole[u] \in Roles /\ st[urole[u]] # "new")

\* What a request was admitted for exists, and what the guard of a caller who is
\* not root has checked still holds while nobody with more authority has written.
LinkSafe(kind, to) ==
    /\ kind = "perm" => to \notin Reserved
    /\ kind \in {"role", "ugroup", "user"} => to \in PermGroups /\ ~GroupGrantsReserved(to)
RoleMade(k) == k = NoRole \/ (k \in Roles /\ st[k] # "new")
RoleSafe(k) == k \in Roles => ~RoleGrantsReserved(k)
AskMade(op, arg) ==
    /\ op = "link" => arg = <<arg[1], arg[2], arg[3]>> /\ LinkMade(arg[1], arg[2], arg[3])
    /\ op = "bulk_link" => \A e \in arg : \E g, h : e = <<"ugroup", g, h>> /\ h \in PermGroups /\ st[h] # "new"
    /\ op = "role" => RoleMade(arg[2])
    /\ op = "bulk_role" => arg = <<arg[1], arg[2]>> /\ RoleMade(arg[2])
AskSafe(op, arg) ==
    /\ op = "delete" => /\ arg \in Roles => ~RoleGrantsReserved(arg)
                        /\ arg \in PermGroups => ~GroupGrantsReserved(arg)
                        /\ arg \notin Reserved
    /\ op \in {"link", "unlink"} => arg = <<arg[1], arg[2], arg[3]>> /\ LinkSafe(arg[1], arg[3])
    /\ op = "bulk_link" =>
          \A e \in arg : \E g, h : e = <<"ugroup", g, h>> /\ h \in PermGroups /\ ~GroupGrantsReserved(h)
    /\ op = "role" => arg[1] \in Users /\ ~HoldsReservedRole(arg[1]) /\ RoleSafe(arg[2])
    /\ op = "bulk_role" => /\ \A u \in arg[1] : u \in Users /\ ~HoldsReservedRole(u)
                           /\ RoleSafe(arg[2])
AskOK(r) ==
    /\ r = [by |-> r.by, root |-> r.root, op |-> r.op, arg |-> r.arg, fresh |-> r.fresh]
    /\ AskMade(r.op, r.arg)
    /\ r.root \/ ~r.fresh \/ AskSafe(r.op, r.arg)
PermInv == RowsMade /\ \A r \in asks : AskOK(r)

\* A reserved permission, through a permission group, to who holds the group.
Gives(h, m) == m \in Reserved /\ Linked("perm", h, m) /\ Active(m)
HasRole(u, k) == u \in uact /\ urole[u] = k /\ Active(k)
Holds(u, h) ==
    \/ \E k \in Roles : HasRole(u, k) /\ Linked("role", k, h)
    \/ \E g \in UGroups : <<u, g>> \in mem /\ ActiveUG(g) /\ Linked("ugroup", g, h)
    \/ Linked("user", u, h)

LEMMA Granting ==
  /\ \A h : GroupGrantsReserved(h) <=> \E m \in Perms : Gives(h, m)
  /\ \A k : RoleGrantsReserved(k) <=> \E h \in PermGroups : Linked("role", k, h) /\ Active(h) /\ GroupGrantsReserved(h)
  /\ \A u : HoldsReservedRole(u) <=> \E k \in Roles : HasRole(u, k) /\ RoleGrantsReserved(k)
BY PermAssumption DEF GroupGrantsReserved, RoleGrantsReserved, HoldsReservedRole, Gives, HasRole,
   get_permission_group_permissions, get_role_permission_groups, get_user_role

LEMMA GrantingNext ==
  /\ \A h : GroupGrantsReserved(h)' <=> \E m \in Perms : Gives(h, m)'
  /\ \A k : RoleGrantsReserved(k)' <=> \E h \in PermGroups : Linked("role", k, h)' /\ Active(h)' /\ GroupGrantsReserved(h)'
  /\ \A u : HoldsReservedRole(u)' <=> \E k \in Roles : HasRole(u, k)' /\ RoleGrantsReserved(k)'
BY PermAssumption DEF GroupGrantsReserved, RoleGrantsReserved, HoldsReservedRole, Gives, HasRole,
   get_permission_group_permissions, get_role_permission_groups, get_user_role, Active, Linked

LEMMA Holding ==
  ASSUME NEW u, NEW m
  PROVE  m \in HeldReserved(u) <=> m \in Perms /\ \E h \in PermGroups : Gives(h, m) /\ Active(h) /\ Holds(u, h)
<1>1. \A h : h \in RoleGroups(u) <=> h \in PermGroups /\ Active(h) /\ \E k \in Roles : HasRole(u, k) /\ Linked("role", k, h)
  <2> TAKE h
  <2>1. h \in RoleGroups(u) <=> \E k \in get_user_role(u) : h \in get_role_permission_groups(k)
    BY DEF RoleGroups
  <2>2. \A k : k \in get_user_role(u) <=> k \in Roles /\ HasRole(u, k)
    BY DEF get_user_role, HasRole
  <2>3. \A k : h \in get_role_permission_groups(k) <=> h \in PermGroups /\ Linked("role", k, h) /\ Active(h)
    BY DEF get_role_permission_groups
  <2> QED BY <2>1, <2>2, <2>3
<1>2. \A h : h \in MemberGroups(u) <=>
             h \in PermGroups /\ Active(h) /\ \E g \in UGroups : <<u, g>> \in mem /\ ActiveUG(g) /\ Linked("ugroup", g, h)
  <2> TAKE h
  <2>1. h \in MemberGroups(u) <=> \E g \in GetUserGroupsForUser(u) : h \in get_user_group_permission_groups(g)
    BY DEF MemberGroups
  <2>2. \A g : g \in GetUserGroupsForUser(u) <=> g \in UGroups /\ <<u, g>> \in mem /\ ActiveUG(g)
    BY DEF GetUserGroupsForUser
  <2>3. \A g : h \in get_user_group_permission_groups(g) <=> h \in PermGroups /\ Linked("ugroup", g, h) /\ Active(h)
    BY DEF get_user_group_permission_groups
  <2> QED BY <2>1, <2>2, <2>3
<1>3. \A h : h \in get_user_permission_groups(u) <=> h \in PermGroups /\ Active(h) /\ Linked("user", u, h)
  BY DEF get_user_permission_groups
<1> DEFINE H == RoleGroups(u) \cup MemberGroups(u) \cup get_user_permission_groups(u)
<1>4. \A h : h \in H <=> h \in PermGroups /\ Active(h) /\ Holds(u, h)
  BY <1>1, <1>2, <1>3 DEF Holds
<1>6. m \in HeldReserved(u) <=> m \in PermsOf(H) /\ m \in Reserved
  BY DEF HeldReserved, get_user_all_permissions, H
<1> HIDE DEF H
<1>5. m \in PermsOf(H) <=> \E h \in H : m \in Perms /\ Linked("perm", h, m) /\ Active(m)
  BY DEF PermsOf, get_permission_group_permissions
<1> QED BY <1>4, <1>5, <1>6 DEF Gives

LEMMA HoldingNext ==
  ASSUME NEW u, NEW m
  PROVE  m \in HeldReserved(u)' <=> m \in Perms /\ \E h \in PermGroups : Gives(h, m)' /\ Active(h)' /\ Holds(u, h)'
<1>1. \A h : h \in RoleGroups(u)' <=> (h \in PermGroups /\ Active(h)' /\ \E k \in Roles : HasRole(u, k)' /\ Linked("role", k, h)')
  <2> TAKE h
  <2>1. h \in RoleGroups(u)' <=> \E k \in get_user_role(u)' : h \in get_role_permission_groups(k)'
    BY DEF RoleGroups
  <2>2. \A k : k \in get_user_role(u)' <=> k \in Roles /\ HasRole(u, k)'
    BY DEF get_user_role, HasRole, Active
  <2>3. \A k : h \in get_role_permission_groups(k)' <=> h \in PermGroups /\ Linked("role", k, h)' /\ Active(h)'
    BY DEF get_role_permission_groups, Linked, Active
  <2> QED BY <2>1, <2>2, <2>3
<1>2. \A h : h \in MemberGroups(u)' <=>
             (h \in PermGroups /\ Active(h)' /\ \E g \in UGroups : <<u, g>> \in mem' /\ ActiveUG(g)' /\ Linked("ugroup", g, h)')
  <2> TAKE h
  <2>1. h \in MemberGroups(u)' <=> \E g \in GetUserGroupsForUser(u)' : h \in get_user_group_permission_groups(g)'
    BY DEF MemberGroups
  <2>2. \A g : g \in GetUserGroupsForUser(u)' <=> g \in UGroups /\ <<u, g>> \in mem' /\ ActiveUG(g)'
    BY DEF GetUserGroupsForUser, ActiveUG
  <2>3. \A g : h \in get_user_group_permission_groups(g)' <=> h \in PermGroups /\ Linked("ugroup", g, h)' /\ Active(h)'
    BY DEF get_user_group_permission_groups, Linked, Active
  <2> QED BY <2>1, <2>2, <2>3
<1>3. \A h : h \in get_user_permission_groups(u)' <=> (h \in PermGroups /\ Active(h)' /\ Linked("user", u, h)')
  BY DEF get_user_permission_groups, Linked, Active
<1> DEFINE H == (RoleGroups(u) \cup MemberGroups(u) \cup get_user_permission_groups(u))'
<1>4. \A h : h \in H <=> (h \in PermGroups /\ Active(h)' /\ Holds(u, h)')
  BY <1>1, <1>2, <1>3 DEF Holds, HasRole, Linked, Active, ActiveUG
<1>5. m \in HeldReserved(u)' <=> m \in Reserved /\ \E h \in H : m \in get_permission_group_permissions(h)'
  BY DEF HeldReserved, get_user_all_permissions, PermsOf
<1> HIDE DEF H
<1>6. \A h : m \in get_permission_group_permissions(h)' <=> (m \in Perms /\ Linked("perm", h, m)' /\ Active(m)')
  BY DEF get_permission_group_permissions, Linked, Active
<1> QED BY <1>4, <1>5, <1>6 DEF Gives, Linked, Active

\* A write that gives and takes no reserved permission: what the groups give, who
\* the groups that give something are linked to, and who has the roles they are in.
Quiet ==
    /\ \A h \in PermGroups, m \in Perms : Gives(h, m)' <=> Gives(h, m)
    /\ \A h \in PermGroups : GroupGrantsReserved(h) =>
          /\ Active(h)' <=> Active(h)
          /\ \A k \in Roles : Linked("role", k, h)' <=> Linked("role", k, h)
          /\ \A g \in UGroups : Linked("ugroup", g, h)' <=> Linked("ugroup", g, h)
          /\ \A u \in Users : Linked("user", u, h)' <=> Linked("user", u, h)
    /\ \A k \in Roles : RoleGrantsReserved(k) => \A u \in Users : HasRole(u, k)' <=> HasRole(u, k)

LEMMA QuietGrants ==
  ASSUME Quiet
  PROVE  /\ \A h \in PermGroups : GroupGrantsReserved(h)' <=> GroupGrantsReserved(h)
         /\ \A k \in Roles : RoleGrantsReserved(k)' <=> RoleGrantsReserved(k)
         /\ \A u \in Users : HoldsReservedRole(u)' <=> HoldsReservedRole(u)
<1>1. \A h \in PermGroups : GroupGrantsReserved(h)' <=> GroupGrantsReserved(h)
  BY Granting, GrantingNext DEF Quiet
<1>2. \A k \in Roles : RoleGrantsReserved(k)' <=> RoleGrantsReserved(k)
  <2> TAKE k \in Roles
  <2>1. \A h \in PermGroups : GroupGrantsReserved(h) =>
            ((Linked("role", k, h)' /\ Active(h)') <=> (Linked("role", k, h) /\ Active(h)))
    BY DEF Quiet
  <2> QED BY <1>1, <2>1, Granting, GrantingNext
<1>3. \A u \in Users : HoldsReservedRole(u)' <=> HoldsReservedRole(u)
  <2> TAKE u \in Users
  <2>1. \A k \in Roles : RoleGrantsReserved(k) => (HasRole(u, k)' <=> HasRole(u, k))
    BY DEF Quiet
  <2> QED BY <1>2, <2>1, Granting, GrantingNext
<1> QED BY <1>1, <1>2, <1>3

LEMMA QuietKeeps ==
  ASSUME Quiet, UNCHANGED <<mem, ug>>, NEW u \in Users
  PROVE  HeldReserved(u)' = HeldReserved(u)
<1>1. \A g : ActiveUG(g)' <=> ActiveUG(g)
  BY DEF ActiveUG
<1>2. ASSUME NEW m \in Perms, NEW h \in PermGroups, Gives(h, m), Active(h)
      PROVE  Holds(u, h)' <=> Holds(u, h)
  <2>1. GroupGrantsReserved(h)
    BY <1>2, Granting
  <2>2. Active(h)' /\ Gives(h, m)'
    BY <1>2, <2>1 DEF Quiet
  <2>3. \A k \in Roles : Linked("role", k, h)' <=> Linked("role", k, h)
    BY <2>1 DEF Quiet
  <2>4. \A k \in Roles : Linked("role", k, h) => (HasRole(u, k)' <=> HasRole(u, k))
    <3> SUFFICES ASSUME NEW k \in Roles, Linked("role", k, h) PROVE HasRole(u, k)' <=> HasRole(u, k)
      OBVIOUS
    <3>1. RoleGrantsReserved(k)
      BY <1>2, <2>1, Granting
    <3> QED BY <3>1 DEF Quiet
  <2>5. /\ \A g \in UGroups : Linked("ugroup", g, h)' <=> Linked("ugroup", g, h)
        /\ Linked("user", u, h)' <=> Linked("user", u, h)
    BY <2>1 DEF Quiet
  <2>6. Holds(u, h)' <=> \/ \E k \in Roles : HasRole(u, k)' /\ Linked("role", k, h)'
                         \/ \E g \in UGroups : <<u, g>> \in mem' /\ ActiveUG(g)' /\ Linked("ugroup", g, h)'
                         \/ Linked("user", u, h)'
    BY DEF Holds, HasRole, Linked, Active, ActiveUG
  <2>7. (\E k \in Roles : HasRole(u, k)' /\ Linked("role", k, h)') <=> \E k \in Roles : HasRole(u, k) /\ Linked("role", k, h)
    BY <2>3, <2>4
  <2>8. (\E g \in UGroups : <<u, g>> \in mem' /\ ActiveUG(g)' /\ Linked("ugroup", g, h)') <=>
        \E g \in UGroups : <<u, g>> \in mem /\ ActiveUG(g) /\ Linked("ugroup", g, h)
    BY <1>1, <2>5
  <2> QED BY <2>5, <2>6, <2>7, <2>8 DEF Holds
<1>3. ASSUME NEW m PROVE m \in HeldReserved(u)' <=> m \in HeldReserved(u)
  <2>1. ASSUME NEW h \in PermGroups, m \in Perms
        PROVE  (Gives(h, m)' /\ Active(h)' /\ Holds(u, h)') <=> (Gives(h, m) /\ Active(h) /\ Holds(u, h))
    <3>1. Gives(h, m)' <=> Gives(h, m)
      BY <2>1 DEF Quiet
    <3>2. Gives(h, m) => (Active(h)' <=> Active(h))
      BY <2>1, Granting DEF Quiet
    <3> QED BY <1>2, <2>1, <3>1, <3>2
  <2> QED BY <2>1, Holding, HoldingNext
<1> QED BY <1>3

\* No reserved permission is granted where it was not.
NothingMore ==
    /\ \A h \in PermGroups : GroupGrantsReserved(h)' => GroupGrantsReserved(h)
    /\ \A k \in Roles : RoleGrantsReserved(k)' => RoleGrantsReserved(k)
    /\ \A u \in Users : HoldsReservedRole(u)' => HoldsReservedRole(u)

LEMMA QuietIsEnough == ASSUME Quiet PROVE NothingMore
BY QuietGrants DEF NothingMore

\* What a request was admitted for stays in existence, and what its guard saw
\* stands, through a step that grants nothing more.
LEMMA AskMoves ==
  ASSUME NEW op, NEW arg
  PROVE  /\ (\A t \in Things : st[t] # "new" => st'[t] # "new") /\ AskMade(op, arg) => AskMade(op, arg)'
         /\ NothingMore /\ AskSafe(op, arg) => AskSafe(op, arg)'
<1>1. ASSUME \A t \in Things : st[t] # "new" => st'[t] # "new", AskMade(op, arg) PROVE AskMade(op, arg)'
  <2>1. \A t : t \in Roles \/ t \in PermGroups \/ t \in Perms => (st[t] # "new" => st'[t] # "new")
    BY <1>1 DEF Things
  <2>2. \A kind, from, to : LinkMade(kind, from, to) => LinkMade(kind, from, to)'
    BY <2>1 DEF LinkMade
  <2>3. \A k : RoleMade(k) => RoleMade(k)'
    BY <2>1 DEF RoleMade
  <2>4. op = "link" => arg = <<arg[1], arg[2], arg[3]>> /\ LinkMade(arg[1], arg[2], arg[3])'
    BY <1>1, <2>2 DEF AskMade
  <2>5. op = "bulk_link" => \A e \in arg : \E g, h : e = <<"ugroup", g, h>> /\ h \in PermGroups /\ st'[h] # "new"
    BY <1>1, <2>1 DEF AskMade
  <2>6. (op = "role" => RoleMade(arg[2])') /\ (op = "bulk_role" => arg = <<arg[1], arg[2]>> /\ RoleMade(arg[2])')
    BY <1>1, <2>3 DEF AskMade
  <2> QED BY <2>4, <2>5, <2>6 DEF AskMade, LinkMade, RoleMade
<1>2. ASSUME NothingMore, AskSafe(op, arg) PROVE AskSafe(op, arg)'
  <2>1. /\ \A h \in PermGroups : GroupGrantsReserved(h)' => GroupGrantsReserved(h)
        /\ \A k \in Roles : RoleGrantsReserved(k)' => RoleGrantsReserved(k)
        /\ \A u \in Users : HoldsReservedRole(u)' => HoldsReservedRole(u)
    BY <1>2 DEF NothingMore
  <2>2. \A kind, to : LinkSafe(kind, to) => LinkSafe(kind, to)'
    BY <2>1 DEF LinkSafe
  <2>3. \A k : RoleSafe(k) => RoleSafe(k)'
    BY <2>1 DEF RoleSafe
  <2>4. op = "delete" => /\ arg \in Roles => ~RoleGrantsReserved(arg)'
                         /\ arg \in PermGroups => ~GroupGrantsReserved(arg)'
                         /\ arg \notin Reserved
    BY <1>2, <2>1 DEF AskSafe
  <2>5. op \in {"link", "unlink"} => arg = <<arg[1], arg[2], arg[3]>> /\ LinkSafe(arg[1], arg[3])'
    BY <1>2, <2>2 DEF AskSafe
  <2>6. op = "bulk_link" => \A e \in arg : \E g, h : e = <<"ugroup", g, h>> /\ h \in PermGroups /\ ~GroupGrantsReserved(h)'
    BY <1>2, <2>1 DEF AskSafe
  <2>7. op = "role" => arg[1] \in Users /\ ~HoldsReservedRole(arg[1])' /\ RoleSafe(arg[2])'
    BY <1>2, <2>1, <2>3 DEF AskSafe
  <2>8. op = "bulk_role" => (\A u \in arg[1] : u \in Users /\ ~HoldsReservedRole(u)') /\ RoleSafe(arg[2])'
    BY <1>2, <2>1, <2>3 DEF AskSafe
  <2> QED BY <2>4, <2>5, <2>6, <2>7, <2>8
          DEF AskSafe, LinkSafe, RoleSafe, GroupGrantsReserved, RoleGrantsReserved, HoldsReservedRole,
              get_permission_group_permissions, get_role_permission_groups, get_user_role, Linked, Active
<1> QED BY <1>1, <1>2

LEMMA AskStays ==
  ASSUME NEW x, AskOK(x), ~x.fresh \/ NothingMore, \A t \in Things : st[t] # "new" => st'[t] # "new"
  PROVE  AskOK(x)'
<1>1. PICK op, arg : op = x.op /\ arg = x.arg
  OBVIOUS
<1>2. AskMade(op, arg) /\ (x.root \/ ~x.fresh \/ AskSafe(op, arg))
  BY <1>1 DEF AskOK
<1>3. AskMade(op, arg)' /\ (x.root \/ ~x.fresh \/ AskSafe(op, arg)')
  BY <1>2, AskMoves
<1>4. x = [by |-> x.by, root |-> x.root, op |-> x.op, arg |-> x.arg, fresh |-> x.fresh]
  BY DEF AskOK
<1> QED BY <1>1, <1>3, <1>4 DEF AskOK

\* A request that was overtaken is held to nothing but its form.
LEMMA Overtaken ==
  ASSUME NEW y, AskOK(y), NEW x, x = [y EXCEPT !.fresh = FALSE], \A t \in Things : st[t] # "new" => st'[t] # "new"
  PROVE  AskOK(x)'
<1>1. y = [by |-> y.by, root |-> y.root, op |-> y.op, arg |-> y.arg, fresh |-> y.fresh]
  BY DEF AskOK
<1>2. x = [by |-> x.by, root |-> x.root, op |-> x.op, arg |-> x.arg, fresh |-> x.fresh] /\ ~x.fresh
      /\ x.op = y.op /\ x.arg = y.arg
  BY <1>1
<1>3. AskMade(x.op, x.arg)
  BY <1>2 DEF AskOK
<1> QED BY <1>2, <1>3, AskStays DEF AskOK

LEMMA Stored ==
  ASSUME NEW r \in asks, NEW more, StoreAnd(r, more), \A x \in asks : AskOK(x), \A x \in more : AskOK(x)',
         \A t \in Things : st[t] # "new" => st'[t] # "new", r.root \/ ~r.fresh \/ Quiet
  PROVE  \A x \in asks' : AskOK(x)'
<1>1. CASE r.root \/ ~r.fresh
  <2>1. \A x \in asks' : x \in more \/ \E y \in asks : x = [y EXCEPT !.fresh = FALSE]
    BY <1>1 DEF StoreAnd
  <2> QED BY <2>1, Overtaken
<1>2. CASE Quiet /\ ~(r.root \/ ~r.fresh)
  <2>1. \A x \in asks' : x \in more \/ x \in asks
    BY <1>2 DEF StoreAnd
  <2> QED BY <1>2, <2>1, AskStays, QuietIsEnough
<1> QED BY <1>1, <1>2

LEMMA StoreKeeps ==
  ASSUME NEW r, NEW more, StoreAnd(r, more)
  PROVE  UNCHANGED <<uact, mem, ug>>
BY DEF StoreAnd, graph, people, nodes, edges

\* What every write of a request leaves behind.
WriteKept(r) ==
    /\ RowsMade' /\ \A x \in asks' : AskOK(x)'
    /\ r.root \/ ~r.fresh \/ Quiet
    /\ UNCHANGED <<mem, ug>>

LEMMA WriteKeeps ==
  ASSUME NEW r \in asks, PermInv, Store(r), RowsMade', \A t \in Things : st[t] # "new" => st'[t] # "new",
         AskSafe(r.op, r.arg) => Quiet
  PROVE  WriteKept(r)
<1>1. r.root \/ ~r.fresh \/ Quiet
  BY DEF PermInv, AskOK
<1>2. StoreAnd(r, {})
  BY DEF Store
<1>3. \A x \in {} : AskOK(x)'
  OBVIOUS
<1>4. \A x \in asks' : AskOK(x)'
  BY <1>1, <1>2, <1>3, Stored DEF PermInv
<1> QED BY <1>1, <1>2, <1>4, StoreKeeps DEF WriteKept

LEMMA CreateRow ==
  ASSUME NEW r \in asks, PermInv, create_row(r), r.arg \in Things
  PROVE  WriteKept(r)
<1>1. PICK c : c = r.arg
  OBVIOUS
<1>2. /\ c \in Things /\ st[c] = "new" /\ Store(r) /\ st' = [st EXCEPT ![c] = "active"]
      /\ UNCHANGED <<urole, edge>> /\ uact' = uact
  BY <1>1, StoreKeeps DEF create_row, Store
<1>3. st' = [t \in Things |-> st'[t]] /\ \A t \in Things : st'[t] = IF t = c THEN "active" ELSE st[t]
  BY <1>2 DEF PermInv, RowsMade
<1>4. \A t \in Things : st[t] # "new" => st'[t] = st[t]
  BY <1>2, <1>3
<1>5. RowsMade'
  <2>1. \A t : t \in Roles \/ t \in PermGroups \/ t \in Perms => (st[t] # "new" => st'[t] # "new")
    BY <1>4 DEF Things
  <2>2. \A kind, from, to : LinkMade(kind, from, to) => LinkMade(kind, from, to)'
    BY <2>1 DEF LinkMade
  <2> QED BY <1>2, <1>3, <2>1, <2>2 DEF PermInv, RowsMade, Linked
<1>6. Quiet
  <2>1. ASSUME NEW h \in PermGroups, NEW m \in Perms PROVE Gives(h, m)' <=> Gives(h, m)
    <3>1. Linked("perm", h, m) => st[m] # "new" /\ m \in Things
      BY DEF PermInv, RowsMade, LinkMade, Things
    <3> QED BY <1>2, <1>4, <3>1 DEF Gives, Linked, Active
  <2>2. ASSUME NEW h \in PermGroups, GroupGrantsReserved(h) PROVE Active(h)' <=> Active(h)
    <3>1. st[h] # "new" /\ h \in Things
      BY <2>2, Granting DEF PermInv, RowsMade, LinkMade, Things, Gives
    <3> QED BY <1>4, <3>1 DEF Active
  <2>3. ASSUME NEW k \in Roles, NEW u \in Users PROVE HasRole(u, k)' <=> HasRole(u, k)
    <3>1. urole[u] = k => st[k] # "new" /\ k \in Things
      BY PermAssumption DEF PermInv, RowsMade, Things
    <3> QED BY <1>2, <1>4, <3>1 DEF HasRole, Active
  <2> QED BY <1>2, <2>1, <2>2, <2>3 DEF Quiet, Linked
<1> QED BY <1>2, <1>4, <1>5, <1>6, WriteKeeps

LEMMA DeleteRow ==
  ASSUME NEW r \in asks, PermInv, delete_row(r), r.arg \in Things
  PROVE  WriteKept(r)
<1>1. PICK c : c = r.arg
  OBVIOUS
<1>2. /\ c \in Things /\ r.op = "delete" /\ Store(r) /\ st' = [st EXCEPT ![c] = "deleted"]
      /\ UNCHANGED <<urole, edge>> /\ uact' = uact
  BY <1>1, StoreKeeps DEF delete_row, Store
<1>3. st' = [t \in Things |-> st'[t]] /\ \A t \in Things : st'[t] = IF t = c THEN "deleted" ELSE st[t]
  BY <1>2 DEF PermInv, RowsMade
<1>4. \A t \in Things : st[t] # "new" => st'[t] # "new"
  BY <1>2, <1>3
<1>5. RowsMade'
  <2>1. \A t : t \in Roles \/ t \in PermGroups \/ t \in Perms => (st[t] # "new" => st'[t] # "new")
    BY <1>4 DEF Things
  <2>2. \A kind, from, to : LinkMade(kind, from, to) => LinkMade(kind, from, to)'
    BY <2>1 DEF LinkMade
  <2> QED BY <1>2, <1>3, <2>1, <2>2 DEF PermInv, RowsMade, Linked
<1>6. ASSUME AskSafe(r.op, r.arg) PROVE Quiet
  <2>0. (c \in Roles => ~RoleGrantsReserved(c)) /\ (c \in PermGroups => ~GroupGrantsReserved(c)) /\ c \notin Reserved
    BY <1>1, <1>2, <1>6 DEF AskSafe
  <2>1. ASSUME NEW h \in PermGroups, NEW m \in Perms PROVE Gives(h, m)' <=> Gives(h, m)
    <3>1. m \in Reserved => st'[m] = st[m]
      BY <1>3, <2>0 DEF Things
    <3> QED BY <1>2, <3>1 DEF Gives, Linked, Active
  <2>2. ASSUME NEW h \in PermGroups, GroupGrantsReserved(h) PROVE Active(h)' <=> Active(h)
    <3>1. st'[h] = st[h]
      BY <1>3, <2>0, <2>2 DEF Things
    <3> QED BY <3>1 DEF Active
  <2>3. ASSUME NEW k \in Roles, RoleGrantsReserved(k), NEW u \in Users PROVE HasRole(u, k)' <=> HasRole(u, k)
    <3>1. st'[k] = st[k]
      BY <1>3, <2>0, <2>3 DEF Things
    <3> QED BY <1>2, <3>1 DEF HasRole, Active
  <2> QED BY <1>2, <2>1, <2>2, <2>3 DEF Quiet, Linked
<1> QED BY <1>2, <1>4, <1>5, <1>6, WriteKeeps

LEMMA UpdateRow ==
  ASSUME NEW r \in asks, PermInv, update_row(r)
  PROVE  WriteKept(r)
<1>1. Store(r) /\ UNCHANGED <<st, urole, edge>> /\ uact' = uact
  BY StoreKeeps DEF update_row, Store, perm
<1>2. RowsMade'
  BY <1>1 DEF PermInv, RowsMade, LinkMade, Linked
<1>3. Quiet
  BY <1>1 DEF Quiet, Gives, HasRole, Linked, Active
<1> QED BY <1>1, <1>2, <1>3, WriteKeeps

\* Links: nothing else changes.
LEMMA LinksChanged ==
  ASSUME UNCHANGED <<st, urole, uact>>, RowsMade,
         \A kind, from, to : Linked(kind, from, to)' => Linked(kind, from, to) \/ LinkMade(kind, from, to)
  PROVE  /\ RowsMade'
         /\ (\A kind, from, to : (Linked(kind, from, to)' <=> Linked(kind, from, to)) \/ LinkSafe(kind, to)) => Quiet
<1>1. RowsMade'
  <2>1. \A kind, from, to : Linked(kind, from, to)' => LinkMade(kind, from, to)
    BY DEF RowsMade
  <2> QED BY <2>1 DEF RowsMade, LinkMade
<1>2. ASSUME \A kind, from, to : (Linked(kind, from, to)' <=> Linked(kind, from, to)) \/ LinkSafe(kind, to)
      PROVE  Quiet
  <2>1. ASSUME NEW h \in PermGroups, NEW m \in Perms PROVE Gives(h, m)' <=> Gives(h, m)
    <3>1. m \in Reserved => (Linked("perm", h, m)' <=> Linked("perm", h, m))
      BY <1>2 DEF LinkSafe
    <3>2. Gives(h, m)' <=> (m \in Reserved /\ Linked("perm", h, m)' /\ Active(m)')
      BY DEF Gives, Linked, Active
    <3> QED BY <3>1, <3>2 DEF Gives, Active
  <2>2. ASSUME NEW h \in PermGroups, GroupGrantsReserved(h), NEW from
        PROVE  /\ Linked("role", from, h)' <=> Linked("role", from, h)
               /\ Linked("ugroup", from, h)' <=> Linked("ugroup", from, h)
               /\ Linked("user", from, h)' <=> Linked("user", from, h)
    BY <1>2, <2>2 DEF LinkSafe
  <2>3. \A h \in PermGroups : Active(h)' <=> Active(h)
    BY DEF Active
  <2>4. \A k \in Roles, u \in Users : HasRole(u, k)' <=> HasRole(u, k)
    BY DEF HasRole, Active
  <2> QED BY <2>1, <2>2, <2>3, <2>4 DEF Quiet
<1> QED BY <1>1, <1>2

LEMMA LinkRows ==
  ASSUME NEW r \in asks, PermInv, link_rows(r)
  PROVE  WriteKept(r)
<1>1. r.op = "link" /\ Store(r) /\ edge' = edge \cup {r.arg} /\ UNCHANGED <<st, urole, uact>>
  BY StoreKeeps DEF link_rows, Store
<1>2. r.arg = <<r.arg[1], r.arg[2], r.arg[3]>> /\ LinkMade(r.arg[1], r.arg[2], r.arg[3])
  BY <1>1 DEF PermInv, AskOK, AskMade
<1>3. \A kind, from, to : Linked(kind, from, to)' <=>
          (Linked(kind, from, to) \/ (kind = r.arg[1] /\ from = r.arg[2] /\ to = r.arg[3]))
  BY <1>1, <1>2 DEF Linked
<1>4. \A kind, from, to : Linked(kind, from, to)' => Linked(kind, from, to) \/ LinkMade(kind, from, to)
  BY <1>2, <1>3
<1>5. ASSUME AskSafe(r.op, r.arg) PROVE Quiet
  <2>1. LinkSafe(r.arg[1], r.arg[3])
    BY <1>1, <1>5 DEF AskSafe
  <2>2. \A kind, from, to : (Linked(kind, from, to)' <=> Linked(kind, from, to)) \/ LinkSafe(kind, to)
    BY <1>3, <2>1
  <2> QED BY <1>1, <1>4, <2>2, LinksChanged DEF PermInv
<1>6. RowsMade'
  BY <1>1, <1>4, LinksChanged DEF PermInv
<1> QED BY <1>1, <1>5, <1>6, WriteKeeps

LEMMA UnlinkRows ==
  ASSUME NEW r \in asks, PermInv, unlink_rows(r)
  PROVE  WriteKept(r)
<1>1. r.op = "unlink" /\ Store(r) /\ edge' = edge \ {r.arg} /\ UNCHANGED <<st, urole, uact>>
  BY StoreKeeps DEF unlink_rows, Store
<1>4. \A kind, from, to : Linked(kind, from, to)' => Linked(kind, from, to) \/ LinkMade(kind, from, to)
  BY <1>1 DEF Linked
<1>5. ASSUME AskSafe(r.op, r.arg) PROVE Quiet
  <2>1. LinkSafe(r.arg[1], r.arg[3]) /\ r.arg = <<r.arg[1], r.arg[2], r.arg[3]>>
    BY <1>1, <1>5 DEF AskSafe
  <2>3. \A kind, from, to : Linked(kind, from, to)' <=>
            (Linked(kind, from, to) /\ ~(kind = r.arg[1] /\ from = r.arg[2] /\ to = r.arg[3]))
    BY <1>1, <2>1 DEF Linked
  <2>2. \A kind, from, to : (Linked(kind, from, to)' <=> Linked(kind, from, to)) \/ LinkSafe(kind, to)
    BY <2>3, <2>1
  <2> QED BY <1>1, <1>4, <2>2, LinksChanged DEF PermInv
<1>6. RowsMade'
  BY <1>1, <1>4, LinksChanged DEF PermInv
<1> QED BY <1>1, <1>5, <1>6, WriteKeeps

LEMMA BulkLinkRows ==
  ASSUME NEW r \in asks, PermInv, bulk_link_rows(r)
  PROVE  WriteKept(r)
<1>1. r.op = "bulk_link" /\ Store(r) /\ edge' = edge \cup r.arg /\ UNCHANGED <<st, urole, uact>>
  BY StoreKeeps DEF bulk_link_rows, Store
<1>2. \A e \in r.arg : \E g, h : e = <<"ugroup", g, h>> /\ h \in PermGroups /\ st[h] # "new"
  BY <1>1 DEF PermInv, AskOK, AskMade
<1>3. \A kind, from, to : Linked(kind, from, to)' <=> (Linked(kind, from, to) \/ <<kind, from, to>> \in r.arg)
  BY <1>1 DEF Linked
<1>4. \A kind, from, to : Linked(kind, from, to)' => Linked(kind, from, to) \/ LinkMade(kind, from, to)
  <2>1. ASSUME NEW kind, NEW from, NEW to, <<kind, from, to>> \in r.arg PROVE LinkMade(kind, from, to)
    <3>1. PICK g, h : <<kind, from, to>> = <<"ugroup", g, h>> /\ h \in PermGroups /\ st[h] # "new"
      BY <1>2, <2>1
    <3>2. kind = "ugroup" /\ to = h
      BY <3>1
    <3> QED BY <3>1, <3>2 DEF LinkMade
  <2> QED BY <1>3, <2>1
<1>5. ASSUME AskSafe(r.op, r.arg) PROVE Quiet
  <2>1. ASSUME NEW kind, NEW from, NEW to, <<kind, from, to>> \in r.arg PROVE LinkSafe(kind, to)
    <3>1. PICK g, h : <<kind, from, to>> = <<"ugroup", g, h>> /\ h \in PermGroups /\ ~GroupGrantsReserved(h)
      BY <1>1, <1>5, <2>1 DEF AskSafe
    <3>2. kind = "ugroup" /\ to = h
      BY <3>1
    <3> QED BY <3>1, <3>2 DEF LinkSafe
  <2>2. \A kind, from, to : (Linked(kind, from, to)' <=> Linked(kind, from, to)) \/ LinkSafe(kind, to)
    BY <1>3, <2>1
  <2> QED BY <1>1, <1>4, <2>2, LinksChanged DEF PermInv
<1>6. RowsMade'
  BY <1>1, <1>4, LinksChanged DEF PermInv
<1> QED BY <1>1, <1>5, <1>6, WriteKeeps

\* The role of one user changes, to one that exists.
LEMMA RoleChanged ==
  ASSUME UNCHANGED <<st, edge, uact>>, RowsMade, NEW v, NEW k, RoleMade(k),
         urole' = [urole EXCEPT ![v] = k] \/ (v \notin uact /\ urole' = urole)
  PROVE  /\ RowsMade'
         /\ (v \in Users => ~HoldsReservedRole(v)) /\ RoleSafe(k) => Quiet
<1>1. \A u \in Users : urole'[u] = urole[u] \/ (u = v /\ urole'[u] = k)
  BY DEF RowsMade
<1>2. RowsMade'
  <2>1. urole' = [u \in Users |-> urole'[u]]
    BY DEF RowsMade
  <2>2. \A u \in Users : RoleMade(urole'[u])
    BY <1>1 DEF RowsMade, RoleMade
  <2> QED BY <2>1, <2>2 DEF RowsMade, RoleMade, LinkMade, Linked
<1>3. ASSUME v \in Users => ~HoldsReservedRole(v), RoleSafe(k) PROVE Quiet
  <2>1. ASSUME NEW j \in Roles, RoleGrantsReserved(j), NEW u \in Users PROVE HasRole(u, j)' <=> HasRole(u, j)
    <3>1. j # k
      BY <1>3, <2>1 DEF RoleSafe
    <3>2. u = v => ~HasRole(u, j)
      BY <1>3, <2>1, Granting
    <3>3. HasRole(u, j)' <=> (u \in uact /\ urole'[u] = j /\ Active(j))
      BY DEF HasRole, Active
    <3> QED BY <1>1, <3>1, <3>2, <3>3 DEF HasRole
  <2>2. \A h, m : Gives(h, m)' <=> Gives(h, m)
    BY DEF Gives, Linked, Active
  <2> QED BY <2>1, <2>2 DEF Quiet, Linked, Active
<1> QED BY <1>2, <1>3

LEMMA OneRole ==
  ASSUME NEW r \in asks, PermInv, assign_role_to_user(r) \/ remove_role_from_user(r)
  PROVE  WriteKept(r)
<1>1. PICK v, k : v = r.arg[1] /\ k = r.arg[2]
  OBVIOUS
<1>2. r.op = "role" /\ Store(r) /\ urole' = [urole EXCEPT ![v] = k] /\ UNCHANGED <<st, edge, uact>>
  BY <1>1, StoreKeeps DEF assign_role_to_user, remove_role_from_user, Store
<1>3. RoleMade(k)
  BY <1>1, <1>2 DEF PermInv, AskOK, AskMade
<1>4. RowsMade' /\ ((v \in Users => ~HoldsReservedRole(v)) /\ RoleSafe(k) => Quiet)
  BY <1>2, <1>3, RoleChanged DEF PermInv
<1>5. AskSafe(r.op, r.arg) => Quiet
  BY <1>1, <1>2, <1>4 DEF AskSafe
<1> QED BY <1>2, <1>4, <1>5, WriteKeeps

LEMMA BulkRoles ==
  ASSUME NEW r \in asks, PermInv, bulk_assign_roles(r)
  PROVE  WriteKept(r)
<1> DEFINE left(v) == IF r.arg[1] = {v} THEN {} ELSE {[r EXCEPT !.arg[1] = @ \ {v}]}
<1>1. PICK v : /\ v \in r.arg[1] /\ r.op = "bulk_role" /\ UNCHANGED <<st, edge>>
               /\ urole' = IF v \in uact THEN [urole EXCEPT ![v] = r.arg[2]] ELSE urole
               /\ StoreAnd(r, left(v))
  BY DEF bulk_assign_roles
<1>2. PICK more, k : more = left(v) /\ k = r.arg[2]
  OBVIOUS
<1> DEFINE rest == <<r.arg[1] \ {v}, r.arg[2]>>
<1>3. \A x \in more : x = [r EXCEPT !.arg = rest]
  <2>1. r = [by |-> r.by, root |-> r.root, op |-> r.op, arg |-> r.arg, fresh |-> r.fresh]
        /\ r.arg = <<r.arg[1], r.arg[2]>>
    BY <1>1 DEF PermInv, AskOK, AskMade
  <2>2. PICK a, b, c : r.arg = <<a, b>> /\ c = a \ {v}
    BY <2>1
  <2>3. [r EXCEPT !.arg[1] = @ \ {v}] = [r EXCEPT !.arg = <<c, b>>]
    BY <2>1, <2>2
  <2> QED BY <1>2, <2>2, <2>3
<1> HIDE DEF left, rest
<1>4. StoreAnd(r, more) /\ UNCHANGED <<uact, mem, ug>>
  BY <1>1, <1>2, StoreKeeps
<1>5. RoleMade(k)
  BY <1>1, <1>2 DEF PermInv, AskOK, AskMade
<1>6. RowsMade' /\ ((v \in Users => ~HoldsReservedRole(v)) /\ RoleSafe(k) => Quiet)
  BY <1>1, <1>2, <1>4, <1>5, RoleChanged DEF PermInv
<1>7. r.root \/ ~r.fresh \/ Quiet
  BY <1>1, <1>2, <1>6 DEF PermInv, AskOK, AskSafe
<1>8. ASSUME NEW x \in more PROVE AskOK(x)'
  <2>1. r = [by |-> r.by, root |-> r.root, op |-> r.op, arg |-> r.arg, fresh |-> r.fresh]
        /\ AskMade(r.op, r.arg) /\ (r.root \/ ~r.fresh \/ AskSafe(r.op, r.arg))
    BY DEF PermInv, AskOK
  <2>2. x = [by |-> r.by, root |-> r.root, op |-> "bulk_role", arg |-> rest, fresh |-> r.fresh]
    BY <1>1, <1>3, <2>1
  <2>3. rest[1] = r.arg[1] \ {v} /\ rest[2] = r.arg[2] /\ rest = <<rest[1], rest[2]>>
    BY DEF rest
  <2>4. AskMade("bulk_role", rest)
    BY <1>1, <2>1, <2>3 DEF AskMade
  <2>5. r.root \/ ~r.fresh \/ AskSafe("bulk_role", rest)
    BY <1>1, <2>1, <2>3 DEF AskSafe
  <2>6. AskMade("bulk_role", rest)' /\ (r.root \/ ~r.fresh \/ AskSafe("bulk_role", rest)')
    BY <1>1, <1>7, <2>4, <2>5, AskMoves, QuietIsEnough
  <2> QED BY <2>2, <2>6 DEF AskOK
<1>9. \A x \in asks' : AskOK(x)'
  BY <1>1, <1>4, <1>7, <1>8, Stored DEF PermInv
<1> QED BY <1>4, <1>6, <1>7, <1>9 DEF WriteKept

\* The second half of any request.
LEMMA PermWrite ==
  ASSUME NEW r \in asks, PermInv, PermWrites(r)
  PROVE  WriteKept(r)
<1>1. \/ create_row(r) /\ r.arg \in Things
      \/ delete_row(r) /\ r.arg \in Things
      \/ update_row(r)
      \/ link_rows(r) \/ unlink_rows(r) \/ bulk_link_rows(r)
      \/ assign_role_to_user(r) \/ remove_role_from_user(r) \/ bulk_assign_roles(r)
  BY DEF PermWrites, Things, insert_role, insert_permission_group, insert_permission, soft_delete_role,
         soft_delete_permission_group, soft_delete_permission, rename_role, rename_permission_group,
         rename_permission, assign_permission_group_to_role, remove_permission_group_from_role,
         assign_permission_to_group, remove_permission_from_group, assign_permission_group_to_user_group,
         remove_permission_group_from_user_group, assign_permission_group_to_user,
         remove_permission_group_from_user, add_role_to_catalog, remove_role_from_catalog,
         add_permission_group_to_project_catalog, remove_permission_group_from_project_catalog
<1> QED BY <1>1, CreateRow, DeleteRow, UpdateRow, LinkRows, UnlinkRows, BulkLinkRows, OneRole, BulkRoles

LEMMA WriteFrame ==
  ASSUME NEW r, PermWrites(r) PROVE UNCHANGED <<graph, sess, reqs, sweeps, stray>>
<1>1. \/ create_row(r) \/ delete_row(r) \/ update_row(r) \/ link_rows(r) \/ unlink_rows(r) \/ bulk_link_rows(r)
      \/ assign_role_to_user(r) \/ remove_role_from_user(r) \/ bulk_assign_roles(r)
  BY DEF PermWrites, insert_role, insert_permission_group, insert_permission, soft_delete_role,
         soft_delete_permission_group, soft_delete_permission, rename_role, rename_permission_group,
         rename_permission, assign_permission_group_to_role, remove_permission_group_from_role,
         assign_permission_to_group, remove_permission_from_group, assign_permission_group_to_user_group,
         remove_permission_group_from_user_group, assign_permission_group_to_user,
         remove_permission_group_from_user, add_role_to_catalog, remove_role_from_catalog,
         add_permission_group_to_project_catalog, remove_permission_group_from_project_catalog
<1>2. \E more : StoreAnd(r, more)
  BY <1>1 DEF create_row, delete_row, update_row, link_rows, unlink_rows, bulk_link_rows,
              assign_role_to_user, remove_role_from_user, bulk_assign_roles, Store
<1> QED BY <1>2 DEF StoreAnd

\* The first half: what the guard has checked is what the request is admitted for.
Asked(a) ==
    \E op, arg : /\ Ask(a, op, arg) /\ AskMade(op, arg)
                 /\ IsRoot(a) \/ AskSafe(op, arg)

LEMMA Plainly ==
  ASSUME NEW a, NEW op \in {"create", "update"}, NEW arg, Ask(a, op, arg) PROVE Asked(a)
BY DEF Asked, AskMade, AskSafe

LEMMA Linking ==
  ASSUME NEW a, NEW op \in {"link", "unlink"}, NEW kind, NEW from, NEW to, Ask(a, op, <<kind, from, to>>),
         LinkMade(kind, from, to), RootUnless(a, ~LinkSafe(kind, to))
  PROVE  Asked(a)
<1> DEFINE arg == <<kind, from, to>>
<1>1. arg = <<arg[1], arg[2], arg[3]>> /\ arg[1] = kind /\ arg[2] = from /\ arg[3] = to
  OBVIOUS
<1>2. Ask(a, op, arg)
  OBVIOUS
<1> HIDE DEF arg
<1>3. AskMade(op, arg) /\ (IsRoot(a) \/ AskSafe(op, arg))
  BY <1>1 DEF AskMade, AskSafe, RootUnless
<1> QED BY <1>2, <1>3 DEF Asked

LEMMA Deleting ==
  ASSUME NEW a, NEW t, Ask(a, "delete", t),
         RootUnless(a, (t \in Roles /\ RoleGrantsReserved(t)) \/ (t \in PermGroups /\ GroupGrantsReserved(t)) \/ t \in Reserved)
  PROVE  Asked(a)
BY DEF Asked, AskMade, AskSafe, RootUnless

LEMMA RowRoutes ==
  ASSUME NEW a \in Users,
         \/ \E k \in Roles : create_role(a, k) \/ delete_role_endpoint(a, k) \/ update_role(a, k)
         \/ \E h \in PermGroups : \/ create_permission_group(a, h) \/ delete_permission_group_endpoint(a, h)
                                  \/ update_permission_group(a, h)
         \/ \E m \in Perms : create_permission(a, m) \/ delete_permission_endpoint(a, m) \/ update_permission(a, m)
  PROVE  Asked(a)
<1>1. ASSUME NEW k \in Roles, create_role(a, k) \/ update_role(a, k) PROVE Asked(a)
  BY <1>1, Plainly DEF create_role, update_role
<1>2. ASSUME NEW k \in Roles, delete_role_endpoint(a, k) PROVE Asked(a)
  BY <1>2, Deleting, PermAssumption DEF delete_role_endpoint, RootUnless
<1>3. ASSUME NEW h \in PermGroups, create_permission_group(a, h) \/ update_permission_group(a, h) PROVE Asked(a)
  BY <1>3, Plainly DEF create_permission_group, update_permission_group
<1>4. ASSUME NEW h \in PermGroups, delete_permission_group_endpoint(a, h) PROVE Asked(a)
  BY <1>4, Deleting, PermAssumption DEF delete_permission_group_endpoint, RootUnless
<1>5. ASSUME NEW m \in Perms, create_permission(a, m) \/ update_permission(a, m) PROVE Asked(a)
  BY <1>5, Plainly DEF create_permission, update_permission
<1>6. ASSUME NEW m \in Perms, delete_permission_endpoint(a, m) PROVE Asked(a)
  BY <1>6, Deleting, PermAssumption DEF delete_permission_endpoint, RootUnless
<1> QED BY <1>1, <1>2, <1>3, <1>4, <1>5, <1>6

LEMMA LinkRoutes ==
  ASSUME NEW a \in Users,
         \/ \E k \in Roles, h \in PermGroups :
               \/ assign_permission_group_to_role_endpoint(a, k, h)
               \/ remove_permission_group_from_role_endpoint(a, k, h)
         \/ \E h \in PermGroups, m \in Perms :
               assign_permission_to_group_endpoint(a, h, m) \/ remove_permission_from_group_endpoint(a, h, m)
         \/ \E g \in UGroups, h \in PermGroups :
               assign_permission_group_to_group(a, g, h) \/ remove_permission_group_from_group(a, g, h)
         \/ \E u \in Users, h \in PermGroups :
               \/ assign_permission_group_to_user_direct(a, u, h)
               \/ remove_permission_group_from_user_direct(a, u, h)
         \/ \E p \in Projects, k \in Roles :
               add_role_to_project_catalog(a, p, k) \/ remove_role_from_project_catalog(a, p, k)
         \/ \E p \in Projects, h \in PermGroups :
               add_permission_group_to_catalog(a, p, h) \/ remove_permission_group_from_catalog(a, p, h)
  PROVE  Asked(a)
<1>1. ASSUME NEW k \in Roles, NEW h \in PermGroups, \/ assign_permission_group_to_role_endpoint(a, k, h)
                                                    \/ remove_permission_group_from_role_endpoint(a, k, h)
      PROVE  Asked(a)
  <2>1. LinkMade("role", k, h) /\ RootUnless(a, ~LinkSafe("role", h))
    BY <1>1 DEF assign_permission_group_to_role_endpoint, remove_permission_group_from_role_endpoint,
                LinkMade, LinkSafe, RootUnless, Active
  <2> QED BY <1>1, <2>1, Linking DEF assign_permission_group_to_role_endpoint, remove_permission_group_from_role_endpoint
<1>2. ASSUME NEW h \in PermGroups, NEW m \in Perms,
             assign_permission_to_group_endpoint(a, h, m) \/ remove_permission_from_group_endpoint(a, h, m)
      PROVE  Asked(a)
  <2>1. LinkMade("perm", h, m) /\ RootUnless(a, ~LinkSafe("perm", m))
    BY <1>2 DEF assign_permission_to_group_endpoint, remove_permission_from_group_endpoint,
                LinkMade, LinkSafe, RootUnless, Active
  <2> QED BY <1>2, <2>1, Linking DEF assign_permission_to_group_endpoint, remove_permission_from_group_endpoint
<1>3. ASSUME NEW g \in UGroups, NEW h \in PermGroups,
             assign_permission_group_to_group(a, g, h) \/ remove_permission_group_from_group(a, g, h)
      PROVE  Asked(a)
  <2>1. LinkMade("ugroup", g, h) /\ RootUnless(a, ~LinkSafe("ugroup", h))
    BY <1>3 DEF assign_permission_group_to_group, remove_permission_group_from_group,
                LinkMade, LinkSafe, RootUnless, Active
  <2> QED BY <1>3, <2>1, Linking DEF assign_permission_group_to_group, remove_permission_group_from_group
<1>4. ASSUME NEW u \in Users, NEW h \in PermGroups, \/ assign_permission_group_to_user_direct(a, u, h)
                                                    \/ remove_permission_group_from_user_direct(a, u, h)
      PROVE  Asked(a)
  <2>1. LinkMade("user", u, h) /\ RootUnless(a, ~LinkSafe("user", h))
    BY <1>4 DEF assign_permission_group_to_user_direct, remove_permission_group_from_user_direct,
                LinkMade, LinkSafe, RootUnless, Active
  <2> QED BY <1>4, <2>1, Linking DEF assign_permission_group_to_user_direct, remove_permission_group_from_user_direct
<1>5. ASSUME NEW p, NEW t, Ask(a, "link", <<"catalog", t, p>>) \/ Ask(a, "unlink", <<"catalog", t, p>>) PROVE Asked(a)
  <2>1. LinkMade("catalog", t, p) /\ RootUnless(a, ~LinkSafe("catalog", p))
    BY DEF LinkMade, LinkSafe, RootUnless
  <2> QED BY <1>5, <2>1, Linking
<1> QED BY <1>1, <1>2, <1>3, <1>4, <1>5
        DEF add_role_to_project_catalog, remove_role_from_project_catalog,
            add_permission_group_to_catalog, remove_permission_group_from_catalog

LEMMA RoleRoutes ==
  ASSUME NEW a \in Users,
         \/ \E u \in Users : \/ remove_role_from_user_endpoint(a, u)
                             \/ \E k \in Roles : assign_role_to_user_endpoint(a, u, k)
         \/ \E p \in Projects, U \in UserLists, ks \in RoleLists :
               bulk_assign_roles_to_project_users(a, p, U, ks)
         \/ \E g \in UGroups, H \in PermGroupLists : bulk_assign_permission_groups_to_group(a, g, H)
  PROVE  Asked(a)
<1>1. ASSUME NEW u \in Users, NEW k, k = NoRole \/ (k \in Roles /\ Active(k)), Ask(a, "role", <<u, k>>),
             RootUnless(a, HoldsReservedRole(u) \/ ~RoleSafe(k))
      PROVE  Asked(a)
  <2> DEFINE arg == <<u, k>>
  <2>1. arg[1] = u /\ arg[2] = k /\ Ask(a, "role", arg)
    BY <1>1
  <2> HIDE DEF arg
  <2>2. AskMade("role", arg) /\ (IsRoot(a) \/ AskSafe("role", arg))
    BY <1>1, <2>1 DEF AskMade, AskSafe, RoleMade, RootUnless, Active
  <2> QED BY <2>1, <2>2 DEF Asked
<1>2. ASSUME NEW u \in Users, remove_role_from_user_endpoint(a, u) PROVE Asked(a)
  <2>1. RootUnless(a, HoldsReservedRole(u) \/ ~RoleSafe(NoRole)) /\ Ask(a, "role", <<u, NoRole>>)
    BY <1>2, PermAssumption DEF remove_role_from_user_endpoint, RootUnless, RoleSafe
  <2> QED BY <1>1, <2>1
<1>3. ASSUME NEW u \in Users, NEW k \in Roles, assign_role_to_user_endpoint(a, u, k) PROVE Asked(a)
  <2>1. RootUnless(a, HoldsReservedRole(u) \/ ~RoleSafe(k)) /\ Ask(a, "role", <<u, k>>) /\ Active(k)
    BY <1>3 DEF assign_role_to_user_endpoint, RootUnless, RoleSafe
  <2> QED BY <1>1, <2>1
<1>4. ASSUME NEW p \in Projects, NEW U \in UserLists, NEW ks \in RoleLists, bulk_assign_roles_to_project_users(a, p, U, ks)
      PROVE  Asked(a)
  <2>1. PICK k, i : i = Len(ks) /\ k = ks[i]
    OBVIOUS
  <2>2. i \in DOMAIN ks /\ k \in Roles
    BY <1>4, <2>1, PermAssumption DEF bulk_assign_roles_to_project_users
  <2>3. /\ Active(k) /\ Ask(a, "bulk_role", <<U, k>>)
        /\ RootUnless(a, RoleGrantsReserved(k)) /\ RootUnless(a, \E u \in U : HoldsReservedRole(u))
    BY <1>4, <2>1, <2>2 DEF bulk_assign_roles_to_project_users, RootUnless
  <2> DEFINE arg == <<U, k>>
  <2>4. arg[1] = U /\ arg[2] = k /\ arg = <<arg[1], arg[2]>> /\ Ask(a, "bulk_role", arg)
    BY <2>3
  <2> HIDE DEF arg
  <2>5. AskMade("bulk_role", arg)
    BY <2>2, <2>3, <2>4 DEF AskMade, RoleMade, Active
  <2>6. IsRoot(a) \/ AskSafe("bulk_role", arg)
    BY <2>3, <2>4, GraphAssumption DEF AskSafe, RoleSafe, RootUnless
  <2> QED BY <2>4, <2>5, <2>6 DEF Asked
<1>5. ASSUME NEW g \in UGroups, NEW H \in PermGroupLists, bulk_assign_permission_groups_to_group(a, g, H)
      PROVE  Asked(a)
  <2> DEFINE arg == {<<"ugroup", g, h>> : h \in {x \in H : Active(x)}}
  <2>1. \A e \in arg : \E h : e = <<"ugroup", g, h>> /\ h \in H /\ Active(h)
    OBVIOUS
  <2>2. /\ Ask(a, "bulk_link", arg) /\ H \subseteq PermGroups
        /\ RootUnless(a, \E h \in H : Active(h) /\ GroupGrantsReserved(h))
    BY <1>5, PermAssumption DEF bulk_assign_permission_groups_to_group
  <2> HIDE DEF arg
  <2>3. AskMade("bulk_link", arg) /\ (IsRoot(a) \/ AskSafe("bulk_link", arg))
    BY <2>1, <2>2 DEF AskMade, AskSafe, RootUnless, Active
  <2> QED BY <2>2, <2>3 DEF Asked
<1> QED BY <1>2, <1>3, <1>4, <1>5

LEMMA PermGuard ==
  ASSUME NEW a \in Users, PermRoutes(a), PermInv PROVE PermInv' /\ UNCHANGED vars
<1>1. Asked(a)
  BY RowRoutes, LinkRoutes, RoleRoutes DEF PermRoutes
<1>2. PICK op, arg : Ask(a, op, arg) /\ AskMade(op, arg) /\ (IsRoot(a) \/ AskSafe(op, arg))
  BY <1>1 DEF Asked
<1> DEFINE r == [by |-> a, root |-> IsRoot(a), op |-> op, arg |-> arg, fresh |-> TRUE]
<1>3. r = [by |-> r.by, root |-> r.root, op |-> r.op, arg |-> r.arg, fresh |-> r.fresh]
      /\ r.op = op /\ r.arg = arg /\ r.root = IsRoot(a)
  OBVIOUS
<1>4. asks' = asks \cup {r} /\ UNCHANGED <<vars, perm>>
  BY <1>2 DEF Ask
<1> HIDE DEF r
<1>5. AskOK(r)
  BY <1>2, <1>3 DEF AskOK
<1>6. UNCHANGED <<st, urole, edge, uact>>
  BY <1>4 DEF perm, vars, graph, people
<1>7. RowsMade'
  BY <1>6 DEF PermInv, RowsMade, LinkMade, Linked
<1>8. Quiet
  BY <1>6 DEF Quiet, Gives, HasRole, Linked, Active
<1>9. \A x : AskOK(x) => AskOK(x)'
  BY <1>6, <1>8, AskStays, QuietIsEnough
<1> QED BY <1>4, <1>5, <1>7, <1>9 DEF PermInv

\* A step of the access graph: what a guard saw stands, or, when a user is
\* activated, nothing is claimed of the requests under way.
LEMMA GraphMoves ==
  ASSUME GraphSteps, GraphInv, SessionsOK, PermInv PROVE GraphInv' /\ SessionsOK' /\ PermInv'
<1>1. UNCHANGED <<st, urole, edge>> /\ GraphNext
  BY DEF GraphSteps, perm
<1>2. GraphInv' /\ SessionsOK'
  BY <1>1, GraphStep
<1>3. RowsMade'
  BY <1>1 DEF PermInv, RowsMade, LinkMade, Linked
<1>4. CASE uact' \subseteq uact
  <2>1. /\ \A h \in PermGroups : GroupGrantsReserved(h)' <=> GroupGrantsReserved(h)
        /\ \A k \in Roles : RoleGrantsReserved(k)' <=> RoleGrantsReserved(k)
    BY <1>1 DEF GroupGrantsReserved, RoleGrantsReserved, get_permission_group_permissions,
                get_role_permission_groups, Linked, Active
  <2>2. ASSUME NEW u \in Users, HoldsReservedRole(u)' PROVE HoldsReservedRole(u)
    <3>1. PICK k \in Roles : HasRole(u, k)' /\ RoleGrantsReserved(k)'
      BY <2>2, GrantingNext
    <3>2. HasRole(u, k) /\ RoleGrantsReserved(k)
      BY <1>1, <1>4, <2>1, <3>1 DEF HasRole, Active
    <3> QED BY <3>2, Granting
  <2>3. NothingMore
    BY <2>1, <2>2 DEF NothingMore
  <2>4. asks' = asks
    BY <1>4 DEF GraphSteps
  <2>5. \A x : AskOK(x) => AskOK(x)'
    BY <1>1, <2>3, AskStays
  <2> QED BY <1>2, <1>3, <2>4, <2>5 DEF PermInv
<1>5. CASE ~(uact' \subseteq uact)
  <2>1. asks' = {[x EXCEPT !.fresh = FALSE] : x \in asks}
    BY <1>5 DEF GraphSteps
  <2>2. \A x \in asks' : AskOK(x)'
    BY <1>1, <2>1, Overtaken DEF PermInv
  <2> QED BY <1>2, <1>3, <2>2 DEF PermInv
<1> QED BY <1>4, <1>5

LEMMA GraphStays ==
  ASSUME UNCHANGED <<graph, sess, reqs, sweeps, stray>>, GraphInv, SessionsOK
  PROVE  GraphInv' /\ SessionsOK'
<1>1. GraphInv'
  BY DEF graph, people, nodes, edges, GraphInv, RowsOK, EdgesOK, ActiveUG, ActivePG
<1>2. SessionsOK'
  BY DEF graph, people, nodes, edges, SessionsOK, SigningOut, Reached, Via, ActiveUG, ActivePG, IsRoot, GetUserType
<1> QED BY <1>1, <1>2

LEMMA PermStart == PermInit => GraphInv /\ SessionsOK /\ PermInv
<1> SUFFICES ASSUME PermInit PROVE GraphInv /\ SessionsOK /\ PermInv
  OBVIOUS
<1>1. GraphInv /\ SessionsOK
  BY Start DEF PermInit
<1> DEFINE made(T) == {t \in T : st[t] # "new"}
<1>2. /\ st \in [Things -> States] /\ urole \in [Users -> made(Roles) \cup {NoRole}] /\ asks = {}
      /\ edge \subseteq ({"role"} \X made(Roles) \X made(PermGroups))
                   \cup ({"perm"} \X made(PermGroups) \X made(Perms))
                   \cup ({"ugroup"} \X UGroups \X made(PermGroups))
                   \cup ({"user"} \X Users \X made(PermGroups))
                   \cup ({"catalog"} \X (made(Roles) \cup made(PermGroups)) \X Projects)
  BY DEF PermInit
<1>3. ASSUME NEW kind, NEW from, NEW to, Linked(kind, from, to) PROVE LinkMade(kind, from, to)
  <2>1. <<kind, from, to>> \in ({"role"} \X made(Roles) \X made(PermGroups))
           \cup ({"perm"} \X made(PermGroups) \X made(Perms)) \cup ({"ugroup"} \X UGroups \X made(PermGroups))
           \cup ({"user"} \X Users \X made(PermGroups)) \cup ({"catalog"} \X (made(Roles) \cup made(PermGroups)) \X Projects)
    BY <1>2, <1>3 DEF Linked
  <2>2. \/ kind = "role" /\ from \in made(Roles) /\ to \in made(PermGroups)
        \/ kind = "perm" /\ from \in made(PermGroups) /\ to \in made(Perms)
        \/ kind \in {"ugroup", "user"} /\ to \in made(PermGroups)
        \/ kind = "catalog"
    BY <2>1
  <2> QED BY <2>2 DEF LinkMade
<1>4. RowsMade
  BY <1>2, <1>3 DEF RowsMade
<1> QED BY <1>1, <1>2, <1>4 DEF PermInv

LEMMA PermStep == GraphInv /\ SessionsOK /\ PermInv /\ [PermNext]_permvars => GraphInv' /\ SessionsOK' /\ PermInv'
<1> SUFFICES ASSUME GraphInv, SessionsOK, PermInv, [PermNext]_permvars PROVE GraphInv' /\ SessionsOK' /\ PermInv'
  OBVIOUS
<1>1. ASSUME NEW a \in Users, PermRoutes(a) PROVE GraphInv' /\ SessionsOK' /\ PermInv'
  BY <1>1, PermGuard, GraphStays DEF vars
<1>2. ASSUME NEW r \in asks, PermWrites(r) PROVE GraphInv' /\ SessionsOK' /\ PermInv'
  <2>1. WriteKept(r)
    BY <1>2, PermWrite
  <2>2. UNCHANGED <<graph, sess, reqs, sweeps, stray>>
    BY <1>2, WriteFrame
  <2> QED BY <2>1, <2>2, GraphStays DEF WriteKept, PermInv
<1>3. CASE GraphSteps
  BY <1>3, GraphMoves
<1>4. CASE UNCHANGED permvars
  <2>1. UNCHANGED <<st, urole, edge, asks, uact>> /\ UNCHANGED <<graph, sess, reqs, sweeps, stray>>
    BY <1>4 DEF permvars, perm, vars, graph, people
  <2>2. RowsMade'
    BY <2>1 DEF PermInv, RowsMade, LinkMade, Linked
  <2>3. Quiet
    BY <2>1 DEF Quiet, Gives, HasRole, Linked, Active
  <2>4. \A x : AskOK(x) => AskOK(x)'
    BY <2>1, <2>3, AskStays, QuietIsEnough
  <2> QED BY <2>1, <2>2, <2>4, GraphStays DEF PermInv
<1> QED BY <1>1, <1>2, <1>3, <1>4 DEF PermNext, PermSteps

LEMMA PermInvariance == PermSpec => [](GraphInv /\ SessionsOK /\ PermInv)
BY PermStart, PermStep, PTL DEF PermSpec

\* While roles and permissions stay as they are, what a user who is as active as
\* before holds moves with the members of a group that was given it.
LEMMA HeldThroughGroup ==
  ASSUME NEW u, NEW m, UNCHANGED <<st, urole, edge>>, u \in uact <=> u \in uact',
         (m \in HeldReserved(u)') # (m \in HeldReserved(u))
  PROVE  \E g \in UGroups : /\ (<<u, g>> \in mem' /\ ActiveUG(g)') # (<<u, g>> \in mem /\ ActiveUG(g))
                            /\ (<<u, g>> \in mem' /\ ActiveUG(g)') <=> m \in HeldReserved(u)'
                            /\ m \in PermsOf(get_user_group_permission_groups(g))
<1>1. \A h : (Gives(h, m)' <=> Gives(h, m)) /\ (Active(h)' <=> Active(h))
  BY DEF Gives, Linked, Active
<1>2. \A k, h : HasRole(u, k)' /\ Linked("role", k, h)' <=> HasRole(u, k) /\ Linked("role", k, h)
  BY DEF HasRole, Linked, Active
<1>3. PICK h \in PermGroups : /\ m \in Perms /\ Gives(h, m) /\ Active(h) /\ Holds(u, h)' # Holds(u, h)
                              /\ Holds(u, h)' <=> m \in HeldReserved(u)'
  <2>1. CASE m \in HeldReserved(u)' /\ m \notin HeldReserved(u)
    <3>1. PICK h \in PermGroups : m \in Perms /\ Gives(h, m)' /\ Active(h)' /\ Holds(u, h)'
      BY <2>1, HoldingNext
    <3>2. Gives(h, m) /\ Active(h) /\ ~Holds(u, h)
      BY <1>1, <2>1, <3>1, Holding
    <3> QED BY <2>1, <3>1, <3>2
  <2>2. CASE m \notin HeldReserved(u)' /\ m \in HeldReserved(u)
    <3>1. PICK h \in PermGroups : m \in Perms /\ Gives(h, m) /\ Active(h) /\ Holds(u, h)
      BY <2>2, Holding
    <3>2. Gives(h, m)' /\ Active(h)' /\ ~Holds(u, h)'
      BY <1>1, <2>2, <3>1, HoldingNext
    <3> QED BY <2>2, <3>1, <3>2
  <2> QED BY <2>1, <2>2
<1>4. PICK g \in UGroups : /\ (<<u, g>> \in mem' /\ ActiveUG(g)') # (<<u, g>> \in mem /\ ActiveUG(g))
                           /\ Linked("ugroup", g, h)
                           /\ (<<u, g>> \in mem' /\ ActiveUG(g)') <=> Holds(u, h)'
  <2>1. Holds(u, h)' <=> \/ \E k \in Roles : HasRole(u, k) /\ Linked("role", k, h)
                         \/ \E g \in UGroups : <<u, g>> \in mem' /\ ActiveUG(g)' /\ Linked("ugroup", g, h)
                         \/ Linked("user", u, h)
    BY <1>2 DEF Holds, HasRole, Linked, Active, ActiveUG
  <2> QED BY <1>3, <2>1 DEF Holds
<1>5. h \in get_user_group_permission_groups(g) /\ m \in get_permission_group_permissions(h)
  BY <1>3, <1>4 DEF get_user_group_permission_groups, get_permission_group_permissions, Gives
<1> QED BY <1>3, <1>4, <1>5 DEF PermsOf

\* Members come and go where the caller may administer the group, and come only if
\* it may manage them.
LEMMA MembersMove ==
  ASSUME NEW a \in Users, GroupRoutes(a), NEW u \in Users, NEW g \in UGroups,
         (<<u, g>> \in mem) # (<<u, g>> \in mem')
  PROVE  AuthorizeUserGroup(a, g) /\ (<<u, g>> \in mem' => UserInScope(a, u))
<1>1. ASSUME NEW h \in UGroups, delete_user_group_endpoint(a, h)
      PROVE  AuthorizeUserGroup(a, g) /\ <<u, g>> \notin mem'
  BY <1>1 DEF delete_user_group_endpoint, DeleteUserGroup
<1>2. ASSUME NEW h \in UGroups, NEW v \in Users,
             assign_user_to_group_endpoint(a, h, v) \/ remove_user_from_group_endpoint(a, h, v)
      PROVE  AuthorizeUserGroup(a, g) /\ UserInScope(a, u)
  BY <1>2 DEF assign_user_to_group_endpoint, remove_user_from_group_endpoint, AssignUserToUserGroup, RemoveUserFromUserGroup
<1>3. ASSUME NEW h \in UGroups, NEW U, bulk_add_users_to_group(a, h, U)
      PROVE  AuthorizeUserGroup(a, g) /\ UserInScope(a, u)
  BY <1>3 DEF bulk_add_users_to_group
<1>4. ASSUME NEW G, NEW U, bulk_assign_users_to_groups(a, G, U)
      PROVE  AuthorizeUserGroup(a, g) /\ UserInScope(a, u)
  BY <1>4 DEF bulk_assign_users_to_groups
<1>5. ASSUME mem' = mem PROVE FALSE
  BY <1>5
<1> QED BY <1>1, <1>2, <1>3, <1>4, <1>5
        DEF GroupRoutes, create_user_group_endpoint, update_user_group_endpoint, edges,
            grant_user_group_project_group_access_endpoint, revoke_user_group_project_group_access_endpoint,
            create_project_group_endpoint, update_project_group_endpoint, delete_project_group_endpoint,
            assign_project_to_group_endpoint, remove_project_from_group_endpoint

LEMMA RoutesMove ==
  ASSUME GraphInv, NEW u \in Users, UNCHANGED <<st, urole, edge>> PROVE RouteMoves(u)
<1> SUFFICES ASSUME NEW a \in Users, GroupRoutes(a)
             PROVE  /\ \A m \in Changed(u) : InGroupOf(a, u, m)
                    /\ HeldReserved(u)' \subseteq HeldReserved(u) \/ UserInScope(a, u)
  BY DEF RouteMoves
<1>1. GraphInv' /\ uact' = uact
  BY GroupRoute DEF RouteOK, GroupStep
<1>2. ASSUME NEW m, (m \in HeldReserved(u)') # (m \in HeldReserved(u))
      PROVE  InGroupOf(a, u, m) /\ (m \in HeldReserved(u)' => UserInScope(a, u))
  <2>1. PICK g \in UGroups : /\ (<<u, g>> \in mem' /\ ActiveUG(g)') # (<<u, g>> \in mem /\ ActiveUG(g))
                             /\ (<<u, g>> \in mem' /\ ActiveUG(g)') <=> m \in HeldReserved(u)'
                             /\ m \in PermsOf(get_user_group_permission_groups(g))
    BY <1>1, <1>2, HeldThroughGroup
  <2>2. (<<u, g>> \in mem => ActiveUG(g)) /\ (<<u, g>> \in mem' => ActiveUG(g)')
    BY <1>1 DEF GraphInv, EdgesOK
  <2>3. (<<u, g>> \in mem) # (<<u, g>> \in mem') /\ (m \in HeldReserved(u)' => <<u, g>> \in mem')
    BY <2>1, <2>2
  <2>4. AuthorizeUserGroup(a, g) /\ (m \in HeldReserved(u)' => UserInScope(a, u))
    BY <2>3, MembersMove
  <2> QED BY <2>1, <2>3, <2>4 DEF InGroupOf, AuthorizeUserGroup
<1> QED BY <1>2 DEF Changed

\* A request that was not authorised as root touches the members of groups only by
\* taking a user away.
LEMMA RequestMembers ==
  ASSUME GraphInv, NEW r \in reqs, RequestSteps(r), ~r.root, NEW u \in Users, u \in uact <=> u \in uact'
  PROVE  ug' = ug /\ \A g : <<u, g>> \in mem' <=> <<u, g>> \in mem
<1>1. r.op \in AdminOps
  BY DEF GraphInv, RequestOK
<1>2. CASE delete_user(r) \/ bulk_delete_users(r)
  BY <1>2 DEF delete_user, bulk_delete_users, nodes
<1>3. CASE UNCHANGED <<ug, mem>>
  BY <1>3
<1>4. CASE create_default_groups(r) \/ hard_delete_user(r) \/ update_user_type(r) \/ create_user(r)
           \/ remove_admin_from_project(r) \/ add_admin_to_project(r) \/ create_project(r)
  BY <1>1, <1>4 DEF AdminOps, create_default_groups, hard_delete_user, update_user_type, create_user,
                    remove_admin_from_project, add_admin_to_project, create_project
<1>5. set_user_active_status(r) \/ bulk_update_users(r) \/ delete_project(r) \/ StoreSession(r) \/ RequestFails(r)
          => UNCHANGED <<ug, mem>>
  BY DEF set_user_active_status, bulk_update_users, delete_project, StoreSession, RequestFails,
         graph, people, nodes, edges
<1> QED BY <1>2, <1>3, <1>4, <1>5 DEF RequestSteps

LEMMA RequestsMove ==
  ASSUME GraphInv, NEW u \in Users, UNCHANGED <<st, urole, edge>>, Changed(u) # {} PROVE RequestMoves(u)
<1> SUFFICES ASSUME NEW r \in reqs, RequestSteps(r), ~r.root, u \in uact <=> u \in uact' PROVE FALSE
  BY DEF RequestMoves
<1>1. PICK m : (m \in HeldReserved(u)') # (m \in HeldReserved(u))
  BY DEF Changed
<1>2. PICK g \in UGroups : (<<u, g>> \in mem' /\ ActiveUG(g)') # (<<u, g>> \in mem /\ ActiveUG(g))
  BY <1>1, HeldThroughGroup
<1> QED BY <1>2, RequestMembers DEF ActiveUG

\* A fresh write of a caller who is not root is quiet, and what moves in the graph
\* moves with the members of groups.
LEMMA ReservedStep == GraphInv /\ PermInv => ReservedStepByRoot
<1> SUFFICES ASSUME GraphInv, PermInv, NEW u \in Users, Changed(u) # {}
             PROVE  IF perm' = perm THEN RouteMoves(u) /\ RequestMoves(u) ELSE WriteMoves
  BY DEF ReservedStepByRoot
<1>1. CASE perm' = perm
  BY <1>1, RoutesMove, RequestsMove DEF perm
<1>2. WriteMoves
  <2> SUFFICES ASSUME NEW r \in asks, PermWrites(r), Quiet, UNCHANGED <<mem, ug>> PROVE FALSE
    BY PermWrite DEF WriteMoves, WriteKept
  <2> QED BY QuietKeeps DEF Changed
<1> QED BY <1>1, <1>2

\* Nobody's administrative scope grows but by a request of root, and no reserved
\* permission is given or taken by another but through the members of a group that
\* was given it, or a user that is activated or leaves: whatever roles, groups and
\* assignments others write between a guard and its write (global_roles.py,
\* permission_assignments.py, bulk_operations.py, admin_user_groups.py).
THEOREM AuthorityIsGiven == PermSpec => AuthorityIsRoots
<1>1. GraphInv /\ SessionsOK /\ PermInv => ScopeStepByRoot /\ ReservedStepByRoot
  BY ScopeStep, ReservedStep
<1> QED BY <1>1, PermInvariance, PTL DEF AuthorityIsRoots

-----------------------------------------------------------------------------
(* What the reads show of them. *)

\* What is told of roles and permissions stands for active rows.
LEMMA PermReads == ASSUME NEW a, NEW i \in PermItems(a) PROVE PermShown(a, i)
<1> DEFINE C1 == UNION {{<<"cataloged", <<h, p>>>> : p \in get_permission_group_catalog(h)} : h \in PermGroups}
           C2 == UNION {{<<"catalog", <<t, p>>>> : t \in get_project_catalog(p) \cup get_project_role_catalog(p)}
                        : p \in Projects}
           C3 == UNION {{<<"role", <<u, k>>>> : k \in get_user_role_endpoint(u)} : u \in Users}
           C4 == UNION {{<<"used", <<g, h>>>> : g \in get_user_groups_using_permission_group(h)} : h \in PermGroups}
           C5 == UNION {{<<"used", <<g, h>>>> : h \in get_group_permission_groups(g)} : g \in UGroups}
           C6 == UNION {{<<"held", <<u, h>>>> : u \in get_users_using_permission_group(h)} : h \in PermGroups}
           C7 == UNION {{<<"held", <<u, h>>>> : h \in get_user_direct_permission_groups(u)} : u \in Users}
<1>1. \/ i \in C1 \/ i \in C2 \/ i \in C3
      \/ RequireAssignAdmin(a) /\ (i \in C4 \/ i \in C5 \/ i \in C6 \/ i \in C7)
  <2> HIDE DEF C1, C2, C3, C4, C5, C6, C7
  <2>1. PermItems(a) = (IF a \in uact THEN C1 \cup C2 \cup C3 ELSE {})
                       \cup (IF RequireAssignAdmin(a) THEN C4 \cup C5 \cup C6 \cup C7 ELSE {})
    BY DEF PermItems, C1, C2, C3, C4, C5, C6, C7
  <2> QED BY <2>1
<1>2. CASE i \in C1
  <2>1. PICK h \in PermGroups : \E p \in get_permission_group_catalog(h) : i = <<"cataloged", <<h, p>>>>
    BY <1>2
  <2>2. PICK p \in get_permission_group_catalog(h) : i = <<"cataloged", <<h, p>>>>
    BY <2>1
  <2> QED BY <2>2 DEF PermShown, get_permission_group_catalog, get_permission_group_cataloged_projects
<1>3. CASE i \in C2
  <2>1. PICK p \in Projects :
          \E t \in get_project_catalog(p) \cup get_project_role_catalog(p) : i = <<"catalog", <<t, p>>>>
    BY <1>3
  <2>2. PICK t \in get_project_catalog(p) \cup get_project_role_catalog(p) : i = <<"catalog", <<t, p>>>>
    BY <2>1
  <2> QED BY <2>2 DEF PermShown, get_project_catalog, get_project_role_catalog, get_project_cataloged_roles,
                      get_project_cataloged_permission_groups, GetProjectByHash
<1>4. CASE i \in C3
  <2>1. PICK u \in Users : \E k \in get_user_role_endpoint(u) : i = <<"role", <<u, k>>>>
    BY <1>4
  <2>2. PICK k \in get_user_role_endpoint(u) : i = <<"role", <<u, k>>>>
    BY <2>1
  <2> QED BY <2>2 DEF PermShown, get_user_role_endpoint, get_user_role
<1>5. CASE RequireAssignAdmin(a) /\ i \in C4
  <2>1. PICK h \in PermGroups : \E g \in get_user_groups_using_permission_group(h) : i = <<"used", <<g, h>>>>
    BY <1>5
  <2>2. PICK g \in get_user_groups_using_permission_group(h) : i = <<"used", <<g, h>>>>
    BY <2>1
  <2> QED BY <1>5, <2>2 DEF PermShown, get_user_groups_using_permission_group, get_user_groups_with_permission_group
<1>6. CASE RequireAssignAdmin(a) /\ i \in C5
  <2>1. PICK g \in UGroups : \E h \in get_group_permission_groups(g) : i = <<"used", <<g, h>>>>
    BY <1>6
  <2>2. PICK h \in get_group_permission_groups(g) : i = <<"used", <<g, h>>>>
    BY <2>1
  <2> QED BY <1>6, <2>2 DEF PermShown, get_group_permission_groups, get_user_group_permission_groups, GetUserGroupByHash
<1>7. CASE RequireAssignAdmin(a) /\ i \in C6
  <2>1. PICK h \in PermGroups : \E u \in get_users_using_permission_group(h) : i = <<"held", <<u, h>>>>
    BY <1>7
  <2>2. PICK u \in get_users_using_permission_group(h) : i = <<"held", <<u, h>>>>
    BY <2>1
  <2> QED BY <1>7, <2>2 DEF PermShown, get_users_using_permission_group, get_users_with_permission_group
<1>8. CASE RequireAssignAdmin(a) /\ i \in C7
  <2>1. PICK u \in Users : \E h \in get_user_direct_permission_groups(u) : i = <<"held", <<u, h>>>>
    BY <1>8
  <2>2. PICK h \in get_user_direct_permission_groups(u) : i = <<"held", <<u, h>>>>
    BY <2>1
  <2> QED BY <1>8, <2>2 DEF PermShown, get_user_direct_permission_groups, get_user_permission_groups, GetUserByHash
<1> HIDE DEF C1, C2, C3, C4, C5, C6, C7
<1> QED BY <1>1, <1>2, <1>3, <1>4, <1>5, <1>6, <1>7, <1>8

\* Whatever a caller is told of users, groups and projects it reaches through its
\* scope or through a user of its scope, by rows that are active, and what it is told
\* of roles and permissions, which no scope holds, stands for active rows and, for
\* assignments, is told only to who may assign (admin_group_scope.py, users.py,
\* permission_assignments.py, global_roles.py).
THEOREM ReadsStayInScope == PermSpec => []SeenInScope
<1>1. GraphInv /\ SessionsOK /\ PermInv => SeenInScope
  BY GraphReads, PermReads DEF SeenInScope
<1> QED BY <1>1, PermInvariance, PTL

AllActive(S) == \A t \in S : Active(t)

\* The users' groups carry their permissions: through a role, a membership or directly.
LEMMA SourcesOf ==
  ASSUME NEW u
  PROVE  {s[2] : s \in get_user_permission_sources(u)} = RoleGroups(u) \cup MemberGroups(u) \cup get_user_permission_groups(u)
<1> DEFINE S == get_user_permission_sources(u)
<1>1. ASSUME NEW h, h \in {s[2] : s \in S} PROVE h \in RoleGroups(u) \cup MemberGroups(u) \cup get_user_permission_groups(u)
  <2>1. PICK s \in S : h = s[2]
    BY <1>1
  <2>2. \/ \E x \in RoleGroups(u) : s = <<"role", x>>
        \/ \E x \in MemberGroups(u) : s = <<"user_group", x>>
        \/ \E x \in get_user_permission_groups(u) : s = <<"direct", x>>
    BY <2>1 DEF get_user_permission_sources
  <2> QED BY <2>1, <2>2
<1>2. ASSUME NEW h, h \in RoleGroups(u) \cup MemberGroups(u) \cup get_user_permission_groups(u)
      PROVE  \E s \in S : h = s[2]
  <2>1. CASE h \in RoleGroups(u)
    <3>1. <<"role", h>> \in S
      BY <2>1 DEF get_user_permission_sources
    <3> HIDE DEF S
    <3> QED BY <3>1
  <2>2. CASE h \in MemberGroups(u)
    <3>1. <<"user_group", h>> \in S
      BY <2>2 DEF get_user_permission_sources
    <3> HIDE DEF S
    <3> QED BY <3>1
  <2>3. CASE h \in get_user_permission_groups(u)
    <3>1. <<"direct", h>> \in S
      BY <2>3 DEF get_user_permission_sources
    <3> HIDE DEF S
    <3> QED BY <3>1
  <2> QED BY <1>2, <2>1, <2>2, <2>3
<1> HIDE DEF S
<1>3. \A h : h \in {s[2] : s \in S} <=> \E s \in S : h = s[2]
  OBVIOUS
<1> QED BY <1>1, <1>2, <1>3 DEF S

LEMMA SourcesExplain == SourcesExplainPermissions
<1> SUFFICES ASSUME NEW u \in uact
             PROVE  /\ get_my_permissions(u) = PermsOf({s[2] : s \in get_my_permission_sources(u)})
                    /\ {m \in Perms : check_my_permission(u, m)} = get_my_permissions(u)
                    /\ get_user_permissions(u) \subseteq get_my_permissions(u)
  BY DEF SourcesExplainPermissions
<1>1. get_my_permissions(u) = get_user_all_permissions(u) /\ get_my_permission_sources(u) = get_user_permission_sources(u)
  BY DEF get_my_permissions, get_my_permission_sources
<1>2. \A H, m : m \in PermsOf(H) <=> \E h \in H : m \in get_permission_group_permissions(h)
  BY DEF PermsOf
<1>3. get_my_permissions(u) = PermsOf({s[2] : s \in get_my_permission_sources(u)})
  BY <1>1, SourcesOf DEF get_user_all_permissions
<1>4. \A m : m \in get_my_permissions(u) => m \in Perms
  BY <1>1, <1>2 DEF get_user_all_permissions, get_permission_group_permissions
<1>5. \A m : check_my_permission(u, m) <=> m \in get_my_permissions(u)
  BY <1>1 DEF check_my_permission, check_user_has_permission_extended
<1>6. get_user_permissions(u) \subseteq get_my_permissions(u)
  BY <1>1, <1>2 DEF get_user_permissions, get_user_all_permissions
<1> QED BY <1>3, <1>4, <1>5, <1>6

LEMMA ActiveSets ==
  /\ \A k : AllActive(get_role_permission_groups(k))
  /\ \A h : AllActive(get_permission_group_permissions(h))
  /\ \A g : AllActive(get_user_group_permission_groups(g))
  /\ \A u : AllActive(get_user_permission_groups(u)) /\ AllActive(get_user_role(u))
  /\ \A p : AllActive(get_project_cataloged_roles(p)) /\ AllActive(get_project_cataloged_permission_groups(p))
  /\ \A H : AllActive(PermsOf(H))
BY DEF AllActive, get_role_permission_groups, get_permission_group_permissions, get_user_group_permission_groups,
       get_user_permission_groups, get_user_role, get_project_cataloged_roles,
       get_project_cataloged_permission_groups, PermsOf

LEMMA DeletedHidden == DeletedGivesNothing
<1>1. AllActive(list_roles) /\ AllActive(list_permission_groups) /\ AllActive(list_permissions)
  BY DEF AllActive, list_roles, list_permission_groups, list_permissions
<1>2. \A k : AllActive(get_role(k))
  BY ActiveSets DEF get_role, AllActive
<1>3. \A h : AllActive(get_permission_group(h))
  BY ActiveSets DEF get_permission_group, AllActive
<1>4. \A m : AllActive(get_permission(m))
  BY DEF get_permission, AllActive
<1>5. \A g : AllActive(get_group_permission_groups(g))
  BY ActiveSets DEF get_group_permission_groups, AllActive
<1>6. \A u : AllActive(get_my_permissions(u) \cup get_my_role(u) \cup get_my_permission_groups(u)
                       \cup get_user_direct_permission_groups(u))
  BY ActiveSets DEF get_my_permissions, get_my_role, get_my_permission_groups, get_user_direct_permission_groups,
                    get_user_all_permissions, AllActive
<1>7. \A p : AllActive(get_project_role_catalog(p) \cup get_project_catalog(p))
  BY ActiveSets DEF get_project_role_catalog, get_project_catalog, AllActive
<1> DEFINE shown == list_roles \cup list_permission_groups \cup list_permissions
                 \cup (UNION {get_role(k) : k \in Roles})
                 \cup (UNION {get_permission_group(h) : h \in PermGroups})
                 \cup (UNION {get_permission(m) : m \in Perms})
                 \cup (UNION {get_group_permission_groups(g) : g \in UGroups})
                 \cup (UNION {get_my_permissions(u) \cup get_my_role(u) \cup get_my_permission_groups(u)
                              \cup get_user_direct_permission_groups(u) : u \in Users})
                 \cup (UNION {get_project_role_catalog(p) \cup get_project_catalog(p) : p \in Projects})
<1>8. \A t \in shown : Active(t)
  BY <1>1, <1>2, <1>3, <1>4, <1>5, <1>6, <1>7 DEF AllActive
<1> HIDE DEF shown
<1>9. \A t \in Things : st[t] = "deleted" => t \notin shown
  BY <1>8 DEF Active
<1>10. \A h \in PermGroups : st[h] = "deleted" =>
           get_permission_group_catalog(h) \cup get_user_groups_using_permission_group(h)
           \cup get_users_using_permission_group(h) = {}
  BY DEF get_permission_group_catalog, get_user_groups_using_permission_group, get_users_using_permission_group, Active
<1> QED BY <1>9, <1>10 DEF DeletedGivesNothing, shown

\* The procedures that list, explain and check permissions answer alike, and no
\* listing, chain of links or reverse listing shows a deleted role, permission group
\* or permission, whatever the rows (db_permission_assignments.py, permission_assignments.py, global_roles.py).
THEOREM ReadsAgree == PermSpec => []ReadsFollowRows
<1>1. ReadsFollowRows
  BY SourcesExplain, DeletedHidden DEF ReadsFollowRows
<1> QED BY <1>1, PTL

==============================================================================
