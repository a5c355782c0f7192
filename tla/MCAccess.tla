------------------------------ MODULE MCAccess ------------------------------
(***************************************************************************)
(* A small deployment: r is root, a administers p through ap, b is a       *)
(* member of the group g of p.  `scene' says whether a behaviour is about  *)
(* the graph or about permissions; k is a role, h a permission group, m a  *)
(* reserved permission and v another.                                      *)
(***************************************************************************)
EXTENDS Permissions, TLC

CONSTANTS r, a, b, p, q, ap, aq, g, dp, dq, x, k, h, m, v

VARIABLE scene

Lists == {<<k>>}

Blank == [st |-> "new", name |-> Plain, bind |-> NoProject]
BlankPG == [st |-> "new", bind |-> NoProject]
Admin(n) == [st |-> "active", name |-> n, bind |-> n]
Bound(n) == [st |-> "active", bind |-> n]
Team == [st |-> "active", name |-> Plain, bind |-> p]

\* Both projects exist and everyone is signed in; g reaches p through x.
TwoProjects ==
    /\ utype = (r :> "root" @@ a :> "admin" @@ b :> "consumer") /\ uact = {r, a, b}
    /\ proj = (p :> "active" @@ q :> "active")
    /\ ug = (ap :> Admin(p) @@ aq :> Admin(q) @@ g :> Team)
    /\ pg = (dp :> Bound(p) @@ dq :> Bound(q) @@ x :> Bound(p))
    /\ mem = {<<a, ap>>, <<b, g>>}
    /\ link = {<<ap, dp>>, <<aq, dq>>, <<g, x>>}
    /\ cont = {<<dp, p>>, <<dq, q>>, <<x, p>>}
    /\ sess = {<<r, p>>, <<r, q>>, <<a, p>>, <<b, p>>}

\* Before the second project and the third user exist.
OneProject ==
    /\ utype = (r :> "root" @@ a :> "admin" @@ b :> "new") /\ uact = {r, a}
    /\ proj = (p :> "active" @@ q :> "new")
    /\ ug = (ap :> Admin(p) @@ aq :> Blank @@ g :> Blank)
    /\ pg = (dp :> Bound(p) @@ dq :> BlankPG @@ x :> BlankPG)
    /\ mem = {<<a, ap>>} /\ link = {<<ap, dp>>} /\ cont = {<<dp, p>>}
    /\ sess = {<<a, p>>}

\* One project with its team.
OneTeam ==
    /\ utype = (r :> "root" @@ a :> "admin" @@ b :> "consumer") /\ uact = {r, a, b}
    /\ proj = (p :> "active" @@ q :> "new")
    /\ ug = (ap :> Admin(p) @@ aq :> Blank @@ g :> Team)
    /\ pg = (dp :> Bound(p) @@ dq :> BlankPG @@ x :> BlankPG)
    /\ mem = {<<a, ap>>, <<b, g>>} /\ link = {<<ap, dp>>, <<g, dp>>} /\ cont = {<<dp, p>>}
    /\ sess = {}

NoRoles == urole = [u \in Users |-> NoRole]
NoPermissions == st = [t \in Things |-> "new"] /\ edge = {} /\ NoRoles

\* Nothing exists yet; everything exists and nothing is linked; the reserved
\* permission is delegated through the group, without the role, or given by the
\* role of b.
PermissionStages ==
    \/ NoPermissions
    \/ /\ st = [t \in Things |-> IF t = k THEN "new" ELSE "active"]
       /\ edge = {<<"perm", h, m>>, <<"ugroup", g, h>>} /\ NoRoles
    \/ /\ st = [t \in Things |-> "active"]
       /\ \/ edge = {} /\ NoRoles
          \/ /\ edge = {<<"perm", h, m>>, <<"role", k, h>>}
             /\ urole = (r :> NoRole @@ a :> NoRole @@ b :> k)

Init ==
    /\ reqs = {} /\ sweeps = {} /\ stray = {} /\ asks = {}
    /\ \/ /\ scene = "graph" /\ writes = 0 /\ NoPermissions
          /\ OneProject \/ TwoProjects
       \/ scene = "permissions" /\ writes = 0 /\ OneTeam /\ PermissionStages
    /\ PermInit

\* A behaviour about permissions leaves the groups and projects as they are; while
\* h is assigned to g, members of g come and go, and b is activated, deactivated
\* or deleted.
PeopleMove ==
    /\ <<"ugroup", g, h>> \in edge /\ (reqs \cup sweeps # {} \/ writes + Cardinality(asks) < MaxWrites)
    /\ GraphSteps
    /\ UNCHANGED <<nodes, link, cont, sess>>
    /\ \A e \in (mem \cup mem') \ (mem \cap mem') : e[2] = g
    /\ \A i \in reqs' : \/ i.op = "sign_out"
                        \/ i.op \in {"activate", "deactivate", "delete_user"} /\ i.arg = b
    /\ writes' + Cardinality(asks') + Cardinality({i \in reqs' : i.op # "sign_out"}) <= MaxWrites

Next ==
    /\ UNCHANGED scene
    /\ \/ scene = "graph" /\ GraphSteps
       \/ scene = "permissions" /\ (PermSteps \/ PeopleMove)

Spec == Init /\ [][Next]_<<permvars, scene>>
=============================================================================
