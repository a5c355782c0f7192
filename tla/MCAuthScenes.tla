---------------------------- MODULE MCAuthScenes ----------------------------
(***************************************************************************)
(* Several small deployments in one run: `scene' says which one a          *)
(* behaviour is about, and with it the operations of each handler, the     *)
(* families, the projects, the events and the number of rotations.         *)
(***************************************************************************)
EXTENDS MCAuthLifecycle

CONSTANTS Scenes, f1

VARIABLE scene

SceneRoles == [refresh |-> RefreshRoles, revoke |-> RevokeRoles,
               reset |-> ResetRoles, switch |-> SwitchRoles,
               change |-> ChangeRoles]
AllRoles == [p \in Proc |-> UNION {SceneRoles[s][p] : s \in Scenes}]

\* The call is one of the scene, about its projects and families.  Only the
\* scene of the duplicates rotates a second time.  The two families of the
\* scene of the password change are alike: the caller's is f1.
CallOfScene(p) ==
    /\ req'[p].op \in SceneRoles[scene][p]
    /\ scene = "switch" \/ scope'[p] \notin Project
    /\ scene \in {"reset", "change"} \/ \A f \in Family \ {f1} : next'[f] = 0
    /\ req'[p].op = "password_change" => req'[p].fam = f1
    /\ req'[p].op \in {"refresh", "switch"} => scene = "refresh" \/ req'[p].gen < 2

SceneNext ==
    /\ UNCHANGED scene
    /\ \/ \E p \in Proc : Start(p) /\ CallOfScene(p)
       \/ \E p \in Proc : Step(p)
       \/ scene = "refresh" /\ \E p \in Proc : Crash(p)
       \/ scene = "refresh" /\ \E k \in Pair : GraceEnds(k)
       \/ scene \in {"refresh", "change"} /\ \E k \in Pair : SessionExpires(k)
       \/ scene = "switch" /\ \E k \in Pair : TokenExpires(k)
       \/ scene = "switch" /\ \E f \in Family : FamilyExpires(f)
       \/ scene = "switch" /\ \E u \in User, s \in Project : Grant(u, s)

(* Where no handler dies and no record of a family expires, a family that is *)
(* revoked keeps no access session, not even one of a rotation in flight.    *)
RevokedKeepNoSession ==
    scene \in {"revoke", "reset", "change"} => RevocationClearsSessions

SceneInit == Init /\ scene \in Scenes
SceneSpec == SceneInit /\ [][SceneNext]_<<vars, scene>>
=============================================================================
