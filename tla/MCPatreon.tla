------------------------------ MODULE MCPatreon ------------------------------
(***************************************************************************)
(* Two users and two Patreon accounts; the first has memberships m1 and m2 *)
(* in two campaigns, m3 is the membership of the second.  In the scene     *)
(* "link" confirmations of the users overlap.  In "sync" the first user is *)
(* linked and the worker, the webhooks and unlinking meet.  In "token" two *)
(* processes keep the creator token.                                       *)
(***************************************************************************)
EXTENDS PatreonSync, PatreonToken, TLC

CONSTANTS u1, s1, s2, m1, m2, m3, c1, c2, a1, r1, h1, p1

MCSubjectOf == m1 :> s1 @@ m2 :> s1 @@ m3 :> s2
MCCampaignOf == m1 :> c1 @@ m2 :> c2 @@ m3 :> c1

VARIABLE scene

SceneInit ==
    /\ SyncInit /\ TokenInit
    /\ \/ /\ scene = "link" /\ LinksInit
          /\ truth = [m \in Members |-> "gold"]
       \/ /\ scene = "token" /\ LinksInit
          /\ truth = [m \in Members |-> "absent"]
       \/ /\ scene = "sync"
          /\ truth = (m1 :> "gold" @@ m2 :> "absent" @@ m3 :> "absent")
          /\ proofs = [p \in Proofs |-> NoRow]
          /\ accounts = [a \in Accounts |-> IF a # a1 THEN NoRow ELSE
                           [user |-> u1, sub |-> s1, linked |-> TRUE, proof |-> None]]
          /\ rows = [r \in Rows |-> IF r # r1 THEN NoRow ELSE
                           [user |-> u1, acct |-> a1, member |-> m1, live |-> TRUE]]
          /\ current = [u \in Users |-> IF u # u1 THEN NoEntitlement ELSE
                           [NoEntitlement EXCEPT !.status = "active", !.link = "linked",
                                                 !.plan = "gold", !.row = r1]]
          /\ confirm = [h \in Handlers |-> Resting] /\ late = {}

\* Bound: the second proof alone may be guessed at, expire or be purged.
Proper == {NoRow} \cup [user : Users, member : Members, st : {"pending", "consumed"}, tries : {0, 1}]
SceneNext ==
    /\ UNCHANGED scene
    /\ \/ scene = "token" /\ TokenNext /\ UNCHANGED allVars
       \/ /\ scene = "link" /\ UNCHANGED tokenVars
          /\ \/ Linking /\ UNCHANGED syncVars /\ proofs'[p1] \in Proper
             \/ \E h \in Handlers : _initial_entitlement_after_link(h)
       \/ /\ scene = "sync" /\ UNCHANGED tokenVars
          /\ \/ \E v \in {"absent", "unmapped"} : Changes(m1, v)
             \/ Changes(m2, "gold")
             \/ \E u \in Users : unlink_patreon_link(u) /\ UNCHANGED syncVars
             \/ \E d \in Deliveries, k \in {"update", "delete"} : Emit(d, k) /\ sent'[d].member = m1
             \/ receive_patreon_webhook(h1) \/ HookFails(h1)
             \/ \E d \in Deliveries : DeliveryAbandoned(d)
             \/ \E j \in JobIds : LeaseLapses(j)
             \/ enqueue_internal_patreon_resync(u1)
             \/ \E k \in Keys : enqueue_admin_patreon_resync(k)
             \/ \E w \in Workers : \/ PatreonSyncWorker(w) \/ MemberFails(w)
                                   \/ _handle_provider_failure(w) \/ WorkerDies(w)

SceneSpec == SceneInit /\ [][SceneNext]_<<allVars, tokenVars, scene>> /\ SyncFairness

=============================================================================
