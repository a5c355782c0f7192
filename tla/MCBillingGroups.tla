--------------------------- MODULE MCBillingGroups ---------------------------
(***************************************************************************)
(* Two admins with a project each.  The scene "groups" starts from nothing *)
(* and changes groups and attachments; "catalog" has a group that may      *)
(* provision, with or without a plan on offer; in "checkout" the plan is   *)
(* sold by two replicas while checkout may be switched off or the group    *)
(* deleted.                                                                *)
(***************************************************************************)
EXTENDS BillingCheckout

CONSTANTS a1, a2, x1, x2, g1, g2, i1

VARIABLE scene

OneEach == [a \in Admins |-> IF a = a1 THEN {x1} ELSE {x2}]

Plan == [grp |-> g1, st |-> "active", active |-> TRUE, amt |-> 1, price |-> 1]
Sold == /\ item = [i \in Items |-> IF i = i1 THEN Plan ELSE NoRow]
        /\ prices = <<[amt |-> 1, live |-> TRUE]>> /\ tagged = 1
Empty == item = [i \in Items |-> NoRow] /\ prices = <<>> /\ tagged = 0
Ready(caps) ==
    /\ att = [x \in Projects |-> IF x = x1 THEN g1 ELSE None] /\ subs = {}
    /\ grp = [g \in Groups |->
                IF g # g1 THEN NoGroup
                ELSE [NoGroup EXCEPT !.st = "active", !.owner = a1, !.cred = "active",
                                     !.portal = TRUE, !.caps = caps]]
    /\ op = [p \in Proc |-> NoOp] /\ ops = 0 /\ mixed = {} /\ unsynced = {}

SceneInit ==
    /\ CheckoutInit
    /\ \/ scene = "groups" /\ CatalogInit
       \/ scene = "catalog" /\ Ready({"provisioning"}) /\ (Sold \/ Empty)
       \/ scene = "checkout" /\ Ready({"checkout", "portal"}) /\ Sold

SceneNext ==
    /\ UNCHANGED scene
    /\ \/ scene = "groups" /\ GroupStep /\ UNCHANGED checkoutVars
       \/ /\ scene = "catalog" /\ UNCHANGED checkoutVars
          /\ \/ CatalogRequest(a1, g1) \/ CatalogStep
             \/ update_capabilities(a1, g1, "provisioning", FALSE) \/ delete_group(a1, g1)
       \/ /\ scene = "checkout"
          /\ \/ CheckoutStep
             \/ update_capabilities(a1, g1, "checkout", FALSE) /\ CheckoutRows
             \/ delete_group(a1, g1) /\ CheckoutRows

SceneSpec == SceneInit /\ [][SceneNext]_<<allVars, scene>>
=============================================================================
