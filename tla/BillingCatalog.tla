--------------------------- MODULE BillingCatalog ---------------------------
(***************************************************************************)
(* Billing groups and their catalogs: the admin routes under               *)
(* /admin/billing, the procedures they call, and the provisioning and      *)
(* reconciliation of prices at Stripe.                                     *)
(*                                                                         *)
(* The rows of one plan of a group are followed; rows of other plans do    *)
(* not meet them.  A handler that talks to Stripe takes one step per call, *)
(* since other replicas run in between; the others are one step.           *)
(***************************************************************************)
EXTENDS Integers, Sequences, FiniteSets

CONSTANTS Root, Admins,      \* callers with manage_billing
          Projects, InScope, \* InScope[a]: the projects of admin a
          Groups, Items, Amounts,
          Proc,              \* replicas of the API
          Faults,            \* faults that happen, of {"stripe", "crash"}
          MaxPrices, MaxOps, \* bounds: prices at Stripe, requests served
          None

Callers == Admins \cup {Root}
Caps == {"checkout", "portal", "provisioning", "webhooks"}

ASSUME CatalogAssumption ==
    /\ Root \notin Admins /\ InScope \in [Admins -> SUBSET Projects]
    /\ None \notin Groups \cup Items \cup Callers
    /\ MaxPrices \in Nat /\ MaxOps \in Nat

VARIABLES
    grp,     \* billing_groups
    att,     \* billing_group_projects: project -> its group
    subs,    \* groups with a subscription in a live status
    item,    \* billing_catalog_items, of one plan
    prices,  \* the prices at Stripe
    tagged,  \* the price that carries the lookup key of the plan
    op,      \* replica -> the request it serves
    ops,     \* number of requests served
    mixed,   \* history: rows whose price two requests at a time worked on,
             \* and rows that came to share a price in a reconciliation
    unsynced \* history: items whose amount was left to differ from their price

groups  == <<grp, att, subs>>
stripe  == <<prices, tagged>>
catalogHistory == <<mixed, unsynced>>
catalogVars == <<groups, item, stripe, op, ops, catalogHistory>>

NoGroup == [st |-> "none", owner |-> None, cred |-> "absent",
            hook |-> FALSE, portal |-> FALSE, caps |-> {}]
NoRow == [grp |-> None, st |-> "none", active |-> FALSE, amt |-> 0, price |-> 0]
NoOp == [pc |-> "idle", grp |-> None, proj |-> None, item |-> None, amt |-> 0,
         old |-> 0, new |-> 0, live |-> {}, tag |-> 0, todo |-> {}, saw |-> None]

Serve == ops < MaxOps /\ ops' = ops + 1
Idle(p) == op[p].pc = "idle"
At(p, pc) == op[p].pc = pc
Done(p) == op' = [op EXCEPT ![p] = NoOp]

----------------------------------------------------------------------------
(* Scope of a caller.                                                       *)

_group_projects(g) == {x \in Projects : att[x] = g}
require_project_in_scope(a, x) == IF a = Root THEN TRUE ELSE x \in InScope[a]
_group_in_scope(g, a) ==
    IF a # Root /\ _group_projects(g) = {} THEN grp[g].owner = a
    ELSE \A x \in _group_projects(g) : require_project_in_scope(a, x)
_require_group(g) == grp[g].st # "none"
_require_scoped_group(g, a) == _require_group(g) /\ _group_in_scope(g, a)
require_billing_root(a) == a = Root

----------------------------------------------------------------------------
(* Groups.                                                                  *)

\* The trigger: no capability without an active group and credentials.
Stored(r) == IF r.st = "active" /\ r.cred = "active" THEN r ELSE [r EXCEPT !.caps = {}]

create_group(a, g) ==
    /\ Serve /\ grp[g].st = "none"
    /\ grp' = [grp EXCEPT ![g] = [NoGroup EXCEPT !.st = "active", !.owner = a]]
    /\ UNCHANGED <<att, subs, item, stripe, op, catalogHistory>>

update_group(a, g, s) ==
    /\ Serve /\ _require_scoped_group(g, a) /\ s \in {"active", "suspended", "archived"}
    /\ grp' = [grp EXCEPT ![g] = Stored([grp[g] EXCEPT !.st = s])]
    /\ UNCHANGED <<att, subs, item, stripe, op, catalogHistory>>

Offered(i) == item[i].active /\ item[i].st = "active"
_catalog_has_checkout_price_refs(g) ==
    \E i \in Items : item[i].grp = g /\ Offered(i) /\ item[i].price # 0
_capability_missing_reasons(g, c) ==
    \/ grp[g].st # "active" \/ grp[g].cred # "active"
    \/ c = "checkout" /\ ~_catalog_has_checkout_price_refs(g)
    \/ c = "portal" /\ ~grp[g].portal
    \/ c = "webhooks" /\ ~grp[g].hook

update_capabilities(a, g, c, on) ==
    /\ Serve /\ _require_scoped_group(g, a)
    /\ on => ~_capability_missing_reasons(g, c)
    /\ grp' = [grp EXCEPT ![g] = Stored([grp[g] EXCEPT !.caps = IF on THEN @ \cup {c} ELSE @ \ {c}])]
    /\ UNCHANGED <<att, subs, item, stripe, op, catalogHistory>>

\* An optional credential that is omitted keeps what is stored, an empty one clears it.
_kept_or_sent(s, stored) == s = "value" \/ (s = "omitted" /\ stored)
_apply_credentials(a, g, hook, portal) ==
    /\ Serve /\ require_billing_root(a) /\ _require_group(g)
    /\ grp' = [grp EXCEPT ![g] = Stored([grp[g] EXCEPT !.cred = "active", !.hook = _kept_or_sent(hook, @),
                                                       !.portal = _kept_or_sent(portal, @)])]
    /\ UNCHANGED <<att, subs, item, stripe, op, catalogHistory>>

\* Foreign keys take the attachments and the catalog along, and the rows of
\* the group's checkouts (BillingCheckout).
delete_group(a, g) ==
    /\ Serve /\ _require_scoped_group(g, a) /\ g \notin subs
    /\ grp' = [grp EXCEPT ![g] = NoGroup]
    /\ att' = [x \in Projects |-> IF att[x] = g THEN None ELSE att[x]]
    /\ item' = [i \in Items |-> IF item[i].grp = g THEN NoRow ELSE item[i]]
    /\ UNCHANGED <<subs, stripe, op, catalogHistory>>

attach_project(p, a, g, x) ==
    /\ Serve /\ Idle(p) /\ _require_scoped_group(g, a) /\ require_project_in_scope(a, x)
    /\ att[x] \in {None, g}
    /\ op' = [op EXCEPT ![p] = [NoOp EXCEPT !.pc = "attach", !.grp = g, !.proj = x, !.saw = att[x]]]
    /\ UNCHANGED <<groups, item, stripe, catalogHistory>>
attach_project_to_billing_group(p) ==
    /\ At(p, "attach") /\ Done(p)
    /\ att' = IF _require_group(op[p].grp) THEN [att EXCEPT ![op[p].proj] = op[p].grp] ELSE att
    /\ UNCHANGED <<grp, subs, item, stripe, ops, catalogHistory>>

\* From whichever group holds the project.
detach_project(a, g, x) ==
    /\ Serve /\ _require_scoped_group(g, a) /\ require_project_in_scope(a, x)
    /\ att' = [att EXCEPT ![x] = None]
    /\ UNCHANGED <<grp, subs, item, stripe, op, catalogHistory>>

\* A subscription starts or ends: written by the sync of billing facts.
SubscriptionChanges(g) ==
    /\ _require_group(g) /\ subs' = IF g \in subs THEN subs \ {g} ELSE subs \cup {g}
    /\ UNCHANGED <<grp, att, item, stripe, op, ops, catalogHistory>>

----------------------------------------------------------------------------
(* Catalog rows.                                                            *)

PricePc == {"refs", "price", "store", "deactivate"}
SyncPc == {"index", "rows", "adopt", "import"}
OnItem(i) == {p \in Proc : op[p].item = i /\ op[p].pc \in PricePc}
Syncing == {p \in Proc : op[p].pc \in SyncPc}
BeginPriceOp(i) ==
    mixed' = mixed \cup (IF Syncing # {} THEN Items ELSE IF OnItem(i) # {} THEN {i} ELSE {})
BeginSync ==
    mixed' = mixed \cup (IF \E i \in Items : OnItem(i) # {} THEN Items ELSE {})

\* uk: one active row per plan.
PlanTaken(i) == \E j \in Items \ {i} : /\ item[j].grp = item[i].grp /\ item[j].active
                                       /\ item[j].st \in {"pending", "active"}
provisioning_allowed(g) == "provisioning" \in grp[g].caps /\ grp[g].cred = "active"

set_catalog_item_provisioned(i, n) ==
    item' = [item EXCEPT ![i].price = n, ![i].st = "active", ![i].active = TRUE]
\* Mutation: a row whose new price could not be made stays as it is.
FailedKeepsRow(i) == UNCHANGED item
set_catalog_item_failed(i) ==
    item' = IF item[i].st = "none" THEN item
            ELSE [item EXCEPT ![i].st = "failed", ![i].active = FALSE]
set_catalog_item_active(i) == item' = [item EXCEPT ![i].active = TRUE]
archive_row(i) == item' = [item EXCEPT ![i].st = "archived", ![i].active = FALSE]
adopt_catalog_item_refs(i, n) ==
    item' = [item EXCEPT ![i].price = n,
                          ![i].st = IF item[i].st = "archived" THEN "archived" ELSE "active"]

_require_catalog_item(i, g) == item[i].st # "none" /\ item[i].grp = g
\* Ids are never given out again, not even that of a row a request still holds.
NewId(i) == item[i].st = "none" /\ \A p \in Proc : op[p].item # i /\ i \notin op[p].todo

create_catalog_item(p, a, g, i, m) ==
    /\ Serve /\ Idle(p) /\ _require_scoped_group(g, a) /\ NewId(i)
    /\ item' = [item EXCEPT ![i] = [NoRow EXCEPT !.grp = g, !.st = "pending", !.amt = m]]
    /\ IF provisioning_allowed(g)
       THEN /\ op' = [op EXCEPT ![p] = [NoOp EXCEPT !.pc = "price", !.item = i, !.amt = m]]
            /\ BeginPriceOp(i) /\ UNCHANGED unsynced
       ELSE UNCHANGED <<op, catalogHistory>>
    /\ UNCHANGED <<groups, stripe>>

update_catalog_item(p, a, g, i, m) ==
    /\ Serve /\ Idle(p) /\ _require_scoped_group(g, a) /\ _require_catalog_item(i, g)
    /\ item' = [item EXCEPT ![i].amt = m]
    /\ IF provisioning_allowed(g)
       THEN /\ op' = [op EXCEPT ![p] = [NoOp EXCEPT !.pc = "refs", !.item = i]]
            /\ BeginPriceOp(i) /\ UNCHANGED unsynced
       ELSE /\ unsynced' = unsynced \cup {i} /\ UNCHANGED <<op, mixed>>
    /\ UNCHANGED <<groups, stripe>>

\* The row is read again, and the price it has now.
reprovision_price(p) ==
    /\ At(p, "refs")
    /\ LET r == item[op[p].item]
       IN  op' = [op EXCEPT ![p].pc = "price", ![p].amt = r.amt, ![p].old = r.price]
    /\ UNCHANGED <<groups, item, stripe, ops, catalogHistory>>

\* A new price at Stripe; it takes over the lookup key.
CreatePrice(m) ==
    /\ Len(prices) < MaxPrices
    /\ prices' = Append(prices, [amt |-> m, live |-> TRUE])
    /\ tagged' = Len(prices) + 1

_provision(p) ==
    /\ At(p, "price") /\ CreatePrice(op[p].amt)
    /\ op' = [op EXCEPT ![p].pc = "store", ![p].new = Len(prices) + 1]
    /\ UNCHANGED <<groups, item, ops, catalogHistory>>

\* Stripe refuses, or its answer is lost after it made the price.
StripeFails(p) ==
    /\ At(p, "price") /\ "stripe" \in Faults /\ Done(p)
    /\ set_catalog_item_failed(op[p].item)
    /\ CreatePrice(op[p].amt) \/ UNCHANGED stripe
    /\ UNCHANGED <<groups, ops, catalogHistory>>

\* Mutation: the old price is switched off before the new one is stored.
StoreAfterwards(p) ==
    /\ At(p, "store")
    /\ IF op[p].old # 0 /\ prices[op[p].old].live
       THEN prices' = [prices EXCEPT ![op[p].old].live = FALSE] /\ UNCHANGED <<item, op>>
       ELSE set_catalog_item_provisioned(op[p].item, op[p].new) /\ Done(p) /\ UNCHANGED prices
    /\ UNCHANGED <<groups, tagged, ops, catalogHistory>>
\* The row may be gone with its group, or its plan taken by another row.
StoreRefs(p) ==
    LET i == op[p].item
    IN  /\ At(p, "store")
        /\ IF item[i].st = "none" THEN UNCHANGED item /\ op' = [op EXCEPT ![p].pc = "deactivate"]
           ELSE IF PlanTaken(i) THEN set_catalog_item_failed(i) /\ Done(p)
           ELSE /\ set_catalog_item_provisioned(i, op[p].new)
                /\ op' = [op EXCEPT ![p].pc = "deactivate"]
        /\ UNCHANGED <<groups, stripe, ops, catalogHistory>>

_deactivate_price(p) ==
    /\ At(p, "deactivate") /\ Done(p)
    /\ \/ op[p].old # 0 /\ prices' = [prices EXCEPT ![op[p].old].live = FALSE]
       \/ (op[p].old = 0 \/ "stripe" \in Faults) /\ UNCHANGED prices
    /\ UNCHANGED <<groups, item, tagged, ops, catalogHistory>>

\* PlanTaken: the update fails on the unique key and nothing changes.
archive_catalog_item(a, g, i, archived) ==
    /\ Serve /\ _require_scoped_group(g, a) /\ _require_catalog_item(i, g)
    /\ IF archived THEN archive_row(i)
       ELSE /\ ~(item[i].st \in {"pending", "active"} /\ PlanTaken(i))
            /\ set_catalog_item_active(i)
    /\ UNCHANGED <<groups, stripe, op, catalogHistory>>
delete_catalog_item(a, g, i) ==
    /\ Serve /\ _require_scoped_group(g, a) /\ _require_catalog_item(i, g) /\ archive_row(i)
    /\ UNCHANGED <<groups, stripe, op, catalogHistory>>

----------------------------------------------------------------------------
(* Reconciliation with Stripe: the list of active prices, then the rows,    *)
(* then the writes.                                                         *)

sync_catalog(p, a, g) ==
    /\ Serve /\ Idle(p) /\ _require_scoped_group(g, a) /\ grp[g].cred = "active"
    /\ op' = [op EXCEPT ![p] = [NoOp EXCEPT !.pc = "index", !.grp = g]]
    /\ BeginSync
    /\ UNCHANGED <<groups, item, stripe, unsynced>>

build_stripe_index(p) ==
    LET live == {n \in 1 .. Len(prices) : prices[n].live}
    IN  /\ At(p, "index")
        /\ op' = [op EXCEPT ![p].pc = "rows", ![p].live = live,
                            ![p].tag = IF tagged \in live THEN tagged ELSE 0]
        /\ UNCHANGED <<groups, item, stripe, ops, catalogHistory>>

Local(g) == {i \in Items : item[i].grp = g /\ item[i].st \notin {"none", "archived"}}
_match_local(p, i) == IF item[i].price \in op[p].live THEN item[i].price ELSE op[p].tag
classify_catalog(p) ==
    LET g == op[p].grp
        repairs == {i \in Local(g) : _match_local(p, i) \notin {0, item[i].price}}
    IN  /\ At(p, "rows")
        /\ op' = [op EXCEPT ![p].pc = "adopt", ![p].todo = repairs]
        /\ UNCHANGED <<groups, item, stripe, ops, catalogHistory>>

\* The price the lookup key leads to replaces the row's, whatever it costs
\* and whichever rows have it already; the difference is only reported.  The
\* update fails if the row is gone, or would be a second one on offer.
Sharing(i, n) == {k \in Items \ {i} : item[k].price = n}
reconcile_catalog_for_group(p, i) ==
    /\ At(p, "adopt") /\ i \in op[p].todo
    /\ op' = [op EXCEPT ![p].todo = @ \ {i}]
    /\ IF \/ item[i].st = "none"
          \/ item[i].active /\ item[i].st # "archived" /\ PlanTaken(i)
       THEN UNCHANGED <<item, catalogHistory>>
       ELSE /\ adopt_catalog_item_refs(i, op[p].tag) /\ unsynced' = unsynced \cup {i}
            /\ mixed' = mixed \cup (IF Sharing(i, op[p].tag) = {} THEN {} ELSE {i} \cup Sharing(i, op[p].tag))
    /\ UNCHANGED <<groups, stripe, ops>>
ReconcileDone(p) ==
    /\ At(p, "adopt") /\ op[p].todo = {} /\ Done(p)
    /\ UNCHANGED <<groups, item, stripe, ops, catalogHistory>>

import_selected_candidates(p, i, n) ==
    LET g == op[p].grp
    IN  /\ At(p, "rows") /\ n \in op[p].live /\ NewId(i) /\ Done(p)
        /\ \A j \in Local(g) : item[j].price # n /\ ~(item[j].active /\ item[j].st \in {"pending", "active"})
        /\ _require_group(g)
        /\ item' = [item EXCEPT ![i] = [grp |-> g, st |-> "active", active |-> TRUE,
                                        amt |-> prices[n].amt, price |-> n]]
        /\ UNCHANGED <<groups, stripe, ops, catalogHistory>>

\* The replica dies; what it had written stays.
Dies(p) ==
    /\ ~Idle(p) /\ "crash" \in Faults /\ Done(p)
    /\ unsynced' = IF op[p].pc \in {"refs", "price", "store"} THEN unsynced \cup {op[p].item}
                   ELSE unsynced
    /\ UNCHANGED <<groups, item, stripe, ops, mixed>>

----------------------------------------------------------------------------
CatalogInit ==
    /\ grp = [g \in Groups |-> NoGroup] /\ att = [x \in Projects |-> None] /\ subs = {}
    /\ item = [i \in Items |-> NoRow] /\ prices = <<>> /\ tagged = 0
    /\ op = [p \in Proc |-> NoOp] /\ ops = 0 /\ mixed = {} /\ unsynced = {}

GroupStep ==
    \/ \E a \in Callers, g \in Groups :
         \/ create_group(a, g) \/ delete_group(a, g)
         \/ \E s \in {"active", "suspended", "archived"} : update_group(a, g, s)
         \/ \E c \in Caps, on \in BOOLEAN : update_capabilities(a, g, c, on)
         \/ \E h, c \in {"value", "omitted", "empty"} : _apply_credentials(a, g, h, c)
         \/ \E x \in Projects : detach_project(a, g, x) \/ \E p \in Proc : attach_project(p, a, g, x)
    \/ \E p \in Proc : attach_project_to_billing_group(p)
    \/ \E g \in Groups : SubscriptionChanges(g)

CatalogRequest(a, g) ==
    \E i \in Items :
        \/ \E p \in Proc, m \in Amounts : create_catalog_item(p, a, g, i, m) \/ update_catalog_item(p, a, g, i, m)
        \/ \E archived \in BOOLEAN : archive_catalog_item(a, g, i, archived)
        \/ delete_catalog_item(a, g, i)
        \/ \E p \in Proc : sync_catalog(p, a, g)
CatalogStep ==
    \E p \in Proc :
        \/ reprovision_price(p) \/ _provision(p) \/ StripeFails(p) \/ StoreRefs(p) \/ _deactivate_price(p)
        \/ build_stripe_index(p) \/ classify_catalog(p) \/ ReconcileDone(p) \/ Dies(p)
        \/ \E i \in Items : \/ reconcile_catalog_for_group(p, i)
                             \/ \E n \in 1 .. Len(prices) : import_selected_candidates(p, i, n)

\* Groups have an account at Stripe each: the catalog is that of group g.
CatalogNext(g) == GroupStep \/ (\E a \in Callers : CatalogRequest(a, g)) \/ CatalogStep
CatalogSpec(g) == CatalogInit /\ [][CatalogNext(g)]_catalogVars

----------------------------------------------------------------------------

Excepted(i) == i \in mixed \cup unsynced
\* A plan on offer charges the amount it is listed with, once its repricing
\* is over, whatever calls to Stripe fail on the way.  What remains are two
\* requests at a time, a crash or a switched-off provisioning in the middle
\* of a repricing, and a price adopted from Stripe in a reconciliation.
OfferedAmountCharged ==
    \A i \in Items : Offered(i) /\ item[i].price # 0 /\ OnItem(i) = {} =>
        prices[item[i].price].amt = item[i].amt \/ Excepted(i)

\* A plan on offer can be bought: its price is live at Stripe also while it
\* is repriced, and when the replica dies in the middle of that.  Not so for
\* two requests at a time, nor for rows that came to share a price when one
\* adopted it: repricing either of them switches it off for the other.
OfferedPriceIsLive ==
    \A i \in Items : Offered(i) /\ item[i].price # 0 =>
        prices[item[i].price].live \/ i \in mixed

=============================================================================
