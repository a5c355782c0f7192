---------------------------- MODULE PatreonLinks ----------------------------
(***************************************************************************)
(* Linking a Patreon account to a local user, and the rows that follow     *)
(* from the link: user_external_accounts, patreon_memberships and the one  *)
(* current entitlement of a user (patreon_entitlements_current).           *)
(*                                                                         *)
(* A confirmation consumes the e-mailed proof, checks for a conflict,      *)
(* links, reads the member at Patreon, and stores the first entitlement.   *)
(* Each of these is a call of its own; each stored procedure is one        *)
(* transaction.                                                            *)
(***************************************************************************)
EXTENDS Naturals, FiniteSets

CONSTANTS Users, Subjects,    \* local users, Patreon accounts
          Members,            \* memberships at Patreon
          SubjectOf, CampaignOf,  \* member -> Patreon account, campaign
          Configured,         \* the campaigns of the tier map
          Plans,              \* the paid plans of the tier map
          Accounts, Rows,     \* ids of account rows and of membership rows
          Proofs, Handlers,   \* ids of proofs, requests of the API in progress
          MaxTries,           \* max_attempts of a proof (8 in the code)
          None

ASSUME LinksAssumption ==
    /\ SubjectOf \in [Members -> Subjects]
    /\ None \notin Users \cup Members \cup Proofs \cup Accounts \cup Rows
    /\ "free" \notin Plans /\ MaxTries \in Nat \ {0}

VARIABLES
    truth,     \* member -> what Patreon says of it
    proofs,    \* patreon_link_proofs
    accounts,  \* user_external_accounts
    rows,      \* patreon_memberships
    current,   \* patreon_entitlements_current
    confirm,   \* handler -> the confirmation it works on
    late       \* history: users written from a link that had ended

linkVars == <<truth, proofs, accounts, rows, current, confirm, late>>

\* "former": no paid tier; "unmapped": a tier the map does not name;
\* "partial": Patreon returns the member without its tiers.
Reads == {"absent", "former", "unmapped", "partial"} \cup Plans

NoRow == [user |-> None]
NoEntitlement == [status |-> "free", link |-> "none", plan |-> "free",
                  row |-> None, old |-> FALSE]
Resting == [pc |-> "idle"]

\* Ids are random: the next unused one stands for all of them.
Unused(ids, table) == {i \in ids : table[i] = NoRow}
NewId(ids, table) == CHOOSE i \in Unused(ids, table) : TRUE
IsNew(i, ids, table) == Unused(ids, table) # {} /\ i = NewId(ids, table)

Linked(a) == accounts[a] # NoRow /\ accounts[a].linked
Live(r) == rows[r] # NoRow /\ rows[r].live
AccountOf(u) == {a \in Accounts : Linked(a) /\ accounts[a].user = u}
HolderOf(s) == {a \in Accounts : Linked(a) /\ accounts[a].sub = s}

----------------------------------------------------------------------------
(* Classification of what Patreon says (classifier.py).                     *)

_snapshot_has_paid_plan(e) == e.plan # "free"
_future(status, plan) ==
    [status |-> status, plan |-> plan, old |-> FALSE, complete |-> TRUE, resync |-> FALSE]

_classify_without_payload(e) ==
    [status |-> IF e.old THEN "stale" ELSE e.status,
     plan |-> e.plan, old |-> e.old, complete |-> FALSE, resync |-> FALSE]
_preserve_current_or_pending(e) ==
    [_classify_without_payload(e) EXCEPT !.resync = TRUE]
_unknown_tier_or_unmapped_result(e) ==
    IF _snapshot_has_paid_plan(e)
    THEN [_classify_without_payload(e) EXCEPT
            !.status = IF e.old THEN "stale" ELSE "pending",
            !.complete = TRUE, !.resync = TRUE]
    ELSE [_future("pending", "free") EXCEPT !.resync = TRUE]
_ignored_campaigns_only_result(e) ==
    IF _snapshot_has_paid_plan(e)
    THEN [_classify_without_payload(e) EXCEPT !.complete = TRUE, !.resync = TRUE]
    ELSE _future("pending", "free")

\* v is what was read of member m, e the entitlement on record.
classify_patreon_entitlement(m, v, e) ==
    CASE v = "partial" -> _preserve_current_or_pending(e)
      [] v = "former"  -> _future("former", "free")
      [] CampaignOf[m] \notin Configured -> _ignored_campaigns_only_result(e)
      [] v = "unmapped" -> _unknown_tier_or_unmapped_result(e)
      [] OTHER -> _future("active", v)

\* What readers of the entitlement are told: the user, and other services.
db_entitlement_row_to_safe_entitlement(e) ==
    [status |-> IF e.old /\ e.status = "active" THEN "stale" ELSE e.status,
     plan |-> e.plan, link |-> e.link]
get_patreon_link_status(u) == db_entitlement_row_to_safe_entitlement(current[u])
get_internal_patreon_entitlement(u) == db_entitlement_row_to_safe_entitlement(current[u])

----------------------------------------------------------------------------
(* The stored procedures.                                                   *)

\* The member's live row serves this link; a live row of an older link, and
\* any other live row of the user in the campaign, is retired.
sp_patreon_membership_observe(u, a, m, r) ==
    LET held == {q \in Rows : Live(q) /\ rows[q].member = m}
        ours == {q \in held : rows[q].user = u /\ rows[q].acct = a}
        superseded == {q \in Rows : /\ Live(q) /\ rows[q].user = u
                                    /\ CampaignOf[rows[q].member] = CampaignOf[m]}
    IN IF ours # {} THEN r \in ours /\ UNCHANGED rows
       ELSE /\ IsNew(r, Rows, rows)
            /\ rows' = [q \in Rows |->
                 IF q = r THEN [user |-> u, acct |-> a, member |-> m, live |-> TRUE]
                 ELSE IF q \in held \cup superseded THEN [rows[q] EXCEPT !.live = FALSE]
                 ELSE rows[q]]

\* A free reading of one membership does not replace the paid plan that
\* another live membership of the user grants.
KeepCurrent(u, r, c) ==
    /\ current[u].row \notin {None, r}
    /\ current[u].status \in {"active", "stale"} /\ current[u].plan # "free"
    /\ c.plan = "free" /\ Live(current[u].row)
sp_patreon_entitlement_snapshot_upsert(u, r, c) ==
    current' = IF KeepCurrent(u, r, c) THEN current
               ELSE [current EXCEPT ![u] = [status |-> c.status, link |-> "linked",
                                            plan |-> c.plan, row |-> r, old |-> c.old]]

\* Rows of a link that ended before the write.
WriteFrom(u, a) == late' = IF Linked(a) THEN late ELSE late \cup {u}

\* Refused while the identity has another holder or the user another identity.
\* Mutation: the route's earlier check is relied upon.
LinkNeverRefused(u, m) == FALSE
LinkRefused(u, m) ==
    \/ \E a \in HolderOf(SubjectOf[m]) : accounts[a].user # u
    \/ \E a \in AccountOf(u) : accounts[a].sub # SubjectOf[m]
    \/ \E r \in Rows : Live(r) /\ rows[r].member = m /\ rows[r].user # u
sp_patreon_link_account(u, m, p, a, r) ==
    /\ ~LinkRefused(u, m)
    /\ IF HolderOf(SubjectOf[m]) # {}
       THEN a \in HolderOf(SubjectOf[m]) /\ UNCHANGED accounts
       ELSE /\ IsNew(a, Accounts, accounts)
            /\ accounts' = [accounts EXCEPT ![a] =
                    [user |-> u, sub |-> SubjectOf[m], linked |-> TRUE, proof |-> p]]
    /\ sp_patreon_membership_observe(u, a, m, r)

\* The entitlement goes back to free; one live membership is retired.
\* Mutation: the plan stays on record.
unlink_keeps_plan(u) ==
    \E a \in AccountOf(u) :
       /\ accounts' = [accounts EXCEPT ![a].linked = FALSE]
       /\ current' = [current EXCEPT ![u].link = "unlinked"]
       /\ \E r \in Rows : /\ Live(r) /\ rows[r].user = u /\ rows[r].acct = a
                          /\ rows' = [rows EXCEPT ![r].live = FALSE]
       /\ UNCHANGED <<truth, proofs, confirm, late>>
unlink_patreon_link(u) ==
    \E a \in AccountOf(u) :
       LET mine == {r \in Rows : Live(r) /\ rows[r].user = u /\ rows[r].acct = a}
       IN /\ accounts' = [accounts EXCEPT ![a].linked = FALSE]
          /\ IF mine = {} THEN UNCHANGED rows
             ELSE \E r \in mine : rows' = [rows EXCEPT ![r].live = FALSE]
          /\ current' = [current EXCEPT ![u].status = "free", ![u].plan = "free",
                                        ![u].link = "unlinked", ![u].old = FALSE]
          /\ UNCHANGED <<truth, proofs, confirm, late>>

----------------------------------------------------------------------------
(* Patreon, the proofs and the confirmation.                                *)

\* A pledge, an upgrade, a cancellation: the member changes at Patreon.
PatreonChanges(m, v) ==
    /\ v \in Reads \ {truth[m]}
    /\ truth' = [truth EXCEPT ![m] = v]
    /\ UNCHANGED <<proofs, accounts, rows, current, confirm, late>>

\* stale_after passes.
EntitlementAges(u) ==
    /\ current[u].status = "active" /\ ~current[u].old
    /\ current' = [current EXCEPT ![u].old = TRUE]
    /\ UNCHANGED <<truth, proofs, accounts, rows, confirm, late>>

\* A proof is mailed to the address of a member of a configured campaign.
_discover_member_for_link(m) == truth[m] # "absent" /\ CampaignOf[m] \in Configured
_create_link_proof(u, m, p) ==
    /\ IsNew(p, Proofs, proofs)
    /\ proofs' = [proofs EXCEPT ![p] = [user |-> u, member |-> m, st |-> "pending", tries |-> 0]]
request_patreon_link(u, m, p) ==
    /\ _discover_member_for_link(m) /\ _create_link_proof(u, m, p)
    /\ UNCHANGED <<truth, accounts, rows, current, confirm, late>>

\* sp_patreon_proof_consume with a wrong secret.
WrongSecret(p) ==
    /\ proofs[p] # NoRow /\ proofs[p].st = "pending"
    /\ proofs' = [proofs EXCEPT ![p].tries = @ + 1,
                                ![p].st = IF proofs[p].tries + 1 >= MaxTries THEN "blocked" ELSE @]
    /\ UNCHANGED <<truth, accounts, rows, current, confirm, late>>

\* Its time is up: a later confirmation is answered "expired".
ProofExpires(p) ==
    /\ proofs[p] # NoRow /\ proofs[p].st = "pending"
    /\ proofs' = [proofs EXCEPT ![p].st = "expired"]
    /\ UNCHANGED <<truth, accounts, rows, current, confirm, late>>

\* The right secret, by the user the proof was made for.
sp_patreon_proof_consume(h, p) ==
    /\ confirm[h].pc = "idle"
    /\ proofs[p] # NoRow /\ proofs[p].st = "pending"
    /\ proofs' = [proofs EXCEPT ![p].st = "consumed", ![p].tries = @ + 1]
    /\ confirm' = [confirm EXCEPT ![h] =
            [pc |-> "consumed", user |-> proofs[p].user, member |-> proofs[p].member, proof |-> p]]
    /\ UNCHANGED <<truth, accounts, rows, current, late>>

\* sp_patreon_link_conflict_check; a conflict ends the request, the proof is spent.
check_patreon_link_conflict(h) ==
    /\ confirm[h].pc = "consumed"
    /\ LET clear == /\ AccountOf(confirm[h].user) = {}
                    /\ HolderOf(SubjectOf[confirm[h].member]) = {}
       IN confirm' = [confirm EXCEPT ![h] = IF clear THEN [@ EXCEPT !.pc = "clear"] ELSE Resting]
    /\ UNCHANGED <<truth, proofs, accounts, rows, current, late>>

link_patreon_account(h) ==
    /\ confirm[h].pc = "clear"
    /\ LET c == confirm[h]
       IN \/ /\ LinkRefused(c.user, c.member)
             /\ confirm' = [confirm EXCEPT ![h] = Resting] /\ UNCHANGED <<accounts, rows>>
          \/ \E a \in Accounts, r \in Rows :
                /\ sp_patreon_link_account(c.user, c.member, c.proof, a, r)
                /\ confirm' = [confirm EXCEPT ![h] =
                      [pc |-> "linked", user |-> c.user, member |-> c.member, acct |-> a, row |-> r]]
    /\ UNCHANGED <<truth, proofs, current, late>>

\* The member is read at Patreon; without an answer the pending entitlement follows.
_member_payload_for_consumed_proof(h, v) ==
    /\ confirm[h].pc = "linked" /\ v \in {truth[confirm[h].member], "absent"}
    /\ confirm' = [confirm EXCEPT ![h] =
          [pc |-> "read", user |-> @.user, member |-> @.member, acct |-> @.acct, row |-> @.row,
           seen |-> classify_patreon_entitlement(@.member,
                        IF v = "absent" THEN "partial" ELSE v, NoEntitlement)]]
    /\ UNCHANGED <<truth, proofs, accounts, rows, current, late>>

\* A complete reading is stored in two calls, membership then entitlement.
ObserveInitial(h) ==
    /\ confirm[h].pc = "read" /\ confirm[h].seen.complete
    /\ LET c == confirm[h]
       IN /\ \E r \in Rows : /\ sp_patreon_membership_observe(c.user, c.acct, c.member, r)
                             /\ confirm' = [confirm EXCEPT ![h].pc = "observed", ![h].row = r]
          /\ WriteFrom(c.user, c.acct)
    /\ UNCHANGED <<truth, proofs, accounts, current>>
_persist_pending_initial_snapshot(h) ==
    /\ confirm[h].pc = "read" /\ ~confirm[h].seen.complete
    /\ LET c == confirm[h]
       IN /\ sp_patreon_entitlement_snapshot_upsert(c.user, c.row, _future("pending", "free"))
          /\ WriteFrom(c.user, c.acct)
    /\ confirm' = [confirm EXCEPT ![h] = Resting]
    /\ UNCHANGED <<truth, proofs, accounts, rows>>
UpsertInitial(h) ==
    /\ confirm[h].pc = "observed"
    /\ LET c == confirm[h]
       IN /\ sp_patreon_entitlement_snapshot_upsert(c.user, c.row, c.seen)
          /\ WriteFrom(c.user, c.acct)
    /\ confirm' = [confirm EXCEPT ![h] = Resting]
    /\ UNCHANGED <<truth, proofs, accounts, rows>>

\* A database error before the link exists, or the end of the process.
ConfirmFails(h) ==
    /\ confirm[h].pc # "idle"
    /\ confirm' = [confirm EXCEPT ![h] = Resting]
    /\ UNCHANGED <<truth, proofs, accounts, rows, current, late>>

\* sp_patreon_retention_purge: a proof goes some time after its expiry.
PurgeProof(p) ==
    /\ proofs[p] # NoRow /\ proofs[p].st # "pending"
    /\ \A h \in Handlers : confirm[h].pc = "consumed" => confirm[h].proof # p
    /\ proofs' = [proofs EXCEPT ![p] = [user |-> None, st |-> "purged"]]
    /\ UNCHANGED <<truth, accounts, rows, current, confirm, late>>

confirm_patreon_link(h) ==
    \/ \E p \in Proofs : sp_patreon_proof_consume(h, p)
    \/ check_patreon_link_conflict(h) \/ link_patreon_account(h)
    \/ \E v \in Reads : _member_payload_for_consumed_proof(h, v)
    \/ ObserveInitial(h) \/ _persist_pending_initial_snapshot(h) \/ UpsertInitial(h)

LinksInit ==
    /\ truth \in [Members -> Reads]
    /\ proofs = [p \in Proofs |-> NoRow]
    /\ accounts = [a \in Accounts |-> NoRow]
    /\ rows = [r \in Rows |-> NoRow]
    /\ current = [u \in Users |-> NoEntitlement]
    /\ confirm = [h \in Handlers |-> Resting]
    /\ late = {}

Linking ==
    \/ \E u \in Users : unlink_patreon_link(u) \/ EntitlementAges(u)
    \/ \E u \in Users, m \in Members, p \in Proofs : request_patreon_link(u, m, p)
    \/ \E p \in Proofs : WrongSecret(p) \/ ProofExpires(p) \/ PurgeProof(p)
    \/ \E h \in Handlers : confirm_patreon_link(h) \/ ConfirmFails(h)

LinksNext == Linking \/ \E m \in Members, v \in Reads : PatreonChanges(m, v)

LinksSpec == LinksInit /\ [][LinksNext]_linkVars

----------------------------------------------------------------------------
(* Properties.                                                              *)

\* A Patreon account has one holder and a user one Patreon account, whichever
\* confirmations overlap; each link was made by a proof of its own.
OneHolder ==
    \A a, b \in Accounts :
       accounts[a] # NoRow /\ accounts[b] # NoRow /\ a # b =>
          /\ accounts[a].proof # accounts[b].proof
          /\ Linked(a) /\ Linked(b) =>
                accounts[a].user # accounts[b].user /\ accounts[a].sub # accounts[b].sub

\* No reader is told of a paid plan of a user without a Patreon link, unless
\* somebody who had read the link before it ended wrote afterwards.
PaidNeedsLink ==
    \A u \in Users : AccountOf(u) = {} /\ u \notin late =>
       /\ get_internal_patreon_entitlement(u).plan = "free"
       /\ get_patreon_link_status(u).status \notin {"active", "stale"}
=============================================================================
