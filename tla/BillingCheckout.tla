--------------------------- MODULE BillingCheckout ---------------------------
(***************************************************************************)
(* Checkout and portal sessions of the internal billing API: one user of   *)
(* one project asks several replicas, always with the same idempotency     *)
(* key.  A request is a body; replicas remember answers in memory, the     *)
(* database in billing_checkout_intents.                                   *)
(***************************************************************************)
EXTENDS BillingCatalog

CONSTANTS Project, Server, Bodies, MaxSessions

ASSUME CheckoutAssumption == Project \in Projects

VARIABLES
    intents,   \* billing_checkout_intents with this key
    memory,    \* replica -> _IDEMPOTENCY_CACHE: the body and its session
    co,        \* replica -> the checkout it serves
    customer,  \* groups in which the user is a customer
    sessions,  \* the hosted sessions made at Stripe: the body each is for
    portal,    \* replica -> the portal session it remembers
    answers,   \* history: what callers were told, <<body, session>>
    trouble    \* history: what went wrong meanwhile

checkoutVars == <<intents, memory, co, customer, sessions, portal, answers, trouble>>
allVars == <<catalogVars, checkoutVars>>

Nothing == [body |-> None, sess |-> 0]
Waiting == [pc |-> "idle", body |-> None, grp |-> None, row |-> 0, sess |-> 0]
Tell(b, n) == answers' = answers \cup {<<b, n>>}
CoAt(r, pc) == co[r].pc = pc
EndCo(r) == co' = [co EXCEPT ![r] = Waiting]
Trouble(t) == trouble' = trouble \cup {t}

\* The user's access to the project is checked elsewhere; without a group
\* every request ends in an error.
_resolve_scope == att[Project]
_group_feature_ready_response(g, f) ==
    /\ grp[g].st = "active" /\ grp[g].cred = "active" /\ f \in grp[g].caps
    /\ f = "portal" => grp[g].portal
compare_idempotent_request(b, c) == b = c

\* "created", "replay" or "conflict", from what this replica remembers.
_local_idempotency_decision(r, b) ==
    IF memory[r] = Nothing THEN "created"
    ELSE IF compare_idempotent_request(memory[r].body, b) THEN "replay" ELSE "conflict"

create_internal_billing_checkout(r, b) ==
    /\ Serve /\ CoAt(r, "idle") /\ _resolve_scope # None
    /\ _local_idempotency_decision(r, b) # "conflict"
    /\ IF _local_idempotency_decision(r, b) = "replay"
       THEN Tell(b, memory[r].sess) /\ UNCHANGED <<co, trouble>>
       ELSE /\ co' = [co EXCEPT ![r] = [Waiting EXCEPT !.pc = "begin", !.body = b,
                                                       !.grp = _resolve_scope]]
            /\ IF \E q \in Server : ~CoAt(q, "idle") THEN Trouble("overlap") ELSE UNCHANGED trouble
            /\ UNCHANGED answers
    /\ UNCHANGED <<groups, item, stripe, op, catalogHistory, intents, memory, customer, sessions, portal>>

ActiveIntents(g) == {k \in 1 .. Len(intents) : /\ intents[k].grp = g
                                               /\ intents[k].st \in {"pending", "completed"}}

\* The row of the key is locked: a new one, the stored answer, the same row
\* without an answer, or a conflict, which takes the old row out of use.
begin_checkout_intent(r) ==
    /\ CoAt(r, "begin") /\ _require_group(co[r].grp)
    /\ \/ /\ ActiveIntents(co[r].grp) = {}
          /\ intents' = Append(intents, [grp |-> co[r].grp, body |-> co[r].body, st |-> "pending", sess |-> 0])
          /\ co' = [co EXCEPT ![r].pc = "session", ![r].row = Len(intents) + 1]
          /\ UNCHANGED <<answers, trouble>>
       \/ \E k \in ActiveIntents(co[r].grp) :
            IF ~compare_idempotent_request(intents[k].body, co[r].body)
            THEN /\ intents' = [intents EXCEPT ![k].st = "conflict"]
                 /\ EndCo(r) /\ Trouble("conflict") /\ UNCHANGED answers
            ELSE /\ UNCHANGED <<intents, trouble>>
                 /\ IF intents[k].sess # 0 THEN Tell(co[r].body, intents[k].sess) /\ EndCo(r)
                    ELSE co' = [co EXCEPT ![r].pc = "session", ![r].row = k] /\ UNCHANGED answers
    /\ UNCHANGED <<catalogVars, memory, customer, sessions, portal>>

\* The failure, or that the group is gone, is swallowed: the checkout goes on
\* without a row.
_begin_checkout_with_db_fails(r) ==
    /\ CoAt(r, "begin") /\ ("database" \in Faults \/ ~_require_group(co[r].grp)) /\ Trouble("database")
    /\ co' = [co EXCEPT ![r].pc = "session"]
    /\ UNCHANGED <<catalogVars, intents, memory, customer, sessions, portal, answers>>

\* The group's state is read only now.  The key of the customer at Stripe is
\* that of the user and the group, so there is one however often it is made.
_get_or_create_customer_operational_ref(g) == customer' = customer \cup {g}
create_checkout_session(r) ==
    /\ CoAt(r, "session") /\ _group_feature_ready_response(co[r].grp, "checkout")
    /\ Len(sessions) < MaxSessions
    /\ _get_or_create_customer_operational_ref(co[r].grp)
    /\ sessions' = Append(sessions, co[r].body)
    /\ memory' = [memory EXCEPT ![r] = [body |-> co[r].body, sess |-> Len(sessions) + 1]]
    /\ co' = [co EXCEPT ![r].pc = "complete", ![r].sess = Len(sessions) + 1]
    /\ UNCHANGED <<catalogVars, intents, portal, answers, trouble>>

\* The group is not ready, or Stripe fails; the row stays pending.
CheckoutFails(r) ==
    /\ CoAt(r, "session")
    /\ "stripe" \in Faults \/ ~_group_feature_ready_response(co[r].grp, "checkout")
    /\ EndCo(r)
    /\ UNCHANGED <<catalogVars, intents, memory, customer, sessions, portal, answers, trouble>>

\* The row is updated whatever became of it, unless it is gone or another row
\* has the key; an error is swallowed and the caller has its session.
\* Mutation: the answer is not stored with the row.
CompleteWithoutAnswer(r) ==
    /\ CoAt(r, "complete")
    /\ intents' = IF co[r].row # 0 THEN [intents EXCEPT ![co[r].row].st = "completed"] ELSE intents
    /\ Tell(co[r].body, co[r].sess) /\ EndCo(r)
    /\ UNCHANGED <<catalogVars, memory, customer, sessions, portal, trouble>>
complete_checkout_intent(r) ==
    /\ CoAt(r, "complete")
    /\ intents' = IF /\ co[r].row # 0 /\ intents[co[r].row].st # "deleted"
                     /\ ActiveIntents(co[r].grp) \ {co[r].row} = {}
                  THEN [intents EXCEPT ![co[r].row].st = "completed", ![co[r].row].sess = co[r].sess]
                  ELSE intents
    /\ Tell(co[r].body, co[r].sess) /\ EndCo(r)
    /\ UNCHANGED <<catalogVars, memory, customer, sessions, portal, trouble>>

CompleteFails(r) ==
    /\ CoAt(r, "complete") /\ "database" \in Faults /\ Trouble("database")
    /\ Tell(co[r].body, co[r].sess) /\ EndCo(r)
    /\ UNCHANGED <<catalogVars, intents, memory, customer, sessions, portal>>

\* With a key of its own; remembered by this replica only.
create_internal_billing_portal(r) ==
    /\ Serve /\ _resolve_scope # None /\ portal[r] = 0
    /\ _group_feature_ready_response(_resolve_scope, "portal") /\ _resolve_scope \in customer
    /\ Len(sessions) < MaxSessions
    /\ sessions' = Append(sessions, None)
    /\ portal' = [portal EXCEPT ![r] = Len(sessions) + 1]
    /\ UNCHANGED <<groups, item, stripe, op, catalogHistory, intents, memory, co, customer, answers, trouble>>

ServerDies(r) ==
    /\ "crash" \in Faults /\ Trouble("crash") /\ EndCo(r) /\ ~CoAt(r, "idle")
    /\ memory' = [memory EXCEPT ![r] = Nothing] /\ portal' = [portal EXCEPT ![r] = 0]
    /\ UNCHANGED <<catalogVars, intents, customer, sessions, answers>>

CheckoutInit ==
    /\ intents = <<>> /\ memory = [r \in Server |-> Nothing] /\ co = [r \in Server |-> Waiting]
    /\ customer = {} /\ sessions = <<>> /\ portal = [r \in Server |-> 0]
    /\ answers = {} /\ trouble = {}

CheckoutStep ==
    \E r \in Server :
        \/ \E b \in Bodies : create_internal_billing_checkout(r, b)
        \/ begin_checkout_intent(r) \/ _begin_checkout_with_db_fails(r)
        \/ create_checkout_session(r) \/ CheckoutFails(r)
        \/ complete_checkout_intent(r) \/ CompleteFails(r)
        \/ create_internal_billing_portal(r) \/ ServerDies(r)

\* What a deleted group takes along.
Deleted == {g \in Groups : _require_group(g) /\ ~_require_group(g)'}
CheckoutRows ==
    /\ intents' = [k \in DOMAIN intents |->
                     IF intents[k].grp \in Deleted THEN [intents[k] EXCEPT !.st = "deleted"] ELSE intents[k]]
    /\ customer' = customer \ Deleted
    /\ UNCHANGED <<memory, co, sessions, portal, answers, trouble>>

\* The catalog of every group may change meanwhile.
BillingNext ==
    \/ CheckoutStep
    \/ /\ GroupStep \/ (\E a \in Callers, g \in Groups : CatalogRequest(a, g)) \/ CatalogStep
       /\ CheckoutRows
BillingSpec == CatalogInit /\ CheckoutInit /\ [][BillingNext]_allVars

----------------------------------------------------------------------------

\* The project stays in its group: the rows with the key are those of a group,
\* and a project that moves starts anew.
ProjectStays == att[Project] # None => att'[Project] = att[Project]

\* A caller is only ever given a session that was made for its own body; and
\* two answers to the same body name the same session, on whichever replica
\* and however often Stripe failed before, unless requests overlapped, a
\* write was lost, a replica died or another body was tried with the key.
AnswersAgree ==
    \A x, y \in answers :
        /\ sessions[x[2]] = x[1]
        /\ x[1] = y[1] => x[2] = y[2] \/ trouble # {}
=============================================================================
