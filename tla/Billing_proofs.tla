--------------------------- MODULE Billing_proofs ---------------------------
(***************************************************************************)
(* For any number of subscriptions, purchases, events, replicas, workers   *)
(* and jobs, and any faults: which events an answer of 200 may have lost,  *)
(* and how often the fact of an event is persisted.                        *)
(***************************************************************************)
EXTENDS BillingSync, TLAPS

Statuses == {"none", "pending", "incomplete", "active", "past_due", "canceled", "unknown",
             "paid", "refunded", "disputed", "dispute_won"}
HookStates == {"idle", "resolve", "ledger", "persist", "enqueue"}
JobKeys == (Subs \cup {User}) \X (Kinds \cup {"manual"})
JobRow == [key : JobKeys, st : {"none", "completed", "failed"} \cup Active,
           attempts : Nat, lapsed : BOOLEAN]
Scopes == {"none", "user", "full"}
Delivery == [pc : HookStates, ev : Nat, scope : Scopes, known : Statuses, kept : BOOLEAN]
Work == [pc : {"idle", "fetch", "write", "complete"}, job : Nat, attempts : Nat,
         obj : Objects \cup {None}, got : Statuses, res : {"none", "completed", "retry", "failed"}]
Known == 1 .. Len(sent)
AnEvent == [obj : Objects, kind : Kinds]

(* Types.  The events of an object are of its kinds, a job names a          *)
(* subscription or the user (no purchase is written as a subscription), and *)
(* an event that names its user and project is resolved to both.            *)
ProviderOK ==
    /\ truth \in [Objects -> Statuses] /\ sent \in Seq(AnEvent) /\ Len(sent) <= MaxEvents
    /\ due \subseteq Known /\ \A i \in Known : sent[i].kind \in KindsOf(sent[i].obj)
PastScope == {"ledger", "persist", "enqueue"}
HookOK(r) ==
    /\ hook[r].pc # "idle" => hook[r].ev \in Known
    /\ hook[r].pc = "idle" => hook[r].ev = 0
    /\ hook[r].pc \in PastScope /\ Named(Event(r)) => hook[r].scope = "full"
    /\ hook[r].pc = "enqueue" /\ hook[r].kept => ResyncRequired(Event(r).kind)
WorkOK(w) ==
    /\ wk[w].pc # "idle" => wk[w].job \in JobIds
    /\ wk[w].pc = "write" => wk[w].obj \in Subs
TypeOK ==
    /\ ProviderOK
    /\ ledger \subseteq Known /\ memory \in [Replica -> SUBSET Known]
    /\ hook \in [Replica -> Delivery] /\ \A r \in Replica : HookOK(r)
    /\ fact \in [Objects -> Statuses] /\ current \in Subs \cup {None} /\ customer \in BOOLEAN
    /\ jobs \in [JobIds -> JobRow]
    /\ wk \in [Worker -> Work] /\ \A w \in Worker : WorkOK(w)
    /\ acked \subseteq Known /\ handled \subseteq Known
    /\ applied \in [EventIds -> Nat] /\ \A i \in EventIds : applied[i] > 0 => i \in Known

(* What answers, the ledger and the memories say of an event: it took       *)
(* effect, or is on its way past the ledger, or is excused.                 *)
OnItsWay(i) == \E r \in Replica : hook[r].ev = i /\ hook[r].pc \in {"persist", "enqueue"}
Recorded(i) == i \in acked \cup ledger \/ \E r \in Replica : i \in memory[r]
Queueing(r) ==
    hook[r].pc = "enqueue" =>
        IF hook[r].kept THEN hook[r].ev \in handled
        ELSE hook[r].scope = "none" \/ NotStored(hook[r].ev)
LossInv ==
    /\ \A i \in Known : Recorded(i) => i \in handled \/ OnItsWay(i) \/ Excused(i)
    /\ \A r \in Replica : Queueing(r)

(* As long as the ledger answers: who persists an event is alone with it    *)
(* and has recorded it, and what was persisted is recorded until it can     *)
(* come no more.                                                            *)
Persisting(r) == hook[r].pc = "persist"
OnceInv ==
    "ledger" \notin mishaps =>
        /\ \A r \in Replica : Persisting(r) =>
              /\ hook[r].ev \in ledger /\ applied[hook[r].ev] = 0
              /\ \A q \in Replica \ {r} : Persisting(q) => hook[q].ev # hook[r].ev
        /\ \A i \in EventIds :
              /\ applied[i] <= 1
              /\ applied[i] = 1 => i \in ledger \/ (i \notin due /\ ~InHand(i))

IInv == TypeOK /\ LossInv /\ OnceInv

-----------------------------------------------------------------------------
(* Types. *)

LEMMA Classified ==
  ASSUME NEW k, NEW x \in Statuses PROVE classify_stripe_event(k) \in Statuses /\ StatusToObserve(k, x) \in Statuses
BY DEF classify_stripe_event, StatusToObserve, _classify_checkout_completed, _classify_subscription_event,
       _classify_invoice_event, _classify_charge_refunded, _classify_dispute_event, _evidence_mismatch,
       Statuses

LEMMA ResyncIsOfSubs ==
  ASSUME NEW o \in Objects, NEW k \in KindsOf(o), ResyncRequired(k) PROVE o \in Subs
BY DEF KindsOf, ResyncRequired, SubKinds, PurchaseKinds

LEMMA NoJobTyped == NoJob \in JobRow /\ Resting \in Work /\ Idle \in Delivery
BY DEF NoJob, JobRow, JobKeys, User, Resting, Work, Idle, Delivery, HookStates, Scopes, Statuses

LEMMA InitTypes == Init => TypeOK
<1> SUFFICES ASSUME Init PROVE TypeOK
  OBVIOUS
<1>1. ProviderOK
  BY SyncAssumption DEF Init, ProviderOK, Statuses, Known
<1>2. /\ ledger \subseteq Known /\ acked \subseteq Known /\ handled \subseteq Known
      /\ fact \in [Objects -> Statuses] /\ current \in Subs \cup {None} /\ customer \in BOOLEAN
  BY DEF Init, Statuses
<1>6. memory \in [Replica -> SUBSET Known]
  BY DEF Init
<1>7. applied \in [EventIds -> Nat] /\ \A i \in EventIds : applied[i] > 0 => i \in Known
  <2>1. applied = [i \in EventIds |-> 0]
    BY DEF Init
  <2> QED BY <2>1
<1>3. /\ hook \in [Replica -> Delivery] /\ jobs \in [JobIds -> JobRow] /\ wk \in [Worker -> Work]
  BY NoJobTyped DEF Init
<1>4. \A r \in Replica : HookOK(r)
  BY DEF Init, HookOK, Idle, PastScope
<1>5. \A w \in Worker : WorkOK(w)
  BY DEF Init, WorkOK, Resting
<1> QED BY <1>1, <1>2, <1>3, <1>4, <1>5, <1>6, <1>7 DEF TypeOK

LEMMA EmitTypes == ASSUME TypeOK, NEW o \in Objects, NEW k \in Kinds, Emit(o, k) PROVE TypeOK'
<1>1. TruthAfter(k, truth[o]) \in Statuses
  BY DEF TruthAfter, TypeOK, ProviderOK, Statuses
<1>2. truth' \in [Objects -> Statuses]
  BY <1>1 DEF Emit, TypeOK, ProviderOK
<1>3. /\ sent' \in Seq(AnEvent) /\ Len(sent') = Len(sent) + 1 /\ Len(sent) \in Nat /\ Len(sent') <= MaxEvents
      /\ \A i \in Known : sent'[i] = sent[i]
      /\ sent'[Len(sent) + 1] = [obj |-> o, kind |-> k]
  BY SyncAssumption DEF Emit, TypeOK, ProviderOK, AnEvent, Known
<1>4. Known' = Known \cup {Len(sent) + 1} /\ Len(sent) + 1 \notin Known
  BY <1>3 DEF Known
<1>5. ProviderOK'
  <2>1. \A i \in Known' : sent'[i].kind \in KindsOf(sent'[i].obj)
    <3> SUFFICES ASSUME NEW i \in Known' PROVE sent'[i].kind \in KindsOf(sent'[i].obj)
      OBVIOUS
    <3>1. CASE i \in Known
      BY <1>3, <3>1 DEF TypeOK, ProviderOK
    <3>2. CASE i = Len(sent) + 1
      BY <1>3, <3>2 DEF Emit
    <3> QED BY <1>4, <3>1, <3>2
  <2>2. due' \subseteq Known'
    BY <1>4 DEF Emit, TypeOK, ProviderOK
  <2> QED BY <1>2, <1>3, <2>1, <2>2 DEF ProviderOK
<1>6. \A r \in Replica : HookOK(r)'
  <2> SUFFICES ASSUME NEW r \in Replica PROVE HookOK(r)'
    OBVIOUS
  <2>1. hook' = hook /\ HookOK(r)
    BY DEF Emit, TypeOK
  <2>2. hook[r].pc # "idle" => sent'[hook[r].ev] = sent[hook[r].ev]
    BY <1>3, <2>1 DEF HookOK
  <2> QED BY <1>4, <2>1, <2>2 DEF HookOK, Event, Named, PastScope
<1>7. UNCHANGED <<ledger, memory, hook, facts, jobs, wk, history>>
  BY DEF Emit
<1>8. \A w \in Worker : WorkOK(w)'
  BY <1>7 DEF TypeOK, WorkOK
<1> HIDE DEF Known
<1> QED BY <1>4, <1>5, <1>6, <1>7, <1>8 DEF TypeOK, facts, history

LEMMA RetireTypes == ASSUME TypeOK, NEW i, Retire(i) PROVE TypeOK'
BY DEF Retire, TypeOK, ProviderOK, HookOK, Event, Named, WorkOK, Known, facts, history

\* A delivery moves on; nothing is emitted.
LEMMA DeliveryMoves ==
  ASSUME TypeOK, NEW r \in Replica, NEW d \in Delivery, hook' = [hook EXCEPT ![r] = d], UNCHANGED sent,
         d.pc = "idle" => d.ev = 0, d.pc # "idle" => d.ev \in Known,
         d.pc = "enqueue" /\ d.kept => ResyncRequired(sent[d.ev].kind),
         d.pc \in PastScope /\ Named(sent[d.ev]) => d.scope = "full"
  PROVE  hook' \in [Replica -> Delivery] /\ \A q \in Replica : HookOK(q)'
<1>1. hook' \in [Replica -> Delivery]
  BY DEF TypeOK
<1>2. ASSUME NEW q \in Replica PROVE HookOK(q)'
  <2>1. CASE q = r
    BY <2>1 DEF HookOK, Event, Named, TypeOK, Known
  <2>2. CASE q # r
    BY <2>2 DEF HookOK, Event, Named, TypeOK, Known
  <2> QED BY <2>1, <2>2
<1> QED BY <1>1, <1>2

LEMMA AnswerMoves ==
  ASSUME TypeOK, NEW r \in Replica, Answer(r), UNCHANGED sent
  PROVE  hook' \in [Replica -> Delivery] /\ \A q \in Replica : HookOK(q)'
<1>1. Idle \in Delivery /\ Idle.pc = "idle" /\ Idle.ev = 0
  BY DEF Idle, Delivery, HookStates, Scopes, Statuses
<1> QED BY <1>1, DeliveryMoves DEF Answer, PastScope

LEMMA KnownFacts ==
  ASSUME TypeOK
  PROVE  /\ Known \subseteq EventIds /\ Known \subseteq Nat \ {0}
         /\ \A i \in Known : /\ sent[i] \in AnEvent /\ sent[i].obj \in Objects
                             /\ sent[i].kind \in KindsOf(sent[i].obj)
<1>1. sent \in Seq(AnEvent) /\ Len(sent) \in Nat /\ Len(sent) <= MaxEvents /\ MaxEvents \in Nat
  BY SyncAssumption DEF TypeOK, ProviderOK
<1>2. Known \subseteq EventIds /\ Known \subseteq Nat \ {0}
  BY <1>1 DEF Known, EventIds
<1>3. \A i \in Known : sent[i] \in AnEvent
  BY <1>1 DEF Known
<1>4. \A i \in Known : sent[i].obj \in Objects
  BY <1>3 DEF AnEvent
<1> QED BY <1>2, <1>3, <1>4 DEF TypeOK, ProviderOK

LEMMA EventTyped ==
  ASSUME TypeOK, NEW r \in Replica, hook[r].pc # "idle"
  PROVE  /\ hook[r] \in Delivery /\ hook[r].ev \in Known /\ hook[r].ev \in EventIds
         /\ Event(r) \in AnEvent /\ Event(r).obj \in Objects /\ Event(r).kind \in KindsOf(Event(r).obj)
<1>1. hook[r] \in Delivery /\ hook[r].ev \in Known
  BY DEF TypeOK, HookOK
<1> QED BY <1>1, KnownFacts DEF Event

\* A delivery past its scope keeps it.
LEMMA StepsOn ==
  ASSUME TypeOK, NEW r \in Replica, hook[r].pc = "ledger", UNCHANGED sent,
         hook' = [hook EXCEPT ![r].pc = "persist"]
  PROVE  hook' \in [Replica -> Delivery] /\ \A q \in Replica : HookOK(q)'
<1> DEFINE d == [hook[r] EXCEPT !.pc = "persist"]
<1>1. d \in Delivery /\ d.pc = "persist" /\ d.ev = hook[r].ev /\ d.scope = hook[r].scope
  BY EventTyped DEF Delivery, HookStates
<1>2. hook' = [hook EXCEPT ![r] = d]
  BY EventTyped DEF Delivery, TypeOK
<1>3. Named(sent[d.ev]) => d.scope = "full"
  BY <1>1 DEF TypeOK, HookOK, Event, PastScope
<1> HIDE DEF d
<1> QED BY <1>1, <1>2, <1>3, EventTyped, DeliveryMoves

\* A step that emits nothing.
LEMMA HookStepTypes ==
  ASSUME TypeOK, UNCHANGED provider,
         hook' \in [Replica -> Delivery], \A q \in Replica : HookOK(q)',
         ledger' \subseteq Known, memory' \in [Replica -> SUBSET Known],
         fact' \in [Objects -> Statuses], current' \in Subs \cup {None}, customer' \in BOOLEAN,
         jobs' \in [JobIds -> JobRow], UNCHANGED wk,
         acked' \subseteq Known, handled' \subseteq Known,
         applied' \in [EventIds -> Nat], \A i \in EventIds : applied'[i] > 0 => i \in Known
  PROVE  TypeOK'
BY DEF TypeOK, ProviderOK, WorkOK, Known, provider

LEMMA ReceiveTypes ==
  ASSUME TypeOK, NEW r \in Replica, NEW i \in EventIds, receive_stripe_webhook(r, i) PROVE TypeOK'
<1> DEFINE d == [Idle EXCEPT !.pc = "resolve", !.ev = i]
<1>1. i \in Known /\ d \in Delivery /\ d.pc = "resolve" /\ d.ev = i
  <2>1. i \in Known /\ i \in Nat
    BY KnownFacts DEF receive_stripe_webhook, TypeOK, ProviderOK
  <2> QED BY <2>1 DEF Idle, Delivery, HookStates, Scopes, Statuses
<1>2. hook' = [hook EXCEPT ![r] = d] /\ UNCHANGED <<provider, ledger, memory, facts, jobs, wk, history>>
  BY DEF receive_stripe_webhook
<1>3. sent' = sent
  BY <1>2 DEF provider
<1> HIDE DEF d
<1>4. hook' \in [Replica -> Delivery] /\ \A q \in Replica : HookOK(q)'
  BY <1>1, <1>2, <1>3, DeliveryMoves DEF PastScope
<1> QED BY <1>2, <1>4, HookStepTypes DEF TypeOK, facts, history

LEMMA ResolveTypes == ASSUME TypeOK, NEW r \in Replica, _resolve_event_scope(r) PROVE TypeOK'
<1>1. hook[r].pc # "idle" /\ UNCHANGED <<provider, ledger, memory, facts, jobs, wk, history>> /\ sent' = sent
  BY DEF _resolve_event_scope, HookAt, provider
<1>2. hook' \in [Replica -> Delivery] /\ \A q \in Replica : HookOK(q)'
  <2>1. CASE Answer(r)
    BY <1>1, <2>1, AnswerMoves
  <2>2. CASE hook' = [hook EXCEPT ![r].pc = "ledger", ![r].scope = ScopeOf(Event(r)),
                                  ![r].known = fact[Event(r).obj]]
    <3> DEFINE d == [hook[r] EXCEPT !.pc = "ledger", !.scope = ScopeOf(Event(r)), !.known = fact[Event(r).obj]]
    <3>1. fact[Event(r).obj] \in Statuses
      BY <1>1, EventTyped DEF TypeOK
    <3>2. ScopeOf(Event(r)) \in Scopes /\ (Named(Event(r)) => ScopeOf(Event(r)) = "full")
      BY DEF ScopeOf, _lookup_event_refs, Scopes
    <3>3. d \in Delivery /\ d.pc = "ledger" /\ d.ev = hook[r].ev /\ d.scope = ScopeOf(Event(r))
      BY <1>1, <3>1, <3>2, EventTyped DEF Delivery, HookStates
    <3>4. hook' = [hook EXCEPT ![r] = d]
      BY <1>1, <2>2, EventTyped DEF Delivery, TypeOK
    <3>5. Named(sent[d.ev]) => d.scope = "full"
      BY <3>2, <3>3 DEF Event
    <3> HIDE DEF d
    <3> QED BY <1>1, <3>3, <3>4, <3>5, EventTyped, DeliveryMoves
  <2> QED BY <2>1, <2>2 DEF _resolve_event_scope
<1> QED BY <1>1, <1>2, HookStepTypes DEF TypeOK, facts, history

LEMMA ScopeTypes == ASSUME TypeOK, NEW r \in Replica, ScopeUnavailable(r) PROVE TypeOK'
<1>1. UNCHANGED <<provider, ledger, memory, facts, jobs, wk, history>> /\ sent' = sent /\ Answer(r)
  BY DEF ScopeUnavailable, provider
<1> QED BY <1>1, AnswerMoves, HookStepTypes DEF TypeOK, facts, history

LEMMA ForwardTypes ==
  ASSUME TypeOK, NEW r \in Replica, hook[r].pc = "ledger", UNCHANGED sent, Forward(r)
  PROVE  /\ hook' \in [Replica -> Delivery] /\ \A q \in Replica : HookOK(q)'
         /\ acked' \subseteq Known /\ handled' \subseteq Known
<1>1. CASE Accept(r) /\ handled' = handled \cup {hook[r].ev}
  BY <1>1, AnswerMoves, EventTyped DEF Accept, TypeOK
<1>2. CASE hook' = [hook EXCEPT ![r].pc = "persist"] /\ UNCHANGED <<acked, handled>>
  BY <1>2, StepsOn DEF TypeOK
<1> QED BY <1>1, <1>2 DEF Forward

LEMMA LedgerTypes == ASSUME TypeOK, NEW r \in Replica, _record_delivery_ledger(r) PROVE TypeOK'
<1>1. hook[r].pc = "ledger" /\ UNCHANGED <<provider, facts, jobs, wk, applied>> /\ sent' = sent
  BY DEF _record_delivery_ledger, HookAt, provider
<1>2. /\ hook' \in [Replica -> Delivery] /\ \A q \in Replica : HookOK(q)'
      /\ acked' \subseteq Known /\ handled' \subseteq Known
      /\ ledger' \subseteq Known /\ memory' \in [Replica -> SUBSET Known]
  <2>1. CASE Accept(r) /\ UNCHANGED <<ledger, memory, handled>>
    BY <1>1, <2>1, AnswerMoves, EventTyped DEF Accept, TypeOK
  <2>2. CASE /\ ledger' = ledger \cup {hook[r].ev}
             /\ memory' = [memory EXCEPT ![r] = @ \cup {hook[r].ev}]
             /\ Forward(r)
    <3>1. ledger' \subseteq Known /\ memory' \in [Replica -> SUBSET Known]
      BY <1>1, <2>2, EventTyped DEF TypeOK
    <3> QED BY <1>1, <2>2, <3>1, ForwardTypes
  <2> QED BY <2>1, <2>2 DEF _record_delivery_ledger
<1> QED BY <1>1, <1>2, HookStepTypes DEF TypeOK, facts

LEMMA LedgerFailsTypes == ASSUME TypeOK, NEW r \in Replica, LedgerFails(r) PROVE TypeOK'
<1>1. hook[r].pc = "ledger" /\ UNCHANGED <<provider, ledger, facts, jobs, wk, applied>> /\ sent' = sent
  BY DEF LedgerFails, HookAt, provider
<1>2. memory' \in [Replica -> SUBSET Known]
  BY <1>1, EventTyped DEF TypeOK, LedgerFails
<1>3. /\ hook' \in [Replica -> Delivery] /\ \A q \in Replica : HookOK(q)'
      /\ acked' \subseteq Known /\ handled' \subseteq Known
  BY <1>1, ForwardTypes DEF LedgerFails
<1> QED BY <1>1, <1>2, <1>3, HookStepTypes DEF TypeOK, facts

LEMMA PersistedTypes ==
  ASSUME TypeOK, NEW r \in Replica, hook[r].pc = "persist", UNCHANGED sent, NEW kept \in BOOLEAN, Persisted(r, kept)
  PROVE  /\ hook' \in [Replica -> Delivery] /\ \A q \in Replica : HookOK(q)'
         /\ acked' \subseteq Known
<1>1. CASE (ResyncRequired(Event(r).kind) \/ ~kept)
  <2> DEFINE d == [hook[r] EXCEPT !.pc = "enqueue", !.kept = kept]
  <2>1. d \in Delivery /\ d.pc = "enqueue" /\ d.kept = kept /\ d.ev = hook[r].ev /\ d.scope = hook[r].scope
    BY EventTyped DEF Delivery, HookStates
  <2>2. hook' = [hook EXCEPT ![r] = d] /\ acked' = acked
    BY <1>1, EventTyped DEF Persisted, TypeOK, Delivery
  <2>3. d.kept => ResyncRequired(sent[d.ev].kind)
    BY <1>1, <2>1 DEF Event
  <2>5. Named(sent[d.ev]) => d.scope = "full"
    BY <2>1 DEF TypeOK, HookOK, Event, PastScope
  <2> HIDE DEF d
  <2>4. hook' \in [Replica -> Delivery] /\ \A q \in Replica : HookOK(q)'
    BY <2>1, <2>2, <2>3, <2>5, EventTyped, DeliveryMoves
  <2> QED BY <2>2, <2>4 DEF TypeOK
<1>2. CASE ~(ResyncRequired(Event(r).kind) \/ ~kept)
  BY <1>2, AnswerMoves, EventTyped DEF Persisted, Accept, TypeOK
<1> QED BY <1>1, <1>2

LEMMA PersistTypes == ASSUME TypeOK, NEW r \in Replica, _persist_classification(r) PROVE TypeOK'
<1>1. /\ hook[r].pc = "persist" /\ Persisted(r, Placed(r)) /\ Placed(r) \in BOOLEAN /\ sent' = sent
      /\ UNCHANGED <<provider, ledger, memory, jobs, wk>>
  BY DEF _persist_classification, HookAt, provider, Placed
<1>2. /\ hook' \in [Replica -> Delivery] /\ \A q \in Replica : HookOK(q)' /\ acked' \subseteq Known
  BY <1>1, PersistedTypes
<1>3. customer' \in BOOLEAN
  BY DEF _persist_classification, _upsert_customer_from_event, TypeOK
<1>4. CASE Placed(r)
  <2>1. /\ handled' = handled \cup {hook[r].ev} /\ applied' = [applied EXCEPT ![hook[r].ev] = @ + 1]
        /\ WriteFact(Event(r).obj, StatusToObserve(Event(r).kind, hook[r].known))
    BY <1>4 DEF _persist_classification
  <2>2. StatusToObserve(Event(r).kind, hook[r].known) \in Statuses
    BY <1>1, EventTyped, Classified DEF Delivery
  <2>3. fact' \in [Objects -> Statuses] /\ current' \in Subs \cup {None}
    BY <1>1, <2>1, <2>2, EventTyped DEF WriteFact, observe_subscription, record_purchase_event, TypeOK
  <2>4. applied' \in [EventIds -> Nat] /\ \A i \in EventIds : applied'[i] > 0 => i \in Known
    BY <1>1, <2>1, EventTyped DEF TypeOK
  <2>5. handled' \subseteq Known
    BY <1>1, <2>1, EventTyped DEF TypeOK
  <2> QED BY <1>1, <1>2, <1>3, <2>3, <2>4, <2>5, HookStepTypes DEF TypeOK
<1>5. CASE ~Placed(r)
  <2>1. UNCHANGED <<fact, current, handled, applied>>
    BY <1>5 DEF _persist_classification
  <2> QED BY <1>1, <1>2, <1>3, <2>1, HookStepTypes DEF TypeOK
<1> QED BY <1>4, <1>5

LEMMA PersistFailsTypes == ASSUME TypeOK, NEW r \in Replica, PersistFails(r) PROVE TypeOK'
<1>1. /\ hook[r].pc = "persist" /\ Persisted(r, FALSE) /\ sent' = sent /\ customer' \in {customer, TRUE}
      /\ UNCHANGED <<provider, ledger, memory, fact, current, jobs, wk, handled, applied>>
  BY DEF PersistFails, HookAt, provider
<1>2. /\ hook' \in [Replica -> Delivery] /\ \A q \in Replica : HookOK(q)' /\ acked' \subseteq Known
  BY <1>1, PersistedTypes
<1> QED BY <1>1, <1>2, HookStepTypes DEF TypeOK

LEMMA ClassifyFailsTypes == ASSUME TypeOK, NEW r \in Replica, ClassifyFails(r) PROVE TypeOK'
<1>1. /\ hook[r].pc = "persist" /\ sent' = sent
      /\ hook' = [hook EXCEPT ![r].pc = "enqueue", ![r].kept = FALSE]
      /\ UNCHANGED <<provider, ledger, memory, facts, jobs, wk, history>>
  BY DEF ClassifyFails, HookAt, provider
<1> DEFINE d == [hook[r] EXCEPT !.pc = "enqueue", !.kept = FALSE]
<1>2. /\ d \in Delivery /\ d.pc = "enqueue" /\ d.kept = FALSE
      /\ d.ev = hook[r].ev /\ d.scope = hook[r].scope
  BY <1>1, EventTyped DEF Delivery, HookStates
<1>5. Named(sent[d.ev]) => d.scope = "full"
  BY <1>1, <1>2 DEF TypeOK, HookOK, Event, PastScope
<1>3. hook' = [hook EXCEPT ![r] = d]
  BY <1>1, EventTyped DEF TypeOK, Delivery
<1> HIDE DEF d
<1>4. hook' \in [Replica -> Delivery] /\ \A q \in Replica : HookOK(q)'
  BY <1>1, <1>2, <1>3, <1>5, EventTyped, DeliveryMoves
<1> QED BY <1>1, <1>4, HookStepTypes DEF TypeOK, facts, history

LEMMA QueuedTypes == ASSUME TypeOK, NEW k \in JobKeys, enqueue_sync_job(k) PROVE jobs' \in [JobIds -> JobRow]
<1>1. CASE UNCHANGED jobs
  BY <1>1 DEF TypeOK
<1>2. ASSUME NEW j \in JobIds, jobs' = [jobs EXCEPT ![j] = [NoJob EXCEPT !.key = k, !.st = "pending"]]
      PROVE  jobs' \in [JobIds -> JobRow]
  <2>1. [NoJob EXCEPT !.key = k, !.st = "pending"] \in JobRow
    BY DEF NoJob, JobRow, Active
  <2> QED BY <1>2, <2>1 DEF TypeOK
<1> QED BY <1>1, <1>2 DEF enqueue_sync_job

LEMMA EnqueueTypes == ASSUME TypeOK, NEW r \in Replica, _enqueue_resync_for_event(r) PROVE TypeOK'
<1>1. /\ hook[r].pc = "enqueue" /\ Accept(r) /\ sent' = sent
      /\ handled' \subseteq handled \cup {hook[r].ev}
      /\ UNCHANGED <<provider, ledger, memory, facts, wk, applied>>
  BY DEF _enqueue_resync_for_event, HookAt, provider
<1>2. hook' \in [Replica -> Delivery] /\ \A q \in Replica : HookOK(q)'
  BY <1>1, AnswerMoves DEF Accept
<1>3. acked' \subseteq Known /\ handled' \subseteq Known
  BY <1>1, EventTyped DEF Accept, TypeOK
<1>4. ResyncKey(r) \in JobKeys
  <2>1. Event(r).kind \in Kinds
    BY <1>1, EventTyped DEF KindsOf
  <2>2. hook[r].kept => Event(r).obj \in Subs
    BY <1>1, EventTyped, ResyncIsOfSubs DEF TypeOK, HookOK
  <2> QED BY <2>1, <2>2 DEF ResyncKey, JobKeys
<1>5. jobs' \in [JobIds -> JobRow]
  BY <1>4, QueuedTypes DEF _enqueue_resync_for_event, TypeOK
<1> QED BY <1>1, <1>2, <1>3, <1>5, HookStepTypes DEF TypeOK, facts

LEMMA EnqueueFailsTypes == ASSUME TypeOK, NEW r \in Replica, EnqueueFails(r) PROVE TypeOK'
<1>1. /\ hook[r].pc # "idle" /\ Accept(r) /\ sent' = sent
      /\ UNCHANGED <<provider, ledger, memory, facts, jobs, wk, handled, applied>>
  BY DEF EnqueueFails, HookAt, provider
<1> QED BY <1>1, AnswerMoves, EventTyped, HookStepTypes DEF Accept, TypeOK, facts

LEMMA ReplicaDiesTypes == ASSUME TypeOK, NEW r \in Replica, ReplicaDies(r) PROVE TypeOK'
<1>1. /\ Answer(r) /\ memory' = [memory EXCEPT ![r] = {}] /\ sent' = sent
      /\ UNCHANGED <<provider, ledger, facts, jobs, wk, acked, handled, applied>>
  BY DEF ReplicaDies, provider
<1>2. memory' \in [Replica -> SUBSET Known]
  BY <1>1 DEF TypeOK
<1> QED BY <1>1, <1>2, AnswerMoves, HookStepTypes DEF TypeOK, facts

LEMMA ResyncTypes == ASSUME TypeOK, enqueue_internal_billing_resync PROVE TypeOK'
<1>1. /\ enqueue_sync_job(<<User, "manual">>) /\ <<User, "manual">> \in JobKeys /\ UNCHANGED provider
      /\ UNCHANGED <<ledger, memory, hook, facts, wk, history>>
  BY DEF enqueue_internal_billing_resync, JobKeys
<1>2. \A q \in Replica : HookOK(q)'
  BY <1>1 DEF TypeOK, HookOK, Event, Named, Known, provider
<1> QED BY <1>1, <1>2, QueuedTypes, HookStepTypes DEF TypeOK, facts, history

\* A step of the worker, or of a lease, that moves no delivery.
LEMMA JobStepTypes ==
  ASSUME TypeOK, UNCHANGED <<provider, ledger, memory, hook, history>>,
         fact' \in [Objects -> Statuses], current' \in Subs \cup {None}, customer' \in BOOLEAN,
         jobs' \in [JobIds -> JobRow], wk' \in [Worker -> Work], \A w \in Worker : WorkOK(w)'
  PROVE  TypeOK'
BY DEF TypeOK, ProviderOK, HookOK, Event, Named, Known, provider, history

LEMMA WorkMoves ==
  ASSUME TypeOK, NEW w \in Worker, NEW d \in Work, wk' = [wk EXCEPT ![w] = d],
         d.pc # "idle" => d.job \in JobIds, d.pc = "write" => d.obj \in Subs
  PROVE  wk' \in [Worker -> Work] /\ \A v \in Worker : WorkOK(v)'
BY DEF TypeOK, WorkOK

LEMMA WorkTyped == ASSUME TypeOK, NEW w \in Worker PROVE wk[w] \in Work /\ WorkOK(w)
BY DEF TypeOK

LEMMA JobIdsFacts == \A j \in JobIds : j \in Nat
BY DEF JobIds

LEMMA ClaimTypes ==
  ASSUME TypeOK, NEW w \in Worker, NEW j \in JobIds, claim_sync_jobs(w, j) PROVE TypeOK'
<1>1. UNCHANGED <<provider, ledger, memory, hook, facts, history>>
  BY DEF claim_sync_jobs
<1>2. jobs[j] \in JobRow /\ jobs[j].attempts \in Nat
  BY DEF TypeOK, JobRow
<1>3. jobs' \in [JobIds -> JobRow]
  <2> DEFINE b == [jobs[j] EXCEPT !.st = "running", !.attempts = @ + 1, !.lapsed = FALSE]
  <2>1. b \in JobRow
    <3>1. jobs[j].attempts + 1 \in Nat /\ "running" \in Active
      BY <1>2 DEF Active
    <3> QED BY <1>2, <3>1 DEF JobRow
  <2>2. jobs' = [jobs EXCEPT ![j].st = "running", ![j].attempts = @ + 1, ![j].lapsed = FALSE]
    BY DEF claim_sync_jobs
  <2>3. jobs' = [jobs EXCEPT ![j] = b]
    BY <1>2, <2>2 DEF TypeOK, JobRow
  <2> HIDE DEF b
  <2> QED BY <2>1, <2>3 DEF TypeOK
<1>4. wk' \in [Worker -> Work] /\ \A v \in Worker : WorkOK(v)'
  <2> DEFINE d == [Resting EXCEPT !.pc = "fetch", !.job = j, !.attempts = jobs[j].attempts + 1]
  <2>1. d \in Work /\ d.pc = "fetch" /\ d.job = j
    <3>1. jobs[j].attempts + 1 \in Nat /\ j \in Nat
      BY <1>2, JobIdsFacts
    <3> QED BY <3>1 DEF Resting, Work, Statuses
  <2>2. wk' = [wk EXCEPT ![w] = d]
    BY DEF claim_sync_jobs
  <2> HIDE DEF d
  <2> QED BY <2>1, <2>2, WorkMoves
<1> QED BY <1>1, <1>3, <1>4, JobStepTypes DEF TypeOK, facts

LEMMA CompletesTypes ==
  ASSUME TypeOK, NEW w \in Worker, wk[w].pc # "idle", NEW x \in {"completed", "retry", "failed"}, ToComplete(w, x)
  PROVE  wk' \in [Worker -> Work] /\ \A v \in Worker : WorkOK(v)'
<1> DEFINE d == [wk[w] EXCEPT !.pc = "complete", !.res = x]
<1>1. d \in Work /\ d.pc = "complete" /\ d.job = wk[w].job
  BY WorkTyped DEF Work
<1>2. wk' = [wk EXCEPT ![w] = d]
  BY WorkTyped DEF ToComplete, TypeOK, Work
<1> HIDE DEF d
<1> QED BY <1>1, <1>2, WorkTyped, WorkMoves DEF WorkOK

LEMMA BackoffTyped == \A a : decide_retry_backoff(a) \in {"completed", "retry", "failed"}
BY DEF decide_retry_backoff

LEMMA FetchesSubs ==
  ASSUME TypeOK, NEW w \in Worker, wk[w].pc # "idle" PROVE Fetches(w) \subseteq Subs
<1>1. jobs[wk[w].job].key \in JobKeys
  BY WorkTyped DEF WorkOK, TypeOK, JobRow
<1>2. _operational_refs_for_job(w) \in Subs \cup {User}
  BY <1>1 DEF JobKeys, _operational_refs_for_job
<1>3. select_current_subscription \subseteq Subs
  BY DEF select_current_subscription
<1> QED BY <1>2, <1>3 DEF Fetches, _fetch_customer_subscription

LEMMA FetchTypes == ASSUME TypeOK, NEW w \in Worker, source_of_truth_resync(w) PROVE TypeOK'
<1>1. wk[w].pc = "fetch" /\ UNCHANGED <<provider, ledger, memory, hook, facts, jobs, history>>
  BY DEF source_of_truth_resync, WorkAt
<1>2. wk' \in [Worker -> Work] /\ \A v \in Worker : WorkOK(v)'
  <2>1. CASE ToComplete(w, "completed")
    BY <1>1, <2>1, CompletesTypes
  <2>2. ASSUME NEW o \in Fetches(w), wk' = [wk EXCEPT ![w].pc = "write", ![w].obj = o, ![w].got = truth[o]]
        PROVE  wk' \in [Worker -> Work] /\ \A v \in Worker : WorkOK(v)'
    <3> DEFINE d == [wk[w] EXCEPT !.pc = "write", !.obj = o, !.got = truth[o]]
    <3>1. o \in Subs /\ o \in Objects /\ truth[o] \in Statuses
      BY <1>1, FetchesSubs DEF Objects, TypeOK, ProviderOK
    <3>2. d \in Work /\ d.pc = "write" /\ d.job = wk[w].job /\ d.obj = o
      BY <3>1, WorkTyped DEF Work
    <3>3. wk' = [wk EXCEPT ![w] = d]
      BY <2>2, WorkTyped DEF TypeOK, Work
    <3> HIDE DEF d
    <3> QED BY <1>1, <3>1, <3>2, <3>3, WorkTyped, WorkMoves DEF WorkOK
  <2> QED BY <2>1, <2>2 DEF source_of_truth_resync
<1> QED BY <1>1, <1>2, JobStepTypes DEF TypeOK, facts

LEMMA FailureTypes ==
  ASSUME TypeOK, NEW w \in Worker, _handle_provider_failure(w) \/ WriteBackFails(w) PROVE TypeOK'
<1>1. wk[w].pc # "idle" /\ UNCHANGED <<provider, ledger, memory, hook, facts, jobs, history>>
  BY DEF _handle_provider_failure, WriteBackFails, WorkAt
<1>2. ToComplete(w, decide_retry_backoff(wk[w].attempts))
  BY DEF _handle_provider_failure, WriteBackFails
<1> HIDE DEF TypeOK
<1>3. wk' \in [Worker -> Work] /\ \A v \in Worker : WorkOK(v)'
  BY <1>1, <1>2, BackoffTyped, CompletesTypes
<1> QED BY <1>1, <1>3, JobStepTypes DEF TypeOK, facts

LEMMA WriteBackTypes == ASSUME TypeOK, NEW w \in Worker, _write_back(w) PROVE TypeOK'
<1>1. /\ wk[w].pc = "write" /\ ToComplete(w, "completed")
      /\ fact' = [fact EXCEPT ![wk[w].obj] = wk[w].got] /\ current' = wk[w].obj /\ customer' = customer
      /\ UNCHANGED <<provider, ledger, memory, hook, jobs, history>>
  BY DEF _write_back, _write_subscription_fact, observe_subscription, WorkAt
<1>2. wk[w].obj \in Subs /\ wk[w].got \in Statuses
  BY <1>1, WorkTyped DEF WorkOK, Work
<1>3. fact' \in [Objects -> Statuses] /\ current' \in Subs \cup {None}
  BY <1>1, <1>2 DEF TypeOK
<1>4. wk' \in [Worker -> Work] /\ \A v \in Worker : WorkOK(v)'
  BY <1>1, CompletesTypes
<1> QED BY <1>1, <1>3, <1>4, JobStepTypes DEF TypeOK

LEMMA RestsTypes ==
  ASSUME TypeOK, NEW w \in Worker, wk' = [wk EXCEPT ![w] = Resting]
  PROVE  wk' \in [Worker -> Work] /\ \A v \in Worker : WorkOK(v)'
<1>1. Resting \in Work /\ Resting.pc = "idle"
  BY NoJobTyped DEF Resting
<1> QED BY <1>1, WorkMoves

LEMMA FinalizeTypes == ASSUME TypeOK, NEW w \in Worker, _finalize_sync_job(w) PROVE TypeOK'
<1>1. /\ wk[w].pc = "complete" /\ complete_sync_job(wk[w].job, wk[w].res) /\ wk' = [wk EXCEPT ![w] = Resting]
      /\ UNCHANGED <<provider, ledger, memory, hook, facts, history>>
  BY DEF _finalize_sync_job, WorkAt
<1>2. wk[w].job \in JobIds /\ wk[w].res \in {"none", "completed", "retry", "failed"}
  BY <1>1, WorkTyped DEF WorkOK, Work
<1>3. jobs' \in [JobIds -> JobRow]
  <2> DEFINE b == [jobs[wk[w].job] EXCEPT !.st = wk[w].res, !.lapsed = FALSE]
  <2>1. b \in JobRow
    <3>1. jobs[wk[w].job] \in JobRow
      BY <1>2 DEF TypeOK
    <3>2. wk[w].res \in {"none", "completed", "failed"} \cup Active
      BY <1>2 DEF Active
    <3> QED BY <3>1, <3>2 DEF JobRow
  <2>2. jobs' = jobs \/ jobs' = [jobs EXCEPT ![wk[w].job] = b]
    BY <1>1, <1>2 DEF complete_sync_job, TypeOK, JobRow
  <2> HIDE DEF b
  <2> QED BY <1>2, <2>1, <2>2 DEF TypeOK
<1> QED BY <1>1, <1>3, RestsTypes, JobStepTypes DEF TypeOK, facts

LEMMA WorkerFailsTypes == ASSUME TypeOK, NEW w \in Worker, WorkerFails(w) PROVE TypeOK'
<1>1. wk' = [wk EXCEPT ![w] = Resting] /\ UNCHANGED <<provider, ledger, memory, hook, facts, jobs, history>>
  BY DEF WorkerFails, _complete_job_fails, WorkerDies
<1> QED BY <1>1, RestsTypes, JobStepTypes DEF TypeOK, facts

LEMMA LeaseTypes == ASSUME TypeOK, NEW j \in JobIds, LeaseLapses(j) PROVE TypeOK'
<1>1. jobs' = [jobs EXCEPT ![j].lapsed = TRUE] /\ UNCHANGED <<provider, ledger, memory, hook, facts, wk, history>>
  BY DEF LeaseLapses
<1>2. jobs' \in [JobIds -> JobRow]
  BY <1>1 DEF TypeOK, JobRow
<1>3. \A w \in Worker : WorkOK(w)'
  BY <1>1 DEF TypeOK, WorkOK
<1> QED BY <1>1, <1>2, <1>3, JobStepTypes DEF TypeOK, facts

LEMMA PurgeTypes == ASSUME TypeOK, run_retention_purge PROVE TypeOK'
<1>1. ledger' \subseteq ledger /\ UNCHANGED <<memory, hook, facts, jobs, wk, history>> /\ UNCHANGED provider
  BY DEF run_retention_purge
<1>2. \A q \in Replica : HookOK(q)'
  BY <1>1 DEF TypeOK, HookOK, Event, Named, Known, provider
<1> QED BY <1>1, <1>2, HookStepTypes DEF TypeOK, facts, history

\* Every step keeps the types.
LEMMA StepTypes == ASSUME TypeOK, [Next]_vars PROVE TypeOK'
<1>1. ASSUME NEW r \in Replica, _process_event(r) \/ HookFails(r) PROVE TypeOK'
  BY <1>1, ResolveTypes, ScopeTypes, LedgerTypes, LedgerFailsTypes, PersistTypes, PersistFailsTypes,
     ClassifyFailsTypes, EnqueueTypes, EnqueueFailsTypes, ReplicaDiesTypes
     DEF _process_event, HookFails
<1>2. ASSUME NEW w \in Worker, _process_claimed_job(w) PROVE TypeOK'
  BY <1>2, FetchTypes, FailureTypes, WriteBackTypes, FinalizeTypes DEF _process_claimed_job
<1>3. CASE UNCHANGED vars
  BY <1>3 DEF vars, TypeOK, ProviderOK, HookOK, Event, Named, WorkOK, Known, provider, facts, history
<1> QED BY <1>1, <1>2, <1>3, EmitTypes, RetireTypes, ReceiveTypes, ResyncTypes, ClaimTypes,
           WorkerFailsTypes, LeaseTypes, PurgeTypes DEF Next

-----------------------------------------------------------------------------
(* What an answer may have lost. *)

LEMMA ExcusesStay ==
  ASSUME NEW i, mishaps \subseteq mishaps', dropped \subseteq dropped', sent'[i] = sent[i]
  PROVE  (Excused(i) => Excused(i)') /\ (NotStored(i) => NotStored(i)')
BY DEF Excused, NotStored, Named

\* A step that moves no delivery.
LEMMA LossKept ==
  ASSUME TypeOK, LossInv, UNCHANGED <<acked, memory, hook, handled>>, ledger' \subseteq ledger,
         mishaps \subseteq mishaps', dropped \subseteq dropped', Known \subseteq Known',
         \A i \in Known : sent'[i] = sent[i]
  PROVE  LossInv'
<1>1. ASSUME NEW i \in Known', Recorded(i)' PROVE i \in handled' \/ OnItsWay(i)' \/ Excused(i)'
  <2>1. Recorded(i) /\ i \in Known
    BY <1>1 DEF Recorded, TypeOK
  <2>2. i \in handled \/ OnItsWay(i) \/ Excused(i)
    BY <2>1 DEF LossInv
  <2> QED BY <2>1, <2>2, ExcusesStay DEF OnItsWay
<1>2. ASSUME NEW r \in Replica PROVE Queueing(r)'
  <2> SUFFICES ASSUME hook[r].pc = "enqueue" PROVE Queueing(r)'
    BY DEF Queueing
  <2>1. hook[r].ev \in Known
    BY DEF TypeOK, HookOK
  <2> QED BY <2>1, ExcusesStay DEF LossInv, Queueing
<1> QED BY <1>1, <1>2 DEF LossInv

\* A step of the delivery that r handles; it can be recorded by it, no other.
LossStep(r) ==
    /\ sent' = sent /\ handled \subseteq handled' /\ mishaps \subseteq mishaps' /\ dropped \subseteq dropped'
    /\ ledger' \subseteq ledger \cup {hook[r].ev} /\ acked' \subseteq acked \cup {hook[r].ev}
    /\ memory'[r] \subseteq memory[r] \cup {hook[r].ev}
    /\ \A q \in Replica \ {r} : hook'[q] = hook[q] /\ memory'[q] = memory[q]
LEMMA LossMoves ==
  ASSUME TypeOK, LossInv, NEW r \in Replica, LossStep(r), Queueing(r)', NEW e, e = hook[r].ev,
         e \in Known /\ Recorded(e)' => e \in handled' \/ OnItsWay(e)' \/ Excused(e)'
  PROVE  LossInv'
<1>1. ASSUME NEW i \in Known', Recorded(i)' PROVE i \in handled' \/ OnItsWay(i)' \/ Excused(i)'
  <2>1. i \in Known
    BY DEF LossStep, Known
  <2>2. CASE i = e
    BY <1>1, <2>1, <2>2
  <2>3. CASE i # e
    <3>1. Recorded(i)
      BY <1>1, <2>3 DEF LossStep, Recorded
    <3>2. i \in handled \/ OnItsWay(i) \/ Excused(i)
      BY <2>1, <3>1 DEF LossInv
    <3>3. OnItsWay(i) => OnItsWay(i)'
      BY <2>3 DEF LossStep, OnItsWay
    <3> QED BY <3>2, <3>3, ExcusesStay DEF LossStep
  <2> QED BY <2>2, <2>3
<1>2. ASSUME NEW q \in Replica, q # r PROVE Queueing(q)'
  BY <1>2, ExcusesStay DEF LossInv, Queueing, LossStep
<1> QED BY <1>1, <1>2 DEF LossInv

\* An event that was recorded before is no worse for a delivery of it that
\* had not passed the ledger.
LEMMA StillCovered ==
  ASSUME TypeOK, LossInv, NEW r \in Replica, LossStep(r), hook[r].pc \notin {"persist", "enqueue"},
         NEW e \in Known, Recorded(e)
  PROVE  e \in handled' \/ OnItsWay(e)' \/ Excused(e)'
<1>1. e \in handled \/ OnItsWay(e) \/ Excused(e)
  BY DEF LossInv
<1>2. OnItsWay(e) => OnItsWay(e)'
  BY DEF OnItsWay, LossStep
<1> QED BY <1>1, <1>2, ExcusesStay DEF LossStep

LEMMA HookTyped == ASSUME TypeOK, NEW r \in Replica PROVE hook[r] \in Delivery
BY DEF TypeOK

LEMMA LossEarly ==
  ASSUME TypeOK, LossInv, NEW r \in Replica,
         _resolve_event_scope(r) \/ ScopeUnavailable(r) \/ \E i \in EventIds : receive_stripe_webhook(r, i)
  PROVE  LossInv'
<1> PICK e : e = hook[r].ev
  OBVIOUS
<1>1. /\ UNCHANGED <<provider, ledger, memory, history>> /\ mishaps \subseteq mishaps'
      /\ hook[r].pc \in {"idle", "resolve"}
  BY DEF _resolve_event_scope, ScopeUnavailable, receive_stripe_webhook, HookAt, Mishap
<1>2. /\ \A q \in Replica \ {r} : hook'[q] = hook[q]
      /\ hook'[r].pc # "enqueue"
  <2>1. /\ hook \in [Replica -> Delivery] /\ hook[r] \in Delivery
        /\ Idle.pc = "idle" /\ \A i : [Idle EXCEPT !.pc = "resolve", !.ev = i].pc = "resolve"
    BY HookTyped DEF TypeOK, Idle
  <2>2. CASE Answer(r)
    BY <2>1, <2>2 DEF Answer
  <2>3. ASSUME NEW i \in EventIds, receive_stripe_webhook(r, i)
        PROVE  /\ \A q \in Replica \ {r} : hook'[q] = hook[q]
               /\ hook'[r].pc # "enqueue"
    BY <2>1, <2>3 DEF receive_stripe_webhook
  <2>4. CASE hook' = [hook EXCEPT ![r].pc = "ledger", ![r].scope = ScopeOf(Event(r)),
                                  ![r].known = fact[Event(r).obj]]
    BY <2>1, <2>4 DEF Delivery
  <2> QED BY <2>2, <2>3, <2>4 DEF _resolve_event_scope, ScopeUnavailable
<1>3. LossStep(r) /\ Queueing(r)'
  BY <1>1, <1>2 DEF LossStep, Queueing, provider, history
<1>4. Recorded(e)' => Recorded(e)
  BY <1>1 DEF Recorded, history
<1>5. hook[r].pc \notin {"persist", "enqueue"}
  BY <1>1
<1> QED BY <1>3, <1>4, <1>5, StillCovered, LossMoves

LEMMA AnswerLeaves ==
  ASSUME TypeOK, NEW r \in Replica, Answer(r)
  PROVE  hook'[r] = Idle /\ Queueing(r)' /\ \A q \in Replica \ {r} : hook'[q] = hook[q]
BY DEF TypeOK, Answer, Idle, Queueing

LEMMA AnswerSteps ==
  ASSUME TypeOK, NEW r \in Replica, Accept(r), sent' = sent, handled \subseteq handled', mishaps \subseteq mishaps',
         dropped \subseteq dropped',
         ledger' \subseteq ledger \cup {hook[r].ev},
         memory' = memory \/ memory' = [memory EXCEPT ![r] = @ \cup {hook[r].ev}]
  PROVE  LossStep(r) /\ Queueing(r)'
<1>1. memory'[r] \subseteq memory[r] \cup {hook[r].ev} /\ \A q \in Replica \ {r} : memory'[q] = memory[q]
  BY DEF TypeOK
<1>2. Queueing(r)' /\ \A q \in Replica \ {r} : hook'[q] = hook[q]
  BY AnswerLeaves DEF Accept
<1> QED BY <1>1, <1>2 DEF LossStep, Accept

LEMMA LossForward ==
  ASSUME TypeOK, LossInv, NEW r \in Replica, hook[r].pc = "ledger", Forward(r),
         sent' = sent, mishaps \subseteq mishaps', dropped' = dropped, ledger' \subseteq ledger \cup {hook[r].ev},
         memory' = [memory EXCEPT ![r] = @ \cup {hook[r].ev}]
  PROVE  LossInv'
<1> PICK e : e = hook[r].ev
  OBVIOUS
<1>1. CASE Accept(r) /\ handled' = handled \cup {hook[r].ev}
  <2>1. LossStep(r) /\ Queueing(r)' /\ e \in handled'
    BY <1>1, AnswerSteps
  <2> QED BY <2>1, LossMoves
<1>2. CASE hook' = [hook EXCEPT ![r].pc = "persist"] /\ UNCHANGED <<acked, handled>>
  <2>1. /\ hook'[r].pc = "persist" /\ hook'[r].ev = hook[r].ev
        /\ \A q \in Replica \ {r} : hook'[q] = hook[q]
    BY <1>2, HookTyped DEF TypeOK, Delivery
  <2>2. memory'[r] \subseteq memory[r] \cup {hook[r].ev} /\ \A q \in Replica \ {r} : memory'[q] = memory[q]
    BY DEF TypeOK
  <2>3. LossStep(r)
    BY <1>2, <2>1, <2>2 DEF LossStep
  <2>4. Queueing(r)' /\ OnItsWay(e)'
    BY <2>1 DEF Queueing, OnItsWay
  <2> QED BY <2>3, <2>4, LossMoves
<1> QED BY <1>1, <1>2 DEF Forward

LEMMA LossLedger ==
  ASSUME TypeOK, LossInv, NEW r \in Replica, _record_delivery_ledger(r) \/ LedgerFails(r) PROVE LossInv'
<1> PICK e : e = hook[r].ev
  OBVIOUS
<1>1. hook[r].pc = "ledger" /\ sent' = sent /\ mishaps \subseteq mishaps' /\ dropped' = dropped
  BY DEF _record_delivery_ledger, LedgerFails, HookAt, Mishap, provider
<1>2. CASE Forward(r) /\ memory' = [memory EXCEPT ![r] = @ \cup {hook[r].ev}]
           /\ ledger' \subseteq ledger \cup {hook[r].ev}
  BY <1>1, <1>2, LossForward
<1>3. CASE Duplicate(r) /\ Accept(r) /\ UNCHANGED <<ledger, memory, handled>>
  <2>1. LossStep(r) /\ Queueing(r)'
    BY <1>1, <1>3, AnswerSteps
  <2>2. Recorded(e)
    BY <1>3 DEF Duplicate, Recorded
  <2>3. hook[r].pc \notin {"persist", "enqueue"}
    BY <1>1
  <2> QED BY <2>1, <2>2, <2>3, StillCovered, LossMoves
<1>4. CASE LedgerFails(r)
  BY <1>2, <1>4 DEF LedgerFails
<1>5. CASE _record_delivery_ledger(r)
  BY <1>2, <1>3, <1>5 DEF _record_delivery_ledger
<1> QED BY <1>4, <1>5

LEMMA LossPersist ==
  ASSUME TypeOK, LossInv, NEW r \in Replica,
         _persist_classification(r) \/ PersistFails(r) \/ ClassifyFails(r)
  PROVE  LossInv'
<1> PICK e : e = hook[r].ev
  OBVIOUS
<1>1. /\ hook[r].pc = "persist" /\ sent' = sent /\ UNCHANGED <<ledger, memory>> /\ mishaps \subseteq mishaps'
      /\ handled \subseteq handled' /\ dropped' = dropped
  BY DEF _persist_classification, PersistFails, ClassifyFails, HookAt, Mishap, provider, history
<1>2. ASSUME NEW k \in BOOLEAN, hook' = [hook EXCEPT ![r].pc = "enqueue", ![r].kept = k], acked' = acked,
             IF k THEN hook[r].ev \in handled' ELSE hook[r].scope = "none" \/ NotStored(e)'
      PROVE  LossInv'
  <2>1. /\ hook'[r].pc = "enqueue" /\ hook'[r].ev = hook[r].ev /\ hook'[r].kept = k
        /\ hook'[r].scope = hook[r].scope
        /\ \A q \in Replica \ {r} : hook'[q] = hook[q]
    BY <1>2, HookTyped DEF TypeOK, Delivery
  <2>2. LossStep(r)
    BY <1>1, <1>2, <2>1 DEF LossStep
  <2>3. Queueing(r)' /\ OnItsWay(e)'
    BY <1>2, <2>1 DEF Queueing, OnItsWay
  <2> QED BY <2>2, <2>3, LossMoves
<1>3. CASE _persist_classification(r) /\ Placed(r)
  <2>1. hook[r].ev \in handled' /\ Persisted(r, TRUE)
    BY <1>3 DEF _persist_classification
  <2>2. CASE Accept(r)
    <3>1. LossStep(r) /\ Queueing(r)'
      BY <1>1, <2>2, AnswerSteps
    <3> QED BY <2>1, <3>1, LossMoves
  <2>3. CASE hook' = [hook EXCEPT ![r].pc = "enqueue", ![r].kept = TRUE] /\ UNCHANGED acked
    BY <1>2, <2>1, <2>3
  <2> QED BY <2>1, <2>2, <2>3 DEF Persisted
<1>4. CASE PersistFails(r) \/ ClassifyFails(r)
  <2>1. /\ hook' = [hook EXCEPT ![r].pc = "enqueue", ![r].kept = FALSE] /\ acked' = acked
        /\ mishaps' \cap {"persist", "classify"} # {}
    BY <1>4 DEF PersistFails, ClassifyFails, Persisted, Mishap, history
  <2>2. NotStored(e)'
    BY <2>1 DEF NotStored
  <2> QED BY <1>2, <2>1, <2>2
<1>5. CASE _persist_classification(r) /\ ~Placed(r)
  <2>1. hook' = [hook EXCEPT ![r].pc = "enqueue", ![r].kept = FALSE] /\ acked' = acked
    BY <1>5 DEF _persist_classification, Persisted
  <2>2. hook[r].scope \in Scopes /\ Event(r) = sent[hook[r].ev] /\ Event(r).obj \in Objects
    BY <1>1, EventTyped DEF Delivery, Event
  <2>3. hook[r].scope # "none" => hook[r].scope = "user" /\ Event(r).obj \in Purchases
    BY <1>5, <2>2 DEF Placed, Scopes, Objects
  <2>4. hook[r].scope = "user" => ~Named(Event(r))
    BY <1>1 DEF TypeOK, HookOK, PastScope
  <2>5. hook[r].scope = "none" \/ NotStored(e)'
    BY <1>1, <2>2, <2>3, <2>4 DEF NotStored, Named
  <2> QED BY <1>2, <2>1, <2>5
<1> QED BY <1>3, <1>4, <1>5

LEMMA LossEnqueue ==
  ASSUME TypeOK, LossInv, NEW r \in Replica, _enqueue_resync_for_event(r) \/ EnqueueFails(r) PROVE LossInv'
<1> PICK e : e = hook[r].ev
  OBVIOUS
<1>1. /\ hook[r].pc = "enqueue" /\ sent' = sent /\ UNCHANGED <<ledger, memory>> /\ mishaps \subseteq mishaps'
      /\ handled \subseteq handled' /\ dropped \subseteq dropped' /\ Accept(r)
  BY DEF _enqueue_resync_for_event, EnqueueFails, HookAt, Mishap, provider
<1>2. LossStep(r) /\ Queueing(r)'
  BY <1>1, AnswerSteps
<1>3. hook[r].kept => e \in handled
  BY <1>1 DEF LossInv, Queueing
<1>4. ~hook[r].kept => hook[r].scope = "none" \/ NotStored(e)
  BY <1>1 DEF LossInv, Queueing
<1>5. sent'[e] = sent[e] /\ Event(r) = sent[e] /\ (NotStored(e) => NotStored(e)')
  BY <1>1, ExcusesStay DEF Event
<1>6. CASE _enqueue_resync_for_event(r) /\ hook[r].scope = "none"
  <2>1. <<e, "nobody">> \in dropped'
    BY <1>6 DEF _enqueue_resync_for_event
  <2>2. ~Named(sent[e])
    BY <1>1, <1>5, <1>6 DEF TypeOK, HookOK, PastScope
  <2>3. Excused(e)'
    BY <1>5, <2>1, <2>2 DEF Excused, Named
  <2> QED BY <1>2, <2>3, LossMoves
<1>7. CASE _enqueue_resync_for_event(r) /\ hook[r].scope # "none"
  <2>1. e \in handled' \/ <<e, "unread">> \in dropped'
    BY <1>7 DEF _enqueue_resync_for_event
  <2>2. e \in handled' \/ Excused(e)'
    BY <1>1, <1>3, <1>4, <1>5, <1>7, <2>1 DEF Excused
  <2> QED BY <1>2, <2>2, LossMoves
<1>8. CASE EnqueueFails(r)
  <2>1. "enqueue" \in mishaps' /\ hook[r].scope # "none"
    BY <1>8 DEF EnqueueFails, Mishap
  <2>2. e \in handled' \/ Excused(e)'
    BY <1>1, <1>3, <1>4, <1>5, <2>1 DEF Excused
  <2> QED BY <1>2, <2>2, LossMoves
<1> QED BY <1>6, <1>7, <1>8

LEMMA LossDies == ASSUME TypeOK, LossInv, NEW r \in Replica, ReplicaDies(r) PROVE LossInv'
<1> PICK e : e = hook[r].ev
  OBVIOUS
<1>1. /\ sent' = sent /\ UNCHANGED <<ledger, acked, handled>> /\ memory' = [memory EXCEPT ![r] = {}]
      /\ mishaps \subseteq mishaps' /\ dropped \subseteq dropped' /\ Answer(r)
  BY DEF ReplicaDies, Mishap, provider
<1>2. /\ memory'[r] \subseteq memory[r] \cup {hook[r].ev} /\ \A q \in Replica \ {r} : memory'[q] = memory[q]
      /\ memory'[r] \subseteq memory[r]
  BY <1>1 DEF TypeOK
<1>3. LossStep(r) /\ Queueing(r)'
  BY <1>1, <1>2, AnswerLeaves DEF LossStep
<1>4. CASE hook[r].pc \in {"persist", "enqueue"}
  <2>1. Excused(e)'
    BY <1>4 DEF ReplicaDies, Excused
  <2> QED BY <1>3, <2>1, LossMoves
<1>5. CASE hook[r].pc \notin {"persist", "enqueue"}
  <2>1. Recorded(e)' => Recorded(e)
    BY <1>1, <1>2 DEF Recorded
  <2> QED BY <1>3, <1>5, <2>1, StillCovered, LossMoves
<1> QED BY <1>4, <1>5

\* The steps that move no delivery.
Aside ==
    \/ \E o \in Objects, k \in Kinds : Emit(o, k)
    \/ \E i \in EventIds : Retire(i)
    \/ enqueue_internal_billing_resync
    \/ \E w \in Worker : \/ \E j \in JobIds : claim_sync_jobs(w, j)
                         \/ _process_claimed_job(w) \/ WorkerFails(w)
    \/ \E j \in JobIds : LeaseLapses(j)
    \/ run_retention_purge
    \/ UNCHANGED vars
LEMMA Extended ==
  ASSUME NEW S, NEW s \in Seq(S), NEW x
  PROVE  /\ 1 .. Len(s) \subseteq 1 .. Len(Append(s, x))
         /\ \A i \in 1 .. Len(s) : Append(s, x)[i] = s[i]
<1>1. Len(s) \in Nat /\ Len(Append(s, x)) = Len(s) + 1
  OBVIOUS
<1>2. \A i \in 1 .. Len(s) : Append(s, x)[i] = s[i]
  OBVIOUS
<1> QED BY <1>1, <1>2
LEMMA AsideMoves ==
  ASSUME TypeOK, Aside
  PROVE  /\ UNCHANGED <<acked, memory, hook, handled, applied, dropped>> /\ ledger' \subseteq ledger
         /\ mishaps \subseteq mishaps' /\ Known \subseteq Known' /\ \A i \in Known : sent'[i] = sent[i]
<1>1. CASE \E o \in Objects, k \in Kinds : Emit(o, k)
  <2>1. PICK o \in Objects, k \in Kinds : Emit(o, k)
    BY <1>1
  <2>2. sent' = Append(sent, [obj |-> o, kind |-> k]) /\ sent \in Seq(AnEvent)
    BY <2>1 DEF Emit, TypeOK, ProviderOK
  <2>3. Known \subseteq Known' /\ \A i \in Known : sent'[i] = sent[i]
    BY <2>2, Extended DEF Known
  <2> QED BY <2>1, <2>3 DEF Emit, history
<1>2. CASE \E i \in EventIds : Retire(i)
  BY <1>2 DEF Retire, Known, history
<1>3. CASE enqueue_internal_billing_resync \/ run_retention_purge \/ UNCHANGED vars
  BY <1>3 DEF enqueue_internal_billing_resync, run_retention_purge, vars, provider, history, Known
<1>4. CASE \E w \in Worker : \E j \in JobIds : claim_sync_jobs(w, j)
  BY <1>4 DEF claim_sync_jobs, provider, history, Known
<1>5. CASE \E w \in Worker : _process_claimed_job(w) \/ WorkerFails(w)
  BY <1>5 DEF _process_claimed_job, source_of_truth_resync, _handle_provider_failure, _write_back,
              WriteBackFails, _finalize_sync_job, WorkerFails, _complete_job_fails, WorkerDies, Mishap,
              provider, history, Known
<1>6. CASE \E j \in JobIds : LeaseLapses(j)
  BY <1>6 DEF LeaseLapses, Mishap, provider, history, Known
<1> QED BY <1>1, <1>2, <1>3, <1>4, <1>5, <1>6 DEF Aside

LEMMA StepSplit ==
  ASSUME [Next]_vars
  PROVE  \/ Aside
         \/ \E r \in Replica : \/ \E i \in EventIds : receive_stripe_webhook(r, i)
                               \/ _process_event(r) \/ HookFails(r)
BY DEF Next, Aside

LEMMA StepLoss == ASSUME TypeOK, LossInv, [Next]_vars PROVE LossInv'
<1>1. CASE Aside
  BY <1>1, AsideMoves, LossKept
<1>2. ASSUME NEW r \in Replica, \/ \E i \in EventIds : receive_stripe_webhook(r, i)
                                \/ _process_event(r) \/ HookFails(r)
      PROVE  LossInv'
  BY <1>2, LossEarly, LossLedger, LossPersist, LossEnqueue, LossDies DEF _process_event, HookFails
<1> QED BY <1>1, <1>2, StepSplit

-----------------------------------------------------------------------------
(* How often a fact is persisted. *)

\* Nobody comes to persist, and no event comes back that was persisted.
LEMMA OnceKept ==
  ASSUME OnceInv, mishaps \subseteq mishaps', applied' = applied, ledger \subseteq ledger',
         \A q \in Replica : Persisting(q)' => Persisting(q) /\ hook'[q].ev = hook[q].ev,
         \A i \in EventIds : i \in due' \/ InHand(i)' => i \in due \/ InHand(i) \/ applied[i] = 0
  PROVE  OnceInv'
<1> SUFFICES ASSUME "ledger" \notin mishaps' PROVE OnceInv'
  BY DEF OnceInv
<1>1. \A r \in Replica : Persisting(r) =>
        /\ hook[r].ev \in ledger /\ applied[hook[r].ev] = 0
        /\ \A q \in Replica \ {r} : Persisting(q) => hook[q].ev # hook[r].ev
  BY DEF OnceInv
<1>2. ASSUME NEW i \in EventIds
      PROVE  applied'[i] <= 1 /\ (applied'[i] = 1 => i \in ledger' \/ (i \notin due' /\ ~InHand(i)'))
  <2>1. applied[i] <= 1 /\ (applied[i] = 1 => i \in ledger \/ (i \notin due /\ ~InHand(i)))
    BY DEF OnceInv
  <2>2. applied[i] = 1 => applied[i] # 0
    OBVIOUS
  <2> QED BY <2>1, <2>2
<1>3. ASSUME NEW r \in Replica, Persisting(r)'
      PROVE  /\ hook'[r].ev \in ledger' /\ applied'[hook'[r].ev] = 0
             /\ \A q \in Replica \ {r} : Persisting(q)' => hook'[q].ev # hook'[r].ev
  BY <1>1, <1>3
<1> QED BY <1>2, <1>3 DEF OnceInv

\* A step of the delivery r handles, which does not bring it to persist.
LEMMA OnceMoves ==
  ASSUME OnceInv, NEW r \in Replica, mishaps \subseteq mishaps', applied' = applied,
         ledger' = ledger, due' = due,
         \A q \in Replica \ {r} : hook'[q] = hook[q],
         hook'[r].pc # "persist", hook'[r].ev \in {hook[r].ev, 0} \cup due
  PROVE  OnceInv'
<1>1. \A q \in Replica : Persisting(q)' => Persisting(q) /\ hook'[q].ev = hook[q].ev
  BY DEF Persisting
<1>2. \A i \in EventIds : i # 0
  BY DEF EventIds
<1>3. ASSUME NEW i \in EventIds, InHand(i)' PROVE i \in due \/ InHand(i)
  <2>1. PICK q \in Replica : hook'[q].ev = i
    BY <1>3 DEF InHand
  <2> QED BY <1>2, <2>1 DEF InHand
<1> QED BY <1>1, <1>3, OnceKept

LEMMA OnceAnswer ==
  ASSUME TypeOK, OnceInv, NEW r \in Replica, Answer(r), mishaps \subseteq mishaps', applied' = applied,
         ledger' = ledger, due' = due
  PROVE  OnceInv'
<1>1. hook'[r] = Idle /\ Idle.pc = "idle" /\ Idle.ev = 0 /\ \A q \in Replica \ {r} : hook'[q] = hook[q]
  BY AnswerLeaves DEF Idle
<1> QED BY <1>1, OnceMoves

LEMMA OnceEarly ==
  ASSUME TypeOK, OnceInv, NEW r \in Replica,
         _resolve_event_scope(r) \/ ScopeUnavailable(r) \/ \E i \in EventIds : receive_stripe_webhook(r, i)
  PROVE  OnceInv'
<1>1. /\ ledger' = ledger /\ due' = due /\ applied' = applied /\ mishaps \subseteq mishaps'
  BY DEF _resolve_event_scope, ScopeUnavailable, receive_stripe_webhook, Mishap, provider, history
<1>2. CASE Answer(r)
  BY <1>1, <1>2, OnceAnswer
<1>3. ASSUME NEW i \in EventIds, receive_stripe_webhook(r, i) PROVE OnceInv'
  <2> DEFINE d == [Idle EXCEPT !.pc = "resolve", !.ev = i]
  <2>1. d.pc = "resolve" /\ d.ev = i
    BY DEF Idle
  <2>2. hook' = [hook EXCEPT ![r] = d] /\ i \in due /\ hook \in [Replica -> Delivery]
    BY <1>3 DEF receive_stripe_webhook, TypeOK
  <2> HIDE DEF d
  <2>3. hook'[r] = d /\ \A q \in Replica \ {r} : hook'[q] = hook[q]
    BY <2>2
  <2> QED BY <1>1, <2>1, <2>2, <2>3, OnceMoves
<1>4. CASE hook' = [hook EXCEPT ![r].pc = "ledger", ![r].scope = ScopeOf(Event(r)),
                                ![r].known = fact[Event(r).obj]]
  <2>1. hook'[r].pc = "ledger" /\ hook'[r].ev = hook[r].ev /\ \A q \in Replica \ {r} : hook'[q] = hook[q]
    BY <1>4, HookTyped DEF Delivery, TypeOK
  <2> QED BY <1>1, <2>1, OnceMoves
<1> QED BY <1>2, <1>3, <1>4 DEF _resolve_event_scope, ScopeUnavailable

\* The ledger did not know the event: it was not persisted, nobody is about to.
LEMMA OnceForward ==
  ASSUME TypeOK, OnceInv, NEW r \in Replica, hook[r].pc = "ledger", hook[r].ev \notin ledger, Forward(r),
         ledger' = ledger \cup {hook[r].ev}, due' = due, applied' = applied, mishaps' = mishaps
  PROVE  OnceInv'
<1>1. CASE Accept(r)
  <2>1. /\ hook'[r] = Idle /\ Idle.pc = "idle" /\ Idle.ev = 0
        /\ \A q \in Replica \ {r} : hook'[q] = hook[q]
    BY <1>1, AnswerLeaves DEF Idle, Accept
  <2>2. \A q \in Replica : Persisting(q)' => Persisting(q) /\ hook'[q].ev = hook[q].ev
    BY <2>1 DEF Persisting
  <2>3. ASSUME NEW i \in EventIds, InHand(i)' PROVE InHand(i)
    BY <2>1, <2>3 DEF InHand, EventIds
  <2> QED BY <2>2, <2>3, OnceKept
<1>2. CASE hook' = [hook EXCEPT ![r].pc = "persist"]
  <2> SUFFICES ASSUME "ledger" \notin mishaps PROVE OnceInv'
    BY DEF OnceInv
  <2> PICK e : e = hook[r].ev
    OBVIOUS
  <2>1. /\ hook'[r].pc = "persist" /\ hook'[r].ev = e
        /\ \A q \in Replica \ {r} : hook'[q] = hook[q]
    BY <1>2, HookTyped DEF TypeOK, Delivery
  <2>2. e \in EventIds /\ applied[e] \in Nat /\ InHand(e)
    BY EventTyped DEF TypeOK, InHand
  <2>3. \A i \in EventIds : applied[i] <= 1 /\ (applied[i] = 1 => i \in ledger \/ (i \notin due /\ ~InHand(i)))
    BY DEF OnceInv
  <2>4. applied[e] # 1 /\ applied[e] <= 1
    BY <2>2, <2>3
  <2>5. applied[e] = 0
    BY <2>2, <2>4
  <2>6. \A q \in Replica : Persisting(q) =>
          /\ hook[q].ev \in ledger /\ applied[hook[q].ev] = 0
          /\ \A p \in Replica \ {q} : Persisting(p) => hook[p].ev # hook[q].ev
    BY DEF OnceInv
  <2>7. \A q \in Replica \ {r} : Persisting(q)' => Persisting(q) /\ hook'[q].ev = hook[q].ev /\ hook[q].ev # e
    BY <2>1, <2>6 DEF Persisting
  <2>8. ASSUME NEW q \in Replica, Persisting(q)'
        PROVE  /\ hook'[q].ev \in ledger' /\ applied'[hook'[q].ev] = 0
               /\ \A p \in Replica \ {q} : Persisting(p)' => hook'[p].ev # hook'[q].ev
    BY <2>1, <2>5, <2>6, <2>7, <2>8
  <2>9. ASSUME NEW i \in EventIds PROVE InHand(i)' => InHand(i)
    BY <2>1 DEF InHand
  <2>10. ASSUME NEW i \in EventIds
         PROVE  applied'[i] <= 1 /\ (applied'[i] = 1 => i \in ledger' \/ (i \notin due' /\ ~InHand(i)'))
    BY <2>3, <2>9
  <2> QED BY <2>8, <2>10 DEF OnceInv
<1> QED BY <1>1, <1>2 DEF Forward

LEMMA OnceLedger ==
  ASSUME TypeOK, OnceInv, NEW r \in Replica, _record_delivery_ledger(r) \/ LedgerFails(r) PROVE OnceInv'
<1>1. CASE LedgerFails(r)
  BY <1>1 DEF LedgerFails, Mishap, OnceInv
<1>2. CASE _record_delivery_ledger(r)
  <2>1. hook[r].pc = "ledger" /\ due' = due /\ applied' = applied /\ mishaps' = mishaps
    BY <1>2 DEF _record_delivery_ledger, HookAt, provider
  <2>2. CASE Duplicate(r)
    BY <1>2, <2>1, <2>2, OnceAnswer DEF _record_delivery_ledger, Accept
  <2>3. CASE ~Duplicate(r)
    BY <1>2, <2>1, <2>3, OnceForward DEF _record_delivery_ledger, Duplicate
  <2> QED BY <2>2, <2>3
<1> QED BY <1>1, <1>2

LEMMA PersistedLeaves ==
  ASSUME TypeOK, NEW r \in Replica, NEW kept \in BOOLEAN, Persisted(r, kept)
  PROVE  /\ hook'[r].pc # "persist" /\ hook'[r].ev \in {hook[r].ev, 0}
         /\ \A q \in Replica \ {r} : hook'[q] = hook[q]
<1>1. CASE Accept(r)
  BY <1>1, AnswerLeaves DEF Accept, Idle
<1>2. CASE hook' = [hook EXCEPT ![r].pc = "enqueue", ![r].kept = kept]
  BY <1>2, HookTyped DEF TypeOK, Delivery
<1> QED BY <1>1, <1>2 DEF Persisted

\* Nothing is stored.
LEMMA OncePassed ==
  ASSUME TypeOK, OnceInv, NEW r \in Replica, _persist_classification(r), ~Placed(r) PROVE OnceInv'
<1>1. Persisted(r, FALSE) /\ applied' = applied
  <2>1. Placed(r) = FALSE
    BY DEF Placed
  <2> QED BY <2>1 DEF _persist_classification
<1>3. due' = due /\ ledger' = ledger /\ mishaps' = mishaps
  BY DEF _persist_classification, provider
<1>2. /\ hook'[r].pc # "persist" /\ hook'[r].ev \in {hook[r].ev, 0}
      /\ \A q \in Replica \ {r} : hook'[q] = hook[q]
  BY <1>1, PersistedLeaves
<1> QED BY <1>1, <1>2, <1>3, OnceMoves

LEMMA OncePersist ==
  ASSUME TypeOK, OnceInv, NEW r \in Replica, _persist_classification(r), Placed(r) PROVE OnceInv'
<1> PICK e : e = hook[r].ev
  OBVIOUS
<1>1. /\ Persisting(r) /\ hook[r].pc # "idle" /\ Persisted(r, TRUE) /\ due' = due /\ ledger' = ledger
      /\ mishaps' = mishaps /\ applied' = [applied EXCEPT ![e] = @ + 1]
  BY DEF _persist_classification, HookAt, Persisting, provider
<1> SUFFICES ASSUME "ledger" \notin mishaps PROVE OnceInv'
  BY <1>1 DEF OnceInv
<1>2. /\ hook'[r].pc # "persist" /\ hook'[r].ev \in {e, 0}
      /\ \A q \in Replica \ {r} : hook'[q] = hook[q]
  BY <1>1, PersistedLeaves
<1>3. \A q \in Replica : Persisting(q) =>
        /\ hook[q].ev \in ledger /\ applied[hook[q].ev] = 0
        /\ \A p \in Replica \ {q} : Persisting(p) => hook[p].ev # hook[q].ev
  BY DEF OnceInv
<1>4. e \in EventIds /\ e \in ledger /\ applied[e] = 0
  BY <1>1, <1>3, EventTyped
<1>5. applied'[e] = 1 /\ \A i \in EventIds \ {e} : applied'[i] = applied[i]
  BY <1>1, <1>4 DEF TypeOK
<1>6. ASSUME NEW q \in Replica, Persisting(q)'
      PROVE  /\ hook'[q].ev \in ledger' /\ applied'[hook'[q].ev] = 0
             /\ \A p \in Replica \ {q} : Persisting(p)' => hook'[p].ev # hook'[q].ev
  <2>1. q # r /\ Persisting(q) /\ hook'[q] = hook[q]
    BY <1>2, <1>6 DEF Persisting
  <2>2. hook[q].ev # e /\ hook[q].ev \in EventIds
    BY <1>1, <1>3, <2>1, EventTyped DEF Persisting
  <2>3. ASSUME NEW p \in Replica \ {q}, Persisting(p)' PROVE hook'[p].ev # hook'[q].ev
    <3>1. p # r /\ Persisting(p) /\ hook'[p] = hook[p]
      BY <1>2, <2>3 DEF Persisting
    <3> QED BY <1>3, <2>1, <3>1
  <2> QED BY <1>1, <1>3, <1>5, <2>1, <2>2, <2>3
<1>7. ASSUME NEW i \in EventIds
      PROVE  applied'[i] <= 1 /\ (applied'[i] = 1 => i \in ledger' \/ (i \notin due' /\ ~InHand(i)'))
  <2>1. CASE i = e
    BY <1>1, <1>4, <1>5, <2>1
  <2>2. CASE i # e
    <3>1. applied[i] <= 1 /\ (applied[i] = 1 => i \in ledger \/ (i \notin due /\ ~InHand(i)))
      BY DEF OnceInv
    <3>2. InHand(i)' => InHand(i)
      BY <1>2, <2>2 DEF InHand, EventIds
    <3> QED BY <1>1, <1>5, <2>2, <3>1, <3>2
  <2> QED BY <2>1, <2>2
<1> QED BY <1>6, <1>7 DEF OnceInv

LEMMA OnceLate ==
  ASSUME TypeOK, OnceInv, NEW r \in Replica,
         \/ PersistFails(r) \/ ClassifyFails(r) \/ _enqueue_resync_for_event(r)
         \/ EnqueueFails(r) \/ ReplicaDies(r)
  PROVE  OnceInv'
<1>1. ledger' = ledger /\ due' = due /\ applied' = applied /\ mishaps \subseteq mishaps'
  BY DEF PersistFails, ClassifyFails, _enqueue_resync_for_event, EnqueueFails, ReplicaDies, Mishap,
         provider, history
<1>2. CASE PersistFails(r)
  BY <1>1, <1>2, PersistedLeaves, OnceMoves DEF PersistFails
<1>3. CASE ClassifyFails(r)
  <2>1. /\ hook'[r].pc = "enqueue" /\ hook'[r].ev = hook[r].ev
        /\ \A q \in Replica \ {r} : hook'[q] = hook[q]
    BY <1>3, HookTyped DEF TypeOK, Delivery, ClassifyFails
  <2> QED BY <1>1, <2>1, OnceMoves
<1>4. CASE Answer(r)
  BY <1>1, <1>4, OnceAnswer
<1> QED BY <1>2, <1>3, <1>4 DEF _enqueue_resync_for_event, EnqueueFails, ReplicaDies, Accept

LEMMA OnceEmit == ASSUME TypeOK, OnceInv, NEW o \in Objects, NEW k \in Kinds, Emit(o, k) PROVE OnceInv'
<1>1. UNCHANGED <<ledger, hook, applied, mishaps>> /\ due' = due \cup {Len(sent) + 1}
  BY DEF Emit, history
<1>2. Len(sent) \in Nat
  BY DEF TypeOK, ProviderOK
<1>3. Len(sent) + 1 \notin Known
  BY <1>2 DEF Known
<1>4. \A i \in EventIds : i = Len(sent) + 1 => applied[i] = 0
  <2>1. \A i \in EventIds : applied[i] \in Nat /\ (applied[i] > 0 => i \in Known)
    BY DEF TypeOK
  <2>2. \A i \in EventIds : i \notin Known => applied[i] = 0
    BY <2>1
  <2> QED BY <1>3, <2>2
<1>5. \A q \in Replica : Persisting(q)' => Persisting(q) /\ hook'[q].ev = hook[q].ev
  BY <1>1 DEF Persisting
<1>6. \A i \in EventIds : InHand(i)' => InHand(i)
  BY <1>1 DEF InHand
<1> QED BY <1>1, <1>4, <1>5, <1>6, OnceKept

\* The ledger forgets only what can come no more.
LEMMA OncePurge == ASSUME OnceInv, run_retention_purge PROVE OnceInv'
<1> SUFFICES ASSUME "ledger" \notin mishaps PROVE OnceInv'
  BY DEF OnceInv, run_retention_purge
<1>1. /\ ledger' = {i \in ledger : i \in due \/ \E r \in Replica : hook[r].ev = i}
      /\ due' = due /\ hook' = hook /\ applied' = applied
  BY DEF run_retention_purge, provider, history
<1>2. \A i \in EventIds : InHand(i)' <=> InHand(i)
  BY <1>1 DEF InHand
<1>3. ASSUME NEW i \in EventIds
      PROVE  applied'[i] <= 1 /\ (applied'[i] = 1 => i \in ledger' \/ (i \notin due' /\ ~InHand(i)'))
  <2>1. applied[i] <= 1 /\ (applied[i] = 1 => i \in ledger \/ (i \notin due /\ ~InHand(i)))
    BY DEF OnceInv
  <2>2. i \in ledger /\ i \notin ledger' => i \notin due /\ ~InHand(i)
    BY <1>1 DEF InHand
  <2> QED BY <1>1, <1>2, <2>1, <2>2
<1>4. \A r \in Replica : Persisting(r)' =>
        /\ hook'[r].ev \in ledger' /\ applied'[hook'[r].ev] = 0
        /\ \A q \in Replica \ {r} : Persisting(q)' => hook'[q].ev # hook'[r].ev
  BY <1>1 DEF OnceInv, Persisting
<1> QED BY <1>3, <1>4 DEF OnceInv

LEMMA StepOnce == ASSUME TypeOK, OnceInv, [Next]_vars PROVE OnceInv'
<1>1. CASE Aside
  <2>1. CASE \E o \in Objects, k \in Kinds : Emit(o, k)
    BY <2>1, OnceEmit
  <2>2. CASE run_retention_purge
    BY <2>2, OncePurge
  <2>3. ASSUME UNCHANGED ledger, due' \subseteq due PROVE OnceInv'
    <3>1. hook' = hook /\ applied' = applied /\ mishaps \subseteq mishaps'
      BY <1>1, AsideMoves
    <3>2. /\ \A q \in Replica : Persisting(q)' => Persisting(q) /\ hook'[q].ev = hook[q].ev
          /\ \A i \in EventIds : InHand(i)' => InHand(i)
      BY <3>1 DEF Persisting, InHand
    <3> QED BY <2>3, <3>1, <3>2, OnceKept
  <2>4. CASE UNCHANGED vars \/ enqueue_internal_billing_resync \/ \E i \in EventIds : Retire(i)
    BY <2>3, <2>4 DEF enqueue_internal_billing_resync, Retire, vars, provider
  <2>5. CASE \E w \in Worker : \/ \E j \in JobIds : claim_sync_jobs(w, j)
                               \/ _process_claimed_job(w) \/ WorkerFails(w)
    <3>1. UNCHANGED provider /\ UNCHANGED ledger
      BY <2>5 DEF claim_sync_jobs, _process_claimed_job, source_of_truth_resync, _handle_provider_failure,
                  _write_back, WriteBackFails, _finalize_sync_job, WorkerFails, _complete_job_fails, WorkerDies
    <3> QED BY <2>3, <3>1 DEF provider
  <2>6. CASE \E j \in JobIds : LeaseLapses(j)
    BY <2>3, <2>6 DEF LeaseLapses, provider
  <2> QED BY <1>1, <2>1, <2>2, <2>4, <2>5, <2>6 DEF Aside
<1>2. ASSUME NEW r \in Replica, \/ \E i \in EventIds : receive_stripe_webhook(r, i)
                                \/ _process_event(r) \/ HookFails(r)
      PROVE  OnceInv'
  BY <1>2, OnceEarly, OnceLedger, OncePassed, OncePersist, OnceLate DEF _process_event, HookFails
<1> QED BY <1>1, <1>2, StepSplit

-----------------------------------------------------------------------------

LEMMA InitLossOnce == ASSUME Init PROVE LossInv /\ OnceInv
<1>1. sent = <<>> /\ mishaps = {} /\ applied = [i \in EventIds |-> 0]
  BY DEF Init
<1>2. \A r \in Replica : hook[r].pc = "idle"
  BY DEF Init, Idle
<1>3. Known = {}
  BY <1>1 DEF Known
<1> QED BY <1>1, <1>2, <1>3 DEF LossInv, OnceInv, Queueing, Persisting

LEMMA Invariance == Spec => []IInv
<1>1. Init => IInv
  BY InitTypes, InitLossOnce DEF IInv
<1>2. IInv /\ [Next]_vars => IInv'
  BY StepTypes, StepLoss, StepOnce DEF IInv
<1> QED BY <1>1, <1>2, PTL DEF Spec

\* The rows, the deliveries in hand and the jobs stay of their types: an event
\* names an object of its kind, and a job a subscription or the user, so that
\* no purchase is ever written as a subscription (_write_subscription_fact).
THEOREM TypeCorrect == Spec => []TypeOK
<1>1. IInv => TypeOK
  BY DEF IInv
<1> QED BY <1>1, Invariance, PTL

\* An event that receive_stripe_webhook answered with 200 has been stored or
\* queued, or is in hand, although its ledger entry came first, but for: a crash
\* of its own handler past the ledger; an event that is not of our Checkout and
\* that no row or customer tells the user of; and an event whose fact could not
\* be stored and whose job could not be queued or has nothing to read.
THEOREM NothingIsLost == Spec => []NothingLostQuietly
<1>1. IInv => NothingLostQuietly
  <2> SUFFICES ASSUME IInv, NEW i \in acked PROVE i \in handled \/ InHand(i) \/ Excused(i)
    BY DEF NothingLostQuietly
  <2>1. i \in Known /\ Recorded(i)
    BY DEF IInv, TypeOK, Recorded
  <2>2. OnItsWay(i) => InHand(i)
    BY DEF OnItsWay, InHand
  <2> QED BY <2>1, <2>2 DEF IInv, LossInv
<1> QED BY <1>1, Invariance, PTL

\* Whatever the provider repeats and whichever replicas answer, the fact of an
\* event is persisted at most once (_record_delivery_ledger), unless the ledger
\* could not be written.
THEOREM FactsApplyOnce == Spec => []AppliedOnce
<1>1. IInv => AppliedOnce
  <2> SUFFICES ASSUME IInv, NEW i \in EventIds, applied[i] > 1, "ledger" \notin mishaps PROVE FALSE
    BY DEF AppliedOnce
  <2>1. applied[i] \in Nat /\ applied[i] <= 1
    BY DEF IInv, TypeOK, OnceInv
  <2> QED BY <2>1
<1> QED BY <1>1, Invariance, PTL
=============================================================================
