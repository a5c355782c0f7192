----------------------------- MODULE BillingSync -----------------------------
(***************************************************************************)
(* How facts about Stripe subscriptions and purchases reach the database:  *)
(* webhook deliveries, handled by several replicas of the API, and the     *)
(* jobs of the sync worker.  One user in one billing group is followed.    *)
(*                                                                         *)
(* A delivery is handled in four steps, each a call of its own: resolve    *)
(* the scope and read what is known, record the event in the ledger,       *)
(* persist the classified fact, enqueue a resync.  A job is claimed, its   *)
(* context read, its object fetched, the fact written, the row completed.  *)
(***************************************************************************)
EXTENDS Integers, Sequences, FiniteSets

CONSTANTS Subs, Purchases,   \* objects at the provider
          Kinds,             \* the kinds of event the provider emits
          Disabled,          \* kinds switched off in the configuration
          Marked,            \* objects our Checkout made: their metadata names user and project
          Replica, Worker,
          Faults,            \* which faults happen, each at most once
          MaxEvents, MaxJobs,  \* bounds: events emitted, rows of the job table
          MaxAttempts,       \* max_attempts of a job (8 in the code)
          MaxMishaps,        \* bound: faults in one behaviour
          None

Objects == Subs \cup Purchases

ASSUME SyncAssumption ==
    /\ Subs \cap Purchases = {} /\ None \notin Objects /\ Marked \subseteq Objects
    /\ MaxEvents \in Nat /\ MaxJobs \in Nat /\ MaxAttempts \in Nat \ {0}
    /\ MaxMishaps \in Nat

VARIABLES
    truth,    \* object -> its state at the provider
    sent,     \* the events emitted so far; an event is its position
    due,      \* the events the provider may still deliver
    ledger,   \* billing_webhook_deliveries
    memory,   \* replica -> _DELIVERY_MEMORY_LEDGER
    hook,     \* replica -> the delivery it handles
    fact,     \* object -> normalized status, "none" without a row
    current,  \* the subscription billing_entitlements_current describes
    customer, \* whether the customer row exists
    jobs,     \* billing_sync_jobs
    wk,       \* worker -> the job it works on
    acked,    \* history: the events answered 200
    handled,  \* history: the events whose effect is stored or queued
    applied,  \* history: event -> how often its fact was persisted
    dropped,  \* history: events that were given up, and why
    mishaps   \* the faults that have happened

provider == <<truth, sent, due>>
facts    == <<fact, current, customer>>
history  == <<acked, handled, applied, dropped>>
vars == <<provider, ledger, memory, hook, facts, jobs, wk, history, mishaps>>

EventIds == 1 .. MaxEvents
JobIds == 1 .. MaxJobs
User == "user"                      \* a user-level job names no object
Keys == (Objects \cup {User}) \X (Kinds \cup {"manual"})
Active == {"pending", "running", "retry"}

Mishap(f) ==
    /\ f \in Faults \ mishaps /\ Cardinality(mishaps) < MaxMishaps
    /\ mishaps' = mishaps \cup {f}

----------------------------------------------------------------------------
(* The provider.                                                            *)

SubKinds == {"checkout", "paid", "failed", "deleted", "mismatch"}
PurchaseKinds == {"bought", "refund", "dispute", "closed"}
KindsOf(o) == Kinds \cap ((IF o \in Subs THEN SubKinds ELSE PurchaseKinds) \cup {"noise", "foreign"})

TruthBefore(k) ==
    CASE k \in {"checkout", "bought"} -> {"none"}
      [] k = "paid" -> {"incomplete", "past_due"} [] k = "failed" -> {"incomplete", "active"}
      [] k = "refund" -> {"paid"} [] k = "dispute" -> {"paid"} [] k = "closed" -> {"disputed"}
      [] OTHER -> {"incomplete", "active", "past_due", "paid"}
\* A charge does not say how its dispute was closed.
TruthAfter(k, t) ==
    CASE k = "checkout" -> "incomplete" [] k = "paid" -> "active"
      [] k = "failed" -> "past_due"     [] k = "deleted" -> "canceled"
      [] k = "bought" -> "paid"         [] k = "refund" -> "refunded"
      [] k \in {"dispute", "closed"} -> "disputed"
      [] OTHER -> t

Emit(o, k) ==
    /\ Len(sent) < MaxEvents
    /\ k \in KindsOf(o) /\ truth[o] \in TruthBefore(k)
    /\ truth' = [truth EXCEPT ![o] = TruthAfter(k, @)]
    /\ sent' = Append(sent, [obj |-> o, kind |-> k])
    /\ due' = due \cup {Len(sent) + 1}
    /\ UNCHANGED <<ledger, memory, hook, facts, jobs, wk, history, mishaps>>

\* The provider gives up on, or has no more repeats of, a delivery.
Retire(i) ==
    /\ i \in due /\ due' = due \ {i}
    /\ UNCHANGED <<truth, sent, ledger, memory, hook, facts, jobs, wk, history, mishaps>>

----------------------------------------------------------------------------
(* Classification (classifier.py).                                          *)

_evidence_mismatch(k) == k = "mismatch"
_classify_checkout_completed(k) == IF k = "checkout" THEN "pending" ELSE "paid"
_classify_subscription_event(k) ==
    IF _evidence_mismatch(k) THEN "unknown" ELSE "canceled"
_classify_invoice_event(k) == IF k = "paid" THEN "active" ELSE "past_due"
_classify_charge_refunded == "refunded"
_classify_dispute_event(k) == IF k = "dispute" THEN "disputed" ELSE "dispute_won"

Unsupported(k) == k = "noise"
classify_stripe_event(k) ==
    CASE k \in {"checkout", "bought"} -> _classify_checkout_completed(k)
      [] k \in {"deleted", "mismatch"} -> _classify_subscription_event(k)
      [] k \in {"paid", "failed"} -> _classify_invoice_event(k)
      [] k = "refund" -> _classify_charge_refunded
      [] OTHER -> _classify_dispute_event(k)
ResyncRequired(k) == k \in {"mismatch", "failed"}

AheadOfPending == {"incomplete", "active", "past_due"}
StatusToObserve(k, known) ==
    IF classify_stripe_event(k) = "pending" /\ known \in AheadOfPending
    THEN known ELSE classify_stripe_event(k)

----------------------------------------------------------------------------
(* The stored procedures that write facts and jobs.                         *)

observe_subscription(o, s) ==
    fact' = [fact EXCEPT ![o] = s] /\ current' = o
record_purchase_event(o, s) ==
    fact' = [fact EXCEPT ![o] = s] /\ UNCHANGED current
WriteFact(o, s) ==
    IF o \in Subs THEN observe_subscription(o, s) ELSE record_purchase_event(o, s)

NoJob == [key |-> <<User, "manual">>, st |-> "none", attempts |-> 0, lapsed |-> FALSE]
ActiveJob(k) == {j \in JobIds : jobs[j].key = k /\ jobs[j].st \in Active}
\* An active row with this key absorbs the request, whatever it is doing.
enqueue_sync_job(k) ==
    IF ActiveJob(k) # {} THEN UNCHANGED jobs
    ELSE \E j \in JobIds :
           /\ jobs[j].st = "none" /\ \A i \in 1 .. (j - 1) : jobs[i].st # "none"
           /\ jobs' = [jobs EXCEPT ![j] = [NoJob EXCEPT !.key = k, !.st = "pending"]]

----------------------------------------------------------------------------
(* A delivery (stripe_webhooks.py).                                         *)

Idle == [pc |-> "idle", ev |-> 0, scope |-> "none", known |-> "none", kept |-> FALSE]
Event(r) == sent[hook[r].ev]
Answer(r) == hook' = [hook EXCEPT ![r] = Idle]
Accept(r) == Answer(r) /\ acked' = acked \cup {hook[r].ev}
HookAt(r, pc) == hook[r].pc = pc

\* The signature is valid and the group is ready; a delivery that is not is
\* answered with an error and leaves no trace.
receive_stripe_webhook(r, i) ==
    /\ HookAt(r, "idle") /\ i \in due
    /\ hook' = [hook EXCEPT ![r] = [Idle EXCEPT !.pc = "resolve", !.ev = i]]
    /\ UNCHANGED <<provider, ledger, memory, facts, jobs, wk, history, mishaps>>

(* Whose the event is: its metadata names a user and a project, which the   *)
(* provider never copies onto disputes; else a row stored for its object,   *)
(* else the customer, from which no project follows; else nobody.           *)
Named(e) == e.obj \in Marked /\ e.kind \notin {"dispute", "closed"}
_lookup_event_refs(e) ==
    IF fact[e.obj] # "none" THEN IF e.obj \in Subs THEN "user" ELSE "full"
    ELSE IF customer /\ e.kind \notin {"dispute", "closed"} THEN "user" ELSE "none"
ScopeOf(e) == IF Named(e) THEN "full" ELSE _lookup_event_refs(e)

\* 403 for an event of another scope; else what is known is read here, before
\* the ledger and before the write.
_resolve_event_scope(r) ==
    /\ HookAt(r, "resolve")
    /\ IF Event(r).kind = "foreign" THEN Answer(r)
       ELSE hook' = [hook EXCEPT ![r].pc = "ledger", ![r].scope = ScopeOf(Event(r)),
                                 ![r].known = fact[Event(r).obj]]
    /\ UNCHANGED <<provider, ledger, memory, facts, jobs, wk, history, mishaps>>

\* 503: nothing is recorded and the provider repeats the delivery.
ScopeUnavailable(r) ==
    /\ HookAt(r, "resolve") /\ Mishap("scope") /\ Answer(r)
    /\ UNCHANGED <<provider, ledger, memory, facts, jobs, wk, history>>

\* The next step of a delivery that is not a duplicate.
Forward(r) ==
    IF Event(r).kind \in Disabled \/ Unsupported(Event(r).kind)
    THEN Accept(r) /\ handled' = handled \cup {hook[r].ev}
    ELSE /\ hook' = [hook EXCEPT ![r].pc = "persist"]
         /\ UNCHANGED <<acked, handled>>

\* Mutation: only the memory of the replica tells a repeat.
DuplicateInMemory(r) == hook[r].ev \in memory[r]
Duplicate(r) == hook[r].ev \in memory[r] \/ hook[r].ev \in ledger

_record_delivery_ledger(r) ==
    /\ HookAt(r, "ledger")
    /\ IF Duplicate(r)
       THEN Accept(r) /\ UNCHANGED <<ledger, memory, handled>>
       ELSE /\ ledger' = ledger \cup {hook[r].ev}
            /\ memory' = [memory EXCEPT ![r] = @ \cup {hook[r].ev}]
            /\ Forward(r)
    /\ UNCHANGED <<provider, facts, jobs, wk, applied, dropped, mishaps>>

\* The procedure fails: the delivery goes on, known to this replica only.
LedgerFails(r) ==
    /\ HookAt(r, "ledger") /\ hook[r].ev \notin memory[r] /\ Mishap("ledger")
    /\ memory' = [memory EXCEPT ![r] = @ \cup {hook[r].ev}]
    /\ Forward(r)
    /\ UNCHANGED <<provider, ledger, facts, jobs, wk, applied, dropped>>

Persisted(r, kept) ==
    IF ResyncRequired(Event(r).kind) \/ ~kept
    THEN hook' = [hook EXCEPT ![r].pc = "enqueue", ![r].kept = kept] /\ UNCHANGED acked
    ELSE Accept(r)

\* A subscription needs its user, a purchase its project too.
Placed(r) == hook[r].scope = "full" \/ (hook[r].scope = "user" /\ Event(r).obj \in Subs)
\* The customer comes first; a purchase may have none.
_upsert_customer_from_event(r) ==
    IF hook[r].scope = "none" THEN UNCHANGED customer
    ELSE IF Event(r).obj \in Subs THEN customer' = TRUE
    ELSE customer' \in {customer, TRUE}

_persist_classification(r) ==
    /\ HookAt(r, "persist")
    /\ _upsert_customer_from_event(r)
    /\ \/ /\ Placed(r)
          /\ WriteFact(Event(r).obj, StatusToObserve(Event(r).kind, hook[r].known))
          /\ handled' = handled \cup {hook[r].ev}
          /\ applied' = [applied EXCEPT ![hook[r].ev] = @ + 1]
       \/ ~Placed(r) /\ UNCHANGED <<fact, current, handled, applied>>
    /\ Persisted(r, Placed(r))
    /\ UNCHANGED <<provider, ledger, memory, jobs, wk, dropped, mishaps>>

\* The customer may have been stored before the fact failed.
PersistFails(r) ==
    /\ HookAt(r, "persist") /\ Placed(r) /\ Mishap("persist")
    /\ customer' \in {customer, TRUE}
    /\ Persisted(r, FALSE)
    /\ UNCHANGED <<provider, ledger, memory, fact, current, jobs, wk, handled, applied, dropped>>

ClassifyFails(r) ==
    /\ HookAt(r, "persist") /\ Mishap("classify")
    /\ hook' = [hook EXCEPT ![r].pc = "enqueue", ![r].kept = FALSE]
    /\ UNCHANGED <<provider, ledger, memory, facts, jobs, wk, history>>

\* A fact that was stored gives a job about its object; else the job is about
\* the user, and reads the subscriptions of the customer on record.
ResyncKey(r) == <<IF hook[r].kept THEN Event(r).obj ELSE User, Event(r).kind>>
Reaches(r) == hook[r].kept \/ (Event(r).obj \in Subs /\ customer)
\* Mutation: only what was persisted is queued for a resync.
EnqueuePersistedOnly(r) ==
    /\ HookAt(r, "enqueue")
    /\ IF hook[r].kept THEN enqueue_sync_job(ResyncKey(r)) ELSE UNCHANGED jobs
    /\ Accept(r)
    /\ UNCHANGED <<provider, ledger, memory, facts, wk, handled, applied, dropped, mishaps>>
_enqueue_resync_for_event(r) ==
    /\ HookAt(r, "enqueue") /\ Accept(r)
    /\ IF hook[r].scope = "none"
       THEN /\ dropped' = dropped \cup {<<hook[r].ev, "nobody">>}
            /\ UNCHANGED <<jobs, handled>>
       ELSE /\ enqueue_sync_job(ResyncKey(r))
            /\ handled' = handled \cup {i \in {hook[r].ev} : Reaches(r)}
            /\ dropped' = dropped \cup {t \in {<<hook[r].ev, "unread">>} : ~Reaches(r)}
    /\ UNCHANGED <<provider, ledger, memory, facts, wk, applied, mishaps>>

EnqueueFails(r) ==
    /\ HookAt(r, "enqueue") /\ hook[r].scope # "none" /\ Mishap("enqueue") /\ Accept(r)
    /\ UNCHANGED <<provider, ledger, memory, facts, jobs, wk, handled, applied, dropped>>

\* The repeat of a delivery that was past the ledger is taken for a duplicate.
ReplicaDies(r) ==
    /\ hook[r] # Idle /\ Mishap("crash")
    /\ Answer(r) /\ memory' = [memory EXCEPT ![r] = {}]
    /\ dropped' = dropped \cup {t \in {<<hook[r].ev, "crash">>} : hook[r].pc \in {"persist", "enqueue"}}
    /\ UNCHANGED <<provider, ledger, facts, jobs, wk, acked, handled, applied>>

\* POST .../resync of the internal API.
enqueue_internal_billing_resync ==
    /\ "resync" \in Faults
    /\ enqueue_sync_job(<<User, "manual">>)
    /\ jobs' # jobs
    /\ UNCHANGED <<provider, ledger, memory, hook, facts, wk, history, mishaps>>

----------------------------------------------------------------------------
(* The worker (billing_sync_worker.py, Util/stripe/sync.py).                *)

Resting == [pc |-> "idle", job |-> 0, attempts |-> 0,
            obj |-> None, got |-> "none", res |-> "none"]
WorkAt(w, pc) == wk[w].pc = pc
Holders(j) == {w \in Worker : wk[w].job = j}
decide_retry_backoff(a) == IF a < MaxAttempts THEN "retry" ELSE "failed"
ToComplete(w, s) == wk' = [wk EXCEPT ![w].pc = "complete", ![w].res = s]

\* Mutation: a row left running is never offered again.
ClaimWaitingOnly(w, j) ==
    /\ WorkAt(w, "idle") /\ jobs[j].st \in {"pending", "retry"}
    /\ jobs' = [jobs EXCEPT ![j].st = "running", ![j].attempts = @ + 1]
    /\ wk' = [wk EXCEPT ![w] = [Resting EXCEPT !.pc = "fetch", !.job = j,
                                               !.attempts = jobs[j].attempts + 1]]
    /\ UNCHANGED <<provider, ledger, memory, hook, facts, history, mishaps>>
claim_sync_jobs(w, j) ==
    /\ WorkAt(w, "idle")
    /\ \/ jobs[j].st \in {"pending", "retry"}
       \/ jobs[j].st = "running" /\ jobs[j].lapsed
    /\ jobs' = [jobs EXCEPT ![j].st = "running", ![j].attempts = @ + 1, ![j].lapsed = FALSE]
    /\ wk' = [wk EXCEPT ![w] = [Resting EXCEPT !.pc = "fetch", !.job = j,
                                               !.attempts = jobs[j].attempts + 1]]
    /\ UNCHANGED <<provider, ledger, memory, hook, facts, history, mishaps>>

Preference(t) == CASE t = "active" -> 1 [] t = "past_due" -> 3 [] t = "incomplete" -> 6
                   [] OTHER -> 7
select_current_subscription ==
    {o \in Subs : truth[o] # "none"
                  /\ \A x \in Subs : truth[x] # "none" => Preference(truth[o]) <= Preference(truth[x])}

\* The refs a job is fetched by: its own object's, or the customer's.
_operational_refs_for_job(w) == jobs[wk[w].job].key[1]
_fetch_customer_subscription == IF customer THEN select_current_subscription ELSE {}
Fetches(w) ==
    LET o == _operational_refs_for_job(w)
    IN  IF o = User THEN _fetch_customer_subscription ELSE {o}

source_of_truth_resync(w) ==
    /\ WorkAt(w, "fetch")
    /\ \/ Fetches(w) = {} /\ ToComplete(w, "completed")
       \/ \E o \in Fetches(w) :
             wk' = [wk EXCEPT ![w].pc = "write", ![w].obj = o, ![w].got = truth[o]]
    /\ UNCHANGED <<provider, ledger, memory, hook, facts, jobs, history, mishaps>>

_handle_provider_failure(w) ==
    /\ WorkAt(w, "fetch") /\ "fetch" \in Faults
    /\ ToComplete(w, decide_retry_backoff(wk[w].attempts))
    /\ UNCHANGED <<provider, ledger, memory, hook, facts, jobs, history, mishaps>>

_write_subscription_fact(w) ==
    observe_subscription(wk[w].obj, wk[w].got) /\ UNCHANGED customer
_write_back(w) ==
    /\ WorkAt(w, "write")
    /\ _write_subscription_fact(w)
    /\ ToComplete(w, "completed")
    /\ UNCHANGED <<provider, ledger, memory, hook, jobs, history, mishaps>>

WriteBackFails(w) ==
    /\ WorkAt(w, "write") /\ "write" \in Faults
    /\ ToComplete(w, decide_retry_backoff(wk[w].attempts))
    /\ UNCHANGED <<provider, ledger, memory, hook, facts, jobs, history, mishaps>>

\* The row is updated by its id: neither its holder nor its status is asked.
\* Only the unique key of active rows stops a late worker.
complete_sync_job(j, s) ==
    IF s \in Active /\ ActiveJob(jobs[j].key) \ {j} # {} THEN UNCHANGED jobs
    ELSE jobs' = [jobs EXCEPT ![j].st = s, ![j].lapsed = FALSE]

_finalize_sync_job(w) ==
    /\ WorkAt(w, "complete")
    /\ complete_sync_job(wk[w].job, wk[w].res)
    /\ wk' = [wk EXCEPT ![w] = Resting]
    /\ UNCHANGED <<provider, ledger, memory, hook, facts, history, mishaps>>

\* The error is swallowed; the row stays running until its lease lapses.
_complete_job_fails(w) ==
    /\ WorkAt(w, "complete") /\ Mishap("complete")
    /\ wk' = [wk EXCEPT ![w] = Resting]
    /\ UNCHANGED <<provider, ledger, memory, hook, facts, jobs, history>>

WorkerDies(w) ==
    /\ wk[w].pc # "idle" /\ Mishap("die")
    /\ wk' = [wk EXCEPT ![w] = Resting]
    /\ UNCHANGED <<provider, ledger, memory, hook, facts, jobs, history>>

\* A lease lapses when its holder is gone, or when the batch took too long.
LeaseLapses(j) ==
    /\ jobs[j].st = "running" /\ ~jobs[j].lapsed
    /\ IF Holders(j) = {} THEN UNCHANGED mishaps ELSE Mishap("lapse")
    /\ jobs' = [jobs EXCEPT ![j].lapsed = TRUE]
    /\ UNCHANGED <<provider, ledger, memory, hook, facts, wk, history>>

\* The ledger is kept for longer than the provider repeats a delivery.
run_retention_purge ==
    /\ ledger' = {i \in ledger : i \in due \/ \E r \in Replica : hook[r].ev = i}
    /\ ledger' # ledger
    /\ UNCHANGED <<provider, memory, hook, facts, jobs, wk, history, mishaps>>

----------------------------------------------------------------------------
Init ==
    /\ truth = [o \in Objects |-> "none"] /\ sent = <<>> /\ due = {}
    /\ ledger = {} /\ memory = [r \in Replica |-> {}]
    /\ hook = [r \in Replica |-> Idle]
    /\ fact = [o \in Objects |-> "none"] /\ current = None /\ customer = FALSE
    /\ jobs = [j \in JobIds |-> NoJob] /\ wk = [w \in Worker |-> Resting]
    /\ acked = {} /\ handled = {} /\ applied = [i \in EventIds |-> 0]
    /\ dropped = {} /\ mishaps = {}

_process_event(r) ==
    \/ _resolve_event_scope(r) \/ _record_delivery_ledger(r)
    \/ _persist_classification(r) \/ _enqueue_resync_for_event(r)
HookFails(r) ==
    \/ ScopeUnavailable(r) \/ LedgerFails(r) \/ PersistFails(r) \/ ClassifyFails(r)
    \/ EnqueueFails(r) \/ ReplicaDies(r)

_process_claimed_job(w) ==
    \/ source_of_truth_resync(w) \/ _handle_provider_failure(w)
    \/ _write_back(w) \/ WriteBackFails(w) \/ _finalize_sync_job(w)
WorkerFails(w) == _complete_job_fails(w) \/ WorkerDies(w)

Next ==
    \/ \E o \in Objects, k \in Kinds : Emit(o, k)
    \/ \E i \in EventIds : Retire(i) \/ \E r \in Replica : receive_stripe_webhook(r, i)
    \/ \E r \in Replica : _process_event(r) \/ HookFails(r)
    \/ enqueue_internal_billing_resync
    \/ \E w \in Worker : \/ \E j \in JobIds : claim_sync_jobs(w, j)
                         \/ _process_claimed_job(w) \/ WorkerFails(w)
    \/ \E j \in JobIds : LeaseLapses(j)
    \/ run_retention_purge

Spec == Init /\ [][Next]_vars

\* The worker loop polls for ever and every call of it returns or fails; a
\* lease has an end.  Deliveries, faults and the provider owe nothing.
Fairness ==
    /\ \A w \in Worker : WF_vars(_process_claimed_job(w))
    /\ \A j \in JobIds : /\ WF_vars(\E w \in Worker : claim_sync_jobs(w, j))
                         /\ WF_vars(LeaseLapses(j) /\ Holders(j) = {})
FairSpec == Spec /\ Fairness

----------------------------------------------------------------------------

InHand(i) == \E r \in Replica : hook[r].ev = i
(* What may lose an event: its handler died past the ledger; its object is  *)
(* not one of our Checkouts and neither a row nor a customer tells whose it *)
(* is; or it was not stored (a failed step, or a purchase without project)  *)
(* and the queue failed too or the job it got has nothing to read.          *)
NotStored(i) ==
    mishaps \cap {"persist", "classify"} # {} \/ (sent[i].obj \in Purchases /\ ~Named(sent[i]))
Excused(i) ==
    \/ <<i, "crash">> \in dropped
    \/ <<i, "nobody">> \in dropped /\ ~Named(sent[i])
    \/ NotStored(i) /\ ("enqueue" \in mishaps \/ <<i, "unread">> \in dropped)
\* An event that was answered 200, by whichever replica, has been stored, or a
\* resync that reads the customer's subscriptions is queued, although the
\* ledger entry comes first; but for the losses above.
NothingLostQuietly ==
    \A i \in acked : i \in handled \/ InHand(i) \/ Excused(i)

\* However often and to whichever replicas the provider delivers an event,
\* its fact is persisted once, unless the ledger was unavailable.
AppliedOnce == \A i \in EventIds : applied[i] > 1 => "ledger" \in mishaps

\* Every job that is queued ends: completed, or failed after its attempts,
\* whatever workers die, leases lapse and calls to the provider fail.
JobsSettle == \A j \in JobIds : jobs[j].st \in Active ~> jobs[j].st \notin Active
=============================================================================
