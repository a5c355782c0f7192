---------------------------- MODULE MCBillingSync ----------------------------
(***************************************************************************)
(* One user with two subscriptions and two purchases, one of each made by  *)
(* our Checkout.  In the scene "hooks" two                                 *)
(* replicas handle the deliveries and the jobs wait; in "jobs" a failed    *)
(* payment has queued a job, two workers run it and one replica goes on    *)
(* handling deliveries.                                                    *)
(***************************************************************************)
EXTENDS BillingSync

CONSTANTS s1, r1

VARIABLE scene

SceneInit ==
    \/ scene = "hooks" /\ Init
    \/ /\ scene = "jobs"
       /\ \E o \in {s1, None} :
             /\ truth = [x \in Objects |-> IF x = o THEN "active" ELSE "none"]
             /\ fact = [x \in Objects |-> IF x = o THEN "past_due" ELSE "none"]
             /\ current = o /\ customer = (o = s1)
             /\ jobs = [j \in JobIds |->
                          IF j # 1 THEN NoJob
                          ELSE [NoJob EXCEPT !.st = "pending",
                                             !.key = IF o = s1 THEN <<o, "failed">> ELSE @]]
       /\ sent = <<>> /\ due = {}
       /\ ledger = {} /\ memory = [r \in Replica |-> {}]
       /\ hook = [r \in Replica |-> Idle] /\ wk = [w \in Worker |-> Resting]
       /\ acked = {} /\ handled = {} /\ applied = [i \in EventIds |-> 0]
       /\ dropped = {} /\ mishaps = {}

SceneNext ==
    /\ UNCHANGED scene
    /\ \/ \E o \in Objects, k \in Kinds : /\ Emit(o, k)
                                           /\ IF scene = "jobs" THEN k = "failed" /\ sent = <<>>
                                              ELSE sent = <<>> \/ k \in {"bought", "failed", "deleted", "dispute"}
       \/ \E r \in Replica : \/ \E i \in EventIds : receive_stripe_webhook(r, i) /\ (scene = "jobs" => r = r1 /\ i \notin acked)
                             \/ _process_event(r)
                             \/ scene = "hooks" /\ HookFails(r)
       \/ /\ scene = "hooks"
          /\ run_retention_purge \/ \E i \in EventIds : Retire(i)
       \/ /\ scene = "jobs"
          /\ \/ enqueue_internal_billing_resync
             \/ \E w \in Worker : \/ \E j \in JobIds : claim_sync_jobs(w, j)
                                  \/ _process_claimed_job(w) \/ WorkerFails(w)
             \/ \E j \in JobIds : LeaseLapses(j)

SceneSpec == SceneInit /\ [][SceneNext]_<<vars, scene>> /\ Fairness
=============================================================================
