----------------------------- MODULE PatreonSync -----------------------------
(***************************************************************************)
(* How entitlements follow Patreon after the link: webhook deliveries,     *)
(* which apply a complete document and otherwise queue a resync, and the   *)
(* sync worker, which runs queued jobs and, when none is due, sweeps the   *)
(* configured campaigns.  The worker reads a campaign, then resolves,      *)
(* classifies and stores its members one by one, and at the end downgrades *)
(* linked memberships the complete reading did not return.                 *)
(***************************************************************************)
EXTENDS PatreonLinks

CONSTANTS Deliveries, Workers, JobIds,
          MaxAttempts,       \* max_attempts of a job (8 in the code)
          MaxShocks          \* bound: outside events in one behaviour

ASSUME SyncAssumption == MaxAttempts \in Nat \ {0} /\ MaxShocks \in Nat

VARIABLES
    sent,      \* delivery -> the event Patreon delivers
    ledger,    \* patreon_webhook_deliveries: delivery -> status
    hook,      \* handler -> the delivery it works on
    jobs,      \* patreon_sync_jobs
    wk,        \* worker -> what it is doing
    owed,      \* history: keys of requests accepted and not yet taken up
    overran,   \* history: a lease ended under a worker still at work
    shocks     \* changes at Patreon, resync requests, failures and crashes so far

syncVars == <<sent, ledger, hook, jobs, wk, owed, overran, shocks>>
allVars == <<linkVars, syncVars>>
linkRest == <<truth, proofs, accounts, confirm>>

Waiting == {"pending", "retry"}
Active == Waiting \cup {"running"}
All == <<"all", None, None>>
Keys == {All} \cup ({"user"} \X Users \X {None})
              \cup ({"member"} \X (Users \cup {None}) \X Members)
NoJob == [st |-> "none", key |-> All, n |-> 0, rerun |-> FALSE,
          begun |-> FALSE, lapsed |-> FALSE]
Idle == [pc |-> "idle", todo |-> {}]
Quiet == [pc |-> "idle"]
Shock == shocks < MaxShocks /\ shocks' = shocks + 1

----------------------------------------------------------------------------
(* The job table.                                                           *)

\* Finished rows stay behind: an id may stand for the next job.
NewJobs == LET free == {j \in JobIds : /\ jobs[j].st \in {"none", "completed", "failed"}
                                        /\ \A w \in Workers : j \notin wk[w].todo}
           IN IF free = {} THEN {} ELSE {CHOOSE j \in free : TRUE}
JobsOf(k) == {j \in JobIds : jobs[j].st \in Active /\ jobs[j].key = k}

\* A request for an active key joins it; a running job is asked to run again.
\* Mutation: a request that meets a running job leaves no mark.
enqueue_unmarked(k) ==
    /\ IF JobsOf(k) # {} THEN UNCHANGED jobs
       ELSE \E j \in NewJobs : jobs' = [jobs EXCEPT ![j] = [NoJob EXCEPT !.st = "pending", !.key = k]]
    /\ owed' = owed \cup {k}
enqueue_patreon_sync_job(k) ==
    /\ IF JobsOf(k) # {}
       THEN jobs' = [j \in JobIds |-> IF j \in JobsOf(k) /\ jobs[j].st = "running"
                                      THEN [jobs[j] EXCEPT !.rerun = TRUE] ELSE jobs[j]]
       ELSE \E j \in NewJobs : jobs' = [jobs EXCEPT ![j] = [NoJob EXCEPT !.st = "pending", !.key = k]]
    /\ owed' = owed \cup {k}

\* Jobs whose lease ended after the last attempt are failed; the others that
\* are due, lapsed ones included, are taken.
Exhausted(j) == jobs[j].st = "running" /\ jobs[j].lapsed /\ jobs[j].n >= MaxAttempts
Due(j) == jobs[j].st \in Waiting \/ (jobs[j].st = "running" /\ jobs[j].lapsed /\ ~Exhausted(j))
claim_patreon_sync_jobs(w) ==
    LET taken == {j \in JobIds : Due(j)}
    IN /\ wk[w].pc = "idle" /\ taken # {}
       /\ jobs' = [j \in JobIds |->
            IF Exhausted(j) THEN [jobs[j] EXCEPT !.st = "failed"]
            ELSE IF j \in taken
            THEN [jobs[j] EXCEPT !.st = "running", !.n = @ + 1, !.begun = FALSE, !.lapsed = FALSE]
            ELSE jobs[j]]
       /\ owed' = owed \ {jobs[j].key : j \in {i \in JobIds : Exhausted(i)}}
       /\ wk' = [wk EXCEPT ![w] = [pc |-> "batch", todo |-> taken]]
       /\ UNCHANGED <<linkVars, sent, ledger, hook, overran, shocks>>

\* Mutation: a job that is done is done, whoever asked for it meanwhile.
CompleteForGood(j, s, again, asked) ==
    /\ jobs' = [jobs EXCEPT ![j].st = s, ![j].begun = FALSE]
    /\ owed' = IF s = "failed" \/ (s = "completed" /\ jobs[j].rerun /\ ~asked)
               THEN owed \ {jobs[j].key} ELSE owed

\* The UPDATE of the completion: the row is written whoever holds it, and only
\* a success runs the job again, if a rerun was asked for when the procedure
\* looked.  A request that falls between its SELECT and this statement, or
\* meets the last attempt, is dropped.
UpdateJob(j, s, again, asked) ==
    /\ jobs' = [jobs EXCEPT ![j].st = IF again THEN "pending" ELSE s,
                            ![j].n = IF again THEN 0 ELSE @,
                            ![j].rerun = IF again THEN FALSE ELSE @,
                            ![j].begun = FALSE]
    /\ owed' = IF s = "failed" \/ (s = "completed" /\ jobs[j].rerun /\ ~asked)
               THEN owed \ {jobs[j].key} ELSE owed

LeaseLapses(j) ==
    /\ jobs[j].st = "running" /\ ~jobs[j].lapsed
    /\ jobs' = [jobs EXCEPT ![j].lapsed = TRUE]
    /\ overran' = (overran \/ \E w \in Workers : j \in wk[w].todo)
    /\ UNCHANGED <<linkVars, sent, ledger, hook, wk, owed, shocks>>

\* The application that shows the plan asks for a user; root for a user with
\* a linked membership, or for everyone.
enqueue_internal_patreon_resync(u) ==
    /\ enqueue_patreon_sync_job(<<"user", u, None>>) /\ Shock
    /\ UNCHANGED <<linkVars, sent, ledger, hook, wk, overran>>
enqueue_admin_patreon_resync(k) ==
    /\ \/ k = All
       \/ k[1] = "user" /\ \E r \in Rows : Live(r) /\ Linked(rows[r].acct) /\ rows[r].user = k[2]
    /\ enqueue_patreon_sync_job(k) /\ Shock
    /\ UNCHANGED <<linkVars, sent, ledger, hook, wk, overran>>

\* After the link is made, a failure leaves the entitlement to a job.
_initial_entitlement_after_link(h) ==
    /\ confirm[h].pc \in {"linked", "read", "observed"}
    /\ enqueue_patreon_sync_job(<<"user", confirm[h].user, None>>)
    /\ confirm' = [confirm EXCEPT ![h] = Resting]
    /\ Shock
    /\ UNCHANGED <<truth, proofs, accounts, rows, current, late, sent, ledger, hook, wk, overran>>

----------------------------------------------------------------------------
(* Webhooks.                                                                *)

\* Patreon sends what it knows of a member at this moment.
Emit(d, kind) ==
    \E m \in Members :
       /\ sent[d] = Quiet
       /\ (kind = "delete") <=> (truth[m] = "absent")
       /\ sent' = [sent EXCEPT ![d] = [pc |-> "due", member |-> m, kind |-> kind,
                                       read |-> IF kind = "delete" THEN "former" ELSE truth[m]]]
       /\ UNCHANGED <<linkVars, ledger, hook, jobs, wk, owed, overran, shocks>>

\* sp_patreon_webhook_delivery_record: a failed or abandoned delivery is
\* accepted again, any other known one is a replay, answered 200.
record_patreon_webhook_delivery(h, d) ==
    /\ hook[h] = Quiet /\ sent[d].pc = "due"
    /\ IF ledger[d] \in {"none", "failed", "abandoned"}
       THEN /\ ledger' = [ledger EXCEPT ![d] = "received"]
            /\ hook' = [hook EXCEPT ![h] = [pc |-> "recorded", d |-> d]]
            /\ UNCHANGED sent
       ELSE /\ ledger' = [ledger EXCEPT ![d] = IF @ = "processed" THEN "replay" ELSE @]
            /\ sent' = [sent EXCEPT ![d].pc = "answered"]
            /\ UNCHANGED hook
    /\ UNCHANGED <<linkVars, jobs, wk, owed, overran, shocks>>

\* Ten minutes after it came in, a delivery still "received" counts as abandoned.
DeliveryAbandoned(d) ==
    /\ ledger[d] = "received" /\ ledger' = [ledger EXCEPT ![d] = "abandoned"]
    /\ UNCHANGED <<linkVars, sent, hook, jobs, wk, owed, overran, shocks>>

\* The holder of the member's Patreon account, the entitlement on record.
ReadLink(m) ==
    IF HolderOf(SubjectOf[m]) = {} THEN Quiet
    ELSE LET a == CHOOSE x \in HolderOf(SubjectOf[m]) : TRUE
         IN [pc |-> "ctx", acct |-> a, user |-> accounts[a].user, member |-> m,
             cur |-> current[accounts[a].user]]

_should_resync_instead_of_commit(e, c) == ~c.complete \/ e.kind = "delete" \/ c.resync

_process_verified_member_payload(h) ==
    LET e == sent[hook[h].d]
        link == ReadLink(e.member)
        c == classify_patreon_entitlement(e.member, e.read, link.cur)
    IN /\ hook[h].pc = "recorded"
       /\ hook' = [hook EXCEPT ![h] =
            IF link = Quiet THEN [@ EXCEPT !.pc = "ignored"]
            ELSE [pc |-> IF _should_resync_instead_of_commit(e, c) THEN "resync" ELSE "commit",
                  d |-> @.d, user |-> link.user, acct |-> link.acct, seen |-> c]]
       /\ UNCHANGED <<linkVars, sent, ledger, jobs, wk, owed, overran, shocks>>

_enqueue_member_source_of_truth_resync(h) ==
    /\ hook[h].pc = "resync"
    /\ enqueue_patreon_sync_job(<<"member", hook[h].user, sent[hook[h].d].member>>)
    /\ hook' = [hook EXCEPT ![h] = [pc |-> "processed", d |-> @.d]]
    /\ UNCHANGED <<linkVars, sent, ledger, wk, overran, shocks>>

_persist_classification(h) ==
    LET x == hook[h]
    IN /\ \/ /\ x.pc = "commit"
             /\ \E r \in Rows :
                   /\ sp_patreon_membership_observe(x.user, x.acct, sent[x.d].member, r)
                   /\ hook' = [hook EXCEPT ![h] =
                        [pc |-> "observed", d |-> x.d, user |-> x.user, acct |-> x.acct,
                         seen |-> x.seen, row |-> r]]
             /\ UNCHANGED current
          \/ /\ x.pc = "observed"
             /\ sp_patreon_entitlement_snapshot_upsert(x.user, x.row, x.seen)
             /\ hook' = [hook EXCEPT ![h] = [pc |-> "processed", d |-> x.d]]
             /\ UNCHANGED rows
       /\ WriteFrom(x.user, x.acct)
       /\ UNCHANGED <<linkRest, sent, ledger, jobs, wk, owed, overran, shocks>>

\* The outcome goes to the ledger and the delivery is answered.
_mark_delivery(h) ==
    /\ hook[h].pc \in {"ignored", "processed"}
    /\ ledger' = [ledger EXCEPT ![hook[h].d] = hook[h].pc]
    /\ sent' = [sent EXCEPT ![hook[h].d].pc = "answered"]
    /\ hook' = [hook EXCEPT ![h] = Quiet]
    /\ UNCHANGED <<linkVars, jobs, wk, owed, overran, shocks>>

\* A database error while the document is processed: the delivery is marked
\* failed, and answered 200 if a resync could be queued in its place, else
\* 500; or the process ends.  A resync that cannot be queued is passed over.
HookFails(h) ==
    /\ Shock
    /\ \/ /\ hook[h].pc \in {"recorded", "commit", "observed"}
          /\ hook' = [hook EXCEPT ![h] = Quiet]
          /\ ledger' = [ledger EXCEPT ![hook[h].d] = "failed"]
          /\ \/ /\ enqueue_patreon_sync_job(<<"member", None, sent[hook[h].d].member>>)
                /\ sent' = [sent EXCEPT ![hook[h].d].pc = "answered"]
             \/ UNCHANGED <<jobs, owed, sent>>
       \/ /\ hook[h] # Quiet /\ hook' = [hook EXCEPT ![h] = Quiet]
          /\ UNCHANGED <<jobs, owed, ledger, sent>>
       \/ /\ hook[h].pc = "resync"
          /\ hook' = [hook EXCEPT ![h] = [pc |-> "processed", d |-> @.d]]
          /\ UNCHANGED <<jobs, owed, ledger, sent>>
    /\ UNCHANGED <<linkVars, wk, overran>>

receive_patreon_webhook(h) ==
    \/ \E d \in Deliveries : record_patreon_webhook_delivery(h, d)
    \/ _process_verified_member_payload(h) \/ _enqueue_member_source_of_truth_resync(h)
    \/ _persist_classification(h) \/ _mark_delivery(h)

----------------------------------------------------------------------------
(* The worker.                                                              *)

Scan(w, j, key, camps) ==
    [pc |-> "scan", todo |-> wk[w].todo, job |-> j, key |-> key, left |-> camps,
     camp |-> None, page |-> {}, seen |-> {}, found |-> FALSE, failed |-> FALSE,
     bad |-> FALSE, ctx |-> Quiet, gone |-> {}]
Rested(todo) == IF todo = {} THEN Idle ELSE [pc |-> "batch", todo |-> todo]

\* A user without a live linked membership needs no reading; a member of a
\* campaign the map does not name is looked for in every configured one.
Campaigns(key) ==
    CASE key[1] = "member" /\ CampaignOf[key[3]] \in Configured -> {CampaignOf[key[3]]}
      [] key[1] = "user" /\ ~\E r \in Rows : /\ Live(r) /\ rows[r].user = key[2]
                                             /\ Linked(rows[r].acct) -> {}
      [] OTHER -> Configured

_process_claimed_job(w, j) ==
    /\ wk[w].pc = "batch" /\ j \in wk[w].todo
    /\ wk' = [wk EXCEPT ![w] = Scan(w, j, jobs[j].key, Campaigns(jobs[j].key))]
    /\ jobs' = [jobs EXCEPT ![j].begun = TRUE]
    /\ owed' = owed \ {jobs[j].key}
    /\ UNCHANGED <<linkVars, sent, ledger, hook, overran, shocks>>

\* When the queue is empty.
run_full_campaign_sweep(w) ==
    /\ wk[w].pc = "idle" /\ ~\E j \in JobIds : Due(j)
    /\ wk' = [wk EXCEPT ![w] = Scan(w, None, All, Configured)]
    /\ UNCHANGED <<linkVars, sent, ledger, hook, jobs, owed, overran, shocks>>

\* iter_campaign_member_pages, to the last page.
FetchCampaign(w) ==
    /\ wk[w].pc = "scan"
    /\ \E c \in wk[w].left :
          wk' = [wk EXCEPT ![w].pc = "page", ![w].left = @ \ {c}, ![w].camp = c,
                           ![w].seen = IF wk[w].key = All THEN {} ELSE @,
                           ![w].found = FALSE, ![w].failed = FALSE,
                           ![w].page = {<<m, truth[m]>> : m \in {x \in Members :
                                          CampaignOf[x] = c /\ truth[x] # "absent"}}]
    /\ UNCHANGED <<linkVars, sent, ledger, hook, jobs, owed, overran, shocks>>

\* What resolving a member's holder yields: an error of the first read is
\* taken for "not linked", one of the second for "no entitlement on record".
Contexts(m) ==
    LET link == ReadLink(m)
    IN {link, Quiet} \cup (IF link = Quiet THEN {} ELSE {[link EXCEPT !.cur = NoEntitlement]})

\* Only the members the job is about are processed: a user's job resolves
\* each member to tell, and those of the user again to store them.
Wanted(key, m, link) ==
    CASE key[1] = "member" -> m = key[3]
      [] key[1] = "user" -> link # Quiet /\ link.user = key[2]
      [] OTHER -> TRUE
_process_member_payload(scan, x, first, link) ==
    LET c == classify_patreon_entitlement(x[1], x[2], link.cur)
        wanted == Wanted(scan.key, x[1], first)
        store == wanted /\ link # Quiet /\ c.complete
        last == wanted /\ scan.key[1] = "member"
    IN [scan EXCEPT !.page = IF last THEN {} ELSE @ \ {x},
                    !.left = IF last THEN {} ELSE @,
                    !.seen = IF wanted THEN @ \cup {x[1]} ELSE @,
                    !.found = @ \/ wanted,
                    !.pc = IF store THEN "member" ELSE "page",
                    !.ctx = IF store THEN [user |-> link.user, acct |-> link.acct,
                                           member |-> x[1], seen |-> c]
                            ELSE Quiet]
_persistence_context_for_member(w) ==
    /\ wk[w].pc = "page"
    /\ \E x \in wk[w].page : \E first, link \in Contexts(x[1]) :
          /\ IF {first, link} = {ReadLink(x[1])} THEN UNCHANGED shocks ELSE Shock
          /\ wk' = [wk EXCEPT ![w] = _process_member_payload(wk[w], x, first, link)]
    /\ UNCHANGED <<linkVars, sent, ledger, hook, jobs, owed, overran>>

persist_member_classification(w) ==
    LET x == wk[w].ctx
    IN /\ \/ /\ wk[w].pc = "member"
             /\ \E r \in Rows :
                   /\ sp_patreon_membership_observe(x.user, x.acct, x.member, r)
                   /\ wk' = [wk EXCEPT ![w].pc = "observed",
                        ![w].ctx = [user |-> x.user, acct |-> x.acct, seen |-> x.seen, row |-> r]]
             /\ UNCHANGED current
          \/ /\ wk[w].pc = "observed"
             /\ sp_patreon_entitlement_snapshot_upsert(x.user, x.row, x.seen)
             /\ wk' = [wk EXCEPT ![w].pc = "page", ![w].ctx = Quiet]
             /\ UNCHANGED rows
       /\ WriteFrom(x.user, x.acct)
       /\ UNCHANGED <<linkRest, sent, ledger, hook, jobs, owed, overran, shocks>>

\* One member of a sweep fails; the others are still processed, and nobody
\* is taken for gone.
MemberFails(w) ==
    /\ wk[w].pc \in {"member", "observed"} /\ wk[w].key = All /\ Shock
    /\ wk' = [wk EXCEPT ![w].pc = "page", ![w].failed = TRUE, ![w].ctx = Quiet]
    /\ UNCHANGED <<linkVars, sent, ledger, hook, jobs, owed, overran>>

\* Linked memberships the job is about and the reading did not return.
list_active_patreon_memberships(w) ==
    {r \in Rows : /\ Live(r) /\ Linked(rows[r].acct)
                  /\ rows[r].member \notin wk[w].seen
                  /\ wk[w].key[1] = "member" \/ CampaignOf[rows[r].member] = wk[w].camp
                  /\ Wanted(wk[w].key, rows[r].member, [user |-> rows[r].user])}
Concludes(w) ==
    CASE wk[w].key = All -> ~wk[w].failed
      [] wk[w].key[1] = "member" -> ~wk[w].found /\ wk[w].left = {}
      [] OTHER -> ~wk[w].found
\* Mutation: a member Patreon no longer returns is left as it is.
EndPageKeepingAll(w) ==
    /\ wk[w].pc = "page" /\ wk[w].page = {}
    /\ wk' = [wk EXCEPT ![w].pc = "scan"]
    /\ UNCHANGED <<linkVars, sent, ledger, hook, jobs, owed, overran, shocks>>
EndOfCampaign(w) ==
    /\ wk[w].pc = "page" /\ wk[w].page = {}
    /\ LET gone == IF Concludes(w) THEN list_active_patreon_memberships(w) ELSE {}
       IN wk' = [wk EXCEPT ![w].gone = gone, ![w].pc = IF gone = {} THEN "scan" ELSE "gone"]
    /\ UNCHANGED <<linkVars, sent, ledger, hook, jobs, owed, overran, shocks>>

persist_absent_membership(r) ==
    /\ sp_patreon_entitlement_snapshot_upsert(rows[r].user, r, _future("former", "free"))
    /\ WriteFrom(rows[r].user, rows[r].acct)
\* Each is downgraded; one that fails is passed over.
_downgrade_absent_members(w) ==
    /\ wk[w].pc = "gone"
    /\ \E r \in wk[w].gone :
          /\ wk' = [wk EXCEPT ![w].gone = @ \ {r}, ![w].pc = IF wk[w].gone = {r} THEN "scan" ELSE @]
          /\ \/ persist_absent_membership(r) /\ UNCHANGED shocks
             \/ Shock /\ UNCHANGED <<current, late>>
    /\ UNCHANGED <<linkRest, rows, sent, ledger, hook, jobs, owed, overran>>

decide_retry_backoff(j) == IF jobs[j].n < MaxAttempts THEN "retry" ELSE "failed"

\* Patreon does not answer (or, in a job, a write fails): nothing is
\* downgraded.  A sweep goes on with the next campaign.
_handle_provider_failure(w) ==
    LET x == wk[w]
    IN /\ Shock
       /\ \/ /\ x.pc \in {"scan", "page"} /\ x.key = All
             /\ \/ /\ x.pc = "scan"
                   /\ \E c \in x.left : wk' = [wk EXCEPT ![w].left = @ \ {c}, ![w].bad = TRUE]
                \/ /\ x.pc = "page"
                   /\ wk' = [wk EXCEPT ![w].pc = "scan", ![w].page = {}, ![w].bad = TRUE]
             /\ UNCHANGED <<jobs, owed>>
          \/ /\ x.pc \in {"scan", "page", "member", "observed"} /\ x.key # All
             /\ UpdateJob(x.job, decide_retry_backoff(x.job), FALSE, FALSE)
             /\ wk' = [wk EXCEPT ![w] = Rested(x.todo \ {x.job})]
       /\ UNCHANGED <<linkVars, sent, ledger, hook, overran>>

\* The last campaign is done; a job reads whether it is to run again.
_complete_job(w) ==
    LET x == wk[w]
        status == IF x.bad THEN decide_retry_backoff(x.job) ELSE "completed"
    IN /\ x.pc = "scan" /\ x.left = {}
       /\ wk' = [wk EXCEPT ![w] =
            IF x.job = None THEN Rested(x.todo)
            ELSE [pc |-> "complete", todo |-> x.todo, job |-> x.job, status |-> status,
                  again |-> status = "completed" /\ jobs[x.job].rerun, asked |-> jobs[x.job].rerun]]
       /\ UNCHANGED <<linkVars, sent, ledger, hook, jobs, owed, overran, shocks>>
complete_patreon_sync_job(w) ==
    /\ wk[w].pc = "complete"
    /\ UpdateJob(wk[w].job, wk[w].status, wk[w].again, wk[w].asked)
    /\ wk' = [wk EXCEPT ![w] = Rested(wk[w].todo \ {wk[w].job})]
    /\ UNCHANGED <<linkVars, sent, ledger, hook, overran, shocks>>

WorkerDies(w) ==
    /\ wk[w].pc # "idle" /\ Shock
    /\ wk' = [wk EXCEPT ![w] = Idle]
    /\ UNCHANGED <<linkVars, sent, ledger, hook, jobs, owed, overran>>

PatreonSyncWorker(w) ==
    \/ claim_patreon_sync_jobs(w) \/ run_full_campaign_sweep(w)
    \/ \E j \in JobIds : _process_claimed_job(w, j)
    \/ FetchCampaign(w) \/ _persistence_context_for_member(w)
    \/ persist_member_classification(w) \/ EndOfCampaign(w)
    \/ _downgrade_absent_members(w) \/ _complete_job(w) \/ complete_patreon_sync_job(w)

SyncInit ==
    /\ sent = [d \in Deliveries |-> Quiet]
    /\ ledger = [d \in Deliveries |-> "none"]
    /\ hook = [h \in Handlers |-> Quiet]
    /\ jobs = [j \in JobIds |-> NoJob]
    /\ wk = [w \in Workers |-> Idle]
    /\ owed = {} /\ overran = FALSE /\ shocks = 0

\* What the database and Patreon do to the queue and the deliveries.
Changes(m, v) ==
    PatreonChanges(m, v) /\ Shock /\ UNCHANGED <<sent, ledger, hook, jobs, wk, owed, overran>>
Surroundings ==
    \/ \E m \in Members, v \in Reads : Changes(m, v)
    \/ \E j \in JobIds : LeaseLapses(j)
    \/ \E d \in Deliveries : DeliveryAbandoned(d) \/ \E k \in {"update", "delete"} : Emit(d, k)
    \/ \E u \in Users : enqueue_internal_patreon_resync(u)
    \/ \E k \in Keys : enqueue_admin_patreon_resync(k)
    \/ \E h \in Handlers : HookFails(h) \/ _initial_entitlement_after_link(h)
    \/ \E w \in Workers : MemberFails(w) \/ _handle_provider_failure(w) \/ WorkerDies(w)

SyncNext ==
    \/ Surroundings \/ (Linking /\ UNCHANGED syncVars)
    \/ \E h \in Handlers : receive_patreon_webhook(h)
    \/ \E w \in Workers : PatreonSyncWorker(w)

\* The worker's loop and the handlers go on; a lapsed lease is noticed.
SyncFairness ==
    /\ \A w \in Workers : WF_allVars(PatreonSyncWorker(w))
    /\ \A h \in Handlers : WF_allVars(receive_patreon_webhook(h))
                           /\ WF_allVars(confirm_patreon_link(h) /\ UNCHANGED syncVars)
    /\ \A j \in JobIds : WF_allVars(LeaseLapses(j))

SyncSpec == LinksInit /\ SyncInit /\ [][SyncNext]_allVars /\ SyncFairness

----------------------------------------------------------------------------
(* Properties.                                                              *)

\* A resync that was accepted is served by a run of its own: whatever job the
\* request joined is still to start, or will run again.  Not so once a lease
\* has ended under a worker that goes on: it completes the next holder's job.
\* (A request that falls inside the completion is lost: see UpdateJob.)
RequestKept ==
    ~overran => \A k \in owed : \E j \in JobsOf(k) :
        jobs[j].st = "running" /\ jobs[j].begun => jobs[j].rerun

\* What the members of a user's Patreon account allow; a member Patreon
\* describes incompletely, or by a tier without a plan, leaves the plan open.
Allowed(u) ==
    LET mine == {m \in Members : CampaignOf[m] \in Configured /\ \E a \in AccountOf(u) : accounts[a].sub = SubjectOf[m]}
        paid == {truth[m] : m \in mine} \cap Plans
    IN IF \E m \in mine : truth[m] \in {"partial", "unmapped"} THEN Plans \cup {"free"}
       ELSE IF paid = {} THEN {"free"} ELSE paid

\* Whatever was lost, late or out of order on the way, a linked user ends up
\* with the plan Patreon grants.
EntitlementsConverge ==
    <>[](\A u \in Users : AccountOf(u) # {} => current[u].plan \in Allowed(u))
=============================================================================
