---------------------------- MODULE EmailOutbox ----------------------------
(***************************************************************************)
(* The transactional email outbox: the rows of email_messages, the workers *)
(* that drain them (src/workers/email_worker.py), the provider, and the    *)
(* webhook that reports what became of a mail                              *)
(* (src/routes/email_webhooks.py).  A stored procedure of                  *)
(* 14_email_activation.sql is one transaction, so one step, except for     *)
(* sp_claim_email_messages, which reads its batch after its COMMIT.        *)
(*                                                                         *)
(* Left out: the rows a worker appends to email_delivery_attempts, which   *)
(* nothing reads back; priorities and retry delays, which only order what  *)
(* may happen in any order; the heartbeat; the end of a marker's 24 hours; *)
(* delivery that is switched off, under which nothing is claimed.          *)
(***************************************************************************)
EXTENDS Naturals, FiniteSets

CONSTANTS Msg,         \* ids of outbox rows
          Rcpt,        \* recipients (recipient_hash)
          To,          \* To[m]: the recipient of m
          Bare,        \* messages whose template needs no variable
          Worker,      \* worker processes
          Hook,        \* webhook requests served at the same time
          Kind,        \* the provider events that happen
          Batch,       \* EMAIL_WORKER_BATCH_SIZE
          MaxAttempts, \* max_attempts of a row
          Faults,      \* what may fail, see Fault
          Events,      \* what may happen beside the workers, see Event
          Slow,        \* a batch may take longer than its lease
          MaxMishaps,  \* bound: crashes and finalisations that fail
          NoMsg        \* no message

Fault == {"disabled", "lookup", "render", "provider", "answer", "suppression",
          "finalize", "crash", "webhook", "restart", "redis"}

Event == {"purge", "erase", "activate"}

ASSUME ToAssumption == To \in [Msg -> Rcpt]
ASSUME BareAssumption == Bare \subseteq Msg
ASSUME BatchAssumption == Batch \in Nat \ {0}
ASSUME MaxAttemptsAssumption == MaxAttempts \in Nat \ {0}
ASSUME KindAssumption == Kind \subseteq {"sent", "delivered", "bounced", "complained"}
ASSUME FaultAssumption == Faults \subseteq Fault /\ Events \subseteq Event
ASSUME SlowAssumption == Slow \in BOOLEAN
ASSUME BoundAssumption == MaxMishaps \in Nat
ASSUME NoMsgAssumption == NoMsg \notin Msg

VARIABLES
    status,     \* status[m], "absent" before the row is inserted
    attempts,   \* attempts[m]: attempt_count
    owner,      \* owner[m]: claimed_by
    lease,      \* lease[m]: lease_until is NULL, ahead or behind
    payload,    \* rows with a render_payload_ciphertext
    named,      \* rows with a recipient_email
    traced,     \* rows with a provider_message_id
    suppressed, \* recipients with an active row in email_suppressions
    identity,   \* identity[r]: status of the user_emails row of r
    ledger,     \* provider events recorded in email_delivery_attempts
    marker,     \* provider events with a Redis dedupe marker
    accepted,   \* idempotency keys the provider has taken a mail for
    acked,      \* provider events answered with 204, not to be repeated
    unmatched,  \* history: events that found no message
    scrubbed,   \* rows whose recipient_hash was replaced by an erasure
    wpc,        \* wpc[w]: the next step of worker w
    snap,       \* snap[w]: the rows of its batch as claimed
    todo,       \* todo[w]: the rows of its batch it has not taken up
    cur,        \* cur[w]: the message it is processing
    out,        \* out[w]: the status it will finalize with
    hpc,        \* hpc[h]: the next step of webhook request h
    hev,        \* hev[h]: its event
    mishaps     \* crashes and failed finalisations so far

rows   == <<status, attempts, owner, lease, payload, named, traced>>
people == <<suppressed, identity, scrubbed>>
events == <<ledger, marker, acked, unmatched>>
worker == <<wpc, snap, todo, cur, out>>
hook   == <<hpc, hev>>
vars   == <<rows, people, events, accepted, worker, hook, mishaps>>

Claimable == {"pending", "retry"}
Settled   == {"sent", "delivered", "bounced", "complained", "suppressed",
              "dead", "cancelled"}

NoRow == [n |-> 0, sup |-> FALSE, pay |-> FALSE, to |-> FALSE, key |-> FALSE]
NoEvent == <<NoMsg, "none">>

Init ==
    /\ status = [m \in Msg |-> "absent"]
    /\ attempts = [m \in Msg |-> 0]
    /\ owner = [m \in Msg |-> "none"]
    /\ lease = [m \in Msg |-> "none"]
    /\ payload = {} /\ named = {} /\ traced = {}
    /\ suppressed = {} /\ scrubbed = {}
    /\ identity = [r \in Rcpt |-> "pending"]
    /\ ledger = {} /\ marker = {} /\ acked = {} /\ unmatched = {}
    /\ accepted = {}
    /\ wpc = [w \in Worker |-> "idle"]
    /\ snap = [w \in Worker |-> [m \in Msg |-> NoRow]]
    /\ todo = [w \in Worker |-> {}]
    /\ cur = [w \in Worker |-> NoMsg]
    /\ out = [w \in Worker |-> "none"]
    /\ hpc = [h \in Hook |-> "idle"]
    /\ hev = [h \in Hook |-> NoEvent]
    /\ mishaps = 0

-----------------------------------------------------------------------------
(* Enqueueing, and the rows a worker may claim. *)

\* One of the stored procedures that insert a pending row.
Enqueue(m) ==
    /\ status[m] = "absent"
    /\ status' = [status EXCEPT ![m] = "pending"]
    /\ payload' = payload \cup {m}
    /\ named' = named \cup {m}
    /\ UNCHANGED <<attempts, owner, lease, traced, people, events, accepted,
                   worker, hook, mishaps>>

\* Mutation: a row whose worker died is not offered again.
DueWithoutLease(m) == status[m] \in Claimable

\* Mutation: a row is offered again before its lease has run out.
DueIgnoringLease(m) == status[m] \in Claimable \cup {"processing"}

\* The WHERE clause of sp_claim_email_messages.  A retry delay is random and
\* may be zero, so a row waiting for its next attempt may be due at any time.
Due(m) == \/ status[m] \in Claimable
          \/ status[m] = "processing" /\ lease[m] = "expired"

\* sp_claim_email_messages up to its COMMIT.
Claim(w, S) ==
    /\ wpc[w] = "idle"
    /\ S # {} /\ Cardinality(S) <= Batch
    /\ \A m \in S : Due(m)
    /\ status' = [m \in Msg |-> IF m \in S THEN "processing" ELSE status[m]]
    /\ owner' = [m \in Msg |-> IF m \in S THEN w ELSE owner[m]]
    /\ lease' = [m \in Msg |-> IF m \in S THEN "running" ELSE lease[m]]
    /\ todo' = [todo EXCEPT ![w] = S]
    /\ wpc' = [wpc EXCEPT ![w] = "fetch"]
    /\ UNCHANGED <<attempts, payload, named, traced, people, events, accepted,
                   snap, cur, out, hook, mishaps>>

\* The final SELECT of sp_claim_email_messages.  Erasure replaces the hash that
\* suppressions are looked up with.
Fetch(w) ==
    /\ wpc[w] = "fetch"
    /\ snap' = [snap EXCEPT ![w] =
                  [m \in Msg |-> IF m \in todo[w]
                     THEN [n |-> attempts[m],
                           sup |-> m \notin scrubbed /\ To[m] \in suppressed,
                           pay |-> m \in payload, to |-> m \in named,
                           key |-> m \notin scrubbed]
                     ELSE NoRow]]
    /\ wpc' = [wpc EXCEPT ![w] = "take"]
    /\ UNCHANGED <<rows, people, events, accepted, todo, cur, out, hook, mishaps>>

-----------------------------------------------------------------------------
(* process_message *)

\* _is_suppressed: the flag of the claim, or a lookup of the claimed hash.
IsSuppressed(w, m) ==
    \/ snap[w][m].sup
    \/ To[m] \in suppressed /\ snap[w][m].key

\* The loop of drain_once reaches m, and process_message looks up suppressions;
\* an error of the lookup counts as not suppressed.
Take(w, m) ==
    /\ wpc[w] = "take"
    /\ m \in todo[w]
    /\ todo' = [todo EXCEPT ![w] = @ \ {m}]
    /\ cur' = [cur EXCEPT ![w] = m]
    /\ \/ /\ IsSuppressed(w, m)
          /\ wpc' = [wpc EXCEPT ![w] = "finalize"]
          /\ out' = [out EXCEPT ![w] = "suppressed"]
       \/ /\ ~snap[w][m].sup
          /\ ~IsSuppressed(w, m) \/ "suppression" \in Faults
          /\ wpc' = [wpc EXCEPT ![w] = "send"]
          /\ UNCHANGED out
    /\ UNCHANGED <<rows, people, events, accepted, snap, hook, mishaps>>

\* Worker w leaves process_message's try block with this status to finalize.
Outcome(w, o) ==
    /\ wpc[w] = "send"
    /\ wpc' = [wpc EXCEPT ![w] = "finalize"]
    /\ out' = [out EXCEPT ![w] = o]
    /\ UNCHANGED <<rows, people, events, snap, todo, cur, hook, mishaps>>

\* should_dead_letter, on the attempt_count read by the claim.
RetryOrDead(w) == IF snap[w][cur[w]].n + 1 >= MaxAttempts THEN "dead" ELSE "retry"

\* The row names its recipient; only then is the template looked up.
Addressed(w) == snap[w][cur[w]].to

\* The template can be rendered from the claimed row.
Renders(w) == Addressed(w) /\ (snap[w][cur[w]].pay \/ cur[w] \in Bare)

TemplateDisabled(w) ==
    /\ "disabled" \in Faults
    /\ Outcome(w, "cancelled")
    /\ Addressed(w)
    /\ UNCHANGED accepted

\* The catalog cannot be read, or the payload not decrypted.
TemplateLookupFails(w) ==
    /\ "lookup" \in Faults
    /\ Outcome(w, RetryOrDead(w))
    /\ Addressed(w)
    /\ UNCHANGED accepted

\* No recipient, no variables, or a template they do not fit.
RenderFails(w) ==
    /\ Outcome(w, "dead")
    /\ ~Renders(w) \/ "render" \in Faults
    /\ UNCHANGED accepted

\* The provider takes the mail, or knows its idempotency key, and says so.
Sent(w) ==
    /\ Outcome(w, "sent")
    /\ Renders(w)
    /\ accepted' = accepted \cup {cur[w]}

\* The provider takes the mail and the answer is lost.
SentUnknown(w) ==
    /\ "answer" \in Faults
    /\ Outcome(w, RetryOrDead(w))
    /\ Renders(w)
    /\ accepted' = accepted \cup {cur[w]}

\* Mutation: an error of the provider is swallowed.
ProviderFailsQuietly(w) ==
    "provider" \in Faults /\ Outcome(w, "sent") /\ UNCHANGED accepted

ProviderFails(w) ==
    /\ "provider" \in Faults
    /\ Outcome(w, RetryOrDead(w))
    /\ Renders(w)
    /\ UNCHANGED accepted

\* Worker w goes on to the next row of its batch.
NextRow(w) ==
    /\ wpc' = [wpc EXCEPT ![w] = IF todo[w] = {} THEN "idle" ELSE "take"]
    /\ cur' = [cur EXCEPT ![w] = NoMsg]
    /\ out' = [out EXCEPT ![w] = "none"]
    /\ snap' = [snap EXCEPT ![w][cur[w]] = NoRow]
    /\ UNCHANGED <<todo, hook>>

\* Mutation: the procedure relies on the worker's count.
NextStatusAsTold(w) == out[w]

\* The status sp_finalize_email_message stores: the budget is checked again,
\* on the row's own count.
NextStatus(w) ==
    IF out[w] = "retry" /\ attempts[cur[w]] + 1 >= MaxAttempts
      THEN "dead" ELSE out[w]

\* The statuses at which the render payload stays in the row.
KeepsPayload(s) == s \notin Settled

\* sp_finalize_email_message: neither the owner, the lease nor the status of
\* the row is looked at.
Finalize(w) ==
    /\ wpc[w] = "finalize"
    /\ LET m == cur[w]
           s == NextStatus(w)
       IN /\ status' = [status EXCEPT ![m] = s]
          /\ attempts' = [attempts EXCEPT ![m] = @ + 1]
          /\ owner' = [owner EXCEPT ![m] = IF s = "retry" THEN "none" ELSE @]
          /\ lease' = [lease EXCEPT ![m] = IF s = "retry" THEN "none" ELSE @]
          /\ payload' = IF KeepsPayload(s) THEN payload ELSE payload \ {m}
          /\ traced' = IF out[w] = "sent" THEN traced \cup {m} ELSE traced
    /\ NextRow(w)
    /\ UNCHANGED <<named, people, events, accepted, mishaps>>

\* The procedure fails; _finalize swallows the error.
FinalizeFails(w) ==
    /\ "finalize" \in Faults /\ mishaps < MaxMishaps
    /\ wpc[w] = "finalize"
    /\ NextRow(w)
    /\ mishaps' = mishaps + 1
    /\ UNCHANGED <<rows, people, events, accepted>>

\* The worker dies with its batch, or never gets the answer of its claim.
Crash(w) ==
    /\ "crash" \in Faults /\ mishaps < MaxMishaps
    /\ wpc[w] # "idle"
    /\ wpc' = [wpc EXCEPT ![w] = "idle"]
    /\ todo' = [todo EXCEPT ![w] = {}]
    /\ cur' = [cur EXCEPT ![w] = NoMsg]
    /\ out' = [out EXCEPT ![w] = "none"]
    /\ snap' = [snap EXCEPT ![w] = [m \in Msg |-> NoRow]]
    /\ mishaps' = mishaps + 1
    /\ UNCHANGED <<rows, people, events, accepted, hook>>

Holds(w, m) == m \in todo[w] \/ m = cur[w]

\* lease_until passes; unless Slow, not while a worker still has the row.
LeaseExpires(m) ==
    /\ status[m] = "processing" /\ lease[m] = "running"
    /\ Slow \/ \A w \in Worker : ~Holds(w, m)
    /\ lease' = [lease EXCEPT ![m] = "expired"]
    /\ UNCHANGED <<status, attempts, owner, payload, named, traced, people,
                   events, accepted, worker, hook, mishaps>>

-----------------------------------------------------------------------------
(* The provider's webhook: _apply_event *)

\* The provider reports on a mail it took, for the first time or again.
\* _mark_event_seen: an event whose marker exists is answered with 204.
Receive(h, e) ==
    /\ hpc[h] = "idle"
    /\ e[1] \in accepted /\ e \notin acked
    /\ IF e \in marker
         THEN acked' = acked \cup {e} /\ UNCHANGED <<marker, hpc, hev>>
         ELSE /\ \/ marker' = marker \cup {e}
                 \/ "redis" \in Faults /\ UNCHANGED marker
              /\ hpc' = [hpc EXCEPT ![h] = "apply"]
              /\ hev' = [hev EXCEPT ![h] = e]
              /\ UNCHANGED acked
    /\ UNCHANGED <<rows, people, ledger, unmatched, accepted, worker, mishaps>>

HookReturns(h) ==
    /\ hpc' = [hpc EXCEPT ![h] = "idle"]
    /\ hev' = [hev EXCEPT ![h] = NoEvent]

\* The 204 reaches the provider, or is lost and the event comes again.
Answer(h) == acked' = acked \cup {hev[h]} \/ UNCHANGED acked

\* What sp_apply_email_provider_event does to the message and its recipient.
EventEffect(e) ==
    /\ status' = IF e[2] = "sent" THEN status ELSE [status EXCEPT ![e[1]] = e[2]]
    /\ IF e[2] \in {"sent", "delivered"}
         THEN UNCHANGED <<suppressed, identity>>
         ELSE LET r == To[e[1]]
              IN /\ suppressed' = suppressed \cup {r}
                 /\ identity' = [identity EXCEPT ![r] =
                                   IF @ = "activated" THEN "suppressed" ELSE @]

\* sp_apply_email_provider_event: a recorded event is a duplicate; the message
\* is looked up by its provider_message_id.
Apply(h) ==
    /\ hpc[h] = "apply"
    /\ LET e == hev[h]
       IN \/ /\ e \in ledger
             /\ UNCHANGED <<status, suppressed, identity, ledger, unmatched>>
          \/ /\ e \notin ledger /\ e[1] \notin traced
             /\ unmatched' = unmatched \cup {e}
             /\ UNCHANGED <<status, suppressed, identity, ledger>>
          \/ /\ e \notin ledger /\ e[1] \in traced
             /\ EventEffect(e)
             /\ ledger' = ledger \cup {e}
             /\ UNCHANGED unmatched
    /\ Answer(h)
    /\ HookReturns(h)
    /\ UNCHANGED <<attempts, owner, lease, payload, named, traced, scrubbed, marker,
                   accepted, worker, mishaps>>

ApplyFails(h) ==
    /\ "webhook" \in Faults
    /\ hpc[h] = "apply"
    /\ hpc' = [hpc EXCEPT ![h] = "forget"]
    /\ UNCHANGED <<rows, people, events, accepted, worker, hev, mishaps>>

\* Mutation: the marker of the failed event is kept.
ForgetNothing(h) ==
    /\ hpc[h] = "forget"
    /\ HookReturns(h)
    /\ UNCHANGED <<rows, people, events, accepted, worker, mishaps>>

\* _forget_event, then the 500.
Forget(h) ==
    /\ hpc[h] = "forget"
    /\ \/ marker' = marker \ {hev[h]}
       \/ "redis" \in Faults /\ UNCHANGED marker
    /\ HookReturns(h)
    /\ UNCHANGED <<rows, people, ledger, acked, unmatched, accepted, worker,
                   mishaps>>

\* The API process is restarted under the request; the marker stays.
HookDies(h) ==
    /\ "restart" \in Faults
    /\ hpc[h] # "idle"
    /\ HookReturns(h)
    /\ UNCHANGED <<rows, people, events, accepted, worker, mishaps>>

-----------------------------------------------------------------------------
(* Retention, erasure and the account's email row. *)

\* sp_email_retention_purge, called by a worker between two batches: the payload
\* goes from the rows in due, whose payload_purge_at has passed, and payload and
\* recipient from the rows in old, made or finished 30 days ago.
Purge(w, due, old) ==
    /\ "purge" \in Events
    /\ wpc[w] = "idle"
    /\ due \cup old \subseteq payload \cup named
    /\ payload' = payload \ (due \cup old)
    /\ named' = named \ old
    /\ UNCHANGED <<status, attempts, owner, lease, traced, people, events,
                   accepted, worker, hook, mishaps>>

\* sp_anonymize_user_email_data, for the user with address r.
Erase(r) ==
    /\ "erase" \in Events
    /\ LET S == {m \in Msg : To[m] = r /\ status[m] # "absent"}
       IN /\ scrubbed' = scrubbed \cup S
          /\ status' = [m \in Msg |-> IF m \in S /\ status[m] \notin Settled
                                        THEN "cancelled" ELSE status[m]]
          /\ payload' = payload \ S
          /\ named' = named \ S
    /\ identity' = [identity EXCEPT ![r] = "removed"]
    /\ UNCHANGED <<attempts, owner, lease, traced, suppressed, events, accepted,
                   worker, hook, mishaps>>

\* sp_consume_email_activation_token, by the recipient of a mail.
ActivateEmail(r) ==
    /\ "activate" \in Events
    /\ \E m \in accepted : To[m] = r
    /\ identity[r] = "pending"
    /\ identity' = [identity EXCEPT ![r] = "activated"]
    /\ UNCHANGED <<rows, suppressed, scrubbed, events, accepted, worker, hook,
                   mishaps>>

-----------------------------------------------------------------------------
Process(w) ==
    \/ \E m \in Msg : Take(w, m)
    \/ TemplateDisabled(w) \/ TemplateLookupFails(w) \/ RenderFails(w)
    \/ Sent(w) \/ SentUnknown(w) \/ ProviderFails(w)
    \/ Finalize(w) \/ FinalizeFails(w)

Work(w) == Process(w) \/ Fetch(w) \/ \E S \in SUBSET Msg : Claim(w, S)

Serve(h) == Apply(h) \/ ApplyFails(h) \/ Forget(h) \/ HookDies(h)

Next ==
    \/ \E m \in Msg : Enqueue(m) \/ LeaseExpires(m)
    \/ \E w \in Worker :
         Work(w) \/ Crash(w) \/ \E due, old \in SUBSET Msg : Purge(w, due, old)
    \/ \E h \in Hook : Serve(h) \/ \E e \in Msg \X Kind : Receive(h, e)
    \/ \E r \in Rcpt : Erase(r) \/ ActivateEmail(r)

Spec == Init /\ [][Next]_vars

\* run_forever polls for ever and every call returns; time passes.
Fairness ==
    /\ \A w \in Worker : WF_vars(Work(w))
    /\ \A m \in Msg : WF_vars(LeaseExpires(m))

-----------------------------------------------------------------------------
(* Properties *)

Row == [n : Nat, sup : BOOLEAN, pay : BOOLEAN, to : BOOLEAN, key : BOOLEAN]

\* Every column, marker and local variable has the type the code gives it.
TypeOK ==
    /\ status \in [Msg -> {"absent", "processing"} \cup Claimable \cup Settled]
    /\ attempts \in [Msg -> Nat]
    /\ owner \in [Msg -> Worker \cup {"none"}]
    /\ lease \in [Msg -> {"none", "running", "expired"}]
    /\ payload \in SUBSET Msg /\ named \in SUBSET Msg /\ traced \in SUBSET Msg
    /\ suppressed \in SUBSET Rcpt /\ scrubbed \in SUBSET Msg
    /\ identity \in [Rcpt -> {"pending", "activated", "suppressed", "removed"}]
    /\ ledger \in SUBSET (Msg \X Kind) /\ marker \in SUBSET (Msg \X Kind)
    /\ acked \in SUBSET (Msg \X Kind) /\ unmatched \in SUBSET (Msg \X Kind)
    /\ accepted \in SUBSET Msg
    /\ wpc \in [Worker -> {"idle", "fetch", "take", "send", "finalize"}]
    /\ snap \in [Worker -> [Msg -> Row]]
    /\ todo \in [Worker -> SUBSET Msg]
    /\ cur \in [Worker -> Msg \cup {NoMsg}]
    /\ out \in [Worker -> {"none", "retry"} \cup Settled]
    /\ hpc \in [Hook -> {"idle", "apply", "forget"}]
    /\ hev \in [Hook -> (Msg \X Kind) \cup {NoEvent}]
    /\ mishaps \in 0..MaxMishaps

\* A row that can still be claimed has an attempt left, whoever finalized it
\* and from whatever snapshot: the retry budget is never overrun.
BudgetLeft ==
    \A m \in Msg : status[m] \in Claimable \cup {"processing"} =>
        attempts[m] < MaxAttempts

\* A row that was sent or has reached a terminal status holds no render payload,
\* also when a webhook, an erasure or a late worker gave it that status.
PayloadCleared == \A m \in Msg : status[m] \in Settled => m \notin payload

\* `sent' and what the webhook makes of it mean that the provider has the mail.
SentWasAccepted ==
    \A m \in Msg : status[m] \in {"sent", "delivered", "bounced", "complained"} =>
        m \in accepted

\* A message that was sent, or given up, is not taken up again.
SettledIsFinal ==
    [][\A m \in Msg : status[m] \in Settled => status'[m] \in Settled]_vars

\* Under a lease that has not run out only the worker that holds it finalizes.
LeaseIsExclusive ==
    [][\A w \in Worker :
         (/\ wpc[w] = "finalize" /\ status'[cur[w]] # status[cur[w]]
          /\ status[cur[w]] = "processing" /\ lease[cur[w]] = "running"
          /\ wpc'[w] # wpc[w])
         => owner[cur[w]] = w]_vars

\* An event the provider will not repeat was applied, or had no message, or a
\* request is just applying it: a failed update is always repeated.  This takes
\* one request at a time, and a Redis that answers.
EventKept ==
    \A e \in acked : \/ e \in ledger \cup unmatched
                    \/ \E h \in Hook : hpc[h] = "apply" /\ hev[h] = e

\* Every message is settled in the end, and then stays so.
MessagesSettle ==
    \A m \in Msg : status[m] = "pending" ~> [](status[m] \in Settled)
=============================================================================
