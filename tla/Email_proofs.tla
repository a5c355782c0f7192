---------------------------- MODULE Email_proofs ----------------------------
(***************************************************************************)
(* The e-mail subsystem and the limits around it, for any number of        *)
(* messages, recipients, workers and webhook requests, of users,           *)
(* addresses, links and keys, of editors, template codes and versions, of  *)
(* sign-ins and pool places: the outbox and its leases, the keys and links *)
(* of the account routes, the templates mail is rendered from, the         *)
(* counters of the limiters.                                               *)
(***************************************************************************)
EXTENDS EmailOutbox, EmailLinks, EmailTemplates, RateLimits, FiniteSetTheorems, TLAPS

-----------------------------------------------------------------------------
(* The outbox (EmailOutbox). *)

\* What the local variables of a worker say about its message and its batch.
WorkerAt(w) ==
    /\ wpc[w] \in {"send", "finalize"} <=> cur[w] \in Msg
    /\ wpc[w] = "finalize" => out[w] \in {"retry", "sent", "suppressed", "dead",
                                          "cancelled"}
    /\ out[w] = "sent" => cur[w] \in accepted
    /\ cur[w] \notin todo[w]
    /\ \A m \in Msg : Holds(w, m) => status[m] # "absent"

\* A row that has a provider message id was taken by the provider and has lost
\* its payload; one that was not inserted has nothing.
RowAt(m) ==
    /\ status[m] = "absent" => attempts[m] = 0 /\ m \notin traced
    /\ m \in traced => m \in accepted /\ m \notin payload

HookAt(h) == hpc[h] # "idle" => hev[h] \in Msg \X Kind

WorkersInv == \A w \in Worker : WorkerAt(w)
RowsInv    == \A m \in Msg : RowAt(m)
HooksInv   == \A h \in Hook : HookAt(h)

OutboxInv ==
    /\ TypeOK /\ WorkersInv /\ RowsInv /\ HooksInv
    /\ BudgetLeft /\ PayloadCleared /\ SentWasAccepted

-----------------------------------------------------------------------------
LEMMA InitInv == Init => OutboxInv
<1> SUFFICES ASSUME Init PROVE OutboxInv
    OBVIOUS
<1>1. TypeOK
  BY MaxAttemptsAssumption, BoundAssumption, NoMsgAssumption
     DEF Init, TypeOK, Row, NoRow, Claimable, Settled, NoEvent
<1>2. WorkersInv /\ RowsInv /\ HooksInv
  BY NoMsgAssumption
     DEF Init, WorkersInv, WorkerAt, RowsInv, RowAt, HooksInv, HookAt, Holds
<1>3. BudgetLeft /\ PayloadCleared /\ SentWasAccepted
  BY DEF Init, BudgetLeft, PayloadCleared, SentWasAccepted, Claimable, Settled
<1> QED
  BY <1>1, <1>2, <1>3 DEF OutboxInv

LEMMA EnqueueInv ==
  ASSUME OutboxInv, NEW m \in Msg, Enqueue(m)
  PROVE  OutboxInv'
<1>1. TypeOK'
  BY DEF OutboxInv, TypeOK, Enqueue, Claimable, people, events, worker, hook
<1>2. WorkersInv' /\ RowsInv' /\ HooksInv'
  BY DEF OutboxInv, TypeOK, Enqueue, WorkersInv, WorkerAt, RowsInv, RowAt, HooksInv,
         HookAt, Holds, people, events, worker, hook
<1>3. BudgetLeft' /\ PayloadCleared' /\ SentWasAccepted'
  BY MaxAttemptsAssumption
     DEF OutboxInv, TypeOK, Enqueue, BudgetLeft, PayloadCleared, SentWasAccepted,
         RowsInv, RowAt, Claimable, Settled
<1> QED
  BY <1>1, <1>2, <1>3 DEF OutboxInv

LEMMA ClaimInv ==
  ASSUME OutboxInv, NEW w \in Worker, NEW S \in SUBSET Msg, Claim(w, S)
  PROVE  OutboxInv'
<1>1. TypeOK'
  BY DEF OutboxInv, TypeOK, Claim, people, events, hook
<1>2. WorkersInv'
  BY NoMsgAssumption
     DEF OutboxInv, TypeOK, Claim, Due, WorkersInv, WorkerAt, Holds, Claimable
<1>3. RowsInv' /\ HooksInv'
  BY DEF OutboxInv, TypeOK, Claim, Due, RowsInv, RowAt, HooksInv, HookAt, hook,
         Claimable
<1>4. BudgetLeft' /\ PayloadCleared' /\ SentWasAccepted'
  BY DEF OutboxInv, TypeOK, Claim, Due, BudgetLeft, PayloadCleared, SentWasAccepted,
         Claimable, Settled
<1> QED
  BY <1>1, <1>2, <1>3, <1>4 DEF OutboxInv

LEMMA FetchInv ==
  ASSUME OutboxInv, NEW w \in Worker, Fetch(w)
  PROVE  OutboxInv'
<1>1. TypeOK'
  BY DEF OutboxInv, TypeOK, Fetch, NoRow, Row, rows, people, events, hook
<1>2. WorkersInv'
  BY DEF OutboxInv, TypeOK, Fetch, WorkersInv, WorkerAt, Holds, rows
<1>3. RowsInv' /\ HooksInv' /\ BudgetLeft' /\ PayloadCleared' /\ SentWasAccepted'
  BY DEF OutboxInv, Fetch, RowsInv, RowAt, HooksInv, HookAt, BudgetLeft, PayloadCleared,
         SentWasAccepted, rows, hook
<1> QED
  BY <1>1, <1>2, <1>3 DEF OutboxInv

LEMMA TakeInv ==
  ASSUME OutboxInv, NEW w \in Worker, NEW m \in Msg, Take(w, m)
  PROVE  OutboxInv'
<1>1. TypeOK'
  BY SMTT(30) DEF OutboxInv, TypeOK, Take, Settled, rows, people, events, hook
<1>2. WorkersInv'
  BY NoMsgAssumption
     DEF OutboxInv, TypeOK, Take, WorkersInv, WorkerAt, Holds, rows
<1>3. RowsInv' /\ HooksInv' /\ BudgetLeft' /\ PayloadCleared' /\ SentWasAccepted'
  BY DEF OutboxInv, Take, RowsInv, RowAt, HooksInv, HookAt, BudgetLeft, PayloadCleared,
         SentWasAccepted, rows, hook
<1> QED
  BY <1>1, <1>2, <1>3 DEF OutboxInv

\* All the ways out of the try block of process_message.
LEMMA OutcomeInv ==
  ASSUME OutboxInv, NEW w \in Worker,
         NEW o \in {"retry", "sent", "dead", "cancelled"}, Outcome(w, o),
         accepted' \in {accepted, accepted \cup {cur[w]}},
         o = "sent" => cur[w] \in accepted'
  PROVE  OutboxInv'
<1>0. cur[w] \in Msg
  BY DEF OutboxInv, WorkersInv, WorkerAt, Outcome
<1>1. TypeOK'
  BY <1>0 DEF OutboxInv, TypeOK, Outcome, Settled, rows, people, events, hook
<1>2. WorkersInv'
  BY <1>0 DEF OutboxInv, TypeOK, Outcome, WorkersInv, WorkerAt, Holds, rows
<1>3. RowsInv' /\ HooksInv' /\ BudgetLeft' /\ PayloadCleared' /\ SentWasAccepted'
  BY DEF OutboxInv, Outcome, RowsInv, RowAt, HooksInv, HookAt, BudgetLeft,
         PayloadCleared, SentWasAccepted, rows, hook
<1> QED
  BY <1>1, <1>2, <1>3 DEF OutboxInv

LEMMA SendInv ==
  ASSUME OutboxInv, NEW w \in Worker,
         \/ TemplateDisabled(w) \/ TemplateLookupFails(w) \/ RenderFails(w)
         \/ Sent(w) \/ SentUnknown(w) \/ ProviderFails(w)
  PROVE  OutboxInv'
<1>1. PICK o \in {"retry", "sent", "dead", "cancelled"} :
        /\ Outcome(w, o)
        /\ accepted' \in {accepted, accepted \cup {cur[w]}}
        /\ o = "sent" => cur[w] \in accepted'
  BY DEF TemplateDisabled, TemplateLookupFails, RenderFails, Sent, SentUnknown,
         ProviderFails, RetryOrDead
<1> QED
  BY <1>1, OutcomeInv

LEMMA FinalizeInv ==
  ASSUME OutboxInv, NEW w \in Worker, Finalize(w)
  PROVE  OutboxInv'
<1>0. /\ cur[w] \in Msg /\ status[cur[w]] # "absent"
      /\ out[w] \in {"retry", "sent", "suppressed", "dead", "cancelled"}
      /\ out[w] = "sent" => cur[w] \in accepted
      /\ NextStatus(w) \in {"retry", "sent", "suppressed", "dead", "cancelled"}
      /\ NextStatus(w) = "sent" => out[w] = "sent"
  BY DEF OutboxInv, WorkersInv, WorkerAt, Finalize, Holds, NextStatus
<1>1. TypeOK'
  BY <1>0 DEF OutboxInv, TypeOK, Finalize, NextRow, Settled, Claimable, NoRow, Row,
              people, events, hook
<1>2. WorkersInv'
  BY <1>0, NoMsgAssumption
     DEF OutboxInv, TypeOK, Finalize, NextRow, WorkersInv, WorkerAt, Holds
<1>3. RowsInv' /\ HooksInv'
  BY <1>0 DEF OutboxInv, TypeOK, Finalize, NextRow, RowsInv, RowAt, HooksInv, HookAt,
              hook, KeepsPayload, Settled, NextStatus
<1>4. BudgetLeft'
  BY <1>0, MaxAttemptsAssumption
     DEF OutboxInv, TypeOK, Finalize, BudgetLeft, NextStatus, Claimable
<1>5. PayloadCleared' /\ SentWasAccepted'
  BY <1>0 DEF OutboxInv, TypeOK, Finalize, PayloadCleared, SentWasAccepted, KeepsPayload
<1> QED
  BY <1>1, <1>2, <1>3, <1>4, <1>5 DEF OutboxInv

\* A finalisation that fails and a crash only lose local state.
LEMMA MishapInv ==
  ASSUME OutboxInv, NEW w \in Worker, FinalizeFails(w) \/ Crash(w)
  PROVE  OutboxInv'
<1>1. CASE FinalizeFails(w)
  <2>0. cur[w] \in Msg
    BY <1>1 DEF OutboxInv, WorkersInv, WorkerAt, FinalizeFails
  <2>1. TypeOK'
    BY <1>1, <2>0, BoundAssumption
       DEF OutboxInv, TypeOK, FinalizeFails, NextRow, NoRow, Row, rows, people, events,
           hook
  <2>2. WorkersInv'
    BY <1>1, <2>0, NoMsgAssumption
       DEF OutboxInv, TypeOK, FinalizeFails, NextRow, WorkersInv, WorkerAt, Holds, rows
  <2> QED
    BY <1>1, <2>1, <2>2
       DEF OutboxInv, FinalizeFails, NextRow, RowsInv, RowAt, HooksInv, HookAt,
           BudgetLeft, PayloadCleared, SentWasAccepted, rows, hook
<1>2. CASE Crash(w)
  <2>1. TypeOK'
    BY <1>2, BoundAssumption
       DEF OutboxInv, TypeOK, Crash, NoRow, Row, rows, people, events, hook
  <2>2. WorkersInv'
    BY <1>2, NoMsgAssumption
       DEF OutboxInv, TypeOK, Crash, WorkersInv, WorkerAt, Holds, rows
  <2> QED
    BY <1>2, <2>1, <2>2
       DEF OutboxInv, Crash, RowsInv, RowAt, HooksInv, HookAt, BudgetLeft,
           PayloadCleared, SentWasAccepted, rows, hook
<1> QED
  BY <1>1, <1>2

\* Time and retention take away leases, payloads and recipients.
LEMMA LeaseInv ==
  ASSUME OutboxInv, NEW m \in Msg, LeaseExpires(m)
  PROVE  OutboxInv'
<1>1. TypeOK'
  BY DEF OutboxInv, TypeOK, LeaseExpires, people, events, worker, hook
<1> QED
  BY <1>1
     DEF OutboxInv, LeaseExpires, WorkersInv, WorkerAt, Holds, HooksInv, HookAt, RowsInv,
         RowAt, BudgetLeft, PayloadCleared, SentWasAccepted, worker, hook

LEMMA PurgeInv ==
  ASSUME OutboxInv, NEW w \in Worker, NEW due \in SUBSET Msg, NEW old \in SUBSET Msg,
         Purge(w, due, old)
  PROVE  OutboxInv'
<1>1. TypeOK'
  BY DEF OutboxInv, TypeOK, Purge, people, events, worker, hook
<1>2. WorkersInv' /\ HooksInv'
  BY DEF OutboxInv, Purge, WorkersInv, WorkerAt, Holds, HooksInv, HookAt, worker, hook
<1>3. RowsInv' /\ BudgetLeft' /\ PayloadCleared' /\ SentWasAccepted'
  BY DEF OutboxInv, Purge, RowsInv, RowAt, BudgetLeft, PayloadCleared, SentWasAccepted
<1> QED
  BY <1>1, <1>2, <1>3 DEF OutboxInv

\* A step of a webhook request that leaves rows, recipients and workers alone.
LEMMA HookStepInv ==
  ASSUME OutboxInv, NEW h \in Hook,
         \/ ApplyFails(h) \/ Forget(h) \/ HookDies(h)
         \/ \E e \in Msg \X Kind : Receive(h, e)
  PROVE  OutboxInv'
<1>1. TypeOK'
  <2>1. CASE ApplyFails(h)
    BY <2>1 DEF OutboxInv, TypeOK, ApplyFails, rows, people, events, worker
  <2>2. CASE Forget(h) \/ HookDies(h)
    <3>1. CASE Forget(h)
      BY <3>1 DEF OutboxInv, TypeOK, Forget, HookReturns, rows, people, events, worker
    <3>2. CASE HookDies(h)
      BY <3>2 DEF OutboxInv, TypeOK, HookDies, HookReturns, rows, people, events, worker
    <3> QED BY <2>2, <3>1, <3>2
  <2>3. ASSUME NEW e \in Msg \X Kind, Receive(h, e) PROVE TypeOK'
    <3>1. /\ marker' \in SUBSET (Msg \X Kind) /\ acked' \in SUBSET (Msg \X Kind)
          /\ hpc' \in [Hook -> {"idle", "apply", "forget"}]
          /\ hev' \in [Hook -> (Msg \X Kind) \cup {NoEvent}]
      <4>1. CASE e \in marker
        BY <2>3, <4>1 DEF OutboxInv, TypeOK, Receive
      <4>2. CASE e \notin marker
        <5>1. /\ marker' \in {marker, marker \cup {e}} /\ acked' = acked
              /\ hpc' = [hpc EXCEPT ![h] = "apply"]
              /\ hev' = [hev EXCEPT ![h] = e]
          BY <2>3, <4>2 DEF Receive
        <5> QED
          BY <2>3, <5>1 DEF OutboxInv, TypeOK
      <4> QED
        BY <4>1, <4>2
    <3> QED
      BY <2>3, <3>1 DEF OutboxInv, TypeOK, Receive, rows, people, worker
  <2> QED
    BY <2>1, <2>2, <2>3
<1>2. HooksInv'
  BY SMTT(20) DEF OutboxInv, TypeOK, HooksInv, HookAt, ApplyFails, Forget, HookDies,
                  Receive, HookReturns
<1>3. WorkersInv' /\ RowsInv' /\ BudgetLeft' /\ PayloadCleared' /\ SentWasAccepted'
  BY DEF OutboxInv, ApplyFails, Forget, HookDies, Receive, WorkersInv, WorkerAt, Holds,
         RowsInv, RowAt, BudgetLeft, PayloadCleared, SentWasAccepted, rows, worker
<1> QED
  BY <1>1, <1>2, <1>3 DEF OutboxInv

LEMMA ApplyInv ==
  ASSUME OutboxInv, NEW h \in Hook, Apply(h)
  PROVE  OutboxInv'
<1> DEFINE e == hev[h]
<1>0. /\ e \in Msg \X Kind /\ e[1] \in Msg /\ e[2] \in Kind
      /\ e[2] \in {"sent", "delivered", "bounced", "complained"}
      /\ To[e[1]] \in Rcpt
  BY KindAssumption, ToAssumption DEF OutboxInv, HooksInv, HookAt, Apply
<1>1. \/ status' = status /\ suppressed' = suppressed /\ identity' = identity
      \/ e[1] \in traced /\ EventEffect(e)
  <2>1. CASE e \in ledger \/ e[1] \notin traced
    BY <2>1 DEF Apply
  <2>2. CASE e \notin ledger /\ e[1] \in traced
    BY <2>2 DEF Apply, EventEffect
  <2> QED
    BY <2>1, <2>2
<1>2. \/ status' = status
      \/ e[1] \in traced /\ status' = [status EXCEPT ![e[1]] = e[2]]
  BY <1>1 DEF EventEffect
<1>3. TypeOK'
  <2>1. status' \in [Msg -> {"absent", "processing"} \cup Claimable \cup Settled]
    BY <1>0, <1>2, SMTT(20) DEF OutboxInv, TypeOK, Settled
  <2>2. /\ suppressed' \in SUBSET Rcpt
        /\ identity' \in [Rcpt -> {"pending", "activated", "suppressed", "removed"}]
    BY <1>0, <1>1 DEF OutboxInv, TypeOK, EventEffect
  <2>3. /\ ledger' \in SUBSET (Msg \X Kind) /\ unmatched' \in SUBSET (Msg \X Kind)
        /\ acked' \in SUBSET (Msg \X Kind)
    BY <1>0 DEF OutboxInv, TypeOK, Apply, Answer
  <2> QED
    BY <2>1, <2>2, <2>3 DEF OutboxInv, TypeOK, Apply, HookReturns, worker
<1>4. HooksInv'
  BY DEF OutboxInv, TypeOK, HooksInv, HookAt, Apply, HookReturns
<1>5. WorkersInv' /\ RowsInv'
  BY <1>0, <1>2 DEF OutboxInv, TypeOK, Apply, WorkersInv, WorkerAt, Holds, RowsInv, RowAt,
                    worker
<1>6. BudgetLeft' /\ PayloadCleared' /\ SentWasAccepted'
  BY <1>0, <1>2 DEF OutboxInv, TypeOK, Apply, BudgetLeft, PayloadCleared,
                    SentWasAccepted, RowsInv, RowAt, Claimable, Settled
<1> QED
  BY <1>3, <1>4, <1>5, <1>6 DEF OutboxInv

LEMMA PeopleInv ==
  ASSUME OutboxInv, NEW r \in Rcpt, Erase(r) \/ ActivateEmail(r)
  PROVE  OutboxInv'
<1>1. CASE Erase(r)
  <2>1. TypeOK'
    BY <1>1 DEF OutboxInv, TypeOK, Erase, Settled, events, worker, hook
  <2>2. WorkersInv' /\ HooksInv' /\ RowsInv'
    BY <1>1 DEF OutboxInv, TypeOK, Erase, WorkersInv, WorkerAt, Holds, HooksInv, HookAt,
                RowsInv, RowAt, worker, hook, Settled
  <2>3. BudgetLeft' /\ PayloadCleared' /\ SentWasAccepted'
    BY <1>1 DEF OutboxInv, TypeOK, Erase, BudgetLeft, PayloadCleared, SentWasAccepted,
                Claimable, Settled
  <2> QED
    BY <2>1, <2>2, <2>3 DEF OutboxInv
<1>2. CASE ActivateEmail(r)
  BY <1>2 DEF OutboxInv, TypeOK, ActivateEmail, WorkersInv, WorkerAt, Holds, HooksInv,
              HookAt, RowsInv, RowAt, BudgetLeft, PayloadCleared, SentWasAccepted,
              rows, events, worker, hook
<1> QED
  BY <1>1, <1>2

LEMMA NextInv == OutboxInv /\ [Next]_vars => OutboxInv'
<1>1. ASSUME OutboxInv, UNCHANGED vars PROVE OutboxInv'
  BY <1>1 DEF OutboxInv, TypeOK, WorkersInv, WorkerAt, Holds, RowsInv, RowAt, HooksInv,
              HookAt, BudgetLeft, PayloadCleared, SentWasAccepted, vars, rows,
              people, events, worker, hook
<1>2. ASSUME OutboxInv, NEW w \in Worker, Work(w) \/ Crash(w) PROVE OutboxInv'
  BY <1>2, ClaimInv, FetchInv, TakeInv, SendInv, FinalizeInv, MishapInv
     DEF Work, Process
<1>3. ASSUME OutboxInv, NEW h \in Hook,
             Serve(h) \/ \E e \in Msg \X Kind : Receive(h, e)
      PROVE  OutboxInv'
  BY <1>3, HookStepInv, ApplyInv DEF Serve
<1> QED
  BY <1>1, <1>2, <1>3, EnqueueInv, LeaseInv, PurgeInv, PeopleInv DEF Next

-----------------------------------------------------------------------------
(* Theorems *)

\* The inductive invariant holds whatever fails, dies or comes late.
THEOREM Invariance == Spec => []OutboxInv
<1> QED
  BY InitInv, NextInv, PTL DEF Spec

\* Columns, markers and local variables keep their types.
THEOREM TypeCorrect == Spec => []TypeOK
<1>1. OutboxInv => TypeOK
  BY DEF OutboxInv
<1> QED
  BY <1>1, Invariance, PTL

\* sp_finalize_email_message never leaves a row without attempts to be claimed.
THEOREM RetriesAreBounded == Spec => []BudgetLeft
<1>1. OutboxInv => BudgetLeft
  BY DEF OutboxInv
<1> QED
  BY <1>1, Invariance, PTL

\* The render payload is gone from every row that is sent or terminal.
THEOREM PayloadIsTransient == Spec => []PayloadCleared
<1>1. OutboxInv => PayloadCleared
  BY DEF OutboxInv
<1> QED
  BY <1>1, Invariance, PTL

\* A row only says sent, or what a webhook made of it, if the provider has it.
THEOREM SentIsTrue == Spec => []SentWasAccepted
<1>1. OutboxInv => SentWasAccepted
  BY DEF OutboxInv
<1> QED
  BY <1>1, Invariance, PTL

-----------------------------------------------------------------------------
(* The leases keep workers apart, as long as a batch is done within its     *)
(* lease and nobody erases a row under a worker's hands.  The run           *)
(* email_lease_race shows that the first is needed; without the second a    *)
(* worker may put a cancelled row back to retry.                            *)

Timely == ~Slow /\ "erase" \notin Events

\* A row in a worker's hands is leased to that worker.
LeaseAt(w, m) ==
    Holds(w, m) => status[m] = "processing" /\ lease[m] = "running" /\ owner[m] = w

\* The webhook only finds messages that are settled.
TracedAt(m) == m \in traced => status[m] \in Settled

HeldInv == /\ \A w \in Worker, m \in Msg : LeaseAt(w, m)
        /\ \A m \in Msg : TracedAt(m)

LEMMA InitLInv == Init => HeldInv
  BY NoMsgAssumption DEF Init, HeldInv, LeaseAt, Holds, TracedAt

LEMMA NextLInv ==
  ASSUME Timely, OutboxInv, HeldInv, [Next]_vars
  PROVE  HeldInv'
<1> USE DEF HeldInv, LeaseAt, TracedAt, Holds
<1>1. CASE UNCHANGED vars
  BY <1>1 DEF vars, rows, worker
<1>2. ASSUME NEW m \in Msg, Enqueue(m) \/ LeaseExpires(m) PROVE HeldInv'
  <2>1. CASE Enqueue(m)
    BY <1>2, <2>1 DEF OutboxInv, TypeOK, RowsInv, RowAt, Enqueue, worker
  <2>2. CASE LeaseExpires(m)
    BY <1>2, <2>2 DEF OutboxInv, TypeOK, LeaseExpires, worker, Timely
  <2> QED
    BY <1>2, <2>1, <2>2
<1>3. ASSUME NEW w \in Worker, NEW S \in SUBSET Msg, Claim(w, S) PROVE HeldInv'
  <2>1. \A v \in Worker, m \in S : ~Holds(v, m)
    BY <1>3 DEF Claim, Due, Claimable
  <2>2. cur[w] \notin Msg
    BY <1>3 DEF OutboxInv, WorkersInv, WorkerAt, Claim
  <2>3. \A v \in Worker, m \in Msg : LeaseAt(v, m)'
    BY <1>3, <2>1, <2>2 DEF OutboxInv, TypeOK, Claim
  <2>4. \A m \in S : m \notin traced
    BY <1>3 DEF Claim, Due, Claimable, Settled
  <2> QED
    BY <1>3, <2>3, <2>4 DEF OutboxInv, TypeOK, Claim
<1>4. ASSUME NEW w \in Worker, Fetch(w) \/ \E m \in Msg : Take(w, m) PROVE HeldInv'
  <2>1. CASE Fetch(w)
    BY <2>1 DEF Fetch, rows
  <2>2. ASSUME NEW m \in Msg, Take(w, m) PROVE HeldInv'
    BY <2>2 DEF OutboxInv, TypeOK, Take, rows
  <2> QED
    BY <1>4, <2>1, <2>2
<1>5. ASSUME NEW w \in Worker,
             \/ TemplateDisabled(w) \/ TemplateLookupFails(w) \/ RenderFails(w)
             \/ Sent(w) \/ SentUnknown(w) \/ ProviderFails(w)
      PROVE  HeldInv'
  BY <1>5 DEF TemplateDisabled, TemplateLookupFails, RenderFails, Sent,
              SentUnknown, ProviderFails, Outcome, rows
<1>6. ASSUME NEW w \in Worker, Finalize(w) PROVE HeldInv'
  <2>1. /\ cur[w] \in Msg /\ cur[w] \notin todo[w]
        /\ out[w] \in {"retry", "sent", "suppressed", "dead", "cancelled"}
        /\ \A v \in Worker : Holds(v, cur[w]) => v = w
    BY <1>6 DEF OutboxInv, WorkersInv, WorkerAt, Finalize
  <2>2. \A v \in Worker, m \in Msg : LeaseAt(v, m)'
    BY <1>6, <2>1, NoMsgAssumption DEF OutboxInv, TypeOK, Finalize, NextRow
  <2>3. cur[w] \notin traced
    BY <2>1 DEF Settled
  <2> QED
    BY <1>6, <2>1, <2>2, <2>3 DEF OutboxInv, TypeOK, Finalize, NextStatus, Settled
<1>7. ASSUME NEW w \in Worker, FinalizeFails(w) \/ Crash(w) PROVE HeldInv'
  <2>1. /\ \A v \in Worker, m \in Msg : Holds(v, m)' => Holds(v, m)
        /\ UNCHANGED rows
    <3>1. CASE FinalizeFails(w)
      BY <3>1, NoMsgAssumption DEF OutboxInv, TypeOK, FinalizeFails, NextRow
    <3>2. CASE Crash(w)
      BY <3>2, NoMsgAssumption DEF OutboxInv, TypeOK, Crash
    <3> QED
      BY <1>7, <3>1, <3>2
  <2> QED
    BY <2>1 DEF rows
<1>8. ASSUME NEW h \in Hook, Apply(h) PROVE HeldInv'
  <2> DEFINE e == hev[h]
  <2>0. e \in Msg \X Kind
    BY <1>8 DEF OutboxInv, HooksInv, HookAt, Apply
  <2>1. e[1] \in Msg /\ e[2] \in Settled
    BY <2>0, KindAssumption DEF Settled
  <2>2. \/ status' = status
        \/ e[1] \in traced /\ status' = [status EXCEPT ![e[1]] = e[2]]
    <3>1. CASE e \in ledger \/ e[1] \notin traced
      BY <1>8, <3>1 DEF Apply
    <3>2. CASE e \notin ledger /\ e[1] \in traced
      BY <1>8, <3>2 DEF Apply, EventEffect
    <3> QED
      BY <3>1, <3>2
  <2>3. e[1] \in traced => \A v \in Worker : ~Holds(v, e[1])
    BY <2>1 DEF Settled
  <2> QED
    BY <1>8, <2>1, <2>2, <2>3 DEF OutboxInv, TypeOK, Apply, worker
<1>9. ASSUME NEW h \in Hook,
             \/ ApplyFails(h) \/ Forget(h) \/ HookDies(h)
             \/ \E e \in Msg \X Kind : Receive(h, e)
      PROVE  HeldInv'
  BY <1>9 DEF ApplyFails, Forget, HookDies, Receive, rows, worker
<1>10. ASSUME NEW r \in Rcpt, Erase(r) \/ ActivateEmail(r) PROVE HeldInv'
  BY <1>10 DEF Erase, ActivateEmail, Timely, rows, worker
<1>11. ASSUME NEW w \in Worker, NEW due \in SUBSET Msg, NEW old \in SUBSET Msg,
              Purge(w, due, old)
       PROVE  HeldInv'
  BY <1>11 DEF Purge, worker
<1> QED
  BY <1>1, <1>2, <1>3, <1>4, <1>5, <1>6, <1>7, <1>8, <1>9, <1>10, <1>11
     DEF Next, Work, Process, Serve

\* What a step does to a row that is settled or that a worker finalizes.
LEMMA StepIsTimely ==
  ASSUME Timely, OutboxInv, HeldInv, [Next]_vars
  PROVE  /\ \A m \in Msg : status[m] \in Settled => status'[m] \in Settled
         /\ \A w \in Worker : wpc[w] = "finalize" => owner[cur[w]] = w
<1>1. \A w \in Worker : wpc[w] = "finalize" => owner[cur[w]] = w
  BY DEF OutboxInv, WorkersInv, WorkerAt, HeldInv, LeaseAt, Holds
<1>2. ASSUME NEW m \in Msg, status[m] \in Settled PROVE status'[m] \in Settled
  <2> USE <1>2 DEF Settled
  <2>1. CASE status' = status
    BY <2>1
  <2>2. ASSUME NEW n \in Msg, Enqueue(n) PROVE status'[m] \in Settled
    BY <2>2 DEF OutboxInv, TypeOK, Enqueue
  <2>3. ASSUME NEW w \in Worker, NEW S \in SUBSET Msg, Claim(w, S)
        PROVE  status'[m] \in Settled
    BY <2>3 DEF Claim, Due, Claimable
  <2>4. ASSUME NEW w \in Worker, Finalize(w) PROVE status'[m] \in Settled
    <3>1. cur[w] \in Msg /\ status[cur[w]] = "processing"
      BY <2>4 DEF OutboxInv, WorkersInv, WorkerAt, HeldInv, LeaseAt, Holds, Finalize
    <3> QED
      BY <2>4, <3>1 DEF OutboxInv, TypeOK, Finalize
  <2>5. ASSUME NEW h \in Hook, Apply(h) PROVE status'[m] \in Settled
    <3> DEFINE e == hev[h]
    <3>1. e[1] \in Msg /\ e[2] \in Settled
      BY <2>5, KindAssumption DEF OutboxInv, HooksInv, HookAt, Apply
    <3>2. status' = status \/ status' = [status EXCEPT ![e[1]] = e[2]]
      BY <2>5 DEF Apply, EventEffect
    <3> QED
      BY <3>1, <3>2 DEF OutboxInv, TypeOK
  <2>6. ASSUME NEW r \in Rcpt, Erase(r) PROVE status'[m] \in Settled
    BY <2>6 DEF Timely, Erase
  <2> QED
    BY <2>1, <2>2, <2>3, <2>4, <2>5, <2>6
       DEF Next, Work, Process, Serve, LeaseExpires, Purge, Crash, Fetch, Take,
           TemplateDisabled, TemplateLookupFails, RenderFails, Sent, SentUnknown,
           ProviderFails, Outcome, FinalizeFails, ApplyFails, Forget, HookDies,
           Receive, ActivateEmail, vars, rows
<1> QED
  BY <1>1, <1>2

\* If every batch is done within its lease and no row is erased under way, a
\* settled message is never taken up again and a worker only ever finalizes rows
\* it is the owner of, for any number of workers, messages, crashes and faults.
THEOREM LeasesKeepWorkersApart ==
  ASSUME Timely
  PROVE  Spec => SettledIsFinal /\ LeaseIsExclusive
<1>1. OutboxInv /\ HeldInv /\ [Next]_vars => HeldInv'
  BY NextLInv
<1>2. OutboxInv /\ HeldInv /\ [Next]_vars
        => /\ [\A m \in Msg : status[m] \in Settled => status'[m] \in Settled]_vars
           /\ [\A w \in Worker :
                 (/\ wpc[w] = "finalize" /\ status'[cur[w]] # status[cur[w]]
                  /\ status[cur[w]] = "processing" /\ lease[cur[w]] = "running"
                  /\ wpc'[w] # wpc[w])
                 => owner[cur[w]] = w]_vars
  BY StepIsTimely
<1> QED
  BY <1>1, <1>2, InitLInv, Invariance, PTL DEF Spec, SettledIsFinal, LeaseIsExclusive

-----------------------------------------------------------------------------
(* No event of the provider is lost, as long as the webhook serves one      *)
(* request at a time, is not restarted under it, and Redis answers.  With   *)
(* two requests the second finds the marker of the first, answers 204, and  *)
(* the first may still fail.                                                *)

OneAtATime == (\A h, i \in Hook : h = i) /\ {"restart", "redis"} \cap Faults = {}

Dealt(e)   == e \in ledger \cup unmatched
Serving(e) == \E h \in Hook : hpc[h] \in {"apply", "forget"} /\ hev[h] = e

\* A marker stands for an event that was dealt with, or that a request is dealing
\* with; what was answered with 204 was dealt with.
MarkersInv == /\ \A e \in marker : Dealt(e) \/ Serving(e)
              /\ \A e \in acked : Dealt(e)

LEMMA MarkersInit == Init => MarkersInv
  BY DEF Init, MarkersInv

LEMMA MarkersStay ==
  ASSUME MarkersInv, UNCHANGED <<events, hook>>
  PROVE  MarkersInv'
  BY DEF MarkersInv, Dealt, Serving, events, hook

LEMMA ServeKeepsMarkers ==
  ASSUME OneAtATime, TypeOK, MarkersInv, NEW h \in Hook,
         \/ Apply(h) \/ ApplyFails(h) \/ Forget(h) \/ HookDies(h)
         \/ \E e \in Msg \X Kind : Receive(h, e)
  PROVE  MarkersInv'
<1> USE DEF MarkersInv, Dealt, Serving, HookReturns, TypeOK
<1>1. Hook = {h}
  BY DEF OneAtATime
<1>2. \A e : Serving(e) => e = hev[h]
  BY <1>1
<1>3. CASE Apply(h)
  <2>1. /\ ledger \subseteq ledger' /\ unmatched \subseteq unmatched'
        /\ hev[h] \in ledger' \cup unmatched'
    BY <1>3 DEF Apply
  <2>2. marker' = marker /\ acked' \subseteq acked \cup {hev[h]}
    BY <1>3 DEF Apply, Answer
  <2>3. \A e \in marker : Dealt(e) \/ e = hev[h]
    BY <1>2
  <2> QED
    BY <2>1, <2>2, <2>3
<1>4. CASE ApplyFails(h)
  BY <1>1, <1>4 DEF ApplyFails, events
<1>5. CASE Forget(h)
  <2>1. marker' = marker \ {hev[h]} /\ UNCHANGED <<ledger, acked, unmatched>>
    BY <1>5 DEF Forget, OneAtATime
  <2> QED
    BY <1>2, <2>1
<1>6. CASE HookDies(h)
  BY <1>6 DEF HookDies, OneAtATime
<1>7. ASSUME NEW e \in Msg \X Kind, Receive(h, e) PROVE MarkersInv'
  <2>1. UNCHANGED <<ledger, unmatched>> /\ \A x : ~Serving(x)
    BY <1>1, <1>7 DEF Receive
  <2>2. CASE e \in marker
    <3>1. marker' = marker /\ acked' = acked \cup {e} /\ \A x \in marker : Dealt(x)
      BY <1>7, <2>1, <2>2 DEF Receive
    <3> QED
      BY <2>1, <2>2, <3>1
  <2>3. CASE e \notin marker
    <3>1. marker' = marker \cup {e} /\ acked' = acked
      BY <1>7, <2>3 DEF Receive, OneAtATime
    <3>2. hpc'[h] = "apply" /\ hev'[h] = e
      BY <1>7, <2>3 DEF Receive
    <3> QED
      BY <2>1, <3>1, <3>2
  <2> QED
    BY <2>2, <2>3
<1> QED
  BY <1>3, <1>4, <1>5, <1>6, <1>7

LEMMA MarkersStep ==
  ASSUME OneAtATime, TypeOK, MarkersInv, [Next]_vars
  PROVE  MarkersInv'
<1> DEFINE Quiet == UNCHANGED <<events, hook>>
<1>1. CASE UNCHANGED vars
  BY <1>1, MarkersStay DEF vars
<1>2. ASSUME NEW m \in Msg, Enqueue(m) \/ LeaseExpires(m) PROVE Quiet
  BY <1>2 DEF Enqueue, LeaseExpires
<1>3. ASSUME NEW w \in Worker, Work(w) \/ Crash(w) PROVE Quiet
  BY <1>3 DEF Work, Process, Crash, Fetch, Claim, Take, Finalize, FinalizeFails, NextRow,
              TemplateDisabled, TemplateLookupFails, RenderFails, Sent, SentUnknown,
              ProviderFails, Outcome
<1>4. ASSUME NEW w \in Worker, NEW due \in SUBSET Msg, NEW old \in SUBSET Msg,
             Purge(w, due, old)
      PROVE  Quiet
  BY <1>4 DEF Purge
<1>5. ASSUME NEW r \in Rcpt, Erase(r) \/ ActivateEmail(r) PROVE Quiet
  BY <1>5 DEF Erase, ActivateEmail
<1>6. ASSUME NEW h \in Hook, Serve(h) \/ \E e \in Msg \X Kind : Receive(h, e)
      PROVE  MarkersInv'
  BY <1>6, ServeKeepsMarkers DEF Serve
<1> HIDE DEF Quiet
<1>7. Quiet => MarkersInv'
  BY MarkersStay DEF Quiet
<1> QED
  BY <1>1, <1>2, <1>3, <1>4, <1>5, <1>6, <1>7 DEF Next

\* An event the provider will not send again was applied or has no message, however
\* often applying it failed and its answer was lost: the failed request takes the
\* marker back before it answers 500.
THEOREM EventsAreKept ==
  ASSUME OneAtATime
  PROVE  Spec => []EventKept
<1>1. TypeOK /\ MarkersInv /\ [Next]_vars => MarkersInv'
  BY MarkersStep
<1>2. MarkersInv => EventKept
  BY DEF MarkersInv, Dealt, EventKept
<1> QED
  BY <1>1, <1>2, MarkersInit, TypeCorrect, PTL DEF Spec

-----------------------------------------------------------------------------
(* The keys and links (EmailLinks). *)

(* Idempotency-Key rows *)

Rows == Scopes \X Keys
AskRecord == [scope : Scopes, user : Users \cup {None}, addr : Addresses \cup {None}, link : Nat]
Bodies == Nat \cup ((Users \cup {None}) \X (Addresses \cup {None})) \cup {None}
KeyRow == [st : {"none", "in_progress", "complete", "conflict", "expired"}, body : Bodies]
Running == [at : {"call", "validate", "consume", "complete"}, q : AskRecord, key : Rows \cup {None}]

KeysTypeOK ==
    /\ keys \in [Rows -> KeyRow] /\ mailed \in [Rows -> Nat]
    /\ reqs \in [Requests -> {Idle} \cup Running]

\* A key belongs to one request at most, the one that found no row; it has
\* mailed nothing before it is begun and nothing while its request is still to call.
Owner(r, k) == reqs[r] # Idle /\ reqs[r].key = k
KeyInv(k) ==
    /\ mailed[k] <= 1
    /\ keys[k].st = "none" => mailed[k] = 0 /\ \A r \in Requests : ~Owner(r, k)
    /\ \A r \in Requests : Owner(r, k) /\ reqs[r].at = "call" => mailed[k] = 0
    /\ \A r, s \in Requests : Owner(r, k) /\ Owner(s, k) => r = s
KInv == KeysTypeOK /\ \A k \in Rows : KeyInv(k)

LEMMA RowIsNotNone == None \notin Rows
  BY LinksAssumption DEF Rows, Scopes

LEMMA KeysInit == LinksInit => KInv
<1> SUFFICES ASSUME LinksInit PROVE KInv
  OBVIOUS
<1>1. KeysTypeOK
  BY DEF LinksInit, KeysTypeOK, Rows, KeyRow, NoKey, Bodies
<1>2. ASSUME NEW k \in Rows PROVE KeyInv(k)
  BY <1>2 DEF LinksInit, KeyInv, Owner, Rows
<1> QED BY <1>1, <1>2 DEF KInv

\* Nothing of the keys changes.
LEMMA KeysStay == ASSUME KInv, UNCHANGED <<keys, reqs, mailed>> PROVE KInv'
  BY DEF KInv, KeysTypeOK, KeyInv, Owner

\* A request goes on with its key, or is over; it may mail from its call.
LEMMA RequestGoes ==
  ASSUME KInv, NEW r \in Requests, NEW new \in {Idle} \cup Running,
         reqs' = [reqs EXCEPT ![r] = new],
         new # Idle => reqs[r] # Idle /\ new.key = reqs[r].key /\ new.at # "call",
         keys' \in [Rows -> KeyRow], mailed' \in [Rows -> Nat],
         \A k \in Rows : keys'[k].st = "none" => keys[k].st = "none",
         \A k \in Rows : \/ mailed'[k] = mailed[k]
                         \/ Owner(r, k) /\ reqs[r].at = "call" /\ mailed'[k] = mailed[k] + 1
  PROVE  KInv'
<1>1. reqs'[r] = new /\ \A s \in Requests \ {r} : reqs'[s] = reqs[s]
  BY DEF KInv, KeysTypeOK
<1>2. KeysTypeOK'
  BY DEF KInv, KeysTypeOK
<1>3. ASSUME NEW k \in Rows PROVE KeyInv(k)'
  <2>1. \A s \in Requests : Owner(s, k)' => Owner(s, k)
    BY <1>1 DEF Owner
  <2>2. \A s \in Requests : Owner(s, k)' /\ reqs'[s].at = "call" => s # r /\ reqs[s].at = "call"
    BY <1>1 DEF Owner
  <2>3. KeyInv(k) /\ mailed[k] \in Nat
    BY <1>3 DEF KInv, KeysTypeOK
  <2>4. CASE mailed'[k] = mailed[k]
    BY <1>3, <2>1, <2>2, <2>3, <2>4 DEF KeyInv
  <2>5. CASE Owner(r, k) /\ reqs[r].at = "call" /\ mailed'[k] = mailed[k] + 1
    <3>1. mailed'[k] <= 1 /\ keys'[k].st # "none"
      BY <1>3, <2>3, <2>5 DEF KeyInv
    <3>2. \A s \in Requests : ~(Owner(s, k)' /\ reqs'[s].at = "call")
      BY <2>1, <2>2, <2>3, <2>5 DEF KeyInv
    <3> QED BY <2>1, <2>3, <3>1, <3>2 DEF KeyInv
  <2> QED BY <1>3, <2>4, <2>5
<1> QED BY <1>2, <1>3 DEF KInv

LEMMA GoesOn ==
  ASSUME KInv, NEW r \in Requests, reqs[r] # Idle, NEW at \in {"validate", "consume", "complete"},
         Goes(r, at)
  PROVE  \E new \in Running : /\ reqs' = [reqs EXCEPT ![r] = new]
                              /\ new.key = reqs[r].key /\ new.q = reqs[r].q /\ new.at = at
<1>1. reqs[r] \in Running
  BY DEF KInv, KeysTypeOK
<1> DEFINE new == [reqs[r] EXCEPT !.at = at]
<1>2. new \in Running /\ new.key = reqs[r].key /\ new.q = reqs[r].q /\ new.at = at
  BY <1>1 DEF Running
<1>3. reqs' = [reqs EXCEPT ![r] = new]
  BY DEF Goes
<1> QED BY <1>2, <1>3

LEMMA OnlyGoes ==
  ASSUME KInv, NEW r \in Requests, reqs[r] # Idle, NEW at \in {"validate", "consume", "complete"},
         Goes(r, at), UNCHANGED <<keys, mailed>>
  PROVE  KInv'
<1>1. PICK new \in Running : /\ reqs' = [reqs EXCEPT ![r] = new]
                             /\ new.key = reqs[r].key /\ new.at = at
  BY GoesOn
<1>2. keys' \in [Rows -> KeyRow] /\ mailed' \in [Rows -> Nat]
  BY DEF KInv, KeysTypeOK
<1> QED BY <1>1, <1>2, RequestGoes

LEMMA KeyMarked ==
  ASSUME KInv, NEW k \in Rows, NEW st \in {"complete", "conflict", "expired"},
         keys' = [keys EXCEPT ![k].st = st]
  PROVE  /\ keys' \in [Rows -> KeyRow]
         /\ \A j \in Rows : keys'[j].st = "none" => keys[j].st = "none"
<1> keys \in [Rows -> KeyRow]
  BY DEF KInv, KeysTypeOK
<1>1. keys' \in [Rows -> KeyRow]
  BY DEF KeyRow
<1>2. keys'[k].st = st /\ \A j \in Rows \ {k} : keys'[j] = keys[j]
  BY DEF KeyRow
<1> QED BY <1>1, <1>2

LEMMA Enqueues ==
  ASSUME KInv, NEW r \in Requests, reqs[r].at = "call", Enqueued(r)
  PROVE  KInv'
<1> DEFINE k == reqs[r].key
<1>1. reqs[r] # Idle /\ reqs[r] \in Running /\ k \in Rows \cup {None}
  BY DEF KInv, KeysTypeOK, Running, Idle
<1>2. PICK new \in Running : /\ reqs' = [reqs EXCEPT ![r] = new]
                             /\ new.key = reqs[r].key /\ new.at = "complete"
  BY <1>1, GoesOn DEF Enqueued
<1>3. mailed \in [Rows -> Nat] /\ keys \in [Rows -> KeyRow]
  BY DEF KInv, KeysTypeOK
<1>4. CASE k = None
  <2>1. UNCHANGED <<keys, mailed>>
    BY <1>4 DEF Enqueued, Mails, Completed
  <2> QED BY <1>1, <1>2, <1>3, <2>1, RequestGoes
<1>5. CASE k \in Rows
  <2>1. k # None
    BY <1>5, RowIsNotNone
  <2>2. mailed' = [mailed EXCEPT ![k] = @ + 1]
    BY <2>1 DEF Enqueued, Mails
  <2>3. keys' \in [Rows -> KeyRow] /\ \A j \in Rows : keys'[j].st = "none" => keys[j].st = "none"
    <3>1. keys' = keys \/ keys' = [keys EXCEPT ![k].st = "complete"]
      BY <2>1 DEF Enqueued, Completed
    <3> HIDE DEF k
    <3> QED BY <1>3, <1>5, <3>1, KeyMarked
  <2>4. /\ mailed' \in [Rows -> Nat] /\ mailed'[k] = mailed[k] + 1
        /\ \A j \in Rows \ {k} : mailed'[j] = mailed[j]
    BY <1>3, <1>5, <2>2
  <2>5. Owner(r, k)
    BY <1>1 DEF Owner
  <2> HIDE DEF k
  <2> QED BY <1>1, <1>2, <2>3, <2>4, <2>5, RequestGoes
<1> QED BY <1>1, <1>4, <1>5

LEMMA Completes ==
  ASSUME KInv, NEW r \in Requests, complete_idempotency(r) PROVE KInv'
<1> DEFINE k == reqs[r].key
<1>1. reqs[r] # Idle /\ k \in Rows \cup {None}
  BY DEF complete_idempotency, KInv, KeysTypeOK, Running, Idle
<1>2. keys \in [Rows -> KeyRow] /\ mailed' \in [Rows -> Nat] /\ mailed' = mailed
  BY DEF complete_idempotency, KInv, KeysTypeOK
<1>3. keys' = keys \/ (k \in Rows /\ keys' = [keys EXCEPT ![k].st = "complete"])
  BY <1>1 DEF complete_idempotency
<1>4. keys' \in [Rows -> KeyRow] /\ \A j \in Rows : keys'[j].st = "none" => keys[j].st = "none"
  <2> HIDE DEF k
  <2> QED BY <1>2, <1>3, KeyMarked
<1>5. reqs' = [reqs EXCEPT ![r] = Idle]
  BY DEF complete_idempotency
<1> QED BY <1>2, <1>4, <1>5, RequestGoes

\* The request takes a key that has no row yet, or runs without one.
LEMMA RequestRuns ==
  ASSUME KInv, NEW r \in Requests, NEW q \in AskRecord, NEW k \in Rows \cup {None}, Runs(r, q, k),
         reqs[r] = Idle, mailed' = mailed,
         k = None => keys' = keys,
         k # None => /\ keys[k].st = "none"
                     /\ keys' = [keys EXCEPT ![k] = [st |-> "in_progress", body |-> Body(q)]]
  PROVE  KInv'
<1> DEFINE new == [at |-> IF q.scope = "reset" THEN "validate" ELSE "call", q |-> q, key |-> k]
<1>1. new \in Running /\ new.key = k
  BY DEF Running
<1>2. reqs' = [reqs EXCEPT ![r] = new]
  BY DEF Runs
<1>3. new # Idle
  BY DEF Idle
<1> HIDE DEF new
<1>4. reqs'[r] = new /\ \A s \in Requests \ {r} : reqs'[s] = reqs[s]
  BY <1>2 DEF KInv, KeysTypeOK
<1>5. Body(q) \in Bodies
  BY DEF Body, Bodies, AskRecord
<1>6. KeysTypeOK'
  <2>1. reqs' \in [Requests -> {Idle} \cup Running]
    BY <1>1, <1>2 DEF KInv, KeysTypeOK
  <2>2. [st |-> "in_progress", body |-> Body(q)] \in KeyRow
    BY <1>5 DEF KeyRow
  <2>3. keys' \in [Rows -> KeyRow]
    BY <2>2 DEF KInv, KeysTypeOK
  <2> QED BY <2>1, <2>3 DEF KInv, KeysTypeOK
<1>7. ASSUME NEW j \in Rows, j # k PROVE KeyInv(j)'
  <2>1. \A s \in Requests : Owner(s, j)' => Owner(s, j) /\ s # r
    BY <1>1, <1>4, <1>7 DEF Owner
  <2>2. keys'[j] = keys[j] /\ KeyInv(j)
    BY <1>7 DEF KInv, KeysTypeOK
  <2> QED BY <1>4, <2>1, <2>2 DEF KeyInv
<1>8. ASSUME k # None PROVE KeyInv(k)'
  <2>1. keys'[k].st = "in_progress"
    BY <1>8 DEF KInv, KeysTypeOK
  <2>2. mailed'[k] = 0 /\ \A s \in Requests : Owner(s, k)' => s = r
    BY <1>4, <1>8 DEF KInv, KeyInv, Owner
  <2> QED BY <2>1, <2>2 DEF KeyInv
<1> QED BY <1>6, <1>7, <1>8, RowIsNotNone DEF KInv

-----------------------------------------------------------------------------
(* Links *)

LinkStates == {"live", "expired", "revoked", "consumed"}
Purposes == {"email_activation", "password_reset", "admin_password_reset"}
LinkRow == [user : Users, addr : Addresses, added : Nat, pw : Nat, purpose : Purposes, st : LinkStates]
Address == [st : {"none", "pending", "activated", "suppressed"}, added : Nat]

LinksTypeOK ==
    /\ links \in Seq(LinkRow) /\ password \in [Users -> Nat]
    /\ mailbox \in [Users -> [Addresses -> Address]]

\* A request for a link names one that exists, another request an address.
Fits(x, n) ==
    x # Idle => /\ x.q.scope \in {"verify", "reset"} => x.q.link \in 1 .. n
                /\ x.q.scope \notin {"verify", "reset"} => x.q.user \in Users /\ x.q.addr \in Addresses
                /\ x.at \in {"validate", "consume"} => x.q.scope = "reset"

\* A live reset link is the last one of its user, and the address it was sent
\* to is the one of the day of issue.
Latest(i) ==
    \A j \in i + 1 .. Len(links) : links[j].user = links[i].user => links[j].purpose \notin Resets
Placed(i) ==
    /\ mailbox[links[i].user][links[i].addr].st # "none"
    /\ mailbox[links[i].user][links[i].addr].added = links[i].added
ResetInv(i) == links[i].purpose \in Resets /\ links[i].st = "live" => Latest(i) /\ Placed(i)
LInv ==
    /\ LinksTypeOK /\ \A r \in Requests : Fits(reqs[r], Len(links))
    /\ \A i \in 1 .. Len(links) : ResetInv(i)

\* What StaleLinkDoesNothing says of one step.
Fresh(i) ==
    LET l == links[i] IN
    /\ \A j \in i + 1 .. Len(links) : links[j].user = l.user => links[j].purpose \notin Resets
    /\ password[l.user] = l.pw /\ l.user \in active
    /\ mailbox[l.user][l.addr].st # "none" /\ mailbox[l.user][l.addr].added = l.added
UsedFresh ==
    \A i \in 1 .. Len(links) :
        links[i].purpose \in Resets /\ links[i].st # "consumed" /\ links'[i].st = "consumed" => Fresh(i)

LEMMA FunctionIsSeq ==
  ASSUME NEW n \in Nat, NEW R, NEW f \in [1 .. n -> R] PROVE f \in Seq(R) /\ Len(f) = n
  OBVIOUS

LEMMA SeqIsFunction ==
  ASSUME NEW R, NEW f \in Seq(R) PROVE Len(f) \in Nat /\ f \in [1 .. Len(f) -> R]
  OBVIOUS

\* A link another status is written to stays the same link.
Aged(l, m) ==
    /\ m.user = l.user /\ m.addr = l.addr /\ m.added = l.added /\ m.purpose = l.purpose
    /\ m.st = "live" => l.st = "live"
LEMMA StatusWritten ==
  ASSUME NEW l \in LinkRow, NEW s \in LinkStates \ {"live"}
  PROVE  /\ [l EXCEPT !.st = s] \in LinkRow /\ [l EXCEPT !.st = s].st = s
         /\ Aged(l, [l EXCEPT !.st = s])
  BY DEF LinkRow, LinkStates, Aged

LEMMA LinksInitInv == LinksInit => LInv
<1> SUFFICES ASSUME LinksInit PROVE LInv
  OBVIOUS
<1>1. links = << >> /\ Len(links) = 0 /\ links \in Seq(LinkRow)
  BY DEF LinksInit
<1>2. mailbox \in [Users -> [Addresses -> Address]]
  BY DEF LinksInit, NoAddress, Address
<1>3. password \in [Users -> Nat] /\ \A r \in Requests : reqs[r] = Idle
  BY DEF LinksInit
<1> QED BY <1>1, <1>2, <1>3 DEF LInv, LinksTypeOK, Fits

\* Statuses are written and no link is issued.
LEMMA LinksAge ==
  ASSUME LInv, links' \in [1 .. Len(links) -> LinkRow],
         \A j \in 1 .. Len(links) : Aged(links[j], links'[j]),
         mailbox' \in [Users -> [Addresses -> Address]], password' \in [Users -> Nat],
         \A j \in 1 .. Len(links) :
            links[j].purpose \in Resets /\ links'[j].st = "live" => Placed(j)'
  PROVE  LinksTypeOK' /\ Len(links') = Len(links) /\ \A i \in 1 .. Len(links') : ResetInv(i)'
<1>1. Len(links) \in Nat /\ links \in [1 .. Len(links) -> LinkRow]
  BY SeqIsFunction DEF LInv, LinksTypeOK
<1>2. links' \in Seq(LinkRow) /\ Len(links') = Len(links)
  BY <1>1, FunctionIsSeq
<1>3. ASSUME NEW i \in 1 .. Len(links'), links'[i].purpose \in Resets, links'[i].st = "live"
      PROVE  Latest(i)' /\ Placed(i)'
  <2>1. i \in 1 .. Len(links) /\ links[i].purpose \in Resets /\ links[i].st = "live"
    BY <1>2, <1>3 DEF Aged
  <2>2. Latest(i)
    BY <2>1 DEF LInv, ResetInv
  <2>3. Latest(i)'
    BY <1>1, <1>2, <2>1, <2>2 DEF Latest, Aged
  <2> QED BY <1>3, <2>1, <2>3
<1> QED BY <1>2, <1>3 DEF LinksTypeOK, ResetInv

\* A link is issued: it takes the place of the live ones it is meant to replace.
LEMMA Issues ==
  ASSUME LInv, NEW u \in Users, NEW a \in Addresses, NEW p \in Purposes, NEW n \in Nat,
         Issue(u, a, p, n), mailbox' \in [Users -> [Addresses -> Address]], password' = password,
         p \in Resets => mailbox'[u][a].st # "none" /\ mailbox'[u][a].added = n,
         \A v \in Users, b \in Addresses : mailbox'[v][b] = mailbox[v][b] \/ mailbox[v][b].st = "none"
  PROVE  /\ LinksTypeOK' /\ Len(links') \in Nat /\ Len(links') >= Len(links)
         /\ \A i \in 1 .. Len(links') : ResetInv(i)'
         /\ UsedFresh
<1> DEFINE S == Supersede(links, u, a, p)
           new == [user |-> u, addr |-> a, added |-> n, pw |-> password[u], purpose |-> p, st |-> "live"]
           N == Len(links)
<1>1. N \in Nat /\ links \in [1 .. N -> LinkRow]
  BY SeqIsFunction DEF LInv, LinksTypeOK
<1>2. new \in LinkRow /\ new.user = u /\ new.addr = a /\ new.added = n /\ new.purpose = p
  BY DEF LinkRow, LinkStates, LInv, LinksTypeOK
<1>3. S \in [1 .. N -> LinkRow] /\ \A j \in 1 .. N : Aged(links[j], S[j])
  <2>1. ASSUME NEW j \in 1 .. N
        PROVE  S[j] \in LinkRow /\ Aged(links[j], S[j])
    <3>1. S[j] = links[j] \/ S[j] = [links[j] EXCEPT !.st = "revoked"]
      BY <2>1, Zenon DEF Supersede
    <3>2. links[j] \in LinkRow /\ Aged(links[j], links[j])
      BY <1>1, <2>1 DEF Aged
    <3>3. /\ [links[j] EXCEPT !.st = "revoked"] \in LinkRow
          /\ Aged(links[j], [links[j] EXCEPT !.st = "revoked"])
      BY <3>2, StatusWritten DEF LinkStates
    <3> HIDE DEF S
    <3> QED BY <3>1, <3>2, <3>3, Zenon
  <2>2. S = [j \in 1 .. N |-> S[j]]
    BY DEF Supersede
  <2> QED BY <2>1, <2>2
<1>4. \A j \in 1 .. N : /\ S[j].st = "consumed" => links[j].st = "consumed"
                        /\ S[j].user = u /\ S[j].purpose \in Resets /\ p \in Resets => S[j].st # "live"
  <2> SUFFICES ASSUME NEW j \in 1 .. N
               PROVE  /\ S[j].st = "consumed" => links[j].st = "consumed"
                      /\ S[j].user = u /\ S[j].purpose \in Resets /\ p \in Resets => S[j].st # "live"
    OBVIOUS
  <2>1. links[j] \in LinkRow
    BY <1>1
  <2>2. CASE S[j] = links[j] /\ ~(links[j].user = u /\ links[j].purpose \in Resets /\ p \in Resets /\ links[j].st = "live")
    BY <2>2
  <2>3. CASE S[j] = [links[j] EXCEPT !.st = "revoked"]
    BY <2>1, <2>3, StatusWritten DEF LinkStates
  <2> QED BY <1>1, <2>2, <2>3 DEF Supersede
<1>5. S \in Seq(LinkRow) /\ Len(S) = N
  BY <1>1, <1>3, FunctionIsSeq
<1>6. links' = Append(S, new)
  BY DEF Issue
<1> HIDE DEF S, new
<1>7. /\ links' \in Seq(LinkRow) /\ Len(links') = N + 1 /\ links'[N + 1] = new
      /\ \A j \in 1 .. N : links'[j] = S[j]
  BY <1>1, <1>2, <1>5, <1>6
<1>8. ASSUME NEW i \in 1 .. Len(links'), links'[i].purpose \in Resets, links'[i].st = "live"
      PROVE  Latest(i)' /\ Placed(i)'
  <2>1. CASE i = N + 1
    BY <1>1, <1>2, <1>7, <1>8, <2>1 DEF Latest, Placed
  <2>2. CASE i \in 1 .. N
    <3>1. links'[i] = S[i] /\ Aged(links[i], S[i]) /\ S[i].user = u => p \notin Resets
      BY <1>3, <1>4, <1>7, <1>8, <2>2
    <3>2. links'[i].user = u => p \notin Resets
      BY <1>4, <1>7, <1>8, <2>2
    <3>3. links[i].purpose \in Resets /\ links[i].st = "live" /\ links'[i].user = links[i].user
          /\ links'[i].addr = links[i].addr /\ links'[i].added = links[i].added
      BY <1>3, <1>7, <1>8, <2>2 DEF Aged
    <3>4. Latest(i) /\ Placed(i)
      BY <2>2, <3>3 DEF LInv, ResetInv
    <3>5. Latest(i)'
      <4> SUFFICES ASSUME NEW j \in i + 1 .. Len(links'), links'[j].user = links'[i].user
                   PROVE  links'[j].purpose \notin Resets
        BY DEF Latest
      <4>1. CASE j = N + 1
        BY <1>2, <1>7, <3>2, <4>1
      <4>2. CASE j \in 1 .. N
        BY <1>1, <1>3, <1>7, <2>2, <3>3, <3>4, <4>2 DEF Latest, Aged
      <4>3. j \in 1 .. N \/ j = N + 1
        <5> HIDE DEF N
        <5> QED BY <1>1, <1>7, <2>2
      <4> QED BY <4>1, <4>2, <4>3
    <3>6. Placed(i)'
      <4>1. links[i].user \in Users /\ links[i].addr \in Addresses
        BY <1>1, <2>2 DEF LinkRow
      <4>2. /\ mailbox[links[i].user][links[i].addr].st # "none"
            /\ mailbox[links[i].user][links[i].addr].added = links[i].added
        BY <3>4 DEF Placed
      <4>3. mailbox'[links[i].user][links[i].addr] = mailbox[links[i].user][links[i].addr]
        BY <4>1, <4>2
      <4> QED BY <3>3, <4>2, <4>3 DEF Placed
    <3> QED BY <3>5, <3>6
  <2> QED BY <1>1, <1>7, <2>1, <2>2
<1>9. UsedFresh
  BY <1>1, <1>4, <1>7 DEF UsedFresh
<1>10. LinksTypeOK'
  BY <1>7 DEF LInv, LinksTypeOK
<1> QED BY <1>1, <1>7, <1>8, <1>9, <1>10 DEF ResetInv

\* The requests still fit when links are issued and one of them goes on or comes.
LEMMA RequestsFit ==
  ASSUME KInv, LInv, NEW r \in Requests, NEW new \in {Idle} \cup Running,
         reqs' = [reqs EXCEPT ![r] = new],
         Len(links') \in Nat, Len(links') >= Len(links), Fits(new, Len(links'))
  PROVE  \A s \in Requests : Fits(reqs'[s], Len(links'))
<1>1. reqs'[r] = new /\ \A s \in Requests \ {r} : reqs'[s] = reqs[s]
  BY DEF KInv, KeysTypeOK
<1>2. Len(links) \in Nat
  BY SeqIsFunction DEF LInv, LinksTypeOK
<1>3. ASSUME NEW s \in Requests \ {r} PROVE Fits(reqs'[s], Len(links'))
  BY <1>1, <1>2, <1>3 DEF LInv, Fits
<1> QED BY <1>1, <1>3

-----------------------------------------------------------------------------
(* What the procedures do to the account *)

AccountStep ==
    /\ LinksTypeOK' /\ Len(links') \in Nat /\ Len(links') >= Len(links)
    /\ \A i \in 1 .. Len(links') : ResetInv(i)'
    /\ UsedFresh

LEMMA AccountStays == ASSUME LInv, UNCHANGED <<links, mailbox, password>> PROVE AccountStep
<1>1. Len(links) \in Nat
  BY SeqIsFunction DEF LInv, LinksTypeOK
<1> QED BY <1>1 DEF LInv, LinksTypeOK, ResetInv, Latest, Placed, AccountStep, UsedFresh

LEMMA Adds ==
  ASSUME LInv, NEW u \in Users, NEW a \in Addresses, add_user_email_and_enqueue(u, a)
  PROVE  AccountStep
<1>1. mailbox[u][a] \in Address
  BY DEF LInv, LinksTypeOK
<1>2. "email_activation" \in Purposes \ Resets /\ password' = password
  BY DEF Purposes, Resets, add_user_email_and_enqueue
<1>3. CASE /\ mailbox[u][a].st = "none"
           /\ mailbox' = [mailbox EXCEPT ![u][a] = [st |-> "pending", added |-> @.added + 1]]
           /\ Issue(u, a, "email_activation", mailbox[u][a].added + 1)
  <2> DEFINE x == [st |-> "pending", added |-> mailbox[u][a].added + 1]
             n == mailbox[u][a].added + 1
  <2>1. x \in Address /\ n \in Nat
    BY <1>1 DEF Address
  <2>0. mailbox \in [Users -> [Addresses -> Address]]
    BY DEF LInv, LinksTypeOK
  <2>2. mailbox' = [mailbox EXCEPT ![u][a] = x]
    BY <1>3
  <2> HIDE DEF x
  <2>3. /\ mailbox' \in [Users -> [Addresses -> Address]]
        /\ \A v \in Users, b \in Addresses : v # u \/ b # a => mailbox'[v][b] = mailbox[v][b]
    BY <2>0, <2>1, <2>2
  <2> HIDE DEF n
  <2> QED BY <1>2, <1>3, <2>1, <2>3, Issues DEF AccountStep, n
<1>4. CASE mailbox' = mailbox /\ Issue(u, a, "email_activation", mailbox[u][a].added)
  <2>1. mailbox[u][a].added \in Nat /\ mailbox' \in [Users -> [Addresses -> Address]]
    BY <1>1, <1>4 DEF Address, LInv, LinksTypeOK
  <2> QED BY <1>2, <1>4, <2>1, Issues DEF AccountStep
<1> QED BY <1>3, <1>4 DEF add_user_email_and_enqueue

LEMMA Resends ==
  ASSUME LInv, NEW u \in Users, NEW a \in Addresses, resend_user_email_activation(u, a)
  PROVE  AccountStep
<1>1. mailbox[u][a].added \in Nat /\ mailbox' \in [Users -> [Addresses -> Address]]
  BY DEF LInv, LinksTypeOK, Address, resend_user_email_activation
<1>2. /\ "email_activation" \in Purposes \ Resets /\ UNCHANGED <<mailbox, password>>
      /\ Issue(u, a, "email_activation", mailbox[u][a].added)
  BY DEF Purposes, Resets, resend_user_email_activation
<1> QED BY <1>1, <1>2, Issues DEF AccountStep

LEMMA EnqueuesReset ==
  ASSUME LInv, NEW u \in Users, NEW a \in Activated(u), NEW p \in Resets, EnqueueReset(u, a, p)
  PROVE  AccountStep
<1>1. a \in Addresses /\ mailbox[u][a].st = "activated"
  BY DEF Activated
<1>2. mailbox[u][a].added \in Nat /\ mailbox' \in [Users -> [Addresses -> Address]]
  BY <1>1 DEF LInv, LinksTypeOK, Address, EnqueueReset
<1>3. /\ p \in Purposes /\ UNCHANGED <<mailbox, password>>
      /\ Issue(u, a, p, mailbox[u][a].added)
  BY DEF Purposes, Resets, EnqueueReset
<1> QED BY <1>1, <1>2, <1>3, Issues DEF AccountStep

\* Links of a set get a status; the addresses of the live reset links stay where they are.
LEMMA Ages ==
  ASSUME LInv, NEW st \in LinkStates \ {"live"}, NEW M,
         links' \in [1 .. Len(links) -> LinkRow],
         \A j \in 1 .. Len(links) : \/ links'[j] = links[j] /\ j \notin M
                                    \/ links'[j] = [links[j] EXCEPT !.st = st],
         mailbox' \in [Users -> [Addresses -> Address]], password' \in [Users -> Nat],
         \A j \in 1 .. Len(links) \ M :
            links[j].purpose \in Resets /\ links[j].st = "live" =>
               /\ mailbox'[links[j].user][links[j].addr].st # "none"
               /\ mailbox'[links[j].user][links[j].addr].added = mailbox[links[j].user][links[j].addr].added
  PROVE  /\ LinksTypeOK' /\ Len(links') \in Nat /\ Len(links') >= Len(links)
         /\ \A i \in 1 .. Len(links') : ResetInv(i)'
         /\ \A j \in 1 .. Len(links) : links'[j] = links[j] \/ links'[j].st = st
<1>1. Len(links) \in Nat /\ links \in [1 .. Len(links) -> LinkRow]
  BY SeqIsFunction DEF LInv, LinksTypeOK
<1>2. ASSUME NEW j \in 1 .. Len(links)
      PROVE  /\ Aged(links[j], links'[j])
             /\ links'[j] = links[j] \/ links'[j].st = st
             /\ links'[j].st = "live" => links'[j] = links[j] /\ j \notin M
  <2>1. links[j] \in LinkRow
    BY <1>1
  <2>2. CASE links'[j] = links[j] /\ j \notin M
    BY <2>2 DEF Aged
  <2>3. CASE links'[j] = [links[j] EXCEPT !.st = st]
    BY <2>1, <2>3, StatusWritten
  <2> QED BY <2>2, <2>3
<1>3. ASSUME NEW j \in 1 .. Len(links), links[j].purpose \in Resets, links'[j].st = "live"
      PROVE  Placed(j)'
  <2>1. links'[j] = links[j] /\ j \notin M /\ links[j].st = "live"
    BY <1>2, <1>3
  <2>2. Placed(j)
    BY <1>3, <2>1 DEF LInv, ResetInv
  <2> QED BY <1>3, <2>1, <2>2 DEF Placed
<1>4. LinksTypeOK' /\ Len(links') = Len(links) /\ \A i \in 1 .. Len(links') : ResetInv(i)'
  <2>1. \A j \in 1 .. Len(links) : Aged(links[j], links'[j])
    BY <1>2
  <2> QED BY <1>3, <2>1, LinksAge
<1> QED BY <1>1, <1>2, <1>4

LEMMA Expires ==
  ASSUME LInv, NEW i \in 1 .. Len(links), LinkExpires(i) PROVE AccountStep
<1>1. Len(links) \in Nat /\ links \in [1 .. Len(links) -> LinkRow] /\ links[i] \in LinkRow
  BY SeqIsFunction DEF LInv, LinksTypeOK
<1>2. links' = [links EXCEPT ![i].st = "expired"] /\ UNCHANGED <<mailbox, password>>
  BY DEF LinkExpires
<1>3. [links[i] EXCEPT !.st = "expired"] \in LinkRow /\ "expired" \in LinkStates \ {"live"}
  BY <1>1, StatusWritten DEF LinkStates
<1>4. /\ links' \in [1 .. Len(links) -> LinkRow]
      /\ \A j \in 1 .. Len(links) : links'[j] = IF j = i THEN [links[j] EXCEPT !.st = "expired"] ELSE links[j]
  BY <1>1, <1>2, <1>3
<1>5. mailbox' \in [Users -> [Addresses -> Address]] /\ password' \in [Users -> Nat]
  BY <1>2 DEF LInv, LinksTypeOK
<1>6. \A j \in 1 .. Len(links) \ {i} :
         links[j].purpose \in Resets /\ links[j].st = "live" =>
            /\ mailbox'[links[j].user][links[j].addr].st # "none"
            /\ mailbox'[links[j].user][links[j].addr].added = mailbox[links[j].user][links[j].addr].added
  BY <1>2 DEF LInv, ResetInv, Placed
<1>7. \A j \in 1 .. Len(links) : \/ links'[j] = links[j] /\ j \notin {i}
                                 \/ links'[j] = [links[j] EXCEPT !.st = "expired"]
  BY <1>4
<1>8. /\ LinksTypeOK' /\ Len(links') \in Nat /\ Len(links') >= Len(links)
      /\ \A j \in 1 .. Len(links') : ResetInv(j)'
      /\ \A j \in 1 .. Len(links) : links'[j] = links[j] \/ links'[j].st = "expired"
  BY <1>3, <1>4, <1>5, <1>6, <1>7, Ages
<1> QED BY <1>8 DEF AccountStep, UsedFresh

\* An address is activated, or nothing happens to it.
LEMMA Activates ==
  ASSUME LInv, NEW i \in 1 .. Len(links), consume_email_activation_token(i) PROVE AccountStep
<1> DEFINE l == links[i]
<1>1. Len(links) \in Nat /\ links \in [1 .. Len(links) -> LinkRow] /\ l \in LinkRow
  BY SeqIsFunction DEF LInv, LinksTypeOK
<1>2. links' = [links EXCEPT ![i].st = "consumed"] /\ l.purpose \notin Resets /\ password' = password
  BY DEF consume_email_activation_token, Resets
<1>3. [l EXCEPT !.st = "consumed"] \in LinkRow /\ "consumed" \in LinkStates \ {"live"}
  BY <1>1, StatusWritten DEF LinkStates
<1>4. /\ links' \in [1 .. Len(links) -> LinkRow]
      /\ \A j \in 1 .. Len(links) : links'[j] = IF j = i THEN [links[j] EXCEPT !.st = "consumed"] ELSE links[j]
  BY <1>1, <1>2, <1>3
<1>5. l.user \in Users /\ l.addr \in Addresses
  BY <1>1 DEF LinkRow
<1>0. mailbox \in [Users -> [Addresses -> Address]]
  BY DEF LInv, LinksTypeOK
<1>6. /\ mailbox' \in [Users -> [Addresses -> Address]]
      /\ \A v \in Users, b \in Addresses :
            /\ mailbox'[v][b].added = mailbox[v][b].added
            /\ mailbox[v][b].st # "none" => mailbox'[v][b].st # "none"
  <2>1. CASE mailbox' = [mailbox EXCEPT ![l.user][l.addr].st = "activated"]
    <3> DEFINE x == [mailbox[l.user][l.addr] EXCEPT !.st = "activated"]
    <3>1. mailbox[l.user][l.addr] \in Address
      BY <1>5 DEF LInv, LinksTypeOK
    <3>2. x \in Address /\ x.added = mailbox[l.user][l.addr].added /\ x.st = "activated"
      BY <3>1 DEF Address
    <3>3. mailbox' = [mailbox EXCEPT ![l.user][l.addr] = x]
      BY <2>1
    <3> DEFINE u == l.user
               a == l.addr
    <3> HIDE DEF x, l
    <3>4. u \in Users /\ a \in Addresses /\ mailbox' = [mailbox EXCEPT ![u][a] = x]
      BY <1>5, <3>3
    <3>5. x.added = mailbox[u][a].added /\ x.st = "activated"
      BY <3>2
    <3> HIDE DEF u, a
    <3>6. /\ mailbox' \in [Users -> [Addresses -> Address]] /\ mailbox'[u][a] = x
          /\ \A v \in Users, b \in Addresses : v # u \/ b # a => mailbox'[v][b] = mailbox[v][b]
      BY <1>0, <3>2, <3>4
    <3> QED BY <3>5, <3>6
  <2>2. CASE mailbox' = mailbox
    BY <2>2 DEF LInv, LinksTypeOK
  <2> QED BY <2>1, <2>2 DEF consume_email_activation_token
<1>7. \A j \in 1 .. Len(links) \ {i} :
         links[j].purpose \in Resets /\ links[j].st = "live" =>
            /\ mailbox'[links[j].user][links[j].addr].st # "none"
            /\ mailbox'[links[j].user][links[j].addr].added = mailbox[links[j].user][links[j].addr].added
  <2> SUFFICES ASSUME NEW j \in 1 .. Len(links), links[j].purpose \in Resets, links[j].st = "live"
               PROVE  /\ mailbox'[links[j].user][links[j].addr].st # "none"
                      /\ mailbox'[links[j].user][links[j].addr].added = mailbox[links[j].user][links[j].addr].added
    OBVIOUS
  <2>1. mailbox[links[j].user][links[j].addr].st # "none"
    BY DEF LInv, ResetInv, Placed
  <2>2. links[j].user \in Users /\ links[j].addr \in Addresses
    BY <1>1 DEF LinkRow
  <2> QED BY <1>6, <2>1, <2>2
<1>8. \A j \in 1 .. Len(links) : \/ links'[j] = links[j] /\ j \notin {i}
                                 \/ links'[j] = [links[j] EXCEPT !.st = "consumed"]
  BY <1>4
<1>9. password' \in [Users -> Nat]
  BY <1>2 DEF LInv, LinksTypeOK
<1>10. /\ LinksTypeOK' /\ Len(links') \in Nat /\ Len(links') >= Len(links)
       /\ \A j \in 1 .. Len(links') : ResetInv(j)'
  BY <1>3, <1>4, <1>6, <1>7, <1>8, <1>9, Ages
<1>11. UsedFresh
  BY <1>2, <1>4 DEF UsedFresh
<1> QED BY <1>10, <1>11 DEF AccountStep

LEMMA Consumes ==
  ASSUME LInv, NEW i \in 1 .. Len(links), consume_password_reset_token(i) PROVE AccountStep
<1> DEFINE l == links[i]
           Gone(j) == links[j].user = l.user /\ links[j].purpose \in Resets /\ links[j].st \in {"live", "expired"}
<1>1. Len(links) \in Nat /\ links \in [1 .. Len(links) -> LinkRow] /\ l \in LinkRow
  BY SeqIsFunction DEF LInv, LinksTypeOK
<1>2. /\ l.pw = password[l.user] /\ l.st = "live" /\ l.user \in active /\ mailbox' = mailbox
      /\ password' = [password EXCEPT ![l.user] = @ + 1]
      /\ links' = [j \in 1 .. Len(links) |-> IF j = i THEN [l EXCEPT !.st = "consumed"]
                                             ELSE IF Gone(j) THEN [links[j] EXCEPT !.st = "revoked"] ELSE links[j]]
  BY DEF consume_password_reset_token
<1> HIDE DEF Gone
<1>3. \A j \in 1 .. Len(links) : /\ links[j] \in LinkRow
                                 /\ [links[j] EXCEPT !.st = "consumed"] \in LinkRow
                                 /\ [links[j] EXCEPT !.st = "revoked"] \in LinkRow
                                 /\ [links[j] EXCEPT !.st = "revoked"].st = "revoked"
                                 /\ Aged(links[j], links[j])
                                 /\ Aged(links[j], [links[j] EXCEPT !.st = "consumed"])
                                 /\ Aged(links[j], [links[j] EXCEPT !.st = "revoked"])
  <2> SUFFICES ASSUME NEW j \in 1 .. Len(links)
               PROVE  /\ links[j] \in LinkRow
                      /\ [links[j] EXCEPT !.st = "consumed"] \in LinkRow
                      /\ [links[j] EXCEPT !.st = "revoked"] \in LinkRow
                      /\ [links[j] EXCEPT !.st = "revoked"].st = "revoked"
                      /\ Aged(links[j], links[j])
                      /\ Aged(links[j], [links[j] EXCEPT !.st = "consumed"])
                      /\ Aged(links[j], [links[j] EXCEPT !.st = "revoked"])
    OBVIOUS
  <2>1. links[j] \in LinkRow
    BY <1>1
  <2>2. "consumed" \in LinkStates \ {"live"} /\ "revoked" \in LinkStates \ {"live"}
    BY DEF LinkStates
  <2>3. Aged(links[j], links[j])
    BY DEF Aged
  <2> QED BY <2>1, <2>2, <2>3, StatusWritten
<1>4. links' \in [1 .. Len(links) -> LinkRow]
  BY <1>2, <1>3
<1>5. \A j \in 1 .. Len(links) : Aged(links[j], links'[j])
  BY <1>2, <1>3
<1>6. mailbox' \in [Users -> [Addresses -> Address]] /\ password' \in [Users -> Nat]
  <2>1. l.user \in Users
    BY <1>1 DEF LinkRow
  <2> QED BY <1>2, <2>1 DEF LInv, LinksTypeOK
<1>7. \A j \in 1 .. Len(links) : links[j].purpose \in Resets /\ links'[j].st = "live" => Placed(j)'
  BY <1>2, <1>5 DEF LInv, ResetInv, Placed, Aged
<1>8. LinksTypeOK' /\ Len(links') = Len(links) /\ \A j \in 1 .. Len(links') : ResetInv(j)'
  BY <1>4, <1>5, <1>6, <1>7, LinksAge
<1>9. UsedFresh
  <2> SUFFICES ASSUME NEW j \in 1 .. Len(links), links[j].purpose \in Resets,
                      links[j].st # "consumed", links'[j].st = "consumed"
               PROVE  Fresh(j)
    BY DEF UsedFresh
  <2>1. j = i
    BY <1>2, <1>3
  <2>2. Latest(i) /\ Placed(i)
    BY <1>2, <2>1 DEF LInv, ResetInv
  <2> QED BY <1>2, <2>1, <2>2 DEF Fresh, Latest, Placed
<1> QED BY <1>1, <1>8, <1>9 DEF AccountStep

\* The links of an address go with it.
LEMMA Removes ==
  ASSUME LInv, NEW u \in Users, NEW a \in Addresses, remove_user_email(u, a) PROVE AccountStep
<1> DEFINE M == {j \in 1 .. Len(links) : links[j].user = u /\ links[j].addr = a /\ links[j].st \in {"live", "expired"}}
           x == [mailbox[u][a] EXCEPT !.st = "none"]
<1>1. Len(links) \in Nat /\ links \in [1 .. Len(links) -> LinkRow] /\ mailbox[u][a] \in Address
  BY SeqIsFunction DEF LInv, LinksTypeOK
<1>2. /\ mailbox' = [mailbox EXCEPT ![u][a] = x] /\ password' = password
      /\ links' = [j \in 1 .. Len(links) |-> IF j \in M THEN [links[j] EXCEPT !.st = "revoked"] ELSE links[j]]
  BY DEF remove_user_email
<1>3. x \in Address /\ x.added = mailbox[u][a].added
  BY <1>1 DEF Address
<1>4. \A j \in 1 .. Len(links) : links[j].user = u /\ links[j].addr = a /\ links[j].st = "live" => j \in M
  OBVIOUS
<1> HIDE DEF M, x
<1>5. /\ mailbox' \in [Users -> [Addresses -> Address]]
      /\ \A v \in Users, b \in Addresses : v # u \/ b # a => mailbox'[v][b] = mailbox[v][b]
  <2>1. mailbox' = [mailbox EXCEPT ![u][a] = x]
    BY <1>2
  <2>2. mailbox \in [Users -> [Addresses -> Address]]
    BY DEF LInv, LinksTypeOK
  <2> QED BY <2>1, <2>2, <1>3
<1>6. "revoked" \in LinkStates \ {"live"} /\ password' \in [Users -> Nat]
  BY <1>2 DEF LinkStates, LInv, LinksTypeOK
<1>7. links' \in [1 .. Len(links) -> LinkRow]
  <2>1. \A j \in 1 .. Len(links) : [links[j] EXCEPT !.st = "revoked"] \in LinkRow /\ links[j] \in LinkRow
    BY <1>1, <1>6, StatusWritten
  <2> QED BY <1>2, <2>1
<1>8. \A j \in 1 .. Len(links) : \/ links'[j] = links[j] /\ j \notin M
                                 \/ links'[j] = [links[j] EXCEPT !.st = "revoked"]
  BY <1>2
<1>9. \A j \in 1 .. Len(links) \ M :
         links[j].purpose \in Resets /\ links[j].st = "live" =>
            /\ mailbox'[links[j].user][links[j].addr].st # "none"
            /\ mailbox'[links[j].user][links[j].addr].added = mailbox[links[j].user][links[j].addr].added
  <2> SUFFICES ASSUME NEW j \in 1 .. Len(links), j \notin M, links[j].purpose \in Resets, links[j].st = "live"
               PROVE  /\ mailbox'[links[j].user][links[j].addr].st # "none"
                      /\ mailbox'[links[j].user][links[j].addr].added = mailbox[links[j].user][links[j].addr].added
    OBVIOUS
  <2>1. mailbox[links[j].user][links[j].addr].st # "none"
    BY DEF LInv, ResetInv, Placed
  <2>2. links[j].user \in Users /\ links[j].addr \in Addresses /\ (links[j].user # u \/ links[j].addr # a)
    BY <1>1, <1>4 DEF LinkRow
  <2> QED BY <1>5, <2>1, <2>2
<1>10. /\ LinksTypeOK' /\ Len(links') \in Nat /\ Len(links') >= Len(links)
       /\ \A j \in 1 .. Len(links') : ResetInv(j)'
       /\ \A j \in 1 .. Len(links) : links'[j] = links[j] \/ links'[j].st = "revoked"
  BY <1>5, <1>6, <1>7, <1>8, <1>9, Ages
<1> QED BY <1>10 DEF AccountStep, UsedFresh

LEMMA Suppresses ==
  ASSUME LInv, NEW a \in Addresses, SuppressAddress(a) PROVE AccountStep
<1> DEFINE Y(u) == IF a \in Activated(u) THEN [mailbox[u] EXCEPT ![a].st = "suppressed"] ELSE mailbox[u]
<1>1. Len(links) \in Nat /\ links \in [1 .. Len(links) -> LinkRow]
  BY SeqIsFunction DEF LInv, LinksTypeOK
<1>2. mailbox' = [u \in Users |-> Y(u)] /\ links' = links /\ password' = password
  BY DEF SuppressAddress
<1>3. ASSUME NEW u \in Users
      PROVE  /\ Y(u) \in [Addresses -> Address]
             /\ \A b \in Addresses : /\ Y(u)[b].added = mailbox[u][b].added
                                     /\ mailbox[u][b].st # "none" => Y(u)[b].st # "none"
  <2>1. mailbox[u] \in [Addresses -> Address] /\ mailbox[u][a] \in Address
    BY DEF LInv, LinksTypeOK
  <2>2. CASE a \in Activated(u)
    <3> DEFINE x == [mailbox[u][a] EXCEPT !.st = "suppressed"]
    <3>1. x \in Address /\ x.added = mailbox[u][a].added /\ x.st = "suppressed"
      BY <2>1 DEF Address
    <3>2. Y(u) = [mailbox[u] EXCEPT ![a] = x]
      BY <2>2
    <3> HIDE DEF x, Y
    <3> QED BY <2>1, <3>1, <3>2
  <2>3. CASE a \notin Activated(u)
    BY <2>1, <2>3
  <2> QED BY <2>2, <2>3
<1> HIDE DEF Y
<1>4. /\ mailbox' \in [Users -> [Addresses -> Address]]
      /\ \A u \in Users, b \in Addresses :
            /\ mailbox'[u][b].added = mailbox[u][b].added
            /\ mailbox[u][b].st # "none" => mailbox'[u][b].st # "none"
  BY <1>2, <1>3
<1>5. \A j \in 1 .. Len(links) : links[j].purpose \in Resets /\ links'[j].st = "live" => Placed(j)'
  <2> SUFFICES ASSUME NEW j \in 1 .. Len(links), links[j].purpose \in Resets, links[j].st = "live"
               PROVE  Placed(j)'
    BY <1>2
  <2>1. Placed(j)
    BY DEF LInv, ResetInv
  <2>2. links[j].user \in Users /\ links[j].addr \in Addresses /\ links'[j] = links[j]
    BY <1>1, <1>2 DEF LinkRow
  <2> QED BY <1>4, <2>1, <2>2 DEF Placed
<1>6. links' \in [1 .. Len(links) -> LinkRow] /\ password' \in [Users -> Nat]
  BY <1>1, <1>2 DEF LInv, LinksTypeOK
<1>7. \A j \in 1 .. Len(links) : Aged(links[j], links'[j])
  BY <1>2 DEF Aged
<1>8. LinksTypeOK' /\ Len(links') = Len(links) /\ \A j \in 1 .. Len(links') : ResetInv(j)'
  BY <1>4, <1>5, <1>6, <1>7, LinksAge
<1> QED BY <1>1, <1>2, <1>8 DEF AccountStep, UsedFresh

LEMMA ChangesPassword ==
  ASSUME LInv, NEW u \in Users, PasswordChanges(u) PROVE AccountStep
<1>1. Len(links) \in Nat /\ UNCHANGED <<links, mailbox>> /\ password' \in [Users -> Nat]
  BY SeqIsFunction DEF LInv, LinksTypeOK, PasswordChanges
<1> QED BY <1>1 DEF LInv, LinksTypeOK, ResetInv, Latest, Placed, AccountStep, UsedFresh

-----------------------------------------------------------------------------
(* Steps *)

LinksInv == KInv /\ LInv
Kept == LinksInv' /\ UsedFresh

\* Nothing but the account changes.
LEMMA OutsideRequests ==
  ASSUME LinksInv, AccountStep, UNCHANGED <<keys, reqs, mailed>> PROVE Kept
<1>1. KInv'
  BY KeysStay DEF LinksInv
<1>2. Len(links) \in Nat
  BY SeqIsFunction DEF LinksInv, LInv, LinksTypeOK
<1>3. \A r \in Requests : Fits(reqs'[r], Len(links'))
  BY <1>2 DEF AccountStep, LinksInv, LInv, Fits
<1> QED BY <1>1, <1>3 DEF AccountStep, Kept, LinksInv, LInv

\* A request goes on from where it is to `at'.
LEMMA FitsOn ==
  ASSUME LinksInv, AccountStep, NEW r \in Requests, reqs[r] # Idle, KInv',
         NEW at \in {"consume", "complete"}, Goes(r, at), at = "consume" => reqs[r].at = "validate"
  PROVE  Kept
<1>1. PICK new \in Running : /\ reqs' = [reqs EXCEPT ![r] = new]
                             /\ new.key = reqs[r].key /\ new.q = reqs[r].q /\ new.at = at
  BY GoesOn DEF LinksInv
<1>2. Len(links) \in Nat /\ Len(links') \in Nat /\ Len(links') >= Len(links)
  BY SeqIsFunction DEF LinksInv, LInv, LinksTypeOK, AccountStep
<1>3. Fits(new, Len(links'))
  <2>1. Fits(reqs[r], Len(links))
    BY DEF LinksInv, LInv
  <2> QED BY <1>1, <1>2, <2>1 DEF Fits
<1>4. \A s \in Requests : Fits(reqs'[s], Len(links'))
  BY <1>1, <1>2, <1>3, RequestsFit DEF LinksInv
<1> QED BY <1>4 DEF AccountStep, Kept, LinksInv, LInv

LEMMA FitsIdle ==
  ASSUME LinksInv, AccountStep, NEW r \in Requests, KInv', reqs' = [reqs EXCEPT ![r] = Idle]
  PROVE  Kept
<1>1. Len(links') \in Nat /\ Len(links') >= Len(links) /\ Fits(Idle, Len(links'))
  BY DEF AccountStep, Fits
<1>2. \A s \in Requests : Fits(reqs'[s], Len(links'))
  BY <1>1, RequestsFit DEF LinksInv
<1> QED BY <1>2 DEF AccountStep, Kept, LinksInv, LInv

LEMMA ArrivesStep ==
  ASSUME LinksInv, NEW r \in Requests, NEW q \in Asked, NEW k \in Keys \cup {None}, Arrives(r, q, k)
  PROVE  Kept
<1>1. Len(links) \in Nat
  BY SeqIsFunction DEF LinksInv, LInv, LinksTypeOK
<1>2. q \in AskRecord /\ q.scope \in Scopes
  BY <1>1 DEF Asked, AskRecord, Scopes
<1>3. /\ q.scope \in {"verify", "reset"} => q.link \in 1 .. Len(links)
      /\ q.scope \notin {"verify", "reset"} => q.user \in Users /\ q.addr \in Addresses
  BY DEF Asked
<1>4. reqs[r] = Idle /\ UNCHANGED <<accountVars, mailed>>
  BY DEF Arrives
<1>5. AccountStep
  BY <1>4, AccountStays DEF LinksInv, accountVars
<1>6. ASSUME NEW j \in Rows \cup {None}, Runs(r, q, j), KInv'
      PROVE  Kept
  <2> DEFINE new == [at |-> IF q.scope = "reset" THEN "validate" ELSE "call", q |-> q, key |-> j]
  <2>1. new \in Running /\ new.q = q /\ (new.at \in {"validate", "consume"} => q.scope = "reset")
    BY <1>2 DEF Running
  <2>2. reqs' = [reqs EXCEPT ![r] = new]
    BY <1>6 DEF Runs
  <2> HIDE DEF new
  <2>3. Len(links') \in Nat /\ Len(links') >= Len(links) /\ Len(links') = Len(links)
    BY <1>4, <1>5 DEF AccountStep, accountVars
  <2>4. Fits(new, Len(links'))
    BY <1>3, <2>1, <2>3 DEF Fits
  <2>5. \A s \in Requests : Fits(reqs'[s], Len(links'))
    BY <2>1, <2>2, <2>3, <2>4, RequestsFit DEF LinksInv
  <2> QED BY <1>5, <1>6, <2>5 DEF AccountStep, Kept, LinksInv, LInv
<1>7. CASE k = None
  <2>1. Runs(r, q, None) /\ keys' = keys
    BY <1>7 DEF Arrives
  <2>2. KInv'
    BY <1>2, <1>4, <2>1, RequestRuns DEF LinksInv
  <2> QED BY <1>6, <2>1, <2>2
<1>8. CASE k # None
  <2> DEFINE j == <<q.scope, k>>
  <2>1. j \in Rows /\ prepare_idempotency(r, q, j)
    BY <1>2, <1>8 DEF Arrives, Rows
  <2> HIDE DEF j
  <2>2. j # None
    BY <2>1, RowIsNotNone
  <2>3. CASE /\ keys[j].st = "none" /\ Runs(r, q, j)
             /\ keys' = [keys EXCEPT ![j] = [st |-> "in_progress", body |-> Body(q)]]
    <3>1. KInv'
      BY <1>2, <1>4, <2>1, <2>2, <2>3, RequestRuns DEF LinksInv
    <3> QED BY <1>6, <2>1, <2>3, <3>1
  <2>4. CASE keys' = [keys EXCEPT ![j].st = "conflict"] /\ reqs' = reqs
    <3>1. keys' \in [Rows -> KeyRow] /\ \A i \in Rows : keys'[i].st = "none" => keys[i].st = "none"
      BY <2>1, <2>4, KeyMarked DEF LinksInv
    <3>2. KInv'
      BY <1>4, <2>4, <3>1 DEF LinksInv, KInv, KeysTypeOK, KeyInv, Owner
    <3>3. \A s \in Requests : Fits(reqs'[s], Len(links'))
      BY <1>4, <2>4 DEF LinksInv, LInv, accountVars
    <3> QED BY <1>5, <3>2, <3>3 DEF AccountStep, Kept, LinksInv, LInv
  <2>5. CASE Runs(r, q, None) /\ keys' = keys
    <3>1. KInv'
      BY <1>2, <1>4, <2>5, RequestRuns DEF LinksInv
    <3> QED BY <1>6, <2>5, <3>1
  <2> QED BY <2>1, <2>3, <2>4, <2>5 DEF prepare_idempotency
<1> QED BY <1>7, <1>8

LEMMA RequestIs ==
  ASSUME LinksInv, NEW r \in Requests, reqs[r].at \in {"call", "validate", "consume", "complete"}
  PROVE  /\ reqs[r] # Idle /\ reqs[r] \in Running
         /\ reqs[r].q.scope \in {"verify", "reset"} => reqs[r].q.link \in 1 .. Len(links)
         /\ reqs[r].q.scope \notin {"verify", "reset"} =>
               reqs[r].q.user \in Users /\ reqs[r].q.addr \in Addresses
         /\ reqs[r].at \in {"validate", "consume"} => reqs[r].q.scope = "reset"
<1>1. reqs[r] # Idle /\ reqs[r] \in Running
  BY DEF LinksInv, KInv, KeysTypeOK, Idle
<1>2. Fits(reqs[r], Len(links))
  BY DEF LinksInv, LInv
<1> QED BY <1>1, <1>2 DEF Fits

\* The calls that enqueue a message complete the key with it.
LEMMA EnqueueStep ==
  ASSUME LinksInv, NEW r \in Requests, reqs[r].at = "call", AccountStep, Enqueued(r) PROVE Kept
<1>1. reqs[r] # Idle
  BY RequestIs
<1>2. KInv' /\ Goes(r, "complete")
  BY Enqueues DEF Enqueued, LinksInv
<1> QED BY <1>1, <1>2, FitsOn

\* The other calls leave the key to complete_idempotency.
LEMMA GoesStep ==
  ASSUME LinksInv, NEW r \in Requests, reqs[r].at \in {"call", "validate", "consume"}, AccountStep,
         NEW at \in {"consume", "complete"}, Goes(r, at), at = "consume" => reqs[r].at = "validate",
         UNCHANGED <<keys, mailed>>
  PROVE  Kept
<1>1. reqs[r] # Idle
  BY RequestIs
<1>2. KInv'
  BY <1>1, OnlyGoes DEF LinksInv
<1> QED BY <1>1, <1>2, FitsOn

LEMMA RequestStep ==
  ASSUME LinksInv, NEW r \in Requests, Steps(r) PROVE Kept
<1> USE DEF LinksInv
<1>1. CASE add_current_user_email(r)
  <2>1. reqs[r].at = "call" /\ reqs[r].q.user \in Users /\ reqs[r].q.addr \in Addresses
    BY <1>1, RequestIs DEF add_current_user_email, Calling
  <2>2. AccountStep
    BY <1>1, <2>1, Adds DEF add_current_user_email
  <2> QED BY <1>1, <2>1, <2>2, EnqueueStep DEF add_current_user_email
<1>2. CASE resend_current_user_email_activation(r)
  <2>1. reqs[r].at = "call" /\ reqs[r].q.user \in Users /\ reqs[r].q.addr \in Addresses
    BY <1>2, RequestIs DEF resend_current_user_email_activation, Calling
  <2>2. AccountStep
    BY <1>2, <2>1, Resends DEF resend_current_user_email_activation
  <2> QED BY <1>2, <2>1, <2>2, EnqueueStep DEF resend_current_user_email_activation
<1>3. CASE forgot_password_link(r)
  <2>1. reqs[r].at = "call" /\ reqs[r].q.user \in Users
    BY <1>3, RequestIs DEF forgot_password_link, Calling
  <2>2. /\ reqs[r].q.addr \in Activated(reqs[r].q.user) /\ "password_reset" \in Resets
        /\ EnqueueReset(reqs[r].q.user, reqs[r].q.addr, "password_reset")
    BY <1>3 DEF forgot_password_link, enqueue_password_reset_link, Resets
  <2>3. AccountStep
    BY <2>1, <2>2, EnqueuesReset
  <2> QED BY <1>3, <2>1, <2>3, EnqueueStep DEF forgot_password_link
<1>4. CASE verify_email_activation(r)
  <2>1. reqs[r].at = "call" /\ reqs[r].q.link \in 1 .. Len(links)
    BY <1>4, RequestIs DEF verify_email_activation, Calling
  <2>2. AccountStep
    BY <1>4, <2>1, Activates DEF verify_email_activation
  <2> QED BY <1>4, <2>1, <2>2, GoesStep DEF verify_email_activation
<1>5. CASE CallDoesNothing(r)
  <2>1. AccountStep
    BY <1>5, AccountStays DEF CallDoesNothing, accountVars
  <2> QED BY <1>5, <2>1, GoesStep DEF CallDoesNothing
<1>6. CASE reset_password_with_link(r)
  <2>1. AccountStep
    BY <1>6, AccountStays DEF reset_password_with_link, accountVars
  <2>2. PICK at \in {"consume", "complete"} : Goes(r, at)
    BY <1>6 DEF reset_password_with_link
  <2> QED BY <1>6, <2>1, <2>2, GoesStep DEF reset_password_with_link
<1>7. CASE _consume_password_reset_job(r)
  <2>1. reqs[r].at = "consume" /\ reqs[r].q.link \in 1 .. Len(links)
    BY <1>7, RequestIs DEF _consume_password_reset_job
  <2>2. AccountStep
    BY <1>7, <2>1, Consumes DEF _consume_password_reset_job
  <2> QED BY <1>7, <2>1, <2>2, GoesStep DEF _consume_password_reset_job
<1>8. CASE ConsumeRefused(r)
  <2>1. AccountStep
    BY <1>8, AccountStays DEF ConsumeRefused, accountVars
  <2> QED BY <1>8, <2>1, GoesStep DEF ConsumeRefused
<1>9. CASE complete_idempotency(r)
  <2>1. AccountStep
    BY <1>9, AccountStays DEF complete_idempotency, accountVars
  <2>2. KInv' /\ reqs' = [reqs EXCEPT ![r] = Idle]
    BY <1>9, Completes DEF complete_idempotency
  <2> QED BY <2>1, <2>2, FitsIdle
<1>10. CASE RequestDies(r)
  <2>1. AccountStep
    BY <1>10, AccountStays DEF RequestDies, accountVars
  <2>2. reqs' = [reqs EXCEPT ![r] = Idle] /\ UNCHANGED <<keys, mailed>>
    BY <1>10 DEF RequestDies
  <2>3. keys' \in [Rows -> KeyRow] /\ mailed' \in [Rows -> Nat]
    BY <2>2 DEF KInv, KeysTypeOK
  <2>4. KInv'
    BY <2>2, <2>3, RequestGoes
  <2> QED BY <2>1, <2>2, <2>4, FitsIdle
<1> QED BY <1>1, <1>2, <1>3, <1>4, <1>5, <1>6, <1>7, <1>8, <1>9, <1>10 DEF Steps

LEMMA KeyExpiry ==
  ASSUME LinksInv, NEW k \in Rows, KeyExpires(k) PROVE Kept
<1>1. /\ keys' = [keys EXCEPT ![k].st = "expired"] /\ UNCHANGED <<reqs, mailed>>
      /\ UNCHANGED <<links, mailbox, password>>
  BY DEF KeyExpires, accountVars
<1>2. AccountStep
  BY <1>1, AccountStays DEF LinksInv
<1>3. keys' \in [Rows -> KeyRow] /\ \A j \in Rows : keys'[j].st = "none" => keys[j].st = "none"
  BY <1>1, KeyMarked DEF LinksInv
<1>4. KInv'
  BY <1>1, <1>3 DEF LinksInv, KInv, KeysTypeOK, KeyInv, Owner
<1>5. \A s \in Requests : Fits(reqs'[s], Len(links'))
  BY <1>1 DEF LinksInv, LInv
<1> QED BY <1>2, <1>4, <1>5 DEF AccountStep, Kept, LinksInv, LInv

\* The routes without a key, the administrator's and what time and the provider do.
LEMMA AccountAction ==
  ASSUME LinksInv, NEW u \in Users, NEW a \in Addresses,
         \/ remove_user_email(u, a) \/ set_primary_user_email(u, a)
         \/ admin_resend_user_email_activation(u, a) \/ SuppressAddress(a)
  PROVE  Kept
<1>1. CASE remove_user_email(u, a)
  BY <1>1, Removes, OutsideRequests DEF remove_user_email, LinksInv
<1>2. CASE set_primary_user_email(u, a)
  BY <1>2, AccountStays, OutsideRequests DEF set_primary_user_email, LinksInv
<1>3. CASE admin_resend_user_email_activation(u, a)
  BY <1>3, Resends, OutsideRequests DEF admin_resend_user_email_activation, LinksInv
<1>4. CASE SuppressAddress(a)
  BY <1>4, Suppresses, OutsideRequests DEF SuppressAddress, LinksInv
<1> QED BY <1>1, <1>2, <1>3, <1>4

LEMMA UserAction ==
  ASSUME LinksInv, NEW u \in Users, reset_user_password(u) \/ PasswordChanges(u) \/ StatusChanges(u)
  PROVE  Kept
<1>1. CASE reset_user_password(u)
  <2>1. PICK a \in Addresses : FirstActivated(u, a) /\ EnqueueReset(u, a, "admin_password_reset")
    BY <1>1 DEF reset_user_password
  <2>2. a \in Activated(u) /\ "admin_password_reset" \in Resets
    BY <2>1 DEF FirstActivated, Resets
  <2>3. AccountStep
    BY <2>1, <2>2, EnqueuesReset DEF LinksInv
  <2> QED BY <1>1, <2>3, OutsideRequests DEF reset_user_password
<1>2. CASE PasswordChanges(u)
  BY <1>2, ChangesPassword, OutsideRequests DEF PasswordChanges, LinksInv
<1>3. CASE StatusChanges(u)
  BY <1>3, AccountStays, OutsideRequests DEF StatusChanges, LinksInv
<1> QED BY <1>1, <1>2, <1>3

LEMMA LinksStep == ASSUME LinksInv, [LinksNext]_linkVars PROVE Kept
<1>1. CASE UNCHANGED linkVars
  BY <1>1, AccountStays, OutsideRequests DEF linkVars, LinksInv
<1>2. ASSUME NEW r \in Requests, Steps(r) PROVE Kept
  BY <1>2, RequestStep
<1>3. ASSUME NEW r \in Requests, NEW q \in Asked, NEW k \in Keys \cup {None}, Arrives(r, q, k) PROVE Kept
  BY <1>3, ArrivesStep
<1>4. ASSUME NEW k \in Scopes \X Keys, KeyExpires(k) PROVE Kept
  BY <1>4, KeyExpiry DEF Rows
<1>5. ASSUME NEW i \in 1 .. Len(links), LinkExpires(i) PROVE Kept
  BY <1>5, Expires, OutsideRequests DEF LinkExpires, LinksInv
<1>6. ASSUME NEW a \in Addresses, SuppressAddress(a) PROVE Kept
  BY <1>6, Suppresses, OutsideRequests DEF SuppressAddress, LinksInv
<1>7. ASSUME NEW u \in Users, reset_user_password(u) \/ PasswordChanges(u) \/ StatusChanges(u) PROVE Kept
  BY <1>7, UserAction
<1>8. ASSUME NEW u \in Users, NEW a \in Addresses,
             remove_user_email(u, a) \/ set_primary_user_email(u, a) \/ admin_resend_user_email_activation(u, a)
      PROVE  Kept
  BY <1>8, AccountAction
<1> QED BY <1>1, <1>2, <1>3, <1>4, <1>5, <1>6, <1>7, <1>8 DEF LinksNext

LEMMA LinksInvariance == LinksSpec => []LinksInv
<1>1. LinksInit => LinksInv
  BY KeysInit, LinksInitInv DEF LinksInv
<1>2. LinksInv /\ [LinksNext]_linkVars => LinksInv'
  BY LinksStep DEF Kept
<1> QED BY <1>1, <1>2, PTL DEF LinksSpec

\* However requests repeat, interleave, fail or die, and whenever the rows
\* expire, one Idempotency-Key stands for at most one message: only the request
\* that found no row owns the key (prepare_idempotency).
THEOREM OneMessage == LinksSpec => []OneMessagePerKey
<1>1. LinksInv => OneMessagePerKey
  BY DEF LinksInv, KInv, KeysTypeOK, KeyInv, OneMessagePerKey
<1> QED BY <1>1, LinksInvariance, PTL

\* A reset link works only while it is the user's last one, the password is
\* the one of the day of issue and its address was not removed: a live link
\* is always the last (Latest) and its address in place (Placed), and the
\* password is read again when it is used (sp_consume_password_reset_token).
THEOREM StaleLinks == LinksSpec => StaleLinkDoesNothing
<1>1. LinksInv /\ [LinksNext]_linkVars => UsedFresh
  BY LinksStep DEF Kept
<1>2. UsedFresh =>
        [\A i \in 1 .. Len(links) :
          links[i].purpose \in Resets /\ links[i].st # "consumed" /\ links'[i].st = "consumed" =>
             LET l == links[i] IN
             /\ \A j \in i + 1 .. Len(links) : links[j].user = l.user => links[j].purpose \notin Resets
             /\ password[l.user] = l.pw /\ l.user \in active
             /\ mailbox[l.user][l.addr].st # "none" /\ mailbox[l.user][l.addr].added = l.added]_linkVars
  BY DEF UsedFresh, Fresh
<1> QED BY <1>1, <1>2, LinksInvariance, PTL DEF LinksSpec, StaleLinkDoesNothing

-----------------------------------------------------------------------------
(* The templates (EmailTemplates). *)

CatalogRow == [row : BOOLEAN, on : BOOLEAN]

\* The rows, and the requests as far as the procedures rely on them.
RowOK(c) ==
    inUse[c] = {} \/ \E v \in Nat : inUse[c] = {v}
EditOK(e) ==
    /\ edits[e].at \in {"update", "disable", "test", "rollback"} => edits[e].code \in Codes
    /\ edits[e].at = "rollback" => edits[e].v \in Nat
TemplatesTypeOK ==
    /\ catalog \in [Codes -> CatalogRow]
    /\ versions \in [Codes -> Nat] /\ inUse \in [Codes -> SUBSET Nat] /\ DOMAIN written = Codes
    /\ DOMAIN edits = Editors /\ DOMAIN letters = Letters
    /\ \A c \in Codes : RowOK(c)
    /\ \A e \in Editors : EditOK(e)

\* A built-in code has its row, a code without a row was never disabled, and a
\* row that is enabled stands for the body that was written last.
Follows(c) ==
    /\ c \in Builtin => catalog[c].row
    /\ ~catalog[c].row => catalog[c].on /\ inUse[c] = {}
    /\ written[c] = resolve_template(c)

TemplatesInv == TemplatesTypeOK /\ \A c \in Codes : Follows(c)

LEMMA MaxOfOne == ASSUME NEW v \in Nat PROVE Max({v}) = v
  BY DEF Max

\* A procedure that sets is_enabled in a row of the catalog.
LEMMA SetsEnabled ==
  ASSUME TemplatesInv, NEW c \in Codes, catalog[c].row, NEW b \in BOOLEAN,
         catalog' = [catalog EXCEPT ![c].on = b]
  PROVE  /\ catalog' \in [Codes -> CatalogRow] /\ catalog'[c].row /\ catalog'[c].on = b
         /\ \A d \in Codes \ {c} : catalog'[d] = catalog[d]
<1> catalog \in [Codes -> CatalogRow]
  BY DEF TemplatesInv, TemplatesTypeOK
<1>1. catalog' \in [Codes -> CatalogRow]
  BY DEF CatalogRow
<1>2. catalog'[c].row = catalog[c].row
  BY DEF CatalogRow
<1>3. catalog'[c].on = b
  BY DEF CatalogRow
<1>4. \A d \in Codes \ {c} : catalog'[d] = catalog[d]
  BY DEF CatalogRow
<1> QED BY <1>1, <1>2, <1>3, <1>4

LEMMA InitIInv == TemplatesInit => TemplatesInv
<1> SUFFICES ASSUME TemplatesInit PROVE TemplatesInv
  OBVIOUS
<1>1. catalog \in [Codes -> CatalogRow]
  BY DEF TemplatesInit, CatalogRow
<1>2. TemplatesTypeOK
  BY <1>1 DEF TemplatesInit, TemplatesTypeOK, RowOK, EditOK, NoEdit
<1>3. ASSUME NEW c \in Codes PROVE Follows(c)
  <2>1. catalog[c].row <=> c \in Builtin
    BY DEF TemplatesInit
  <2>2. catalog[c].on
    BY DEF TemplatesInit
  <2>3. inUse[c] = {} /\ written[c] = IF c \in Builtin THEN InCode ELSE Unknown
    BY DEF TemplatesInit
  <2> QED BY <2>1, <2>2, <2>3 DEF Follows, resolve_template, Known, _template_from_row
<1> QED BY <1>2, <1>3 DEF TemplatesInv

\* One code is written: its row says what `written' says.
LEMMA Writes ==
  ASSUME TemplatesInv, NEW c \in Codes, NEW on \in BOOLEAN, NEW n \in Nat, NEW S, NEW w,
         catalog' \in [Codes -> CatalogRow], catalog'[c].row, catalog'[c].on = on,
         \A d \in Codes \ {c} : catalog'[d] = catalog[d],
         versions' = [versions EXCEPT ![c] = n], inUse' = [inUse EXCEPT ![c] = S],
         written' = [written EXCEPT ![c] = w], S = {} \/ \E v \in Nat : S = {v},
         w = IF ~on THEN Off
             ELSE IF S # {} THEN Max(S) ELSE IF c \in Builtin THEN InCode ELSE Unknown,
         DOMAIN edits' = Editors, DOMAIN letters' = Letters, \A e \in Editors : EditOK(e)'
  PROVE  TemplatesInv'
<1>1. /\ versions'[c] = n /\ inUse'[c] = S /\ written'[c] = w
      /\ \A d \in Codes \ {c} : /\ versions'[d] = versions[d]
                                /\ inUse'[d] = inUse[d] /\ written'[d] = written[d]
      /\ versions' \in [Codes -> Nat] /\ inUse' \in [Codes -> SUBSET Nat] /\ DOMAIN written' = Codes
  BY DEF TemplatesInv, TemplatesTypeOK
<1>2. \A d \in Codes : RowOK(d)'
  BY <1>1 DEF TemplatesInv, TemplatesTypeOK, RowOK
<1>3. TemplatesTypeOK'
  BY <1>1, <1>2 DEF TemplatesTypeOK
<1>4. Follows(c)'
  BY <1>1 DEF Follows, resolve_template, Known, _template_from_row
<1>5. ASSUME NEW d \in Codes \ {c} PROVE Follows(d)'
  BY <1>1, <1>5 DEF TemplatesInv, Follows, resolve_template, Known, _template_from_row
<1> QED BY <1>3, <1>4, <1>5 DEF TemplatesInv

\* A request or a mail moves and nothing is written.
LEMMA WritesNothing ==
  ASSUME TemplatesInv, UNCHANGED <<catalog, versions, inUse, written>>,
         DOMAIN edits' = Editors, DOMAIN letters' = Letters, \A e \in Editors : EditOK(e)'
  PROVE  TemplatesInv'
<1>1. TemplatesTypeOK'
  BY DEF TemplatesInv, TemplatesTypeOK, RowOK
<1>2. ASSUME NEW c \in Codes PROVE Follows(c)'
  BY <1>2 DEF TemplatesInv, Follows, resolve_template, Known, _template_from_row
<1> QED BY <1>1, <1>2 DEF TemplatesInv

LEMMA EditMoves ==
  ASSUME TemplatesInv, NEW e \in Editors, NEW what, edits' = [edits EXCEPT ![e] = what],
         what.at \in {"update", "disable", "test", "rollback"} => what.code \in Codes,
         what.at = "rollback" => what.v \in Nat
  PROVE  DOMAIN edits' = Editors /\ \A d \in Editors : EditOK(d)'
<1>1. edits'[e] = what /\ \A d \in Editors \ {e} : edits'[d] = edits[d]
  BY DEF TemplatesInv, TemplatesTypeOK
<1>2. EditOK(e)'
  BY <1>1 DEF EditOK
<1>3. ASSUME NEW d \in Editors \ {e} PROVE EditOK(d)'
  BY <1>1, <1>3 DEF TemplatesInv, TemplatesTypeOK, EditOK
<1> QED BY <1>2, <1>3 DEF TemplatesInv, TemplatesTypeOK

LEMMA BeginStep ==
  ASSUME TemplatesInv, NEW e \in Editors, NEW c \in Codes, EditBegins(e, c)
  PROVE  TemplatesInv'
<1>1. PICK what : /\ edits' = [edits EXCEPT ![e] = what] /\ what.code = c
                  /\ what.at = "rollback" => what.v \in Nat
                  /\ UNCHANGED <<catalog, versions, inUse, letters, written>>
  <2>1. ASSUME NEW a \in {"update", "disable", "test"}, _load_template(e, c, [at |-> a, code |-> c])
        PROVE  \E what : /\ edits' = [edits EXCEPT ![e] = what] /\ what.code = c
                         /\ what.at = "rollback" => what.v \in Nat
                         /\ UNCHANGED <<catalog, versions, inUse, letters, written>>
    <3> DEFINE x == [at |-> a, code |-> c]
    <3>1. x.code = c /\ x.at # "rollback"
      BY <2>1
    <3>2. edits' = [edits EXCEPT ![e] = x] /\ UNCHANGED <<catalog, versions, inUse, letters, written>>
      BY <2>1 DEF _load_template
    <3> HIDE DEF x
    <3> QED BY <3>1, <3>2
  <2>2. ASSUME NEW v \in 1 .. versions[c],
               _load_template(e, c, [at |-> "rollback", code |-> c, v |-> v])
        PROVE  \E what : /\ edits' = [edits EXCEPT ![e] = what] /\ what.code = c
                         /\ what.at = "rollback" => what.v \in Nat
                         /\ UNCHANGED <<catalog, versions, inUse, letters, written>>
    <3> DEFINE x == [at |-> "rollback", code |-> c, v |-> v]
    <3>1. x.code = c /\ x.v \in Nat
      BY <2>2 DEF TemplatesInv, TemplatesTypeOK, RowOK
    <3>2. edits' = [edits EXCEPT ![e] = x] /\ UNCHANGED <<catalog, versions, inUse, letters, written>>
      BY <2>2 DEF _load_template
    <3> HIDE DEF x
    <3> QED BY <3>1, <3>2
  <2> QED BY <2>1, <2>2 DEF EditBegins
<1>2. DOMAIN edits' = Editors /\ \A d \in Editors : EditOK(d)'
  BY <1>1, EditMoves
<1>3. DOMAIN letters' = Letters
  BY <1>1 DEF TemplatesInv, TemplatesTypeOK
<1> QED BY <1>1, <1>2, <1>3, WritesNothing

\* The request is over, whatever it did.
LEMMA EditEnds ==
  ASSUME TemplatesInv, NEW e \in Editors, edits' = [edits EXCEPT ![e] = NoEdit]
  PROVE  DOMAIN edits' = Editors /\ \A d \in Editors : EditOK(d)'
<1>1. NoEdit.at = "idle"
  BY DEF NoEdit
<1> QED BY <1>1, EditMoves

LEMMA Updates ==
  ASSUME TemplatesInv, NEW e \in Editors, update_email_template(e) PROVE TemplatesInv'
<1> DEFINE c == edits[e].code  n == versions[c] + 1
<1>1. c \in Codes /\ n \in Nat /\ catalog[c].row
  BY DEF update_email_template, Enabled, TemplatesInv, TemplatesTypeOK, EditOK, RowOK
<1>2. /\ catalog' \in [Codes -> CatalogRow] /\ catalog'[c].row /\ catalog'[c].on = TRUE
      /\ \A d \in Codes \ {c} : catalog'[d] = catalog[d]
  <2>1. catalog' = [catalog EXCEPT ![c].on = TRUE]
    BY DEF update_email_template, Enabled
  <2> HIDE DEF c
  <2> QED BY <1>1, <2>1, SetsEnabled
<1>3. /\ versions' = [versions EXCEPT ![c] = n] /\ inUse' = [inUse EXCEPT ![c] = {n}]
      /\ written' = [written EXCEPT ![c] = n] /\ edits' = [edits EXCEPT ![e] = NoEdit]
      /\ letters' = letters
  BY DEF update_email_template, Enabled
<1>4. DOMAIN edits' = Editors /\ \A d \in Editors : EditOK(d)'
  BY <1>3, EditEnds
<1>5. Max({n}) = n /\ DOMAIN letters' = Letters
  BY <1>1, <1>3, MaxOfOne DEF TemplatesInv, TemplatesTypeOK
<1> HIDE DEF c, n
<1> QED BY <1>1, <1>2, <1>3, <1>4, <1>5, Writes

LEMMA Rollbacks ==
  ASSUME TemplatesInv, NEW e \in Editors, rollback_email_template(e) PROVE TemplatesInv'
<1> DEFINE c == edits[e].code  v == edits[e].v  n == versions[c]
<1>1. c \in Codes /\ n \in Nat /\ v \in Nat /\ catalog[c].row
  BY DEF rollback_email_template, Enabled, TemplatesInv, TemplatesTypeOK, EditOK, RowOK
<1>2. /\ catalog' \in [Codes -> CatalogRow] /\ catalog'[c].row /\ catalog'[c].on = TRUE
      /\ \A d \in Codes \ {c} : catalog'[d] = catalog[d]
  <2>1. catalog' = [catalog EXCEPT ![c].on = TRUE]
    BY DEF rollback_email_template, Enabled
  <2> HIDE DEF c
  <2> QED BY <1>1, <2>1, SetsEnabled
<1>3. /\ inUse' = [inUse EXCEPT ![c] = {v}] /\ written' = [written EXCEPT ![c] = v]
      /\ edits' = [edits EXCEPT ![e] = NoEdit] /\ UNCHANGED <<letters, versions>>
  BY DEF rollback_email_template, Enabled
<1>4. DOMAIN edits' = Editors /\ \A d \in Editors : EditOK(d)'
  BY <1>3, EditEnds
<1>5. Max({v}) = v /\ DOMAIN letters' = Letters
  BY <1>1, <1>3, MaxOfOne DEF TemplatesInv, TemplatesTypeOK
<1>6. versions' = [versions EXCEPT ![c] = n]
  BY <1>3 DEF TemplatesInv, TemplatesTypeOK
<1> HIDE DEF c, n, v
<1> QED BY <1>1, <1>2, <1>3, <1>4, <1>5, <1>6, Writes

LEMMA Disables ==
  ASSUME TemplatesInv, NEW e \in Editors, disable_email_template(e) PROVE TemplatesInv'
<1> DEFINE c == edits[e].code  n == versions[c]  S == inUse[c]
<1>1. c \in Codes /\ n \in Nat /\ catalog[c].row /\ (S = {} \/ \E v \in Nat : S = {v})
  BY DEF disable_email_template, TemplatesInv, TemplatesTypeOK, EditOK, RowOK
<1>2. /\ catalog' \in [Codes -> CatalogRow] /\ catalog'[c].row /\ catalog'[c].on = FALSE
      /\ \A d \in Codes \ {c} : catalog'[d] = catalog[d]
  <2>1. catalog' = [catalog EXCEPT ![c].on = FALSE]
    BY DEF disable_email_template
  <2> HIDE DEF c
  <2> QED BY <1>1, <2>1, SetsEnabled
<1>3. /\ written' = [written EXCEPT ![c] = Off]
      /\ edits' = [edits EXCEPT ![e] = NoEdit] /\ UNCHANGED <<letters, versions, inUse>>
  BY DEF disable_email_template
<1>4. DOMAIN edits' = Editors /\ \A d \in Editors : EditOK(d)'
  BY <1>3, EditEnds
<1>5. DOMAIN letters' = Letters
  BY <1>3 DEF TemplatesInv, TemplatesTypeOK
<1>6. versions' = [versions EXCEPT ![c] = n] /\ inUse' = [inUse EXCEPT ![c] = S]
  BY <1>3 DEF TemplatesInv, TemplatesTypeOK
<1> HIDE DEF c, n, S
<1> QED BY <1>1, <1>2, <1>3, <1>4, <1>5, <1>6, Writes

LEMMA Creates ==
  ASSUME TemplatesInv, NEW c \in Codes, create_email_template(c) PROVE TemplatesInv'
<1> catalog \in [Codes -> CatalogRow]
  BY DEF TemplatesInv, TemplatesTypeOK
<1>1. catalog[c].on
  BY DEF create_email_template, TemplatesInv, Follows
<1>2. catalog' = [catalog EXCEPT ![c].row = TRUE]
  BY DEF create_email_template
<1>3. /\ catalog' \in [Codes -> CatalogRow]
      /\ \A d \in Codes \ {c} : catalog'[d] = catalog[d]
  BY <1>2 DEF CatalogRow
<1>4. catalog'[c].row = TRUE
  BY <1>2 DEF CatalogRow
<1>5. catalog'[c].on = catalog[c].on
  BY <1>2 DEF CatalogRow
<1>6. catalog[c].on = TRUE
  BY <1>1 DEF CatalogRow
<1>7. /\ versions' = [versions EXCEPT ![c] = 1] /\ inUse' = [inUse EXCEPT ![c] = {1}]
      /\ written' = [written EXCEPT ![c] = 1] /\ UNCHANGED <<edits, letters>>
  BY DEF create_email_template
<1>8. /\ DOMAIN edits' = Editors /\ DOMAIN letters' = Letters
      /\ \A d \in Editors : EditOK(d)'
  BY <1>7 DEF TemplatesInv, TemplatesTypeOK, EditOK
<1>9. Max({1}) = 1
  BY MaxOfOne
<1> QED BY <1>3, <1>4, <1>5, <1>6, <1>7, <1>8, <1>9, Writes

LEMMA Tests ==
  ASSUME TemplatesInv, NEW e \in Editors, send_test_email_template(e)
  PROVE  /\ TemplatesInv'
         /\ edits[e].code \in Codes /\ edits'[e].body = written[edits[e].code]
         /\ \A d \in Editors \ {e} : edits'[d] = edits[d]
<1> DEFINE c == edits[e].code  x == [at |-> "tested", code |-> c, body |-> resolve_template(c)]
<1>1. c \in Codes /\ resolve_template(c) = written[c]
  BY DEF send_test_email_template, TemplatesInv, TemplatesTypeOK, EditOK, Follows
<1>2. edits' = [edits EXCEPT ![e] = x] /\ UNCHANGED <<catalog, versions, inUse, letters, written>>
  BY DEF send_test_email_template
<1>3. x.at = "tested" /\ x.body = resolve_template(c)
  OBVIOUS
<1> HIDE DEF x
<1>4. DOMAIN edits' = Editors /\ \A d \in Editors : EditOK(d)'
  BY <1>2, <1>3, EditMoves
<1>5. DOMAIN letters' = Letters
  BY <1>2 DEF TemplatesInv, TemplatesTypeOK
<1>6. edits'[e] = x /\ \A d \in Editors \ {e} : edits'[d] = edits[d]
  BY <1>2 DEF TemplatesInv, TemplatesTypeOK
<1> QED BY <1>1, <1>2, <1>3, <1>4, <1>5, <1>6, WritesNothing

LEMMA LetterMoves ==
  ASSUME TemplatesInv, NEW m \in Letters, NEW st, NEW body, LetterGoes(m, st, body)
  PROVE  /\ TemplatesInv' /\ edits' = edits
         /\ letters'[m] = [st |-> st, body |-> body]
         /\ \A l \in Letters \ {m} : letters'[l] = letters[l]
<1>1. DOMAIN letters' = Letters /\ UNCHANGED <<catalog, versions, inUse, edits, written>>
  BY DEF LetterGoes, TemplatesInv, TemplatesTypeOK
<1>2. DOMAIN edits' = Editors /\ \A d \in Editors : EditOK(d)'
  BY <1>1 DEF TemplatesInv, TemplatesTypeOK, EditOK
<1>3. TemplatesInv'
  BY <1>1, <1>2, WritesNothing
<1> QED BY <1>1, <1>3 DEF LetterGoes, TemplatesInv, TemplatesTypeOK

LEMMA LetterRenders ==
  ASSUME TemplatesInv, NEW m \in Letters, render_transactional_template(m)
  PROVE  /\ TemplatesInv' /\ edits' = edits
         /\ letters'[m].st = "rendered" => letters'[m].body = written[LetterCode[m]]
         /\ \A l \in Letters \ {m} : letters'[l] = letters[l]
<1> DEFINE c == LetterCode[m]  b == resolve_template(c)
           st == CASE b = Off -> "cancelled" [] b = Unknown -> "dead" [] OTHER -> "rendered"
           body == IF b \in {Off, Unknown} THEN InCode ELSE b
<1>1. c \in Codes /\ b = written[c]
  BY TemplateAssumption DEF TemplatesInv, Follows
<1>2. LetterGoes(m, st, body)
  BY DEF render_transactional_template
<1>3. st = "rendered" => body = b
  OBVIOUS
<1> HIDE DEF st, body, b
<1>4. /\ TemplatesInv' /\ edits' = edits
      /\ letters'[m] = [st |-> st, body |-> body]
      /\ \A l \in Letters \ {m} : letters'[l] = letters[l]
  BY <1>2, LetterMoves
<1> QED BY <1>1, <1>3, <1>4

\* What MailFollowsLastWrite says of one step.
StepFollows ==
    /\ \A m \in Letters : letters[m].st = "queued" /\ letters'[m].st = "rendered" =>
             letters'[m].body = written[LetterCode[m]]
    /\ \A e \in Editors : edits[e].at = "test" /\ edits'[e].at = "tested" =>
             edits'[e].body = written[edits[e].code]

LEMMA EditStep ==
  ASSUME TemplatesInv, NEW e \in Editors, Edits(e)
  PROVE  TemplatesInv' /\ StepFollows
<1>1. CASE EditRefused(e)
  <2>1. edits' = [edits EXCEPT ![e] = NoEdit] /\ UNCHANGED <<catalog, versions, inUse, letters, written>>
    BY <1>1 DEF EditRefused
  <2>2. DOMAIN edits' = Editors /\ \A d \in Editors : EditOK(d)'
    BY <2>1, EditEnds
  <2>3. DOMAIN letters' = Letters
    BY <2>1 DEF TemplatesInv, TemplatesTypeOK
  <2>4. TemplatesInv'
    BY <2>1, <2>2, <2>3, WritesNothing
  <2> QED BY <2>1, <2>4 DEF StepFollows, TemplatesInv, TemplatesTypeOK, NoEdit
<1>2. CASE update_email_template(e)
  <2>1. edits' = [edits EXCEPT ![e] = NoEdit] /\ letters' = letters
    BY <1>2 DEF update_email_template, Enabled
  <2> QED BY <1>2, <2>1, Updates DEF StepFollows, TemplatesInv, TemplatesTypeOK, NoEdit
<1>3. CASE rollback_email_template(e)
  <2>1. edits' = [edits EXCEPT ![e] = NoEdit] /\ letters' = letters
    BY <1>3 DEF rollback_email_template, Enabled
  <2> QED BY <1>3, <2>1, Rollbacks DEF StepFollows, TemplatesInv, TemplatesTypeOK, NoEdit
<1>4. CASE disable_email_template(e)
  <2>1. edits' = [edits EXCEPT ![e] = NoEdit] /\ letters' = letters
    BY <1>4 DEF disable_email_template
  <2> QED BY <1>4, <2>1, Disables DEF StepFollows, TemplatesInv, TemplatesTypeOK, NoEdit
<1>5. CASE send_test_email_template(e)
  <2>1. letters' = letters
    BY <1>5 DEF send_test_email_template
  <2> QED BY <1>5, <2>1, Tests DEF StepFollows
<1> QED BY <1>1, <1>2, <1>3, <1>4, <1>5 DEF Edits

LEMMA NextIInv == ASSUME TemplatesInv, [TemplatesNext]_templateVars PROVE TemplatesInv' /\ [StepFollows]_templateVars
<1>1. CASE UNCHANGED templateVars
  <2>1. DOMAIN edits' = Editors /\ DOMAIN letters' = Letters /\ \A d \in Editors : EditOK(d)'
    BY <1>1 DEF templateVars, TemplatesInv, TemplatesTypeOK, EditOK
  <2> QED BY <1>1, <2>1, WritesNothing DEF templateVars
<1>2. ASSUME NEW e \in Editors, Edits(e) PROVE TemplatesInv' /\ StepFollows
  BY <1>2, EditStep
<1>3. ASSUME NEW e \in Editors, NEW c \in Codes, EditBegins(e, c) PROVE TemplatesInv' /\ StepFollows
  <2>1. letters' = letters /\ edits[e] = NoEdit /\ \A d \in Editors \ {e} : edits'[d] = edits[d]
    BY <1>3 DEF EditBegins, _load_template, TemplatesInv, TemplatesTypeOK
  <2> QED BY <1>3, <2>1, BeginStep DEF StepFollows, NoEdit
<1>4. ASSUME NEW c \in Codes, create_email_template(c) PROVE TemplatesInv' /\ StepFollows
  <2>1. UNCHANGED <<edits, letters>>
    BY <1>4 DEF create_email_template
  <2> QED BY <1>4, <2>1, Creates DEF StepFollows
<1>5. ASSUME NEW m \in Letters, send_template_email(m) \/ QueueBuiltin(m) PROVE TemplatesInv' /\ StepFollows
  <2>1. LetterGoes(m, "queued", InCode)
    BY <1>5 DEF send_template_email, QueueBuiltin
  <2>2. /\ TemplatesInv' /\ edits' = edits /\ letters'[m] = [st |-> "queued", body |-> InCode]
        /\ \A l \in Letters \ {m} : letters'[l] = letters[l]
    BY <2>1, LetterMoves
  <2> QED BY <2>2 DEF StepFollows
<1>6. ASSUME NEW m \in Letters, render_transactional_template(m) PROVE TemplatesInv' /\ StepFollows
  BY <1>6, LetterRenders DEF StepFollows
<1> QED BY <1>1, <1>2, <1>3, <1>4, <1>5, <1>6 DEF TemplatesNext

\* Whatever editors write between the queueing of a mail and its rendering, the mail
\* has the body the last save or rollback named and is not sent when that write was
\* a disabling, for any number of editors, versions and mails (resolve_template,
\* sp_email_template_save_version, sp_email_template_rollback).
THEOREM MailIsCurrent == TemplatesSpec => MailFollowsLastWrite
<1>1. TemplatesInv /\ [TemplatesNext]_templateVars => TemplatesInv' /\ [StepFollows]_templateVars
  BY NextIInv
<1> QED BY <1>1, InitIInv, PTL DEF TemplatesSpec, MailFollowsLastWrite, StepFollows

-----------------------------------------------------------------------------
(* The counters of failed sign-ins and of calls (RateLimits). *)

CallBuckets == Buckets \ {"identifier", "account"}
ActorState == [at : {"idle", "admit", "check", "verify", "incr", "ttl", "return"}, todo : Seq(Buckets),
          mode : {"stop", "all", "record"}, seen : Nat, over : BOOLEAN]

\* A job counts the two buckets of failed sign-ins and holds a place of the pool
\* while it works; no other request counts those buckets.
AccountOnly == <<"account">>
JobFits(a, s, P) ==
    /\ s.at \in {"incr", "ttl"} => s.mode = "record" /\ s.todo \in {LoginBuckets, AccountOnly}
    /\ s.at # "idle" => a \in P
CallFits(s) ==
    /\ s.at \in {"idle", "incr", "ttl"}
    /\ s.at # "idle" => s.todo \in Seq(CallBuckets) /\ s.todo # << >>
ActorFits(a, s, P) == (a \in Jobs => JobFits(a, s, P)) /\ (a \in Calls => CallFits(s))

LimitsTypeOK ==
    /\ actor \in [Actors -> ActorState] /\ count \in [Buckets -> Nat] /\ faults \in Nat
    /\ expires \in SUBSET Buckets /\ pool \in SUBSET Jobs
JobsPlaced ==
    /\ Cardinality(pool) <= Slots
    /\ \A a \in Actors : ActorFits(a, actor[a], pool)

\* Past the check, and bucket i of LoginBuckets still to be incremented.
Owes(i, s) ==
    \/ s.at = "verify"
    \/ s.at \in {"incr", "ttl"} /\ s.todo = LoginBuckets /\ (i = 1 => s.at = "incr")
    \/ i = 2 /\ s.at = "incr" /\ s.todo = AccountOnly
Owing(i) == {a \in Jobs : Owes(i, actor[a])}
Reserve(i) == count[LoginBuckets[i]] + Cardinality(Owing(i)) <= Limit[LoginBuckets[i]] + Slots - 1

\* Between the two commands on bucket b.
Between(b) == {a \in Actors : At(a, "ttl") /\ Head(actor[a].todo) = b}
Repairable(b) == b \in expires \/ count[b] <= faults * Slots + Cardinality(Between(b))

LimitsTInv == LimitsTypeOK /\ JobsPlaced
LimitsIInv == LimitsTInv /\ (\A i \in 1 .. 2 : Reserve(i)) /\ \A b \in Buckets : Repairable(b)

-----------------------------------------------------------------------------
LEMMA LoginFacts ==
  /\ LoginBuckets[1] = "identifier" /\ LoginBuckets[2] = "account"
  /\ LoginBuckets \in Seq(Buckets) /\ Len(LoginBuckets) = 2
  /\ Head(LoginBuckets) = "identifier" /\ Tail(LoginBuckets) = AccountOnly
  /\ AccountOnly \in Seq(Buckets) /\ Len(AccountOnly) = 1 /\ Head(AccountOnly) = "account"
  /\ LoginBuckets # AccountOnly
  /\ \A i \in 1 .. 2 : /\ LoginBuckets[i] \in Buckets /\ Limit[LoginBuckets[i]] \in Nat \ {0}
                       /\ LoginBuckets[i] \in {"identifier", "account"}
  BY LimitAssumption DEF LoginBuckets, AccountOnly, Buckets

LEMMA AfterFirst ==
  ASSUME NEW q \in {LoginBuckets, AccountOnly}, Len(q) > 1
  PROVE  q = LoginBuckets /\ Tail(q) = AccountOnly
<1>1. Len(AccountOnly) = 1 /\ Tail(LoginBuckets) = AccountOnly
  BY LoginFacts
<1>2. q # AccountOnly
  BY <1>1
<1> QED BY <1>1, <1>2, Zenon

LEMMA SeqFacts ==
  ASSUME NEW S, NEW q \in Seq(S), q # << >>
  PROVE  Head(q) \in S /\ (Len(q) > 1 => Tail(q) \in Seq(S) /\ Tail(q) # << >>)
<1>1. Len(q) \in Nat /\ Len(q) # 0
  OBVIOUS
<1>2. Head(q) = q[1] /\ q[1] \in S
  BY <1>1
<1>3. ASSUME Len(q) > 1 PROVE Tail(q) \in Seq(S) /\ Tail(q) # << >>
  <2>1. Tail(q) \in Seq(S) /\ Len(Tail(q)) = Len(q) - 1
    BY <1>1
  <2>2. \A n \in Nat : n > 1 => n - 1 # 0
    OBVIOUS
  <2>3. Len(Tail(q)) # 0
    BY <1>1, <1>3, <2>1, <2>2, Zenon
  <2>4. Len(<< >>) = 0
    OBVIOUS
  <2> QED BY <2>1, <2>3, <2>4
<1> QED BY <1>2, <1>3

LEMMA FiniteFacts ==
  /\ IsFiniteSet(Jobs) /\ IsFiniteSet(Actors)
  /\ \A S \in SUBSET Actors : IsFiniteSet(S) /\ Cardinality(S) \in Nat
  /\ \A S, T \in SUBSET Actors : S \subseteq T => Cardinality(S) <= Cardinality(T)
<1>1. IsFiniteSet(Actors)
  BY ActorAssumption DEF Actors
<1>2. ASSUME NEW S \in SUBSET Actors PROVE IsFiniteSet(S) /\ Cardinality(S) \in Nat
  BY <1>1, FS_Subset, FS_CardinalityType
<1>3. ASSUME NEW S \in SUBSET Actors, NEW T \in SUBSET Actors, S \subseteq T
      PROVE  Cardinality(S) <= Cardinality(T)
  BY <1>2, <1>3, FS_Subset
<1>4. Jobs \in SUBSET Actors
  BY DEF Actors
<1> QED BY <1>1, <1>2, <1>3, <1>4

LEMMA Adding ==
  ASSUME NEW S \in SUBSET Actors, NEW a \in Actors
  PROVE  /\ a \notin S => Cardinality(S \cup {a}) = Cardinality(S) + 1
         /\ Cardinality(S \cup {a}) <= Cardinality(S) + 1
         /\ a \in S => Cardinality(S \ {a}) = Cardinality(S) - 1
         /\ Cardinality(S) <= Cardinality(S \ {a}) + 1
<1>1. IsFiniteSet(S) /\ Cardinality(S) \in Nat
  BY FiniteFacts
<1>2. Cardinality(S \cup {a}) = IF a \in S THEN Cardinality(S) ELSE Cardinality(S) + 1
  BY <1>1, FS_AddElement
<1>3. Cardinality(S \ {a}) = IF a \in S THEN Cardinality(S) - 1 ELSE Cardinality(S)
  BY <1>1, FS_RemoveElement
<1> QED BY <1>1, <1>2, <1>3

\* Slots is not zero: a fault is worth at least one increment.
LEMMA FaultsCount ==
  ASSUME NEW n \in Nat
  PROVE  /\ n * Slots \in Nat /\ (n + 1) * Slots = n * Slots + Slots /\ Slots \in Nat /\ Slots >= 1
  BY LimitAssumption

LEMMA LimitsInitInv == LimitsInit => LimitsIInv
<1> SUFFICES ASSUME LimitsInit PROVE LimitsIInv
  OBVIOUS
<1>1. Resting \in ActorState /\ Resting.at = "idle"
  BY DEF Resting, ActorState
<1>2. actor = [a \in Actors |-> Resting] /\ count = [b \in Buckets |-> 0] /\ faults = 0 /\ pool = {} /\ expires = {}
  BY DEF LimitsInit
<1>3. LimitsTypeOK
  BY <1>1, <1>2 DEF LimitsTypeOK
<1>4. JobsPlaced
  BY <1>1, <1>2, LimitAssumption, FS_EmptySet DEF JobsPlaced, ActorFits, JobFits, CallFits
<1>5. ASSUME NEW i \in 1 .. 2 PROVE Reserve(i)
  <2>1. Owing(i) = {}
    BY <1>1, <1>2 DEF Owing, Owes, Actors
  <2>2. LoginBuckets[i] \in Buckets
    BY LoginFacts, LimitAssumption DEF Buckets
  <2> QED BY <1>2, <2>1, <2>2, FS_EmptySet, LimitAssumption DEF Reserve, Buckets
<1>6. ASSUME NEW b \in Buckets PROVE Repairable(b)
  <2>1. Cardinality(Between(b)) \in Nat
    BY FiniteFacts DEF Between
  <2> QED BY <1>2, <2>1, FaultsCount DEF Repairable
<1> QED BY <1>3, <1>4, <1>5, <1>6 DEF LimitsIInv, LimitsTInv

-----------------------------------------------------------------------------
(* One request moves *)

LEMMA Moved ==
  ASSUME LimitsTypeOK, NEW a \in Actors, NEW s \in ActorState, Moves(a, s)
  PROVE  /\ actor' \in [Actors -> ActorState] /\ actor'[a] = s
         /\ \A c \in Actors \ {a} : actor'[c] = actor[c]
  BY DEF LimitsTypeOK, Moves

\* It still fits its place, and the counters keep their types.
LEMMA TypeMoves ==
  ASSUME LimitsTInv, NEW a \in Actors, NEW s \in ActorState, Moves(a, s), ActorFits(a, s, pool'),
         count' \in [Buckets -> Nat], expires' \in SUBSET Buckets, faults' \in Nat,
         pool' \in SUBSET Jobs, Cardinality(pool') <= Slots, pool \ {a} \subseteq pool'
  PROVE  LimitsTInv'
<1>1. /\ actor' \in [Actors -> ActorState] /\ actor'[a] = s
      /\ \A c \in Actors \ {a} : actor'[c] = actor[c]
  BY Moved DEF LimitsTInv
<1>2. ASSUME NEW c \in Actors PROVE ActorFits(c, actor'[c], pool')
  BY <1>1 DEF LimitsTInv, JobsPlaced, ActorFits, JobFits
<1> QED BY <1>1, <1>2 DEF LimitsTInv, LimitsTypeOK, JobsPlaced

\* It owes no more than before.
LEMMA OwesLess ==
  ASSUME LimitsTInv, NEW a \in Actors, NEW s \in ActorState, Moves(a, s), NEW i \in 1 .. 2, Reserve(i),
         a \in Jobs /\ Owes(i, s) => Owes(i, actor[a]),
         count'[LoginBuckets[i]] = count[LoginBuckets[i]]
  PROVE  Reserve(i)'
<1>1. actor'[a] = s /\ \A c \in Actors \ {a} : actor'[c] = actor[c]
  BY Moved DEF LimitsTInv
<1>2. Owing(i)' = {c \in Jobs : Owes(i, actor'[c])}
  BY DEF Owing, Owes
<1>3. Owing(i)' \subseteq Owing(i)
  BY <1>1, <1>2 DEF Owing, Actors
<1>4. Owing(i) \in SUBSET Actors /\ Owing(i)' \in SUBSET Actors
  BY <1>2, <1>3 DEF Owing, Actors
<1>5. /\ Cardinality(Owing(i)') <= Cardinality(Owing(i))
      /\ Cardinality(Owing(i)') \in Nat /\ Cardinality(Owing(i)) \in Nat
  BY <1>3, <1>4, FiniteFacts
<1>6. count[LoginBuckets[i]] \in Nat /\ Limit[LoginBuckets[i]] \in Nat /\ Slots \in Nat
  BY LoginFacts, LimitAssumption DEF LimitsTInv, LimitsTypeOK
<1>7. Reserve(i)' <=> count'[LoginBuckets[i]] + Cardinality(Owing(i)') <= Limit[LoginBuckets[i]] + Slots - 1
  BY DEF Reserve, LoginBuckets
<1> QED BY <1>5, <1>6, <1>7 DEF Reserve

\* It is not between two commands, before or after.
LEMMA BetweenStays ==
  ASSUME LimitsTInv, NEW a \in Actors, NEW s \in ActorState, Moves(a, s), NEW b \in Buckets, Repairable(b),
         s.at = "ttl" => Head(s.todo) # b, actor[a].at = "ttl" => Head(actor[a].todo) # b,
         b \in expires => b \in expires' \/ count'[b] = 0,
         count'[b] = count[b] \/ count'[b] = 0 \/ b \in expires', faults' = faults
  PROVE  Repairable(b)'
<1>1. actor'[a] = s /\ \A c \in Actors \ {a} : actor'[c] = actor[c]
  BY Moved DEF LimitsTInv
<1>2. Between(b)' = Between(b)
  BY <1>1 DEF Between, At
<1>3. Cardinality(Between(b)) \in Nat
  BY FiniteFacts DEF Between
<1>4. faults * Slots \in Nat
  BY FaultsCount DEF LimitsTInv, LimitsTypeOK
<1> QED BY <1>2, <1>3, <1>4 DEF Repairable

LEMMA OwingHoldsPlaces ==
  ASSUME LimitsTInv, NEW i \in 1 .. 2
  PROVE  Owing(i) \subseteq pool /\ Cardinality(Owing(i)) \in Nat /\ Cardinality(Owing(i)) <= Slots
<1>1. Owing(i) \subseteq pool
  BY DEF LimitsTInv, JobsPlaced, ActorFits, JobFits, Owing, Owes, Actors
<1>2. pool \in SUBSET Actors /\ Owing(i) \in SUBSET Actors
  BY <1>1 DEF LimitsTInv, LimitsTypeOK, Actors
<1>3. /\ Cardinality(Owing(i)) \in Nat /\ Cardinality(pool) \in Nat
      /\ Cardinality(Owing(i)) <= Cardinality(pool)
  BY <1>1, <1>2, FiniteFacts
<1> QED BY <1>1, <1>3, LimitAssumption DEF LimitsTInv, JobsPlaced

\* Nothing the invariant speaks of changes.
LEMMA Stays ==
  ASSUME LimitsIInv, UNCHANGED <<count, expires, actor, pool, faults>> PROVE LimitsIInv'
<1>1. LimitsTInv'
  BY DEF LimitsIInv, LimitsTInv, LimitsTypeOK, JobsPlaced, ActorFits
<1>2. \A i \in 1 .. 2 : Reserve(i)'
  BY DEF LimitsIInv, Reserve, Owing
<1>3. \A b \in Buckets : Repairable(b)'
  BY DEF LimitsIInv, Repairable, Between, At
<1> QED BY <1>1, <1>2, <1>3 DEF LimitsIInv

\* A move that neither owes more, nor starts or ends a count, nor changes the
\* counters of failed sign-ins.
LEMMA QuietMove ==
  ASSUME LimitsIInv, NEW a \in Actors, NEW s \in ActorState, Moves(a, s), ActorFits(a, s, pool'),
         count' \in [Buckets -> Nat], expires' \in SUBSET Buckets, faults' = faults,
         pool' \in SUBSET Jobs, Cardinality(pool') <= Slots, pool \ {a} \subseteq pool',
         \A i \in 1 .. 2 : /\ a \in Jobs /\ Owes(i, s) => Owes(i, actor[a])
                           /\ count'[LoginBuckets[i]] = count[LoginBuckets[i]],
         s.at # "ttl", actor[a].at # "ttl", expires \subseteq expires',
         \A b \in Buckets : count'[b] = count[b] \/ b \in expires'
  PROVE  LimitsIInv'
<1>1. LimitsTInv'
  BY TypeMoves DEF LimitsIInv, LimitsTInv, LimitsTypeOK
<1>2. \A i \in 1 .. 2 : Reserve(i)'
  BY OwesLess DEF LimitsIInv
<1>3. \A b \in Buckets : Repairable(b)'
  BY BetweenStays DEF LimitsIInv
<1> QED BY <1>1, <1>2, <1>3 DEF LimitsIInv

-----------------------------------------------------------------------------
(* A counter *)

LEMMA IncrInv == ASSUME LimitsIInv, NEW a \in Actors, Incr(a) PROVE LimitsIInv'
<1> DEFINE t == actor[a]
           b == Head(t.todo)
           s == [t EXCEPT !.at = "ttl", !.seen = count'[b]]
<1>1. /\ t \in ActorState /\ t.at = "incr" /\ count \in [Buckets -> Nat] /\ ActorFits(a, t, pool)
      /\ count' = [count EXCEPT ![b] = @ + 1] /\ Moves(a, s)
      /\ UNCHANGED <<expires, pool, faults>>
  BY DEF Incr, At, LimitsIInv, LimitsTInv, LimitsTypeOK, JobsPlaced
<1>2. /\ b \in Buckets
      /\ a \in Jobs => \/ t.todo = LoginBuckets /\ b = "identifier"
                       \/ t.todo = AccountOnly /\ b = "account"
      /\ a \notin Jobs => b \notin {"identifier", "account"}
  <2>1. CASE a \in Jobs
    BY <1>1, <2>1, LoginFacts, ActorAssumption, LimitAssumption DEF ActorFits, JobFits, Buckets
  <2>2. CASE a \in Calls
    <3>1. t.todo \in Seq(CallBuckets) /\ t.todo # << >>
      BY <1>1, <2>2 DEF ActorFits, CallFits
    <3>2. b \in CallBuckets
      BY <3>1
    <3> QED BY <2>2, <3>2, ActorAssumption DEF CallBuckets
  <2> QED BY <2>1, <2>2 DEF Actors
<1>3. /\ count' \in [Buckets -> Nat] /\ count'[b] = count[b] + 1 /\ count[b] \in Nat
      /\ \A c \in Buckets \ {b} : count'[c] = count[c]
  BY <1>1, <1>2
<1>4. s \in ActorState /\ s.at = "ttl" /\ s.todo = t.todo /\ s.mode = t.mode
  BY <1>1, <1>2, <1>3 DEF ActorState
<1> HIDE DEF s
<1>5. ActorFits(a, s, pool)
  BY <1>1, <1>4 DEF ActorFits, JobFits, CallFits
<1>6. LimitsTInv /\ LimitsTypeOK /\ Cardinality(pool) <= Slots
  BY DEF LimitsIInv, LimitsTInv, JobsPlaced
<1>7. LimitsTInv'
  BY <1>1, <1>3, <1>4, <1>5, <1>6, TypeMoves DEF LimitsTypeOK
<1>8. actor'[a] = s /\ \A c \in Actors \ {a} : actor'[c] = actor[c]
  BY <1>1, <1>4, <1>6, Moved
<1>9. ASSUME NEW i \in 1 .. 2 PROVE Reserve(i)'
  <2>1. CASE b # LoginBuckets[i]
    <3>1. count'[LoginBuckets[i]] = count[LoginBuckets[i]]
      BY <1>3, <2>1, LoginFacts
    <3>2. a \in Jobs /\ Owes(i, s) => Owes(i, t)
      BY <1>1, <1>4 DEF Owes
    <3> QED BY <1>1, <1>4, <1>6, <3>1, <3>2, OwesLess DEF LimitsIInv
  <2>2. CASE b = LoginBuckets[i]
    <3>1. a \in Jobs /\ Owes(i, t) /\ ~Owes(i, s)
      BY <1>1, <1>2, <1>4, <2>2, LoginFacts DEF Owes
    <3>2. Owing(i)' = {c \in Jobs : Owes(i, actor'[c])}
      BY DEF Owing, Owes
    <3>3. Owing(i)' = Owing(i) \ {a} /\ a \in Owing(i) /\ Owing(i) \in SUBSET Actors
      BY <1>8, <3>1, <3>2 DEF Owing, Actors
    <3>4. Cardinality(Owing(i)') = Cardinality(Owing(i)) - 1
      BY <3>3, Adding
    <3>5. Cardinality(Owing(i)) \in Nat /\ Limit[LoginBuckets[i]] \in Nat /\ Slots \in Nat /\ Reserve(i)
      BY <3>3, FiniteFacts, LoginFacts, LimitAssumption DEF LimitsIInv
    <3>6. Reserve(i)' <=> count'[LoginBuckets[i]] + Cardinality(Owing(i)') <= Limit[LoginBuckets[i]] + Slots - 1
      BY DEF Reserve, LoginBuckets
    <3>7. count'[LoginBuckets[i]] = count[LoginBuckets[i]] + 1 /\ count[LoginBuckets[i]] \in Nat
      BY <1>3, <2>2
    <3> HIDE DEF b
    <3> QED BY <3>4, <3>5, <3>6, <3>7 DEF Reserve
  <2> QED BY <2>1, <2>2
<1>10. ASSUME NEW c \in Buckets PROVE Repairable(c)'
  <2>1. CASE c # b
    BY <1>1, <1>3, <1>4, <1>6, <2>1, BetweenStays DEF LimitsIInv
  <2>2. CASE c = b
    <3>1. Between(c)' = Between(c) \cup {a} /\ a \notin Between(c) /\ Between(c) \in SUBSET Actors
      BY <1>1, <1>4, <1>8, <2>2 DEF Between, At
    <3>2. Cardinality(Between(c)') = Cardinality(Between(c)) + 1 /\ Cardinality(Between(c)) \in Nat
      BY <3>1, Adding, FiniteFacts
    <3>3. Repairable(c) /\ faults * Slots \in Nat
      BY FaultsCount DEF LimitsIInv, LimitsTInv, LimitsTypeOK
    <3> QED BY <1>1, <1>3, <2>2, <3>2, <3>3 DEF Repairable
  <2> QED BY <2>1, <2>2
<1> QED BY <1>7, <1>9, <1>10 DEF LimitsIInv

LEMMA ConsumeInv == ASSUME LimitsIInv, NEW a \in Actors, _consume_bucket(a) PROVE LimitsIInv'
<1> DEFINE t == actor[a]
           b == Head(t.todo)
<1>1. /\ t \in ActorState /\ t.at = "ttl" /\ ActorFits(a, t, pool) /\ UNCHANGED <<count, pool, faults>>
      /\ expires' = Expiry(b, t.seen)
  BY DEF _consume_bucket, At, LimitsIInv, LimitsTInv, LimitsTypeOK, JobsPlaced
<1>2. a \in Jobs => t.mode = "record" /\ t.todo \in {LoginBuckets, AccountOnly}
  BY <1>1 DEF ActorFits, JobFits
<1>3. a \in Calls => a \notin Jobs /\ t.todo \in Seq(CallBuckets) /\ t.todo # << >>
  BY <1>1, ActorAssumption DEF ActorFits, CallFits
<1>4. b \in Buckets
  <2>1. CASE a \in Jobs
    BY <1>2, <2>1, LoginFacts, LimitAssumption DEF Buckets
  <2>2. CASE a \in Calls
    BY <1>3, <2>2, SeqFacts DEF CallBuckets
  <2> QED BY <2>1, <2>2 DEF Actors
<1>5. PICK s \in ActorState :
         /\ Moves(a, s) /\ s.at # "ttl"
         /\ s.at = "incr" => s.todo = Tail(t.todo) /\ Len(t.todo) > 1 /\ s.mode = t.mode
         /\ s.at \in {"idle", "incr", "return"} /\ (s.at = "return" => a \in Jobs)
  <2>1. CASE Ends(a)
    <3>1. Resting \in ActorState /\ Resting.at = "idle"
      BY DEF Resting, ActorState
    <3> QED BY <2>1, <3>1 DEF Ends
  <2>2. CASE a \in Jobs /\ Moves(a, [t EXCEPT !.at = "return"])
    BY <1>1, <2>2 DEF ActorState
  <2>3. ASSUME NEW full \in BOOLEAN, Len(t.todo) > 1,
               Moves(a, [t EXCEPT !.at = "incr", !.todo = Tail(@), !.over = @ \/ full])
        PROVE  \E s \in ActorState : /\ Moves(a, s) /\ s.at = "incr" /\ s.todo = Tail(t.todo) /\ s.mode = t.mode
    <3>1. Tail(t.todo) \in Seq(Buckets) /\ (t.over \/ full) \in BOOLEAN
      BY <1>1, <2>3 DEF ActorState
    <3> DEFINE q == Tail(t.todo)
               o == t.over \/ full
               s == [t EXCEPT !.at = "incr", !.todo = q, !.over = o]
    <3>2. s \in ActorState /\ s.at = "incr" /\ s.todo = q /\ s.mode = t.mode
      <4>1. o \in BOOLEAN /\ q \in Seq(Buckets) /\ t \in ActorState
        BY <1>1, <3>1
      <4> HIDE DEF o, q, t
      <4> QED BY <4>1 DEF ActorState
    <3>3. Moves(a, s)
      BY <2>3
    <3> QED BY <3>2, <3>3
  <2>4. \/ Ends(a) \/ (a \in Jobs /\ Moves(a, [t EXCEPT !.at = "return"]))
        \/ \E full \in BOOLEAN : /\ Len(t.todo) > 1
                                 /\ Moves(a, [t EXCEPT !.at = "incr", !.todo = Tail(@), !.over = @ \/ full])
    BY Zenon DEF _consume_bucket
  <2> QED BY <2>1, <2>2, <2>3, <2>4
<1>6. ActorFits(a, s, pool)
  <2>1. CASE a \in Jobs
    <3>1. s.at = "incr" => t.todo = LoginBuckets /\ s.todo = AccountOnly /\ s.mode = "record"
      BY <1>2, <1>5, <2>1, AfterFirst
    <3>2. a \in pool /\ a \notin Calls
      BY <1>1, <2>1, ActorAssumption DEF ActorFits, JobFits
    <3> QED BY <1>5, <2>1, <3>1, <3>2 DEF ActorFits, JobFits
  <2>2. CASE a \in Calls
    <3>1. s.at = "incr" => s.todo \in Seq(CallBuckets) /\ s.todo # << >>
      BY <1>3, <1>5, <2>2, SeqFacts
    <3> QED BY <1>3, <1>5, <2>2, <3>1 DEF ActorFits, CallFits
  <2> QED BY <2>1, <2>2 DEF Actors
<1>7. expires \subseteq expires' /\ expires' \in SUBSET Buckets /\ (b \in expires' \/ count[b] = 0)
  <2>1. expires \in SUBSET Buckets /\ count[b] \in Nat
    BY <1>4 DEF LimitsIInv, LimitsTInv, LimitsTypeOK
  <2> HIDE DEF b
  <2> QED BY <1>1, <1>4, <2>1 DEF Expiry
<1>8. LimitsTInv /\ LimitsTypeOK /\ Cardinality(pool) <= Slots
  BY DEF LimitsIInv, LimitsTInv, JobsPlaced
<1>9. LimitsTInv'
  BY <1>1, <1>5, <1>6, <1>7, <1>8, TypeMoves DEF LimitsTypeOK
<1>10. ASSUME NEW i \in 1 .. 2 PROVE Reserve(i)'
  <2>1. a \in Jobs /\ Owes(i, s) => Owes(i, t)
    <3>1. a \in Jobs /\ s.at = "incr" => t.todo = LoginBuckets /\ s.todo = AccountOnly
      BY <1>2, <1>5, AfterFirst
    <3> QED BY <1>1, <1>5, <3>1, LoginFacts DEF Owes
  <2> QED BY <1>1, <1>5, <1>8, <2>1, OwesLess DEF LimitsIInv
<1>11. ASSUME NEW c \in Buckets PROVE Repairable(c)'
  <2>1. CASE c # b
    BY <1>1, <1>5, <1>7, <1>8, <2>1, BetweenStays DEF LimitsIInv
  <2>2. CASE c = b
    <3>1. Cardinality(Between(c)') \in Nat
      <4>1. Between(c)' \in SUBSET Actors
        BY DEF Between
      <4> QED BY <4>1, FiniteFacts
    <3>2. faults * Slots \in Nat
      BY <1>8, FaultsCount DEF LimitsTypeOK
    <3> QED BY <1>1, <1>7, <2>2, <3>1, <3>2 DEF Repairable
  <2> QED BY <2>1, <2>2
<1> QED BY <1>9, <1>10, <1>11 DEF LimitsIInv

LEMMA WindowInv == ASSUME LimitsIInv, NEW b \in Buckets, WindowEnds(b) PROVE LimitsIInv'
<1>1. /\ expires' = expires \ {b} /\ count' = [count EXCEPT ![b] = 0]
      /\ UNCHANGED <<actor, pool, faults>>
  BY DEF WindowEnds
<1>2. /\ count \in [Buckets -> Nat] /\ count' \in [Buckets -> Nat] /\ count'[b] = 0
      /\ \A c \in Buckets \ {b} : count'[c] = count[c]
  BY <1>1 DEF LimitsIInv, LimitsTInv, LimitsTypeOK
<1>3. LimitsTInv'
  BY <1>1, <1>2 DEF LimitsIInv, LimitsTInv, LimitsTypeOK, JobsPlaced, ActorFits
<1>4. ASSUME NEW i \in 1 .. 2 PROVE Reserve(i)'
  <2>1. Owing(i)' = Owing(i) /\ Cardinality(Owing(i)) \in Nat /\ Cardinality(Owing(i)) <= Slots
    BY <1>1, OwingHoldsPlaces DEF Owing, LimitsIInv
  <2>2. /\ Reserve(i) /\ LoginBuckets[i] \in Buckets /\ Limit[LoginBuckets[i]] \in Nat \ {0}
        /\ Slots \in Nat /\ count[LoginBuckets[i]] \in Nat
    BY <1>2, LoginFacts, LimitAssumption DEF LimitsIInv
  <2>3. count'[LoginBuckets[i]] = 0 \/ count'[LoginBuckets[i]] = count[LoginBuckets[i]]
    BY <1>2, <2>2
  <2>4. Reserve(i)' <=> count'[LoginBuckets[i]] + Cardinality(Owing(i)') <= Limit[LoginBuckets[i]] + Slots - 1
    BY DEF Reserve, LoginBuckets
  <2> QED BY <2>1, <2>2, <2>3, <2>4 DEF Reserve
<1>5. ASSUME NEW c \in Buckets PROVE Repairable(c)'
  <2>1. Between(c)' = Between(c) /\ Cardinality(Between(c)) \in Nat
    BY <1>1, FiniteFacts DEF Between, At
  <2>2. faults * Slots \in Nat
    BY FaultsCount DEF LimitsIInv, LimitsTInv, LimitsTypeOK
  <2> QED BY <1>1, <1>2, <2>1, <2>2 DEF LimitsIInv, Repairable
<1> QED BY <1>3, <1>4, <1>5 DEF LimitsIInv

\* A connection breaks: at most one request less is between its commands.
LEMMA RedisFailsInv == ASSUME LimitsIInv, NEW a \in Actors, RedisFails(a) PROVE LimitsIInv'
<1> DEFINE t == actor[a]
<1>1. /\ t \in ActorState /\ t.at # "idle" /\ ActorFits(a, t, pool) /\ UNCHANGED <<count, pool, expires>>
      /\ faults' = faults + 1 /\ faults \in Nat /\ faults' \in Nat
  BY DEF RedisFails, LimitsIInv, LimitsTInv, LimitsTypeOK, JobsPlaced
<1>2. PICK s \in ActorState : Moves(a, s) /\ (IF a \in Jobs THEN s.at = "return" ELSE s.at = "idle")
  <2>1. CASE a \in Jobs
    BY <1>1, <2>1 DEF RedisFails, ActorState
  <2>2. CASE a \notin Jobs
    <3>1. Resting \in ActorState /\ Resting.at = "idle"
      BY DEF Resting, ActorState
    <3> QED BY <2>2, <3>1 DEF RedisFails, Ends
  <2> QED BY <2>1, <2>2
<1>3. ActorFits(a, s, pool)
  BY <1>1, <1>2, ActorAssumption DEF ActorFits, JobFits, CallFits, Actors
<1>4. LimitsTInv /\ LimitsTypeOK /\ Cardinality(pool) <= Slots
  BY DEF LimitsIInv, LimitsTInv, JobsPlaced
<1>5. LimitsTInv'
  BY <1>1, <1>2, <1>3, <1>4, TypeMoves DEF LimitsTypeOK
<1>6. ASSUME NEW i \in 1 .. 2 PROVE Reserve(i)'
  BY <1>1, <1>2, <1>4, OwesLess DEF LimitsIInv, Owes
<1>7. ASSUME NEW b \in Buckets PROVE Repairable(b)'
  <2>1. actor'[a] = s /\ \A c \in Actors \ {a} : actor'[c] = actor[c]
    BY <1>2, <1>4, Moved
  <2>2. Between(b) \ {a} \subseteq Between(b)' /\ Between(b) \in SUBSET Actors /\ Between(b)' \in SUBSET Actors
    BY <2>1 DEF Between, At
  <2>3. /\ Cardinality(Between(b)) <= Cardinality(Between(b)') + 1
        /\ Cardinality(Between(b)) \in Nat /\ Cardinality(Between(b)') \in Nat
    <3>1. Cardinality(Between(b)) <= Cardinality(Between(b) \ {a}) + 1
      BY <2>2, Adding
    <3>2. Cardinality(Between(b) \ {a}) <= Cardinality(Between(b)')
      BY <2>2, FiniteFacts
    <3>3. /\ Cardinality(Between(b)) \in Nat /\ Cardinality(Between(b)') \in Nat
          /\ Cardinality(Between(b) \ {a}) \in Nat
      BY <2>2, FiniteFacts
    <3> QED BY <3>1, <3>2, <3>3
  <2>4. (faults + 1) * Slots = faults * Slots + Slots /\ faults * Slots \in Nat /\ Slots \in Nat /\ Slots >= 1
    BY <1>1, FaultsCount
  <2>5. count[b] \in Nat /\ Repairable(b)
    BY <1>4 DEF LimitsIInv, LimitsTypeOK
  <2>6. CASE b \in expires
    BY <1>1, <2>6 DEF Repairable
  <2>7. CASE count[b] <= faults * Slots + Cardinality(Between(b))
    <3>1. count[b] <= (faults + 1) * Slots + Cardinality(Between(b)')
      BY <2>3, <2>4, <2>5, <2>7
    <3> QED BY <1>1, <3>1 DEF Repairable
  <2> QED BY <2>5, <2>6, <2>7 DEF Repairable
<1> QED BY <1>5, <1>6, <1>7 DEF LimitsIInv

-----------------------------------------------------------------------------
(* The limiters of the routes *)

LEMMA AskInv ==
  ASSUME LimitsIInv, NEW a, NEW r, Begins(a, r), NEW q \in Seq(CallBuckets) \ {<< >>},
         NEW m \in {"stop", "all", "record"}, Ask(a, q, m)
  PROVE  LimitsIInv'
<1> DEFINE s == [Resting EXCEPT !.at = "incr", !.todo = q, !.mode = m]
<1>1. /\ a \in Calls /\ a \in Actors /\ a \notin Jobs /\ actor[a].at = "idle"
      /\ UNCHANGED <<count, expires, pool, faults>>
  BY ActorAssumption DEF Begins, At, Actors
<1>2. q \in Seq(Buckets)
  BY DEF CallBuckets
<1>3. s \in ActorState /\ s.at = "incr" /\ s.todo = q
  BY <1>2 DEF ActorState, Resting
<1>4. Moves(a, s)
  BY DEF Ask
<1> HIDE DEF s
<1>5. ActorFits(a, s, pool)
  BY <1>1, <1>3 DEF ActorFits, CallFits
<1>6. count \in [Buckets -> Nat] /\ expires \in SUBSET Buckets /\ pool \in SUBSET Jobs /\ Cardinality(pool) <= Slots
  BY DEF LimitsIInv, LimitsTInv, LimitsTypeOK, JobsPlaced
<1> QED BY <1>1, <1>3, <1>4, <1>5, <1>6, QuietMove

LEMMA RouteBuckets ==
  /\ <<"recipient", "user", "ip">> \in Seq(CallBuckets) \ {<< >>}
  /\ <<"lookup", "ip">> \in Seq(CallBuckets) \ {<< >>}
  /\ <<"user", "ip", "session">> \in Seq(CallBuckets) \ {<< >>}
  /\ <<"user", "ip">> \in Seq(CallBuckets) \ {<< >>}
  /\ <<"failure">> \in Seq(CallBuckets) \ {<< >>}
  /\ <<"ip">> \in Seq(CallBuckets) \ {<< >>}
  /\ <<"user">> \in Seq(CallBuckets) \ {<< >>}
<1>1. {"recipient", "user", "ip", "lookup", "session", "failure"} \subseteq CallBuckets
  BY LimitAssumption DEF CallBuckets, Buckets
<1>2. <<"recipient", "user", "ip">> \in Seq(CallBuckets) \ {<< >>}
  BY <1>1
<1>3. <<"lookup", "ip">> \in Seq(CallBuckets) \ {<< >>}
  BY <1>1
<1>4. <<"user", "ip", "session">> \in Seq(CallBuckets) \ {<< >>}
  BY <1>1
<1>5. <<"user", "ip">> \in Seq(CallBuckets) \ {<< >>}
  BY <1>1
<1>6. <<"failure">> \in Seq(CallBuckets) \ {<< >>} /\ <<"ip">> \in Seq(CallBuckets) \ {<< >>}
  BY <1>1
<1>7. <<"user">> \in Seq(CallBuckets) \ {<< >>}
  BY <1>1
<1> QED BY <1>2, <1>3, <1>4, <1>5, <1>6, <1>7

LEMMA AsksInv == ASSUME LimitsIInv, NEW a \in Calls, Asks(a) PROVE LimitsIInv'
<1>1. CASE check_send_request(a)
  BY <1>1, RouteBuckets, AskInv DEF check_send_request
<1>2. CASE check_consume_request(a)
  BY <1>2, RouteBuckets, AskInv DEF check_consume_request
<1>3. CASE check_change_password_attempt(a)
  BY <1>3, RouteBuckets, AskInv DEF check_change_password_attempt
<1>4. CASE record_change_password_failure(a)
  BY <1>4, RouteBuckets, AskInv DEF record_change_password_failure
<1>5. CASE OAuthRateLimiter(a)
  BY <1>5, RouteBuckets, AskInv DEF OAuthRateLimiter
<1>6. CASE StripeRateLimiter(a)
  BY <1>6, RouteBuckets, AskInv DEF StripeRateLimiter
<1>7. CASE _check_dimensions(a)
  BY <1>7, RouteBuckets, AskInv DEF _check_dimensions
<1> QED BY <1>1, <1>2, <1>3, <1>4, <1>5, <1>6, <1>7 DEF Asks

-----------------------------------------------------------------------------
(* Password work *)

LEMMA RunInv == ASSUME LimitsIInv, NEW a \in Jobs, run(a) PROVE LimitsIInv'
<1> DEFINE s == [Resting EXCEPT !.at = "admit"]
<1>1. /\ a \in Actors /\ a \notin Calls /\ actor[a].at = "idle" /\ Moves(a, s)
      /\ pool' = pool \cup {a} /\ Cardinality(pool) < Slots /\ UNCHANGED <<count, expires, faults>>
  BY ActorAssumption DEF run, At, Actors
<1>2. s \in ActorState /\ s.at = "admit"
  <2>1. Resting \in ActorState
    BY DEF Resting, ActorState
  <2> QED BY <2>1 DEF ActorState
<1> HIDE DEF s
<1>3. count \in [Buckets -> Nat] /\ expires \in SUBSET Buckets /\ pool' \in SUBSET Jobs
  BY <1>1 DEF LimitsIInv, LimitsTInv, LimitsTypeOK
<1>4. Cardinality(pool') <= Slots
  <2>1. pool \in SUBSET Actors
    BY DEF LimitsIInv, LimitsTInv, LimitsTypeOK, Actors
  <2>2. Cardinality(pool \cup {a}) <= Cardinality(pool) + 1 /\ Cardinality(pool) \in Nat
        /\ Cardinality(pool \cup {a}) \in Nat
    BY <1>1, <2>1, Adding, FiniteFacts
  <2> QED BY <1>1, <2>2, LimitAssumption
<1>5. ActorFits(a, s, pool')
  BY <1>1, <1>2 DEF ActorFits, JobFits
<1> QED BY <1>1, <1>2, <1>3, <1>4, <1>5, QuietMove DEF Owes

\* A job goes on to l with its place in the pool.
LEMMA ActorGoes ==
  ASSUME LimitsIInv, NEW a \in Jobs, NEW l \in {"check", "verify", "return"},
         Moves(a, [actor[a] EXCEPT !.at = l]), actor[a].at # "idle", pool' = pool
  PROVE  \E s \in ActorState : Moves(a, s) /\ s.at = l /\ a \in Actors /\ ActorFits(a, s, pool')
<1> DEFINE s == [actor[a] EXCEPT !.at = l]
<1>1. a \in Actors /\ a \notin Calls /\ actor[a] \in ActorState /\ a \in pool
  BY ActorAssumption DEF Actors, LimitsIInv, LimitsTInv, LimitsTypeOK, JobsPlaced, ActorFits, JobFits
<1>2. s \in ActorState /\ s.at = l
  BY <1>1 DEF ActorState
<1>3. ActorFits(a, s, pool')
  BY <1>1, <1>2 DEF ActorFits, JobFits
<1> HIDE DEF s
<1> QED
  <2>1. Moves(a, s)
    BY DEF s
  <2> QED BY <1>1, <1>2, <1>3, <2>1

LEMMA AllowedInv == ASSUME LimitsIInv, NEW a \in Jobs, check_allowed(a) PROVE LimitsIInv'
<1>1. /\ actor[a].at = "admit" /\ UNCHANGED <<pool, faults>> /\ expires' = expires \cup {"global"}
      /\ count' = count \/ count' = [count EXCEPT !["global"] = @ + 1]
  BY DEF check_allowed, At
<1>2. PICK l \in {"check", "return"} : Moves(a, [actor[a] EXCEPT !.at = l])
  BY DEF check_allowed
<1>3. PICK s \in ActorState : Moves(a, s) /\ s.at = l /\ a \in Actors /\ ActorFits(a, s, pool')
  BY <1>1, <1>2, ActorGoes
<1>4. "global" \in Buckets /\ count \in [Buckets -> Nat] /\ expires \in SUBSET Buckets
      /\ pool \in SUBSET Jobs /\ Cardinality(pool) <= Slots
  BY LimitAssumption DEF Buckets, LimitsIInv, LimitsTInv, LimitsTypeOK, JobsPlaced
<1>5. count' \in [Buckets -> Nat] /\ \A b \in Buckets : count'[b] = count[b] \/ b = "global"
  BY <1>1, <1>4
<1>6. \A i \in 1 .. 2 : count'[LoginBuckets[i]] = count[LoginBuckets[i]]
  BY <1>5, LoginFacts
<1>7. \A i \in 1 .. 2 : ~Owes(i, s)
  BY <1>3 DEF Owes
<1> QED BY <1>1, <1>3, <1>4, <1>5, <1>6, <1>7, QuietMove

\* The check reads the counters once: what is verified after it was counted
\* before fits the pool.
LEMMA CheckInv == ASSUME LimitsIInv, NEW a \in Jobs, check_login_identifier_allowed(a) PROVE LimitsIInv'
<1>1. actor[a].at = "check" /\ UNCHANGED <<count, expires, pool, faults>>
  BY DEF check_login_identifier_allowed, At
<1>2. PICK l \in {"verify", "return"} :
         /\ Moves(a, [actor[a] EXCEPT !.at = l])
         /\ l = "verify" => ~\E i \in 1 .. 2 : count[LoginBuckets[i]] >= Limit[LoginBuckets[i]]
  BY DEF check_login_identifier_allowed
<1>3. PICK s \in ActorState : Moves(a, s) /\ s.at = l /\ a \in Actors /\ ActorFits(a, s, pool')
  BY <1>1, <1>2, ActorGoes
<1>4. LimitsTInv /\ LimitsTypeOK /\ Cardinality(pool) <= Slots
  BY DEF LimitsIInv, LimitsTInv, JobsPlaced
<1>5. LimitsTInv'
  BY <1>1, <1>3, <1>4, TypeMoves DEF LimitsTypeOK
<1>6. ASSUME NEW i \in 1 .. 2 PROVE Reserve(i)'
  <2>1. CASE l = "return"
    BY <1>1, <1>3, <1>4, <2>1, OwesLess DEF LimitsIInv, Owes
  <2>2. CASE l = "verify"
    <3>1. /\ LoginBuckets[i] \in Buckets /\ Limit[LoginBuckets[i]] \in Nat /\ Slots \in Nat
          /\ count[LoginBuckets[i]] \in Nat /\ count[LoginBuckets[i]] < Limit[LoginBuckets[i]]
      <4> DEFINE b == LoginBuckets[i]
      <4>1. b \in Buckets /\ Limit[b] \in Nat /\ Slots \in Nat
        BY LoginFacts, LimitAssumption
      <4>2. ~(count[b] >= Limit[b])
        BY <1>2, <2>2, Zenon
      <4> HIDE DEF b
      <4>3. count[b] \in Nat
        BY <1>4, <4>1 DEF LimitsTypeOK
      <4>4. count[b] < Limit[b]
        BY <4>1, <4>2, <4>3
      <4> QED BY <4>1, <4>3, <4>4 DEF b
    <3>2. Owing(i)' \subseteq pool'
      BY <1>5 DEF LimitsTInv, JobsPlaced, ActorFits, JobFits, Owing, Owes, Actors
    <3>3. pool' \in SUBSET Actors /\ Owing(i)' \in SUBSET Actors
      BY <1>5, <3>2 DEF LimitsTInv, LimitsTypeOK, Actors
    <3>4. /\ Cardinality(Owing(i)') <= Cardinality(pool') /\ Cardinality(Owing(i)') \in Nat
          /\ Cardinality(pool') \in Nat
      BY <3>2, <3>3, FiniteFacts
    <3>5. Reserve(i)' <=> count'[LoginBuckets[i]] + Cardinality(Owing(i)') <= Limit[LoginBuckets[i]] + Slots - 1
      BY DEF Reserve, LoginBuckets
    <3> QED BY <1>1, <1>4, <3>1, <3>4, <3>5
  <2> QED BY <2>1, <2>2
<1>7. \A b \in Buckets : Repairable(b)'
  BY <1>1, <1>3, <1>4, BetweenStays DEF LimitsIInv
<1> QED BY <1>5, <1>6, <1>7 DEF LimitsIInv

LEMMA VerifiedInv == ASSUME LimitsIInv, NEW a \in Jobs, _login_password_job(a) PROVE LimitsIInv'
<1>1. actor[a].at = "verify" /\ UNCHANGED <<count, expires, pool, faults>>
  BY DEF _login_password_job, At
<1>2. PICK s \in ActorState : Moves(a, s) /\ s.at \in {"return", "incr"} /\ a \in Actors /\ ActorFits(a, s, pool')
  <2>1. CASE Moves(a, [actor[a] EXCEPT !.at = "return"])
    BY <1>1, <2>1, ActorGoes
  <2>2. CASE Ask(a, LoginBuckets, "record")
    <3> DEFINE s == [Resting EXCEPT !.at = "incr", !.todo = LoginBuckets, !.mode = "record"]
    <3>1. s \in ActorState /\ s.at = "incr" /\ s.todo = LoginBuckets /\ s.mode = "record"
      BY LoginFacts DEF ActorState, Resting
    <3>2. Moves(a, s)
      BY <2>2 DEF Ask
    <3> HIDE DEF s
    <3>3. a \in Actors /\ a \notin Calls /\ a \in pool
      BY <1>1, ActorAssumption DEF Actors, LimitsIInv, LimitsTInv, JobsPlaced, ActorFits, JobFits
    <3>4. ActorFits(a, s, pool')
      BY <1>1, <3>1, <3>3 DEF ActorFits, JobFits
    <3> QED BY <3>1, <3>2, <3>3, <3>4
  <2> QED BY <2>1, <2>2 DEF _login_password_job
<1>3. \A i \in 1 .. 2 : Owes(i, actor[a])
  BY <1>1 DEF Owes
<1>4. count \in [Buckets -> Nat] /\ expires \in SUBSET Buckets /\ pool \in SUBSET Jobs /\ Cardinality(pool) <= Slots
  BY DEF LimitsIInv, LimitsTInv, LimitsTypeOK, JobsPlaced
<1> QED BY <1>1, <1>2, <1>3, <1>4, QuietMove

LEMMA FinishedInv == ASSUME LimitsIInv, NEW a \in Jobs, _finished(a) PROVE LimitsIInv'
<1>1. /\ actor[a].at = "return" /\ UNCHANGED <<count, expires, faults>> /\ pool' = pool \ {a}
      /\ Moves(a, Resting) /\ a \in Actors /\ a \notin Calls
  BY ActorAssumption DEF _finished, At, Ends, Actors
<1>2. Resting \in ActorState /\ Resting.at = "idle"
  BY DEF Resting, ActorState
<1>3. ActorFits(a, Resting, pool')
  BY <1>1, <1>2 DEF ActorFits, JobFits
<1>4. count \in [Buckets -> Nat] /\ expires \in SUBSET Buckets /\ pool' \in SUBSET Jobs
  BY <1>1 DEF LimitsIInv, LimitsTInv, LimitsTypeOK
<1>5. Cardinality(pool') <= Slots
  <2>1. pool \in SUBSET Actors /\ pool' \in SUBSET Actors /\ pool' \subseteq pool
    BY <1>1 DEF LimitsIInv, LimitsTInv, LimitsTypeOK, Actors
  <2>2. Cardinality(pool') <= Cardinality(pool) /\ Cardinality(pool') \in Nat /\ Cardinality(pool) \in Nat
    BY <2>1, FiniteFacts
  <2> QED BY <2>2, LimitAssumption DEF LimitsIInv, LimitsTInv, JobsPlaced
<1> QED BY <1>1, <1>2, <1>3, <1>4, <1>5, QuietMove DEF Owes

\* The increments the process leaves without an expiry are those of its pool.
LEMMA DiesInv == ASSUME LimitsIInv, ProcessDies PROVE LimitsIInv'
<1>1. /\ UNCHANGED <<count, expires>> /\ pool' = {} /\ faults' = faults + 1 /\ faults \in Nat
      /\ actor' = [a \in Actors |-> IF a \in Jobs THEN Resting ELSE actor[a]]
  BY DEF ProcessDies, LimitsIInv, LimitsTInv, LimitsTypeOK
<1>2. Resting \in ActorState /\ Resting.at = "idle"
  BY DEF Resting, ActorState
<1>3. LimitsTypeOK'
  BY <1>1, <1>2 DEF LimitsIInv, LimitsTInv, LimitsTypeOK
<1>4. JobsPlaced'
  <2>1. Cardinality(pool') <= Slots
    BY <1>1, FS_EmptySet, LimitAssumption
  <2>2. ASSUME NEW a \in Actors PROVE ActorFits(a, actor'[a], pool')
    BY <1>1, <1>2, ActorAssumption DEF LimitsIInv, LimitsTInv, JobsPlaced, ActorFits, JobFits
  <2> QED BY <2>1, <2>2 DEF JobsPlaced
<1>5. ASSUME NEW i \in 1 .. 2 PROVE Reserve(i)'
  <2>1. Owing(i)' = {a \in Jobs : Owes(i, actor'[a])}
    BY DEF Owing, Owes
  <2>2. Owing(i)' = {}
    BY <1>1, <1>2, <2>1 DEF Owes, Actors
  <2>3. Cardinality(Owing(i)') = 0 /\ Cardinality(Owing(i)) \in Nat
    BY <2>2, FS_EmptySet, OwingHoldsPlaces DEF LimitsIInv
  <2>4. Reserve(i)' <=> count'[LoginBuckets[i]] + Cardinality(Owing(i)') <= Limit[LoginBuckets[i]] + Slots - 1
    BY DEF Reserve, LoginBuckets
  <2>5. count[LoginBuckets[i]] \in Nat /\ Limit[LoginBuckets[i]] \in Nat /\ Slots \in Nat /\ Reserve(i)
    BY LoginFacts, LimitAssumption DEF LimitsIInv, LimitsTInv, LimitsTypeOK
  <2> QED BY <1>1, <2>3, <2>4, <2>5 DEF Reserve
<1>6. ASSUME NEW b \in Buckets PROVE Repairable(b)'
  <2>1. /\ Between(b) \subseteq Between(b)' \cup pool /\ Between(b) \in SUBSET Actors
        /\ Between(b)' \in SUBSET Actors /\ pool \in SUBSET Actors
    BY <1>1 DEF Between, At, LimitsIInv, LimitsTInv, LimitsTypeOK, JobsPlaced, ActorFits, JobFits, Actors
  <2>2. IsFiniteSet(Between(b)') /\ IsFiniteSet(pool) /\ Cardinality(Between(b)' \cap pool) \in Nat
        /\ Cardinality(Between(b)') \in Nat /\ Cardinality(pool) \in Nat /\ Cardinality(Between(b)) \in Nat
        /\ Cardinality(Between(b)' \cup pool) \in Nat
        /\ Cardinality(Between(b)) <= Cardinality(Between(b)' \cup pool)
    BY <2>1, FiniteFacts
  <2>3. Cardinality(Between(b)' \cup pool)
           = Cardinality(Between(b)') + Cardinality(pool) - Cardinality(Between(b)' \cap pool)
    BY <2>2, FS_Union
  <2>4. Cardinality(pool) <= Slots
    BY DEF LimitsIInv, LimitsTInv, JobsPlaced
  <2>5. (faults + 1) * Slots = faults * Slots + Slots /\ faults * Slots \in Nat /\ Slots \in Nat
    BY <1>1, FaultsCount
  <2>6. count[b] \in Nat /\ Repairable(b)
    BY DEF LimitsIInv, LimitsTInv, LimitsTypeOK
  <2>7. CASE count[b] <= faults * Slots + Cardinality(Between(b))
    <3>1. count[b] <= (faults + 1) * Slots + Cardinality(Between(b)')
      BY <2>2, <2>3, <2>4, <2>5, <2>6, <2>7
    <3> QED BY <1>1, <3>1 DEF Repairable
  <2> QED BY <1>1, <2>6, <2>7 DEF Repairable
<1> QED BY <1>3, <1>4, <1>5, <1>6 DEF LimitsIInv, LimitsTInv

-----------------------------------------------------------------------------
LEMMA LimitsStep == ASSUME LimitsIInv, [LimitsNext]_limitVars PROVE LimitsIInv'
<1>1. CASE UNCHANGED limitVars
  BY <1>1, Stays DEF limitVars
<1>2. CASE PoolNext
  <2>1. CASE aclose \/ Restarts
    BY <2>1, Stays DEF aclose, Restarts
  <2>2. ASSUME NEW a \in Jobs, Cancel(a) PROVE LimitsIInv'
    BY <2>2, Stays DEF Cancel
  <2>3. ASSUME NEW a \in Jobs, Works(a) PROVE LimitsIInv'
    BY <2>3, AllowedInv, CheckInv, VerifiedInv, FinishedInv DEF Works
  <2> QED BY <1>2, <2>1, <2>2, <2>3, DiesInv, RunInv DEF PoolNext
<1>3. CASE CountersNext
  BY <1>3, IncrInv, ConsumeInv, RedisFailsInv, WindowInv DEF CountersNext, Counts
<1>4. CASE \E a \in Calls : Asks(a)
  BY <1>4, AsksInv
<1> QED BY <1>1, <1>2, <1>3, <1>4 DEF LimitsNext

LEMMA LimitsInvariance == LimitsSpec => []LimitsIInv
<1>1. LimitsIInv /\ [LimitsNext]_limitVars => LimitsIInv'
  BY LimitsStep
<1> QED BY <1>1, LimitsInitInv, PTL DEF LimitsSpec

\* The failures counted and those still to be counted share the places of the
\* pool (Reserve), and the check lets a request pass only below the limit: however
\* many sign-ins run, a limit is passed by less than AUTH_PASSWORD_WORK_CONCURRENCY
\* (check_login_identifier_allowed, _login_password_job, PasswordWorkPool.run).
THEOREM Overshoot == LimitsSpec => []OvershootBounded
<1>1. ASSUME LimitsIInv PROVE OvershootBounded
  <2>1. ASSUME NEW i \in 1 .. 2
        PROVE  count[LoginBuckets[i]] <= Limit[LoginBuckets[i]] + Slots - 1
    <3>1. /\ Reserve(i) /\ Cardinality(Owing(i)) \in Nat /\ count[LoginBuckets[i]] \in Nat
          /\ Limit[LoginBuckets[i]] \in Nat /\ Slots \in Nat
      BY <1>1, LoginFacts, LimitAssumption, OwingHoldsPlaces DEF LimitsIInv, LimitsTInv, LimitsTypeOK
    <3> QED BY <3>1 DEF Reserve
  <2> QED BY <2>1 DEF OvershootBounded
<1> QED BY <1>1, LimitsInvariance, PTL

\* What a counter without an expiry can have grown to, with any number of
\* broken connections and dead processes: every completed request has repaired
\* it (_consume_bucket).
THEOREM Repairs == LimitsSpec => []CountersExpire
<1>1. LimitsIInv => CountersExpire
  BY DEF LimitsIInv, Repairable, Between, CountersExpire
<1> QED BY <1>1, LimitsInvariance, PTL
=============================================================================
