------------------------------- MODULE MCEmail -----------------------------
(***************************************************************************)
(* The e-mail subsystem, one scene for each question.  In "lease" workers  *)
(* drain the outbox within their leases; in "resets" reset links of one    *)
(* user are issued and used while the account changes; in "owner" two      *)
(* users ask for the same addresses; in "keys" requests are repeated with  *)
(* one Idempotency-Key; "signins" and "calls" meet the limits; in          *)
(* "templates" editors write while mail is rendered.                       *)
(***************************************************************************)
EXTENDS MCEmailOutbox, EmailLinks, RateLimits, EmailTemplates, SequencesExt

CONSTANTS u1, u2, a1, a2, k1, l1, c1, c2
CONSTANTS MaxComing, MaxChanges  \* bounds on the requests and on the other changes of a behaviour

VARIABLES scene, coming, changes
sceneVars == <<vars, linkVars, limitVars, templateVars, scene, coming, changes>>

MCLimit == [identifier |-> 1, account |-> 1, global |-> 2, ip |-> 1, user |-> 1, session |-> 1, failure |-> 1, recipient |-> 1, lookup |-> 1]
MCLetterCode == [m \in Letters |-> IF m = l1 THEN c1 ELSE c2]
MCSpare == [b \in DOMAIN MCLimit |-> IF b \in {"identifier", "account"} THEN 2 ELSE 1]

\* In the scenes of one user both addresses were activated, or one, long ago.
Ready == [st |-> "activated", added |-> 1]
SceneInit ==
    /\ scene \in {"lease", "resets", "owner", "keys", "signins", "calls", "templates"} /\ coming = 0 /\ changes = 0
    /\ mailbox = [u \in Users |-> [a \in Addresses |->
                 IF u = u1 /\ (scene = "resets" \/ (scene = "keys" /\ a = a1)) THEN Ready ELSE NoAddress]]
    /\ order = [u \in Users |-> SetToSeq({a \in Addresses : mailbox[u][a] = Ready})]
    /\ primary = [u \in Users |-> IF order[u] = << >> THEN None ELSE order[u][1]]
    /\ links = << >> /\ password = [u \in Users |-> 0] /\ active = Users
    /\ keys = [k \in Scopes \X Keys |-> NoKey]
    /\ reqs = [r \in Requests |-> Idle] /\ mailed = [k \in Scopes \X Keys |-> 0]
    /\ Init /\ LimitsInit /\ TemplatesInit
    \* The counters of a limiter are its own: two requests meet in one limiter.
    /\ \E r \in IF scene = "calls" THEN Routes ELSE {"send"} : route = [a \in Calls |-> r]

Wants(s, u, a) == [scope |-> s, user |-> u, addr |-> a, link |-> 0]
Use(s, i) == [scope |-> s, user |-> None, addr |-> None, link |-> i]

Links(s) == {Use(s, i) : i \in 1 .. Len(links)}
Coming ==
    CASE scene = "resets" -> {Wants("forgot", u1, a) : a \in Addresses} \cup Links("reset")
      [] scene = "owner" -> {Wants("add", u, a) : u \in Users, a \in Addresses} \cup Links("verify")
      [] scene = "keys" -> {Wants(s, u1, a) : s \in {"add", "resend", "forgot"}, a \in Addresses} \cup Links("verify")
Comes(r) == \E q \in Coming : Arrives(r, q, IF scene = "keys" THEN k1 ELSE None)

Changes ==
    \/ scene = "resets" /\ \/ \E i \in 1 .. Len(links) : LinkExpires(i)
                           \/ reset_user_password(u1)
                           \/ PasswordChanges(u1) \/ StatusChanges(u1)
    \/ scene # "keys" /\ \E a \in Addresses : SuppressAddress(a)
    \/ scene # "keys" /\ \E u \in Users, a \in Addresses :
                             \/ remove_user_email(u, a) \/ set_primary_user_email(u, a)
                             \/ admin_resend_user_email_activation(u, a)
    \/ scene = "keys" /\ \E k \in Scopes \X Keys : KeyExpires(k)

AccountNext ==
    /\ UNCHANGED limitVars
    /\ \/ coming < MaxComing /\ coming' = coming + 1 /\ UNCHANGED changes /\ \E r \in Requests : Comes(r)
       \/ UNCHANGED <<coming, changes>> /\ \E r \in Requests : Steps(r)
       \/ changes < MaxChanges /\ changes' = changes + 1 /\ UNCHANGED coming /\ Changes

SceneNext ==
    /\ UNCHANGED scene /\ (scene # "templates" => UNCHANGED templateVars)
    /\ \/ /\ scene = "lease" /\ Next
          /\ UNCHANGED <<linkVars, limitVars, coming, changes>>
       \/ scene \in {"resets", "owner", "keys"} /\ AccountNext /\ UNCHANGED vars
       \/ /\ scene \in {"signins", "calls"} /\ UNCHANGED <<vars, linkVars, coming, changes>>
          /\ \/ scene = "signins" /\ PoolNext
             \/ scene = "calls" /\ \E a \in Calls : Asks(a)
             \/ CountersNext
       \/ /\ scene = "templates" /\ TemplatesNext
          /\ UNCHANGED <<vars, linkVars, limitVars, coming, changes>>

SceneSpec == SceneInit /\ [][SceneNext]_sceneVars
=============================================================================
