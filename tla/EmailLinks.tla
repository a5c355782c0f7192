----------------------------- MODULE EmailLinks -----------------------------
(***************************************************************************)
(* The addresses of an account, the single-use links mailed to them and    *)
(* the Idempotency-Key rows of the public routes.  Every stored procedure  *)
(* of 14_email_activation.sql is one transaction under the row locks it    *)
(* takes and is one action here; what happens between the procedures of a  *)
(* request (the key is begun, the token is validated, the password is      *)
(* hashed, the key is completed) are steps other requests interleave with. *)
(***************************************************************************)
EXTENDS Naturals, Sequences, FiniteSets

CONSTANTS Users, Addresses, Keys, Requests, None
CONSTANTS MaxRows,       \* five: unremoved pending or activated addresses of a user
          MaxLinks,      \* bound on the links of a behaviour
          MaxPasswords   \* bound on the passwords of a user

ASSUME LinksAssumption ==
    \A s \in {"add", "resend", "forgot", "verify", "reset"}, k \in Keys : None # <<s, k>>

VARIABLES
    mailbox,  \* mailbox[u][a]: the user_emails row of the address, and how often it was added
    primary,  \* the primary address of a user, or None
    order,    \* the addresses of a user in the order of their activation
    links,    \* user_email_link_tokens, in the order of issue
    password, \* the number of the password a user has
    active,   \* the users with is_active
    keys,     \* email_idempotency_keys: scope and key to a status and the request it began with
    reqs,     \* the requests in progress
    mailed    \* messages enqueued under each key since the key was begun

linkVars == <<mailbox, primary, order, links, password, active, keys, reqs, mailed>>
accountVars == <<mailbox, primary, order, links, password, active>>

Scopes == {"add", "resend", "forgot", "verify", "reset"}
Resets == {"password_reset", "admin_password_reset"}
NoAddress == [st |-> "none", added |-> 0]
Idle == [at |-> "idle"]
NoKey == [st |-> "none", body |-> None]

LinksInit ==
    /\ mailbox = [u \in Users |-> [a \in Addresses |-> NoAddress]]
    /\ primary = [u \in Users |-> None] /\ order = [u \in Users |-> << >>]
    /\ links = << >> /\ password = [u \in Users |-> 0] /\ active = Users
    /\ keys = [k \in Scopes \X Keys |-> NoKey]
    /\ reqs = [r \in Requests |-> Idle] /\ mailed = [k \in Scopes \X Keys |-> 0]

-----------------------------------------------------------------------------
(* Links *)

Held(u) == {a \in Addresses : mailbox[u][a].st \in {"pending", "activated"}}
Activated(u) == {a \in Addresses : mailbox[u][a].st = "activated"}
\* ORDER BY is_primary DESC, activated_at ASC
FirstActivated(u, a) ==
    /\ a \in Activated(u)
    /\ \/ a = primary[u]
       \/ /\ primary[u] \notin Activated(u)
          /\ \A b \in Activated(u) \ {a} :
                \E i, j \in DOMAIN order[u] : i < j /\ order[u][i] = a /\ order[u][j] = b

\* The links a new one takes the place of: of the row, or every reset link of the user.
Supersede(ls, u, a, p) ==
    [i \in 1 .. Len(ls) |->
        IF /\ ls[i].user = u /\ ls[i].st \in {"live", "expired"}
           /\ IF p \in Resets THEN ls[i].purpose \in Resets
              ELSE ls[i].purpose = p /\ ls[i].addr = a /\ ls[i].added = mailbox[u][a].added
        THEN [ls[i] EXCEPT !.st = "revoked"] ELSE ls[i]]

Issue(u, a, p, added) ==
    /\ Len(links) < MaxLinks
    /\ links' = Append(Supersede(links, u, a, p),
                       [user |-> u, addr |-> a, added |-> added, pw |-> password[u], purpose |-> p, st |-> "live"])

add_user_email_and_enqueue(u, a) ==
    /\ u \in active
    /\ \/ /\ mailbox[u][a].st = "none" /\ Cardinality(Held(u)) < MaxRows
          /\ mailbox' = [mailbox EXCEPT ![u][a] = [st |-> "pending", added |-> @.added + 1]]
          /\ Issue(u, a, "email_activation", mailbox[u][a].added + 1)
       \/ /\ mailbox[u][a].st = "pending" /\ Issue(u, a, "email_activation", mailbox[u][a].added)
          /\ UNCHANGED mailbox
    /\ UNCHANGED <<primary, order, password, active>>

\* The cooldown of the row, measured in wall-clock time, may refuse at any moment.
resend_user_email_activation(u, a) ==
    /\ mailbox[u][a].st = "pending" /\ Issue(u, a, "email_activation", mailbox[u][a].added)
    /\ UNCHANGED <<mailbox, primary, order, password, active>>

EnqueueReset(u, a, p) ==
    /\ u \in active /\ Issue(u, a, p, mailbox[u][a].added)
    /\ UNCHANGED <<mailbox, primary, order, password, active>>

\* By address, or by user name: then to one of the activated addresses too.
enqueue_password_reset_link(u, a) == a \in Activated(u) /\ EnqueueReset(u, a, "password_reset")

\* The routes of an administrator take no key.
admin_resend_user_email_activation(u, a) ==
    /\ u \in active /\ resend_user_email_activation(u, a)
    /\ UNCHANGED <<keys, reqs, mailed>>
reset_user_password(u) ==
    /\ \E a \in Addresses : FirstActivated(u, a) /\ EnqueueReset(u, a, "admin_password_reset")
    /\ UNCHANGED <<keys, reqs, mailed>>

LinkExpires(i) ==
    /\ links[i].st = "live" /\ links' = [links EXCEPT ![i].st = "expired"]
    /\ UNCHANGED <<mailbox, primary, order, password, active, keys, reqs, mailed>>

-----------------------------------------------------------------------------
(* Using a link *)

Taken(u, a) == \E v \in Users \ {u} : mailbox[v][a].st = "activated"

consume_email_activation_token(i) ==
    LET l == links[i]
        pending == mailbox[l.user][l.addr] = [st |-> "pending", added |-> l.added]
    IN  /\ l.st = "live" /\ l.purpose = "email_activation"
        /\ links' = [links EXCEPT ![i].st = "consumed"]
        /\ IF pending /\ ~Taken(l.user, l.addr)
           THEN /\ mailbox' = [mailbox EXCEPT ![l.user][l.addr].st = "activated"]
                /\ order' = [order EXCEPT ![l.user] = Append(SelectSeq(@, LAMBDA a : a # l.addr), l.addr)]
                /\ primary' = [primary EXCEPT ![l.user] = IF @ = None THEN l.addr ELSE @]
           ELSE UNCHANGED <<mailbox, order, primary>>
        /\ UNCHANGED <<password, active>>

\* The stored verifier contains the password hash: another password, no match.
validate_password_reset_token(i) ==
    LET l == links[i] IN l.purpose \in Resets /\ l.st = "live" /\ l.user \in active /\ l.pw = password[l.user]

\* Mutation: the proof of before the hashing is trusted.
consume_validated_token(i) ==
    LET l == links[i] IN
    /\ links' = [links EXCEPT ![i].st = "consumed"]
    /\ password' = [password EXCEPT ![l.user] = @ + 1]
    /\ UNCHANGED <<mailbox, primary, order, active>>
consume_password_reset_token(i) ==
    LET l == links[i] IN
    /\ l.pw = password[l.user] /\ l.st = "live" /\ l.user \in active /\ l.pw < MaxPasswords
    /\ password' = [password EXCEPT ![l.user] = @ + 1]
    /\ links' = [j \in 1 .. Len(links) |->
                    IF j = i THEN [l EXCEPT !.st = "consumed"]
                    ELSE IF links[j].user = l.user /\ links[j].purpose \in Resets
                            /\ links[j].st \in {"live", "expired"}
                    THEN [links[j] EXCEPT !.st = "revoked"] ELSE links[j]]
    /\ UNCHANGED <<mailbox, primary, order, active>>

-----------------------------------------------------------------------------
(* The account outside these routes, and the routes that mail nothing.  The *)
(* sweep of the other sessions that follows is part of AuthLifecycle.       *)

remove_user_email(u, a) ==
    LET left == SelectSeq(order[u], LAMBDA b : b # a /\ b \in Activated(u)) IN
    /\ mailbox[u][a].st # "none"
    /\ mailbox' = [mailbox EXCEPT ![u][a].st = "none"]
    /\ order' = [order EXCEPT ![u] = SelectSeq(@, LAMBDA b : b # a)]
    /\ links' = [i \in 1 .. Len(links) |->
                    IF links[i].user = u /\ links[i].addr = a /\ links[i].st \in {"live", "expired"}
                    THEN [links[i] EXCEPT !.st = "revoked"] ELSE links[i]]
    /\ primary' = IF primary[u] # a THEN primary
                  ELSE [primary EXCEPT ![u] = IF left = << >> THEN None ELSE Head(left)]
    /\ UNCHANGED <<password, active, keys, reqs, mailed>>

set_primary_user_email(u, a) ==
    /\ a \in Activated(u) /\ primary' = [primary EXCEPT ![u] = a]
    /\ UNCHANGED <<mailbox, order, links, password, active, keys, reqs, mailed>>

\* A hard bounce or a complaint about the address: no other address is promoted.
SuppressAddress(a) ==
    /\ \E u \in Users : a \in Activated(u)
    /\ mailbox' = [u \in Users |-> IF a \in Activated(u) THEN [mailbox[u] EXCEPT ![a].st = "suppressed"] ELSE mailbox[u]]
    /\ primary' = [u \in Users |-> IF primary[u] = a THEN None ELSE primary[u]]
    /\ UNCHANGED <<order, links, password, active, keys, reqs, mailed>>

\* Changed with the old password, or the account turned off and on.
PasswordChanges(u) ==
    /\ password[u] < MaxPasswords /\ password' = [password EXCEPT ![u] = @ + 1]
    /\ UNCHANGED <<mailbox, primary, order, links, active, keys, reqs, mailed>>
StatusChanges(u) ==
    /\ active' = IF u \in active THEN active \ {u} ELSE active \cup {u}
    /\ UNCHANGED <<mailbox, primary, order, links, password, keys, reqs, mailed>>

-----------------------------------------------------------------------------
(* A request under an Idempotency-Key.  `key' of a running request is None  *)
(* without the header, and when beginning the key failed.                   *)

Body(q) == IF q.scope \in {"verify", "reset"} THEN q.link ELSE <<q.user, q.addr>>

Runs(r, q, k) ==
    reqs' = [reqs EXCEPT ![r] =
                [at |-> IF q.scope = "reset" THEN "validate" ELSE "call", q |-> q, key |-> k]]

\* No row yet: the request is this key's.  A row, whatever its status: the generic
\* answer, and nothing is done.  A row that has expired makes the INSERT fail.
\* Mutation: the row of a request still in progress does not stop a repeat.
begin_unless_complete(r, q, k) ==
    \/ keys[k].st \in {"none", "in_progress"} /\ keys' = [keys EXCEPT ![k] = [st |-> "in_progress", body |-> Body(q)]]
       /\ Runs(r, q, k)
    \/ keys[k].st = "expired" /\ Runs(r, q, None) /\ UNCHANGED keys
prepare_idempotency(r, q, k) ==
    \/ /\ keys[k].st = "none" /\ Runs(r, q, k)
       /\ keys' = [keys EXCEPT ![k] = [st |-> "in_progress", body |-> Body(q)]]
    \/ /\ keys[k].st \in {"in_progress", "complete"} /\ keys[k].body # Body(q)
       /\ keys' = [keys EXCEPT ![k].st = "conflict"] /\ UNCHANGED reqs
    \/ keys[k].st = "expired" /\ Runs(r, q, None) /\ UNCHANGED keys

Arrives(r, q, k) ==
    /\ reqs[r] = Idle
    /\ IF k = None THEN Runs(r, q, None) /\ UNCHANGED keys
       ELSE prepare_idempotency(r, q, <<q.scope, k>>)
    /\ UNCHANGED <<accountVars, mailed>>

KeyExpires(k) ==
    /\ keys[k].st \notin {"none", "expired"} /\ keys' = [keys EXCEPT ![k].st = "expired"]
    /\ UNCHANGED <<accountVars, reqs, mailed>>

Goes(r, at) == reqs' = [reqs EXCEPT ![r].at = at]
Mails(k) == mailed' = IF k = None THEN mailed ELSE [mailed EXCEPT ![k] = @ + 1]
\* The enqueue procedures complete the key in their own transaction.
Completed(k) == IF k = None \/ keys[k].st = "expired" THEN keys ELSE [keys EXCEPT ![k].st = "complete"]

Enqueued(r) == Mails(reqs[r].key) /\ keys' = Completed(reqs[r].key) /\ Goes(r, "complete")
Calling(r, scope) == reqs[r].at = "call" /\ reqs[r].q.scope = scope

\* The one call of each route that changes the account.
add_current_user_email(r) ==
    Calling(r, "add") /\ add_user_email_and_enqueue(reqs[r].q.user, reqs[r].q.addr) /\ Enqueued(r)
resend_current_user_email_activation(r) ==
    Calling(r, "resend") /\ resend_user_email_activation(reqs[r].q.user, reqs[r].q.addr) /\ Enqueued(r)
forgot_password_link(r) ==
    Calling(r, "forgot") /\ enqueue_password_reset_link(reqs[r].q.user, reqs[r].q.addr) /\ Enqueued(r)

verify_email_activation(r) ==
    /\ Calling(r, "verify") /\ consume_email_activation_token(reqs[r].q.link)
    /\ Goes(r, "complete") /\ UNCHANGED <<keys, mailed>>

\* The procedure fails, refuses or finds nothing to do: the answer is the same.
CallDoesNothing(r) ==
    /\ reqs[r].at = "call" /\ Goes(r, "complete")
    /\ UNCHANGED <<accountVars, keys, mailed>>

\* Validate, hash the password, consume.
reset_password_with_link(r) ==
    /\ reqs[r].at = "validate"
    /\ Goes(r, IF validate_password_reset_token(reqs[r].q.link) THEN "consume" ELSE "complete")
    /\ UNCHANGED <<accountVars, keys, mailed>>
_consume_password_reset_job(r) ==
    /\ reqs[r].at = "consume" /\ consume_password_reset_token(reqs[r].q.link)
    /\ Goes(r, "complete") /\ UNCHANGED <<keys, mailed>>
ConsumeRefused(r) ==
    /\ reqs[r].at = "consume" /\ Goes(r, "complete") /\ UNCHANGED <<accountVars, keys, mailed>>

complete_idempotency(r) ==
    LET k == reqs[r].key IN
    /\ reqs[r].at = "complete"
    /\ keys' = IF k # None /\ keys[k].st \in {"in_progress", "complete"}
               THEN [keys EXCEPT ![k].st = "complete"] ELSE keys
    /\ reqs' = [reqs EXCEPT ![r] = Idle] /\ UNCHANGED <<accountVars, mailed>>

\* The process dies: the key stays in progress.
RequestDies(r) ==
    /\ reqs[r] # Idle /\ reqs' = [reqs EXCEPT ![r] = Idle] /\ UNCHANGED <<accountVars, keys, mailed>>

Steps(r) ==
    \/ add_current_user_email(r) \/ resend_current_user_email_activation(r) \/ forgot_password_link(r)
    \/ verify_email_activation(r) \/ CallDoesNothing(r)
    \/ reset_password_with_link(r) \/ _consume_password_reset_job(r) \/ ConsumeRefused(r) \/ complete_idempotency(r)
    \/ RequestDies(r)

\* What a client may ask for: an address of a user, or the use of a link it was mailed.
Asked ==
    [scope : {"add", "resend", "forgot"}, user : Users, addr : Addresses, link : {0}]
    \cup [scope : {"verify", "reset"}, user : {None}, addr : {None}, link : 1 .. Len(links)]

LinksNext ==
    \/ \E r \in Requests : \/ Steps(r)
                           \/ \E q \in Asked, k \in Keys \cup {None} : Arrives(r, q, k)
    \/ \E k \in Scopes \X Keys : KeyExpires(k)
    \/ \E i \in 1 .. Len(links) : LinkExpires(i)
    \/ \E a \in Addresses : SuppressAddress(a)
    \/ \E u \in Users : \/ reset_user_password(u) \/ PasswordChanges(u) \/ StatusChanges(u)
                        \/ \E a \in Addresses : \/ remove_user_email(u, a) \/ set_primary_user_email(u, a)
                                              \/ admin_resend_user_email_activation(u, a)
LinksSpec == LinksInit /\ [][LinksNext]_linkVars

-----------------------------------------------------------------------------
(* A password changes by a link only if no later reset link was issued to  *)
(* the user, the password is still the one of the day of issue, and the    *)
(* address the link went to was not removed since: links age by what other *)
(* requests do between mail and click, and between validation and use      *)
(* (sp_consume_password_reset_token).                                      *)
StaleLinkDoesNothing ==
    [][\A i \in 1 .. Len(links) :
          links[i].purpose \in Resets /\ links[i].st # "consumed" /\ links'[i].st = "consumed" =>
             LET l == links[i] IN
             /\ \A j \in i + 1 .. Len(links) : links[j].user = l.user => links[j].purpose \notin Resets
             /\ password[l.user] = l.pw /\ l.user \in active
             /\ mailbox[l.user][l.addr].st # "none" /\ mailbox[l.user][l.addr].added = l.added]_linkVars

(* A request repeated with its key while the first is running, after it    *)
(* failed or after it was answered mails nothing more: an Idempotency-Key  *)
(* stands for at most one message (prepare_idempotency).                   *)
OneMessagePerKey == \A k \in DOMAIN mailed : mailed[k] <= 1
=============================================================================
