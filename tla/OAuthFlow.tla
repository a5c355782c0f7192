------------------------------ MODULE OAuthFlow ------------------------------
(***************************************************************************)
(* Signing in with an external identity, linking one to the signed-in user *)
(* and proving a recent sign-in with it.  A round trip leaves the service  *)
(* with a state record and comes back as a callback, which several         *)
(* processes handle while sessions end, identities are unlinked and the    *)
(* configuration changes.                                                  *)
(***************************************************************************)
EXTENDS OAuthConnections

CONSTANTS
    Users, Subjects, Families, InitTokens, States, Callbacks,
    Attempts,  \* how often a watched transaction is tried
    MaxMarks   \* bound on the reauthentication markers written

ASSUME FlowAssumption == Attempts \in Nat \ {0} /\ MaxMarks \in Nat

VARIABLES
    holder,      \* <<namespace, subject>> -> the user it is linked to
    named,       \* the connections an identity row names, unlinked rows included
    users,       \* user -> status, stored password hash, access to the project
    family,      \* session family -> user, live, and a sign-in that is recent
    marker,      \* session family -> its reauthentication marker; 0: none
    marks,       \* the markers written so far
    inits,       \* init token -> Unused, Used or what it was minted for
    states,      \* state -> Unused, Used or its record
    completions, \* the states whose completion authorization exists
    cb,          \* callback -> where its handler is and what it read
    sweeping,    \* users whose sessions an unlink is about to revoke
    outcomes     \* state -> the sessions, links and markers it led to

flowVars == <<holder, named, users, family, marker, marks, inits, states,
              completions, cb, sweeping, outcomes>>

Unused == [purpose |-> "unused"]
Used == [purpose |-> "used"]
Identities == Namespaces \X Subjects
Idle == [at |-> "idle", proc |-> None, state |-> None, rec |-> None, row |-> NoRow,
         id |-> None, user |-> None, tries |-> 0, dirty |-> FALSE]

\* argon2id leaves nothing of the text it hashes.
hash_password(text) == <<"argon2id", text>>
\* The stored hash is not one of the texts that mark an account without one.
has_usable_fallback_auth(u) ==
    users[u].hash \notin {<<"plain", text>> : text \in {"oauth-disabled", "passwordless", "placeholder"}}
_is_active_consumer(u) == users[u].st = "active"
Reaches(u, r) == users[u].access /\ ProjectOf[r.bind.key] \in up.projects

----------------------------------------------------------------------------
(* Leaving for the provider.                                                *)

\* OAuthInitTokenStore
mint(t, payload) == inits[t] = Unused /\ inits' = [inits EXCEPT ![t] = payload]
consume(t) == inits[t] \notin {Unused, Used} /\ inits' = [inits EXCEPT ![t] = Used]

oauth_init(p, k, t) ==
    LET r == Cached(p, <<"binding", k>>) IN
    /\ Remember(p, <<"binding", k>>)
    /\ Available(r) /\ LoginEnabled(r) /\ r.urls["return_origin"] # {}
    /\ mint(t, [conn |-> r.bind.conn, bind |-> r.id])
    /\ UNCHANGED <<catalog, conns, binds, allowed, up, writer, holder, named, users, family, marker,
                   marks, states, completions, cb, sweeping, outcomes>>

\* The record of a round trip; a link or reauth has a completion
\* authorization beside it.
create_state(s, rec) ==
    /\ states[s] = Unused
    /\ states' = [states EXCEPT ![s] = rec]
    /\ completions' = IF rec.purpose = "login" THEN completions ELSE completions \cup {s}

\* The one the browser names, if it is allowed, or the only one.
_pick_redirect_uri(r) == r.urls["redirect_uri"] # {}

\* The init token goes before anything else is looked at.
start_from_init_token(p, t, s) ==
    /\ consume(t)
    /\ LET x == <<"ids", inits[t].conn, inits[t].bind>>
           r == Cached(p, x)
       IN /\ Remember(p, x)
          /\ IF Available(r) /\ _pick_redirect_uri(r) /\ r.urls["return_origin"] # {}
             THEN create_state(s, [purpose |-> "login", conn |-> inits[t].conn, bind |-> inits[t].bind,
                                  fam |-> None, proof |-> None])
             ELSE UNCHANGED <<states, completions>>
    /\ UNCHANGED <<catalog, conns, binds, allowed, up, writer, holder, named, users, family, marker,
                   marks, cb, sweeping, outcomes>>

\* The freshest proof of a recent sign-in: the session's own time or the
\* marker of a reauthentication.
resolve_recent_authentication_proof(f) ==
    (IF family[f].fresh THEN {<<"token">>} ELSE {})
    \cup (IF marker[f] > 0 THEN {<<"marker", marker[f]>>} ELSE {})

start_session_round_trip(p, f, k, s, purpose) ==
    LET r == Cached(p, <<"binding", k>>) IN
    /\ family[f].live /\ users[family[f].user].st = "active"
    /\ Remember(p, <<"binding", k>>)
    /\ Available(r) /\ Reaches(family[f].user, r)
    /\ Cardinality(r.urls["redirect_uri"]) = 1
    /\ \E proof \in IF purpose = "link" THEN resolve_recent_authentication_proof(f) ELSE {None} :
          /\ purpose = "link" => LinkEnabled(r) /\ Links(r.bind.mode)
          /\ create_state(s, [purpose |-> purpose, conn |-> r.bind.conn, bind |-> r.id,
                             fam |-> f, proof |-> proof])
    /\ UNCHANGED <<catalog, conns, binds, allowed, up, writer, holder, named, users, family, marker,
                   marks, inits, cb, sweeping, outcomes>>

\* The deadline of a round trip passes; a link's is not after its proof's.
DeadlinePasses(s) ==
    /\ states[s] \notin {Unused, Used} \/ s \in completions
    /\ states' = [states EXCEPT ![s] = Used]
    /\ completions' = completions \ {s}
    /\ cb' = [h \in Callbacks |-> IF cb[h].at = "watching" /\ cb[h].state = s
                                  THEN [cb[h] EXCEPT !.dirty = TRUE] ELSE cb[h]]
    /\ UNCHANGED <<configVars, holder, named, users, family, marker, marks, inits, sweeping, outcomes>>

----------------------------------------------------------------------------
(* The callback.                                                            *)

Goes(h, to) == cb' = [cb EXCEPT ![h] = to]
Ends(h) == Goes(h, Idle)
OnlyCallback == <<configVars, holder, named, users, family, marker, marks, inits, states,
                  completions, sweeping, outcomes>>

\* GETDEL: whoever takes the record has it.
\* Mutation: the record of a sign-in is read and stays until it expires.
consume_by_reading(h, p, s) ==
    /\ cb[h].at = "idle" /\ states[s] \notin {Unused, Used}
    /\ states' = IF states[s].purpose = "login" THEN states ELSE [states EXCEPT ![s] = Used]
    /\ Goes(h, [Idle EXCEPT !.at = "consumed", !.proc = p, !.state = s, !.rec = states[s]])
    /\ UNCHANGED <<configVars, holder, named, users, family, marker, marks, inits, completions,
                   sweeping, outcomes>>
consume_state(h, p, s) ==
    /\ cb[h].at = "idle" /\ states[s] \notin {Unused, Used}
    /\ states' = [states EXCEPT ![s] = Used]
    /\ Goes(h, [Idle EXCEPT !.at = "consumed", !.proc = p, !.state = s, !.rec = states[s]])
    /\ UNCHANGED <<configVars, holder, named, users, family, marker, marks, inits, completions,
                   sweeping, outcomes>>

\* What authorize_oauth_session reads: the completion, the family with its
\* session, the proof, the user and the access to the project.
SessionStands(h) ==
    LET rec == cb[h].rec IN
    /\ cb[h].state \in completions
    /\ family[rec.fam].live
    /\ rec.purpose = "link" => rec.proof \in resolve_recent_authentication_proof(rec.fam)
    /\ users[family[rec.fam].user].st = "active" /\ Reaches(family[rec.fam].user, cb[h].row)

\* load_secrets reads the tables, not the cache.
load_secrets(c) == conns[c].cred = "active"

_resolve_for_record(h) ==
    LET x == <<"ids", cb[h].rec.conn, cb[h].rec.bind>>
        r == Cached(cb[h].proc, x)
        here == [cb[h] EXCEPT !.row = r]
    IN /\ cb[h].at = "consumed"
       /\ Remember(cb[h].proc, x)
       /\ Goes(h, IF Available(r) THEN [here EXCEPT !.at = "resolved"] ELSE Idle)
       /\ UNCHANGED <<catalog, conns, binds, allowed, up, writer, holder, named, users, family, marker,
                      marks, inits, states, completions, sweeping, outcomes>>

\* The provider reported an error or the user cancelled, or the session that
\* asked is gone, or there is no secret; else the code is exchanged.
handle_callback(h) ==
    /\ cb[h].at = "resolved"
    /\ \/ Ends(h)
       \/ /\ cb[h].rec.purpose # "login" => SessionStands(h)
          /\ load_secrets(cb[h].rec.conn)
          /\ Goes(h, [cb[h] EXCEPT !.at = "exchanging"])
    /\ UNCHANGED OnlyCallback

\* The provider answers: no identity, or a verified subject.
exchange_code(h) ==
    /\ cb[h].at = "exchanging"
    /\ \/ Ends(h)
       \/ \E sub \in Subjects : Goes(h, [cb[h] EXCEPT !.at = cb[h].rec.purpose, !.id = <<cb[h].row.conn.ns, sub>>])
    /\ UNCHANGED OnlyCallback

----------------------------------------------------------------------------
(* Signing in.                                                              *)

_resolve_user(h) ==
    LET u == holder[cb[h].id]
        row == cb[h].row
        Known == LoginEnabled(row) /\ u # None /\ _is_active_consumer(u)
        New == LoginEnabled(row) /\ u = None /\ AutoCreates(row.bind.mode) /\ DefaultGroup(row)
    IN /\ cb[h].at = "login"
       /\ \/ Known /\ Goes(h, [cb[h] EXCEPT !.at = "issuing", !.user = u])
          \/ New /\ Goes(h, [cb[h] EXCEPT !.at = "creating"])
          \/ ~Known /\ Ends(h)  \* or the e-mail address is in use
       /\ UNCHANGED OnlyCallback

\* sp_create_consumer_user_from_external_identity looks at the binding, the
\* group and the identity again, in the tables.
MayCreate(h) ==
    LET b == cb[h].rec.bind IN
    /\ catalog.status = "enabled" /\ catalog.login
    /\ Bound(b) /\ binds[b].enabled /\ binds[b].login /\ AutoCreates(binds[b].mode)
    /\ binds[b].group /\ up.group
    /\ holder[cb[h].id] = None
create_consumer_user_from_external_account(h) ==
    /\ cb[h].at = "creating"
    /\ \/ \E u \in Users :
            /\ MayCreate(h) /\ users[u].st = "unused"
            /\ users' = [users EXCEPT ![u] = [st |-> "active", hash |-> hash_password("oauth-disabled"),
                                              access |-> TRUE]]
            /\ holder' = [holder EXCEPT ![cb[h].id] = u]
            /\ named' = named \cup {cb[h].rec.conn}
            /\ Goes(h, [cb[h] EXCEPT !.at = "issuing", !.user = u])
       \/ ~MayCreate(h) /\ Ends(h) /\ UNCHANGED <<users, holder, named>>
    /\ UNCHANGED <<configVars, family, marker, marks, inits, states, completions, sweeping, outcomes>>

\* A user without access may join the binding's group first; the project is
\* the one fixed at init, or there is no session.
_maybe_enrol_existing_user(h) ==
    IF ~users[cb[h].user].access /\ cb[h].row.bind.join /\ DefaultGroup(cb[h].row) /\ up.group
    THEN [users EXCEPT ![cb[h].user].access = TRUE] ELSE users
_complete_login(h) ==
    LET u == cb[h].user
        s == cb[h].state
    IN /\ cb[h].at = "issuing"
       /\ users' = _maybe_enrol_existing_user(h)
       /\ IF users'[u].access /\ ProjectOf[cb[h].row.bind.key] \in up.projects
          THEN \E f \in Families :
                  /\ family[f].user = None
                  /\ family' = [family EXCEPT ![f] = [user |-> u, live |-> TRUE, fresh |-> TRUE]]
                  /\ outcomes' = [outcomes EXCEPT ![s] = @ + 1]
          ELSE UNCHANGED <<family, outcomes>>
       /\ Ends(h)
       /\ UNCHANGED <<configVars, holder, named, marker, marks, inits, states, completions, sweeping>>

----------------------------------------------------------------------------
(* Linking and reauthentication.                                            *)

\* The identity belongs to nobody else (link), or to the user (reauth).
Rightful(h) ==
    LET u == family[cb[h].rec.fam].user IN
    \/ /\ cb[h].at = "link" /\ LinkEnabled(cb[h].row) /\ Links(cb[h].row.bind.mode)
       /\ holder[cb[h].id] \in {None, u}
    \/ cb[h].at = "reauth" /\ holder[cb[h].id] = u
LookAtHolder(h) ==
    /\ cb[h].at \in {"link", "reauth"}
    /\ Goes(h, IF Rightful(h) THEN [cb[h] EXCEPT !.at = "authorizing"] ELSE Idle)
    /\ UNCHANGED OnlyCallback

\* authorize_oauth_session: WATCH and the reads,
WatchSession(h) ==
    /\ cb[h].at = "authorizing"
    /\ Goes(h, IF SessionStands(h) THEN [cb[h] EXCEPT !.at = "watching", !.dirty = FALSE] ELSE Idle)
    /\ UNCHANGED OnlyCallback

\* then EXEC, which fails when a watched key has changed.
authorize_oauth_session(h) ==
    LET s == cb[h].state
        f == cb[h].rec.fam
    IN /\ cb[h].at = "watching"
       /\ IF cb[h].dirty
          THEN /\ Goes(h, IF cb[h].tries + 1 < Attempts
                          THEN [cb[h] EXCEPT !.at = "authorizing", !.tries = @ + 1] ELSE Idle)
               /\ UNCHANGED <<marker, marks, completions, outcomes>>
          ELSE /\ completions' = completions \ {s}
               /\ IF cb[h].rec.purpose = "link"
                  THEN Goes(h, [cb[h] EXCEPT !.at = "linking"]) /\ UNCHANGED <<marker, marks, outcomes>>
                  ELSE /\ marks < MaxMarks /\ marks' = marks + 1
                       /\ marker' = [marker EXCEPT ![f] = marks + 1]
                       /\ outcomes' = [outcomes EXCEPT ![s] = @ + 1]
                       /\ cb' = [i \in Callbacks |-> IF i = h THEN Idle
                                    ELSE IF cb[i].at = "watching" /\ cb[i].rec.fam = f
                                    THEN [cb[i] EXCEPT !.dirty = TRUE] ELSE cb[i]]
       /\ UNCHANGED <<configVars, holder, named, users, family, inits, states, sweeping>>

\* sp_link_external_identity: one holder for an identity, one identity of a
\* namespace for a user.
MayLink(h) ==
    LET u == family[cb[h].rec.fam].user IN
    /\ catalog.status \in {"enabled", "degraded"} /\ catalog.link
    /\ holder[cb[h].id] \in {None, u}
    /\ \A i \in Identities \ {cb[h].id} : i[1] = cb[h].id[1] => holder[i] # u
_complete_link(h) ==
    /\ cb[h].at = "linking"
    /\ IF MayLink(h)
       THEN /\ holder' = [holder EXCEPT ![cb[h].id] = family[cb[h].rec.fam].user]
            /\ named' = IF holder[cb[h].id] = None THEN named \cup {cb[h].rec.conn} ELSE named
            /\ outcomes' = [outcomes EXCEPT ![cb[h].state] = @ + 1]
       ELSE UNCHANGED <<holder, named, outcomes>>
    /\ Ends(h)
    /\ UNCHANGED <<configVars, users, family, marker, marks, inits, states, completions, sweeping>>

----------------------------------------------------------------------------
(* Sessions and unlinking.                                                  *)

\* A handler between WATCH and EXEC finds out that its session changed.
\* Mutation: the keys are read but not watched.
NothingTouched(fs) == cb' = cb
Touch(fs) ==
    cb' = [h \in Callbacks |-> IF cb[h].at = "watching" /\ cb[h].rec.fam \in fs
                               THEN [cb[h] EXCEPT !.dirty = TRUE] ELSE cb[h]]
End(fs) == [f \in Families |-> IF f \in fs THEN [family[f] EXCEPT !.live = FALSE] ELSE family[f]]

\* A session ends or is rotated (AuthLifecycle); its sign-in is no longer
\* recent, which changes no key; a marker lives as long as the window.
SessionChanges(f) ==
    /\ family[f].live
    /\ \/ family' \in {End({f}), family} /\ Touch({f})
       \/ family' = [family EXCEPT ![f].fresh = FALSE] /\ cb' = cb
    /\ UNCHANGED <<configVars, holder, named, users, marker, marks, inits, states, completions,
                   sweeping, outcomes>>
MarkerExpires(f) ==
    /\ marker[f] > 0
    /\ marker' = [marker EXCEPT ![f] = 0]
    /\ Touch({f})
    /\ UNCHANGED <<configVars, holder, named, users, family, marks, inits, states, completions,
                   sweeping, outcomes>>

\* The user loses the project, is deactivated or chooses a password, on
\* routes of their own.
UserChanges(u, now) ==
    /\ users[u].st # "unused"
    /\ users' = [users EXCEPT ![u] = now]
    /\ UNCHANGED <<configVars, holder, named, family, marker, marks, inits, states, completions,
                   cb, sweeping, outcomes>>

unlink(p, f, k) ==
    LET r == Cached(p, <<"binding", k>>)
        u == family[f].user
        mine == {i \in Identities : i[1] = r.conn.ns /\ holder[i] = u}
    IN /\ family[f].live /\ users[u].st = "active"
       /\ Remember(p, <<"binding", k>>)
       /\ Available(r) /\ Reaches(u, r)
       /\ resolve_recent_authentication_proof(f) # {}
       /\ has_usable_fallback_auth(u)
       /\ mine # {}
       /\ holder' = [i \in Identities |-> IF i \in mine THEN None ELSE holder[i]]
       /\ sweeping' = sweeping \cup {u}
       /\ UNCHANGED <<catalog, conns, binds, allowed, up, writer, named, users, family, marker, marks,
                      inits, states, completions, cb, outcomes>>

revoke_user_auth_state(u) ==
    LET fs == {f \in Families : family[f].user = u} IN
    /\ u \in sweeping
    /\ sweeping' = sweeping \ {u}
    /\ family' = End(fs) /\ Touch(fs)
    /\ UNCHANGED <<configVars, holder, named, users, marker, marks, inits, states, completions, outcomes>>

Callback(h) ==
    \/ _resolve_for_record(h) \/ handle_callback(h) \/ exchange_code(h)
    \/ _resolve_user(h) \/ create_consumer_user_from_external_account(h) \/ _complete_login(h)
    \/ LookAtHolder(h) \/ WatchSession(h) \/ authorize_oauth_session(h) \/ _complete_link(h)

----------------------------------------------------------------------------

\* Accounts and sessions made by other means are there from the start.
NoUser == [st |-> "unused", hash |-> None, access |-> FALSE]
NoFamily == [user |-> None, live |-> FALSE, fresh |-> FALSE]
FlowInit ==
    /\ holder = [i \in Identities |-> None] /\ named = {}
    /\ users \in [Users -> {NoUser} \cup [st : {"active", "inactive"}, hash : {hash_password("chosen")},
                                          access : BOOLEAN]]
    /\ family \in [Families -> {NoFamily} \cup [user : Users, live : BOOLEAN, fresh : BOOLEAN]]
    /\ marker = [f \in Families |-> 0] /\ marks = 0
    /\ inits = [t \in InitTokens |-> Unused] /\ states = [s \in States |-> Unused]
    /\ completions = {} /\ cb = [h \in Callbacks |-> Idle] /\ sweeping = {}
    /\ outcomes = [s \in States |-> 0]

UserRoutes(u) ==
    \/ \E b \in BOOLEAN : UserChanges(u, [users[u] EXCEPT !.access = b])
    \/ \E st \in {"active", "inactive"} : UserChanges(u, [users[u] EXCEPT !.st = st])
    \/ UserChanges(u, [users[u] EXCEPT !.hash = hash_password("chosen")])

FlowNext ==
    \/ \E p \in Processes, k \in Keys, t \in InitTokens : oauth_init(p, k, t)
    \/ \E p \in Processes, t \in InitTokens, s \in States : start_from_init_token(p, t, s)
    \/ \E p \in Processes, f \in Families, k \in Keys, s \in States, q \in {"link", "reauth"} :
          start_session_round_trip(p, f, k, s, q)
    \/ \E s \in States : DeadlinePasses(s)
    \/ \E h \in Callbacks : \/ Callback(h)
                            \/ \E s \in States, p \in Processes : consume_state(h, p, s)
    \/ \E f \in Families : \/ SessionChanges(f) \/ MarkerExpires(f)
                           \/ \E p \in Processes, k \in Keys : unlink(p, f, k)
    \/ \E u \in Users : revoke_user_auth_state(u) \/ UserRoutes(u)
    \/ ConfigNext(named) /\ UNCHANGED flowVars

OAuthSpec == ConfigInit /\ FlowInit /\ [][FlowNext]_<<configVars, flowVars>>

----------------------------------------------------------------------------
(* Properties.                                                              *)

\* A round trip leads to one session, link or marker at most, though the
\* callback is delivered again while the first delivery is being handled,
\* by any process.
OneOutcome == \A s \in States : outcomes[s] <= 1

\* A link or a reauthentication is completed in the session that asked for
\* it: when the transaction goes through the family is live, the round trip
\* has not passed its deadline, and a marker that was its proof is the one
\* still stored.
CompletedInLiveSession ==
    [][\A h \in Callbacks :
          cb[h].at = "watching" /\ cb'[h].at \in {"linking", "idle"} /\ ~cb[h].dirty =>
             /\ cb[h].state \in completions
             /\ family[cb[h].rec.fam].live
             /\ cb[h].rec.purpose = "link" /\ cb[h].rec.proof[1] = "marker"
                   => cb[h].rec.proof[2] = marker[cb[h].rec.fam]]_cb

\* An account that was created for an external identity and has no password
\* of its own keeps the identity: it can always be signed in to.
\* "The account must have a usable password ... Accounts created by OAuth
\* auto-create have none until the user sets one."
NobodyLockedOut ==
    \A u \in Users : users[u].hash = hash_password("oauth-disabled")
                        => \E i \in Identities : holder[i] = u
=============================================================================
