--------------------------- MODULE AuthLifecycle ---------------------------
(***************************************************************************)
(* Issuing, validating, rotating and revoking token pairs, at the level of *)
(* the Redis commands of src/Util/auth_lifecycle.py and of the routes that *)
(* call it.  Every replica of the service runs these handlers against the  *)
(* same Redis and MySQL, so a handler may be interrupted between any two   *)
(* commands by a command of another one.                                   *)
(*                                                                         *)
(* A token pair is <<f, n>>: the n-th pair minted in family f.  It stands  *)
(* for the access jti and the refresh jti that are minted together and     *)
(* always stored, replaced and compared together.  One step is one Redis   *)
(* command, one MULTI/EXEC block or one database query; reads that follow  *)
(* one another and can only turn the answer into a denial are one step.    *)
(***************************************************************************)
EXTENDS Naturals, FiniteSets

CONSTANTS User,       \* user ids
          Family,     \* refresh family ids (uuid4, drawn once each)
          Owner,      \* Owner[f]: the user_id stored in family f
          Project,    \* project hashes; the scope of a project session
          Platform,   \* the scope of a platform session
          Proc,       \* request handlers and jobs running at the same time
          Can,        \* Can[p]: the operations handler p may run
          Events,     \* the expiries and database changes that may happen
          MaxGen,     \* bound: token pairs minted in one family
          Grace,      \* REFRESH_REPLAY_GRACE_SECONDS > 0
          DbErrors,   \* a swallowed database error may deny project access
          Crashes,    \* a handler may die between two commands
          None        \* the absent key, the null field

Op == {"login", "validate", "refresh", "switch", "logout", "password_change",
       "password_reset", "deactivate", "invalidate", "remove_access"}

Event == {"session_ttl", "family_ttl", "token_ttl", "grace", "grant"}

Scope == Project \cup {Platform}
Gen   == 1..MaxGen
Pair  == Family \X Gen

ASSUME OwnerAssumption == Owner \in [Family -> User]
ASSUME GenAssumption == MaxGen \in Nat \ {0}
ASSUME CanAssumption == Can \in [Proc -> SUBSET Op]
ASSUME EventAssumption == Events \subseteq Event
ASSUME NoneAssumption == None \notin User \cup Family \cup Scope \cup Pair
ASSUME FlagAssumption == {Grace, DbErrors, Crashes} \subseteq BOOLEAN

VARIABLES
    session,  \* session:{jti}: scope of the payload, None when absent
    family,   \* refresh_family:{id}: status, current pair and scope
    token,    \* refresh_token:{jti}: status and child
    anchor,   \* refresh_anchor:{id}: current pair (0: absent) and scope
    tomb,     \* families with a revoked_family:{id} tombstone
    usess,    \* user_sessions:{user}: index of access jtis
    ufam,     \* user_refresh_families:{user}: index of family ids
    active,   \* users with is_active set
    access,   \* <<u, s>>: reconstruct_auth_context grants u the scope s
    claim,    \* claim[<<f, n>>]: the scope signed into the JWTs of the pair
    held,     \* pairs a client has received
    aged,     \* used refresh tokens whose replay grace has run out
    pc,       \* pc[p]: the next command of handler p
    req,      \* req[p]: what handler p was called with
    scope,    \* scope[p]: the scope whose access p checks
    copy,     \* copy[p]: p's copy of a family record
    child,    \* child[p]: the successor of a refresh token, once p knows it
    item,     \* item[p]: the family p passed to revoke_refresh_family
    mark,     \* mark[p]: the status that revocation writes
    ret,      \* ret[p]: where that revocation returns to
    keys,     \* keys[p]: access sessions that revocation has still to delete
    sess,     \* sess[p]: members of the session index a sweep has still to visit
    fams,     \* fams[p]: members of the family index a sweep has still to visit
    seen,     \* seen[p]: revoked_families of a sweep
    at,       \* at[p]: the session a sweep is at
    cover,    \* history: the families the sweep of p is called to end
    dirty,    \* handlers whose WATCHed keys were written since the WATCH
    next,     \* history: pairs minted in each family
    rotated,  \* history: <<f, n, c>>, pair n was exchanged for pair c
    ended,    \* history: families revoked or expired
    swept     \* history: families a returned sweep had to end

redis == <<session, family, token, anchor, tomb, usess, ufam>>
db    == <<active, access>>
jwt   == <<claim, held>>
hist  == <<next, rotated, ended, swept>>
ctx   == <<scope, copy, child>>
rev   == <<item, mark, ret, keys>>
loop  == <<sess, fams, seen, at, cover>>
local == <<req, ctx, rev, loop>>
vars  == <<redis, db, jwt, aged, pc, local, dirty, hist>>

NoFamily == [status |-> "missing", cur |-> 0, scope |-> None]
NoToken  == [st |-> "missing", child |-> 0]
NoAnchor == [cur |-> 0, scope |-> None]

\* The arguments of a handler: the operation, the user it is about, the pair
\* whose token was presented and the project named in the request.  `late' is
\* history: the family had ended before the request arrived.
Call(o, u, f, n, t, l) ==
    [op |-> o, user |-> u, fam |-> f, gen |-> n, target |-> t, late |-> l]

NoCall == Call("none", None, None, 0, None, FALSE)

Init ==
    /\ session = [k \in Pair |-> None]
    /\ family = [f \in Family |-> NoFamily]
    /\ token = [k \in Pair |-> NoToken]
    /\ anchor = [f \in Family |-> NoAnchor]
    /\ tomb = {}
    /\ usess = [u \in User |-> {}]
    /\ ufam = [u \in User |-> {}]
    /\ active = User
    /\ access = User \X Scope
    /\ claim = [k \in Pair |-> None]
    /\ held = {}
    /\ aged = {}
    /\ pc = [p \in Proc |-> "idle"]
    /\ req = [p \in Proc |-> NoCall]
    /\ scope = [p \in Proc |-> None]
    /\ copy = [p \in Proc |-> NoFamily]
    /\ child = [p \in Proc |-> 0]
    /\ item = [p \in Proc |-> None]
    /\ mark = [p \in Proc |-> "revoked"]
    /\ ret = [p \in Proc |-> "idle"]
    /\ keys = [p \in Proc |-> {}]
    /\ sess = [p \in Proc |-> {}]
    /\ fams = [p \in Proc |-> {}]
    /\ seen = [p \in Proc |-> {}]
    /\ at = [p \in Proc |-> None]
    /\ cover = [p \in Proc |-> {}]
    /\ dirty = {}
    /\ next = [f \in Family |-> 0]
    /\ rotated = {}
    /\ ended = {}
    /\ swept = {}

-----------------------------------------------------------------------------
(* Control flow and the WATCH of Redis. *)

Goto(p, from, to) == pc[p] = from /\ pc' = [pc EXCEPT ![p] = to]

Proceed(p, to) == pc' = [pc EXCEPT ![p] = to] /\ UNCHANGED local

\* The handler returns and its local variables are gone.
Finish(p) ==
    /\ pc' = [pc EXCEPT ![p] = "idle"]
    /\ req' = [req EXCEPT ![p] = NoCall]
    /\ scope' = [scope EXCEPT ![p] = None]
    /\ copy' = [copy EXCEPT ![p] = NoFamily]
    /\ child' = [child EXCEPT ![p] = 0]
    /\ item' = [item EXCEPT ![p] = None]
    /\ mark' = [mark EXCEPT ![p] = "revoked"]
    /\ ret' = [ret EXCEPT ![p] = "idle"]
    /\ keys' = [keys EXCEPT ![p] = {}]
    /\ sess' = [sess EXCEPT ![p] = {}]
    /\ fams' = [fams EXCEPT ![p] = {}]
    /\ seen' = [seen EXCEPT ![p] = {}]
    /\ at' = [at EXCEPT ![p] = None]
    /\ cover' = [cover EXCEPT ![p] = {}]

Me(p) == <<req[p].fam, req[p].gen>>

\* The families of user u that clients hold tokens of.
Delivered(u) == {f \in Family : Owner[f] = u /\ <<f, 1>> \in held}

\* Handlers that WATCH the keys of family f.
Watchers(f) == {p \in Proc : pc[p] = "ref_exec" /\ req[p].fam = f}

\* A write to a key of family f that a rotation WATCHes.
Touch(f) == dirty' = dirty \cup Watchers(f)

\* The handler enters revoke_refresh_family(f, reason) and comes back to `back'.
CallRevoke(p, f, status, back) ==
    /\ pc' = [pc EXCEPT ![p] = "rev_family"]
    /\ item' = [item EXCEPT ![p] = f]
    /\ mark' = [mark EXCEPT ![p] = status]
    /\ ret' = [ret EXCEPT ![p] = back]
    /\ UNCHANGED keys

\* The request is denied, and the family of its token revoked.
RevokeOwn(p, status) ==
    /\ CallRevoke(p, req[p].fam, status, "idle")
    /\ UNCHANGED <<req, ctx, loop>>

\* _build_refresh_anchor_payload, for the pair c of the handler's family.
AnchorPayload(p, c) == [cur |-> c, scope |-> scope[p]]

-----------------------------------------------------------------------------
(* _issue_token_pair: called once the credentials are verified. *)

\* The credentials and the access to the scope are verified, the ids minted.
SignIn(p, f, s) ==
    /\ pc[p] = "idle" /\ "login" \in Can[p]
    /\ next[f] = 0
    /\ Owner[f] \in active
    /\ <<Owner[f], s>> \in access
    /\ next' = [next EXCEPT ![f] = 1]
    /\ claim' = [claim EXCEPT ![<<f, 1>>] = s]
    /\ req' = [req EXCEPT ![p] = Call("login", Owner[f], f, 1, None, FALSE)]
    /\ scope' = [scope EXCEPT ![p] = s]
    /\ pc' = [pc EXCEPT ![p] = "issue_session"]
    /\ UNCHANGED <<redis, db, held, aged, copy, child, rev, loop, dirty, rotated,
                   ended, swept>>

Login(p, f, s) == s \in Project /\ SignIn(p, f, s)

PlatformLogin(p, f) == SignIn(p, f, Platform)

IssueSession(p) ==
    /\ Goto(p, "issue_session", "issue_family")
    /\ session' = [session EXCEPT ![Me(p)] = scope[p]]
    /\ UNCHANGED <<family, token, anchor, tomb, usess, ufam, db, jwt, aged,
                   local, dirty, hist>>

IssueFamily(p) ==
    /\ Goto(p, "issue_family", "issue_token")
    /\ family' = [family EXCEPT ![req[p].fam] =
                    [status |-> "active", cur |-> 1, scope |-> scope[p]]]
    /\ Touch(req[p].fam)
    /\ UNCHANGED <<session, token, anchor, tomb, usess, ufam, db, jwt, aged,
                   local, hist>>

IssueToken(p) ==
    /\ Goto(p, "issue_token", "issue_anchor")
    /\ token' = [token EXCEPT ![Me(p)] = [st |-> "current", child |-> 0]]
    /\ Touch(req[p].fam)
    /\ UNCHANGED <<session, family, anchor, tomb, usess, ufam, db, jwt, aged,
                   local, hist>>

IssueAnchor(p) ==
    /\ Goto(p, "issue_anchor", "issue_sessions_index")
    /\ anchor' = [anchor EXCEPT ![req[p].fam] = AnchorPayload(p, 1)]
    /\ Touch(req[p].fam)
    /\ UNCHANGED <<session, family, token, tomb, usess, ufam, db, jwt, aged,
                   local, hist>>

IssueSessionsIndex(p) ==
    /\ Goto(p, "issue_sessions_index", "issue_families_index")
    /\ usess' = [usess EXCEPT ![req[p].user] = @ \cup {Me(p)}]
    /\ UNCHANGED <<session, family, token, anchor, tomb, ufam, db, jwt, aged,
                   local, dirty, hist>>

\* The last command; the response then carries the pair to the client.
IssueFamiliesIndex(p) ==
    /\ pc[p] = "issue_families_index"
    /\ ufam' = [ufam EXCEPT ![req[p].user] = @ \cup {req[p].fam}]
    /\ held' = held \cup {Me(p)}
    /\ Finish(p)
    /\ UNCHANGED <<session, family, token, anchor, tomb, usess, db, claim,
                   aged, dirty, hist>>

-----------------------------------------------------------------------------
(* Presenting a token: the routes that start from a client's pair. *)

\* A request carrying a token of pair k arrives; it goes on at label `to'.
Arrive(p, o, k, t, to) ==
    /\ pc[p] = "idle" /\ o \in Can[p]
    /\ k \in held
    /\ req' = [req EXCEPT ![p] =
                 Call(o, Owner[k[1]], k[1], k[2], t, k[1] \in ended)]
    /\ pc' = [pc EXCEPT ![p] = to]
    /\ UNCHANGED <<redis, db, jwt, aged, ctx, rev, loop, dirty, hist>>

Validate(p, k)       == Arrive(p, "validate", k, None, "acc_session")
Logout(p, k)         == Arrive(p, "logout", k, None, "acc_session")
ChangePassword(p, k) == Arrive(p, "password_change", k, None, "acc_session")
Refresh(p, k)        == k[2] < MaxGen /\ Arrive(p, "refresh", k, None, "ref_family")
SwitchProject(p, k, t) ==
    k[2] < MaxGen /\ Arrive(p, "switch", k, t, "acc_session")

-----------------------------------------------------------------------------
(* validate_access_session *)

\* GET session, _require_claim_session_match.
AccessSession(p) ==
    /\ pc[p] = "acc_session"
    /\ IF session[Me(p)] # None /\ session[Me(p)] = claim[Me(p)]
         THEN /\ pc' = [pc EXCEPT ![p] = "acc_family"]
              /\ scope' = [scope EXCEPT ![p] = session[Me(p)]]
              /\ UNCHANGED <<req, copy, child, rev, loop>>
         ELSE Finish(p)
    /\ UNCHANGED <<redis, db, jwt, aged, dirty, hist>>

\* Mutation: the session is trusted and the family never looked at.
AccessFamilyUnchecked(p) ==
    /\ Goto(p, "acc_family", "acc_user")
    /\ UNCHANGED <<redis, db, jwt, aged, local, dirty, hist>>

\* GET family and the comparisons of _require_active_family.
AccessFamily(p) ==
    /\ pc[p] = "acc_family"
    /\ LET fam == family[req[p].fam]
       IN IF fam.status = "active" /\ fam.cur = req[p].gen
                                   /\ fam.scope = scope[p]
            THEN Proceed(p, "acc_revoked")
            ELSE Finish(p)
    /\ UNCHANGED <<redis, db, jwt, aged, dirty, hist>>

\* is_refresh_family_revoked: a second GET of the family, then the tombstone.
IsRevoked(p, from, to) ==
    /\ pc[p] = from
    /\ IF family[req[p].fam].status \in {"revoked", "reused"}
           \/ req[p].fam \in tomb
         THEN Finish(p)
         ELSE Proceed(p, to)
    /\ UNCHANGED <<redis, db, jwt, aged, dirty, hist>>

\* load_active_user: a missing or inactive user revokes the family.
LoadActiveUser(p, from, to) ==
    /\ pc[p] = from
    /\ IF req[p].user \in active
         THEN Proceed(p, to)
         ELSE RevokeOwn(p, "revoked")
    /\ UNCHANGED <<redis, db, jwt, aged, dirty, hist>>

(***************************************************************************)
(* The rest of reconstruct_auth_context: platform user type, project       *)
(* status, admin assignment or consumer groups.  The group query goes      *)
(* through _safe_call_list, which turns a database error into no groups.   *)
(***************************************************************************)
ReconstructContext(p, from, to) ==
    /\ pc[p] = from
    /\ \/ /\ <<req[p].user, scope[p]>> \in access
          /\ Proceed(p, to)
       \/ /\ \/ <<req[p].user, scope[p]>> \notin access
             \/ DbErrors /\ scope[p] \in Project
          /\ RevokeOwn(p, "revoked")
    /\ UNCHANGED <<redis, db, jwt, aged, dirty, hist>>

(***************************************************************************)
(* The access token is accepted.  /auth/validate answers; logout revokes   *)
(* the family; switch-project checks the target project, then rotates;     *)
(* password change has stored the new hash and sweeps the other sessions.  *)
(***************************************************************************)
Accepted(p) ==
    /\ pc[p] = "accepted"
    /\ \/ req[p].op = "validate" /\ Finish(p)
       \/ /\ req[p].op = "logout"
          /\ RevokeOwn(p, "revoked")
       \/ /\ req[p].op = "switch"
          /\ IF <<req[p].user, req[p].target>> \in access
               THEN Proceed(p, "ref_family")
               ELSE Finish(p)
       \/ /\ req[p].op = "password_change"
          /\ pc' = [pc EXCEPT ![p] = "exc_sessions"]
          /\ cover' = [cover EXCEPT ![p] = Delivered(req[p].user) \ {req[p].fam}]
          /\ UNCHANGED <<req, ctx, rev, sess, fams, seen, at>>
    /\ UNCHANGED <<redis, db, jwt, aged, dirty, hist>>

-----------------------------------------------------------------------------
(* rotate_refresh_family *)

RefreshFamilyRecord(p) ==
    /\ Goto(p, "ref_family", "ref_token")
    /\ copy' = [copy EXCEPT ![p] = family[req[p].fam]]
    /\ UNCHANGED <<redis, db, jwt, aged, req, scope, child, rev, loop, dirty, hist>>

\* GET token, then the checks on both records; a token that is not current
\* is classified once the family is known not to be revoked.
RefreshTokenRecord(p) ==
    /\ pc[p] = "ref_token"
    /\ IF copy[p].status # "active" \/ token[Me(p)].st = "missing"
         THEN Finish(p)
         ELSE Proceed(p, IF copy[p].cur = req[p].gen /\ token[Me(p)].st = "current"
                           THEN "ref_revoked" ELSE "ref_stale")
    /\ UNCHANGED <<redis, db, jwt, aged, dirty, hist>>

\* The scope rotation works in: switch-project overrides the context's.
Rescoped(p, s) == IF req[p].target = None THEN s ELSE req[p].target

\* GET session of the family's current pair, the first source of context.
RefreshSession(p) ==
    /\ pc[p] = "ref_session"
    /\ IF session[Me(p)] = None
         THEN Proceed(p, "ref_anchor")
         ELSE IF session[Me(p)] = claim[Me(p)]
                THEN /\ pc' = [pc EXCEPT ![p] = "ref_user"]
                     /\ scope' = [scope EXCEPT ![p] = Rescoped(p, session[Me(p)])]
                     /\ UNCHANGED <<req, copy, child, rev, loop>>
                ELSE Finish(p)
    /\ UNCHANGED <<redis, db, jwt, aged, dirty, hist>>

\* The anchor, the second source; with neither the family is revoked.
RefreshAnchor(p) ==
    /\ pc[p] = "ref_anchor"
    /\ LET a == anchor[req[p].fam]
       IN \/ a = NoAnchor /\ RevokeOwn(p, "revoked")
          \/ /\ a # NoAnchor
             /\ IF a.cur = req[p].gen /\ a.scope = copy[p].scope
                                     /\ a.scope = claim[Me(p)]
                  THEN /\ pc' = [pc EXCEPT ![p] = "ref_user"]
                       /\ scope' = [scope EXCEPT ![p] = Rescoped(p, a.scope)]
                       /\ UNCHANGED <<req, copy, child, rev, loop>>
                  ELSE Finish(p)
    /\ UNCHANGED <<redis, db, jwt, aged, dirty, hist>>

\* Mutation: the second look compares the pair and forgets the status.
RefreshWatchPairOnly(p) ==
    /\ pc[p] = "ref_watch"
    /\ pc' = [pc EXCEPT ![p] =
         IF family[req[p].fam].cur = req[p].gen /\ token[Me(p)].st = "current"
           THEN "ref_exec" ELSE "cls_family"]
    /\ dirty' = dirty \ {p}
    /\ UNCHANGED <<redis, db, jwt, aged, local, hist>>

\* WATCH the family, token, anchor and tombstone keys and read them again.
RefreshWatch(p) ==
    /\ pc[p] = "ref_watch"
    /\ LET fam == family[req[p].fam]
       IN pc' = [pc EXCEPT ![p] =
            IF fam.status = "active" /\ fam.cur = req[p].gen
               /\ token[Me(p)].st = "current" /\ req[p].fam \notin tomb
              THEN "ref_exec" ELSE "cls_family"]
    /\ dirty' = dirty \ {p}
    /\ UNCHANGED <<redis, db, jwt, aged, local, hist>>

(***************************************************************************)
(* EXEC.  With a WATCHed key written since the WATCH nothing is executed   *)
(* and WatchError leads to the classification; otherwise the whole block   *)
(* takes effect at once.                                                   *)
(***************************************************************************)
RefreshExec(p) ==
    LET f == req[p].fam
        u == req[p].user
        s == scope[p]
        c == next[f] + 1
    IN \/ /\ p \in dirty
          /\ Goto(p, "ref_exec", "cls_family")
          /\ UNCHANGED <<redis, db, jwt, aged, local, dirty, hist>>
       \/ /\ p \notin dirty
          /\ Goto(p, "ref_exec", "rotated")
          /\ token' = [token EXCEPT ![Me(p)] = [st |-> "used", child |-> c],
                                    ![<<f, c>>] = [st |-> "current", child |-> 0]]
          /\ family' = [family EXCEPT ![f] = [copy[p] EXCEPT !.cur = c, !.scope = s]]
          /\ session' = [session EXCEPT ![<<f, c>>] = s, ![Me(p)] = None]
          /\ anchor' = [anchor EXCEPT ![f] = AnchorPayload(p, c)]
          /\ usess' = [usess EXCEPT ![u] = (@ \ {Me(p)}) \cup {<<f, c>>}]
          /\ ufam' = [ufam EXCEPT ![u] = @ \cup {f}]
          /\ claim' = [claim EXCEPT ![<<f, c>>] = s]
          /\ next' = [next EXCEPT ![f] = c]
          /\ rotated' = rotated \cup {<<f, req[p].gen, c>>}
          /\ child' = [child EXCEPT ![p] = c]
          /\ Touch(f)
          /\ UNCHANGED <<tomb, db, held, aged, req, scope, copy, rev, loop, ended,
                         swept>>

\* The response delivers the new pair.
Rotated(p) ==
    /\ pc[p] = "rotated"
    /\ held' = held \cup {<<req[p].fam, child[p]>>}
    /\ Finish(p)
    /\ UNCHANGED <<redis, db, claim, aged, dirty, hist>>

-----------------------------------------------------------------------------
(* classify_refresh_token_state: what a token that lost its place means. *)

ClassifyFamily(p) ==
    /\ Goto(p, "cls_family", "cls_token")
    /\ copy' = [copy EXCEPT ![p] = family[req[p].fam]]
    /\ UNCHANGED <<redis, db, jwt, aged, req, scope, child, rev, loop, dirty, hist>>

\* "invalid", "revoked" and "current" deny without a side effect.
ClassifyToken(p) ==
    /\ pc[p] = "cls_token"
    /\ IF copy[p].status = "active" /\ token[Me(p)].st = "used"
         THEN /\ pc' = [pc EXCEPT ![p] = "cls_revoked"]
              /\ child' = [child EXCEPT ![p] = token[Me(p)].child]
              /\ UNCHANGED <<req, scope, copy, rev, loop>>
         ELSE Finish(p)
    /\ UNCHANGED <<redis, db, jwt, aged, dirty, hist>>

\* Mutation: the comparison with the current pair is inverted.
BenignInverted(p) == Grace /\ child[p] # copy[p].cur /\ Me(p) \notin aged

\* _is_benign_refresh_replay
Benign(p) == Grace /\ child[p] = copy[p].cur /\ Me(p) \notin aged

ClassifyDecide(p) ==
    /\ pc[p] = "cls_decide"
    /\ IF Benign(p)
         THEN Finish(p)
         ELSE RevokeOwn(p, "reused")
    /\ UNCHANGED <<redis, db, jwt, aged, dirty, hist>>

-----------------------------------------------------------------------------
(* revoke_refresh_family *)

RevokeFamily(p) ==
    /\ Goto(p, "rev_family", "rev_mark")
    /\ copy' = [copy EXCEPT ![p] = family[item[p]]]
    /\ UNCHANGED <<redis, db, jwt, aged, req, scope, child, rev, loop, dirty, hist>>

\* SET the copy back with its new status.
RevokeMark(p) ==
    /\ Goto(p, "rev_mark", "rev_tomb")
    /\ family' = [family EXCEPT ![item[p]] =
                    [copy[p] EXCEPT !.status = mark[p]]]
    /\ ended' = ended \cup {item[p]}
    /\ Touch(item[p])
    /\ UNCHANGED <<session, token, anchor, tomb, usess, ufam, db, jwt, aged,
                   local, next, rotated, swept>>

RevokeTomb(p) ==
    /\ Goto(p, "rev_tomb", "rev_anchor")
    /\ tomb' = tomb \cup {item[p]}
    /\ Touch(item[p])
    /\ UNCHANGED <<session, family, token, anchor, usess, ufam, db, jwt, aged,
                   local, hist>>

RevokeAnchor(p) ==
    /\ Goto(p, "rev_anchor", "rev_index")
    /\ anchor' = [anchor EXCEPT ![item[p]] = NoAnchor]
    /\ Touch(item[p])
    /\ UNCHANGED <<session, family, token, tomb, usess, ufam, db, jwt, aged,
                   local, hist>>

\* Mutation: only the session the copy names.
RevokeIndexNamed(p) ==
    /\ Goto(p, "rev_index", "rev_sessions")
    /\ keys' = [keys EXCEPT ![p] = {k \in Pair : k = <<item[p], copy[p].cur>>}]
    /\ UNCHANGED <<redis, db, jwt, aged, req, ctx, item, mark, ret, loop, dirty,
                   hist>>

\* The copy's current session and, through the index, its siblings.  A copy
\* made from a missing record names neither a session nor a user.
RevokeIndex(p) ==
    /\ Goto(p, "rev_index", "rev_sessions")
    /\ LET f == item[p]
           named == {k \in Pair : k[1] = f /\ k[2] = copy[p].cur}
           listed == {k \in usess[Owner[f]] : k[1] = f}
       IN keys' = [keys EXCEPT ![p] =
                     IF copy[p].status = "missing" THEN {} ELSE named \cup listed]
    /\ UNCHANGED <<redis, db, jwt, aged, req, ctx, item, mark, ret, loop, dirty,
                   hist>>

\* revoke_access_session for each of them, in any order.
RevokeSession(p) ==
    /\ pc[p] = "rev_sessions"
    /\ \E k \in keys[p] :
         /\ session' = [session EXCEPT ![k] = None]
         /\ keys' = [keys EXCEPT ![p] = @ \ {k}]
    /\ UNCHANGED <<family, token, anchor, tomb, usess, ufam, db, jwt, aged, pc,
                   req, ctx, item, mark, ret, loop, dirty, hist>>

RevokeReturn(p) ==
    /\ pc[p] = "rev_sessions"
    /\ keys[p] = {}
    /\ IF ret[p] = "idle" THEN Finish(p) ELSE Proceed(p, ret[p])
    /\ UNCHANGED <<redis, db, jwt, aged, dirty, hist>>

-----------------------------------------------------------------------------
(* revoke_user_auth_state, after a database change about the user. *)

StartSweep(p, o, u) ==
    /\ pc[p] = "idle" /\ o \in Can[p]
    /\ req' = [req EXCEPT ![p] = Call(o, u, None, 0, None, FALSE)]
    /\ cover' = [cover EXCEPT ![p] = Delivered(u)]
    /\ pc' = [pc EXCEPT ![p] = "all_sessions"]
    /\ UNCHANGED <<ctx, rev, sess, fams, seen, at>>

\* consume_password_reset_token committed the new hash.
ResetPassword(p, u) ==
    /\ StartSweep(p, "password_reset", u)
    /\ UNCHANGED <<redis, db, jwt, aged, dirty, hist>>

Deactivate(p, u) ==
    /\ u \in active
    /\ StartSweep(p, "deactivate", u)
    /\ active' = active \ {u}
    /\ UNCHANGED <<redis, access, jwt, aged, dirty, hist>>

AllSessions(p) ==
    /\ Goto(p, "all_sessions", "all_delete")
    /\ sess' = [sess EXCEPT ![p] = usess[req[p].user]]
    /\ UNCHANGED <<redis, db, jwt, aged, req, ctx, rev, fams, seen, at, cover,
                   dirty, hist>>

AllDelete(p) ==
    /\ pc[p] = "all_delete"
    /\ \E k \in sess[p] :
         /\ session' = [session EXCEPT ![k] = None]
         /\ sess' = [sess EXCEPT ![p] = @ \ {k}]
    /\ UNCHANGED <<family, token, anchor, tomb, usess, ufam, db, jwt, aged, pc,
                   req, ctx, rev, fams, seen, at, cover, dirty, hist>>

\* Mutation: only the families that still have a session, looked up too late.
AllFamiliesWithSession(p) ==
    /\ sess[p] = {}
    /\ Goto(p, "all_delete", "all_revoke")
    /\ fams' = [fams EXCEPT ![p] = {f \in ufam[req[p].user] :
                                     \E n \in Gen : session[<<f, n>>] # None}]
    /\ UNCHANGED <<redis, db, jwt, aged, req, ctx, rev, sess, seen, at, cover,
                   dirty, hist>>

AllFamilies(p) ==
    /\ sess[p] = {}
    /\ Goto(p, "all_delete", "all_revoke")
    /\ fams' = [fams EXCEPT ![p] = ufam[req[p].user]]
    /\ UNCHANGED <<redis, db, jwt, aged, req, ctx, rev, sess, seen, at, cover,
                   dirty, hist>>

AllRevoke(p) ==
    /\ pc[p] = "all_revoke"
    /\ \E f \in fams[p] :
         /\ fams' = [fams EXCEPT ![p] = @ \ {f}]
         /\ CallRevoke(p, f, "revoked", "all_revoke")
    /\ UNCHANGED <<redis, db, jwt, aged, req, ctx, sess, seen, at, cover, dirty,
                   hist>>

(***************************************************************************)
(* DEL of both indexes; the sweep returns.  A deactivation then calls      *)
(* invalidate_user_sessions: the same sweep once more, and a SCAN over all *)
(* access sessions for those of the user.  keys[p] are the ones present    *)
(* when the SCAN begins; the sessions stored while it runs it may meet too.*)
(***************************************************************************)
AllClear(p) ==
    /\ pc[p] = "all_revoke"
    /\ fams[p] = {}
    /\ usess' = [usess EXCEPT ![req[p].user] = {}]
    /\ ufam' = [ufam EXCEPT ![req[p].user] = {}]
    /\ \/ /\ req[p].op = "password_reset"
          /\ swept' = swept \cup cover[p]
          /\ Finish(p)
       \/ /\ req[p].op = "deactivate"
          /\ pc' = [pc EXCEPT ![p] = "all_sessions"]
          /\ req' = [req EXCEPT ![p] =
                       Call("invalidate", req[p].user, None, 0, None, FALSE)]
          /\ UNCHANGED <<ctx, rev, loop, swept>>
       \/ /\ req[p].op = "invalidate"
          /\ pc' = [pc EXCEPT ![p] = "scan"]
          /\ keys' = [keys EXCEPT ![p] = {k \in Pair : session[k] # None
                                            /\ Owner[k[1]] = req[p].user}]
          /\ UNCHANGED <<req, ctx, item, mark, ret, loop, swept>>
    /\ UNCHANGED <<session, family, token, anchor, tomb, db, jwt, aged, dirty,
                   next, rotated, ended>>

\* cache_manager.invalidate_user_sessions meets a session of the user.
ScanDelete(p) ==
    /\ pc[p] = "scan"
    /\ \E k \in Pair :
         /\ session[k] # None /\ Owner[k[1]] = req[p].user
         /\ session' = [session EXCEPT ![k] = None]
    /\ UNCHANGED <<family, token, anchor, tomb, usess, ufam, db, jwt, aged, pc,
                   local, dirty, hist>>

\* The SCAN has returned every key that was there from its beginning.
ScanReturn(p) ==
    /\ pc[p] = "scan"
    /\ \A k \in keys[p] : session[k] = None
    /\ swept' = swept \cup cover[p]
    /\ Finish(p)
    /\ UNCHANGED <<redis, db, jwt, aged, dirty, next, rotated, ended>>

-----------------------------------------------------------------------------
(* revoke_user_auth_state_except_current, called by change_password. *)

ExceptSessions(p) ==
    /\ Goto(p, "exc_sessions", "exc_session")
    /\ sess' = [sess EXCEPT ![p] = usess[req[p].user]]
    /\ UNCHANGED <<redis, db, jwt, aged, req, ctx, rev, fams, seen, at, cover,
                   dirty, hist>>

(***************************************************************************)
(* One member of the session index: the caller's own jti is preserved, a   *)
(* dead member leaves the index, a sibling in the caller's family loses    *)
(* its session, and any other member has its family revoked (once).        *)
(***************************************************************************)
ExceptSession(p) ==
    /\ pc[p] = "exc_session"
    /\ \E k \in sess[p] :
         LET gone == session[k] = None
             sibling == k[1] = req[p].fam
         IN /\ sess' = [sess EXCEPT ![p] = @ \ {k}]
            /\ \/ k = Me(p) /\ UNCHANGED <<session, usess, pc, rev, at>>
               \/ /\ k # Me(p) /\ (gone \/ sibling)
                  /\ session' = [session EXCEPT ![k] = None]
                  /\ usess' = [usess EXCEPT ![req[p].user] = @ \ {k}]
                  /\ UNCHANGED <<pc, rev, at>>
               \/ /\ ~gone /\ ~sibling
                  /\ at' = [at EXCEPT ![p] = k]
                  /\ IF k[1] \in seen[p]
                       THEN /\ pc' = [pc EXCEPT ![p] = "exc_drop"]
                            /\ item' = [item EXCEPT ![p] = k[1]]
                            /\ UNCHANGED <<mark, ret, keys>>
                       ELSE CallRevoke(p, k[1], "revoked", "exc_drop")
                  /\ UNCHANGED <<session, usess>>
    /\ UNCHANGED <<family, token, anchor, tomb, ufam, db, jwt, aged, req, ctx,
                   fams, seen, cover, dirty, hist>>

\* Back from the revocation: SREM the family, delete and SREM the session.
ExceptDrop(p) ==
    /\ Goto(p, "exc_drop", "exc_session")
    /\ LET u == req[p].user
           f == item[p]
       IN /\ ufam' = [ufam EXCEPT ![u] = IF f \in seen[p] THEN @ ELSE @ \ {f}]
          /\ session' = [session EXCEPT ![at[p]] = None]
          /\ usess' = [usess EXCEPT ![u] = @ \ {at[p]}]
          /\ seen' = [seen EXCEPT ![p] = @ \cup {f}]
          /\ at' = [at EXCEPT ![p] = None]
    /\ UNCHANGED <<family, token, anchor, tomb, db, jwt, aged, req, ctx, rev, sess,
                   fams, cover, dirty, hist>>

ExceptFamilies(p) ==
    /\ sess[p] = {}
    /\ Goto(p, "exc_session", "exc_family")
    /\ fams' = [fams EXCEPT ![p] = ufam[req[p].user]]
    /\ UNCHANGED <<redis, db, jwt, aged, req, ctx, rev, sess, seen, at, cover,
                   dirty, hist>>

\* The families the session index did not lead to.
ExceptFamily(p) ==
    /\ pc[p] = "exc_family"
    /\ \E f \in fams[p] :
         /\ fams' = [fams EXCEPT ![p] = @ \ {f}]
         /\ IF f = req[p].fam \/ f \in seen[p]
              THEN UNCHANGED <<pc, rev>>
              ELSE CallRevoke(p, f, "revoked", "exc_remove")
    /\ UNCHANGED <<redis, db, jwt, aged, req, ctx, sess, seen, at, cover, dirty,
                   hist>>

ExceptRemove(p) ==
    /\ Goto(p, "exc_remove", "exc_family")
    /\ ufam' = [ufam EXCEPT ![req[p].user] = @ \ {item[p]}]
    /\ seen' = [seen EXCEPT ![p] = @ \cup {item[p]}]
    /\ UNCHANGED <<session, family, token, anchor, tomb, usess, db, jwt, aged, req,
                   ctx, rev, sess, fams, at, cover, dirty, hist>>

ExceptReturn(p) ==
    /\ pc[p] = "exc_family"
    /\ fams[p] = {}
    /\ swept' = swept \cup cover[p]
    /\ Finish(p)
    /\ UNCHANGED <<redis, db, jwt, aged, dirty, next, rotated, ended>>

-----------------------------------------------------------------------------
(* revoke_project_sessions_losing_access, after a group or project change. *)

\* The database change takes project s away from user u.
RemoveAccess(p, u, s) ==
    /\ pc[p] = "idle" /\ "remove_access" \in Can[p]
    /\ <<u, s>> \in access
    /\ access' = access \ {<<u, s>>}
    /\ req' = [req EXCEPT ![p] = Call("remove_access", u, None, 0, s, FALSE)]
    /\ pc' = [pc EXCEPT ![p] = "prj_sessions"]
    /\ UNCHANGED <<redis, active, jwt, aged, ctx, rev, loop, dirty, hist>>

ProjectSessions(p) ==
    /\ Goto(p, "prj_sessions", "prj_session")
    /\ sess' = [sess EXCEPT ![p] = usess[req[p].user]]
    /\ UNCHANGED <<redis, db, jwt, aged, req, ctx, rev, fams, seen, at, cover,
                   dirty, hist>>

\* A member whose session is gone leaves the index; one in another scope, or
\* whose user still has the project, is kept; the others lose their family.
ProjectSession(p) ==
    /\ pc[p] = "prj_session"
    /\ \E k \in sess[p] :
         LET u == req[p].user
             loses == session[k] = req[p].target /\ <<u, session[k]>> \notin access
         IN /\ sess' = [sess EXCEPT ![p] = @ \ {k}]
            /\ \/ /\ ~loses
                  /\ usess' = [usess EXCEPT ![u] = IF session[k] = None THEN @ \ {k}
                                                                        ELSE @]
                  /\ UNCHANGED <<pc, rev, at>>
               \/ /\ loses
                  /\ CallRevoke(p, k[1], "revoked", "prj_drop")
                  /\ at' = [at EXCEPT ![p] = k]
                  /\ UNCHANGED usess
    /\ UNCHANGED <<session, family, token, anchor, tomb, ufam, db, jwt, aged, req,
                   ctx, fams, seen, cover, dirty, hist>>

ProjectDrop(p) ==
    /\ Goto(p, "prj_drop", "prj_session")
    /\ session' = [session EXCEPT ![at[p]] = None]
    /\ usess' = [usess EXCEPT ![req[p].user] = @ \ {at[p]}]
    /\ at' = [at EXCEPT ![p] = None]
    /\ UNCHANGED <<family, token, anchor, tomb, ufam, db, jwt, aged, req, ctx, rev,
                   sess, fams, seen, cover, dirty, hist>>

ProjectReturn(p) ==
    /\ pc[p] = "prj_session"
    /\ sess[p] = {}
    /\ Finish(p)
    /\ UNCHANGED <<redis, db, jwt, aged, dirty, hist>>

-----------------------------------------------------------------------------
(* Time, the database and crashes. *)

\* A sign-in is still writing the keys of family f; no TTL is that short.
BeingIssued(f) == \E p \in Proc : req[p].op = "login" /\ req[p].fam = f

\* The access window (15 minutes) closes.  A session may also outlive its
\* family: a remember-me family ends at a fixed time, whenever it last rotated.
SessionExpires(k) ==
    /\ "session_ttl" \in Events
    /\ session[k] # None /\ ~BeingIssued(k[1])
    /\ session' = [session EXCEPT ![k] = None]
    /\ UNCHANGED <<family, token, anchor, tomb, usess, ufam, db, jwt, aged, pc,
                   local, dirty, hist>>

\* The family, its tokens, anchor and tombstone run out together.
FamilyExpires(f) ==
    /\ "family_ttl" \in Events
    /\ family[f].status # "missing" /\ ~BeingIssued(f)
    /\ family' = [family EXCEPT ![f] = NoFamily]
    /\ token' = [k \in Pair |-> IF k[1] = f THEN NoToken ELSE token[k]]
    /\ anchor' = [anchor EXCEPT ![f] = NoAnchor]
    /\ tomb' = tomb \ {f}
    /\ ended' = ended \cup {f}
    /\ Touch(f)
    /\ UNCHANGED <<session, usess, ufam, db, jwt, aged, pc, local, next, rotated,
                   swept>>

\* A used token keeps the TTL of the rotation that used it: it goes first.
TokenExpires(k) ==
    /\ "token_ttl" \in Events
    /\ token[k].st = "used"
    /\ token' = [token EXCEPT ![k] = NoToken]
    /\ Touch(k[1])
    /\ UNCHANGED <<session, family, anchor, tomb, usess, ufam, db, jwt, aged, pc,
                   local, hist>>

GraceEnds(k) ==
    /\ "grace" \in Events
    /\ token[k].st = "used" /\ k \notin aged
    /\ aged' = aged \cup {k}
    /\ UNCHANGED <<redis, db, jwt, pc, local, dirty, hist>>

\* An administrator gives the user a scope back.
Grant(u, s) ==
    /\ "grant" \in Events
    /\ <<u, s>> \notin access
    /\ access' = access \cup {<<u, s>>}
    /\ UNCHANGED <<redis, active, jwt, aged, pc, local, dirty, hist>>

\* The handler dies, or its response is lost: no later command, no delivery.
Crash(p) ==
    /\ Crashes
    /\ pc[p] # "idle"
    /\ Finish(p)
    /\ UNCHANGED <<redis, db, jwt, aged, dirty, hist>>

-----------------------------------------------------------------------------
\* A request or a job arrives at handler p.
Start(p) ==
    \/ \E f \in Family, s \in Project : Login(p, f, s)
    \/ \E f \in Family : PlatformLogin(p, f)
    \/ \E k \in Pair : Validate(p, k) \/ Logout(p, k) \/ ChangePassword(p, k)
                       \/ Refresh(p, k)
    \/ \E k \in Pair, t \in Project : SwitchProject(p, k, t)
    \/ \E u \in User : ResetPassword(p, u) \/ Deactivate(p, u)
    \/ \E u \in User, s \in Project : RemoveAccess(p, u, s)

\* Handler p executes its next command, by the function it is in.
IssueSteps(p) ==
    \/ IssueSession(p) \/ IssueFamily(p) \/ IssueToken(p) \/ IssueAnchor(p)
    \/ IssueSessionsIndex(p) \/ IssueFamiliesIndex(p)

AccessSteps(p) ==
    \/ AccessSession(p) \/ AccessFamily(p)
    \/ IsRevoked(p, "acc_revoked", "acc_user")
    \/ LoadActiveUser(p, "acc_user", "acc_context")
    \/ ReconstructContext(p, "acc_context", "accepted")
    \/ Accepted(p)

RefreshSteps(p) ==
    \/ RefreshFamilyRecord(p) \/ RefreshTokenRecord(p)
    \/ IsRevoked(p, "ref_revoked", "ref_session")
    \/ IsRevoked(p, "ref_stale", "cls_family")
    \/ RefreshSession(p) \/ RefreshAnchor(p)
    \/ LoadActiveUser(p, "ref_user", "ref_context")
    \/ ReconstructContext(p, "ref_context", "ref_watch")
    \/ RefreshWatch(p) \/ RefreshExec(p) \/ Rotated(p)
    \/ ClassifyFamily(p) \/ ClassifyToken(p)
    \/ IsRevoked(p, "cls_revoked", "cls_decide")
    \/ ClassifyDecide(p)

RevokeSteps(p) ==
    \/ RevokeFamily(p) \/ RevokeMark(p) \/ RevokeTomb(p) \/ RevokeAnchor(p)
    \/ RevokeIndex(p) \/ RevokeSession(p) \/ RevokeReturn(p)

AllSteps(p) ==
    \/ AllSessions(p) \/ AllDelete(p) \/ AllFamilies(p) \/ AllRevoke(p)
    \/ AllClear(p) \/ ScanDelete(p) \/ ScanReturn(p)

ExceptSteps(p) ==
    \/ ExceptSessions(p) \/ ExceptSession(p) \/ ExceptDrop(p)
    \/ ExceptFamilies(p) \/ ExceptFamily(p) \/ ExceptRemove(p) \/ ExceptReturn(p)

ProjectSteps(p) ==
    ProjectSessions(p) \/ ProjectSession(p) \/ ProjectDrop(p) \/ ProjectReturn(p)

Step(p) ==
    \/ IssueSteps(p) \/ AccessSteps(p) \/ RefreshSteps(p) \/ RevokeSteps(p)
    \/ AllSteps(p) \/ ExceptSteps(p) \/ ProjectSteps(p)

Environment ==
    \/ \E k \in Pair : SessionExpires(k) \/ TokenExpires(k) \/ GraceEnds(k)
    \/ \E f \in Family : FamilyExpires(f)
    \/ \E u \in User, s \in Project : Grant(u, s)

Next ==
    \/ \E p \in Proc : Start(p) \/ Step(p) \/ Crash(p)
    \/ Environment

Spec == Init /\ [][Next]_vars

-----------------------------------------------------------------------------
(* Types *)

Label == {"idle", "issue_session", "issue_family", "issue_token",
          "issue_anchor", "issue_sessions_index", "issue_families_index",
          "acc_session", "acc_family", "acc_revoked", "acc_user",
          "acc_context", "accepted", "ref_family", "ref_token", "ref_revoked",
          "ref_stale", "ref_session", "ref_anchor", "ref_user", "ref_context",
          "ref_watch", "ref_exec", "rotated", "cls_family", "cls_token",
          "cls_revoked", "cls_decide", "rev_family", "rev_mark", "rev_tomb",
          "rev_anchor", "rev_index", "rev_sessions", "all_sessions",
          "all_delete", "all_revoke", "scan", "exc_sessions", "exc_session",
          "exc_drop", "exc_family", "exc_remove", "prj_sessions",
          "prj_session", "prj_drop"}

FamilyRecord == [status : {"missing", "active", "revoked", "reused"},
                 cur : 0..MaxGen, scope : Scope \cup {None}]
TokenRecord  == [st : {"missing", "current", "used"}, child : 0..MaxGen]
AnchorRecord == [cur : 0..MaxGen, scope : Scope \cup {None}]
Request == [op : Op \cup {"none"}, user : User \cup {None},
            fam : Family \cup {None}, gen : 0..MaxGen,
            target : Project \cup {None}, late : BOOLEAN]

StoreOK ==
    /\ session \in [Pair -> Scope \cup {None}]
    /\ family \in [Family -> FamilyRecord]
    /\ token \in [Pair -> TokenRecord]
    /\ anchor \in [Family -> AnchorRecord]
    /\ tomb \in SUBSET Family
    /\ usess \in [User -> SUBSET Pair]
    /\ ufam \in [User -> SUBSET Family]
    /\ active \in SUBSET User
    /\ access \in SUBSET (User \X Scope)
    /\ claim \in [Pair -> Scope \cup {None}]
    /\ held \in SUBSET Pair
    /\ aged \in SUBSET Pair
    /\ dirty \in SUBSET Proc
    /\ next \in [Family -> 0..MaxGen]
    /\ rotated \in SUBSET (Family \X Gen \X Gen)
    /\ ended \in SUBSET Family
    /\ swept \in SUBSET Family

LocalOK ==
    /\ pc \in [Proc -> Label]
    /\ req \in [Proc -> Request]
    /\ scope \in [Proc -> Scope \cup {None}]
    /\ copy \in [Proc -> FamilyRecord]
    /\ child \in [Proc -> 0..MaxGen]
    /\ item \in [Proc -> Family \cup {None}]
    /\ mark \in [Proc -> {"revoked", "reused"}]
    /\ ret \in [Proc -> {"idle", "all_revoke", "exc_drop", "exc_remove", "prj_drop"}]
    /\ keys \in [Proc -> SUBSET Pair]
    /\ sess \in [Proc -> SUBSET Pair]
    /\ fams \in [Proc -> SUBSET Family]
    /\ seen \in [Proc -> SUBSET Family]
    /\ at \in [Proc -> Pair \cup {None}]
    /\ cover \in [Proc -> SUBSET Family]

\* Every key, index, column and local variable has the type the code gives it.
TypeOK == StoreOK /\ LocalOK

-----------------------------------------------------------------------------
(* Properties *)

\* A refresh token is exchanged at most once, however many handlers present it
\* at the same time: the WATCH in rotate_refresh_family lets one EXEC through.
RotatedOnce ==
    \A a, b \in rotated : a[1] = b[1] /\ a[2] = b[2] => a = b

\* A family that was revoked or has expired is never active again: no rotation
\* in flight and no stale copy writes an active record over the revocation.
EndedIsFinal == \A f \in ended : family[f].status # "active"

\* A request that arrives after the family ended is refused: it neither passes
\* validate_access_session nor obtains a pair from rotate_refresh_family.
NoLateAccept ==
    \A p \in Proc : pc[p] \in {"accepted", "rotated"} => ~req[p].late

\* Duplicates of one refresh do not destroy the family: it is marked reused
\* only if some token was presented after its grace, or two rotations late.
ReuseNeedsStaleToken ==
    \A f \in Family : family[f].status = "reused" =>
        ~Grace \/ next[f] >= 3 \/ \E n \in Gen : <<f, n>> \in aged

Revoking(p, f) ==
    /\ item[p] = f
    /\ pc[p] \in {"rev_mark", "rev_tomb", "rev_anchor", "rev_index", "rev_sessions"}

\* When revoke_refresh_family is done with a family no access session of it is
\* left, not even one a concurrent rotation had just stored.  (A record that
\* has expired no longer says whose sessions to look for: see family_ttl.)
RevocationClearsSessions ==
    \A f \in tomb : \/ \E p \in Proc : Revoking(p, f)
                    \/ \A n \in Gen : session[<<f, n>>] = None

\* A sweep ends every family whose tokens were delivered before it began: a
\* password reset or a deactivation all of the user's, a password change all
\* but the caller's.
SweptIsEnded == swept \subseteq ended

-----------------------------------------------------------------------------
(* The implementation of RefreshFamily. *)

Phase(f) == IF f \in ended THEN "ended"
            ELSE IF family[f].status = "active" THEN "live" ELSE "unborn"

Abstract == INSTANCE RefreshFamily WITH
    phase   <- [f \in Family |-> Phase(f)],
    current <- [f \in Family |-> IF Phase(f) = "unborn" THEN 0 ELSE next[f]],
    spent   <- [f \in Family |-> {n \in Gen : \E c \in Gen : <<f, n, c>> \in rotated}]

\* Seen from outside, the Redis commands of all the handlers together behave
\* like families that are issued once, exchange one token at a time and end.
Promise == Abstract!Spec
=============================================================================
