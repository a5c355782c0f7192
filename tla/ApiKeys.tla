------------------------------- MODULE ApiKeys -------------------------------
(***************************************************************************)
(* Project API keys: the rows of user_project_api_keys, the validation     *)
(* result that every replica shares in Redis for API_KEY_CACHE_TTL, and    *)
(* the routes that create, list, change and revoke keys.  A request that   *)
(* misses the cache looks the key up, then its project and owner, and only *)
(* then stores the result; a write commits first and drops the cached      *)
(* result afterwards.  Other requests run between these steps.  A project  *)
(* that is deleted, an admin that is removed from one and a user that is   *)
(* deactivated lose their access without any invalidation.                 *)
(***************************************************************************)
EXTENDS Naturals, FiniteSets

CONSTANTS Users, Projects,
          Keys,        \* public ids (uuid4, drawn once each)
          Owner,       \* Owner[k]: owner_user_id of key k
          Home,        \* Home[k]: project_id of key k
          Roots,       \* users of type root
          Admins,      \* users of type admin
          Scope,       \* Scope[a]: projects administered by a while it has access
          Managers,    \* users whose role gives manage_users
          MaxChecks,   \* bound: validations in flight
          MaxEdits,    \* bound: updates in flight
          MaxChanges   \* bound: access and account changes

ASSUME KeyAssumption ==
    /\ Owner \in [Keys -> Users] /\ Home \in [Keys -> Projects]
    /\ Scope \in [Users -> SUBSET Projects] /\ Roots \cup Admins \cup Managers \subseteq Users
    /\ \A u \in Users \ Admins : Scope[u] = {}
    /\ {MaxChecks, MaxEdits, MaxChanges} \subseteq Nat

VARIABLES
    uact,     \* users with is_active set
    access,   \* <<u, p>>: the group chain gives user u the project p
    gone,     \* projects that were deleted
    row,      \* key -> its row
    cached,   \* keys with an apikey:{public_id} entry
    checks,   \* validations between the lookup and the cache write
    edits,    \* updates between SELECT and UPDATE of sp_update_api_key
    drops,    \* cache invalidations that follow a commit
    strays,   \* history: keys whose entry, now or once stored, no invalidation reaches
    races,    \* history: keys that two updates in flight were both to reactivate
    changes   \* access and account changes so far

vars == <<uact, access, gone, row, cached, checks, edits, drops, strays, races, changes>>
live == <<uact, access, gone>>

Expiry == {"never", "future", "past"}
Row    == [made : BOOLEAN, active : BOOLEAN, revoked : BOOLEAN, expires : Expiry]
Check  == [key : Keys, mode : {"verify", "context"}, step : {"owner", "store"}]
Edit   == [id : 1..MaxEdits, key : Keys, revive : BOOLEAN, expires : {"future", "keep"}]
Drop   == ({"revoke", "update"} \X Keys) \cup ({"group"} \X Projects)

Init ==
    /\ uact \in SUBSET Users /\ access \in SUBSET (Users \X Projects)
    /\ row = [k \in Keys |-> [made |-> FALSE, active |-> FALSE, revoked |-> FALSE,
                              expires |-> "never"]]
    /\ gone = {} /\ cached = {} /\ checks = {} /\ edits = {} /\ drops = {}
    /\ strays = {} /\ races = {} /\ changes = 0

IsRoot(a) == a \in Roots
HasAccess(u, p) == p \notin gone /\ (IsRoot(u) \/ <<u, p>> \in access)
(* An entry of key k exists, or a validation is under way that may store it. *)
InFlight(k) == \E c \in checks : c.key = k
Held(k) == k \in cached \/ InFlight(k)
Lapse(K) == {k \in K : Held(k)}

\* sp_validate_api_key, in its order; revoked_at is not consulted.
ValidationStatus(k) ==
    CASE ~row[k].made                  -> "not_found"
      [] ~row[k].active                -> "revoked"
      [] row[k].expires = "past"       -> "expired"
      [] Owner[k] \notin uact          -> "owner_inactive"
      [] ~HasAccess(Owner[k], Home[k]) -> "no_project_access"
      [] OTHER                         -> "valid"
validate_api_key_lookup(k) == ValidationStatus(k) = "valid"

get_api_key_by_public_id(k) == row[k].made
list_user_api_keys(u) == {k \in Keys : row[k].made /\ Owner[k] = u}
list_project_api_keys(p, active_only) ==
    {k \in Keys : row[k].made /\ Home[k] = p /\ (active_only => row[k].active)}

----------------------------------------------------------------------------
(* Who may do what.  Every mutation also asks for a recent password entry.  *)

verify_admin_access(a) == a \in uact /\ (IsRoot(a) \/ a \in Admins)
AllowsProject(a, p) == IsRoot(a) \/ (p \in Scope[a] /\ HasAccess(a, p))
assert_admin_scope_for_project(a, p) == AllowsProject(a, p)
assert_manage_users_or_self(a, u) == IsRoot(a) \/ a = u \/ a \in Managers
user_in_scope(a, u) == IsRoot(a) \/ \E p \in Scope[a] : AllowsProject(a, p) /\ HasAccess(u, p)
get_project_by_hash(p) == p \notin gone
assert_key_ownership(u, k) == Owner[k] = u

scoped_user_keys(a, u) == {k \in list_user_api_keys(u) : AllowsProject(a, Home[k])}

(* What the reads answer, as the set of keys shown to a.                    *)
admin_list_api_keys(a) ==
    (UNION {list_project_api_keys(p, ao) :
              p \in {q \in Projects : get_project_by_hash(q) /\ assert_admin_scope_for_project(a, q)},
              ao \in BOOLEAN})
    \cup UNION {scoped_user_keys(a, u) : u \in {v \in Users : user_in_scope(a, v)}}
admin_get_api_key(a) ==
    {k \in Keys : get_api_key_by_public_id(k) /\ assert_admin_scope_for_project(a, Home[k])}
admin_list_user_api_keys(a) ==
    UNION {scoped_user_keys(a, u) : u \in {v \in Users : user_in_scope(a, v)}}
admin_list_project_api_keys(a) ==
    UNION {list_project_api_keys(p, FALSE) :
             p \in {q \in Projects : get_project_by_hash(q) /\ assert_admin_scope_for_project(a, q)}}
user_list_api_keys(u) == list_user_api_keys(u)
user_get_api_key(u) == {k \in Keys : get_api_key_by_public_id(k) /\ assert_key_ownership(u, k)}

Shown(a) ==
    user_list_api_keys(a) \cup user_get_api_key(a)
    \cup (IF verify_admin_access(a)
          THEN admin_list_api_keys(a) \cup admin_get_api_key(a)
               \cup admin_list_user_api_keys(a) \cup admin_list_project_api_keys(a)
          ELSE {})

----------------------------------------------------------------------------
(* Creation: the procedure checks the project, and the owner again unless   *)
(* root creates.                                                            *)

create_api_key(a, k, exp) ==
    /\ ~row[k].made /\ Owner[k] \in uact /\ get_project_by_hash(Home[k])
    /\ IsRoot(a) \/ HasAccess(Owner[k], Home[k])
    /\ exp # "past"
    /\ row' = [row EXCEPT ![k] = [made |-> TRUE, active |-> TRUE, revoked |-> FALSE,
                                  expires |-> exp]]
    /\ UNCHANGED <<live, cached, checks, edits, drops, strays, races, changes>>
admin_create_api_key(a, k, exp) ==
    /\ verify_admin_access(a) /\ assert_admin_scope_for_project(a, Home[k])
    /\ assert_manage_users_or_self(a, Owner[k]) /\ create_api_key(a, k, exp)
user_create_api_key(u, k, exp) ==
    /\ u \in uact /\ assert_key_ownership(u, k) /\ HasAccess(u, Home[k])
    /\ create_api_key(u, k, exp)

(* Revocation: only an active row; the cache entry goes after the commit.   *)
\* Mutation: nothing is registered to follow the commit.
RevokeRowOnly(k) ==
    /\ row[k].active
    /\ row' = [row EXCEPT ![k].active = FALSE, ![k].revoked = TRUE]
    /\ UNCHANGED <<live, cached, checks, edits, drops, strays, races, changes>>
revoke_api_key_with_cache_invalidation(k) ==
    /\ row[k].active
    /\ row' = [row EXCEPT ![k].active = FALSE, ![k].revoked = TRUE]
    /\ drops' = drops \cup {<<"revoke", k>>}
    /\ UNCHANGED <<live, cached, checks, edits, strays, races, changes>>
admin_revoke_api_key(a, k) ==
    /\ verify_admin_access(a) /\ get_api_key_by_public_id(k)
    /\ assert_admin_scope_for_project(a, Home[k]) /\ revoke_api_key_with_cache_invalidation(k)
user_revoke_api_key(u, k) ==
    /\ u \in uact /\ get_api_key_by_public_id(k) /\ assert_key_ownership(u, k)
    /\ revoke_api_key_with_cache_invalidation(k)

(* Update: the procedure reads the row, then writes it with what it read.   *)
(* "keep" stands for a call that changes the name or description only.      *)
Revives(k, exp) == row[k].expires = "past" /\ ~row[k].active /\ exp # "keep"
TakeUp(i, k, exp) ==
    /\ \A e \in edits : e.id # i
    /\ edits' = edits \cup {[id |-> i, key |-> k, expires |-> exp, revive |-> Revives(k, exp)]}
    /\ races' = IF Revives(k, exp) /\ \E e \in edits : e.key = k /\ e.revive THEN races \cup {k} ELSE races
    /\ UNCHANGED <<live, row, cached, checks, drops, strays, changes>>
\* Mutation: a revoked key is not refused.
BeginUpdateOfAny(i, k, exp) == TakeUp(i, k, exp)
BeginUpdate(i, k, exp) == ~row[k].revoked /\ TakeUp(i, k, exp)
admin_update_api_key(i, a, k, exp) ==
    /\ verify_admin_access(a) /\ get_api_key_by_public_id(k)
    /\ assert_admin_scope_for_project(a, Home[k]) /\ BeginUpdate(i, k, exp)
user_update_api_key(i, u, k, exp) ==
    /\ u \in uact /\ get_api_key_by_public_id(k) /\ assert_key_ownership(u, k)
    /\ BeginUpdate(i, k, exp)
update_api_key(e) ==
    /\ row' = [row EXCEPT ![e.key].active = @ \/ e.revive,
                          ![e.key].expires = IF e.expires = "keep" THEN @ ELSE e.expires]
    /\ edits' = edits \ {e}
    /\ drops' = IF e.expires = "keep" THEN drops ELSE drops \cup {<<"update", e.key>>}
    /\ UNCHANGED <<live, cached, checks, strays, races, changes>>

(* The sweep of api_key_expiry, every 300 s.                                *)
cleanup_expired_api_keys ==
    LET late == {k \in Keys : row[k].active /\ row[k].expires = "past"} IN
    /\ late # {}
    /\ row' = [k \in Keys |-> [row[k] EXCEPT !.active = @ /\ k \notin late]]
    /\ UNCHANGED <<live, cached, checks, edits, drops, strays, races, changes>>

----------------------------------------------------------------------------
(* Validation.  A cache hit answers at once and changes nothing.            *)

\* Mutation: the cache entry is written although the lookup said no.
LookupAnything(k, mode) ==
    /\ k \notin cached /\ row[k].made /\ Cardinality(checks) < MaxChecks
    /\ checks' = checks \cup {[key |-> k, mode |-> mode, step |-> "owner"]}
    /\ UNCHANGED <<live, row, cached, edits, drops, strays, races, changes>>
validate_api_key_context(k, mode) ==
    /\ k \notin cached /\ validate_api_key_lookup(k) /\ Cardinality(checks) < MaxChecks
    /\ checks' = checks \cup {[key |-> k, mode |-> mode, step |-> "owner"]}
    /\ UNCHANGED <<live, row, cached, edits, drops, strays, races, changes>>
(* The middleware keeps a key whose owner lost the project, with no         *)
(* permissions; the dependency refuses it.                                  *)
ResolveOwner(c) ==
    /\ c.step = "owner"
    /\ checks' = (checks \ {c}) \cup
         {d \in {[c EXCEPT !.step = "store"]} :
            /\ Owner[c.key] \in uact /\ Home[c.key] \notin gone
            /\ c.mode = "verify" => HasAccess(Owner[c.key], Home[c.key])}
    /\ UNCHANGED <<live, row, cached, edits, drops, races, changes>>
    /\ strays' = {k \in strays : Held(k)'}
set_api_key(c) ==
    /\ c.step = "store"
    /\ cached' = cached \cup {c.key} /\ checks' = checks \ {c}
    /\ UNCHANGED <<live, row, edits, drops, strays, races, changes>>

KeysOf(d) == {k \in Keys : IF d[1] = "group" THEN Home[k] = d[2] ELSE k = d[2]}
(* The delete reaches the entry, not the result a validation under way is   *)
(* about to store.                                                          *)
invalidate_api_key(d) ==
    /\ cached' = cached \ KeysOf(d) /\ drops' = drops \ {d}
    /\ strays' = (strays \ KeysOf(d)) \cup {k \in KeysOf(d) : InFlight(k)}
    /\ UNCHANGED <<live, row, checks, edits, races, changes>>
(* The process dies, or Redis refuses the delete (the error is logged).     *)
InvalidationLost(d) ==
    /\ drops' = drops \ {d} /\ strays' = strays \cup Lapse(KeysOf(d))
    /\ UNCHANGED <<live, row, cached, checks, edits, races, changes>>
CacheExpires(k) ==
    /\ k \in cached /\ cached' = cached \ {k}
    /\ UNCHANGED <<live, row, checks, edits, drops, races, changes>>
    /\ strays' = {j \in strays : Held(j)'}

----------------------------------------------------------------------------
(* The rest of the system, as far as keys depend on it.                     *)

Change == changes < MaxChanges /\ changes' = changes + 1
(* A committed group write invalidates the keys of the projects it touches. *)
invalidate_project_api_keys(u, p) ==
    /\ Change /\ p \notin gone
    /\ access' = IF <<u, p>> \in access THEN access \ {<<u, p>>} ELSE access \cup {<<u, p>>}
    /\ drops' = drops \cup {<<"group", p>>}
    /\ UNCHANGED <<uact, gone, row, cached, checks, edits, strays, races>>
(* These invalidate nothing: invalidate_user_cache has no pattern for the   *)
(* entries, and the deletion of a project and of its containments calls     *)
(* nothing at all.                                                          *)
Unannounced(K) ==
    /\ Change /\ strays' = strays \cup Lapse(K)
    /\ UNCHANGED <<row, cached, checks, edits, drops, races>>
DeactivateOwner(u) ==
    /\ u \in uact /\ uact' = uact \ {u} /\ UNCHANGED <<access, gone>>
    /\ Unannounced({k \in Keys : Owner[k] = u})
delete_project(a, p) ==
    /\ verify_admin_access(a) /\ p \notin gone /\ AllowsProject(a, p)
    /\ gone' = gone \cup {p} /\ access' = {t \in access : t[2] # p} /\ UNCHANGED uact
    /\ Unannounced({k \in Keys : Home[k] = p})
remove_admin_from_project(u, p) ==
    /\ u \in Admins /\ p \in Scope[u] /\ <<u, p>> \in access
    /\ access' = access \ {<<u, p>>} /\ UNCHANGED <<uact, gone>>
    /\ Unannounced({k \in Keys : Owner[k] = u /\ Home[k] = p})
TimePasses(k) ==
    /\ row[k].expires = "future" /\ row' = [row EXCEPT ![k].expires = "past"]
    /\ strays' = strays \cup Lapse({k})
    /\ UNCHANGED <<live, cached, checks, edits, drops, races, changes>>

Next ==
    \/ \E a \in Users, k \in Keys :
         \/ admin_revoke_api_key(a, k) \/ user_revoke_api_key(a, k)
         \/ \E exp \in {"never", "future"} :
              admin_create_api_key(a, k, exp) \/ user_create_api_key(a, k, exp)
         \/ \E exp \in {"future", "keep"}, i \in 1..MaxEdits :
              admin_update_api_key(i, a, k, exp) \/ user_update_api_key(i, a, k, exp)
    \/ \E e \in edits : update_api_key(e)
    \/ cleanup_expired_api_keys
    \/ \E k \in Keys, mode \in {"verify", "context"} : validate_api_key_context(k, mode)
    \/ \E c \in checks : ResolveOwner(c) \/ set_api_key(c)
    \/ \E d \in drops : invalidate_api_key(d) \/ InvalidationLost(d)
    \/ \E k \in Keys : CacheExpires(k) \/ TimePasses(k)
    \/ \E u \in Users :
         \/ DeactivateOwner(u)
         \/ \E p \in Projects : \/ invalidate_project_api_keys(u, p) \/ delete_project(u, p)
                              \/ remove_admin_from_project(u, p)

Spec == Init /\ [][Next]_vars

(* Redis expires entries, and a request past its lookup goes on to store.   *)
Fairness ==
    /\ \A k \in Keys : WF_vars(CacheExpires(k))
    /\ WF_vars(\E c \in checks : ResolveOwner(c) \/ set_api_key(c))
FairSpec == Spec /\ Fairness

----------------------------------------------------------------------------
(* Type invariant of the key rows, the cache and the requests in flight.    *)
KeysTypeOK ==
    /\ uact \subseteq Users /\ access \subseteq Users \X Projects /\ gone \subseteq Projects
    /\ row \in [Keys -> Row] /\ cached \subseteq Keys /\ strays \cup races \subseteq Keys
    /\ checks \subseteq Check /\ edits \subseteq Edit /\ drops \subseteq Drop
    /\ changes \in 0..MaxChanges
    /\ \A k \in Keys : row[k].active \/ row[k].revoked => row[k].made

(* A cached result whose key no longer validates is about to be dropped, or *)
(* it was there, or on its way from a lookup, at a moment the code lets     *)
(* pass: the invalidation ran while a validation was past its lookup, the   *)
(* invalidation was lost, or what ended the key (deactivation, removal of   *)
(* an admin, deletion of the project, the clock) has none.  A lookup made   *)
(* after that moment never puts the key back.                               *)
CacheFollowsRows ==
    \A k \in cached : \/ validate_api_key_lookup(k)
                      \/ \E d \in drops : k \in KeysOf(d)
                      \/ k \in strays

(* Revocation is permanent: sp_update_api_key never makes a revoked key     *)
(* active again.                                                            *)
RevocationIsPermanent == \A k \in Keys : ~(row[k].revoked /\ row[k].active)
(* It is, unless two updates read the same lapsed key before either wrote.  *)
RevivedOnlyByRace == \A k \in Keys : row[k].revoked /\ row[k].active => k \in races

(* No read of the key routes shows a key to a user who neither owns it nor  *)
(* administers its project.                                                 *)
ShownInScope ==
    \A a \in Users : \A k \in Shown(a) : Owner[k] = a \/ AllowsProject(a, Home[k])

(* What the key routes list is true and is the caller's to see: a key that  *)
(* was revoked is active only if two updates that were both to reactivate   *)
(* it overlapped, and no key is shown out of scope.                         *)
ListingsAreTrue == RevivedOnlyByRace /\ ShownInScope

(* Once a key is revoked it ends up out of the cache for good, unless two   *)
(* updates revive it: the race with a validation under way is healed by the *)
(* expiry of the entry.                                                     *)
RevokedKeyDies == \A k \in Keys : row[k].revoked ~> (k \in races \/ [](k \notin cached))
=============================================================================
